SPECIFICATION Spec
CONSTANTS
  Threads = {t1, t2, t3}
  Flusher = main
  NoThread = none
  MaxSA = 2
  SegCount = 1
  Messages = {m1}
  NoMessage = nomsg
  Mids = {1}
  Hosts = {h1, h2}
  NoHost = nohost
  Stored = {}
  Limit = 0
  Policy = "NO"
  RngFails = TRUE
  Jobs = {"init", "message", "destroy"}
SYMMETRY Symmetric
INVARIANT TypeOK
INVARIANT OneSAPerInit
INVARIANT NoStaleProcessing
INVARIANT NoLostWakeup
INVARIANT HalfOpenExact
INVARIANT NoUseAfterFree
