SPECIFICATION FairSpec
CONSTANTS
  Threads = {t1, t2}
  Flusher = main
  NoThread = none
  MaxSA = 3
  SegCount = 2
  Messages = {m1}
  NoMessage = nomsg
  Mids = {1}
  Hosts = {h1}
  NoHost = nohost
  Stored = {1}
  Limit = 0
  Policy = "KEEP"
  RngFails = FALSE
  Jobs = {"checkout", "new", "unique"}
INVARIANT NoCircularWait
INVARIANT PeersTracked
PROPERTY DestroyTerminates
