SPECIFICATION FairSpec
CONSTANTS
  Threads = {t1, t2, t3}
  Flusher = main
  NoThread = none
  MaxSA = 2
  SegCount = 1
  Messages = {m1}
  NoMessage = nomsg
  Mids = {1}
  Hosts = {h1}
  NoHost = nohost
  Stored = {1, 2}
  Limit = 0
  Policy = "NO"
  RngFails = FALSE
  Jobs = {"checkout", "list", "quit", "flush"}
CHECK_DEADLOCK FALSE
INVARIANT Exclusive
INVARIANT NoUseAfterFree
PROPERTY FlushTerminates
