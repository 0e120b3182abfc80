SPECIFICATION FairSpec
CONSTANTS
  Threads = {t1, t2}
  Flusher = main
  NoThread = none
  MaxSA = 1
  SegCount = 1
  Messages = {m1}
  NoMessage = nomsg
  Mids = {1}
  Hosts = {h1}
  NoHost = nohost
  Stored = {}
  Limit = 0
  Policy = "REPLACE"
  RngFails = TRUE
  Jobs = {"init", "message", "destroy"}
CHECK_DEADLOCK FALSE
PROPERTY DestroyTerminates
