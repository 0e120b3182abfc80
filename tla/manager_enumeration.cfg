SPECIFICATION Spec
CONSTANTS
  Threads = {t1, t2, t3}
  Flusher = main
  NoThread = none
  MaxSA = 2
  SegCount = 2
  Messages = {m1}
  NoMessage = nomsg
  Mids = {1}
  Hosts = {h1}
  NoHost = nohost
  Stored = {1}
  Limit = 0
  Policy = "NO"
  RngFails = FALSE
  Jobs = {"scan", "spawn", "destroy"}
SYMMETRY Symmetric
PROPERTY ImplementsCheckout
