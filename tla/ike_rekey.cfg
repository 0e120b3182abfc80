SPECIFICATION Spec
CONSTANTS
  a = a
  b = b
  Peers = {a, b}
  MaxRekeys <- TwiceAndOnce
  MaxEvents = 1
INVARIANTS ChildrenSurvive OneSAInCommon
PROPERTIES NoSilentLoss Settles
CHECK_DEADLOCK FALSE
