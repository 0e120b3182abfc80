SPECIFICATION Spec
CONSTANTS
  ini = ini
  rsp = rsp
  Ini = ini
  Rsp = rsp
  Work <- WorkBoth
  Garbled = {}
  Tries = 1
  MaxRetries = 1
  Cookies = FALSE
  Setup = FALSE
  Failures = TRUE
  MaxMid = 10
  MaxMore = 3
  MaxOutages = 1
INVARIANTS TypeOK AnswerKept MidsInStep NoMismatch NoEarlyGiveUp
PROPERTIES ImplementsExchange
CHECK_DEADLOCK FALSE
