SPECIFICATION Spec
CONSTANTS
  ini = ini
  rsp = rsp
  Ini = ini
  Rsp = rsp
  Work <- WorkSetup
  Garbled <- GarbledSetup
  Tries = 1
  MaxRetries = 2
  Cookies = TRUE
  Setup = TRUE
  Failures = TRUE
  MaxMid = 7
  MaxMore = 2
  MaxOutages = 1
PROPERTIES ImplementsExchange TasksEnd
CHECK_DEADLOCK FALSE
