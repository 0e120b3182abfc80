SPECIFICATION Spec
CONSTANTS
  ini = ini
  rsp = rsp
  Ini = ini
  Rsp = rsp
  Work <- WorkSetup
  Garbled <- GarbledSetup
  Tries = 1
  MaxRetries = 2
  Cookies = FALSE
  Setup = FALSE
  Failures = FALSE
  MaxMid = 6
  MaxMore = 1
  MaxOutages = 0
INVARIANTS MidsInStep
CHECK_DEADLOCK FALSE
