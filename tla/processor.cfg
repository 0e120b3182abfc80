SPECIFICATION Spec
CONSTANTS
  Workers = {w1, w2, w3}
  s = s
  bl = bl
  hi = hi
  lo = lo
  Jobs = {bl, hi, lo}
  Scheduler = s
  Nothing = nothing
  Prio <- MCPrio
  Cancel <- MCCancel
  Reserved <- TwoCritical
  Counts = {3}
  MaxRuns = 2
INVARIANTS TypeOK OneOwner CriticalReserved
PROPERTIES CancelReturns JobsRun
