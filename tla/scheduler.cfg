SPECIFICATION Spec
CONSTANTS
  MaxJobs = 5
  MaxTime = 2
INVARIANT NeverOversleeps
PROPERTIES ImplementsTimers EventsFire
