SPECIFICATION Spec
CONSTANTS
  MaxRuns = 2
  MaxDead = 1
  Scenarios <- InterruptOnly
INVARIANT InterruptedRunKeepsWork
CHECK_DEADLOCK FALSE
