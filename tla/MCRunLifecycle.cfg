SPECIFICATION Spec
CONSTANTS
  MaxRuns = 2
  MaxDead = 2
  Scenarios <- CrashOrSequential
INVARIANTS
  WorkNotLost
  FailedResumeRestores
  CompletedIsExported
CHECK_DEADLOCK FALSE
