SPECIFICATION FairSpec
CONSTANTS
  MaxTurns = 2
  MaxWrites = 1
  MaxResets = 1
  MaxFaults = 2
INVARIANTS
  KillLosesOnlyTheTurn
  NoticeOnce
  CacheIsFresh
PROPERTIES
  LogSpec
  RunCloses
