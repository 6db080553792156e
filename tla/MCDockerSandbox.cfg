SPECIFICATION FairSpec
CONSTANTS
  MaxTurns <- MCMaxTurns
  MaxDiskCheckFailures <- MCMaxDiskCheckFailures
  SettleChecks <- MCSettleChecks
INVARIANTS
  TypeOK
  LockDiscipline
  BreachKeepsContainerDead
  ViolationSurfaces
PROPERTIES
  FirstViolationStands
  BashLeavesNothing
  RunEnds
