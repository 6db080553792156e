SPECIFICATION Spec
CONSTANTS
  MaxCalls = 2
  MaxRivals = 1
  StatFails = {{"keep"}}
INVARIANTS
  SnapshotIsTrue
  NewRunStartsOrLeavesNothing
PROPERTIES
  NothingClobbered
  CleanAfterwards
