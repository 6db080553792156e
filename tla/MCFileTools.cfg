SPECIFICATION Spec
CONSTANTS
  MaxCalls = 2
  MaxRivals = 2
INVARIANTS
  WriteIsAtomic
  NothingThroughALink
  TempsAreRemoved
