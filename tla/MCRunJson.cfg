SPECIFICATION JsonSpec
CONSTANTS
  c1 = c1
  c2 = c2
  c3 = c3
  Commands <- MCCommands
  MaxTries = 2
SYMMETRY Symmetry
INVARIANTS
  ConflictMeansProgress
PROPERTIES
  RecordSpec
