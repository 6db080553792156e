SPECIFICATION FairSpec
CONSTANTS
  MaxTurns = 2
  MaxMalformed = 3
  MaxCalls = 1
  MaxConsecutive = 2
  MaxTotal = 3
  MaxTruncated = 2
  StallTurns = 2
  StuckRepeats = 2
  Verify = FALSE
  VerifyRounds = 1
  Guarded = TRUE
  NoChangeTurns = 2
  RequireChanges = FALSE
  FailureKinds <- MCFailureKinds
  Commands <- MCCommands
  Outputs <- MCOutputs
INVARIANTS
  TypeOK
PROPERTIES
  UserFollowsAssistant
  RunReturns
