SPECIFICATION Spec
CONSTANTS
  MaxTurns = 3
  MaxMalformed = 1
  MaxCalls = 2
  MaxConsecutive = 1
  MaxTotal = 1
  MaxTruncated = 1
  StallTurns = 0
  StuckRepeats = 0
  Verify = TRUE
  VerifyRounds = 1
  Guarded = TRUE
  NoChangeTurns = 2
  RequireChanges = TRUE
  FailureKinds <- MCFailureKinds
  Commands <- MCCommands
  Outputs <- MCOutputs
INVARIANTS
  HistoryIsComplete
  CompletedIsVerified
  ChangedIsTrue
  FinishIsHonest
  ExportedOnce
  RunEndOnce
PROPERTIES
  FeedbackChangesSomething
