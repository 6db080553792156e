SPECIFICATION FairSpec
CONSTANTS
  PipeSize = 1
  ChunkSize = 2
  Cap = 1
  MaxOutput = 3
  MaxInput = 2
INVARIANTS
  NothingOutlivesTheCall
  AnswerIsTrue
PROPERTY CallReturns
