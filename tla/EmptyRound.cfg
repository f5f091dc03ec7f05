CONSTANTS
  ExecutionThreads = 3
  FullBatch = 6
  MaxLines = 13
SPECIFICATION Spec
INVARIANT NoEmptyTrainingRound
