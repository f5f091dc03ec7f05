CONSTANTS
  Threads = {t1, t2, t3}
  Epochs = 2
  TrainingFiles = 3
  TestFiles = 3
  WakeupOrders = {"any", "fifo"}
  MaxSpurious = 1
SPECIFICATION FairSpec
CHECK_DEADLOCK FALSE
INVARIANTS
  TypeOK
  CountMatchesTurns
  AllThreadsParked
  StableCoefficients
  StragglersAreOfLastBatch
  NoStandstill
PROPERTIES
  RoundBarrier
  ImplementsSerialBatches
  StepsRunOut
  JobsEndInLine
