CONSTANTS
  Threads = {t1, t2, t3}
  Epochs = 1
  TrainingFiles = 3
  TestFiles = 3
  WakeupOrders = {"any"}
  MaxSpurious = 0
SPECIFICATION FairSpec
PROPERTY JobsEnd
CHECK_DEADLOCK FALSE
