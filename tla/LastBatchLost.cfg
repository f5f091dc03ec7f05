CONSTANTS
  Threads = {t1, t2}
  Epochs = 1
  TrainingFiles = 2
  TestFiles = 2
  WakeupOrders = {"any"}
  MaxSpurious = 1
SPECIFICATION Spec
INVARIANT AccuracyCountsEveryBatch
CHECK_DEADLOCK FALSE
