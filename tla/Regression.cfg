\* Every file of at most three rows, with and without a newline at its end, all
\* scores between three thresholds, two epochs.
SPECIFICATION Spec
CONSTANTS
  MaxRows = 3
  Thresholds = 3
  Threshold = 1
  Epochs = 2
INVARIANTS
  TypeOK
  EveryRowTrainsOnce
  CountsAreOfThisPass
  BestThresholdIsBest
  TestsCountRows
