\* The least files: with and without a row, with and without a newline.
SPECIFICATION Spec
CONSTANTS
  MaxRows = 1
  Thresholds = 1
  Threshold = 0
  Epochs = 1
INVARIANT TestCountsEveryLine
