CONSTANTS
  Nodes = {n1, n2, n3, n4}
  NoNode = NoNode
  Files <- Paths
  Scale = 4
  Predictions = {1, 2, 3}
  Threshold = 2
  MaxIterations = 2
SPECIFICATION Spec
SYMMETRY Symmetry
INVARIANT EveryConflictIsFound
