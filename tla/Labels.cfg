CONSTANTS
  Nodes = {n1, n2, n3, n4, n5}
  NoNode = NoNode
  MaxNegatives = 3
SPECIFICATION Spec
SYMMETRY Symmetry
INVARIANTS
  TypeOK
  CliqueViewsAgree
  CliqueTreesShallow
  OutputIsClosure
PROPERTY ImplementsLabelClosure
