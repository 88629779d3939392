SPECIFICATION Spec
CONSTANTS
  n1 = n1
  n2 = n2
  n3 = n3
  n4 = n4
  a = a
  b = b
  NULL = NULL
  Nodes <- FourNodes
  Data <- TwoData
  Positions <- AllPositions
  InsertFollows = TRUE
SYMMETRY Symmetry
INVARIANTS
  TypeOK
  NoFreedNodeRead
PROPERTIES
  ImplementsSequence
  NoNodeLeak
