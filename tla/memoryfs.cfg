\* All trees of up to five entries, three levels deep; calls on those of three.
CONSTANTS
  a = a
  b = b
  Names = {a, b}
  Depth = 3
  Nodes = {n1, n2, n3, n4, n5}
  Odd = n5
  Blank = n4
  Careless = {}
  Data <- MCData
  Target <- MCTarget
  ServedSize = 3
  ServedDepth = 2
  Defaults <- MCDefaults
SPECIFICATION OSSpec
SYMMETRY Symmetry
INVARIANTS TypeOK IsTree AnswersAreAccepted DefaultComesBack ErrorsAreTruthful AnswersAgree AnswersHold
PROPERTIES ImplementsFileTree
CHECK_DEADLOCK FALSE
