\* A scan of a small file system while other goroutines change it.
CONSTANTS
  Names = {a, b}
  Depth = 2
  Nodes = {n1, n2, n3, n4}
  Careless = {}
  Limits = {0, 1}
  Unlimited = Unlimited
  MaxChanges = 2
SPECIFICATION Spec
SYMMETRY Symmetry
INVARIANTS ScanTypeOK ReportsOnce MissesNothing
CHECK_DEADLOCK FALSE
