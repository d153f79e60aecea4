SPECIFICATION Spec
CONSTANTS
  NULL = NULL
  Keys = {k1, k2}
  Replicas = {r1, r2}
  QUE_SIZE = 3
  MAX_READ = 2
  Sizes = {3, 4}
  MaxVer = 2
  MaxResets = 1
INVARIANTS TypeOK UnitsAccounted
CHECK_DEADLOCK FALSE
SYMMETRY Symmetry
