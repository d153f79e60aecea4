SPECIFICATION Spec
CONSTANTS
  NULL = NULL
  Keys = {k1, k2}
  Replicas = {r1}
  QUE_SIZE = 3
  MAX_READ = 2
  Sizes = {3}
  MaxVer = 2
  MaxResets = 0
INVARIANTS ArchivedUnderOwnKey
CHECK_DEADLOCK FALSE
SYMMETRY Symmetry
