SPECIFICATION Spec
CONSTANTS
  NULL = NULL
  Keys = {k1, k2}
  Replicas = {r1}
  QUE_SIZE = 3
  MAX_READ = 2
  Sizes = {2}
  MaxVer = 3
  MaxResets = 1
INVARIANTS QueueMatchesAnswers ArchivedUnderOwnKey Transparent UnitsAccounted
PROPERTIES ArchiveNeverGoesBack
CHECK_DEADLOCK FALSE
SYMMETRY Symmetry
