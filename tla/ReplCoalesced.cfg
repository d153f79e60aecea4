SPECIFICATION SyncSpec
CONSTANTS
  MaxCommands = 2
  Blocks = 4
  MaxBulk = 3
  Partial = TRUE
INVARIANT EveryCommandScanned
CHECK_DEADLOCK FALSE
