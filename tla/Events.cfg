SPECIFICATION MCSpec
CONSTANTS
  FdNumbers = {0, 1, 2, 3, 4, 5}
  None = None
  Second = 4
  Period = 2
  MaxClock = 20
  HandlerTicks = 2
  MaxSetbacks = 1
  MaxCloses = 2
  InWindow = {"tick"}
  MaxLost = 2
  MaxCommands = 2
  Blocks = 2
  MaxBulk = 3
  Partial = TRUE
  MAX_READ = 7
  StreamLength = 3
  Terminated = TRUE
  Fds = {3, 4, 5}
  MaxAddrs = 2
INVARIANTS
  CallsMatchSockets NeverBlocks NoLeak RetryArmed
  OneTimer SleepBounded AttemptEverySecond
  CommandsScanned SnapshotNotScanned
  FindsUncutDels NoStraySocket
PROPERTY SyncCompletes
CHECK_DEADLOCK FALSE
