SPECIFICATION MCSpec
CONSTANTS
  Addr = {1, 2, 3, 4, 5, 6}
  TreeKeys = {1, 2, 3, 4}
  Nil = Nil
  Null = Null
  Block <- OwnBlock
  Reuse = FALSE
  Servers = {"s1", "s2"}
  Points = {1, 2, 3}
  MaxReplicas = 2
  None = None
  Peers = {"p1", "p2"}
  Buckets = 5
  MaxPoint = 5
  MaxPeers = 2
  Keys <- SomeKeys
  Special = {9}
  Escape = 100
  Base = 3
  Slot = 27
  Pairs = 2
  Seeds = {1, 2}
  Digest <- SumOf
  MaxSaves = 2
  BlockSize = 4
  LenBytes = 1
  MaxLen = 10
INVARIANTS
  RedBlack Linked Searchable
  RingBelongsToMembers NearlySorted PeersKeepTheirShare FindsSuccessor
  ReadersFindValues DigestsSeeMessage
PROPERTIES ImplementsSortedKeys OnlyNecessaryMoves
CHECK_DEADLOCK FALSE
