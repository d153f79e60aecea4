SPECIFICATION Spec
CONSTANTS
  Addr = {1, 2, 3, 4}
  TreeKeys = {1, 2, 3, 4}
  Nil = Nil
  Null = Null
  Block <- AnyBlock
  Reuse = TRUE
INVARIANT RedBlack
CHECK_DEADLOCK FALSE
