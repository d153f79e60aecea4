SPECIFICATION MCSpec
CONSTANTS
  QUE_SIZE = 4
  DataType = {k1, k2, k3}
  NULL = NULL
  HostKeys <- ServerKeys
  Values = {v1, v2}
  Missing = NULL
  Radix = 4
  Width = 3
  Size = 16
  Garbage <- NotMax
INVARIANTS TypeOK CountAgrees LiveSlots SemBalanced GarbageIrrelevant
PROPERTIES ImplementsFifo ClearReturns ImplementsMap
