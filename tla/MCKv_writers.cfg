SPECIFICATION FairSpec
CONSTANTS
  NUM_CLIENTS = 3
  k1 = k1
  small = small
  large = large
  Key = {k1}
  Value = {small, large}
  Large = {large}
  NULL = NULL
  Raw = Raw
  Heap <- ZeroedHeap
  Sets <- WriterSets
  Gets <- NoGets
  Faulty = {}
  MaxOps = 2
INVARIANTS
  SetMutex
  NoOrphanedLock
PROPERTY
  QueriesReturn
CHECK_DEADLOCK FALSE
