SPECIFICATION FairSpec
CONSTANTS
  NUM_CLIENTS = 2
  k1 = k1
  small = small
  large = large
  Key = {k1}
  Value = {small, large}
  Large = {large}
  NULL = NULL
  Raw = Raw
  Heap <- ZeroedHeap
  Sets <- AllSets
  Gets <- AllGets
  Faulty = {}
  MaxOps = 3
INVARIANTS
  TypeOK
  SetMutex
  SetterLocks
  NoOrphanedLock
  ReadersCounted
  NoUseAfterFree
  GetReturnsValue
  RepliesInStep
  PendedGetHasSetter
PROPERTIES
  PendedGetsAllowed
  ImplementsAtomicStore
CHECK_DEADLOCK FALSE
