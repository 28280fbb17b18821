SPECIFICATION Spec
CONSTANTS
  NUM_CLIENTS = 2
  k1 = k1
  small = small
  large = large
  Key = {k1}
  Value = {small, large}
  Large = {large}
  NULL = NULL
  Raw = Raw
  Heap <- UsedHeap
  Sets <- AllSets
  Gets <- AllGets
  Faulty = {0, 1}
  MaxOps = 2
INVARIANTS
  Dialogue
  SetMutex
  SetterLocks
  ReadersCounted
  NoUseAfterFree
  GetReturnsValue
PROPERTY
  ImplementsAtomicStore
CHECK_DEADLOCK FALSE
