SPECIFICATION VerbsSpec
CONSTANTS
  NUM_CLIENTS = 1
  k1 = k1
  small = small
  large = large
  Key = {k1}
  Value = {small, large}
  Large = {large}
  NULL = NULL
  Raw = Raw
  Heap <- ZeroedHeap
  Sets <- AllSets
  Gets <- AllGets
  Faulty = {}
  MaxOps = 2
  RxDepth = 6
  LowWater = 1
  WC_BATCH = 10
INVARIANT
  ValueAsSent
CHECK_DEADLOCK FALSE
