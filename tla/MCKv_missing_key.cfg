SPECIFICATION FairSpec
CONSTANTS
  NUM_CLIENTS = 1
  k1 = k1
  small = small
  large = large
  Key = {k1}
  Value = {small}
  Large = {}
  NULL = NULL
  Raw = Raw
  Heap <- ZeroedHeap
  Sets <- NoSets
  Gets <- AllGets
  Faulty = {}
  MaxOps = 1
PROPERTIES
  QueriesReturn
CHECK_DEADLOCK FALSE
