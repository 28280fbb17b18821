SPECIFICATION FairSpec
CONSTANTS
  NUM_CLIENTS = 2
  k1 = k1
  small = small
  large = large
  Key = {k1}
  Value = {small}
  Large = {}
  NULL = NULL
  Raw = Raw
  Heap <- ZeroedHeap
  Sets <- AllSets
  Gets <- AllGets
  Faulty = {}
  MaxOps = 2
PROPERTIES
  PendedSetsAnswered
CHECK_DEADLOCK FALSE
