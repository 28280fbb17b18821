SPECIFICATION Spec
CONSTANTS
  NUM_CLIENTS = 2
  k1 = k1
  small = small
  large = large
  Key = {k1}
  Value = {small, large}
  Large = {large}
  NULL = NULL
  Raw = Raw
  Heap <- ZeroedHeap
  Sets <- AllSets
  Gets <- AllGets
  Faulty = {}
  MaxOps = 2
INVARIANTS
  RegionsReadable
CHECK_DEADLOCK FALSE
