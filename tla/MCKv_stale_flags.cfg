SPECIFICATION Spec
CONSTANTS
  NUM_CLIENTS = 2
  k1 = k1
  small = small
  large = large
  Key = {k1}
  Value = {small}
  Large = {}
  NULL = NULL
  Raw = Raw
  Heap <- FlaggedHeap
  Sets <- AllSets
  Gets <- AllGets
  Faulty = {}
  MaxOps = 2
INVARIANTS
  RepliesInStep
CHECK_DEADLOCK FALSE
