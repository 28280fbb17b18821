SPECIFICATION FairVerbsSpec
CONSTANTS
  NUM_CLIENTS = 1
  k1 = k1
  small = small
  large = large
  Key = {k1}
  Value = {small}
  Large = {}
  NULL = NULL
  Raw = Raw
  Heap <- ZeroedHeap
  Sets <- AllSets
  Gets <- NoGets
  Faulty = {}
  MaxOps = 1
  RxDepth = 6
  LowWater = 1
  WC_BATCH = 10
PROPERTY
  AnswersRead
CHECK_DEADLOCK FALSE
