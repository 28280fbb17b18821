SPECIFICATION TimedSpec
CONSTANTS
  NUM_CLIENTS = 2
  k1 = k1
  small = small
  large = large
  Key = {k1}
  Value = {small, large}
  Large = {large}
  NULL = NULL
  Raw = Raw
  Heap <- ZeroedHeap
  Sets <- WriterSets
  Gets <- AllGets
  Faulty = {}
  MaxOps = 2
  RxDepth = 6
  LowWater = 1
  WC_BATCH = 10
INVARIANTS
  ReceivesAccounted
  ParsedOnce
PROPERTIES
  FifoUntilClash
CHECK_DEADLOCK FALSE
