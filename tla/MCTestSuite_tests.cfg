SPECIFICATION SuiteSpec
CONSTANTS
  NUM_CLIENTS = 2
  Tester = 0
  Key1 = Key1
  Key2 = Key2
  Key3 = Key3
  Value1 = Value1
  Value2 = Value2
  LargeA = LargeA
  LargeB = LargeB
  Key <- AllKeys
  Value = {Value1, Value2, LargeA, LargeB}
  Large = {LargeA, LargeB}
  NULL = NULL
  Raw = Raw
  Heap <- ZeroedHeap
  Sets <- OwnSets
  Gets <- OwnGets
  Faulty = {}
  MaxOps = 30
INVARIANT
  TestsPass
PROPERTY
  SuiteEnds
CHECK_DEADLOCK FALSE
