SPECIFICATION Spec
CONSTANTS
  NUM_CLIENTS = 1
  Key = {k1, k2}
  k1 = k1
  k2 = k2
  NULL = NULL
  Stored = {v}
  v = v
  Heap <- SomeHeap
  MaxReaders = 1
INVARIANTS
  KeysDistinct
  CallsAgree
  AnswersAgree
CHECK_DEADLOCK FALSE
