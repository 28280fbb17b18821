SPECIFICATION FairSpec
CONSTANTS
  NUM_CLIENTS = 2
  Process = {p1, p2, p3}
  p1 = p1
  p2 = p2
  p3 = p3
  Faulty = {p1, p2}
  None = None
  Backlog = 2
INVARIANTS
  TypeOK
  PairedWhenOpen
  SlotsWellSpent
PROPERTIES
  OpenEnds
  ServerMovesOn
CHECK_DEADLOCK FALSE
