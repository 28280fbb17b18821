SPECIFICATION FairSpec
CONSTANT NUM_CLIENTS = 4
INVARIANTS
  TypeOK
  BoundedBypass
PROPERTY
  RequestsServed
