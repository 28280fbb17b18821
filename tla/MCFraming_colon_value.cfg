SPECIFICATION Spec
CONSTANTS
  Inputs <- ProgramInputs
  BUF_SIZE = 4096
INVARIANTS
  ValueReturns
CHECK_DEADLOCK FALSE
