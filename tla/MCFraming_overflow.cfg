SPECIFICATION Spec
CONSTANTS
  Inputs <- ProgramInputs
  BUF_SIZE = 4096
INVARIANTS
  MessageFits
CHECK_DEADLOCK FALSE
