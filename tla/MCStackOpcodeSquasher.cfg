SPECIFICATION Spec
CONSTANTS
  MAX_STACK_DEPTH = 4
  MAX_NEW_OPCODES = 3
  Codes <- MCCodes
INVARIANTS TablesAreReal SquashKeepsStack SquashNeedsNoMore
PROPERTY SearchEnds
CHECK_DEADLOCK FALSE
