SPECIFICATION Spec
CONSTANTS
  Functions <- MCFunctions
  IterStackOptQty = 10
INVARIANTS SameEffect StackSizeIsReal OperandsWellFormed
PROPERTY Terminates
CHECK_DEADLOCK TRUE
