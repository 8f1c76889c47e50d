SPECIFICATION Spec
CONSTANTS
  Programs <- FindPrograms
  MaxAnswers = 6
CHECK_DEADLOCK FALSE
INVARIANT UsualSemantics
