SPECIFICATION Spec
CONSTANT Contracts <- MCContracts
INVARIANTS NothingBreaks UsualIsCurrent AnswerIsCurrent SliceIsCurrent
CHECK_DEADLOCK FALSE
