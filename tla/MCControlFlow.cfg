SPECIFICATION Spec
CONSTANTS
  Programs <- MCPrograms
  MaxAnswers = 5
CHECK_DEADLOCK FALSE
INVARIANTS SourceSemantics StackSizeIsKnown RegistersAreRestored
VIEW View
