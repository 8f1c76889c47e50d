\* One run for each compilation of MCInputs; at most two errors are allowed.
CONSTANTS
  Files <- MCFiles
  Stdlib <- MCStdlib
  Inputs <- MCInputs
  MaxErrors = 2
SPECIFICATION Spec
INVARIANTS
  AnalysisIsComplete
  ImportsComeFirst
  OutcomeIsTrue
PROPERTY CompilationEnds
CHECK_DEADLOCK FALSE
