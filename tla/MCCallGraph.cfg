SPECIFICATION Spec
CONSTANTS
  Names <- MCNames
  Main <- MCMain
  Id <- MCId
  Programs <- MCPrograms
  None = None
  MaxCalls = 4
INVARIANTS CodeIsInGraph GraphHasNoLoop DefinedBeforeUse IdsResolve
PROPERTIES IdOnlyForLoop CompilationEnds
CHECK_DEADLOCK TRUE
