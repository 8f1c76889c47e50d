--------------------------- MODULE ControlFindings ---------------------------
(***************************************************************************)
(* while (..) { uint x;                                                    *)
(*   while (..) { uint y;                                                  *)
(*     if (..) { uint z; if (..) { uint w; continue; } z++; log(z); }      *)
(*     y++; log(y); }                                                      *)
(*   if (..) return x;                                                     *)
(*   log(x); }                                                             *)
(***************************************************************************)
EXTENDS ControlFlow, ProgramSamples

FlagLeft ==
    {f \in Named({<<"whileret", "while", "if">>}) : f.way.is = "continue" /\ f.sometimes /\ ~f.returns}
FindPrograms == [f \in FlagLeft |-> FunctionOf(f)]

(* if, loops, break, continue and return have their usual semantics         *)
(* (compiler/docs/control-structures.rst:15).  The continue leaves its flag *)
(* on the stack for the outer loop, because lastAnalyzeFlag looks beyond    *)
(* the loop that it continues.                                              *)
UsualSemantics == SourceSemantics
=============================================================================
