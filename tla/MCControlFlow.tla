----------------------------- MODULE MCControlFlow -----------------------------
EXTENDS ControlFlow, ProgramSamples

(* With three levels the way out depends on a condition and the function    *)
(* ends without return.                                                     *)
Names == {f \in Named(UNION {[1 .. n -> Kinds] : n \in 1 .. 3}) :
            InLoops(f) /\ ~LeavesFlag(f) /\ (Len(f.path) = 3 => f.sometimes /\ ~f.returns)}
MCPrograms == [f \in Names |-> FunctionOf(f)]

(* The machine follows from the other two.                                  *)
View == <<program, answers>>
=============================================================================
