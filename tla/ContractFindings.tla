--------------------------- MODULE ContractFindings ---------------------------
(***************************************************************************)
(* A sentence of API.md about the generated code that the generated code   *)
(* does not keep, with the smallest contract that shows it.                *)
(***************************************************************************)
EXTENDS ContractSamples

(* mapping(uint => uint) m; uint x; and no external messages. *)
MappingFirst == {[Special EXCEPT !.nvars = 2, !.nullFirst = TRUE]}

(* Gas bounds the compute phase, so a transaction that has begun goes on. *)
FairSpec == Spec /\ WF_vars(VmStep)

(* API.md, tvm.exit: it saves the state variables and terminates. *)
ExitSavesState == [][Exit /\ fn.mut = "nonpayable" => r4'.vars = c7.vars]_vars
=============================================================================
