-------------------------- MODULE ContractRefinement --------------------------
(***************************************************************************)
(* ContractRuntime implements AbstractContract for contracts that have a   *)
(* constructor and a standard replay protection, do not use tvm.rawCommit  *)
(* and have no onTickTock (which runs without the constructor check).      *)
(***************************************************************************)
EXTENDS ContractRuntime

Disciplined ==
    /\ hasConstructor(ctr)
    /\ ctr.headers
    /\ ctr.prot # "custom"
    /\ ~ctr.rawCommit
    /\ ctr.onTickTock.kind = "none"

(* Nothing is promised of the others: they are seen as never changing.      *)
Seen(c) == IF Disciplined THEN c ELSE default_data_cell

Abstract == INSTANCE AbstractContract WITH
    time <- Seen(c4).time,
    constructed <- Seen(c4).ctor,
    state <- Seen(c4).vars,
    applied <- {m \in ExtMessages : Disciplined /\ effects[m] > 0}

(* Seen through the persistent cell, every run of the generated code of a   *)
(* disciplined contract is a run of AbstractContract: the many steps of a   *)
(* transaction are invisible and the last one applies its message at once   *)
(* or not at all.                                                           *)
ImplementsAbstract == Abstract!ASpec
=============================================================================
