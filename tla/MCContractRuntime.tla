--------------------------- MODULE MCContractRuntime ---------------------------
(***************************************************************************)
(* Contracts that together use every branch of the generated code.         *)
(* Wallet, Counter and InternalOnly are disciplined, the others are not.   *)
(***************************************************************************)
EXTENDS ContractRefinement, ContractSamples, ContractInvariants

(* Reachable by internal messages only. *)
InternalOnly ==
    [Wallet EXCEPT !.hasPubkey = FALSE, !.upgrade = FALSE,
     !.functions = Functions(Constructor(FALSE),
                             Fun("public", "nonpayable", FALSE, TRUE, "responsible"),
                             Fun("public", "pure", FALSE, FALSE, "value")),
     !.receive = Receive, !.fallback = Fallback("view", TRUE, TRUE)]

MCContracts == {Wallet, Counter, InternalOnly, Special, Custom}

(* All of them meet the hypotheses of the theorems of ContractRuntimeProofs.*)
ASSUME SamplesAreCovered ==
    \A c \in MCContracts : FlagIsSaved(c) /\ FallbackLoads(c) /\ UpgradeLoads(c) /\ NullTestWorks(c)
=============================================================================
