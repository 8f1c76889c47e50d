---------------------------- MODULE StorageFindings ----------------------------
(* A contract that the documentation allows and that the generated code does *)
(* not handle.                                                               *)
EXTENDS StateStorage

Pubkey == <<Uint(256), Uint(64), Uint(1)>>
Plain(t) == Var(<<t>>)

(* Four usual variables with a reference each, and an unpacked one with one: *)
(* c4_to_c7 expects all four references in the first cell, while the default *)
(* data keep the fourth free for the next cell.                              *)
FourRefs ==
    {[header |-> Pubkey, usual |-> [k \in 1 .. 4 |-> Plain(String)], unpacked |-> <<Plain(String)>>]}

(* API.md, keyword unpacked: unpacked variables stay in the storage while    *)
(* the usual ones are read from it.  The state of a new contract is read.    *)
NewContractIsReadable == mode # "broken"
=============================================================================
