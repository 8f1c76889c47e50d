-------------------------- MODULE ContractInvariants --------------------------
(***************************************************************************)
(* What the generated code keeps true at every step of a transaction, so   *)
(* that the safety properties of ContractRuntime hold at its end; and what *)
(* must be known of a contract for the properties that some contracts do   *)
(* not have.                                                               *)
(***************************************************************************)
EXTENDS ContractRuntime

(* The global that was_c4_to_c7_called tests is not null once it is loaded. *)
NullTestWorks(c) == c.headers \/ ~c.nullFirst

(* tvm.rawCommit and a tvm.exit that does not save can leave the flag of    *)
(* the constructor unset.                                                   *)
FlagIsSaved(c) == hasConstructor(c) => ~c.rawCommit /\ NullTestWorks(c)

(* An internal message too short for a function id goes to the fallback     *)
(* function whatever its marks, and an externalMsg function expects its     *)
(* caller to have loaded the globals.                                       *)
FallbackLoads(c) ==
    c.fallback.kind # "none" /\ c.fallback.ext /\ ~c.fallback.int =>
        c.headers /\ c.fallback.mut # "pure"

Handlers(c) ==
    {f \in {c.functions[id] : id \in FunctionIds}
           \cup {c.receive, c.fallback, c.onBounce, c.onTickTock} : f.kind # "none"}

(* onCodeUpgrade saves the globals, which a pure function has not loaded.   *)
UpgradeLoads(c) ==
    c.upgrade => (~c.headers /\ c.nvars = 0) \/ \A f \in Handlers(c) : f.mut # "pure"

-----------------------------------------------------------------------------
InBody == pc = "body" \/ (pc = "end" /\ (Succeeds \/ cmt.done))

(* Which function runs for which message. *)
FunctionOK ==
    /\ fn \in Handlers(ctr) \cup {NoFunction}
    /\ pc \in {"idle", "signature", "replay", "expire", "dispatch", "select"} => fn = NoFunction
    /\ pc \in {"entry", "body"} => fn \in Handlers(ctr)
    /\ tx.kind = "tick" <=> fn.kind = "onTickTock"
    /\ tx.kind = "tick" => pc \in {"body", "end"}
    /\ tx.kind = "int" /\ pc \in {"entry", "body"} /\ fn.ext /\ ~fn.int => fn = ctr.fallback
    /\ InBody /\ fn.kind = "none" => tx.kind = "int" /\ r4 = c4 /\ pc = "end" /\ ~cmt.done

(* Until the body runs nothing is accepted, saved or committed. *)
NothingYet ==
    /\ pc \in {"signature", "replay", "expire", "dispatch", "select", "entry"} =>
         r4 = c4 /\ ~cmt.done
    /\ tx.kind = "ext" /\ pc \notin {"body", "end"} => ~accepted
    /\ tx.kind = "ext" /\ accepted => fn.kind # "none"

(* What an external message has passed when its function runs. *)
Passed ==
    tx.kind = "ext" =>
        /\ pc \in {"replay", "expire", "select", "entry", "body"} \/ accepted =>
             /\ tx.msg.sig \in {NoKey, Owner, tx.msg.pubkey}
             /\ c7.msgPubkey # NoKey => tx.msg.sig = c7.msgPubkey
        /\ pc \in {"select", "entry", "body"} \/ accepted =>
             (ctr.prot # "custom" /\ ctr.hasExpire => now < tx.msg.expire)

(* The globals are loaded where the code relies on it. *)
LoadedOK ==
    /\ tx.kind = "ext" => c7.loaded
    /\ pc = "body" /\ fn.kind = "constructor" => c7.loaded \/ (~ctr.headers /\ ctr.nvars = 0)
    /\ pc = "body" /\ fn.kind # "constructor" /\ fn.mut # "pure" /\ FallbackLoads(ctr) => c7.loaded

(* The flag of the constructor, in the cell, in the globals and in what is  *)
(* saved or committed.                                                      *)
FlagOK ==
    /\ ~hasConstructor(ctr) => built = 0
    /\ hasConstructor(ctr) =>
         /\ built <= c4.ctor
         /\ tx.kind \in {"ext", "int"} => c7.ctor = c4.ctor
         /\ tx.kind # "none" => c4.ctor <= r4.ctor
         /\ cmt.done => cmt.c4.ctor = 1
         /\ InBody /\ fn.kind = "constructor" => c4.ctor = 0
         /\ InBody /\ fn.kind \notin {"none", "onTickTock", "constructor"} => c4.ctor = 1
         /\ pc = "end" /\ Succeeds /\ fn.kind = "constructor" => r4.ctor = 1

(* The state variables: those of a contract that has none, and those that a *)
(* view or pure function must keep.                                         *)
VarsOK ==
    /\ ctr.nvars = 0 => c4.vars = 0 /\ r4.vars = 0 /\ c7.vars = 0 /\ cmt.c4.vars = 0
    /\ tx.kind # "none" /\ fn.mut # "nonpayable" =>
         /\ r4.vars = c4.vars
         /\ c7.loaded => c7.vars = c4.vars
         /\ cmt.done => cmt.c4.vars = c4.vars
    /\ NullTestWorks(ctr) /\ FallbackLoads(ctr) => NoLostUpdate

(* No save on globals that were not loaded. *)
CodeOK == FallbackLoads(ctr) /\ UpgradeLoads(ctr) => code # TypeCheckError

SafetyInv ==
    /\ IInv /\ FunctionOK /\ NothingYet /\ Passed /\ LoadedOK
    /\ (FlagIsSaved(ctr) => FlagOK) /\ VarsOK /\ CodeOK
=============================================================================
