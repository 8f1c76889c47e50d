--------------------------- MODULE ContractRuntime ---------------------------
(***************************************************************************)
(* The run-time protocol that the code generator wraps around every        *)
(* contract: main_external and main_internal, the signature, replay and    *)
(* expiration checks, the function selectors, the constructor guard, the   *)
(* loading of the persistent cell c4 into the globals c7 and its saving    *)
(* back, and the tvm.* built-ins that touch c4, c5 or the flow of control. *)
(*                                                                         *)
(* A behaviour is the life of ONE deployed contract.  The network hands it *)
(* one message at a time (a transaction), in any order and, for external   *)
(* messages, any number of times; a transaction is a sequence of steps of  *)
(* the generated code (pc).  What the user's function does is a free       *)
(* choice among the built-ins, limited by gas.                             *)
(***************************************************************************)
EXTENDS Naturals

CONSTANTS
    Contracts,      \* the contracts compiled (see ContractType)
    ExtMessages,    \* the external inbound messages that exist
    IntMessages,    \* the internal inbound messages that exist
    Keys,           \* public keys
    Owner,          \* tvm.pubkey(): the key stored in c4 at deployment
    NoKey,          \* "no key", "no signature"
    MsPerSecond,    \* the 1000 of __timeReplayProtection
    Interval,       \* TvmConst::Message::ReplayProtection::Interval
    MaxNow,         \* bound: last block time
    MaxWrites,      \* bound: assignments to the state variables
    Gas             \* bound: built-ins one transaction may execute

ASSUME ConstantsAssumption ==
    /\ MsPerSecond \in Nat /\ Interval \in Nat /\ MaxNow \in Nat
    /\ MaxWrites \in Nat /\ Gas \in Nat
    /\ Owner \in Keys
    /\ NoKey \notin Keys

-----------------------------------------------------------------------------
(***************************************************************************)
(* What the generator knows of a function and of a contract.               *)
(***************************************************************************)
Mutability == {"pure", "view", "nonpayable"}
FunctionType ==
    [kind : {"none", "constructor", "public", "receive", "fallback",
             "onBounce", "onTickTock"},
     mut  : Mutability,          \* stateMutability()
     ext  : BOOLEAN,             \* isExternalMsg()
     int  : BOOLEAN,             \* isInternalMsg()
     ret  : {"none", "value", "responsible"}]

NoFunction == [kind |-> "none", mut |-> "pure", ext |-> FALSE, int |-> FALSE,
               ret |-> "none"]

BodyShapes == {"empty", "short", "zero"}
FunctionIds == {"ctor", "f", "g", "unknown"}

FunctionOf(kinds) == {f \in FunctionType : f.kind \in kinds}

(***************************************************************************)
(* headers: #[ExternalMessage] present ("time" is then mandatory,          *)
(* checkMainContract); nvars: usualStateVariables().size(), 2 standing for *)
(* "two or more"; nullFirst: the first state variable is a mapping or an   *)
(* optional whose value is null; upgrade: the source has onCodeUpgrade and *)
(* calls it; rawCommit: the source calls tvm.rawCommit().                  *)
(***************************************************************************)
ContractType ==
    [headers : BOOLEAN, hasExpire : BOOLEAN, hasPubkey : BOOLEAN,
     prot : {"time", "seqno", "custom"},
     nvars : 0..2, nullFirst : BOOLEAN,
     functions : [FunctionIds -> FunctionOf({"none", "public", "constructor"})],
     receive : FunctionOf({"none", "receive"}),
     fallback : FunctionOf({"none", "fallback"}),
     onBounce : FunctionOf({"none", "onBounce"}),
     onTickTock : FunctionOf({"none", "onTickTock"}),
     upgrade : BOOLEAN, rawCommit : BOOLEAN]

(* A constructor has the default mutability; it alone is constructed by id  *)
(* "ctor".                                                                  *)
typeCheckConstructor(c) ==
    \A id \in FunctionIds : c.functions[id].kind = "constructor" =>
        id = "ctor" /\ c.functions[id].mut = "nonpayable"

(* internalMsg and externalMsg mark public functions, constructors and the  *)
(* fallback only.                                                           *)
marksAreAllowed(c) ==
    \A f \in {c.receive, c.onBounce, c.onTickTock} : ~f.ext /\ ~f.int

ExtMessageType == [sig : Keys \cup {NoKey}, pubkey : Keys \cup {NoKey},
                   time : Nat, expire : Nat,
                   body : BodyShapes \cup FunctionIds, argsOk : BOOLEAN]

IntMessageType == [bounced : BOOLEAN,
                   body : BodyShapes \cup FunctionIds, argsOk : BOOLEAN]

ASSUME InputsAssumption ==
    /\ Contracts \subseteq ContractType
    /\ \A c \in Contracts : typeCheckConstructor(c) /\ marksAreAllowed(c)
    /\ ExtMessages \subseteq ExtMessageType
    /\ IntMessages \subseteq IntMessageType

-----------------------------------------------------------------------------
VARIABLES
    ctr,        \* the contract that was deployed
    now,        \* block time in seconds
    c4,         \* persistent data of the account
    effects,    \* history: how often each external message took effect
    built,      \* history: how often a constructor took effect
    pc,         \* where the generated code is
    tx,         \* the message being processed
    fn,         \* the function selected for it
    r4,         \* register c4
    c5,         \* register c5: number of output actions
    c7,         \* register c7: the globals
    cmt,        \* what the last COMMIT saved
    accepted,   \* the gas limit is not the credit any more
    gas,        \* built-ins left
    code        \* exit code

txVars == <<tx, fn, r4, c5, c7, cmt, accepted, gas, code>>
vars == <<ctr, now, c4, effects, built, pc, txVars>>

C4Type == [time : Nat, ctor : {0, 1}, vars : Nat]
C7Type == [loaded : BOOLEAN, time : Nat, ctor : {0, 1}, vars : Nat,
           msgPubkey : Keys \cup {NoKey}]

(* default_data_cell: every stored field has its default value. *)
default_data_cell == [time |-> 0, ctor |-> 0, vars |-> 0]

(* c7 when the compute phase starts: every global is null. *)
EmptyC7 == [loaded |-> FALSE, time |-> 0, ctor |-> 0, vars |-> 0,
            msgPubkey |-> NoKey]

NoMessage == [kind |-> "none", msg |-> "none"]
NoCommit == [done |-> FALSE, c4 |-> default_data_cell, c5 |-> 0]

BadSignature == 40
ConstructorIsCalledTwice == 51
ReplayProtection == 52
MessageIsExpired == 57
MessageHasNoSignButHasPubkey == 58
NoFallback == 60
CallThatWasBeforeCtorCall == 76
TypeCheckError == 7      \* TVM: null where a value is expected
CellUnderflow == 9       \* TVM: read past the end of a slice
OutOfGasError == 14      \* TVM
UserError == 100         \* require, revert

ExitCodes == {0, 1, BadSignature, ConstructorIsCalledTwice, ReplayProtection,
              MessageIsExpired, MessageHasNoSignButHasPubkey, NoFallback,
              CallThatWasBeforeCtorCall, TypeCheckError, CellUnderflow,
              OutOfGasError, UserError}

-----------------------------------------------------------------------------
(***************************************************************************)
(* Storage layout and the fragments that move data between c4 and c7.      *)
(***************************************************************************)
hasConstructor(c) == c.functions["ctor"].kind = "constructor"

(* Mutant: the fields are read in the wrong order. *)
c4_to_c7_SwapsFields(c, k, r) ==
    [k EXCEPT !.loaded = TRUE, !.time = r.time, !.ctor = r.vars, !.vars = r.ctor]

(* Mutant: the time is skipped instead of being kept. *)
c4_to_c7_DropsTime(c, k, r) ==
    [k EXCEPT !.loaded = TRUE, !.ctor = r.ctor, !.vars = r.vars]

c4_to_c7(c, k, r) ==
    [k EXCEPT !.loaded = TRUE,
              !.time = IF c.headers THEN r.time ELSE @,
              !.ctor = IF hasConstructor(c) THEN r.ctor ELSE @,
              !.vars = r.vars]

(* The constructor flag is stored as the constant 1, not taken from c7.    *)
c7_to_c4(c, k) ==
    [time |-> IF c.headers THEN k.time ELSE 0,
     ctor |-> IF hasConstructor(c) THEN 1 ELSE 0,
     vars |-> k.vars]

(* c7_to_c4 stores the globals with STU & co: a null global is an error.   *)
Storable(c, k) == k.loaded \/ (~c.headers /\ c.nvars = 0)

(* Mutant: the rest of the cell is not copied. *)
upd_only_time_in_c4_DropsRest(k, r) == [r EXCEPT !.time = k.time, !.vars = 0]

upd_only_time_in_c4(k, r) == [r EXCEPT !.time = k.time]

(* One global is tested for null: the public key when the contract has     *)
(* external message headers, else the first state variable.                *)
was_c4_to_c7_called(c, k) == k.loaded /\ (c.headers \/ ~c.nullFirst)

(* Mutant: no constructor guard. *)
checkCtorCalled_Never(c, k) == TRUE

checkCtorCalled(c, k) == hasConstructor(c) => k.ctor = 1

isIntFunction(f) == f.int \/ ~f.ext

(* Mutant: c4 is read again although main_external has read it. *)
pushC4ToC7IfNeed_Always(c, f, k) == f.mut # "pure"

(* Mutant: only functions that assign need the globals. *)
pushC4ToC7IfNeed_WritersOnly(c, f, k) == f.mut = "nonpayable" /\ ~k.loaded

(* Does the function's entry code run c4_to_c7? *)
pushC4ToC7IfNeed(c, f, k) ==
    /\ f.mut # "pure"
    /\ IF (f.kind = "fallback" /\ c.headers) \/ (f.ext /\ f.int)
       THEN ~was_c4_to_c7_called(c, k)
       ELSE ~f.ext

(* Mutant: the state is saved for external messages only. *)
updC4IfItNeeds_ExtOnly(c, f, kind) ==
    IF f.mut = "nonpayable" /\ kind = "ext" THEN "c7_to_c4" ELSE "none"

(* Which fragment saves the state when the function has returned? *)
updC4IfItNeeds(c, f, kind) ==
    IF f.mut = "nonpayable" THEN "c7_to_c4"
    ELSE IF f.ext /\ (f.int => kind = "ext")
         THEN IF c.prot # "custom" /\ c.headers /\ c.nvars >= 2
              THEN "upd_only_time_in_c4" ELSE "c7_to_c4"
    ELSE "none"

-----------------------------------------------------------------------------
(***************************************************************************)
(* The checks of main_external, as predicates on what they read.           *)
(***************************************************************************)
(* pushMsgPubkey: the key against which the signature is checked. *)
pushMsgPubkey(c, m) == IF c.hasPubkey /\ m.pubkey # NoKey THEN m.pubkey ELSE Owner

(* The exit code of checkSignatureAndReadPublicKey, 0 when it goes on. *)
checkSignatureAndReadPublicKey(c, m) ==
    IF m.sig # NoKey
    THEN IF m.sig = pushMsgPubkey(c, m) THEN 0 ELSE BadSignature
    ELSE IF c.hasPubkey /\ m.pubkey # NoKey THEN MessageHasNoSignButHasPubkey ELSE 0

timeReplayProtection(k, t, n) == k.time < t /\ t < n * MsPerSecond + Interval

seqnoReplayProtection(k, t, n) == k.time + 1 = t

(* Mutant: off by one second. *)
checkExpire_OffByOne(n, expireAt) == n <= expireAt

checkExpire(n, expireAt) == n < expireAt

-----------------------------------------------------------------------------
(***************************************************************************)
(* The selectors: which function the code jumps to.                        *)
(***************************************************************************)
getExtPublicFunctions(c) ==
    {id \in FunctionIds : c.functions[id].kind # "none" /\ c.functions[id].ext}

getIntPublicFunctions(c) ==
    {id \in FunctionIds : c.functions[id].kind # "none" /\ isIntFunction(c.functions[id])}

(* generatePublicFunctionSelector and the fallback behind it.  NoFunction   *)
(* stands for THROW NoFallback.                                             *)
generatePublicFunctionSelector(c, kind, id) ==
    LET table == IF kind = "ext" THEN getExtPublicFunctions(c)
                                 ELSE getIntPublicFunctions(c)
    IN  IF id \in table THEN c.functions[id]
        ELSE IF c.fallback.kind # "none"
                /\ (IF kind = "ext" THEN c.fallback.ext ELSE isIntFunction(c.fallback))
             THEN c.fallback
        ELSE NoFunction

-----------------------------------------------------------------------------
(* The network (TVM, the validator): transactions begin. *)
Begin(kind, m) ==
    /\ pc = "idle"
    /\ tx' = [kind |-> kind, msg |-> m]
    /\ r4' = c4
    /\ c5' = 0
    /\ cmt' = NoCommit
    /\ accepted' = (kind # "ext")
    /\ gas' = Gas
    /\ UNCHANGED <<ctr, now, c4, effects, built>>

Goto(label) == pc' = label /\ code' = 0
Throw(n) == pc' = "end" /\ code' = n
ReturnQuietly == pc' = "end" /\ code' = 0
Same == UNCHANGED <<ctr, now, c4, effects, built, tx>>

(* main_external, as far as c4_to_c7. *)
MainExternal(m) ==
    /\ ctr.headers
    /\ Begin("ext", m)
    /\ fn' = NoFunction
    /\ c7' = c4_to_c7(ctr, EmptyC7, c4)
    /\ Goto("signature")

CheckSignature ==
    /\ pc = "signature"
    /\ LET m == tx.msg
           err == checkSignatureAndReadPublicKey(ctr, m)
       IN IF err = 0
          THEN /\ Goto("replay")
               /\ c7' = [c7 EXCEPT !.msgPubkey =
                            IF m.sig = NoKey THEN NoKey ELSE pushMsgPubkey(ctr, m)]
          ELSE Throw(err) /\ UNCHANGED c7
    /\ Same
    /\ UNCHANGED <<fn, r4, c5, cmt, accepted, gas>>

AfterReplay == IF ctr.prot # "custom" /\ ctr.hasExpire THEN "expire" ELSE "select"

StandardReplayProtection ==
    /\ pc = "replay"
    /\ ctr.prot # "custom"
    /\ IF IF ctr.prot = "time" THEN timeReplayProtection(c7, tx.msg.time, now)
                               ELSE seqnoReplayProtection(c7, tx.msg.time, now)
       THEN c7' = [c7 EXCEPT !.time = tx.msg.time] /\ Goto(AfterReplay)
       ELSE Throw(ReplayProtection) /\ UNCHANGED c7
    /\ Same
    /\ UNCHANGED <<fn, r4, c5, cmt, accepted, gas>>

(* afterSignatureCheck is the user's: it may refuse the message, and it may *)
(* record the time of the message.  (API.md: no tvm.commit, no tvm.accept.) *)
AfterSignatureCheck ==
    /\ pc = "replay"
    /\ ctr.prot = "custom"
    /\ \/ Throw(UserError) /\ UNCHANGED c7
       \/ /\ \E t \in {c7.time, tx.msg.time} : c7' = [c7 EXCEPT !.time = t]
          /\ Goto(AfterReplay)
    /\ Same
    /\ UNCHANGED <<fn, r4, c5, cmt, accepted, gas>>

CheckExpire ==
    /\ pc = "expire"
    /\ IF checkExpire(now, tx.msg.expire) THEN Goto("select") ELSE Throw(MessageIsExpired)
    /\ Same
    /\ UNCHANGED <<fn, r4, c5, c7, cmt, accepted, gas>>

(* main_internal: setCtorFlag, then the bounced messages. *)
MainInternal(m) ==
    /\ Begin("int", m)
    /\ c7' = [EmptyC7 EXCEPT !.ctor = IF hasConstructor(ctr) THEN c4.ctor ELSE 0]
    /\ CASE ~m.bounced -> Goto("dispatch") /\ fn' = NoFunction
         [] m.bounced /\ ctr.onBounce.kind = "none" -> ReturnQuietly /\ fn' = NoFunction
         [] m.bounced /\ ctr.onBounce.kind # "none" ->
              IF m.body \in {"empty", "short"}       \* LDSLICE 32
              THEN Throw(CellUnderflow) /\ fn' = NoFunction
              ELSE Goto("entry") /\ fn' = ctr.onBounce

(* Without a receive function an empty message is ignored, unless it comes *)
(* before the constructor.                                                 *)
checkIfCtorCalled ==
    IF checkCtorCalled(ctr, c7) THEN ReturnQuietly ELSE Throw(CallThatWasBeforeCtorCall)

PushReceiveOrFallbackAndLoadFuncId ==
    /\ pc = "dispatch"
    /\ CASE tx.msg.body \in {"empty", "zero"} ->
              IF ctr.receive.kind # "none"
              THEN Goto("entry") /\ fn' = ctr.receive
              ELSE checkIfCtorCalled /\ UNCHANGED fn
         [] tx.msg.body = "short" ->                 \* LDUQ 32 fails
              IF ctr.fallback.kind # "none"
              THEN Goto("entry") /\ fn' = ctr.fallback
              ELSE Throw(NoFallback) /\ UNCHANGED fn
         [] OTHER -> Goto("select") /\ UNCHANGED fn
    /\ Same
    /\ UNCHANGED <<r4, c5, c7, cmt, accepted, gas>>

(* LDU 32 of main_external, the dictionary jump, the fallback. *)
SelectFunction ==
    /\ pc = "select"
    /\ IF tx.msg.body \in {"empty", "short"}
       THEN Throw(CellUnderflow) /\ UNCHANGED fn
       ELSE LET f == generatePublicFunctionSelector(ctr, tx.kind, tx.msg.body)
            IN IF f = NoFunction THEN Throw(NoFallback) /\ UNCHANGED fn
               ELSE Goto("entry") /\ fn' = f
    /\ Same
    /\ UNCHANGED <<r4, c5, c7, cmt, accepted, gas>>

-----------------------------------------------------------------------------
(* beginConstructor: are the globals loaded by the constructor itself? *)
constructorLoads(c, k) == (c.nvars > 0 \/ c.headers) /\ ~was_c4_to_c7_called(c, k)

(* beginConstructor: "uint m_x = 123;" *)
initStateVars(c, k) == IF c.nvars > 0 THEN [k EXCEPT !.vars = @ + 1] ELSE k

EnterConstructor ==
    /\ pc = "entry"
    /\ fn.kind = "constructor"
    /\ LET k == IF constructorLoads(ctr, c7) THEN c4_to_c7(ctr, c7, r4) ELSE c7
       IN  /\ c7' = initStateVars(ctr, k)
           /\ CASE k.ctor = 1 -> Throw(ConstructorIsCalledTwice)
                [] k.ctor = 0 /\ ~tx.msg.argsOk -> Throw(CellUnderflow)
                [] k.ctor = 0 /\ tx.msg.argsOk -> Goto("body")
    /\ Same
    /\ UNCHANGED <<fn, r4, c5, cmt, accepted, gas>>

(* generatePublicFunction, generateReceiveOrFallbackOrOnBounce: what comes *)
(* before the body.                                                        *)
EnterFunction ==
    /\ pc = "entry"
    /\ fn.kind # "constructor"
    /\ c7' = IF checkCtorCalled(ctr, c7) /\ pushC4ToC7IfNeed(ctr, fn, c7)
             THEN c4_to_c7(ctr, c7, r4) ELSE c7
    /\ CASE ~checkCtorCalled(ctr, c7) -> Throw(CallThatWasBeforeCtorCall)
         [] checkCtorCalled(ctr, c7) /\ fn.kind = "public" /\ ~tx.msg.argsOk ->
              Throw(CellUnderflow)
         [] OTHER -> Goto("body")
    /\ Same
    /\ UNCHANGED <<fn, r4, c5, cmt, accepted, gas>>

(* onTickTock: neither a constructor check nor a selector. *)
OnTickTock ==
    /\ ctr.onTickTock.kind # "none"
    /\ Begin("tick", "none")
    /\ fn' = ctr.onTickTock
    /\ c7' = IF ctr.onTickTock.mut = "pure" THEN EmptyC7 ELSE c4_to_c7(ctr, EmptyC7, c4)
    /\ Goto("body")

-----------------------------------------------------------------------------
(***************************************************************************)
(* The body of the user's function: any sequence of built-ins.             *)
(***************************************************************************)
BodyStep ==
    /\ pc = "body"
    /\ gas > 0
    /\ gas' = gas - 1
    /\ Same
    /\ UNCHANGED fn

(* ACCEPT *)
Accept ==
    /\ BodyStep
    /\ Goto("body")
    /\ accepted' = TRUE
    /\ UNCHANGED <<r4, c5, c7, cmt>>

(* An assignment: the view/pure checker lets only other functions assign. *)
AssignStateVar ==
    /\ BodyStep
    /\ fn.mut = "nonpayable" /\ ctr.nvars > 0 /\ c7.vars < MaxWrites
    /\ Goto("body")
    /\ c7' = [c7 EXCEPT !.vars = @ + 1]
    /\ UNCHANGED <<r4, c5, cmt, accepted>>

(* tvm.resetStorage(): the state variables, not the hidden ones. *)
ResetStorage ==
    /\ BodyStep
    /\ fn.mut = "nonpayable" /\ ctr.nvars > 0
    /\ Goto("body")
    /\ c7' = [c7 EXCEPT !.vars = 0]
    /\ UNCHANGED <<r4, c5, cmt, accepted>>

(* SENDRAWMSG *)
SendMsg ==
    /\ BodyStep
    /\ Goto("body")
    /\ c5' = c5 + 1
    /\ UNCHANGED <<r4, c7, cmt, accepted>>

(* tvm.commit(): c7_to_c4, COMMIT *)
Commit ==
    /\ BodyStep
    /\ fn.mut = "nonpayable"
    /\ IF Storable(ctr, c7)
       THEN /\ Goto("body")
            /\ r4' = c7_to_c4(ctr, c7)
            /\ cmt' = [done |-> TRUE, c4 |-> c7_to_c4(ctr, c7), c5 |-> c5]
       ELSE Throw(TypeCheckError) /\ UNCHANGED <<r4, cmt>>
    /\ UNCHANGED <<c5, c7, accepted>>

(* tvm.rawCommit(): COMMIT alone *)
RawCommit ==
    /\ BodyStep
    /\ fn.mut = "nonpayable" /\ ctr.rawCommit
    /\ Goto("body")
    /\ cmt' = [done |-> TRUE, c4 |-> r4, c5 |-> c5]
    /\ UNCHANGED <<r4, c5, c7, accepted>>

(* tvm.exit(), tvm.exit1(); the generator refuses them (solAssert) in a    *)
(* contract that has no global to test.                                    *)
Exit ==
    /\ BodyStep
    /\ ctr.headers \/ ctr.nvars > 0
    /\ \E n \in {0, 1} : IF was_c4_to_c7_called(ctr, c7) /\ ~Storable(ctr, c7)
                         THEN Throw(TypeCheckError) ELSE Throw(n)
    /\ r4' = IF was_c4_to_c7_called(ctr, c7) THEN c7_to_c4(ctr, c7) ELSE r4
    /\ UNCHANGED <<c5, c7, cmt, accepted>>

(* onCodeUpgrade(...): its body, c7_to_c4, COMMIT, THROW 0 *)
OnCodeUpgrade ==
    /\ BodyStep
    /\ ctr.upgrade
    /\ IF Storable(ctr, c7)
       THEN /\ Throw(0)
            /\ r4' = c7_to_c4(ctr, c7)
            /\ cmt' = [done |-> TRUE, c4 |-> c7_to_c4(ctr, c7), c5 |-> c5]
       ELSE Throw(TypeCheckError) /\ UNCHANGED <<r4, cmt>>
    /\ UNCHANGED <<c5, c7, accepted>>

(* require, revert, any exception of the user's code *)
Revert ==
    /\ BodyStep
    /\ Throw(UserError)
    /\ UNCHANGED <<r4, c5, c7, cmt, accepted>>

OutOfGas ==
    /\ pc = "body"
    /\ gas = 0
    /\ Throw(OutOfGasError)
    /\ Same
    /\ UNCHANGED <<fn, r4, c5, c7, cmt, accepted, gas>>

(* emitOnPublicFunctionReturn: the messages sent with the returned values. *)
emitOnPublicFunctionReturn(f, kind) ==
    IF /\ f.kind = "public"
       /\ f.ret # "none"
       /\ f.ret = "responsible" \/ (f.ext /\ kind = "ext")
    THEN 1 ELSE 0

(* Which fragment saves the state at the end of the generated function? *)
saveOnReturn(c, f, kind) ==
    CASE f.kind = "constructor" -> "c7_to_c4"
      [] f.kind = "onTickTock" -> IF f.mut = "pure" THEN "none" ELSE "c7_to_c4"
      [] OTHER -> updC4IfItNeeds(c, f, kind)

ReturnFromBody ==
    /\ pc = "body"
    /\ c5' = c5 + emitOnPublicFunctionReturn(fn, tx.kind)
    /\ CASE saveOnReturn(ctr, fn, tx.kind) = "none" -> ReturnQuietly /\ UNCHANGED r4
         [] saveOnReturn(ctr, fn, tx.kind) = "c7_to_c4" ->
              IF Storable(ctr, c7) THEN ReturnQuietly /\ r4' = c7_to_c4(ctr, c7)
              ELSE Throw(TypeCheckError) /\ UNCHANGED r4
         [] saveOnReturn(ctr, fn, tx.kind) = "upd_only_time_in_c4" ->
              IF c7.loaded THEN ReturnQuietly /\ r4' = upd_only_time_in_c4(c7, r4)
              ELSE Throw(TypeCheckError) /\ UNCHANGED r4
    /\ Same
    /\ UNCHANGED <<fn, c7, cmt, accepted, gas>>

-----------------------------------------------------------------------------
(***************************************************************************)
(* The network again: transactions end, time passes.                       *)
(***************************************************************************)
Succeeds == code \in {0, 1}

(* A message that was not accepted leaves no trace; an exception rolls     *)
(* back to the last COMMIT, if there was one.                              *)
Persists == accepted /\ (Succeeds \/ cmt.done)
FinalC4 == IF Succeeds THEN r4 ELSE cmt.c4
FinalC5 == IF Succeeds THEN c5 ELSE cmt.c5

CountUpTo2(n) == IF n < 2 THEN n + 1 ELSE n

EndTransaction ==
    /\ pc = "end"
    /\ pc' = "idle"
    /\ c4' = IF Persists THEN FinalC4 ELSE c4
    /\ effects' = IF Persists /\ tx.kind = "ext"
                  THEN [effects EXCEPT ![tx.msg] = CountUpTo2(@)] ELSE effects
    /\ built' = IF Persists /\ fn.kind = "constructor" THEN CountUpTo2(built) ELSE built
    /\ tx' = NoMessage /\ fn' = NoFunction /\ r4' = default_data_cell /\ c5' = 0
    /\ c7' = EmptyC7 /\ cmt' = NoCommit /\ accepted' = FALSE /\ gas' = 0 /\ code' = 0
    /\ UNCHANGED <<ctr, now>>

AdvanceTime ==
    /\ pc = "idle"
    /\ now < MaxNow
    /\ now' = now + 1
    /\ UNCHANGED <<ctr, c4, effects, built, pc, txVars>>

-----------------------------------------------------------------------------
Init ==
    /\ ctr \in Contracts
    /\ now = 0
    /\ c4 = default_data_cell
    /\ effects = [m \in ExtMessages |-> 0]
    /\ built = 0
    /\ pc = "idle"
    /\ tx = NoMessage /\ fn = NoFunction /\ r4 = default_data_cell /\ c5 = 0
    /\ c7 = EmptyC7 /\ cmt = NoCommit /\ accepted = FALSE /\ gas = 0 /\ code = 0

Body == \/ Accept \/ AssignStateVar \/ ResetStorage \/ SendMsg \/ Commit \/ RawCommit
        \/ Exit \/ OnCodeUpgrade \/ Revert \/ OutOfGas \/ ReturnFromBody

(* The steps of the generated code and of the TVM inside a transaction. *)
VmStep == \/ CheckSignature \/ StandardReplayProtection \/ AfterSignatureCheck
          \/ CheckExpire \/ PushReceiveOrFallbackAndLoadFuncId \/ SelectFunction
          \/ EnterConstructor \/ EnterFunction \/ Body \/ EndTransaction

Next == \/ \E m \in ExtMessages : MainExternal(m)
        \/ \E m \in IntMessages : MainInternal(m)
        \/ OnTickTock
        \/ AdvanceTime
        \/ VmStep

Spec == Init /\ [][Next]_vars

-----------------------------------------------------------------------------
(***************************************************************************)
(* Properties.                                                             *)
(***************************************************************************)
(* The types of the account, of the registers and of the history. *)
TypeOK ==
    /\ ctr \in Contracts
    /\ now \in 0..MaxNow
    /\ c4 \in C4Type
    /\ effects \in [ExtMessages -> 0..2]
    /\ built \in 0..2
    /\ pc \in {"idle", "signature", "replay", "expire", "dispatch", "select",
               "entry", "body", "end"}
    /\ tx \in {NoMessage, [kind |-> "tick", msg |-> "none"]}
             \cup [kind : {"ext"}, msg : ExtMessages]
             \cup [kind : {"int"}, msg : IntMessages]
    /\ fn \in FunctionType
    /\ r4 \in C4Type
    /\ c5 \in Nat
    /\ c7 \in C7Type
    /\ cmt \in [done : BOOLEAN, c4 : C4Type, c5 : Nat]
    /\ accepted \in BOOLEAN
    /\ gas \in 0..Gas
    /\ code \in ExitCodes

-----------------------------------------------------------------------------
(* The standard replay protections are the compiler's promise; tvm.rawCommit *)
(* is documented to give it up, afterSignatureCheck replaces it.             *)
Guarded == ctr.prot # "custom" /\ ~ctr.rawCommit

(* However often the network delivers an external message, and whatever     *)
(* other messages come between, it takes effect (state or output actions)   *)
(* at most once: c4's time and the saving of c7 on every path that can      *)
(* persist anything (return, tvm.commit, tvm.exit, onCodeUpgrade).          *)
AtMostOnce == Guarded => \A m \in ExtMessages : effects[m] <= 1

(* What a message that takes effect has passed: its signature is by the key *)
(* it claims or by the owner, it is not expired, it is not from the future  *)
(* beyond the interval, and its time is what c4 will hold.                  *)
EffectsAreChecked ==
    pc = "end" /\ Persists /\ tx.kind = "ext" =>
        /\ tx.msg.sig \in {NoKey, Owner, tx.msg.pubkey}
        /\ c7.msgPubkey # NoKey => tx.msg.sig = c7.msgPubkey
        /\ ctr.prot # "custom" /\ ctr.hasExpire => now < tx.msg.expire
        /\ Guarded => c4.time < tx.msg.time /\ FinalC4.time = tx.msg.time

(* A contract is constructed at most once, and before that no other         *)
(* function (onTickTock apart, which has no such check) leaves a trace:     *)
(* checkCtorCalled, THROWIF 51 and the flag that every c7_to_c4 writes.     *)
ConstructedFirst ==
    /\ built <= 1
    /\ pc = "end" /\ Persists /\ hasConstructor(ctr) /\ fn.kind \notin {"none", "onTickTock"} =>
        IF fn.kind = "constructor" THEN c4.ctor = 0 /\ FinalC4.ctor = 1 ELSE c4.ctor = 1

(* No assignment is lost: a function that may assign and ends well leaves   *)
(* in c4 what it had in c7, whether it returned, called tvm.exit or         *)
(* onCodeUpgrade.                                                           *)
NoLostUpdate ==
    pc = "end" /\ Succeeds /\ fn.mut = "nonpayable" => r4.vars = c7.vars

(* view and pure functions change the hidden fields only. *)
ViewKeepsState ==
    pc = "end" /\ Persists /\ fn.mut # "nonpayable" => FinalC4.vars = c4.vars

(* c7_to_c4 and upd_only_time_in_c4 never run on globals that were not loaded. *)
SavesOnlyLoaded == pc = "end" => code # TypeCheckError

(* The replay-protection value never goes back. *)
ReplayValueMonotone == [][Guarded => c4'.time >= c4.time]_vars

(***************************************************************************)
(* The strengthening that makes TypeOK and AtMostOnce inductive.           *)
(***************************************************************************)
(* Which messages the code processes where. *)
PhaseOK ==
    /\ pc \in {"signature", "replay", "expire"} => tx.kind = "ext"
    /\ pc = "dispatch" => tx.kind = "int"
    /\ pc \in {"select", "entry"} => tx.kind \in {"ext", "int"}
    /\ pc = "idle" <=> tx.kind = "none"
    /\ tx.kind = "ext" => ctr.headers
    /\ tx.kind = "ext" /\ pc \in {"entry", "body"} =>
         fn.ext /\ fn.kind \in {"constructor", "public", "fallback"}
    /\ ~ctr.headers => c4.time = 0 /\ r4.time = 0 /\ cmt.c4.time = 0

(* An external message that has taken effect is not later than c4's time. *)
AppliedIsPast == \A m \in ExtMessages : effects[m] <= 1 /\ (effects[m] = 1 => m.time <= c4.time)

(* Inside the transaction of an external message everything that can be     *)
(* saved or has been committed carries the time of the message, which is    *)
(* ahead of c4's.                                                           *)
ExternalTime ==
    tx.kind = "ext" =>
        /\ pc \in {"signature", "replay"} => c7.loaded /\ c7.time = c4.time
        /\ pc \in {"expire", "select", "entry", "body"} =>
             c7.loaded /\ c7.time = tx.msg.time /\ c4.time < tx.msg.time
        /\ pc \in {"signature", "replay", "expire", "select", "entry"} => ~accepted /\ ~cmt.done
        /\ cmt.done => cmt.c4.time = tx.msg.time /\ c4.time < tx.msg.time
        /\ pc = "end" /\ accepted /\ Succeeds => r4.time = tx.msg.time /\ c4.time < tx.msg.time

(* Inside any other transaction everything carries c4's time. *)
OtherTime ==
    tx.kind \in {"int", "tick"} =>
        /\ r4.time = c4.time
        /\ c7.loaded /\ ctr.headers => c7.time = c4.time
        /\ cmt.done => cmt.c4.time = c4.time

IInv == TypeOK /\ PhaseOK /\ (Guarded => AppliedIsPast /\ ExternalTime /\ OtherTime)
=============================================================================
