------------------------- MODULE ContractRuntimeProofs -------------------------
(***************************************************************************)
(* Theorems about ContractRuntime, for every set of contracts and messages *)
(* and every bound: types and the replay value from IInv, then the safety  *)
(* properties from SafetyInv of ContractInvariants, at last that the       *)
(* generated code of a disciplined contract implements AbstractContract.   *)
(***************************************************************************)
EXTENDS ContractRefinement, ContractInvariants, TLAPS

-----------------------------------------------------------------------------
(***************************************************************************)
(* Lemmas about the fragments that move data.                              *)
(***************************************************************************)
(* c4_to_c7 yields well-typed globals. *)
LEMMA LoadType ==
    ASSUME NEW c \in ContractType, NEW k \in C7Type, NEW r \in C4Type
    PROVE  /\ c4_to_c7(c, k, r) \in C7Type
           /\ c4_to_c7(c, k, r).loaded = TRUE
           /\ c4_to_c7(c, k, r).msgPubkey = k.msgPubkey
           /\ c4_to_c7(c, k, r).vars = r.vars
           /\ c.headers => c4_to_c7(c, k, r).time = r.time
  BY DEF c4_to_c7, C7Type, C4Type

(* c7_to_c4 yields a well-typed cell. *)
LEMMA SaveType ==
    ASSUME NEW c \in ContractType, NEW k \in C7Type
    PROVE  c7_to_c4(c, k) \in C4Type
  BY DEF c7_to_c4, C7Type, C4Type

(* The constants that transactions start from are well-typed. *)
LEMMA InitialType == /\ default_data_cell \in C4Type
                     /\ EmptyC7 \in C7Type
                     /\ NoFunction \in FunctionType
                     /\ NoCommit \in [done : BOOLEAN, c4 : C4Type, c5 : Nat]
  BY DEF default_data_cell, EmptyC7, NoFunction, NoCommit, C4Type, C7Type,
         FunctionType, Mutability

(* The message of a transaction, by its kind. *)
LEMMA MessageType ==
    ASSUME TypeOK
    PROVE  /\ tx.kind = "ext" => tx.msg \in ExtMessages
           /\ tx.kind = "int" => tx.msg \in IntMessages
           /\ tx.kind \in {"none", "tick", "ext", "int"}
  BY DEF TypeOK, NoMessage

(* The deployed contract and its functions. *)
LEMMA ContractFacts ==
    ASSUME TypeOK
    PROVE  /\ ctr \in ContractType
           /\ ctr.receive \in FunctionType
           /\ ctr.fallback \in FunctionType /\ ctr.fallback.kind \in {"none", "fallback"}
           /\ ctr.onBounce \in FunctionType
           /\ ctr.onTickTock \in FunctionType
           /\ \A id \in FunctionIds :
                 /\ ctr.functions[id] \in FunctionType
                 /\ ctr.functions[id].kind \in {"none", "public", "constructor"}
  BY InputsAssumption DEF TypeOK, ContractType, FunctionOf

(* What the selector returns is a function for this kind of message, or     *)
(* nothing.                                                                 *)
LEMMA SelectorFacts ==
    ASSUME TypeOK, NEW kind, NEW id
    PROVE  /\ generatePublicFunctionSelector(ctr, kind, id) \in FunctionType
           /\ kind = "ext" /\ generatePublicFunctionSelector(ctr, kind, id) # NoFunction =>
                /\ generatePublicFunctionSelector(ctr, kind, id).ext
                /\ generatePublicFunctionSelector(ctr, kind, id).kind
                      \in {"constructor", "public", "fallback"}
  BY ContractFacts, InitialType
     DEF generatePublicFunctionSelector, getExtPublicFunctions, getIntPublicFunctions

-----------------------------------------------------------------------------
(* Every step keeps the types and the phases. *)
LEMMA TypeStep ==
    ASSUME TypeOK, PhaseOK, [Next]_vars
    PROVE  TypeOK' /\ PhaseOK'
<1> USE ConstantsAssumption
<1>0. ctr \in ContractType
  BY ContractFacts
<1>1. ASSUME NEW m \in ExtMessages, MainExternal(m) PROVE TypeOK' /\ PhaseOK'
  <2>1. c4_to_c7(ctr, EmptyC7, c4) \in C7Type
    BY <1>0, LoadType, InitialType DEF TypeOK
  <2> QED BY <1>1, <2>1, InitialType
          DEF MainExternal, Begin, Goto, TypeOK, PhaseOK, ExitCodes
<1>2. ASSUME NEW m \in IntMessages, MainInternal(m) PROVE TypeOK' /\ PhaseOK'
  <2>1. c7' \in C7Type
    BY <1>2, InitialType DEF MainInternal, TypeOK, C4Type, C7Type
  <2>2. fn' \in FunctionType /\ pc' \in {"dispatch", "end", "entry"} /\ code' \in ExitCodes
    BY <1>2, InitialType, ContractFacts
       DEF MainInternal, Goto, Throw, ReturnQuietly, ExitCodes, CellUnderflow
  <2> QED BY <1>2, <2>1, <2>2, InitialType
          DEF MainInternal, Begin, TypeOK, PhaseOK, NoCommit, default_data_cell
<1>3. CASE OnTickTock
  <2>1. c7' \in C7Type
    BY <1>0, <1>3, LoadType, InitialType DEF OnTickTock, TypeOK
  <2> QED BY <1>3, <2>1, InitialType, ContractFacts
          DEF OnTickTock, Begin, Goto, TypeOK, PhaseOK, ExitCodes, NoCommit, default_data_cell
<1>4. CASE AdvanceTime
  BY <1>4 DEF AdvanceTime, txVars, TypeOK, PhaseOK
<1>5. CASE CheckSignature
  <2>1. tx.kind = "ext" /\ tx.msg \in ExtMessageType
    BY <1>5, MessageType, InputsAssumption DEF CheckSignature, PhaseOK
  <2>2. pushMsgPubkey(ctr, tx.msg) \in Keys \cup {NoKey}
    BY <2>1 DEF pushMsgPubkey, ExtMessageType
  <2>3. c7' \in C7Type
    BY <1>5, <2>2 DEF CheckSignature, TypeOK, C7Type
  <2>4. pc' \in {"replay", "end"} /\ code' \in ExitCodes
    BY <1>5 DEF CheckSignature, checkSignatureAndReadPublicKey, Goto, Throw, ExitCodes
  <2> QED BY <1>5, <2>1, <2>3, <2>4 DEF CheckSignature, Same, TypeOK, PhaseOK
<1>6. CASE StandardReplayProtection
  <2>1. tx.kind = "ext" /\ tx.msg.time \in Nat
    BY <1>6, MessageType, InputsAssumption DEF StandardReplayProtection, PhaseOK, ExtMessageType
  <2>2. c7' \in C7Type
    BY <1>6, <2>1 DEF StandardReplayProtection, TypeOK, C7Type
  <2>3. pc' \in {"expire", "select", "end"} /\ code' \in ExitCodes
    BY <1>6 DEF StandardReplayProtection, AfterReplay, Goto, Throw, ExitCodes
  <2> QED BY <1>6, <2>1, <2>2, <2>3 DEF StandardReplayProtection, Same, TypeOK, PhaseOK
<1>7. CASE AfterSignatureCheck
  <2>1. tx.kind = "ext" /\ tx.msg.time \in Nat
    BY <1>7, MessageType, InputsAssumption DEF AfterSignatureCheck, PhaseOK, ExtMessageType
  <2>2. c7' \in C7Type
    BY <1>7, <2>1 DEF AfterSignatureCheck, TypeOK, C7Type
  <2>3. pc' \in {"expire", "select", "end"} /\ code' \in ExitCodes
    BY <1>7 DEF AfterSignatureCheck, AfterReplay, Goto, Throw, ExitCodes
  <2> QED BY <1>7, <2>1, <2>2, <2>3 DEF AfterSignatureCheck, Same, TypeOK, PhaseOK
<1>8. CASE CheckExpire
  BY <1>8 DEF CheckExpire, Same, Goto, Throw, ExitCodes, TypeOK, PhaseOK
<1>9. CASE PushReceiveOrFallbackAndLoadFuncId
  <2>1. fn' \in FunctionType /\ pc' \in {"select", "end", "entry"} /\ code' \in ExitCodes
    BY <1>9, ContractFacts
       DEF PushReceiveOrFallbackAndLoadFuncId, checkIfCtorCalled, Goto, Throw, ReturnQuietly,
           ExitCodes, TypeOK
  <2>2. tx.kind = "int"
    BY <1>9 DEF PushReceiveOrFallbackAndLoadFuncId, PhaseOK
  <2> QED BY <1>9, <2>1, <2>2 DEF PushReceiveOrFallbackAndLoadFuncId, Same, TypeOK, PhaseOK
<1>10. CASE SelectFunction
  <2> DEFINE f == generatePublicFunctionSelector(ctr, tx.kind, tx.msg.body)
  <2>1. /\ f \in FunctionType
        /\ tx.kind = "ext" /\ f # NoFunction =>
             f.ext /\ f.kind \in {"constructor", "public", "fallback"}
    BY SelectorFacts
  <2>2. \/ pc' = "entry" /\ code' = 0 /\ fn' = f /\ f # NoFunction
        \/ pc' = "end" /\ code' \in ExitCodes /\ fn' = fn
    BY <1>10 DEF SelectFunction, Goto, Throw, ExitCodes
  <2>3. tx.kind \in {"ext", "int"}
    BY <1>10 DEF SelectFunction, PhaseOK
  <2> HIDE DEF f
  <2> QED BY <1>10, <2>1, <2>2, <2>3 DEF SelectFunction, Same, TypeOK, PhaseOK, ExitCodes
<1>11. CASE EnterConstructor
  <2> DEFINE k == IF constructorLoads(ctr, c7) THEN c4_to_c7(ctr, c7, r4) ELSE c7
  <2>1. k \in C7Type
    BY <1>0, LoadType DEF TypeOK
  <2>2. c7' \in C7Type
    BY <1>11, <2>1 DEF EnterConstructor, initStateVars, C7Type
  <2>3. pc' \in {"body", "end"} /\ code' \in ExitCodes
    BY <1>11, <2>1 DEF EnterConstructor, Goto, Throw, ExitCodes, C7Type, TypeOK
  <2>4. tx.kind \in {"ext", "int"} /\ pc = "entry"
    BY <1>11 DEF EnterConstructor, PhaseOK
  <2> QED BY <1>11, <2>2, <2>3, <2>4 DEF EnterConstructor, Same, TypeOK, PhaseOK
<1>12. CASE EnterFunction
  <2>1. c7' \in C7Type
    BY <1>0, <1>12, LoadType DEF EnterFunction, TypeOK
  <2>2. pc' \in {"body", "end"} /\ code' \in ExitCodes
    BY <1>12 DEF EnterFunction, Goto, Throw, ExitCodes
  <2>3. tx.kind \in {"ext", "int"} /\ pc = "entry"
    BY <1>12 DEF EnterFunction, PhaseOK
  <2> QED BY <1>12, <2>1, <2>2, <2>3 DEF EnterFunction, Same, TypeOK, PhaseOK
<1>13. CASE Accept \/ SendMsg \/ Revert \/ OutOfGas
  <2>1. /\ pc' \in {"body", "end"} /\ code' \in ExitCodes /\ pc = "body"
        /\ gas' \in 0..Gas
        /\ UNCHANGED <<ctr, now, c4, effects, built, tx, fn, r4, c7, cmt>>
    BY <1>13 DEF Accept, SendMsg, Revert, OutOfGas, BodyStep, Same, Goto, Throw, ExitCodes, TypeOK
  <2>2. c5' \in Nat
    BY <1>13 DEF Accept, SendMsg, Revert, OutOfGas, TypeOK
  <2>3. accepted' \in BOOLEAN
    BY <1>13 DEF Accept, SendMsg, Revert, OutOfGas, TypeOK
  <2> QED BY <2>1, <2>2, <2>3 DEF TypeOK, PhaseOK
<1>14. CASE AssignStateVar \/ ResetStorage
  <2>1. /\ pc' = "body" /\ code' \in ExitCodes /\ pc = "body" /\ gas' \in 0..Gas
        /\ UNCHANGED <<ctr, now, c4, effects, built, tx, fn, r4, c5, cmt, accepted>>
    BY <1>14 DEF AssignStateVar, ResetStorage, BodyStep, Same, Goto, ExitCodes, TypeOK
  <2>2. c7' \in C7Type
    BY <1>14 DEF AssignStateVar, ResetStorage, TypeOK, C7Type
  <2> QED BY <2>1, <2>2 DEF TypeOK, PhaseOK
<1>15. CASE Commit \/ RawCommit \/ OnCodeUpgrade \/ Exit
  <2>1. /\ c7_to_c4(ctr, c7) \in C4Type
        /\ ~ctr.headers => c7_to_c4(ctr, c7).time = 0
    BY <1>0, SaveType DEF TypeOK, c7_to_c4
  <2> HIDE DEF c7_to_c4
  <2>2. /\ pc' \in {"body", "end"} /\ code' \in ExitCodes /\ pc = "body" /\ gas' \in 0..Gas
        /\ UNCHANGED <<ctr, now, c4, effects, built, tx, fn, c5, c7, accepted>>
    BY <1>15 DEF Commit, RawCommit, OnCodeUpgrade, Exit, BodyStep, Same, Goto, Throw,
                 ExitCodes, TypeOK
  <2>3. r4' \in {r4, c7_to_c4(ctr, c7)}
    BY <1>15 DEF Commit, RawCommit, OnCodeUpgrade, Exit
  <2>4. \/ cmt' = cmt
        \/ \E r \in {r4, c7_to_c4(ctr, c7)} : cmt' = [done |-> TRUE, c4 |-> r, c5 |-> c5]
    BY <1>15 DEF Commit, RawCommit, OnCodeUpgrade, Exit
  <2>5. r4' \in C4Type /\ (~ctr.headers => r4'.time = 0)
    BY <2>1, <2>3 DEF TypeOK, PhaseOK
  <2>6. cmt' \in [done : BOOLEAN, c4 : C4Type, c5 : Nat] /\ (~ctr.headers => cmt'.c4.time = 0)
    <3>1. CASE cmt' = cmt
      BY <2>2, <3>1 DEF TypeOK, PhaseOK
    <3>2. ASSUME NEW r \in {r4, c7_to_c4(ctr, c7)}, cmt' = [done |-> TRUE, c4 |-> r, c5 |-> c5]
          PROVE  cmt' \in [done : BOOLEAN, c4 : C4Type, c5 : Nat] /\ (~ctr.headers => cmt'.c4.time = 0)
      BY <2>1, <3>2 DEF TypeOK, PhaseOK
    <3> QED BY <2>4, <3>1, <3>2
  <2> QED BY <2>2, <2>5, <2>6 DEF TypeOK, PhaseOK
<1>16. CASE ReturnFromBody
  <2>1. /\ c7_to_c4(ctr, c7) \in C4Type
        /\ ~ctr.headers => c7_to_c4(ctr, c7).time = 0
    BY <1>0, SaveType DEF TypeOK, c7_to_c4
  <2>2. saveOnReturn(ctr, fn, tx.kind) = "upd_only_time_in_c4" => ctr.headers
    BY DEF saveOnReturn, updC4IfItNeeds
  <2>3. upd_only_time_in_c4(c7, r4) \in C4Type
    BY DEF upd_only_time_in_c4, TypeOK, C4Type, C7Type
  <2>4. /\ r4' \in {r4, c7_to_c4(ctr, c7), upd_only_time_in_c4(c7, r4)}
        /\ r4' = upd_only_time_in_c4(c7, r4) => r4' = r4 \/ r4' = c7_to_c4(ctr, c7) \/ ctr.headers
        /\ pc' = "end" /\ code' \in ExitCodes /\ pc = "body"
        /\ UNCHANGED <<ctr, now, c4, effects, built, tx, fn, c7, cmt, accepted, gas>>
    <3>1. saveOnReturn(ctr, fn, tx.kind) \in {"none", "c7_to_c4", "upd_only_time_in_c4"}
      BY DEF saveOnReturn, updC4IfItNeeds
    <3> QED BY <1>16, <2>2, <3>1 DEF ReturnFromBody, Same, ReturnQuietly, Throw, ExitCodes
  <2>5. c5' \in Nat
    BY <1>16 DEF ReturnFromBody, emitOnPublicFunctionReturn, TypeOK
  <2>6. r4' \in C4Type /\ (~ctr.headers => r4'.time = 0)
    BY <2>1, <2>3, <2>4 DEF TypeOK, PhaseOK
  <2> QED BY <2>4, <2>5, <2>6 DEF TypeOK, PhaseOK
<1>17. CASE EndTransaction
  <2>1. FinalC4 \in C4Type /\ (~ctr.headers => FinalC4.time = 0)
    BY DEF FinalC4, TypeOK, PhaseOK
  <2>2. c4' \in C4Type /\ (~ctr.headers => c4'.time = 0)
    BY <1>17, <2>1 DEF EndTransaction, TypeOK, PhaseOK
  <2>3. \A n \in 0..2 : CountUpTo2(n) \in 0..2
    BY DEF CountUpTo2
  <2>4. built' \in 0..2
    BY <1>17, <2>3 DEF EndTransaction, TypeOK
  <2>5. effects' \in [ExtMessages -> 0..2]
    BY <1>17, <2>3 DEF EndTransaction, TypeOK
  <2>6. TypeOK'
    <3>1. tx' = NoMessage /\ gas' = 0 /\ code' = 0 /\ accepted' = FALSE
      BY <1>17 DEF EndTransaction
    <3>2. /\ pc' = "idle" /\ fn' = NoFunction /\ r4' = default_data_cell /\ c5' = 0
          /\ c7' = EmptyC7 /\ cmt' = NoCommit /\ ctr' = ctr /\ now' = now
      BY <1>17 DEF EndTransaction
    <3>3. gas' \in 0..Gas
      BY <3>1
    <3>4. code' \in ExitCodes
      BY <3>1 DEF ExitCodes
    <3>5. accepted' \in BOOLEAN
      BY <3>1
    <3> QED BY <2>2, <2>4, <2>5, <3>1, <3>2, <3>3, <3>4, <3>5, InitialType DEF TypeOK
  <2>7. PhaseOK'
    BY <1>17, <2>2 DEF EndTransaction, PhaseOK, NoMessage, default_data_cell, NoCommit
  <2> QED BY <2>6, <2>7
<1>18. CASE UNCHANGED vars
  BY <1>18 DEF vars, txVars, TypeOK, PhaseOK
<1> QED
  BY <1>1, <1>2, <1>3, <1>4, <1>5, <1>6, <1>7, <1>8, <1>9, <1>10, <1>11, <1>12, <1>13,
     <1>14, <1>15, <1>16, <1>17, <1>18 DEF Next, VmStep, Body

(* TypeOK holds in every reachable state, for all contracts, messages and   *)
(* bounds.                                                                  *)
THEOREM TypeCorrect == Spec => []TypeOK
<1>1. Init => TypeOK /\ PhaseOK
  <2> SUFFICES ASSUME Init PROVE TypeOK /\ PhaseOK
    OBVIOUS
  <2>1. effects \in [ExtMessages -> 0..2] /\ built \in 0..2 /\ now \in 0..MaxNow /\ gas \in 0..Gas
    BY ConstantsAssumption DEF Init
  <2> QED BY <2>1, InitialType
     DEF Init, TypeOK, PhaseOK, NoMessage, default_data_cell, NoCommit, ExitCodes
<1>2. TypeOK /\ PhaseOK /\ [Next]_vars => (TypeOK /\ PhaseOK)'
  BY TypeStep
<1> QED BY <1>1, <1>2, PTL DEF Spec

-----------------------------------------------------------------------------
(***************************************************************************)
(* At most once.                                                           *)
(***************************************************************************)
(* Loading c4 again is skipped, and saving is never skipped, in a function  *)
(* that processes an external message.                                      *)
LEMMA ExternalFunction ==
    ASSUME NEW c \in ContractType, NEW f \in FunctionType, NEW k \in C7Type,
           f.ext, f.kind \in {"constructor", "public", "fallback"}, c.headers, k.loaded
    PROVE  /\ ~pushC4ToC7IfNeed(c, f, k)
           /\ ~constructorLoads(c, k)
           /\ saveOnReturn(c, f, "ext") \in {"c7_to_c4", "upd_only_time_in_c4"}
           /\ Storable(c, k)
           /\ was_c4_to_c7_called(c, k)
  BY DEF pushC4ToC7IfNeed, constructorLoads, was_c4_to_c7_called, saveOnReturn,
         updC4IfItNeeds, Storable, FunctionType

(* The steps between the entry of main_external and the body.  The facts    *)
(* about c4 and effects are not touched; what changes is c7 and pc.         *)
LEMMA OnceCheckStep ==
    ASSUME IInv, Guarded,
           \/ CheckSignature \/ StandardReplayProtection \/ AfterSignatureCheck
           \/ CheckExpire \/ PushReceiveOrFallbackAndLoadFuncId \/ SelectFunction
    PROVE  AppliedIsPast' /\ ExternalTime' /\ OtherTime'
<1> USE DEF IInv
<1>1. UNCHANGED <<ctr, c4, effects, tx, r4, cmt, accepted>>
  BY DEF CheckSignature, StandardReplayProtection, AfterSignatureCheck, CheckExpire,
         PushReceiveOrFallbackAndLoadFuncId, SelectFunction, Same
<1>2. AppliedIsPast'
  BY <1>1 DEF AppliedIsPast
<1>3. CASE CheckSignature
  <2>1. c7'.loaded = c7.loaded /\ c7'.time = c7.time
    BY <1>3 DEF CheckSignature, TypeOK, C7Type
  <2>2. pc = "signature" /\ tx.kind = "ext" /\ pc' \in {"replay", "end"}
    BY <1>3 DEF CheckSignature, Goto, Throw, PhaseOK
  <2> QED BY <1>1, <1>2, <2>1, <2>2 DEF ExternalTime, OtherTime
<1>4. CASE StandardReplayProtection
  <2>1. pc = "replay" /\ tx.kind = "ext" /\ tx.msg.time \in Nat
    BY <1>4, MessageType, InputsAssumption DEF StandardReplayProtection, PhaseOK, ExtMessageType
  <2>2. \/ pc' = "end"
        \/ /\ pc' \in {"expire", "select"}
           /\ c7' = [c7 EXCEPT !.time = tx.msg.time]
           /\ c7.time < tx.msg.time
    BY <1>4, <2>1 DEF StandardReplayProtection, Goto, Throw, AfterReplay, timeReplayProtection,
                      seqnoReplayProtection, TypeOK, C7Type
  <2>3. ~accepted /\ ~cmt.done /\ c7.loaded /\ c7.time = c4.time
    BY <2>1 DEF ExternalTime
  <2>4. CASE pc' = "end"
    BY <1>1, <1>2, <2>1, <2>3, <2>4 DEF ExternalTime, OtherTime
  <2>5. CASE pc' \in {"expire", "select"} /\ c7' = [c7 EXCEPT !.time = tx.msg.time]
                /\ c7.time < tx.msg.time
    <3>1. c7'.loaded = c7.loaded /\ c7'.time = tx.msg.time
      BY <2>5 DEF TypeOK, C7Type
    <3> QED BY <1>1, <1>2, <2>1, <2>3, <2>5, <3>1 DEF ExternalTime, OtherTime
  <2> QED BY <2>2, <2>4, <2>5
<1>5. CASE AfterSignatureCheck
  BY <1>5 DEF AfterSignatureCheck, Guarded
<1>6. CASE CheckExpire
  <2>1. pc = "expire" /\ tx.kind = "ext" /\ pc' \in {"select", "end"} /\ c7' = c7
    BY <1>6 DEF CheckExpire, Goto, Throw, PhaseOK
  <2> QED BY <1>1, <1>2, <2>1 DEF ExternalTime, OtherTime
<1>7. CASE PushReceiveOrFallbackAndLoadFuncId
  <2>1. tx.kind = "int" /\ c7' = c7
    BY <1>7 DEF PushReceiveOrFallbackAndLoadFuncId, PhaseOK
  <2> QED BY <1>1, <1>2, <2>1 DEF ExternalTime, OtherTime
<1>8. CASE SelectFunction
  <2>1. pc = "select" /\ pc' \in {"entry", "end"} /\ c7' = c7
    BY <1>8 DEF SelectFunction, Goto, Throw
  <2> QED BY <1>1, <1>2, <2>1 DEF ExternalTime, OtherTime
<1> QED BY <1>3, <1>4, <1>5, <1>6, <1>7, <1>8

(* Entering a function: an external message keeps the globals that          *)
(* main_external prepared, any other message may load c4's.                 *)
LEMMA OnceEnterStep ==
    ASSUME IInv, Guarded, EnterConstructor \/ EnterFunction
    PROVE  AppliedIsPast' /\ ExternalTime' /\ OtherTime'
<1> USE DEF IInv
<1>1. /\ UNCHANGED <<ctr, c4, effects, tx, r4, cmt, accepted>>
      /\ pc = "entry" /\ tx.kind \in {"ext", "int"}
      /\ pc' \in {"body", "end"}
  <2>1. /\ UNCHANGED <<ctr, c4, effects, tx, r4, cmt, accepted>>
        /\ pc = "entry" /\ tx.kind \in {"ext", "int"}
    BY DEF EnterConstructor, EnterFunction, Same, PhaseOK
  <2>2. CASE EnterFunction
    BY <2>1, <2>2 DEF EnterFunction, Goto, Throw
  <2>3. CASE EnterConstructor
    <3> DEFINE k == IF constructorLoads(ctr, c7) THEN c4_to_c7(ctr, c7, r4) ELSE c7
    <3>1. k \in C7Type
      BY ContractFacts, LoadType DEF TypeOK
    <3> QED BY <2>1, <2>3, <3>1 DEF EnterConstructor, Goto, Throw, C7Type
  <2> QED BY <2>1, <2>2, <2>3
<1>2. AppliedIsPast'
  BY <1>1 DEF AppliedIsPast
<1>3. ctr \in ContractType /\ c7 \in C7Type /\ r4 \in C4Type /\ fn \in FunctionType
  BY ContractFacts DEF TypeOK
<1>4. CASE tx.kind = "ext"
  <2>1. c7.loaded /\ c7.time = tx.msg.time /\ c4.time < tx.msg.time /\ ~accepted /\ ~cmt.done
    BY <1>1, <1>4 DEF ExternalTime
  <2>2. ~pushC4ToC7IfNeed(ctr, fn, c7) /\ ~constructorLoads(ctr, c7)
    BY <1>1, <1>3, <1>4, <2>1, ExternalFunction DEF PhaseOK
  <2>3. c7'.loaded = c7.loaded /\ c7'.time = c7.time
    BY <1>3, <2>2 DEF EnterConstructor, EnterFunction, initStateVars, C7Type
  <2> QED BY <1>1, <1>2, <1>4, <2>1, <2>3 DEF ExternalTime, OtherTime
<1>5. CASE tx.kind = "int"
  <2>1. c4_to_c7(ctr, c7, r4) \in C7Type /\ (ctr.headers => c4_to_c7(ctr, c7, r4).time = r4.time)
    BY <1>3, LoadType
  <2>2. ctr.headers /\ c7'.loaded => c7'.time = c4.time
    <3>1. PICK k \in {c7, c4_to_c7(ctr, c7, r4)} : c7' = k \/ c7' = initStateVars(ctr, k)
      BY DEF EnterConstructor, EnterFunction
    <3>2. c7'.loaded = k.loaded /\ c7'.time = k.time
      BY <1>3, <2>1, <3>1 DEF initStateVars, C7Type
    <3> QED BY <1>5, <2>1, <3>1, <3>2 DEF OtherTime
  <2> QED BY <1>1, <1>2, <1>5, <2>2 DEF ExternalTime, OtherTime
<1> QED BY <1>1, <1>4, <1>5

(* The built-ins: whatever is saved or committed carries c7's time. *)
LEMMA OnceBodyStep ==
    ASSUME IInv, Guarded, Body
    PROVE  AppliedIsPast' /\ ExternalTime' /\ OtherTime'
<1> USE DEF IInv
<1>0. /\ saveOnReturn(ctr, fn, tx.kind) \in {"none", "c7_to_c4", "upd_only_time_in_c4"}
      /\ saveOnReturn(ctr, fn, tx.kind) = "upd_only_time_in_c4" => ctr.headers
  BY DEF saveOnReturn, updC4IfItNeeds
<1>1. pc = "body" /\ UNCHANGED <<ctr, c4, effects, tx, fn>> /\ pc' \in {"body", "end"}
  BY <1>0 DEF Body, Accept, AssignStateVar, ResetStorage, SendMsg, Commit, RawCommit, Exit,
         OnCodeUpgrade, Revert, OutOfGas, ReturnFromBody, BodyStep, Same, Goto, Throw,
         ReturnQuietly
<1>2. AppliedIsPast'
  BY <1>1 DEF AppliedIsPast
<1>3. ctr \in ContractType /\ c7 \in C7Type /\ r4 \in C4Type /\ fn \in FunctionType /\ tx.kind # "none"
  BY <1>1, ContractFacts DEF TypeOK, PhaseOK
<1>4. c7'.loaded = c7.loaded /\ c7'.time = c7.time
  BY <1>3 DEF Body, Accept, AssignStateVar, ResetStorage, SendMsg, Commit, RawCommit, Exit,
         OnCodeUpgrade, Revert, OutOfGas, ReturnFromBody, C7Type
<1> DEFINE saved == c7_to_c4(ctr, c7)
<1>5. /\ ctr.headers => saved.time = c7.time
      /\ ~ctr.headers => saved.time = 0
  BY DEF c7_to_c4
<1>6. upd_only_time_in_c4(c7, r4).time = c7.time
  BY <1>3 DEF upd_only_time_in_c4, C4Type
<1>7. /\ cmt' = cmt \/ (cmt' = [done |-> TRUE, c4 |-> saved, c5 |-> c5] /\ Storable(ctr, c7))
      /\ ~RawCommit
  BY <1>1 DEF Body, Accept, AssignStateVar, ResetStorage, SendMsg, Commit, RawCommit, Exit,
         OnCodeUpgrade, Revert, OutOfGas, ReturnFromBody, Guarded
<1>8. /\ r4' \in {r4, saved, upd_only_time_in_c4(c7, r4)}
      /\ r4' = upd_only_time_in_c4(c7, r4) => r4' \in {r4, saved} \/ (c7.loaded /\ ctr.headers)
      /\ r4' = saved => r4' = r4 \/ Storable(ctr, c7) \/ was_c4_to_c7_called(ctr, c7)
                         \/ (c7.loaded /\ ctr.headers)
  BY <1>0 DEF Body, Accept, AssignStateVar, ResetStorage, SendMsg, Commit, RawCommit, Exit,
         OnCodeUpgrade, Revert, OutOfGas, ReturnFromBody
<1> HIDE DEF saved
<1>9. CASE tx.kind = "ext"
  <2>1. /\ c7.loaded /\ c7.time = tx.msg.time /\ c4.time < tx.msg.time /\ ctr.headers
        /\ cmt.done => cmt.c4.time = tx.msg.time
        /\ saved.time = tx.msg.time
    BY <1>1, <1>5, <1>9 DEF ExternalTime, PhaseOK
  <2>2. /\ was_c4_to_c7_called(ctr, c7)
        /\ saveOnReturn(ctr, fn, "ext") \in {"c7_to_c4", "upd_only_time_in_c4"}
        /\ Storable(ctr, c7)
    BY <1>1, <1>3, <1>9, <2>1, ExternalFunction DEF PhaseOK
  <2>3. cmt'.done => cmt'.c4.time = tx.msg.time
    BY <1>7, <2>1
  <2>4. pc' = "end" /\ code' \in {0, 1} => r4'.time = tx.msg.time
    <3>1. CASE ReturnFromBody
      BY <1>6, <1>9, <2>1, <2>2, <3>1 DEF ReturnFromBody, ReturnQuietly, Throw, saved
    <3>2. CASE Exit \/ OnCodeUpgrade
      BY <2>1, <2>2, <3>2 DEF Exit, OnCodeUpgrade, saved
    <3>3. CASE Revert \/ OutOfGas
      BY <3>3 DEF Revert, OutOfGas, Throw, UserError, OutOfGasError
    <3>4. CASE Accept \/ AssignStateVar \/ ResetStorage \/ SendMsg \/ RawCommit
      BY <3>4 DEF Accept, AssignStateVar, ResetStorage, SendMsg, RawCommit, Goto
    <3>5. CASE Commit
      BY <2>2, <3>5 DEF Commit, Goto
    <3> QED BY <3>1, <3>2, <3>3, <3>4, <3>5 DEF Body
  <2>5. ExternalTime'
    BY <1>1, <1>4, <1>9, <2>1, <2>3, <2>4 DEF ExternalTime, Succeeds
  <2> QED BY <1>1, <1>2, <1>9, <2>5 DEF OtherTime
<1>10. CASE tx.kind \in {"int", "tick"}
  <2>1. /\ r4.time = c4.time
        /\ c7.loaded /\ ctr.headers => c7.time = c4.time
        /\ cmt.done => cmt.c4.time = c4.time
        /\ ~ctr.headers => c4.time = 0
    BY <1>10 DEF OtherTime, PhaseOK
  <2>2. Storable(ctr, c7) \/ was_c4_to_c7_called(ctr, c7) => (ctr.headers => c7.loaded)
    BY DEF Storable, was_c4_to_c7_called
  <2>3. r4'.time = c4.time
    BY <1>5, <1>6, <1>8, <2>1, <2>2
  <2>4. cmt'.done => cmt'.c4.time = c4.time
    BY <1>5, <1>7, <2>1, <2>2
  <2> QED BY <1>1, <1>2, <1>4, <1>10, <2>1, <2>3, <2>4 DEF ExternalTime, OtherTime
<1> QED BY <1>3, <1>9, <1>10, MessageType

(* A transaction that persists moves c4's time to that of its message, if   *)
(* it is external, and leaves it alone otherwise.                           *)
LEMMA OnceEndStep ==
    ASSUME IInv, Guarded, EndTransaction
    PROVE  AppliedIsPast' /\ ExternalTime' /\ OtherTime' /\ c4'.time >= c4.time
<1> USE DEF IInv
<1>0. pc = "end" /\ tx.kind \in {"tick", "ext", "int"} /\ c4.time \in Nat
  BY MessageType DEF EndTransaction, PhaseOK, TypeOK, C4Type
<1>1. tx'.kind = "none"
  BY DEF EndTransaction, NoMessage
<1>2. ExternalTime' /\ OtherTime'
  BY <1>1 DEF ExternalTime, OtherTime
<1>3. CASE ~Persists
  BY <1>0, <1>2, <1>3 DEF EndTransaction, AppliedIsPast
<1>4. CASE Persists /\ tx.kind # "ext"
  <2>1. c4'.time = c4.time
    BY <1>0, <1>4 DEF EndTransaction, FinalC4, Persists, OtherTime
  <2>2. effects' = effects
    BY <1>4 DEF EndTransaction
  <2> QED BY <1>0, <1>2, <2>1, <2>2 DEF AppliedIsPast
<1>5. CASE Persists /\ tx.kind = "ext"
  <2>1. c4'.time = tx.msg.time /\ c4.time < tx.msg.time
    BY <1>0, <1>5 DEF EndTransaction, FinalC4, Persists, ExternalTime
  <2>2. tx.msg \in ExtMessages /\ tx.msg.time \in Nat
    BY <1>5, MessageType, InputsAssumption DEF ExtMessageType
  <2>3. effects \in [ExtMessages -> 0..2]
    BY DEF TypeOK
  <2>4. effects[tx.msg] = 0
    BY <1>0, <2>1, <2>2, <2>3 DEF AppliedIsPast
  <2>5. effects' = [effects EXCEPT ![tx.msg] = 1]
    BY <1>5, <2>2, <2>3, <2>4 DEF EndTransaction, CountUpTo2
  <2>6. ASSUME NEW m \in ExtMessages PROVE effects'[m] <= 1 /\ (effects'[m] = 1 => m.time <= c4'.time)
    <3>1. m.time \in Nat
      BY InputsAssumption DEF ExtMessageType
    <3>2. effects[m] <= 1 /\ (effects[m] = 1 => m.time <= c4.time)
      BY DEF AppliedIsPast
    <3> QED BY <1>0, <2>1, <2>2, <2>3, <2>5, <3>1, <3>2
  <2> QED BY <1>0, <1>2, <2>1, <2>2, <2>6 DEF AppliedIsPast
<1> QED BY <1>3, <1>4, <1>5

(* Every step keeps the whole invariant, and c4's time does not go back. *)
LEMMA OnceStep ==
    ASSUME IInv, [Next]_vars
    PROVE  IInv' /\ (Guarded => c4'.time >= c4.time)
<1>0. TypeOK' /\ PhaseOK'
  BY TypeStep DEF IInv
<1>1. c4.time \in Nat
  BY DEF IInv, TypeOK, C4Type
<1>2. ctr' = ctr
  BY DEF Next, VmStep, Body, MainExternal, MainInternal, OnTickTock, Begin, AdvanceTime,
         CheckSignature, StandardReplayProtection, AfterSignatureCheck, CheckExpire,
         PushReceiveOrFallbackAndLoadFuncId, SelectFunction, EnterConstructor, EnterFunction,
         Accept, AssignStateVar, ResetStorage, SendMsg, Commit, RawCommit, Exit,
         OnCodeUpgrade, Revert, OutOfGas, ReturnFromBody, BodyStep, EndTransaction, Same,
         vars, txVars
<1>3. SUFFICES ASSUME Guarded
               PROVE  AppliedIsPast' /\ ExternalTime' /\ OtherTime' /\ c4'.time >= c4.time
  BY <1>0, <1>2 DEF IInv, Guarded
<1> DEFINE k == c4_to_c7(ctr, EmptyC7, c4)
<1>a. k.loaded = TRUE /\ (ctr.headers => k.time = c4.time) /\ EmptyC7.loaded = FALSE
  <2>1. ctr \in ContractType /\ c4 \in C4Type /\ EmptyC7 \in C7Type
    BY ContractFacts, InitialType DEF IInv, TypeOK
  <2>2. EmptyC7.loaded = FALSE
    BY DEF EmptyC7
  <2> QED BY <2>1, <2>2, LoadType
<1> HIDE DEF k
<1>4. ASSUME NEW m \in ExtMessages, MainExternal(m)
      PROVE  AppliedIsPast' /\ ExternalTime' /\ OtherTime' /\ c4' = c4
  <2>1. c7'.loaded /\ c7'.time = c4.time
    BY <1>4, <1>a DEF MainExternal, k
  <2>2. /\ tx'.kind = "ext" /\ accepted' = FALSE /\ cmt' = NoCommit /\ pc' = "signature"
        /\ UNCHANGED <<c4, effects>>
    BY <1>4 DEF MainExternal, Begin, Goto
  <2> QED BY <2>1, <2>2, <1>3 DEF ExternalTime, OtherTime, NoCommit, AppliedIsPast, IInv
<1>5. ASSUME NEW m \in IntMessages, MainInternal(m)
      PROVE  AppliedIsPast' /\ ExternalTime' /\ OtherTime' /\ c4' = c4
  <2>1. tx'.kind = "int" /\ r4' = c4 /\ cmt' = NoCommit /\ c7'.loaded = FALSE /\ UNCHANGED <<c4, effects>>
    BY <1>5 DEF MainInternal, Begin, EmptyC7
  <2> QED BY <2>1, <1>3 DEF ExternalTime, OtherTime, NoCommit, AppliedIsPast, IInv
<1>6. CASE OnTickTock
  <2>1. tx'.kind = "tick" /\ r4' = c4 /\ cmt' = NoCommit /\ UNCHANGED <<c4, effects, ctr>>
    BY <1>6 DEF OnTickTock, Begin
  <2>2. c7'.loaded /\ ctr.headers => c7'.time = c4.time
    BY <1>6, <1>a DEF OnTickTock, k
  <2> QED BY <2>1, <2>2, <1>1, <1>3 DEF ExternalTime, OtherTime, NoCommit, AppliedIsPast, IInv
<1>7. CASE AdvanceTime \/ UNCHANGED vars
  BY <1>1, <1>3, <1>7 DEF AdvanceTime, vars, txVars, ExternalTime, OtherTime, AppliedIsPast, IInv, Succeeds
<1>8. CASE \/ CheckSignature \/ StandardReplayProtection \/ AfterSignatureCheck
           \/ CheckExpire \/ PushReceiveOrFallbackAndLoadFuncId \/ SelectFunction
  <2>1. c4' = c4
    BY <1>8 DEF CheckSignature, StandardReplayProtection, AfterSignatureCheck, CheckExpire,
                PushReceiveOrFallbackAndLoadFuncId, SelectFunction, Same
  <2> QED BY <1>1, <1>3, <1>8, <2>1, OnceCheckStep
<1>9. CASE EnterConstructor \/ EnterFunction
  <2>1. c4' = c4
    BY <1>9 DEF EnterConstructor, EnterFunction, Same
  <2> QED BY <1>1, <1>3, <1>9, <2>1, OnceEnterStep
<1>10. CASE Body
  <2>1. c4' = c4
    BY <1>10 DEF Body, Accept, AssignStateVar, ResetStorage, SendMsg, Commit, RawCommit, Exit,
                 OnCodeUpgrade, Revert, OutOfGas, ReturnFromBody, BodyStep, Same
  <2> QED BY <1>1, <1>3, <1>10, <2>1, OnceBodyStep
<1>11. CASE EndTransaction
  BY <1>3, <1>11, OnceEndStep
<1> QED
  BY <1>1, <1>4, <1>5, <1>6, <1>7, <1>8, <1>9, <1>10, <1>11 DEF Next, VmStep

(* The invariant holds initially. *)
LEMMA OnceInit == Init => IInv
<1> SUFFICES ASSUME Init PROVE IInv
  OBVIOUS
<1>1. TypeOK /\ PhaseOK
  <2>1. effects \in [ExtMessages -> 0..2] /\ built \in 0..2 /\ now \in 0..MaxNow /\ gas \in 0..Gas
    BY ConstantsAssumption DEF Init
  <2> QED BY <2>1, InitialType
          DEF Init, TypeOK, PhaseOK, NoMessage, default_data_cell, NoCommit, ExitCodes
<1>2. AppliedIsPast
  BY DEF Init, AppliedIsPast
<1>3. ExternalTime /\ OtherTime
  BY DEF Init, NoMessage, ExternalTime, OtherTime
<1> QED BY <1>1, <1>2, <1>3 DEF IInv

(* No external message takes effect twice, whatever the network repeats and *)
(* the user's functions do.                                                 *)
THEOREM ExternalAtMostOnce == Spec => []AtMostOnce
<1>1. IInv /\ [Next]_vars => IInv'
  BY OnceStep
<1>2. IInv => AtMostOnce
  BY DEF IInv, AtMostOnce, AppliedIsPast
<1> QED BY OnceInit, <1>1, <1>2, PTL DEF Spec

(* The replay-protection value in c4 never goes back. *)
THEOREM ReplayMonotone == Spec => ReplayValueMonotone
<1>1. IInv /\ [Next]_vars => IInv'
  BY OnceStep
<1>2. IInv /\ [Next]_vars => [Guarded => c4'.time >= c4.time]_vars
  BY OnceStep
<1> QED BY OnceInit, <1>1, <1>2, PTL DEF Spec, ReplayValueMonotone

-----------------------------------------------------------------------------
(***************************************************************************)
(* What the steps do, in terms of the parts of the invariant.              *)
(***************************************************************************)
(* The functions that a message can reach. *)
LEMMA HandlerFacts ==
    ASSUME TypeOK, NEW f \in Handlers(ctr)
    PROVE  /\ f \in FunctionType /\ f.kind # "none"
           /\ f.kind = "constructor" => hasConstructor(ctr) /\ f.mut = "nonpayable"
           /\ f.kind \in {"receive", "onBounce", "onTickTock"} => ~f.ext /\ ~f.int
           /\ f.kind = "onTickTock" => f = ctr.onTickTock
           /\ f.kind = "fallback" => f = ctr.fallback
<1>1. ctr \in Contracts /\ typeCheckConstructor(ctr) /\ marksAreAllowed(ctr)
  BY InputsAssumption DEF TypeOK
<1>2. /\ ctr.receive.kind \in {"none", "receive"}
      /\ ctr.onBounce.kind \in {"none", "onBounce"}
      /\ ctr.onTickTock.kind \in {"none", "onTickTock"}
  BY ContractFacts DEF ContractType, FunctionOf
<1>3. CASE f \in {ctr.functions[id] : id \in FunctionIds}
  <2>1. PICK id \in FunctionIds : f = ctr.functions[id]
    BY <1>3
  <2>2. f \in FunctionType /\ f.kind \in {"none", "public", "constructor"} /\ f.kind # "none"
    BY <2>1, ContractFacts DEF Handlers
  <2>3. f.kind = "constructor" => id = "ctor" /\ f.mut = "nonpayable"
    BY <1>1, <2>1 DEF typeCheckConstructor
  <2> QED BY <2>1, <2>2, <2>3 DEF hasConstructor
<1>4. CASE f \in {ctr.receive, ctr.fallback, ctr.onBounce, ctr.onTickTock}
  BY <1>1, <1>2, <1>4, ContractFacts DEF Handlers, marksAreAllowed
<1> QED BY <1>3, <1>4 DEF Handlers

(* Signature, replay protection and expiration. *)
LEMMA CheckFacts ==
    ASSUME TypeOK, PhaseOK,
           CheckSignature \/ StandardReplayProtection \/ AfterSignatureCheck \/ CheckExpire
    PROVE  /\ tx.kind = "ext" /\ pc \in {"signature", "replay", "expire"}
           /\ UNCHANGED <<ctr, now, c4, effects, built, tx, fn, r4, c5, cmt, accepted, gas>>
           /\ c7'.loaded = c7.loaded /\ c7'.ctor = c7.ctor /\ c7'.vars = c7.vars
           /\ \/ pc' = "end" /\ code' \notin {0, 1, TypeCheckError}
              \/ pc' \in {"replay", "expire", "select"} /\ code' = 0
<1>1. CASE CheckSignature
  BY <1>1 DEF CheckSignature, checkSignatureAndReadPublicKey, Same, Goto, Throw, PhaseOK, TypeOK,
              C7Type, BadSignature, MessageHasNoSignButHasPubkey, TypeCheckError
<1>2. CASE StandardReplayProtection
  BY <1>2 DEF StandardReplayProtection, AfterReplay, Same, Goto, Throw, PhaseOK, TypeOK, C7Type,
              ReplayProtection, TypeCheckError
<1>3. CASE AfterSignatureCheck
  BY <1>3 DEF AfterSignatureCheck, AfterReplay, Same, Goto, Throw, PhaseOK, TypeOK, C7Type,
              UserError, TypeCheckError
<1>4. CASE CheckExpire
  BY <1>4 DEF CheckExpire, Same, Goto, Throw, PhaseOK, MessageIsExpired, TypeCheckError
<1> QED BY <1>1, <1>2, <1>3, <1>4

(* The selectors: nothing changes but the function. *)
LEMMA SelectFacts ==
    ASSUME TypeOK, PhaseOK, PushReceiveOrFallbackAndLoadFuncId \/ SelectFunction
    PROVE  /\ pc \in {"dispatch", "select"} /\ tx.kind \in {"ext", "int"}
           /\ UNCHANGED <<ctr, now, c4, effects, built, tx, r4, c5, c7, cmt, accepted, gas>>
           /\ \/ pc' = "select" /\ fn' = fn /\ code' = 0
              \/ pc' = "end" /\ fn' = fn /\ code' \notin {1, TypeCheckError}
                   /\ (code' = 0 => tx.kind = "int")
              \/ /\ pc' = "entry" /\ code' = 0 /\ fn' \in Handlers(ctr)
                 /\ fn'.kind # "onTickTock"
                 /\ tx.kind = "int" /\ fn'.ext /\ ~fn'.int => fn' = ctr.fallback
<1> DEFINE f == generatePublicFunctionSelector(ctr, tx.kind, tx.msg.body)
<1>0. ctr.receive.kind \in {"none", "receive"} /\ ctr.fallback.kind \in {"none", "fallback"}
  BY ContractFacts DEF ContractType, FunctionOf
<1>1. CASE PushReceiveOrFallbackAndLoadFuncId
  <2>1. tx.kind = "int" /\ (ctr.receive.kind # "none" => ctr.receive \in Handlers(ctr))
        /\ (ctr.fallback.kind # "none" => ctr.fallback \in Handlers(ctr))
    BY <1>1 DEF PushReceiveOrFallbackAndLoadFuncId, PhaseOK, Handlers
  <2>2. ctr.receive.kind # "none" => ~ctr.receive.ext
    BY <1>0, <2>1, HandlerFacts
  <2> QED BY <1>0, <1>1, <2>1, <2>2
          DEF PushReceiveOrFallbackAndLoadFuncId, checkIfCtorCalled, Same, Goto, Throw, ReturnQuietly,
              CallThatWasBeforeCtorCall, NoFallback, TypeCheckError
<1>2. CASE SelectFunction
  <2>1. f # NoFunction => f \in Handlers(ctr)
    BY DEF generatePublicFunctionSelector, getExtPublicFunctions, getIntPublicFunctions, Handlers
  <2>2. f # NoFunction => f.kind # "onTickTock"
    BY <1>0, ContractFacts
       DEF generatePublicFunctionSelector, getExtPublicFunctions, getIntPublicFunctions
  <2>3. tx.kind = "int" /\ f # NoFunction /\ f.ext /\ ~f.int => f = ctr.fallback
    BY DEF generatePublicFunctionSelector, getIntPublicFunctions, isIntFunction
  <2>4. \/ pc' = "entry" /\ code' = 0 /\ fn' = f /\ f # NoFunction
        \/ pc' = "end" /\ code' \notin {0, 1, TypeCheckError} /\ fn' = fn
    BY <1>2 DEF SelectFunction, Goto, Throw, CellUnderflow, NoFallback, TypeCheckError
  <2>5. pc = "select" /\ tx.kind \in {"ext", "int"}
        /\ UNCHANGED <<ctr, now, c4, effects, built, tx, r4, c5, c7, cmt, accepted, gas>>
    BY <1>2 DEF SelectFunction, Same, PhaseOK
  <2> HIDE DEF f
  <2> QED BY <2>1, <2>2, <2>3, <2>4, <2>5
<1> QED BY <1>1, <1>2

(* Entering a function: the globals that it needs are loaded, after the     *)
(* constructor was looked for.                                              *)
LEMMA EnterFacts ==
    ASSUME TypeOK, PhaseOK, EnterConstructor \/ EnterFunction
    PROVE  /\ pc = "entry" /\ tx.kind \in {"ext", "int"}
           /\ UNCHANGED <<ctr, now, c4, effects, built, tx, fn, r4, c5, cmt, accepted, gas>>
           /\ \/ pc' = "body" /\ code' = 0
              \/ pc' = "end" /\ code' \notin {0, 1, TypeCheckError}
           /\ c7'.msgPubkey = c7.msgPubkey
           /\ c7.loaded => c7'.loaded
           /\ hasConstructor(ctr) /\ c7.ctor = r4.ctor => c7'.ctor = c7.ctor
           /\ ctr.nvars = 0 => c7'.vars \in {c7.vars, r4.vars}
           /\ fn.kind = "constructor" /\ pc' = "body" =>
                /\ hasConstructor(ctr) /\ c7.ctor = r4.ctor => c7.ctor = 0
                /\ c7'.loaded \/ (~ctr.headers /\ ctr.nvars = 0)
           /\ fn.kind # "constructor" =>
                /\ c7' = c7 \/ c7'.vars = r4.vars
                /\ pc' = "body" /\ hasConstructor(ctr) => c7.ctor = 1
                /\ pc' = "body" /\ pushC4ToC7IfNeed(ctr, fn, c7) => c7'.loaded
<1> DEFINE l == c4_to_c7(ctr, c7, r4)
<1>0. /\ ctr \in ContractType /\ c7 \in C7Type /\ r4 \in C4Type
      /\ l \in C7Type /\ l.loaded = TRUE /\ l.msgPubkey = c7.msgPubkey /\ l.vars = r4.vars
      /\ hasConstructor(ctr) => l.ctor = r4.ctor
  <2>1. ctr \in ContractType /\ c7 \in C7Type /\ r4 \in C4Type
    BY ContractFacts DEF TypeOK
  <2>2. hasConstructor(ctr) => l.ctor = r4.ctor
    BY <2>1 DEF c4_to_c7, C7Type
  <2> QED BY <2>1, <2>2, LoadType
<1> HIDE DEF l
<1>1. CASE EnterConstructor
  <2> DEFINE k == IF constructorLoads(ctr, c7) THEN l ELSE c7
  <2>1. /\ c7' = initStateVars(ctr, k) /\ pc = "entry" /\ fn.kind = "constructor"
        /\ UNCHANGED <<ctr, now, c4, effects, built, tx, fn, r4, c5, cmt, accepted, gas>>
    BY <1>1 DEF EnterConstructor, Same, l
  <2>3. k \in C7Type /\ k.msgPubkey = c7.msgPubkey /\ (c7.loaded => k.loaded)
        /\ (hasConstructor(ctr) /\ c7.ctor = r4.ctor => k.ctor = c7.ctor)
        /\ k.vars \in {c7.vars, r4.vars}
        /\ (k.loaded \/ (~ctr.headers /\ ctr.nvars = 0))
    <3>1. ctr.nvars \in 0..2
      BY <1>0 DEF ContractType
    <3> QED BY <1>0, <3>1 DEF constructorLoads, was_c4_to_c7_called
  <2>2. \/ pc' = "body" /\ code' = 0 /\ k.ctor = 0
        \/ pc' = "end" /\ code' \notin {0, 1, TypeCheckError}
    <3>1. k.ctor \in {0, 1}
      BY <2>3 DEF C7Type
    <3>2. (CASE k.ctor = 1 -> Throw(ConstructorIsCalledTwice)
             [] k.ctor = 0 /\ ~tx.msg.argsOk -> Throw(CellUnderflow)
             [] k.ctor = 0 /\ tx.msg.argsOk -> Goto("body"))
      BY <1>1 DEF EnterConstructor, l
    <3> HIDE DEF k
    <3>3. CASE k.ctor = 1
      BY <3>2, <3>3 DEF Throw, ConstructorIsCalledTwice, TypeCheckError
    <3>4. CASE k.ctor = 0 /\ ~tx.msg.argsOk
      BY <3>2, <3>4 DEF Throw, CellUnderflow, TypeCheckError
    <3>5. CASE k.ctor = 0 /\ tx.msg.argsOk
      BY <3>2, <3>5 DEF Goto
    <3> QED BY <3>1, <3>3, <3>4, <3>5
  <2> HIDE DEF k
  <2>4. c7'.msgPubkey = k.msgPubkey /\ c7'.loaded = k.loaded /\ c7'.ctor = k.ctor
        /\ (ctr.nvars = 0 => c7'.vars = k.vars)
    BY <2>1, <2>3 DEF initStateVars, C7Type
  <2> QED BY <2>1, <2>2, <2>3, <2>4 DEF PhaseOK
<1>2. CASE EnterFunction
  <2>1. /\ pc = "entry" /\ fn.kind # "constructor"
        /\ UNCHANGED <<ctr, now, c4, effects, built, tx, fn, r4, c5, cmt, accepted, gas>>
        /\ c7' = IF checkCtorCalled(ctr, c7) /\ pushC4ToC7IfNeed(ctr, fn, c7) THEN l ELSE c7
    BY <1>2 DEF EnterFunction, Same, l
  <2>2. \/ pc' = "body" /\ code' = 0 /\ checkCtorCalled(ctr, c7)
        \/ pc' = "end" /\ code' \notin {0, 1, TypeCheckError}
    BY <1>2 DEF EnterFunction, Goto, Throw, CellUnderflow, CallThatWasBeforeCtorCall, TypeCheckError
  <2>3. checkCtorCalled(ctr, c7) /\ hasConstructor(ctr) => c7.ctor = 1
    BY DEF checkCtorCalled
  <2> QED BY <1>0, <2>1, <2>2, <2>3 DEF PhaseOK
<1> QED BY <1>1, <1>2

(* The body: c7_to_c4 and COMMIT are the only ways to save, and a function  *)
(* that ends well has saved, unless tvm.exit finds the globals not loaded   *)
(* or nothing needs to be saved.                                            *)
LEMMA BodyFacts ==
    ASSUME TypeOK, Body
    PROVE  /\ pc = "body" /\ UNCHANGED <<ctr, now, c4, effects, built, tx, fn>>
           /\ pc' \in {"body", "end"}
           /\ c7'.loaded = c7.loaded /\ c7'.ctor = c7.ctor /\ c7'.msgPubkey = c7.msgPubkey
           /\ fn.mut # "nonpayable" \/ ctr.nvars = 0 => c7'.vars = c7.vars
           /\ r4' \in {r4, c7_to_c4(ctr, c7), upd_only_time_in_c4(c7, r4)}
           /\ r4' = c7_to_c4(ctr, c7) => r4' = r4 \/ Storable(ctr, c7)
                \/ r4' = upd_only_time_in_c4(c7, r4)
           /\ \/ cmt' = cmt
              \/ cmt' = [done |-> TRUE, c4 |-> c7_to_c4(ctr, c7), c5 |-> c5] /\ Storable(ctr, c7)
              \/ ctr.rawCommit /\ fn.mut = "nonpayable" /\ cmt' = [done |-> TRUE, c4 |-> r4, c5 |-> c5]
           /\ pc' = "end" => c7' = c7
           /\ code' = TypeCheckError =>
                ~Storable(ctr, c7) /\ ( \/ fn.mut = "nonpayable" \/ ctr.upgrade
                                        \/ saveOnReturn(ctr, fn, tx.kind) # "none")
           /\ pc' = "end" /\ code' \in {0, 1} =>
                \/ r4' = c7_to_c4(ctr, c7)
                \/ r4' = r4 /\ (ctr.headers \/ ctr.nvars > 0) /\ ~was_c4_to_c7_called(ctr, c7)
                \/ saveOnReturn(ctr, fn, tx.kind) # "c7_to_c4"
<1> USE DEF BodyStep, Same, Goto, Throw
<1>0. saveOnReturn(ctr, fn, tx.kind) \in {"none", "c7_to_c4", "upd_only_time_in_c4"}
  BY DEF saveOnReturn, updC4IfItNeeds
<1>1. c7 \in C7Type
  BY DEF TypeOK
<1>2. CASE Accept \/ SendMsg \/ Revert \/ OutOfGas
  BY <1>2 DEF Accept, SendMsg, Revert, OutOfGas, UserError, OutOfGasError, TypeCheckError
<1>3. CASE AssignStateVar \/ ResetStorage
  BY <1>1, <1>3 DEF AssignStateVar, ResetStorage, C7Type, TypeCheckError
<1>4. CASE Commit \/ RawCommit
  BY <1>4 DEF Commit, RawCommit, TypeCheckError
<1>5. CASE Exit
  BY <1>5 DEF Exit, Storable, was_c4_to_c7_called, TypeCheckError
<1>6. CASE OnCodeUpgrade
  BY <1>6 DEF OnCodeUpgrade, TypeCheckError
<1>7. CASE ReturnFromBody
  <2>1. pc = "body" /\ UNCHANGED <<ctr, now, c4, effects, built, tx, fn, c7, cmt>> /\ pc' = "end"
    BY <1>0, <1>7 DEF ReturnFromBody, ReturnQuietly
  <2>2. \/ saveOnReturn(ctr, fn, tx.kind) = "none" /\ r4' = r4 /\ code' = 0
        \/ /\ saveOnReturn(ctr, fn, tx.kind) = "c7_to_c4"
           /\ \/ Storable(ctr, c7) /\ r4' = c7_to_c4(ctr, c7) /\ code' = 0
              \/ ~Storable(ctr, c7) /\ r4' = r4 /\ code' = TypeCheckError
        \/ /\ saveOnReturn(ctr, fn, tx.kind) = "upd_only_time_in_c4"
           /\ \/ c7.loaded /\ r4' = upd_only_time_in_c4(c7, r4) /\ code' = 0
              \/ ~c7.loaded /\ r4' = r4 /\ code' = TypeCheckError
    BY <1>0, <1>7 DEF ReturnFromBody, ReturnQuietly
  <2>3. saveOnReturn(ctr, fn, tx.kind) = "upd_only_time_in_c4" /\ ~c7.loaded => ~Storable(ctr, c7)
    BY DEF saveOnReturn, updC4IfItNeeds, Storable
  <2>4. TypeCheckError \notin {0, 1}
    BY DEF TypeCheckError
  <2> QED BY <2>1, <2>2, <2>3, <2>4
<1> QED BY <1>2, <1>3, <1>4, <1>5, <1>6, <1>7 DEF Body

(* A transaction begins: the register c4 is the account's cell, and the     *)
(* globals have been loaded (or not) from it.                               *)
LEMMA BeginFacts ==
    ASSUME TypeOK,
           \/ \E m \in ExtMessages : MainExternal(m)
           \/ \E m \in IntMessages : MainInternal(m)
           \/ OnTickTock
    PROVE  /\ UNCHANGED <<ctr, now, c4, effects, built>> /\ r4' = c4 /\ cmt' = NoCommit
           /\ tx'.kind \in {"ext", "int", "tick"}
           /\ tx'.kind = "ext" =>
                /\ pc' = "signature" /\ code' = 0 /\ fn' = NoFunction /\ accepted' = FALSE
                /\ c7'.loaded /\ c7'.vars = c4.vars
                /\ hasConstructor(ctr) => c7'.ctor = c4.ctor
           /\ tx'.kind = "int" =>
                /\ ~c7'.loaded /\ c7'.vars = 0
                /\ hasConstructor(ctr) => c7'.ctor = c4.ctor
                /\ \/ pc' = "dispatch" /\ code' = 0 /\ fn' = NoFunction
                   \/ pc' = "end" /\ code' \notin {1, TypeCheckError} /\ fn' = NoFunction
                   \/ pc' = "entry" /\ code' = 0 /\ fn' = ctr.onBounce /\ fn' \in Handlers(ctr)
           /\ tx'.kind = "tick" =>
                /\ pc' = "body" /\ code' = 0 /\ fn' = ctr.onTickTock /\ fn' \in Handlers(ctr)
                /\ c7'.loaded <=> fn'.mut # "pure"
                /\ c7'.vars \in {0, c4.vars}
                /\ c7'.loaded => c7'.vars = c4.vars
<1> DEFINE k == c4_to_c7(ctr, EmptyC7, c4)
<1>0. /\ k.loaded = TRUE /\ k.vars = c4.vars /\ (hasConstructor(ctr) => k.ctor = c4.ctor)
      /\ EmptyC7.loaded = FALSE /\ EmptyC7.vars = 0
  <2>1. ctr \in ContractType /\ c4 \in C4Type /\ EmptyC7 \in C7Type
    BY ContractFacts, InitialType DEF TypeOK
  <2>2. hasConstructor(ctr) => k.ctor = c4.ctor
    BY DEF c4_to_c7, EmptyC7
  <2>3. EmptyC7.loaded = FALSE /\ EmptyC7.vars = 0
    BY DEF EmptyC7
  <2> QED BY <2>1, <2>2, <2>3, LoadType, ZenonT(30)
<1> HIDE DEF k
<1>1. ASSUME NEW m \in ExtMessages, MainExternal(m)
      PROVE  /\ UNCHANGED <<ctr, now, c4, effects, built>> /\ r4' = c4 /\ cmt' = NoCommit
             /\ tx'.kind = "ext" /\ pc' = "signature" /\ code' = 0 /\ fn' = NoFunction
             /\ accepted' = FALSE /\ c7' = k
  BY <1>1 DEF MainExternal, Begin, Goto, k
<1>2. ASSUME NEW m \in IntMessages, MainInternal(m)
      PROVE  /\ UNCHANGED <<ctr, now, c4, effects, built>> /\ r4' = c4 /\ cmt' = NoCommit
             /\ tx'.kind = "int" /\ ~c7'.loaded /\ c7'.vars = 0
             /\ hasConstructor(ctr) => c7'.ctor = c4.ctor
             /\ \/ pc' = "dispatch" /\ code' = 0 /\ fn' = NoFunction
                \/ pc' = "end" /\ code' \notin {1, TypeCheckError} /\ fn' = NoFunction
                \/ pc' = "entry" /\ code' = 0 /\ fn' = ctr.onBounce /\ fn' \in Handlers(ctr)
  <2>1. /\ UNCHANGED <<ctr, now, c4, effects, built>> /\ r4' = c4 /\ cmt' = NoCommit
        /\ tx'.kind = "int" /\ ~c7'.loaded /\ c7'.vars = 0
        /\ hasConstructor(ctr) => c7'.ctor = c4.ctor
    BY <1>2 DEF MainInternal, Begin, EmptyC7
  <2>2. \/ pc' = "dispatch" /\ code' = 0 /\ fn' = NoFunction
        \/ pc' = "end" /\ code' \notin {1, TypeCheckError} /\ fn' = NoFunction
        \/ pc' = "entry" /\ code' = 0 /\ fn' = ctr.onBounce /\ ctr.onBounce.kind # "none"
    <3>1. CASE ~m.bounced
      BY <1>2, <3>1 DEF MainInternal, Goto
    <3>2. CASE m.bounced /\ ctr.onBounce.kind = "none"
      BY <1>2, <3>2 DEF MainInternal, ReturnQuietly, TypeCheckError
    <3>3. CASE m.bounced /\ ctr.onBounce.kind # "none"
      <4>1. IF m.body \in {"empty", "short"}
            THEN Throw(CellUnderflow) /\ fn' = NoFunction
            ELSE Goto("entry") /\ fn' = ctr.onBounce
        BY <1>2, <3>3 DEF MainInternal
      <4> QED BY <3>3, <4>1 DEF Goto, Throw, CellUnderflow, TypeCheckError
    <3> QED BY <3>1, <3>2, <3>3
  <2> QED BY <2>1, <2>2 DEF Handlers
<1>3. CASE OnTickTock
  <2>1. /\ UNCHANGED <<ctr, now, c4, effects, built>> /\ r4' = c4 /\ cmt' = NoCommit
        /\ tx'.kind = "tick" /\ pc' = "body" /\ code' = 0 /\ fn' = ctr.onTickTock
        /\ c7' = IF ctr.onTickTock.mut = "pure" THEN EmptyC7 ELSE k
        /\ ctr.onTickTock.kind # "none"
    BY <1>3 DEF OnTickTock, Begin, Goto, k
  <2> QED BY <1>0, <2>1 DEF Handlers
<1> QED BY <1>0, <1>1, <1>2, <1>3

-----------------------------------------------------------------------------
(***************************************************************************)
(* Every step keeps every part of the invariant.                           *)
(***************************************************************************)
(* The steps, grouped as in the lemmas above. *)
Begins == \/ \E m \in ExtMessages : MainExternal(m)
          \/ \E m \in IntMessages : MainInternal(m)
          \/ OnTickTock
Checks == CheckSignature \/ StandardReplayProtection \/ AfterSignatureCheck \/ CheckExpire
Selects == PushReceiveOrFallbackAndLoadFuncId \/ SelectFunction
Enters == EnterConstructor \/ EnterFunction

(* The steps, in groups that touch the same parts of the invariant. *)
LEMMA Steps ==
    ASSUME [Next]_vars
    PROVE  \/ Begins \/ Checks \/ Selects \/ Enters \/ Body \/ EndTransaction
           \/ AdvanceTime \/ UNCHANGED vars
  BY DEF Next, VmStep, Begins, Checks, Selects, Enters

(* What the end of a transaction resets. *)
LEMMA EndFacts ==
    ASSUME EndTransaction
    PROVE  /\ pc = "end" /\ pc' = "idle" /\ tx'.kind = "none" /\ fn' = NoFunction /\ code' = 0
           /\ fn'.kind = "none" /\ ~cmt'.done /\ ctr' = ctr
           /\ r4'.vars = 0 /\ c7'.vars = 0 /\ cmt'.c4.vars = 0
           /\ c4' = IF Persists THEN FinalC4 ELSE c4
           /\ built' = IF Persists /\ fn.kind = "constructor" THEN CountUpTo2(built) ELSE built
  BY DEF EndTransaction, NoMessage, NoFunction, NoCommit, EmptyC7, default_data_cell

(* Which function runs for which message. *)
LEMMA FunctionStep ==
    ASSUME SafetyInv, [Next]_vars
    PROVE  FunctionOK'
<1> USE DEF SafetyInv, IInv
<1>0. NoFunction.kind = "none" /\ ~NoCommit.done
  BY DEF NoFunction, NoCommit
<1>1. CASE Begins
  <2>1. /\ ctr.onBounce.kind \in {"none", "onBounce"}
        /\ ctr.onTickTock.kind \in {"none", "onTickTock"}
    BY ContractFacts DEF ContractType, FunctionOf
  <2>2. \A f \in Handlers(ctr) : f.kind # "none" /\ (f.kind = "onBounce" => ~f.ext)
    BY HandlerFacts
  <2>3. Handlers(ctr)' = Handlers(ctr) /\ ctr' = ctr
    BY <1>1, BeginFacts DEF Begins, Handlers
  <2> QED BY <1>0, <1>1, <2>1, <2>2, <2>3, BeginFacts
          DEF Begins, FunctionOK, InBody, Succeeds
<1>2. CASE Checks
  <2>1. Handlers(ctr)' = Handlers(ctr)
    BY <1>2, CheckFacts DEF Checks, Handlers
  <2> QED BY <1>0, <1>2, <2>1, CheckFacts DEF Checks, FunctionOK, NothingYet, InBody, Succeeds
<1>3. CASE Selects
  <2>1. Handlers(ctr)' = Handlers(ctr)
    BY <1>3, SelectFacts DEF Selects, Handlers
  <2>2. \A f \in Handlers(ctr) : f.kind # "none"
    BY HandlerFacts
  <2> QED BY <1>0, <1>3, <2>1, <2>2, SelectFacts DEF Selects, FunctionOK, NothingYet, InBody, Succeeds
<1>4. CASE Enters
  <2>1. Handlers(ctr)' = Handlers(ctr)
    BY <1>4, EnterFacts DEF Enters, Handlers
  <2>2. \A f \in Handlers(ctr) : f.kind # "none"
    BY HandlerFacts
  <2> QED BY <1>4, <2>1, <2>2, EnterFacts DEF Enters, FunctionOK, NothingYet, InBody, Succeeds
<1>5. CASE Body
  <2>1. Handlers(ctr)' = Handlers(ctr)
    BY <1>5, BodyFacts DEF Handlers
  <2>2. \A f \in Handlers(ctr) : f.kind # "none"
    BY HandlerFacts
  <2> QED BY <1>5, <2>1, <2>2, BodyFacts DEF FunctionOK, InBody
<1>6. CASE EndTransaction
  BY <1>6, EndFacts DEF FunctionOK, InBody
<1>7. CASE AdvanceTime \/ UNCHANGED vars
  BY <1>7 DEF AdvanceTime, vars, txVars, FunctionOK, InBody, Succeeds, Handlers
<1> QED BY <1>1, <1>2, <1>3, <1>4, <1>5, <1>6, <1>7, Steps

(* Nothing is accepted, saved or committed before the body. *)
LEMMA NothingStep ==
    ASSUME SafetyInv, [Next]_vars
    PROVE  NothingYet'
<1> USE DEF SafetyInv, IInv
<1>1. CASE Begins
  <2>1. ~NoCommit.done
    BY DEF NoCommit
  <2>2. r4' = c4 /\ c4' = c4 /\ cmt' = NoCommit /\ (tx'.kind = "ext" => accepted' = FALSE)
    BY <1>1, BeginFacts DEF Begins
  <2> QED BY <2>1, <2>2 DEF NothingYet
<1>2. CASE Checks
  BY <1>2, CheckFacts DEF Checks, NothingYet
<1>3. CASE Selects
  BY <1>3, SelectFacts DEF Selects, NothingYet
<1>4. CASE Enters
  BY <1>4, EnterFacts DEF Enters, NothingYet
<1>5. CASE Body
  <2>1. fn.kind # "none"
    BY <1>5, BodyFacts, HandlerFacts DEF FunctionOK
  <2> QED BY <1>5, <2>1, BodyFacts DEF NothingYet
<1>6. CASE EndTransaction
  BY <1>6, EndFacts DEF NothingYet
<1>7. CASE AdvanceTime \/ UNCHANGED vars
  <2>1. UNCHANGED <<pc, tx, fn, c4, r4, cmt, accepted>>
    BY <1>7 DEF AdvanceTime, vars, txVars
  <2> QED BY <2>1 DEF NothingYet
<1> QED BY <1>1, <1>2, <1>3, <1>4, <1>5, <1>6, <1>7, Steps

(* An external message passes the checks in their order. *)
LEMMA PassedStep ==
    ASSUME SafetyInv, [Next]_vars
    PROVE  Passed'
<1> USE DEF SafetyInv, IInv
<1>1. CASE Begins
  <2>1. tx'.kind = "ext" => pc' = "signature" /\ accepted' = FALSE
    BY <1>1, BeginFacts DEF Begins
  <2> QED BY <2>1 DEF Passed
<1>2. CASE CheckSignature
  <2>1. tx.kind = "ext" /\ ~accepted /\ UNCHANGED <<ctr, now, tx, accepted>>
    BY <1>2, CheckFacts DEF NothingYet
  <2>2. pc' # "end" => pc' = "replay" /\ checkSignatureAndReadPublicKey(ctr, tx.msg) = 0
          /\ c7'.msgPubkey = IF tx.msg.sig = NoKey THEN NoKey ELSE pushMsgPubkey(ctr, tx.msg)
    BY <1>2 DEF CheckSignature, Goto, Throw, TypeOK, C7Type
  <2>3. checkSignatureAndReadPublicKey(ctr, tx.msg) = 0 =>
          tx.msg.sig = NoKey \/ tx.msg.sig = pushMsgPubkey(ctr, tx.msg)
    BY DEF checkSignatureAndReadPublicKey, BadSignature
  <2>4. pushMsgPubkey(ctr, tx.msg) \in {Owner, tx.msg.pubkey}
    BY DEF pushMsgPubkey
  <2>5. CASE pc' = "end"
    BY <2>1, <2>5 DEF Passed
  <2>6. CASE pc' # "end"
    BY <2>1, <2>2, <2>3, <2>4, <2>6 DEF Passed
  <2> QED BY <2>5, <2>6
<1>3. CASE StandardReplayProtection \/ AfterSignatureCheck
  <2>1. tx.kind = "ext" /\ ~accepted /\ UNCHANGED <<ctr, now, tx, accepted>>
    BY <1>3, CheckFacts DEF NothingYet
  <2>2. /\ c7'.msgPubkey = c7.msgPubkey /\ pc = "replay"
        /\ pc' = "end" \/ pc' = AfterReplay
    BY <1>3 DEF StandardReplayProtection, AfterSignatureCheck, Goto, Throw, TypeOK, C7Type
  <2> QED BY <2>1, <2>2 DEF Passed, AfterReplay
<1>4. CASE CheckExpire
  <2>1. tx.kind = "ext" /\ ~accepted /\ UNCHANGED <<ctr, now, tx, accepted>>
    BY <1>4, CheckFacts DEF NothingYet
  <2>2. /\ c7' = c7 /\ pc = "expire"
        /\ pc' = "end" \/ (pc' = "select" /\ now < tx.msg.expire)
    BY <1>4 DEF CheckExpire, checkExpire, Goto, Throw
  <2> QED BY <2>1, <2>2 DEF Passed
<1>5. CASE Selects
  <2>1. tx.kind = "ext" => pc = "select"
    BY <1>5, SelectFacts DEF Selects, PhaseOK
  <2> QED BY <1>5, <2>1, SelectFacts DEF Selects, Passed, NothingYet
<1>6. CASE Enters
  BY <1>6, EnterFacts DEF Enters, Passed
<1>7. CASE Body
  BY <1>7, BodyFacts DEF Passed
<1>8. CASE EndTransaction
  BY <1>8, EndFacts DEF Passed
<1>9. CASE AdvanceTime
  <2>1. pc = "idle" /\ tx' = tx
    BY <1>9 DEF AdvanceTime, txVars
  <2> QED BY <2>1 DEF PhaseOK, Passed
<1>10. CASE UNCHANGED vars
  BY <1>10 DEF vars, txVars, Passed
<1> QED BY <1>1, <1>2, <1>3, <1>4, <1>5, <1>6, <1>7, <1>8, <1>9, <1>10, Steps DEF Checks

(* Whoever is not pure runs with the globals loaded. *)
LEMMA LoadedStep ==
    ASSUME SafetyInv, [Next]_vars
    PROVE  LoadedOK'
<1> USE DEF SafetyInv, IInv
<1>1. CASE Begins
  <2>1. ctr.onTickTock.kind \in {"none", "onTickTock"} /\ ctr' = ctr
    BY <1>1, ContractFacts, BeginFacts DEF Begins, ContractType, FunctionOf
  <2> QED BY <1>1, <2>1, BeginFacts DEF Begins, LoadedOK
<1>2. CASE Checks
  BY <1>2, CheckFacts DEF Checks, LoadedOK
<1>3. CASE Selects
  BY <1>3, SelectFacts DEF Selects, LoadedOK
<1>4. CASE Enters
  <2>1. UNCHANGED <<ctr, tx, fn>> /\ pc = "entry" /\ tx.kind \in {"ext", "int"}
    BY <1>4, EnterFacts DEF Enters
  <2>2. ASSUME FallbackLoads(ctr), fn.kind # "constructor", fn.mut # "pure", pc' = "body"
        PROVE  c7'.loaded
    <3>1. CASE tx.kind = "ext"
      BY <1>4, <3>1, EnterFacts DEF Enters, LoadedOK
    <3>2. CASE tx.kind = "int" /\ pushC4ToC7IfNeed(ctr, fn, c7)
      BY <1>4, <2>2, <3>2, EnterFacts DEF Enters
    <3>3. CASE tx.kind = "int" /\ ~pushC4ToC7IfNeed(ctr, fn, c7)
      <4>1. fn.ext /\ ~fn.int => fn = ctr.fallback /\ ctr.fallback.kind = "fallback"
        BY <2>1, <3>3, HandlerFacts, ContractFacts DEF FunctionOK
      <4>2. fn \in FunctionType
        BY DEF TypeOK
      <4>3. c7.loaded
        BY <2>2, <3>3, <4>1, <4>2
           DEF pushC4ToC7IfNeed, was_c4_to_c7_called, FallbackLoads, FunctionType
      <4> QED BY <1>4, <4>3, EnterFacts DEF Enters
    <3> QED BY <2>1, <3>1, <3>2, <3>3
  <2>3. FallbackLoads(ctr)' = FallbackLoads(ctr)
    BY <2>1 DEF FallbackLoads
  <2>4. /\ tx.kind = "ext" => c7'.loaded
        /\ pc' = "body" /\ fn.kind = "constructor" => c7'.loaded \/ (~ctr.headers /\ ctr.nvars = 0)
    BY <1>4, EnterFacts DEF Enters, LoadedOK
  <2> QED BY <2>1, <2>2, <2>3, <2>4 DEF LoadedOK
<1>5. CASE Body
  <2>1. UNCHANGED <<ctr, tx, fn>> /\ pc = "body" /\ c7'.loaded = c7.loaded
    BY <1>5, BodyFacts
  <2> QED BY <2>1 DEF LoadedOK, FallbackLoads
<1>6. CASE EndTransaction
  BY <1>6, EndFacts DEF LoadedOK
<1>7. CASE AdvanceTime \/ UNCHANGED vars
  <2>1. UNCHANGED <<ctr, pc, tx, fn, c7>>
    BY <1>7 DEF AdvanceTime, vars, txVars
  <2> QED BY <2>1 DEF LoadedOK, FallbackLoads
<1> QED BY <1>1, <1>2, <1>3, <1>4, <1>5, <1>6, <1>7, Steps

(* No save runs on globals that were not loaded. *)
LEMMA CodeStep ==
    ASSUME SafetyInv, [Next]_vars
    PROVE  CodeOK'
<1> USE DEF SafetyInv, IInv
<1>0. TypeCheckError # 0
  BY DEF TypeCheckError
<1>1. CASE Begins \/ Checks \/ Selects \/ Enters \/ EndTransaction
  <2>1. code' # TypeCheckError
    BY <1>0, <1>1, BeginFacts, CheckFacts, SelectFacts, EnterFacts, EndFacts
       DEF Begins, Checks, Selects, Enters
  <2> QED BY <2>1 DEF CodeOK
<1>2. CASE Body
  <2>1. UNCHANGED <<ctr, tx, fn>> /\ pc = "body" /\ fn \in Handlers(ctr) /\ fn \in FunctionType
    BY <1>2, BodyFacts DEF FunctionOK, TypeOK
  <2>2. SUFFICES ASSUME FallbackLoads(ctr), UpgradeLoads(ctr), code' = TypeCheckError PROVE FALSE
    BY <2>1 DEF CodeOK, FallbackLoads, UpgradeLoads, Handlers
  <2>3. /\ ~Storable(ctr, c7)
        /\ fn.mut = "nonpayable" \/ ctr.upgrade \/ saveOnReturn(ctr, fn, tx.kind) # "none"
    BY <1>2, <2>2, BodyFacts
  <2>4. ~c7.loaded /\ ~(~ctr.headers /\ ctr.nvars = 0)
    BY <2>3 DEF Storable
  <2>5. fn.kind # "constructor" /\ fn.mut = "pure" /\ tx.kind # "ext"
    BY <2>1, <2>2, <2>4 DEF LoadedOK
  <2>6. ~ctr.upgrade
    BY <2>1, <2>2, <2>4, <2>5 DEF UpgradeLoads
  <2>7. fn.kind # "onTickTock" /\ fn.ext /\ ~fn.int
    BY <2>1, <2>3, <2>5, <2>6 DEF saveOnReturn, updC4IfItNeeds, FunctionType
  <2>8. tx.kind = "int"
    BY <2>1, <2>5, <2>7, MessageType DEF FunctionOK, PhaseOK
  <2>9. fn = ctr.fallback /\ fn.kind # "none"
    BY <2>1, <2>7, <2>8, HandlerFacts DEF FunctionOK
  <2> QED BY <2>2, <2>5, <2>7, <2>9 DEF FallbackLoads
<1>3. CASE AdvanceTime \/ UNCHANGED vars
  <2>1. UNCHANGED <<ctr, code>>
    BY <1>3 DEF AdvanceTime, vars, txVars
  <2> QED BY <2>1 DEF CodeOK, FallbackLoads, UpgradeLoads, Handlers
<1> QED BY <1>1, <1>2, <1>3, Steps

(* The constructor runs once, before everything else, and its flag is set   *)
(* by whatever it saves.                                                    *)
LEMMA FlagStep ==
    ASSUME SafetyInv, FlagIsSaved(ctr), FlagOK, [Next]_vars
    PROVE  FlagOK'
<1> USE DEF SafetyInv, IInv
<1>0. /\ c4.ctor \in {0, 1} /\ r4.ctor \in {0, 1} /\ cmt.c4.ctor \in {0, 1} /\ c7.ctor \in {0, 1}
      /\ built \in 0..2
  BY DEF TypeOK, C4Type, C7Type
<1>1. CASE Begins
  <2>0. ~NoCommit.done
    BY DEF NoCommit
  <2>1. ctr' = ctr /\ UNCHANGED <<c4, built>> /\ r4' = c4 /\ ~cmt'.done
    BY <1>1, <2>0, BeginFacts DEF Begins
  <2>2. hasConstructor(ctr)' = hasConstructor(ctr)
    BY <2>1 DEF hasConstructor
  <2>3. hasConstructor(ctr) /\ tx'.kind \in {"ext", "int"} => c7'.ctor = c4.ctor
    BY <1>1, BeginFacts DEF Begins
  <2>4. InBody' => fn'.kind \in {"none", "onTickTock"}
    <3>1. ctr.onTickTock.kind \in {"none", "onTickTock"} /\ NoFunction.kind = "none"
      BY ContractFacts DEF ContractType, FunctionOf, NoFunction
    <3> QED BY <1>1, <2>1, <3>1, BeginFacts DEF Begins, InBody
  <2> QED BY <1>0, <2>1, <2>2, <2>3, <2>4 DEF FlagOK, InBody
<1>2. CASE Checks \/ Selects
  <2>1. /\ UNCHANGED <<ctr, c4, built, tx, r4, cmt>> /\ c7'.ctor = c7.ctor
        /\ pc \in {"signature", "replay", "expire", "dispatch", "select"}
    BY <1>2, CheckFacts, SelectFacts DEF Checks, Selects
  <2>2. hasConstructor(ctr)' = hasConstructor(ctr) /\ ~cmt.done
    BY <2>1 DEF hasConstructor, NothingYet
  <2>3. InBody' => fn'.kind = "none"
    <3>1. fn = NoFunction /\ NoFunction.kind = "none"
      BY <2>1 DEF FunctionOK, NoFunction
    <3> QED BY <1>2, <2>1, <2>2, <3>1, CheckFacts, SelectFacts DEF Checks, Selects, InBody, Succeeds
  <2> QED BY <2>1, <2>2, <2>3 DEF FlagOK, InBody
<1>3. CASE Enters
  <2>1. /\ UNCHANGED <<ctr, c4, built, tx, fn, r4, cmt>>
        /\ pc = "entry" /\ tx.kind \in {"ext", "int"} /\ r4 = c4 /\ ~cmt.done
    BY <1>3, EnterFacts DEF Enters, NothingYet
  <2>2. hasConstructor(ctr)' = hasConstructor(ctr)
    BY <2>1 DEF hasConstructor
  <2>3. hasConstructor(ctr) => c7.ctor = c4.ctor
    BY <2>1 DEF FlagOK
  <2>4. InBody' => pc' = "body"
    BY <1>3, <2>1, EnterFacts DEF Enters, InBody, Succeeds
  <2>5. pc' = "end" => code' \notin {0, 1}
    BY <1>3, EnterFacts DEF Enters
  <2>6. hasConstructor(ctr) =>
          /\ c7'.ctor = c4.ctor
          /\ pc' = "body" /\ fn.kind = "constructor" => c4.ctor = 0
          /\ pc' = "body" /\ fn.kind # "constructor" => c4.ctor = 1
    BY <1>3, <2>1, <2>3, EnterFacts DEF Enters
  <2> QED BY <1>0, <2>1, <2>2, <2>4, <2>5, <2>6 DEF FlagOK, Succeeds
<1>4. CASE Body
  <2>1. /\ UNCHANGED <<ctr, c4, built, tx, fn>> /\ pc = "body" /\ InBody /\ c7'.ctor = c7.ctor
        /\ r4' \in {r4, c7_to_c4(ctr, c7), upd_only_time_in_c4(c7, r4)}
    BY <1>4, BodyFacts DEF InBody
  <2>2. hasConstructor(ctr)' = hasConstructor(ctr)
    BY <2>1 DEF hasConstructor
  <2>3. /\ hasConstructor(ctr) => c7_to_c4(ctr, c7).ctor = 1
        /\ upd_only_time_in_c4(c7, r4).ctor = r4.ctor
    BY DEF c7_to_c4, upd_only_time_in_c4, TypeOK, C4Type
  <2>4. hasConstructor(ctr) => ~ctr.rawCommit /\ NullTestWorks(ctr)
    BY DEF FlagIsSaved
  <2>5. hasConstructor(ctr) /\ cmt'.done => cmt'.c4.ctor = 1
    BY <1>4, <2>3, <2>4, BodyFacts DEF FlagOK
  <2>6. hasConstructor(ctr) /\ tx.kind # "none" => c4.ctor <= r4'.ctor
    BY <1>0, <2>1, <2>3 DEF FlagOK
  <2>7. hasConstructor(ctr) /\ pc' = "end" /\ code' \in {0, 1} /\ fn.kind = "constructor" => r4'.ctor = 1
    <3>1. SUFFICES ASSUME hasConstructor(ctr), pc' = "end", code' \in {0, 1}, fn.kind = "constructor"
                   PROVE  r4'.ctor = 1
      OBVIOUS
    <3>2. c7.loaded \/ (~ctr.headers /\ ctr.nvars = 0)
      BY <2>1, <3>1 DEF LoadedOK
    <3>3. ctr.nvars \in 0..2
      BY ContractFacts DEF ContractType
    <3>4. ~((ctr.headers \/ ctr.nvars > 0) /\ ~was_c4_to_c7_called(ctr, c7))
      BY <2>4, <3>1, <3>2, <3>3 DEF was_c4_to_c7_called, NullTestWorks
    <3>5. saveOnReturn(ctr, fn, tx.kind) = "c7_to_c4"
      BY <3>1 DEF saveOnReturn
    <3> QED BY <1>4, <2>3, <3>1, <3>4, <3>5, BodyFacts
  <2> QED BY <1>0, <2>1, <2>2, <2>5, <2>6, <2>7 DEF FlagOK, Succeeds
<1>5. CASE EndTransaction
  <2>1. /\ ctr' = ctr /\ pc = "end" /\ tx'.kind = "none" /\ fn'.kind = "none" /\ ~cmt'.done /\ pc' = "idle"
        /\ c4' = IF Persists THEN FinalC4 ELSE c4
        /\ built' = IF Persists /\ fn.kind = "constructor" THEN CountUpTo2(built) ELSE built
    BY <1>5, EndFacts
  <2>2. hasConstructor(ctr)' = hasConstructor(ctr)
    BY <2>1 DEF hasConstructor
  <2>3. fn.kind = "constructor" => hasConstructor(ctr)
    BY HandlerFacts DEF FunctionOK, NoFunction
  <2>4. tx.kind # "none"
    BY <2>1 DEF PhaseOK
  <2>5. hasConstructor(ctr) => c4.ctor <= c4'.ctor
    BY <1>0, <2>1, <2>4 DEF FlagOK, FinalC4, Persists
  <2>6. hasConstructor(ctr) /\ Persists /\ fn.kind = "constructor" => built = 0 /\ c4'.ctor = 1
    BY <1>0, <2>1 DEF FlagOK, FinalC4, Persists, InBody
  <2>7. /\ ~hasConstructor(ctr) => built' = 0
        /\ hasConstructor(ctr) => built' <= c4'.ctor
    <3>1. c4'.ctor \in {0, 1}
      BY <1>0, <2>1 DEF FinalC4
    <3> QED BY <1>0, <2>1, <2>3, <2>5, <2>6, <3>1 DEF FlagOK, CountUpTo2
  <2> QED BY <2>1, <2>2, <2>7 DEF FlagOK, InBody
<1>6. CASE AdvanceTime \/ UNCHANGED vars
  <2>1. UNCHANGED <<ctr, c4, built, pc, tx, fn, r4, c7, cmt, code>>
    BY <1>6 DEF AdvanceTime, vars, txVars
  <2> QED BY <2>1 DEF FlagOK, InBody, Succeeds, hasConstructor
<1> QED BY <1>1, <1>2, <1>3, <1>4, <1>5, <1>6, Steps

(* View and pure functions keep the state variables, the others save them.  *)
LEMMA VarsStep ==
    ASSUME SafetyInv, [Next]_vars
    PROVE  VarsOK'
<1> USE DEF SafetyInv, IInv
<1>0. NoFunction.mut = "pure" /\ ~NoCommit.done /\ NoCommit.c4.vars = 0
  BY DEF NoFunction, NoCommit, default_data_cell
<1>1. CASE Begins
  <2>1. /\ ctr' = ctr /\ c4' = c4 /\ r4' = c4 /\ cmt' = NoCommit /\ c7'.vars \in {0, c4.vars}
        /\ c7'.loaded => c7'.vars = c4.vars
        /\ pc' = "end" => fn' = NoFunction
    BY <1>1, BeginFacts DEF Begins
  <2> QED BY <1>0, <2>1 DEF VarsOK, NoLostUpdate
<1>2. CASE Checks \/ Selects
  <2>1. /\ UNCHANGED <<ctr, c4, tx, r4, cmt>> /\ c7'.vars = c7.vars /\ c7'.loaded = c7.loaded
        /\ pc \in {"signature", "replay", "expire", "dispatch", "select"}
        /\ pc' = "end" => fn' = fn
    BY <1>2, CheckFacts, SelectFacts DEF Checks, Selects
  <2>2. fn = NoFunction
    BY <2>1 DEF FunctionOK
  <2> QED BY <1>0, <2>1, <2>2 DEF VarsOK, NoLostUpdate
<1>3. CASE Enters
  <2>1. /\ UNCHANGED <<ctr, c4, tx, fn, r4, cmt>> /\ r4 = c4 /\ ~cmt.done
        /\ pc' = "end" => code' \notin {0, 1}
        /\ ctr.nvars = 0 => c7'.vars \in {c7.vars, r4.vars}
        /\ fn.kind # "constructor" => c7' = c7 \/ c7'.vars = r4.vars
    BY <1>3, EnterFacts DEF Enters, NothingYet
  <2>2. fn.kind = "constructor" => fn.mut = "nonpayable"
    BY HandlerFacts DEF FunctionOK, NoFunction
  <2> QED BY <2>1, <2>2 DEF VarsOK, NoLostUpdate, Succeeds
<1>4. CASE Body
  <2>1. /\ UNCHANGED <<ctr, c4, tx, fn>> /\ pc = "body" /\ c7'.loaded = c7.loaded
        /\ r4' \in {r4, c7_to_c4(ctr, c7), upd_only_time_in_c4(c7, r4)}
        /\ fn.mut # "nonpayable" \/ ctr.nvars = 0 => c7'.vars = c7.vars
    BY <1>4, BodyFacts
  <2>2. c7_to_c4(ctr, c7).vars = c7.vars /\ upd_only_time_in_c4(c7, r4).vars = r4.vars
    BY DEF c7_to_c4, upd_only_time_in_c4, TypeOK, C4Type
  <2>3. ctr.nvars = 0 => r4'.vars = 0 /\ c7'.vars = 0 /\ cmt'.c4.vars = 0 /\ c4.vars = 0
    BY <1>4, <2>1, <2>2, BodyFacts DEF VarsOK
  <2>4. ASSUME fn.mut # "nonpayable", tx.kind # "none"
        PROVE  /\ r4'.vars = c4.vars
               /\ c7'.loaded => c7'.vars = c4.vars
               /\ cmt'.done => cmt'.c4.vars = c4.vars
    <3>1. r4.vars = c4.vars /\ (c7.loaded => c7.vars = c4.vars) /\ (cmt.done => cmt.c4.vars = c4.vars)
      BY <2>4 DEF VarsOK
    <3>2. Storable(ctr, c7) => c7.vars = c4.vars
      BY <3>1 DEF Storable, VarsOK
    <3>3. r4'.vars = c4.vars
      BY <1>4, <2>1, <2>2, <3>1, <3>2, BodyFacts
    <3>4. cmt'.done => cmt'.c4.vars = c4.vars
      BY <1>4, <2>2, <2>4, <3>1, <3>2, BodyFacts
    <3> QED BY <2>1, <2>4, <3>1, <3>3, <3>4
  <2>5. ASSUME NullTestWorks(ctr), FallbackLoads(ctr), pc' = "end", code' \in {0, 1}, fn.mut = "nonpayable"
        PROVE  r4'.vars = c7'.vars
    <3>1. c7.loaded \/ (~ctr.headers /\ ctr.nvars = 0)
      BY <2>1, <2>5 DEF LoadedOK
    <3>2. ctr.nvars \in 0..2
      BY ContractFacts DEF ContractType
    <3>3. ~((ctr.headers \/ ctr.nvars > 0) /\ ~was_c4_to_c7_called(ctr, c7))
      BY <2>5, <3>1, <3>2 DEF was_c4_to_c7_called, NullTestWorks
    <3>4. saveOnReturn(ctr, fn, tx.kind) = "c7_to_c4"
      BY <2>5 DEF saveOnReturn, updC4IfItNeeds
    <3>5. r4' = c7_to_c4(ctr, c7) /\ c7' = c7
      BY <1>4, <2>5, <3>3, <3>4, BodyFacts
    <3> QED BY <2>2, <3>5
  <2>6. NullTestWorks(ctr)' = NullTestWorks(ctr) /\ FallbackLoads(ctr)' = FallbackLoads(ctr)
    BY <2>1 DEF NullTestWorks, FallbackLoads
  <2>7. (NullTestWorks(ctr) /\ FallbackLoads(ctr) => NoLostUpdate)'
    BY <2>1, <2>5, <2>6 DEF NoLostUpdate, Succeeds
  <2> QED BY <2>1, <2>3, <2>4, <2>7 DEF VarsOK
<1>5. CASE EndTransaction
  <2>1. /\ ctr' = ctr /\ pc' = "idle" /\ tx'.kind = "none"
        /\ r4'.vars = 0 /\ c7'.vars = 0 /\ cmt'.c4.vars = 0
        /\ c4' = IF Persists THEN FinalC4 ELSE c4
    BY <1>5, EndFacts
  <2> QED BY <2>1 DEF VarsOK, NoLostUpdate, FinalC4
<1>6. CASE AdvanceTime \/ UNCHANGED vars
  <2>1. UNCHANGED <<ctr, c4, pc, tx, fn, r4, c7, cmt, code>>
    BY <1>6 DEF AdvanceTime, vars, txVars
  <2> QED BY <2>1 DEF VarsOK, NoLostUpdate, Succeeds, NullTestWorks, FallbackLoads
<1> QED BY <1>1, <1>2, <1>3, <1>4, <1>5, <1>6, Steps

-----------------------------------------------------------------------------
(* A fresh account has nothing to lose. *)
LEMMA SafetyInit == Init => SafetyInv
<1> SUFFICES ASSUME Init PROVE SafetyInv
  OBVIOUS
<1>1. IInv
  BY OnceInit
<1>2. /\ pc = "idle" /\ tx.kind = "none" /\ fn = NoFunction /\ fn.kind = "none" /\ ~cmt.done
      /\ c4.vars = 0 /\ r4.vars = 0 /\ c7.vars = 0 /\ cmt.c4.vars = 0 /\ c4.ctor = 0 /\ built = 0
      /\ code = 0
  BY DEF Init, NoMessage, NoFunction, NoCommit, EmptyC7, default_data_cell
<1>3. FunctionOK /\ NothingYet /\ Passed /\ LoadedOK
  BY <1>2 DEF FunctionOK, NothingYet, Passed, LoadedOK, InBody
<1>4. FlagOK /\ VarsOK /\ CodeOK
  BY <1>2 DEF FlagOK, VarsOK, CodeOK, InBody, NoLostUpdate, TypeCheckError
<1> QED BY <1>1, <1>3, <1>4 DEF SafetyInv

(* The parts are preserved together: each rests on the ones before it. *)
LEMMA SafetyStep ==
    ASSUME SafetyInv, [Next]_vars
    PROVE  SafetyInv'
<1>1. IInv'
  BY OnceStep DEF SafetyInv
<1>2. FlagIsSaved(ctr)' = FlagIsSaved(ctr)
  <2>1. IInv /\ ctr' = ctr
    BY Steps, BeginFacts, CheckFacts, SelectFacts, EnterFacts, BodyFacts, EndFacts
       DEF SafetyInv, IInv, Begins, Checks, Selects, Enters, AdvanceTime, vars
  <2> QED BY <2>1 DEF FlagIsSaved, hasConstructor, NullTestWorks
<1>3. (FlagIsSaved(ctr) => FlagOK)'
  BY <1>2, FlagStep DEF SafetyInv
<1> QED BY <1>1, <1>3, FunctionStep, NothingStep, PassedStep, LoadedStep, VarsStep, CodeStep
        DEF SafetyInv

(* The inductive invariant holds throughout. *)
LEMMA Safety == Spec => []SafetyInv
<1>1. SafetyInv /\ [Next]_vars => SafetyInv'
  BY SafetyStep
<1> QED BY SafetyInit, <1>1, PTL DEF Spec

(* Whatever takes effect for an external message has passed the signature   *)
(* check, the replay protection and the expiration check of main_external,  *)
(* and leaves the time of the message in c4.                                *)
THEOREM ChecksPassed == Spec => []EffectsAreChecked
<1>1. SafetyInv => EffectsAreChecked
  <2> SUFFICES ASSUME SafetyInv, pc = "end", Persists, tx.kind = "ext"
               PROVE  /\ tx.msg.sig \in {NoKey, Owner, tx.msg.pubkey}
                      /\ c7.msgPubkey # NoKey => tx.msg.sig = c7.msgPubkey
                      /\ ctr.prot # "custom" /\ ctr.hasExpire => now < tx.msg.expire
                      /\ Guarded => c4.time < tx.msg.time /\ FinalC4.time = tx.msg.time
    BY DEF EffectsAreChecked
  <2>1. accepted
    BY DEF Persists
  <2>2. Guarded => c4.time < tx.msg.time /\ FinalC4.time = tx.msg.time
    BY DEF SafetyInv, IInv, ExternalTime, Persists, FinalC4
  <2> QED BY <2>1, <2>2 DEF SafetyInv, Passed
<1> QED BY <1>1, Safety, PTL

(* A contract whose flag is always saved (no tvm.rawCommit, and a tvm.exit  *)
(* that can tell whether the globals are loaded) is constructed at most     *)
(* once and before any other function leaves a trace.                       *)
THEOREM ConstructorFirst == Spec => [](FlagIsSaved(ctr) => ConstructedFirst)
<1>1. SafetyInv => (FlagIsSaved(ctr) => ConstructedFirst)
  <2> SUFFICES ASSUME SafetyInv, FlagOK PROVE ConstructedFirst
    BY DEF SafetyInv
  <2>1. c4.ctor \in {0, 1} /\ built \in 0..2
    BY DEF SafetyInv, IInv, TypeOK, C4Type
  <2>2. built <= 1
    BY <2>1 DEF FlagOK
  <2>3. ASSUME pc = "end", Persists, hasConstructor(ctr), fn.kind \notin {"none", "onTickTock"}
        PROVE  IF fn.kind = "constructor" THEN c4.ctor = 0 /\ FinalC4.ctor = 1 ELSE c4.ctor = 1
    BY <2>3 DEF FlagOK, InBody, Persists, FinalC4
  <2> QED BY <2>2, <2>3 DEF ConstructedFirst
<1> QED BY <1>1, Safety, PTL

(* No assignment of a function that ends well is lost, if the global that   *)
(* tvm.exit tests cannot be null and the fallback function has its globals. *)
THEOREM UpdatesAreSaved == Spec => [](NullTestWorks(ctr) /\ FallbackLoads(ctr) => NoLostUpdate)
<1>1. SafetyInv => (NullTestWorks(ctr) /\ FallbackLoads(ctr) => NoLostUpdate)
  BY DEF SafetyInv, VarsOK
<1> QED BY <1>1, Safety, PTL

(* However a view or pure function ends (it returns, calls tvm.exit or      *)
(* onCodeUpgrade), the state variables in c4 stay as they were.             *)
THEOREM ViewsKeepState == Spec => []ViewKeepsState
<1>1. SafetyInv => ViewKeepsState
  BY DEF SafetyInv, IInv, PhaseOK, VarsOK, ViewKeepsState, Persists, FinalC4
<1> QED BY <1>1, Safety, PTL

(* c7_to_c4 and upd_only_time_in_c4 only run on loaded globals, if no pure  *)
(* function reaches onCodeUpgrade and an externalMsg fallback has them.     *)
THEOREM SavesAreLoaded ==
    Spec => [](FallbackLoads(ctr) /\ UpgradeLoads(ctr) => SavesOnlyLoaded)
<1>1. SafetyInv => (FallbackLoads(ctr) /\ UpgradeLoads(ctr) => SavesOnlyLoaded)
  BY DEF SafetyInv, CodeOK, SavesOnlyLoaded
<1> QED BY <1>1, Safety, PTL

-----------------------------------------------------------------------------
(***************************************************************************)
(* The refinement.                                                         *)
(***************************************************************************)
(* A step that leaves the persistent cell and the history alone is not      *)
(* seen.                                                                    *)
LEMMA Unseen ==
    ASSUME UNCHANGED <<ctr, c4, effects>>
    PROVE  UNCHANGED Abstract!avars
  BY DEF Abstract!avars, Seen, Disciplined, hasConstructor

(* Nothing is seen of a contract that is not disciplined. *)
LEMMA Undisciplined ==
    ASSUME ~Disciplined, ctr' = ctr
    PROVE  UNCHANGED Abstract!avars
<1>1. ~Disciplined'
  BY DEF Disciplined, hasConstructor
<1> QED BY <1>1 DEF Abstract!avars, Seen

(* The end of a transaction of a disciplined contract applies its message,  *)
(* at once or not at all.                                                   *)
LEMMA EndIsApplication ==
    ASSUME SafetyInv, Disciplined, EndTransaction
    PROVE  [Abstract!ANext]_(Abstract!avars)
<1> USE DEF SafetyInv, IInv
<1>0. Disciplined' /\ ctr' = ctr /\ pc = "end" /\ c4' = IF Persists THEN FinalC4 ELSE c4
  BY EndFacts DEF Disciplined, hasConstructor
<1>1. Guarded /\ FlagOK /\ hasConstructor(ctr)
  BY DEF Disciplined, Guarded, FlagIsSaved, NullTestWorks
<1>2. CASE ~Persists
  <2>1. UNCHANGED <<ctr, c4, effects>>
    BY <1>2 DEF EndTransaction
  <2> QED BY <2>1, Unseen
<1>3. tx.kind \in {"ext", "int"}
  <2>1. tx.kind # "none"
    BY <1>0 DEF PhaseOK
  <2>2. tx.kind # "tick"
    BY HandlerFacts DEF FunctionOK, Disciplined, NoFunction
  <2> QED BY <2>1, <2>2, MessageType
<1>4. CASE Persists /\ fn.kind = "none"
  <2>1. tx.kind = "int" /\ FinalC4 = c4
    BY <1>0, <1>4 DEF FunctionOK, InBody, Persists, FinalC4
  <2>2. UNCHANGED <<ctr, c4, effects>>
    BY <1>0, <1>4, <2>1 DEF EndTransaction
  <2> QED BY <2>2, Unseen
<1>5. Persists /\ fn.kind # "none" => c4'.ctor = 1
  <2> SUFFICES ASSUME Persists, fn.kind # "none" PROVE FinalC4.ctor = 1
    BY <1>0
  <2>1. fn.kind # "onTickTock"
    BY <1>3 DEF FunctionOK
  <2>2. c4.ctor \in {0, 1} /\ r4.ctor \in {0, 1}
    BY DEF TypeOK, C4Type
  <2> QED BY <1>0, <1>1, <1>3, <2>1, <2>2 DEF FlagOK, InBody, Persists, FinalC4
<1> DEFINE seen == {m \in ExtMessages : Disciplined /\ effects[m] > 0}
<1>6. CASE Persists /\ fn.kind # "none" /\ tx.kind = "int"
  <2>1. effects' = effects /\ c4'.time = c4.time
    BY <1>0, <1>1, <1>6 DEF EndTransaction, FinalC4, Persists, OtherTime
  <2>2. UNCHANGED <<Seen(c4).time, seen>> /\ Seen(c4)'.ctor = 1
    BY <1>0, <1>5, <1>6, <2>1 DEF Seen
  <2> QED BY <2>2 DEF Abstract!ANext, Abstract!ApplyInternal, Abstract!Construct
<1>7. CASE Persists /\ fn.kind # "none" /\ tx.kind = "ext"
  <2>1. tx.msg \in ExtMessages /\ tx.msg.time \in Nat /\ effects \in [ExtMessages -> 0..2]
    BY <1>7, MessageType, InputsAssumption DEF ExtMessageType, TypeOK
  <2>2. c4'.time = tx.msg.time /\ c4.time < tx.msg.time
    BY <1>0, <1>1, <1>7 DEF FinalC4, Persists, ExternalTime
  <2>3. effects[tx.msg] = 0
    <3>1. c4.time \in Nat
      BY DEF TypeOK, C4Type
    <3> QED BY <1>1, <2>1, <2>2, <3>1 DEF AppliedIsPast
  <2>4. effects' = [effects EXCEPT ![tx.msg] = 1]
    BY <1>7, <2>1, <2>3 DEF EndTransaction, CountUpTo2
  <2>5. seen' = seen \cup {tx.msg} /\ tx.msg \notin seen
    BY <1>0, <2>1, <2>3, <2>4
  <2>6. Seen(c4) = c4 /\ Seen(c4)' = c4'
    BY <1>0 DEF Seen
  <2>7. Abstract!ApplyExternal(tx.msg)
    BY <1>5, <1>7, <2>2, <2>5, <2>6 DEF Abstract!ApplyExternal, Abstract!Construct
  <2>8. \E m \in ExtMessages : Abstract!ApplyExternal(m)
    BY <2>1, <2>7 DEF Abstract!ApplyExternal
  <2> QED BY <2>8 DEF Abstract!ANext
<1> QED BY <1>2, <1>3, <1>4, <1>6, <1>7

(* The refinement: through the persistent cell every run of the generated   *)
(* code is a run of AbstractContract, in which transactions are atomic and  *)
(* external messages are applied at most once, forwards in time and never   *)
(* before the constructor.                                                  *)
THEOREM Refinement == Spec => ImplementsAbstract
<1>1. Init => Abstract!AInit
  <2> SUFFICES ASSUME Init PROVE Abstract!AInit
    OBVIOUS
  <2>1. Seen(c4) = default_data_cell
    BY DEF Init, Seen
  <2>2. {m \in ExtMessages : Disciplined /\ effects[m] > 0} = {}
    BY DEF Init
  <2> QED BY <2>1, <2>2 DEF Abstract!AInit, default_data_cell
<1>2. SafetyInv /\ [Next]_vars => [Abstract!ANext]_(Abstract!avars)
  <2> SUFFICES ASSUME SafetyInv, [Next]_vars PROVE [Abstract!ANext]_(Abstract!avars)
    OBVIOUS
  <2>1. CASE EndTransaction
    <3>1. ctr' = ctr
      BY <2>1, EndFacts
    <3> QED BY <2>1, <3>1, EndIsApplication, Undisciplined
  <2>2. CASE \/ Begins \/ Checks \/ Selects \/ Enters \/ Body \/ AdvanceTime \/ UNCHANGED vars
    <3>1. UNCHANGED <<ctr, c4, effects>>
      BY <2>2, BeginFacts, CheckFacts, SelectFacts, EnterFacts, BodyFacts
         DEF SafetyInv, IInv, Begins, Checks, Selects, Enters, AdvanceTime, vars
    <3> QED BY <3>1, Unseen
  <2> QED BY <2>1, <2>2, Steps
<1> QED BY <1>1, <1>2, Safety, PTL DEF Spec, ImplementsAbstract, Abstract!ASpec
==============================================================================
