------------------------------ MODULE MessageBody ------------------------------
(***************************************************************************)
(* Messages that a contract builds and another one reads.  The compiler    *)
(* decides from the greatest size of the message header and of the         *)
(* arguments whether the body goes behind the header or into a cell of its *)
(* own, and where it is split over cells; the receiver's code was compiled *)
(* without knowing that decision.                                          *)
(*                                                                         *)
(* A request says what is sent: kind is "call" (an internal message),      *)
(* "emit" (an external message out) or "body" (abi.encodeBody, sent as     *)
(* somebody's payload); whether the callee is responsible, so that a       *)
(* callback id follows its function id; the destination's real length;     *)
(* whether currencies and a state init are attached; the parameter types   *)
(* and which value each parameter has.                                     *)
(***************************************************************************)
EXTENDS AbiCells

CONSTANT Requests

VARIABLES request,
          stage,    \* "new", "sent", "read" or "broken" (exception)
          body,     \* the body as the receiver gets it
          got       \* the arguments the receiver has decoded

vars == <<request, stage, body, got>>

(* What is stored besides arguments, told apart by a negative place.        *)
Field(bits, refs, of) ==
    [type |-> Uint(bits), of |-> of, tag |-> 0, size |-> [bits |-> bits, refs |-> refs]]
FunctionId == Field(32, 0, -1)
CallbackId == Field(32, 0, -2)
Args(r) == [i \in 1 .. Len(r.params) |-> Value(r.params[i], i, r.tags[i])]

-----------------------------------------------------------------------------
(* The header and its greatest size as the compiler counts it.              *)

AddressMax == 591
TonsMax == 4 + 15 * 8

(* mutant: the destination counted like the empty address *)
int_msg_info_NoDest(r) == 1 + 1 + 1 + 2 + 2 + TonsMax + 1 + 4 + 4 + 64 + 32

(* ihr_disabled, bounce, bounced, src, dest, tons, currencies, two fees and *)
(* two times behind the tag; dest is always given at run time.              *)
int_msg_info(r) == 1 + 1 + 1 + 2 + AddressMax + TonsMax + 1 + 4 + 4 + 64 + 32
IntHeader(r) == Field(1 + 1 + 1 + 1 + 2 + r.dest + TonsMax + 1 + 4 + 4 + 64 + 32, IF r.currencies THEN 1 ELSE 0, -3)

(* Tag, src, dest and two times, all of it constant unless dest is given.   *)
ext_msg_info(r) == 2 + 2 + (IF r.dest = 0 THEN 2 ELSE AddressMax) + 64 + 32
ExtHeader(r) == Field(2 + 2 + (IF r.dest = 0 THEN 2 ELSE r.dest) + 64 + 32, 0, -3)

(* prepareMsg: the header, then the state init as a reference behind two    *)
(* bits, or one bit if there is none.                                       *)
MsgInfoSize(r) ==
    (IF r.kind = "call" THEN int_msg_info(r) ELSE ext_msg_info(r)) + (IF r.stateInit THEN 2 ELSE 1)

MsgInfo(r) ==
    Store(Store(Empty, IF r.kind = "call" THEN IntHeader(r) ELSE ExtHeader(r)),
          IF r.stateInit THEN Field(2, 1, -4) ELSE Field(1, 0, -4))

-----------------------------------------------------------------------------
(* createMsgBody: the ids and the arguments into the builder.               *)
CallbackLength(r) == IF r.responsible THEN 32 ELSE 0

createMsgBody(r, builder, load) ==
    LET b == Store(builder, FunctionId)
    IN  encodeParameters(Args(r), load, IF r.responsible THEN Store(b, CallbackId) ELSE b)

(* createMsgBodyAndAppendToBuilder: into the same builder if, with it, all  *)
(* fits into one cell.                                                      *)
AppendedLoad(r) == doLoadNextCell(r.params, MsgInfoSize(r) + 32 + CallbackLength(r), 0)
doAppend(r) == countOfCreatedBuilders(AppendedLoad(r)) = 0

(* The source program decides what is sent, within the sizes that the       *)
(* compiler counts.  For a body in the same builder it does not count the   *)
(* references of the header, its tag and the bit before the body, and       *)
(* abi.encodeBody does not count the callback: known exceptions, listed in  *)
(* the README.  The two bits matter if no destination is given, or one of   *)
(* the longest form, which no chain uses.                                   *)
HeaderRefs(r) == (IF r.currencies THEN 1 ELSE 0) + (IF r.stateInit THEN 1 ELSE 0)
Counted(r) ==
    CASE r.kind = "call" -> doAppend(r) => HeaderRefs(r) + sufRefs(r.params, 1) <= 4
      [] r.kind = "emit" -> doAppend(r) /\ r.dest = 0 => sufBits(r.params, 1) # 888
      [] r.kind = "body" -> ~r.responsible

IsRequest(r) ==
    /\ r.kind \in {"call", "emit", "body"}
    /\ r.responsible \in BOOLEAN /\ r.currencies \in BOOLEAN /\ r.stateInit \in BOOLEAN
    /\ r.kind = "emit" => ~r.responsible /\ ~r.currencies /\ ~r.stateInit
    /\ r.dest \in 0 .. (AddressMax - 2)
    /\ r.params \in Seq(TypeSizes)
    /\ \A i \in 1 .. Len(r.params) : IsType(r.params[i])
    /\ Counted(r)

ASSUME RequestsAssumption == \A r \in Requests : IsRequest(r)

Message(r) ==
    IF doAppend(r)
    THEN createMsgBody(r, Store(MsgInfo(r), Field(1, 0, -5)), AppendedLoad(r))
    ELSE StoreRef(Store(MsgInfo(r), Field(1, 0, -5)),
                  createMsgBody(r, Empty, doLoadNextCell(r.params, 32 + CallbackLength(r), 0)))

(* The body of a message, as the virtual machine hands it to the receiver.  *)
BodyOf(r, m) ==
    IF doAppend(r)
    THEN Cut(m, Bits(MsgInfo(r)) + 1, Len(MsgInfo(r).refs)).back
    ELSE m.refs[Len(m.refs)].to

(* abi.encodeBody.                                                          *)
EncodedBody(r) == createMsgBody(r, Empty, doLoadNextCell(r.params, 32, 0))

-----------------------------------------------------------------------------
(* The receiver: the public function has taken its id and, if responsible,  *)
(* the callback id off the body, and decodes its parameters.                *)
(* mutant: the callback id is forgotten *)
offsetInternalFunction_NoCallback(r) == 32

offsetInternalFunction(r) == 32 + CallbackLength(r)

decodePublicFunctionParameters(r, slice) ==
    LET f == Load(FunctionId.type, slice)
        c == IF f # Broken /\ r.responsible THEN Load(CallbackId.type, f.rest) ELSE f
    IN  IF c = Broken THEN [values |-> <<>>, rest |-> Broken]
        ELSE decodeParameters(r.params, doLoadNextCell(r.params, offsetInternalFunction(r), 0), c.rest)

-----------------------------------------------------------------------------
Init ==
    /\ request \in Requests
    /\ stage = "new"
    /\ body = Empty
    /\ got = <<>>

Send ==
    /\ stage = "new"
    /\ LET m == IF request.kind = "body" THEN EncodedBody(request) ELSE Message(request)
       IN  IF m = Broken
           THEN stage' = "broken" /\ UNCHANGED body
           ELSE /\ stage' = "sent"
                /\ body' = IF request.kind = "body" THEN m ELSE BodyOf(request, m)
    /\ UNCHANGED <<request, got>>

(* External messages are read outside of the chain, by the same rules.      *)
Receive ==
    /\ stage = "sent"
    /\ LET d == decodePublicFunctionParameters(request, body)
       IN  /\ got' = d.values
           /\ stage' = IF d.rest = Broken \/ ~Ended(d.rest) THEN "broken" ELSE "read"
    /\ UNCHANGED <<request, body>>

Over == stage \in {"read", "broken"} /\ UNCHANGED vars

Next == Send \/ Receive \/ Over

Spec == Init /\ [][Next]_vars

-----------------------------------------------------------------------------
(* Every request of the source program leads to a message: no builder       *)
(* overflows, for the largest arguments and for the smallest.               *)
MessageIsBuilt == ~(stage = "broken" /\ body = Empty)

(* The receiver's code, compiled from the parameter types alone, reads what *)
(* the sender's code wrote, wherever that put the body, and nothing is left.*)
ReceivedIsSent ==
    /\ stage = "read" => got = Args(request)
    /\ stage = "broken" => body = Empty
=============================================================================
