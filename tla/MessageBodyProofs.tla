---------------------------- MODULE MessageBodyProofs ----------------------------
(***************************************************************************)
(* Every request that meets RequestsAssumption leads to a message, and the *)
(* receiver reads the arguments that were sent.                            *)
(*                                                                         *)
(* Whether the body is in a cell of its own or behind the header, what the *)
(* receiver gets is the ids in front of the same encoding of the arguments *)
(* (Body).  Behind the header that holds because the compiler appends it   *)
(* only if no cell begins in it; then none begins either if it starts      *)
(* earlier, as in the receiver's computation (BodyBehindHeader).           *)
(***************************************************************************)
EXTENDS MessageBody, AbiCellsProofs

(***************************************************************************)
(* The fields of a message and its arguments.                              *)
(***************************************************************************)
LEMMA FieldFacts ==
    ASSUME NEW bits \in Nat \ {0}, NEW refs \in Nat, NEW of
    PROVE  /\ IsValue(Field(bits, refs, of)) /\ Stored(Field(bits, refs, of), Field(bits, refs, of).type)
           /\ Field(bits, refs, of).size.bits = bits /\ Field(bits, refs, of).size.refs = refs
<1> DEFINE v == Field(bits, refs, of)
<1>1. v = [type |-> Uint(bits), of |-> of, tag |-> 0, size |-> [bits |-> bits, refs |-> refs]]
  BY DEF Field
<1>2. Uint(bits).bits = bits
  BY DEF Uint, Type
<1> HIDE DEF v
<1>3. v.type = Uint(bits) /\ v.of = of /\ v.tag = 0 /\ v.size = [bits |-> bits, refs |-> refs]
  BY <1>1
<1>4. v.size.bits = bits /\ v.size.refs = refs
  BY <1>3
<1>5. IsValue(v)
  BY <1>1, <1>3, <1>4 DEF IsValue
<1>6. Stored(v, v.type)
  BY <1>2, <1>3, <1>4, <1>5 DEF Stored
<1> QED BY <1>4, <1>5, <1>6 DEF v

(* The arguments of a request are values of its parameter types.            *)
LEMMA ArgsFacts ==
    ASSUME NEW r, IsRequest(r), NEW n, n = Len(r.params)
    PROVE  /\ n \in Nat /\ r.params \in Seq(TypeSizes) /\ IsList(Args(r)) /\ Len(Args(r)) = n
           /\ \A i \in 1 .. n : /\ Fitting(Args(r)[i], r.params[i]) /\ Stored(Args(r)[i], r.params[i])
                                /\ IsValue(Args(r)[i])
<1> DEFINE a == Args(r)
<1>1. r.params \in Seq(TypeSizes) /\ n \in Nat
  BY DEF IsRequest
<1>2. a = [i \in 1 .. n |-> Value(r.params[i], i, r.tags[i])]
  BY DEF Args
<1> HIDE DEF a
<1>3. a = [i \in 1 .. n |-> a[i]]
  BY <1>2
<1>4. IsList(a) /\ Len(a) = n
  BY <1>1, <1>3, FunctionList
<1>5. ASSUME NEW i \in 1 .. n PROVE Fitting(a[i], r.params[i]) /\ Stored(a[i], r.params[i]) /\ IsValue(a[i])
  <2>1. a[i] = Value(r.params[i], i, r.tags[i])
    BY <1>2
  <2>2. IsType(r.params[i])
    BY DEF IsRequest
  <2>3. Fitting(a[i], r.params[i])
    BY <2>1, <2>2, ValueFits
  <2> QED BY <2>3 DEF Fitting, Stored
<1> QED BY <1>1, <1>4, <1>5 DEF a

(* The body of a request: its ids in front of the encoded arguments.        *)
Body(r, E) == Ahead(FunctionId, IF r.responsible THEN Ahead(CallbackId, E[0]) ELSE E[0])

(* The ids are values of 32 bits.                                           *)
LEMMA Ids ==
    /\ IsValue(FunctionId) /\ FunctionId.size.bits = 32 /\ FunctionId.size.refs = 0 /\ Stored(FunctionId, FunctionId.type)
    /\ IsValue(CallbackId) /\ CallbackId.size.bits = 32 /\ CallbackId.size.refs = 0 /\ Stored(CallbackId, CallbackId.type)
<1>1. 32 \in Nat \ {0} /\ 0 \in Nat
  OBVIOUS
<1> QED BY <1>1, FieldFacts DEF FunctionId, CallbackId

(* A body is a slice.                                                       *)
LEMMA BodyFacts ==
    ASSUME NEW r, NEW E, IsSlice(E[0])
    PROVE  IsSlice(Body(r, E)) /\ Body(r, E) # Broken
<1>1. IsSlice(IF r.responsible THEN Ahead(CallbackId, E[0]) ELSE E[0])
  BY Ids, FrontSlice
<1>2. IsSlice(Body(r, E))
  BY <1>1, Ids, FrontSlice DEF Body
<1>3. Body(r, E) # Broken
  BY <1>2, NotBroken DEF IsSlice
<1> QED BY <1>2, <1>3

(* createMsgBody appends the body, if there is room for it.                 *)
LEMMA BodyIsAppended ==
    ASSUME NEW r, IsRequest(r), NEW n, n = Len(r.params), NEW b, IsSlice(b), NEW load, NEW E, NEW sb, NEW sr,
           IsEncoding(E, Args(r), load, n), HasRoom(Args(r), load, n, sb, sr), \A i \in 1 .. n : load[i] \in BOOLEAN,
           Bits(b) + 32 + CallbackLength(r) <= sb[0], Len(b.refs) <= sr[0], sr[0] <= 4
    PROVE  createMsgBody(r, b, load) = Cat(b, Body(r, E)) /\ IsSlice(E[0])
<1> DEFINE c == Store(b, FunctionId)
           d == Store(c, CallbackId)
           args == Args(r)
<1>1. n \in Nat /\ Len(args) = n /\ IsList(args) /\ \A i \in 1 .. n : IsValue(args[i])
  BY ArgsFacts
<1>2. IsSlice(E[0])
  <2>1. \A i \in 0 .. n : IsSlice(E[i])
    <3> HIDE DEF args
    <3>1. IsEncoding(E, args, load, n)
      BY DEF args
    <3> QED BY <1>1, <3>1, EncodingSlices
  <2> QED BY <1>1, <2>1
<1>3. Bits(b) \in Nat /\ Len(b.refs) \in Nat
  BY LengthsFacts
<1>4. sb[0] \in Nat /\ sr[0] \in Nat /\ sb[0] <= CellBits
  BY <1>1 DEF HasRoom
<1>5. CellBits \in Nat /\ CellRefs = 4
  BY DEF CellBits, CellRefs
<1>6. CallbackLength(r) = (IF r.responsible THEN 32 ELSE 0) /\ r.responsible \in BOOLEAN
  BY DEF CallbackLength, IsRequest
<1>7. ASSUME NEW x, Within(x, sb[0], sr[0]) PROVE encodeParameters(args, load, x) = Cat(x, E[0])
  <2>1. IsEncoding(E, args, load, n) /\ HasRoom(args, load, n, sb, sr) /\ \A i \in 1 .. n : IsValue(args[i]) /\ load[i] \in BOOLEAN
    BY <1>1
  <2> HIDE DEF args
  <2> QED BY <1>1, <1>7, <2>1, Encoded
<1>8. Bits(b) + 32 <= CellBits /\ Len(b.refs) + 0 <= CellRefs
  BY <1>3, <1>4, <1>5, <1>6
<1>9. IsSlice(c) /\ Bits(c) = Bits(b) + 32 /\ Len(c.refs) = Len(b.refs)
  <2>1. IsSlice(c) /\ Bits(c) = Bits(b) + 32 /\ Len(c.refs) = Len(b.refs) + 0
    BY <1>8, Ids, EmptyFacts, StoreThen
  <2> HIDE DEF c
  <2> QED BY <1>3, <2>1
<1>10. \A s : IsSlice(s) => Cat(c, s) = Cat(b, Ahead(FunctionId, s))
  BY <1>8, Ids, StoreThen
<1>11. CASE ~r.responsible
  <2>1. Within(c, sb[0], sr[0])
    <3> HIDE DEF c
    <3> QED BY <1>3, <1>4, <1>6, <1>9, <1>11 DEF Within
  <2>2. createMsgBody(r, b, load) = encodeParameters(args, load, c)
    BY <1>11 DEF createMsgBody
  <2>3. Body(r, E) = Ahead(FunctionId, E[0])
    BY <1>11 DEF Body
  <2> HIDE DEF c, args
  <2> QED BY <1>2, <1>7, <1>10, <2>1, <2>2, <2>3
<1>12. CASE r.responsible
  <2>1. Bits(c) + 32 <= CellBits /\ Len(c.refs) + 0 <= CellRefs
    <3> HIDE DEF c
    <3> QED BY <1>3, <1>4, <1>5, <1>6, <1>9, <1>12
  <2>2. /\ IsSlice(d) /\ Bits(d) = Bits(c) + 32 /\ Len(d.refs) = Len(c.refs) + 0
        /\ Cat(d, E[0]) = Cat(c, Ahead(CallbackId, E[0]))
    <3> DEFINE v == CallbackId
               s == E[0]
    <3>1. /\ IsSlice(c) /\ IsSlice(s) /\ IsValue(v) /\ v.size.bits = 32 /\ v.size.refs = 0
          /\ Bits(c) + v.size.bits <= CellBits /\ Len(c.refs) + v.size.refs <= CellRefs
      BY <1>2, <1>9, <2>1, Ids
    <3> HIDE DEF c, v, s
    <3>2. /\ IsSlice(Store(c, v)) /\ Bits(Store(c, v)) = Bits(c) + v.size.bits
          /\ Len(Store(c, v).refs) = Len(c.refs) + v.size.refs /\ Cat(Store(c, v), s) = Cat(c, Ahead(v, s))
      BY <3>1, StoreThen, ZenonT(30)
    <3> QED BY <3>1, <3>2 DEF v, s
  <2>3. createMsgBody(r, b, load) = encodeParameters(args, load, d)
    BY <1>12 DEF createMsgBody
  <2>4. Body(r, E) = Ahead(FunctionId, Ahead(CallbackId, E[0]))
    BY <1>12 DEF Body
  <2>5. Within(d, sb[0], sr[0])
    <3> HIDE DEF c, d
    <3> QED BY <1>3, <1>4, <1>6, <1>9, <1>12, <2>2 DEF Within
  <2>6. IsSlice(Ahead(CallbackId, E[0]))
    BY <1>2, Ids, FrontSlice
  <2>7. encodeParameters(args, load, d) = Cat(d, E[0])
    <3> HIDE DEF d
    <3> QED BY <1>7, <2>5
  <2> DEFINE s == Ahead(CallbackId, E[0])
  <2>8. Cat(c, s) = Cat(b, Ahead(FunctionId, s))
    <3> HIDE DEF c, s
    <3>1. IsSlice(s)
      BY <2>6 DEF s
    <3> QED BY <1>10, <3>1
  <2> HIDE DEF c, d, args
  <2> QED BY <1>2, <2>2, <2>3, <2>4, <2>7, <2>8
<1> QED BY <1>2, <1>6, <1>11, <1>12

(* The receiver reads the arguments off the body, whatever cells begin in   *)
(* it, if it knows where they begin.                                        *)
LEMMA BodyIsRead ==
    ASSUME NEW r, IsRequest(r), NEW n, n = Len(r.params), NEW load, NEW E,
           load = doLoadNextCell(r.params, offsetInternalFunction(r), 0),
           IsEncoding(E, Args(r), load, n), \A i \in 1 .. n : load[i] \in BOOLEAN
    PROVE  decodePublicFunctionParameters(r, Body(r, E)) = [values |-> Args(r), rest |-> Empty]
<1> DEFINE f == Load(FunctionId.type, Body(r, E))
           s == IF r.responsible THEN Ahead(CallbackId, E[0]) ELSE E[0]
           c == IF f # Broken /\ r.responsible THEN Load(CallbackId.type, f.rest) ELSE f
<1>1. n \in Nat /\ Len(Args(r)) = n /\ IsList(Args(r)) /\ \A i \in 1 .. n : IsValue(Args(r)[i]) /\ Stored(Args(r)[i], r.params[i])
  BY ArgsFacts
<1>2. IsSlice(E[0])
  <2>1. \A i \in 0 .. n : IsSlice(E[i])
    <3> DEFINE args == Args(r)
    <3>1. IsEncoding(E, args, load, n) /\ \A i \in 1 .. n : IsValue(args[i])
      BY <1>1
    <3> HIDE DEF args
    <3> QED BY <1>1, <3>1, EncodingSlices
  <2> QED BY <1>1, <2>1
<1>3. IsSlice(s)
  BY <1>2, Ids, FrontSlice
<1>4. f = [value |-> FunctionId, rest |-> s]
  <2>1. Body(r, E) = Ahead(FunctionId, s)
    BY DEF Body
  <2> HIDE DEF s
  <2> QED BY <1>3, <2>1, Ids, LoadFront
<1>5. \A v, x : [value |-> v, rest |-> x] # Broken
  <2>1. ASSUME NEW v, NEW x PROVE [value |-> v, rest |-> x] # Broken
    <3>1. DOMAIN [value |-> v, rest |-> x] = {"value", "rest"}
      OBVIOUS
    <3>2. DOMAIN Broken = {"broken"}
      BY DEF Broken
    <3>3. "value" # "broken"
      OBVIOUS
    <3> QED BY <3>1, <3>2, <3>3
  <2> QED BY <2>1
<1>6. f # Broken /\ f.rest = s
  <2> HIDE DEF f, s
  <2> QED BY <1>4, <1>5
<1>7. c # Broken /\ c.rest = E[0]
  <2>1. CASE r.responsible
    <3>1. c = Load(CallbackId.type, s) /\ s = Ahead(CallbackId, E[0])
      <4> HIDE DEF f
      <4> QED BY <1>6, <2>1
    <3>2. c = [value |-> CallbackId, rest |-> E[0]]
      <4> HIDE DEF c
      <4> QED BY <1>2, <3>1, Ids, LoadFront
    <3> HIDE DEF c
    <3> QED BY <1>5, <3>2
  <2>2. CASE ~r.responsible
    <3>1. c = f /\ s = E[0]
      BY <2>2
    <3> HIDE DEF c, f, s
    <3> QED BY <1>6, <3>1
  <2> QED BY <2>1, <2>2
<1>8. decodePublicFunctionParameters(r, Body(r, E)) = decodeParameters(r.params, load, c.rest)
  <2>1. c # Broken
    BY <1>7
  <2> QED BY <2>1 DEF decodePublicFunctionParameters
<1>9. decodeParameters(r.params, load, E[0]) = [values |-> Args(r), rest |-> Empty]
  <2> DEFINE args == Args(r)
             types == r.params
  <2>1. ToRead(types, load, args, n, E, E[0])
    BY <1>1 DEF ToRead
  <2> HIDE DEF args, types
  <2>2. decodeParameters(types, load, E[0]) = [values |-> args, rest |-> Empty]
    BY <2>1, AllIsRead
  <2> QED BY <2>2 DEF args, types
<1> HIDE DEF c
<1> QED BY <1>7, <1>8, <1>9

(* In a cell of its own the body is what createMsgBody makes of an empty    *)
(* builder, no matter which cells begin in it.                              *)
LEMMA BodyInItsOwnCell ==
    ASSUME NEW r, IsRequest(r), NEW n, n = Len(r.params), NEW load, NEW E,
           load = doLoadNextCell(r.params, 32 + CallbackLength(r), 0), IsEncoding(E, Args(r), load, n)
    PROVE  /\ createMsgBody(r, Empty, load) = Body(r, E) /\ IsSlice(E[0])
           /\ \A i \in 1 .. n : load[i] \in BOOLEAN
<1> DEFINE off == 32 + CallbackLength(r)
           types == r.params
           args == Args(r)
<1>1. types \in Seq(TypeSizes) /\ n = Len(types) /\ n \in Nat /\ \A i \in 1 .. n : Fitting(args[i], types[i])
  BY ArgsFacts
<1>2. off \in Nat /\ off <= CellBits /\ 0 \in Nat
  BY DEF CallbackLength, CellBits
<1>3. load = doLoadNextCell(types, off, 0) /\ IsEncoding(E, args, load, n)
  OBVIOUS
<1> HIDE DEF off, types
<1>4. PICK pb, pr : pb[0] = off /\ pr[0] = 0 /\ Positions(types, load, pb, pr, n)
  BY <1>1, <1>2, <1>3, PositionFacts
<1>5. HasRoom(args, load, n, pb, pr)
  <2> HIDE DEF args
  <2>1. pb[0] <= CellBits /\ pr[0] <= 3
    BY <1>2, <1>4
  <2> QED BY <1>1, <1>4, <2>1, RoomForValues
<1>6. \A i \in 1 .. n : load[i] \in BOOLEAN
  BY <1>4, LoadsAreBoolean
<1>7. IsSlice(Empty) /\ Bits(Empty) + 32 + CallbackLength(r) <= pb[0] /\ Len(Empty.refs) <= pr[0] /\ pr[0] <= 4
  <2>1. IsSlice(Empty) /\ Bits(Empty) = 0 /\ Len(Empty.refs) = 0
    BY EmptyFacts
  <2>2. CallbackLength(r) \in Nat
    BY DEF CallbackLength
  <2> QED BY <1>4, <2>1, <2>2 DEF off
<1>8. createMsgBody(r, Empty, load) = Cat(Empty, Body(r, E)) /\ IsSlice(E[0])
  BY <1>5, <1>6, <1>7, BodyIsAppended
<1>9. IsSlice(Body(r, E))
  BY <1>8, BodyFacts
<1> QED BY <1>6, <1>8, <1>9, CatEmpty

(***************************************************************************)
(* The header, with the bit that says where the body is.                   *)
(***************************************************************************)
Header(r) == Store(MsgInfo(r), Field(1, 0, -5))

(* The compiler counts one bit too few for an external message without a    *)
(* destination.                                                             *)
Uncounted(r) == IF r.kind = "emit" /\ r.dest = 0 THEN 1 ELSE 0

(* What a field adds to a header.                                           *)
LEMMA HeaderSize ==
    ASSUME NEW b, NEW bits \in Nat \ {0}, NEW refs \in Nat, NEW of, IsSlice(b), Bits(b) + bits <= CellBits, Len(b.refs) + refs <= 4
    PROVE  /\ IsSlice(Store(b, Field(bits, refs, of))) /\ Bits(Store(b, Field(bits, refs, of))) = Bits(b) + bits
           /\ Len(Store(b, Field(bits, refs, of)).refs) = Len(b.refs) + refs
           /\ \A s : IsSlice(s) => Cat(Store(b, Field(bits, refs, of)), s) = Cat(b, Ahead(Field(bits, refs, of), s))
<1> DEFINE v == Field(bits, refs, of)
<1>1. IsValue(v) /\ v.size.bits = bits /\ v.size.refs = refs
  BY FieldFacts
<1>2. CellRefs = 4
  BY DEF CellRefs
<1> HIDE DEF v
<1>3. ASSUME NEW s, IsSlice(s)
      PROVE  /\ IsSlice(Store(b, v)) /\ Bits(Store(b, v)) = Bits(b) + v.size.bits
             /\ Len(Store(b, v).refs) = Len(b.refs) + v.size.refs /\ Cat(Store(b, v), s) = Cat(b, Ahead(v, s))
  <2>1. Bits(b) + v.size.bits <= CellBits /\ Len(b.refs) + v.size.refs <= CellRefs
    BY <1>1, <1>2
  <2> QED BY <1>1, <1>3, <2>1, StoreThen, ZenonT(30)
<1>4. IsSlice(Empty)
  BY EmptyFacts
<1> QED BY <1>1, <1>3, <1>4 DEF v

(* The header is not greater than MsgInfoSize says, but for the bit above.  *)
LEMMA HeaderFacts ==
    ASSUME NEW r, IsRequest(r), r.kind # "body"
    PROVE  /\ IsSlice(MsgInfo(r)) /\ IsSlice(Header(r)) /\ Bits(Header(r)) = Bits(MsgInfo(r)) + 1
           /\ Len(Header(r).refs) = Len(MsgInfo(r).refs) /\ Len(Header(r).refs) = HeaderRefs(r) /\ HeaderRefs(r) <= 2
           /\ Bits(Header(r)) <= MsgInfoSize(r) + Uncounted(r)
           /\ MsgInfoSize(r) \in Nat /\ MsgInfoSize(r) <= 827 /\ Uncounted(r) \in {0, 1} /\ HeaderRefs(r) \in Nat
<1> DEFINE hb == IF r.kind = "call" THEN 235 + r.dest ELSE 100 + (IF r.dest = 0 THEN 2 ELSE r.dest)
           hr == IF r.kind = "call" /\ r.currencies THEN 1 ELSE 0
           sb == IF r.stateInit THEN 2 ELSE 1
           sr == IF r.stateInit THEN 1 ELSE 0
           h == Store(Empty, Field(hb, hr, -3))
           m == MsgInfo(r)
<1>1. r.dest \in Nat /\ r.dest <= 589 /\ r.kind \in {"call", "emit"} /\ r.stateInit \in BOOLEAN /\ r.currencies \in BOOLEAN
  <2>1. /\ r.dest \in 0 .. (AddressMax - 2) /\ r.kind \in {"call", "emit", "body"}
        /\ r.stateInit \in BOOLEAN /\ r.currencies \in BOOLEAN
    BY DEF IsRequest
  <2>2. AddressMax - 2 = 589
    BY DEF AddressMax
  <2>3. r.dest \in 0 .. 589
    BY <2>1, <2>2
  <2> QED BY <2>1, <2>3
<1>2. r.kind = "emit" => ~r.currencies /\ ~r.stateInit
  BY DEF IsRequest
<1>3. hb \in Nat \ {0} /\ hr \in Nat /\ sb \in Nat \ {0} /\ sr \in Nat
  BY <1>1
<1>4. (IF r.kind = "call" THEN IntHeader(r) ELSE ExtHeader(r)) = Field(hb, hr, -3)
  <2>1. CASE r.kind = "call"
    <3>1. 1 + 1 + 1 + 1 + 2 + r.dest + (4 + 15 * 8) + 1 + 4 + 4 + 64 + 32 = hb
      BY <1>1, <2>1
    <3> QED BY <2>1, <3>1 DEF IntHeader, TonsMax
  <2>2. CASE r.kind = "emit"
    <3>1. 2 + 2 + (IF r.dest = 0 THEN 2 ELSE r.dest) + 64 + 32 = hb
      BY <1>1, <2>2
    <3> QED BY <2>2, <3>1 DEF ExtHeader
  <2> QED BY <1>1, <2>1, <2>2
<1>5. m = Store(h, Field(sb, sr, -4))
  <2>1. (IF r.stateInit THEN Field(2, 1, -4) ELSE Field(1, 0, -4)) = Field(sb, sr, -4)
    OBVIOUS
  <2>2. m = Store(Store(Empty, Field(hb, hr, -3)), Field(sb, sr, -4))
    <3> HIDE DEF hb, hr, sb, sr
    <3> QED BY <1>4, <2>1 DEF MsgInfo
  <2> QED BY <2>2
<1>6. hb + sb + 1 <= MsgInfoSize(r) + Uncounted(r) /\ MsgInfoSize(r) \in Nat /\ MsgInfoSize(r) <= 827
  <2>1. CASE r.kind = "call"
    <3>1. MsgInfoSize(r) = 825 + sb
      BY <2>1 DEF MsgInfoSize, int_msg_info, AddressMax, TonsMax
    <3>2. Uncounted(r) = 0
      BY <2>1 DEF Uncounted
    <3> QED BY <1>1, <2>1, <3>1, <3>2
  <2>2. CASE r.kind = "emit"
    <3>1. MsgInfoSize(r) = 100 + (IF r.dest = 0 THEN 2 ELSE 591) + 1
      BY <1>2, <2>2 DEF MsgInfoSize, ext_msg_info, AddressMax
    <3>2. Uncounted(r) = IF r.dest = 0 THEN 1 ELSE 0
      BY <2>2 DEF Uncounted
    <3>3. hb = 100 + (IF r.dest = 0 THEN 2 ELSE r.dest) /\ sb = 1
      BY <1>2, <2>2
    <3> HIDE DEF hb, sb
    <3> QED BY <1>1, <3>1, <3>2, <3>3
  <2> QED BY <1>1, <2>1, <2>2
<1>7. hr + sr = HeaderRefs(r) /\ hr + sr <= 2 /\ hr <= 1 /\ sr <= 1
  BY <1>1, <1>2 DEF HeaderRefs
<1>8. CellBits = 1023 /\ Uncounted(r) \in {0, 1}
  BY DEF CellBits, Uncounted
<1> HIDE DEF hb, hr, sb, sr
<1>9. IsSlice(Empty) /\ Bits(Empty) = 0 /\ Len(Empty.refs) = 0
  BY EmptyFacts
<1>10. hb + sb + 1 <= 828
  BY <1>3, <1>6, <1>8
<1>11. IsSlice(h) /\ Bits(h) = hb /\ Len(h.refs) = hr
  <2>1. Bits(Empty) + hb <= CellBits /\ Len(Empty.refs) + hr <= 4
    BY <1>3, <1>7, <1>8, <1>9, <1>10
  <2>2. IsSlice(h) /\ Bits(h) = Bits(Empty) + hb /\ Len(h.refs) = Len(Empty.refs) + hr
    BY <1>3, <1>9, <2>1, HeaderSize
  <2> HIDE DEF h
  <2> QED BY <1>3, <1>9, <2>2
<1> HIDE DEF h
<1>12. IsSlice(m) /\ Bits(m) = hb + sb /\ Len(m.refs) = hr + sr
  <2>1. Bits(h) + sb <= CellBits /\ Len(h.refs) + sr <= 4
    BY <1>3, <1>7, <1>8, <1>10, <1>11
  <2> QED BY <1>3, <1>5, <1>11, <2>1, HeaderSize
<1>13. IsSlice(Header(r)) /\ Bits(Header(r)) = Bits(m) + 1 /\ Len(Header(r).refs) = Len(m.refs) + 0
  <2>1. Header(r) = Store(m, Field(1, 0, -5))
    BY DEF Header
  <2> HIDE DEF m
  <2>2. Bits(m) + 1 <= CellBits /\ Len(m.refs) + 0 <= 4 /\ 1 \in Nat \ {0} /\ 0 \in Nat
    BY <1>3, <1>7, <1>8, <1>10, <1>12
  <2> QED BY <1>12, <2>1, <2>2, HeaderSize
<1> HIDE DEF m
<1>14. Bits(Header(r)) = hb + sb + 1 /\ Len(Header(r).refs) = hr + sr /\ Len(m.refs) = hr + sr
  BY <1>3, <1>12, <1>13
<1>15. /\ Bits(Header(r)) <= MsgInfoSize(r) + Uncounted(r) /\ Len(Header(r).refs) = HeaderRefs(r)
       /\ Len(Header(r).refs) = Len(m.refs) /\ HeaderRefs(r) <= 2 /\ HeaderRefs(r) \in Nat
  BY <1>3, <1>6, <1>7, <1>14
<1> QED BY <1>6, <1>8, <1>12, <1>13, <1>15 DEF m

(* Everything fits, with what the compiler has not counted.                 *)
LEMMA UncountedFits ==
    ASSUME NEW r, IsRequest(r), r.kind # "body", doAppend(r),
           RestFits(r.params, 1, MsgInfoSize(r) + 32 + CallbackLength(r), 0)
    PROVE  RestFits(r.params, 1, (MsgInfoSize(r) + 32 + CallbackLength(r)) + Uncounted(r), HeaderRefs(r))
<1> DEFINE B == sufBits(r.params, 1)
           R == sufRefs(r.params, 1)
           start == MsgInfoSize(r) + 32 + CallbackLength(r)
<1>1. B \in Nat /\ R \in Nat
  <2>1. r.params \in Seq(TypeSizes)
    BY DEF IsRequest
  <2>2. 1 \in 1 .. Len(r.params) + 1
    BY <2>1
  <2> DEFINE types == r.params
             n == Len(types)
  <2>3. types \in Seq(TypeSizes) /\ 1 \in 1 .. n + 1 /\ n = Len(types)
    BY <2>1, <2>2
  <2> HIDE DEF types, n
  <2>4. sufBits(types, 1) \in Nat /\ sufRefs(types, 1) \in Nat
    BY <2>3, SufBits, SufRefs
  <2> QED BY <2>4 DEF types
<1>2. start + B <= 1023 /\ 0 + R <= 4
  BY DEF RestFits, CellBits
<1>3. start \in Nat
  BY HeaderFacts DEF CallbackLength
<1>4. /\ r.kind \in {"call", "emit"} /\ Counted(r) /\ doAppend(r)
      /\ r.kind = "emit" => ~r.responsible /\ ~r.currencies /\ ~r.stateInit
  BY DEF IsRequest
<1>5. (start + Uncounted(r)) + B <= 1023 /\ HeaderRefs(r) + R <= 4
  <2>1. CASE r.kind = "call"
    <3>1. Uncounted(r) = 0 /\ HeaderRefs(r) + R <= 4
      BY <1>4, <2>1 DEF Uncounted, Counted
    <3> HIDE DEF start, B, R
    <3> QED BY <1>1, <1>2, <1>3, <3>1
  <2>2. CASE r.kind = "emit" /\ r.dest # 0
    <3>1. Uncounted(r) = 0 /\ HeaderRefs(r) = 0
      BY <1>4, <2>2 DEF Uncounted, Counted, HeaderRefs
    <3> HIDE DEF start, B, R
    <3> QED BY <1>1, <1>2, <1>3, <3>1
  <2>3. CASE r.kind = "emit" /\ r.dest = 0
    <3>1. Uncounted(r) = 1 /\ HeaderRefs(r) = 0 /\ B # 888 /\ ~r.responsible /\ ~r.stateInit
      BY <1>4, <2>3 DEF Uncounted, Counted, HeaderRefs
    <3>2. start = 135
      BY <2>3, <3>1 DEF MsgInfoSize, ext_msg_info, CallbackLength
    <3> HIDE DEF start, B, R
    <3> QED BY <1>1, <1>2, <3>1, <3>2
  <2> QED BY <1>4, <2>1, <2>2, <2>3
<1> QED BY <1>5 DEF RestFits, CellBits

(* If the sender appends the body, no cell begins in it, neither for the    *)
(* sender nor for the receiver, and cutting the header off gives it back.   *)
LEMMA BodyBehindHeader ==
    ASSUME NEW r, IsRequest(r), r.kind # "body", doAppend(r), NEW n, n = Len(r.params), NEW load, NEW E,
           load = doLoadNextCell(r.params, 32 + CallbackLength(r), 0), IsEncoding(E, Args(r), load, n)
    PROVE  Message(r) # Broken /\ BodyOf(r, Message(r)) = Body(r, E)
<1> DEFINE off == 32 + CallbackLength(r)
           start == MsgInfoSize(r) + 32 + CallbackLength(r)
           big == AppendedLoad(r)
           types == r.params
           args == Args(r)
           x == Uncounted(r)
           y == HeaderRefs(r)
           h == Header(r)
<1>1. types \in Seq(TypeSizes) /\ n = Len(types) /\ n \in Nat /\ \A i \in 1 .. n : Fitting(args[i], types[i])
  BY ArgsFacts
<1>2. /\ IsSlice(h) /\ IsSlice(MsgInfo(r)) /\ Bits(h) = Bits(MsgInfo(r)) + 1 /\ Len(h.refs) = Len(MsgInfo(r).refs)
      /\ Len(h.refs) = y /\ y \in Nat /\ y <= 2 /\ Bits(h) <= MsgInfoSize(r) + x
      /\ MsgInfoSize(r) \in Nat /\ MsgInfoSize(r) <= 827 /\ x \in Nat
  BY HeaderFacts
<1>3. off \in Nat /\ start \in Nat /\ off <= start /\ start <= 1023 /\ CellBits = 1023
  BY <1>2 DEF CallbackLength, CellBits
<1>4. big = doLoadNextCell(types, start, 0) /\ load = doLoadNextCell(types, off, 0)
  BY DEF AppendedLoad
<1>5. (Bits(h) + 32) + CallbackLength(r) <= start + x
  <2>1. Bits(h) \in Nat /\ CallbackLength(r) \in Nat
    BY <1>2, LengthsFacts DEF CallbackLength
  <2> HIDE DEF h, x
  <2> QED BY <1>2, <2>1
<1>6. RestFits(types, 1, start, 0) => RestFits(types, 1, start + x, y)
  BY UncountedFits
<1>7. IsEncoding(E, args, load, n) /\ countOfCreatedBuilders(big) = 0
  BY DEF doAppend
<1> HIDE DEF off, start, types, big, x, y, h
<1>8. PICK pb, pr : pb[0] = start /\ pr[0] = 0 /\ Positions(types, big, pb, pr, n)
  BY <1>1, <1>3, <1>4, PositionFacts
<1>9. PICK qb, qr : qb[0] = off /\ qr[0] = 0 /\ Positions(types, load, qb, qr, n)
  BY <1>1, <1>3, <1>4, PositionFacts
<1>10. \A i \in 1 .. n : big[i] = FALSE
  <2>1. \A i \in 1 .. n : big[i] \in BOOLEAN
    BY <1>8, LoadsAreBoolean
  <2>2. big = [i \in 1 .. n |-> big[i]]
    BY <1>8 DEF Positions
  <2> QED BY <1>1, <1>7, <2>1, <2>2, NothingCreated
<1>11. RestFits(types, 1, start, 0)
  <2>1. pb[0] <= CellBits /\ pr[0] <= 4
    BY <1>3, <1>8
  <2>2. RestFits(types, 1, pb[0], pr[0])
    BY <1>1, <1>8, <1>10, <2>1, EverythingFits
  <2> QED BY <1>8, <2>2
<1>12. \A i \in 1 .. n : load[i] = FALSE
  <2>1. sufBits(types, 1) \in Nat
    <3>1. 1 \in 1 .. n + 1
      BY <1>1
    <3> QED BY <1>1, <3>1, SufBits
  <2> DEFINE B == sufBits(types, 1)
             R == sufRefs(types, 1)
  <2>2. start + B <= CellBits /\ 0 + R <= 4
    BY <1>11 DEF RestFits
  <2>3. B \in Nat
    BY <2>1
  <2> HIDE DEF B, R
  <2>4. off + B <= CellBits /\ 0 + R <= 4
    BY <1>3, <2>2, <2>3
  <2>5. RestFits(types, 1, qb[0], qr[0])
    BY <1>9, <2>4 DEF RestFits, B, R
  <2> QED BY <1>1, <1>9, <2>5, NothingBegins
<1>13. big = load
  <2>1. big = [i \in 1 .. n |-> big[i]] /\ load = [i \in 1 .. n |-> load[i]]
    BY <1>8, <1>9 DEF Positions
  <2> QED BY <1>10, <1>12, <2>1
<1> DEFINE sb == [i \in 0 .. n |-> pb[i] + x]
           sr == [i \in 0 .. n |-> pr[i] + y]
<1>14. HasRoom(args, load, n, sb, sr)
  <2> HIDE DEF args
  <2>1. RestFits(types, 1, pb[0] + x, pr[0] + y)
    <3>1. pr[0] + y = y
      BY <1>2, <1>8
    <3> QED BY <1>6, <1>8, <1>11, <3>1
  <2>2. Positions(types, load, pb, pr, n)
    BY <1>8, <1>13
  <2>3. RoomLeft(types, n, load, pb, pr, args, x, y)
    BY <1>1, <1>2, <1>12, <2>1, <2>2 DEF RoomLeft
  <2> QED BY <2>3, MoreRoom
<1>15. sb[0] = start + x /\ sr[0] = y
  BY <1>1, <1>2, <1>8
<1> HIDE DEF sb, sr
<1>16. \A i \in 1 .. n : load[i] \in BOOLEAN
  BY <1>12
<1>17. createMsgBody(r, h, load) = Cat(h, Body(r, E)) /\ IsSlice(E[0])
  <2>1. Bits(h) + 32 + CallbackLength(r) <= sb[0] /\ Len(h.refs) <= sr[0] /\ sr[0] <= 4
    BY <1>2, <1>5, <1>15
  <2>2. n = Len(r.params) /\ IsEncoding(E, Args(r), load, n) /\ HasRoom(Args(r), load, n, sb, sr)
    BY <1>14
  <2> QED BY <1>2, <1>16, <2>1, <2>2, BodyIsAppended
<1>18. IsSlice(Body(r, E))
  BY <1>17, BodyFacts
<1>19. Message(r) = Cat(h, Body(r, E))
  <2>1. Message(r) = createMsgBody(r, h, big)
    BY DEF Message, big, h, Header
  <2> QED BY <1>13, <1>17, <2>1
<1>20. Message(r) # Broken
  BY <1>19, NotBroken DEF Cat
<1>21. BodyOf(r, Message(r)) = Body(r, E)
  <2>1. BodyOf(r, Message(r)) = Cut(Message(r), Bits(h), Len(h.refs)).back
    BY <1>2 DEF BodyOf
  <2>2. Cut(Cat(h, Body(r, E)), Bits(h), Len(h.refs)) = [front |-> h, back |-> Body(r, E)]
    BY <1>2, <1>18, CutFront
  <2> QED BY <1>19, <2>1, <2>2
<1> QED BY <1>20, <1>21

(* Otherwise the body is the last reference of the message.                 *)
LEMMA BodyBesideHeader ==
    ASSUME NEW r, IsRequest(r), r.kind # "body", ~doAppend(r), NEW n, n = Len(r.params), NEW load, NEW E,
           load = doLoadNextCell(r.params, 32 + CallbackLength(r), 0), IsEncoding(E, Args(r), load, n)
    PROVE  Message(r) # Broken /\ BodyOf(r, Message(r)) = Body(r, E)
<1> DEFINE h == Header(r)
           c == Body(r, E)
<1>1. createMsgBody(r, Empty, load) = c /\ IsSlice(E[0])
  BY BodyInItsOwnCell
<1>2. c # Broken
  BY <1>1, BodyFacts
<1>3. IsSlice(h) /\ Bits(h) <= CellBits /\ Len(h.refs) <= 3 /\ Len(h.refs) \in Nat
  <2>1. /\ IsSlice(h) /\ Len(h.refs) = HeaderRefs(r) /\ HeaderRefs(r) <= 2 /\ HeaderRefs(r) \in Nat
        /\ Bits(h) <= MsgInfoSize(r) + Uncounted(r) /\ MsgInfoSize(r) \in Nat /\ MsgInfoSize(r) <= 827 /\ Uncounted(r) \in {0, 1}
    BY HeaderFacts
  <2>2. Bits(h) \in Nat /\ CellBits = 1023
    BY <2>1, LengthsFacts DEF CellBits
  <2> HIDE DEF h
  <2> QED BY <2>1, <2>2
<1>4. Message(r) = StoreRef(h, c)
  BY <1>1 DEF Message, Header
<1>5. BodyOf(r, Message(r)) = Message(r).refs[Len(Message(r).refs)].to
  BY DEF BodyOf
<1> HIDE DEF h, c
<1>6. StoreRef(h, c) = Cat(h, OneCell(c))
  BY <1>2, <1>3, StoreRefIs
<1>7. Message(r) = [bits |-> h.bits \o <<>>, refs |-> h.refs \o <<[to |-> c]>>]
  BY <1>4, <1>6 DEF Cat, OneCell
<1> DEFINE refs == h.refs \o <<[to |-> c]>>
<1>8. Message(r).refs = refs /\ Message(r) # Broken
  BY <1>7, NotBroken
<1>9. Len(refs) = Len(h.refs) + 1 /\ refs[Len(h.refs) + 1] = [to |-> c]
  <2> DEFINE one == <<[to |-> c]>>
             a == h.refs
             k == Len(a)
  <2>1. IsList(one) /\ Len(one) = 1 /\ one[1] = [to |-> c]
    BY OneList
  <2>2. IsList(a) /\ k \in Nat /\ refs = a \o one
    BY <1>3 DEF IsSlice
  <2> HIDE DEF one, a, refs
  <2>3. /\ Len(a \o one) = Len(a) + Len(one)
        /\ \A j \in 1 .. Len(a) + Len(one) : (a \o one)[j] = IF j <= Len(a) THEN a[j] ELSE one[j - Len(a)]
    BY <2>1, <2>2, CatList
  <2> HIDE DEF k
  <2>4. /\ Len(a \o one) = k + 1
        /\ \A j \in 1 .. k + 1 : (a \o one)[j] = IF j <= k THEN a[j] ELSE one[j - k]
    BY <2>1, <2>3 DEF k
  <2>5. k + 1 \in 1 .. k + 1 /\ ~(k + 1 <= k) /\ (k + 1) - k = 1
    BY <2>2
  <2>6. (a \o one)[k + 1] = one[1]
    BY <2>4, <2>5
  <2> QED BY <2>1, <2>2, <2>4, <2>6 DEF a, k
<1> HIDE DEF refs
<1>10. Message(r).refs[Len(Message(r).refs)] = [to |-> c]
  BY <1>8, <1>9
<1>11. BodyOf(r, Message(r)) = c
  BY <1>5, <1>10
<1> QED BY <1>8, <1>11 DEF c

-----------------------------------------------------------------------------
(* A message is built for every request, and its body is read.              *)
LEMMA BuiltAndRead ==
    ASSUME NEW r, IsRequest(r), NEW m, NEW b, m = (IF r.kind = "body" THEN EncodedBody(r) ELSE Message(r)),
           b = (IF r.kind = "body" THEN m ELSE BodyOf(r, m))
    PROVE  m # Broken /\ decodePublicFunctionParameters(r, b) = [values |-> Args(r), rest |-> Empty]
<1> DEFINE n == Len(r.params)
           load == doLoadNextCell(r.params, 32 + CallbackLength(r), 0)
<1>1. n \in Nat /\ n = Len(r.params)
  BY ArgsFacts
<1>2. load = doLoadNextCell(r.params, offsetInternalFunction(r), 0)
  BY DEF offsetInternalFunction
<1>3. load = doLoadNextCell(r.params, 32 + CallbackLength(r), 0)
  OBVIOUS
<1> HIDE DEF n
<1>4. PICK E : IsEncoding(E, Args(r), load, n)
  <2> DEFINE args == Args(r)
  <2> HIDE DEF args, load
  <2>1. \E E : IsEncoding(E, args, load, n)
    BY <1>1, EncodingExists
  <2> QED BY <2>1 DEF args
<1> HIDE DEF load
<1>5. createMsgBody(r, Empty, load) = Body(r, E) /\ IsSlice(E[0]) /\ \A i \in 1 .. n : load[i] \in BOOLEAN
  BY <1>1, <1>3, <1>4, BodyInItsOwnCell
<1>6. m # Broken /\ b = Body(r, E)
  <2>1. CASE r.kind = "body"
    <3>1. ~r.responsible
      BY <2>1 DEF IsRequest, Counted
    <3>2. 32 + CallbackLength(r) = 32
      BY <3>1 DEF CallbackLength
    <3>3. EncodedBody(r) = createMsgBody(r, Empty, load)
      BY <1>3, <3>2 DEF EncodedBody
    <3>4. Body(r, E) # Broken
      BY <1>5, BodyFacts
    <3> QED BY <1>5, <2>1, <3>3, <3>4
  <2>2. CASE r.kind # "body" /\ doAppend(r)
    <3>1. Message(r) # Broken /\ BodyOf(r, Message(r)) = Body(r, E)
      BY <1>1, <1>3, <1>4, <2>2, BodyBehindHeader
    <3> QED BY <2>2, <3>1
  <2>3. CASE r.kind # "body" /\ ~doAppend(r)
    <3>1. Message(r) # Broken /\ BodyOf(r, Message(r)) = Body(r, E)
      BY <1>1, <1>3, <1>4, <2>3, BodyBesideHeader
    <3> QED BY <2>3, <3>1
  <2> QED BY <2>1, <2>2, <2>3
<1>7. decodePublicFunctionParameters(r, Body(r, E)) = [values |-> Args(r), rest |-> Empty]
  BY <1>1, <1>2, <1>4, <1>5, BodyIsRead
<1> QED BY <1>6, <1>7

(***************************************************************************)
(* No request breaks: what is sent can be read, what is read are the       *)
(* arguments.                                                              *)
(***************************************************************************)
Sound ==
    /\ request \in Requests /\ stage \in {"new", "sent", "read"}
    /\ stage = "sent" =>
          decodePublicFunctionParameters(request, body) = [values |-> Args(request), rest |-> Empty]
    /\ stage = "read" => got = Args(request)

(* It holds at first ...                                                    *)
LEMMA SoundAtFirst == Init => Sound
BY DEF Init, Sound

(* ... after every Send, as the request meets RequestsAssumption ...        *)
LEMMA SoundAfterSend == Sound /\ Send => Sound'
<1> SUFFICES ASSUME Sound, Send PROVE Sound'
  OBVIOUS
<1> DEFINE m == IF request.kind = "body" THEN EncodedBody(request) ELSE Message(request)
           b == IF request.kind = "body" THEN m ELSE BodyOf(request, m)
<1>1. request \in Requests /\ request' = request
  BY DEF Sound, Send
<1>2. IsRequest(request)
  BY <1>1, RequestsAssumption
<1>3. m # Broken /\ decodePublicFunctionParameters(request, b) = [values |-> Args(request), rest |-> Empty]
  BY <1>2, BuiltAndRead
<1>4. stage' = "sent" /\ body' = b
  BY <1>3 DEF Send
<1> HIDE DEF m, b
<1> QED BY <1>1, <1>3, <1>4 DEF Sound

(* ... and after every Receive.                                             *)
LEMMA SoundAfterReceive == Sound /\ Receive => Sound'
<1> SUFFICES ASSUME Sound, Receive PROVE Sound'
  OBVIOUS
<1> DEFINE d == decodePublicFunctionParameters(request, body)
<1>1. request \in Requests /\ request' = request /\ stage = "sent"
  BY DEF Sound, Receive
<1>2. d = [values |-> Args(request), rest |-> Empty]
  BY <1>1 DEF Sound
<1>3. Empty # Broken /\ Ended(Empty)
  BY NotBroken DEF Empty, Ended
<1>4. got' = d.values /\ stage' = (IF d.rest = Broken \/ ~Ended(d.rest) THEN "broken" ELSE "read")
  BY DEF Receive
<1> HIDE DEF d
<1>5. got' = Args(request) /\ stage' = "read"
  BY <1>2, <1>3, <1>4
<1> QED BY <1>1, <1>5 DEF Sound

(* So it always holds.                                                      *)
LEMMA SoundAlways == Spec => []Sound
<1>1. Sound /\ Over => Sound'
  BY DEF Sound, Over, vars
<1>2. Sound /\ UNCHANGED vars => Sound'
  BY DEF Sound, vars
<1>3. Sound /\ [Next]_vars => Sound'
  BY <1>1, <1>2, SoundAfterSend, SoundAfterReceive DEF Next
<1> QED BY <1>3, SoundAtFirst, PTL DEF Spec

(* Every request leads to a message.                                        *)
THEOREM MessageBuilt == Spec => []MessageIsBuilt
<1>1. Sound => MessageIsBuilt
  BY DEF Sound, MessageIsBuilt
<1> QED BY <1>1, SoundAlways, PTL

(* The receiver reads what the sender wrote.                                *)
THEOREM RoundTrip == Spec => []ReceivedIsSent
<1>1. Sound => ReceivedIsSent
  BY DEF Sound, ReceivedIsSent
<1> QED BY <1>1, SoundAlways, PTL
=============================================================================
