-------------------------------- MODULE AbiCells --------------------------------
(***************************************************************************)
(* Values in chains of cells.  A cell holds at most 1023 bits and four     *)
(* references.  Encoder and decoder of a list of parameters or of state    *)
(* variables both ask AbiV2Position, a computation of the compiler from    *)
(* the maximal sizes of the types, before which values the next cell of    *)
(* the chain begins; the code they emit then has no choices left.          *)
(*                                                                         *)
(* A type is known by its sizes.  A value of a type has the size it really *)
(* takes.  Bits and references of a slice are two queues: a value of the   *)
(* queue of bits knows how many references follow for it.  Reading a value *)
(* as one of another type, or the next cell of the chain as a value, would *)
(* give garbage: here it gives Broken, as do overflow and underflow.       *)
(***************************************************************************)
EXTENDS Integers, Sequences, FiniteSets

CellBits == 1023
CellRefs == 4

Type(bits, refs, fixedSize, fixedRefs) ==
    [bits |-> bits, refs |-> refs, fixedSize |-> fixedSize, fixedRefs |-> fixedSize \/ fixedRefs]

(* ABITypeSize.                                                             *)
Uint(n)     == Type(n, 0, TRUE, TRUE)
Address     == Type(591, 0, FALSE, TRUE)
AddressStd  == Type(2 + (1 + 5 + 30) + 8 + 256, 0, FALSE, FALSE)
Cell        == Type(0, 1, TRUE, TRUE)
String      == Type(0, 1, FALSE, FALSE)
Array       == Type(32 + 1, 1, FALSE, FALSE)
Mapping     == Type(1, 1, FALSE, FALSE)
isSmallOptional(t) == 1 + t.bits <= CellBits /\ t.refs <= 3
Optional(t) == IF isSmallOptional(t) THEN Type(1 + t.bits, t.refs, FALSE, FALSE) ELSE Type(1, 1, FALSE, FALSE)

(* The types that a list consists of when structures are unrolled: one      *)
(* value fits into a cell beside a reference.                               *)
TypeSizes == [bits : 0 .. CellBits, refs : 0 .. 3, fixedSize : BOOLEAN, fixedRefs : BOOLEAN]
IsType(t) == t \in TypeSizes /\ (t.bits = 0 => t \in {Cell, String})

(* The sizes that values of a type may take: the default value's and the    *)
(* greatest one.                                                            *)
MinSize(t) ==
    CASE t.fixedSize   -> [bits |-> t.bits, refs |-> t.refs]
      [] t = String    -> [bits |-> 0, refs |-> 1]
      [] t = Array     -> [bits |-> 33, refs |-> 0]
      [] t \in {Address, AddressStd} -> [bits |-> 2, refs |-> 0]
      [] OTHER         -> [bits |-> 1, refs |-> 0]
MaxSize(t) == [bits |-> t.bits, refs |-> t.refs]

(* Two values of every type, told apart by tag and by their place "of" in   *)
(* the list of types: the default one and a large one.                      *)
Value(t, of, tag) ==
    [type |-> t, of |-> of, tag |-> tag, size |-> IF tag = 0 THEN MinSize(t) ELSE MaxSize(t)]

-----------------------------------------------------------------------------
(* Slices and builders.                                                     *)

Broken == [broken |-> TRUE]
Empty == [bits |-> <<>>, refs |-> <<>>]

(* The sum of a list of numbers.                                            *)
Total(list) ==
    LET sum[n \in 0 .. Len(list)] == IF n = 0 THEN 0 ELSE sum[n - 1] + list[n]
    IN  sum[Len(list)]

Bits(b) == Total([k \in 1 .. Len(b.bits) |-> b.bits[k].size.bits])
Full(b) == Bits(b) > CellBits \/ Len(b.refs) > CellRefs
Checked(b) == IF b = Broken \/ Full(b) THEN Broken ELSE b

RefsOf(v) == [k \in 1 .. v.size.refs |-> [to |-> v]]

(* ST...: a value behind what the builder holds.                            *)
Store(b, v) ==
    IF b = Broken THEN Broken
    ELSE Checked([bits |-> IF v.size.bits = 0 THEN b.bits ELSE Append(b.bits, v),
                  refs |-> b.refs \o RefsOf(v)])

(* STSLICE and STBREFR.                                                     *)
StoreSlice(b, s) ==
    IF Broken \in {b, s} THEN Broken ELSE Checked([bits |-> b.bits \o s.bits, refs |-> b.refs \o s.refs])
StoreRef(b, c) ==
    IF Broken \in {b, c} THEN Broken ELSE Checked([b EXCEPT !.refs = Append(@, [to |-> c])])

isCell(x) == DOMAIN x = DOMAIN Empty

(* LD...: the value at the front, read as one of type t.  All types have    *)
(* bits except those that are one reference.                                *)
Foremost(t, s) ==
    IF t.bits > 0
    THEN IF s.bits = <<>> THEN Broken ELSE Head(s.bits)
    ELSE IF s.refs = <<>> \/ isCell(Head(s.refs).to) THEN Broken ELSE Head(s.refs).to

Load(t, s) ==
    LET v == IF s = Broken THEN Broken ELSE Foremost(t, s)
    IN  IF v = Broken THEN Broken
        ELSE IF v.type # t \/ Len(s.refs) < v.size.refs \/ SubSeq(s.refs, 1, v.size.refs) # RefsOf(v) THEN Broken
        ELSE [value |-> v,
              rest  |-> [bits |-> IF v.size.bits = 0 THEN s.bits ELSE Tail(s.bits),
                         refs |-> SubSeq(s.refs, v.size.refs + 1, Len(s.refs))]]

(* LDREFRTOS and LDREF CTOS: the first reference, which must be the next    *)
(* cell of the chain.                                                       *)
NextCell(s) ==
    IF s = Broken THEN Broken
    ELSE IF s.refs = <<>> \/ ~isCell(Head(s.refs).to) THEN Broken
    ELSE Head(s.refs).to
WithoutRef(s) == IF s = Broken THEN Broken ELSE [s EXCEPT !.refs = Tail(@)]

(* loadNextSlice: LDREF, ENDS, CTOS.                                        *)
loadNextSlice(s) ==
    IF s = Broken \/ s.bits # <<>> \/ Len(s.refs) # 1 THEN Broken ELSE NextCell(s)

(* ENDS.                                                                    *)
Ended(s) == s = Empty

(* The values at the front that take exactly the given bits and references. *)
Cut(s, bits, refs) ==
    LET ends == {k \in 0 .. Len(s.bits) : Bits([s EXCEPT !.bits = SubSeq(@, 1, k)]) = bits}
    IN  IF ends = {} \/ refs > Len(s.refs) THEN Broken
        ELSE LET k == CHOOSE k \in ends : TRUE
             IN  [front |-> [bits |-> SubSeq(s.bits, 1, k), refs |-> SubSeq(s.refs, 1, refs)],
                  back  |-> [bits |-> SubSeq(s.bits, k + 1, Len(s.bits)),
                             refs |-> SubSeq(s.refs, refs + 1, Len(s.refs))]]

-----------------------------------------------------------------------------
(* AbiV2Position.  A value stays in the cell if all that follows fits;      *)
(* otherwise one reference is kept free for the next cell.                  *)

(* Summed up from the last type to the i-th.                                *)
sufBits(types, i) == Total([k \in 1 .. (Len(types) + 1 - i) |-> types[Len(types) + 1 - k].bits])
sufRefs(types, i) == Total([k \in 1 .. (Len(types) + 1 - i) |-> types[Len(types) + 1 - k].refs])

(* Everything left fits into this cell.                                     *)
RestFits(types, i, bits, refs) ==
    bits + sufBits(types, i) <= CellBits /\ refs + sufRefs(types, i) <= 4

(* mutant: the reference to the next cell is not kept free *)
NeedsCell_NoSpare(bits, refs) == bits > CellBits \/ refs > 4

(* The next value needs the next cell.                                      *)
NeedsCell(bits, refs) == bits > CellBits \/ refs >= 4

(* The i-th value: what the cell is filled with then, before which values a *)
(* cell begins, and whether the assertions hold.                            *)
Placed(types, i, st) ==
    LET t    == types[i]
        fits == RestFits(types, i, st.bits, st.refs)
        new  == ~fits /\ NeedsCell(st.bits + t.bits, st.refs + t.refs)
        bits == t.bits + (IF new THEN 0 ELSE st.bits)
        refs == t.refs + (IF new THEN 0 ELSE st.refs)
    IN  [bits |-> bits, refs |-> refs, load |-> Append(st.load, new),
         ok |-> st.ok /\ bits <= CellBits /\ refs <= (IF fits THEN 4 ELSE 3)]

AbiV2Position(types, bitOffset, refOffset) ==
    LET pos[n \in 0 .. Len(types)] ==
            IF n = 0 THEN [bits |-> bitOffset, refs |-> refOffset, load |-> <<>>, ok |-> TRUE]
            ELSE Placed(types, n, pos[n - 1])
    IN  pos[Len(types)]

doLoadNextCell(types, bitOffset, refOffset) == AbiV2Position(types, bitOffset, refOffset).load

countOfCreatedBuilders(load) == Cardinality({i \in DOMAIN load : load[i]})

-----------------------------------------------------------------------------
(* encodeParameters: the values go into one builder after another.  Those   *)
(* that are full wait on the stack under the last.                          *)
Put(bs, new, v) ==
    IF new THEN [full |-> Append(bs.full, bs.last), last |-> Store(Empty, v)]
    ELSE [full |-> bs.full, last |-> Store(bs.last, v)]

Builders(values, load, builder) ==
    LET bs[n \in 0 .. Len(values)] ==
            IF n = 0 THEN [full |-> <<>>, last |-> builder]
            ELSE Put(bs[n - 1], load[n], values[n])
    IN  bs[Len(values)]

(* STBREFR, until one builder is left.                                      *)
Chained(full, last) ==
    LET c[n \in 0 .. Len(full)] ==
            IF n = 0 THEN last ELSE StoreRef(full[Len(full) + 1 - n], c[n - 1])
    IN  c[Len(full)]

encodeParameters(values, load, builder) ==
    LET bs == Builders(values, load, builder) IN Chained(bs.full, bs.last)

(* The unpacked state variables go into the last builder.                   *)
encodeWithUnpacked(values, load, builder, slice) ==
    LET bs == Builders(values, load, builder) IN Chained(bs.full, StoreSlice(bs.last, slice))

(* decodeParameters: a value is read, in the next cell if one begins there. *)
Read(t, new, st) ==
    LET s == IF new THEN loadNextSlice(st.rest) ELSE st.rest
        l == Load(t, s)
    IN  IF l = Broken THEN [values |-> st.values, rest |-> Broken]
        ELSE [values |-> Append(st.values, l.value), rest |-> l.rest]

decodeParameters(types, load, slice) ==
    LET d[n \in 0 .. Len(types)] ==
            IF n = 0 THEN [values |-> <<>>, rest |-> slice]
            ELSE Read(types[n], load[n], d[n - 1])
    IN  d[Len(types)]
=============================================================================
