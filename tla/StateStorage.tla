------------------------------ MODULE StateStorage ------------------------------
(***************************************************************************)
(* The state variables of a contract in register c4 and in c7.             *)
(*                                                                         *)
(* Usual variables are decoded into c7 when a message comes and encoded    *)
(* when the transaction ends.  Unpacked variables stay behind as a slice,  *)
(* one element of c7: tvm.unpackData reads some of them out of it and      *)
(* tvm.packData builds a new slice with some of them replaced, taking as   *)
(* few values out of the old one as possible.  All of that is decided at   *)
(* compile time by UnpackedCoderDecoder, from the same AbiV2Position.      *)
(*                                                                         *)
(* A variable is a list of types: the members of a structure, or one type; *)
(* wrapped says that it is of a user-defined value type.  Types and values *)
(* of all variables are numbered through, the members unrolled.            *)
(***************************************************************************)
EXTENDS AbiCells, SequencesExt

CONSTANT Contracts   \* [header : Seq(Type), usual : Seq(variable), unpacked : Seq(variable)]

VARIABLES contract,
          code,      \* what the compiler computed of it: types, positions
          tags,      \* the value each member has by the source program
          c4,        \* the persistent cell
          c7,        \* [usual : the values, slice : the unpacked variables]
          answer,    \* what the last unpackData asked for and got
          mode       \* "stored", "loaded", "broken" (exception) or "assert" (compiler)

vars == <<contract, code, tags, c4, c7, answer, mode>>

Var(types) == [types |-> types, wrapped |-> FALSE]
Wrapped(t) == [types |-> <<t>>, wrapped |-> TRUE]

unroll(variables) == FlattenSeq([k \in 1 .. Len(variables) |-> variables[k].types])

AllVars == contract.usual \o contract.unpacked
getOffsetC4(c) == sufBits(c.header, 1)

(* The position of all variables, used for the unpacked ones, and the       *)
(* position that c4_to_c7 and c7_to_c4 use.  The first member of an unpacked*)
(* variable, and the variable of each member.                               *)
Compiled(c) ==
    LET all   == unroll(c.usual \o c.unpacked)
        usual == unroll(c.usual)
        vs    == c.usual \o c.unpacked
        first[v \in 1 .. (Len(vs) + 1)] == IF v = 1 THEN 1 ELSE first[v - 1] + Len(vs[v - 1].types)
    IN  [types      |-> all,
         load       |-> doLoadNextCell(all, getOffsetC4(c), 0),
         usualTypes |-> usual,
         usualLoad  |-> doLoadNextCell(usual, getOffsetC4(c), 0),
         first      |-> first]

types == code.types
load == code.load
UsualTypes == code.usualTypes
UsualLoad == code.usualLoad

Current(j) == Value(types[j], j, tags[j])
Header == [k \in 1 .. Len(contract.header) |-> Value(contract.header[k], -k, 0)]
HasUnpacked == contract.unpacked # <<>>

startIndexType == Len(UsualTypes) + 1
FirstOf(v) == code.first[v]
VarOf(j) == CHOOSE v \in 1 .. Len(AllVars) : j \in FirstOf(v) .. (FirstOf(v + 1) - 1)

-----------------------------------------------------------------------------
(* default_data_cell, c4_to_c7 and c7_to_c4.                                *)

generateDefaultC4(c) ==
    LET all == c.header \o unroll(c.usual \o c.unpacked)
        n   == Len(c.header)
    IN  encodeParameters([i \in 1 .. Len(all) |-> Value(all[i], IF i <= n THEN -i ELSE i - n, 0)],
                         doLoadNextCell(all, 0, 0), Empty)

c4_to_c7 ==
    LET h == decodeParameters(contract.header, [k \in 1 .. Len(contract.header) |-> FALSE], c4)
    IN  decodeParameters(UsualTypes, UsualLoad, h.rest)

c7_to_c4 ==
    LET b == encodeParameters(Header, [k \in 1 .. Len(contract.header) |-> FALSE], Empty)
    IN  IF HasUnpacked
        THEN encodeWithUnpacked(c7.usual, UsualLoad, b, c7.slice)
        ELSE encodeParameters(c7.usual, UsualLoad, b)

-----------------------------------------------------------------------------
(* UnpackedCoderDecoder, for the set of members that are needed.            *)

lastIndexType(needed) == CHOOSE j \in needed : \A k \in needed : k <= j

(* Where the run of members ends that lie in one cell with member i and are *)
(* all needed or all not.                                                   *)
to(needed, i) ==
    LET last == lastIndexType(needed)
    IN  CHOOSE j \in (i + 1) .. (last + 1) :
            /\ j = last + 1 \/ load[j] \/ (j \in needed) # (i \in needed)
            /\ \A k \in (i + 1) .. (j - 1) : ~load[k] /\ (k \in needed) = (i \in needed)

fixedRefs(i, j) == \A k \in i .. (j - 1) : types[k].fixedRefs
RefsIn(i, j) == sufRefs(types, i) - sufRefs(types, j)
BitsIn(i, j) == sufBits(types, i) - sufBits(types, j)

(* skipTypes: values of fixed size are cut off, the others loaded.          *)
SkipType(t, s) ==
    IF s = Broken THEN Broken
    ELSE IF t.fixedSize
    THEN LET c == Cut(s, t.bits, t.refs) IN IF c = Broken THEN Broken ELSE c.back
    ELSE LET l == Load(t, s) IN IF l = Broken THEN Broken ELSE l.rest

skipTypes(i, j, slice) ==
    LET s[n \in 0 .. (j - i)] == IF n = 0 THEN slice ELSE SkipType(types[i + n - 1], s[n - 1])
    IN  s[j - i]

(* PLDREFIDX, and SCUTLAST of the last reference.                           *)
RefAt(s, n) ==
    IF s = Broken \/ n + 1 \notin 1 .. Len(s.refs) THEN Broken
    ELSE NextCell([Empty EXCEPT !.refs = <<s.refs[n + 1]>>])

skipTypesAndLoadCellIfNeeded(needed, i, slice) ==
    LET next == to(needed, i)
    IN  IF next <= lastIndexType(needed) /\ load[next]
        THEN CASE fixedRefs(i, next) -> RefAt(slice, RefsIn(i, next))
               [] ~fixedRefs(i, next) /\ next = i + 1 -> RefAt(skipTypes(i, next, slice), 0)
               [] OTHER -> IF slice = Broken THEN Broken ELSE RefAt(slice, Len(slice.refs) - 1)
        ELSE skipTypes(i, next, slice)

(* The loops over the members: step(_) takes a state with its index i.      *)
Iterate(step(_), first, last) ==
    LET st[k \in 0 .. last] ==
            IF k = 0 THEN first ELSE LET s == st[k - 1] IN IF s.i > last THEN s ELSE step(s)
    IN  st[last]

FirstSlice == IF load[startIndexType] THEN NextCell(c7.slice) ELSE c7.slice

(* unpackedData: the slice walks over the members up to the last needed.    *)
EndOfVar(i, last) == IF FirstOf(VarOf(i) + 1) <= last THEN FirstOf(VarOf(i) + 1) ELSE last + 1

(* mutant: a variable is put under those before it *)
UnpackStep_Under(needed, st) ==
    LET last == lastIndexType(needed)
        next == EndOfVar(st.i, last)
        d    == decodeParameters(SubSeq(types, st.i, next - 1),
                                 [k \in 1 .. (next - st.i) |-> k > 1 /\ load[st.i + k - 1]], st.slice)
    IN  IF st.i \in needed
        THEN [i |-> next, out |-> d.values \o st.out,
              slice |-> IF next <= last /\ load[next] THEN NextCell(d.rest) ELSE d.rest]
        ELSE [st EXCEPT !.i = to(needed, st.i), !.slice = skipTypesAndLoadCellIfNeeded(needed, st.i, @)]

UnpackStep(needed, st) ==
    LET last == lastIndexType(needed)
        next == EndOfVar(st.i, last)
        d    == decodeParameters(SubSeq(types, st.i, next - 1),
                                 [k \in 1 .. (next - st.i) |-> k > 1 /\ load[st.i + k - 1]], st.slice)
    IN  IF st.i \in needed
        THEN [i |-> next, out |-> st.out \o d.values,
              slice |-> IF next <= last /\ load[next] THEN NextCell(d.rest) ELSE d.rest]
        ELSE [st EXCEPT !.i = to(needed, st.i), !.slice = skipTypesAndLoadCellIfNeeded(needed, st.i, @)]

unpackedData(needed) ==
    Iterate(LAMBDA st : UnpackStep(needed, st),
            [i |-> startIndexType, out |-> <<>>, slice |-> FirstSlice], lastIndexType(needed))

(* packData, first half.  The old slice is taken apart into what is kept    *)
(* (slices and values) while the new values are put between.  cur is        *)
(* m_curTypeIndex of the position, which asserts every type it skips.       *)
Skipped(st, i, j) ==
    [st EXCEPT !.cur = @ + (j - i),
               !.ok  = @ /\ \A k \in i .. (j - 1) :
                               st.cur + (k - i) <= Len(types) /\ types[st.cur + (k - i)] = types[k]]

SlicePart(s) == <<[slice |-> s]>>
ValuePart(v) == <<[slice |-> Store(Empty, v)]>>

EndOfNeeded(needed, i) == CHOOSE j \in (i + 1) .. (lastIndexType(needed) + 1) :
                              j \notin needed /\ \A k \in i .. (j - 1) : k \in needed

(* Members that are not replaced and that no cell begins behind: runs of    *)
(* fixed size stay together.                                                *)
EndOfRun(i, j) == CHOOSE k \in (i + 1) .. j :
                      /\ k = j \/ ~types[i].fixedSize \/ ~types[k].fixedSize
                      /\ \A m \in (i + 1) .. (k - 1) : types[i].fixedSize /\ types[m].fixedSize

KeepRun(st, end) ==
    LET next == EndOfRun(st.i, end)
        s == st.slice
    IN  IF s = Broken THEN [st EXCEPT !.i = next]
        ELSE IF types[st.i].fixedSize
        THEN LET c == Cut(s, BitsIn(st.i, next), RefsIn(st.i, next))
             IN  [Skipped(st, st.i, next) EXCEPT
                     !.i = next, !.slice = IF c = Broken THEN Broken ELSE c.back,
                     !.parts = IF c = Broken THEN @ ELSE @ \o SlicePart(c.front)]
        ELSE LET l == Load(types[st.i], s)
             IN  [Skipped(st, st.i, next) EXCEPT
                     !.i = next, !.slice = IF l = Broken THEN Broken ELSE l.rest,
                     !.parts = IF l = Broken THEN @ ELSE @ \o ValuePart(l.value)]

(* mutant: a single old value is left in its place *)
ReplaceStep_Old(needed, new, st) ==
    LET next == EndOfNeeded(needed, st.i)
        news == [k \in 1 .. (next - st.i) |-> [value |-> new[st.i + k - 1]]]
        one  == next = st.i + 1 /\ (next > lastIndexType(needed) \/ ~load[next])
        l    == Load(types[st.i], st.slice)
        skip == Iterate(LAMBDA s : [Skipped(s, s.i, to(needed, s.i)) EXCEPT
                                        !.i = to(needed, s.i),
                                        !.slice = skipTypesAndLoadCellIfNeeded(needed, s.i, @)],
                        st, next - 1)
    IN  IF one
        THEN [st EXCEPT !.i = next, !.slice = IF l = Broken THEN Broken ELSE l.rest, !.parts = @ \o (IF l = Broken THEN <<>> ELSE ValuePart(l.value))]
        ELSE [skip EXCEPT !.parts = @ \o news]

ReplaceStep(needed, new, st) ==
    LET next == EndOfNeeded(needed, st.i)
        news == [k \in 1 .. (next - st.i) |-> [value |-> new[st.i + k - 1]]]
        one  == next = st.i + 1 /\ (next > lastIndexType(needed) \/ ~load[next])
        l    == Load(types[st.i], st.slice)
        skip == Iterate(LAMBDA s : [Skipped(s, s.i, to(needed, s.i)) EXCEPT
                                        !.i = to(needed, s.i),
                                        !.slice = skipTypesAndLoadCellIfNeeded(needed, s.i, @)],
                        st, next - 1)
    IN  IF one
        THEN [st EXCEPT !.i = next, !.slice = IF l = Broken THEN Broken ELSE l.rest, !.parts = @ \o news]
        ELSE [skip EXCEPT !.parts = @ \o news]

(* All the rest of a cell is kept: its last reference is the next cell.     *)
KeepCellStep(needed, st) ==
    LET next == to(needed, st.i)
        s    == st.slice
        n    == IF s = Broken THEN 0 ELSE Len(s.refs)
        zero == fixedRefs(st.i, next) /\ RefsIn(st.i, next) = 0
    IN  IF s = Broken \/ n = 0 THEN [st EXCEPT !.i = next, !.slice = Broken]
        ELSE [Skipped(st, st.i, next) EXCEPT
                 !.i = next,
                 !.slice = IF zero THEN NextCell(s) ELSE RefAt(s, n - 1),
                 !.parts = @ \o SlicePart(IF zero THEN WithoutRef(s) ELSE [s EXCEPT !.refs = SubSeq(@, 1, n - 1)])]

TakeApartStep(needed, new, st) ==
    CASE st.i \in needed -> ReplaceStep(needed, new, st)
      [] st.i \notin needed /\ load[to(needed, st.i)] -> KeepCellStep(needed, st)
      [] OTHER -> LET end == to(needed, st.i) IN Iterate(LAMBDA s : KeepRun(s, end), st, end - 1)

TakeApart(needed, new) ==
    Iterate(LAMBDA st : TakeApartStep(needed, new, st),
            [i |-> startIndexType, slice |-> FirstSlice, parts |-> <<>>, cur |-> startIndexType, ok |-> TRUE],
            lastIndexType(needed))

(* packData, second half: the parts go into builders, a new one where the   *)
(* position says so.  A new value of a user-defined value type meets the    *)
(* assertion that what differs from its type is a structure.                *)
PutPart(bs, part) ==
    [bs EXCEPT !.last = IF "value" \in DOMAIN part THEN Store(@, part.value) ELSE StoreSlice(@, part.slice)]
NewCell(bs, i) == IF load[i] THEN [full |-> Append(bs.full, bs.last), last |-> Empty] ELSE bs

RunsIn(i, j) ==
    IF load[j] THEN 1
    ELSE Cardinality({k \in i .. (j - 1) : ~types[k].fixedSize \/ k = i \/ ~types[k - 1].fixedSize})

PutParts(bs, parts, used, count) ==
    LET b[k \in 0 .. count] == IF k = 0 THEN bs ELSE PutPart(b[k - 1], parts[used + k])
    IN  b[count]

PutStep(needed, parts, st) ==
    LET next  == IF st.i \in needed THEN st.i + 1 ELSE to(needed, st.i)
        count == IF st.i \in needed THEN 1 ELSE RunsIn(st.i, next)
    IN  [i |-> next, used |-> st.used + count,
         bs |-> PutParts(NewCell(st.bs, st.i), parts, st.used, count)]

PutTogether(needed, t) ==
    LET st == Iterate(LAMBDA s : PutStep(needed, t.parts, s),
                      [i |-> startIndexType, used |-> 0, bs |-> [full |-> <<>>, last |-> Empty]], lastIndexType(needed))
    IN  Chained(st.bs.full, StoreSlice(st.bs.last, t.slice))

MembersOf(vs) == UNION {FirstOf(v) .. (FirstOf(v + 1) - 1) : v \in vs}
InOrder(members) ==
    LET s[j \in 0 .. Len(types)] ==
            IF j = 0 THEN <<>> ELSE IF j \in members THEN Append(s[j - 1], j) ELSE s[j - 1]
    IN  s[Len(types)]
UnpackedVars == (Len(contract.usual) + 1) .. Len(AllVars)

-----------------------------------------------------------------------------
Init ==
    /\ contract \in Contracts
    /\ code = Compiled(contract)
    /\ tags = [j \in 1 .. Len(types) |-> 0]
    /\ c4 = generateDefaultC4(contract)
    /\ c7 = [usual |-> <<>>, slice |-> Empty]
    /\ answer = [asked |-> <<>>, got |-> <<>>]
    /\ mode = "stored"

(* The contract is entered: without unpacked variables nothing may be left. *)
(* What c4 holds is not read again before it is replaced, and is forgotten. *)
LoadData ==
    /\ mode = "stored"
    /\ LET d == c4_to_c7
       IN  /\ c7' = [usual |-> d.values, slice |-> d.rest]
           /\ mode' = IF d.rest = Broken \/ (~HasUnpacked /\ ~Ended(d.rest)) THEN "broken" ELSE "loaded"
    /\ answer' = [asked |-> <<>>, got |-> <<>>]
    /\ c4' = Empty
    /\ UNCHANGED <<contract, code, tags>>

Assign(v, tag) ==
    /\ mode = "loaded"
    /\ LET members == FirstOf(v) .. (FirstOf(v + 1) - 1)
       IN  /\ tags' = [j \in DOMAIN tags |-> IF j \in members THEN tag ELSE tags[j]]
           /\ c7' = [c7 EXCEPT !.usual = [j \in DOMAIN @ |-> IF j \in members THEN Value(types[j], j, tag) ELSE @[j]]]
    /\ UNCHANGED <<contract, code, c4, answer, mode>>

UnpackData(vs) ==
    /\ mode = "loaded"
    /\ LET r == unpackedData(MembersOf(vs))
       IN  /\ mode' = IF r.slice = Broken THEN "broken" ELSE mode
           /\ answer' = [asked |-> InOrder(MembersOf(vs)), got |-> r.out]
    /\ UNCHANGED <<contract, code, tags, c4, c7>>

PackData(vs, tag) ==
    /\ mode = "loaded"
    /\ LET needed == MembersOf(vs)
           new    == [j \in needed |-> Value(types[j], j, tag)]
           t      == TakeApart(needed, new)
           s      == PutTogether(needed, t)
       IN  IF ~t.ok \/ \E v \in vs : AllVars[v].wrapped
           THEN mode' = "assert" /\ UNCHANGED <<tags, c7>>
           ELSE /\ mode' = IF s = Broken THEN "broken" ELSE mode
                /\ tags' = [j \in DOMAIN tags |-> IF j \in needed THEN tag ELSE tags[j]]
                /\ c7' = [c7 EXCEPT !.slice = s]
    /\ answer' = [asked |-> <<>>, got |-> <<>>]
    /\ UNCHANGED <<contract, code, c4>>

(* resetAllStateVars.                                                       *)
(* mutant: only the unpacked variables are reset *)
ResetStorage_Slice ==
    /\ mode = "loaded"
    /\ tags' = [j \in DOMAIN tags |-> 0]
    /\ LET n == startIndexType - 1
           defaults == [i \in 1 .. (Len(types) - n) |-> Value(types[i + n], i + n, 0)]
           s == encodeParameters(defaults, SubSeq(load, n + 1, Len(types)), Empty)
       IN  c7' = [c7 EXCEPT !.slice = s]
    /\ answer' = [asked |-> <<>>, got |-> <<>>]
    /\ UNCHANGED <<contract, code, c4, mode>>

ResetStorage ==
    /\ mode = "loaded"
    /\ tags' = [j \in DOMAIN tags |-> 0]
    /\ LET n == startIndexType - 1
           defaults == [i \in 1 .. (Len(types) - n) |-> Value(types[i + n], i + n, 0)]
           s == encodeParameters(defaults, SubSeq(load, n + 1, Len(types)), Empty)
       IN  c7' = [usual |-> [j \in 1 .. n |-> Value(types[j], j, 0)], slice |-> s]
    /\ answer' = [asked |-> <<>>, got |-> <<>>]
    /\ UNCHANGED <<contract, code, c4, mode>>

SaveData ==
    /\ mode = "loaded"
    /\ c4' = c7_to_c4
    /\ mode' = IF c7_to_c4 = Broken THEN "broken" ELSE "stored"
    /\ c7' = [usual |-> <<>>, slice |-> Empty]
    /\ answer' = [asked |-> <<>>, got |-> <<>>]
    /\ UNCHANGED <<contract, code, tags>>

Next ==
    \/ LoadData
    \/ \E v \in 1 .. Len(contract.usual), tag \in {0, 1} : Assign(v, tag)
    \/ \E vs \in (SUBSET UnpackedVars) \ {{}} : UnpackData(vs)
    \/ \E vs \in (SUBSET UnpackedVars) \ {{}}, tag \in {0, 1} : PackData(vs, tag)
    \/ ResetStorage
    \/ SaveData

Spec == Init /\ [][Next]_vars

-----------------------------------------------------------------------------
(* No generated code overflows a cell, reads past a slice or takes one      *)
(* thing for another.                                                       *)
NothingBreaks == mode # "broken"

(* The usual variables are read from where they were written, by the        *)
(* default data, by an earlier transaction, before and after packData.      *)
UsualIsCurrent ==
    mode = "loaded" => c7.usual = [j \in 1 .. (startIndexType - 1) |-> Current(j)]

(* unpackData answers with the current values of the variables asked for.   *)
AnswerIsCurrent ==
    answer.got = [k \in 1 .. Len(answer.asked) |-> Current(answer.asked[k])]

(* The slice of the unpacked variables, read as a whole by the plain        *)
(* decoder, holds their current values and nothing else: packData has       *)
(* replaced those it was given and kept the others.                         *)
SliceIsCurrent ==
    mode = "loaded" /\ HasUnpacked =>
        LET n == startIndexType - 1
            d == decodeParameters(SubSeq(types, n + 1, Len(types)), SubSeq(load, n + 1, Len(types)), c7.slice)
        IN  d.rest = Empty /\ d.values = [k \in 1 .. (Len(types) - n) |-> Current(n + k)]
=============================================================================
