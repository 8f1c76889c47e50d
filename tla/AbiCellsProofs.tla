------------------------------ MODULE AbiCellsProofs ------------------------------
(***************************************************************************)
(* What encodeParameters writes, decodeParameters reads, for every list of *)
(* types and values.                                                       *)
(*                                                                         *)
(* All the state of a chain of cells is in its last builder and in the     *)
(* slice being read.  So the encoding of a list of values is described     *)
(* from its end: E[i] is what follows the first i values, and E[i - 1] is  *)
(* the i-th value in front of E[i], in the same cell or in the next one    *)
(* (IsEncoding).  The decoder goes from E[0] to E[n] (Decoded).  The       *)
(* encoder, if its builders have room, keeps what they will be chained to  *)
(* the same with each value (Encoded).  AbiV2Position leaves that room     *)
(* (RoomForValues), since its own sums bound the real ones.                *)
(***************************************************************************)
EXTENDS AbiCells, NumberRecursion, SequenceTheorems, FiniteSetTheorems

(***************************************************************************)
(* Lists and their sums.                                                   *)
(***************************************************************************)
IsList(s) == \E V : s \in Seq(V)

(* A list has a length, and a place for each number up to it.               *)
LEMMA ListFacts ==
    ASSUME NEW s, IsList(s)
    PROVE  Len(s) \in Nat /\ DOMAIN s = 1 .. Len(s)
BY DEF IsList

(* The empty list.                                                          *)
LEMMA EmptyList == IsList(<<>>) /\ Len(<<>>) = 0
<1>1. <<>> \in Seq({})
  OBVIOUS
<1> QED BY <1>1 DEF IsList

(* A list of one.                                                           *)
LEMMA OneList ==
    ASSUME NEW x
    PROVE  IsList(<<x>>) /\ Len(<<x>>) = 1 /\ <<x>>[1] = x
<1>1. <<x>> \in Seq({x})
  OBVIOUS
<1> QED BY <1>1 DEF IsList

(* A function on 1 .. n is a list.                                          *)
LEMMA FunctionList ==
    ASSUME NEW n \in Nat, NEW f, f = [k \in 1 .. n |-> f[k]]
    PROVE  IsList(f) /\ Len(f) = n
<1> DEFINE V == {f[k] : k \in 1 .. n}
<1>1. f \in [1 .. n -> V]
  OBVIOUS
<1>2. f \in Seq(V) /\ Len(f) = n
  <2> HIDE DEF V
  <2> QED BY <1>1
<1> HIDE DEF V
<1> QED BY <1>2 DEF IsList

(* Lists are equal if their places are.                                     *)
LEMMA SameList ==
    ASSUME NEW s, NEW t, IsList(s), IsList(t), Len(s) = Len(t), \A k \in 1 .. Len(s) : s[k] = t[k]
    PROVE  s = t
<1>1. PICK V : s \in Seq(V)
  BY DEF IsList
<1>2. PICK W : t \in Seq(W)
  BY DEF IsList
<1>3. s \in Seq(V \cup W) /\ t \in Seq(V \cup W)
  BY <1>1, <1>2
<1> QED BY <1>3, SeqEqual

(* The places of two lists one behind the other.                            *)
LEMMA CatList ==
    ASSUME NEW s, NEW t, IsList(s), IsList(t)
    PROVE  /\ IsList(s \o t) /\ Len(s \o t) = Len(s) + Len(t)
           /\ \A k \in 1 .. Len(s) + Len(t) : (s \o t)[k] = IF k <= Len(s) THEN s[k] ELSE t[k - Len(s)]
<1>1. PICK V : s \in Seq(V)
  BY DEF IsList
<1>2. PICK W : t \in Seq(W)
  BY DEF IsList
<1>3. s \in Seq(V \cup W) /\ t \in Seq(V \cup W)
  BY <1>1, <1>2
<1>4. s \o t \in Seq(V \cup W)
  BY <1>3, ConcatProperties
<1> QED BY <1>3, <1>4, ConcatProperties DEF IsList

(* It does not matter which two of three lists are put together first.      *)
LEMMA CatThree ==
    ASSUME NEW s, NEW t, NEW u, IsList(s), IsList(t), IsList(u)
    PROVE  (s \o t) \o u = s \o (t \o u)
<1>1. PICK V : s \in Seq(V)
  BY DEF IsList
<1>2. PICK W : t \in Seq(W)
  BY DEF IsList
<1>3. PICK X : u \in Seq(X)
  BY DEF IsList
<1>4. s \in Seq(V \cup W \cup X) /\ t \in Seq(V \cup W \cup X) /\ u \in Seq(V \cup W \cup X)
  BY <1>1, <1>2, <1>3
<1> QED BY <1>4, ConcatAssociative

(* Nothing before or behind a list.                                         *)
LEMMA CatNothing ==
    ASSUME NEW s, IsList(s)
    PROVE  s \o <<>> = s /\ <<>> \o s = s
<1>1. PICK V : s \in Seq(V)
  BY DEF IsList
<1> QED BY <1>1, ConcatEmptySeq

(* Append puts a list of one behind.                                        *)
LEMMA AppendList ==
    ASSUME NEW s, NEW x, IsList(s)
    PROVE  Append(s, x) = s \o <<x>>
<1>1. PICK V : s \in Seq(V)
  BY DEF IsList
<1>2. s \in Seq(V \cup {x})
  BY <1>1
<1> QED BY <1>2, AppendIsConcat

IsSum(f, list) == f = [n \in 0 .. Len(list) |-> IF n = 0 THEN 0 ELSE f[n - 1] + list[n]]

(* The sums of a list, step by step.                                        *)
LEMMA SumSteps ==
    ASSUME NEW f, NEW list \in Seq(Nat)
    PROVE  IsSum(f, list) <=> /\ f = [n \in 0 .. Len(list) |-> f[n]] /\ f[0] = 0
                              /\ \A n \in 1 .. Len(list) : f[n] = f[n - 1] + list[n]
<1>1. ASSUME IsSum(f, list)
      PROVE  /\ f = [n \in 0 .. Len(list) |-> f[n]] /\ f[0] = 0
             /\ \A n \in 1 .. Len(list) : f[n] = f[n - 1] + list[n]
  BY <1>1 DEF IsSum
<1>2. ASSUME f = [n \in 0 .. Len(list) |-> f[n]], f[0] = 0,
             \A n \in 1 .. Len(list) : f[n] = f[n - 1] + list[n]
      PROVE  IsSum(f, list)
  <2>1. ASSUME NEW n \in 0 .. Len(list) PROVE f[n] = IF n = 0 THEN 0 ELSE f[n - 1] + list[n]
    <3>1. n = 0 \/ n \in 1 .. Len(list)
      OBVIOUS
    <3> QED BY <1>2, <3>1
  <2> QED BY <1>2, <2>1 DEF IsSum
<1> QED BY <1>1, <1>2

(* There are sums for every list of numbers.                                *)
LEMMA SumExists ==
    ASSUME NEW list \in Seq(Nat)
    PROVE  \E f \in [0 .. Len(list) -> Nat] : IsSum(f, list)
<1> DEFINE D == [n \in 1 .. Len(list) |-> [x \in Nat |-> x + list[n]]]
<1>1. D \in [1 .. Len(list) -> [Nat -> Nat]] /\ Len(list) \in Nat
  OBVIOUS
<1>2. HasSteps(Len(list), Nat, 0, D)
  <2> HIDE DEF D
  <2> QED BY <1>1, Recursion
<1>3. PICK f \in [0 .. Len(list) -> Nat] : f[0] = 0 /\ \A n \in 1 .. Len(list) : f[n] = D[n][f[n - 1]]
  <2> HIDE DEF D
  <2> QED BY <1>2 DEF HasSteps
<1>4. ASSUME NEW n \in 1 .. Len(list) PROVE f[n] = f[n - 1] + list[n]
  <2>1. n - 1 \in 0 .. Len(list) /\ f[n - 1] \in Nat
    <3> HIDE DEF D
    <3>1. n - 1 \in 0 .. Len(list)
      BY <1>1
    <3> QED BY <1>3, <3>1
  <2> QED BY <1>3, <2>1
<1> QED BY <1>3, <1>4, SumSteps, SMTT(20)

(* Total is the last of them.                                               *)
LEMMA TotalIs ==
    ASSUME NEW list \in Seq(Nat), NEW f, IsSum(f, list)
    PROVE  Total(list) = f[Len(list)]
<1> DEFINE F == CHOOSE g : IsSum(g, list)
           T == {n \in 0 .. Len(list) : F[n] = f[n]}
<1>1. IsSum(F, list)
  BY Zenon
<1>2. Total(list) = F[Len(list)]
  BY DEF Total, IsSum
<1> HIDE DEF F
<1>3. 0 \in T
  BY <1>1, SumSteps
<1>4. ASSUME NEW n \in 1 .. Len(list), n - 1 \in T PROVE n \in T
  BY <1>1, <1>4, SumSteps
<1>5. Len(list) \in T
  <2> HIDE DEF T
  <2>1. Len(list) \in Nat
    OBVIOUS
  <2>2. \A n \in 0 .. Len(list) : n \in T
    BY <1>3, <1>4, <2>1, Upwards
  <2> QED BY <2>1, <2>2
<1> QED BY <1>2, <1>5

(* The empty list sums up to nothing.                                       *)
LEMMA TotalNothing ==
    ASSUME NEW list \in Seq(Nat), Len(list) = 0
    PROVE  Total(list) = 0
<1>1. PICK f \in [0 .. Len(list) -> Nat] : IsSum(f, list)
  BY SumExists
<1> QED BY <1>1, SumSteps, TotalIs

(* One more number.                                                         *)
LEMMA TotalMore ==
    ASSUME NEW list \in Seq(Nat), NEW x \in Nat
    PROVE  Total(Append(list, x)) = Total(list) + x /\ Total(list) \in Nat
<1>1. PICK f \in [0 .. Len(list) -> Nat] : IsSum(f, list)
  BY SumExists
<1> DEFINE more == Append(list, x)
           g == [n \in 0 .. Len(more) |-> IF n <= Len(list) THEN f[n] ELSE f[Len(list)] + x]
<1>2. more \in Seq(Nat) /\ Len(more) = Len(list) + 1 /\ Len(list) \in Nat
      /\ more[Len(list) + 1] = x /\ \A n \in 1 .. Len(list) : more[n] = list[n]
  OBVIOUS
<1> HIDE DEF more
<1>3. f[0] = 0 /\ \A n \in 1 .. Len(list) : f[n] = f[n - 1] + list[n]
  BY <1>1, SumSteps
<1>4. g[0] = 0 /\ g[Len(more)] = f[Len(list)] + x
  BY <1>2, <1>3
<1>5. ASSUME NEW n \in 1 .. Len(more) PROVE g[n] = g[n - 1] + more[n]
  <2>1. n - 1 \in 0 .. Len(list) /\ g[n - 1] = f[n - 1]
    BY <1>2
  <2>2. CASE n <= Len(list)
    BY <1>2, <1>3, <2>1, <2>2
  <2>3. CASE n = Len(list) + 1
    BY <1>2, <2>1, <2>3
  <2> QED BY <1>2, <2>2, <2>3
<1>6. IsSum(g, more)
  BY <1>2, <1>4, <1>5, SumSteps
<1> HIDE DEF g
<1>7. Total(more) = f[Len(list)] + x /\ Total(list) = f[Len(list)] /\ f[Len(list)] \in Nat
  BY <1>1, <1>2, <1>4, <1>6, TotalIs
<1> QED BY <1>7 DEF more

(* A place behind the first p is one of the other q.                        *)
LEMMA Behind ==
    ASSUME NEW p \in Nat, NEW q \in Nat, NEW k \in 1 .. p + q, ~(k <= p)
    PROVE  k - p \in 1 .. q
OBVIOUS

(***************************************************************************)
(* Slices and builders.  Cat is a slice behind another one, Ahead a value  *)
(* in front of a slice.                                                    *)
(***************************************************************************)
IsValue(v) ==
    /\ v = [type |-> v.type, of |-> v.of, tag |-> v.tag, size |-> v.size]
    /\ v.size.bits \in Nat /\ v.size.refs \in Nat

IsSlice(s) ==
    /\ s = [bits |-> s.bits, refs |-> s.refs] /\ IsList(s.bits) /\ IsList(s.refs)
    /\ \A k \in 1 .. Len(s.bits) : s.bits[k].size.bits \in Nat \ {0}

Cat(b, s) == [bits |-> b.bits \o s.bits, refs |-> b.refs \o s.refs]
Ahead(v, s) == [bits |-> (IF v.size.bits = 0 THEN <<>> ELSE <<v>>) \o s.bits, refs |-> RefsOf(v) \o s.refs]
OneCell(c) == [bits |-> <<>>, refs |-> <<[to |-> c]>>]

(* No slice is Broken.                                                      *)
LEMMA NotBroken ==
    ASSUME NEW x, NEW y
    PROVE  [bits |-> x, refs |-> y] # Broken
<1>1. DOMAIN [bits |-> x, refs |-> y] = {"bits", "refs"}
  OBVIOUS
<1>2. DOMAIN Broken = {"broken"}
  BY DEF Broken
<1>3. {"bits", "refs"} # {"broken"}
  OBVIOUS
<1> QED BY <1>1, <1>2, <1>3

(* Neither is a value, nor can it be taken for a cell.                      *)
LEMMA ValueFacts ==
    ASSUME NEW v, IsValue(v)
    PROVE  v # Broken /\ ~isCell(v)
<1>1. DOMAIN v = {"type", "of", "tag", "size"}
  <2>1. DOMAIN [type |-> v.type, of |-> v.of, tag |-> v.tag, size |-> v.size] = {"type", "of", "tag", "size"}
    OBVIOUS
  <2> QED BY <2>1 DEF IsValue
<1>2. DOMAIN Broken = {"broken"} /\ DOMAIN Empty = {"bits", "refs"}
  BY DEF Broken, Empty
<1>3. {"type", "of", "tag", "size"} # {"broken"} /\ {"type", "of", "tag", "size"} # {"bits", "refs"}
  OBVIOUS
<1> QED BY <1>1, <1>2, <1>3 DEF isCell

(* The references of a value lead to it.                                    *)
LEMMA RefsFacts ==
    ASSUME NEW v, IsValue(v)
    PROVE  /\ IsList(RefsOf(v)) /\ Len(RefsOf(v)) = v.size.refs
           /\ \A k \in 1 .. v.size.refs : RefsOf(v)[k] = [to |-> v]
<1> DEFINE r == RefsOf(v)
<1>1. v.size.refs \in Nat /\ \A k \in 1 .. v.size.refs : r[k] = [to |-> v]
  BY DEF IsValue, RefsOf
<1>2. r = [k \in 1 .. v.size.refs |-> r[k]]
  BY DEF RefsOf
<1> HIDE DEF r
<1>3. IsList(r) /\ Len(r) = v.size.refs
  BY <1>1, <1>2, FunctionList
<1> QED BY <1>1, <1>3 DEF r

(* The bits of a slice, one by one.                                         *)
Lengths(s) == [k \in 1 .. Len(s.bits) |-> s.bits[k].size.bits]

(* They sum up to the bits of the slice.                                    *)
LEMMA LengthsFacts ==
    ASSUME NEW s, IsSlice(s)
    PROVE  /\ Lengths(s) \in Seq(Nat) /\ Len(Lengths(s)) = Len(s.bits) /\ Bits(s) = Total(Lengths(s))
           /\ Bits(s) \in Nat /\ Len(s.refs) \in Nat /\ Len(s.bits) \in Nat
<1>1. Len(s.bits) \in Nat /\ Len(s.refs) \in Nat
  BY ListFacts DEF IsSlice
<1>2. Lengths(s) \in [1 .. Len(s.bits) -> Nat]
  BY DEF IsSlice, Lengths
<1>3. Lengths(s) \in Seq(Nat) /\ Len(Lengths(s)) = Len(s.bits)
  BY <1>1, <1>2
<1>4. Bits(s) = Total(Lengths(s))
  BY DEF Bits, Lengths
<1>5. Total(Lengths(s)) \in Nat
  BY <1>3, TotalMore
<1> QED BY <1>1, <1>3, <1>4, <1>5

(* Empty is a slice without bits and references.                            *)
LEMMA EmptyFacts == IsSlice(Empty) /\ Bits(Empty) = 0 /\ Len(Empty.refs) = 0
<1>1. Empty.bits = <<>> /\ Empty.refs = <<>> /\ Empty = [bits |-> Empty.bits, refs |-> Empty.refs]
  BY DEF Empty
<1>2. IsSlice(Empty)
  BY <1>1, EmptyList DEF IsSlice
<1>3. Len(Lengths(Empty)) = 0
  BY <1>1, <1>2, LengthsFacts, EmptyList
<1> QED BY <1>1, <1>2, <1>3, LengthsFacts, TotalNothing, EmptyList

(* Two slices, one behind the other, are a slice.                           *)
LEMMA CatFacts ==
    ASSUME NEW b, NEW s, IsSlice(b), IsSlice(s)
    PROVE  IsSlice(Cat(b, s)) /\ Len(Cat(b, s).refs) = Len(b.refs) + Len(s.refs)
<1> DEFINE c == Cat(b, s)
           x == b.bits \o s.bits
<1>1. c = [bits |-> c.bits, refs |-> c.refs] /\ c.bits = x /\ c.refs = b.refs \o s.refs
  BY DEF Cat
<1>2. IsList(b.bits) /\ IsList(b.refs) /\ IsList(s.bits) /\ IsList(s.refs)
  BY DEF IsSlice
<1>3. IsList(c.refs) /\ Len(c.refs) = Len(b.refs) + Len(s.refs)
  BY <1>1, <1>2, CatList
<1>4. IsList(x) /\ Len(x) = Len(b.bits) + Len(s.bits) /\ Len(b.bits) \in Nat /\ Len(s.bits) \in Nat
      /\ \A k \in 1 .. Len(b.bits) + Len(s.bits) : x[k] = IF k <= Len(b.bits) THEN b.bits[k] ELSE s.bits[k - Len(b.bits)]
  BY <1>2, CatList, ListFacts
<1>5. ASSUME NEW k \in 1 .. Len(x) PROVE x[k].size.bits \in Nat \ {0}
  <2> HIDE DEF x
  <2>1. CASE k <= Len(b.bits)
    BY <1>4, <2>1 DEF IsSlice
  <2>2. CASE ~(k <= Len(b.bits))
    <3>1. k \in 1 .. Len(b.bits) + Len(s.bits)
      BY <1>4
    <3>2. x[k] = s.bits[k - Len(b.bits)]
      BY <1>4, <2>2, <3>1
    <3>3. k - Len(b.bits) \in 1 .. Len(s.bits)
      <4>1. Len(b.bits) \in Nat /\ Len(s.bits) \in Nat
        BY <1>4
      <4> QED BY <2>2, <3>1, <4>1, Behind
    <3> QED BY <3>2, <3>3 DEF IsSlice
  <2> QED BY <2>1, <2>2
<1> HIDE DEF c, x
<1>6. IsSlice(c)
  BY <1>1, <1>3, <1>4, <1>5 DEF IsSlice
<1> QED BY <1>3, <1>6 DEF c

(* So is a value in front of a slice.                                       *)
LEMMA FrontSlice ==
    ASSUME NEW v, NEW s, IsValue(v), IsSlice(s)
    PROVE  IsSlice(Ahead(v, s))
<1> DEFINE h == [bits |-> IF v.size.bits = 0 THEN <<>> ELSE <<v>>, refs |-> RefsOf(v)]
<1>1. h = [bits |-> h.bits, refs |-> h.refs] /\ h.bits = (IF v.size.bits = 0 THEN <<>> ELSE <<v>>) /\ h.refs = RefsOf(v)
  OBVIOUS
<1> HIDE DEF h
<1>2. IsList(h.refs)
  BY <1>1, RefsFacts
<1>3. IsList(h.bits) /\ \A k \in 1 .. Len(h.bits) : h.bits[k].size.bits \in Nat \ {0}
  <2>1. CASE v.size.bits = 0
    BY <1>1, <2>1, EmptyList
  <2>2. CASE v.size.bits # 0
    <3>1. h.bits = <<v>>
      BY <1>1, <2>2
    <3>2. IsList(h.bits) /\ Len(h.bits) = 1 /\ h.bits[1] = v
      BY <3>1, OneList
    <3> QED BY <2>2, <3>2 DEF IsValue
  <2> QED BY <2>1, <2>2
<1>4. IsSlice(h)
  BY <1>1, <1>2, <1>3 DEF IsSlice
<1>5. Ahead(v, s) = Cat(h, s)
  BY <1>1 DEF Ahead, Cat
<1> QED BY <1>4, <1>5, CatFacts

(* Nothing before or behind a slice.                                        *)
LEMMA CatEmpty ==
    ASSUME NEW b, IsSlice(b)
    PROVE  Cat(b, Empty) = b /\ Cat(Empty, b) = b
<1>1. b.bits \o <<>> = b.bits /\ b.refs \o <<>> = b.refs /\ <<>> \o b.bits = b.bits /\ <<>> \o b.refs = b.refs
  BY CatNothing DEF IsSlice
<1>2. Empty.bits = <<>> /\ Empty.refs = <<>>
  BY DEF Empty
<1>3. b = [bits |-> b.bits, refs |-> b.refs]
  BY DEF IsSlice
<1> QED BY <1>1, <1>2, <1>3 DEF Cat

(* It does not matter which two of three slices are put together first.     *)
LEMMA CatCat ==
    ASSUME NEW a, NEW b, NEW c, IsSlice(a), IsSlice(b), IsSlice(c)
    PROVE  Cat(Cat(a, b), c) = Cat(a, Cat(b, c))
<1>1. (a.bits \o b.bits) \o c.bits = a.bits \o (b.bits \o c.bits)
  BY CatThree, SMTT(20) DEF IsSlice
<1>2. (a.refs \o b.refs) \o c.refs = a.refs \o (b.refs \o c.refs)
  BY CatThree, SMTT(20) DEF IsSlice
<1> QED BY <1>1, <1>2 DEF Cat

(* A value and what is behind it.                                           *)
LEMMA CatFront ==
    ASSUME NEW v, NEW s, IsValue(v), IsSlice(s)
    PROVE  Cat(Ahead(v, Empty), s) = Ahead(v, s)
<1> DEFINE h == IF v.size.bits = 0 THEN <<>> ELSE <<v>>
<1>1. IsList(h) /\ IsList(RefsOf(v))
  BY EmptyList, OneList, RefsFacts
<1>2. h \o <<>> = h /\ RefsOf(v) \o <<>> = RefsOf(v)
  BY <1>1, CatNothing
<1> HIDE DEF h
<1>3. Ahead(v, Empty) = [bits |-> h, refs |-> RefsOf(v)]
  BY <1>2 DEF Ahead, Empty, h
<1>4. Ahead(v, s) = [bits |-> h \o s.bits, refs |-> RefsOf(v) \o s.refs]
  BY DEF Ahead, h
<1> QED BY <1>3, <1>4 DEF Cat

(* A value at the end of a builder.                                         *)
LEMMA MoreBits ==
    ASSUME NEW b, NEW v, IsSlice(b), IsValue(v)
    PROVE  /\ Bits(Cat(b, Ahead(v, Empty))) = Bits(b) + v.size.bits
           /\ Len(Cat(b, Ahead(v, Empty)).refs) = Len(b.refs) + v.size.refs
           /\ IsSlice(Cat(b, Ahead(v, Empty)))
           /\ Cat(b, Ahead(v, Empty)) = [bits |-> IF v.size.bits = 0 THEN b.bits ELSE Append(b.bits, v),
                                         refs |-> b.refs \o RefsOf(v)]
<1> DEFINE f == Ahead(v, Empty)
           c == Cat(b, f)
<1>1. f = [bits |-> f.bits, refs |-> f.refs] /\ f.refs = RefsOf(v) /\ f.bits = IF v.size.bits = 0 THEN <<>> ELSE <<v>>
  <2>1. Empty.bits = <<>> /\ Empty.refs = <<>>
    BY DEF Empty
  <2>2. RefsOf(v) \o <<>> = RefsOf(v) /\ <<>> \o <<>> = <<>> /\ <<v>> \o <<>> = <<v>>
    BY RefsFacts, EmptyList, OneList, CatNothing
  <2> QED BY <2>1, <2>2 DEF Ahead
<1>2. IsSlice(f)
  BY EmptyFacts, FrontSlice
<1> HIDE DEF f
<1>3. IsSlice(c) /\ Len(c.refs) = Len(b.refs) + v.size.refs
  <2>1. IsSlice(Cat(b, f)) /\ Len(Cat(b, f).refs) = Len(b.refs) + Len(f.refs)
    BY <1>2, CatFacts
  <2>2. Len(f.refs) = v.size.refs
    BY <1>1, RefsFacts
  <2> QED BY <2>1, <2>2
<1>4. c = [bits |-> IF v.size.bits = 0 THEN b.bits ELSE Append(b.bits, v), refs |-> b.refs \o RefsOf(v)]
  <2>1. IsList(b.bits)
    BY DEF IsSlice
  <2>2. b.bits \o <<>> = b.bits /\ b.bits \o <<v>> = Append(b.bits, v)
    BY <2>1, CatNothing, AppendList
  <2> QED BY <1>1, <2>2 DEF Cat
<1>5. Bits(c) = Bits(b) + v.size.bits
  <2>1. CASE v.size.bits = 0
    <3>1. c.bits = b.bits
      BY <1>4, <2>1
    <3>2. Lengths(c) = Lengths(b)
      BY <3>1 DEF Lengths
    <3> QED BY <1>3, <2>1, <3>2, LengthsFacts
  <2>2. CASE v.size.bits # 0
    <3>1. c.bits = b.bits \o <<v>> /\ IsList(b.bits) /\ Len(b.bits) \in Nat /\ v.size.bits \in Nat
      BY <1>1, <2>2, ListFacts DEF Cat, IsSlice, IsValue
    <3>2. Len(c.bits) = Len(b.bits) + 1 /\ \A k \in 1 .. Len(b.bits) + 1 : c.bits[k] = IF k <= Len(b.bits) THEN b.bits[k] ELSE v
      <4>1. IsList(<<v>>) /\ Len(<<v>>) = 1 /\ <<v>>[1] = v
        BY OneList
      <4>2. Len(c.bits) = Len(b.bits) + 1
            /\ \A k \in 1 .. Len(b.bits) + 1 : c.bits[k] = IF k <= Len(b.bits) THEN b.bits[k] ELSE <<v>>[k - Len(b.bits)]
        BY <3>1, <4>1, CatList
      <4>3. ASSUME NEW k \in 1 .. Len(b.bits) + 1, ~(k <= Len(b.bits)) PROVE k - Len(b.bits) = 1
        BY <3>1, <4>3
      <4> QED BY <4>1, <4>2, <4>3
    <3>3. Lengths(b) \in Seq(Nat) /\ Len(Lengths(b)) = Len(b.bits) /\ Lengths(c) \in Seq(Nat) /\ Len(Lengths(c)) = Len(c.bits)
      BY <1>3, LengthsFacts
    <3> DEFINE l == Append(Lengths(b), v.size.bits)
    <3>4. l \in Seq(Nat) /\ Len(l) = Len(b.bits) + 1 /\ l[Len(b.bits) + 1] = v.size.bits
          /\ \A k \in 1 .. Len(b.bits) : l[k] = Lengths(b)[k]
      BY <3>1, <3>3
    <3> HIDE DEF l
    <3>5. ASSUME NEW k \in 1 .. Len(c.bits) PROVE Lengths(c)[k] = l[k]
      <4>1. Lengths(c)[k] = c.bits[k].size.bits
        BY DEF Lengths
      <4>2. k \in 1 .. Len(b.bits) + 1 /\ (k <= Len(b.bits) => k \in 1 .. Len(b.bits)) /\ (~(k <= Len(b.bits)) => k = Len(b.bits) + 1)
        BY <3>1, <3>2
      <4>3. CASE k <= Len(b.bits)
        <5>1. Lengths(b)[k] = b.bits[k].size.bits
          BY <4>2, <4>3 DEF Lengths
        <5> QED BY <3>2, <3>4, <4>1, <4>2, <4>3, <5>1
      <4>4. CASE ~(k <= Len(b.bits))
        BY <3>2, <3>4, <4>1, <4>2, <4>4
      <4> QED BY <4>3, <4>4
    <3>6. Lengths(c) = l
      BY <3>2, <3>3, <3>4, <3>5, SeqEqual
    <3>7. Total(l) = Total(Lengths(b)) + v.size.bits
      BY <3>1, <3>3, TotalMore DEF l
    <3> QED BY <1>3, <3>6, <3>7, LengthsFacts
  <2> QED BY <2>1, <2>2
<1> HIDE DEF c
<1>6. c = Cat(b, Ahead(v, Empty))
  BY DEF c, f
<1> QED BY <1>3, <1>4, <1>5, <1>6

(* Store, if there is room.                                                 *)
LEMMA StoreIs ==
    ASSUME NEW b, NEW v, IsSlice(b), IsValue(v), Bits(b) + v.size.bits <= CellBits, Len(b.refs) + v.size.refs <= CellRefs
    PROVE  Store(b, v) = Cat(b, Ahead(v, Empty))
<1> DEFINE c == Cat(b, Ahead(v, Empty))
<1>1. b # Broken /\ c # Broken
  BY NotBroken DEF IsSlice, Cat
<1>2. c = [bits |-> IF v.size.bits = 0 THEN b.bits ELSE Append(b.bits, v), refs |-> b.refs \o RefsOf(v)]
      /\ Bits(c) = Bits(b) + v.size.bits /\ Len(c.refs) = Len(b.refs) + v.size.refs
  BY MoreBits
<1>3. Bits(b) \in Nat /\ Len(b.refs) \in Nat /\ v.size.bits \in Nat /\ v.size.refs \in Nat
  BY LengthsFacts DEF IsValue
<1> HIDE DEF c
<1>4. ~Full(c)
  BY <1>2, <1>3 DEF Full, CellBits, CellRefs
<1>5. Store(b, v) = Checked(c)
  BY <1>1, <1>2 DEF Store
<1> QED BY <1>1, <1>4, <1>5 DEF Checked, c

(* A reference to a cell is a slice.                                        *)
LEMMA CellFacts ==
    ASSUME NEW c
    PROVE  IsSlice(OneCell(c)) /\ Len(OneCell(c).refs) = 1
<1>1. OneCell(c).bits = <<>> /\ OneCell(c).refs = <<[to |-> c]>> /\ OneCell(c) = [bits |-> OneCell(c).bits, refs |-> OneCell(c).refs]
  BY DEF OneCell
<1> QED BY <1>1, EmptyList, OneList DEF IsSlice

(* A cell at the end of a builder.                                          *)
LEMMA StoreRefIs ==
    ASSUME NEW b, NEW c, IsSlice(b), c # Broken, Bits(b) <= CellBits, Len(b.refs) <= 3
    PROVE  StoreRef(b, c) = Cat(b, OneCell(c))
<1> DEFINE d == [b EXCEPT !.refs = Append(@, [to |-> c])]
<1>1. b = [bits |-> b.bits, refs |-> b.refs] /\ IsList(b.bits) /\ IsList(b.refs)
  BY DEF IsSlice
<1>2. d = [bits |-> b.bits, refs |-> b.refs \o <<[to |-> c]>>]
  BY <1>1, AppendList
<1>3. d = Cat(b, OneCell(c))
  BY <1>1, <1>2, CatNothing DEF Cat, OneCell
<1>4. d # Broken /\ b # Broken
  BY <1>1, <1>2, NotBroken
<1> HIDE DEF d
<1>5. d.bits = b.bits /\ Len(d.refs) = Len(b.refs) + 1
  BY <1>1, <1>2, CatList, OneList
<1>6. Bits(d) = Bits(b)
  BY <1>5 DEF Bits
<1>7. Bits(b) \in Nat /\ Len(b.refs) \in Nat
  BY LengthsFacts
<1>8. ~Full(d)
  BY <1>5, <1>6, <1>7 DEF Full, CellBits, CellRefs
<1>9. StoreRef(b, c) = Checked(d)
  BY <1>4 DEF StoreRef, d
<1> QED BY <1>3, <1>4, <1>8, <1>9 DEF Checked

(***************************************************************************)
(* Reading.                                                                *)
(***************************************************************************)
Stored(v, t) == IsValue(v) /\ v.type = t /\ t.bits \in Nat /\ (t.bits = 0 => v.size.bits = 0 /\ v.size.refs > 0)
                /\ (t.bits > 0 => v.size.bits > 0)

(* The two parts of a list that was put together.                           *)
LEMMA PartsOfList ==
    ASSUME NEW s, NEW t, IsList(s), IsList(t)
    PROVE  /\ SubSeq(s \o t, 1, Len(s)) = s
           /\ SubSeq(s \o t, Len(s) + 1, Len(s \o t)) = t
<1> DEFINE x == s \o t
           V == {x[k] : k \in 1 .. Len(x)}
           n == Len(s)
           a == SubSeq(x, 1, n)
           b == SubSeq(x, n + 1, Len(x))
<1>1. /\ IsList(x) /\ Len(x) = n + Len(t) /\ n \in Nat /\ Len(t) \in Nat
      /\ \A k \in 1 .. n + Len(t) : x[k] = IF k <= n THEN s[k] ELSE t[k - n]
  BY CatList, ListFacts
<1>2. \A k \in 1 .. Len(x) : x[k] \in V
  OBVIOUS
<1> HIDE DEF x, V, n
<1>3. /\ a \in Seq(V) /\ Len(a) = n /\ \A k \in 1 .. n : a[k] = x[k]
  <2>1. \A k \in 1 .. n : x[k] \in V
    BY <1>1, <1>2
  <2>2. /\ SubSeq(x, 1, n) \in Seq(V) /\ Len(SubSeq(x, 1, n)) = (IF 1 <= n THEN n - 1 + 1 ELSE 0)
        /\ \A k \in 1 .. n - 1 + 1 : SubSeq(x, 1, n)[k] = x[1 + k - 1]
    BY <1>1, <2>1, SubSeqProperties
  <2> HIDE DEF a
  <2>3. ASSUME NEW k \in 1 .. n PROVE SubSeq(x, 1, n)[k] = x[k]
    <3>1. k \in 1 .. n - 1 + 1 /\ 1 + k - 1 = k
      BY <1>1
    <3> QED BY <2>2, <3>1
  <2> QED BY <1>1, <2>2, <2>3 DEF a
<1>4. /\ b \in Seq(V) /\ Len(b) = Len(t) /\ \A k \in 1 .. Len(t) : b[k] = x[n + k]
  <2>1. \A k \in n + 1 .. Len(x) : x[k] \in V
    BY <1>1, <1>2
  <2>2. /\ SubSeq(x, n + 1, Len(x)) \in Seq(V) /\ Len(SubSeq(x, n + 1, Len(x))) = (IF n + 1 <= Len(x) THEN Len(x) - (n + 1) + 1 ELSE 0)
        /\ \A k \in 1 .. Len(x) - (n + 1) + 1 : SubSeq(x, n + 1, Len(x))[k] = x[(n + 1) + k - 1]
    <3>1. n + 1 \in Int /\ Len(x) \in Int
      BY <1>1
    <3> QED BY <2>1, <3>1, SubSeqProperties
  <2> HIDE DEF b
  <2>3. ASSUME NEW k \in 1 .. Len(t) PROVE SubSeq(x, n + 1, Len(x))[k] = x[n + k]
    <3>1. k \in 1 .. Len(x) - (n + 1) + 1 /\ (n + 1) + k - 1 = n + k
      BY <1>1
    <3> QED BY <2>2, <3>1
  <2>4. (IF n + 1 <= Len(x) THEN Len(x) - (n + 1) + 1 ELSE 0) = Len(t)
    BY <1>1
  <2> QED BY <2>2, <2>3, <2>4 DEF b
<1> HIDE DEF a, b
<1>5. IsList(a) /\ IsList(b)
  BY <1>3, <1>4 DEF IsList
<1>6. a = s
  <2>1. ASSUME NEW k \in 1 .. n PROVE a[k] = s[k]
    <3>1. k \in 1 .. n + Len(t) /\ k <= n
      BY <1>1
    <3> QED BY <1>1, <1>3, <3>1
  <2> QED BY <1>3, <1>5, <2>1, SameList DEF n
<1>7. b = t
  <2>1. ASSUME NEW k \in 1 .. Len(t) PROVE b[k] = t[k]
    <3>1. n + k \in 1 .. n + Len(t) /\ ~(n + k <= n) /\ (n + k) - n = k
      BY <1>1
    <3> QED BY <1>1, <1>4, <3>1
  <2> QED BY <1>4, <1>5, <2>1, SameList
<1> QED BY <1>6, <1>7 DEF a, b, n, x

(* The first of a list and the rest.                                        *)
LEMMA HeadOfList ==
    ASSUME NEW x, NEW s, IsList(s)
    PROVE  <<x>> \o s # <<>> /\ Head(<<x>> \o s) = x /\ Tail(<<x>> \o s) = s
<1>1. PICK V : s \in Seq(V)
  BY DEF IsList
<1>2. s \in Seq(V \cup {x})
  BY <1>1
<1>3. IsList(<<x>>) /\ Len(<<x>>) = 1 /\ <<x>>[1] = x
  BY OneList
<1> DEFINE y == <<x>> \o s
<1>4. IsList(y) /\ Len(y) = 1 + Len(s) /\ y[1] = x
  <2>1. 1 \in 1 .. 1 + Len(s) /\ 1 <= 1
    BY ListFacts
  <2> QED BY <1>3, <2>1, CatList
<1>5. SubSeq(y, 2, Len(y)) = s
  BY <1>3, PartsOfList
<1>6. y \in Seq(V \cup {x})
  <2>1. <<x>> \in Seq(V \cup {x})
    OBVIOUS
  <2> QED BY <1>2, <2>1, ConcatProperties
<1> HIDE DEF y
<1>7. y # <<>>
  BY <1>4, ListFacts, EmptyList
<1>8. Tail(y) = SubSeq(y, 2, Len(y))
  BY <1>6, <1>7, TailIsSubSeq
<1>9. Head(y) = y[1]
  BY <1>6, <1>7
<1> QED BY <1>4, <1>5, <1>7, <1>8, <1>9 DEF y

(* A value is read back, and the rest is left.                              *)
LEMMA LoadFront ==
    ASSUME NEW v, NEW t, NEW s, Stored(v, t), IsSlice(s)
    PROVE  Load(t, Ahead(v, s)) = [value |-> v, rest |-> s]
<1> DEFINE f == Ahead(v, s)
<1>1. f.bits = (IF v.size.bits = 0 THEN <<>> ELSE <<v>>) \o s.bits /\ f.refs = RefsOf(v) \o s.refs /\ f # Broken
  BY NotBroken DEF Ahead
<1>2. IsValue(v) /\ v # Broken /\ ~isCell(v) /\ v.type = t /\ v.size.refs \in Nat /\ v.size.bits \in Nat
  BY ValueFacts DEF Stored, IsValue
<1>3. IsList(s.bits) /\ IsList(s.refs) /\ s = [bits |-> s.bits, refs |-> s.refs]
  BY DEF IsSlice
<1>4. IsList(RefsOf(v)) /\ Len(RefsOf(v)) = v.size.refs /\ \A k \in 1 .. v.size.refs : RefsOf(v)[k] = [to |-> v]
  BY <1>2, RefsFacts
<1> HIDE DEF f
<1>5. /\ Len(f.refs) >= v.size.refs /\ SubSeq(f.refs, 1, v.size.refs) = RefsOf(v)
      /\ SubSeq(f.refs, v.size.refs + 1, Len(f.refs)) = s.refs
  <2>1. Len(f.refs) = v.size.refs + Len(s.refs) /\ Len(s.refs) \in Nat
    BY <1>1, <1>3, <1>4, CatList, ListFacts
  <2>2. SubSeq(f.refs, 1, Len(RefsOf(v))) = RefsOf(v) /\ SubSeq(f.refs, Len(RefsOf(v)) + 1, Len(f.refs)) = s.refs
    BY <1>1, <1>3, <1>4, PartsOfList, SMTT(20)
  <2>3. Len(f.refs) >= v.size.refs
    BY <1>2, <2>1
  <2> QED BY <1>4, <2>2, <2>3
<1>6. Foremost(t, f) = v /\ (IF v.size.bits = 0 THEN f.bits ELSE Tail(f.bits)) = s.bits
  <2>1. CASE t.bits > 0
    <3>1. v.size.bits > 0 /\ v.size.bits # 0
      <4>1. v.size.bits > 0
        BY <2>1 DEF Stored
      <4> QED BY <1>2, <4>1
    <3>2. f.bits = <<v>> \o s.bits
      BY <1>1, <1>2, <3>1
    <3>3. f.bits # <<>> /\ Head(f.bits) = v /\ Tail(f.bits) = s.bits
      BY <1>3, <3>2, HeadOfList
    <3> QED BY <1>2, <2>1, <3>1, <3>3 DEF Foremost
  <2>2. CASE t.bits = 0
    <3>1. v.size.bits = 0 /\ v.size.refs > 0
      BY <2>2 DEF Stored
    <3>2. f.bits = s.bits
      BY <1>1, <1>3, <3>1, CatNothing
    <3>3. IsList(f.refs) /\ Len(f.refs) >= 1 /\ f.refs[1] = [to |-> v]
      <4>1. 1 \in 1 .. v.size.refs
        BY <1>2, <3>1
      <4>2. IsList(f.refs) /\ Len(f.refs) = v.size.refs + Len(s.refs) /\ Len(s.refs) \in Nat
            /\ \A k \in 1 .. v.size.refs + Len(s.refs) : f.refs[k] = IF k <= v.size.refs THEN RefsOf(v)[k] ELSE s.refs[k - v.size.refs]
        BY <1>1, <1>3, <1>4, CatList, ListFacts, SMTT(20)
      <4>3. 1 \in 1 .. v.size.refs + Len(s.refs) /\ 1 <= v.size.refs
        BY <1>2, <4>1, <4>2
      <4>4. f.refs[1] = RefsOf(v)[1] /\ Len(f.refs) >= 1
        BY <4>2, <4>3
      <4> QED BY <1>4, <4>1, <4>2, <4>4
    <3>4. Head(f.refs) = f.refs[1] /\ f.refs # <<>>
      <4>1. PICK V : f.refs \in Seq(V)
        BY <3>3 DEF IsList
      <4> QED BY <3>3, <4>1
    <3>5. Head(f.refs).to = v
      BY <3>3, <3>4
    <3>6. ~(t.bits > 0)
      BY <2>2
    <3> QED BY <1>2, <3>1, <3>2, <3>4, <3>5, <3>6 DEF Foremost
  <2> QED BY <2>1, <2>2 DEF Stored
<1>7. ~(Len(f.refs) < v.size.refs)
  BY <1>1, <1>2, <1>3, <1>4, <1>5, CatList, ListFacts
<1>8. Load(t, f) = [value |-> v,
                    rest  |-> [bits |-> IF v.size.bits = 0 THEN f.bits ELSE Tail(f.bits),
                               refs |-> SubSeq(f.refs, v.size.refs + 1, Len(f.refs))]]
  BY <1>1, <1>2, <1>5, <1>6, <1>7 DEF Load
<1>9. [bits |-> IF v.size.bits = 0 THEN f.bits ELSE Tail(f.bits), refs |-> SubSeq(f.refs, v.size.refs + 1, Len(f.refs))] = s
  BY <1>3, <1>5, <1>6
<1> QED BY <1>8, <1>9 DEF f

(* So is the next cell of the chain.                                        *)
LEMMA LoadCell ==
    ASSUME NEW c, IsSlice(c)
    PROVE  loadNextSlice(OneCell(c)) = c
<1> DEFINE o == OneCell(c)
<1>1. o.bits = <<>> /\ o.refs = <<[to |-> c]>> /\ o # Broken
  BY NotBroken DEF OneCell
<1>2. Len(o.refs) = 1 /\ Head(o.refs) = [to |-> c] /\ o.refs # <<>>
  BY <1>1
<1>3. isCell(c)
  <2>1. DOMAIN [bits |-> c.bits, refs |-> c.refs] = {"bits", "refs"}
    OBVIOUS
  <2> QED BY <2>1 DEF IsSlice, isCell, Empty
<1> HIDE DEF o
<1>4. Head(o.refs).to = c
  BY <1>2
<1> QED BY <1>1, <1>2, <1>3, <1>4 DEF loadNextSlice, NextCell, o

(***************************************************************************)
(* What encodeParameters makes of a list of values: E[i] is the slice      *)
(* behind the first i values.                                              *)
(***************************************************************************)
Before(v, new, s) == IF new THEN OneCell(Ahead(v, s)) ELSE Ahead(v, s)

EncodingSteps(E, values, load, n) == \A i \in 1 .. n : E[i - 1] = Before(values[i], load[i], E[i])
IsEncoding(E, values, load, n) == E[n] = Empty /\ EncodingSteps(E, values, load, n)

(* There is an encoding for every list of values.                           *)
LEMMA EncodingExists ==
    ASSUME NEW values, NEW load, NEW n \in Nat
    PROVE  \E E : IsEncoding(E, values, load, n)
<1> DEFINE Good(f, m) == f[0] = Empty /\ \A k \in 1 .. m : f[k] = Before(values[n + 1 - k], load[n + 1 - k], f[k - 1])
           T == {m \in 0 .. n : \E f : Good(f, m)}
<1>1. 0 \in T
  <2> DEFINE f == [k \in 0 .. 0 |-> Empty]
  <2>1. Good(f, 0)
    OBVIOUS
  <2> HIDE DEF Good, f
  <2> QED BY <2>1
<1>2. ASSUME NEW m \in 1 .. n, m - 1 \in T PROVE m \in T
  <2>1. PICK f : Good(f, m - 1)
    BY <1>2
  <2> DEFINE x == Before(values[n + 1 - m], load[n + 1 - m], f[m - 1])
             g == [k \in 0 .. m |-> IF k < m THEN f[k] ELSE x]
  <2>2. g[0] = Empty
    BY <2>1
  <2>3. ASSUME NEW k \in 1 .. m PROVE g[k] = Before(values[n + 1 - k], load[n + 1 - k], g[k - 1])
    <3>1. k - 1 \in 0 .. m /\ k - 1 < m /\ k \in 0 .. m
      OBVIOUS
    <3>2. g[k - 1] = f[k - 1]
      BY <3>1
    <3>3. CASE k < m
      <4>1. k \in 1 .. m - 1 /\ g[k] = f[k]
        BY <3>1, <3>3
      <4> HIDE DEF g
      <4> QED BY <2>1, <3>2, <4>1
    <3>4. CASE k = m
      <4>1. g[k] = x
        BY <3>1, <3>4
      <4> HIDE DEF g
      <4> QED BY <3>2, <3>4, <4>1
    <3> QED BY <3>3, <3>4
  <2>4. Good(g, m)
    BY <2>2, <2>3
  <2> HIDE DEF Good, g
  <2> QED BY <2>4
<1>3. n \in T
  <2> HIDE DEF T
  <2>1. \A m \in 0 .. n : m \in T
    BY <1>1, <1>2, Upwards
  <2> QED BY <2>1
<1>4. PICK f : Good(f, n)
  BY <1>3
<1> DEFINE E == [i \in 0 .. n |-> f[n - i]]
<1>5. E[n] = Empty
  BY <1>4
<1>6. ASSUME NEW i \in 1 .. n PROVE E[i - 1] = Before(values[i], load[i], E[i])
  <2> DEFINE k == n + 1 - i
  <2>1. k \in 1 .. n /\ n + 1 - k = i /\ k - 1 = n - i /\ n - (i - 1) = k /\ i - 1 \in 0 .. n /\ i \in 0 .. n
    OBVIOUS
  <2>2. E[i - 1] = f[k] /\ E[i] = f[k - 1]
    BY <2>1
  <2> HIDE DEF k, E
  <2>3. f[k] = Before(values[n + 1 - k], load[n + 1 - k], f[k - 1])
    BY <1>4, <2>1
  <2> QED BY <2>1, <2>2, <2>3
<1>7. IsEncoding(E, values, load, n)
  BY <1>5, <1>6 DEF IsEncoding, EncodingSteps
<1> HIDE DEF E
<1> QED BY <1>7

(* Each step of it makes a slice of a slice.                                *)
LEMMA BeforeSlice ==
    ASSUME NEW v, NEW new, NEW s, IsValue(v), IsSlice(s)
    PROVE  IsSlice(Before(v, new, s))
BY FrontSlice, CellFacts DEF Before

(* It consists of slices.                                                   *)
LEMMA PartSlices ==
    ASSUME NEW values, NEW load, NEW n \in Nat, NEW E, EncodingSteps(E, values, load, n), IsSlice(E[n]),
           \A i \in 1 .. n : IsValue(values[i])
    PROVE  \A i \in 0 .. n : IsSlice(E[i])
<1> DEFINE T == {k \in 0 .. n : IsSlice(E[n - k])}
<1>1. 0 \in T
  OBVIOUS
<1>2. ASSUME NEW k \in 1 .. n, k - 1 \in T PROVE k \in T
  <2> DEFINE i == n + 1 - k
  <2>1. i \in 1 .. n /\ n - (k - 1) = i /\ n - k = i - 1 /\ k \in 0 .. n
    OBVIOUS
  <2>2. IsSlice(E[n - (k - 1)])
    BY <1>2
  <2> HIDE DEF i
  <2>3. IsSlice(E[i - 1])
    BY <2>1, <2>2, BeforeSlice DEF EncodingSteps
  <2> QED BY <2>1, <2>3
<1>3. \A k \in 0 .. n : k \in T
  <2> HIDE DEF T
  <2> QED BY <1>1, <1>2, Upwards
<1>4. ASSUME NEW i \in 0 .. n PROVE IsSlice(E[i])
  <2>1. n - i \in 0 .. n /\ n - (n - i) = i
    OBVIOUS
  <2>2. n - i \in T
    <3> HIDE DEF T
    <3> QED BY <1>3, <2>1
  <2>3. IsSlice(E[n - (n - i)])
    BY <2>2
  <2> QED BY <2>1, <2>3
<1> QED BY <1>4

LEMMA EncodingSlices ==
    ASSUME NEW values, NEW load, NEW n \in Nat, NEW E, IsEncoding(E, values, load, n), \A i \in 1 .. n : IsValue(values[i])
    PROVE  \A i \in 0 .. n : IsSlice(E[i])
BY EmptyFacts, PartSlices DEF IsEncoding

(* The builders after each value.                                           *)
BuilderSteps(bs, values, load, b, n) ==
    bs[0] = [full |-> <<>>, last |-> b] /\ \A i \in 1 .. n : bs[i] = Put(bs[i - 1], load[i], values[i])
IsBuilders(bs, values, load, b) ==
    bs = [n \in 0 .. Len(values) |-> IF n = 0 THEN [full |-> <<>>, last |-> b] ELSE Put(bs[n - 1], load[n], values[n])]

(* There are builders for every list of values ...                          *)
LEMMA BuildersExist ==
    ASSUME NEW values, NEW load, NEW b, NEW n \in Nat
    PROVE  \E bs : bs = [i \in 0 .. n |-> bs[i]] /\ BuilderSteps(bs, values, load, b, n)
<1> DEFINE Good(f, m) == f = [i \in 0 .. m |-> f[i]] /\ BuilderSteps(f, values, load, b, m)
           T == {m \in 0 .. n : \E f : Good(f, m)}
<1>1. 0 \in T
  <2> DEFINE f == [k \in 0 .. 0 |-> [full |-> <<>>, last |-> b]]
  <2>1. Good(f, 0)
    BY DEF BuilderSteps
  <2> HIDE DEF Good, f
  <2> QED BY <2>1
<1>2. ASSUME NEW m \in 1 .. n, m - 1 \in T PROVE m \in T
  <2>1. PICK f : Good(f, m - 1)
    BY <1>2
  <2> DEFINE x == Put(f[m - 1], load[m], values[m])
             g == [k \in 0 .. m |-> IF k < m THEN f[k] ELSE x]
  <2>2. g[0] = [full |-> <<>>, last |-> b] /\ g = [i \in 0 .. m |-> g[i]]
    BY <2>1 DEF BuilderSteps
  <2>3. ASSUME NEW k \in 1 .. m PROVE g[k] = Put(g[k - 1], load[k], values[k])
    <3>1. k - 1 \in 0 .. m /\ k - 1 < m /\ k \in 0 .. m
      OBVIOUS
    <3>2. g[k - 1] = f[k - 1]
      BY <3>1
    <3>3. CASE k < m
      <4>1. k \in 1 .. m - 1 /\ g[k] = f[k]
        BY <3>1, <3>3
      <4> HIDE DEF g
      <4> QED BY <2>1, <3>2, <4>1 DEF BuilderSteps
    <3>4. CASE k = m
      <4>1. g[k] = x
        BY <3>1, <3>4
      <4> HIDE DEF g
      <4> QED BY <3>2, <3>4, <4>1
    <3> QED BY <3>3, <3>4
  <2> HIDE DEF g
  <2>4. Good(g, m)
    BY <2>2, <2>3 DEF BuilderSteps
  <2> HIDE DEF Good
  <2> QED BY <2>4
<1>3. n \in T
  <2> HIDE DEF T
  <2>1. \A m \in 0 .. n : m \in T
    BY <1>1, <1>2, Upwards
  <2> QED BY <2>1
<1> QED BY <1>3

(* ... and Builders returns the last ones.                                  *)
LEMMA BuildersAre ==
    ASSUME NEW values, NEW load, NEW b, NEW n \in Nat, n = Len(values)
    PROVE  \E bs : BuilderSteps(bs, values, load, b, n) /\ Builders(values, load, b) = bs[n]
<1>1. PICK f : f = [i \in 0 .. n |-> f[i]] /\ BuilderSteps(f, values, load, b, n)
  BY BuildersExist
<1>2. IsBuilders(f, values, load, b)
  <2>1. ASSUME NEW i \in 0 .. n
        PROVE  f[i] = IF i = 0 THEN [full |-> <<>>, last |-> b] ELSE Put(f[i - 1], load[i], values[i])
    <3>1. i = 0 \/ i \in 1 .. n
      OBVIOUS
    <3> QED BY <1>1, <3>1 DEF BuilderSteps
  <2> QED BY <1>1, <2>1 DEF IsBuilders
<1> DEFINE F == CHOOSE bs : IsBuilders(bs, values, load, b)
<1>3. IsBuilders(F, values, load, b)
  BY <1>2, Zenon
<1>4. Builders(values, load, b) = F[n]
  BY DEF Builders, IsBuilders
<1> HIDE DEF F
<1>5. BuilderSteps(F, values, load, b, n)
  BY <1>3 DEF IsBuilders, BuilderSteps
<1> QED BY <1>4, <1>5

(* STBREFR from the last builder to the first.                              *)
IsChain(c, full, last) ==
    c = [n \in 0 .. Len(full) |-> IF n = 0 THEN last ELSE StoreRef(full[Len(full) + 1 - n], c[n - 1])]
ChainsTo(full, last, x) ==
    \E c : /\ c = [n \in 0 .. Len(full) |-> c[n]] /\ c[0] = last /\ c[Len(full)] = x
           /\ \A n \in 1 .. Len(full) : c[n] = StoreRef(full[Len(full) + 1 - n], c[n - 1])

(* A builder alone is chained already.                                      *)
LEMMA ChainOfNone ==
    ASSUME NEW x
    PROVE  ChainsTo(<<>>, x, x)
<1> DEFINE c == [n \in 0 .. 0 |-> x]
<1>1. Len(<<>>) = 0
  OBVIOUS
<1>2. c = [n \in 0 .. 0 |-> c[n]] /\ c[0] = x
  OBVIOUS
<1> HIDE DEF c
<1> QED BY <1>1, <1>2 DEF ChainsTo

(* One more full builder under the last.                                    *)
LEMMA ChainOfMore ==
    ASSUME NEW full, NEW b, NEW c, NEW x, IsList(full), ChainsTo(full, StoreRef(b, c), x)
    PROVE  ChainsTo(Append(full, b), c, x)
<1> DEFINE N == Len(full)
           more == Append(full, b)
<1>1. PICK f : /\ f = [n \in 0 .. N |-> f[n]] /\ f[0] = StoreRef(b, c) /\ f[N] = x
               /\ \A n \in 1 .. N : f[n] = StoreRef(full[N + 1 - n], f[n - 1])
  BY DEF ChainsTo
<1>2. N \in Nat /\ Len(more) = N + 1 /\ more[N + 1] = b /\ \A k \in 1 .. N : more[k] = full[k]
  <2>1. more = full \o <<b>> /\ N \in Nat /\ Len(<<b>>) = 1 /\ <<b>>[1] = b /\ IsList(<<b>>)
    BY AppendList, ListFacts, OneList
  <2> HIDE DEF more
  <2>2. Len(more) = N + 1 /\ \A k \in 1 .. N + 1 : more[k] = IF k <= N THEN full[k] ELSE <<b>>[k - N]
    BY <2>1, CatList
  <2> HIDE DEF N
  <2>3. N + 1 \in 1 .. N + 1 /\ ~(N + 1 <= N) /\ N + 1 - N = 1 /\ \A k \in 1 .. N : k \in 1 .. N + 1 /\ k <= N
    BY <2>1
  <2>4. more[N + 1] = <<b>>[1]
    <3> DEFINE one == <<b>>
               M == N + 1
    <3>1. \A k \in 1 .. M : more[k] = IF k <= N THEN full[k] ELSE one[k - N]
      BY <2>2
    <3>2. M \in 1 .. M /\ ~(M <= N) /\ M - N = 1
      BY <2>1
    <3> HIDE DEF one, M
    <3>3. more[M] = one[1]
      BY <3>1, <3>2
    <3> QED BY <3>3 DEF one, M
  <2> QED BY <2>1, <2>2, <2>3, <2>4
<1> HIDE DEF N, more
<1> DEFINE M == N + 1
<1>7. M \in Nat /\ M \in 0 .. M /\ M # 0 /\ M - 1 = N /\ 0 \in 0 .. M
  BY <1>2
<1> HIDE DEF M
<1> DEFINE g == [n \in 0 .. M |-> IF n = 0 THEN c ELSE f[n - 1]]
<1>3. g = [n \in 0 .. M |-> g[n]] /\ g[0] = c /\ g[M] = x
  <2>1. g[M] = f[M - 1] /\ g[0] = c /\ g = [n \in 0 .. M |-> g[n]]
    BY <1>7
  <2> HIDE DEF g
  <2> QED BY <1>1, <1>7, <2>1
<1>4. ASSUME NEW n \in 1 .. M PROVE g[n] = StoreRef(more[M + 1 - n], g[n - 1])
  <2>1. n \in 0 .. M /\ n # 0 /\ n - 1 \in 0 .. M
    BY <1>7
  <2>2. g[n] = f[n - 1] /\ g[n - 1] = IF n - 1 = 0 THEN c ELSE f[n - 1 - 1]
    BY <2>1
  <2> HIDE DEF g
  <2>3. CASE n = 1
    <3>1. g[n] = f[0] /\ g[n - 1] = c /\ M + 1 - n = M
      BY <1>7, <2>2, <2>3
    <3>2. more[M] = b
      BY <1>2 DEF M
    <3> QED BY <1>1, <3>1, <3>2
  <2>4. CASE n # 1
    <3> DEFINE m == n - 1
    <3>1. m \in 1 .. N /\ N + 1 - m \in 1 .. N /\ M + 1 - n = N + 1 - m /\ m # 0
      BY <1>2, <1>7, <2>4
    <3>2. g[n] = f[m] /\ g[n - 1] = f[m - 1]
      BY <2>2, <3>1
    <3> HIDE DEF m
    <3>3. f[m] = StoreRef(full[N + 1 - m], f[m - 1]) /\ more[N + 1 - m] = full[N + 1 - m]
      BY <1>1, <1>2, <3>1
    <3> QED BY <3>1, <3>2, <3>3
  <2> QED BY <2>3, <2>4
<1> HIDE DEF g
<1>5. Len(more) = M
  BY <1>2 DEF M
<1>6. ChainsTo(more, c, x)
  BY <1>3, <1>4, <1>5 DEF ChainsTo
<1> QED BY <1>6 DEF more

(* Chained computes what the builders chain to.                             *)
LEMMA ChainIs ==
    ASSUME NEW full, NEW last, NEW x, IsList(full), ChainsTo(full, last, x)
    PROVE  Chained(full, last) = x
<1> DEFINE N == Len(full)
           F == CHOOSE c : IsChain(c, full, last)
<1>1. PICK f : /\ f = [n \in 0 .. N |-> f[n]] /\ f[0] = last /\ f[N] = x
               /\ \A n \in 1 .. N : f[n] = StoreRef(full[N + 1 - n], f[n - 1])
  BY DEF ChainsTo
<1>2. N \in Nat
  BY ListFacts
<1>3. IsChain(f, full, last)
  <2>1. ASSUME NEW n \in 0 .. N PROVE f[n] = IF n = 0 THEN last ELSE StoreRef(full[N + 1 - n], f[n - 1])
    <3>1. n = 0 \/ n \in 1 .. N
      BY <1>2
    <3> HIDE DEF N
    <3> QED BY <1>1, <3>1
  <2> QED BY <1>1, <2>1 DEF IsChain
<1>4. IsChain(F, full, last)
  BY <1>3, Zenon
<1>5. Chained(full, last) = F[N]
  BY DEF Chained, IsChain
<1> HIDE DEF F
<1>6. F[0] = last /\ \A n \in 1 .. N : F[n] = StoreRef(full[N + 1 - n], F[n - 1])
  BY <1>2, <1>4 DEF IsChain
<1> HIDE DEF N
<1> DEFINE T == {n \in 0 .. N : F[n] = f[n]}
<1>7. 0 \in T
  BY <1>1, <1>2, <1>6
<1>8. ASSUME NEW n \in 1 .. N, n - 1 \in T PROVE n \in T
  <2>1. F[n - 1] = f[n - 1]
    BY <1>8
  <2>2. F[n] = f[n]
    BY <1>1, <1>6, <2>1
  <2> QED BY <1>2, <2>2
<1>9. N \in T
  <2> HIDE DEF T
  <2>1. \A n \in 0 .. N : n \in T
    BY <1>2, <1>7, <1>8, Upwards
  <2> QED BY <1>2, <2>1
<1> QED BY <1>1, <1>5, <1>9

(***************************************************************************)
(* Builders that have room take the encoding.  Room: the size that the     *)
(* last builder has after each value at most.                              *)
(***************************************************************************)
HasRoom(values, load, n, sb, sr) ==
    /\ sb \in [0 .. n -> Nat] /\ sr \in [0 .. n -> Nat] /\ sb[0] <= CellBits
    /\ \A i \in 1 .. n :
          /\ values[i].size.bits + (IF load[i] THEN 0 ELSE sb[i - 1]) <= sb[i] /\ sb[i] <= CellBits
          /\ values[i].size.refs + (IF load[i] THEN 0 ELSE sr[i - 1]) <= sr[i] /\ sr[i] <= CellRefs
          /\ load[i] => sr[i - 1] <= 3

Within(b, bits, refs) == IsSlice(b) /\ Bits(b) <= bits /\ Len(b.refs) <= refs

(* A value stored keeps within its bounds.                                  *)
LEMMA StoreWithin ==
    ASSUME NEW b, NEW v, NEW x \in Nat, NEW y \in Nat, NEW p \in Nat, NEW q \in Nat,
           Within(b, x, y), IsValue(v), v.size.bits + x <= p, p <= CellBits, v.size.refs + y <= q, q <= CellRefs
    PROVE  Store(b, v) = Cat(b, Ahead(v, Empty)) /\ Within(Store(b, v), p, q)
<1>1. Bits(b) \in Nat /\ Len(b.refs) \in Nat /\ v.size.bits \in Nat /\ v.size.refs \in Nat /\ Bits(b) <= x /\ Len(b.refs) <= y
  BY LengthsFacts DEF Within, IsValue
<1>2. Bits(b) + v.size.bits <= p /\ Len(b.refs) + v.size.refs <= q
  BY <1>1, SMTT(20)
<1>3. Bits(b) + v.size.bits <= CellBits /\ Len(b.refs) + v.size.refs <= CellRefs
  BY <1>1, <1>2, SMTT(20) DEF CellBits, CellRefs
<1>4. IsSlice(b)
  BY DEF Within
<1>5. Store(b, v) = Cat(b, Ahead(v, Empty))
  BY <1>3, <1>4, StoreIs
<1>6. IsSlice(Store(b, v)) /\ Bits(Store(b, v)) = Bits(b) + v.size.bits /\ Len(Store(b, v).refs) = Len(b.refs) + v.size.refs
  BY <1>4, <1>5, MoreBits
<1> QED BY <1>2, <1>5, <1>6 DEF Within

(* A value is put into the last builder, or into a new one: what the        *)
(* builders will be chained to with what follows stays the same.            *)
CanPut(bs, new, v, s, x, pb, pr, qb, qr) ==
    /\ pb \in Nat /\ pr \in Nat /\ qb \in Nat /\ qr \in Nat /\ new \in BOOLEAN
    /\ IsList(bs.full) /\ Within(bs.last, pb, pr) /\ pb <= CellBits /\ (new => pr <= 3)
    /\ v.size.bits + (IF new THEN 0 ELSE pb) <= qb /\ qb <= CellBits
    /\ v.size.refs + (IF new THEN 0 ELSE pr) <= qr /\ qr <= CellRefs
    /\ IsValue(v) /\ IsSlice(s) /\ ChainsTo(bs.full, Cat(bs.last, Before(v, new, s)), x)
IsPut(bs, s, x, qb, qr) ==
    IsList(bs.full) /\ Within(bs.last, qb, qr) /\ ChainsTo(bs.full, Cat(bs.last, s), x)

(* Put keeps it so.                                                         *)
LEMMA PutBehind ==
    ASSUME NEW bs, NEW v, NEW new, NEW s, NEW x, NEW pb, NEW pr, NEW qb, NEW qr, CanPut(bs, new, v, s, x, pb, pr, qb, qr)
    PROVE  IsPut(Put(bs, new, v), s, x, qb, qr)
<1> USE DEF CanPut
<1> DEFINE f == Ahead(v, Empty)
           b == bs.last
<1>1. IsSlice(f) /\ Cat(f, s) = Ahead(v, s) /\ IsSlice(Ahead(v, s))
  BY EmptyFacts, FrontSlice, CatFront
<1>2. IsSlice(b)
  BY DEF Within
<1>3. CASE ~new
  <2>1. Put(bs, new, v).full = bs.full /\ Put(bs, new, v).last = Store(b, v)
    BY <1>3 DEF Put
  <2>2. v.size.bits + pb <= qb /\ v.size.refs + pr <= qr
    BY <1>3
  <2> HIDE DEF b, f
  <2>3. Store(b, v) = Cat(b, f) /\ Within(Store(b, v), qb, qr)
    BY <2>2, StoreWithin DEF b, f
  <2>4. Cat(Cat(b, f), s) = Cat(b, Ahead(v, s))
    BY <1>1, <1>2, CatCat
  <2>5. ChainsTo(bs.full, Cat(b, Ahead(v, s)), x)
    BY <1>3 DEF Before, b
  <2> QED BY <2>1, <2>3, <2>4, <2>5 DEF IsPut
<1>4. CASE new
  <2>1. Put(bs, new, v).full = Append(bs.full, b) /\ Put(bs, new, v).last = Store(Empty, v)
    BY <1>4 DEF Put
  <2> HIDE DEF b, f
  <2>2. Store(Empty, v) = f /\ Within(Store(Empty, v), qb, qr)
    <3>1. Within(Empty, 0, 0)
      BY EmptyFacts DEF Within
    <3>2. v.size.bits + 0 <= qb /\ v.size.refs + 0 <= qr
      BY <1>4
    <3>3. Store(Empty, v) = Cat(Empty, f) /\ Within(Store(Empty, v), qb, qr)
      BY <3>1, <3>2, StoreWithin DEF f
    <3> QED BY <1>1, <3>3, CatEmpty
  <2>3. StoreRef(b, Ahead(v, s)) = Cat(b, OneCell(Ahead(v, s)))
    <3>1. Ahead(v, s) # Broken
      BY NotBroken DEF Ahead
    <3>2. Bits(b) <= CellBits /\ Len(b.refs) <= 3
      <4>1. Bits(b) \in Nat /\ Len(b.refs) \in Nat
        BY <1>2, LengthsFacts
      <4>2. Bits(b) <= pb /\ Len(b.refs) <= pr /\ pr <= 3
        BY <1>4 DEF Within, b
      <4> QED BY <4>1, <4>2 DEF CellBits
    <3> QED BY <1>2, <3>1, <3>2, StoreRefIs
  <2>4. ChainsTo(bs.full, StoreRef(b, Ahead(v, s)), x)
    BY <1>4, <2>3 DEF Before, b
  <2>5. ChainsTo(Append(bs.full, b), Ahead(v, s), x)
    BY <2>4, ChainOfMore
  <2>6. IsList(Append(bs.full, b))
    <3>1. IsList(<<b>>) /\ Append(bs.full, b) = bs.full \o <<b>>
      BY AppendList, OneList
    <3> QED BY <3>1, CatList
  <2> QED BY <1>1, <2>1, <2>2, <2>5, <2>6 DEF IsPut
<1> QED BY <1>3, <1>4

(* All values: what follows them can be put behind the builders.            *)
LEMMA PartEncoded ==
    ASSUME NEW values, NEW load, NEW b, NEW n \in Nat, n = Len(values), NEW E, NEW sb, NEW sr,
           EncodingSteps(E, values, load, n), IsSlice(E[n]), HasRoom(values, load, n, sb, sr), Within(b, sb[0], sr[0]),
           \A i \in 1 .. n : IsValue(values[i]) /\ load[i] \in BOOLEAN
    PROVE  /\ IsPut(Builders(values, load, b), E[n], Cat(b, E[0]), sb[n], sr[n])
           /\ (\A i \in 1 .. n : load[i] = FALSE) => Builders(values, load, b).full = <<>>
<1>1. PICK bs : BuilderSteps(bs, values, load, b, n) /\ Builders(values, load, b) = bs[n]
  BY BuildersAre
<1>2. \A i \in 0 .. n : IsSlice(E[i])
  BY PartSlices
<1> DEFINE x == Cat(b, E[0])
           none == \A i \in 1 .. n : load[i] = FALSE
           Good(i) == IsList(bs[i].full) /\ Within(bs[i].last, sb[i], sr[i]) /\ ChainsTo(bs[i].full, Cat(bs[i].last, E[i]), x)
           T == {i \in 0 .. n : Good(i) /\ (none => bs[i].full = <<>>)}
<1>3. 0 \in T
  <2>1. bs[0].full = <<>> /\ bs[0].last = b
    BY <1>1 DEF BuilderSteps
  <2>2. Good(0)
    BY <2>1, EmptyList, ChainOfNone
  <2> QED BY <2>1, <2>2
<1>4. ASSUME NEW i \in 1 .. n, i - 1 \in T PROVE i \in T
  <2>1. Good(i - 1)
    BY <1>4
  <2>2. bs[i] = Put(bs[i - 1], load[i], values[i])
    BY <1>1 DEF BuilderSteps
  <2>3. i - 1 \in 0 .. n /\ i \in 0 .. n /\ IsSlice(E[i]) /\ IsValue(values[i]) /\ load[i] \in BOOLEAN
    BY <1>2
  <2>4. sb[i - 1] \in Nat /\ sr[i - 1] \in Nat /\ sb[i] \in Nat /\ sr[i] \in Nat
    BY <2>3 DEF HasRoom
  <2>5. /\ values[i].size.bits + (IF load[i] THEN 0 ELSE sb[i - 1]) <= sb[i] /\ sb[i] <= CellBits
        /\ values[i].size.refs + (IF load[i] THEN 0 ELSE sr[i - 1]) <= sr[i] /\ sr[i] <= CellRefs
        /\ load[i] => sr[i - 1] <= 3
    BY DEF HasRoom
  <2>6. sb[i - 1] <= CellBits
    <3>1. i - 1 = 0 \/ i - 1 \in 1 .. n
      OBVIOUS
    <3> QED BY <3>1 DEF HasRoom
  <2>7. E[i - 1] = Before(values[i], load[i], E[i])
    BY DEF EncodingSteps
  <2> HIDE DEF x
  <2>8. ChainsTo(bs[i - 1].full, Cat(bs[i - 1].last, Before(values[i], load[i], E[i])), x)
    BY <2>1, <2>7
  <2>9. Good(i)
    <3> DEFINE p == bs[i - 1]
               a == bs[i]
               v == values[i]
               new == load[i]
               s == E[i]
               pb == sb[i - 1]
               pr == sr[i - 1]
               qb == sb[i]
               qr == sr[i]
    <3>1. a = Put(p, new, v) /\ IsSlice(s) /\ IsValue(v) /\ new \in BOOLEAN
      BY <2>2, <2>3
    <3>2. pb \in Nat /\ pr \in Nat /\ qb \in Nat /\ qr \in Nat
      BY <2>4
    <3>3. /\ v.size.bits + (IF new THEN 0 ELSE pb) <= qb /\ qb <= CellBits
          /\ v.size.refs + (IF new THEN 0 ELSE pr) <= qr /\ qr <= CellRefs
          /\ new => pr <= 3
      BY <2>5
    <3>4. pb <= CellBits /\ ChainsTo(p.full, Cat(p.last, Before(v, new, s)), x)
      BY <2>6, <2>8
    <3>5. IsList(p.full) /\ Within(p.last, pb, pr)
      BY <2>1
    <3> HIDE DEF p, a, v, new, s, pb, pr, qb, qr
    <3>6. CanPut(p, new, v, s, x, pb, pr, qb, qr)
      BY <3>1, <3>2, <3>3, <3>4, <3>5 DEF CanPut
    <3>7. IsPut(a, s, x, qb, qr)
      BY <3>1, <3>6, PutBehind
    <3> QED BY <3>7 DEF IsPut, a, s, qb, qr
  <2>10. ASSUME none PROVE bs[i].full = <<>>
    <3>1. bs[i - 1].full = <<>> /\ load[i] = FALSE
      BY <1>4, <2>10
    <3> QED BY <2>2, <3>1 DEF Put
  <2> HIDE DEF none
  <2> QED BY <2>3, <2>9, <2>10
<1>5. n \in T
  <2> HIDE DEF T
  <2>1. \A i \in 0 .. n : i \in T
    BY <1>3, <1>4, Upwards
  <2> QED BY <2>1
<1>6. Good(n) /\ (none => bs[n].full = <<>>)
  BY <1>5
<1> QED BY <1>1, <1>6 DEF IsPut

(* The encoding is put behind what the builder held.                        *)
LEMMA Encoded ==
    ASSUME NEW values, NEW load, NEW b, NEW n \in Nat, n = Len(values), NEW E, NEW sb, NEW sr,
           IsEncoding(E, values, load, n), HasRoom(values, load, n, sb, sr), Within(b, sb[0], sr[0]),
           \A i \in 1 .. n : IsValue(values[i]) /\ load[i] \in BOOLEAN
    PROVE  encodeParameters(values, load, b) = Cat(b, E[0])
<1> DEFINE bs == Builders(values, load, b)
           x == Cat(b, E[0])
<1>1. EncodingSteps(E, values, load, n) /\ E[n] = Empty /\ IsSlice(E[n])
  BY EmptyFacts DEF IsEncoding
<1>2. IsPut(bs, E[n], x, sb[n], sr[n])
  BY <1>1, PartEncoded
<1>3. encodeParameters(values, load, b) = Chained(bs.full, bs.last)
  BY DEF encodeParameters
<1> HIDE DEF bs, x
<1>4. IsSlice(bs.last) /\ IsList(bs.full) /\ ChainsTo(bs.full, Cat(bs.last, Empty), x)
  BY <1>1, <1>2 DEF IsPut, Within
<1>5. ChainsTo(bs.full, bs.last, x)
  BY <1>4, CatEmpty
<1>6. Chained(bs.full, bs.last) = x
  BY <1>4, <1>5, ChainIs
<1> QED BY <1>3, <1>6 DEF x

(***************************************************************************)
(* decodeParameters reads what was encoded.                                *)
(***************************************************************************)
IsDecoding(d, types, load, slice) ==
    d = [n \in 0 .. Len(types) |-> IF n = 0 THEN [values |-> <<>>, rest |-> slice] ELSE Read(types[n], load[n], d[n - 1])]

(* The first i values, one by one.                                          *)
LEMMA FirstOfList ==
    ASSUME NEW s, IsList(s), NEW i \in 1 .. Len(s)
    PROVE  /\ Append(SubSeq(s, 1, i - 1), s[i]) = SubSeq(s, 1, i) /\ SubSeq(s, 1, 0) = <<>> /\ SubSeq(s, 1, Len(s)) = s
<1>1. PICK V : s \in Seq(V)
  BY DEF IsList
<1>2. 1 \in 1 .. Len(s) /\ i \in 1 .. Len(s) /\ Len(s) \in Nat
  BY <1>1
<1>3. SubSeq(s, 1, i) = SubSeq(s, 1, i - 1) \o <<s[i]>>
  BY <1>1, <1>2, SubSeqRecursiveSecond
<1>4. IsList(SubSeq(s, 1, i - 1))
  <2>1. \A k \in 1 .. i - 1 : s[k] \in V
    BY <1>1, <1>2
  <2>2. SubSeq(s, 1, i - 1) \in Seq(V)
    BY <1>2, <2>1, SubSeqProperties
  <2> QED BY <2>2 DEF IsList
<1>5. SubSeq(s, 1, 0) = <<>>
  BY SubSeqEmpty
<1>6. SubSeq(s, 1, Len(s)) = s
  BY <1>1, SubSeqFull
<1> QED BY <1>3, <1>4, <1>5, <1>6, AppendList

(* One value is read, in the next cell if one begins there.                 *)
LEMMA ReadStep ==
    ASSUME NEW t, NEW new \in BOOLEAN, NEW v, NEW s, NEW before, Stored(v, t), IsSlice(s)
    PROVE  Read(t, new, [values |-> before, rest |-> Before(v, new, s)]) = [values |-> Append(before, v), rest |-> s]
<1> DEFINE f == Ahead(v, s)
           st == [values |-> before, rest |-> Before(v, new, s)]
           l == [value |-> v, rest |-> s]
<1>1. IsSlice(f) /\ Load(t, f) = l
  BY FrontSlice, LoadFront DEF Stored
<1>2. st.values = before /\ st.rest = IF new THEN OneCell(f) ELSE f
  BY DEF Before
<1>3. (IF new THEN loadNextSlice(st.rest) ELSE st.rest) = f
  BY <1>1, <1>2, LoadCell
<1>4. l # Broken
  <2>1. DOMAIN l = {"value", "rest"} /\ DOMAIN Broken = {"broken"}
    BY DEF Broken
  <2>2. {"value", "rest"} # {"broken"}
    OBVIOUS
  <2> QED BY <2>1, <2>2
<1> HIDE DEF f, st
<1>5. Read(t, new, st) = [values |-> Append(before, v), rest |-> s]
  BY <1>1, <1>2, <1>3, <1>4, SMTT(20) DEF Read
<1> QED BY <1>5 DEF st

(* All values are read off the encoding and what follows them is left.      *)
PartToRead(types, load, values, n, E, slice) ==
    /\ n \in Nat /\ n = Len(types) /\ n = Len(values) /\ IsList(values) /\ EncodingSteps(E, values, load, n)
    /\ IsSlice(E[n]) /\ slice = E[0]
    /\ \A i \in 1 .. n : Stored(values[i], types[i]) /\ load[i] \in BOOLEAN

LEMMA PartIsRead ==
    ASSUME NEW types, NEW load, NEW values, NEW n, NEW E, NEW slice, PartToRead(types, load, values, n, E, slice)
    PROVE  decodeParameters(types, load, slice) = [values |-> values, rest |-> E[n]]
<1> USE DEF PartToRead
<1> DEFINE f == [i \in 0 .. n |-> [values |-> SubSeq(values, 1, i), rest |-> E[i]]]
           F == CHOOSE d : IsDecoding(d, types, load, E[0])
<1>1. \A i \in 0 .. n : IsSlice(E[i])
  BY PartSlices DEF Stored
<1>2. f[0] = [values |-> <<>>, rest |-> E[0]]
  <2>1. SubSeq(values, 1, 0) = <<>>
    BY SubSeqEmpty
  <2> QED BY <2>1
<1>3. ASSUME NEW i \in 1 .. n PROVE f[i] = Read(types[i], load[i], f[i - 1])
  <2>1. i \in 0 .. n /\ i - 1 \in 0 .. n /\ i \in 1 .. Len(values)
    OBVIOUS
  <2>2. f[i] = [values |-> SubSeq(values, 1, i), rest |-> E[i]] /\ f[i - 1] = [values |-> SubSeq(values, 1, i - 1), rest |-> E[i - 1]]
    BY <2>1
  <2> HIDE DEF f
  <2>3. E[i - 1] = Before(values[i], load[i], E[i]) /\ IsSlice(E[i]) /\ Stored(values[i], types[i]) /\ load[i] \in BOOLEAN
    BY <1>1, <2>1 DEF EncodingSteps
  <2>4. Append(SubSeq(values, 1, i - 1), values[i]) = SubSeq(values, 1, i)
    BY <2>1, FirstOfList
  <2>5. Read(types[i], load[i], [values |-> SubSeq(values, 1, i - 1), rest |-> Before(values[i], load[i], E[i])])
          = [values |-> Append(SubSeq(values, 1, i - 1), values[i]), rest |-> E[i]]
    <3> DEFINE t == types[i]
               new == load[i]
               v == values[i]
               s == E[i]
               before == SubSeq(values, 1, i - 1)
    <3>1. Stored(v, t) /\ IsSlice(s) /\ new \in BOOLEAN
      BY <2>3
    <3> HIDE DEF t, new, v, s, before
    <3>2. Read(t, new, [values |-> before, rest |-> Before(v, new, s)]) = [values |-> Append(before, v), rest |-> s]
      BY <3>1, ReadStep
    <3> QED BY <3>2 DEF t, new, v, s, before
  <2> QED BY <2>2, <2>3, <2>4, <2>5
<1>4. f[n] = [values |-> values, rest |-> E[n]]
  <2>1. SubSeq(values, 1, n) = values
    <3>1. PICK V : values \in Seq(V)
      BY DEF IsList
    <3> QED BY <3>1, SubSeqFull
  <2> QED BY <2>1
<1>5. f = [i \in 0 .. n |-> f[i]]
  OBVIOUS
<1> HIDE DEF f
<1>6. IsDecoding(f, types, load, E[0])
  <2>1. ASSUME NEW i \in 0 .. n
        PROVE  f[i] = IF i = 0 THEN [values |-> <<>>, rest |-> E[0]] ELSE Read(types[i], load[i], f[i - 1])
    <3>1. i = 0 \/ i \in 1 .. n
      OBVIOUS
    <3> QED BY <1>2, <1>3, <3>1
  <2> QED BY <1>5, <2>1 DEF IsDecoding
<1>7. IsDecoding(F, types, load, E[0])
  BY <1>6, Zenon
<1>8. decodeParameters(types, load, E[0]) = F[n]
  BY DEF decodeParameters, IsDecoding
<1> HIDE DEF F
<1>9. F[0] = [values |-> <<>>, rest |-> E[0]] /\ \A i \in 1 .. n : F[i] = Read(types[i], load[i], F[i - 1])
  <2> DEFINE first == [values |-> <<>>, rest |-> E[0]]
  <2>1. F = [i \in 0 .. n |-> IF i = 0 THEN first ELSE Read(types[i], load[i], F[i - 1])]
    BY <1>7 DEF IsDecoding
  <2> HIDE DEF first
  <2>2. F[0] = first /\ \A i \in 1 .. n : F[i] = Read(types[i], load[i], F[i - 1])
    BY <2>1
  <2> QED BY <2>2 DEF first
<1> DEFINE T == {i \in 0 .. n : F[i] = f[i]}
<1>10. 0 \in T
  BY <1>2, <1>9
<1>11. ASSUME NEW i \in 1 .. n, i - 1 \in T PROVE i \in T
  <2>1. F[i - 1] = f[i - 1]
    BY <1>11
  <2>2. F[i] = f[i]
    BY <1>3, <1>9, <2>1
  <2> QED BY <2>2
<1>12. n \in T
  <2> HIDE DEF T
  <2>1. \A i \in 0 .. n : i \in T
    BY <1>10, <1>11, Upwards
  <2> QED BY <2>1
<1> QED BY <1>4, <1>8, <1>12

(* If nothing follows, nothing is left.                                     *)
LEMMA Decoded ==
    ASSUME NEW types, NEW load, NEW values, NEW n \in Nat, n = Len(types), n = Len(values), IsList(values),
           NEW E, IsEncoding(E, values, load, n), \A i \in 1 .. n : Stored(values[i], types[i]) /\ load[i] \in BOOLEAN
    PROVE  decodeParameters(types, load, E[0]) = [values |-> values, rest |-> Empty]
<1>1. EncodingSteps(E, values, load, n) /\ E[n] = Empty /\ IsSlice(E[n])
  BY EmptyFacts DEF IsEncoding
<1>2. PartToRead(types, load, values, n, E, E[0])
  BY <1>1 DEF PartToRead
<1> QED BY <1>1, <1>2, PartIsRead

(***************************************************************************)
(* AbiV2Position: before which values a cell begins.                       *)
(***************************************************************************)
Backwards(w, n, i) == [k \in 1 .. n + 1 - i |-> w[n + 1 - k]]

(* Sums from the last number on.                                            *)
LEMMA SumBackwards ==
    ASSUME NEW n \in Nat, NEW w \in [1 .. n -> Nat]
    PROVE  /\ \A i \in 1 .. n + 1 : Total(Backwards(w, n, i)) \in Nat
           /\ Total(Backwards(w, n, n + 1)) = 0
           /\ \A i \in 1 .. n : Total(Backwards(w, n, i)) = w[i] + Total(Backwards(w, n, i + 1))
<1> DEFINE L(i) == Backwards(w, n, i)
<1> USE DEF Backwards
<1>2. \A i \in 1 .. n : w[i] \in Nat
  OBVIOUS
<1>4. ASSUME NEW i \in 1 .. n + 1
      PROVE  L(i) \in Seq(Nat) /\ Len(L(i)) = n + 1 - i /\ \A k \in 1 .. n + 1 - i : L(i)[k] = w[n + 1 - k]
  <2> DEFINE m == n + 1 - i
  <2>1. m \in Nat
    OBVIOUS
  <2>2. ASSUME NEW k \in 1 .. m PROVE w[n + 1 - k] \in Nat
    <3>1. n + 1 - k \in 1 .. n
      OBVIOUS
    <3> QED BY <1>2, <3>1
  <2> HIDE DEF m
  <2>3. [k \in 1 .. m |-> w[n + 1 - k]] \in [1 .. m -> Nat]
    BY <2>2
  <2>4. [k \in 1 .. m |-> w[n + 1 - k]] \in Seq(Nat) /\ Len([k \in 1 .. m |-> w[n + 1 - k]]) = m
    BY <2>1, <2>3
  <2> QED BY <2>4 DEF m
<1>5. ASSUME NEW i \in 1 .. n PROVE Total(L(i)) = w[i] + Total(L(i + 1)) /\ Total(L(i)) \in Nat
  <2> DEFINE a == L(i)
             z == L(i + 1)
             x == w[i]
             m == n - i
  <2>1. i \in 1 .. n + 1 /\ i + 1 \in 1 .. n + 1 /\ n + 1 - i = m + 1 /\ n + 1 - (i + 1) = m /\ m \in Nat /\ n + 1 - (m + 1) = i
    OBVIOUS
  <2>2. a \in Seq(Nat) /\ Len(a) = m + 1 /\ \A k \in 1 .. m + 1 : a[k] = w[n + 1 - k]
    <3> HIDE DEF L, m
    <3> QED BY <1>4, <2>1
  <2>3. z \in Seq(Nat) /\ Len(z) = m /\ \A k \in 1 .. m : z[k] = w[n + 1 - k]
    <3> HIDE DEF L, m
    <3> QED BY <1>4, <2>1
  <2>4. x \in Nat
    BY <1>2
  <2> HIDE DEF a, z, m, x, L
  <2>5. Append(z, x) \in Seq(Nat) /\ Len(Append(z, x)) = m + 1 /\ Append(z, x)[m + 1] = x /\ \A k \in 1 .. m : Append(z, x)[k] = z[k]
    BY <2>3, <2>4
  <2>6. ASSUME NEW k \in 1 .. m + 1 PROVE a[k] = Append(z, x)[k]
    <3>1. k \in 1 .. m \/ k = m + 1
      BY <2>1
    <3>2. CASE k \in 1 .. m
      BY <2>2, <2>3, <2>5, <3>2
    <3>3. CASE k = m + 1
      <4>1. a[k] = w[i]
        BY <2>1, <2>2, <3>3
      <4> QED BY <2>5, <3>3, <4>1 DEF x
    <3> QED BY <3>1, <3>2, <3>3
  <2>7. a = Append(z, x)
    BY <2>2, <2>5, <2>6, SeqEqual
  <2>8. Total(a) = Total(z) + x /\ Total(z) \in Nat
    BY <2>3, <2>4, <2>7, TotalMore
  <2> QED BY <2>4, <2>8 DEF a, z, x
<1>6. n + 1 \in 1 .. n + 1 /\ n + 1 - (n + 1) = 0
  OBVIOUS
<1>7. Total(L(n + 1)) = 0
  <2> HIDE DEF L
  <2> QED BY <1>4, <1>6, TotalNothing
<1> HIDE DEF L
<1>8. ASSUME NEW i \in 1 .. n + 1 PROVE Total(L(i)) \in Nat
  <2>1. i \in 1 .. n \/ i = n + 1
    OBVIOUS
  <2> QED BY <1>5, <1>7, <2>1
<1> QED BY <1>5, <1>7, <1>8 DEF L

(* sufBits and sufRefs, from one type to the one before it.                 *)
LEMMA SufBits ==
    ASSUME NEW types \in Seq(TypeSizes), NEW n, n = Len(types)
    PROVE  /\ n \in Nat /\ \A i \in 1 .. n + 1 : sufBits(types, i) \in Nat
           /\ sufBits(types, n + 1) = 0
           /\ \A i \in 1 .. n : types[i].bits \in Nat /\ types[i].bits <= CellBits /\ sufBits(types, i) = types[i].bits + sufBits(types, i + 1)
<1> DEFINE w == [i \in 1 .. n |-> types[i].bits]
<1>1. n \in Nat
  OBVIOUS
<1>2. ASSUME NEW i \in 1 .. n PROVE types[i].bits \in Nat /\ types[i].bits <= CellBits
  <2>1. types[i] \in TypeSizes
    OBVIOUS
  <2>2. types[i].bits \in 0 .. CellBits
    BY <2>1 DEF TypeSizes
  <2>3. CellBits \in Nat
    BY DEF CellBits
  <2> QED BY <2>2, <2>3
<1>3. w \in [1 .. n -> Nat] /\ \A i \in 1 .. n : w[i] = types[i].bits
  BY <1>2
<1>4. ASSUME NEW i \in 1 .. n + 1 PROVE sufBits(types, i) = Total(Backwards(w, n, i))
  <2>1. ASSUME NEW k \in 1 .. n + 1 - i PROVE w[n + 1 - k] = types[n + 1 - k].bits
    <3>1. n + 1 - k \in 1 .. n
      BY <1>1
    <3> HIDE DEF w
    <3> QED BY <1>3, <3>1
  <2> HIDE DEF w
  <2>2. Backwards(w, n, i) = [k \in 1 .. n + 1 - i |-> types[n + 1 - k].bits]
    BY <2>1 DEF Backwards
  <2> QED BY <2>2 DEF sufBits
<1> HIDE DEF w
<1>5. n + 1 \in 1 .. n + 1 /\ \A i \in 1 .. n : i \in 1 .. n + 1 /\ i + 1 \in 1 .. n + 1
  BY <1>1
<1>6. /\ \A i \in 1 .. n + 1 : Total(Backwards(w, n, i)) \in Nat
      /\ Total(Backwards(w, n, n + 1)) = 0
      /\ \A i \in 1 .. n : Total(Backwards(w, n, i)) = w[i] + Total(Backwards(w, n, i + 1))
  BY <1>1, <1>3, SumBackwards
<1>7. \A i \in 1 .. n + 1 : sufBits(types, i) \in Nat
  BY <1>4, <1>6
<1>8. sufBits(types, n + 1) = 0
  BY <1>4, <1>5, <1>6
<1>9. ASSUME NEW i \in 1 .. n PROVE sufBits(types, i) = types[i].bits + sufBits(types, i + 1)
  BY <1>3, <1>4, <1>5, <1>6
<1> QED BY <1>1, <1>2, <1>7, <1>8, <1>9

(* The same of references.                                                  *)
LEMMA SufRefs ==
    ASSUME NEW types \in Seq(TypeSizes), NEW n, n = Len(types)
    PROVE  /\ n \in Nat /\ \A i \in 1 .. n + 1 : sufRefs(types, i) \in Nat
           /\ sufRefs(types, n + 1) = 0
           /\ \A i \in 1 .. n : types[i].refs \in Nat /\ types[i].refs <= 3 /\ sufRefs(types, i) = types[i].refs + sufRefs(types, i + 1)
<1> DEFINE w == [i \in 1 .. n |-> types[i].refs]
<1>1. n \in Nat
  OBVIOUS
<1>2. ASSUME NEW i \in 1 .. n PROVE types[i].refs \in Nat /\ types[i].refs <= 3
  <2>1. types[i] \in TypeSizes
    OBVIOUS
  <2>2. types[i].refs \in 0 .. 3
    BY <2>1 DEF TypeSizes
  <2> QED BY <2>2
<1>3. w \in [1 .. n -> Nat] /\ \A i \in 1 .. n : w[i] = types[i].refs
  BY <1>2
<1>4. ASSUME NEW i \in 1 .. n + 1 PROVE sufRefs(types, i) = Total(Backwards(w, n, i))
  <2>1. ASSUME NEW k \in 1 .. n + 1 - i PROVE w[n + 1 - k] = types[n + 1 - k].refs
    <3>1. n + 1 - k \in 1 .. n
      BY <1>1
    <3> HIDE DEF w
    <3> QED BY <1>3, <3>1
  <2> HIDE DEF w
  <2>2. Backwards(w, n, i) = [k \in 1 .. n + 1 - i |-> types[n + 1 - k].refs]
    BY <2>1 DEF Backwards
  <2> QED BY <2>2 DEF sufRefs
<1> HIDE DEF w
<1>5. n + 1 \in 1 .. n + 1 /\ \A i \in 1 .. n : i \in 1 .. n + 1 /\ i + 1 \in 1 .. n + 1
  BY <1>1
<1>6. /\ \A i \in 1 .. n + 1 : Total(Backwards(w, n, i)) \in Nat
      /\ Total(Backwards(w, n, n + 1)) = 0
      /\ \A i \in 1 .. n : Total(Backwards(w, n, i)) = w[i] + Total(Backwards(w, n, i + 1))
  BY <1>1, <1>3, SumBackwards
<1>7. \A i \in 1 .. n + 1 : sufRefs(types, i) \in Nat
  BY <1>4, <1>6
<1>8. sufRefs(types, n + 1) = 0
  BY <1>4, <1>5, <1>6
<1>9. ASSUME NEW i \in 1 .. n PROVE sufRefs(types, i) = types[i].refs + sufRefs(types, i + 1)
  BY <1>3, <1>4, <1>5, <1>6
<1> QED BY <1>1, <1>2, <1>7, <1>8, <1>9

(* The position after each value.                                           *)
Start(bits, refs) == [bits |-> bits, refs |-> refs, load |-> <<>>, ok |-> TRUE]
PositionSteps(pos, types, bits, refs, n) ==
    pos[0] = Start(bits, refs) /\ \A i \in 1 .. n : pos[i] = Placed(types, i, pos[i - 1])
IsPosition(pos, types, bits, refs) ==
    pos = [n \in 0 .. Len(types) |-> IF n = 0 THEN Start(bits, refs) ELSE Placed(types, n, pos[n - 1])]

(* There are positions for every list of types ...                          *)
LEMMA PositionExists ==
    ASSUME NEW types, NEW bits, NEW refs, NEW n \in Nat
    PROVE  \E pos : pos = [i \in 0 .. n |-> pos[i]] /\ PositionSteps(pos, types, bits, refs, n)
<1> DEFINE Good(f, m) == f = [i \in 0 .. m |-> f[i]] /\ PositionSteps(f, types, bits, refs, m)
           T == {m \in 0 .. n : \E f : Good(f, m)}
<1>1. 0 \in T
  <2> DEFINE f == [k \in 0 .. 0 |-> Start(bits, refs)]
  <2>1. Good(f, 0)
    BY DEF PositionSteps
  <2> HIDE DEF Good, f
  <2> QED BY <2>1
<1>2. ASSUME NEW m \in 1 .. n, m - 1 \in T PROVE m \in T
  <2>1. PICK f : Good(f, m - 1)
    BY <1>2
  <2> DEFINE x == Placed(types, m, f[m - 1])
             g == [k \in 0 .. m |-> IF k < m THEN f[k] ELSE x]
  <2>2. g[0] = Start(bits, refs) /\ g = [i \in 0 .. m |-> g[i]]
    BY <2>1 DEF PositionSteps
  <2>3. ASSUME NEW k \in 1 .. m PROVE g[k] = Placed(types, k, g[k - 1])
    <3>1. k - 1 \in 0 .. m /\ k - 1 < m /\ k \in 0 .. m
      OBVIOUS
    <3>2. g[k - 1] = f[k - 1]
      BY <3>1
    <3>3. CASE k < m
      <4>1. k \in 1 .. m - 1 /\ g[k] = f[k]
        BY <3>1, <3>3
      <4> HIDE DEF g
      <4> QED BY <2>1, <3>2, <4>1 DEF PositionSteps
    <3>4. CASE k = m
      <4>1. g[k] = x
        BY <3>1, <3>4
      <4> HIDE DEF g
      <4> QED BY <3>2, <3>4, <4>1
    <3> QED BY <3>3, <3>4
  <2> HIDE DEF g
  <2>4. Good(g, m)
    BY <2>2, <2>3 DEF PositionSteps
  <2> HIDE DEF Good
  <2> QED BY <2>4
<1>3. n \in T
  <2> HIDE DEF T
  <2>1. \A m \in 0 .. n : m \in T
    BY <1>1, <1>2, Upwards
  <2> QED BY <2>1
<1> QED BY <1>3

(* ... and AbiV2Position returns the last one.                              *)
LEMMA PositionIs ==
    ASSUME NEW types, NEW bits, NEW refs, NEW n \in Nat, n = Len(types)
    PROVE  \E pos : PositionSteps(pos, types, bits, refs, n) /\ AbiV2Position(types, bits, refs) = pos[n]
<1>1. PICK f : f = [i \in 0 .. n |-> f[i]] /\ PositionSteps(f, types, bits, refs, n)
  BY PositionExists
<1>2. IsPosition(f, types, bits, refs)
  <2>1. ASSUME NEW i \in 0 .. n
        PROVE  f[i] = IF i = 0 THEN Start(bits, refs) ELSE Placed(types, i, f[i - 1])
    <3>1. i = 0 \/ i \in 1 .. n
      OBVIOUS
    <3> QED BY <1>1, <3>1 DEF PositionSteps
  <2> QED BY <1>1, <2>1 DEF IsPosition
<1> DEFINE F == CHOOSE pos : IsPosition(pos, types, bits, refs)
<1>3. IsPosition(F, types, bits, refs)
  BY <1>2, Zenon
<1>4. AbiV2Position(types, bits, refs) = F[n]
  BY DEF AbiV2Position, Start, IsPosition
<1> HIDE DEF F
<1>5. PositionSteps(F, types, bits, refs, n)
  BY <1>3 DEF IsPosition, PositionSteps
<1> QED BY <1>4, <1>5

(* A cell begins before the i-th value, bits and refs being in use.         *)
Begins(types, i, bits, refs) ==
    ~RestFits(types, i, bits, refs) /\ NeedsCell(bits + types[i].bits, refs + types[i].refs)

Positions(types, load, pb, pr, n) ==
    /\ pb \in [0 .. n -> Nat] /\ pr \in [0 .. n -> Nat] /\ load = [i \in 1 .. n |-> load[i]]
    /\ \A i \in 1 .. n :
          /\ load[i] = Begins(types, i, pb[i - 1], pr[i - 1])
          /\ pb[i] = types[i].bits + (IF load[i] THEN 0 ELSE pb[i - 1])
          /\ pr[i] = types[i].refs + (IF load[i] THEN 0 ELSE pr[i - 1])

(* What Placed changes.                                                     *)
LEMMA PlacedIs ==
    ASSUME NEW types, NEW i, NEW st, NEW new, new = Begins(types, i, st.bits, st.refs)
    PROVE  /\ Placed(types, i, st).load = Append(st.load, new)
           /\ Placed(types, i, st).bits = types[i].bits + (IF new THEN 0 ELSE st.bits)
           /\ Placed(types, i, st).refs = types[i].refs + (IF new THEN 0 ELSE st.refs)
BY DEF Placed, Begins

(* Where cells begin, and how full they are after each value.               *)
LEMMA PositionFacts ==
    ASSUME NEW types \in Seq(TypeSizes), NEW n, n = Len(types), NEW bits \in Nat, NEW refs \in Nat
    PROVE  \E pb, pr : pb[0] = bits /\ pr[0] = refs /\ Positions(types, doLoadNextCell(types, bits, refs), pb, pr, n)
<1>1. n \in Nat /\ \A i \in 1 .. n : types[i].bits \in Nat /\ types[i].refs \in Nat
  <2>1. CellBits \in Nat
    BY DEF CellBits
  <2> QED BY <2>1, SufBits, SufRefs
<1>2. PICK pos : PositionSteps(pos, types, bits, refs, n) /\ AbiV2Position(types, bits, refs) = pos[n]
  BY <1>1, PositionIs
<1> DEFINE New(i) == Begins(types, i, pos[i - 1].bits, pos[i - 1].refs)
           Good(m) == /\ pos[m].bits \in Nat /\ pos[m].refs \in Nat /\ IsList(pos[m].load) /\ Len(pos[m].load) = m
                      /\ \A i \in 1 .. m : pos[m].load[i] = New(i)
           T == {m \in 0 .. n : Good(m)}
<1>3. Good(0)
  <2>1. pos[0].bits = bits /\ pos[0].refs = refs /\ pos[0].load = <<>>
    BY <1>2 DEF PositionSteps, Start
  <2> HIDE DEF New
  <2> QED BY <2>1, EmptyList
<1>4. ASSUME NEW m \in 1 .. n
      PROVE  /\ pos[m].load = Append(pos[m - 1].load, New(m))
             /\ pos[m].bits = types[m].bits + (IF New(m) THEN 0 ELSE pos[m - 1].bits)
             /\ pos[m].refs = types[m].refs + (IF New(m) THEN 0 ELSE pos[m - 1].refs)
  <2>1. pos[m] = Placed(types, m, pos[m - 1])
    BY <1>2 DEF PositionSteps
  <2> DEFINE st == pos[m - 1]
             new == New(m)
  <2>2. new = Begins(types, m, st.bits, st.refs)
    OBVIOUS
  <2> HIDE DEF New, st, new
  <2>3. /\ Placed(types, m, st).load = Append(st.load, new)
        /\ Placed(types, m, st).bits = types[m].bits + (IF new THEN 0 ELSE st.bits)
        /\ Placed(types, m, st).refs = types[m].refs + (IF new THEN 0 ELSE st.refs)
    BY <2>2, PlacedIs
  <2> QED BY <2>1, <2>3 DEF st, new
<1> HIDE DEF New
<1>5. ASSUME NEW m \in 1 .. n, m - 1 \in T PROVE m \in T
  <2>1. Good(m - 1)
    BY <1>5
  <2>2. pos[m].bits \in Nat /\ pos[m].refs \in Nat
    <3>1. types[m].bits \in Nat /\ types[m].refs \in Nat /\ pos[m - 1].bits \in Nat /\ pos[m - 1].refs \in Nat
      BY <1>1, <2>1
    <3>2. CASE New(m)
      BY <1>4, <3>1, <3>2
    <3>3. CASE ~New(m)
      BY <1>4, <3>1, <3>3
    <3> QED BY <3>2, <3>3
  <2> DEFINE a == pos[m - 1].load
             x == <<New(m)>>
             z == pos[m].load
  <2>3. IsList(a) /\ Len(a) = m - 1 /\ \A i \in 1 .. m - 1 : a[i] = New(i)
    BY <2>1
  <2>4. z = a \o x /\ IsList(x) /\ Len(x) = 1 /\ x[1] = New(m)
    BY <1>4, <2>3, AppendList, OneList
  <2> HIDE DEF a, x, z
  <2>5. IsList(z) /\ Len(z) = m - 1 + 1 /\ \A i \in 1 .. m - 1 + 1 : z[i] = IF i <= m - 1 THEN a[i] ELSE x[i - (m - 1)]
    <3>1. IsList(z) /\ Len(z) = Len(a) + Len(x)
          /\ \A i \in 1 .. Len(a) + Len(x) : z[i] = IF i <= Len(a) THEN a[i] ELSE x[i - Len(a)]
      BY <2>3, <2>4, CatList
    <3>2. Len(a) = m - 1 /\ Len(x) = 1
      BY <2>3, <2>4
    <3> QED BY <3>1, <3>2
  <2>6. ASSUME NEW i \in 1 .. m PROVE z[i] = New(i)
    <3>1. i \in 1 .. m - 1 + 1
      OBVIOUS
    <3>2. CASE i <= m - 1
      <4>1. i \in 1 .. m - 1
        BY <3>2
      <4> QED BY <2>3, <2>5, <3>1, <3>2, <4>1
    <3>3. CASE ~(i <= m - 1)
      <4>1. i = m /\ i - (m - 1) = 1
        BY <3>3
      <4>2. z[i] = x[i - (m - 1)]
        BY <2>5, <3>1, <3>3
      <4> QED BY <2>4, <4>1, <4>2
    <3> QED BY <3>2, <3>3
  <2>7. Len(z) = m
    BY <2>5
  <2> QED BY <2>2, <2>5, <2>6, <2>7 DEF z
<1>6. \A m \in 0 .. n : Good(m)
  <2>1. 0 \in T
    BY <1>1, <1>3
  <2>2. \A m \in 0 .. n : m \in T
    <3> HIDE DEF T
    <3> QED BY <1>1, <1>5, <2>1, Upwards
  <2> QED BY <2>2
<1> DEFINE load == pos[n].load
           pb == [i \in 0 .. n |-> pos[i].bits]
           pr == [i \in 0 .. n |-> pos[i].refs]
<1>7. load = [i \in 1 .. n |-> load[i]] /\ \A i \in 1 .. n : load[i] = New(i)
  <2>1. Good(n)
    BY <1>1, <1>6
  <2>2. DOMAIN load = 1 .. n
    BY <2>1, ListFacts
  <2>3. PICK V : load \in Seq(V)
    BY <2>1 DEF IsList
  <2>4. load = [i \in 1 .. n |-> load[i]]
    <3>1. load \in [1 .. n -> V]
      BY <2>1, <2>3
    <3> HIDE DEF load
    <3> QED BY <3>1
  <2> QED BY <2>1, <2>4
<1>8. pb \in [0 .. n -> Nat] /\ pr \in [0 .. n -> Nat] /\ pb[0] = bits /\ pr[0] = refs
  <2>1. 0 \in 0 .. n /\ pos[0].bits = bits /\ pos[0].refs = refs
    BY <1>1, <1>2 DEF PositionSteps, Start
  <2>2. \A i \in 0 .. n : pos[i].bits \in Nat /\ pos[i].refs \in Nat
    BY <1>6
  <2> QED BY <2>1, <2>2
<1>9. ASSUME NEW i \in 1 .. n
      PROVE  /\ load[i] = Begins(types, i, pb[i - 1], pr[i - 1])
             /\ pb[i] = types[i].bits + (IF load[i] THEN 0 ELSE pb[i - 1])
             /\ pr[i] = types[i].refs + (IF load[i] THEN 0 ELSE pr[i - 1])
  <2>1. i \in 0 .. n /\ i - 1 \in 0 .. n
    BY <1>1
  <2>2. pb[i] = pos[i].bits /\ pr[i] = pos[i].refs /\ pb[i - 1] = pos[i - 1].bits /\ pr[i - 1] = pos[i - 1].refs
    BY <2>1
  <2> HIDE DEF pb, pr, load
  <2>3. load[i] = Begins(types, i, pb[i - 1], pr[i - 1])
    BY <1>7, <2>2 DEF New
  <2> QED BY <1>4, <1>7, <2>2, <2>3
<1> HIDE DEF pb, pr, load
<1>10. Positions(types, load, pb, pr, n)
  BY <1>7, <1>8, <1>9 DEF Positions
<1>11. doLoadNextCell(types, bits, refs) = load
  BY <1>2 DEF doLoadNextCell, load
<1> QED BY <1>8, <1>10, <1>11

(***************************************************************************)
(* The values find room where the position puts them.                      *)
(***************************************************************************)
(* A cell is never fuller than it may be, and has a reference left for the  *)
(* next one unless nothing but what fits follows.                           *)
LEMMA PositionHasRoom ==
    ASSUME NEW types \in Seq(TypeSizes), NEW n, n = Len(types), NEW load, NEW pb, NEW pr,
           Positions(types, load, pb, pr, n), pb[0] <= CellBits, pr[0] <= 3
    PROVE  \A i \in 0 .. n : /\ RestFits(types, i + 1, pb[i], pr[i]) \/ pr[i] <= 3
                             /\ pb[i] <= CellBits /\ pr[i] <= 4
<1> DEFINE Good(i) == RestFits(types, i + 1, pb[i], pr[i]) \/ (pb[i] <= CellBits /\ pr[i] <= 3)
           T == {i \in 0 .. n : Good(i)}
<1>1. /\ n \in Nat
      /\ \A i \in 1 .. n + 1 : sufBits(types, i) \in Nat /\ sufRefs(types, i) \in Nat
      /\ \A i \in 1 .. n : /\ types[i].bits \in Nat /\ types[i].refs \in Nat /\ types[i].bits <= CellBits /\ types[i].refs <= 3
                           /\ sufBits(types, i) = types[i].bits + sufBits(types, i + 1)
                           /\ sufRefs(types, i) = types[i].refs + sufRefs(types, i + 1)
  BY SufBits, SufRefs
<1>2. 0 \in T
  BY <1>1
<1>3. ASSUME NEW i \in 1 .. n, i - 1 \in T PROVE i \in T
  <2> DEFINE b == pb[i - 1]
             r == pr[i - 1]
             t == types[i].bits
             u == types[i].refs
             B == sufBits(types, i + 1)
             R == sufRefs(types, i + 1)
             new == load[i]
  <2>1. i \in 0 .. n /\ i - 1 \in 0 .. n /\ i + 1 \in 1 .. n + 1 /\ (i - 1) + 1 = i
    BY <1>1
  <2>2. b \in Nat /\ r \in Nat /\ t \in Nat /\ u \in Nat /\ B \in Nat /\ R \in Nat /\ t <= CellBits /\ u <= 3
    <3>1. CellBits \in Nat
      BY DEF CellBits
    <3>2. pb \in [0 .. n -> Nat] /\ pr \in [0 .. n -> Nat]
      BY DEF Positions
    <3> QED BY <1>1, <2>1, <3>1, <3>2
  <2>3. sufBits(types, i) = t + B /\ sufRefs(types, i) = u + R
    BY <1>1
  <2>4. new = Begins(types, i, b, r) /\ pb[i] = t + (IF new THEN 0 ELSE b) /\ pr[i] = u + (IF new THEN 0 ELSE r)
    BY DEF Positions
  <2> HIDE DEF b, r, t, u, B, R, new
  <2>5. RestFits(types, i, b, r) <=> b + (t + B) <= CellBits /\ r + (u + R) <= 4
    BY <2>3 DEF RestFits
  <2>6. Begins(types, i, b, r) <=> ~RestFits(types, i, b, r) /\ (b + t > CellBits \/ r + u >= 4)
    BY DEF Begins, NeedsCell, t, u
  <2>7. RestFits(types, i + 1, pb[i], pr[i]) <=> pb[i] + B <= CellBits /\ pr[i] + R <= 4
    BY DEF RestFits, B, R
  <2>8. CASE RestFits(types, i, b, r)
    <3>1. ~new
      BY <2>4, <2>6, <2>8
    <3>2. pb[i] = t + b /\ pr[i] = u + r
      BY <2>4, <3>1
    <3>3. pb[i] + B <= CellBits /\ pr[i] + R <= 4
      BY <2>2, <2>5, <2>8, <3>2 DEF CellBits
    <3> QED BY <2>1, <2>7, <3>3
  <2>9. CASE ~RestFits(types, i, b, r) /\ (b + t > CellBits \/ r + u >= 4)
    <3>1. new
      BY <2>4, <2>6, <2>9
    <3>2. pb[i] = t + 0 /\ pr[i] = u + 0
      BY <2>4, <3>1
    <3> QED BY <2>1, <2>2, <3>2
  <2>10. CASE ~RestFits(types, i, b, r) /\ ~(b + t > CellBits \/ r + u >= 4)
    <3>1. ~new
      BY <2>4, <2>6, <2>10
    <3>2. pb[i] = t + b /\ pr[i] = u + r
      BY <2>4, <3>1
    <3>3. pb[i] <= CellBits /\ pr[i] <= 3
      BY <2>2, <2>10, <3>2 DEF CellBits
    <3> QED BY <2>1, <3>3
  <2> QED BY <2>8, <2>9, <2>10
<1>4. ASSUME NEW i \in 0 .. n
      PROVE  (RestFits(types, i + 1, pb[i], pr[i]) \/ pr[i] <= 3) /\ pb[i] <= CellBits /\ pr[i] <= 4
  <2>1. i \in T
    <3> HIDE DEF T
    <3> QED BY <1>1, <1>2, <1>3, Upwards
  <2>2. pb[i] \in Nat /\ pr[i] \in Nat
    BY DEF Positions
  <2>3. i + 1 \in 1 .. n + 1
    BY <1>1
  <2>4. sufBits(types, i + 1) \in Nat /\ sufRefs(types, i + 1) \in Nat
    BY <1>1, <2>3
  <2>5. CASE RestFits(types, i + 1, pb[i], pr[i])
    <3>1. pb[i] + sufBits(types, i + 1) <= CellBits /\ pr[i] + sufRefs(types, i + 1) <= 4
      BY <2>5 DEF RestFits
    <3> QED BY <2>2, <2>4, <2>5, <3>1 DEF CellBits
  <2>6. CASE pb[i] <= CellBits /\ pr[i] <= 3
    BY <2>2, <2>6
  <2> QED BY <2>1, <2>5, <2>6
<1> QED BY <1>4

(* Values of the types, which are their greatest sizes.                     *)
Fitting(v, t) == Stored(v, t) /\ v.size.bits <= t.bits /\ v.size.refs <= t.refs

(* So there is room for them.                                               *)
LEMMA RoomForValues ==
    ASSUME NEW types \in Seq(TypeSizes), NEW n, n = Len(types), NEW load, NEW pb, NEW pr, NEW values,
           Positions(types, load, pb, pr, n), pb[0] <= CellBits, pr[0] <= 3, \A i \in 1 .. n : Fitting(values[i], types[i])
    PROVE  HasRoom(values, load, n, pb, pr)
<1>1. n \in Nat /\ pb \in [0 .. n -> Nat] /\ pr \in [0 .. n -> Nat] /\ CellBits \in Nat
  BY DEF Positions, CellBits
<1>2. \A i \in 0 .. n : (RestFits(types, i + 1, pb[i], pr[i]) \/ pr[i] <= 3) /\ pb[i] <= CellBits /\ pr[i] <= 4
  BY PositionHasRoom
<1>3. ASSUME NEW i \in 1 .. n
      PROVE  /\ values[i].size.bits + (IF load[i] THEN 0 ELSE pb[i - 1]) <= pb[i] /\ pb[i] <= CellBits
             /\ values[i].size.refs + (IF load[i] THEN 0 ELSE pr[i - 1]) <= pr[i] /\ pr[i] <= CellRefs
             /\ load[i] => pr[i - 1] <= 3
  <2> DEFINE b == pb[i - 1]
             r == pr[i - 1]
             t == types[i].bits
             u == types[i].refs
             x == values[i].size.bits
             y == values[i].size.refs
             new == load[i]
  <2>1. i \in 0 .. n /\ i - 1 \in 0 .. n /\ (i - 1) + 1 = i
    BY <1>1
  <2>2. b \in Nat /\ r \in Nat
    BY <1>1, <2>1
  <2>3. x \in Nat /\ y \in Nat /\ x <= t /\ y <= u
    BY DEF Fitting, Stored, IsValue
  <2>4. t \in Nat /\ u \in Nat
    BY <1>1, SufBits, SufRefs
  <2>5. new = Begins(types, i, b, r) /\ pb[i] = t + (IF new THEN 0 ELSE b) /\ pr[i] = u + (IF new THEN 0 ELSE r)
    BY DEF Positions
  <2>6. pb[i] <= CellBits /\ pr[i] <= CellRefs
    BY <1>2, <2>1 DEF CellRefs
  <2>7. RestFits(types, i, b, r) \/ r <= 3
    BY <1>2, <2>1
  <2> HIDE DEF b, r, t, u, x, y, new
  <2>8. new => r <= 3
    BY <2>5, <2>7 DEF Begins
  <2>9. x + (IF new THEN 0 ELSE b) <= pb[i] /\ y + (IF new THEN 0 ELSE r) <= pr[i]
    <3>1. CASE new
      BY <2>2, <2>3, <2>4, <2>5, <3>1
    <3>2. CASE ~new
      BY <2>2, <2>3, <2>4, <2>5, <3>2
    <3> QED BY <3>1, <3>2
  <2> QED BY <2>6, <2>8, <2>9 DEF b, r, x, y, new
<1>4. pb[0] <= CellBits
  OBVIOUS
<1> QED BY <1>1, <1>3, <1>4 DEF HasRoom

(* If everything fits behind what there is, no cell begins ...              *)
LEMMA NothingBegins ==
    ASSUME NEW types \in Seq(TypeSizes), NEW n, n = Len(types), NEW load, NEW pb, NEW pr,
           Positions(types, load, pb, pr, n), RestFits(types, 1, pb[0], pr[0])
    PROVE  \A i \in 1 .. n : load[i] = FALSE
<1> DEFINE T == {i \in 0 .. n : RestFits(types, i + 1, pb[i], pr[i])}
<1>1. /\ n \in Nat
      /\ \A i \in 1 .. n + 1 : sufBits(types, i) \in Nat /\ sufRefs(types, i) \in Nat
      /\ \A i \in 1 .. n : /\ types[i].bits \in Nat /\ types[i].refs \in Nat /\ types[i].bits <= CellBits /\ types[i].refs <= 3
                           /\ sufBits(types, i) = types[i].bits + sufBits(types, i + 1)
                           /\ sufRefs(types, i) = types[i].refs + sufRefs(types, i + 1)
  BY SufBits, SufRefs
<1>2. 0 \in T
  BY <1>1
<1>3. ASSUME NEW i \in 1 .. n, RestFits(types, i, pb[i - 1], pr[i - 1]) PROVE load[i] = FALSE
  <2>1. load[i] = Begins(types, i, pb[i - 1], pr[i - 1])
    BY DEF Positions
  <2> QED BY <1>3, <2>1 DEF Begins
<1>4. ASSUME NEW i \in 1 .. n, i - 1 \in T PROVE i \in T
  <2> DEFINE b == pb[i - 1]
             r == pr[i - 1]
             t == types[i].bits
             u == types[i].refs
             B == sufBits(types, i + 1)
             R == sufRefs(types, i + 1)
  <2>1. i \in 0 .. n /\ i - 1 \in 0 .. n /\ i + 1 \in 1 .. n + 1 /\ (i - 1) + 1 = i
    BY <1>1
  <2>2. b \in Nat /\ r \in Nat /\ t \in Nat /\ u \in Nat /\ B \in Nat /\ R \in Nat
    <3>1. CellBits \in Nat
      BY DEF CellBits
    <3>2. pb \in [0 .. n -> Nat] /\ pr \in [0 .. n -> Nat]
      BY DEF Positions
    <3> QED BY <1>1, <2>1, <3>1, <3>2
  <2>3. sufBits(types, i) = t + B /\ sufRefs(types, i) = u + R
    BY <1>1
  <2>4. RestFits(types, i, b, r)
    BY <1>4, <2>1
  <2>5. load[i] = FALSE
    BY <1>3, <2>4
  <2>6. pb[i] = t + b /\ pr[i] = u + r
    <3>1. pb[i] = t + (IF load[i] THEN 0 ELSE b) /\ pr[i] = u + (IF load[i] THEN 0 ELSE r)
      BY DEF Positions
    <3> QED BY <2>5, <3>1
  <2> HIDE DEF b, r, t, u, B, R
  <2>7. b + (t + B) <= CellBits /\ r + (u + R) <= 4
    BY <2>3, <2>4 DEF RestFits
  <2>8. pb[i] + B <= CellBits /\ pr[i] + R <= 4
    BY <2>2, <2>6, <2>7 DEF CellBits
  <2> QED BY <2>1, <2>8 DEF RestFits, B, R
<1>5. ASSUME NEW i \in 1 .. n PROVE load[i] = FALSE
  <2>1. i - 1 \in 0 .. n /\ (i - 1) + 1 = i
    BY <1>1
  <2>2. i - 1 \in T
    <3> HIDE DEF T
    <3> QED BY <1>1, <1>2, <1>4, <2>1, Upwards
  <2>3. RestFits(types, i, pb[i - 1], pr[i - 1])
    BY <2>1, <2>2
  <2> QED BY <1>3, <2>3
<1> QED BY <1>5

(* Arithmetic for the next lemma.                                           *)
LEMMA Shifted ==
    ASSUME NEW b \in Nat, NEW t \in Nat, NEW B \in Nat
    PROVE  (t + b) + B = b + (t + B)
OBVIOUS

(* The sum of what is before a value and from it on stays the same while no *)
(* cell begins.                                                             *)
LEMMA NoCellBefore ==
    ASSUME NEW types \in Seq(TypeSizes), NEW n, n = Len(types), NEW load, NEW pb, NEW pr,
           Positions(types, load, pb, pr, n), \A i \in 1 .. n : load[i] = FALSE
    PROVE  \A i \in 0 .. n : /\ pb[i] + sufBits(types, i + 1) = pb[0] + sufBits(types, 1)
                             /\ pr[i] + sufRefs(types, i + 1) = pr[0] + sufRefs(types, 1)
<1> DEFINE T == {i \in 0 .. n : /\ pb[i] + sufBits(types, i + 1) = pb[0] + sufBits(types, 1)
                                /\ pr[i] + sufRefs(types, i + 1) = pr[0] + sufRefs(types, 1)}
<1>1. /\ n \in Nat
      /\ \A i \in 1 .. n + 1 : sufBits(types, i) \in Nat /\ sufRefs(types, i) \in Nat
      /\ sufBits(types, n + 1) = 0 /\ sufRefs(types, n + 1) = 0
      /\ \A i \in 1 .. n : /\ types[i].bits \in Nat /\ types[i].refs \in Nat /\ types[i].bits <= CellBits /\ types[i].refs <= 3
                           /\ sufBits(types, i) = types[i].bits + sufBits(types, i + 1)
                           /\ sufRefs(types, i) = types[i].refs + sufRefs(types, i + 1)
  BY SufBits, SufRefs
<1>2. pb \in [0 .. n -> Nat] /\ pr \in [0 .. n -> Nat]
  BY DEF Positions
<1>3. 0 \in T
  BY <1>1
<1>4. ASSUME NEW i \in 1 .. n PROVE pb[i] = types[i].bits + pb[i - 1] /\ pr[i] = types[i].refs + pr[i - 1]
  <2>1. pb[i] = types[i].bits + (IF load[i] THEN 0 ELSE pb[i - 1]) /\ pr[i] = types[i].refs + (IF load[i] THEN 0 ELSE pr[i - 1])
    BY DEF Positions
  <2> QED BY <2>1
<1>5. ASSUME NEW i \in 1 .. n, i - 1 \in T PROVE i \in T
  <2>1. i \in 0 .. n /\ i - 1 \in 0 .. n /\ i + 1 \in 1 .. n + 1 /\ (i - 1) + 1 = i
    BY <1>1
  <2>2. /\ pb[i - 1] + sufBits(types, i) = pb[0] + sufBits(types, 1)
        /\ pr[i - 1] + sufRefs(types, i) = pr[0] + sufRefs(types, 1)
    BY <1>5, <2>1
  <2>3. CellBits \in Nat
    BY DEF CellBits
  <2>4. pb[i - 1] \in Nat /\ pr[i - 1] \in Nat /\ types[i].bits \in Nat /\ types[i].refs \in Nat
        /\ sufBits(types, i + 1) \in Nat /\ sufRefs(types, i + 1) \in Nat
    BY <1>1, <1>2, <2>1, <2>3
  <2>5. /\ pb[i] + sufBits(types, i + 1) = pb[0] + sufBits(types, 1)
        /\ pr[i] + sufRefs(types, i + 1) = pr[0] + sufRefs(types, 1)
    <3>1. sufBits(types, i) = types[i].bits + sufBits(types, i + 1) /\ sufRefs(types, i) = types[i].refs + sufRefs(types, i + 1)
      BY <1>1
    <3>2. pb[i] = types[i].bits + pb[i - 1] /\ pr[i] = types[i].refs + pr[i - 1]
      BY <1>4
    <3>3. /\ pb[i - 1] + (types[i].bits + sufBits(types, i + 1)) = pb[0] + sufBits(types, 1)
          /\ pr[i - 1] + (types[i].refs + sufRefs(types, i + 1)) = pr[0] + sufRefs(types, 1)
      BY <2>2, <3>1
    <3>4. /\ (types[i].bits + pb[i - 1]) + sufBits(types, i + 1) = pb[0] + sufBits(types, 1)
          /\ (types[i].refs + pr[i - 1]) + sufRefs(types, i + 1) = pr[0] + sufRefs(types, 1)
      BY <2>4, <3>3, Shifted, SMTT(20)
    <3> QED BY <3>2, <3>4
  <2> QED BY <2>1, <2>5
<1> QED
  <2>1. \A i \in 0 .. n : i \in T
    <3> HIDE DEF T
    <3> QED BY <1>1, <1>3, <1>5, Upwards
  <2> QED BY <2>1

(* ... and the other way round.                                             *)
LEMMA EverythingFits ==
    ASSUME NEW types \in Seq(TypeSizes), NEW n, n = Len(types), NEW load, NEW pb, NEW pr,
           Positions(types, load, pb, pr, n), \A i \in 1 .. n : load[i] = FALSE, pb[0] <= CellBits, pr[0] <= 4
    PROVE  RestFits(types, 1, pb[0], pr[0])
<1>1. /\ n \in Nat
      /\ \A i \in 1 .. n + 1 : sufBits(types, i) \in Nat /\ sufRefs(types, i) \in Nat
      /\ sufBits(types, n + 1) = 0 /\ sufRefs(types, n + 1) = 0
      /\ \A i \in 1 .. n : /\ types[i].bits \in Nat /\ types[i].refs \in Nat /\ types[i].bits <= CellBits /\ types[i].refs <= 3
                           /\ sufBits(types, i) = types[i].bits + sufBits(types, i + 1)
                           /\ sufRefs(types, i) = types[i].refs + sufRefs(types, i + 1)
  BY SufBits, SufRefs
<1>2. pb \in [0 .. n -> Nat] /\ pr \in [0 .. n -> Nat]
  BY DEF Positions
<1>4. ASSUME NEW i \in 1 .. n PROVE pb[i] = types[i].bits + pb[i - 1] /\ pr[i] = types[i].refs + pr[i - 1]
  <2>1. pb[i] = types[i].bits + (IF load[i] THEN 0 ELSE pb[i - 1]) /\ pr[i] = types[i].refs + (IF load[i] THEN 0 ELSE pr[i - 1])
    BY DEF Positions
  <2> QED BY <2>1
<1>6. pb[n] = pb[0] + sufBits(types, 1) /\ pr[n] = pr[0] + sufRefs(types, 1)
  <2>1. n \in 0 .. n
    BY <1>1
  <2>2. pb[n] + sufBits(types, n + 1) = pb[0] + sufBits(types, 1) /\ pr[n] + sufRefs(types, n + 1) = pr[0] + sufRefs(types, 1)
    BY <2>1, NoCellBefore, ZenonT(30)
  <2>3. pb[n] \in Nat /\ pr[n] \in Nat
    BY <1>2, <2>1
  <2> QED BY <1>1, <2>2, <2>3
<1>7. pb[n] <= CellBits /\ pr[n] <= 4
  <2>1. CASE n = 0
    BY <2>1
  <2>2. CASE n # 0
    <3>1. n \in 1 .. n /\ n - 1 \in 0 .. n
      BY <1>1, <2>2
    <3>2. ~Begins(types, n, pb[n - 1], pr[n - 1])
      <4>1. load[n] = Begins(types, n, pb[n - 1], pr[n - 1]) /\ load[n] = FALSE
        BY <3>1 DEF Positions
      <4> QED BY <4>1
    <3> DEFINE b == pb[n - 1]
               r == pr[n - 1]
               t == types[n].bits
               u == types[n].refs
    <3>3. b \in Nat /\ r \in Nat /\ t \in Nat /\ u \in Nat
      <4>1. CellBits \in Nat
        BY DEF CellBits
      <4> QED BY <1>1, <1>2, <3>1, <4>1
    <3>4. sufBits(types, n) = t + 0 /\ sufRefs(types, n) = u + 0
      BY <1>1, <3>1
    <3>5. pb[n] = t + b /\ pr[n] = u + r
      BY <1>4, <3>1
    <3>6. RestFits(types, n, b, r) \/ ~NeedsCell(b + t, r + u)
      BY <3>2 DEF Begins
    <3> HIDE DEF b, r, t, u
    <3>7. (b + (t + 0) <= CellBits /\ r + (u + 0) <= 4) \/ ~(b + t > CellBits \/ r + u >= 4)
      BY <3>4, <3>6 DEF RestFits, NeedsCell
    <3> QED BY <3>3, <3>5, <3>7 DEF CellBits
  <2> QED BY <2>1, <2>2
<1> QED BY <1>6, <1>7 DEF RestFits

(***************************************************************************)
(* The front of a slice is found by its number of bits.                    *)
(***************************************************************************)
LEMMA SumsGrow ==
    ASSUME NEW N \in Nat, NEW f \in [0 .. N -> Nat], \A n \in 1 .. N : f[n - 1] < f[n]
    PROVE  \A j, k \in 0 .. N : f[j] = f[k] => j = k
<1>1. ASSUME NEW j \in 0 .. N, NEW k \in 0 .. N, j < k PROVE f[j] < f[k]
  <2> DEFINE T == {d \in 0 .. N : j + d <= N => f[j] + d <= f[j + d]}
  <2>1. 0 \in T
    OBVIOUS
  <2>2. ASSUME NEW d \in 1 .. N, d - 1 \in T PROVE d \in T
    <3>1. SUFFICES ASSUME j + d <= N PROVE f[j] + d <= f[j + d]
      OBVIOUS
    <3>2. j + d \in 1 .. N /\ j + (d - 1) = (j + d) - 1 /\ (j + d) - 1 \in 0 .. N /\ j + d \in 0 .. N /\ j + (d - 1) <= N
      BY <3>1
    <3>3. f[j] + (d - 1) <= f[(j + d) - 1]
      BY <2>2, <3>2
    <3>4. f[(j + d) - 1] < f[j + d]
      BY <3>2
    <3>5. f[j] \in Nat /\ f[j + d] \in Nat /\ f[(j + d) - 1] \in Nat
      BY <3>2
    <3> QED BY <3>3, <3>4, <3>5, SMTT(20)
  <2>3. k - j \in 0 .. N /\ j + (k - j) = k /\ k - j > 0
    BY <1>1
  <2>4. k - j \in T
    <3> HIDE DEF T
    <3>1. \A d \in 0 .. N : d \in T
      BY <2>1, <2>2, Upwards
    <3> QED BY <2>3, <3>1
  <2>5. f[j] + (k - j) <= f[k] /\ f[j] \in Nat /\ f[k] \in Nat
    BY <2>3, <2>4
  <2> QED BY <2>3, <2>5
<1>2. ASSUME NEW j \in 0 .. N, NEW k \in 0 .. N, f[j] = f[k] PROVE j = k
  <2>1. f[j] \in Nat /\ f[k] \in Nat
    OBVIOUS
  <2>2. ~(j < k) /\ ~(k < j)
    BY <1>1, <1>2, <2>1
  <2> QED BY <2>2
<1> QED BY <1>2

(* The bits of the first values of a slice.                                 *)
FirstValues(s, k) == [s EXCEPT !.bits = SubSeq(@, 1, k)]

(* They are the k-th sum.                                                   *)
LEMMA BitsOfFirst ==
    ASSUME NEW s, IsSlice(s), NEW f \in [0 .. Len(s.bits) -> Nat], IsSum(f, Lengths(s)), NEW k \in 0 .. Len(s.bits)
    PROVE  Bits(FirstValues(s, k)) = f[k]
<1> DEFINE N == Len(s.bits)
           p == FirstValues(s, k)
           a == SubSeq(s.bits, 1, k)
           l == [i \in 1 .. k |-> s.bits[i].size.bits]
           g == [i \in 0 .. k |-> f[i]]
<1>1. N \in Nat /\ Lengths(s) \in Seq(Nat) /\ Len(Lengths(s)) = N /\ k \in Nat /\ IsList(s.bits)
  BY LengthsFacts DEF IsSlice
<1>2. p.bits = a
  BY DEF FirstValues, IsSlice
<1>3. Len(a) = k /\ \A i \in 1 .. k : a[i] = s.bits[i]
  <2>1. PICK V : s.bits \in Seq(V)
    BY <1>1 DEF IsList
  <2>2. \A i \in 1 .. k : s.bits[i] \in V
    BY <1>1, <2>1
  <2>3. Len(a) = (IF 1 <= k THEN k - 1 + 1 ELSE 0) /\ \A i \in 1 .. k - 1 + 1 : a[i] = s.bits[1 + i - 1]
    BY <1>1, <2>2, SubSeqProperties
  <2> HIDE DEF a
  <2>4. \A i \in 1 .. k : i \in 1 .. k - 1 + 1 /\ 1 + i - 1 = i
    BY <1>1
  <2>5. (IF 1 <= k THEN k - 1 + 1 ELSE 0) = k
    BY <1>1
  <2> QED BY <2>3, <2>4, <2>5
<1> HIDE DEF a, p
<1>4. Bits(p) = Total(l)
  <2>1. [i \in 1 .. Len(p.bits) |-> p.bits[i].size.bits] = l
    BY <1>2, <1>3
  <2> QED BY <2>1 DEF Bits
<1>5. f[0] = 0 /\ \A i \in 1 .. N : f[i] = f[i - 1] + Lengths(s)[i]
  BY <1>1, SumSteps, SMTT(20)
<1>6. l \in Seq(Nat) /\ Len(l) = k /\ \A i \in 1 .. k : l[i] = Lengths(s)[i]
  <2>1. \A i \in 1 .. k : i \in 1 .. N /\ s.bits[i].size.bits \in Nat
    BY <1>1 DEF IsSlice
  <2>2. l \in [1 .. k -> Nat]
    BY <2>1
  <2>3. \A i \in 1 .. k : l[i] = Lengths(s)[i]
    BY <2>1 DEF Lengths
  <2> HIDE DEF l
  <2> QED BY <1>1, <2>2, <2>3
<1>7. IsSum(g, l)
  <2> HIDE DEF l
  <2>1. g = [i \in 0 .. Len(l) |-> g[i]] /\ g[0] = 0
    BY <1>1, <1>5, <1>6
  <2>2. ASSUME NEW i \in 1 .. Len(l) PROVE g[i] = g[i - 1] + l[i]
    <3>1. i \in 1 .. k /\ i \in 1 .. N /\ i \in 0 .. k /\ i - 1 \in 0 .. k
      BY <1>1, <1>6
    <3>2. g[i] = f[i] /\ g[i - 1] = f[i - 1]
      BY <3>1
    <3> HIDE DEF g
    <3> QED BY <1>5, <1>6, <3>1, <3>2
  <2> HIDE DEF g
  <2> QED BY <1>6, <2>1, <2>2, SumSteps
<1>8. Total(l) = g[k]
  <2> HIDE DEF l, g
  <2> QED BY <1>6, <1>7, TotalIs
<1>9. g[k] = f[k]
  BY <1>1
<1> QED BY <1>4, <1>8, <1>9 DEF p

(* Cut finds the place where the first K values end.                        *)
LEMMA CutAt ==
    ASSUME NEW m, IsSlice(m), NEW K \in 0 .. Len(m.bits), NEW R \in 0 .. Len(m.refs), NEW n, n = Bits(FirstValues(m, K))
    PROVE  Cut(m, n, R) =
              [front |-> [bits |-> SubSeq(m.bits, 1, K), refs |-> SubSeq(m.refs, 1, R)],
               back  |-> [bits |-> SubSeq(m.bits, K + 1, Len(m.bits)), refs |-> SubSeq(m.refs, R + 1, Len(m.refs))]]
<1> DEFINE N == Len(m.bits)
           ends == {k \in 0 .. Len(m.bits) : Bits([m EXCEPT !.bits = SubSeq(@, 1, k)]) = n}
<1>1. N \in Nat /\ Len(m.refs) \in Nat /\ Lengths(m) \in Seq(Nat) /\ Len(Lengths(m)) = N
  BY LengthsFacts
<1>2. PICK f \in [0 .. N -> Nat] : IsSum(f, Lengths(m))
  BY <1>1, SumExists
<1>3. ASSUME NEW i \in 1 .. N PROVE f[i - 1] < f[i]
  <2>1. f[i] = f[i - 1] + Lengths(m)[i]
    <3> DEFINE L == Lengths(m)
    <3>1. L \in Seq(Nat) /\ IsSum(f, L) /\ i \in 1 .. Len(L)
      BY <1>1, <1>2
    <3> HIDE DEF L
    <3>2. f[i] = f[i - 1] + L[i]
      BY <3>1, SumSteps
    <3> QED BY <3>2 DEF L
  <2>2. Lengths(m)[i] \in Nat \ {0}
    BY DEF Lengths, IsSlice
  <2>3. i - 1 \in 0 .. N
    BY <1>1
  <2>4. f[i - 1] \in Nat
    BY <2>3
  <2> QED BY <2>1, <2>2, <2>4
<1>4. \A k \in 0 .. N : Bits(FirstValues(m, k)) = f[k]
  BY <1>2, BitsOfFirst
<1>5. ends = {k \in 0 .. N : f[k] = f[K]}
  BY <1>4 DEF FirstValues
<1>6. \A j, k \in 0 .. N : f[j] = f[k] => j = k
  <2> HIDE DEF N
  <2> QED BY <1>1, <1>3, SumsGrow
<1>7. ends = {K}
  <2> HIDE DEF ends
  <2> QED BY <1>5, <1>6
<1>8. ends # {} /\ (CHOOSE k \in ends : TRUE) = K
  <2> HIDE DEF ends
  <2> QED BY <1>7
<1>9. ~(R > Len(m.refs))
  <2> DEFINE L == Len(m.refs)
  <2>1. L \in Nat /\ R \in 0 .. L
    BY <1>1
  <2> HIDE DEF L
  <2>2. ~(R > L)
    BY <2>1
  <2> QED BY <2>2 DEF L
<1> DEFINE e == CHOOSE k \in ends : TRUE
<1>10. Cut(m, n, R) =
          [front |-> [bits |-> SubSeq(m.bits, 1, e), refs |-> SubSeq(m.refs, 1, R)],
           back  |-> [bits |-> SubSeq(m.bits, e + 1, Len(m.bits)), refs |-> SubSeq(m.refs, R + 1, Len(m.refs))]]
  BY <1>8, <1>9 DEF Cut
<1>11. e = K
  BY <1>8
<1> HIDE DEF e
<1> QED BY <1>10, <1>11

(* So what was put in front of a slice is cut off again.                    *)
LEMMA CutFront ==
    ASSUME NEW a, NEW s, IsSlice(a), IsSlice(s)
    PROVE  Cut(Cat(a, s), Bits(a), Len(a.refs)) = [front |-> a, back |-> s]
<1> DEFINE m == Cat(a, s)
           K == Len(a.bits)
           R == Len(a.refs)
<1>1. IsSlice(m) /\ m.bits = a.bits \o s.bits /\ m.refs = a.refs \o s.refs
  BY CatFacts DEF Cat
<1>2. IsList(a.bits) /\ IsList(s.bits) /\ IsList(a.refs) /\ IsList(s.refs)
     /\ s = [bits |-> s.bits, refs |-> s.refs] /\ a = [bits |-> a.bits, refs |-> a.refs]
  BY DEF IsSlice
<1>3. SubSeq(m.bits, 1, K) = a.bits /\ SubSeq(m.bits, K + 1, Len(m.bits)) = s.bits
  <2>1. /\ SubSeq(a.bits \o s.bits, 1, Len(a.bits)) = a.bits
        /\ SubSeq(a.bits \o s.bits, Len(a.bits) + 1, Len(a.bits \o s.bits)) = s.bits
    BY <1>2, PartsOfList
  <2> HIDE DEF m
  <2> QED BY <1>1, <2>1
<1>4. SubSeq(m.refs, 1, R) = a.refs /\ SubSeq(m.refs, R + 1, Len(m.refs)) = s.refs
  <2>1. /\ SubSeq(a.refs \o s.refs, 1, Len(a.refs)) = a.refs
        /\ SubSeq(a.refs \o s.refs, Len(a.refs) + 1, Len(a.refs \o s.refs)) = s.refs
    BY <1>2, PartsOfList
  <2> HIDE DEF m
  <2> QED BY <1>1, <2>1
<1>5. K \in 0 .. Len(m.bits) /\ R \in 0 .. Len(m.refs)
  <2>1. Len(m.bits) = K + Len(s.bits) /\ Len(m.refs) = R + Len(s.refs)
    <3> HIDE DEF m
    <3> QED BY <1>1, <1>2, CatList
  <2>2. K \in Nat /\ R \in Nat /\ Len(s.bits) \in Nat /\ Len(s.refs) \in Nat
    BY <1>2, ListFacts
  <2> HIDE DEF m, K, R
  <2> QED BY <2>1, <2>2
<1>6. Bits(a) = Bits(FirstValues(m, K))
  <2>1. FirstValues(m, K).bits = a.bits
    <3>1. m = [bits |-> m.bits, refs |-> m.refs]
      BY <1>1 DEF IsSlice
    <3> HIDE DEF m, K
    <3> QED BY <1>3, <3>1 DEF FirstValues
  <2> QED BY <2>1 DEF Bits
<1> HIDE DEF m, K, R
<1>7. Cut(m, Bits(a), R) =
         [front |-> [bits |-> SubSeq(m.bits, 1, K), refs |-> SubSeq(m.refs, 1, R)],
          back  |-> [bits |-> SubSeq(m.bits, K + 1, Len(m.bits)), refs |-> SubSeq(m.refs, R + 1, Len(m.refs))]]
  BY <1>1, <1>5, <1>6, CutAt
<1>8. Cut(m, Bits(a), R) = [front |-> a, back |-> s]
  BY <1>2, <1>3, <1>4, <1>7
<1> QED BY <1>8 DEF m, R

(* The smallest value of a type is not greater than the type ...            *)
LEMMA SmallestValue ==
    ASSUME NEW t, IsType(t)
    PROVE  /\ MinSize(t).bits \in Nat /\ MinSize(t).refs \in Nat /\ MinSize(t).bits <= t.bits /\ MinSize(t).refs <= t.refs
           /\ t.bits = 0 => MinSize(t).refs > 0
           /\ t.bits > 0 => MinSize(t).bits > 0
<1>1. CellBits \in Nat
  BY DEF CellBits
<1>2. t.bits \in Nat /\ t.refs \in Nat /\ t.fixedSize \in BOOLEAN
  BY <1>1 DEF IsType, TypeSizes
<1>3. /\ Cell.refs = 1 /\ String.refs = 1 /\ String.bits = 0 /\ Array.bits = 33 /\ Array.refs = 1 /\ Cell.fixedSize
      /\ Address.bits = 591 /\ Address.refs = 0 /\ AddressStd.bits = 302 /\ AddressStd.refs = 0
  BY DEF Cell, String, Array, Address, AddressStd, Type
<1>4. t.bits = 0 => t = Cell \/ t = String
  BY DEF IsType
<1>5. CASE t.fixedSize
  <2>1. MinSize(t) = [bits |-> t.bits, refs |-> t.refs]
    <3>1. t # String /\ t # Array /\ t \notin {Address, AddressStd}
      BY <1>5 DEF String, Array, Address, AddressStd, Type
    <3> QED BY <1>5, <3>1 DEF MinSize
  <2>2. MinSize(t).bits = t.bits /\ MinSize(t).refs = t.refs
    BY <2>1
  <2>3. t # String
    BY <1>5 DEF String, Type
  <2> QED BY <1>2, <1>3, <1>4, <2>2, <2>3
<1>6. CASE t = String
  <2>1. MinSize(t) = [bits |-> 0, refs |-> 1]
    <3>1. ~String.fixedSize /\ String # Array /\ String # Address /\ String # AddressStd
      BY <1>3 DEF String, Type
    <3> QED BY <1>6, <3>1 DEF MinSize
  <2>2. MinSize(t).bits = 0 /\ MinSize(t).refs = 1
    BY <2>1
  <2> QED BY <1>3, <1>6, <2>2
<1>7. CASE t = Array
  <2>1. MinSize(t) = [bits |-> 33, refs |-> 0]
    <3>1. ~Array.fixedSize /\ Array # String /\ Array # Address /\ Array # AddressStd
      BY <1>3 DEF Array, Type
    <3> QED BY <1>7, <3>1 DEF MinSize
  <2>2. MinSize(t).bits = 33 /\ MinSize(t).refs = 0
    BY <2>1
  <2> QED BY <1>3, <1>7, <2>2
<1>8. CASE t \in {Address, AddressStd}
  <2>1. MinSize(t) = [bits |-> 2, refs |-> 0]
    <3>1. ~t.fixedSize /\ t # String /\ t # Array
      BY <1>3, <1>8 DEF Address, AddressStd, Type
    <3> QED BY <1>8, <3>1 DEF MinSize
  <2>2. MinSize(t).bits = 2 /\ MinSize(t).refs = 0
    BY <2>1
  <2> QED BY <1>3, <1>8, <2>2
<1>9. CASE ~t.fixedSize /\ t # String /\ t # Array /\ t \notin {Address, AddressStd}
  <2>1. MinSize(t) = [bits |-> 1, refs |-> 0]
    BY <1>9 DEF MinSize
  <2>2. MinSize(t).bits = 1 /\ MinSize(t).refs = 0
    BY <2>1
  <2>3. t # Cell
    BY <1>3, <1>9
  <2> QED BY <1>2, <1>4, <1>9, <2>2, <2>3
<1> QED BY <1>5, <1>6, <1>7, <1>8, <1>9

(* ... and so is every value that is modelled.                              *)
LEMMA ValueFits ==
    ASSUME NEW t, IsType(t), NEW of, NEW tag
    PROVE  Fitting(Value(t, of, tag), t)
<1> DEFINE v == Value(t, of, tag)
           z == v.size
<1>1. v = [type |-> t, of |-> of, tag |-> tag, size |-> IF tag = 0 THEN MinSize(t) ELSE MaxSize(t)]
  BY DEF Value
<1>2. CellBits \in Nat
  BY DEF CellBits
<1>3. t.bits \in Nat /\ t.refs \in Nat
  BY <1>2 DEF IsType, TypeSizes
<1>4. t.bits = 0 => t.refs = 1
  BY DEF IsType, Cell, String, Type
<1>5. v.type = t /\ v.of = of /\ v.tag = tag /\ v.size = IF tag = 0 THEN MinSize(t) ELSE MaxSize(t)
  BY <1>1
<1>6. /\ z.bits \in Nat /\ z.refs \in Nat /\ z.bits <= t.bits /\ z.refs <= t.refs
      /\ t.bits = 0 => z.refs > 0
      /\ t.bits > 0 => z.bits > 0
  <2>1. CASE tag = 0
    <3>1. z = MinSize(t)
      BY <1>5, <2>1
    <3> HIDE DEF z
    <3> QED BY <3>1, SmallestValue
  <2>2. CASE tag # 0
    <3>1. z = [bits |-> t.bits, refs |-> t.refs]
      BY <1>5, <2>2 DEF MaxSize
    <3> HIDE DEF z
    <3>2. z.bits = t.bits /\ z.refs = t.refs
      BY <3>1
    <3> QED BY <1>3, <1>4, <3>2
  <2> QED BY <2>1, <2>2
<1>7. IsValue(v)
  <2> HIDE DEF v
  <2>1. v = [type |-> v.type, of |-> v.of, tag |-> v.tag, size |-> v.size]
    BY <1>1, <1>5
  <2> QED BY <1>6, <2>1 DEF IsValue
<1> HIDE DEF v, z
<1>8. t.bits = 0 => z.bits = 0
  BY <1>3, <1>6
<1>9. Stored(v, t)
  BY <1>3, <1>5, <1>6, <1>7, <1>8 DEF Stored, z
<1>10. Fitting(v, t)
  BY <1>6, <1>9 DEF Fitting, z
<1> QED BY <1>10 DEF v

(* Where cells begin is yes or no for every value.                          *)
LEMMA LoadsAreBoolean ==
    ASSUME NEW types, NEW load, NEW pb, NEW pr, NEW n, Positions(types, load, pb, pr, n)
    PROVE  \A i \in 1 .. n : load[i] \in BOOLEAN
<1>1. ASSUME NEW i \in 1 .. n PROVE load[i] \in BOOLEAN
  <2>1. load[i] = Begins(types, i, pb[i - 1], pr[i - 1])
    BY DEF Positions
  <2>2. Begins(types, i, pb[i - 1], pr[i - 1]) \in BOOLEAN
    BY DEF Begins
  <2> QED BY <2>1, <2>2
<1> QED BY <1>1

(***************************************************************************)
(* The body behind the header.                                             *)
(***************************************************************************)
(* Nothing is created: no cell begins.                                      *)
LEMMA NothingCreated ==
    ASSUME NEW n \in Nat, NEW load, load = [i \in 1 .. n |-> load[i]], \A i \in 1 .. n : load[i] \in BOOLEAN,
           countOfCreatedBuilders(load) = 0
    PROVE  \A i \in 1 .. n : load[i] = FALSE
<1> DEFINE S == {i \in 1 .. n : load[i]}
<1>1. IsFiniteSet(1 .. n)
  BY FS_Interval
<1>2. IsFiniteSet(S)
  <2>1. S \in SUBSET (1 .. n)
    OBVIOUS
  <2> QED BY <1>1, <2>1, FS_Subset
<1>3. countOfCreatedBuilders(load) = Cardinality(S)
  <2>1. DOMAIN load = 1 .. n
    OBVIOUS
  <2> QED BY <2>1 DEF countOfCreatedBuilders
<1>4. S = {}
  <2>1. Cardinality(S) = 0
    BY <1>3
  <2> HIDE DEF S
  <2> QED BY <1>2, <2>1, FS_EmptySet
<1>5. ASSUME NEW i \in 1 .. n PROVE load[i] = FALSE
  <2>1. i \notin S
    BY <1>4
  <2> QED BY <2>1
<1> QED BY <1>5

(* Where everything fits with bits and refs more in use, there is room.     *)
RoomLeft(types, n, load, pb, pr, values, x, y) ==
    /\ types \in Seq(TypeSizes) /\ n = Len(types) /\ x \in Nat /\ y \in Nat
    /\ Positions(types, load, pb, pr, n) /\ RestFits(types, 1, pb[0] + x, pr[0] + y)
    /\ \A i \in 1 .. n : load[i] = FALSE /\ Fitting(values[i], types[i])

(* With it, HasRoom holds.                                                  *)
LEMMA MoreRoom ==
    ASSUME NEW types, NEW n, NEW load, NEW pb, NEW pr, NEW values, NEW x, NEW y, NEW sb, NEW sr,
           RoomLeft(types, n, load, pb, pr, values, x, y),
           sb = [i \in 0 .. n |-> pb[i] + x], sr = [i \in 0 .. n |-> pr[i] + y]
    PROVE  HasRoom(values, load, n, sb, sr)
<1> SUFFICES ASSUME types \in Seq(TypeSizes), n = Len(types), x \in Nat, y \in Nat,
                    Positions(types, load, pb, pr, n), RestFits(types, 1, pb[0] + x, pr[0] + y),
                    \A i \in 1 .. n : load[i] = FALSE, \A i \in 1 .. n : Fitting(values[i], types[i])
             PROVE  HasRoom(values, load, n, sb, sr)
  BY DEF RoomLeft
<1> DEFINE B(i) == sufBits(types, i)
           R(i) == sufRefs(types, i)
<1>1. n \in Nat /\ pb \in [0 .. n -> Nat] /\ pr \in [0 .. n -> Nat] /\ CellBits \in Nat
  BY DEF Positions, CellBits
<1>2. \A i \in 0 .. n : pb[i] + B(i + 1) = pb[0] + B(1) /\ pr[i] + R(i + 1) = pr[0] + R(1)
  BY NoCellBefore
<1>3. \A i \in 0 .. n : B(i + 1) \in Nat /\ R(i + 1) \in Nat
  <2>1. \A i \in 1 .. n + 1 : B(i) \in Nat /\ R(i) \in Nat
    BY SufBits, SufRefs
  <2>2. \A i \in 0 .. n : i + 1 \in 1 .. n + 1
    BY <1>1
  <2> QED BY <2>1, <2>2
<1>4. (pb[0] + x) + B(1) <= CellBits /\ (pr[0] + y) + R(1) <= 4
  BY DEF RestFits
<1>5. B(1) \in Nat /\ R(1) \in Nat /\ 0 \in 0 .. n
  BY <1>1, SufBits, SufRefs
<1> HIDE DEF B, R
<1>6. ASSUME NEW i \in 0 .. n PROVE pb[i] + x <= CellBits /\ pr[i] + y <= 4
  <2> DEFINE b == pb[i]
             c == pr[i]
             b0 == pb[0]
             c0 == pr[0]
             p == B(i + 1)
             q == R(i + 1)
             p0 == B(1)
             q0 == R(1)
  <2>1. b \in Nat /\ c \in Nat /\ b0 \in Nat /\ c0 \in Nat /\ p \in Nat /\ q \in Nat /\ p0 \in Nat /\ q0 \in Nat
    BY <1>1, <1>3, <1>5
  <2>2. b + p = b0 + p0 /\ c + q = c0 + q0 /\ (b0 + x) + p0 <= CellBits /\ (c0 + y) + q0 <= 4
    BY <1>2, <1>4
  <2> HIDE DEF b, c, b0, c0, p, q, p0, q0
  <2>3. b + x <= CellBits /\ c + y <= 4
    BY <1>1, <2>1, <2>2
  <2> QED BY <2>3 DEF b, c
<1>7. sb \in [0 .. n -> Nat] /\ sr \in [0 .. n -> Nat] /\ \A i \in 0 .. n : sb[i] = pb[i] + x /\ sr[i] = pr[i] + y
  BY <1>1
<1>8. ASSUME NEW i \in 1 .. n
      PROVE  /\ values[i].size.bits + (IF load[i] THEN 0 ELSE sb[i - 1]) <= sb[i] /\ sb[i] <= CellBits
             /\ values[i].size.refs + (IF load[i] THEN 0 ELSE sr[i - 1]) <= sr[i] /\ sr[i] <= CellRefs
             /\ load[i] => sr[i - 1] <= 3
  <2> DEFINE b == pb[i - 1]
             c == pr[i - 1]
             t == types[i].bits
             u == types[i].refs
             v == values[i].size.bits
             w == values[i].size.refs
  <2>1. i \in 0 .. n /\ i - 1 \in 0 .. n
    BY <1>1
  <2>2. load[i] = FALSE
    OBVIOUS
  <2>3. pb[i] = t + b /\ pr[i] = u + c
    BY <2>2 DEF Positions
  <2>4. b \in Nat /\ c \in Nat /\ t \in Nat /\ u \in Nat
    BY <1>1, <2>1, SufBits, SufRefs
  <2>5. v \in Nat /\ w \in Nat /\ v <= t /\ w <= u
    BY DEF Fitting, Stored, IsValue
  <2>6. sb[i] = pb[i] + x /\ sr[i] = pr[i] + y /\ sb[i - 1] = b + x /\ sr[i - 1] = c + y
    BY <1>7, <2>1
  <2>7. pb[i] + x <= CellBits /\ pr[i] + y <= CellRefs
    BY <1>6, <2>1 DEF CellRefs
  <2> HIDE DEF b, c, t, u, v, w
  <2>8. v + (b + x) <= (t + b) + x /\ w + (c + y) <= (u + c) + y
    BY <2>4, <2>5
  <2>9. v + sb[i - 1] <= sb[i] /\ sb[i] <= CellBits /\ w + sr[i - 1] <= sr[i] /\ sr[i] <= CellRefs
    BY <2>3, <2>6, <2>7, <2>8
  <2> QED BY <2>2, <2>9 DEF v, w
<1>9. sb[0] <= CellBits
  BY <1>5, <1>6, <1>7
<1> QED BY <1>7, <1>8, <1>9 DEF HasRoom

(***************************************************************************)
(* A field behind what a builder holds.                                    *)
(***************************************************************************)
LEMMA StoreThen ==
    ASSUME NEW b, NEW v, NEW s, IsSlice(b), IsValue(v), IsSlice(s),
           Bits(b) + v.size.bits <= CellBits, Len(b.refs) + v.size.refs <= CellRefs
    PROVE  /\ Cat(Store(b, v), s) = Cat(b, Ahead(v, s)) /\ IsSlice(Store(b, v))
           /\ Bits(Store(b, v)) = Bits(b) + v.size.bits /\ Len(Store(b, v).refs) = Len(b.refs) + v.size.refs
<1> DEFINE f == Ahead(v, Empty)
<1>1. IsSlice(Empty)
  BY EmptyFacts
<1>2. IsSlice(f)
  BY <1>1, FrontSlice
<1>3. Store(b, v) = Cat(b, f)
  BY StoreIs
<1>4. Bits(Cat(b, f)) = Bits(b) + v.size.bits /\ Len(Cat(b, f).refs) = Len(b.refs) + v.size.refs /\ IsSlice(Cat(b, f))
  BY MoreBits
<1>5. Cat(f, s) = Ahead(v, s)
  BY CatFront
<1> HIDE DEF f
<1>6. Cat(Cat(b, f), s) = Cat(b, Cat(f, s))
  BY <1>2, CatCat
<1> QED BY <1>3, <1>4, <1>5, <1>6

ToRead(types, load, values, n, E, slice) ==
    /\ n \in Nat /\ n = Len(types) /\ n = Len(values) /\ IsList(values) /\ IsEncoding(E, values, load, n) /\ slice = E[0]
    /\ \A i \in 1 .. n : Stored(values[i], types[i]) /\ load[i] \in BOOLEAN

(* Decoded, with its hypotheses in one.                                     *)
LEMMA AllIsRead ==
    ASSUME NEW types, NEW load, NEW values, NEW n, NEW E, NEW slice, ToRead(types, load, values, n, E, slice)
    PROVE  decodeParameters(types, load, slice) = [values |-> values, rest |-> Empty]
<1>1. /\ n \in Nat /\ n = Len(types) /\ n = Len(values) /\ IsList(values) /\ IsEncoding(E, values, load, n) /\ slice = E[0]
      /\ \A i \in 1 .. n : Stored(values[i], types[i]) /\ load[i] \in BOOLEAN
  BY DEF ToRead
<1>2. decodeParameters(types, load, E[0]) = [values |-> values, rest |-> Empty]
  BY <1>1, Decoded
<1> QED BY <1>1, <1>2

(* The compiler's assertions about the bits and references of a cell hold   *)
(* wherever it places the values of a list.                                 *)
THEOREM PlacesAreSound ==
    ASSUME NEW types \in Seq(TypeSizes), NEW bits \in Nat, NEW refs \in Nat
    PROVE  AbiV2Position(types, bits, refs).ok = TRUE
<1> DEFINE n == Len(types)
<1>1. n \in Nat /\ n = Len(types)
  OBVIOUS
<1> HIDE DEF n
<1>2. PICK pos : PositionSteps(pos, types, bits, refs, n) /\ AbiV2Position(types, bits, refs) = pos[n]
  BY <1>1, PositionIs
<1>3. CellBits \in Nat
  BY DEF CellBits
<1> DEFINE T == {m \in 0 .. n : pos[m].ok = TRUE /\ pos[m].bits \in Nat /\ pos[m].refs \in Nat}
<1>4. 0 \in T
  <2>1. pos[0] = Start(bits, refs)
    BY <1>2 DEF PositionSteps
  <2>2. pos[0].ok = TRUE /\ pos[0].bits \in Nat /\ pos[0].refs \in Nat
    BY <2>1 DEF Start
  <2> QED BY <1>1, <2>2
<1>5. ASSUME NEW m \in 1 .. n, m - 1 \in T PROVE m \in T
  <2> DEFINE st   == pos[m - 1]
             t    == types[m]
             fits == RestFits(types, m, st.bits, st.refs)
             new  == Begins(types, m, st.bits, st.refs)
             b    == t.bits + (IF new THEN 0 ELSE st.bits)
             r    == t.refs + (IF new THEN 0 ELSE st.refs)
             x    == st.bits
             y    == st.refs
             B    == sufBits(types, m)
             R    == sufRefs(types, m)
             B1   == sufBits(types, m + 1)
             R1   == sufRefs(types, m + 1)
  <2>1. st.ok = TRUE /\ x \in Nat /\ y \in Nat /\ new \in BOOLEAN /\ fits \in BOOLEAN
    BY <1>5 DEF Begins, RestFits
  <2>2. /\ t.bits \in Nat /\ t.bits <= CellBits /\ t.refs \in Nat /\ t.refs <= 3
        /\ B = t.bits + B1 /\ R = t.refs + R1 /\ B1 \in Nat /\ R1 \in Nat
    <3>1. m + 1 \in 1 .. n + 1
      BY <1>1
    <3> QED BY <1>1, <3>1, SufBits, SufRefs
  <2>3. fits = (x + B <= CellBits /\ y + R <= 4)
    BY DEF RestFits
  <2>4. new = (~fits /\ (x + t.bits > CellBits \/ y + t.refs >= 4))
    BY DEF Begins, NeedsCell
  <2>5. pos[m] = Placed(types, m, st)
    BY <1>2 DEF PositionSteps
  <2>6. Placed(types, m, st).ok = (st.ok /\ b <= CellBits /\ r <= (IF fits THEN 4 ELSE 3))
    BY DEF Placed, Begins
  <2>7. Placed(types, m, st).bits = b /\ Placed(types, m, st).refs = r
    BY DEF Placed, Begins
  <2>8. b = (IF new THEN t.bits ELSE t.bits + x) /\ r = (IF new THEN t.refs ELSE t.refs + y)
    BY <2>1, <2>2
  <2> DEFINE tb == t.bits
             tr == t.refs
  <2> HIDE DEF tb, tr
  <2>9. b \in Nat /\ r \in Nat /\ b <= CellBits /\ r <= (IF fits THEN 4 ELSE 3)
    <3>1. /\ tb \in Nat /\ tb <= CellBits /\ tr \in Nat /\ tr <= 3 /\ B = tb + B1 /\ R = tr + R1
          /\ new = (~fits /\ (x + tb > CellBits \/ y + tr >= 4))
          /\ b = (IF new THEN tb ELSE tb + x) /\ r = (IF new THEN tr ELSE tr + y)
      BY <2>2, <2>4, <2>8 DEF tb, tr
    <3> HIDE DEF st, t, fits, new, b, r, x, y, B, R, B1, R1
    <3>2. CASE new
      BY <2>1, <3>1, <3>2
    <3>3. CASE ~new /\ fits
      <4>1. b = tb + x /\ r = tr + y /\ x + (tb + B1) <= CellBits /\ y + (tr + R1) <= 4
        BY <1>3, <2>1, <2>3, <3>1, <3>3
      <4>2. B1 \in Nat /\ R1 \in Nat
        BY <2>2
      <4> QED BY <1>3, <2>1, <3>1, <3>3, <4>1, <4>2
    <3>4. CASE ~new /\ ~fits
      <4>1. ~(x + tb > CellBits) /\ ~(y + tr >= 4)
        BY <3>1, <3>4
      <4> QED BY <1>3, <2>1, <3>1, <3>4, <4>1
    <3> QED BY <2>1, <3>2, <3>3, <3>4
  <2> HIDE DEF st, t, fits, new, b, r
  <2>10. pos[m].ok = TRUE /\ pos[m].bits \in Nat /\ pos[m].refs \in Nat
    BY <2>1, <2>5, <2>6, <2>7, <2>9
  <2> QED BY <1>1, <2>10
<1> HIDE DEF T
<1>6. n \in T
  <2>1. \A m \in 0 .. n : m \in T
    BY <1>1, <1>4, <1>5, Upwards
  <2> QED BY <1>1, <2>1
<1> QED BY <1>2, <1>6 DEF T

(* A list of values behind what a builder holds, if that takes no more than *)
(* the compiler was told, is read back by the code that the compiler makes  *)
(* from the same types and the same offset, and nothing is left.            *)
THEOREM EncodedIsDecoded ==
    ASSUME NEW types \in Seq(TypeSizes), NEW values, IsList(values), NEW n, n = Len(types), n = Len(values),
           \A i \in 1 .. n : Fitting(values[i], types[i]), NEW off \in Nat, off <= CellBits, NEW load,
           load = doLoadNextCell(types, off, 0), NEW b, IsSlice(b), Bits(b) <= off, Len(b.refs) = 0
    PROVE  \E s : /\ encodeParameters(values, load, b) = Cat(b, s)
                  /\ decodeParameters(types, load, s) = [values |-> values, rest |-> Empty]
<1>1. n \in Nat /\ 0 \in Nat /\ \A i \in 1 .. n : Stored(values[i], types[i]) /\ IsValue(values[i])
  BY DEF Fitting, Stored
<1>2. PICK pb, pr : pb[0] = off /\ pr[0] = 0 /\ Positions(types, load, pb, pr, n)
  BY <1>1, PositionFacts
<1>3. HasRoom(values, load, n, pb, pr)
  <2>1. pb[0] <= CellBits /\ pr[0] <= 3
    BY <1>2
  <2> QED BY <1>2, <2>1, RoomForValues
<1>4. \A i \in 1 .. n : load[i] \in BOOLEAN
  BY <1>2, LoadsAreBoolean
<1>5. PICK E : IsEncoding(E, values, load, n)
  BY <1>1, EncodingExists
<1>6. encodeParameters(values, load, b) = Cat(b, E[0])
  <2>1. Within(b, pb[0], pr[0])
    BY <1>2 DEF Within
  <2>2. \A i \in 1 .. n : IsValue(values[i]) /\ load[i] \in BOOLEAN
    BY <1>1, <1>4
  <2> QED BY <1>1, <1>3, <1>5, <2>1, <2>2, Encoded
<1>7. decodeParameters(types, load, E[0]) = [values |-> values, rest |-> Empty]
  <2>1. ToRead(types, load, values, n, E, E[0])
    BY <1>1, <1>4, <1>5 DEF ToRead
  <2> QED BY <2>1, AllIsRead
<1> QED BY <1>6, <1>7

=============================================================================
