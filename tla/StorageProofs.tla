---------------------------- MODULE StorageProofs ----------------------------
(***************************************************************************)
(* What is stored in c4 and in the slice of c7 is what the plain encoder   *)
(* makes of the current values, for every contract and every sequence of   *)
(* transactions and built-ins; and what is read is what was stored.        *)
(*                                                                         *)
(* All values of a contract are laid out once (IsLaid): E[i] is the slice  *)
(* behind the first i members.  With the header in front of E[0] this is   *)
(* c4 (StoredFacts); E[U], behind the U members of usual variables, is the *)
(* slice of c7 (UsualRead).  unpackedData walks from E[U] to the last      *)
(* member it needs, always at the slice of the member that comes next      *)
(* (SliceAt, UnpackNext).  packData takes the same walk and leaves a list  *)
(* of parts behind (PartsUpTo): the new values, the old ones or pieces of  *)
(* the old slice, each with its place in the layout of the old values.  Put*)
(* together, they give the slice in the layout of the new ones (PutNext,   *)
(* PackedIs), since a cell begins at the same members in both: where cells *)
(* begin was decided by the types alone.                                   *)
(***************************************************************************)
EXTENDS StorageInvariants, AbiCellsProofs

(***************************************************************************)
(* More about slices.                                                      *)
(***************************************************************************)
(* The sum of two lists, one behind the other.                              *)
LEMMA TotalCat ==
    ASSUME NEW s \in Seq(Nat), NEW t \in Seq(Nat)
    PROVE  Total(s \o t) = Total(s) + Total(t) /\ Total(s) \in Nat /\ Total(t) \in Nat
<1> DEFINE p == Len(s)
           q == Len(t)
           u == s \o t
<1>1. p \in Nat /\ q \in Nat /\ u \in Seq(Nat) /\ Len(u) = p + q
  OBVIOUS
<1>2. PICK f \in [0 .. p -> Nat] : IsSum(f, s)
  BY SumExists
<1>3. PICK g \in [0 .. q -> Nat] : IsSum(g, t)
  BY SumExists
<1>4. f[0] = 0 /\ \A n \in 1 .. p : f[n] = f[n - 1] + s[n]
  BY <1>2, SumSteps
<1>5. g[0] = 0 /\ \A n \in 1 .. q : g[n] = g[n - 1] + t[n]
  BY <1>3, SumSteps
<1>6. \A n \in 1 .. p + q : u[n] = IF n <= p THEN s[n] ELSE t[n - p]
  <2>1. IsList(s) /\ IsList(t)
    BY DEF IsList
  <2> QED BY <2>1, CatList
<1> HIDE DEF p, q, u
<1> DEFINE F == [n \in 0 .. Len(u) |-> IF n <= p THEN f[n] ELSE f[p] + g[n - p]]
<1>7. F[0] = 0 /\ F = [n \in 0 .. Len(u) |-> F[n]]
  BY <1>1, <1>4
<1>8. ASSUME NEW n \in 1 .. Len(u) PROVE F[n] = F[n - 1] + u[n]
  <2>1. n \in 0 .. Len(u) /\ n - 1 \in 0 .. Len(u) /\ n \in 1 .. p + q
    BY <1>1
  <2>2. F[n] = (IF n <= p THEN f[n] ELSE f[p] + g[n - p]) /\ F[n - 1] = (IF n - 1 <= p THEN f[n - 1] ELSE f[p] + g[n - 1 - p])
    BY <2>1
  <2> HIDE DEF F
  <2>3. CASE n <= p
    <3>1. n \in 1 .. p /\ n - 1 <= p /\ u[n] = s[n]
      BY <1>1, <1>6, <2>1, <2>3
    <3> QED BY <1>4, <2>2, <2>3, <3>1
  <2>4. CASE n = p + 1
    <3>1. ~(n <= p) /\ n - 1 = p /\ n - p = 1 /\ 1 \in 1 .. q /\ u[n] = t[1]
      BY SMTT(30), <1>1, <1>6, <2>1, <2>4
    <3>2. g[1] = t[1] /\ f[p] \in Nat /\ t[1] \in Nat
      <4>1. g[1] = g[0] + t[1] /\ g[1] \in Nat
        <5>1. 1 - 1 = 0 /\ 1 \in 0 .. q
          BY <3>1
        <5> QED BY <1>3, <1>5, <3>1, <5>1
      <4>2. t[1] \in Nat /\ p \in 0 .. p
        BY <1>1, <3>1 DEF q
      <4> QED BY <1>2, <1>5, <4>1, <4>2
    <3>3. F[n] = f[p] + g[1] /\ F[n - 1] = f[p]
      <4>1. n - 1 <= p
        BY <1>1, <3>1
      <4> QED BY <2>2, <3>1, <4>1
    <3> QED BY <3>1, <3>2, <3>3
  <2>5. CASE n > p + 1
    <3> DEFINE k == n - p
    <3>1. ~(n <= p) /\ ~(n - 1 <= p) /\ k \in 1 .. q /\ (n - 1) - p = k - 1
      BY <1>1, <2>1, <2>5
    <3>2. u[n] = t[k] /\ F[n] = f[p] + g[k] /\ F[n - 1] = f[p] + g[k - 1]
      BY <1>6, <2>1, <2>2, <3>1
    <3> HIDE DEF k
    <3>3. k \in 0 .. q /\ k - 1 \in 0 .. q /\ p \in 0 .. p
      BY <1>1, <3>1
    <3>4. g[k] = g[k - 1] + t[k] /\ g[k - 1] \in Nat /\ f[p] \in Nat
      BY <1>2, <1>3, <1>5, <3>1, <3>3
    <3>5. t[k] \in Nat
      BY <3>1 DEF q
    <3> QED BY <3>2, <3>4, <3>5
  <2> QED BY <1>1, <2>1, <2>3, <2>4, <2>5
<1>9. IsSum(F, u)
  <2> HIDE DEF F
  <2> QED BY <1>1, <1>7, <1>8, SumSteps
<1>10. Total(u) = F[Len(u)]
  <2> HIDE DEF F
  <2> QED BY <1>1, <1>9, TotalIs
<1>11. F[p + q] = f[p] + g[q] /\ f[p] \in Nat /\ g[q] \in Nat
  <2>1. p + q \in 0 .. Len(u) /\ p \in 0 .. p /\ q \in 0 .. q
    BY <1>1
  <2>2. CASE q = 0
    <3>1. p + q <= p /\ p + q = p
      BY <1>1, <2>2
    <3> QED BY <1>2, <1>3, <1>5, <2>1, <2>2, <3>1
  <2>3. CASE q # 0
    <3>1. ~(p + q <= p) /\ (p + q) - p = q
      BY <1>1, <2>3
    <3> QED BY <1>2, <1>3, <2>1, <3>1
  <2> QED BY <2>2, <2>3
<1>12. Total(s) = f[p] /\ Total(t) = g[q]
  BY <1>2, <1>3, TotalIs DEF p, q
<1> HIDE DEF F
<1> QED BY <1>1, <1>10, <1>11, <1>12 DEF u

(* The size of two slices, one behind the other.                            *)
LEMMA CatSizes ==
    ASSUME NEW a, NEW b, IsSlice(a), IsSlice(b)
    PROVE  /\ IsSlice(Cat(a, b)) /\ Bits(Cat(a, b)) = Bits(a) + Bits(b) /\ Len(Cat(a, b).refs) = Len(a.refs) + Len(b.refs)
           /\ Bits(a) \in Nat /\ Bits(b) \in Nat /\ Len(a.refs) \in Nat /\ Len(b.refs) \in Nat
<1> DEFINE c == Cat(a, b)
<1>1. IsSlice(c) /\ Len(c.refs) = Len(a.refs) + Len(b.refs)
  BY CatFacts
<1>2. /\ Lengths(a) \in Seq(Nat) /\ Len(Lengths(a)) = Len(a.bits) /\ Bits(a) = Total(Lengths(a)) /\ Bits(a) \in Nat
      /\ Lengths(b) \in Seq(Nat) /\ Len(Lengths(b)) = Len(b.bits) /\ Bits(b) = Total(Lengths(b)) /\ Bits(b) \in Nat
      /\ Len(a.refs) \in Nat /\ Len(b.refs) \in Nat /\ Len(a.bits) \in Nat /\ Len(b.bits) \in Nat
  BY LengthsFacts
<1>3. Lengths(c) \in Seq(Nat) /\ Len(Lengths(c)) = Len(c.bits) /\ Bits(c) = Total(Lengths(c))
  BY <1>1, LengthsFacts
<1>4. IsList(a.bits) /\ IsList(b.bits) /\ c.bits = a.bits \o b.bits
  BY DEF IsSlice, Cat
<1>5. Len(c.bits) = Len(a.bits) + Len(b.bits) /\ \A k \in 1 .. Len(a.bits) + Len(b.bits) :
         c.bits[k] = IF k <= Len(a.bits) THEN a.bits[k] ELSE b.bits[k - Len(a.bits)]
  <2> DEFINE s == a.bits
             t == b.bits
             u == s \o t
  <2>1. IsList(s) /\ IsList(t) /\ c.bits = u
    BY <1>4
  <2> HIDE DEF s, t
  <2>2. /\ Len(u) = Len(s) + Len(t)
        /\ \A k \in 1 .. Len(s) + Len(t) : u[k] = IF k <= Len(s) THEN s[k] ELSE t[k - Len(s)]
    BY <2>1, CatList
  <2> HIDE DEF u
  <2> QED BY <2>1, <2>2 DEF s, t
<1>6. Lengths(c) = Lengths(a) \o Lengths(b)
  <2> DEFINE x == Lengths(a)
             y == Lengths(b)
             z == Lengths(c)
             p == Len(a.bits)
             q == Len(b.bits)
  <2>1. IsList(x) /\ IsList(y) /\ IsList(z) /\ Len(x) = p /\ Len(y) = q /\ Len(z) = p + q
    BY <1>2, <1>3, <1>5 DEF IsList
  <2>2. \A k \in 1 .. p : x[k] = a.bits[k].size.bits
    BY DEF Lengths
  <2>3. \A k \in 1 .. q : y[k] = b.bits[k].size.bits
    BY DEF Lengths
  <2>4. \A k \in 1 .. p + q : z[k] = c.bits[k].size.bits
    BY <1>5 DEF Lengths
  <2>5. p \in Nat /\ q \in Nat
    BY <1>2
  <2>6. \A k \in 1 .. p + q : c.bits[k] = IF k <= p THEN a.bits[k] ELSE b.bits[k - p]
    BY <1>5
  <2> HIDE DEF x, y, z, c, p, q
  <2>7. IsList(x \o y) /\ Len(x \o y) = p + q /\ \A k \in 1 .. p + q : (x \o y)[k] = IF k <= p THEN x[k] ELSE y[k - p]
    BY <2>1, CatList
  <2>8. ASSUME NEW k \in 1 .. p + q PROVE z[k] = (x \o y)[k]
    <3>1. CASE k <= p
      <4>1. k \in 1 .. p
        BY <2>5, <3>1
      <4> QED BY <2>2, <2>4, <2>6, <2>7, <3>1, <4>1
    <3>2. CASE ~(k <= p)
      <4>1. k - p \in 1 .. q
        BY <2>5, <3>2, Behind
      <4> QED BY <2>3, <2>4, <2>6, <2>7, <3>2, <4>1
    <3> QED BY <3>1, <3>2
  <2>9. z = x \o y
    BY <2>1, <2>7, <2>8, SameList
  <2> QED BY <2>9 DEF x, y, z
<1>7. Bits(c) = Bits(a) + Bits(b)
  <2>1. Total(Lengths(a) \o Lengths(b)) = Total(Lengths(a)) + Total(Lengths(b))
    BY <1>2, TotalCat
  <2> QED BY <1>2, <1>3, <1>6, <2>1
<1> QED BY <1>1, <1>2, <1>7

(* The size of a value in front of a slice.                                 *)
LEMMA AheadSizes ==
    ASSUME NEW v, NEW s, IsValue(v), IsSlice(s)
    PROVE  /\ IsSlice(Ahead(v, s)) /\ Bits(Ahead(v, s)) = v.size.bits + Bits(s)
           /\ Len(Ahead(v, s).refs) = v.size.refs + Len(s.refs) /\ v.size.bits \in Nat /\ v.size.refs \in Nat
<1> DEFINE f == Ahead(v, Empty)
<1>1. IsSlice(f) /\ Cat(f, s) = Ahead(v, s) /\ Cat(Empty, f) = f
  BY EmptyFacts, FrontSlice, CatFront, CatEmpty
<1>2. Bits(Cat(Empty, f)) = Bits(Empty) + v.size.bits /\ Len(Cat(Empty, f).refs) = Len(Empty.refs) + v.size.refs
  BY EmptyFacts, MoreBits
<1>3. v.size.bits \in Nat /\ v.size.refs \in Nat
  BY DEF IsValue
<1>4. Bits(f) = v.size.bits /\ Len(f.refs) = v.size.refs
  BY <1>1, <1>2, <1>3, EmptyFacts
<1> HIDE DEF f
<1> QED BY <1>1, <1>3, <1>4, CatSizes

(* A value in front of two slices.                                          *)
LEMMA AheadCat ==
    ASSUME NEW v, NEW a, NEW b, IsValue(v), IsSlice(a), IsSlice(b)
    PROVE  Ahead(v, Cat(a, b)) = Cat(Ahead(v, a), b)
<1> DEFINE f == Ahead(v, Empty)
<1>1. IsSlice(f) /\ Cat(f, a) = Ahead(v, a)
  BY EmptyFacts, FrontSlice, CatFront
<1>2. IsSlice(Cat(a, b)) /\ Cat(f, Cat(a, b)) = Ahead(v, Cat(a, b))
  BY CatFacts, CatFront
<1>3. Cat(Cat(f, a), b) = Cat(f, Cat(a, b))
  BY <1>1, CatCat
<1> QED BY <1>1, <1>2, <1>3

(* STSLICE, if there is room.                                               *)
LEMMA StoreSliceIs ==
    ASSUME NEW b, NEW s, IsSlice(b), IsSlice(s), Bits(b) + Bits(s) <= CellBits, Len(b.refs) + Len(s.refs) <= CellRefs
    PROVE  StoreSlice(b, s) = Cat(b, s)
<1>1. b # Broken /\ s # Broken
  BY NotBroken DEF IsSlice
<1> DEFINE c == Cat(b, s)
<1>2. Bits(c) = Bits(b) + Bits(s) /\ Len(c.refs) = Len(b.refs) + Len(s.refs) /\ c # Broken /\ IsSlice(c)
  BY CatSizes, NotBroken DEF Cat
<1>3. Bits(c) \in Nat /\ Len(c.refs) \in Nat
  BY <1>2, LengthsFacts
<1>4. StoreSlice(b, s) = Checked(c)
  BY <1>1 DEF StoreSlice, Cat
<1> HIDE DEF c
<1>5. ~Full(c)
  <2>1. Bits(c) <= 1023 /\ Len(c.refs) <= 4
    <3>1. Bits(c) <= CellBits /\ Len(c.refs) <= CellRefs
      BY <1>2, Zenon
    <3> QED BY <3>1 DEF CellBits, CellRefs
  <2>3. ~(Bits(c) > CellBits) /\ ~(Len(c.refs) > CellRefs)
    BY <1>3, <2>1 DEF CellBits, CellRefs
  <2> QED BY <2>3 DEF Full
<1> QED BY <1>2, <1>4, <1>5 DEF Checked, c

(* The reference behind a slice leads to the cell.                          *)
LEMMA CellBehind ==
    ASSUME NEW a, NEW c, IsSlice(a), IsSlice(c)
    PROVE  /\ IsSlice(Cat(a, OneCell(c))) /\ Len(Cat(a, OneCell(c)).refs) = Len(a.refs) + 1 /\ Len(a.refs) \in Nat
           /\ RefAt(Cat(a, OneCell(c)), Len(a.refs)) = c
           /\ SubSeq(Cat(a, OneCell(c)).refs, 1, Len(a.refs)) = a.refs /\ Cat(a, OneCell(c)).bits = a.bits
<1> DEFINE s == Cat(a, OneCell(c))
           one == <<[to |-> c]>>
           n == Len(a.refs)
<1>1. IsSlice(s) /\ Len(s.refs) = n + 1 /\ s.refs = a.refs \o one /\ s.bits = a.bits \o <<>> /\ s # Broken
  <2>1. IsSlice(OneCell(c)) /\ Len(OneCell(c).refs) = 1 /\ OneCell(c).refs = one /\ OneCell(c).bits = <<>>
    BY CellFacts DEF OneCell
  <2> HIDE DEF one
  <2>2. IsSlice(s) /\ Len(s.refs) = n + 1
    BY <2>1, CatFacts
  <2>3. s.refs = a.refs \o one /\ s.bits = a.bits \o <<>> /\ s # Broken
    BY <2>1, NotBroken DEF Cat
  <2> QED BY <2>2, <2>3
<1>2. IsList(a.refs) /\ IsList(a.bits) /\ n \in Nat
  BY ListFacts DEF IsSlice
<1>3. IsList(one) /\ Len(one) = 1 /\ one[1] = [to |-> c]
  BY OneList
<1>4. s.bits = a.bits
  BY <1>1, <1>2, CatNothing
<1>5. SubSeq(s.refs, 1, n) = a.refs
  <2> HIDE DEF one, s
  <2> QED BY <1>1, <1>2, <1>3, PartsOfList
<1>6. s.refs[n + 1] = [to |-> c]
  <2> HIDE DEF one, s
  <2>1. \A k \in 1 .. n + 1 : (a.refs \o one)[k] = IF k <= n THEN a.refs[k] ELSE one[k - n]
    <3>1. \A k \in 1 .. Len(a.refs) + Len(one) : (a.refs \o one)[k] = IF k <= Len(a.refs) THEN a.refs[k] ELSE one[k - Len(a.refs)]
      BY <1>2, <1>3, CatList
    <3> QED BY <1>3, <3>1
  <2>2. n + 1 \in 1 .. n + 1 /\ ~(n + 1 <= n) /\ (n + 1) - n = 1
    BY <1>2
  <2> QED BY <1>1, <1>3, <2>1, <2>2
<1>7. DOMAIN c = DOMAIN Empty
  BY DEF IsSlice, Empty
<1>8. NextCell([Empty EXCEPT !.refs = <<[to |-> c]>>]) = c
  <2>1. [Empty EXCEPT !.refs = <<[to |-> c]>>] = [bits |-> <<>>, refs |-> <<[to |-> c]>>]
    BY DEF Empty
  <2>2. [bits |-> <<>>, refs |-> <<[to |-> c]>>] # Broken
    BY NotBroken
  <2>3. <<[to |-> c]>> # <<>> /\ Head(<<[to |-> c]>>).to = c
    OBVIOUS
  <2> QED BY <1>7, <2>1, <2>2, <2>3 DEF NextCell, isCell
<1>9. RefAt(s, n) = c
  <2>1. n + 1 \in 1 .. Len(s.refs)
    BY <1>1, <1>2
  <2> HIDE DEF s, n
  <2> QED BY <1>1, <1>6, <1>8, <2>1 DEF RefAt
<1> QED BY <1>1, <1>2, <1>4, <1>5, <1>9

(* The next cell of the chain.                                              *)
LEMMA NextOfOne ==
    ASSUME NEW c, IsSlice(c)
    PROVE  NextCell(OneCell(c)) = c
<1>1. DOMAIN c = DOMAIN Empty
  BY DEF IsSlice, Empty
<1>2. OneCell(c) # Broken /\ OneCell(c).refs = <<[to |-> c]>>
  BY NotBroken DEF OneCell
<1>3. <<[to |-> c]>> # <<>> /\ Head(<<[to |-> c]>>).to = c
  OBVIOUS
<1> QED BY <1>1, <1>2, <1>3 DEF NextCell, isCell

(***************************************************************************)
(* Induction between two numbers.                                          *)
(***************************************************************************)
LEMMA UpFrom ==
    ASSUME NEW a \in Int, NEW b \in Int, NEW T, a <= b, a \in T, \A i \in a .. b - 1 : i \in T => i + 1 \in T
    PROVE  \A i \in a .. b : i \in T
<1> DEFINE S == {k \in 0 .. b - a : a + k \in T}
<1>1. 0 \in S
  OBVIOUS
<1>2. ASSUME NEW k \in 1 .. b - a, k - 1 \in S PROVE k \in S
  <2>1. a + (k - 1) \in a .. b - 1 /\ (a + (k - 1)) + 1 = a + k /\ k \in 0 .. b - a
    OBVIOUS
  <2>2. a + (k - 1) \in T
    BY <1>2
  <2>3. (a + (k - 1)) + 1 \in T
    BY <2>1, <2>2
  <2> QED BY <2>1, <2>3
<1>3. \A k \in 0 .. b - a : k \in S
  <2>1. b - a \in Nat
    OBVIOUS
  <2> HIDE DEF S
  <2> QED BY <1>1, <1>2, <2>1, Upwards
<1>4. ASSUME NEW i \in a .. b PROVE i \in T
  <2>1. i - a \in 0 .. b - a /\ a + (i - a) = i
    OBVIOUS
  <2>2. i - a \in S
    <3> HIDE DEF S
    <3> QED BY <1>3, <2>1
  <2> QED BY <2>1, <2>2
<1> QED BY <1>4

(* Induction downwards.                                                     *)
LEMMA DownFrom ==
    ASSUME NEW a \in Int, NEW b \in Int, NEW T, a <= b, b \in T, \A i \in a .. b - 1 : i + 1 \in T => i \in T
    PROVE  \A i \in a .. b : i \in T
<1> DEFINE S == {k \in 0 .. b - a : b - k \in T}
<1>1. 0 \in S
  OBVIOUS
<1>2. ASSUME NEW k \in 1 .. b - a, k - 1 \in S PROVE k \in S
  <2>1. b - k \in a .. b - 1 /\ (b - k) + 1 = b - (k - 1) /\ k \in 0 .. b - a
    OBVIOUS
  <2>2. b - (k - 1) \in T
    BY <1>2
  <2>3. b - k \in T
    BY <2>1, <2>2
  <2> QED BY <2>1, <2>3
<1>3. \A k \in 0 .. b - a : k \in S
  <2>1. b - a \in Nat
    OBVIOUS
  <2> HIDE DEF S
  <2> QED BY <1>1, <1>2, <2>1, Upwards
<1>4. ASSUME NEW i \in a .. b PROVE i \in T
  <2>1. b - i \in 0 .. b - a /\ b - (b - i) = i
    OBVIOUS
  <2>2. b - i \in S
    <3> HIDE DEF S
    <3> QED BY <1>3, <2>1
  <2> QED BY <2>1, <2>2
<1> QED BY <1>4

(***************************************************************************)
(* Values laid out in cells: E[i] is what follows the first i of them.     *)
(***************************************************************************)
Exact(v, t) ==
    /\ t.fixedSize => v.size.bits = t.bits /\ v.size.refs = t.refs
    /\ t.fixedRefs => v.size.refs = t.refs

Laid(t, l, h, E, pb, pr, n) ==
    /\ t \in Seq(TypeSizes) /\ n \in Nat /\ n = Len(t) /\ IsList(h) /\ n = Len(h)
    /\ IsEncoding(E, h, l, n) /\ Positions(t, l, pb, pr, n) /\ pb[0] <= CellBits /\ pr[0] <= 3
    /\ \A i \in 1 .. n : Fitting(h[i], t[i]) /\ Exact(h[i], t[i])

(* What is known of each place.                                             *)
LEMMA LaidFacts ==
    ASSUME NEW t, NEW l, NEW h, NEW E, NEW pb, NEW pr, NEW n, Laid(t, l, h, E, pb, pr, n)
    PROVE  /\ n \in Nat /\ HasRoom(h, l, n, pb, pr) /\ E[n] = Empty
           /\ \A i \in 0 .. n : IsSlice(E[i]) /\ pb[i] \in Nat /\ pr[i] \in Nat /\ pb[i] <= CellBits /\ pr[i] <= CellRefs
           /\ \A i \in 1 .. n : /\ IsValue(h[i]) /\ Stored(h[i], t[i]) /\ l[i] \in BOOLEAN
                                /\ E[i - 1] = Before(h[i], l[i], E[i]) /\ t[i] \in TypeSizes
                                /\ l[i] => pr[i - 1] <= 3
<1>1. /\ t \in Seq(TypeSizes) /\ n \in Nat /\ n = Len(t) /\ IsEncoding(E, h, l, n) /\ Positions(t, l, pb, pr, n)
      /\ pb[0] <= CellBits /\ pr[0] <= 3
  BY DEF Laid
<1>2. \A i \in 1 .. n : Fitting(h[i], t[i])
  BY DEF Laid
<1>3. \A i \in 1 .. n : Stored(h[i], t[i]) /\ IsValue(h[i])
  BY <1>2 DEF Fitting, Stored
<1>4. HasRoom(h, l, n, pb, pr)
  BY <1>1, <1>2, RoomForValues
<1>5. \A i \in 0 .. n : IsSlice(E[i])
  BY <1>1, <1>3, EncodingSlices
<1>6. \A i \in 1 .. n : l[i] \in BOOLEAN
  BY <1>1, LoadsAreBoolean
<1>7. E[n] = Empty /\ \A i \in 1 .. n : E[i - 1] = Before(h[i], l[i], E[i]) /\ t[i] \in TypeSizes
  BY <1>1 DEF IsEncoding, EncodingSteps
<1>8. \A i \in 0 .. n : pb[i] \in Nat /\ pr[i] \in Nat
  BY <1>4 DEF HasRoom
<1>9. ASSUME NEW i \in 0 .. n PROVE pb[i] <= CellBits /\ pr[i] <= CellRefs
  <2>1. CASE i = 0
    <3>1. pr[0] \in Nat
      BY <1>1, <1>8
    <3> QED BY <1>1, <2>1, <3>1 DEF CellRefs
  <2>2. CASE i # 0
    <3>1. i \in 1 .. n
      BY <2>2
    <3> QED BY <1>4, <3>1 DEF HasRoom
  <2> QED BY <2>1, <2>2
<1>10. \A i \in 1 .. n : l[i] => pr[i - 1] <= 3
  BY <1>4 DEF HasRoom
<1> QED BY <1>1, <1>3, <1>4, <1>5, <1>6, <1>7, <1>8, <1>9, <1>10

(* The values from the i-th up to the one before the j-th.                  *)
Contents(h, i, j) == (CHOOSE E : IsEncoding(E, h, [k \in 1 .. (j - 1) |-> FALSE], j - 1))[i - 1]

(* They are put together from the last to the first.                        *)
LEMMA ContentsSteps ==
    ASSUME NEW h, NEW j \in Nat \ {0}
    PROVE  Contents(h, j, j) = Empty /\ \A i \in 1 .. j - 1 : Contents(h, i, j) = Ahead(h[i], Contents(h, i + 1, j))
<1> DEFINE no == [k \in 1 .. (j - 1) |-> FALSE]
           C == CHOOSE E : IsEncoding(E, h, no, j - 1)
<1>1. j - 1 \in Nat /\ \A i \in 1 .. j - 1 : no[i] = FALSE
  OBVIOUS
<1>2. \A i : Contents(h, i, j) = C[i - 1]
  BY DEF Contents
<1> HIDE DEF no
<1>3. IsEncoding(C, h, no, j - 1)
  <2>1. \E E : IsEncoding(E, h, no, j - 1)
    BY <1>1, EncodingExists
  <2> QED BY <2>1, Zenon
<1> HIDE DEF C
<1>4. ASSUME NEW i \in 1 .. j - 1 PROVE C[i - 1] = Ahead(h[i], C[i])
  BY <1>1, <1>3 DEF IsEncoding, EncodingSteps, Before
<1>5. C[j - 1] = Empty
  BY <1>3 DEF IsEncoding
<1>6. \A i \in 1 .. j - 1 : (i + 1) - 1 = i
  OBVIOUS
<1> QED BY <1>2, <1>4, <1>5, <1>6

(* They are a slice.                                                        *)
LEMMA ContentsSlice ==
    ASSUME NEW h, NEW j \in Nat \ {0}, \A k \in 1 .. j - 1 : IsValue(h[k])
    PROVE  \A i \in 1 .. j : IsSlice(Contents(h, i, j))
<1> DEFINE T == {i \in 1 .. j : IsSlice(Contents(h, i, j))}
<1>1. j \in T
  BY ContentsSteps, EmptyFacts
<1>2. ASSUME NEW i \in 1 .. j - 1, i + 1 \in T PROVE i \in T
  <2>1. IsSlice(Contents(h, i + 1, j)) /\ IsValue(h[i])
    BY <1>2
  <2>2. IsSlice(Ahead(h[i], Contents(h, i + 1, j)))
    BY <2>1, FrontSlice
  <2>3. Contents(h, i, j) = Ahead(h[i], Contents(h, i + 1, j)) /\ i \in 1 .. j
    BY ContentsSteps
  <2> QED BY <2>2, <2>3
<1>3. \A i \in 1 .. j : i \in T
  <2> HIDE DEF T
  <2> QED BY <1>1, <1>2, DownFrom
<1> QED BY <1>3

(* One value.                                                               *)
LEMMA ContentsOne ==
    ASSUME NEW h, NEW i \in Nat \ {0}
    PROVE  Contents(h, i, i + 1) = Ahead(h[i], Empty)
<1>1. i + 1 \in Nat \ {0} /\ i \in 1 .. (i + 1) - 1
  OBVIOUS
<1> QED BY <1>1, ContentsSteps

(* No cell begins between the i-th value and the j-th.                      *)
OneStretch(l, i, j) == \A k \in i + 1 .. j - 1 : l[k] = FALSE

(* Up to the next cell, a cell holds the values and what follows them.      *)
LEMMA CellContents ==
    ASSUME NEW t, NEW l, NEW h, NEW E, NEW pb, NEW pr, NEW n, Laid(t, l, h, E, pb, pr, n),
           NEW i \in 1 .. n, NEW j \in i + 1 .. n + 1, OneStretch(l, i, j)
    PROVE  /\ Ahead(h[i], E[i]) = Cat(Contents(h, i, j), E[j - 1])
           /\ IsSlice(Contents(h, i, j)) /\ IsSlice(E[j - 1]) /\ IsSlice(Ahead(h[i], E[i]))
<1> DEFINE P(k) == Ahead(h[k], E[k]) = Cat(Contents(h, k, j), E[j - 1])
           T == {k \in i .. j - 1 : P(k)}
<1>1. n \in Nat /\ j \in Nat \ {0} /\ j - 1 \in 1 .. n /\ j - 1 \in 0 .. n /\ i <= j - 1
  BY LaidFacts
<1>2. \A k \in 1 .. n : IsValue(h[k]) /\ E[k - 1] = Before(h[k], l[k], E[k])
  BY LaidFacts
<1>3. \A k \in 0 .. n : IsSlice(E[k])
  BY LaidFacts
<1>4. \A k \in 1 .. j : IsSlice(Contents(h, k, j))
  BY <1>1, <1>2, ContentsSlice
<1>5. j - 1 \in T
  <2>1. Contents(h, j - 1, j) = Ahead(h[j - 1], Empty)
    <3>1. j - 1 \in Nat \ {0} /\ (j - 1) + 1 = j
      BY <1>1
    <3> QED BY <3>1, ContentsOne
  <2>2. Cat(Ahead(h[j - 1], Empty), E[j - 1]) = Ahead(h[j - 1], E[j - 1])
    BY <1>1, <1>2, <1>3, CatFront
  <2> QED BY <1>1, <2>1, <2>2
<1>6. ASSUME NEW k \in i .. (j - 1) - 1, k + 1 \in T PROVE k \in T
  <2>1. k \in 1 .. j - 1 /\ k + 1 \in i + 1 .. j - 1 /\ k + 1 \in 1 .. n /\ (k + 1) - 1 = k /\ k \in 1 .. n /\ k + 1 \in 1 .. j /\ k \in i .. j - 1
    BY <1>1
  <2>2. Ahead(h[k + 1], E[k + 1]) = Cat(Contents(h, k + 1, j), E[j - 1])
    BY <1>6
  <2>3. E[k] = Ahead(h[k + 1], E[k + 1])
    BY <1>2, <2>1 DEF Before, OneStretch
  <2>4. Ahead(h[k], Cat(Contents(h, k + 1, j), E[j - 1])) = Cat(Ahead(h[k], Contents(h, k + 1, j)), E[j - 1])
    BY <1>1, <1>2, <1>3, <1>4, <2>1, AheadCat
  <2>5. Contents(h, k, j) = Ahead(h[k], Contents(h, k + 1, j))
    BY <1>1, <2>1, ContentsSteps
  <2> QED BY <2>1, <2>2, <2>3, <2>4, <2>5
<1>7. i \in T
  <2> HIDE DEF T
  <2>1. \A k \in i .. j - 1 : k \in T
    BY <1>1, <1>5, <1>6, DownFrom
  <2> QED BY <1>1, <2>1
<1>8. P(i) /\ i \in 0 .. n /\ i \in 1 .. j
  BY <1>1, <1>7
<1> QED BY <1>1, <1>2, <1>3, <1>4, <1>8, FrontSlice

(* The values of a stretch take no more than their types, and just that if  *)
(* all are of fixed size.                                                   *)
LEMMA ContentsSizes ==
    ASSUME NEW t, NEW l, NEW h, NEW E, NEW pb, NEW pr, NEW n, Laid(t, l, h, E, pb, pr, n),
           NEW i \in 1 .. n, NEW j \in i .. n + 1, NEW C, C = Contents(h, i, j)
    PROVE  /\ IsSlice(C) /\ Bits(C) \in Nat /\ Len(C.refs) \in Nat
           /\ sufBits(t, i) \in Nat /\ sufBits(t, j) \in Nat /\ sufRefs(t, i) \in Nat /\ sufRefs(t, j) \in Nat
           /\ Bits(C) + sufBits(t, j) <= sufBits(t, i) /\ Len(C.refs) + sufRefs(t, j) <= sufRefs(t, i)
           /\ (\A k \in i .. j - 1 : t[k].fixedSize) =>
                 Bits(C) + sufBits(t, j) = sufBits(t, i) /\ Len(C.refs) + sufRefs(t, j) = sufRefs(t, i)
           /\ (\A k \in i .. j - 1 : t[k].fixedRefs) => Len(C.refs) + sufRefs(t, j) = sufRefs(t, i)
<1> DEFINE c(k) == Contents(h, k, j)
           B(k) == sufBits(t, k)
           R(k) == sufRefs(t, k)
           size == \A k \in i .. j - 1 : t[k].fixedSize
           refs == \A k \in i .. j - 1 : t[k].fixedRefs
           P(k) == /\ IsSlice(c(k)) /\ Bits(c(k)) \in Nat /\ Len(c(k).refs) \in Nat
                   /\ Bits(c(k)) + B(j) <= B(k) /\ Len(c(k).refs) + R(j) <= R(k)
                   /\ size => Bits(c(k)) + B(j) = B(k) /\ Len(c(k).refs) + R(j) = R(k)
                   /\ refs => Len(c(k).refs) + R(j) = R(k)
           T == {k \in i .. j : P(k)}
<1>1. n \in Nat /\ j \in Nat \ {0} /\ i <= j /\ \A k \in 1 .. n : IsValue(h[k])
  BY LaidFacts
<1>2. t \in Seq(TypeSizes) /\ n = Len(t)
  BY DEF Laid
<1>3. \A k \in 1 .. n + 1 : B(k) \in Nat /\ R(k) \in Nat
  BY <1>2, SufBits, SufRefs
<1>4. \A k \in 1 .. n : /\ t[k].bits \in Nat /\ B(k) = t[k].bits + B(k + 1)
                        /\ t[k].refs \in Nat /\ R(k) = t[k].refs + R(k + 1)
  BY <1>2, SufBits, SufRefs
<1>5. \A k \in 1 .. n : /\ h[k].size.bits <= t[k].bits /\ h[k].size.refs <= t[k].refs
                        /\ (t[k].fixedSize => h[k].size.bits = t[k].bits /\ h[k].size.refs = t[k].refs)
                        /\ (t[k].fixedRefs => h[k].size.refs = t[k].refs)
  BY DEF Laid, Fitting, Exact
<1>6. c(j) = Empty /\ \A k \in 1 .. j - 1 : c(k) = Ahead(h[k], c(k + 1))
  BY <1>1, ContentsSteps
<1>7. j \in T
  <2>1. j \in i .. j /\ j \in 1 .. n + 1 /\ B(j) \in Nat /\ R(j) \in Nat
    BY <1>1, <1>3
  <2> HIDE DEF c, B, R
  <2> QED BY <1>6, <2>1, EmptyFacts
<1> HIDE DEF c, B, R, size, refs
<1>8. ASSUME NEW k \in i .. j - 1, k + 1 \in T PROVE k \in T
  <2>1. k \in 1 .. n /\ k \in 1 .. j - 1 /\ k \in i .. j /\ j \in 1 .. n + 1 /\ k + 1 \in 1 .. n + 1 /\ k \in 1 .. n + 1
    BY <1>1
  <2>2. P(k + 1)
    BY <1>8
  <2> DEFINE d == c(k + 1)
             v == h[k]
             x == t[k]
  <2>3. IsSlice(d) /\ IsValue(v) /\ c(k) = Ahead(v, d)
    BY <1>1, <1>6, <2>1, <2>2
  <2> HIDE DEF d, v
  <2>4. /\ IsSlice(c(k)) /\ Bits(c(k)) = v.size.bits + Bits(d)
        /\ Len(c(k).refs) = v.size.refs + Len(d.refs) /\ v.size.bits \in Nat /\ v.size.refs \in Nat
    BY <2>3, AheadSizes
  <2>5. /\ x.bits \in Nat /\ B(k) = x.bits + B(k + 1) /\ B(k + 1) \in Nat /\ B(k) \in Nat /\ B(j) \in Nat
        /\ x.refs \in Nat /\ R(k) = x.refs + R(k + 1) /\ R(k + 1) \in Nat /\ R(k) \in Nat /\ R(j) \in Nat
    BY <1>3, <1>4, <2>1
  <2>6. /\ v.size.bits <= x.bits /\ v.size.refs <= x.refs
        /\ (size => v.size.bits = x.bits /\ v.size.refs = x.refs)
        /\ (refs => v.size.refs = x.refs)
    <3>1. (size => x.fixedSize) /\ (refs => x.fixedRefs)
      BY DEF size, refs
    <3> QED BY <1>5, <2>1, <3>1 DEF v
  <2>7. /\ Bits(d) \in Nat /\ Len(d.refs) \in Nat
        /\ Bits(d) + B(j) <= B(k + 1) /\ Len(d.refs) + R(j) <= R(k + 1)
        /\ size => Bits(d) + B(j) = B(k + 1) /\ Len(d.refs) + R(j) = R(k + 1)
        /\ refs => Len(d.refs) + R(j) = R(k + 1)
    BY <2>2 DEF d
  <2> HIDE DEF x
  <2> DEFINE vb == v.size.bits
             vr == v.size.refs
             xb == x.bits
             xr == x.refs
             db == Bits(d)
             dr == Len(d.refs)
             cb == Bits(c(k))
             cr == Len(c(k).refs)
             Bk == B(k)
             Bn == B(k + 1)
             Bj == B(j)
             Rk == R(k)
             Rn == R(k + 1)
             Rj == R(j)
  <2>8. /\ vb \in Nat /\ vr \in Nat /\ xb \in Nat /\ xr \in Nat /\ db \in Nat /\ dr \in Nat
        /\ cb = vb + db /\ cr = vr + dr
        /\ Bk = xb + Bn /\ Bn \in Nat /\ Bk \in Nat /\ Bj \in Nat
        /\ Rk = xr + Rn /\ Rn \in Nat /\ Rk \in Nat /\ Rj \in Nat
        /\ vb <= xb /\ vr <= xr /\ db + Bj <= Bn /\ dr + Rj <= Rn
    BY <2>4, <2>5, <2>6, <2>7
  <2>12. /\ size => vb = xb /\ vr = xr /\ db + Bj = Bn /\ dr + Rj = Rn
         /\ refs => vr = xr /\ dr + Rj = Rn
    BY <2>6, <2>7
  <2>13. IsSlice(c(k))
    BY <2>4
  <2> HIDE DEF vb, vr, xb, xr, db, dr, cb, cr, Bk, Bn, Bj, Rk, Rn, Rj
  <2>9. cb \in Nat /\ cr \in Nat /\ cb + Bj <= Bk /\ cr + Rj <= Rk
    BY <2>8
  <2>10. ASSUME size PROVE cb + Bj = Bk /\ cr + Rj = Rk
    <3>1. vb = xb /\ vr = xr /\ db + Bj = Bn /\ dr + Rj = Rn
      BY <2>10, <2>12
    <3> QED BY <2>8, <3>1
  <2>11. ASSUME refs PROVE cr + Rj = Rk
    <3>1. vr = xr /\ dr + Rj = Rn
      BY <2>11, <2>12
    <3> QED BY <2>8, <3>1
  <2> QED BY <2>1, <2>9, <2>10, <2>11, <2>13 DEF cb, cr, Bk, Bj, Rk, Rj
<1>9. i \in T
  <2> HIDE DEF T
  <2>1. \A k \in i .. j : k \in T
    BY <1>1, <1>7, <1>8, DownFrom
  <2> QED BY <1>1, <2>1
<1>10. P(i) /\ B(i) \in Nat /\ B(j) \in Nat /\ R(i) \in Nat /\ R(j) \in Nat
  <2>1. i \in 1 .. n + 1 /\ j \in 1 .. n + 1
    BY <1>1
  <2> QED BY <1>3, <1>9, <2>1
<1> QED BY <1>10 DEF c, B, R, size, refs

Sized(t, i, j, C) ==
    /\ Bits(C) \in Nat /\ Len(C.refs) \in Nat
    /\ sufBits(t, i) \in Nat /\ sufBits(t, j) \in Nat /\ sufRefs(t, i) \in Nat /\ sufRefs(t, j) \in Nat
    /\ (\A k \in i .. j - 1 : t[k].fixedSize) =>
          Bits(C) + sufBits(t, j) = sufBits(t, i) /\ Len(C.refs) + sufRefs(t, j) = sufRefs(t, i)
    /\ (\A k \in i .. j - 1 : t[k].fixedRefs) => Len(C.refs) + sufRefs(t, j) = sufRefs(t, i)

(* How much room they take: as much as their types say, where the types say *)
(* so.                                                                      *)
LEMMA ContentsSized ==
    ASSUME NEW t, NEW l, NEW h, NEW E, NEW pb, NEW pr, NEW n, Laid(t, l, h, E, pb, pr, n),
           NEW i \in 1 .. n, NEW j \in i .. n + 1, NEW C, C = Contents(h, i, j)
    PROVE  Sized(t, i, j, C)
BY ContentsSizes DEF Sized

(* What the position says the cell is filled with before value i.           *)
FillBits(l, pb, i) == IF l[i] THEN 0 ELSE pb[i - 1]
FillRefs(l, pr, i) == IF l[i] THEN 0 ELSE pr[i - 1]

(* At the end of a stretch the cell is filled with what it was before and   *)
(* the stretch.                                                             *)
LEMMA FillFacts ==
    ASSUME NEW t, NEW l, NEW h, NEW E, NEW pb, NEW pr, NEW n, Laid(t, l, h, E, pb, pr, n),
           NEW i \in 1 .. n, NEW j \in i + 1 .. n + 1, OneStretch(l, i, j)
    PROVE  /\ FillBits(l, pb, i) \in Nat /\ FillRefs(l, pr, i) \in Nat
           /\ pb[j - 1] + sufBits(t, j) = FillBits(l, pb, i) + sufBits(t, i)
           /\ pr[j - 1] + sufRefs(t, j) = FillRefs(l, pr, i) + sufRefs(t, i)
<1> DEFINE B(k) == sufBits(t, k)
           R(k) == sufRefs(t, k)
           x == FillBits(l, pb, i)
           y == FillRefs(l, pr, i)
           P(k) == pb[k - 1] + B(k) = x + B(i) /\ pr[k - 1] + R(k) = y + R(i)
           T == {k \in i + 1 .. j : P(k)}
<1>1. n \in Nat /\ \A k \in 0 .. n : pb[k] \in Nat /\ pr[k] \in Nat
  BY LaidFacts
<1>2. t \in Seq(TypeSizes) /\ n = Len(t) /\ Positions(t, l, pb, pr, n)
  BY DEF Laid
<1>3. \A k \in 1 .. n + 1 : B(k) \in Nat /\ R(k) \in Nat
  BY <1>2, SufBits, SufRefs
<1>4. \A k \in 1 .. n : /\ t[k].bits \in Nat /\ B(k) = t[k].bits + B(k + 1)
                        /\ t[k].refs \in Nat /\ R(k) = t[k].refs + R(k + 1)
  BY <1>2, SufBits, SufRefs
<1>5. \A k \in 1 .. n : /\ pb[k] = t[k].bits + (IF l[k] THEN 0 ELSE pb[k - 1])
                        /\ pr[k] = t[k].refs + (IF l[k] THEN 0 ELSE pr[k - 1])
  BY <1>2 DEF Positions
<1>6. x \in Nat /\ y \in Nat
  <2>1. i - 1 \in 0 .. n
    BY <1>1
  <2> QED BY <1>1, <2>1 DEF FillBits, FillRefs
<1> HIDE DEF B, R
<1>7. i + 1 \in T
  <2>1. (i + 1) - 1 = i /\ i + 1 \in i + 1 .. j /\ i \in 1 .. n + 1 /\ i + 1 \in 1 .. n + 1
    BY <1>1
  <2>2. pb[i] = t[i].bits + x /\ pr[i] = t[i].refs + y
    BY <1>5 DEF FillBits, FillRefs
  <2> HIDE DEF x, y
  <2>3. B(i) = t[i].bits + B(i + 1) /\ R(i) = t[i].refs + R(i + 1) /\ t[i].bits \in Nat /\ t[i].refs \in Nat
    BY <1>4
  <2>4. B(i + 1) \in Nat /\ R(i + 1) \in Nat
    BY <1>3, <2>1
  <2>5. pb[(i + 1) - 1] + B(i + 1) = x + B(i) /\ pr[(i + 1) - 1] + R(i + 1) = y + R(i)
    BY <1>6, <2>1, <2>2, <2>3, <2>4
  <2> QED BY <2>1, <2>5
<1> HIDE DEF x, y
<1>8. ASSUME NEW k \in i + 1 .. j - 1, k \in T PROVE k + 1 \in T
  <2>1. (k + 1) - 1 = k /\ k + 1 \in i + 1 .. j /\ k \in 1 .. n /\ k + 1 \in 1 .. n + 1 /\ k - 1 \in 0 .. n
    BY <1>1
  <2>2. P(k)
    BY <1>8
  <2>3. pb[k] = t[k].bits + pb[k - 1] /\ pr[k] = t[k].refs + pr[k - 1]
    BY <1>5, <2>1 DEF OneStretch
  <2>4. B(k) = t[k].bits + B(k + 1) /\ R(k) = t[k].refs + R(k + 1) /\ t[k].bits \in Nat /\ t[k].refs \in Nat
    BY <1>4, <2>1
  <2>5. B(k + 1) \in Nat /\ R(k + 1) \in Nat /\ pb[k - 1] \in Nat /\ pr[k - 1] \in Nat
    BY <1>1, <1>3, <2>1
  <2>6. pb[k] + B(k + 1) = x + B(i) /\ pr[k] + R(k + 1) = y + R(i)
    BY <2>2, <2>3, <2>4, <2>5
  <2> QED BY <2>1, <2>6
<1>9. j \in T
  <2> HIDE DEF T
  <2>1. \A k \in i + 1 .. j : k \in T
    BY <1>1, <1>7, <1>8, UpFrom
  <2> QED BY <1>1, <2>1
<1>10. P(j)
  BY <1>9
<1> QED BY <1>6, <1>10 DEF B, R, x, y

(* A stretch without a new cell is put behind what the cell is filled with. *)
Filled(b, l, pb, pr, i) == Within(b, FillBits(l, pb, i), FillRefs(l, pr, i))
IsBehind(b, C, p, q) ==
    /\ StoreSlice(b, C) = Cat(b, C) /\ Within(Cat(b, C), p, q)
    /\ Bits(b) + Bits(C) <= CellBits /\ Len(b.refs) + Len(C.refs) <= CellRefs

(* The stretch has room there, and the position knows what it is filled     *)
(* with then.                                                               *)
LEMMA ContentsBehind ==
    ASSUME NEW t, NEW l, NEW h, NEW E, NEW pb, NEW pr, NEW n, Laid(t, l, h, E, pb, pr, n),
           NEW i \in 1 .. n, NEW j \in i + 1 .. n + 1, OneStretch(l, i, j),
           NEW b, Filled(b, l, pb, pr, i), NEW C, C = Contents(h, i, j)
    PROVE  IsBehind(b, C, pb[j - 1], pr[j - 1])
<1> DEFINE x == FillBits(l, pb, i)
           y == FillRefs(l, pr, i)
           p == pb[j - 1]
           q == pr[j - 1]
           Bi == sufBits(t, i)
           Bj == sufBits(t, j)
           Ri == sufRefs(t, i)
           Rj == sufRefs(t, j)
<1>1. j - 1 \in 0 .. n /\ j \in i .. n + 1 /\ n \in Nat
  BY LaidFacts
<1>2. p \in Nat /\ q \in Nat /\ p <= CellBits /\ q <= CellRefs
  BY <1>1, LaidFacts
<1>3. x \in Nat /\ y \in Nat /\ p + Bj = x + Bi /\ q + Rj = y + Ri
  BY FillFacts
<1>4. /\ IsSlice(C) /\ Bits(C) \in Nat /\ Len(C.refs) \in Nat /\ Bi \in Nat /\ Bj \in Nat /\ Ri \in Nat /\ Rj \in Nat
      /\ Bits(C) + Bj <= Bi /\ Len(C.refs) + Rj <= Ri
  BY <1>1, ContentsSizes
<1>5. IsSlice(b) /\ Bits(b) <= x /\ Len(b.refs) <= y /\ Bits(b) \in Nat /\ Len(b.refs) \in Nat
  BY LengthsFacts DEF Within, Filled
<1> DEFINE bb == Bits(b)
           br == Len(b.refs)
           cb == Bits(C)
           cr == Len(C.refs)
<1> HIDE DEF x, y, p, q, Bi, Bj, Ri, Rj, bb, br, cb, cr
<1>6. bb + cb <= p /\ br + cr <= q
  <2>1. bb <= x /\ bb \in Nat /\ cb + Bj <= Bi /\ cb \in Nat /\ br <= y /\ br \in Nat /\ cr + Rj <= Ri /\ cr \in Nat
    BY <1>4, <1>5 DEF bb, br, cb, cr
  <2> QED BY <1>2, <1>3, <1>4, <2>1
<1>7. bb + cb <= CellBits /\ br + cr <= CellRefs
  <2>1. bb \in Nat /\ cb \in Nat /\ br \in Nat /\ cr \in Nat
    BY <1>4, <1>5 DEF bb, br, cb, cr
  <2> QED BY <1>2, <1>6, <2>1 DEF CellBits, CellRefs
<1>8. StoreSlice(b, C) = Cat(b, C)
  BY <1>4, <1>5, <1>7, StoreSliceIs DEF bb, br, cb, cr
<1>9. IsSlice(Cat(b, C)) /\ Bits(Cat(b, C)) = bb + cb /\ Len(Cat(b, C).refs) = br + cr
  BY <1>4, <1>5, CatSizes DEF bb, br, cb, cr
<1>10. Within(Cat(b, C), p, q)
  BY <1>6, <1>9 DEF Within
<1> QED BY <1>7, <1>8, <1>10 DEF p, q, bb, br, cb, cr, IsBehind

(* What follows in the cell finds room behind what the cell is filled with. *)
LEMMA RestHasRoom ==
    ASSUME NEW t, NEW l, NEW h, NEW E, NEW pb, NEW pr, NEW n, Laid(t, l, h, E, pb, pr, n)
    PROVE  \A i \in 0 .. n : /\ pb[i] + Bits(E[i]) <= CellBits /\ Bits(E[i]) \in Nat
                             /\ pr[i] + Len(E[i].refs) <= CellRefs /\ Len(E[i].refs) \in Nat
<1> DEFINE P(i) == /\ pb[i] + Bits(E[i]) <= CellBits /\ Bits(E[i]) \in Nat
                   /\ pr[i] + Len(E[i].refs) <= CellRefs /\ Len(E[i].refs) \in Nat
           T == {i \in 0 .. n : P(i)}
<1>1. n \in Nat /\ E[n] = Empty /\ \A i \in 0 .. n : IsSlice(E[i]) /\ pb[i] \in Nat /\ pr[i] \in Nat /\ pb[i] <= CellBits /\ pr[i] <= CellRefs
  BY LaidFacts
<1>2. \A i \in 1 .. n : /\ IsValue(h[i]) /\ l[i] \in BOOLEAN
                        /\ E[i - 1] = Before(h[i], l[i], E[i]) /\ (l[i] => pr[i - 1] <= 3)
  BY LaidFacts
<1>3. \A i \in 1 .. n : h[i].size.bits <= t[i].bits /\ h[i].size.refs <= t[i].refs /\ t[i].bits \in Nat /\ t[i].refs \in Nat
  <2>1. \A i \in 1 .. n : t[i] \in TypeSizes
    BY LaidFacts
  <2> QED BY <2>1 DEF Laid, Fitting, TypeSizes
<1>4. \A i \in 1 .. n : l[i] = FALSE => pb[i] = t[i].bits + pb[i - 1] /\ pr[i] = t[i].refs + pr[i - 1]
  BY DEF Laid, Positions
<1>5. n \in T
  <2>1. P(n)
    <3>1. n \in 0 .. n /\ Bits(Empty) = 0 /\ Len(Empty.refs) = 0
      BY <1>1, EmptyFacts
    <3>2. pb[n] \in Nat /\ pr[n] \in Nat /\ pb[n] <= CellBits /\ pr[n] <= CellRefs
      BY <1>1, <3>1
    <3> QED BY <1>1, <3>1, <3>2
  <2> QED BY <1>1, <2>1
<1>6. ASSUME NEW i \in 0 .. n - 1, i + 1 \in T PROVE i \in T
  <2> DEFINE k == i + 1
             v == h[k]
             s == E[k]
  <2>1. k \in 1 .. n /\ k - 1 = i /\ i \in 0 .. n /\ k \in 0 .. n
    BY <1>1
  <2>2. P(k)
    BY <1>6
  <2> HIDE DEF k
  <2>3. IsValue(v) /\ IsSlice(s) /\ pb[i] \in Nat /\ pr[i] \in Nat /\ pb[i] <= CellBits
    BY <1>1, <1>2, <2>1
  <2>4. E[i] = Before(v, l[k], s) /\ l[k] \in BOOLEAN
    BY <1>2, <2>1
  <2>5. CASE l[k]
    <3>1. E[i] = OneCell(Ahead(v, s))
      BY <2>4, <2>5 DEF Before
    <3>2. Len(E[i].refs) = 1 /\ Bits(E[i]) = 0
      <4>1. Len(OneCell(Ahead(v, s)).refs) = 1
        BY CellFacts
      <4>2. OneCell(Ahead(v, s)).bits = Empty.bits
        BY DEF OneCell, Empty
      <4>3. Bits(OneCell(Ahead(v, s))) = Bits(Empty)
        BY <4>2 DEF Bits
      <4> QED BY <3>1, <4>1, <4>3, EmptyFacts
    <3>3. pr[i] <= 3
      BY <1>2, <2>1, <2>5
    <3>4. P(i)
      BY <2>3, <3>2, <3>3 DEF CellRefs, CellBits
    <3> QED BY <2>1, <3>4
  <2>6. CASE ~l[k]
    <3>1. E[i] = Ahead(v, s)
      BY <2>4, <2>6 DEF Before
    <3>2. /\ Bits(E[i]) = v.size.bits + Bits(s) /\ Len(E[i].refs) = v.size.refs + Len(s.refs)
          /\ v.size.bits \in Nat /\ v.size.refs \in Nat
      BY <2>3, <3>1, AheadSizes
    <3>3. pb[k] = t[k].bits + pb[i] /\ pr[k] = t[k].refs + pr[i]
      BY <1>4, <2>1, <2>4, <2>6
    <3>4. v.size.bits <= t[k].bits /\ v.size.refs <= t[k].refs /\ t[k].bits \in Nat /\ t[k].refs \in Nat
      BY <1>3, <2>1
    <3> DEFINE vb == v.size.bits
               vr == v.size.refs
               xb == t[k].bits
               xr == t[k].refs
               db == Bits(s)
               dr == Len(s.refs)
               p == pb[i]
               q == pr[i]
    <3>5. /\ vb \in Nat /\ vr \in Nat /\ xb \in Nat /\ xr \in Nat /\ db \in Nat /\ dr \in Nat /\ p \in Nat /\ q \in Nat
          /\ vb <= xb /\ vr <= xr /\ (xb + p) + db <= 1023 /\ (xr + q) + dr <= 4
      BY <2>2, <2>3, <3>2, <3>3, <3>4 DEF CellBits, CellRefs
    <3> HIDE DEF vb, vr, xb, xr, db, dr, p, q
    <3>6. p + (vb + db) <= 1023 /\ vb + db \in Nat /\ q + (vr + dr) <= 4 /\ vr + dr \in Nat
      BY <3>5
    <3>7. P(i)
      BY <3>2, <3>6 DEF vb, vr, db, dr, p, q, CellBits, CellRefs
    <3> QED BY <2>1, <3>7
  <2> QED BY <2>4, <2>5, <2>6
<1>7. \A i \in 0 .. n : i \in T
  <2>1. n \in Int /\ 0 <= n /\ 0 \in Int
    BY <1>1
  <2> HIDE DEF T
  <2> QED BY <1>5, <1>6, <2>1, DownFrom
<1> QED BY <1>7

(***************************************************************************)
(* What the compiler computes of a contract.                               *)
(***************************************************************************)
Steps(f, seqs, n) == f[0] = <<>> /\ \A v \in 1 .. n : f[v] = f[v - 1] \o seqs[v]
IsFlat(f, seqs) == f = [i \in 1 .. Len(seqs) |-> IF i = 1 THEN seqs[i] ELSE f[i - 1] \o seqs[i]]

(* Lists are put together one after another.                                *)
LEMMA StepsExist ==
    ASSUME NEW n \in Nat, NEW seqs, NEW S, \A v \in 1 .. n : seqs[v] \in Seq(S)
    PROVE  \E f \in [0 .. n -> Seq(S)] : Steps(f, seqs, n)
<1> DEFINE D == [v \in 1 .. n |-> [s \in Seq(S) |-> s \o seqs[v]]]
<1>1. D \in [1 .. n -> [Seq(S) -> Seq(S)]]
  <2>1. ASSUME NEW v \in 1 .. n PROVE D[v] \in [Seq(S) -> Seq(S)]
    <3>1. \A s \in Seq(S) : s \o seqs[v] \in Seq(S)
      OBVIOUS
    <3> QED BY <3>1
  <2> QED BY <2>1
<1>2. <<>> \in Seq(S)
  OBVIOUS
<1>3. \A v \in 1 .. n, s \in Seq(S) : D[v][s] = s \o seqs[v]
  OBVIOUS
<1> HIDE DEF D
<1>4. PICK f \in [0 .. n -> Seq(S)] : f[0] = <<>> /\ \A v \in 1 .. n : f[v] = D[v][f[v - 1]]
  <2>1. HasSteps(n, Seq(S), <<>>, D)
    BY <1>1, <1>2, Recursion
  <2> QED BY <2>1 DEF HasSteps
<1>5. ASSUME NEW v \in 1 .. n PROVE f[v] = f[v - 1] \o seqs[v]
  <2>1. f[v - 1] \in Seq(S)
    OBVIOUS
  <2> QED BY <1>3, <1>4, <2>1
<1> QED BY <1>4, <1>5 DEF Steps

(* FlattenSeq returns the last.                                             *)
LEMMA FlattenIs ==
    ASSUME NEW n \in Nat, NEW seqs, IsList(seqs), n = Len(seqs), NEW S, \A v \in 1 .. n : seqs[v] \in Seq(S),
           NEW f \in [0 .. n -> Seq(S)], Steps(f, seqs, n)
    PROVE  FlattenSeq(seqs) = f[n]
<1>1. CASE n = 0
  <2>1. seqs = <<>>
    <3>1. PICK V : seqs \in Seq(V)
      BY DEF IsList
    <3> QED BY <1>1, <3>1, EmptySeq
  <2>2. FlattenSeq(seqs) = seqs
    BY <1>1 DEF FlattenSeq
  <2> QED BY <1>1, <2>1, <2>2 DEF Steps
<1>2. CASE n # 0
  <2> DEFINE F == CHOOSE g : IsFlat(g, seqs)
             g == [v \in 1 .. n |-> f[v]]
  <2>1. FlattenSeq(seqs) = F[n]
    BY <1>2 DEF FlattenSeq, IsFlat
  <2>2. g = [v \in 1 .. n |-> g[v]] /\ \A v \in 1 .. n : g[v] = f[v]
    OBVIOUS
  <2> HIDE DEF g
  <2>3. \A v \in 1 .. n : f[v] = f[v - 1] \o seqs[v]
    BY DEF Steps
  <2>4. f[1] = seqs[1]
    <3>1. 1 \in 1 .. n /\ 1 - 1 = 0
      BY <1>2
    <3>2. seqs[1] \in Seq(S) /\ f[1] = <<>> \o seqs[1]
      BY <3>1 DEF Steps
    <3> QED BY <3>2
  <2>5. IsFlat(g, seqs)
    <3>1. ASSUME NEW v \in 1 .. n PROVE g[v] = IF v = 1 THEN seqs[v] ELSE g[v - 1] \o seqs[v]
      <4>1. CASE v = 1
        BY <2>2, <2>4, <4>1
      <4>2. CASE v # 1
        <5>1. v - 1 \in 1 .. n
          BY <4>2
        <5> QED BY <2>2, <2>3, <4>2, <5>1
      <4> QED BY <4>1, <4>2
    <3> QED BY <2>2, <3>1 DEF IsFlat
  <2>6. IsFlat(F, seqs)
    BY <2>5, Zenon
  <2> HIDE DEF F
  <2>7. \A v \in 1 .. n : F[v] = IF v = 1 THEN seqs[v] ELSE F[v - 1] \o seqs[v]
    BY <2>6 DEF IsFlat
  <2> DEFINE T == {v \in 1 .. n : F[v] = f[v]}
  <2>8. 1 \in T
    <3>1. 1 \in 1 .. n
      BY <1>2
    <3> QED BY <2>4, <2>7, <3>1
  <2>9. ASSUME NEW v \in 1 .. n - 1, v \in T PROVE v + 1 \in T
    <3>1. v + 1 \in 1 .. n /\ (v + 1) - 1 = v /\ v + 1 # 1
      OBVIOUS
    <3>2. F[v] = f[v]
      BY <2>9
    <3>3. F[v + 1] = F[(v + 1) - 1] \o seqs[v + 1] /\ f[v + 1] = f[(v + 1) - 1] \o seqs[v + 1]
      BY <2>3, <2>7, <3>1
    <3> QED BY <3>1, <3>2, <3>3
  <2>10. n \in T
    <3> HIDE DEF T
    <3>1. \A v \in 1 .. n : v \in T
      <4>1. 1 <= n /\ 1 \in Int /\ n \in Int
        BY <1>2
      <4> QED BY <2>8, <2>9, <4>1, UpFrom
    <3> QED BY <1>2, <3>1
  <2> QED BY <2>1, <2>10
<1> QED BY <1>1, <1>2

(* What was put together first stays in front.                              *)
StaysInFront(f, u, n) == \A v \in u .. n : Len(f[u]) <= Len(f[v]) /\ \A k \in 1 .. Len(f[u]) : f[v][k] = f[u][k]
StepsOf(f, seqs, n, S) == f \in [0 .. n -> Seq(S)] /\ Steps(f, seqs, n) /\ \A v \in 1 .. n : seqs[v] \in Seq(S)

(* It stays where it is when more is put behind it.                         *)
LEMMA StepsKeep ==
    ASSUME NEW n \in Nat, NEW seqs, NEW S, NEW f, StepsOf(f, seqs, n, S), NEW u \in 0 .. n
    PROVE  StaysInFront(f, u, n)
<1>0. f \in [0 .. n -> Seq(S)] /\ Steps(f, seqs, n) /\ \A v \in 1 .. n : seqs[v] \in Seq(S)
  BY DEF StepsOf
<1> DEFINE P(v) == Len(f[u]) <= Len(f[v]) /\ \A k \in 1 .. Len(f[u]) : f[v][k] = f[u][k]
           T == {v \in u .. n : P(v)}
<1>1. u \in T
  BY <1>0, f[u] \in Seq(S)
<1>2. ASSUME NEW v \in u .. n - 1, v \in T PROVE v + 1 \in T
  <2>1. v + 1 \in 1 .. n /\ (v + 1) - 1 = v /\ v + 1 \in u .. n /\ v \in 0 .. n
    OBVIOUS
  <2> DEFINE a == f[v]
             b == seqs[v + 1]
             c == f[v + 1]
             o == f[u]
  <2>2. a \in Seq(S) /\ b \in Seq(S) /\ o \in Seq(S) /\ c = a \o b
    BY <1>0, <2>1 DEF Steps
  <2>3. Len(o) <= Len(a) /\ \A k \in 1 .. Len(o) : a[k] = o[k]
    BY <1>2
  <2> HIDE DEF a, b, c, o
  <2>4. Len(c) = Len(a) + Len(b) /\ \A k \in 1 .. Len(a) : c[k] = a[k]
    BY <2>2
  <2>5. Len(o) <= Len(c)
    BY <2>2, <2>3, <2>4
  <2>6. \A k \in 1 .. Len(o) : c[k] = o[k]
    BY <2>2, <2>3, <2>4
  <2> QED BY <2>1, <2>5, <2>6 DEF c, o
<1>3. \A v \in u .. n : v \in T
  <2> HIDE DEF T
  <2>1. u <= n /\ u \in Int /\ n \in Int
    OBVIOUS
  <2> QED BY <1>1, <1>2, <2>1, UpFrom
<1> QED BY <1>3 DEF StaysInFront

Storables == {t \in TypeSizes : Storable(t)}
VariablesOf(c) == c.usual \o c.unpacked
TypesOf(vs) == [k \in 1 .. Len(vs) |-> vs[k].types]

(* The variables of a contract.                                             *)
LEMMA VariablesFacts ==
    ASSUME NEW c, IsContract(c), NEW all, all = VariablesOf(c)
    PROVE  /\ IsList(c.usual) /\ IsList(c.unpacked) /\ IsList(all) /\ Len(all) = Len(c.usual) + Len(c.unpacked)
           /\ Len(c.usual) \in Nat /\ Len(c.unpacked) \in Nat /\ Len(all) \in Nat
           /\ \A v \in 1 .. Len(c.usual) : all[v] = c.usual[v]
           /\ \A v \in 1 .. Len(all) : all[v].types \in Seq(Storables) /\ Len(all[v].types) > 0
<1> DEFINE m == Len(c.usual)
           q == Len(c.unpacked)
<1>1. \A vs \in {c.usual, c.unpacked} :
         /\ Len(vs) \in Nat /\ IsList(vs)
         /\ \A v \in 1 .. Len(vs) : IsVariable(vs[v])
  BY FunctionList DEF IsContract
<1>2. IsList(c.usual) /\ IsList(c.unpacked) /\ m \in Nat /\ q \in Nat
  BY <1>1
<1>3. IsList(all) /\ Len(all) = m + q /\ \A k \in 1 .. m + q : all[k] = IF k <= m THEN c.usual[k] ELSE c.unpacked[k - m]
  <2>1. /\ IsList(VariablesOf(c)) /\ Len(VariablesOf(c)) = m + q
        /\ \A k \in 1 .. m + q : VariablesOf(c)[k] = IF k <= m THEN c.usual[k] ELSE c.unpacked[k - m]
    BY <1>2, CatList DEF VariablesOf
  <2> QED BY <2>1
<1>4. ASSUME NEW v \in 1 .. m + q PROVE IsVariable(all[v])
  <2>1. CASE v <= m
    <3>1. v \in 1 .. m
      BY <1>2, <2>1
    <3> QED BY <1>1, <1>3, <2>1, <3>1
  <2>2. CASE ~(v <= m)
    <3>1. v - m \in 1 .. q
      BY <1>2, <2>2, Behind
    <3> QED BY <1>1, <1>3, <2>2, <3>1
  <2> QED BY <2>1, <2>2
<1>5. ASSUME NEW x, IsVariable(x) PROVE x.types \in Seq(Storables) /\ Len(x.types) > 0
  <2> DEFINE t == x.types
  <2>1. t \in Seq(TypeSizes) /\ t # <<>> /\ \A k \in 1 .. Len(t) : Storable(t[k])
    BY <1>5 DEF IsVariable
  <2> HIDE DEF t
  <2>2. \A k \in 1 .. Len(t) : t[k] \in Storables
    <3>1. \A k \in 1 .. Len(t) : t[k] \in TypeSizes
      BY <2>1
    <3> QED BY <2>1, <3>1 DEF Storables
  <2>3. t \in Seq(Storables)
    <3>1. Len(t) \in Nat /\ t = [k \in 1 .. Len(t) |-> t[k]]
      BY <2>1
    <3>2. t \in [1 .. Len(t) -> Storables]
      BY <2>2, <3>1
    <3> QED BY <3>1, <3>2, SeqDef
  <2>4. Len(t) > 0
    <3>1. Len(t) \in Nat /\ Len(t) # 0
      BY <2>1, EmptySeq
    <3> QED BY <3>1
  <2> QED BY <2>3, <2>4 DEF t
<1> HIDE DEF m, q
<1>6. ASSUME NEW v \in 1 .. m PROVE all[v] = c.usual[v]
  <2>1. v \in 1 .. m + q /\ v <= m
    BY <1>2
  <2> QED BY <1>3, <2>1
<1>7. \A v \in 1 .. m + q : all[v].types \in Seq(Storables) /\ Len(all[v].types) > 0
  BY <1>4, <1>5
<1>8. Len(all) = m + q /\ Len(all) \in Nat /\ IsList(all)
  BY <1>2, <1>3
<1>9. \A v \in 1 .. Len(all) : all[v].types \in Seq(Storables) /\ Len(all[v].types) > 0
  BY <1>7, <1>8
<1> QED BY <1>2, <1>6, <1>8, <1>9 DEF m, q

IsFirst(first, vs, n) ==
    first = [v \in 1 .. n |-> IF v = 1 THEN 1 ELSE first[v - 1] + Len(vs[v - 1].types)]

Unrolled(c, x, all, m, w) ==
    \E g \in [0 .. w -> Seq(Storables)] :
       /\ Steps(g, TypesOf(all), w) /\ g[w] = x.types /\ g[m] = x.usualTypes
       /\ x.first = [v \in 1 .. w + 1 |-> 1 + Len(g[v - 1])]

(* The types of its variables, one after another.                           *)
LEMMA UnrolledFacts ==
    ASSUME NEW c, IsContract(c), NEW all, all = VariablesOf(c), NEW m, m = Len(c.usual), NEW w, w = Len(all)
    PROVE  Unrolled(c, Compiled(c), all, m, w)
<1> DEFINE seqs == TypesOf(all)
           useqs == TypesOf(c.usual)
<1> DEFINE q == Len(c.unpacked)
<1>a. m \in Nat /\ q \in Nat /\ w = m + q
  BY VariablesFacts
<1>b. /\ IsList(all) /\ \A v \in 1 .. m : all[v] = c.usual[v]
      /\ \A v \in 1 .. w : all[v].types \in Seq(Storables) /\ Len(all[v].types) > 0
  BY VariablesFacts
<1> HIDE DEF q
<1>1. m \in Nat /\ w \in Nat /\ m \in 0 .. w /\ \A v \in 1 .. m : v \in 1 .. w
  BY <1>a
<1>2. seqs = [v \in 1 .. w |-> seqs[v]] /\ \A v \in 1 .. w : seqs[v] = all[v].types
  BY DEF TypesOf
<1>3. useqs = [v \in 1 .. m |-> useqs[v]] /\ \A v \in 1 .. m : useqs[v] = c.usual[v].types
  BY DEF TypesOf
<1>4. Compiled(c).types = FlattenSeq(seqs) /\ Compiled(c).usualTypes = FlattenSeq(useqs)
  BY DEF Compiled, unroll, TypesOf, VariablesOf
<1> HIDE DEF seqs, useqs
<1>5. IsList(seqs) /\ Len(seqs) = w /\ IsList(useqs) /\ Len(useqs) = m
  BY <1>1, <1>2, <1>3, FunctionList
<1>6. \A v \in 1 .. w : seqs[v] \in Seq(Storables)
  BY <1>b, <1>2
<1>7. \A v \in 1 .. m : useqs[v] = seqs[v] /\ v \in 1 .. w
  <2>1. ASSUME NEW v \in 1 .. m PROVE useqs[v] = seqs[v] /\ v \in 1 .. w
    <3>1. v \in 1 .. w
      BY <1>1
    <3>2. useqs[v] = c.usual[v].types /\ seqs[v] = all[v].types /\ all[v] = c.usual[v]
      BY <1>b, <1>2, <1>3, <3>1
    <3> QED BY <3>1, <3>2
  <2> QED BY <2>1
<1>8. PICK g \in [0 .. w -> Seq(Storables)] : Steps(g, seqs, w)
  BY <1>1, <1>6, StepsExist
<1>9. FlattenSeq(seqs) = g[w]
  BY <1>1, <1>5, <1>6, <1>8, FlattenIs
<1>10. FlattenSeq(useqs) = g[m]
  <2> DEFINE f == [v \in 0 .. m |-> g[v]]
  <2>1. f \in [0 .. m -> Seq(Storables)] /\ \A v \in 0 .. m : f[v] = g[v]
    <3>1. \A v \in 0 .. m : v \in 0 .. w
      BY <1>1
    <3> QED BY <3>1
  <2> HIDE DEF f
  <2>2. Steps(f, useqs, m)
    <3>1. f[0] = <<>>
      <4>1. 0 \in 0 .. m
        BY <1>1
      <4> QED BY <1>8, <2>1, <4>1 DEF Steps
    <3>2. ASSUME NEW v \in 1 .. m PROVE f[v] = f[v - 1] \o useqs[v]
      <4>1. v - 1 \in 0 .. m /\ v \in 0 .. m
        OBVIOUS
      <4>2. g[v] = g[v - 1] \o seqs[v]
        BY <1>7, <1>8 DEF Steps
      <4> QED BY <1>7, <2>1, <4>1, <4>2
    <3> QED BY <3>1, <3>2 DEF Steps
  <2>3. \A v \in 1 .. m : useqs[v] \in Seq(Storables)
    BY <1>6, <1>7
  <2>4. FlattenSeq(useqs) = f[m]
    BY <1>1, <1>5, <2>1, <2>2, <2>3, FlattenIs
  <2>5. f[m] = g[m]
    <3>1. m \in 0 .. m
      BY <1>1
    <3> QED BY <2>1, <3>1
  <2> QED BY <2>4, <2>5
<1> DEFINE F == CHOOSE first : IsFirst(first, all, w + 1)
           G == [v \in 1 .. w + 1 |-> 1 + Len(g[v - 1])]
<1>11. Compiled(c).first = F
  BY DEF Compiled, IsFirst, VariablesOf
<1>12. G = [v \in 1 .. w + 1 |-> G[v]] /\ \A v \in 1 .. w + 1 : G[v] = 1 + Len(g[v - 1])
  OBVIOUS
<1> HIDE DEF G
<1>13. ASSUME NEW v \in 1 .. w + 1 PROVE G[v] = IF v = 1 THEN 1 ELSE G[v - 1] + Len(all[v - 1].types)
  <2>1. CASE v = 1
    <3>1. g[0] = <<>> /\ v - 1 = 0
      BY <1>8, <2>1 DEF Steps
    <3>2. G[v] = 1 + Len(<<>>)
      BY <1>12, <3>1
    <3>3. Len(<<>>) = 0
      BY EmptyList
    <3> QED BY <2>1, <3>2, <3>3
  <2>2. CASE v # 1
    <3> DEFINE u == v - 1
    <3>1. u \in 1 .. w /\ u \in 1 .. w + 1 /\ u - 1 \in 0 .. w
      BY <1>1, <2>2
    <3>2. G[v] = 1 + Len(g[u]) /\ G[u] = 1 + Len(g[u - 1])
      BY <1>12, <3>1
    <3> HIDE DEF u
    <3>3. g[u] = g[u - 1] \o all[u].types /\ g[u - 1] \in Seq(Storables) /\ all[u].types \in Seq(Storables)
      BY <1>b, <1>2, <1>8, <3>1 DEF Steps
    <3>4. Len(g[u]) = Len(g[u - 1]) + Len(all[u].types) /\ Len(g[u - 1]) \in Nat /\ Len(all[u].types) \in Nat
      <4> DEFINE a == g[u - 1]
                 b == all[u].types
      <4>1. a \in Seq(Storables) /\ b \in Seq(Storables) /\ g[u] = a \o b
        BY <3>3
      <4> HIDE DEF a, b
      <4>2. Len(g[u]) = Len(a) + Len(b) /\ Len(a) \in Nat /\ Len(b) \in Nat
        BY <4>1
      <4> QED BY <4>2 DEF a, b
    <3>5. G[v] = G[u] + Len(all[u].types)
      <4> DEFINE x == Len(g[u - 1])
                 y == Len(all[u].types)
      <4>1. G[v] = 1 + (x + y) /\ G[u] = 1 + x /\ x \in Nat /\ y \in Nat
        BY <3>2, <3>4
      <4> HIDE DEF x, y
      <4>2. G[v] = G[u] + y
        BY <4>1
      <4> QED BY <4>2 DEF y
    <3> QED BY <2>2, <3>5 DEF u
  <2> QED BY <2>1, <2>2
<1>14. IsFirst(G, all, w + 1)
  BY <1>12, <1>13 DEF IsFirst
<1>15. IsFirst(F, all, w + 1)
  BY <1>14, Zenon
<1> HIDE DEF F
<1>16. \A v \in 1 .. w + 1 : F[v] = IF v = 1 THEN 1 ELSE F[v - 1] + Len(all[v - 1].types)
  BY <1>15 DEF IsFirst
<1> DEFINE T == {v \in 1 .. w + 1 : F[v] = G[v]}
<1>17. 1 \in T
  <2>1. 1 \in 1 .. w + 1
    BY <1>1
  <2>2. F[1] = 1 /\ G[1] = 1
    BY <1>13, <1>16, <2>1
  <2> QED BY <2>1, <2>2
<1>18. ASSUME NEW v \in 1 .. (w + 1) - 1, v \in T PROVE v + 1 \in T
  <2>1. v + 1 \in 1 .. w + 1 /\ v + 1 # 1 /\ (v + 1) - 1 = v
    BY <1>1
  <2>2. F[v] = G[v]
    BY <1>18
  <2>3. F[v + 1] = F[(v + 1) - 1] + Len(all[(v + 1) - 1].types) /\ G[v + 1] = G[(v + 1) - 1] + Len(all[(v + 1) - 1].types)
    BY <1>13, <1>16, <2>1
  <2> QED BY <2>1, <2>2, <2>3
<1>19. \A v \in 1 .. w + 1 : v \in T
  <2>1. 1 <= w + 1 /\ 1 \in Int /\ w + 1 \in Int
    BY <1>1
  <2> HIDE DEF T
  <2> QED BY <1>17, <1>18, <2>1, UpFrom
<1>20. F = [v \in 1 .. w + 1 |-> 1 + Len(g[v - 1])]
  <2>1. F = [v \in 1 .. w + 1 |-> F[v]]
    BY <1>15 DEF IsFirst
  <2>2. \A v \in 1 .. w + 1 : F[v] = 1 + Len(g[v - 1])
    BY <1>12, <1>19
  <2> QED BY <2>1, <2>2
<1> QED BY <1>4, <1>8, <1>9, <1>10, <1>11, <1>20 DEF seqs, Unrolled

(* Members of the usual variables come before those of the unpacked ones,   *)
(* variable by variable.                                                    *)
IsCompiled(c, x, m, w, N, U) ==
    /\ IsContract(c) /\ x = Compiled(c) /\ m = Len(c.usual) /\ w = Len(VariablesOf(c))
    /\ N = Len(x.types) /\ U = Len(x.usualTypes)

(* The types, and the first members of the variables.                       *)
LEMMA CompiledFacts ==
    ASSUME NEW c, NEW x, NEW m, NEW w, NEW N, NEW U, IsCompiled(c, x, m, w, N, U)
    PROVE  /\ x.types \in Seq(Storables) /\ x.usualTypes \in Seq(Storables) /\ N \in Nat /\ U \in 0 .. N
           /\ \A k \in 1 .. U : x.usualTypes[k] = x.types[k]
           /\ m \in 0 .. w /\ w \in Nat /\ (c.unpacked = <<>> <=> m = w) /\ (m = w => U = N)
           /\ x.first[1] = 1 /\ x.first[m + 1] = U + 1 /\ x.first[w + 1] = N + 1
           /\ \A v \in 1 .. w : x.first[v] \in Nat /\ x.first[v + 1] \in Nat /\ x.first[v] < x.first[v + 1]
<1> DEFINE all == VariablesOf(c)
           q == Len(c.unpacked)
           seqs == TypesOf(all)
<1>0. /\ IsContract(c) /\ x = Compiled(c) /\ m = Len(c.usual) /\ w = Len(VariablesOf(c))
      /\ N = Len(x.types) /\ U = Len(x.usualTypes)
  BY DEF IsCompiled
<1> USE <1>0
<1>1. m \in Nat /\ q \in Nat /\ w = m + q
  BY VariablesFacts
<1>2. \A v \in 1 .. w : all[v].types \in Seq(Storables) /\ Len(all[v].types) > 0
  BY VariablesFacts
<1>3. PICK g \in [0 .. w -> Seq(Storables)] :
         /\ Steps(g, seqs, w) /\ g[w] = x.types /\ g[m] = x.usualTypes
         /\ x.first = [v \in 1 .. w + 1 |-> 1 + Len(g[v - 1])]
  <2>1. Unrolled(c, Compiled(c), VariablesOf(c), m, w)
    BY UnrolledFacts
  <2> QED BY <2>1 DEF Unrolled
<1>4. \A v \in 1 .. w : seqs[v] = all[v].types
  BY DEF TypesOf
<1>5. c.unpacked = <<>> <=> q = 0
  <2>1. PICK V : c.unpacked \in Seq(V)
    BY VariablesFacts DEF IsList
  <2> QED BY <2>1, EmptySeq
<1> HIDE DEF all, q, seqs
<1>6. m \in 0 .. w /\ w \in Nat /\ w \in 0 .. w /\ (q = 0 <=> m = w)
  BY <1>1
<1>7. x.types \in Seq(Storables) /\ x.usualTypes \in Seq(Storables)
  BY <1>3, <1>6
<1>8. N \in Nat /\ U \in Nat
  BY <1>7
<1>9. \A v \in 1 .. w + 1 : x.first[v] = 1 + Len(g[v - 1])
  BY <1>3
<1>10. U <= N /\ \A k \in 1 .. U : x.usualTypes[k] = x.types[k]
  <2>1. \A v \in 1 .. w : seqs[v] \in Seq(Storables)
    BY <1>2, <1>4
  <2>2. \A v \in m .. w : Len(g[m]) <= Len(g[v]) /\ \A k \in 1 .. Len(g[m]) : g[v][k] = g[m][k]
    <3>1. StepsOf(g, seqs, w, Storables)
      BY <1>3, <2>1 DEF StepsOf
    <3>2. m \in 0 .. w /\ w \in Nat
      BY <1>6
    <3>3. StaysInFront(g, m, w)
      BY <3>1, <3>2, StepsKeep
    <3> QED BY <3>3 DEF StaysInFront
  <2>3. w \in m .. w
    BY <1>1, <1>6
  <2> QED BY <1>3, <2>2, <2>3
<1>11. x.first[1] = 1 /\ x.first[m + 1] = U + 1 /\ x.first[w + 1] = N + 1
  <2>1. 1 \in 1 .. w + 1 /\ m + 1 \in 1 .. w + 1 /\ w + 1 \in 1 .. w + 1 /\ 1 - 1 = 0 /\ (m + 1) - 1 = m /\ (w + 1) - 1 = w
    BY <1>1, <1>6
  <2>2. x.first[1] = 1 + Len(g[0]) /\ x.first[m + 1] = 1 + Len(g[m]) /\ x.first[w + 1] = 1 + Len(g[w])
    BY <1>9, <2>1
  <2>3. g[0] = <<>> /\ Len(<<>>) = 0
    BY <1>3, EmptyList DEF Steps
  <2>4. Len(g[m]) = U /\ Len(g[w]) = N
    BY <1>3
  <2> QED BY <1>8, <2>2, <2>3, <2>4
<1>12. ASSUME NEW v \in 1 .. w PROVE x.first[v] \in Nat /\ x.first[v + 1] \in Nat /\ x.first[v] < x.first[v + 1]
  <2> DEFINE a == g[v - 1]
             b == all[v].types
             d == g[v]
  <2>1. v \in 1 .. w + 1 /\ v + 1 \in 1 .. w + 1 /\ v - 1 \in 0 .. w /\ v \in 0 .. w /\ (v + 1) - 1 = v
    BY <1>6
  <2>2. a \in Seq(Storables) /\ b \in Seq(Storables) /\ Len(b) > 0 /\ d = a \o b
    BY <1>2, <1>3, <1>4, <2>1 DEF Steps
  <2>3. x.first[v] = 1 + Len(a) /\ x.first[v + 1] = 1 + Len(d)
    BY <1>9, <2>1
  <2> HIDE DEF a, b, d
  <2>4. Len(d) = Len(a) + Len(b) /\ Len(a) \in Nat /\ Len(b) \in Nat
    BY <2>2
  <2> QED BY <2>2, <2>3, <2>4
<1>13. m = w => U = N
  BY <1>3
<1>14. U \in 0 .. N
  BY <1>8, <1>10
<1> QED BY <1>5, <1>6, <1>7, <1>8, <1>10, <1>11, <1>12, <1>13, <1>14

(* Variables do not overlap.                                                *)
LEMMA FirstsGrow ==
    ASSUME NEW f, NEW w \in Nat, \A v \in 1 .. w : f[v] \in Nat /\ f[v + 1] \in Nat /\ f[v] < f[v + 1],
           NEW u \in 1 .. w
    PROVE  /\ \A v \in u + 1 .. w + 1 : f[v] \in Nat /\ f[u + 1] <= f[v]
           /\ \A v \in 1 .. w + 1 : f[v] \in Nat
<1> DEFINE T == {v \in u + 1 .. w + 1 : f[v] \in Nat /\ f[u + 1] <= f[v]}
<1>1. u + 1 \in T
  <2>1. f[u + 1] \in Nat /\ u + 1 \in u + 1 .. w + 1
    OBVIOUS
  <2>2. f[u + 1] <= f[u + 1]
    BY <2>1
  <2> QED BY <2>1, <2>2
<1>2. ASSUME NEW v \in u + 1 .. (w + 1) - 1, v \in T PROVE v + 1 \in T
  <2>1. v \in 1 .. w /\ v + 1 \in u + 1 .. w + 1
    OBVIOUS
  <2>2. f[v] \in Nat /\ f[v + 1] \in Nat /\ f[v] < f[v + 1]
    BY <2>1
  <2>3. f[u + 1] <= f[v] /\ f[u + 1] \in Nat
    BY <1>2
  <2>4. f[u + 1] <= f[v + 1]
    BY <2>2, <2>3
  <2> QED BY <2>1, <2>2, <2>4
<1>3. \A v \in u + 1 .. w + 1 : v \in T
  <2>1. u + 1 <= w + 1 /\ u + 1 \in Int /\ w + 1 \in Int
    OBVIOUS
  <2> HIDE DEF T
  <2> QED BY <1>1, <1>2, <2>1, UpFrom
<1>4. ASSUME NEW v \in 1 .. w + 1 PROVE f[v] \in Nat
  <2>1. CASE v \in 1 .. w
    BY <2>1
  <2>2. CASE v = w + 1
    <3>1. w \in 1 .. w
      OBVIOUS
    <3>2. f[w + 1] \in Nat
      BY <3>1
    <3> QED BY <2>2, <3>2
  <2> QED BY <2>1, <2>2
<1> QED BY <1>3, <1>4

ArePlaced(t, l, off, n) == \E pb, pr : pb[0] = off /\ pr[0] = 0 /\ Positions(t, l, pb, pr, n)

(* Where the cells begin, with and without the unpacked variables.          *)
LEMMA LoadFacts ==
    ASSUME NEW c, IsContract(c), NEW x, x = Compiled(c), NEW N, N = Len(x.types), NEW U, U = Len(x.usualTypes),
           NEW off, off = getOffsetC4(c)
    PROVE  /\ off \in Nat /\ off <= CellBits
           /\ x.load = doLoadNextCell(x.types, off, 0)
           /\ ArePlaced(x.types, x.load, off, N)
           /\ IsList(x.load) /\ Len(x.load) = N /\ \A i \in 1 .. N : x.load[i] \in BOOLEAN
           /\ x.usualLoad = SubSeq(x.load, 1, U) /\ \A i \in 1 .. U : x.usualLoad[i] = x.load[i]
<1>1. off \in Nat /\ off <= CellBits
  <2>1. c.header \in Seq(TypeSizes) /\ getOffsetC4(c) <= CellBits
    BY DEF IsContract
  <2> DEFINE hd == c.header
             n == Len(hd)
  <2>2. hd \in Seq(TypeSizes) /\ n = Len(hd)
    BY <2>1
  <2> HIDE DEF hd, n
  <2>3. n \in Nat /\ \A i \in 1 .. n + 1 : sufBits(hd, i) \in Nat
    BY <2>2, SufBits
  <2>4. sufBits(hd, 1) \in Nat
    BY <2>3
  <2> QED BY <2>1, <2>4 DEF getOffsetC4, hd
<1>2. x.types = unroll(c.usual \o c.unpacked) /\ x.usualTypes = unroll(c.usual)
  BY DEF Compiled
<1>3. x.load = doLoadNextCell(x.types, off, 0) /\ x.usualLoad = doLoadNextCell(x.usualTypes, off, 0)
  BY DEF Compiled
<1>4. x.types \in Seq(Storables) /\ N \in Nat /\ U \in 0 .. N
  <2> DEFINE m == Len(c.usual)
             w == Len(VariablesOf(c))
  <2>1. IsCompiled(c, x, m, w, N, U)
    BY DEF IsCompiled
  <2> HIDE DEF m, w
  <2> QED BY <2>1, CompiledFacts
<1>5. x.types \in Seq(TypeSizes)
  <2> DEFINE t == x.types
  <2>1. t \in Seq(Storables)
    BY <1>4
  <2> HIDE DEF t
  <2>2. t \in Seq(TypeSizes)
    BY <2>1 DEF Storables
  <2> QED BY <2>2 DEF t
<1>6. PICK pb, pr : pb[0] = off /\ pr[0] = 0 /\ Positions(x.types, x.load, pb, pr, N)
  <2>1. 0 \in Nat
    OBVIOUS
  <2> QED BY <1>1, <1>3, <1>5, <2>1, PositionFacts
<1>7. IsList(x.load) /\ Len(x.load) = N
  <2>1. x.load = [i \in 1 .. N |-> x.load[i]]
    BY <1>6 DEF Positions
  <2> QED BY <1>4, <2>1, FunctionList
<1>8. \A i \in 1 .. N : x.load[i] \in BOOLEAN
  BY <1>6, LoadsAreBoolean
<1>9. x.usualLoad = SubSeq(x.load, 1, U)
  <2>1. PositionsAgree(c)
    BY DEF IsContract
  <2> QED BY <1>2, <1>3, <2>1 DEF PositionsAgree
<1>10. \A i \in 1 .. U : x.usualLoad[i] = x.load[i]
  <2> DEFINE l == x.load
  <2>1. PICK V : l \in Seq(V)
    BY <1>7 DEF IsList
  <2>2. Len(l) = N
    BY <1>7
  <2> HIDE DEF l
  <2>3. \A i \in 1 .. U : SubSeq(l, 1, U)[i] = l[i]
    BY <1>4, <2>1, <2>2
  <2> QED BY <1>9, <2>3 DEF l
<1>11. ArePlaced(x.types, x.load, off, N)
  BY <1>6 DEF ArePlaced
<1> QED BY <1>1, <1>3, <1>7, <1>8, <1>9, <1>10, <1>11

(***************************************************************************)
(* The values of all members, laid out behind the header.                  *)
(***************************************************************************)
Computed == contract \in Contracts /\ code = Compiled(contract)
Values(g) == [j \in 1 .. Len(types) |-> Value(types[j], j, g[j])]

(* What the compiler computed of the contract, member by member ...         *)
LEMMA ComputedFacts ==
    ASSUME Computed, NEW N, N = Len(types), NEW U, U = startIndexType - 1
    PROVE  /\ types \in Seq(Storables) /\ types \in Seq(TypeSizes) /\ N \in Nat /\ U \in 0 .. N /\ startIndexType = U + 1
           /\ UsualTypes \in Seq(Storables) /\ Len(UsualTypes) = U /\ \A k \in 1 .. U : UsualTypes[k] = types[k]
           /\ IsList(load) /\ Len(load) = N /\ \A i \in 1 .. N : load[i] \in BOOLEAN
           /\ UsualLoad = SubSeq(load, 1, U) /\ \A i \in 1 .. U : UsualLoad[i] = load[i]
           /\ ~HasUnpacked => U = N
<1> DEFINE x == Compiled(contract)
           m == Len(contract.usual)
           w == Len(VariablesOf(contract))
           u == Len(x.usualTypes)
           off == getOffsetC4(contract)
<1>1. IsContract(contract)
  BY ContractsAssumption DEF Computed
<1>a. x = Compiled(contract) /\ m = Len(contract.usual) /\ w = Len(VariablesOf(contract)) /\ u = Len(x.usualTypes)
      /\ off = getOffsetC4(contract)
  OBVIOUS
<1>2. types = x.types /\ load = x.load /\ UsualTypes = x.usualTypes /\ UsualLoad = x.usualLoad /\ N = Len(x.types)
  BY DEF Computed, types, load, UsualTypes, UsualLoad
<1>3. startIndexType = u + 1
  BY <1>2 DEF startIndexType
<1> HIDE DEF x, m, w, u, off
<1>4. /\ x.types \in Seq(Storables) /\ x.usualTypes \in Seq(Storables) /\ N \in Nat /\ u \in 0 .. N
      /\ \A k \in 1 .. u : x.usualTypes[k] = x.types[k]
      /\ (contract.unpacked = <<>> <=> m = w) /\ (m = w => u = N)
  <2>1. N = Len(x.types)
    BY <1>2
  <2>2. IsCompiled(contract, x, m, w, N, u)
    BY <1>1, <1>a, <2>1 DEF IsCompiled
  <2> QED BY <2>2, CompiledFacts
<1>5. /\ IsList(x.load) /\ Len(x.load) = N /\ \A i \in 1 .. N : x.load[i] \in BOOLEAN
      /\ x.usualLoad = SubSeq(x.load, 1, u) /\ \A i \in 1 .. u : x.usualLoad[i] = x.load[i]
  <2>1. N = Len(x.types)
    BY <1>2
  <2> QED BY SMTT(30), <1>1, <1>a, <2>1, LoadFacts
<1>6. U = u /\ u = Len(x.usualTypes)
  BY <1>3, <1>4, <1>a
<1>7. x.types \in Seq(TypeSizes)
  <2> DEFINE t == x.types
  <2>1. t \in Seq(Storables)
    BY <1>4
  <2> HIDE DEF t
  <2>2. t \in Seq(TypeSizes)
    BY <2>1 DEF Storables
  <2> QED BY <2>2 DEF t
<1>8. ~HasUnpacked => U = N
  BY <1>4, <1>6 DEF HasUnpacked
<1>9. startIndexType = U + 1
  BY <1>3, <1>6
<1>10. /\ types \in Seq(Storables) /\ types \in Seq(TypeSizes) /\ UsualTypes \in Seq(Storables)
  BY <1>2, <1>4, <1>7
<1>11. Len(UsualTypes) = U /\ \A k \in 1 .. U : UsualTypes[k] = types[k]
  BY <1>2, <1>4, <1>6
<1>12. IsList(load) /\ Len(load) = N /\ \A i \in 1 .. N : load[i] \in BOOLEAN
  BY <1>2, <1>5
<1>13. UsualLoad = SubSeq(load, 1, U) /\ \A i \in 1 .. U : UsualLoad[i] = load[i]
  BY <1>2, <1>5, <1>6
<1> QED BY <1>4, <1>6, <1>8, <1>9, <1>10, <1>11, <1>12, <1>13

(* ... and variable by variable.                                            *)
LEMMA FirstFacts ==
    ASSUME Computed, NEW N, N = Len(types), NEW U, U = startIndexType - 1, NEW m, m = Len(contract.usual), NEW w, w = Len(AllVars)
    PROVE  /\ m \in 0 .. w /\ w \in Nat /\ FirstOf(1) = 1 /\ FirstOf(m + 1) = U + 1 /\ FirstOf(w + 1) = N + 1
           /\ \A v \in 1 .. w : FirstOf(v) \in Nat /\ FirstOf(v + 1) \in Nat /\ FirstOf(v) < FirstOf(v + 1)
<1> DEFINE x == Compiled(contract)
           u == Len(x.usualTypes)
<1>1. IsContract(contract)
  BY ContractsAssumption DEF Computed
<1>a. x = Compiled(contract) /\ u = Len(x.usualTypes)
  OBVIOUS
<1>2. types = x.types /\ UsualTypes = x.usualTypes /\ N = Len(x.types) /\ \A v : FirstOf(v) = x.first[v]
  BY DEF Computed, types, UsualTypes, FirstOf
<1>3. startIndexType = u + 1 /\ w = Len(VariablesOf(contract))
  BY <1>2 DEF startIndexType, AllVars, VariablesOf
<1> HIDE DEF x, u
<1>4. /\ m \in 0 .. w /\ w \in Nat /\ N \in Nat /\ u \in 0 .. N
      /\ x.first[1] = 1 /\ x.first[m + 1] = u + 1 /\ x.first[w + 1] = N + 1
      /\ \A v \in 1 .. w : x.first[v] \in Nat /\ x.first[v + 1] \in Nat /\ x.first[v] < x.first[v + 1]
  <2>1. N = Len(x.types) /\ w = Len(VariablesOf(contract))
    BY <1>2, <1>3
  <2>2. IsCompiled(contract, x, m, w, N, u)
    BY <1>1, <1>a, <2>1 DEF IsCompiled
  <2> QED BY <2>2, CompiledFacts
<1>5. U = u
  BY <1>3, <1>4
<1> QED BY <1>2, <1>4, <1>5

(* The values that are modelled are as large as their types say, where the  *)
(* types say so.                                                            *)
LEMMA ValueExact ==
    ASSUME NEW t \in Storables, NEW of, NEW tag
    PROVE  Fitting(Value(t, of, tag), t) /\ Exact(Value(t, of, tag), t)
<1> DEFINE v == Value(t, of, tag)
<1>1. IsType(t) /\ t \in TypeSizes /\ (t.fixedRefs /\ ~t.fixedSize => t.refs = 0)
  BY DEF Storables, Storable
<1>2. Fitting(v, t)
  BY <1>1, ValueFits
<1>3. v.size = IF tag = 0 THEN MinSize(t) ELSE MaxSize(t)
  BY DEF Value
<1>4. ASSUME t.fixedSize PROVE MinSize(t) = [bits |-> t.bits, refs |-> t.refs]
  <2>1. t # String /\ t # Array /\ t \notin {Address, AddressStd}
    BY <1>4 DEF String, Array, Address, AddressStd, Type
  <2> QED BY <1>4, <2>1 DEF MinSize
<1>5. MaxSize(t) = [bits |-> t.bits, refs |-> t.refs]
  BY DEF MaxSize
<1>6. t.fixedSize => v.size.bits = t.bits /\ v.size.refs = t.refs
  <2> HIDE DEF v
  <2>1. t.fixedSize => v.size = [bits |-> t.bits, refs |-> t.refs]
    BY <1>3, <1>4, <1>5
  <2> QED BY <2>1
<1> HIDE DEF v
<1>7. ASSUME t.fixedRefs PROVE v.size.refs = t.refs
  <2>1. CASE t.fixedSize
    BY <1>6, <2>1
  <2>2. CASE ~t.fixedSize
    <3>1. t.refs = 0
      BY <1>1, <1>7, <2>2
    <3>2. v.size.refs \in Nat /\ v.size.refs <= t.refs
      BY <1>2 DEF Fitting, Stored, IsValue
    <3> QED BY <3>1, <3>2
  <2> QED BY <2>1, <2>2
<1> QED BY <1>2, <1>6, <1>7 DEF Exact, v

IsLaid(h, E, pb, pr, N, U) ==
    /\ N = Len(types) /\ U = startIndexType - 1
    /\ Laid(types, load, h, E, pb, pr, N) /\ pb[0] = getOffsetC4(contract) /\ pr[0] = 0

(* Every choice of values can be laid out.                                  *)
LEMMA ValuesLaid ==
    ASSUME Computed, NEW g
    PROVE  \E E, pb, pr : IsLaid(Values(g), E, pb, pr, Len(types), startIndexType - 1)
<1> DEFINE N == Len(types)
           h == Values(g)
           x == Compiled(contract)
<1>1. types \in Seq(Storables) /\ types \in Seq(TypeSizes) /\ N \in Nat
  BY ComputedFacts
<1>a. IsContract(contract) /\ x = Compiled(contract)
  BY ContractsAssumption DEF Computed
<1>3. types = x.types /\ load = x.load
  BY DEF Computed, types, load
<1> HIDE DEF x
<1>2. ArePlaced(x.types, x.load, getOffsetC4(contract), Len(x.types))
  BY <1>a, LoadFacts
<1>4. PICK pb, pr : pb[0] = getOffsetC4(contract) /\ pr[0] = 0 /\ Positions(types, load, pb, pr, N)
  BY <1>2, <1>3 DEF ArePlaced
<1>5. getOffsetC4(contract) <= CellBits
  BY ContractsAssumption DEF Computed, IsContract
<1>6. h = [j \in 1 .. N |-> h[j]] /\ \A j \in 1 .. N : h[j] = Value(types[j], j, g[j])
  BY DEF Values
<1> HIDE DEF h, N
<1>7. IsList(h) /\ Len(h) = N
  BY <1>1, <1>6, FunctionList
<1>8. \A j \in 1 .. N : types[j] \in Storables
  BY <1>1 DEF N
<1>9. \A j \in 1 .. N : Fitting(h[j], types[j]) /\ Exact(h[j], types[j])
  BY <1>6, <1>8, ValueExact
<1>10. PICK E : IsEncoding(E, h, load, N)
  BY <1>1, EncodingExists
<1>11. pr[0] <= 3
  BY <1>4
<1>12. Laid(types, load, h, E, pb, pr, N)
  BY <1>1, <1>4, <1>5, <1>7, <1>9, <1>10, <1>11 DEF Laid, N
<1> QED BY <1>4, <1>12 DEF IsLaid, N, h

(***************************************************************************)
(* Parts of the list of values.                                            *)
(***************************************************************************)
(* The places of a part of a list.                                          *)
LEMMA PartOfList ==
    ASSUME NEW s, IsList(s), NEW u \in 0 .. Len(s), NEW j \in u .. Len(s), NEW p, p = SubSeq(s, u + 1, j)
    PROVE  IsList(p) /\ Len(p) = j - u /\ \A k \in 1 .. j - u : p[k] = s[u + k] /\ u + k \in 1 .. Len(s)
<1>1. PICK V : s \in Seq(V)
  BY DEF IsList
<1>2. Len(s) \in Nat
  BY <1>1
<1>3. p \in Seq(V) /\ Len(p) = j - u /\ \A k \in 1 .. j - u : p[k] = s[u + k]
  BY <1>1, <1>2
<1>4. \A k \in 1 .. j - u : u + k \in 1 .. Len(s)
  BY <1>2
<1> QED BY <1>3, <1>4 DEF IsList

(* The places of the first part.                                            *)
LEMMA FirstPart ==
    ASSUME NEW s, IsList(s), NEW j \in 0 .. Len(s), NEW p, p = SubSeq(s, 1, j)
    PROVE  IsList(p) /\ Len(p) = j /\ \A k \in 1 .. j : p[k] = s[k] /\ k \in 1 .. Len(s)
<1>1. PICK V : s \in Seq(V)
  BY DEF IsList
<1>2. Len(s) \in Nat
  BY <1>1
<1>3. p \in Seq(V) /\ Len(p) = j /\ \A k \in 1 .. j : p[k] = s[k]
  BY <1>1, <1>2
<1>4. \A k \in 1 .. j : k \in 1 .. Len(s)
  BY <1>2
<1> QED BY <1>3, <1>4 DEF IsList

(* A part of the values is read from where it begins.  If the first cell is *)
(* open already, nothing is loaded before the first of them.                *)
Opened(q, l, u, j, open) ==
    open \in BOOLEAN /\ (open => u < j) /\ \A k \in 1 .. j - u : q[k] = IF k = 1 /\ open THEN FALSE ELSE l[u + k]
StandsAt(h, E, u, open) == IF open THEN Ahead(h[u + 1], E[u + 1]) ELSE E[u]

IsPart(t, l, h, E, n, u, j, open, p, q, s) ==
    /\ u \in 0 .. n /\ j \in u .. n /\ Opened(q, l, u, j, open) /\ p = SubSeq(t, u + 1, j) /\ s = StandsAt(h, E, u, open)

(* A part of the list, decoded for itself, is that part, and leaves what    *)
(* follows it.                                                              *)
LEMMA PartRead ==
    ASSUME NEW t, NEW l, NEW h, NEW E, NEW pb, NEW pr, NEW n, Laid(t, l, h, E, pb, pr, n), NEW u, NEW j,
           NEW open, NEW p, NEW q, NEW s, IsPart(t, l, h, E, n, u, j, open, p, q, s)
    PROVE  decodeParameters(p, q, s) = [values |-> SubSeq(h, u + 1, j), rest |-> E[j]]
<1> DEFINE v == SubSeq(h, u + 1, j)
           m == j - u
           F == [k \in 0 .. m |-> IF k = 0 THEN s ELSE E[u + k]]
<1>a. open \in BOOLEAN /\ (open => u < j)
  BY DEF Opened, IsPart
<1>b. u \in 0 .. n /\ j \in u .. n /\ Opened(q, l, u, j, open) /\ p = SubSeq(t, u + 1, j) /\ s = StandsAt(h, E, u, open)
  BY DEF IsPart
<1>1. n \in Nat /\ Len(t) = n /\ Len(h) = n /\ IsList(h) /\ IsList(t)
  <2>1. t \in Seq(TypeSizes)
    BY DEF Laid
  <2> QED BY <2>1 DEF Laid, IsList
<1>2. /\ \A i \in 0 .. n : IsSlice(E[i])
      /\ \A i \in 1 .. n : /\ IsValue(h[i]) /\ Stored(h[i], t[i]) /\ l[i] \in BOOLEAN /\ E[i - 1] = Before(h[i], l[i], E[i])
  BY LaidFacts
<1>3. IsList(v) /\ Len(v) = j - u /\ \A k \in 1 .. j - u : v[k] = h[u + k] /\ u + k \in 1 .. n
  BY <1>1, <1>b, PartOfList
<1>4. Len(p) = j - u /\ \A k \in 1 .. j - u : p[k] = t[u + k]
  BY <1>1, <1>b, PartOfList
<1>5. m \in Nat /\ u + m = j /\ j \in 0 .. n /\ u + 0 = u
  BY <1>1, <1>b
<1>6. F[0] = s /\ \A k \in 1 .. m : F[k] = E[u + k]
  BY <1>5
<1>7. F[m] = E[j]
  <2>1. CASE m = 0
    <3>1. u = j /\ open = FALSE
      BY <1>1, <1>a, <1>b, <2>1
    <3> QED BY <1>6, <1>b, <2>1, <3>1 DEF StandsAt
  <2>2. CASE m # 0
    <3>1. m \in 1 .. m
      BY <1>5, <2>2
    <3> QED BY <1>5, <1>6, <3>1
  <2> QED BY <2>1, <2>2
<1> HIDE DEF F, v, m
<1>8. ASSUME NEW k \in 1 .. m PROVE F[k - 1] = Before(v[k], q[k], F[k])
  <2> DEFINE i == u + k
  <2>1. i \in 1 .. n /\ v[k] = h[i] /\ F[k] = E[i] /\ q[k] = IF k = 1 /\ open THEN FALSE ELSE l[i]
    BY <1>3, <1>6, <1>b DEF m, Opened
  <2>2. E[i - 1] = Before(h[i], l[i], E[i])
    BY <1>2, <2>1
  <2>3. CASE k = 1
    <3>1. F[k - 1] = s /\ i = u + 1 /\ i - 1 = u
      BY <1>1, <1>6, <1>b, <2>3
    <3>2. CASE open
      BY <1>b, <2>1, <2>3, <3>1, <3>2 DEF StandsAt, Before
    <3>3. CASE ~open
      BY <1>b, <2>1, <2>2, <2>3, <3>1, <3>3 DEF StandsAt
    <3> QED BY <3>2, <3>3
  <2>4. CASE k # 1
    <3>1. k - 1 \in 1 .. m /\ u + (k - 1) = i - 1
      BY <1>5, <1>b, <2>4
    <3>2. F[k - 1] = E[i - 1] /\ q[k] = l[i]
      BY <1>6, <2>1, <2>4, <3>1
    <3> QED BY <2>1, <2>2, <3>2
  <2> QED BY <2>3, <2>4
<1>9. ASSUME NEW k \in 1 .. m PROVE Stored(v[k], p[k]) /\ q[k] \in BOOLEAN
  <2>1. v[k] = h[u + k] /\ u + k \in 1 .. n /\ p[k] = t[u + k] /\ q[k] = IF k = 1 /\ open THEN FALSE ELSE l[u + k]
    BY <1>3, <1>4, <1>b DEF m, Opened
  <2>2. Stored(h[u + k], t[u + k]) /\ l[u + k] \in BOOLEAN
    BY <1>2, <2>1
  <2> QED BY <2>1, <2>2
<1>10. IsSlice(F[m])
  BY <1>2, <1>5, <1>7
<1>11. EncodingSteps(F, v, q, m)
  BY <1>8 DEF EncodingSteps
<1>12. m = Len(p) /\ m = Len(v)
  BY <1>3, <1>4 DEF m
<1>13. PartToRead(p, q, v, m, F, s)
  BY <1>3, <1>5, <1>6, <1>9, <1>10, <1>11, <1>12 DEF PartToRead
<1>14. decodeParameters(p, q, s) = [values |-> v, rest |-> F[m]]
  BY <1>13, PartIsRead
<1> QED BY <1>7, <1>14 DEF v

(* The last values, encoded for themselves, are what follows the others.    *)
RestIs(t, l, h, E, n, u) ==
    /\ encodeParameters(SubSeq(h, u + 1, n), SubSeq(l, u + 1, n), Empty) = E[u]
    /\ decodeParameters(SubSeq(t, u + 1, n), SubSeq(l, u + 1, n), E[u]) = [values |-> SubSeq(h, u + 1, n), rest |-> Empty]

(* It is: the slice E[u] is what encodeParameters makes of what follows.    *)
LEMMA RestEncoded ==
    ASSUME NEW t, NEW l, NEW h, NEW E, NEW pb, NEW pr, NEW n, Laid(t, l, h, E, pb, pr, n), NEW u \in 0 .. n
    PROVE  RestIs(t, l, h, E, n, u)
<1> DEFINE v == SubSeq(h, u + 1, n)
           q == SubSeq(l, u + 1, n)
           m == n - u
           F == [k \in 0 .. m |-> E[u + k]]
           sb == [k \in 0 .. m |-> pb[u + k]]
           sr == [k \in 0 .. m |-> pr[u + k]]
<1>1. n \in Nat /\ Len(h) = n /\ IsList(h) /\ Positions(t, l, pb, pr, n)
  BY DEF Laid
<1>2. /\ \A i \in 0 .. n : IsSlice(E[i]) /\ pb[i] \in Nat /\ pr[i] \in Nat
      /\ \A i \in 1 .. n : /\ IsValue(h[i]) /\ l[i] \in BOOLEAN /\ E[i - 1] = Before(h[i], l[i], E[i])
      /\ HasRoom(h, l, n, pb, pr) /\ E[n] = Empty
  BY LaidFacts
<1>3. IsList(l) /\ Len(l) = n
  <2>1. l = [i \in 1 .. n |-> l[i]]
    BY <1>1 DEF Positions
  <2> QED BY <1>1, <2>1, FunctionList
<1>4. n \in u .. n
  BY <1>1
<1>5. Len(v) = n - u /\ \A k \in 1 .. n - u : v[k] = h[u + k] /\ u + k \in 1 .. n
  BY <1>1, <1>4, PartOfList
<1>6. Len(q) = n - u /\ \A k \in 1 .. n - u : q[k] = l[u + k]
  BY <1>3, <1>4, PartOfList
<1>7. m \in Nat /\ u + m = n /\ u + 0 = u /\ 0 \in 0 .. m /\ m \in 0 .. m /\ u \in Nat /\ \A k \in 0 .. m : u + k \in 0 .. n
  BY <1>1
<1>8. \A k \in 0 .. m : F[k] = E[u + k] /\ sb[k] = pb[u + k] /\ sr[k] = pr[u + k]
  OBVIOUS
<1>9. F[0] = E[u] /\ F[m] = Empty /\ sb[0] = pb[u] /\ sr[0] = pr[u]
  BY <1>2, <1>7, <1>8
<1>10. decodeParameters(SubSeq(t, u + 1, n), SubSeq(l, u + 1, n), E[u]) = [values |-> SubSeq(h, u + 1, n), rest |-> Empty]
  <2> DEFINE p == SubSeq(t, u + 1, n)
             s == E[u]
             no == FALSE
  <2>1. Opened(q, l, u, n, no)
    BY <1>1, <1>6 DEF Opened
  <2>2. s = StandsAt(h, E, u, no) /\ p = SubSeq(t, u + 1, n)
    BY DEF StandsAt
  <2> HIDE DEF p, q, s, no
  <2>3. decodeParameters(p, q, s) = [values |-> SubSeq(h, u + 1, n), rest |-> E[n]]
    <3>1. IsPart(t, l, h, E, n, u, n, no, p, q, s)
      BY <1>4, <2>1, <2>2 DEF IsPart
    <3> QED BY <3>1, PartRead
  <2> QED BY <1>2, <2>3 DEF p, q, s
<1> HIDE DEF F, v, m, q, sb, sr
<1>11. ASSUME NEW k \in 1 .. m
       PROVE  k \in 0 .. m /\ k - 1 \in 0 .. m /\ u + k \in 1 .. n /\ u + (k - 1) = (u + k) - 1 /\ v[k] = h[u + k] /\ q[k] = l[u + k]
  BY <1>5, <1>6, <1>7 DEF m
<1>12. EncodingSteps(F, v, q, m)
  <2>1. ASSUME NEW k \in 1 .. m PROVE F[k - 1] = Before(v[k], q[k], F[k])
    <3>1. F[k - 1] = E[(u + k) - 1] /\ F[k] = E[u + k]
      BY <1>8, <1>11
    <3> QED BY <1>2, <1>11, <3>1
  <2> QED BY <2>1 DEF EncodingSteps
<1>13. HasRoom(v, q, m, sb, sr)
  <2>1. ASSUME NEW k \in 0 .. m PROVE sb[k] \in Nat /\ sr[k] \in Nat
    BY <1>2, <1>7, <1>8
  <2>2. ASSUME NEW k \in 1 .. m
        PROVE  /\ v[k].size.bits + (IF q[k] THEN 0 ELSE sb[k - 1]) <= sb[k] /\ sb[k] <= CellBits
               /\ v[k].size.refs + (IF q[k] THEN 0 ELSE sr[k - 1]) <= sr[k] /\ sr[k] <= CellRefs
               /\ q[k] => sr[k - 1] <= 3
    <3> DEFINE i == u + k
    <3>1. sb[k - 1] = pb[i - 1] /\ sb[k] = pb[i] /\ sr[k - 1] = pr[i - 1] /\ sr[k] = pr[i] /\ v[k] = h[i] /\ q[k] = l[i] /\ i \in 1 .. n
      BY <1>8, <1>11
    <3> HIDE DEF i
    <3>2. /\ h[i].size.bits + (IF l[i] THEN 0 ELSE pb[i - 1]) <= pb[i] /\ pb[i] <= CellBits
          /\ h[i].size.refs + (IF l[i] THEN 0 ELSE pr[i - 1]) <= pr[i] /\ pr[i] <= CellRefs
          /\ l[i] => pr[i - 1] <= 3
      BY <1>2, <3>1 DEF HasRoom
    <3> QED BY <3>1, <3>2
  <2>3. sb \in [0 .. m -> Nat] /\ sr \in [0 .. m -> Nat]
    BY <2>1 DEF sb, sr
  <2>4. sb[0] <= CellBits
    BY <1>9, LaidFacts
  <2> QED BY <2>2, <2>3, <2>4 DEF HasRoom
<1>14. Within(Empty, sb[0], sr[0])
  <2>1. pb[u] \in Nat /\ pr[u] \in Nat
    BY <1>2
  <2>2. 0 <= pb[u] /\ 0 <= pr[u]
    BY <2>1
  <2> QED BY <1>9, <2>2, EmptyFacts DEF Within
<1>15. \A k \in 1 .. m : IsValue(v[k]) /\ q[k] \in BOOLEAN
  BY <1>2, <1>11
<1>16. IsEncoding(F, v, q, m)
  BY <1>9, <1>12 DEF IsEncoding
<1>17. m = Len(v)
  BY <1>5 DEF m
<1>18. encodeParameters(v, q, Empty) = Cat(Empty, F[0])
  BY <1>7, <1>13, <1>14, <1>15, <1>16, <1>17, Encoded
<1>19. Cat(Empty, F[0]) = E[u]
  BY <1>2, <1>9, CatEmpty
<1> QED BY <1>10, <1>18, <1>19 DEF v, q, RestIs

(***************************************************************************)
(* The header is in the first cell, before the values.                     *)
(***************************************************************************)
TwoLists(c, a, b) ==
    /\ IsList(a) /\ IsList(b) /\ IsList(c) /\ Len(a) \in Nat /\ Len(b) \in Nat /\ Len(c) = Len(a) + Len(b)
    /\ \A k \in 1 .. Len(a) : c[k] = a[k] /\ k \in 1 .. Len(c)
    /\ \A k \in 1 .. Len(b) : c[Len(a) + k] = b[k] /\ Len(a) + k \in 1 .. Len(c)

(* Of a list in two parts, these are the parts.                             *)
LEMMA TwoListsAre ==
    ASSUME NEW a, NEW b, IsList(a), IsList(b), NEW c, c = a \o b
    PROVE  TwoLists(c, a, b)
<1> DEFINE p == Len(a)
           q == Len(b)
<1>1. p \in Nat /\ q \in Nat
  BY ListFacts
<1>2. IsList(c) /\ Len(c) = p + q /\ \A k \in 1 .. p + q : c[k] = IF k <= p THEN a[k] ELSE b[k - p]
  BY CatList
<1> HIDE DEF p, q
<1>3. ASSUME NEW k \in 1 .. p PROVE c[k] = a[k] /\ k \in 1 .. Len(c)
  <2>1. k \in 1 .. p + q /\ k <= p
    BY <1>1
  <2> QED BY <1>2, <2>1
<1>4. ASSUME NEW k \in 1 .. q PROVE c[p + k] = b[k] /\ p + k \in 1 .. Len(c)
  <2>1. p + k \in 1 .. p + q /\ ~(p + k <= p) /\ (p + k) - p = k
    BY <1>1
  <2> QED BY <1>2, <2>1
<1> QED BY <1>1, <1>2, <1>3, <1>4 DEF TwoLists, p, q

(* What is left to come is the same with and without the header.            *)
LEMMA SameSums ==
    ASSUME NEW a, NEW b, NEW c, TwoLists(c, a, b), NEW i \in 1 .. Len(b) + 1
    PROVE  sufBits(c, Len(a) + i) = sufBits(b, i) /\ sufRefs(c, Len(a) + i) = sufRefs(b, i)
<1> DEFINE p == Len(a)
           q == Len(b)
           r == Len(c)
<1>1. p \in Nat /\ q \in Nat /\ r = p + q /\ \A k \in 1 .. q : c[p + k] = b[k]
  BY DEF TwoLists
<1> HIDE DEF p, q, r
<1>2. r + 1 - (p + i) = q + 1 - i /\ i \in 1 .. q + 1
  BY <1>1 DEF q
<1>3. \A k \in 1 .. q + 1 - i : c[r + 1 - k] = b[q + 1 - k]
  <2>1. ASSUME NEW k \in 1 .. q + 1 - i PROVE c[r + 1 - k] = b[q + 1 - k]
    <3>1. q + 1 - k \in 1 .. q /\ r + 1 - k = p + (q + 1 - k)
      BY <1>1, <1>2
    <3> QED BY <1>1, <3>1
  <2> QED BY <2>1
<1>4. [k \in 1 .. r + 1 - (p + i) |-> c[r + 1 - k].bits] = [k \in 1 .. q + 1 - i |-> b[q + 1 - k].bits]
  BY <1>2, <1>3
<1>5. [k \in 1 .. r + 1 - (p + i) |-> c[r + 1 - k].refs] = [k \in 1 .. q + 1 - i |-> b[q + 1 - k].refs]
  BY <1>2, <1>3
<1> QED BY <1>4, <1>5 DEF sufBits, sufRefs, p, q, r

IsHeader(hd) == /\ hd \in Seq(TypeSizes) /\ sufBits(hd, 1) \in Nat /\ sufBits(hd, 1) <= CellBits
                /\ \A k \in 1 .. Len(hd) : IsType(hd[k]) /\ hd[k].refs = 0

(* No cell begins in the header.                                            *)
IsPlaced(hd, t, all, l, pb, pr) ==
    /\ IsHeader(hd) /\ all \in Seq(TypeSizes) /\ TwoLists(all, hd, t)
    /\ Positions(all, l, pb, pr, Len(all)) /\ pb[0] = 0 /\ pr[0] = 0

InFirstCell(hd, l, pb, pr) ==
    (\A i \in 1 .. Len(hd) : l[i] = FALSE) /\ pb[Len(hd)] = sufBits(hd, 1) /\ pr[Len(hd)] = 0

(* The header keeps to the first cell, since it fits into it.               *)
LEMMA HeaderPlaces ==
    ASSUME NEW hd, NEW t, NEW all, NEW l, NEW pb, NEW pr, IsPlaced(hd, t, all, l, pb, pr)
    PROVE  InFirstCell(hd, l, pb, pr)
<1> DEFINE n == Len(hd)
           m == Len(all)
           off == sufBits(hd, 1)
           T == {i \in 0 .. n : pb[i] + sufBits(hd, i + 1) = off /\ pr[i] = 0}
<1>a. IsHeader(hd)
  BY DEF IsPlaced
<1>b. all \in Seq(TypeSizes)
  BY DEF IsPlaced
<1>c. TwoLists(all, hd, t) /\ pb[0] = 0 /\ pr[0] = 0
  BY DEF IsPlaced
<1>d. Positions(all, l, pb, pr, m)
  BY DEF IsPlaced
<1>1. n \in Nat /\ m \in Nat /\ \A k \in 1 .. n : all[k] = hd[k] /\ k \in 1 .. m
  <2>1. all \in Seq(TypeSizes)
    BY <1>b
  <2> QED BY <1>c, <2>1 DEF TwoLists
<1>2. /\ \A i \in 1 .. n + 1 : sufBits(hd, i) \in Nat
      /\ sufBits(hd, n + 1) = 0
      /\ \A i \in 1 .. n : hd[i].bits \in Nat /\ sufBits(hd, i) = hd[i].bits + sufBits(hd, i + 1)
  BY <1>a, SufBits DEF IsHeader
<1>3. off \in Nat /\ off <= CellBits /\ \A k \in 1 .. n : hd[k].refs = 0
  BY <1>a DEF IsHeader
<1>4. /\ \A i \in 0 .. m : pb[i] \in Nat /\ pr[i] \in Nat
      /\ \A i \in 1 .. m : /\ l[i] = Begins(all, i, pb[i - 1], pr[i - 1])
                           /\ pb[i] = all[i].bits + (IF l[i] THEN 0 ELSE pb[i - 1])
                           /\ pr[i] = all[i].refs + (IF l[i] THEN 0 ELSE pr[i - 1])
  BY <1>d DEF Positions
<1> HIDE DEF n, m, off
<1>5. ASSUME NEW i \in 1 .. n, pb[i - 1] + sufBits(hd, i) = off, pr[i - 1] = 0
      PROVE  l[i] = FALSE /\ pb[i] + sufBits(hd, i + 1) = off /\ pr[i] = 0
  <2> DEFINE b == pb[i - 1]
             r == pr[i - 1]
             y == hd[i].bits
             z == sufBits(hd, i + 1)
  <2>1. i \in 1 .. m /\ all[i] = hd[i] /\ i + 1 \in 1 .. n + 1
    BY <1>1
  <2>2. y \in Nat /\ z \in Nat /\ sufBits(hd, i) = y + z
    BY <1>2, <2>1
  <2>3. b \in Nat
    <3>1. i - 1 \in 0 .. m
      BY <1>1, <2>1
    <3> QED BY <1>4, <3>1
  <2>4. l[i] = Begins(all, i, b, r) /\ pb[i] = y + (IF l[i] THEN 0 ELSE b) /\ pr[i] = 0 + (IF l[i] THEN 0 ELSE r) /\ r = 0
    BY <1>3, <1>4, <1>5, <2>1
  <2>5. b + (y + z) = off
    BY <1>5, <2>2
  <2>6. all[i].bits = y /\ all[i].refs = 0
    BY <1>3, <2>1
  <2> HIDE DEF b, r, y, z
  <2>7. b + y <= CellBits /\ y + b + z = off
    <3>1. CellBits \in Nat
      BY DEF CellBits
    <3> QED BY <1>3, <2>2, <2>3, <2>5, <3>1
  <2>8. ~NeedsCell(b + y, r + 0)
    <3>1. ~(b + y > CellBits)
      <4>1. CellBits \in Nat
        BY DEF CellBits
      <4> QED BY <2>2, <2>3, <2>7, <4>1
    <3>2. ~(r + 0 >= 4)
      BY <2>4
    <3> QED BY <3>1, <3>2 DEF NeedsCell
  <2>9. l[i] = FALSE
    BY <2>4, <2>6, <2>8 DEF Begins
  <2>10. pb[i] = y + b /\ pr[i] = 0
    BY <2>4, <2>9
  <2> QED BY <2>7, <2>9, <2>10 DEF z
<1>6. 0 \in T
  BY <1>1, <1>3, <1>c DEF off
<1>7. ASSUME NEW i \in 1 .. n, i - 1 \in T PROVE i \in T
  <2>1. pb[i - 1] + sufBits(hd, (i - 1) + 1) = off /\ pr[i - 1] = 0 /\ (i - 1) + 1 = i /\ i \in 0 .. n
    BY <1>7
  <2> QED BY <1>5, <2>1
<1> HIDE DEF T
<1>8. \A i \in 0 .. n : i \in T
  BY <1>1, <1>6, <1>7, Upwards
<1>9. \A i \in 0 .. n : pb[i] + sufBits(hd, i + 1) = off /\ pr[i] = 0
  BY <1>8 DEF T
<1>10. ASSUME NEW i \in 1 .. n PROVE l[i] = FALSE
  <2>1. i - 1 \in 0 .. n /\ (i - 1) + 1 = i
    BY <1>1
  <2>2. pb[i - 1] + sufBits(hd, (i - 1) + 1) = off /\ pr[i - 1] = 0
    BY <1>9, <2>1
  <2> QED BY <1>5, <2>1, <2>2
<1>11. pb[n] = off /\ pr[n] = 0
  <2>1. n \in 0 .. n /\ n \in 0 .. m
    <3>1. m = n + Len(t) /\ Len(t) \in Nat
      BY <1>c DEF TwoLists, n, m
    <3> QED BY <1>1, <3>1
  <2>2. pb[n] + 0 = off /\ pr[n] = 0 /\ pb[n] \in Nat
    BY <1>2, <1>4, <1>9, <2>1
  <2> QED BY <2>2
<1> QED BY <1>10, <1>11 DEF n, off, InFirstCell

(* Behind it, cells begin where they do without it.                         *)
LEMMA SamePlaces ==
    ASSUME NEW hd, NEW t, NEW all, TwoLists(all, hd, t),
           NEW l, NEW pb, NEW pr, Positions(all, l, pb, pr, Len(all)),
           NEW k, NEW qb, NEW qr, Positions(t, k, qb, qr, Len(t)), pb[Len(hd)] = qb[0], pr[Len(hd)] = qr[0]
    PROVE  \A i \in 1 .. Len(t) : l[Len(hd) + i] = k[i]
<1> DEFINE n == Len(hd)
           N == Len(t)
           m == Len(all)
           T == {i \in 0 .. N : pb[n + i] = qb[i] /\ pr[n + i] = qr[i]}
<1>1. n \in Nat /\ N \in Nat /\ m = n + N /\ \A i \in 1 .. N : all[n + i] = t[i] /\ n + i \in 1 .. m
  BY DEF TwoLists
<1>2. \A i \in 1 .. m : /\ l[i] = Begins(all, i, pb[i - 1], pr[i - 1])
                        /\ pb[i] = all[i].bits + (IF l[i] THEN 0 ELSE pb[i - 1])
                        /\ pr[i] = all[i].refs + (IF l[i] THEN 0 ELSE pr[i - 1])
  BY DEF Positions
<1>3. \A i \in 1 .. N : /\ k[i] = Begins(t, i, qb[i - 1], qr[i - 1])
                        /\ qb[i] = t[i].bits + (IF k[i] THEN 0 ELSE qb[i - 1])
                        /\ qr[i] = t[i].refs + (IF k[i] THEN 0 ELSE qr[i - 1])
  BY DEF Positions
<1>4. \A i \in 1 .. N : sufBits(all, n + i) = sufBits(t, i) /\ sufRefs(all, n + i) = sufRefs(t, i)
  <2>1. \A i \in 1 .. N + 1 : sufBits(all, Len(hd) + i) = sufBits(t, i) /\ sufRefs(all, Len(hd) + i) = sufRefs(t, i)
    BY SameSums
  <2>2. \A i \in 1 .. N : i \in 1 .. N + 1
    BY <1>1
  <2> QED BY <2>1, <2>2
<1>a. pb[n] = qb[0] /\ pr[n] = qr[0]
  OBVIOUS
<1> HIDE DEF n, N, m
<1>5. ASSUME NEW i \in 1 .. N, NEW b, NEW r PROVE Begins(all, n + i, b, r) = Begins(t, i, b, r)
  BY <1>1, <1>4 DEF Begins, RestFits
<1>6. ASSUME NEW i \in 1 .. N, i - 1 \in T PROVE l[n + i] = k[i] /\ i \in T
  <2>1. n + i \in 1 .. m /\ (n + i) - 1 = n + (i - 1) /\ all[n + i] = t[i] /\ i \in 0 .. N
    BY <1>1
  <2>2. pb[(n + i) - 1] = qb[i - 1] /\ pr[(n + i) - 1] = qr[i - 1]
    BY <1>6, <2>1
  <2>3. /\ l[n + i] = Begins(all, n + i, pb[(n + i) - 1], pr[(n + i) - 1])
        /\ pb[n + i] = all[n + i].bits + (IF l[n + i] THEN 0 ELSE pb[(n + i) - 1])
        /\ pr[n + i] = all[n + i].refs + (IF l[n + i] THEN 0 ELSE pr[(n + i) - 1])
    BY <1>2, <2>1
  <2>4. l[n + i] = k[i]
    BY <1>3, <1>5, <2>2, <2>3
  <2>5. pb[n + i] = qb[i] /\ pr[n + i] = qr[i]
    BY <1>3, <2>1, <2>2, <2>3, <2>4
  <2> QED BY <2>1, <2>4, <2>5
<1>7. 0 \in T
  <2>1. n + 0 = n /\ 0 \in 0 .. N
    BY <1>1
  <2> QED BY <1>a, <2>1
<1>8. \A i \in 0 .. N : i \in T
  <2>1. \A i \in 1 .. N : i - 1 \in T => i \in T
    BY <1>6
  <2> HIDE DEF T
  <2> QED BY <1>1, <1>7, <2>1, Upwards
<1>9. ASSUME NEW i \in 1 .. N PROVE l[n + i] = k[i]
  <2>1. i - 1 \in 0 .. N
    BY <1>1
  <2>2. i - 1 \in T
    BY <1>8, <2>1
  <2> QED BY <1>6, <2>2
<1> QED BY <1>9 DEF n, N

NoLoad(n) == [k \in 1 .. n |-> FALSE]

(* Values and those behind them in the same cell.                           *)
HeaderPut(F, B, hv, h, all, al, E) ==
    /\ IsEncoding(F, all, al, Len(all)) /\ F[0] = Cat(B, E[0]) /\ F[Len(hv)] = E[0]
    /\ EncodingSteps(F, hv, NoLoad(Len(hv)), Len(hv))
HeaderBefore(G, E, hv, h, l, all, al) ==
    /\ TwoLists(all, hv, h) /\ IsEncoding(G, hv, NoLoad(Len(hv)), Len(hv)) /\ IsEncoding(E, h, l, Len(h))
    /\ \A k \in 1 .. Len(hv) : IsValue(hv[k]) /\ al[k] = FALSE
    /\ \A k \in 1 .. Len(h) : IsValue(h[k]) /\ al[Len(hv) + k] = l[k]

(* The header is put before the values, in the same cell.                   *)
LEMMA PutBefore ==
    ASSUME NEW G, NEW E, NEW hv, NEW h, NEW l, NEW all, NEW al, HeaderBefore(G, E, hv, h, l, all, al)
    PROVE  \E F : HeaderPut(F, G[0], hv, h, all, al, E)
<1> DEFINE n == Len(hv)
           N == Len(h)
           m == Len(all)
           no == NoLoad(n)
           F == [k \in 0 .. m |-> IF k <= n THEN Cat(G[k], E[0]) ELSE E[k - n]]
<1>1. n \in Nat /\ N \in Nat /\ m = n + N
  BY DEF HeaderBefore, TwoLists
<1>2. /\ \A k \in 1 .. n : all[k] = hv[k] /\ k \in 1 .. m /\ IsValue(hv[k]) /\ al[k] = FALSE
      /\ \A k \in 1 .. N : all[n + k] = h[k] /\ n + k \in 1 .. m /\ IsValue(h[k]) /\ al[n + k] = l[k]
  BY DEF HeaderBefore, TwoLists
<1>3. IsEncoding(G, hv, no, n) /\ IsEncoding(E, h, l, N)
  BY DEF HeaderBefore
<1>4. \A i \in 1 .. n : no[i] = FALSE
  BY DEF NoLoad
<1>5. \A i \in 0 .. m : F[i] = IF i <= n THEN Cat(G[i], E[0]) ELSE E[i - n]
  OBVIOUS
<1> HIDE DEF n, N, m, no, F
<1>6. (\A i \in 0 .. n : IsSlice(G[i])) /\ (\A i \in 0 .. N : IsSlice(E[i]))
  BY <1>1, <1>2, <1>3, EncodingSlices
<1>7. G[n] = Empty /\ (\A i \in 1 .. n : G[i - 1] = Before(hv[i], no[i], G[i]))
  BY <1>3 DEF IsEncoding, EncodingSteps
<1>8. E[N] = Empty /\ (\A i \in 1 .. N : E[i - 1] = Before(h[i], l[i], E[i]))
  BY <1>3 DEF IsEncoding, EncodingSteps
<1>9. \A i \in 0 .. n : F[i] = Cat(G[i], E[0])
  <2>1. \A i \in 0 .. n : i \in 0 .. m /\ i <= n
    BY <1>1
  <2> QED BY <1>5, <2>1
<1>10. IsSlice(E[0]) /\ n \in 0 .. n /\ 0 \in 0 .. n /\ 0 \in 0 .. N
  BY <1>1, <1>6
<1>11. F[n] = E[0] /\ F[0] = Cat(G[0], E[0])
  BY <1>7, <1>9, <1>10, CatEmpty
<1>12. \A i \in 0 .. N : F[n + i] = E[i]
  <2>1. ASSUME NEW i \in 0 .. N PROVE F[n + i] = E[i]
    <3>1. CASE i = 0
      <4>1. n + i = n
        BY <1>1, <3>1
      <4> QED BY <1>11, <3>1, <4>1
    <3>2. CASE i # 0
      <4>1. n + i \in 0 .. m /\ ~(n + i <= n) /\ (n + i) - n = i
        BY <1>1, <3>2
      <4> QED BY <1>5, <4>1
    <3> QED BY <3>1, <3>2
  <2> QED BY <2>1
<1>13. ASSUME NEW i \in 1 .. n PROVE F[i - 1] = Ahead(hv[i], F[i])
  <2>1. i \in 0 .. n /\ i - 1 \in 0 .. n
    BY <1>1
  <2>2. G[i - 1] = Ahead(hv[i], G[i])
    BY <1>4, <1>7 DEF Before
  <2>3. Ahead(hv[i], Cat(G[i], E[0])) = Cat(Ahead(hv[i], G[i]), E[0])
    BY <1>2, <1>6, <1>10, <2>1, AheadCat
  <2> QED BY <1>9, <2>1, <2>2, <2>3
<1>14. EncodingSteps(F, hv, no, n)
  BY <1>4, <1>13 DEF EncodingSteps, Before
<1>15. F[m] = Empty
  <2>1. N \in 0 .. N
    BY <1>1
  <2> QED BY <1>1, <1>8, <1>12, <2>1
<1>16. ASSUME NEW k \in 1 .. m PROVE F[k - 1] = Before(all[k], al[k], F[k])
  <2>1. CASE k <= n
    <3>1. k \in 1 .. n
      BY <1>1, <2>1
    <3> QED BY <1>2, <1>13, <3>1 DEF Before
  <2>2. CASE ~(k <= n)
    <3> DEFINE i == k - n
    <3>1. i \in 1 .. N /\ k = n + i /\ i - 1 \in 0 .. N /\ i \in 0 .. N /\ k - 1 = n + (i - 1)
      BY <1>1, <2>2
    <3> HIDE DEF i
    <3>2. F[k - 1] = E[i - 1] /\ F[k] = E[i] /\ all[k] = h[i] /\ al[k] = l[i]
      BY <1>2, <1>12, <3>1
    <3> QED BY <1>8, <3>1, <3>2
  <2> QED BY <2>1, <2>2
<1>17. IsEncoding(F, all, al, m)
  BY <1>15, <1>16 DEF IsEncoding, EncodingSteps
<1>18. HeaderPut(F, G[0], hv, h, all, al, E)
  BY <1>11, <1>14, <1>17 DEF HeaderPut, n, m, no
<1> QED BY <1>18

(* The first values alone.                                                  *)
LEMMA FirstEncoded ==
    ASSUME NEW G, NEW E, NEW hv, NEW h, NEW l, NEW all, NEW al, HeaderBefore(G, E, hv, h, l, all, al),
           NEW sb, NEW sr, HasRoom(all, al, Len(all), sb, sr)
    PROVE  encodeParameters(hv, NoLoad(Len(hv)), Empty) = G[0] /\ Within(G[0], sb[Len(hv)], sr[Len(hv)])
<1> DEFINE n == Len(hv)
           N == Len(h)
           m == Len(all)
           no == NoLoad(n)
           rb == [i \in 0 .. n |-> sb[i]]
           rr == [i \in 0 .. n |-> sr[i]]
           bs == Builders(hv, no, Empty)
<1>1. n \in Nat /\ N \in Nat /\ m = n + N
  BY DEF HeaderBefore, TwoLists
<1>2. \A k \in 1 .. n : all[k] = hv[k] /\ k \in 1 .. m /\ IsValue(hv[k]) /\ al[k] = FALSE
  BY DEF HeaderBefore, TwoLists
<1>3. IsEncoding(G, hv, no, n)
  BY DEF HeaderBefore
<1>4. \A i \in 1 .. n : no[i] = FALSE
  BY DEF NoLoad
<1>5. \A i \in 0 .. n : rb[i] = sb[i] /\ rr[i] = sr[i]
  OBVIOUS
<1>6. \A i \in 0 .. n : i \in 0 .. m
  BY <1>1
<1>7. /\ sb \in [0 .. m -> Nat] /\ sr \in [0 .. m -> Nat] /\ sb[0] <= CellBits
      /\ \A i \in 1 .. m :
          /\ all[i].size.bits + (IF al[i] THEN 0 ELSE sb[i - 1]) <= sb[i] /\ sb[i] <= CellBits
          /\ all[i].size.refs + (IF al[i] THEN 0 ELSE sr[i - 1]) <= sr[i] /\ sr[i] <= CellRefs
          /\ al[i] => sr[i - 1] <= 3
  BY DEF HasRoom
<1>8. rb \in [0 .. n -> Nat] /\ rr \in [0 .. n -> Nat]
  BY <1>6, <1>7
<1> HIDE DEF n, N, m, no, rb, rr
<1>9. \A i \in 0 .. n : IsSlice(G[i])
  BY <1>1, <1>2, <1>3, EncodingSlices
<1>10. G[n] = Empty /\ EncodingSteps(G, hv, no, n)
  BY <1>3 DEF IsEncoding
<1>11. 0 \in 0 .. n /\ n \in 0 .. n
  BY <1>1
<1>12. HasRoom(hv, no, n, rb, rr)
  <2>1. ASSUME NEW i \in 1 .. n
        PROVE  /\ hv[i].size.bits + (IF no[i] THEN 0 ELSE rb[i - 1]) <= rb[i] /\ rb[i] <= CellBits
               /\ hv[i].size.refs + (IF no[i] THEN 0 ELSE rr[i - 1]) <= rr[i] /\ rr[i] <= CellRefs
               /\ no[i] => rr[i - 1] <= 3
    <3>1. i \in 0 .. n /\ i - 1 \in 0 .. n
      BY <1>1
    <3>2. rb[i] = sb[i] /\ rr[i] = sr[i] /\ rb[i - 1] = sb[i - 1] /\ rr[i - 1] = sr[i - 1] /\ no[i] = FALSE
      BY <1>4, <1>5, <3>1
    <3>3. all[i] = hv[i] /\ al[i] = FALSE /\ i \in 1 .. m
      BY <1>2
    <3>4. /\ hv[i].size.bits + sb[i - 1] <= sb[i] /\ sb[i] <= CellBits
          /\ hv[i].size.refs + sr[i - 1] <= sr[i] /\ sr[i] <= CellRefs
      BY <1>7, <3>3
    <3> QED BY <3>2, <3>4
  <2>2. rb[0] <= CellBits
    BY <1>5, <1>7, <1>11
  <2> QED BY <1>8, <2>1, <2>2 DEF HasRoom
<1>13. Within(Empty, rb[0], rr[0])
  <2>1. rb[0] \in Nat /\ rr[0] \in Nat
    BY <1>8, <1>11
  <2>2. 0 <= rb[0] /\ 0 <= rr[0]
    BY <2>1
  <2> QED BY <2>2, EmptyFacts DEF Within
<1>14. IsSlice(G[n]) /\ n = Len(hv) /\ \A i \in 1 .. n : IsValue(hv[i]) /\ no[i] \in BOOLEAN
  BY <1>2, <1>4, <1>9, <1>11 DEF n
<1>15. IsPut(bs, G[n], Cat(Empty, G[0]), rb[n], rr[n]) /\ bs.full = <<>>
  BY <1>1, <1>4, <1>10, <1>12, <1>13, <1>14, PartEncoded
<1> DEFINE last == bs.last
<1>16. encodeParameters(hv, no, Empty) = Chained(bs.full, last)
  BY DEF encodeParameters
<1> HIDE DEF bs
<1>17. Within(last, rb[n], rr[n]) /\ ChainsTo(bs.full, Cat(last, G[n]), Cat(Empty, G[0]))
  BY <1>15 DEF IsPut
<1> HIDE DEF last
<1>18. Cat(last, G[n]) = last /\ Cat(Empty, G[0]) = G[0]
  <2>1. IsSlice(last)
    BY <1>17 DEF Within
  <2> QED BY <1>9, <1>10, <1>11, <2>1, CatEmpty
<1>19. IsList(bs.full) /\ ChainsTo(bs.full, last, G[0])
  BY <1>15, <1>17, <1>18, EmptyList
<1>20. Chained(bs.full, last) = G[0]
  BY <1>19, ChainIs
<1>21. last = G[0]
  <2>1. ChainsTo(<<>>, last, last) /\ IsList(<<>>)
    BY ChainOfNone, EmptyList
  <2>2. Chained(<<>>, last) = last
    BY <2>1, ChainIs
  <2> QED BY <1>15, <1>20, <2>2
<1> QED BY <1>5, <1>11, <1>16, <1>17, <1>20, <1>21 DEF n, no

HeaderCount == Len(contract.header)

(* c4: the header, and behind it in the same cell the values of all members. *)
IsStored(B, h, E, pb, pr) ==
    /\ Within(B, pb[0], pr[0])
    /\ encodeParameters(Header, NoLoad(HeaderCount), Empty) = B
    /\ encodeParameters(Header \o h, AllLoad, Empty) = Cat(B, E[0])
    /\ decodeParameters(contract.header, NoLoad(HeaderCount), Cat(B, E[0])) = [values |-> Header, rest |-> E[0]]

(* encodeParameters puts the values behind the header, and decodeParameters *)
(* reads the header alone.                                                  *)
LEMMA StoredFacts ==
    ASSUME Computed, NEW h, NEW E, NEW pb, NEW pr, NEW N, NEW U, IsLaid(h, E, pb, pr, N, U)
    PROVE  \E B : IsStored(B, h, E, pb, pr)
<1> DEFINE hd == contract.header
           hv == Header
           n == Len(hd)
           t == types
           l == load
           al == AllLoad
           all == contract.header \o types
           allv == Header \o h
           m == Len(all)
           off == getOffsetC4(contract)
<1>1. Laid(t, l, h, E, pb, pr, N) /\ pb[0] = off /\ pr[0] = 0
  BY DEF IsLaid
<1>2. t \in Seq(TypeSizes) /\ N \in Nat /\ N = Len(t) /\ IsList(h) /\ N = Len(h) /\ IsEncoding(E, h, l, N) /\ Positions(t, l, pb, pr, N)
  BY <1>1 DEF Laid
<1>3. \A i \in 1 .. N : Fitting(h[i], t[i]) /\ IsValue(h[i])
  BY <1>1 DEF Laid, Fitting, Stored
<1>4. hd \in Seq(TypeSizes) /\ off <= CellBits /\ \A k \in 1 .. n : IsType(hd[k]) /\ hd[k].refs = 0
  BY ContractsAssumption DEF Computed, IsContract
<1>5. off = sufBits(hd, 1)
  BY DEF getOffsetC4
<1>6. al = doLoadNextCell(all, 0, 0) /\ all = hd \o t /\ m = Len(all) /\ allv = hv \o h
  BY DEF AllLoad
<1>7. hv = [k \in 1 .. n |-> hv[k]] /\ \A k \in 1 .. n : hv[k] = Value(hd[k], -k, 0)
  BY DEF Header
<1>a. n = Len(hd)
  OBVIOUS
<1>c. n = HeaderCount
  BY DEF HeaderCount
<1>b. hv = Header /\ hd = contract.header
  OBVIOUS
<1> HIDE DEF hd, hv, t, l, al, all, allv, m, off, n
<1>8. n \in Nat /\ IsList(hd) /\ IsList(t)
  <2>3. hd \in Seq(TypeSizes)
    BY <1>4
  <2>1. n \in Nat
    BY <1>a, <2>3
  <2>2. IsList(hd) /\ IsList(t)
    BY <1>2, <1>4, Zenon DEF IsList
  <2> QED BY <2>1, <2>2
<1>9. IsList(hv) /\ Len(hv) = n
  BY <1>7, <1>8, FunctionList
<1>10. \A k \in 1 .. n : Fitting(hv[k], hd[k]) /\ IsValue(hv[k]) /\ Stored(hv[k], hd[k])
  BY <1>4, <1>7, ValueFits DEF Fitting, Stored
<1>11. IsHeader(hd)
  <2>1. \A i \in 1 .. n + 1 : sufBits(hd, i) \in Nat
    BY <1>4, <1>a, SufBits
  <2>2. 1 \in 1 .. n + 1
    BY <1>8
  <2> QED BY <1>4, <1>5, <1>a, <2>1, <2>2 DEF IsHeader
<1>12. TwoLists(all, hd, t) /\ all \in Seq(TypeSizes)
  <2>1. TwoLists(all, hd, t)
    BY <1>6, <1>8, TwoListsAre
  <2> QED BY <1>2, <1>4, <1>6, <2>1
<1>13. TwoLists(allv, hv, h)
  BY <1>2, <1>6, <1>9, TwoListsAre
<1>14. m = n + N /\ m = Len(allv)
  BY <1>2, <1>6, <1>9, <1>12, <1>13, <1>a DEF TwoLists
<1>15. PICK ab, ar : ab[0] = 0 /\ ar[0] = 0 /\ Positions(all, al, ab, ar, m)
  <2>1. 0 \in Nat
    OBVIOUS
  <2> QED BY <1>6, <1>12, <2>1, PositionFacts
<1>16. (\A i \in 1 .. n : al[i] = FALSE) /\ ab[n] = off /\ ar[n] = 0
  <2>1. Positions(all, al, ab, ar, Len(all))
    BY <1>6, <1>15
  <2>2. ab[0] = 0 /\ ar[0] = 0
    BY <1>15
  <2>3. /\ \A i \in 1 .. Len(hd) : al[i] = FALSE
        /\ ab[Len(hd)] = sufBits(hd, 1) /\ ar[Len(hd)] = 0
    <3>1. IsPlaced(hd, t, all, al, ab, ar)
      BY <1>11, <1>12, <2>1, <2>2 DEF IsPlaced
    <3>2. InFirstCell(hd, al, ab, ar)
      BY <3>1, HeaderPlaces
    <3> QED BY <3>2 DEF InFirstCell
  <2> QED BY <1>5, <1>a, <2>3
<1>17. \A i \in 1 .. N : al[n + i] = l[i]
  <2>1. Positions(all, al, ab, ar, Len(all)) /\ Positions(t, l, pb, pr, Len(t))
    BY <1>2, <1>6, <1>15
  <2>2. ab[Len(hd)] = pb[0] /\ ar[Len(hd)] = pr[0]
    BY <1>1, <1>16, <1>a
  <2>3. \A i \in 1 .. Len(t) : al[Len(hd) + i] = l[i]
    BY <1>12, <2>1, <2>2, SamePlaces
  <2> QED BY <1>2, <1>a, <2>3
<1>18. \A i \in 1 .. m : Fitting(allv[i], all[i])
  <2>1. ASSUME NEW i \in 1 .. m PROVE Fitting(allv[i], all[i])
    <3>1. CASE i <= n
      <4>1. i \in 1 .. n
        BY <1>8, <3>1
      <4>2. allv[i] = hv[i] /\ all[i] = hd[i]
        BY <1>9, <1>12, <1>13, <1>a, <4>1 DEF TwoLists
      <4> QED BY <1>10, <4>1, <4>2
    <3>2. CASE ~(i <= n)
      <4> DEFINE k == i - n
      <4>1. k \in 1 .. N /\ i = n + k
        BY <1>2, <1>8, <1>14, <3>2
      <4> HIDE DEF k
      <4>2. allv[i] = h[k] /\ all[i] = t[k]
        BY <1>2, <1>9, <1>12, <1>13, <1>a, <4>1 DEF TwoLists
      <4> QED BY <1>3, <4>1, <4>2
    <3> QED BY <3>1, <3>2
  <2> QED BY <2>1
<1>19. HasRoom(allv, al, m, ab, ar)
  <2>1. ab[0] <= CellBits /\ ar[0] <= 3
    BY <1>15 DEF CellBits
  <2> QED BY <1>6, <1>12, <1>15, <1>18, <2>1, RoomForValues
<1>20. PICK G : IsEncoding(G, hv, NoLoad(n), n)
  BY <1>8, EncodingExists
<1>21. HeaderBefore(G, E, hv, h, l, allv, al)
  BY <1>2, <1>3, <1>9, <1>10, <1>13, <1>16, <1>17, <1>20 DEF HeaderBefore
<1>22. encodeParameters(hv, NoLoad(n), Empty) = G[0] /\ Within(G[0], off, 0)
  <2>1. HasRoom(allv, al, Len(allv), ab, ar)
    BY <1>14, <1>19
  <2>2. encodeParameters(hv, NoLoad(Len(hv)), Empty) = G[0] /\ Within(G[0], ab[Len(hv)], ar[Len(hv)])
    BY <1>21, <2>1, FirstEncoded
  <2> QED BY <1>9, <1>16, <2>2
<1>23. PICK F : HeaderPut(F, G[0], hv, h, allv, al, E)
  BY <1>21, PutBefore
<1>24. /\ IsEncoding(F, allv, al, m) /\ F[0] = Cat(G[0], E[0]) /\ F[n] = E[0] /\ EncodingSteps(F, hv, NoLoad(n), n)
  BY <1>9, <1>14, <1>23 DEF HeaderPut
<1>25. encodeParameters(allv, al, Empty) = Cat(G[0], E[0])
  <2>1. m \in Nat /\ 0 \in 0 .. m
    BY <1>2, <1>8, <1>14
  <2>2. \A i \in 1 .. m : IsValue(allv[i]) /\ al[i] \in BOOLEAN
    <3>1. \A i \in 1 .. m : al[i] \in BOOLEAN
      BY <1>15, LoadsAreBoolean
    <3> QED BY <1>18, <3>1 DEF Fitting, Stored
  <2>3. Within(Empty, ab[0], ar[0])
    BY <1>15, EmptyFacts DEF Within
  <2>4. encodeParameters(allv, al, Empty) = Cat(Empty, F[0])
    BY <1>14, <1>19, <1>24, <2>1, <2>2, <2>3, Encoded
  <2>5. IsSlice(F[0])
    BY <1>24, <2>1, <2>2, EncodingSlices
  <2> QED BY <1>24, <2>4, <2>5, CatEmpty
<1>26. decodeParameters(hd, NoLoad(n), Cat(G[0], E[0])) = [values |-> hv, rest |-> E[0]]
  <2> DEFINE no == NoLoad(n)
             s == Cat(G[0], E[0])
  <2>1. \A i \in 1 .. n : no[i] \in BOOLEAN
    BY DEF NoLoad
  <2>2. s = F[0] /\ EncodingSteps(F, hv, no, n)
    BY <1>24
  <2> HIDE DEF no, s
  <2>3. IsSlice(F[n])
    <3>1. IsSlice(E[0])
      <4>1. 0 \in 0 .. N
        BY <1>2
      <4> QED BY <1>2, <1>3, <4>1, EncodingSlices
    <3> QED BY <1>24, <3>1
  <2>4. PartToRead(hd, no, hv, n, F, s)
    BY <1>8, <1>9, <1>10, <1>a, <2>1, <2>2, <2>3 DEF PartToRead
  <2>5. decodeParameters(hd, no, s) = [values |-> hv, rest |-> F[n]]
    BY <2>4, PartIsRead
  <2> QED BY <1>24, <2>5 DEF no, s
<1>27. Within(G[0], pb[0], pr[0])
  BY <1>1, <1>22
<1>28. IsStored(G[0], h, E, pb, pr)
  BY <1>22, <1>25, <1>26, <1>27, <1>b, <1>c DEF IsStored, allv, al
<1> QED BY <1>28

(***************************************************************************)
(* The usual variables, and the unpacked ones behind them.                 *)
(***************************************************************************)
(* The types of the usual variables are the first ones.                     *)
LEMMA UsualTypesFirst ==
    ASSUME Computed, NEW N, N = Len(types), NEW U, U = startIndexType - 1
    PROVE  UsualTypes = SubSeq(types, 1, U)
<1> DEFINE t == types
           u == UsualTypes
           p == SubSeq(t, 1, U)
<1>1. t \in Seq(Storables) /\ N \in Nat /\ U \in 0 .. N
  BY ComputedFacts
<1>2. u \in Seq(Storables) /\ Len(u) = U /\ \A k \in 1 .. U : u[k] = t[k]
  BY ComputedFacts
<1>3. N = Len(t)
  OBVIOUS
<1> HIDE DEF t, u
<1>4. IsList(t) /\ IsList(u)
  BY <1>1, <1>2 DEF IsList
<1>5. 0 \in 0 .. N /\ U \in 0 .. N /\ 0 + 1 = 1 /\ U - 0 = U
  BY <1>1
<1>6. IsList(p) /\ Len(p) = U /\ \A k \in 1 .. U : p[k] = t[k]
  <2>1. p = SubSeq(t, 1, U) /\ U \in 0 .. Len(t)
    BY <1>3, <1>5
  <2> HIDE DEF p
  <2> QED BY <1>4, <2>1, FirstPart
<1> HIDE DEF p
<1>7. \A k \in 1 .. Len(u) : u[k] = p[k]
  BY <1>2, <1>6
<1>8. u = p
  BY <1>2, <1>4, <1>6, <1>7, SameList
<1> QED BY <1>8 DEF t, u, p

IsBehindUsual(h, E, U, N) ==
    /\ decodeParameters(UsualTypes, UsualLoad, E[0]) = [values |-> UsualOf(h), rest |-> E[U]]
    /\ encodeParameters(UnpackedOf(h), UnpackedOf(load), Empty) = E[U]
    /\ decodeParameters(SubSeq(types, U + 1, N), SubSeq(load, U + 1, N), E[U]) = [values |-> UnpackedOf(h), rest |-> Empty]
    /\ IsSlice(E[U]) /\ (U = N => E[U] = Empty)

(* They are decoded, and leave a slice of the unpacked ones.                *)
LEMMA UsualRead ==
    ASSUME Computed, NEW h, NEW E, NEW pb, NEW pr, NEW N, NEW U, IsLaid(h, E, pb, pr, N, U)
    PROVE  IsBehindUsual(h, E, U, N)
<1>1. Laid(types, load, h, E, pb, pr, N) /\ N = Len(types) /\ U = startIndexType - 1
  BY DEF IsLaid
<1>2. N \in Nat /\ U \in 0 .. N /\ startIndexType = U + 1
  BY <1>1, ComputedFacts
<1>3. \A i \in 1 .. U : UsualLoad[i] = load[i]
  BY <1>1, ComputedFacts
<1>4. E[N] = Empty /\ \A i \in 0 .. N : IsSlice(E[i])
  BY <1>1, LaidFacts
<1>5. decodeParameters(UsualTypes, UsualLoad, E[0]) = [values |-> UsualOf(h), rest |-> E[U]]
  <2> DEFINE t == types
             l == load
             p == UsualTypes
             q == UsualLoad
             s == E[0]
             no == FALSE
  <2>1. 0 \in 0 .. N /\ U \in 0 .. N /\ 0 + 1 = 1 /\ \A k \in 1 .. U - 0 : k \in 1 .. U /\ 0 + k = k
    BY <1>2
  <2>2. Opened(q, l, 0, U, no)
    BY <1>3, <2>1 DEF Opened
  <2>3. s = StandsAt(h, E, 0, no)
    BY DEF StandsAt
  <2>4. p = SubSeq(t, 0 + 1, U)
    BY <1>1, <2>1, UsualTypesFirst
  <2>5. Laid(t, l, h, E, pb, pr, N)
    BY <1>1
  <2> HIDE DEF t, l, p, q, s, no
  <2>6. IsPart(t, l, h, E, N, 0, U, no, p, q, s)
    BY <2>1, <2>2, <2>3, <2>4 DEF IsPart
  <2>7. decodeParameters(p, q, s) = [values |-> SubSeq(h, 0 + 1, U), rest |-> E[U]]
    BY <2>5, <2>6, PartRead
  <2>8. UsualOf(h) = SubSeq(h, 1, U)
    BY <1>1 DEF UsualOf
  <2> QED BY <2>1, <2>7, <2>8 DEF p, q, s
<1>6. UnpackedOf(h) = SubSeq(h, U + 1, N) /\ UnpackedOf(load) = SubSeq(load, U + 1, N)
  BY <1>1, <1>2 DEF UnpackedOf
<1>7. /\ encodeParameters(SubSeq(h, U + 1, N), SubSeq(load, U + 1, N), Empty) = E[U]
      /\ decodeParameters(SubSeq(types, U + 1, N), SubSeq(load, U + 1, N), E[U]) = [values |-> SubSeq(h, U + 1, N), rest |-> Empty]
  <2> DEFINE t == types
             l == load
  <2>1. Laid(t, l, h, E, pb, pr, N)
    BY <1>1
  <2> HIDE DEF t, l
  <2>2. RestIs(t, l, h, E, N, U)
    BY <1>2, <2>1, RestEncoded
  <2> QED BY <2>2 DEF t, l, RestIs
<1>8. IsSlice(E[U]) /\ (U = N => E[U] = Empty)
  BY <1>2, <1>4
<1> QED BY <1>5, <1>6, <1>7, <1>8 DEF IsBehindUsual

(* They are encoded behind the header, and the slice behind them.           *)
LEMMA UsualPut ==
    ASSUME Computed, NEW h, NEW E, NEW pb, NEW pr, NEW N, NEW U, IsLaid(h, E, pb, pr, N, U), NEW B, Within(B, pb[0], pr[0])
    PROVE  /\ encodeWithUnpacked(UsualOf(h), UsualLoad, B, E[U]) = Cat(B, E[0])
           /\ U = N => encodeParameters(UsualOf(h), UsualLoad, B) = Cat(B, E[0])
<1> DEFINE t == types
           l == load
           v == UsualOf(h)
           q == UsualLoad
           rb == [i \in 0 .. U |-> pb[i]]
           rr == [i \in 0 .. U |-> pr[i]]
           bs == Builders(v, q, B)
<1>1. Laid(t, l, h, E, pb, pr, N) /\ N = Len(types) /\ U = startIndexType - 1
  BY DEF IsLaid
<1>2. N \in Nat /\ U \in 0 .. N /\ U \in Nat
  BY <1>1, ComputedFacts
<1>3. \A i \in 1 .. U : q[i] = l[i]
  BY <1>1, ComputedFacts
<1>4. v = SubSeq(h, 1, U)
  BY <1>1 DEF UsualOf
<1>5. \A i \in 0 .. U : rb[i] = pb[i] /\ rr[i] = pr[i] /\ i \in 0 .. N
  BY <1>2
<1> HIDE DEF t, l, v, q
<1>6. IsList(h) /\ Len(h) = N
  BY <1>1 DEF Laid
<1>7. IsList(v) /\ Len(v) = U /\ \A k \in 1 .. U : v[k] = h[k]
  <2>1. U \in 0 .. Len(h)
    BY <1>2, <1>6
  <2> QED BY <1>4, <1>6, <2>1, FirstPart
<1>8. /\ E[N] = Empty /\ HasRoom(h, l, N, pb, pr)
      /\ \A i \in 0 .. N : IsSlice(E[i]) /\ pb[i] \in Nat /\ pr[i] \in Nat
      /\ \A i \in 1 .. N : /\ IsValue(h[i]) /\ l[i] \in BOOLEAN /\ E[i - 1] = Before(h[i], l[i], E[i])
  BY <1>1, LaidFacts
<1>9. rb \in [0 .. U -> Nat] /\ rr \in [0 .. U -> Nat]
  BY <1>5, <1>8
<1> HIDE DEF rb, rr
<1>10. 0 \in 0 .. U /\ U \in 0 .. U /\ \A i \in 1 .. U : i \in 1 .. N /\ i \in 0 .. U /\ i - 1 \in 0 .. U
  BY <1>2
<1>11. HasRoom(v, q, U, rb, rr)
  <2>1. ASSUME NEW i \in 1 .. U
        PROVE  /\ v[i].size.bits + (IF q[i] THEN 0 ELSE rb[i - 1]) <= rb[i] /\ rb[i] <= CellBits
               /\ v[i].size.refs + (IF q[i] THEN 0 ELSE rr[i - 1]) <= rr[i] /\ rr[i] <= CellRefs
               /\ q[i] => rr[i - 1] <= 3
    <3>1. rb[i] = pb[i] /\ rr[i] = pr[i] /\ rb[i - 1] = pb[i - 1] /\ rr[i - 1] = pr[i - 1] /\ q[i] = l[i] /\ v[i] = h[i]
      BY <1>3, <1>5, <1>7, <1>10
    <3>2. /\ h[i].size.bits + (IF l[i] THEN 0 ELSE pb[i - 1]) <= pb[i] /\ pb[i] <= CellBits
          /\ h[i].size.refs + (IF l[i] THEN 0 ELSE pr[i - 1]) <= pr[i] /\ pr[i] <= CellRefs
          /\ l[i] => pr[i - 1] <= 3
      BY <1>8, <1>10 DEF HasRoom
    <3> QED BY <3>1, <3>2
  <2>2. rb[0] <= CellBits
    <3>1. pb[0] <= CellBits
      BY <1>8 DEF HasRoom
    <3> QED BY <1>5, <1>10, <3>1
  <2> QED BY <1>9, <2>1, <2>2 DEF HasRoom
<1>12. EncodingSteps(E, v, q, U)
  BY <1>3, <1>7, <1>8, <1>10 DEF EncodingSteps
<1>13. U = Len(v) /\ IsSlice(E[U]) /\ \A i \in 1 .. U : IsValue(v[i]) /\ q[i] \in BOOLEAN
  BY <1>2, <1>3, <1>7, <1>8, <1>10
<1>14. Within(B, rb[0], rr[0])
  BY <1>5, <1>10
<1>15. IsPut(bs, E[U], Cat(B, E[0]), rb[U], rr[U])
  BY <1>2, <1>11, <1>12, <1>13, <1>14, PartEncoded
<1> DEFINE last == bs.last
<1>16. /\ encodeParameters(v, q, B) = Chained(bs.full, last)
       /\ encodeWithUnpacked(v, q, B, E[U]) = Chained(bs.full, StoreSlice(last, E[U]))
  BY DEF encodeParameters, encodeWithUnpacked
<1> HIDE DEF bs
<1>17. IsList(bs.full) /\ Within(last, pb[U], pr[U]) /\ ChainsTo(bs.full, Cat(last, E[U]), Cat(B, E[0]))
  <2>1. rb[U] = pb[U] /\ rr[U] = pr[U]
    BY <1>5, <1>10
  <2> QED BY <1>15, <2>1 DEF IsPut
<1> HIDE DEF last
<1>18. Chained(bs.full, Cat(last, E[U])) = Cat(B, E[0])
  BY <1>17, ChainIs
<1>19. StoreSlice(last, E[U]) = Cat(last, E[U])
  <2> DEFINE e == E[U]
             x == pb[U]
             y == pr[U]
  <2>1. /\ x + Bits(e) <= CellBits /\ Bits(e) \in Nat
        /\ y + Len(e.refs) <= CellRefs /\ Len(e.refs) \in Nat
    BY <1>1, <1>2, RestHasRoom
  <2>2. x \in Nat /\ y \in Nat /\ IsSlice(e)
    BY <1>2, <1>8
  <2>3. IsSlice(last) /\ Bits(last) <= x /\ Len(last.refs) <= y
    BY <1>17 DEF Within
  <2> HIDE DEF e, x, y
  <2>4. Bits(last) \in Nat /\ Len(last.refs) \in Nat
    BY <2>3, LengthsFacts
  <2>5. Bits(last) + Bits(e) <= CellBits
    <3> DEFINE a == Bits(last)
               d == Bits(e)
               z == CellBits
    <3>1. a \in Nat /\ d \in Nat /\ z \in Nat /\ x \in Nat /\ a <= x /\ x + d <= z
      BY <2>1, <2>2, <2>3, <2>4 DEF CellBits
    <3> HIDE DEF a, d, z
    <3>2. a + d <= z
      BY <3>1
    <3> QED BY <3>2 DEF a, d, z
  <2>6. Len(last.refs) + Len(e.refs) <= CellRefs
    <3> DEFINE a == Len(last.refs)
               d == Len(e.refs)
               z == CellRefs
    <3>1. a \in Nat /\ d \in Nat /\ z \in Nat /\ y \in Nat /\ a <= y /\ y + d <= z
      BY <2>1, <2>2, <2>3, <2>4 DEF CellRefs
    <3> HIDE DEF a, d, z
    <3>2. a + d <= z
      BY <3>1
    <3> QED BY <3>2 DEF a, d, z
  <2>7. StoreSlice(last, e) = Cat(last, e)
    BY <2>2, <2>3, <2>5, <2>6, StoreSliceIs
  <2> QED BY <2>7 DEF e
<1>20. ASSUME U = N PROVE encodeParameters(v, q, B) = Cat(B, E[0])
  <2>1. E[U] = Empty /\ IsSlice(last)
    BY <1>8, <1>17, <1>20 DEF Within
  <2>2. Cat(last, E[U]) = last
    BY <2>1, CatEmpty
  <2> QED BY <1>16, <1>18, <2>2
<1>21. encodeWithUnpacked(v, q, B, E[U]) = Cat(B, E[0])
  BY <1>16, <1>18, <1>19
<1> QED BY <1>20, <1>21 DEF v, q

(***************************************************************************)
(* The members that are needed, and the walk over the slice.               *)
(***************************************************************************)
AreNeeded(needed, last, U, N) ==
    /\ U \in Nat /\ N \in Nat /\ needed \in SUBSET (U + 1 .. N)
    /\ last \in needed /\ last = lastIndexType(needed) /\ \A k \in needed : k <= last

(* There is a last one.                                                     *)
LEMMA LastNeeded ==
    ASSUME NEW needed, NEW U \in Nat, NEW N \in Nat, needed \in SUBSET (U + 1 .. N), needed # {}
    PROVE  AreNeeded(needed, lastIndexType(needed), U, N)
<1> DEFINE S == {N - k : k \in needed}
<1>1. S \in SUBSET Nat /\ S # {}
  <2>1. ASSUME NEW k \in needed PROVE N - k \in Nat
    <3>1. k \in U + 1 .. N
      OBVIOUS
    <3> QED BY <3>1
  <2>2. PICK k \in needed : TRUE
    OBVIOUS
  <2>3. N - k \in S
    OBVIOUS
  <2> QED BY <2>1, <2>3
<1>2. PICK x \in S : \A y \in S : x <= y
  <2> HIDE DEF S
  <2> QED BY <1>1, LeastExists
<1>3. PICK j \in needed : x = N - j
  OBVIOUS
<1>4. \A k \in needed : k <= j
  <2>1. ASSUME NEW k \in needed PROVE k <= j
    <3>1. N - k \in S /\ k \in Int /\ j \in Int
      OBVIOUS
    <3>2. N - j <= N - k
      BY <1>2, <1>3, <3>1
    <3> QED BY <3>1, <3>2
  <2> QED BY <2>1
<1>5. \E i \in needed : \A k \in needed : k <= i
  BY <1>4
<1>6. lastIndexType(needed) \in needed /\ \A k \in needed : k <= lastIndexType(needed)
  BY <1>5 DEF lastIndexType
<1> QED BY <1>6 DEF AreNeeded

(* The first of the numbers up to b that is in a set that b is in.          *)
LEMMA FirstIn ==
    ASSUME NEW a \in Nat, NEW b \in Nat, a <= b, NEW S, b \in S
    PROVE  \E j \in a .. b : j \in S /\ \A k \in a .. j - 1 : k \notin S
<1> DEFINE T == S \cap (a .. b)
<1>1. T \in SUBSET Nat /\ T # {}
  OBVIOUS
<1>2. PICK x \in T : \A y \in T : x <= y
  <2> HIDE DEF T
  <2> QED BY <1>1, LeastExists
<1>3. x \in a .. b /\ x \in S
  OBVIOUS
<1>4. ASSUME NEW k \in a .. x - 1 PROVE k \notin S
  <2>1. k \in a .. b /\ ~(x <= k)
    BY <1>3
  <2> QED BY <1>2, <2>1
<1> QED BY <1>3, <1>4

(* Where a run of members ends.                                             *)
IsEnd(needed, last, i, j) ==
    /\ j \in i + 1 .. last + 1 /\ (j = last + 1 \/ load[j] \/ (j \in needed) # (i \in needed))
    /\ \A k \in i + 1 .. j - 1 : ~load[k] /\ (k \in needed) = (i \in needed)

(* It is where `to' says.                                                   *)
LEMMA EndOfStretch ==
    ASSUME NEW needed, NEW last, last = lastIndexType(needed), last \in Nat, NEW i \in 1 .. last
    PROVE  IsEnd(needed, last, i, to(needed, i))
<1> DEFINE S == {j \in i + 1 .. last + 1 : j = last + 1 \/ load[j] \/ (j \in needed) # (i \in needed)}
<1>1. i + 1 \in Nat /\ last + 1 \in Nat /\ i + 1 <= last + 1 /\ last + 1 \in S
  OBVIOUS
<1>2. PICK j \in i + 1 .. last + 1 : j \in S /\ \A k \in i + 1 .. j - 1 : k \notin S
  <2> HIDE DEF S
  <2> QED BY <1>1, FirstIn
<1>3. \A k \in i + 1 .. j - 1 : ~load[k] /\ (k \in needed) = (i \in needed)
  <2>1. ASSUME NEW k \in i + 1 .. j - 1 PROVE ~load[k] /\ (k \in needed) = (i \in needed)
    <3>1. k \in i + 1 .. last + 1 /\ k \notin S
      BY <1>2
    <3> QED BY <3>1
  <2> QED BY <2>1
<1>4. \E x \in (i + 1) .. (last + 1) :
        /\ x = last + 1 \/ load[x] \/ (x \in needed) # (i \in needed)
        /\ \A k \in (i + 1) .. (x - 1) : ~load[k] /\ (k \in needed) = (i \in needed)
  BY <1>2, <1>3
<1> HIDE DEF S
<1> QED BY <1>4 DEF to, IsEnd

(* One value is skipped.                                                    *)
LEMMA SkipValue ==
    ASSUME NEW t, NEW v, NEW s, Fitting(v, t), Exact(v, t), IsSlice(s)
    PROVE  SkipType(t, Ahead(v, s)) = s
<1>1. IsValue(v) /\ Stored(v, t)
  BY DEF Fitting, Stored
<1>2. IsSlice(Ahead(v, s)) /\ Ahead(v, s) # Broken
  <2>1. IsSlice(Ahead(v, s))
    BY <1>1, FrontSlice
  <2> QED BY <2>1, NotBroken DEF Ahead
<1>3. ASSUME t.fixedSize PROVE SkipType(t, Ahead(v, s)) = s
  <2> DEFINE a == Ahead(v, Empty)
             m == Ahead(v, s)
  <2>1. m = Cat(a, s) /\ IsSlice(a)
    BY <1>1, CatFront, EmptyFacts, FrontSlice
  <2>2. Bits(a) = t.bits /\ Len(a.refs) = t.refs
    <3>1. v.size.bits = t.bits /\ v.size.refs = t.refs
      BY <1>3 DEF Exact
    <3>2. Bits(a) = v.size.bits + 0 /\ Len(a.refs) = v.size.refs + 0 /\ v.size.bits \in Nat /\ v.size.refs \in Nat
      BY <1>1, AheadSizes, EmptyFacts
    <3> HIDE DEF a
    <3> QED BY <3>1, <3>2
  <2> HIDE DEF a
  <2>3. Cut(m, t.bits, t.refs) = [front |-> a, back |-> s]
    <3>1. Cut(Cat(a, s), Bits(a), Len(a.refs)) = [front |-> a, back |-> s]
      BY <2>1, CutFront
    <3> QED BY <2>1, <2>2, <3>1
  <2>4. [front |-> a, back |-> s] # Broken
    <3>1. DOMAIN [front |-> a, back |-> s] = {"front", "back"} /\ DOMAIN Broken = {"broken"}
      BY DEF Broken
    <3> QED BY <3>1
  <2>5. m # Broken
    BY <1>2
  <2> HIDE DEF m
  <2> QED BY <1>3, <2>3, <2>4, <2>5 DEF SkipType, m
<1>4. ASSUME ~t.fixedSize PROVE SkipType(t, Ahead(v, s)) = s
  <2> DEFINE m == Ahead(v, s)
  <2>1. Load(t, m) = [value |-> v, rest |-> s]
    BY <1>1, LoadFront
  <2>2. [value |-> v, rest |-> s] # Broken
    <3>1. DOMAIN [value |-> v, rest |-> s] = {"value", "rest"} /\ DOMAIN Broken = {"broken"}
      BY DEF Broken
    <3> QED BY <3>1
  <2>3. m # Broken
    BY <1>2
  <2> HIDE DEF m
  <2> QED BY <1>4, <2>1, <2>2, <2>3 DEF SkipType, m
<1> QED BY <1>3, <1>4

(* Where the slice stands when member i comes next.                         *)
SliceAt(h, E, last, i) == IF i <= last THEN Ahead(h[i], E[i]) ELSE E[i - 1]

(* It is the next cell, or the rest of the same one.                        *)
LEMMA SliceThere ==
    ASSUME NEW t, NEW l, NEW h, NEW E, NEW pb, NEW pr, NEW n, Laid(t, l, h, E, pb, pr, n), NEW last \in 0 .. n, NEW j \in 1 .. last + 1
    PROVE  /\ IsSlice(SliceAt(h, E, last, j))
           /\ j <= last => E[j - 1] = IF l[j] THEN OneCell(SliceAt(h, E, last, j)) ELSE SliceAt(h, E, last, j)
           /\ ~(j <= last) => E[j - 1] = SliceAt(h, E, last, j)
<1>1. /\ n \in Nat /\ \A i \in 0 .. n : IsSlice(E[i])
      /\ \A i \in 1 .. n : IsValue(h[i]) /\ l[i] \in BOOLEAN /\ E[i - 1] = Before(h[i], l[i], E[i])
  BY LaidFacts
<1>2. CASE j <= last
  <2>1. j \in 1 .. n /\ j \in 0 .. n
    BY <1>1, <1>2
  <2>2. SliceAt(h, E, last, j) = Ahead(h[j], E[j])
    BY <1>2 DEF SliceAt
  <2>3. IsSlice(Ahead(h[j], E[j]))
    BY <1>1, <2>1, FrontSlice
  <2>4. E[j - 1] = IF l[j] THEN OneCell(Ahead(h[j], E[j])) ELSE Ahead(h[j], E[j])
    BY <1>1, <2>1 DEF Before
  <2> QED BY <1>2, <2>2, <2>3, <2>4
<1>3. CASE ~(j <= last)
  <2>1. j - 1 \in 0 .. n
    BY <1>1
  <2> QED BY <1>1, <1>3, <2>1 DEF SliceAt
<1> QED BY <1>2, <1>3

IsSkip(s, i, j, slice) ==
    s = [n \in 0 .. (j - i) |-> IF n = 0 THEN slice ELSE SkipType(types[i + n - 1], s[n - 1])]

(* A stretch of members is skipped.                                         *)
LEMMA SkipsTypes ==
    ASSUME NEW h, NEW E, NEW pb, NEW pr, NEW N, Laid(types, load, h, E, pb, pr, N),
           NEW i \in 1 .. N, NEW j \in i + 1 .. N + 1, OneStretch(load, i, j)
    PROVE  skipTypes(i, j, Ahead(h[i], E[i])) = E[j - 1]
<1> DEFINE t == types
           l == load
           slice == Ahead(h[i], E[i])
           m == j - i
           s == CHOOSE f : IsSkip(f, i, j, slice)
           F == [n \in 0 .. m |-> IF n = 0 THEN slice ELSE E[i + n - 1]]
<1>1. /\ N \in Nat /\ \A k \in 0 .. N : IsSlice(E[k])
      /\ \A k \in 1 .. N : E[k - 1] = Before(h[k], l[k], E[k])
  BY LaidFacts
<1>2. \A k \in 1 .. N : Fitting(h[k], t[k]) /\ Exact(h[k], t[k])
  BY DEF Laid
<1>3. skipTypes(i, j, slice) = s[m]
  BY DEF skipTypes, IsSkip
<1>4. \A k \in i + 1 .. j - 1 : l[k] = FALSE
  BY DEF OneStretch
<1>5. m \in Nat /\ m \in 1 .. m /\ i + m - 1 = j - 1 /\ \A n \in 1 .. m : i + n - 1 \in 1 .. N /\ i + n - 1 \in 0 .. N
  BY <1>1
<1>6. F = [n \in 0 .. m |-> F[n]] /\ F[0] = slice /\ \A n \in 1 .. m : F[n] = E[i + n - 1]
  BY <1>5
<1>a. \A f : IsSkip(f, i, j, slice) <=> f = [n \in 0 .. m |-> IF n = 0 THEN slice ELSE SkipType(t[i + n - 1], f[n - 1])]
  BY DEF IsSkip
<1>b. slice = Ahead(h[i], E[i])
  OBVIOUS
<1>c. \A n \in 1 .. m : i + n - 1 = i \/ i + n - 1 \in i + 1 .. j - 1
  BY <1>1
<1> HIDE DEF F, t, l, slice, m
<1>7. ASSUME NEW n \in 1 .. m PROVE SkipType(t[i + n - 1], F[n - 1]) = E[i + n - 1]
  <2> DEFINE k == i + n - 1
  <2>1. k \in 1 .. N /\ k \in 0 .. N
    BY <1>5
  <2>2. F[n - 1] = Ahead(h[k], E[k])
    <3>1. CASE n = 1
      <4>1. k = i /\ n - 1 = 0
        BY <3>1
      <4> QED BY <1>6, <1>b, <4>1
    <3>2. CASE n # 1
      <4>1. n - 1 \in 1 .. m /\ i + (n - 1) - 1 = k - 1 /\ k # i
        BY <1>5, <3>2
      <4>2. F[n - 1] = E[k - 1]
        BY <1>6, <4>1
      <4>3. l[k] = FALSE
        BY <1>4, <1>c, <4>1
      <4> QED BY <1>1, <2>1, <4>2, <4>3 DEF Before
    <3> QED BY <3>1, <3>2
  <2>3. SkipType(t[k], Ahead(h[k], E[k])) = E[k]
    BY <1>1, <1>2, <2>1, SkipValue
  <2> QED BY <2>2, <2>3
<1>8. IsSkip(F, i, j, slice)
  <2>1. \A n \in 0 .. m : F[n] = IF n = 0 THEN slice ELSE SkipType(t[i + n - 1], F[n - 1])
    <3>1. ASSUME NEW n \in 0 .. m PROVE F[n] = IF n = 0 THEN slice ELSE SkipType(t[i + n - 1], F[n - 1])
      <4>1. CASE n = 0
        BY <1>6, <4>1
      <4>2. CASE n # 0
        <5>1. n \in 1 .. m
          BY <1>5, <4>2
        <5>2. F[n] = E[i + n - 1] /\ SkipType(t[i + n - 1], F[n - 1]) = E[i + n - 1]
          BY <1>6, <1>7, <5>1
        <5> QED BY <4>2, <5>2
      <4> QED BY <4>1, <4>2
    <3> QED BY <3>1
  <2>2. F = [n \in 0 .. m |-> IF n = 0 THEN slice ELSE SkipType(t[i + n - 1], F[n - 1])]
    BY <1>6, <2>1
  <2> QED BY <1>a, <2>2
<1>9. IsSkip(s, i, j, slice)
  BY <1>8, Zenon
<1> HIDE DEF s
<1>10. s[0] = slice /\ \A n \in 1 .. m : s[n] = SkipType(t[i + n - 1], s[n - 1])
  <2>1. s = [n \in 0 .. m |-> IF n = 0 THEN slice ELSE SkipType(t[i + n - 1], s[n - 1])]
    BY <1>9, <1>a
  <2>2. \A n \in 0 .. m : s[n] = IF n = 0 THEN slice ELSE SkipType(t[i + n - 1], s[n - 1])
    BY <2>1
  <2>3. 0 \in 0 .. m /\ \A n \in 1 .. m : n \in 0 .. m /\ n # 0
    BY <1>5
  <2> QED BY <2>2, <2>3
<1> DEFINE T == {n \in 0 .. m : s[n] = F[n]}
<1>11. 0 \in T
  BY <1>5, <1>6, <1>10
<1>12. ASSUME NEW n \in 1 .. m, n - 1 \in T PROVE n \in T
  <2>1. s[n - 1] = F[n - 1] /\ n \in 0 .. m
    BY <1>5, <1>12
  <2>2. s[n] = SkipType(t[i + n - 1], F[n - 1])
    BY <1>10, <2>1
  <2> QED BY <1>6, <1>7, <2>1, <2>2
<1>13. \A n \in 0 .. m : n \in T
  <2> HIDE DEF T
  <2> QED BY <1>5, <1>11, <1>12, Upwards
<1>14. s[m] = F[m]
  BY <1>5, <1>13
<1>15. F[m] = E[j - 1]
  BY <1>5, <1>6
<1> QED BY <1>3, <1>14, <1>15, <1>b

IsWalk(h, E, pb, pr, N, U, needed, last) ==
    Computed /\ IsLaid(h, E, pb, pr, N, U) /\ AreNeeded(needed, last, U, N)

(* What is known on the way.                                                *)
LEMMA WalkFacts ==
    ASSUME NEW h, NEW E, NEW pb, NEW pr, NEW N, NEW U, NEW needed, NEW last, IsWalk(h, E, pb, pr, N, U, needed, last)
    PROVE  /\ N \in Nat /\ U \in 0 .. N /\ N = Len(types) /\ startIndexType = U + 1
           /\ last \in U + 1 .. N /\ last \in 1 .. N /\ last \in Nat /\ last = lastIndexType(needed) /\ last \in needed
           /\ \A k \in needed : k <= last /\ k \in U + 1 .. N
           /\ Laid(types, load, h, E, pb, pr, N)
           /\ \A i \in 1 .. N : load[i] \in BOOLEAN
           /\ \A i \in U + 1 .. last : i \in 1 .. last /\ i \in 1 .. N /\ i \in 1 .. last + 1
<1>1. Computed /\ Laid(types, load, h, E, pb, pr, N) /\ N = Len(types) /\ U = startIndexType - 1
  BY DEF IsWalk, IsLaid
<1>2. N \in Nat /\ U \in 0 .. N /\ startIndexType = U + 1 /\ \A i \in 1 .. N : load[i] \in BOOLEAN
  BY <1>1, ComputedFacts
<1>3. needed \in SUBSET (U + 1 .. N) /\ last \in needed /\ last = lastIndexType(needed) /\ \A k \in needed : k <= last
  BY DEF IsWalk, AreNeeded
<1>4. last \in U + 1 .. N
  BY <1>3
<1>5. last \in 1 .. N /\ last \in Nat
  BY <1>2, <1>4
<1>6. \A i \in U + 1 .. last : i \in 1 .. last /\ i \in 1 .. N /\ i \in 1 .. last + 1
  BY <1>2, <1>4
<1> QED BY <1>1, <1>2, <1>3, <1>4, <1>5, <1>6

(* A stretch of members that are all needed or all not.                     *)
IsStretch(needed, last, i, j) ==
    /\ j \in i + 1 .. last + 1 /\ OneStretch(load, i, j) /\ (j = last + 1 \/ load[j] \/ (j \in needed) # (i \in needed))
    /\ \A k \in i .. j - 1 : (k \in needed) = (i \in needed)

(* From a member, `to' leads to the end of such a stretch.                  *)
LEMMA StretchFacts ==
    ASSUME NEW h, NEW E, NEW pb, NEW pr, NEW N, NEW U, NEW needed, NEW last, IsWalk(h, E, pb, pr, N, U, needed, last),
           NEW i \in U + 1 .. last
    PROVE  IsStretch(needed, last, i, to(needed, i))
<1> DEFINE j == to(needed, i)
<1>1. /\ N \in Nat /\ U \in 0 .. N /\ last \in 1 .. N /\ last = lastIndexType(needed) /\ i \in 1 .. last
      /\ \A k \in 1 .. N : load[k] \in BOOLEAN
  BY WalkFacts
<1>2. IsEnd(needed, last, i, j)
  BY <1>1, EndOfStretch
<1> HIDE DEF j
<1>3. /\ j \in i + 1 .. last + 1 /\ (j = last + 1 \/ load[j] \/ (j \in needed) # (i \in needed))
      /\ \A k \in i + 1 .. j - 1 : ~load[k] /\ (k \in needed) = (i \in needed)
  BY <1>2 DEF IsEnd
<1>4. \A k \in i + 1 .. j - 1 : load[k] = FALSE
  <2>1. ASSUME NEW k \in i + 1 .. j - 1 PROVE load[k] = FALSE
    <3>1. k \in 1 .. N
      BY <1>1, <1>3
    <3>2. load[k] \in BOOLEAN /\ ~load[k]
      BY <1>1, <1>3, <3>1
    <3> QED BY <3>2
  <2> QED BY <2>1
<1>5. \A k \in i .. j - 1 : (k \in needed) = (i \in needed)
  <2>1. ASSUME NEW k \in i .. j - 1 PROVE (k \in needed) = (i \in needed)
    <3>1. k = i \/ k \in i + 1 .. j - 1
      BY <1>1, <1>3
    <3> QED BY <1>3, <3>1
  <2> QED BY <2>1
<1>6. OneStretch(load, i, j)
  BY <1>4 DEF OneStretch
<1> QED BY <1>3, <1>5, <1>6 DEF IsStretch, j

(* It is skipped, and the next cell is opened if the next stretch begins    *)
(* there.                                                                   *)
LEMMA SkipAndLoad ==
    ASSUME NEW h, NEW E, NEW pb, NEW pr, NEW N, NEW U, NEW needed, NEW last, IsWalk(h, E, pb, pr, N, U, needed, last),
           NEW i \in U + 1 .. last
    PROVE  skipTypesAndLoadCellIfNeeded(needed, i, SliceAt(h, E, last, i)) = SliceAt(h, E, last, to(needed, i))
<1> DEFINE j == to(needed, i)
           slice == Ahead(h[i], E[i])
           rest == E[j - 1]
           C == Contents(h, i, j)
           X == SliceAt(h, E, last, j)
           R == RefsIn(i, j)
<1>1. /\ N \in Nat /\ last \in 1 .. N /\ last \in 0 .. N /\ last = lastIndexType(needed) /\ Laid(types, load, h, E, pb, pr, N)
      /\ i \in 1 .. N /\ i \in 1 .. last
  BY WalkFacts
<1>2. j \in i + 1 .. last + 1 /\ OneStretch(load, i, j)
  BY StretchFacts DEF IsStretch
<1>3. SliceAt(h, E, last, i) = slice
  <2>1. i <= last
    OBVIOUS
  <2> QED BY <2>1 DEF SliceAt
<1>4. j \in i + 1 .. N + 1 /\ j \in 1 .. last + 1 /\ j \in i .. N + 1
  BY <1>1, <1>2
<1> HIDE DEF j
<1>5. skipTypes(i, j, slice) = rest
  BY <1>1, <1>2, <1>4, SkipsTypes
<1>6. /\ IsSlice(X)
      /\ j <= last => rest = IF load[j] THEN OneCell(X) ELSE X
      /\ ~(j <= last) => rest = X
  BY <1>1, <1>4, SliceThere
<1>7. slice = Cat(C, rest) /\ IsSlice(C) /\ IsSlice(slice)
  BY <1>1, <1>2, <1>4, CellContents
<1>8. (\A k \in i .. j - 1 : types[k].fixedRefs) => Len(C.refs) = R
  <2> DEFINE x == sufRefs(types, i)
             y == sufRefs(types, j)
             z == Len(C.refs)
  <2>1. /\ z \in Nat /\ x \in Nat /\ y \in Nat
        /\ (\A k \in i .. j - 1 : types[k].fixedRefs) => z + y = x
    BY <1>1, <1>4, ContentsSizes
  <2>2. R = x - y
    BY DEF RefsIn
  <2> HIDE DEF x, y, z, R
  <2>3. ASSUME \A k \in i .. j - 1 : types[k].fixedRefs PROVE z = R
    <3>1. z + y = x
      BY <2>1, <2>3
    <3> QED BY <2>1, <2>2, <3>1
  <2> QED BY <2>3 DEF z
<1>9. skipTypesAndLoadCellIfNeeded(needed, i, slice) =
         IF j <= last /\ load[j]
         THEN CASE fixedRefs(i, j) -> RefAt(slice, R)
                [] ~fixedRefs(i, j) /\ j = i + 1 -> RefAt(skipTypes(i, j, slice), 0)
                [] OTHER -> IF slice = Broken THEN Broken ELSE RefAt(slice, Len(slice.refs) - 1)
         ELSE skipTypes(i, j, slice)
  BY <1>1 DEF skipTypesAndLoadCellIfNeeded, j
<1>10. fixedRefs(i, j) => \A k \in i .. j - 1 : types[k].fixedRefs
  BY DEF fixedRefs
<1>a. slice # Broken
  <2>1. slice = [bits |-> slice.bits, refs |-> slice.refs]
    BY <1>7 DEF IsSlice
  <2> QED BY <2>1, NotBroken
<1>b. fixedRefs(i, j) \in BOOLEAN
  BY DEF fixedRefs
<1> HIDE DEF slice, rest, C, X, R
<1>11. CASE ~(j <= last /\ load[j])
  <2>1. rest = X
    BY <1>6, <1>11
  <2> QED BY <1>3, <1>5, <1>9, <1>11, <2>1 DEF X, j
<1>12. CASE j <= last /\ load[j]
  <2>1. rest = OneCell(X)
    BY <1>6, <1>12
  <2>2. /\ Len(slice.refs) = Len(C.refs) + 1 /\ Len(C.refs) \in Nat /\ RefAt(slice, Len(C.refs)) = X
    BY <1>6, <1>7, <2>1, CellBehind
  <2>3. CASE fixedRefs(i, j)
    <3>1. Len(C.refs) = R
      BY <1>8, <1>10, <2>3
    <3>2. skipTypesAndLoadCellIfNeeded(needed, i, slice) = RefAt(slice, R)
      BY <1>9, <1>12, <2>3
    <3> QED BY <1>3, <2>2, <3>1, <3>2 DEF X, j
  <2>4. CASE ~fixedRefs(i, j) /\ j = i + 1
    <3>1. skipTypesAndLoadCellIfNeeded(needed, i, slice) = RefAt(rest, 0)
      BY <1>5, <1>9, <1>12, <2>4
    <3>2. RefAt(Cat(Empty, OneCell(X)), Len(Empty.refs)) = X
      BY <1>6, CellBehind, EmptyFacts
    <3>3. Cat(Empty, OneCell(X)) = OneCell(X) /\ Len(Empty.refs) = 0
      BY CellFacts, CatEmpty, EmptyFacts
    <3> QED BY <1>3, <2>1, <3>1, <3>2, <3>3 DEF X, j
  <2>5. CASE ~fixedRefs(i, j) /\ j # i + 1
    <3>1. skipTypesAndLoadCellIfNeeded(needed, i, slice) = RefAt(slice, Len(slice.refs) - 1)
      BY <1>9, <1>12, <1>a, <2>5
    <3>2. Len(slice.refs) - 1 = Len(C.refs)
      BY <2>2
    <3> QED BY <1>3, <2>2, <3>1, <3>2 DEF X, j
  <2> QED BY <1>b, <2>3, <2>4, <2>5
<1> QED BY <1>11, <1>12

(***************************************************************************)
(* Loops over the members.                                                 *)
(***************************************************************************)
(* Steps that lead from good states to good states, and on, come to the end.*)
RunSteps(st, S, last) ==
    /\ st[0] \in S /\ \A s \in S : s.i \in Nat /\ s.i > 0
    /\ \A k \in 1 .. last : st[k - 1] \in S =>
          IF st[k - 1].i > last THEN st[k] = st[k - 1] ELSE st[k] \in S /\ st[k - 1].i < st[k].i

(* They end in a good state behind the last index.                          *)
LEMMA RunEnds ==
    ASSUME NEW last \in Nat, NEW S, NEW st, RunSteps(st, S, last)
    PROVE  st[last] \in S /\ st[last].i > last
<1> DEFINE T == {k \in 0 .. last : st[k] \in S /\ st[k].i > k}
<1>1. /\ st[0] \in S /\ \A s \in S : s.i \in Nat /\ s.i > 0
      /\ \A k \in 1 .. last : st[k - 1] \in S =>
            IF st[k - 1].i > last THEN st[k] = st[k - 1] ELSE st[k] \in S /\ st[k - 1].i < st[k].i
  BY DEF RunSteps
<1>2. 0 \in T
  BY <1>1
<1>3. ASSUME NEW k \in 1 .. last, k - 1 \in T PROVE k \in T
  <2>1. k \in 0 .. last /\ st[k - 1] \in S /\ st[k - 1].i > k - 1
    BY <1>3
  <2>2. CASE st[k - 1].i > last
    <3>1. st[k] = st[k - 1]
      BY <1>1, <2>1, <2>2
    <3>2. st[k].i > k
      <4> DEFINE x == st[k].i
      <4>1. x > last /\ x \in Nat
        BY <1>1, <2>1, <2>2, <3>1
      <4> HIDE DEF x
      <4>2. x > k
        BY <4>1
      <4> QED BY <4>2 DEF x
    <3> QED BY <2>1, <3>1, <3>2
  <2>3. CASE ~(st[k - 1].i > last)
    <3>1. st[k] \in S /\ st[k - 1].i < st[k].i
      BY <1>1, <2>1, <2>3
    <3>2. st[k].i > k
      <4> DEFINE x == st[k].i
                 y == st[k - 1].i
      <4>1. x \in Nat /\ y \in Nat /\ y < x /\ y > k - 1
        BY <1>1, <2>1, <3>1
      <4> HIDE DEF x, y
      <4>2. x > k
        BY <4>1
      <4> QED BY <4>2 DEF x
    <3> QED BY <2>1, <3>1, <3>2
  <2> QED BY <2>2, <2>3
<1>4. \A k \in 0 .. last : k \in T
  <2> HIDE DEF T
  <2> QED BY <1>2, <1>3, Upwards
<1> QED BY <1>4

(* There is a run of such steps.                                            *)
HasRun(last, S, first, D) ==
    \E f \in [0 .. last -> S] : f[0] = first /\ \A k \in 1 .. last : f[k] = IF f[k - 1].i > last THEN f[k - 1] ELSE D[f[k - 1]]

(* It is the function that Iterate chooses.                                 *)
LEMMA RunExists ==
    ASSUME NEW last \in Nat, NEW S, NEW first \in S, NEW D, D = [s \in S |-> D[s]], \A s \in S : s.i > last \/ D[s] \in S
    PROVE  HasRun(last, S, first, D)
<1> DEFINE d == [s \in S |-> IF s.i > last THEN s ELSE D[s]]
           G == [n \in 1 .. last |-> d]
<1>1. d \in [S -> S]
  OBVIOUS
<1>2. \A s \in S : d[s] = IF s.i > last THEN s ELSE D[s]
  OBVIOUS
<1>3. G \in [1 .. last -> [S -> S]] /\ \A n \in 1 .. last : G[n] = d
  BY <1>1
<1> HIDE DEF G, d
<1>4. HasSteps(last, S, first, G)
  BY <1>3, Recursion
<1>5. PICK f \in [0 .. last -> S] : f[0] = first /\ \A n \in 1 .. last : f[n] = G[n][f[n - 1]]
  BY <1>4 DEF HasSteps
<1>6. ASSUME NEW k \in 1 .. last PROVE f[k] = IF f[k - 1].i > last THEN f[k - 1] ELSE D[f[k - 1]]
  <2>1. f[k - 1] \in S
    <3>1. k - 1 \in 0 .. last
      OBVIOUS
    <3> QED BY <3>1
  <2> QED BY <1>2, <1>3, <1>5, <2>1
<1> QED BY <1>5, <1>6 DEF HasRun

(***************************************************************************)
(* Members in order.                                                       *)
(***************************************************************************)
IsOrder(o, members, n) == o[0] = <<>> /\ \A j \in 1 .. n : o[j] = IF j \in members THEN Append(o[j - 1], j) ELSE o[j - 1]
OrderSteps(o, members, n) == o = [j \in 0 .. n |-> IF j = 0 THEN <<>> ELSE IF j \in members THEN Append(o[j - 1], j) ELSE o[j - 1]]
Ordered(members, n, S) == \E o \in [0 .. n -> Seq(S)] : IsOrder(o, members, n) /\ InOrder(members) = o[n]

(* InOrder lists the members in their order.                                *)
LEMMA OrderExists ==
    ASSUME NEW n, n = Len(types), n \in Nat, NEW S, NEW members \in SUBSET S
    PROVE  Ordered(members, n, S)
<1> DEFINE D == [j \in 1 .. n |-> [s \in Seq(S) |-> IF j \in members THEN Append(s, j) ELSE s]]
           o == CHOOSE f : OrderSteps(f, members, n)
<1>1. D \in [1 .. n -> [Seq(S) -> Seq(S)]]
  OBVIOUS
<1>2. \A j \in 1 .. n : \A s \in Seq(S) : D[j][s] = IF j \in members THEN Append(s, j) ELSE s
  OBVIOUS
<1>3. InOrder(members) = o[n]
  BY DEF InOrder, OrderSteps
<1> HIDE DEF D
<1>4. <<>> \in Seq(S)
  OBVIOUS
<1>5. HasSteps(n, Seq(S), <<>>, D)
  BY <1>1, <1>4, Recursion
<1>6. PICK f \in [0 .. n -> Seq(S)] : f[0] = <<>> /\ \A j \in 1 .. n : f[j] = D[j][f[j - 1]]
  BY <1>5 DEF HasSteps
<1>7. \A j \in 0 .. n : f[j] = IF j = 0 THEN <<>> ELSE IF j \in members THEN Append(f[j - 1], j) ELSE f[j - 1]
  <2>1. ASSUME NEW j \in 1 .. n PROVE f[j] = IF j \in members THEN Append(f[j - 1], j) ELSE f[j - 1]
    <3>1. j - 1 \in 0 .. n
      OBVIOUS
    <3>2. f[j - 1] \in Seq(S)
      BY <3>1
    <3> QED BY <1>2, <1>6, <3>2
  <2>2. \A j \in 0 .. n : j = 0 \/ j \in 1 .. n
    OBVIOUS
  <2>3. \A j \in 1 .. n : j # 0
    OBVIOUS
  <2> QED BY <1>6, <2>1, <2>2, <2>3
<1>8. OrderSteps(f, members, n)
  <2>1. f = [j \in 0 .. n |-> f[j]]
    OBVIOUS
  <2> QED BY <1>7, <2>1 DEF OrderSteps
<1>9. OrderSteps(o, members, n)
  BY <1>8, Zenon
<1> HIDE DEF o
<1>10. IsOrder(o, members, n)
  <2>1. \A j \in 0 .. n : o[j] = IF j = 0 THEN <<>> ELSE IF j \in members THEN Append(o[j - 1], j) ELSE o[j - 1]
    BY <1>9 DEF OrderSteps
  <2>2. 0 \in 0 .. n /\ \A j \in 1 .. n : j \in 0 .. n /\ j # 0
    OBVIOUS
  <2> QED BY <2>1, <2>2 DEF IsOrder
<1> DEFINE T == {j \in 0 .. n : o[j] \in Seq(S)}
<1>11. 0 \in T
  <2>1. o[0] = <<>> /\ 0 \in 0 .. n
    BY <1>10 DEF IsOrder
  <2> QED BY <1>4, <2>1
<1>12. ASSUME NEW j \in 1 .. n, j - 1 \in T PROVE j \in T
  <2>1. o[j - 1] \in Seq(S) /\ j \in 0 .. n
    BY <1>12
  <2>2. o[j] = IF j \in members THEN Append(o[j - 1], j) ELSE o[j - 1]
    BY <1>10 DEF IsOrder
  <2> DEFINE x == o[j - 1]
             y == o[j]
  <2>3. x \in Seq(S) /\ j \in 0 .. n /\ y = IF j \in members THEN Append(x, j) ELSE x
    BY <2>1, <2>2
  <2> HIDE DEF x, y
  <2>4. CASE j \in members
    <3>1. j \in S
      BY <2>4
    <3>2. y \in Seq(S)
      BY <2>3, <2>4, <3>1
    <3> QED BY <2>1, <3>2 DEF y
  <2>5. CASE j \notin members
    <3>1. y \in Seq(S)
      BY <2>3, <2>5
    <3> QED BY <2>1, <3>1 DEF y
  <2> QED BY <2>4, <2>5
<1>13. \A j \in 0 .. n : j \in T
  <2> HIDE DEF T
  <2> QED BY <1>11, <1>12, Upwards
<1>14. o \in [0 .. n -> Seq(S)]
  <2>1. o = [j \in 0 .. n |-> o[j]]
    BY <1>9 DEF OrderSteps
  <2> QED BY <1>13, <2>1
<1> QED BY <1>3, <1>10, <1>14 DEF Ordered

(* The values of the members before the i-th that are in the set.           *)
OutOf(h, o, i) == [k \in 1 .. Len(o[i - 1]) |-> h[o[i - 1][k]]]

(* One more of them.                                                        *)
LEMMA OutMore ==
    ASSUME NEW h, NEW o, NEW j \in Int, NEW S, o[j - 1] \in Seq(S), o[j] = Append(o[j - 1], j)
    PROVE  IsList(OutOf(h, o, j)) /\ OutOf(h, o, j + 1) = Append(OutOf(h, o, j), h[j])
<1> DEFINE a == o[j - 1]
           b == o[j]
           A == OutOf(h, o, j)
           B == OutOf(h, o, j + 1)
<1>1. a \in Seq(S) /\ b = Append(a, j)
  OBVIOUS
<1>2. (j + 1) - 1 = j
  OBVIOUS
<1>3. A = [k \in 1 .. Len(a) |-> h[a[k]]] /\ B = [k \in 1 .. Len(b) |-> h[b[k]]]
  BY <1>2 DEF OutOf
<1> HIDE DEF a, b, A, B
<1>4. Len(a) \in Nat /\ Len(b) = Len(a) + 1 /\ b[Len(a) + 1] = j /\ \A k \in 1 .. Len(a) : b[k] = a[k]
  BY <1>1
<1>5. IsList(A) /\ Len(A) = Len(a) /\ \A k \in 1 .. Len(a) : A[k] = h[a[k]]
  <2>1. A = [k \in 1 .. Len(a) |-> A[k]] /\ \A k \in 1 .. Len(a) : A[k] = h[a[k]]
    BY <1>3
  <2> QED BY <1>4, <2>1, FunctionList
<1>6. IsList(B) /\ Len(B) = Len(a) + 1 /\ \A k \in 1 .. Len(a) + 1 : B[k] = h[b[k]]
  <2>1. B = [k \in 1 .. Len(b) |-> B[k]] /\ \A k \in 1 .. Len(b) : B[k] = h[b[k]]
    BY <1>3
  <2>2. Len(b) \in Nat
    BY <1>4
  <2> QED BY <1>4, <2>1, <2>2, FunctionList
<1> DEFINE n == Len(a)
           C == Append(A, h[j])
<1>7. IsList(C) /\ Len(C) = n + 1 /\ C[n + 1] = h[j] /\ \A k \in 1 .. n : C[k] = A[k]
  <2>1. PICK V : A \in Seq(V)
    BY <1>5 DEF IsList
  <2>2. A \in Seq(V \union {h[j]})
    BY <2>1
  <2>3. C \in Seq(V \union {h[j]})
    BY <2>2
  <2>4. IsList(C)
    <3> HIDE DEF C
    <3> QED BY <2>3 DEF IsList
  <2> QED BY <1>5, <2>1, <2>4
<1> HIDE DEF C, n
<1>8. \A k \in 1 .. Len(B) : B[k] = C[k]
  <2>1. ASSUME NEW k \in 1 .. n + 1 PROVE B[k] = C[k]
    <3>1. CASE k = n + 1
      BY <1>4, <1>6, <1>7, <3>1 DEF n
    <3>2. CASE k # n + 1
      <4>1. k \in 1 .. n
        BY <1>4, <3>2 DEF n
      <4> QED BY <1>4, <1>5, <1>6, <1>7, <4>1 DEF n
    <3> QED BY <3>1, <3>2
  <2> QED BY <1>6, <2>1 DEF n
<1>9. Len(B) = Len(C)
  BY <1>6, <1>7 DEF n
<1>10. B = C
  BY <1>6, <1>7, <1>8, <1>9, SameList
<1> QED BY <1>5, <1>10 DEF C, A, B

(* One more value of a list.                                                *)
LEMMA SubMore ==
    ASSUME NEW h, IsList(h), NEW a \in 1 .. Len(h), NEW c \in a .. Len(h)
    PROVE  SubSeq(h, a, c) = Append(SubSeq(h, a, c - 1), h[c]) /\ IsList(SubSeq(h, a, c - 1))
<1>1. PICK V : h \in Seq(V)
  BY DEF IsList
<1> DEFINE x == SubSeq(h, a, c)
           y == SubSeq(h, a, c - 1)
           m == c - a
<1>2. Len(h) \in Nat /\ m \in Nat /\ m + 1 = c + 1 - a /\ a + m = c
  BY <1>1
<1>3. x \in Seq(V) /\ Len(x) = m + 1 /\ \A k \in 1 .. m + 1 : x[k] = h[a + k - 1]
  BY <1>1, <1>2
<1>4. y \in Seq(V) /\ Len(y) = m /\ \A k \in 1 .. m : y[k] = h[a + k - 1]
  BY <1>1, <1>2
<1>5. h[c] \in V /\ a + (m + 1) - 1 = c
  BY <1>1, <1>2
<1> HIDE DEF x, y, m
<1> DEFINE z == Append(y, h[c])
<1>6. z \in Seq(V) /\ Len(z) = m + 1 /\ z[m + 1] = h[c] /\ \A k \in 1 .. m : z[k] = y[k]
  BY <1>4, <1>5
<1>7. IsList(x) /\ IsList(y) /\ IsList(z)
  <2> HIDE DEF z
  <2> QED BY <1>3, <1>4, <1>6 DEF IsList
<1> HIDE DEF z
<1>8. \A k \in 1 .. Len(x) : x[k] = z[k]
  <2>1. ASSUME NEW k \in 1 .. m + 1 PROVE x[k] = z[k]
    <3>1. CASE k = m + 1
      BY <1>3, <1>5, <1>6, <3>1
    <3>2. CASE k # m + 1
      <4>1. k \in 1 .. m
        BY <1>2, <3>2
      <4> QED BY <1>3, <1>4, <1>6, <4>1
    <3> QED BY <3>1, <3>2
  <2> QED BY <1>3, <2>1
<1>9. x = z
  BY <1>3, <1>6, <1>7, <1>8, SameList
<1> QED BY <1>7, <1>9 DEF x, y, z

(* Append to the second of two lists.                                       *)
LEMMA CatAppend ==
    ASSUME NEW s, NEW t, NEW x, IsList(s), IsList(t)
    PROVE  s \o Append(t, x) = Append(s \o t, x)
<1>1. IsList(<<x>>)
  BY OneList
<1>2. Append(t, x) = t \o <<x>>
  BY AppendList
<1>3. IsList(s \o t)
  BY CatList
<1>4. Append(s \o t, x) = (s \o t) \o <<x>>
  BY <1>3, AppendList
<1>5. (s \o t) \o <<x>> = s \o (t \o <<x>>)
  BY <1>1, CatThree
<1> QED BY <1>2, <1>4, <1>5

(* Members that are not in the set add nothing ...                          *)
LEMMA OrderNothing ==
    ASSUME NEW o, NEW members, NEW n \in Nat, IsOrder(o, members, n), NEW a \in 1 .. n + 1, NEW b \in a .. n + 1,
           \A k \in a .. b - 1 : k \notin members
    PROVE  o[b - 1] = o[a - 1]
<1> DEFINE T == {c \in a .. b : o[c - 1] = o[a - 1]}
<1>1. a \in T
  OBVIOUS
<1>2. ASSUME NEW c \in a .. b - 1, c \in T PROVE c + 1 \in T
  <2>1. c + 1 \in a .. b /\ (c + 1) - 1 = c /\ c \in 1 .. n /\ c \notin members /\ o[c - 1] = o[a - 1]
    BY <1>2
  <2>2. o[c] = o[c - 1]
    BY <2>1 DEF IsOrder
  <2> QED BY <2>1, <2>2
<1>3. \A c \in a .. b : c \in T
  <2>1. a <= b /\ a \in Int /\ b \in Int
    OBVIOUS
  <2> HIDE DEF T
  <2> QED BY <1>1, <1>2, <2>1, UpFrom
<1>4. b \in T
  <2>1. b \in a .. b
    OBVIOUS
  <2> HIDE DEF T
  <2> QED BY <1>3, <2>1
<1> QED BY <1>4

(* ... and those that are add their values.                                 *)
LEMMA OrderAll ==
    ASSUME NEW h, IsList(h), NEW n \in Nat, n = Len(h), NEW S, NEW o \in [0 .. n -> Seq(S)], NEW members, IsOrder(o, members, n),
           NEW a \in 1 .. n + 1, NEW b \in a .. n + 1, \A k \in a .. b - 1 : k \in members
    PROVE  OutOf(h, o, b) = OutOf(h, o, a) \o SubSeq(h, a, b - 1)
<1> DEFINE A == OutOf(h, o, a)
           T == {c \in a .. b : OutOf(h, o, c) = A \o SubSeq(h, a, c - 1)}
<1>a. IsList(A)
  <2> DEFINE x == o[a - 1]
  <2>1. x \in Seq(S)
    <3>1. a - 1 \in 0 .. n
      OBVIOUS
    <3> QED BY <3>1
  <2>2. A = [k \in 1 .. Len(x) |-> A[k]]
    BY DEF OutOf
  <2> HIDE DEF x, A
  <2>3. Len(x) \in Nat
    BY <2>1
  <2> QED BY <2>2, <2>3, FunctionList
<1>1. a \in T
  <2>1. SubSeq(h, a, a - 1) = <<>>
    <3>1. PICK V : h \in Seq(V)
      BY DEF IsList
    <3> DEFINE e == SubSeq(h, a, a - 1)
    <3>2. e \in Seq(V) /\ Len(e) = 0
      BY <3>1
    <3> HIDE DEF e
    <3>3. e = <<>>
      BY <3>2, EmptySeq
    <3> QED BY <3>3 DEF e
  <2>2. A \o <<>> = A
    BY <1>a, CatNothing
  <2>3. a \in a .. b
    OBVIOUS
  <2> QED BY <2>1, <2>2, <2>3
<1>2. ASSUME NEW c \in a .. b - 1, c \in T PROVE c + 1 \in T
  <2> DEFINE B == SubSeq(h, a, c - 1)
             X == OutOf(h, o, c)
  <2>1. c + 1 \in a .. b /\ (c + 1) - 1 = c /\ c \in 1 .. n /\ c \in members /\ c - 1 \in 0 .. n /\ a \in 1 .. n /\ c \in a .. n
    OBVIOUS
  <2>2. X = A \o B
    BY <1>2
  <2>3. o[c - 1] \in Seq(S) /\ o[c] = Append(o[c - 1], c)
    BY <2>1 DEF IsOrder
  <2>4. OutOf(h, o, c + 1) = Append(X, h[c])
    <3>1. c \in Int
      OBVIOUS
    <3> QED BY <2>3, <3>1, OutMore
  <2>5. SubSeq(h, a, c) = Append(B, h[c]) /\ IsList(B)
    BY <2>1, SubMore
  <2> HIDE DEF A, B, X
  <2>6. A \o Append(B, h[c]) = Append(A \o B, h[c])
    BY SMTT(30), <1>a, <2>5, CatAppend
  <2>7. OutOf(h, o, c + 1) = A \o SubSeq(h, a, (c + 1) - 1)
    BY <2>1, <2>2, <2>4, <2>5, <2>6
  <2> QED BY <2>1, <2>7
<1>3. \A c \in a .. b : c \in T
  <2>1. a <= b /\ a \in Int /\ b \in Int
    OBVIOUS
  <2> HIDE DEF T
  <2> QED BY <1>1, <1>2, <2>1, UpFrom
<1>4. b \in T
  <2>1. b \in a .. b
    OBVIOUS
  <2> HIDE DEF T
  <2> QED BY <1>3, <2>1
<1> QED BY <1>4

(***************************************************************************)
(* The members of the unpacked variables asked for.                        *)
(***************************************************************************)
(* The variable of a member.                                                *)
LEMMA VarOfIs ==
    ASSUME Computed, NEW w, w = Len(AllVars), NEW v \in 1 .. w, NEW i \in FirstOf(v) .. FirstOf(v + 1) - 1
    PROVE  VarOf(i) = v
<1> DEFINE f == code.first
<1>1. w \in Nat /\ \A u \in 1 .. w : f[u] \in Nat /\ f[u + 1] \in Nat /\ f[u] < f[u + 1]
  BY FirstFacts DEF FirstOf
<1>2. i \in f[v] .. f[v + 1] - 1
  BY DEF FirstOf
<1>3. VarOf(i) = CHOOSE u \in 1 .. w : i \in f[u] .. f[u + 1] - 1
  BY DEF VarOf, FirstOf
<1> HIDE DEF f
<1> DEFINE u == VarOf(i)
<1>4. u \in 1 .. w /\ i \in f[u] .. f[u + 1] - 1
  BY <1>2, <1>3
<1> HIDE DEF u
<1>5. \A x \in v + 1 .. w + 1 : f[x] \in Nat /\ f[v + 1] <= f[x]
  BY <1>1, FirstsGrow
<1>6. \A x \in u + 1 .. w + 1 : f[x] \in Nat /\ f[u + 1] <= f[x]
  BY <1>1, <1>4, FirstsGrow
<1>7. ~(v < u)
  <2>1. SUFFICES ASSUME v < u PROVE FALSE
    OBVIOUS
  <2>2. u \in v + 1 .. w + 1
    BY <1>1, <1>4, <2>1
  <2>3. f[v + 1] <= f[u] /\ f[v + 1] \in Nat /\ f[u] \in Nat
    BY <1>1, <1>4, <1>5, <2>2
  <2> QED BY <1>2, <1>4, <2>3
<1>8. ~(u < v)
  <2>1. SUFFICES ASSUME u < v PROVE FALSE
    OBVIOUS
  <2>2. v \in u + 1 .. w + 1
    BY <1>1, <1>4, <2>1
  <2>3. f[u + 1] <= f[v] /\ f[u + 1] \in Nat /\ f[v] \in Nat
    BY <1>1, <1>4, <1>6, <2>2
  <2> QED BY <1>2, <1>4, <2>3
<1>9. u = v
  BY <1>1, <1>4, <1>7, <1>8
<1> QED BY <1>9 DEF u

WholeVars(needed) ==
    \A i \in needed : LET e == FirstOf(VarOf(i) + 1)
                      IN  e \in Nat /\ i < e /\ \A k \in i .. e - 1 : k \in needed

(* Asked for is all of each variable, and something.                        *)
LEMMA MembersFacts ==
    ASSUME Computed, NEW N, N = Len(types), NEW U, U = startIndexType - 1, NEW vs \in (SUBSET UnpackedVars) \ {{}},
           NEW needed, needed = MembersOf(vs)
    PROVE  WholeVars(needed) /\ AreNeeded(needed, lastIndexType(needed), U, N)
<1> DEFINE f == code.first
           w == Len(AllVars)
           m == Len(contract.usual)
<1>1. /\ m \in 0 .. w /\ w \in Nat /\ f[m + 1] = U + 1 /\ f[w + 1] = N + 1
      /\ \A u \in 1 .. w : f[u] \in Nat /\ f[u + 1] \in Nat /\ f[u] < f[u + 1]
  BY FirstFacts DEF FirstOf
<1>2. N \in Nat /\ U \in 0 .. N
  BY ComputedFacts
<1>3. vs # {} /\ \A v \in vs : v \in m + 1 .. w
  BY DEF UnpackedVars
<1>4. needed = UNION {f[v] .. f[v + 1] - 1 : v \in vs}
  BY DEF MembersOf, FirstOf
<1>5. \A v : FirstOf(v) = f[v]
  BY DEF FirstOf
<1>6. ASSUME NEW v \in vs, NEW i \in f[v] .. f[v + 1] - 1 PROVE VarOf(i) = v
  <2>1. v \in 1 .. w
    BY <1>1, <1>3
  <2>2. i \in FirstOf(v) .. FirstOf(v + 1) - 1 /\ w = Len(AllVars)
    BY <1>5
  <2> HIDE DEF w
  <2> QED BY <2>1, <2>2, VarOfIs
<1> HIDE DEF f, w, m
<1>7. ASSUME NEW i \in needed PROVE \E v \in vs : i \in f[v] .. f[v + 1] - 1
  BY <1>4
<1>8. WholeVars(needed)
  <2>1. ASSUME NEW i \in needed
        PROVE  LET e == FirstOf(VarOf(i) + 1) IN e \in Nat /\ i < e /\ \A k \in i .. e - 1 : k \in needed
    <3>1. PICK v \in vs : i \in f[v] .. f[v + 1] - 1
      BY <1>7
    <3> DEFINE e == FirstOf(VarOf(i) + 1)
    <3>2. e = f[v + 1]
      BY <1>5, <1>6, <3>1
    <3>3. v \in 1 .. w /\ f[v] \in Nat /\ f[v + 1] \in Nat
      BY SMTT(30), <1>1, <1>3
    <3> HIDE DEF e
    <3>4. e \in Nat /\ i < e
      BY <3>1, <3>2, <3>3
    <3>5. ASSUME NEW k \in i .. e - 1 PROVE k \in needed
      <4>1. k \in f[v] .. f[v + 1] - 1
        BY <3>1, <3>2, <3>3
      <4> QED BY <1>4, <4>1
    <3> QED BY <3>4, <3>5 DEF e
  <2> QED BY <2>1 DEF WholeVars
<1>9. needed \in SUBSET (U + 1 .. N)
  <2>1. ASSUME NEW i \in needed PROVE i \in U + 1 .. N
    <3>1. PICK v \in vs : i \in f[v] .. f[v + 1] - 1
      BY <1>7
    <3>2. v \in m + 1 .. w /\ v \in 1 .. w /\ f[v] \in Nat /\ f[v + 1] \in Nat /\ v + 1 \in 1 .. w + 1
      <4>1. v \in m + 1 .. w
        BY <1>3
      <4>2. v \in 1 .. w
        BY <1>1, <4>1
      <4>3. v + 1 \in 1 .. w + 1
        BY <1>1, <4>2
      <4> QED BY <1>1, <4>1, <4>2, <4>3
    <3>3. U + 1 <= f[v]
      <4>1. CASE v = m + 1
        BY <1>1, <1>2, <4>1
      <4>2. CASE v # m + 1
        <5>1. m + 1 \in 1 .. w /\ v \in (m + 1) + 1 .. w + 1
          BY <1>1, <3>2, <4>2
        <5>2. f[(m + 1) + 1] <= f[v] /\ f[(m + 1) + 1] \in Nat
          <6> DEFINE u == m + 1
          <6>1. u \in 1 .. w /\ v \in u + 1 .. w + 1
            BY <5>1
          <6> HIDE DEF u
          <6>2. (\A x \in u + 1 .. w + 1 : f[x] \in Nat /\ f[u + 1] <= f[x]) /\ \A x \in 1 .. w + 1 : f[x] \in Nat
            BY <1>1, <6>1, FirstsGrow
          <6>3. f[u + 1] \in Nat
            BY <1>1, <6>1
          <6> QED BY <6>1, <6>2, <6>3 DEF u
        <5>3. f[m + 1] < f[(m + 1) + 1] /\ f[m + 1] \in Nat
          BY <1>1, <5>1
        <5> QED BY <1>1, <3>2, <5>2, <5>3
      <4> QED BY <4>1, <4>2
    <3>4. f[v + 1] <= N + 1
      <4>1. w + 1 \in v + 1 .. w + 1
        BY <1>1, <3>2
      <4>2. f[v + 1] <= f[w + 1]
        BY <1>1, <3>2, <4>1, FirstsGrow
      <4> QED BY <1>1, <4>2
    <3> QED BY <1>2, <3>1, <3>2, <3>3, <3>4
  <2> QED BY <2>1
<1>10. needed # {}
  <2>1. PICK v \in vs : TRUE
    BY <1>3
  <2>2. v \in 1 .. w
    BY <1>1, <1>3
  <2>3. f[v] \in Nat /\ f[v + 1] \in Nat /\ f[v] < f[v + 1]
    BY <1>1, <2>2
  <2>4. f[v] \in f[v] .. f[v + 1] - 1
    BY <2>3
  <2> QED BY <1>4, <2>4
<1>11. AreNeeded(needed, lastIndexType(needed), U, N)
  <2>1. U \in Nat
    BY <1>2
  <2> QED BY <1>2, <1>9, <1>10, <2>1, LastNeeded
<1> QED BY <1>8, <1>11

(***************************************************************************)
(* unpackedData.                                                           *)
(***************************************************************************)
IsAsked(o, needed, U, N) == WholeVars(needed) /\ o \in [0 .. N -> Seq(U + 1 .. N)] /\ IsOrder(o, needed, N)
UnpackState(h, E, o, last, j) == [i |-> j, out |-> OutOf(h, o, j), slice |-> SliceAt(h, E, last, j)]

(* The walk begins at the first unpacked member.                            *)
LEMMA WalkBegins ==
    ASSUME NEW h, NEW E, NEW pb, NEW pr, NEW N, NEW U, NEW needed, NEW last, IsWalk(h, E, pb, pr, N, U, needed, last),
           c7.slice = E[U]
    PROVE  FirstSlice = SliceAt(h, E, last, U + 1)
<1> DEFINE j == U + 1
           X == SliceAt(h, E, last, j)
<1>1. /\ N \in Nat /\ U \in 0 .. N /\ startIndexType = j /\ last \in j .. N /\ Laid(types, load, h, E, pb, pr, N)
  BY WalkFacts
<1>2. j \in 1 .. last + 1 /\ last \in 0 .. N /\ j <= last /\ j - 1 = U
  BY <1>1
<1> HIDE DEF j
<1>3. IsSlice(X) /\ E[j - 1] = IF load[j] THEN OneCell(X) ELSE X
  BY <1>1, <1>2, SliceThere
<1>4. E[U] = IF load[j] THEN OneCell(X) ELSE X
  BY <1>2, <1>3
<1>5. FirstSlice = IF load[j] THEN NextCell(c7.slice) ELSE c7.slice
  BY <1>1 DEF FirstSlice
<1>6. NextCell(OneCell(X)) = X
  BY <1>3, NextOfOne
<1> HIDE DEF X
<1>7. FirstSlice = X
  BY <1>4, <1>5, <1>6
<1> QED BY <1>7 DEF X, j

(* What follows a member that was read.                                     *)
LEMMA ReadOn ==
    ASSUME NEW h, NEW E, NEW pb, NEW pr, NEW N, NEW U, NEW needed, NEW last, IsWalk(h, E, pb, pr, N, U, needed, last),
           NEW j \in U + 2 .. last + 1
    PROVE  (IF j <= last /\ load[j] THEN NextCell(E[j - 1]) ELSE E[j - 1]) = SliceAt(h, E, last, j)
<1> DEFINE X == SliceAt(h, E, last, j)
<1>1. /\ N \in Nat /\ U \in 0 .. N /\ last \in U + 1 .. N /\ Laid(types, load, h, E, pb, pr, N)
  BY WalkFacts
<1>2. j \in 1 .. last + 1 /\ last \in 0 .. N
  BY <1>1
<1>3. IsSlice(X) /\ (j <= last => E[j - 1] = IF load[j] THEN OneCell(X) ELSE X) /\ (~(j <= last) => E[j - 1] = X)
  BY <1>1, <1>2, SliceThere
<1>4. NextCell(OneCell(X)) = X
  BY <1>3, NextOfOne
<1> HIDE DEF X
<1> QED BY <1>3, <1>4 DEF X

(* A variable that is asked for is read whole.                              *)
LEMMA EndOfVarIs ==
    ASSUME NEW h, NEW E, NEW pb, NEW pr, NEW N, NEW U, NEW needed, NEW last, IsWalk(h, E, pb, pr, N, U, needed, last),
           WholeVars(needed), NEW i \in needed
    PROVE  EndOfVar(i, last) \in i + 1 .. last + 1 /\ \A k \in i .. EndOfVar(i, last) - 1 : k \in needed
<1> DEFINE e == FirstOf(VarOf(i) + 1)
<1>1. N \in Nat /\ U \in 0 .. N /\ last \in U + 1 .. N /\ \A k \in needed : k <= last /\ k \in U + 1 .. N
  BY WalkFacts
<1>2. e \in Nat /\ i < e /\ \A k \in i .. e - 1 : k \in needed
  BY DEF WholeVars
<1>3. EndOfVar(i, last) = IF e <= last THEN e ELSE last + 1
  BY DEF EndOfVar
<1> HIDE DEF e
<1>4. i \in Nat /\ last \in Nat /\ i <= last
  BY <1>1
<1>5. e - 1 \in i .. e - 1
  BY <1>2, <1>4
<1>6. e - 1 <= last
  BY <1>1, <1>2, <1>5
<1>7. EndOfVar(i, last) = e
  BY <1>2, <1>3, <1>4, <1>6
<1>8. e \in i + 1 .. last + 1
  BY <1>2, <1>4, <1>6
<1> QED BY <1>2, <1>7, <1>8

(* A step of the walk: members asked for are loaded, others are skipped.    *)
LEMMA UnpackNext ==
    ASSUME NEW h, NEW E, NEW pb, NEW pr, NEW N, NEW U, NEW needed, NEW last, IsWalk(h, E, pb, pr, N, U, needed, last),
           NEW o, IsAsked(o, needed, U, N), NEW i \in U + 1 .. last
    PROVE  \E j \in i + 1 .. last + 1 : UnpackStep(needed, UnpackState(h, E, o, last, i)) = UnpackState(h, E, o, last, j)
<1>1. /\ N \in Nat /\ U \in 0 .. N /\ last \in U + 1 .. N /\ last = lastIndexType(needed) /\ Laid(types, load, h, E, pb, pr, N)
      /\ N = Len(types)
  BY WalkFacts
<1>2. i \in 1 .. N /\ i \in Nat /\ i <= last
  BY <1>1
<1>3. WholeVars(needed) /\ o \in [0 .. N -> Seq(U + 1 .. N)] /\ IsOrder(o, needed, N)
  BY DEF IsAsked
<1>4. IsList(h) /\ Len(h) = N
  BY <1>1 DEF Laid
<1> DEFINE st == UnpackState(h, E, o, last, i)
<1>5. st.i = i /\ st.out = OutOf(h, o, i) /\ st.slice = SliceAt(h, E, last, i) /\ st = [i |-> i, out |-> st.out, slice |-> st.slice]
  BY DEF UnpackState
<1> HIDE DEF st
<1>6. CASE i \in needed
  <2> DEFINE j == EndOfVar(i, last)
             p == SubSeq(types, i, j - 1)
             q == [k \in 1 .. (j - i) |-> k > 1 /\ load[i + k - 1]]
             d == decodeParameters(p, q, st.slice)
             rest == IF j <= last /\ load[j] THEN NextCell(d.rest) ELSE d.rest
  <2>1. j \in i + 1 .. last + 1 /\ \A k \in i .. j - 1 : k \in needed
    BY <1>3, <1>6, EndOfVarIs
  <2>2. UnpackStep(needed, st) = [i |-> j, out |-> st.out \o d.values, slice |-> rest]
    BY <1>1, <1>5, <1>6 DEF UnpackStep
  <2> HIDE DEF j
  <2>3. j \in Nat /\ j - 1 \in i .. N /\ j \in i .. N + 1 /\ j \in U + 2 .. last + 1 /\ i \in 1 .. N + 1
    BY <1>1, <1>2, <2>1
  <2> DEFINE u == i - 1
             v == j - 1
  <2>4. u \in 0 .. N /\ v \in u .. N /\ u < v /\ u + 1 = i /\ v - u = j - i
    <3>1. i \in Nat /\ j \in Nat /\ i < j /\ i > 0 /\ j <= N + 1
      BY <1>1, <1>2, <2>1
    <3>2. N \in Nat
      BY <1>1
    <3> QED BY <3>1, <3>2
  <2> DEFINE open == TRUE
  <2>5. Opened(q, load, u, v, open)
    <3>1. ASSUME NEW k \in 1 .. v - u PROVE q[k] = IF k = 1 /\ TRUE THEN FALSE ELSE load[u + k]
      <4>1. k \in 1 .. j - i /\ i + k - 1 = u + k /\ u + k \in 1 .. N
        <5>1. i \in Nat /\ j \in Nat /\ i < j /\ i > 0 /\ j <= N + 1
          BY <1>1, <1>2, <2>1
        <5>2. N \in Nat /\ k \in Nat /\ k > 0 /\ k <= j - i
          BY <1>1, <2>4, <5>1
        <5> QED BY <5>1, <5>2
      <4>2. q[k] = (k > 1 /\ load[i + k - 1])
        BY <4>1
      <4>3. load[u + k] \in BOOLEAN
        <5>1. \A x \in 1 .. N : load[x] \in BOOLEAN
          BY WalkFacts
        <5> QED BY <4>1, <5>1
      <4>4. CASE k = 1
        <5>1. ~(k > 1)
          BY <4>4
        <5>2. q[k] = FALSE
          <6> HIDE DEF q
          <6> QED BY <4>2, <5>1
        <5> QED BY <4>4, <5>2
      <4>5. CASE k # 1
        <5>1. k > 1
          BY <4>1, <4>5
        <5> QED BY <4>1, <4>2, <4>3, <4>5, <5>1
      <4> QED BY <4>4, <4>5
    <3> HIDE DEF q
    <3> QED BY <2>4, <3>1 DEF Opened
  <2>6. p = SubSeq(types, u + 1, v) /\ st.slice = StandsAt(h, E, u, open)
    <3>1. st.slice = Ahead(h[i], E[i])
      BY <1>2, <1>5 DEF SliceAt
    <3> HIDE DEF u
    <3>2. StandsAt(h, E, u, TRUE) = Ahead(h[i], E[i])
      BY <2>4 DEF StandsAt
    <3> QED BY <2>4, <3>1, <3>2
  <2> HIDE DEF p, q, u, v, open
  <2>7. IsPart(types, load, h, E, N, u, v, open, p, q, st.slice)
    BY <2>4, <2>5, <2>6 DEF IsPart
  <2> DEFINE sl == st.slice
  <2>8. decodeParameters(p, q, sl) = [values |-> SubSeq(h, u + 1, v), rest |-> E[v]]
    <3>2. Laid(types, load, h, E, pb, pr, N)
      BY <1>1
    <3>1. IsPart(types, load, h, E, N, u, v, open, p, q, sl)
      BY <2>7
    <3> HIDE DEF sl
    <3> QED BY <3>1, <3>2, PartRead
  <2>9. d.values = SubSeq(h, i, j - 1) /\ d.rest = E[j - 1]
    <3>1. u + 1 = i
      BY <2>4
    <3>2. v = j - 1
      BY DEF v
    <3>3. d = [values |-> SubSeq(h, u + 1, v), rest |-> E[v]]
      BY <2>8
    <3> HIDE DEF d
    <3> QED BY <3>1, <3>2, <3>3
  <2> HIDE DEF d
  <2>10. rest = SliceAt(h, E, last, j)
    <3>1. (IF j <= last /\ load[j] THEN NextCell(E[j - 1]) ELSE E[j - 1]) = SliceAt(h, E, last, j)
      BY <2>3, ReadOn
    <3> QED BY <2>9, <3>1
  <2>11. OutOf(h, o, j) = OutOf(h, o, i) \o SubSeq(h, i, j - 1)
    BY <1>1, <1>3, <1>4, <2>1, <2>3, OrderAll
  <2> HIDE DEF rest
  <2>12. UnpackStep(needed, st) = UnpackState(h, E, o, last, j)
    BY <1>5, <2>2, <2>9, <2>10, <2>11 DEF UnpackState
  <2> QED BY <2>1, <2>12 DEF st
<1>7. CASE i \notin needed
  <2> DEFINE j == to(needed, i)
  <2>1. IsStretch(needed, last, i, j)
    BY StretchFacts
  <2>2. j \in i + 1 .. last + 1 /\ \A k \in i .. j - 1 : k \notin needed
    <3> HIDE DEF j
    <3>1. j \in i + 1 .. last + 1 /\ \A k \in i .. j - 1 : (k \in needed) = (i \in needed)
      BY <2>1 DEF IsStretch
    <3> QED BY <1>7, <3>1
  <2>3. skipTypesAndLoadCellIfNeeded(needed, i, st.slice) = SliceAt(h, E, last, j)
    BY <1>5, SkipAndLoad
  <2>4. UnpackStep(needed, st) = [st EXCEPT !.i = j, !.slice = skipTypesAndLoadCellIfNeeded(needed, i, st.slice)]
    BY <1>5, <1>7 DEF UnpackStep
  <2> HIDE DEF j
  <2>5. j \in i .. N + 1 /\ i \in 1 .. N + 1
    BY <1>1, <1>2, <2>2
  <2>6. o[j - 1] = o[i - 1]
    <3>1. N \in Nat
      BY <1>1
    <3>2. \A k \in i .. j - 1 : k \notin needed
      BY <2>2
    <3>3. IsOrder(o, needed, N)
      BY <1>3
    <3> QED BY <2>5, <3>1, <3>2, <3>3, OrderNothing
  <2>7. OutOf(h, o, j) = OutOf(h, o, i)
    BY <2>6 DEF OutOf
  <2>8. UnpackStep(needed, st) = [i |-> j, out |-> st.out, slice |-> SliceAt(h, E, last, j)]
    BY <1>5, <2>3, <2>4
  <2>9. UnpackStep(needed, st) = UnpackState(h, E, o, last, j)
    BY <1>5, <2>7, <2>8 DEF UnpackState
  <2> QED BY <2>2, <2>9 DEF st
<1> QED BY <1>6, <1>7

(* Steps that stay among the good states and go on.                         *)
StepsIn(S, D, last) ==
    /\ D = [s \in S |-> D[s]]
    /\ \A s \in S : s.i \in Nat /\ s.i > 0 /\ (s.i > last \/ (D[s] \in S /\ s.i < D[s].i))
IsRun(f, S, first, D, last) ==
    /\ f = [k \in 0 .. last |-> f[k]] /\ f[0] = first
    /\ \A k \in 0 .. last : f[k] \in S
    /\ \A k \in 1 .. last : k - 1 \in 0 .. last /\ f[k] = IF f[k - 1].i > last THEN f[k - 1] ELSE D[f[k - 1]]

(* There is a run of them.                                                  *)
LEMMA RunOf ==
    ASSUME NEW last \in Nat, NEW S, NEW first, first \in S, NEW D, StepsIn(S, D, last)
    PROVE  \E f : IsRun(f, S, first, D, last)
<1>1. D = [s \in S |-> D[s]] /\ \A s \in S : s.i > last \/ D[s] \in S
  BY DEF StepsIn
<1>2. HasRun(last, S, first, D)
  BY <1>1, RunExists
<1>3. PICK f \in [0 .. last -> S] : f[0] = first /\ \A k \in 1 .. last : f[k] = IF f[k - 1].i > last THEN f[k - 1] ELSE D[f[k - 1]]
  BY <1>2 DEF HasRun
<1>4. f = [k \in 0 .. last |-> f[k]] /\ \A k \in 0 .. last : f[k] \in S
  OBVIOUS
<1>5. \A k \in 1 .. last : k - 1 \in 0 .. last
  OBVIOUS
<1> QED BY <1>3, <1>4, <1>5 DEF IsRun

(* Nothing is asked for before the unpacked variables.                      *)
LEMMA OutBegins ==
    ASSUME NEW h, NEW E, NEW pb, NEW pr, NEW N, NEW U, NEW needed, NEW last, IsWalk(h, E, pb, pr, N, U, needed, last),
           NEW o, IsAsked(o, needed, U, N)
    PROVE  OutOf(h, o, U + 1) = <<>>
<1>1. N \in Nat /\ U \in 0 .. N /\ \A k \in needed : k \in U + 1 .. N
  BY WalkFacts
<1>2. IsOrder(o, needed, N) /\ o[0] = <<>>
  BY DEF IsAsked, IsOrder
<1> DEFINE a == 1
           b == U + 1
<1>3. a \in 1 .. N + 1 /\ b \in a .. N + 1 /\ a - 1 = 0 /\ b - 1 = U
  BY <1>1
<1>4. \A k \in a .. b - 1 : k \notin needed
  BY <1>1
<1> HIDE DEF a, b
<1>5. o[b - 1] = o[a - 1]
  <2>1. N \in Nat
    BY <1>1
  <2> QED BY <1>2, <1>3, <1>4, <2>1, OrderNothing
<1>6. o[b - 1] = <<>>
  BY <1>2, <1>3, <1>5
<1>7. OutOf(h, o, b) = [k \in 1 .. Len(o[b - 1]) |-> h[o[b - 1][k]]]
  BY DEF OutOf
<1>8. OutOf(h, o, b) = <<>>
  <2> DEFINE e == o[b - 1]
  <2>1. OutOf(h, o, b) = [k \in 1 .. Len(e) |-> h[e[k]]] /\ e = <<>>
    BY <1>6, <1>7
  <2> HIDE DEF e
  <2>2. 1 .. Len(e) = {}
    BY <2>1
  <2>3. IsList(OutOf(h, o, b)) /\ Len(OutOf(h, o, b)) = 0
    <3> DEFINE x == OutOf(h, o, b)
               n == 0
    <3>1. x = [k \in 1 .. n |-> x[k]] /\ n \in Nat
      BY <2>1
    <3> HIDE DEF x, n
    <3>2. IsList(x) /\ Len(x) = n
      BY <3>1, FunctionList
    <3> QED BY <3>2 DEF x, n
  <2> QED BY <2>3 DEF IsList
<1> QED BY <1>8 DEF b

IsUnpackRun(f, needed, first, last) ==
    f = [k \in 0 .. last |-> IF k = 0 THEN first ELSE IF f[k - 1].i > last THEN f[k - 1] ELSE UnpackStep(needed, f[k - 1])]

(* The values of the members asked for, and the slice behind the last.      *)
LEMMA UnpackedIs ==
    ASSUME NEW h, NEW E, NEW pb, NEW pr, NEW N, NEW U, NEW needed, NEW last, IsWalk(h, E, pb, pr, N, U, needed, last),
           NEW o, IsAsked(o, needed, U, N), c7.slice = E[U]
    PROVE  unpackedData(needed) = UnpackState(h, E, o, last, last + 1)
<1> DEFINE At(j) == UnpackState(h, E, o, last, j)
           S == {At(j) : j \in U + 1 .. last + 1}
           first == [i |-> startIndexType, out |-> <<>>, slice |-> FirstSlice]
           D == [s \in S |-> IF s.i > last THEN s ELSE UnpackStep(needed, s)]
           g == CHOOSE f : IsUnpackRun(f, needed, first, last)
<1>1. N \in Nat /\ U \in 0 .. N /\ last \in U + 1 .. N /\ last = lastIndexType(needed) /\ startIndexType = U + 1
  BY WalkFacts
<1>2. \A j : At(j).i = j
  BY DEF UnpackState
<1>3. \A j \in U + 1 .. last : \E x \in j + 1 .. last + 1 : UnpackStep(needed, At(j)) = At(x)
  BY UnpackNext
<1>4. first = At(U + 1)
  <2>1. FirstSlice = SliceAt(h, E, last, U + 1)
    BY WalkBegins
  <2>2. OutOf(h, o, U + 1) = <<>>
    BY OutBegins
  <2> QED BY <1>1, <2>1, <2>2 DEF UnpackState
<1>5. unpackedData(needed) = g[last]
  BY <1>1 DEF unpackedData, Iterate, IsUnpackRun
<1> HIDE DEF At, g
<1>6. first \in S
  <2>1. U + 1 \in U + 1 .. last + 1
    BY <1>1
  <2> QED BY <1>4, <2>1
<1>7. \A s \in S : \E j \in U + 1 .. last + 1 : s = At(j) /\ s.i = j
  BY <1>2
<1>8. ASSUME NEW s \in S
      PROVE  s.i \in Nat /\ s.i > 0 /\ (s.i > last \/ (UnpackStep(needed, s) \in S /\ s.i < UnpackStep(needed, s).i))
  <2>1. PICK j \in U + 1 .. last + 1 : s = At(j) /\ s.i = j
    BY <1>7
  <2>2. j \in Nat /\ j > 0 /\ U \in Nat /\ last \in Nat
    BY <1>1
  <2>3. CASE j > last
    BY <2>1, <2>2, <2>3
  <2>4. CASE ~(j > last)
    <3>1. j \in U + 1 .. last
      BY <2>2, <2>4
    <3>2. PICK x \in j + 1 .. last + 1 : UnpackStep(needed, At(j)) = At(x)
      BY <1>3, <3>1
    <3>3. x \in U + 1 .. last + 1 /\ j < x
      BY <2>2
    <3>4. At(x) \in S /\ At(x).i = x
      BY <1>2, <3>3
    <3> QED BY <2>1, <2>2, <3>2, <3>3, <3>4
  <2> QED BY <2>3, <2>4
<1>9. last \in Nat
  BY <1>1
<1> HIDE DEF S, first
<1>10. StepsIn(S, D, last)
  <2>1. \A s \in S : D[s] = IF s.i > last THEN s ELSE UnpackStep(needed, s)
    OBVIOUS
  <2>2. D = [s \in S |-> D[s]]
    OBVIOUS
  <2> HIDE DEF D
  <2>3. \A s \in S : s.i \in Nat /\ s.i > 0 /\ (s.i > last \/ (D[s] \in S /\ s.i < D[s].i))
    BY <1>8, <2>1
  <2> QED BY <2>2, <2>3 DEF StepsIn
<1>11. \E f : IsRun(f, S, first, D, last)
  <2> HIDE DEF D
  <2> QED BY <1>6, <1>9, <1>10, RunOf
<1>12. PICK f : IsRun(f, S, first, D, last)
  BY <1>11
<1>13. IsUnpackRun(f, needed, first, last)
  <2>1. \A s \in S : D[s] = IF s.i > last THEN s ELSE UnpackStep(needed, s)
    OBVIOUS
  <2> HIDE DEF D
  <2>2. /\ f = [k \in 0 .. last |-> f[k]] /\ f[0] = first
        /\ \A k \in 0 .. last : f[k] \in S
        /\ \A k \in 1 .. last : k - 1 \in 0 .. last /\ f[k] = IF f[k - 1].i > last THEN f[k - 1] ELSE D[f[k - 1]]
    BY <1>12 DEF IsRun
  <2>3. \A k \in 0 .. last : f[k] = IF k = 0 THEN first ELSE IF f[k - 1].i > last THEN f[k - 1] ELSE UnpackStep(needed, f[k - 1])
    <3>1. ASSUME NEW k \in 0 .. last, k # 0
          PROVE  f[k] = IF f[k - 1].i > last THEN f[k - 1] ELSE UnpackStep(needed, f[k - 1])
      <4>1. k \in 1 .. last
        BY <1>9, <3>1
      <4>2. k - 1 \in 0 .. last /\ f[k] = IF f[k - 1].i > last THEN f[k - 1] ELSE D[f[k - 1]]
        BY <2>2, <4>1
      <4>3. f[k - 1] \in S
        BY <2>2, <4>2
      <4> QED BY <2>1, <4>2, <4>3
    <3> QED BY <2>2, <3>1
  <2> QED BY <2>2, <2>3 DEF IsUnpackRun
<1>14. IsUnpackRun(g, needed, first, last)
  BY <1>13, Zenon DEF g
<1>15. RunSteps(g, S, last)
  <2>1. \A k \in 0 .. last : g[k] = IF k = 0 THEN first ELSE IF g[k - 1].i > last THEN g[k - 1] ELSE UnpackStep(needed, g[k - 1])
    BY <1>14 DEF IsUnpackRun
  <2>2. g[0] \in S
    <3>1. 0 \in 0 .. last
      BY <1>9
    <3> QED BY <1>6, <2>1, <3>1
  <2>3. ASSUME NEW k \in 1 .. last, g[k - 1] \in S
        PROVE  IF g[k - 1].i > last THEN g[k] = g[k - 1] ELSE g[k] \in S /\ g[k - 1].i < g[k].i
    <3>1. k \in 0 .. last /\ k # 0
      BY <1>9
    <3>2. g[k] = IF g[k - 1].i > last THEN g[k - 1] ELSE UnpackStep(needed, g[k - 1])
      BY <2>1, <3>1
    <3> QED BY <1>8, <2>3, <3>2
  <2>4. \A s \in S : s.i \in Nat /\ s.i > 0
    BY <1>8
  <2> QED BY <2>2, <2>3, <2>4 DEF RunSteps
<1>16. g[last] \in S /\ g[last].i > last
  BY <1>9, <1>15, RunEnds
<1>17. g[last] = At(last + 1)
  <2>1. PICK j \in U + 1 .. last + 1 : g[last] = At(j) /\ g[last].i = j
    BY <1>7, <1>16
  <2>2. j = last + 1
    BY <1>1, <1>16, <2>1
  <2> QED BY <2>1, <2>2
<1> QED BY <1>5, <1>17 DEF At

(***************************************************************************)
(* packData: where the parts begin that the old slice is taken apart into. *)
(***************************************************************************)
IsRunEnd(i, j, y) ==
    /\ y \in i + 1 .. j /\ (y = j \/ ~types[i].fixedSize \/ ~types[y].fixedSize)
    /\ \A m \in i + 1 .. y - 1 : types[i].fixedSize /\ types[m].fixedSize

(* It is where EndOfRun says.                                               *)
LEMMA EndOfRunIs ==
    ASSUME NEW i \in Nat, NEW j \in Nat, i < j
    PROVE  IsRunEnd(i, j, EndOfRun(i, j))
<1> DEFINE S == {k \in i + 1 .. j : k = j \/ ~types[i].fixedSize \/ ~types[k].fixedSize}
           a == i + 1
<1>1. a \in Nat /\ a <= j /\ j \in S
  OBVIOUS
<1>2. \E y \in a .. j : y \in S /\ \A k \in a .. y - 1 : k \notin S
  <2> HIDE DEF a, S
  <2> QED BY <1>1, FirstIn
<1>3. PICK y \in a .. j : y \in S /\ \A k \in a .. y - 1 : k \notin S
  BY <1>2
<1>4. IsRunEnd(i, j, y)
  <2>1. \A m \in i + 1 .. y - 1 : types[i].fixedSize /\ types[m].fixedSize
    <3>1. ASSUME NEW m \in i + 1 .. y - 1 PROVE types[i].fixedSize /\ types[m].fixedSize
      <4>1. m \in i + 1 .. j /\ m \notin S
        BY <1>3
      <4> QED BY <4>1
    <3> QED BY <3>1
  <2>2. y \in i + 1 .. j /\ (y = j \/ ~types[i].fixedSize \/ ~types[y].fixedSize)
    BY <1>3
  <2> QED BY <2>1, <2>2 DEF IsRunEnd
<1>5. EndOfRun(i, j) = CHOOSE x \in i + 1 .. j : IsRunEnd(i, j, x)
  <2>1. EndOfRun(i, j) = CHOOSE x \in (i + 1) .. j :
                      /\ x = j \/ ~types[i].fixedSize \/ ~types[x].fixedSize
                      /\ \A m \in (i + 1) .. (x - 1) : types[i].fixedSize /\ types[m].fixedSize
    BY DEF EndOfRun
  <2>2. \A x \in (i + 1) .. j : IsRunEnd(i, j, x) <=>
                      (/\ x = j \/ ~types[i].fixedSize \/ ~types[x].fixedSize
                       /\ \A m \in (i + 1) .. (x - 1) : types[i].fixedSize /\ types[m].fixedSize)
    BY Zenon DEF IsRunEnd
  <2> QED BY <2>1, <2>2
<1>6. y \in i + 1 .. j
  BY <1>3
<1> QED BY <1>4, <1>5, <1>6

(* Where a stretch ends is where it ends for those in it.                   *)
LEMMA SameEnd ==
    ASSUME NEW h, NEW E, NEW pb, NEW pr, NEW N, NEW U, NEW needed, NEW last, IsWalk(h, E, pb, pr, N, U, needed, last),
           NEW i \in U + 1 .. last, NEW x \in i .. to(needed, i) - 1
    PROVE  to(needed, x) = to(needed, i) /\ x \in U + 1 .. last /\ (x \in needed) = (i \in needed)
<1> DEFINE e == to(needed, i)
           y == to(needed, x)
<1>1. N \in Nat /\ U \in 0 .. N /\ last \in U + 1 .. N /\ \A k \in 1 .. N : load[k] \in BOOLEAN
  BY WalkFacts
<1>2. IsStretch(needed, last, i, e)
  BY StretchFacts
<1>3. e \in i + 1 .. last + 1
  <2> HIDE DEF e
  <2> QED BY <1>2 DEF IsStretch
<1>4. x \in U + 1 .. last /\ x \in i .. e - 1
  <2> HIDE DEF e
  <2>1. x \in i .. e - 1
    BY DEF e
  <2> QED BY <1>1, <1>3, <2>1
<1>5. IsStretch(needed, last, x, y)
  BY <1>4, StretchFacts
<1> HIDE DEF e, y
<1>6. /\ OneStretch(load, i, e) /\ (e = last + 1 \/ load[e] \/ (e \in needed) # (i \in needed))
      /\ \A k \in i .. e - 1 : (k \in needed) = (i \in needed)
  BY <1>2 DEF IsStretch
<1>7. /\ y \in x + 1 .. last + 1 /\ OneStretch(load, x, y) /\ (y = last + 1 \/ load[y] \/ (y \in needed) # (x \in needed))
      /\ \A k \in x .. y - 1 : (k \in needed) = (x \in needed)
  BY <1>5 DEF IsStretch
<1>8. (x \in needed) = (i \in needed)
  BY <1>4, <1>6
<1>9. ~(y < e)
  <2>1. SUFFICES ASSUME y < e PROVE FALSE
    OBVIOUS
  <2>2. y \in i + 1 .. e - 1 /\ y # last + 1 /\ y \in i .. e - 1
    BY <1>1, <1>3, <1>4, <1>7, <2>1
  <2>3. load[y] = FALSE /\ (y \in needed) = (i \in needed)
    BY <1>6, <2>2 DEF OneStretch
  <2> QED BY <1>7, <1>8, <2>2, <2>3
<1>10. ~(e < y)
  <2>1. SUFFICES ASSUME e < y PROVE FALSE
    OBVIOUS
  <2>2. e \in x + 1 .. y - 1 /\ e # last + 1 /\ e \in x .. y - 1
    BY <1>1, <1>3, <1>4, <1>7, <2>1
  <2>3. load[e] = FALSE /\ (e \in needed) = (x \in needed)
    BY <1>7, <2>2 DEF OneStretch
  <2> QED BY <1>6, <1>8, <2>2, <2>3
<1>11. y = e
  BY <1>1, <1>3, <1>4, <1>7, <1>9, <1>10
<1> QED BY <1>4, <1>8, <1>11 DEF e, y

(* The last member is needed, so a stretch of others ends before it.        *)
LEMMA EndBeforeLast ==
    ASSUME NEW h, NEW E, NEW pb, NEW pr, NEW N, NEW U, NEW needed, NEW last, IsWalk(h, E, pb, pr, N, U, needed, last),
           NEW i \in U + 1 .. last, i \notin needed
    PROVE  to(needed, i) \in i + 1 .. last
<1> DEFINE e == to(needed, i)
<1>1. N \in Nat /\ U \in 0 .. N /\ last \in U + 1 .. N /\ last \in needed
  BY WalkFacts
<1>2. IsStretch(needed, last, i, e)
  BY StretchFacts
<1> HIDE DEF e
<1>3. e \in i + 1 .. last + 1 /\ \A k \in i .. e - 1 : (k \in needed) = (i \in needed)
  BY <1>2 DEF IsStretch
<1>4. e # last + 1
  <2>1. SUFFICES ASSUME e = last + 1 PROVE FALSE
    OBVIOUS
  <2>2. last \in i .. e - 1
    BY <1>1, <2>1
  <2> QED BY <1>1, <1>3, <2>2
<1>5. e \in i + 1 .. last
  BY <1>1, <1>3, <1>4
<1> QED BY <1>5 DEF e

NextPart(needed, i) ==
    IF i \in needed THEN i + 1
    ELSE IF load[to(needed, i)] THEN to(needed, i) ELSE EndOfRun(i, to(needed, i))

(* The next part is not behind the stretch that the part is in.             *)
LEMMA NextPartIs ==
    ASSUME NEW h, NEW E, NEW pb, NEW pr, NEW N, NEW U, NEW needed, NEW last, IsWalk(h, E, pb, pr, N, U, needed, last),
           NEW i \in U + 1 .. last
    PROVE  /\ NextPart(needed, i) \in i + 1 .. last + 1 /\ OneStretch(load, i, NextPart(needed, i))
           /\ i \notin needed => NextPart(needed, i) <= to(needed, i) /\ NextPart(needed, i) <= last
<1> DEFINE y == NextPart(needed, i)
           e == to(needed, i)
<1>1. N \in Nat /\ U \in 0 .. N /\ last \in U + 1 .. N
  BY WalkFacts
<1>2. CASE i \in needed
  <2>1. y = i + 1
    BY <1>2 DEF NextPart
  <2> HIDE DEF y
  <2>2. y \in i + 1 .. last + 1
    BY <1>1, <2>1
  <2>3. OneStretch(load, i, y)
    BY <1>1, <2>1 DEF OneStretch
  <2> QED BY <1>2, <2>2, <2>3 DEF y
<1>3. CASE i \notin needed
  <2>1. e \in i + 1 .. last
    BY <1>3, EndBeforeLast
  <2>2. IsStretch(needed, last, i, e)
    BY StretchFacts
  <2>3. y = IF load[e] THEN e ELSE EndOfRun(i, e)
    BY <1>3 DEF NextPart
  <2>4. OneStretch(load, i, e)
    <3> HIDE DEF e
    <3> QED BY <2>2 DEF IsStretch
  <2> HIDE DEF e, y
  <2>5. i \in Nat /\ e \in Nat /\ i < e
    BY <1>1, <2>1
  <2>6. EndOfRun(i, e) \in i + 1 .. e
    BY <2>5, EndOfRunIs DEF IsRunEnd
  <2>7. y \in i + 1 .. e
    BY <2>3, <2>5, <2>6
  <2>8. y \in i + 1 .. last + 1 /\ y <= e /\ y <= last
    BY <1>1, <2>1, <2>5, <2>7
  <2>9. OneStretch(load, i, y)
    <3>1. ASSUME NEW k \in i + 1 .. y - 1 PROVE load[k] = FALSE
      <4>1. k \in i + 1 .. e - 1
        BY <2>5, <2>7
      <4> QED BY <2>4, <4>1 DEF OneStretch
    <3> QED BY <3>1 DEF OneStretch
  <2> QED BY <2>8, <2>9 DEF e, y
<1> QED BY <1>2, <1>3

(* The places where parts begin, and what comes behind the last member.     *)
IsParted(b, needed, last, U, N) ==
    /\ b \in [0 .. N -> Nat] /\ b[0] = U + 1
    /\ \A k \in 1 .. N : b[k] = IF b[k - 1] \in U + 1 .. last THEN NextPart(needed, b[k - 1]) ELSE b[k - 1] + 1

(* There are such places.                                                   *)
LEMMA PartedExists ==
    ASSUME NEW h, NEW E, NEW pb, NEW pr, NEW N, NEW U, NEW needed, NEW last, IsWalk(h, E, pb, pr, N, U, needed, last)
    PROVE  \E b : IsParted(b, needed, last, U, N)
<1> DEFINE d == [x \in Nat |-> IF x \in U + 1 .. last THEN NextPart(needed, x) ELSE x + 1]
           D == [k \in 1 .. N |-> d]
<1>1. N \in Nat /\ U \in 0 .. N /\ last \in U + 1 .. N
  BY WalkFacts
<1>2. \A x \in U + 1 .. last : NextPart(needed, x) \in Nat
  <2>1. ASSUME NEW x \in U + 1 .. last PROVE NextPart(needed, x) \in Nat
    <3>1. NextPart(needed, x) \in x + 1 .. last + 1
      BY NextPartIs
    <3> QED BY <1>1, <3>1
  <2> QED BY <2>1
<1>3. d \in [Nat -> Nat]
  BY <1>2
<1>4. \A x \in Nat : d[x] = IF x \in U + 1 .. last THEN NextPart(needed, x) ELSE x + 1
  OBVIOUS
<1>5. D \in [1 .. N -> [Nat -> Nat]] /\ \A k \in 1 .. N : D[k] = d
  BY <1>3
<1>6. U + 1 \in Nat
  BY <1>1
<1> DEFINE c == U + 1
<1> HIDE DEF d, D, c
<1>7. HasSteps(N, Nat, c, D)
  <2>1. c \in Nat /\ N \in Nat
    BY <1>1, <1>6 DEF c
  <2> QED BY <1>5, <2>1, Recursion
<1>8. PICK b \in [0 .. N -> Nat] : b[0] = c /\ \A k \in 1 .. N : b[k] = D[k][b[k - 1]]
  BY <1>7 DEF HasSteps
<1>9. ASSUME NEW k \in 1 .. N
      PROVE  b[k] = IF b[k - 1] \in U + 1 .. last THEN NextPart(needed, b[k - 1]) ELSE b[k - 1] + 1
  <2>1. k - 1 \in 0 .. N
    BY <1>1
  <2>2. b[k - 1] \in Nat
    BY <2>1
  <2> QED BY <1>4, <1>5, <1>8, <2>2
<1> QED BY <1>8, <1>9 DEF IsParted, c

(* There is one more part, as long as members are left.                     *)
LEMMA PartedOn ==
    ASSUME NEW h, NEW E, NEW pb, NEW pr, NEW N, NEW U, NEW needed, NEW last, IsWalk(h, E, pb, pr, N, U, needed, last),
           NEW b, IsParted(b, needed, last, U, N)
    PROVE  \A k \in 0 .. N : /\ b[k] \in Nat /\ b[k] >= U + 1 + k
                             /\ b[k] <= last => b[k] \in U + 1 .. last /\ k + 1 \in 1 .. N /\ b[k + 1] = NextPart(needed, b[k])
<1>1. N \in Nat /\ U \in 0 .. N /\ last \in U + 1 .. N
  BY WalkFacts
<1>2. /\ b \in [0 .. N -> Nat] /\ b[0] = U + 1
      /\ \A k \in 1 .. N : b[k] = IF b[k - 1] \in U + 1 .. last THEN NextPart(needed, b[k - 1]) ELSE b[k - 1] + 1
  BY DEF IsParted
<1> DEFINE T == {k \in 0 .. N : b[k] >= U + 1 + k}
<1>3. 0 \in T
  BY <1>1, <1>2
<1>4. ASSUME NEW k \in 1 .. N, k - 1 \in T PROVE k \in T
  <2> DEFINE x == b[k - 1]
  <2>1. k - 1 \in 0 .. N /\ x \in Nat /\ x >= U + 1 + (k - 1) /\ b[k] \in Nat
    BY <1>2, <1>4
  <2>2. b[k] = IF x \in U + 1 .. last THEN NextPart(needed, x) ELSE x + 1
    BY <1>2
  <2> HIDE DEF x
  <2>3. b[k] > x
    <3>1. CASE x \in U + 1 .. last
      <4>1. NextPart(needed, x) \in x + 1 .. last + 1
        BY <3>1, NextPartIs
      <4> QED BY <1>1, <2>1, <2>2, <3>1, <4>1
    <3>2. CASE x \notin U + 1 .. last
      BY <2>1, <2>2, <3>2
    <3> QED BY <3>1, <3>2
  <2>4. b[k] >= U + 1 + k
    BY <1>1, <2>1, <2>3
  <2> QED BY <2>4
<1>5. \A k \in 0 .. N : k \in T
  <2> HIDE DEF T
  <2> QED BY <1>1, <1>3, <1>4, Upwards
<1>6. ASSUME NEW k \in 0 .. N
      PROVE  /\ b[k] \in Nat /\ b[k] >= U + 1 + k
             /\ b[k] <= last => b[k] \in U + 1 .. last /\ k + 1 \in 1 .. N /\ b[k + 1] = NextPart(needed, b[k])
  <2>1. b[k] \in Nat /\ b[k] >= U + 1 + k
    BY <1>2, <1>5
  <2>2. ASSUME b[k] <= last PROVE b[k] \in U + 1 .. last /\ k + 1 \in 1 .. N /\ b[k + 1] = NextPart(needed, b[k])
    <3>1. b[k] \in U + 1 .. last /\ k + 1 \in 1 .. N /\ (k + 1) - 1 = k
      BY <1>1, <2>1, <2>2
    <3>2. b[k + 1] = IF b[(k + 1) - 1] \in U + 1 .. last THEN NextPart(needed, b[(k + 1) - 1]) ELSE b[(k + 1) - 1] + 1
      BY <1>2, <3>1
    <3> QED BY <3>1, <3>2
  <2> QED BY <2>1, <2>2
<1> QED BY <1>6

(***************************************************************************)
(* What two lists of values have in common.                                *)
(***************************************************************************)
(* Between members that have kept their values.                             *)
LEMMA SameContents ==
    ASSUME NEW h, NEW g, NEW i \in Nat \ {0}, NEW j \in Nat \ {0}, i <= j, \A k \in i .. j - 1 : g[k] = h[k]
    PROVE  Contents(g, i, j) = Contents(h, i, j)
<1> DEFINE T == {k \in i .. j : Contents(g, k, j) = Contents(h, k, j)}
<1>1. j \in T
  <2>1. Contents(g, j, j) = Empty
    BY ContentsSteps
  <2>2. Contents(h, j, j) = Empty
    BY ContentsSteps
  <2>3. j \in i .. j
    OBVIOUS
  <2> QED BY <2>1, <2>2, <2>3
<1>2. ASSUME NEW k \in i .. j - 1, k + 1 \in T PROVE k \in T
  <2>1. k \in 1 .. j - 1 /\ k \in i .. j /\ g[k] = h[k]
    OBVIOUS
  <2>2. Contents(g, k, j) = Ahead(g[k], Contents(g, k + 1, j))
    BY <2>1, ContentsSteps
  <2>3. Contents(h, k, j) = Ahead(h[k], Contents(h, k + 1, j))
    BY <2>1, ContentsSteps
  <2>4. Contents(g, k + 1, j) = Contents(h, k + 1, j)
    BY <1>2
  <2> QED BY <2>1, <2>2, <2>3, <2>4
<1>3. \A k \in i .. j : k \in T
  <2>1. i <= j /\ i \in Int /\ j \in Int
    OBVIOUS
  <2> HIDE DEF T
  <2> QED BY <1>1, <1>2, <2>1, DownFrom
<1>4. i \in T
  <2>1. i \in i .. j
    OBVIOUS
  <2> HIDE DEF T
  <2> QED BY <1>3, <2>1
<1> QED BY <1>4

(* Behind the last member that has not.                                     *)
LEMMA SameRest ==
    ASSUME NEW t, NEW l, NEW h, NEW E, NEW pb, NEW pr, NEW g, NEW F, NEW qb, NEW qr, NEW n,
           Laid(t, l, h, E, pb, pr, n), Laid(t, l, g, F, qb, qr, n), NEW last \in 0 .. n, \A k \in last + 1 .. n : g[k] = h[k]
    PROVE  F[last] = E[last]
<1> DEFINE T == {k \in last .. n : F[k] = E[k]}
<1>1. n \in Nat /\ E[n] = Empty /\ \A i \in 1 .. n : E[i - 1] = Before(h[i], l[i], E[i])
  BY LaidFacts
<1>2. F[n] = Empty /\ \A i \in 1 .. n : F[i - 1] = Before(g[i], l[i], F[i])
  BY LaidFacts
<1>3. n \in T
  BY <1>1, <1>2
<1>4. ASSUME NEW k \in last .. n - 1, k + 1 \in T PROVE k \in T
  <2> DEFINE x == k + 1
  <2>1. x \in 1 .. n /\ x \in last + 1 .. n /\ x - 1 = k /\ F[x] = E[x] /\ k \in last .. n
    BY <1>1, <1>4
  <2> HIDE DEF x
  <2>2. E[x - 1] = Before(h[x], l[x], E[x]) /\ F[x - 1] = Before(g[x], l[x], F[x]) /\ g[x] = h[x]
    BY <1>1, <1>2, <2>1
  <2>3. F[k] = E[k]
    BY <2>1, <2>2
  <2> QED BY <2>1, <2>3
<1>5. \A k \in last .. n : k \in T
  <2>1. last <= n /\ last \in Int /\ n \in Int
    BY <1>1
  <2> HIDE DEF T
  <2> QED BY <1>3, <1>4, <2>1, DownFrom
<1>6. last \in T
  <2>1. last \in last .. n
    BY <1>1
  <2> HIDE DEF T
  <2> QED BY <1>5, <2>1
<1> QED BY <1>6

(***************************************************************************)
(* The parts.                                                              *)
(***************************************************************************)
PartAt(needed, g, i) ==
    IF i \in needed THEN [value |-> g[i]] ELSE [slice |-> Contents(g, i, NextPart(needed, i))]
PartsUpTo(needed, g, b, k) == [m \in 1 .. k |-> PartAt(needed, g, b[m - 1])]

(* Some parts more.                                                         *)
AreParts(needed, g, b, k, c, more) ==
    more = [m \in 1 .. c |-> more[m]] /\ \A m \in 1 .. c : more[m] = PartAt(needed, g, b[k + m - 1])

(* The list grows by them.                                                  *)
LEMMA PartsMore ==
    ASSUME NEW needed, NEW g, NEW b, NEW k \in Nat, NEW c \in Nat, NEW more, AreParts(needed, g, b, k, c, more)
    PROVE  PartsUpTo(needed, g, b, k) \o more = PartsUpTo(needed, g, b, k + c)
<1> DEFINE x == PartsUpTo(needed, g, b, k)
           y == PartsUpTo(needed, g, b, k + c)
           n == k + c
           z == x \o more
<1>0. more = [m \in 1 .. c |-> more[m]] /\ \A m \in 1 .. c : more[m] = PartAt(needed, g, b[k + m - 1])
  BY DEF AreParts
<1>1. n \in Nat
  OBVIOUS
<1>2. x = [m \in 1 .. k |-> x[m]] /\ \A m \in 1 .. k : x[m] = PartAt(needed, g, b[m - 1])
  BY DEF PartsUpTo
<1>3. y = [m \in 1 .. n |-> y[m]] /\ \A m \in 1 .. n : y[m] = PartAt(needed, g, b[m - 1])
  BY DEF PartsUpTo
<1> HIDE DEF x, y
<1>4. IsList(x) /\ Len(x) = k
  BY <1>2, FunctionList
<1>5. IsList(y) /\ Len(y) = n
  <2> HIDE DEF n
  <2> QED BY <1>1, <1>3, FunctionList
<1>6. IsList(more) /\ Len(more) = c
  BY <1>0, FunctionList
<1>7. IsList(z) /\ Len(z) = Len(x) + Len(more) /\ \A m \in 1 .. Len(x) + Len(more) : z[m] = IF m <= Len(x) THEN x[m] ELSE more[m - Len(x)]
  BY <1>4, <1>6, CatList
<1> HIDE DEF z
<1>8. \A m \in 1 .. n : z[m] = y[m]
  <2>1. ASSUME NEW m \in 1 .. n PROVE z[m] = y[m]
    <3>1. z[m] = IF m <= k THEN x[m] ELSE more[m - k]
      BY <1>4, <1>6, <1>7
    <3>2. y[m] = PartAt(needed, g, b[m - 1])
      BY <1>3
    <3>3. CASE m <= k
      <4>1. m \in 1 .. k
        BY <3>3
      <4> QED BY <1>2, <3>1, <3>2, <3>3, <4>1
    <3>4. CASE ~(m <= k)
      <4>1. m - k \in 1 .. c /\ k + (m - k) - 1 = m - 1
        BY <3>4
      <4>2. more[m - k] = PartAt(needed, g, b[m - 1])
        BY <1>0, <4>1
      <4> QED BY <3>1, <3>2, <3>4, <4>2
    <3> QED BY <3>3, <3>4
  <2> QED BY <2>1
<1>9. z = y
  BY <1>4, <1>5, <1>6, <1>7, <1>8, SameList
<1> QED BY <1>9 DEF x, y, z

(***************************************************************************)
(* The old slice is taken apart.                                           *)
(***************************************************************************)
(* h: the old values, g: those to be stored.                                *)
IsTaking(h, E, pb, pr, N, U, needed, last, b, g) ==
    /\ IsWalk(h, E, pb, pr, N, U, needed, last) /\ IsParted(b, needed, last, U, N)
    /\ \A k \in 1 .. N : k \notin needed => g[k] = h[k]

State(i, slice, parts, cur, ok) == [i |-> i, slice |-> slice, parts |-> parts, cur |-> cur, ok |-> ok]
TakeAt(h, E, last, needed, g, b, k, cur, ok) == State(b[k], SliceAt(h, E, last, b[k]), PartsUpTo(needed, g, b, k), cur, ok)

(* The state after k parts.                                                 *)
IsTaken(st, h, E, last, needed, g, b, k) == \E cur, ok : st = TakeAt(h, E, last, needed, g, b, k, cur, ok)

WithOutcome(st, c, x) == [st EXCEPT !.cur = c, !.ok = x]
WithPlace(st, a, s) == [st EXCEPT !.i = a, !.slice = s]
WithPart(st, a, s, p) == [st EXCEPT !.i = a, !.slice = s, !.parts = p]
WithParts(st, p) == [st EXCEPT !.parts = p]

(* The fields of a state.                                                   *)
LEMMA StateParts ==
    ASSUME NEW i, NEW slice, NEW parts, NEW cur, NEW ok, NEW st, st = State(i, slice, parts, cur, ok)
    PROVE  /\ st.i = i /\ st.slice = slice /\ st.parts = parts
           /\ \A c, x : WithOutcome(st, c, x) = State(i, slice, parts, c, x)
           /\ \A a, s : WithPlace(st, a, s) = State(a, s, parts, cur, ok)
           /\ \A a, s, p : WithPart(st, a, s, p) = State(a, s, p, cur, ok)
           /\ \A p : WithParts(st, p) = State(i, slice, p, cur, ok)
<1>1. st.i = i /\ st.slice = slice /\ st.parts = parts
  BY DEF State
<1>2. ASSUME NEW c, NEW x PROVE WithOutcome(st, c, x) = State(i, slice, parts, c, x)
  <2>1. WithOutcome(st, c, x) = [[st EXCEPT !.cur = c] EXCEPT !.ok = x]
    BY DEF WithOutcome
  <2>2. [st EXCEPT !.cur = c] = State(i, slice, parts, c, ok)
    BY DEF State
  <2>3. [State(i, slice, parts, c, ok) EXCEPT !.ok = x] = State(i, slice, parts, c, x)
    BY DEF State
  <2> QED BY <2>1, <2>2, <2>3, Zenon
<1>3. ASSUME NEW a, NEW s PROVE WithPlace(st, a, s) = State(a, s, parts, cur, ok)
  <2>1. WithPlace(st, a, s) = [[st EXCEPT !.i = a] EXCEPT !.slice = s]
    BY DEF WithPlace
  <2>2. [st EXCEPT !.i = a] = State(a, slice, parts, cur, ok)
    BY DEF State
  <2>3. [State(a, slice, parts, cur, ok) EXCEPT !.slice = s] = State(a, s, parts, cur, ok)
    BY DEF State
  <2> QED BY <2>1, <2>2, <2>3, Zenon
<1>4. ASSUME NEW a, NEW s, NEW p PROVE WithPart(st, a, s, p) = State(a, s, p, cur, ok)
  <2>1. WithPart(st, a, s, p) = [WithPlace(st, a, s) EXCEPT !.parts = p]
    <3>1. WithPlace(st, a, s) = [st EXCEPT !.i = a, !.slice = s]
      BY DEF WithPlace
    <3>2. WithPart(st, a, s, p) = [[st EXCEPT !.i = a, !.slice = s] EXCEPT !.parts = p]
      BY DEF WithPart
    <3> QED BY <3>1, <3>2, Zenon
  <2>2. WithPlace(st, a, s) = State(a, s, parts, cur, ok)
    BY <1>3
  <2>3. [State(a, s, parts, cur, ok) EXCEPT !.parts = p] = State(a, s, p, cur, ok)
    BY DEF State
  <2> QED BY <2>1, <2>2, <2>3, Zenon
<1>5. ASSUME NEW p PROVE WithParts(st, p) = State(i, slice, p, cur, ok)
  BY DEF State, WithParts
<1> QED BY <1>1, <1>2, <1>3, <1>4, <1>5

(* Skipped changes nothing but the index and the outcome of the assertion.  *)
IsSkipped(st, i, slice, parts) == \E c, x : st = State(i, slice, parts, c, x)

(* And the others are as they were.                                         *)
LEMMA SkippedIs ==
    ASSUME NEW i, NEW slice, NEW parts, NEW st, IsSkipped(st, i, slice, parts), NEW a, NEW z
    PROVE  IsSkipped(Skipped(st, a, z), i, slice, parts)
<1>0. PICK cur, ok : st = State(i, slice, parts, cur, ok)
  BY DEF IsSkipped
<1> DEFINE p == st.cur + (z - a)
           q == st.ok /\ \A k \in a .. (z - 1) : st.cur + (k - a) <= Len(types) /\ types[st.cur + (k - a)] = types[k]
<1>1. Skipped(st, a, z) = WithOutcome(st, p, q)
  BY DEF Skipped, WithOutcome
<1>2. \E c, x : Skipped(st, a, z) = WithOutcome(st, c, x)
  <2> HIDE DEF p, q
  <2> QED BY <1>1
<1> HIDE DEF p, q
<1>3. PICK c, x : Skipped(st, a, z) = WithOutcome(st, c, x)
  BY <1>2
<1>4. WithOutcome(st, c, x) = State(i, slice, parts, c, x)
  BY <1>0, StateParts
<1> QED BY <1>3, <1>4 DEF IsSkipped

(* One part more.                                                           *)
LEMMA OnePart ==
    ASSUME NEW needed, NEW g, NEW b, NEW k \in Nat, NEW p, p = PartAt(needed, g, b[k])
    PROVE  PartsUpTo(needed, g, b, k) \o <<p>> = PartsUpTo(needed, g, b, k + 1)
<1> DEFINE more == <<p>>
           c == 1
<1>1. more = [m \in 1 .. c |-> more[m]]
  OBVIOUS
<1>0. c \in Nat
  OBVIOUS
<1>2. AreParts(needed, g, b, k, c, more)
  <2>1. ASSUME NEW m \in 1 .. c PROVE more[m] = PartAt(needed, g, b[k + m - 1])
    <3>1. m = 1 /\ k + m - 1 = k /\ more[1] = p
      OBVIOUS
    <3> HIDE DEF more
    <3> QED BY <3>1
  <2> HIDE DEF more, c
  <2> QED BY <1>1, <2>1 DEF AreParts
<1> HIDE DEF more, c
<1>3. PartsUpTo(needed, g, b, k) \o more = PartsUpTo(needed, g, b, k + c)
  BY <1>0, <1>2, PartsMore
<1> QED BY <1>3 DEF more, c

(* The stretch that is taken as one part: where the slice stands before and *)
(* behind it.                                                               *)
IsPiece(h, E, last, a, y, C) ==
    /\ C = Contents(h, a, y) /\ IsSlice(C) /\ IsSlice(E[y - 1])
    /\ SliceAt(h, E, last, a) = Cat(C, E[y - 1]) /\ IsSlice(SliceAt(h, E, last, a)) /\ IsSlice(SliceAt(h, E, last, y))
    /\ E[y - 1] = IF y <= last /\ load[y] THEN OneCell(SliceAt(h, E, last, y)) ELSE SliceAt(h, E, last, y)
    /\ (\A m \in a .. y - 1 : types[m].fixedSize) => BitsIn(a, y) = Bits(C) /\ RefsIn(a, y) = Len(C.refs)
    /\ (\A m \in a .. y - 1 : types[m].fixedRefs) => RefsIn(a, y) = Len(C.refs)

(* Such a piece can be cut off the slice that stands before it.             *)
LEMMA PieceFacts ==
    ASSUME NEW h, NEW E, NEW pb, NEW pr, NEW N, NEW U, NEW needed, NEW last, IsWalk(h, E, pb, pr, N, U, needed, last),
           NEW a \in U + 1 .. last, NEW y \in a + 1 .. last + 1, OneStretch(load, a, y)
    PROVE  IsPiece(h, E, last, a, y, Contents(h, a, y))
<1> DEFINE C == Contents(h, a, y)
           X == SliceAt(h, E, last, y)
<1>1. /\ N \in Nat /\ U \in 0 .. N /\ last \in U + 1 .. N /\ Laid(types, load, h, E, pb, pr, N)
      /\ \A k \in 1 .. N : load[k] \in BOOLEAN
  BY WalkFacts
<1>2. a \in 1 .. N /\ a <= last /\ last \in 0 .. N /\ y \in a .. N + 1 /\ y \in 1 .. last + 1 /\ y \in a + 1 .. N + 1
  BY <1>1
<1>3. SliceAt(h, E, last, a) = Ahead(h[a], E[a])
  BY <1>2 DEF SliceAt
<1>4. Ahead(h[a], E[a]) = Cat(C, E[y - 1]) /\ IsSlice(C) /\ IsSlice(E[y - 1]) /\ IsSlice(Ahead(h[a], E[a]))
  BY <1>1, <1>2, CellContents
<1>5. IsSlice(X) /\ (y <= last => E[y - 1] = IF load[y] THEN OneCell(X) ELSE X) /\ (~(y <= last) => E[y - 1] = X)
  BY <1>1, <1>2, SliceThere
<1> DEFINE x == sufBits(types, a)
           z == sufBits(types, y)
           v == sufRefs(types, a)
           w == sufRefs(types, y)
           p == Bits(C)
           q == Len(C.refs)
<1>b. C = Contents(h, a, y)
  OBVIOUS
<1> HIDE DEF C
<1>c. /\ Bits(C) \in Nat /\ Len(C.refs) \in Nat
      /\ sufBits(types, a) \in Nat /\ sufBits(types, y) \in Nat /\ sufRefs(types, a) \in Nat /\ sufRefs(types, y) \in Nat
      /\ (\A k \in a .. y - 1 : types[k].fixedSize) =>
            Bits(C) + sufBits(types, y) = sufBits(types, a) /\ Len(C.refs) + sufRefs(types, y) = sufRefs(types, a)
      /\ (\A k \in a .. y - 1 : types[k].fixedRefs) => Len(C.refs) + sufRefs(types, y) = sufRefs(types, a)
  <2>1. Sized(types, a, y, C)
    BY <1>1, <1>2, <1>b, ContentsSized
  <2> QED BY <2>1 DEF Sized
<1>6. /\ p \in Nat /\ q \in Nat /\ x \in Nat /\ z \in Nat /\ v \in Nat /\ w \in Nat
      /\ (\A k \in a .. y - 1 : types[k].fixedSize) => p + z = x /\ q + w = v
      /\ (\A k \in a .. y - 1 : types[k].fixedRefs) => q + w = v
  BY <1>c
<1>7. BitsIn(a, y) = x - z /\ RefsIn(a, y) = v - w
  BY DEF BitsIn, RefsIn
<1> HIDE DEF X, x, z, v, w, p, q
<1>8. (p + z = x => x - z = p) /\ (q + w = v => v - w = q)
  BY <1>6
<1>9. (\A m \in a .. y - 1 : types[m].fixedSize) => BitsIn(a, y) = p /\ RefsIn(a, y) = q
  BY <1>6, <1>7, <1>8
<1>10. (\A m \in a .. y - 1 : types[m].fixedRefs) => RefsIn(a, y) = q
  BY <1>6, <1>7, <1>8
<1>11. E[y - 1] = IF y <= last /\ load[y] THEN OneCell(X) ELSE X
  BY <1>5
<1>12. SliceAt(h, E, last, a) = Cat(C, E[y - 1]) /\ IsSlice(SliceAt(h, E, last, a))
  BY <1>3, <1>4
<1>13. C = Contents(h, a, y) /\ X = SliceAt(h, E, last, y) /\ p = Bits(C) /\ q = Len(C.refs)
  BY DEF C, X, p, q
<1>14. IsPiece(h, E, last, a, y, C)
  BY <1>4, <1>5, <1>9, <1>10, <1>11, <1>12, <1>13 DEF IsPiece
<1> QED BY <1>14 DEF C

(* What is known of the part that begins at a.                              *)
LEMMA KeptPart ==
    ASSUME NEW h, NEW E, NEW pb, NEW pr, NEW N, NEW U, NEW needed, NEW last, NEW b, NEW g,
           IsTaking(h, E, pb, pr, N, U, needed, last, b, g), NEW a \in U + 1 .. last, a \notin needed, NEW y, y = NextPart(needed, a)
    PROVE  /\ y \in a + 1 .. last /\ IsPiece(h, E, last, a, y, Contents(h, a, y))
           /\ PartAt(needed, g, a) = [slice |-> Contents(h, a, y)]
<1>1. IsWalk(h, E, pb, pr, N, U, needed, last) /\ \A k \in 1 .. N : k \notin needed => g[k] = h[k]
  BY DEF IsTaking
<1>2. N \in Nat /\ U \in 0 .. N /\ last \in U + 1 .. N
  BY <1>1, WalkFacts
<1>3. y \in a + 1 .. last + 1 /\ OneStretch(load, a, y) /\ y <= to(needed, a) /\ y <= last
  BY <1>1, NextPartIs
<1>4. y \in a + 1 .. last
  BY <1>2, <1>3
<1>5. IsPiece(h, E, last, a, y, Contents(h, a, y))
  BY <1>1, <1>3, PieceFacts
<1>6. IsStretch(needed, last, a, to(needed, a))
  BY <1>1, StretchFacts
<1> DEFINE e == to(needed, a)
<1>7. e \in a + 1 .. last + 1 /\ \A k \in a .. e - 1 : k \notin needed
  <2> HIDE DEF e
  <2>1. IsStretch(needed, last, a, e)
    BY <1>6 DEF e
  <2> QED BY <2>1 DEF IsStretch
<1>8. y <= e
  BY <1>3
<1> HIDE DEF e
<1>9. \A k \in a .. y - 1 : g[k] = h[k]
  <2>1. ASSUME NEW k \in a .. y - 1 PROVE g[k] = h[k]
    <3>1. k \in a .. e - 1 /\ k \in 1 .. N
      BY <1>2, <1>4, <1>7, <1>8
    <3>2. k \notin needed
      BY <1>7, <3>1
    <3> QED BY <1>1, <3>1, <3>2
  <2> QED BY <2>1
<1>10. Contents(g, a, y) = Contents(h, a, y)
  <2>1. a \in Nat \ {0} /\ y \in Nat \ {0} /\ a <= y
    BY <1>2, <1>4
  <2> QED BY <1>9, <2>1, SameContents
<1>11. PartAt(needed, g, a) = [slice |-> Contents(h, a, y)]
  BY <1>10 DEF PartAt
<1> QED BY <1>4, <1>5, <1>11

(* One value in an empty builder.                                           *)
LEMMA StoreAlone ==
    ASSUME NEW v, NEW t, Fitting(v, t), t \in TypeSizes
    PROVE  Store(Empty, v) = Ahead(v, Empty)
<1>1. IsValue(v) /\ v.size.bits <= t.bits /\ v.size.refs <= t.refs
  BY DEF Fitting, Stored
<1>2. v.size.bits \in Nat /\ v.size.refs \in Nat
  BY <1>1 DEF IsValue
<1>3. t.bits \in Nat /\ t.bits <= CellBits /\ t.refs \in Nat /\ t.refs <= 3
  BY DEF TypeSizes, CellBits
<1>4. v.size.bits <= CellBits /\ v.size.refs <= CellRefs
  BY <1>1, <1>2, <1>3 DEF CellRefs, CellBits
<1>5. Bits(Empty) + v.size.bits <= CellBits /\ Len(Empty.refs) + v.size.refs <= CellRefs
  BY <1>2, <1>4, EmptyFacts
<1>6. Store(Empty, v) = Cat(Empty, Ahead(v, Empty))
  BY <1>1, <1>5, EmptyFacts, StoreIs
<1>7. IsSlice(Ahead(v, Empty))
  BY <1>1, EmptyFacts, FrontSlice
<1> QED BY <1>6, <1>7, CatEmpty

(* Values of fixed size are cut off together, others are loaded.            *)
LEMMA KeepRunStep ==
    ASSUME NEW h, NEW E, NEW pb, NEW pr, NEW N, NEW U, NEW needed, NEW last, NEW b, NEW g,
           IsTaking(h, E, pb, pr, N, U, needed, last, b, g),
           NEW k \in 0 .. N, b[k] \in U + 1 .. last, b[k] \notin needed, NEW e, e = to(needed, b[k]), ~load[e],
           NEW st, IsTaken(st, h, E, last, needed, g, b, k)
    PROVE  k + 1 \in 1 .. N /\ b[k + 1] \in b[k] + 1 .. e /\ IsTaken(KeepRun(st, e), h, E, last, needed, g, b, k + 1)
<1> DEFINE a == b[k]
           y == b[k + 1]
           s == SliceAt(h, E, last, a)
           parts == PartsUpTo(needed, g, b, k)
           C == Contents(h, a, y)
           X == SliceAt(h, E, last, y)
<1>1. IsWalk(h, E, pb, pr, N, U, needed, last) /\ IsParted(b, needed, last, U, N)
  BY DEF IsTaking
<1>2. N \in Nat /\ U \in 0 .. N /\ last \in U + 1 .. N
  BY <1>1, WalkFacts
<1>0. a \in U + 1 .. last
  OBVIOUS
<1>3. k + 1 \in 1 .. N /\ y = NextPart(needed, a)
  <2>1. a <= last
    BY <1>2
  <2>2. a <= last => a \in U + 1 .. last /\ k + 1 \in 1 .. N /\ y = NextPart(needed, a)
    BY <1>1, PartedOn
  <2> QED BY <2>1, <2>2
<1>4. y \in a + 1 .. last /\ IsPiece(h, E, last, a, y, C) /\ PartAt(needed, g, a) = [slice |-> C]
  BY <1>3, KeptPart
<1>5. y = EndOfRun(a, e)
  BY <1>3 DEF NextPart
<1>6. a \in Nat /\ e \in a + 1 .. last
  BY <1>1, <1>2, EndBeforeLast
<1>7. IsRunEnd(a, e, y)
  <2>1. e \in Nat /\ a < e
    BY <1>2, <1>6
  <2> HIDE DEF a
  <2> QED BY <1>5, <1>6, <2>1, EndOfRunIs
<1>8. y \in a + 1 .. e
  BY <1>7 DEF IsRunEnd
<1>9. load[y] = FALSE
  <2>1. IsStretch(needed, last, a, e)
    BY <1>1, StretchFacts
  <2>2. OneStretch(load, a, e)
    BY <2>1 DEF IsStretch
  <2>3. load[e] \in BOOLEAN
    <3>1. e \in 1 .. N
      BY <1>2, <1>6
    <3> QED BY <1>1, <3>1, WalkFacts
  <2>4. CASE y = e
    BY <2>3, <2>4
  <2>5. CASE y # e
    <3>1. y \in a + 1 .. e - 1
      BY <1>6, <1>8, <2>5
    <3> QED BY <2>2, <3>1 DEF OneStretch
  <2> QED BY <2>4, <2>5
<1>10. PICK cur, ok : st = TakeAt(h, E, last, needed, g, b, k, cur, ok)
  BY DEF IsTaken
<1>11. st = State(a, s, parts, cur, ok)
  BY <1>10 DEF TakeAt
<1>12. IsSkipped(Skipped(st, a, y), a, s, parts)
  <2> HIDE DEF a, y, s, parts
  <2>1. IsSkipped(st, a, s, parts)
    BY <1>11 DEF IsSkipped
  <2> QED BY <2>1, SkippedIs
<1>13. PICK p, q : Skipped(st, a, y) = State(a, s, parts, p, q)
  BY <1>12 DEF IsSkipped
<1> DEFINE sk == Skipped(st, a, y)
<1>14. sk = State(a, s, parts, p, q)
  BY <1>13
<1> HIDE DEF a, y, s, parts, C, X, sk
<1>15. st.i = a /\ st.slice = s /\ st.parts = parts
  BY <1>11, StateParts
<1>16. sk.parts = parts /\ \A x, u, v : WithPart(sk, x, u, v) = State(x, u, v, p, q)
  BY <1>14, StateParts
<1>17. s = Cat(C, E[y - 1]) /\ IsSlice(C) /\ IsSlice(E[y - 1]) /\ IsSlice(s) /\ E[y - 1] = X
  BY <1>4, <1>9 DEF IsPiece, s, X
<1>18. s # Broken
  BY <1>17, NotBroken DEF IsSlice
<1>19. parts \o SlicePart(C) = PartsUpTo(needed, g, b, k + 1)
  <2> DEFINE z == [slice |-> C]
  <2>1. z = PartAt(needed, g, b[k]) /\ k \in Nat
    BY <1>2, <1>4 DEF a
  <2>2. SlicePart(C) = <<z>>
    BY DEF SlicePart
  <2> HIDE DEF z
  <2>3. PartsUpTo(needed, g, b, k) \o <<z>> = PartsUpTo(needed, g, b, k + 1)
    BY <2>1, OnePart
  <2> QED BY <2>2, <2>3 DEF parts
<1>20. KeepRun(st, e) = State(y, X, parts \o SlicePart(C), p, q)
  <2>1. CASE types[a].fixedSize
    <3> DEFINE c == Cut(s, BitsIn(a, y), RefsIn(a, y))
    <3>1. KeepRun(st, e) = WithPart(sk, y, IF c = Broken THEN Broken ELSE c.back,
                                    IF c = Broken THEN sk.parts ELSE sk.parts \o SlicePart(c.front))
      BY <1>5, <1>15, <1>18, <2>1 DEF KeepRun, WithPart, sk
    <3>2. \A m \in a .. y - 1 : types[m].fixedSize
      <4>1. ASSUME NEW m \in a .. y - 1 PROVE types[m].fixedSize
        <5>1. CASE m = a
          BY <2>1, <5>1
        <5>2. CASE m # a
          <6>1. m \in a + 1 .. y - 1
            BY <1>6, <1>8, <5>2
          <6> QED BY <1>7, <6>1 DEF IsRunEnd
        <5> QED BY <5>1, <5>2
      <4> QED BY <4>1
    <3>3. BitsIn(a, y) = Bits(C) /\ RefsIn(a, y) = Len(C.refs)
      BY <1>4, <3>2 DEF IsPiece
    <3>4. Cut(Cat(C, X), Bits(C), Len(C.refs)) = [front |-> C, back |-> X]
      BY <1>17, CutFront
    <3>5. c = [front |-> C, back |-> X]
      BY <1>17, <3>3, <3>4
    <3> HIDE DEF c
    <3>6. c # Broken
      BY <3>5 DEF Broken
    <3>7. c.front = C /\ c.back = X
      BY <3>5
    <3>8. KeepRun(st, e) = WithPart(sk, y, X, parts \o SlicePart(C))
      BY <1>16, <3>1, <3>6, <3>7
    <3> QED BY <1>16, <3>8
  <2>2. CASE ~types[a].fixedSize
    <3> DEFINE l == Load(types[a], s)
    <3>1. KeepRun(st, e) = WithPart(sk, y, IF l = Broken THEN Broken ELSE l.rest,
                                    IF l = Broken THEN sk.parts ELSE sk.parts \o ValuePart(l.value))
      BY <1>5, <1>15, <1>18, <2>2 DEF KeepRun, WithPart, sk
    <3>2. y = a + 1
      <4>1. \A m \in a + 1 .. y - 1 : FALSE
        BY <1>7, <2>2 DEF IsRunEnd
      <4>2. ~(a + 1 <= y - 1)
        <5>1. SUFFICES ASSUME a + 1 <= y - 1 PROVE FALSE
          OBVIOUS
        <5>2. a + 1 \in a + 1 .. y - 1
          BY <1>6, <1>8, <5>1
        <5> QED BY <4>1, <5>2
      <4> QED BY <1>6, <1>8, <4>2
    <3>3. a \in 1 .. N /\ y - 1 = a
      BY <1>0, <1>2, <3>2
    <3>4. Laid(types, load, h, E, pb, pr, N)
      BY <1>1, WalkFacts
    <3>5. Fitting(h[a], types[a]) /\ types[a] \in TypeSizes /\ IsSlice(E[a])
      <4>1. \A i \in 1 .. N : types[i] \in TypeSizes
        BY <3>4, LaidFacts
      <4>2. \A i \in 1 .. N : Fitting(h[i], types[i])
        BY <3>4 DEF Laid
      <4> QED BY <1>17, <3>3, <4>1, <4>2
    <3>6. s = Ahead(h[a], E[a])
      <4>1. a <= last
        BY <1>2, <1>6
      <4> QED BY <4>1 DEF SliceAt, s
    <3>7. Load(types[a], Ahead(h[a], E[a])) = [value |-> h[a], rest |-> E[a]]
      <4>1. Stored(h[a], types[a])
        BY <3>5 DEF Fitting
      <4> QED BY <3>5, <4>1, LoadFront
    <3>8. l = [value |-> h[a], rest |-> X]
      BY <1>17, <3>3, <3>6, <3>7
    <3> HIDE DEF l
    <3>9. l # Broken /\ l.value = h[a] /\ l.rest = X
      BY <3>8 DEF Broken
    <3>10. Store(Empty, h[a]) = C
      <4>1. Contents(h, a, a + 1) = Ahead(h[a], Empty)
        <5>1. a \in Nat \ {0}
          BY <1>2, <3>3
        <5> QED BY <5>1, ContentsOne
      <4>2. Store(Empty, h[a]) = Ahead(h[a], Empty)
        BY <3>5, StoreAlone
      <4> QED BY <3>2, <4>1, <4>2 DEF C
    <3>11. ValuePart(h[a]) = SlicePart(C)
      BY <3>10 DEF ValuePart, SlicePart
    <3>12. KeepRun(st, e) = WithPart(sk, y, X, parts \o SlicePart(C))
      BY <1>16, <3>1, <3>9, <3>11
    <3> QED BY <1>16, <3>12
  <2> QED BY <2>1, <2>2
<1>21. KeepRun(st, e) = TakeAt(h, E, last, needed, g, b, k + 1, p, q)
  BY <1>19, <1>20 DEF TakeAt, y, X
<1>22. IsTaken(KeepRun(st, e), h, E, last, needed, g, b, k + 1)
  BY <1>21 DEF IsTaken
<1> QED BY <1>3, <1>8, <1>22 DEF a, y

(* What remains of a slice without the last reference.                      *)
LEMMA WithoutCell ==
    ASSUME NEW C, NEW X, IsSlice(C), IsSlice(X), NEW s, s = Cat(C, OneCell(X))
    PROVE  /\ s # Broken /\ Len(s.refs) = Len(C.refs) + 1 /\ Len(C.refs) \in Nat /\ RefAt(s, Len(C.refs)) = X
           /\ [s EXCEPT !.refs = SubSeq(s.refs, 1, Len(C.refs))] = C
           /\ Len(C.refs) = 0 => NextCell(s) = X /\ WithoutRef(s) = C
<1>1. /\ IsSlice(s) /\ Len(s.refs) = Len(C.refs) + 1 /\ Len(C.refs) \in Nat /\ RefAt(s, Len(C.refs)) = X
      /\ SubSeq(s.refs, 1, Len(C.refs)) = C.refs /\ s.bits = C.bits
  BY CellBehind
<1>2. s = [bits |-> s.bits, refs |-> s.refs] /\ s # Broken
  <2>1. s = [bits |-> s.bits, refs |-> s.refs]
    BY <1>1 DEF IsSlice
  <2> QED BY <2>1, NotBroken
<1>3. C = [bits |-> C.bits, refs |-> C.refs] /\ IsList(C.refs)
  BY DEF IsSlice
<1>4. \A r : [s EXCEPT !.refs = r] = [bits |-> s.bits, refs |-> r]
  BY <1>2
<1>5. [s EXCEPT !.refs = SubSeq(s.refs, 1, Len(C.refs))] = C
  BY <1>1, <1>3, <1>4
<1>6. ASSUME Len(C.refs) = 0 PROVE NextCell(s) = X /\ WithoutRef(s) = C
  <2> DEFINE one == <<[to |-> X]>>
  <2>1. C.refs = <<>>
    BY <1>3, <1>6 DEF IsList
  <2>2. s.refs = <<>> \o one
    BY <2>1 DEF Cat, OneCell
  <2>3. s.refs = one
    <3>1. IsList(one)
      BY OneList
    <3> HIDE DEF one
    <3>2. <<>> \o one = one
      BY <3>1, CatNothing
    <3> QED BY <2>2, <3>2
  <2>4. one # <<>> /\ Head(one).to = X /\ Tail(one) = <<>>
    OBVIOUS
  <2>5. DOMAIN X = DOMAIN Empty
    BY DEF IsSlice, Empty
  <2> HIDE DEF one
  <2>6. NextCell(s) = X
    BY <1>2, <2>3, <2>4, <2>5 DEF NextCell, isCell
  <2>7. WithoutRef(s) = [s EXCEPT !.refs = Tail(s.refs)]
    BY <1>2 DEF WithoutRef
  <2>8. WithoutRef(s) = [bits |-> s.bits, refs |-> <<>>]
    BY <1>4, <2>3, <2>4, <2>7
  <2> QED BY <1>1, <1>3, <2>1, <2>6, <2>8
<1> QED BY <1>1, <1>2, <1>5, <1>6

(* The rest of a cell is kept as one part, without the reference to the     *)
(* next one.                                                                *)
LEMMA KeepCellIs ==
    ASSUME NEW h, NEW E, NEW pb, NEW pr, NEW N, NEW U, NEW needed, NEW last, NEW b, NEW g,
           IsTaking(h, E, pb, pr, N, U, needed, last, b, g),
           NEW k \in 0 .. N, b[k] \in U + 1 .. last, b[k] \notin needed, load[to(needed, b[k])],
           NEW st, IsTaken(st, h, E, last, needed, g, b, k)
    PROVE  k + 1 \in 1 .. N /\ b[k + 1] \in b[k] + 1 .. last + 1 /\ IsTaken(KeepCellStep(needed, st), h, E, last, needed, g, b, k + 1)
<1> DEFINE a == b[k]
           y == b[k + 1]
           s == SliceAt(h, E, last, a)
           parts == PartsUpTo(needed, g, b, k)
           C == Contents(h, a, y)
           X == SliceAt(h, E, last, y)
           n == Len(C.refs)
<1>1. IsWalk(h, E, pb, pr, N, U, needed, last) /\ IsParted(b, needed, last, U, N)
  BY DEF IsTaking
<1>2. N \in Nat /\ U \in 0 .. N /\ last \in U + 1 .. N
  BY <1>1, WalkFacts
<1>0. a \in U + 1 .. last
  OBVIOUS
<1>3. k + 1 \in 1 .. N /\ y = NextPart(needed, a)
  <2>1. a <= last
    BY <1>2
  <2>2. a <= last => a \in U + 1 .. last /\ k + 1 \in 1 .. N /\ y = NextPart(needed, a)
    BY <1>1, PartedOn
  <2> QED BY <2>1, <2>2
<1>4. y \in a + 1 .. last /\ IsPiece(h, E, last, a, y, C) /\ PartAt(needed, g, a) = [slice |-> C]
  BY <1>3, KeptPart
<1>5. y = to(needed, a) /\ load[y]
  BY <1>3 DEF NextPart
<1>6. y \in a + 1 .. last + 1 /\ y <= last
  BY <1>0, <1>2, <1>4
<1>10. PICK cur, ok : st = TakeAt(h, E, last, needed, g, b, k, cur, ok)
  BY DEF IsTaken
<1>11. st = State(a, s, parts, cur, ok)
  BY <1>10 DEF TakeAt
<1>12. IsSkipped(Skipped(st, a, y), a, s, parts)
  <2> HIDE DEF a, y, s, parts
  <2>1. IsSkipped(st, a, s, parts)
    BY <1>11 DEF IsSkipped
  <2> QED BY <2>1, SkippedIs
<1>13. PICK p, q : Skipped(st, a, y) = State(a, s, parts, p, q)
  BY <1>12 DEF IsSkipped
<1> DEFINE sk == Skipped(st, a, y)
<1>14. sk = State(a, s, parts, p, q)
  BY <1>13
<1> HIDE DEF a, y, s, parts, C, X, sk
<1>15. st.i = a /\ st.slice = s /\ st.parts = parts
  BY <1>11, StateParts
<1>16. sk.parts = parts /\ \A x, u, v : WithPart(sk, x, u, v) = State(x, u, v, p, q)
  BY <1>14, StateParts
<1>17. s = Cat(C, OneCell(X)) /\ IsSlice(C) /\ IsSlice(X)
  BY <1>4, <1>5, <1>6 DEF IsPiece, s, X
<1>18. /\ s # Broken /\ Len(s.refs) = n + 1 /\ n \in Nat /\ RefAt(s, n) = X
       /\ [s EXCEPT !.refs = SubSeq(s.refs, 1, n)] = C
       /\ n = 0 => NextCell(s) = X /\ WithoutRef(s) = C
  BY <1>17, WithoutCell
<1>19. parts \o SlicePart(C) = PartsUpTo(needed, g, b, k + 1)
  <2> DEFINE z == [slice |-> C]
  <2>1. z = PartAt(needed, g, b[k]) /\ k \in Nat
    BY <1>2, <1>4 DEF a
  <2>2. SlicePart(C) = <<z>>
    BY DEF SlicePart
  <2> HIDE DEF z
  <2>3. PartsUpTo(needed, g, b, k) \o <<z>> = PartsUpTo(needed, g, b, k + 1)
    BY <2>1, OnePart
  <2> QED BY <2>2, <2>3 DEF parts
<1> DEFINE zero == fixedRefs(a, y) /\ RefsIn(a, y) = 0
           m == Len(s.refs)
<1>20. KeepCellStep(needed, st) =
          IF s = Broken \/ m = 0 THEN [st EXCEPT !.i = y, !.slice = Broken]
          ELSE WithPart(sk, y, IF zero THEN NextCell(s) ELSE RefAt(s, m - 1),
                        sk.parts \o SlicePart(IF zero THEN WithoutRef(s) ELSE [s EXCEPT !.refs = SubSeq(s.refs, 1, m - 1)]))
  BY <1>5, <1>15, <1>18 DEF KeepCellStep, WithPart, sk
<1>21. zero => n = 0
  BY <1>4 DEF IsPiece, fixedRefs
<1> HIDE DEF zero, n, m
<1>22. m # 0 /\ m - 1 = n
  BY <1>18 DEF m
<1>23. KeepCellStep(needed, st) = WithPart(sk, y, X, parts \o SlicePart(C))
  <2>1. KeepCellStep(needed, st) =
          WithPart(sk, y, IF zero THEN NextCell(s) ELSE RefAt(s, n),
                   sk.parts \o SlicePart(IF zero THEN WithoutRef(s) ELSE [s EXCEPT !.refs = SubSeq(s.refs, 1, n)]))
    BY <1>18, <1>20, <1>22
  <2>2. (IF zero THEN NextCell(s) ELSE RefAt(s, n)) = X
    BY <1>18, <1>21
  <2>3. (IF zero THEN WithoutRef(s) ELSE [s EXCEPT !.refs = SubSeq(s.refs, 1, n)]) = C
    BY <1>18, <1>21
  <2> QED BY <1>16, <2>1, <2>2, <2>3
<1>24. KeepCellStep(needed, st) = TakeAt(h, E, last, needed, g, b, k + 1, p, q)
  BY <1>16, <1>19, <1>23 DEF TakeAt, y, X
<1>25. IsTaken(KeepCellStep(needed, st), h, E, last, needed, g, b, k + 1)
  BY <1>24 DEF IsTaken
<1> QED BY <1>3, <1>6, <1>25 DEF a, y

(***************************************************************************)
(* The loops of packData, all in one.                                      *)
(***************************************************************************)
SkipStep(needed, s) ==
    [Skipped(s, s.i, to(needed, s.i)) EXCEPT
        !.i = to(needed, s.i), !.slice = skipTypesAndLoadCellIfNeeded(needed, s.i, @)]

Step(loop, needed, x, s) ==
    CASE loop = "skip" -> SkipStep(needed, s)
      [] loop = "keep" -> KeepRun(s, x)
      [] loop = "take" -> TakeApartStep(needed, x, s)
      [] loop = "put" -> PutStep(needed, x, s)

Moves(f, loop, needed, x, first, n) ==
    f[0] = first /\ \A k \in 1 .. n : f[k] = IF f[k - 1].i > n THEN f[k - 1] ELSE Step(loop, needed, x, f[k - 1])
IsLoop(f, loop, needed, x, first, n) ==
    f = [k \in 0 .. n |-> IF k = 0 THEN first ELSE IF f[k - 1].i > n THEN f[k - 1] ELSE Step(loop, needed, x, f[k - 1])]

(* Steps are taken one after another.                                       *)
LEMMA MovesExist ==
    ASSUME NEW loop, NEW needed, NEW x, NEW first, NEW n \in Nat
    PROVE  \E f : f = [k \in 0 .. n |-> f[k]] /\ Moves(f, loop, needed, x, first, n)
<1> DEFINE Next1(s) == IF s.i > n THEN s ELSE Step(loop, needed, x, s)
           Good(f, m) == f = [k \in 0 .. m |-> f[k]] /\ f[0] = first /\ \A k \in 1 .. m : f[k] = Next1(f[k - 1])
           T == {m \in 0 .. n : \E f : Good(f, m)}
<1>1. 0 \in T
  <2> DEFINE f == [k \in 0 .. 0 |-> first]
  <2> HIDE DEF Next1
  <2>1. Good(f, 0)
    OBVIOUS
  <2> HIDE DEF Good, f
  <2> QED BY <2>1
<1>2. ASSUME NEW m \in 1 .. n, m - 1 \in T PROVE m \in T
  <2> HIDE DEF Next1
  <2>1. PICK f : Good(f, m - 1)
    BY <1>2
  <2> DEFINE z == Next1(f[m - 1])
             g == [k \in 0 .. m |-> IF k < m THEN f[k] ELSE z]
  <2>2. g[0] = first /\ g = [k \in 0 .. m |-> g[k]]
    BY <2>1
  <2>3. ASSUME NEW k \in 1 .. m PROVE g[k] = Next1(g[k - 1])
    <3>1. k - 1 \in 0 .. m /\ k - 1 < m /\ k \in 0 .. m
      OBVIOUS
    <3>2. g[k - 1] = f[k - 1]
      BY <3>1
    <3>3. CASE k < m
      <4>1. k \in 1 .. m - 1 /\ g[k] = f[k]
        BY <3>1, <3>3
      <4> HIDE DEF g
      <4> QED BY <2>1, <3>2, <4>1
    <3>4. CASE k = m
      <4>1. g[k] = z
        BY <3>1, <3>4
      <4> HIDE DEF g
      <4> QED BY <3>2, <3>4, <4>1
    <3> QED BY <3>3, <3>4
  <2> HIDE DEF g
  <2>4. Good(g, m)
    BY <2>2, <2>3
  <2> HIDE DEF Good
  <2> QED BY <2>4
<1>3. n \in T
  <2> HIDE DEF T
  <2>1. \A m \in 0 .. n : m \in T
    BY <1>1, <1>2, Upwards
  <2> QED BY <2>1
<1>4. PICK f : Good(f, n)
  BY <1>3
<1>5. Moves(f, loop, needed, x, first, n)
  BY <1>4 DEF Moves
<1> QED BY <1>4, <1>5

(* The function that the model chooses takes these steps.                   *)
LEMMA LoopMoves ==
    ASSUME NEW loop, NEW needed, NEW x, NEW first, NEW n \in Nat, NEW g, g = CHOOSE f : IsLoop(f, loop, needed, x, first, n)
    PROVE  Moves(g, loop, needed, x, first, n)
<1>1. PICK f : f = [k \in 0 .. n |-> f[k]] /\ Moves(f, loop, needed, x, first, n)
  BY MovesExist
<1>2. IsLoop(f, loop, needed, x, first, n)
  <2>1. ASSUME NEW k \in 0 .. n
        PROVE  f[k] = IF k = 0 THEN first ELSE IF f[k - 1].i > n THEN f[k - 1] ELSE Step(loop, needed, x, f[k - 1])
    <3>1. k = 0 \/ k \in 1 .. n
      OBVIOUS
    <3> QED BY <1>1, <3>1 DEF Moves
  <2> QED BY <1>1, <2>1 DEF IsLoop
<1>3. IsLoop(g, loop, needed, x, first, n)
  BY <1>2, Zenon
<1>4. \A k \in 0 .. n : g[k] = IF k = 0 THEN first ELSE IF g[k - 1].i > n THEN g[k - 1] ELSE Step(loop, needed, x, g[k - 1])
  BY <1>3 DEF IsLoop
<1>5. g[0] = first
  <2>1. 0 \in 0 .. n
    OBVIOUS
  <2> QED BY <1>4, <2>1
<1>6. ASSUME NEW k \in 1 .. n PROVE g[k] = IF g[k - 1].i > n THEN g[k - 1] ELSE Step(loop, needed, x, g[k - 1])
  <2>1. k \in 0 .. n /\ k # 0
    OBVIOUS
  <2> QED BY <1>4, <2>1
<1> QED BY <1>5, <1>6 DEF Moves

(* What holds of the first state and is kept by every step that is taken    *)
(* holds at the end, if the index grows.                                    *)
IsKept(g, S, loop, needed, x, first, n) ==
    /\ first \in S /\ Moves(g, loop, needed, x, first, n)
    /\ \A s \in S : s.i \in Nat /\ s.i > 0
    /\ \A k \in 1 .. n : LET s == g[k - 1] IN s \in S /\ ~(s.i > n) => Step(loop, needed, x, s) \in S /\ s.i < Step(loop, needed, x, s).i

(* By induction on the steps.                                               *)
LEMMA LoopEnds ==
    ASSUME NEW loop, NEW needed, NEW x, NEW first, NEW n \in Nat, NEW S, NEW g, IsKept(g, S, loop, needed, x, first, n)
    PROVE  g[n] \in S /\ g[n].i > n
<1>1. g[0] = first /\ \A k \in 1 .. n : g[k] = IF g[k - 1].i > n THEN g[k - 1] ELSE Step(loop, needed, x, g[k - 1])
  BY DEF IsKept, Moves
<1>2. first \in S /\ \A s \in S : s.i \in Nat /\ s.i > 0
  BY DEF IsKept
<1>3. ASSUME NEW k \in 1 .. n, g[k - 1] \in S
      PROVE  IF g[k - 1].i > n THEN g[k] = g[k - 1] ELSE g[k] \in S /\ g[k - 1].i < g[k].i
  <2> DEFINE s == g[k - 1]
  <2>1. s \in S /\ ~(s.i > n) => Step(loop, needed, x, s) \in S /\ s.i < Step(loop, needed, x, s).i
    BY DEF IsKept
  <2>2. g[k] = IF s.i > n THEN s ELSE Step(loop, needed, x, s)
    BY <1>1
  <2>3. s \in S
    BY <1>3
  <2> HIDE DEF s
  <2>4. IF s.i > n THEN g[k] = s ELSE g[k] \in S /\ s.i < g[k].i
    BY <2>1, <2>2, <2>3
  <2> QED BY <2>4 DEF s
<1>4. RunSteps(g, S, n)
  BY <1>1, <1>2, <1>3 DEF RunSteps
<1> QED BY <1>4, RunEnds

LoopOf(loop, needed, x, first, n) == (CHOOSE f : IsLoop(f, loop, needed, x, first, n))[n]

(* Which step is which.                                                     *)
LEMMA StepIs ==
    ASSUME NEW needed, NEW x, NEW s
    PROVE  /\ Step("skip", needed, x, s) = SkipStep(needed, s) /\ Step("keep", needed, x, s) = KeepRun(s, x)
           /\ Step("take", needed, x, s) = TakeApartStep(needed, x, s) /\ Step("put", needed, x, s) = PutStep(needed, x, s)
BY DEF Step

(* The loop over runs of old values, in TakeApartStep, ...                  *)
LEMMA KeepLoop ==
    ASSUME NEW st, NEW end, NEW needed
    PROVE  Iterate(LAMBDA s : KeepRun(s, end), st, end - 1) = LoopOf("keep", needed, end, st, end - 1)
<1> DEFINE n == end - 1
<1>1. \A f : IsLoop(f, "keep", needed, end, st, n) <=>
              f = [k \in 0 .. n |-> IF k = 0 THEN st ELSE IF f[k - 1].i > n THEN f[k - 1] ELSE KeepRun(f[k - 1], end)]
  BY StepIs DEF IsLoop
<1>2. Iterate(LAMBDA s : KeepRun(s, end), st, n) =
        (CHOOSE f : f = [k \in 0 .. n |-> IF k = 0 THEN st ELSE IF f[k - 1].i > n THEN f[k - 1] ELSE KeepRun(f[k - 1], end)])[n]
  BY DEF Iterate
<1> QED BY SMTT(20), ZenonT(20), <1>1, <1>2 DEF LoopOf

IsSkipRun(f, needed, first, last) ==
    f = [k \in 0 .. last |->
           IF k = 0 THEN first
           ELSE IF f[k - 1].i > last THEN f[k - 1]
           ELSE [Skipped(f[k - 1], f[k - 1].i, to(needed, f[k - 1].i)) EXCEPT
                    !.i = to(needed, f[k - 1].i), !.slice = skipTypesAndLoadCellIfNeeded(needed, f[k - 1].i, @)]]

(* ... the loop that skips old values, in ReplaceStep, ...                  *)
LEMMA SkipLoop ==
    ASSUME NEW needed, NEW new, NEW st, NEW next, next = EndOfNeeded(needed, st.i), NEW news,
           news = [k \in 1 .. (next - st.i) |-> [value |-> new[st.i + k - 1]]],
           ~(next = st.i + 1 /\ (next > lastIndexType(needed) \/ ~load[next])),
           NEW skip, skip = LoopOf("skip", needed, 0, st, next - 1)
    PROVE  ReplaceStep(needed, new, st) = WithParts(skip, skip.parts \o news)
<1> DEFINE n == next - 1
<1>1. \A f : IsLoop(f, "skip", needed, 0, st, n) <=>
              f = [k \in 0 .. n |-> IF k = 0 THEN st ELSE IF f[k - 1].i > n THEN f[k - 1] ELSE SkipStep(needed, f[k - 1])]
  BY StepIs DEF IsLoop
<1>2. \A f : IsSkipRun(f, needed, st, n) <=>
              f = [k \in 0 .. n |-> IF k = 0 THEN st ELSE IF f[k - 1].i > n THEN f[k - 1] ELSE SkipStep(needed, f[k - 1])]
  BY DEF IsSkipRun, SkipStep
<1> DEFINE z == (CHOOSE f : IsSkipRun(f, needed, st, n))[n]
<1>3. ReplaceStep(needed, new, st) = [z EXCEPT !.parts = @ \o [k \in 1 .. (next - st.i) |-> [value |-> new[st.i + k - 1]]]]
  <2> DEFINE y == Iterate(LAMBDA s : [Skipped(s, s.i, to(needed, s.i)) EXCEPT
                                        !.i = to(needed, s.i),
                                        !.slice = skipTypesAndLoadCellIfNeeded(needed, s.i, @)], st, next - 1)
  <2>1. ReplaceStep(needed, new, st) = [y EXCEPT !.parts = @ \o [k \in 1 .. (next - st.i) |-> [value |-> new[st.i + k - 1]]]]
    BY DEF ReplaceStep
  <2>2. y = z
    BY DEF Iterate, IsSkipRun
  <2> HIDE DEF y, z
  <2> QED BY <2>1, <2>2
<1>4. z = skip
  <2>1. skip = LoopOf("skip", needed, 0, st, n)
    OBVIOUS
  <2> HIDE DEF n
  <2>2. \A f : IsSkipRun(f, needed, st, n) <=> IsLoop(f, "skip", needed, 0, st, n)
    BY <1>1, <1>2
  <2> QED BY <2>1, <2>2 DEF LoopOf
<1>5. ReplaceStep(needed, new, st) = [z EXCEPT !.parts = @ \o news]
  BY <1>3
<1> HIDE DEF z
<1> QED BY <1>4, <1>5 DEF WithParts

IsOne(needed, st, next) == next = st.i + 1 /\ (next > lastIndexType(needed) \/ ~load[next])

(* ... which takes no loop for a single value, ...                          *)
LEMMA OneReplaced ==
    ASSUME NEW needed, NEW new, NEW st, NEW next, next = EndOfNeeded(needed, st.i), NEW news,
           news = [k \in 1 .. (next - st.i) |-> [value |-> new[st.i + k - 1]]], IsOne(needed, st, next),
           NEW l, l = Load(types[st.i], st.slice), l # Broken
    PROVE  ReplaceStep(needed, new, st) = WithPart(st, next, l.rest, st.parts \o news)
BY DEF ReplaceStep, WithPart, IsOne

(* ... the loop of TakeApart ...                                            *)
LEMMA TakeLoop ==
    ASSUME NEW needed, NEW new
    PROVE  TakeApart(needed, new) =
              LoopOf("take", needed, new, State(startIndexType, FirstSlice, <<>>, startIndexType, TRUE), lastIndexType(needed))
<1> DEFINE n == lastIndexType(needed)
           st == State(startIndexType, FirstSlice, <<>>, startIndexType, TRUE)
<1>1. \A f : IsLoop(f, "take", needed, new, st, n) <=>
              f = [k \in 0 .. n |-> IF k = 0 THEN st ELSE IF f[k - 1].i > n THEN f[k - 1] ELSE TakeApartStep(needed, new, f[k - 1])]
  <2> HIDE DEF st, n
  <2> QED BY StepIs DEF IsLoop
<1>2. TakeApart(needed, new) =
        (CHOOSE f : f = [k \in 0 .. n |-> IF k = 0 THEN st ELSE IF f[k - 1].i > n THEN f[k - 1] ELSE TakeApartStep(needed, new, f[k - 1])])[n]
  BY DEF TakeApart, Iterate, State
<1> HIDE DEF st, n
<1>3. TakeApart(needed, new) = LoopOf("take", needed, new, st, n)
  BY SMTT(20), ZenonT(20), <1>1, <1>2 DEF LoopOf
<1> QED BY <1>3 DEF st, n

FirstPut == [i |-> startIndexType, used |-> 0, bs |-> [full |-> <<>>, last |-> Empty]]

(* ... and that of PutTogether.                                             *)
LEMMA PutLoop ==
    ASSUME NEW needed, NEW t, NEW st, st = LoopOf("put", needed, t.parts, FirstPut, lastIndexType(needed))
    PROVE  PutTogether(needed, t) = Chained(st.bs.full, StoreSlice(st.bs.last, t.slice))
<1> DEFINE n == lastIndexType(needed)
           parts == t.parts
<1>1. \A f : IsLoop(f, "put", needed, parts, FirstPut, n) <=>
              f = [k \in 0 .. n |-> IF k = 0 THEN FirstPut ELSE IF f[k - 1].i > n THEN f[k - 1] ELSE PutStep(needed, parts, f[k - 1])]
  <2> HIDE DEF parts, n
  <2> QED BY StepIs DEF IsLoop
<1> DEFINE z == (CHOOSE f : f = [k \in 0 .. n |-> IF k = 0 THEN FirstPut ELSE IF f[k - 1].i > n THEN f[k - 1] ELSE PutStep(needed, parts, f[k - 1])])[n]
<1>2. PutTogether(needed, t) = Chained(z.bs.full, StoreSlice(z.bs.last, t.slice))
  BY DEF PutTogether, Iterate, FirstPut
<1>3. z = LoopOf("put", needed, parts, FirstPut, n)
  <2> HIDE DEF n, parts
  <2> QED BY <1>1 DEF LoopOf
<1>4. z = st
  BY <1>3
<1> HIDE DEF z
<1> QED BY <1>2, <1>4

(* Members that are all needed, one after another.                          *)
IsBlock(needed, last, i, j) == j \in i + 1 .. last + 1 /\ j \notin needed /\ \A k \in i .. j - 1 : k \in needed

(* They end where EndOfNeeded says.                                         *)
LEMMA EndOfNeededIs ==
    ASSUME NEW h, NEW E, NEW pb, NEW pr, NEW N, NEW U, NEW needed, NEW last, IsWalk(h, E, pb, pr, N, U, needed, last),
           NEW i \in U + 1 .. last, i \in needed
    PROVE  IsBlock(needed, last, i, EndOfNeeded(needed, i))
<1> DEFINE S == {j \in Nat : j \notin needed}
<1>1. N \in Nat /\ U \in 0 .. N /\ last \in Nat /\ last = lastIndexType(needed) /\ \A k \in needed : k <= last
  BY WalkFacts
<1>2. i \in Nat /\ i + 1 \in Nat /\ last + 1 \in Nat /\ i + 1 <= last + 1
  BY <1>1
<1>3. last + 1 \in S
  <2>1. last + 1 \notin needed
    <3>1. SUFFICES ASSUME last + 1 \in needed PROVE FALSE
      OBVIOUS
    <3>2. last + 1 <= last
      BY <1>1, <3>1
    <3> QED BY <1>1, <3>2
  <2> QED BY <1>2, <2>1
<1>4. PICK j \in i + 1 .. last + 1 : j \in S /\ \A k \in i + 1 .. j - 1 : k \notin S
  <2> HIDE DEF S
  <2> QED BY <1>2, <1>3, FirstIn
<1>5. \A k \in i .. j - 1 : k \in needed
  <2>1. ASSUME NEW k \in i .. j - 1 PROVE k \in needed
    <3>1. k = i \/ (k \in i + 1 .. j - 1 /\ k \in Nat)
      BY <1>2
    <3> QED BY <1>4, <3>1
  <2> QED BY <2>1
<1>6. IsBlock(needed, last, i, j)
  BY <1>4, <1>5 DEF IsBlock
<1>7. EndOfNeeded(needed, i) = CHOOSE x \in i + 1 .. last + 1 : x \notin needed /\ \A k \in i .. x - 1 : k \in needed
  BY <1>1 DEF EndOfNeeded
<1>8. \E x \in i + 1 .. last + 1 : x \notin needed /\ \A k \in i .. x - 1 : k \in needed
  BY <1>4, <1>5
<1>9. /\ EndOfNeeded(needed, i) \in i + 1 .. last + 1 /\ EndOfNeeded(needed, i) \notin needed
      /\ \A k \in i .. EndOfNeeded(needed, i) - 1 : k \in needed
  BY <1>7, <1>8, Zenon
<1> QED BY <1>9 DEF IsBlock

(* Each of them is a part.                                                  *)
LEMMA NeededParts ==
    ASSUME NEW h, NEW E, NEW pb, NEW pr, NEW N, NEW U, NEW needed, NEW last, IsWalk(h, E, pb, pr, N, U, needed, last),
           NEW b, IsParted(b, needed, last, U, N), NEW k \in 0 .. N, NEW a \in U + 1 .. last, b[k] = a,
           NEW next, IsBlock(needed, last, a, next)
    PROVE  \A m \in 0 .. next - a : k + m \in 0 .. N /\ b[k + m] = a + m
<1> DEFINE T == {m \in 0 .. next - a : k + m \in 0 .. N /\ b[k + m] = a + m}
           c == next - a
<1>1. N \in Nat /\ U \in 0 .. N /\ last \in U + 1 .. N
  BY WalkFacts
<1>2. a \in Nat /\ next \in a + 1 .. last + 1 /\ \A x \in a .. next - 1 : x \in needed
  BY <1>1 DEF IsBlock
<1>3. c \in Nat /\ 0 <= c /\ 0 \in Int /\ c \in Int
  BY <1>1, <1>2
<1>4. 0 \in T
  <2>1. 0 \in 0 .. c /\ k + 0 = k /\ a + 0 = a
    BY <1>2, <1>3
  <2> QED BY <2>1
<1>5. ASSUME NEW m \in 0 .. c - 1, m \in T PROVE m + 1 \in T
  <2> DEFINE q == k + m
             x == a + m
  <2>1. q \in 0 .. N /\ b[q] = x
    BY <1>5
  <2>2. x \in a .. next - 1 /\ x <= last /\ m + 1 \in 0 .. c /\ a + (m + 1) = x + 1 /\ k + (m + 1) = q + 1
    BY <1>1, <1>2, <1>3
  <2>3. x \in needed
    BY <1>2, <2>2
  <2> HIDE DEF q, x, c
  <2>4. b[q] <= last => b[q] \in U + 1 .. last /\ q + 1 \in 1 .. N /\ b[q + 1] = NextPart(needed, b[q])
    BY <2>1, PartedOn
  <2>5. q + 1 \in 1 .. N /\ b[q + 1] = NextPart(needed, x)
    BY <2>1, <2>2, <2>4
  <2>6. b[q + 1] = x + 1
    BY <2>3, <2>5 DEF NextPart
  <2>7. q + 1 \in 0 .. N
    BY <1>1, <2>5
  <2> QED BY <2>2, <2>6, <2>7 DEF c
<1>6. \A m \in 0 .. c : m \in T
  <2> HIDE DEF T, c
  <2> QED BY <1>3, <1>4, <1>5, UpFrom
<1> QED BY <1>6

(* They carry the new values.                                               *)
LEMMA NewParts ==
    ASSUME NEW h, NEW E, NEW pb, NEW pr, NEW N, NEW U, NEW needed, NEW last, IsWalk(h, E, pb, pr, N, U, needed, last),
           NEW b, IsParted(b, needed, last, U, N), NEW k \in 0 .. N, NEW a \in U + 1 .. last, b[k] = a,
           NEW next, IsBlock(needed, last, a, next), NEW g, NEW new, \A x \in needed : new[x] = g[x],
           NEW news, news = [j \in 1 .. next - a |-> [value |-> new[a + j - 1]]]
    PROVE  AreParts(needed, g, b, k, next - a, news)
<1> DEFINE c == next - a
<1>1. N \in Nat /\ U \in 0 .. N /\ last \in U + 1 .. N
  BY WalkFacts
<1>2. a \in Nat /\ next \in a + 1 .. last + 1 /\ \A x \in a .. next - 1 : x \in needed
  BY <1>1 DEF IsBlock
<1>3. c \in Nat
  BY <1>1, <1>2
<1>4. \A m \in 0 .. next - a : k + m \in 0 .. N /\ b[k + m] = a + m
  BY NeededParts
<1>5. ASSUME NEW j \in 1 .. c PROVE news[j] = PartAt(needed, g, b[k + j - 1])
  <2> DEFINE x == a + j - 1
             m == j - 1
  <2>1. x \in a .. next - 1 /\ m \in 0 .. next - a /\ a + m = x /\ k + m = k + j - 1
    BY <1>1, <1>2, <1>3
  <2>2. news[j] = [value |-> new[x]]
    OBVIOUS
  <2> HIDE DEF x, m
  <2>3. x \in needed /\ new[x] = g[x]
    BY <1>2, <2>1
  <2>4. b[k + j - 1] = x
    BY <1>4, <2>1
  <2>5. PartAt(needed, g, x) = [value |-> g[x]]
    BY <2>3 DEF PartAt
  <2> QED BY <2>2, <2>3, <2>4, <2>5
<1>6. news = [j \in 1 .. c |-> news[j]]
  OBVIOUS
<1> QED BY <1>5, <1>6 DEF AreParts

(* A step of the loop that skips members which are replaced.                *)
LEMMA SkipOn ==
    ASSUME NEW h, NEW E, NEW pb, NEW pr, NEW N, NEW U, NEW needed, NEW last, IsWalk(h, E, pb, pr, N, U, needed, last),
           NEW a \in U + 1 .. last, NEW next, IsBlock(needed, last, a, next), NEW parts,
           NEW j \in a .. next - 1, NEW s, IsSkipped(s, j, SliceAt(h, E, last, j), parts)
    PROVE  \E e \in j + 1 .. next : IsSkipped(SkipStep(needed, s), e, SliceAt(h, E, last, e), parts)
<1> DEFINE e == to(needed, j)
           X == SliceAt(h, E, last, j)
           Y == SliceAt(h, E, last, e)
           sk == Skipped(s, j, e)
<1>1. N \in Nat /\ U \in 0 .. N /\ last \in U + 1 .. N
  BY WalkFacts
<1>2. next \in a + 1 .. last + 1 /\ next \notin needed /\ \A x \in a .. next - 1 : x \in needed
  BY <1>1 DEF IsBlock
<1>3. j \in U + 1 .. last /\ j \in needed
  BY <1>1, <1>2
<1>4. IsStretch(needed, last, j, e)
  BY <1>3, StretchFacts
<1>5. skipTypesAndLoadCellIfNeeded(needed, j, X) = Y
  BY <1>3, SkipAndLoad
<1> HIDE DEF e
<1>6. e \in j + 1 .. last + 1 /\ \A x \in j .. e - 1 : (x \in needed) = (j \in needed)
  BY <1>4 DEF IsStretch
<1>7. e <= next
  <2>1. SUFFICES ASSUME ~(e <= next) PROVE FALSE
    OBVIOUS
  <2>2. next \in j .. e - 1
    BY <1>1, <1>2, <1>6, <2>1
  <2> QED BY <1>2, <1>3, <1>6, <2>2
<1>8. e \in j + 1 .. next
  BY <1>1, <1>2, <1>6, <1>7
<1>9. PICK c, x : s = State(j, X, parts, c, x)
  BY DEF IsSkipped
<1>10. IsSkipped(sk, j, X, parts)
  <2> HIDE DEF X
  <2> QED BY SkippedIs DEF X
<1>11. PICK p, q : sk = State(j, X, parts, p, q)
  BY <1>10 DEF IsSkipped
<1>12. s.i = j
  <2> HIDE DEF X
  <2> QED BY <1>9, StateParts
<1> HIDE DEF X, Y, sk
<1>13. SkipStep(needed, s) = [sk EXCEPT !.i = e, !.slice = skipTypesAndLoadCellIfNeeded(needed, j, sk.slice)]
  <2>1. to(needed, s.i) = e /\ Skipped(s, s.i, to(needed, s.i)) = sk
    BY <1>12 DEF e, sk
  <2> QED BY <1>12, <2>1 DEF SkipStep
<1>14. sk.slice = X /\ \A u, v : WithPlace(sk, u, v) = State(u, v, parts, p, q)
  BY <1>11, StateParts
<1>15. SkipStep(needed, s) = WithPlace(sk, e, Y)
  BY <1>5, <1>13, <1>14 DEF WithPlace
<1>16. SkipStep(needed, s) = State(e, Y, parts, p, q)
  BY <1>14, <1>15
<1>17. IsSkipped(SkipStep(needed, s), e, Y, parts)
  BY <1>16 DEF IsSkipped
<1> QED BY <1>8, <1>17 DEF Y

(* All of them.                                                             *)
LEMMA SkipRun ==
    ASSUME NEW h, NEW E, NEW pb, NEW pr, NEW N, NEW U, NEW needed, NEW last, IsWalk(h, E, pb, pr, N, U, needed, last),
           NEW a \in U + 1 .. last, NEW next, IsBlock(needed, last, a, next), NEW parts,
           NEW st, IsSkipped(st, a, SliceAt(h, E, last, a), parts), NEW skip, skip = LoopOf("skip", needed, 0, st, next - 1)
    PROVE  IsSkipped(skip, next, SliceAt(h, E, last, next), parts)
<1> DEFINE n == next - 1
           loop == "skip"
           x == 0
           f == CHOOSE z : IsLoop(z, loop, needed, x, st, n)
           Good(s) == \E j \in a .. next : IsSkipped(s, j, SliceAt(h, E, last, j), parts)
           S == {s \in {f[k] : k \in 0 .. n} : Good(s)}
<1>1. N \in Nat /\ U \in 0 .. N /\ last \in U + 1 .. N
  BY WalkFacts
<1>2. next \in a + 1 .. last + 1 /\ a \in Nat /\ a > 0
  BY <1>1 DEF IsBlock
<1>3. n \in Nat /\ next = n + 1 /\ a <= next
  BY <1>1, <1>2
<1>4. skip = f[n]
  BY DEF LoopOf
<1>5. \A s : Step(loop, needed, x, s) = SkipStep(needed, s)
  BY StepIs
<1> HIDE DEF n, loop, x
<1>6. Moves(f, loop, needed, x, st, n)
  <2> HIDE DEF f
  <2>1. f = CHOOSE z : IsLoop(z, loop, needed, x, st, n)
    BY DEF f
  <2> QED BY <1>3, <2>1, LoopMoves
<1> HIDE DEF f
<1>7. f[0] = st /\ \A k \in 1 .. n : f[k] = IF f[k - 1].i > n THEN f[k - 1] ELSE Step(loop, needed, x, f[k - 1])
  BY <1>6 DEF Moves
<1>8. ASSUME NEW s, NEW j, IsSkipped(s, j, SliceAt(h, E, last, j), parts) PROVE s.i = j
  <2> DEFINE X == SliceAt(h, E, last, j)
  <2>1. PICK p, q : s = State(j, X, parts, p, q)
    BY <1>8 DEF IsSkipped
  <2> HIDE DEF X
  <2> QED BY <2>1, StateParts
<1>9. Good(st)
  <2>1. a \in a .. next
    BY <1>1, <1>2, <1>3
  <2> QED BY <2>1
<1>10. st \in S
  <2>1. 0 \in 0 .. n
    BY <1>3
  <2> HIDE DEF Good
  <2> QED BY <1>7, <1>9, <2>1
<1>11. ASSUME NEW s \in S PROVE s.i \in Nat /\ s.i > 0
  <2>1. PICK j \in a .. next : IsSkipped(s, j, SliceAt(h, E, last, j), parts)
    OBVIOUS
  <2>2. s.i = j
    BY <1>8, <2>1
  <2> QED BY <1>1, <1>2, <2>2
<1>12. ASSUME NEW k \in 1 .. n, f[k - 1] \in S, ~(f[k - 1].i > n)
       PROVE  Step(loop, needed, x, f[k - 1]) \in S /\ f[k - 1].i < Step(loop, needed, x, f[k - 1]).i
  <2> DEFINE s == f[k - 1]
             w == Step(loop, needed, x, s)
  <2>1. PICK j \in a .. next : IsSkipped(s, j, SliceAt(h, E, last, j), parts)
    BY <1>12
  <2>2. w = f[k] /\ k \in 0 .. n
    BY <1>3, <1>7, <1>12
  <2>3. s.i = j /\ ~(s.i > n)
    BY <1>8, <1>12, <2>1
  <2> HIDE DEF s
  <2>4. j \in a .. next - 1
    BY <1>2, <1>3, <2>3
  <2>5. PICK e \in j + 1 .. next : IsSkipped(SkipStep(needed, s), e, SliceAt(h, E, last, e), parts)
    BY <2>1, <2>4, SkipOn
  <2>6. w = SkipStep(needed, s)
    BY <1>5
  <2> HIDE DEF w
  <2>7. IsSkipped(w, e, SliceAt(h, E, last, e), parts)
    BY <2>5, <2>6
  <2>8. w.i = e
    BY <1>8, <2>7
  <2>9. e \in a .. next
    BY <1>1, <1>2, <2>4, <2>5
  <2>10. Good(w)
    BY <2>7, <2>9
  <2>11. w \in S
    <3> HIDE DEF Good
    <3> QED BY <2>2, <2>10
  <2>12. s.i < w.i
    BY <1>1, <1>2, <2>3, <2>4, <2>5, <2>8
  <2> QED BY <2>11, <2>12 DEF s, w
<1>13. IsKept(f, S, loop, needed, x, st, n)
  <2> HIDE DEF S
  <2> QED BY <1>6, <1>10, <1>11, <1>12 DEF IsKept
<1>14. f[n] \in S /\ f[n].i > n
  <2> HIDE DEF S
  <2> QED BY <1>3, <1>13, LoopEnds
<1>15. PICK j \in a .. next : IsSkipped(f[n], j, SliceAt(h, E, last, j), parts)
  BY <1>14
<1>16. f[n].i = j
  BY <1>8, <1>15
<1>17. j = next
  BY <1>1, <1>2, <1>3, <1>14, <1>16
<1> QED BY <1>4, <1>15, <1>17

(* The new values take the place of the old ones.                           *)
LEMMA ReplaceIs ==
    ASSUME NEW h, NEW E, NEW pb, NEW pr, NEW N, NEW U, NEW needed, NEW last, NEW b, NEW g,
           IsTaking(h, E, pb, pr, N, U, needed, last, b, g), NEW new, \A x \in needed : new[x] = g[x],
           NEW k \in 0 .. N, b[k] \in U + 1 .. last, b[k] \in needed, NEW st, IsTaken(st, h, E, last, needed, g, b, k)
    PROVE  \E q \in 0 .. N : b[q] \in b[k] + 1 .. last + 1 /\ IsTaken(ReplaceStep(needed, new, st), h, E, last, needed, g, b, q)
<1> DEFINE a == b[k]
           next == EndOfNeeded(needed, a)
           X == SliceAt(h, E, last, a)
           Y == SliceAt(h, E, last, next)
           parts == PartsUpTo(needed, g, b, k)
           c == next - a
           news == [j \in 1 .. c |-> [value |-> new[a + j - 1]]]
           all == PartsUpTo(needed, g, b, k + c)
           r == ReplaceStep(needed, new, st)
<1>1. IsWalk(h, E, pb, pr, N, U, needed, last) /\ IsParted(b, needed, last, U, N)
  BY DEF IsTaking
<1>2. N \in Nat /\ U \in 0 .. N /\ last \in U + 1 .. N /\ last = lastIndexType(needed) /\ Laid(types, load, h, E, pb, pr, N)
      /\ last \in 0 .. N
  BY <1>1, WalkFacts
<1>3. a \in U + 1 .. last /\ a \in Nat /\ a \in needed
  BY <1>2
<1>4. IsBlock(needed, last, a, next)
  BY <1>1, <1>3, EndOfNeededIs
<1> HIDE DEF a
<1>5. PICK cur, ok : st = TakeAt(h, E, last, needed, g, b, k, cur, ok)
  BY DEF IsTaken
<1>6. st = State(a, X, parts, cur, ok)
  BY <1>5 DEF TakeAt, a
<1>7. a = b[k]
  BY DEF a
<1> HIDE DEF next
<1>8. AreParts(needed, g, b, k, c, news)
  BY <1>1, <1>3, <1>4, <1>7, NewParts
<1>9. \A m \in 0 .. next - a : k + m \in 0 .. N /\ b[k + m] = a + m
  BY <1>1, <1>3, <1>4, <1>7, NeededParts
<1>10. next \in a + 1 .. last + 1 /\ next \in Nat
  BY <1>2, <1>3, <1>4 DEF IsBlock
<1>11. c \in Nat /\ c \in 0 .. next - a /\ a + c = next
  BY <1>3, <1>10
<1>12. k + c \in 0 .. N /\ b[k + c] = next
  BY <1>9, <1>11
<1>13. parts \o news = all
  <2> HIDE DEF c, news
  <2>1. k \in Nat
    BY <1>2
  <2> QED BY <1>8, <1>11, <2>1, PartsMore
<1> HIDE DEF X, Y, parts, c, all
<1>14. st.i = a /\ st.slice = X /\ st.parts = parts /\ \A u, s, p : WithPart(st, u, s, p) = State(u, s, p, cur, ok)
  BY <1>6, StateParts
<1>15. next = EndOfNeeded(needed, st.i) /\ news = [j \in 1 .. next - st.i |-> [value |-> new[st.i + j - 1]]]
  BY <1>14 DEF next, c
<1> HIDE DEF news, r
<1>16. \E p, q : r = State(next, Y, all, p, q)
  <2>1. CASE next = a + 1 /\ (next > last \/ ~load[next])
    <3> DEFINE l == Load(types[a], X)
    <3>1. a \in 1 .. N /\ next \in 1 .. last + 1 /\ next - 1 = a /\ a <= last
      BY <1>2, <1>3, <1>10, <2>1
    <3>2. /\ next <= last => E[a] = IF load[next] THEN OneCell(Y) ELSE Y
          /\ ~(next <= last) => E[a] = Y
      BY <1>2, <3>1, SliceThere DEF Y
    <3>3. E[a] = Y
      BY <1>2, <1>10, <2>1, <3>2
    <3>4. Fitting(h[a], types[a]) /\ IsSlice(E[a])
      <4>1. \A i \in 1 .. N : Fitting(h[i], types[i])
        BY <1>2 DEF Laid
      <4>2. \A i \in 0 .. N : IsSlice(E[i])
        BY <1>2, LaidFacts
      <4>3. a \in 0 .. N
        BY <3>1
      <4> QED BY <3>1, <4>1, <4>2, <4>3
    <3>5. X = Ahead(h[a], E[a])
      BY <3>1 DEF SliceAt, X
    <3>6. Load(types[a], Ahead(h[a], E[a])) = [value |-> h[a], rest |-> E[a]]
      <4>1. Stored(h[a], types[a])
        BY <3>4 DEF Fitting
      <4> QED BY <3>4, <4>1, LoadFront
    <3>7. l = [value |-> h[a], rest |-> Y]
      BY <3>3, <3>5, <3>6
    <3>8. l = Load(types[st.i], st.slice)
      BY <1>14
    <3> HIDE DEF l
    <3>9. l # Broken /\ l.rest = Y
      BY <3>7 DEF Broken
    <3>10. IsOne(needed, st, next)
      BY <1>2, <1>14, <2>1 DEF IsOne
    <3>11. r = WithPart(st, next, l.rest, st.parts \o news)
      <4>1. l # Broken
        BY <3>9
      <4> QED BY <1>15, <3>8, <3>10, <4>1, OneReplaced DEF r
    <3>12. r = State(next, Y, all, cur, ok)
      BY <1>13, <1>14, <3>9, <3>11
    <3> QED BY <3>12
  <2>2. CASE ~(next = a + 1 /\ (next > last \/ ~load[next]))
    <3> DEFINE skip == LoopOf("skip", needed, 0, st, next - 1)
    <3>1. IsSkipped(st, a, SliceAt(h, E, last, a), parts)
      BY <1>6 DEF IsSkipped, X
    <3>2. IsSkipped(skip, next, SliceAt(h, E, last, next), parts)
      BY <1>1, <1>3, <1>4, <3>1, SkipRun
    <3>3. PICK p, q : skip = State(next, Y, parts, p, q)
      BY <3>2 DEF IsSkipped, Y
    <3>4. ~(next = st.i + 1 /\ (next > lastIndexType(needed) \/ ~load[next]))
      BY <1>2, <1>14, <2>2
    <3> HIDE DEF skip
    <3>5. skip = LoopOf("skip", needed, 0, st, next - 1)
      BY DEF skip
    <3>6. r = WithParts(skip, skip.parts \o news)
      BY <1>15, <3>4, <3>5, SkipLoop DEF r
    <3>7. skip.parts = parts /\ \A u : WithParts(skip, u) = State(next, Y, u, p, q)
      BY <3>3, StateParts
    <3>8. r = State(next, Y, all, p, q)
      BY <1>13, <3>6, <3>7
    <3> QED BY <3>8
  <2> QED BY <2>1, <2>2
<1>17. PICK p, q : r = State(next, Y, all, p, q)
  BY <1>16
<1>18. r = TakeAt(h, E, last, needed, g, b, k + c, p, q)
  BY <1>12, <1>17 DEF TakeAt, Y, all
<1>19. IsTaken(r, h, E, last, needed, g, b, k + c)
  BY <1>18 DEF IsTaken
<1>20. k + c \in 0 .. N /\ b[k + c] \in b[k] + 1 .. last + 1
  BY <1>7, <1>10, <1>12
<1> QED BY <1>19, <1>20 DEF r

(* Where the walk stands.                                                   *)
LEMMA TakenAt ==
    ASSUME NEW st, NEW h, NEW E, NEW last, NEW needed, NEW g, NEW b, NEW k, IsTaken(st, h, E, last, needed, g, b, k)
    PROVE  st.i = b[k]
<1> DEFINE a == b[k]
           X == SliceAt(h, E, last, b[k])
           p == PartsUpTo(needed, g, b, k)
<1>1. PICK cur, ok : st = State(a, X, p, cur, ok)
  BY DEF IsTaken, TakeAt
<1> HIDE DEF a, X, p
<1>2. st.i = a
  BY <1>1, StateParts
<1> QED BY <1>2 DEF a

(* The old values up to where the next new one comes, in the same cell.     *)
LEMMA KeepAll ==
    ASSUME NEW h, NEW E, NEW pb, NEW pr, NEW N, NEW U, NEW needed, NEW last, NEW b, NEW g,
           IsTaking(h, E, pb, pr, N, U, needed, last, b, g),
           NEW k \in 0 .. N, b[k] \in U + 1 .. last, b[k] \notin needed, NEW e, e = to(needed, b[k]), ~load[e],
           NEW st, IsTaken(st, h, E, last, needed, g, b, k), NEW r, r = LoopOf("keep", needed, e, st, e - 1)
    PROVE  \E q \in 0 .. N : b[q] \in b[k] + 1 .. last + 1 /\ IsTaken(r, h, E, last, needed, g, b, q)
<1> DEFINE a == b[k]
           n == e - 1
           loop == "keep"
           f == CHOOSE z : IsLoop(z, loop, needed, e, st, n)
           Good(s) == \E q \in 0 .. N : b[q] \in a .. e /\ IsTaken(s, h, E, last, needed, g, b, q)
           S == {s \in {f[j] : j \in 0 .. n} : Good(s)}
<1>1. IsWalk(h, E, pb, pr, N, U, needed, last) /\ IsParted(b, needed, last, U, N)
  BY DEF IsTaking
<1>2. N \in Nat /\ U \in 0 .. N /\ last \in U + 1 .. N
  BY <1>1, WalkFacts
<1>3. a \in U + 1 .. last /\ a \notin needed /\ e = to(needed, a) /\ a = b[k] /\ k \in 0 .. N
  BY <1>2
<1> HIDE DEF a
<1>4. e \in a + 1 .. last
  BY <1>1, <1>3, EndBeforeLast
<1>5. a \in Nat /\ a > 0 /\ n \in Nat /\ e = n + 1 /\ a <= n /\ e \in Nat
  BY <1>2, <1>3, <1>4
<1>6. r = f[n]
  BY DEF LoopOf
<1>7. \A s : Step(loop, needed, e, s) = KeepRun(s, e)
  BY StepIs
<1> HIDE DEF n, loop
<1>8. Moves(f, loop, needed, e, st, n)
  <2> HIDE DEF f
  <2>1. f = CHOOSE z : IsLoop(z, loop, needed, e, st, n)
    BY DEF f
  <2> QED BY <1>5, <2>1, LoopMoves
<1> HIDE DEF f
<1>9. f[0] = st /\ \A j \in 1 .. n : f[j] = IF f[j - 1].i > n THEN f[j - 1] ELSE Step(loop, needed, e, f[j - 1])
  BY <1>8 DEF Moves
<1>10. Good(st)
  <2>1. b[k] \in a .. e
    BY <1>3, <1>4, <1>5
  <2> QED BY <2>1
<1>11. st \in S
  <2>1. 0 \in 0 .. n
    BY <1>5
  <2> HIDE DEF Good
  <2> QED BY <1>9, <1>10, <2>1
<1>12. ASSUME NEW s \in S PROVE s.i \in Nat /\ s.i > 0
  <2>1. PICK q \in 0 .. N : b[q] \in a .. e /\ IsTaken(s, h, E, last, needed, g, b, q)
    OBVIOUS
  <2>2. s.i = b[q]
    BY <2>1, TakenAt
  <2> DEFINE x == b[q]
  <2>3. x \in a .. e
    BY <2>1
  <2> HIDE DEF x
  <2>4. x \in Nat /\ x > 0
    BY <1>5, <2>3
  <2> QED BY <2>2, <2>4 DEF x
<1>13. ASSUME NEW j \in 1 .. n, f[j - 1] \in S, ~(f[j - 1].i > n)
       PROVE  Step(loop, needed, e, f[j - 1]) \in S /\ f[j - 1].i < Step(loop, needed, e, f[j - 1]).i
  <2> DEFINE s == f[j - 1]
             w == Step(loop, needed, e, s)
  <2>1. PICK q \in 0 .. N : b[q] \in a .. e /\ IsTaken(s, h, E, last, needed, g, b, q)
    BY <1>13
  <2>2. w = f[j] /\ j \in 0 .. n
    BY <1>5, <1>9, <1>13
  <2>3. s.i = b[q]
    BY <2>1, TakenAt
  <2>4. ~(s.i > n)
    BY <1>13
  <2> DEFINE x == b[q]
  <2>5. x \in a .. e /\ ~(x > n) /\ s.i = x
    BY <2>1, <2>3, <2>4
  <2>6. w = KeepRun(s, e)
    BY <1>7
  <2> HIDE DEF s, w, x
  <2>7. x \in a .. e - 1
    BY <1>5, <2>5
  <2>8. to(needed, x) = e /\ x \in U + 1 .. last /\ x \notin needed
    <3>1. x \in a .. to(needed, a) - 1
      BY <1>3, <2>7
    <3>2. to(needed, x) = to(needed, a) /\ x \in U + 1 .. last /\ (x \in needed) = (a \in needed)
      BY <1>1, <1>3, <3>1, SameEnd
    <3> QED BY <1>3, <3>2
  <2>9. q + 1 \in 1 .. N /\ b[q + 1] \in b[q] + 1 .. e /\ IsTaken(KeepRun(s, e), h, E, last, needed, g, b, q + 1)
    <3>1. e = to(needed, b[q]) /\ b[q] \in U + 1 .. last /\ b[q] \notin needed /\ q \in 0 .. N
      BY <2>8 DEF x
    <3> QED BY <2>1, <3>1, KeepRunStep
  <2> DEFINE y == b[q + 1]
  <2>10. y \in x + 1 .. e /\ q + 1 \in 0 .. N
    BY <1>2, <2>9 DEF x
  <2>11. IsTaken(w, h, E, last, needed, g, b, q + 1)
    BY <2>6, <2>9
  <2>12. w.i = y
    BY <2>11, TakenAt
  <2>13. Good(w)
    <3> HIDE DEF y
    <3>1. y \in a .. e
      BY <1>5, <2>5, <2>10
    <3>2. b[q + 1] \in a .. e
      BY <3>1 DEF y
    <3> QED BY <2>10, <2>11, <3>2
  <2>14. w \in S
    <3> HIDE DEF Good
    <3> QED BY <2>2, <2>13
  <2> HIDE DEF y
  <2>15. s.i < w.i
    BY <1>5, <2>5, <2>10, <2>12
  <2> QED BY <2>14, <2>15 DEF s, w
<1>14. IsKept(f, S, loop, needed, e, st, n)
  <2> HIDE DEF S
  <2> QED BY <1>8, <1>11, <1>12, <1>13 DEF IsKept
<1>15. f[n] \in S /\ f[n].i > n
  <2> HIDE DEF S
  <2> QED BY <1>5, <1>14, LoopEnds
<1>16. PICK q \in 0 .. N : b[q] \in a .. e /\ IsTaken(f[n], h, E, last, needed, g, b, q)
  BY <1>15
<1>17. f[n].i = b[q]
  BY <1>16, TakenAt
<1>18. b[q] \in a + 1 .. last + 1
  <2> DEFINE x == b[q]
  <2>1. x \in a .. e /\ x > n
    BY <1>15, <1>16, <1>17
  <2> HIDE DEF x
  <2>2. x = e
    BY <1>5, <2>1
  <2>3. x \in a + 1 .. last + 1
    BY <1>2, <1>4, <1>5, <2>2
  <2> QED BY <2>3 DEF x
<1> QED BY <1>6, <1>16, <1>18 DEF a

(* One step of the first half.                                              *)
LEMMA TakeStep ==
    ASSUME NEW h, NEW E, NEW pb, NEW pr, NEW N, NEW U, NEW needed, NEW last, NEW b, NEW g,
           IsTaking(h, E, pb, pr, N, U, needed, last, b, g), NEW new, \A x \in needed : new[x] = g[x],
           NEW k \in 0 .. N, b[k] \in U + 1 .. last, NEW st, IsTaken(st, h, E, last, needed, g, b, k)
    PROVE  \E q \in 0 .. N : b[q] \in b[k] + 1 .. last + 1 /\ IsTaken(TakeApartStep(needed, new, st), h, E, last, needed, g, b, q)
<1> DEFINE a == b[k]
           e == to(needed, a)
<1>1. IsWalk(h, E, pb, pr, N, U, needed, last)
  BY DEF IsTaking
<1>2. N \in Nat /\ U \in 0 .. N /\ last \in U + 1 .. N /\ \A i \in 1 .. N : load[i] \in BOOLEAN
  BY <1>1, WalkFacts
<1>3. st.i = a
  BY TakenAt
<1>4. CASE a \in needed
  <2>1. TakeApartStep(needed, new, st) = ReplaceStep(needed, new, st)
    BY <1>3, <1>4 DEF TakeApartStep
  <2>2. \E q \in 0 .. N : b[q] \in b[k] + 1 .. last + 1 /\ IsTaken(ReplaceStep(needed, new, st), h, E, last, needed, g, b, q)
    BY <1>4, ReplaceIs
  <2> QED BY <2>1, <2>2
<1>5. CASE a \notin needed /\ load[e]
  <2>1. TakeApartStep(needed, new, st) = KeepCellStep(needed, st)
    BY <1>3, <1>5 DEF TakeApartStep
  <2>2. k + 1 \in 1 .. N /\ b[k + 1] \in b[k] + 1 .. last + 1 /\ IsTaken(KeepCellStep(needed, st), h, E, last, needed, g, b, k + 1)
    <3>1. b[k] \notin needed /\ load[to(needed, b[k])]
      BY <1>5
    <3> QED BY <3>1, KeepCellIs
  <2>3. k + 1 \in 0 .. N
    BY <1>2, <2>2
  <2> QED BY <2>1, <2>2, <2>3
<1>6. CASE a \notin needed /\ ~load[e]
  <2> DEFINE r == LoopOf("keep", needed, e, st, e - 1)
  <2>1. TakeApartStep(needed, new, st) = Iterate(LAMBDA s : KeepRun(s, e), st, e - 1)
    BY <1>3, <1>6 DEF TakeApartStep
  <2>2. Iterate(LAMBDA s : KeepRun(s, e), st, e - 1) = r
    <3> HIDE DEF e
    <3> QED BY KeepLoop
  <2>3. b[k] \notin needed /\ e = to(needed, b[k]) /\ ~load[e] /\ r = LoopOf("keep", needed, e, st, e - 1)
    BY <1>6
  <2> HIDE DEF e, r
  <2>4. \E q \in 0 .. N : b[q] \in b[k] + 1 .. last + 1 /\ IsTaken(r, h, E, last, needed, g, b, q)
    BY <2>3, KeepAll
  <2>5. TakeApartStep(needed, new, st) = r
    BY <2>1, <2>2
  <2> QED BY <2>4, <2>5
<1> QED BY <1>4, <1>5, <1>6

(* All of the first half.                                                   *)
LEMMA TakenApart ==
    ASSUME NEW h, NEW E, NEW pb, NEW pr, NEW N, NEW U, NEW needed, NEW last, NEW b, NEW g,
           IsTaking(h, E, pb, pr, N, U, needed, last, b, g), NEW new, \A x \in needed : new[x] = g[x], c7.slice = E[U],
           NEW r, r = TakeApart(needed, new)
    PROVE  \E q \in 0 .. N : b[q] = last + 1 /\ IsTaken(r, h, E, last, needed, g, b, q)
<1> DEFINE n == last
           loop == "take"
           st == State(startIndexType, FirstSlice, <<>>, startIndexType, TRUE)
           f == CHOOSE z : IsLoop(z, loop, needed, new, st, n)
           Good(s) == \E q \in 0 .. N : b[q] \in U + 1 .. last + 1 /\ IsTaken(s, h, E, last, needed, g, b, q)
           S == {s \in {f[j] : j \in 0 .. n} : Good(s)}
<1>1. IsWalk(h, E, pb, pr, N, U, needed, last) /\ IsParted(b, needed, last, U, N)
  BY DEF IsTaking
<1>2. N \in Nat /\ U \in 0 .. N /\ last \in U + 1 .. N /\ last \in Nat /\ last = lastIndexType(needed) /\ startIndexType = U + 1
  BY <1>1, WalkFacts
<1>3. IsTaken(st, h, E, last, needed, g, b, 0) /\ b[0] = U + 1
  <2>1. b[0] = U + 1
    BY <1>1 DEF IsParted
  <2>2. FirstSlice = SliceAt(h, E, last, U + 1)
    BY <1>1, WalkBegins
  <2>3. PartsUpTo(needed, g, b, 0) = <<>>
    BY DEF PartsUpTo
  <2>4. st = TakeAt(h, E, last, needed, g, b, 0, startIndexType, TRUE)
    BY <1>2, <2>1, <2>2, <2>3 DEF TakeAt
  <2> HIDE DEF st
  <2> QED BY <2>1, <2>4 DEF IsTaken
<1>4. r = f[n]
  <2>1. r = LoopOf("take", needed, new, st, last)
    BY <1>2, TakeLoop
  <2> HIDE DEF st
  <2> QED BY <2>1 DEF LoopOf
<1>5. \A s : Step(loop, needed, new, s) = TakeApartStep(needed, new, s)
  BY StepIs
<1>6. n \in Nat /\ n = last
  BY <1>2
<1> HIDE DEF n, loop, st
<1>8. Moves(f, loop, needed, new, st, n)
  <2> HIDE DEF f
  <2>1. f = CHOOSE z : IsLoop(z, loop, needed, new, st, n)
    BY DEF f
  <2> QED BY <1>6, <2>1, LoopMoves
<1> HIDE DEF f
<1>9. f[0] = st /\ \A j \in 1 .. n : f[j] = IF f[j - 1].i > n THEN f[j - 1] ELSE Step(loop, needed, new, f[j - 1])
  BY <1>8 DEF Moves
<1>10. Good(st)
  <2>1. 0 \in 0 .. N /\ U + 1 \in U + 1 .. last + 1
    BY <1>2
  <2>2. b[0] \in U + 1 .. last + 1
    BY <1>3, <2>1
  <2> QED BY <1>3, <2>1, <2>2
<1>11. st \in S
  <2>1. 0 \in 0 .. n
    BY <1>6
  <2> HIDE DEF Good
  <2> QED BY <1>9, <1>10, <2>1
<1>12. ASSUME NEW s \in S PROVE s.i \in Nat /\ s.i > 0
  <2>1. PICK q \in 0 .. N : b[q] \in U + 1 .. last + 1 /\ IsTaken(s, h, E, last, needed, g, b, q)
    OBVIOUS
  <2>2. s.i = b[q]
    BY <2>1, TakenAt
  <2> DEFINE x == b[q]
  <2>3. x \in U + 1 .. last + 1
    BY <2>1
  <2> HIDE DEF x
  <2>4. x \in Nat /\ x > 0
    BY <1>2, <2>3
  <2> QED BY <2>2, <2>4 DEF x
<1>13. ASSUME NEW j \in 1 .. n, f[j - 1] \in S, ~(f[j - 1].i > n)
       PROVE  Step(loop, needed, new, f[j - 1]) \in S /\ f[j - 1].i < Step(loop, needed, new, f[j - 1]).i
  <2> DEFINE s == f[j - 1]
             w == Step(loop, needed, new, s)
  <2>1. PICK q \in 0 .. N : b[q] \in U + 1 .. last + 1 /\ IsTaken(s, h, E, last, needed, g, b, q)
    BY <1>13
  <2>2. w = f[j] /\ j \in 0 .. n
    BY <1>6, <1>9, <1>13
  <2>3. s.i = b[q]
    BY <2>1, TakenAt
  <2>4. ~(s.i > n)
    BY <1>13
  <2> DEFINE x == b[q]
  <2>5. x \in U + 1 .. last + 1 /\ ~(x > n) /\ s.i = x
    BY <2>1, <2>3, <2>4
  <2>6. w = TakeApartStep(needed, new, s)
    BY <1>5
  <2> HIDE DEF s, w, x
  <2>7. x \in U + 1 .. last
    BY <1>2, <1>6, <2>5
  <2>8. PICK p \in 0 .. N : b[p] \in b[q] + 1 .. last + 1 /\ IsTaken(TakeApartStep(needed, new, s), h, E, last, needed, g, b, p)
    <3>1. b[q] \in U + 1 .. last /\ q \in 0 .. N
      BY <2>7 DEF x
    <3> QED BY <2>1, <3>1, TakeStep
  <2> DEFINE y == b[p]
  <2>10. y \in x + 1 .. last + 1
    BY <2>8 DEF x
  <2>11. IsTaken(w, h, E, last, needed, g, b, p)
    BY <2>6, <2>8
  <2>12. w.i = y
    BY <2>11, TakenAt
  <2>13. Good(w)
    <3> HIDE DEF y
    <3>1. y \in U + 1 .. last + 1
      BY <1>2, <2>7, <2>10
    <3>2. b[p] \in U + 1 .. last + 1
      BY <3>1 DEF y
    <3> QED BY <2>11, <3>2
  <2>14. w \in S
    <3> HIDE DEF Good
    <3> QED BY <2>2, <2>13
  <2> HIDE DEF y
  <2>15. s.i < w.i
    BY <1>2, <2>5, <2>7, <2>10, <2>12
  <2> QED BY <2>14, <2>15 DEF s, w
<1>14. IsKept(f, S, loop, needed, new, st, n)
  <2> HIDE DEF S
  <2> QED BY <1>8, <1>11, <1>12, <1>13 DEF IsKept
<1>15. f[n] \in S /\ f[n].i > n
  <2> HIDE DEF S
  <2> QED BY <1>6, <1>14, LoopEnds
<1>16. PICK q \in 0 .. N : b[q] \in U + 1 .. last + 1 /\ IsTaken(f[n], h, E, last, needed, g, b, q)
  BY <1>15
<1>17. f[n].i = b[q]
  BY <1>16, TakenAt
<1>18. b[q] = last + 1
  <2> DEFINE x == b[q]
  <2>1. x \in U + 1 .. last + 1 /\ x > last
    BY <1>6, <1>15, <1>16, <1>17
  <2> HIDE DEF x
  <2>2. x = last + 1
    BY <1>2, <2>1
  <2> QED BY <2>2 DEF x
<1> QED BY <1>4, <1>16, <1>18

(***************************************************************************)
(* How many parts a stretch of old values was taken apart into.            *)
(***************************************************************************)
RunStarts(i, j) == {k \in i .. (j - 1) : ~types[k].fixedSize \/ k = i \/ ~types[k - 1].fixedSize}

(* The first run and the others.                                            *)
LEMMA FirstRun ==
    ASSUME NEW i \in Nat, NEW j \in Nat, i < j, NEW y, y = EndOfRun(i, j)
    PROVE  RunStarts(i, j) = RunStarts(y, j) \cup {i} /\ i \notin RunStarts(y, j)
<1>1. IsRunEnd(i, j, y)
  BY EndOfRunIs
<1>2. /\ y \in i + 1 .. j /\ (y = j \/ ~types[i].fixedSize \/ ~types[y].fixedSize)
      /\ \A m \in i + 1 .. y - 1 : types[i].fixedSize /\ types[m].fixedSize
  BY <1>1 DEF IsRunEnd
<1>3. i \notin RunStarts(y, j)
  BY <1>2 DEF RunStarts
<1>4. i \in RunStarts(i, j)
  BY DEF RunStarts
<1>5. ASSUME NEW k \in RunStarts(y, j) PROVE k \in RunStarts(i, j)
  <2>1. k \in y .. j - 1 /\ (~types[k].fixedSize \/ k = y \/ ~types[k - 1].fixedSize)
    BY DEF RunStarts
  <2>2. k \in i .. j - 1
    BY <1>2, <2>1
  <2>3. CASE k = y
    <3>1. y # j
      BY <2>1, <2>3
    <3>2. CASE ~types[y].fixedSize
      BY <2>2, <2>3, <3>2 DEF RunStarts
    <3>3. CASE ~types[i].fixedSize
      <4>1. ~(i + 1 <= y - 1)
        <5>1. SUFFICES ASSUME i + 1 <= y - 1 PROVE FALSE
          OBVIOUS
        <5>2. i + 1 \in i + 1 .. y - 1
          BY <1>2, <5>1
        <5> QED BY <1>2, <3>3, <5>2
      <4>2. k - 1 = i
        BY <1>2, <2>3, <4>1
      <4> QED BY <2>2, <3>3, <4>2 DEF RunStarts
    <3> QED BY <1>2, <3>1, <3>2, <3>3
  <2>4. CASE k # y
    BY <2>1, <2>2, <2>4 DEF RunStarts
  <2> QED BY <2>3, <2>4
<1>6. ASSUME NEW k \in RunStarts(i, j), k # i PROVE k \in RunStarts(y, j)
  <2>1. k \in i .. j - 1 /\ (~types[k].fixedSize \/ ~types[k - 1].fixedSize)
    BY <1>6 DEF RunStarts
  <2>2. ~(k <= y - 1)
    <3>1. SUFFICES ASSUME k <= y - 1 PROVE FALSE
      OBVIOUS
    <3>2. k \in i + 1 .. y - 1 /\ (k - 1 = i \/ k - 1 \in i + 1 .. y - 1)
      BY <1>2, <1>6, <2>1, <3>1
    <3>3. types[i].fixedSize /\ types[k].fixedSize /\ types[k - 1].fixedSize
      BY <1>2, <3>2
    <3> QED BY <2>1, <3>3
  <2>3. k \in y .. j - 1
    BY <1>2, <2>1, <2>2
  <2> QED BY <2>1, <2>3 DEF RunStarts
<1> QED BY <1>3, <1>4, <1>5, <1>6

(* There are finitely many.                                                 *)
LEMMA StartsFinite ==
    ASSUME NEW i \in Nat, NEW j \in Nat
    PROVE  IsFiniteSet(RunStarts(i, j)) /\ Cardinality(RunStarts(i, j)) \in Nat
<1>1. IsFiniteSet(i .. j - 1)
  <2>1. i \in Int /\ j - 1 \in Int
    OBVIOUS
  <2> QED BY <2>1, FS_Interval
<1>2. RunStarts(i, j) \in SUBSET (i .. j - 1)
  BY DEF RunStarts
<1>3. IsFiniteSet(RunStarts(i, j))
  BY <1>1, <1>2, FS_Subset
<1> QED BY <1>3, FS_CardinalityType

(* One run less.                                                            *)
LEMMA OneRunLess ==
    ASSUME NEW i \in Nat, NEW j \in Nat, i <= j, NEW c, c = Cardinality(RunStarts(i, j))
    PROVE  /\ c \in Nat /\ (c = 0 <=> i = j)
           /\ i < j => Cardinality(RunStarts(EndOfRun(i, j), j)) + 1 = c
<1>1. IsFiniteSet(RunStarts(i, j)) /\ c \in Nat
  BY StartsFinite
<1>2. ASSUME i = j PROVE c = 0
  <2>1. RunStarts(i, j) = {}
    BY <1>2 DEF RunStarts
  <2> QED BY <2>1, FS_EmptySet
<1>3. ASSUME i < j PROVE c # 0 /\ Cardinality(RunStarts(EndOfRun(i, j), j)) + 1 = c
  <2> DEFINE y == EndOfRun(i, j)
  <2>1. IsRunEnd(i, j, y)
    BY <1>3, EndOfRunIs
  <2>2. RunStarts(i, j) = RunStarts(y, j) \cup {i} /\ i \notin RunStarts(y, j)
    BY <1>3, FirstRun
  <2> HIDE DEF y
  <2>3. y \in Nat
    BY <2>1 DEF IsRunEnd
  <2>4. IsFiniteSet(RunStarts(y, j)) /\ Cardinality(RunStarts(y, j)) \in Nat
    BY <2>3, StartsFinite
  <2>5. Cardinality(RunStarts(y, j) \cup {i}) = Cardinality(RunStarts(y, j)) + 1
    BY <2>2, <2>4, FS_AddElement
  <2> DEFINE z == Cardinality(RunStarts(y, j))
  <2>6. z \in Nat /\ c = z + 1
    BY <2>2, <2>4, <2>5
  <2> HIDE DEF z
  <2>7. c # 0 /\ z + 1 = c
    BY <2>6
  <2> QED BY <2>7 DEF y, z
<1>4. i = j \/ i < j
  OBVIOUS
<1>5. i < j => i # j
  OBVIOUS
<1> QED BY <1>1, <1>2, <1>3, <1>4, <1>5

(* count parts begin with the k-th, from member i to next.                  *)
IsCounted(load1, b, N, k, i, count, next) ==
    /\ count \in Nat \ {0} /\ k + count \in 0 .. N /\ b[k + count] = next
    /\ \A m \in 1 .. count - 1 : k + m \in 0 .. N /\ b[k + m] \in i + 1 .. next - 1 /\ load1[b[k + m]] = FALSE

(* A single part is counted as one.                                         *)
LEMMA CountedOne ==
    ASSUME NEW l, NEW b, NEW N \in Nat, NEW k \in Nat, NEW i, NEW next, k + 1 \in 0 .. N, b[k + 1] = next, NEW c, c = 1
    PROVE  IsCounted(l, b, N, k, i, c, next)
<1>1. c \in Nat \ {0} /\ k + c = k + 1 /\ \A m \in 1 .. c - 1 : FALSE
  OBVIOUS
<1>2. b[k + c] = next /\ k + c \in 0 .. N
  BY <1>1
<1> QED BY <1>1, <1>2 DEF IsCounted

(* A stretch of old values that the next cell does not follow.              *)
LEMMA CountedRuns ==
    ASSUME NEW h, NEW E, NEW pb, NEW pr, NEW N, NEW U, NEW needed, NEW last, IsWalk(h, E, pb, pr, N, U, needed, last),
           NEW b, IsParted(b, needed, last, U, N), NEW k \in 0 .. N, NEW i \in U + 1 .. last, b[k] = i, i \notin needed,
           NEW e, e = to(needed, i), ~load[e], NEW count, count = Cardinality(RunStarts(i, e))
    PROVE  IsCounted(load, b, N, k, i, count, e)
<1> DEFINE Left(x) == Cardinality(RunStarts(x, e))
           T == {m \in 0 .. count : k + m \in 0 .. N /\ b[k + m] \in i .. e /\ (m > 0 => b[k + m] > i) /\ Left(b[k + m]) + m = count}
<1>1. N \in Nat /\ U \in 0 .. N /\ last \in U + 1 .. N
  BY WalkFacts
<1>2. e \in i + 1 .. last /\ i \in Nat /\ e \in Nat /\ i < e /\ i <= e
  <2>1. e \in i + 1 .. last
    BY EndBeforeLast
  <2> QED BY <1>1, <2>1
<1>3. OneStretch(load, i, e)
  <2>1. IsStretch(needed, last, i, e)
    BY StretchFacts
  <2> QED BY <2>1 DEF IsStretch
<1>4. count \in Nat /\ count # 0
  <2>1. count \in Nat /\ (count = 0 <=> i = e)
    BY <1>2, OneRunLess
  <2> QED BY <1>2, <2>1
<1> HIDE DEF Left
<1>5. \A x \in i .. e : Left(x) \in Nat /\ (Left(x) = 0 <=> x = e) /\ (x < e => Left(EndOfRun(x, e)) + 1 = Left(x))
  <2>1. ASSUME NEW x \in i .. e
        PROVE  Left(x) \in Nat /\ (Left(x) = 0 <=> x = e) /\ (x < e => Left(EndOfRun(x, e)) + 1 = Left(x))
    <3> DEFINE c == Cardinality(RunStarts(x, e))
    <3>1. x \in Nat /\ x <= e
      BY <1>2
    <3> HIDE DEF c
    <3>2. c \in Nat /\ (c = 0 <=> x = e) /\ (x < e => Cardinality(RunStarts(EndOfRun(x, e), e)) + 1 = c)
      BY <1>2, <3>1, OneRunLess DEF c
    <3> QED BY <3>2 DEF Left, c
  <2> QED BY <2>1
<1>6. 0 \in T
  <2>1. k + 0 = k /\ 0 \in 0 .. count /\ ~(0 > 0)
    BY <1>4
  <2>2. b[k] \in i .. e /\ Left(b[k]) + 0 = count
    <3>1. Left(i) = count
      BY DEF Left
    <3> QED BY <1>2, <1>4, <3>1
  <2> QED BY <2>1, <2>2
<1>7. ASSUME NEW m \in 0 .. count - 1, m \in T PROVE m + 1 \in T
  <2> DEFINE q == k + m
             x == b[q]
             y == b[q + 1]
  <2>1. q \in 0 .. N /\ x \in i .. e /\ Left(x) + m = count
    BY <1>7
  <2>2. k + (m + 1) = q + 1 /\ m + 1 \in 0 .. count
    BY <1>4
  <2> HIDE DEF q
  <2> DEFINE v == Left(x)
  <2>3. v \in Nat /\ (v = 0 <=> x = e) /\ (x < e => Left(EndOfRun(x, e)) + 1 = v)
    <3> HIDE DEF x
    <3> QED BY <1>5, <2>1
  <2>4. v + m = count
    BY <2>1
  <2> HIDE DEF v
  <2>5. v # 0
    BY <1>4, <2>3, <2>4
  <2> HIDE DEF x
  <2>6. x < e /\ x \in i .. e - 1 /\ x <= last
    BY <1>1, <1>2, <2>1, <2>3, <2>5
  <2>7. x \notin needed /\ to(needed, x) = e
    <3>1. x \in i .. to(needed, i) - 1
      BY <2>6
    <3>2. to(needed, x) = to(needed, i) /\ (x \in needed) = (i \in needed)
      BY <3>1, SameEnd
    <3> QED BY <3>2
  <2>8. q + 1 \in 1 .. N /\ y = NextPart(needed, x)
    <3>1. b[q] <= last => b[q] \in U + 1 .. last /\ q + 1 \in 1 .. N /\ b[q + 1] = NextPart(needed, b[q])
      BY <2>1, PartedOn
    <3> QED BY <2>6, <3>1 DEF x
  <2>9. y = EndOfRun(x, e)
    BY <2>7, <2>8 DEF NextPart
  <2>10. y \in x + 1 .. e
    <3>1. x \in Nat /\ x < e
      BY <1>2, <2>6
    <3> HIDE DEF y
    <3>2. IsRunEnd(x, e, y)
      BY <1>2, <2>9, <3>1, EndOfRunIs
    <3> QED BY <3>2 DEF IsRunEnd
  <2> DEFINE z == Left(y)
  <2>11. z + 1 = v
    BY <2>3, <2>6, <2>9
  <2>12. z \in Nat
    <3> HIDE DEF y
    <3>1. y \in i .. e
      BY <1>2, <2>6, <2>10
    <3> QED BY <1>5, <3>1
  <2> HIDE DEF z
  <2>13. z + (m + 1) = count
    BY <2>3, <2>4, <2>11, <2>12
  <2> HIDE DEF y
  <2>14. y \in i .. e /\ y > i /\ q + 1 \in 0 .. N
    BY <1>1, <1>2, <2>6, <2>8, <2>10
  <2>15. b[k + (m + 1)] = y /\ k + (m + 1) \in 0 .. N
    BY <2>2, <2>14 DEF y
  <2>16. Left(b[k + (m + 1)]) + (m + 1) = count
    BY <2>13, <2>15 DEF z
  <2> QED BY <2>2, <2>14, <2>15, <2>16
<1>8. \A m \in 0 .. count : m \in T
  <2> HIDE DEF T
  <2>1. 0 \in Int /\ count \in Int /\ 0 <= count
    BY <1>4
  <2> QED BY <1>6, <1>7, <2>1, UpFrom
<1>9. \A m \in 0 .. count : k + m \in 0 .. N /\ b[k + m] \in i .. e /\ (m > 0 => b[k + m] > i) /\ Left(b[k + m]) + m = count
  BY <1>8
<1>10. k + count \in 0 .. N /\ b[k + count] = e
  <2> DEFINE x == b[k + count]
  <2>1. count \in 0 .. count
    BY <1>4
  <2>2. k + count \in 0 .. N /\ x \in i .. e /\ Left(x) + count = count
    BY <1>9, <2>1
  <2> HIDE DEF x
  <2>3. Left(x) \in Nat /\ (Left(x) = 0 <=> x = e)
    BY <1>5, <2>2
  <2>4. Left(x) = 0
    BY <1>4, <2>2, <2>3
  <2> QED BY <2>2, <2>3, <2>4 DEF x
<1>11. ASSUME NEW m \in 1 .. count - 1 PROVE k + m \in 0 .. N /\ b[k + m] \in i + 1 .. e - 1 /\ load[b[k + m]] = FALSE
  <2> DEFINE x == b[k + m]
  <2>1. m \in 0 .. count /\ m > 0 /\ m # count
    BY <1>4
  <2>2. k + m \in 0 .. N /\ x \in i .. e /\ x > i /\ Left(x) + m = count
    BY <1>9, <2>1
  <2> HIDE DEF x
  <2>3. Left(x) \in Nat /\ (Left(x) = 0 <=> x = e)
    BY <1>5, <2>2
  <2>4. x # e
    BY <1>4, <2>1, <2>2, <2>3
  <2>5. x \in i + 1 .. e - 1
    BY <1>2, <2>2, <2>4
  <2>6. load[x] = FALSE
    BY <1>3, <2>5 DEF OneStretch
  <2> QED BY <2>2, <2>5, <2>6 DEF x
<1>12. count \in Nat \ {0}
  BY <1>4
<1> QED BY <1>10, <1>11, <1>12 DEF IsCounted

(* The parts that PutStep takes for a member.                               *)
PutEnd(needed, i) == IF i \in needed THEN i + 1 ELSE to(needed, i)
PutCount(needed, i) == IF i \in needed THEN 1 ELSE RunsIn(i, PutEnd(needed, i))

(* RunsIn counts the parts that TakeApart has made.                         *)
LEMMA PutCounted ==
    ASSUME NEW h, NEW E, NEW pb, NEW pr, NEW N, NEW U, NEW needed, NEW last, IsWalk(h, E, pb, pr, N, U, needed, last),
           NEW b, IsParted(b, needed, last, U, N), NEW k \in 0 .. N, NEW i \in U + 1 .. last, b[k] = i
    PROVE  PutEnd(needed, i) \in i + 1 .. last + 1 /\ IsCounted(load, b, N, k, i, PutCount(needed, i), PutEnd(needed, i))
<1> DEFINE e == to(needed, i)
           c == PutCount(needed, i)
           next == PutEnd(needed, i)
<1>1. N \in Nat /\ U \in 0 .. N /\ last \in U + 1 .. N
  BY WalkFacts
<1>2. i \in Nat /\ i <= last /\ k \in Nat
  BY <1>1
<1>3. k + 1 \in 1 .. N /\ k + 1 \in 0 .. N /\ b[k + 1] = NextPart(needed, i)
  <2>1. b[k] <= last => b[k] \in U + 1 .. last /\ k + 1 \in 1 .. N /\ b[k + 1] = NextPart(needed, b[k])
    BY PartedOn
  <2>2. k + 1 \in 1 .. N /\ b[k + 1] = NextPart(needed, i)
    BY <1>2, <2>1
  <2> QED BY <1>1, <2>2
<1>4. IsStretch(needed, last, i, e)
  BY StretchFacts
<1>5. next \in i + 1 .. last + 1
  <2> HIDE DEF e
  <2>1. e \in i + 1 .. last + 1
    BY <1>4 DEF IsStretch
  <2>2. next = i + 1 \/ next = e
    BY DEF PutEnd, e
  <2> HIDE DEF next
  <2> QED BY <1>1, <1>2, <2>1, <2>2
<1>6. CASE i \in needed \/ load[e]
  <2>1. c = 1
    BY <1>6 DEF PutCount, PutEnd, RunsIn
  <2>2. next = NextPart(needed, i)
    BY <1>6 DEF PutEnd, NextPart
  <2> HIDE DEF c, next
  <2>3. IsCounted(load, b, N, k, i, c, next)
    BY <1>1, <1>2, <1>3, <2>1, <2>2, CountedOne
  <2> QED BY <1>5, <2>3 DEF c, next
<1>7. CASE i \notin needed /\ ~load[e]
  <2>1. c = Cardinality(RunStarts(i, e)) /\ next = e
    BY <1>7 DEF PutCount, PutEnd, RunsIn, RunStarts
  <2> HIDE DEF c, next
  <2>2. IsCounted(load, b, N, k, i, c, e)
    BY <1>7, <2>1, CountedRuns
  <2> QED BY <1>5, <2>1, <2>2 DEF c, next
<1> QED BY <1>6, <1>7

(* There are as many parts as begin up to the last member.                  *)
LEMMA PartsThere ==
    ASSUME NEW h, NEW E, NEW pb, NEW pr, NEW N, NEW U, NEW needed, NEW last, IsWalk(h, E, pb, pr, N, U, needed, last),
           NEW b, IsParted(b, needed, last, U, N), NEW K \in 0 .. N, b[K] = last + 1, NEW g, NEW k \in 0 .. N, b[k] <= last
    PROVE  PartsUpTo(needed, g, b, K)[k + 1] = PartAt(needed, g, b[k])
<1> DEFINE T == {j \in 0 .. N : b[j] \in Nat /\ b[j] > last}
<1>1. N \in Nat /\ U \in 0 .. N /\ last \in U + 1 .. N
  BY WalkFacts
<1>2. K \in T
  BY <1>1
<1>3. ASSUME NEW j \in K .. N - 1, j \in T PROVE j + 1 \in T
  <2>1. j + 1 \in 1 .. N /\ j + 1 - 1 = j /\ j + 1 \in 0 .. N
    BY <1>1
  <2>2. b[j + 1] = IF b[j + 1 - 1] \in U + 1 .. last THEN NextPart(needed, b[j + 1 - 1]) ELSE b[j + 1 - 1] + 1
    BY <2>1 DEF IsParted
  <2>3. b[j + 1] = b[j] + 1
    BY <1>1, <1>3, <2>1, <2>2
  <2> QED BY <1>1, <1>3, <2>1, <2>3
<1>4. \A j \in K .. N : j \in T
  <2> HIDE DEF T
  <2>1. K \in Int /\ N \in Int /\ K <= N
    BY <1>1
  <2> QED BY <1>2, <1>3, <2>1, UpFrom
<1>5. ~(k \in K .. N)
  <2>1. b[k] \in Nat
    BY DEF IsParted
  <2> QED BY <1>1, <1>4, <2>1
<1>6. k + 1 \in 1 .. K /\ k + 1 - 1 = k
  BY <1>1, <1>5
<1> QED BY <1>6 DEF PartsUpTo

(***************************************************************************)
(* The parts are put together.                                             *)
(***************************************************************************)
(* Member x comes next: in a cell that is open, or in the next one.  X: what*)
(* the builders are chained to in the end.                                  *)
AreBuilders(bs) == bs = [full |-> bs.full, last |-> bs.last] /\ IsList(bs.full)
IsOpen(bs, g, F, qb, qr, x, X) ==
    /\ AreBuilders(bs) /\ Within(bs.last, FillBits(load, qb, x), FillRefs(load, qr, x))
    /\ ChainsTo(bs.full, Cat(bs.last, Ahead(g[x], F[x])), X)
IsClosed(bs, F, qb, qr, x, X) ==
    AreBuilders(bs) /\ Within(bs.last, qb[x - 1], qr[x - 1]) /\ ChainsTo(bs.full, Cat(bs.last, F[x - 1]), X)

WithLast(bs, s) == [bs EXCEPT !.last = s]

(* The other builders stay.                                                 *)
LEMMA WithLastIs ==
    ASSUME NEW bs, AreBuilders(bs), NEW s
    PROVE  AreBuilders(WithLast(bs, s)) /\ WithLast(bs, s).full = bs.full /\ WithLast(bs, s).last = s
<1> DEFINE r == WithLast(bs, s)
           f == bs.full
<1>1. bs = [full |-> f, last |-> bs.last] /\ IsList(f)
  BY DEF AreBuilders
<1>2. r = [full |-> f, last |-> s]
  BY <1>1 DEF WithLast
<1> HIDE DEF r, f
<1>3. r.full = f /\ r.last = s
  BY <1>2
<1>4. AreBuilders(r)
  BY <1>1, <1>2, <1>3 DEF AreBuilders
<1> QED BY <1>3, <1>4 DEF r, f

(* One part is put behind the others.                                       *)
LEMMA PutPartIs ==
    ASSUME NEW g, NEW F, NEW qb, NEW qr, NEW N, NEW U, NEW needed, NEW last, IsWalk(g, F, qb, qr, N, U, needed, last),
           NEW x \in U + 1 .. last, NEW bs, NEW X, IsOpen(bs, g, F, qb, qr, x, X), NEW part, part = PartAt(needed, g, x)
    PROVE  IsClosed(PutPart(bs, part), F, qb, qr, NextPart(needed, x), X)
<1> DEFINE y == NextPart(needed, x)
           C == Contents(g, x, y)
           b == bs.last
           f == bs.full
           p == FillBits(load, qb, x)
           q == FillRefs(load, qr, x)
           A == Ahead(g[x], F[x])
<1>1. N \in Nat /\ U \in 0 .. N /\ last \in U + 1 .. N /\ Laid(types, load, g, F, qb, qr, N) /\ x \in 1 .. N
  BY WalkFacts
<1>2. y \in x + 1 .. last + 1 /\ OneStretch(load, x, y)
  BY NextPartIs
<1>3. AreBuilders(bs) /\ Within(b, p, q) /\ ChainsTo(f, Cat(b, A), X)
  BY DEF IsOpen
<1>a. x \in needed => y = x + 1
  BY DEF NextPart
<1>b. part = IF x \in needed THEN [value |-> g[x]] ELSE [slice |-> C]
  BY DEF PartAt
<1> HIDE DEF y
<1>4. y \in x + 1 .. N + 1
  BY <1>1, <1>2
<1>5. StoreSlice(b, C) = Cat(b, C) /\ Within(Cat(b, C), qb[y - 1], qr[y - 1])
      /\ Bits(b) + Bits(C) <= CellBits /\ Len(b.refs) + Len(C.refs) <= CellRefs
  <2>1. C = Contents(g, x, y)
    OBVIOUS
  <2>2. Filled(b, load, qb, qr, x)
    BY <1>3 DEF Filled
  <2> HIDE DEF C, b
  <2>3. IsBehind(b, C, qb[y - 1], qr[y - 1])
    BY <1>1, <1>2, <1>4, <2>1, <2>2, ContentsBehind
  <2> QED BY <2>3 DEF IsBehind
<1>6. A = Cat(C, F[y - 1]) /\ IsSlice(C) /\ IsSlice(F[y - 1])
  BY <1>1, <1>2, <1>4, CellContents
<1>7. IsSlice(b)
  BY <1>3 DEF Within
<1>8. Cat(b, A) = Cat(Cat(b, C), F[y - 1])
  <2> HIDE DEF A, C, b
  <2> QED BY <1>6, <1>7, CatCat
<1>9. PutPart(bs, part) = WithLast(bs, Cat(b, C))
  <2>1. CASE x \in needed
    <3> DEFINE v == g[x]
    <3>1. C = Ahead(v, Empty)
      <4>1. x \in Nat \ {0} /\ y = x + 1
        BY <1>1, <1>a, <2>1
      <4>2. Contents(g, x, x + 1) = Ahead(g[x], Empty)
        BY <4>1, ContentsOne
      <4> QED BY <4>1, <4>2
    <3>2. IsValue(v)
      <4>1. \A i \in 1 .. N : IsValue(g[i])
        BY <1>1, LaidFacts
      <4> QED BY <1>1, <4>1
    <3> HIDE DEF v, C, b
    <3>3. Bits(C) = v.size.bits + Bits(Empty) /\ Len(C.refs) = v.size.refs + Len(Empty.refs)
          /\ v.size.bits \in Nat /\ v.size.refs \in Nat
      BY <3>1, <3>2, EmptyFacts, AheadSizes
    <3>4. Bits(C) = v.size.bits /\ Len(C.refs) = v.size.refs
      BY <3>3, EmptyFacts
    <3>5. Bits(b) + v.size.bits <= CellBits /\ Len(b.refs) + v.size.refs <= CellRefs
      BY <1>5, <3>4
    <3>6. Store(b, v) = Cat(b, Ahead(v, Empty))
      BY <1>7, <3>2, <3>5, StoreIs
    <3>7. part = [value |-> v]
      BY <1>b, <2>1 DEF v
    <3>8. "value" \in DOMAIN part /\ part.value = v
      BY <3>7
    <3>9. PutPart(bs, part) = [bs EXCEPT !.last = Store(bs.last, v)]
      BY <3>8 DEF PutPart
    <3> QED BY <3>1, <3>6, <3>9 DEF WithLast, b
  <2>2. CASE x \notin needed
    <3> HIDE DEF C
    <3>1. part = [slice |-> C]
      BY <1>b, <2>2
    <3>2. "value" \notin DOMAIN part /\ part.slice = C
      BY <3>1
    <3>3. PutPart(bs, part) = [bs EXCEPT !.last = StoreSlice(bs.last, C)]
      BY <3>2 DEF PutPart
    <3> QED BY <1>5, <3>3 DEF WithLast
  <2> QED BY <2>1, <2>2
<1> DEFINE r == PutPart(bs, part)
           z == Cat(b, C)
<1>10. AreBuilders(r) /\ r.full = f /\ r.last = z
  <2> HIDE DEF z
  <2>1. r = WithLast(bs, z)
    BY <1>9 DEF z
  <2> QED BY <1>3, <2>1, WithLastIs
<1>11. Within(z, qb[y - 1], qr[y - 1]) /\ ChainsTo(f, Cat(z, F[y - 1]), X)
  BY <1>3, <1>5, <1>8
<1>12. IsClosed(r, F, qb, qr, y, X)
  <2> HIDE DEF r, z, f
  <2> QED BY <1>10, <1>11 DEF IsClosed
<1> QED BY <1>12 DEF y

(* PutParts: part by part.                                                  *)
PutSteps(f, bs, parts, used, n) == f[0] = bs /\ \A k \in 1 .. n : f[k] = PutPart(f[k - 1], parts[used + k])
ArePut(f, bs, parts, used, n) == f = [k \in 0 .. n |-> IF k = 0 THEN bs ELSE PutPart(f[k - 1], parts[used + k])]

(* One part after the other.                                                *)
LEMMA PutStepsExist ==
    ASSUME NEW bs, NEW parts, NEW used, NEW n \in Nat
    PROVE  \E f : f = [k \in 0 .. n |-> f[k]] /\ PutSteps(f, bs, parts, used, n)
<1> DEFINE Good(f, m) == f = [k \in 0 .. m |-> f[k]] /\ PutSteps(f, bs, parts, used, m)
           T == {m \in 0 .. n : \E f : Good(f, m)}
<1>1. 0 \in T
  <2> DEFINE f == [k \in 0 .. 0 |-> bs]
  <2>1. Good(f, 0)
    BY DEF PutSteps
  <2> HIDE DEF Good, f
  <2> QED BY <2>1
<1>2. ASSUME NEW m \in 1 .. n, m - 1 \in T PROVE m \in T
  <2>1. PICK f : Good(f, m - 1)
    BY <1>2
  <2>2. f = [k \in 0 .. m - 1 |-> f[k]] /\ f[0] = bs /\ \A k \in 1 .. m - 1 : f[k] = PutPart(f[k - 1], parts[used + k])
    BY <2>1 DEF PutSteps
  <2> DEFINE z == PutPart(f[m - 1], parts[used + m])
             g == [k \in 0 .. m |-> IF k < m THEN f[k] ELSE z]
  <2>3. g[0] = bs /\ g = [k \in 0 .. m |-> g[k]]
    BY <2>2
  <2>4. ASSUME NEW k \in 1 .. m PROVE g[k] = PutPart(g[k - 1], parts[used + k])
    <3>1. k - 1 \in 0 .. m /\ k - 1 < m /\ k \in 0 .. m
      OBVIOUS
    <3>2. g[k - 1] = f[k - 1]
      BY <3>1
    <3>3. CASE k < m
      <4>1. k \in 1 .. m - 1 /\ g[k] = f[k]
        BY <3>1, <3>3
      <4> HIDE DEF g
      <4> QED BY <2>2, <3>2, <4>1
    <3>4. CASE k = m
      <4>1. g[k] = z
        BY <3>1, <3>4
      <4> HIDE DEF g
      <4> QED BY <3>2, <3>4, <4>1
    <3> QED BY <3>3, <3>4
  <2> HIDE DEF g
  <2>5. Good(g, m)
    BY <2>3, <2>4 DEF PutSteps
  <2> HIDE DEF Good
  <2> QED BY <2>5
<1>3. n \in T
  <2> HIDE DEF T
  <2>1. \A m \in 0 .. n : m \in T
    BY <1>1, <1>2, Upwards
  <2> QED BY <2>1
<1> QED BY <1>3

(* PutParts takes these steps.                                              *)
LEMMA PutPartsAre ==
    ASSUME NEW bs, NEW parts, NEW used, NEW n \in Nat
    PROVE  \E f : PutSteps(f, bs, parts, used, n) /\ PutParts(bs, parts, used, n) = f[n]
<1> DEFINE g == CHOOSE f : ArePut(f, bs, parts, used, n)
<1>1. PICK f : f = [k \in 0 .. n |-> f[k]] /\ PutSteps(f, bs, parts, used, n)
  BY PutStepsExist
<1>2. ArePut(f, bs, parts, used, n)
  <2>1. ASSUME NEW k \in 0 .. n PROVE f[k] = IF k = 0 THEN bs ELSE PutPart(f[k - 1], parts[used + k])
    <3>1. k = 0 \/ k \in 1 .. n
      OBVIOUS
    <3> QED BY <1>1, <3>1 DEF PutSteps
  <2> QED BY <1>1, <2>1 DEF ArePut
<1>3. ArePut(g, bs, parts, used, n)
  BY <1>2, Zenon
<1>4. PutParts(bs, parts, used, n) = g[n]
  BY DEF PutParts, ArePut
<1> HIDE DEF g
<1>5. \A k \in 0 .. n : g[k] = IF k = 0 THEN bs ELSE PutPart(g[k - 1], parts[used + k])
  BY <1>3 DEF ArePut
<1>6. g[0] = bs
  <2>1. 0 \in 0 .. n
    OBVIOUS
  <2> QED BY <1>5, <2>1
<1>7. ASSUME NEW k \in 1 .. n PROVE g[k] = PutPart(g[k - 1], parts[used + k])
  <2>1. k \in 0 .. n /\ k # 0
    OBVIOUS
  <2> QED BY <1>5, <2>1
<1>8. PutSteps(g, bs, parts, used, n)
  BY <1>6, <1>7 DEF PutSteps
<1> QED BY <1>4, <1>8

(* A new cell, where the position says so.                                  *)
LEMMA NewCellIs ==
    ASSUME NEW g, NEW F, NEW qb, NEW qr, NEW N, NEW U, NEW needed, NEW last, IsWalk(g, F, qb, qr, N, U, needed, last),
           NEW x \in U + 1 .. last, NEW bs, NEW X, IsClosed(bs, F, qb, qr, x, X)
    PROVE  IsOpen(NewCell(bs, x), g, F, qb, qr, x, X)
<1> DEFINE A == Ahead(g[x], F[x])
           R == F[x - 1]
           b == bs.last
           f == bs.full
           p == qb[x - 1]
           q == qr[x - 1]
<1>1. N \in Nat /\ U \in 0 .. N /\ last \in U + 1 .. N /\ Laid(types, load, g, F, qb, qr, N) /\ x \in 1 .. N
  BY WalkFacts
<1>2. AreBuilders(bs) /\ Within(b, p, q) /\ ChainsTo(f, Cat(b, R), X)
  BY DEF IsClosed
<1>3. bs = [full |-> f, last |-> b] /\ IsList(f)
  BY <1>2 DEF AreBuilders
<1>4. x \in 0 .. N /\ x - 1 \in 0 .. N
  BY <1>1
<1>5. /\ IsValue(g[x]) /\ load[x] \in BOOLEAN /\ R = Before(g[x], load[x], F[x]) /\ (load[x] => q <= 3)
      /\ p \in Nat /\ q \in Nat /\ p <= CellBits /\ IsSlice(F[x])
  BY <1>1, <1>4, LaidFacts
<1> HIDE DEF R, b, f, p, q
<1>6. IsSlice(A)
  BY <1>5, FrontSlice
<1>7. CASE load[x] = FALSE
  <2>1. NewCell(bs, x) = bs
    BY <1>7 DEF NewCell
  <2>2. R = A
    BY <1>5, <1>7 DEF Before
  <2>3. FillBits(load, qb, x) = p /\ FillRefs(load, qr, x) = q
    BY <1>7 DEF FillBits, FillRefs, p, q
  <2>4. Within(b, p, q) /\ ChainsTo(f, Cat(b, A), X)
    BY <1>2, <2>2
  <2> HIDE DEF A
  <2> QED BY <1>2, <2>1, <2>3, <2>4 DEF IsOpen, A, b, f
<1>8. CASE load[x] = TRUE
  <2> DEFINE r == NewCell(bs, x)
             z == Append(f, b)
  <2>1. r = [full |-> z, last |-> Empty]
    BY <1>8 DEF NewCell, f, b
  <2>2. R = OneCell(A)
    BY <1>5, <1>8 DEF Before
  <2>3. FillBits(load, qb, x) = 0 /\ FillRefs(load, qr, x) = 0
    BY <1>8 DEF FillBits, FillRefs
  <2> HIDE DEF A, r
  <2>4. StoreRef(b, A) = Cat(b, OneCell(A))
    <3>1. IsSlice(b) /\ Bits(b) <= p /\ Len(b.refs) <= q
      BY <1>2 DEF Within
    <3>2. Bits(b) \in Nat /\ Len(b.refs) \in Nat
      BY <3>1, LengthsFacts
    <3> DEFINE u == Bits(b)
               v == Len(b.refs)
    <3>3. u <= p /\ v <= q /\ u \in Nat /\ v \in Nat
      BY <3>1, <3>2
    <3> HIDE DEF u, v
    <3>4. u <= CellBits /\ v <= 3
      BY <1>5, <1>8, <3>3 DEF CellBits
    <3>5. A # Broken
      <4>1. A = [bits |-> A.bits, refs |-> A.refs]
        BY <1>6 DEF IsSlice
      <4> QED BY <4>1, NotBroken
    <3> QED BY <3>1, <3>4, <3>5, StoreRefIs DEF u, v
  <2>5. ChainsTo(f, StoreRef(b, A), X)
    BY <1>2, <2>2, <2>4
  <2>6. ChainsTo(z, A, X)
    BY <1>3, <2>5, ChainOfMore
  <2>7. ChainsTo(z, Cat(Empty, A), X)
    <3>1. Cat(Empty, A) = A
      BY <1>6, CatEmpty
    <3> QED BY <2>6, <3>1
  <2>8. Within(Empty, 0, 0)
    BY EmptyFacts DEF Within
  <2>9. IsList(z)
    <3>1. z = f \o <<b>>
      BY <1>3, AppendList
    <3>2. IsList(<<b>>)
      BY OneList
    <3> DEFINE one == <<b>>
    <3> HIDE DEF one, z
    <3>3. IsList(f \o one)
      BY <1>3, <3>2, CatList DEF one
    <3> QED BY <3>1, <3>3 DEF one
  <2> HIDE DEF z
  <2>10. r.full = z /\ r.last = Empty
    BY <2>1
  <2>11. AreBuilders(r)
    BY <2>1, <2>9, <2>10 DEF AreBuilders
  <2>12. IsOpen(r, g, F, qb, qr, x, X)
    BY <2>3, <2>7, <2>8, <2>10, <2>11 DEF IsOpen, A
  <2> QED BY <2>12 DEF r
<1> QED BY <1>5, <1>7, <1>8

(* Second half, g: the values to be stored.                                 *)
IsPutting(g, F, qb, qr, N, U, needed, last, b, K) ==
    IsWalk(g, F, qb, qr, N, U, needed, last) /\ IsParted(b, needed, last, U, N) /\ K \in 0 .. N /\ b[K] = last + 1

(* A part goes into the cell where the position puts it.                    *)
LEMMA PutOne ==
    ASSUME NEW g, NEW F, NEW qb, NEW qr, NEW N, NEW U, NEW needed, NEW last, NEW b, NEW K,
           IsPutting(g, F, qb, qr, N, U, needed, last, b, K), NEW q \in 0 .. N, b[q] \in U + 1 .. last,
           NEW bs, NEW X, IsClosed(bs, F, qb, qr, b[q], X)
    PROVE  IsClosed(PutPart(NewCell(bs, b[q]), PartsUpTo(needed, g, b, K)[q + 1]), F, qb, qr, b[q + 1], X)
<1> DEFINE x == b[q]
           new == NewCell(bs, x)
           part == PartsUpTo(needed, g, b, K)[q + 1]
<1>1. IsWalk(g, F, qb, qr, N, U, needed, last) /\ IsParted(b, needed, last, U, N) /\ K \in 0 .. N /\ b[K] = last + 1
  BY DEF IsPutting
<1>2. x \in U + 1 .. last /\ IsClosed(bs, F, qb, qr, x, X)
  OBVIOUS
<1>3. x <= last
  <2>1. N \in Nat /\ U \in 0 .. N /\ last \in U + 1 .. N
    BY <1>1, WalkFacts
  <2> HIDE DEF x
  <2> QED BY <1>2, <2>1
<1>4. part = PartAt(needed, g, x)
  <2>1. b[q] <= last
    BY <1>3
  <2> QED BY <1>1, <2>1, PartsThere
<1>5. b[q + 1] = NextPart(needed, x)
  <2>1. b[q] <= last => b[q] \in U + 1 .. last /\ q + 1 \in 1 .. N /\ b[q + 1] = NextPart(needed, b[q])
    BY <1>1, PartedOn
  <2> QED BY <1>3, <2>1
<1> HIDE DEF x
<1>6. IsOpen(new, g, F, qb, qr, x, X)
  BY <1>1, <1>2, NewCellIs
<1> HIDE DEF new, part
<1>7. IsClosed(PutPart(new, part), F, qb, qr, NextPart(needed, x), X)
  BY <1>1, <1>2, <1>4, <1>6, PutPartIs
<1> QED BY <1>5, <1>7 DEF new, part, x

(* The parts of one step.                                                   *)
LEMMA PutSome ==
    ASSUME NEW g, NEW F, NEW qb, NEW qr, NEW N, NEW U, NEW needed, NEW last, NEW b, NEW K,
           IsPutting(g, F, qb, qr, N, U, needed, last, b, K), NEW k \in 0 .. N, NEW i \in U + 1 .. last, b[k] = i,
           NEW count, NEW next \in i + 1 .. last + 1, IsCounted(load, b, N, k, i, count, next),
           NEW bs, NEW X, IsClosed(bs, F, qb, qr, i, X)
    PROVE  IsClosed(PutParts(NewCell(bs, i), PartsUpTo(needed, g, b, K), k, count), F, qb, qr, next, X)
<1> DEFINE parts == PartsUpTo(needed, g, b, K)
           new == NewCell(bs, i)
           r == PutParts(new, parts, k, count)
<1>1. N \in Nat /\ U \in 0 .. N /\ last \in U + 1 .. N
  BY WalkFacts DEF IsPutting
<1>2. /\ count \in Nat \ {0} /\ count \in Nat /\ k + count \in 0 .. N /\ b[k + count] = next
      /\ \A m \in 1 .. count - 1 : k + m \in 0 .. N /\ b[k + m] \in i + 1 .. next - 1 /\ load[b[k + m]] = FALSE
  BY DEF IsCounted
<1>3. PICK f : PutSteps(f, new, parts, k, count) /\ r = f[count]
  <2> HIDE DEF new, parts
  <2> QED BY <1>2, PutPartsAre
<1>4. f[0] = new /\ \A m \in 1 .. count : f[m] = PutPart(f[m - 1], parts[k + m])
  BY <1>3 DEF PutSteps
<1> DEFINE P(m) == IsClosed(f[m], F, qb, qr, b[k + m], X)
           T == {m \in 1 .. count : P(m)}
<1>5. 1 \in T
  <2>1. b[k] \in U + 1 .. last /\ IsClosed(bs, F, qb, qr, b[k], X)
    OBVIOUS
  <2>2. IsClosed(PutPart(NewCell(bs, b[k]), parts[k + 1]), F, qb, qr, b[k + 1], X)
    BY <2>1, PutOne
  <2>3. 1 \in 1 .. count /\ 1 - 1 = 0
    BY <1>2
  <2>4. f[1] = PutPart(new, parts[k + 1])
    BY <1>4, <2>3
  <2> HIDE DEF parts
  <2>5. P(1)
    BY <2>2, <2>4
  <2> QED BY <2>3, <2>5
<1>6. ASSUME NEW m \in 1 .. count - 1, m \in T PROVE m + 1 \in T
  <2> DEFINE q == k + m
             x == b[q]
             c == f[m]
  <2>1. IsClosed(c, F, qb, qr, x, X)
    BY <1>6
  <2>2. q \in 0 .. N /\ x \in i + 1 .. next - 1 /\ load[x] = FALSE
    BY <1>2
  <2>3. k + (m + 1) = q + 1 /\ m + 1 \in 1 .. count /\ (m + 1) - 1 = m
    BY <1>2
  <2>4. f[m + 1] = PutPart(c, parts[q + 1])
    BY <1>4, <2>3
  <2> HIDE DEF q, c
  <2>5. b[q] \in U + 1 .. last
    <3> HIDE DEF x
    <3>1. x \in U + 1 .. last
      BY <1>1, <2>2
    <3> QED BY <3>1 DEF x
  <2>6. IsClosed(PutPart(NewCell(c, b[q]), parts[q + 1]), F, qb, qr, b[q + 1], X)
    BY <2>1, <2>2, <2>5, PutOne
  <2>7. NewCell(c, b[q]) = c
    BY <2>2 DEF NewCell
  <2> HIDE DEF parts
  <2>8. IsClosed(f[m + 1], F, qb, qr, b[q + 1], X)
    BY <2>4, <2>6, <2>7
  <2>9. P(m + 1)
    BY <2>3, <2>8
  <2> QED BY <2>3, <2>9
<1>7. count \in T
  <2> HIDE DEF T
  <2>1. 1 <= count /\ 1 \in Int /\ count \in Int /\ count \in 1 .. count
    BY <1>2
  <2>2. \A m \in 1 .. count : m \in T
    BY <1>5, <1>6, <2>1, UpFrom
  <2> QED BY <2>1, <2>2
<1>8. IsClosed(f[count], F, qb, qr, b[k + count], X)
  BY <1>7
<1> QED BY <1>2, <1>3, <1>8

(* The state after k parts.                                                 *)
PutState(i, k, bs) == [i |-> i, used |-> k, bs |-> bs]
IsPutAt(s, F, qb, qr, b, X, k) == \E bs : s = PutState(b[k], k, bs) /\ IsClosed(bs, F, qb, qr, b[k], X)

(* What PutStep does to it.                                                 *)
LEMMA PutStepIs ==
    ASSUME NEW needed, NEW parts, NEW i, NEW k, NEW bs, NEW st, st = PutState(i, k, bs)
    PROVE  /\ PutStep(needed, parts, st)
                = PutState(PutEnd(needed, i), k + PutCount(needed, i), PutParts(NewCell(bs, i), parts, k, PutCount(needed, i)))
           /\ st.i = i /\ st.bs = bs
<1>1. st.i = i /\ st.used = k /\ st.bs = bs
  BY DEF PutState
<1>2. PutStep(needed, parts, st) =
         [i |-> PutEnd(needed, st.i), used |-> st.used + PutCount(needed, st.i),
          bs |-> PutParts(NewCell(st.bs, st.i), parts, st.used, PutCount(needed, st.i))]
  BY DEF PutStep, PutEnd, PutCount
<1> QED BY <1>1, <1>2 DEF PutState

(* The parts of the next stretch are put behind the others, and what they   *)
(* are chained to is the same.                                              *)
LEMMA PutNext ==
    ASSUME NEW g, NEW F, NEW qb, NEW qr, NEW N, NEW U, NEW needed, NEW last, NEW b, NEW K,
           IsPutting(g, F, qb, qr, N, U, needed, last, b, K), NEW k \in 0 .. N, b[k] \in U + 1 .. last,
           NEW X, NEW st, IsPutAt(st, F, qb, qr, b, X, k)
    PROVE  \E q \in 0 .. N : b[q] \in b[k] + 1 .. last + 1 /\ IsPutAt(PutStep(needed, PartsUpTo(needed, g, b, K), st), F, qb, qr, b, X, q)
<1> DEFINE i == b[k]
           parts == PartsUpTo(needed, g, b, K)
           count == PutCount(needed, i)
           next == PutEnd(needed, i)
           r == PutStep(needed, parts, st)
<1>1. IsWalk(g, F, qb, qr, N, U, needed, last) /\ IsParted(b, needed, last, U, N) /\ i \in U + 1 .. last /\ b[k] = i
  BY DEF IsPutting
<1>2. PICK bs : st = PutState(i, k, bs) /\ IsClosed(bs, F, qb, qr, i, X)
  BY DEF IsPutAt
<1> HIDE DEF i
<1>3. next \in i + 1 .. last + 1 /\ IsCounted(load, b, N, k, i, count, next)
  BY <1>1, PutCounted
<1> HIDE DEF count, next
<1>4. IsClosed(PutParts(NewCell(bs, i), parts, k, count), F, qb, qr, next, X)
  BY <1>1, <1>2, <1>3, PutSome
<1> HIDE DEF parts
<1>5. r = PutState(next, k + count, PutParts(NewCell(bs, i), parts, k, count))
  BY <1>2, PutStepIs DEF count, next
<1>6. k + count \in 0 .. N /\ b[k + count] = next
  BY <1>3 DEF IsCounted
<1>7. IsPutAt(r, F, qb, qr, b, X, k + count)
  <2> DEFINE bs2 == PutParts(NewCell(bs, i), parts, k, count)
  <2>1. r = PutState(b[k + count], k + count, bs2) /\ IsClosed(bs2, F, qb, qr, b[k + count], X)
    BY <1>4, <1>5, <1>6
  <2> HIDE DEF bs2, r
  <2> QED BY <2>1 DEF IsPutAt
<1>8. b[k + count] \in b[k] + 1 .. last + 1
  BY <1>1, <1>3, <1>6
<1> QED BY <1>6, <1>7, <1>8 DEF r, parts

(* The member that comes next.                                              *)
LEMMA PutHas ==
    ASSUME NEW s, NEW F, NEW qb, NEW qr, NEW b, NEW X, NEW k, IsPutAt(s, F, qb, qr, b, X, k)
    PROVE  s.i = b[k]
<1> DEFINE i == b[k]
<1>1. PICK bs : s = PutState(i, k, bs)
  BY DEF IsPutAt
<1> HIDE DEF i
<1> QED BY <1>1 DEF PutState, i

(* All members up to the last needed.                                       *)
LEMMA PutRun ==
    ASSUME NEW g, NEW F, NEW qb, NEW qr, NEW N, NEW U, NEW needed, NEW last, NEW b, NEW K,
           IsPutting(g, F, qb, qr, N, U, needed, last, b, K), NEW parts, parts = PartsUpTo(needed, g, b, K),
           NEW r, r = LoopOf("put", needed, parts, FirstPut, last)
    PROVE  \E q \in 0 .. N : b[q] = last + 1 /\ IsPutAt(r, F, qb, qr, b, F[U], q)
<1> DEFINE n == last
           X == F[U]
           loop == "put"
           st == FirstPut
           f == CHOOSE z : IsLoop(z, loop, needed, parts, st, n)
           Good(s) == \E q \in 0 .. N : b[q] \in U + 1 .. last + 1 /\ IsPutAt(s, F, qb, qr, b, X, q)
           S == {s \in {f[j] : j \in 0 .. n} : Good(s)}
<1>1. IsWalk(g, F, qb, qr, N, U, needed, last) /\ IsParted(b, needed, last, U, N)
  BY DEF IsPutting
<1>2. N \in Nat /\ U \in 0 .. N /\ last \in U + 1 .. N /\ last \in Nat /\ startIndexType = U + 1 /\ Laid(types, load, g, F, qb, qr, N)
  BY <1>1, WalkFacts
<1>3. IsPutAt(st, F, qb, qr, b, X, 0) /\ b[0] = U + 1
  <2> DEFINE bs == [full |-> <<>>, last |-> Empty]
             p == qb[U]
             q == qr[U]
  <2>1. b[0] = U + 1
    BY <1>1 DEF IsParted
  <2>2. st = PutState(b[0], 0, bs)
    BY <1>2, <2>1 DEF FirstPut, PutState
  <2>3. IsSlice(X) /\ p \in Nat /\ q \in Nat
    BY <1>2, LaidFacts
  <2>4. U + 1 - 1 = U
    BY <1>2
  <2> HIDE DEF X, p, q
  <2>5. Within(Empty, p, q)
    <3>1. 0 <= p /\ 0 <= q
      BY <2>3
    <3> QED BY <3>1, EmptyFacts DEF Within
  <2>6. ChainsTo(<<>>, Cat(Empty, X), X)
    <3>1. Cat(Empty, X) = X
      BY <2>3, CatEmpty
    <3> QED BY <3>1, ChainOfNone
  <2>7. AreBuilders(bs) /\ bs.full = <<>> /\ bs.last = Empty
    BY EmptyList DEF AreBuilders
  <2> HIDE DEF bs
  <2>8. IsClosed(bs, F, qb, qr, U + 1, X)
    <3> DEFINE u == U + 1
    <3>2. Within(bs.last, p, q) /\ ChainsTo(bs.full, Cat(bs.last, X), X) /\ AreBuilders(bs)
      BY <2>5, <2>6, <2>7
    <3>1. u - 1 = U
      BY <1>2
    <3> HIDE DEF u
    <3>3. F[u - 1] = X /\ qb[u - 1] = p /\ qr[u - 1] = q
      BY <3>1 DEF X, p, q
    <3>4. IsClosed(bs, F, qb, qr, u, X)
      BY <3>2, <3>3 DEF IsClosed
    <3> QED BY <3>4 DEF u
  <2>9. IsClosed(bs, F, qb, qr, b[0], X)
    BY <2>1, <2>8
  <2> HIDE DEF st
  <2> QED BY <2>1, <2>2, <2>9 DEF IsPutAt
<1>4. r = f[n]
  <2> HIDE DEF st
  <2> QED BY DEF LoopOf, st
<1>5. \A s : Step(loop, needed, parts, s) = PutStep(needed, parts, s)
  BY StepIs
<1>6. n \in Nat /\ n = last
  BY <1>2
<1> HIDE DEF n, loop, st, X
<1>8. Moves(f, loop, needed, parts, st, n)
  <2> HIDE DEF f
  <2>1. f = CHOOSE z : IsLoop(z, loop, needed, parts, st, n)
    BY DEF f
  <2> QED BY <1>6, <2>1, LoopMoves
<1> HIDE DEF f
<1>9. f[0] = st /\ \A j \in 1 .. n : f[j] = IF f[j - 1].i > n THEN f[j - 1] ELSE Step(loop, needed, parts, f[j - 1])
  BY <1>8 DEF Moves
<1>10. Good(st)
  <2>1. 0 \in 0 .. N /\ U + 1 \in U + 1 .. last + 1
    BY <1>2
  <2>2. b[0] \in U + 1 .. last + 1
    BY <1>3, <2>1
  <2> QED BY <1>3, <2>1, <2>2
<1>11. st \in S
  <2>1. 0 \in 0 .. n
    BY <1>6
  <2> HIDE DEF Good
  <2> QED BY <1>9, <1>10, <2>1
<1>12. ASSUME NEW s \in S PROVE s.i \in Nat /\ s.i > 0
  <2>1. PICK q \in 0 .. N : b[q] \in U + 1 .. last + 1 /\ IsPutAt(s, F, qb, qr, b, X, q)
    OBVIOUS
  <2>2. s.i = b[q]
    BY <2>1, PutHas
  <2> DEFINE x == b[q]
  <2>3. x \in U + 1 .. last + 1
    BY <2>1
  <2> HIDE DEF x
  <2>4. x \in Nat /\ x > 0
    BY <1>2, <2>3
  <2> QED BY <2>2, <2>4 DEF x
<1>13. ASSUME NEW j \in 1 .. n, f[j - 1] \in S, ~(f[j - 1].i > n)
       PROVE  Step(loop, needed, parts, f[j - 1]) \in S /\ f[j - 1].i < Step(loop, needed, parts, f[j - 1]).i
  <2> DEFINE s == f[j - 1]
             w == Step(loop, needed, parts, s)
  <2>1. PICK q \in 0 .. N : b[q] \in U + 1 .. last + 1 /\ IsPutAt(s, F, qb, qr, b, X, q)
    BY <1>13
  <2>2. w = f[j] /\ j \in 0 .. n
    BY <1>6, <1>9, <1>13
  <2>3. s.i = b[q]
    BY <2>1, PutHas
  <2>4. ~(s.i > n)
    BY <1>13
  <2> DEFINE x == b[q]
  <2>5. x \in U + 1 .. last + 1 /\ ~(x > n) /\ s.i = x
    BY <2>1, <2>3, <2>4
  <2>6. w = PutStep(needed, parts, s)
    BY <1>5
  <2> HIDE DEF s, w, x
  <2>7. x \in U + 1 .. last
    BY <1>2, <1>6, <2>5
  <2>8. PICK p \in 0 .. N : b[p] \in b[q] + 1 .. last + 1 /\ IsPutAt(PutStep(needed, parts, s), F, qb, qr, b, X, p)
    <3>1. b[q] \in U + 1 .. last /\ q \in 0 .. N
      BY <2>7 DEF x
    <3> QED BY <2>1, <3>1, PutNext
  <2> DEFINE y == b[p]
  <2>10. y \in x + 1 .. last + 1
    BY <2>8 DEF x
  <2>11. IsPutAt(w, F, qb, qr, b, X, p)
    BY <2>6, <2>8
  <2>12. w.i = y
    BY <2>11, PutHas
  <2>13. Good(w)
    <3> HIDE DEF y
    <3>1. y \in U + 1 .. last + 1
      BY <1>2, <2>7, <2>10
    <3>2. b[p] \in U + 1 .. last + 1
      BY <3>1 DEF y
    <3> QED BY <2>11, <3>2
  <2>14. w \in S
    <3> HIDE DEF Good
    <3> QED BY <2>2, <2>13
  <2> HIDE DEF y
  <2>15. s.i < w.i
    BY <1>2, <2>5, <2>7, <2>10, <2>12
  <2> QED BY <2>14, <2>15 DEF s, w
<1>14. IsKept(f, S, loop, needed, parts, st, n)
  <2> HIDE DEF S
  <2> QED BY <1>8, <1>11, <1>12, <1>13 DEF IsKept
<1>15. f[n] \in S /\ f[n].i > n
  <2> HIDE DEF S
  <2> QED BY <1>6, <1>14, LoopEnds
<1>16. PICK q \in 0 .. N : b[q] \in U + 1 .. last + 1 /\ IsPutAt(f[n], F, qb, qr, b, X, q)
  BY <1>15
<1>17. f[n].i = b[q]
  BY <1>16, PutHas
<1>18. b[q] = last + 1
  <2> DEFINE x == b[q]
  <2>1. x \in U + 1 .. last + 1 /\ x > last
    BY <1>6, <1>15, <1>16, <1>17
  <2> HIDE DEF x
  <2>2. x = last + 1
    BY <1>2, <2>1
  <2> QED BY <2>2 DEF x
<1> QED BY <1>4, <1>16, <1>18 DEF X

(* What is left of the old slice goes behind the last part.                 *)
LEMMA PutTogetherIs ==
    ASSUME NEW g, NEW F, NEW qb, NEW qr, NEW N, NEW U, NEW needed, NEW last, NEW b, NEW K,
           IsPutting(g, F, qb, qr, N, U, needed, last, b, K), NEW t, t.parts = PartsUpTo(needed, g, b, K), t.slice = F[last]
    PROVE  PutTogether(needed, t) = F[U]
<1> DEFINE R == F[last]
           X == F[U]
           p == qb[last]
           q == qr[last]
           parts == PartsUpTo(needed, g, b, K)
           st == LoopOf("put", needed, parts, FirstPut, last)
<1>1. IsWalk(g, F, qb, qr, N, U, needed, last)
  BY DEF IsPutting
<1>2. N \in Nat /\ U \in 0 .. N /\ last \in U + 1 .. N /\ last = lastIndexType(needed) /\ Laid(types, load, g, F, qb, qr, N)
  BY <1>1, WalkFacts
<1>3. last \in 0 .. N /\ last + 1 - 1 = last
  BY <1>2
<1>4. \E k \in 0 .. N : b[k] = last + 1 /\ IsPutAt(st, F, qb, qr, b, X, k)
  <2> HIDE DEF st
  <2>1. st = LoopOf("put", needed, parts, FirstPut, last)
    BY DEF st
  <2> HIDE DEF parts
  <2>2. parts = PartsUpTo(needed, g, b, K)
    BY DEF parts
  <2> QED BY <2>1, <2>2, PutRun
<1>5. PICK k \in 0 .. N : b[k] = last + 1 /\ IsPutAt(st, F, qb, qr, b, X, k)
  BY <1>4
<1>6. PICK bs : st = PutState(b[k], k, bs) /\ IsClosed(bs, F, qb, qr, b[k], X)
  BY <1>5 DEF IsPutAt
<1>7. PutTogether(needed, t) = Chained(st.bs.full, StoreSlice(st.bs.last, t.slice))
  <2> HIDE DEF st, parts
  <2>1. st = LoopOf("put", needed, t.parts, FirstPut, lastIndexType(needed))
    BY <1>2 DEF st, parts
  <2> QED BY <2>1, PutLoop
<1> HIDE DEF st, R, X, p, q, parts
<1>8. st.bs = bs
  BY <1>6 DEF PutState
<1>9. AreBuilders(bs) /\ Within(bs.last, p, q) /\ ChainsTo(bs.full, Cat(bs.last, R), X)
  <2> DEFINE u == last + 1
  <2>1. u - 1 = last
    BY <1>3
  <2>2. IsClosed(bs, F, qb, qr, u, X)
    BY <1>5, <1>6
  <2> HIDE DEF u
  <2> QED BY <2>1, <2>2 DEF IsClosed, p, q, R
<1>10. IsSlice(R) /\ p \in Nat /\ q \in Nat
  BY <1>2, <1>3, LaidFacts DEF R, p, q
<1>11. /\ p + Bits(R) <= CellBits /\ Bits(R) \in Nat
       /\ q + Len(R.refs) <= CellRefs /\ Len(R.refs) \in Nat
  BY <1>2, <1>3, RestHasRoom DEF R, p, q
<1> DEFINE a == bs.last
<1>12. IsSlice(a) /\ Bits(a) <= p /\ Len(a.refs) <= q
  BY <1>9 DEF Within
<1>13. Bits(a) \in Nat /\ Len(a.refs) \in Nat
  BY <1>12, LengthsFacts
<1> HIDE DEF a
<1>14. Bits(a) + Bits(R) <= CellBits /\ Len(a.refs) + Len(R.refs) <= CellRefs
  <2> DEFINE v == Bits(a)
             w == Len(a.refs)
             x == Bits(R)
             y == Len(R.refs)
  <2>1. v \in Nat /\ w \in Nat /\ x \in Nat /\ y \in Nat /\ v <= p /\ w <= q /\ p + x <= CellBits /\ q + y <= CellRefs
    BY <1>11, <1>12, <1>13
  <2> HIDE DEF v, w, x, y
  <2>2. v + x <= CellBits /\ w + y <= CellRefs
    BY <1>10, <2>1 DEF CellBits, CellRefs
  <2> QED BY <2>2 DEF v, w, x, y
<1>15. StoreSlice(a, R) = Cat(a, R)
  BY <1>10, <1>12, <1>14, StoreSliceIs
<1>16. ChainsTo(bs.full, StoreSlice(a, R), X) /\ IsList(bs.full)
  BY <1>9, <1>15 DEF AreBuilders, a
<1>17. Chained(bs.full, StoreSlice(a, R)) = X
  BY <1>16, ChainIs
<1>18. t.slice = R
  BY DEF R
<1> QED BY <1>7, <1>8, <1>17, <1>18 DEF a, X

(* packData: the slice holds the new values where they were asked for, and  *)
(* the old ones elsewhere.                                                  *)
LEMMA PackedIs ==
    ASSUME NEW h, NEW E, NEW pb, NEW pr, NEW N, NEW U, NEW needed, NEW last, IsWalk(h, E, pb, pr, N, U, needed, last),
           NEW g, NEW F, NEW qb, NEW qr, IsLaid(g, F, qb, qr, N, U), \A k \in 1 .. N : k \notin needed => g[k] = h[k],
           NEW new, \A x \in needed : new[x] = g[x], c7.slice = E[U], NEW t, t = TakeApart(needed, new)
    PROVE  PutTogether(needed, t) = F[U]
<1>1. PICK b : IsParted(b, needed, last, U, N)
  BY PartedExists
<1>2. IsTaking(h, E, pb, pr, N, U, needed, last, b, g)
  BY <1>1 DEF IsTaking
<1>3. PICK K \in 0 .. N : b[K] = last + 1 /\ IsTaken(t, h, E, last, needed, g, b, K)
  BY <1>2, TakenApart
<1>4. IsWalk(g, F, qb, qr, N, U, needed, last)
  BY DEF IsWalk
<1>5. IsPutting(g, F, qb, qr, N, U, needed, last, b, K)
  BY <1>1, <1>3, <1>4 DEF IsPutting
<1>6. /\ N \in Nat /\ U \in 0 .. N /\ last \in U + 1 .. N
      /\ Laid(types, load, h, E, pb, pr, N) /\ Laid(types, load, g, F, qb, qr, N) /\ \A k \in needed : k <= last
  BY <1>4, WalkFacts
<1>7. last \in 0 .. N /\ last + 1 - 1 = last /\ ~(last + 1 <= last)
  BY <1>6
<1>8. \A k \in last + 1 .. N : g[k] = h[k]
  <2>1. ASSUME NEW k \in last + 1 .. N PROVE g[k] = h[k]
    <3>1. k \in 1 .. N /\ ~(k <= last)
      BY <1>6
    <3>2. k \notin needed
      BY <1>6, <3>1
    <3> QED BY <3>1, <3>2
  <2> QED BY <2>1
<1>9. F[last] = E[last]
  BY <1>6, <1>7, <1>8, SameRest
<1> DEFINE X == SliceAt(h, E, last, b[K])
           p == PartsUpTo(needed, g, b, K)
           i == b[K]
<1>10. PICK cur, ok : t = State(i, X, p, cur, ok)
  BY <1>3 DEF IsTaken, TakeAt
<1>11. X = E[last]
  <2> DEFINE u == last + 1
  <2>1. X = SliceAt(h, E, last, u)
    BY <1>3
  <2>2. u - 1 = last /\ ~(u <= last)
    BY <1>7
  <2> HIDE DEF u
  <2> QED BY <2>1, <2>2 DEF SliceAt
<1> HIDE DEF X, p, i
<1>12. t.parts = p /\ t.slice = X
  BY <1>10, StateParts
<1>13. t.parts = PartsUpTo(needed, g, b, K) /\ t.slice = F[last]
  BY <1>9, <1>11, <1>12 DEF p
<1> QED BY <1>5, <1>13, PutTogetherIs

(***************************************************************************)
(* The values by the source program, in c4 and in c7.                      *)
(***************************************************************************)
CellOf(g) == encodeParameters(Header \o Values(g), AllLoad, Empty)
SliceOf(g) == encodeParameters(UnpackedOf(Values(g)), UnpackedOf(load), Empty)
StateOf(g) == [usual |-> UsualOf(Values(g)), slice |-> SliceOf(g)]

(* The values of the usual variables and of the unpacked ones.              *)
LEMMA ValuesParts ==
    ASSUME Computed, NEW N, N = Len(types), NEW U, U = startIndexType - 1, NEW g
    PROVE  /\ UsualOf(Values(g)) = [j \in 1 .. U |-> Value(types[j], j, g[j])]
           /\ UnpackedOf(Values(g)) = [i \in 1 .. N - U |-> Value(types[i + U], i + U, g[i + U])]
<1> DEFINE h == Values(g)
           a == [j \in 1 .. U |-> Value(types[j], j, g[j])]
           z == [i \in 1 .. N - U |-> Value(types[i + U], i + U, g[i + U])]
           p == SubSeq(h, 1, U)
           q == SubSeq(h, U + 1, N)
<1>1. N \in Nat /\ U \in 0 .. N /\ startIndexType = U + 1
  BY ComputedFacts
<1>2. h = [j \in 1 .. N |-> h[j]] /\ \A j \in 1 .. N : h[j] = Value(types[j], j, g[j])
  BY DEF Values
<1>3. UsualOf(h) = p /\ UnpackedOf(h) = q
  BY <1>1 DEF UsualOf, UnpackedOf
<1> HIDE DEF h
<1>4. IsList(h) /\ Len(h) = N
  BY <1>1, <1>2, FunctionList
<1>5. U \in 0 .. Len(h) /\ N \in U .. Len(h)
  BY <1>1, <1>4
<1> HIDE DEF p, q, a, z
<1>6. p = a
  <2>1. IsList(p) /\ Len(p) = U /\ \A k \in 1 .. U : p[k] = h[k] /\ k \in 1 .. Len(h)
    BY <1>4, <1>5, FirstPart DEF p
  <2>2. a = [k \in 1 .. U |-> a[k]] /\ \A k \in 1 .. U : a[k] = Value(types[k], k, g[k])
    BY DEF a
  <2>3. IsList(a) /\ Len(a) = U
    <3>1. U \in Nat
      BY <1>1
    <3> QED BY <2>2, <3>1, FunctionList
  <2>4. \A k \in 1 .. Len(p) : p[k] = a[k]
    BY <1>2, <1>4, <2>1, <2>2
  <2> QED BY <2>1, <2>3, <2>4, SameList
<1>7. q = z
  <2>1. IsList(q) /\ Len(q) = N - U /\ \A k \in 1 .. N - U : q[k] = h[U + k] /\ U + k \in 1 .. Len(h)
    <3>1. q = SubSeq(h, U + 1, N)
      BY DEF q
    <3>2. IsList(q) /\ Len(q) = N - U /\ \A k \in 1 .. N - U : q[k] = h[U + k] /\ U + k \in 1 .. Len(h)
      BY ONLY <1>4, <1>5, <3>1, PartOfList
    <3> QED BY <3>2
  <2>2. z = [k \in 1 .. N - U |-> z[k]] /\ \A k \in 1 .. N - U : z[k] = Value(types[k + U], k + U, g[k + U])
    BY DEF z
  <2>3. IsList(z) /\ Len(z) = N - U
    <3>1. N - U \in Nat
      BY <1>1
    <3> DEFINE m == N - U
    <3>2. m \in Nat /\ z = [k \in 1 .. m |-> z[k]]
      BY <2>2, <3>1
    <3> HIDE DEF m
    <3>3. IsList(z) /\ Len(z) = m
      BY <3>2, FunctionList
    <3> QED BY <3>3 DEF m
  <2>4. \A k \in 1 .. Len(q) : q[k] = z[k]
    <3>1. ASSUME NEW k \in 1 .. N - U PROVE q[k] = z[k]
      <4>1. U + k = k + U /\ q[k] = h[U + k] /\ U + k \in 1 .. N
        BY <1>1, <1>4, <2>1
      <4>2. h[U + k] = Value(types[U + k], U + k, g[U + k])
        BY <1>2, <4>1
      <4> QED BY <2>2, <4>1, <4>2
    <3> QED BY <2>1, <3>1
  <2> QED BY <2>1, <2>3, <2>4, SameList
<1> QED BY <1>3, <1>6, <1>7 DEF h, a, z

(* Where values are stored.                                                 *)
IsLayout(g, E, pb, pr, B, N, U) ==
    /\ IsLaid(Values(g), E, pb, pr, N, U) /\ IsStored(B, Values(g), E, pb, pr) /\ IsBehindUsual(Values(g), E, U, N)
    /\ CellOf(g) = Cat(B, E[0]) /\ SliceOf(g) = E[U] /\ CellOf(g) # Broken /\ SliceOf(g) # Broken

(* Every choice of values is stored somewhere.                              *)
LEMMA LayoutExists ==
    ASSUME Computed, NEW N, N = Len(types), NEW U, U = startIndexType - 1, NEW g
    PROVE  \E E, pb, pr, B : IsLayout(g, E, pb, pr, B, N, U)
<1> DEFINE h == Values(g)
<1>1. PICK E, pb, pr : IsLaid(h, E, pb, pr, N, U)
  BY ValuesLaid
<1> HIDE DEF h
<1>2. PICK B : IsStored(B, h, E, pb, pr)
  BY <1>1, StoredFacts
<1>3. IsBehindUsual(h, E, U, N)
  BY <1>1, UsualRead
<1>4. CellOf(g) = Cat(B, E[0])
  BY <1>2 DEF IsStored, CellOf, h
<1>5. SliceOf(g) = E[U] /\ IsSlice(E[U])
  BY <1>3 DEF IsBehindUsual, SliceOf, h
<1>6. SliceOf(g) # Broken
  <2> DEFINE s == E[U]
  <2> HIDE DEF s
  <2>1. IsSlice(s) /\ SliceOf(g) = s
    BY <1>5 DEF s
  <2>2. s = [bits |-> s.bits, refs |-> s.refs]
    BY <2>1 DEF IsSlice
  <2> QED BY <2>1, <2>2, NotBroken
<1>7. CellOf(g) # Broken
  BY <1>4, NotBroken DEF Cat
<1>8. IsLayout(g, E, pb, pr, B, N, U)
  BY <1>1, <1>2, <1>3, <1>4, <1>5, <1>6, <1>7 DEF IsLayout, h
<1> QED BY <1>8

(* c4_to_c7 reads what is stored ...                                        *)
LEMMA LoadIs ==
    ASSUME Computed, NEW g, c4 = CellOf(g)
    PROVE  /\ c4_to_c7 = [values |-> UsualOf(Values(g)), rest |-> SliceOf(g)]
           /\ SliceOf(g) # Broken /\ (~HasUnpacked => SliceOf(g) = Empty)
<1> DEFINE N == Len(types)
           U == startIndexType - 1
           h == Values(g)
<1>1. PICK E, pb, pr, B : IsLayout(g, E, pb, pr, B, N, U)
  BY LayoutExists
<1>2. ~HasUnpacked => U = N
  BY ComputedFacts
<1> HIDE DEF N, U
<1>3. IsStored(B, h, E, pb, pr) /\ IsBehindUsual(h, E, U, N) /\ CellOf(g) = Cat(B, E[0]) /\ SliceOf(g) = E[U] /\ SliceOf(g) # Broken
  BY <1>1 DEF IsLayout
<1> HIDE DEF h
<1>4. decodeParameters(contract.header, NoLoad(HeaderCount), c4) = [values |-> Header, rest |-> E[0]]
  BY <1>3 DEF IsStored
<1>5. decodeParameters(contract.header, [k \in 1 .. Len(contract.header) |-> FALSE], c4).rest = E[0]
  BY <1>4 DEF NoLoad, HeaderCount
<1>6. c4_to_c7 = decodeParameters(UsualTypes, UsualLoad, E[0])
  BY <1>5 DEF c4_to_c7
<1>7. decodeParameters(UsualTypes, UsualLoad, E[0]) = [values |-> UsualOf(h), rest |-> E[U]] /\ (U = N => E[U] = Empty)
  BY <1>3 DEF IsBehindUsual
<1> QED BY <1>2, <1>3, <1>6, <1>7 DEF h

(* ... and c7_to_c4 stores it again.                                        *)
LEMMA SaveIs ==
    ASSUME Computed, NEW g, c7 = StateOf(g)
    PROVE  c7_to_c4 = CellOf(g) /\ CellOf(g) # Broken
<1> DEFINE N == Len(types)
           U == startIndexType - 1
           h == Values(g)
<1>1. PICK E, pb, pr, B : IsLayout(g, E, pb, pr, B, N, U)
  BY LayoutExists
<1>2. ~HasUnpacked => U = N
  BY ComputedFacts
<1> HIDE DEF N, U
<1>3. /\ IsLaid(h, E, pb, pr, N, U) /\ IsStored(B, h, E, pb, pr) /\ CellOf(g) = Cat(B, E[0]) /\ SliceOf(g) = E[U]
      /\ CellOf(g) # Broken
  BY <1>1 DEF IsLayout
<1> DEFINE u == UsualOf(h)
           s == SliceOf(g)
<1>4. c7 = [usual |-> u, slice |-> s]
  BY DEF StateOf
<1> HIDE DEF u, s
<1>5. c7.usual = u /\ c7.slice = s
  BY <1>4
<1>6. c7.usual = UsualOf(h) /\ c7.slice = E[U]
  BY <1>3, <1>5 DEF u, s
<1> HIDE DEF h
<1>7. Within(B, pb[0], pr[0]) /\ encodeParameters(Header, NoLoad(HeaderCount), Empty) = B
  BY <1>3 DEF IsStored
<1>8. /\ encodeWithUnpacked(UsualOf(h), UsualLoad, B, E[U]) = Cat(B, E[0])
      /\ U = N => encodeParameters(UsualOf(h), UsualLoad, B) = Cat(B, E[0])
  BY <1>3, <1>7, UsualPut
<1>9. encodeParameters(Header, [k \in 1 .. Len(contract.header) |-> FALSE], Empty) = B
  BY <1>7 DEF NoLoad, HeaderCount
<1>10. c7_to_c4 = IF HasUnpacked THEN encodeWithUnpacked(c7.usual, UsualLoad, B, c7.slice)
                  ELSE encodeParameters(c7.usual, UsualLoad, B)
  BY <1>9 DEF c7_to_c4
<1>11. c7_to_c4 = Cat(B, E[0])
  BY <1>2, <1>6, <1>8, <1>10
<1> QED BY <1>3, <1>11

(***************************************************************************)
(* The inductive invariant.                                                *)
(***************************************************************************)
(* Its parts, for any values.                                               *)
Answered(a, g) == a.got = [k \in 1 .. Len(a.asked) |-> Value(types[a.asked[k]], a.asked[k], g[a.asked[k]])]
NoAnswer == [asked |-> <<>>, got |-> <<>>]

IsGood(g, cell, state, a, m) ==
    /\ g \in [1 .. Len(types) -> {0, 1}] /\ m \in {"stored", "loaded", "assert"}
    /\ m = "stored" => cell = CellOf(g)
    /\ m = "loaded" => state = StateOf(g)
    /\ a.asked \in Seq(startIndexType .. Len(types))
    /\ Answered(a, g)

(* The invariant is made of them ...                                        *)
LEMMA GoodNow == StorageInv <=> Computed /\ IsGood(tags, c4, c7, answer, mode)
<1>1. Held = Values(tags)
  BY DEF Held, Current, Values
<1>2. StoredCell = CellOf(tags) /\ [usual |-> UsualOf(Held), slice |-> StoredSlice] = StateOf(tags)
  BY <1>1 DEF StoredCell, CellOf, StateOf, StoredSlice, SliceOf
<1>3. AnswerIsCurrent <=> Answered(answer, tags)
  BY DEF AnswerIsCurrent, Answered, Current
<1> QED BY <1>2, <1>3 DEF StorageInv, IsGood, Computed

(* ... and so is it after a step.                                           *)
LEMMA GoodNext ==
    ASSUME Computed, UNCHANGED <<contract, code>>, IsGood(tags', c4', c7', answer', mode')
    PROVE  StorageInv'
<1>0. contract' = contract /\ code' = code
  OBVIOUS
<1>1. Held' = Values(tags')
  BY <1>0 DEF Held, Current, Values, types
<1>2. /\ Header' = Header /\ AllLoad' = AllLoad /\ types' = types /\ load' = load
      /\ startIndexType' = startIndexType
  BY <1>0 DEF Header, AllLoad, types, load, startIndexType, UsualTypes
<1>3. StoredCell' = CellOf(tags') /\ [usual |-> UsualOf(Held)', slice |-> StoredSlice'] = StateOf(tags')
  BY <1>1, <1>2 DEF StoredCell, CellOf, StateOf, StoredSlice, SliceOf, UsualOf, UnpackedOf
<1>4. AnswerIsCurrent' <=> Answered(answer', tags')
  BY <1>2 DEF AnswerIsCurrent, Answered, Current
<1> QED BY <1>0, <1>2, <1>3, <1>4 DEF StorageInv, IsGood, Computed

(* Nothing asked for is answered by nothing.                                *)
LEMMA NothingAnswered ==
    ASSUME NEW g
    PROVE  NoAnswer.asked \in Seq(startIndexType .. Len(types)) /\ Answered(NoAnswer, g)
<1>1. NoAnswer.asked = <<>> /\ NoAnswer.got = <<>>
  BY DEF NoAnswer
<1>2. Len(<<>>) = 0
  OBVIOUS
<1>3. Answered(NoAnswer, g)
  BY <1>1, <1>2 DEF Answered
<1> QED BY <1>1, <1>3

(* What follows from the invariant.                                         *)
LEMMA GoodMeans ==
    ASSUME Computed, IsGood(tags, c4, c7, answer, mode)
    PROVE  NothingBreaks /\ UsualIsCurrent /\ AnswerIsCurrent /\ SliceIsCurrent
<1> DEFINE N == Len(types)
           U == startIndexType - 1
<1>1. AnswerIsCurrent /\ NothingBreaks
  BY DEF IsGood, AnswerIsCurrent, Answered, Current, NothingBreaks
<1>2. ASSUME mode = "loaded" PROVE c7.usual = UsualOf(Values(tags)) /\ c7.slice = SliceOf(tags)
  BY <1>2 DEF IsGood, StateOf
<1>3. N = Len(types) /\ U = startIndexType - 1
  OBVIOUS
<1>4. PICK E, pb, pr, B : IsLayout(tags, E, pb, pr, B, N, U)
  BY LayoutExists
<1>5. N \in Nat /\ U \in 0 .. N
  BY ComputedFacts
<1> HIDE DEF N, U
<1>6. /\ UsualOf(Values(tags)) = [j \in 1 .. U |-> Value(types[j], j, tags[j])]
      /\ UnpackedOf(Values(tags)) = [i \in 1 .. N - U |-> Value(types[i + U], i + U, tags[i + U])]
  BY <1>3, ValuesParts
<1>7. UsualIsCurrent
  BY <1>2, <1>3, <1>6 DEF UsualIsCurrent, Current
<1>8. decodeParameters(SubSeq(types, U + 1, N), SubSeq(load, U + 1, N), SliceOf(tags))
          = [values |-> UnpackedOf(Values(tags)), rest |-> Empty]
  BY <1>4 DEF IsLayout, IsBehindUsual
<1> DEFINE d == decodeParameters(SubSeq(types, U + 1, N), SubSeq(load, U + 1, N), c7.slice)
<1>9. ASSUME mode = "loaded" PROVE d.rest = Empty /\ d.values = [k \in 1 .. N - U |-> Current(U + k)]
  <2>1. d = [values |-> UnpackedOf(Values(tags)), rest |-> Empty]
    BY <1>2, <1>8, <1>9
  <2>2. \A i \in 1 .. N - U : i + U = U + i
    BY <1>5
  <2>3. \A i \in 1 .. N - U : Value(types[i + U], i + U, tags[i + U]) = Current(U + i)
    BY <2>2 DEF Current
  <2>4. [i \in 1 .. N - U |-> Value(types[i + U], i + U, tags[i + U])] = [k \in 1 .. N - U |-> Current(U + k)]
    BY <2>3
  <2> HIDE DEF d
  <2> QED BY <2>1, <2>4, <1>6
<1>10. SliceIsCurrent
  BY <1>3, <1>9 DEF SliceIsCurrent
<1> QED BY <1>1, <1>7, <1>10

(* Default values, behind those of the header.                              *)
DefaultsOf(hd, t) ==
    LET all == hd \o t
        n   == Len(hd)
    IN  [i \in 1 .. Len(all) |-> Value(all[i], IF i <= n THEN -i ELSE i - n, 0)]
NoTags == [j \in 1 .. Len(types) |-> 0]

IsDefault(hd, t, hv, tv) ==
    /\ IsList(hd) /\ hv = [k \in 1 .. Len(hd) |-> Value(hd[k], -k, 0)]
    /\ IsList(t) /\ tv = [j \in 1 .. Len(t) |-> Value(t[j], j, 0)]

(* The values of a new contract are those of the header and those of the    *)
(* members.                                                                 *)
LEMMA DefaultsAre ==
    ASSUME NEW hd, NEW t, NEW hv, NEW tv, IsDefault(hd, t, hv, tv)
    PROVE  DefaultsOf(hd, t) = hv \o tv
<1> DEFINE all == hd \o t
           n == Len(hd)
           m == Len(t)
           w == Len(all)
           x == DefaultsOf(hd, t)
           y == hv \o tv
<1>0. IsList(hd) /\ IsList(t)
  BY DEF IsDefault
<1>1. /\ n \in Nat /\ m \in Nat /\ w = n + m
      /\ \A k \in 1 .. n + m : all[k] = IF k <= n THEN hd[k] ELSE t[k - n]
  BY <1>0, CatList, ListFacts
<1>2. x = [i \in 1 .. w |-> Value(all[i], IF i <= n THEN -i ELSE i - n, 0)]
  BY DEF DefaultsOf
<1>3. hv = [k \in 1 .. n |-> Value(hd[k], -k, 0)] /\ tv = [j \in 1 .. m |-> Value(t[j], j, 0)] /\ y = hv \o tv
  BY DEF IsDefault
<1> HIDE DEF all, n, m, w, x, y
<1>4. hv = [k \in 1 .. n |-> hv[k]] /\ tv = [j \in 1 .. m |-> tv[j]]
  BY <1>3
<1>5. IsList(hv) /\ Len(hv) = n /\ IsList(tv) /\ Len(tv) = m
  BY <1>1, <1>4, FunctionList
<1>6. IsList(y) /\ Len(y) = w /\ \A k \in 1 .. n + m : y[k] = IF k <= n THEN hv[k] ELSE tv[k - n]
  <2>1. /\ IsList(hv \o tv) /\ Len(hv \o tv) = Len(hv) + Len(tv)
        /\ \A k \in 1 .. Len(hv) + Len(tv) : (hv \o tv)[k] = IF k <= Len(hv) THEN hv[k] ELSE tv[k - Len(hv)]
    BY <1>5, CatList
  <2> QED BY <1>1, <1>3, <1>5, <2>1
<1>7. x = [i \in 1 .. w |-> x[i]] /\ w \in Nat
  BY <1>1, <1>2
<1>8. IsList(x) /\ Len(x) = w
  BY <1>7, FunctionList
<1>9. ASSUME NEW k \in 1 .. w PROVE x[k] = y[k]
  <2>1. x[k] = Value(all[k], IF k <= n THEN -k ELSE k - n, 0) /\ k \in 1 .. n + m
    BY <1>1, <1>2
  <2>2. CASE k <= n
    <3>1. k \in 1 .. n /\ all[k] = hd[k] /\ y[k] = hv[k]
      <4>1. k \in 1 .. n
        BY <1>1, <2>1, <2>2
      <4>2. all[k] = hd[k]
        BY <1>1, <2>1, <2>2
      <4>3. y[k] = hv[k]
        BY <1>6, <2>1, <2>2
      <4> QED BY <4>1, <4>2, <4>3
    <3>2. hv[k] = Value(hd[k], -k, 0)
      BY <1>3, <3>1
    <3> QED BY <2>1, <2>2, <3>1, <3>2
  <2>3. CASE ~(k <= n)
    <3>1. k - n \in 1 .. m /\ all[k] = t[k - n] /\ y[k] = tv[k - n]
      <4>1. k - n \in 1 .. m
        BY <1>1, <2>1, <2>3
      <4>2. all[k] = t[k - n]
        BY <1>1, <2>1, <2>3
      <4>3. y[k] = tv[k - n]
        BY <1>6, <2>1, <2>3
      <4> QED BY <4>1, <4>2, <4>3
    <3>2. tv[k - n] = Value(t[k - n], k - n, 0)
      BY <1>3, <3>1
    <3> QED BY <2>1, <2>3, <3>1, <3>2
  <2> QED BY <2>2, <2>3
<1>10. x = y
  <2>1. \A k \in 1 .. Len(x) : x[k] = y[k]
    BY <1>8, <1>9
  <2> QED BY <1>6, <1>8, <2>1, SameList
<1> QED BY <1>10 DEF x, y

(* The default data is what is stored of zero.                              *)
LEMMA DefaultData ==
    ASSUME Computed
    PROVE  generateDefaultC4(contract) = CellOf(NoTags)
<1> DEFINE hd == contract.header
           t == types
           hv == Header
           tv == Values(NoTags)
           N == Len(types)
           U == startIndexType - 1
           x == Compiled(contract)
<1>1. types \in Seq(TypeSizes)
  BY ComputedFacts
<1>2. contract.header \in Seq(TypeSizes)
  BY ContractsAssumption DEF Computed, IsContract
<1>3. IsList(hd) /\ IsList(t)
  <2> HIDE DEF hd, t
  <2>1. hd \in Seq(TypeSizes) /\ t \in Seq(TypeSizes)
    BY <1>1, <1>2 DEF hd, t
  <2> QED BY <2>1, Zenon DEF IsList
<1>4. hv = [k \in 1 .. Len(hd) |-> Value(hd[k], -k, 0)]
  BY DEF Header
<1>5. tv = [j \in 1 .. Len(t) |-> Value(t[j], j, 0)]
  BY DEF Values, NoTags
<1>6. code = x /\ x = Compiled(contract)
  BY DEF Computed
<1>7. x.types = unroll(contract.usual \o contract.unpacked)
  BY DEF Compiled
<1>8. t = unroll(contract.usual \o contract.unpacked)
  <2> HIDE DEF x
  <2> QED BY <1>6, <1>7 DEF types
<1>9. generateDefaultC4(contract) = encodeParameters(DefaultsOf(hd, t), doLoadNextCell(hd \o t, 0, 0), Empty)
  <2> HIDE DEF x
  <2> DEFINE u == unroll(contract.usual \o contract.unpacked)
  <2>1. generateDefaultC4(contract) = encodeParameters(DefaultsOf(hd, u), doLoadNextCell(hd \o u, 0, 0), Empty)
    BY DEF generateDefaultC4, DefaultsOf
  <2>2. t = u
    BY <1>8
  <2> HIDE DEF hd, t, u
  <2> QED BY <2>1, <2>2
<1>10. AllLoad = doLoadNextCell(hd \o t, 0, 0) /\ CellOf(NoTags) = encodeParameters(hv \o tv, AllLoad, Empty)
  BY DEF AllLoad, CellOf
<1> HIDE DEF hd, t, hv, tv, x
<1>11. DefaultsOf(hd, t) = hv \o tv
  <2>1. IsDefault(hd, t, hv, tv)
    BY <1>3, <1>4, <1>5 DEF IsDefault
  <2> QED BY <2>1, DefaultsAre
<1> QED BY <1>9, <1>10, <1>11

(* The invariant holds of the deployed contract.                            *)
LEMMA InitGood == Init => StorageInv
<1> SUFFICES ASSUME Init PROVE StorageInv
  OBVIOUS
<1>1. Computed /\ tags = NoTags /\ c4 = generateDefaultC4(contract) /\ answer = NoAnswer /\ mode = "stored"
  BY DEF Init, Computed, NoTags, NoAnswer
<1>2. c4 = CellOf(tags)
  BY <1>1, DefaultData
<1>3. tags \in [1 .. Len(types) -> {0, 1}]
  <2>1. NoTags \in [1 .. Len(types) -> {0, 1}]
    BY DEF NoTags
  <2> QED BY <1>1, <2>1
<1>4. answer.asked \in Seq(startIndexType .. Len(types)) /\ Answered(answer, tags)
  BY <1>1, NothingAnswered
<1>5. IsGood(tags, c4, c7, answer, mode)
  <2>1. mode \in {"stored", "loaded", "assert"} /\ mode # "loaded"
    BY <1>1
  <2> QED BY <1>2, <1>3, <1>4, <2>1 DEF IsGood
<1> QED BY <1>1, <1>5, GoodNow

(* What a step leaves alone.                                                *)
LEMMA GoodAfter ==
    ASSUME Computed, UNCHANGED <<contract, code>>, NEW g, NEW cell, NEW state, NEW a, NEW m, IsGood(g, cell, state, a, m),
           tags' = g, c4' = cell, c7' = state, answer' = a, mode' = m
    PROVE  StorageInv'
<1>1. IsGood(tags', c4', c7', answer', mode')
  OBVIOUS
<1> QED BY <1>1, GoodNext

(* The contract is entered.                                                 *)
LEMMA LoadGood ==
    ASSUME Computed, IsGood(tags, c4, c7, answer, mode), LoadData
    PROVE  StorageInv'
<1> DEFINE d == c4_to_c7
           state == [usual |-> d.values, slice |-> d.rest]
           m == IF d.rest = Broken \/ (~HasUnpacked /\ ~Ended(d.rest)) THEN "broken" ELSE "loaded"
<1>1. /\ mode = "stored" /\ c7' = state /\ mode' = m /\ answer' = NoAnswer /\ c4' = Empty
      /\ UNCHANGED <<contract, code>> /\ tags' = tags
  BY DEF LoadData, NoAnswer
<1>2. c4 = CellOf(tags) /\ tags \in [1 .. Len(types) -> {0, 1}]
  BY <1>1 DEF IsGood
<1>3. /\ d = [values |-> UsualOf(Values(tags)), rest |-> SliceOf(tags)]
      /\ SliceOf(tags) # Broken /\ (~HasUnpacked => SliceOf(tags) = Empty)
  BY <1>2, LoadIs
<1> DEFINE s == SliceOf(tags)
           u == UsualOf(Values(tags))
<1>4. Ended(Empty)
  BY DEF Ended, Empty
<1>5. state = StateOf(tags)
  BY <1>3 DEF StateOf
<1>6. m = "loaded"
  <2> HIDE DEF d, s
  <2>1. d.rest = s /\ s # Broken /\ (~HasUnpacked => s = Empty)
    BY <1>3 DEF s
  <2> QED BY <1>4, <2>1
<1> HIDE DEF d, state, m
<1>7. NoAnswer.asked \in Seq(startIndexType .. Len(types)) /\ Answered(NoAnswer, tags)
  BY NothingAnswered
<1>8. IsGood(tags, Empty, state, NoAnswer, m)
  BY <1>2, <1>5, <1>6, <1>7 DEF IsGood
<1> QED BY <1>1, <1>8, GoodAfter

(* The transaction ends.                                                    *)
LEMMA SaveGood ==
    ASSUME Computed, IsGood(tags, c4, c7, answer, mode), SaveData
    PROVE  StorageInv'
<1> DEFINE cell == c7_to_c4
           m == IF cell = Broken THEN "broken" ELSE "stored"
           state == [usual |-> <<>>, slice |-> Empty]
<1>1. /\ mode = "loaded" /\ c7' = state /\ mode' = m /\ answer' = NoAnswer /\ c4' = cell
      /\ UNCHANGED <<contract, code>> /\ tags' = tags
  BY DEF SaveData, NoAnswer
<1>2. c7 = StateOf(tags) /\ tags \in [1 .. Len(types) -> {0, 1}]
  BY <1>1 DEF IsGood
<1>3. cell = CellOf(tags) /\ CellOf(tags) # Broken
  BY <1>2, SaveIs
<1>4. m = "stored"
  <2> HIDE DEF cell
  <2> QED BY <1>3
<1> HIDE DEF cell, state, m
<1>5. NoAnswer.asked \in Seq(startIndexType .. Len(types)) /\ Answered(NoAnswer, tags)
  BY NothingAnswered
<1>6. IsGood(tags, cell, state, NoAnswer, m)
  BY <1>2, <1>3, <1>4, <1>5 DEF IsGood
<1> QED BY <1>1, <1>6, GoodAfter

(* All variables are reset.                                                 *)
LEMMA ResetGood ==
    ASSUME Computed, IsGood(tags, c4, c7, answer, mode), ResetStorage
    PROVE  StorageInv'
<1> DEFINE N == Len(types)
           U == startIndexType - 1
           usual == [j \in 1 .. U |-> Value(types[j], j, 0)]
           rest == [i \in 1 .. N - U |-> Value(types[i + U], i + U, 0)]
           s == encodeParameters(rest, SubSeq(load, U + 1, N), Empty)
           state == [usual |-> usual, slice |-> s]
           g == [j \in DOMAIN tags |-> 0]
<1>1. /\ mode = "loaded" /\ tags' = g /\ c7' = state /\ answer' = NoAnswer /\ UNCHANGED <<contract, code>>
      /\ c4' = c4 /\ mode' = mode
  BY DEF ResetStorage, NoAnswer
<1>2. tags \in [1 .. Len(types) -> {0, 1}]
  BY DEF IsGood
<1>3. g = NoTags /\ NoTags \in [1 .. Len(types) -> {0, 1}] /\ \A j \in 1 .. N : NoTags[j] = 0
  BY <1>2 DEF NoTags
<1>4. N \in Nat /\ U \in 0 .. N /\ startIndexType = U + 1
  BY ComputedFacts
<1>5. N = Len(types) /\ U = startIndexType - 1
  OBVIOUS
<1>6. /\ UsualOf(Values(NoTags)) = [j \in 1 .. U |-> Value(types[j], j, NoTags[j])]
      /\ UnpackedOf(Values(NoTags)) = [i \in 1 .. N - U |-> Value(types[i + U], i + U, NoTags[i + U])]
  <2> HIDE DEF N, U
  <2> QED BY <1>5, ValuesParts
<1>7. usual = UsualOf(Values(NoTags))
  <2> HIDE DEF N, U
  <2>1. \A j \in 1 .. U : j \in 1 .. N
    BY <1>4
  <2>2. \A j \in 1 .. U : NoTags[j] = 0
    BY <1>3, <2>1
  <2> QED BY <1>6, <2>2
<1>8. rest = UnpackedOf(Values(NoTags))
  <2> HIDE DEF N, U
  <2>1. \A i \in 1 .. N - U : i + U \in 1 .. N
    BY <1>4
  <2>2. \A i \in 1 .. N - U : NoTags[i + U] = 0
    BY <1>3, <2>1
  <2> QED BY <1>6, <2>2
<1>9. UnpackedOf(load) = SubSeq(load, U + 1, N)
  <2> HIDE DEF N, U
  <2> QED BY <1>4, <1>5 DEF UnpackedOf
<1>10. state = StateOf(NoTags)
  <2> HIDE DEF N, U, usual, rest
  <2> QED BY <1>7, <1>8, <1>9 DEF StateOf, SliceOf
<1> HIDE DEF state, g
<1>11. NoAnswer.asked \in Seq(startIndexType .. Len(types)) /\ Answered(NoAnswer, NoTags)
  BY NothingAnswered
<1>12. IsGood(NoTags, c4, state, NoAnswer, mode)
  BY <1>1, <1>3, <1>10, <1>11 DEF IsGood
<1>13. tags' = NoTags
  BY <1>1, <1>3
<1> QED BY <1>1, <1>12, <1>13, GoodAfter

(* Nothing happens.                                                         *)
LEMMA NothingGood ==
    ASSUME Computed, IsGood(tags, c4, c7, answer, mode), UNCHANGED vars
    PROVE  StorageInv'
<1>1. tags' = tags /\ c4' = c4 /\ c7' = c7 /\ answer' = answer /\ mode' = mode /\ UNCHANGED <<contract, code>>
  BY DEF vars
<1> QED BY <1>1, GoodAfter

(* The members of a usual variable come before those of the unpacked ones.  *)
LEMMA UsualMembers ==
    ASSUME Computed, NEW U, U = startIndexType - 1, NEW v \in 1 .. Len(contract.usual)
    PROVE  \A j \in FirstOf(v) .. (FirstOf(v + 1) - 1) : j \in 1 .. U
<1> DEFINE f == [u \in 1 .. Len(AllVars) + 1 |-> FirstOf(u)]
           w == Len(AllVars)
           m == Len(contract.usual)
           N == Len(types)
<1>0. U = startIndexType - 1 /\ N = Len(types) /\ m = Len(contract.usual) /\ w = Len(AllVars) /\ v \in 1 .. m
  OBVIOUS
<1>a. N \in Nat /\ U \in 0 .. N
  BY ComputedFacts
<1> HIDE DEF w, m, N
<1>1. /\ m \in 0 .. w /\ w \in Nat /\ FirstOf(1) = 1 /\ FirstOf(m + 1) = U + 1
      /\ \A u \in 1 .. w : FirstOf(u) \in Nat /\ FirstOf(u + 1) \in Nat /\ FirstOf(u) < FirstOf(u + 1)
  BY <1>0, FirstFacts
<1>2. /\ \A u \in 1 .. w + 1 : f[u] = FirstOf(u)
      /\ \A u \in 1 .. w : f[u] \in Nat /\ f[u + 1] \in Nat /\ f[u] < f[u + 1]
  <2>1. \A u \in 1 .. w + 1 : f[u] = FirstOf(u)
    BY DEF w
  <2>2. \A u \in 1 .. w : u \in 1 .. w + 1 /\ u + 1 \in 1 .. w + 1
    BY <1>1
  <2> HIDE DEF f
  <2> QED BY <1>1, <2>1, <2>2
<1> HIDE DEF f
<1>3. v \in 1 .. w /\ m \in Nat /\ 1 \in 1 .. w
  BY <1>0, <1>1
<1> DEFINE one == 1
<1>4. one \in 1 .. w
  BY <1>3
<1> HIDE DEF one
<1>5. /\ \A u \in v + 1 .. w + 1 : f[u] \in Nat /\ f[v + 1] <= f[u]
      /\ \A u \in one + 1 .. w + 1 : f[one + 1] <= f[u]
      /\ \A u \in 1 .. w + 1 : f[u] \in Nat
  BY <1>1, <1>2, <1>3, <1>4, FirstsGrow
<1>6. f[v + 1] <= f[m + 1] /\ f[m + 1] = U + 1 /\ f[v + 1] = FirstOf(v + 1) /\ f[v] = FirstOf(v)
  <2>1. m + 1 \in v + 1 .. w + 1 /\ m + 1 \in 1 .. w + 1 /\ v + 1 \in 1 .. w + 1 /\ v \in 1 .. w + 1
    <3>1. m \in Nat /\ w \in Nat /\ v \in Nat /\ 1 <= v /\ v <= m /\ m <= w
      BY <1>0, <1>1
    <3> QED BY <3>1
  <2> QED BY <1>1, <1>2, <1>5, <2>1
<1>7. f[v] >= 1
  <2>1. f[1] = 1 /\ f[1] < f[2]
    <3>1. 1 \in 1 .. w + 1 /\ 1 \in 1 .. w /\ 1 + 1 = 2
      BY <1>1, <1>3
    <3> QED BY <1>1, <1>2, <3>1
  <2>2. CASE v = 1
    BY <2>1, <2>2
  <2>3. CASE v # 1
    <3>1. v \in one + 1 .. w + 1 /\ one + 1 = 2
      BY <1>1, <1>3, <2>3 DEF one
    <3>2. f[2] <= f[v] /\ f[v] \in Nat /\ f[2] \in Nat
      <4>1. v \in 1 .. w + 1 /\ 2 \in 1 .. w + 1
        BY <1>1, <1>3
      <4> QED BY <1>5, <3>1, <4>1
    <3> QED BY <2>1, <3>2
  <2> QED BY <2>2, <2>3
<1>8. FirstOf(v) \in Nat /\ FirstOf(v) >= 1 /\ FirstOf(v + 1) \in Nat /\ FirstOf(v + 1) <= U + 1
  <2>1. FirstOf(v) \in Nat /\ FirstOf(v + 1) \in Nat
    BY <1>1, <1>3
  <2> QED BY <1>6, <1>7, <2>1
<1> QED BY <1>8, <1>a

(* A usual variable is assigned.                                            *)
LEMMA AssignGood ==
    ASSUME Computed, IsGood(tags, c4, c7, answer, mode),
           NEW v \in 1 .. Len(contract.usual), NEW tag \in {0, 1}, Assign(v, tag)
    PROVE  StorageInv'
<1> DEFINE N == Len(types)
           U == startIndexType - 1
           members == FirstOf(v) .. (FirstOf(v + 1) - 1)
           g == [j \in DOMAIN tags |-> IF j \in members THEN tag ELSE tags[j]]
           usual == [j \in DOMAIN c7.usual |-> IF j \in members THEN Value(types[j], j, tag) ELSE c7.usual[j]]
           state == [c7 EXCEPT !.usual = usual]
<1>1. /\ mode = "loaded" /\ tags' = g /\ c7' = state /\ UNCHANGED <<contract, code>>
      /\ c4' = c4 /\ mode' = mode /\ answer' = answer
  BY DEF Assign
<1>2. /\ tags \in [1 .. N -> {0, 1}] /\ c7 = StateOf(tags) /\ answer.asked \in Seq(startIndexType .. N)
      /\ Answered(answer, tags)
  BY <1>1 DEF IsGood
<1>3. N \in Nat /\ U \in 0 .. N /\ startIndexType = U + 1
  BY ComputedFacts
<1>4. N = Len(types) /\ U = startIndexType - 1
  OBVIOUS
<1>5. \A j \in members : j \in 1 .. U
  <2> HIDE DEF U
  <2> QED BY <1>4, UsualMembers
<1> HIDE DEF N, U, members
<1>6. g \in [1 .. N -> {0, 1}] /\ \A j \in 1 .. N : g[j] = IF j \in members THEN tag ELSE tags[j]
  BY <1>2
<1> HIDE DEF g
<1>7. \A j \in U + 1 .. N : g[j] = tags[j] /\ j \in 1 .. N
  <2>1. \A j \in U + 1 .. N : j \in 1 .. N /\ j \notin 1 .. U
    BY <1>3
  <2> QED BY <1>5, <1>6, <2>1
<1>8. /\ UsualOf(Values(tags)) = [j \in 1 .. U |-> Value(types[j], j, tags[j])]
      /\ UnpackedOf(Values(tags)) = [i \in 1 .. N - U |-> Value(types[i + U], i + U, tags[i + U])]
  BY <1>4, ValuesParts
<1>9. /\ UsualOf(Values(g)) = [j \in 1 .. U |-> Value(types[j], j, g[j])]
      /\ UnpackedOf(Values(g)) = [i \in 1 .. N - U |-> Value(types[i + U], i + U, g[i + U])]
  BY <1>4, ValuesParts
<1>10. UnpackedOf(Values(g)) = UnpackedOf(Values(tags))
  <2>1. \A i \in 1 .. N - U : i + U \in U + 1 .. N
    BY <1>3
  <2>2. \A i \in 1 .. N - U : g[i + U] = tags[i + U]
    BY <1>7, <2>1
  <2> QED BY <1>8, <1>9, <2>2
<1>11. c7 = [usual |-> UsualOf(Values(tags)), slice |-> SliceOf(tags)]
  BY <1>2 DEF StateOf
<1> DEFINE s == SliceOf(tags)
           u == UsualOf(Values(tags))
<1>12. SliceOf(g) = s
  BY <1>10 DEF SliceOf
<1>13. usual = UsualOf(Values(g))
  <2>1. c7.usual = [j \in 1 .. U |-> Value(types[j], j, tags[j])]
    BY <1>8, <1>11
  <2>2. usual = [j \in 1 .. U |-> IF j \in members THEN Value(types[j], j, tag) ELSE Value(types[j], j, tags[j])]
    BY <2>1
  <2>3. \A j \in 1 .. U : j \in 1 .. N
    BY <1>3
  <2>4. \A j \in 1 .. U : g[j] = IF j \in members THEN tag ELSE tags[j]
    BY <1>6, <2>3
  <2>5. usual = [j \in 1 .. U |-> Value(types[j], j, g[j])]
    BY <2>2, <2>4
  <2> QED BY <1>9, <2>5
<1>14. state = StateOf(g)
  <2> HIDE DEF s, u, usual
  <2>1. c7 = [usual |-> u, slice |-> s]
    BY <1>11 DEF s, u
  <2>2. state = [usual |-> usual, slice |-> s]
    BY <2>1
  <2> QED BY <1>12, <1>13, <2>2 DEF StateOf
<1> HIDE DEF state, usual, s, u
<1>15. Answered(answer, g)
  <2> DEFINE a == answer.asked
  <2>1. a \in Seq(U + 1 .. N)
    BY <1>2, <1>3
  <2>2. \A k \in 1 .. Len(a) : a[k] \in U + 1 .. N
    <3> DEFINE T == U + 1 .. N
    <3>1. a \in Seq(T)
      BY <2>1
    <3> HIDE DEF a, T
    <3>2. \A k \in 1 .. Len(a) : a[k] \in T
      BY <3>1
    <3> QED BY <3>2 DEF T
  <2>3. \A k \in 1 .. Len(a) : g[a[k]] = tags[a[k]]
    BY <1>7, <2>2
  <2>4. answer.got = [k \in 1 .. Len(a) |-> Value(types[a[k]], a[k], tags[a[k]])]
    BY <1>2 DEF Answered
  <2>5. answer.got = [k \in 1 .. Len(a) |-> Value(types[a[k]], a[k], g[a[k]])]
    BY <2>3, <2>4
  <2> QED BY <2>5 DEF Answered
<1>16. IsGood(g, c4, state, answer, mode)
  BY <1>1, <1>2, <1>6, <1>14, <1>15 DEF IsGood, N
<1> QED BY <1>1, <1>16, GoodAfter

(* Nothing is asked for behind the last member.                             *)
LEMMA OrderEnds ==
    ASSUME NEW o, NEW members, NEW n \in Nat, IsOrder(o, members, n), NEW last \in 1 .. n,
           \A k \in members : k \in Int /\ k <= last
    PROVE  o[n] = o[last]
<1> DEFINE a == last + 1
           b == n + 1
<1>1. a \in 1 .. n + 1 /\ b \in a .. n + 1 /\ a - 1 = last /\ b - 1 = n
  OBVIOUS
<1>2. \A k \in a .. b - 1 : k \notin members
  OBVIOUS
<1> HIDE DEF a, b
<1>3. o[b - 1] = o[a - 1]
  BY <1>1, <1>2, OrderNothing
<1> QED BY <1>1, <1>3

(* tvm.unpackData answers with the current values.                          *)
LEMMA UnpackGood ==
    ASSUME Computed, IsGood(tags, c4, c7, answer, mode), NEW vs \in (SUBSET UnpackedVars) \ {{}}, UnpackData(vs)
    PROVE  StorageInv'
<1> DEFINE N == Len(types)
           U == startIndexType - 1
           needed == MembersOf(vs)
           last == lastIndexType(needed)
           h == Values(tags)
           r == unpackedData(needed)
           a == [asked |-> InOrder(needed), got |-> r.out]
           m == IF r.slice = Broken THEN "broken" ELSE mode
<1>1. /\ mode = "loaded" /\ mode' = m /\ answer' = a /\ UNCHANGED <<contract, code>>
      /\ tags' = tags /\ c4' = c4 /\ c7' = c7
  BY DEF UnpackData
<1>2. tags \in [1 .. N -> {0, 1}] /\ c7 = StateOf(tags)
  BY <1>1 DEF IsGood
<1>3. N \in Nat /\ U \in 0 .. N /\ startIndexType = U + 1
  BY ComputedFacts
<1>4. N = Len(types) /\ U = startIndexType - 1 /\ needed = MembersOf(vs) /\ h = Values(tags)
  OBVIOUS
<1>5. last = lastIndexType(needed)
  OBVIOUS
<1> HIDE DEF N, U, needed, last
<1>6. WholeVars(needed) /\ AreNeeded(needed, last, U, N)
  BY <1>4, <1>5, MembersFacts
<1>7. PICK E, pb, pr, B : IsLayout(tags, E, pb, pr, B, N, U)
  BY <1>4, LayoutExists
<1>8. IsLaid(h, E, pb, pr, N, U) /\ SliceOf(tags) = E[U]
  BY <1>7 DEF IsLayout
<1>9. c7.slice = E[U]
  BY <1>2, <1>8 DEF StateOf
<1>10. \A j \in 1 .. N : h[j] = Value(types[j], j, tags[j])
  BY <1>4 DEF Values
<1> HIDE DEF h
<1>11. IsWalk(h, E, pb, pr, N, U, needed, last)
  BY <1>6, <1>8 DEF IsWalk
<1>12. /\ last \in U + 1 .. N /\ last \in 1 .. N /\ last \in Nat /\ \A k \in needed : k <= last /\ k \in U + 1 .. N
       /\ Laid(types, load, h, E, pb, pr, N)
  BY <1>11, WalkFacts
<1> DEFINE S == U + 1 .. N
<1>13. needed \in SUBSET S
  BY <1>12
<1> HIDE DEF S
<1>14. PICK o \in [0 .. N -> Seq(S)] : IsOrder(o, needed, N) /\ InOrder(needed) = o[N]
  BY <1>3, <1>4, <1>13, OrderExists DEF Ordered
<1>15. IsAsked(o, needed, U, N)
  BY <1>6, <1>14 DEF IsAsked, S
<1>16. r = UnpackState(h, E, o, last, last + 1)
  BY <1>9, <1>11, <1>15, UnpackedIs
<1> DEFINE q == last + 1
           out == OutOf(h, o, q)
           s == SliceAt(h, E, last, q)
<1>17. r = [i |-> q, out |-> out, slice |-> s]
  BY <1>16 DEF UnpackState
<1> HIDE DEF r
<1>18. ~(q <= last) /\ q - 1 = last /\ q \in 1 .. N + 1 /\ last \in 0 .. N
  BY <1>3, <1>12
<1>19. s = E[last]
  BY <1>18 DEF SliceAt
<1>20. s # Broken
  <2>1. IsSlice(E[last])
    BY <1>12, <1>18, LaidFacts
  <2> DEFINE e == E[last]
  <2>2. IsSlice(e) /\ s = e
    BY <1>19, <2>1
  <2> HIDE DEF e, s
  <2>3. e = [bits |-> e.bits, refs |-> e.refs]
    BY <2>2 DEF IsSlice
  <2> QED BY <2>2, <2>3, NotBroken
<1>21. o[N] = o[last]
  <2>1. N \in Nat /\ last \in 1 .. N
    BY <1>3, <1>12
  <2>2. IsOrder(o, needed, N)
    BY <1>14
  <2>3. \A k \in needed : k \in Int /\ k <= last
    <3>1. \A k \in U + 1 .. N : k \in Int
      BY <1>3
    <3> QED BY <1>12, <3>1
  <2> QED BY <2>1, <2>2, <2>3, OrderEnds
<1> DEFINE asked == o[last]
<1>22. asked \in Seq(S)
  BY <1>14, <1>18
<1>23. out = [k \in 1 .. Len(asked) |-> h[asked[k]]]
  <2> HIDE DEF q
  <2> QED BY <1>18 DEF OutOf
<1> HIDE DEF q, out, s, asked
<1>24. a = [asked |-> asked, got |-> out] /\ r.slice = s
  BY <1>14, <1>17, <1>21 DEF asked
<1> HIDE DEF a
<1>25. a.asked = asked /\ a.got = out
  BY <1>24
<1>26. Answered(a, tags)
  <2>1. \A k \in 1 .. Len(asked) : asked[k] \in S
    BY <1>22
  <2>2. \A k \in S : k \in 1 .. N
    BY <1>3 DEF S
  <2>3. \A k \in 1 .. Len(asked) : h[asked[k]] = Value(types[asked[k]], asked[k], tags[asked[k]])
    BY <1>10, <2>1, <2>2
  <2>4. out = [k \in 1 .. Len(asked) |-> Value(types[asked[k]], asked[k], tags[asked[k]])]
    BY <1>23, <2>3
  <2> QED BY <1>25, <2>4 DEF Answered
<1>27. a.asked \in Seq(startIndexType .. Len(types))
  BY <1>3, <1>4, <1>22, <1>25 DEF S
<1>28. m = "loaded"
  BY <1>1, <1>20, <1>24
<1> HIDE DEF m
<1>29. IsGood(tags, c4, c7, a, m)
  BY <1>1, <1>2, <1>26, <1>27, <1>28 DEF IsGood, N
<1> QED BY <1>1, <1>29, GoodAfter

(* tvm.packData replaces the values of the variables it is given ...        *)
LEMMA PackedSlice ==
    ASSUME Computed, NEW vs \in (SUBSET UnpackedVars) \ {{}}, NEW needed, needed = MembersOf(vs),
           NEW f, c7 = StateOf(f), NEW g, \A k \in 1 .. Len(types) : k \notin needed => g[k] = f[k],
           NEW new, \A x \in needed : new[x] = Value(types[x], x, g[x])
    PROVE  PutTogether(needed, TakeApart(needed, new)) = SliceOf(g) /\ SliceOf(g) # Broken
<1> DEFINE N == Len(types)
           U == startIndexType - 1
           last == lastIndexType(needed)
           h == Values(f)
           k2 == Values(g)
           t == TakeApart(needed, new)
<1>1. N = Len(types) /\ U = startIndexType - 1 /\ last = lastIndexType(needed) /\ t = TakeApart(needed, new)
  OBVIOUS
<1>2. /\ \A j \in 1 .. N : h[j] = Value(types[j], j, f[j]) /\ k2[j] = Value(types[j], j, g[j])
      /\ h = Values(f) /\ k2 = Values(g)
  BY DEF Values
<1>3. \A j \in 1 .. N : j \notin needed => g[j] = f[j]
  OBVIOUS
<1> HIDE DEF N, U, last, h, k2, t
<1>4. AreNeeded(needed, last, U, N)
  BY <1>1, MembersFacts
<1>5. PICK E, pb, pr, B : IsLayout(f, E, pb, pr, B, N, U)
  BY <1>1, LayoutExists
<1>6. PICK F, qb, qr, C : IsLayout(g, F, qb, qr, C, N, U)
  BY <1>1, LayoutExists
<1>7. IsLaid(h, E, pb, pr, N, U) /\ SliceOf(f) = E[U]
  BY <1>2, <1>5 DEF IsLayout
<1>8. IsLaid(k2, F, qb, qr, N, U) /\ SliceOf(g) = F[U] /\ SliceOf(g) # Broken
  BY <1>2, <1>6 DEF IsLayout
<1>9. IsWalk(h, E, pb, pr, N, U, needed, last)
  BY <1>4, <1>7 DEF IsWalk
<1>10. c7.slice = E[U]
  BY <1>7 DEF StateOf
<1>11. \A j \in 1 .. N : j \notin needed => k2[j] = h[j]
  BY <1>2, <1>3
<1>12. \A x \in needed : new[x] = k2[x]
  <2>1. \A x \in needed : x \in 1 .. N
    <3>1. U \in Nat /\ N \in Nat /\ needed \in SUBSET (U + 1 .. N)
      BY <1>4 DEF AreNeeded
    <3>2. \A x \in U + 1 .. N : x \in 1 .. N
      BY <3>1
    <3> QED BY <3>1, <3>2
  <2> QED BY <1>2, <2>1
<1>13. PutTogether(needed, t) = F[U]
  BY <1>1, <1>8, <1>9, <1>10, <1>11, <1>12, PackedIs
<1> QED BY <1>1, <1>8, <1>13

(* ... and keeps the others.                                                *)
LEMMA PackGood ==
    ASSUME Computed, IsGood(tags, c4, c7, answer, mode),
           NEW vs \in (SUBSET UnpackedVars) \ {{}}, NEW tag \in {0, 1}, PackData(vs, tag)
    PROVE  StorageInv'
<1> DEFINE N == Len(types)
           U == startIndexType - 1
           needed == MembersOf(vs)
           new == [j \in needed |-> Value(types[j], j, tag)]
           t == TakeApart(needed, new)
           s == PutTogether(needed, t)
           m == IF s = Broken THEN "broken" ELSE mode
           g == [j \in DOMAIN tags |-> IF j \in needed THEN tag ELSE tags[j]]
           state == [c7 EXCEPT !.slice = s]
           wrong == ~t.ok \/ \E v \in vs : AllVars[v].wrapped
<1>1. /\ mode = "loaded" /\ answer' = NoAnswer /\ UNCHANGED <<contract, code>> /\ c4' = c4
      /\ IF wrong THEN mode' = "assert" /\ UNCHANGED <<tags, c7>>
         ELSE mode' = m /\ tags' = g /\ c7' = state
  BY DEF PackData, NoAnswer
<1>2. tags \in [1 .. N -> {0, 1}] /\ c7 = StateOf(tags)
  BY <1>1 DEF IsGood
<1>3. N \in Nat /\ U \in 0 .. N /\ startIndexType = U + 1
  BY ComputedFacts
<1>4. N = Len(types) /\ U = startIndexType - 1 /\ needed = MembersOf(vs) /\ t = TakeApart(needed, new)
  OBVIOUS
<1> HIDE DEF wrong
<1>5. CASE wrong
  <2> DEFINE z == "assert"
  <2>1. mode' = z /\ tags' = tags /\ c7' = c7
    BY <1>1, <1>5
  <2>2. z \in {"stored", "loaded", "assert"} /\ z # "stored" /\ z # "loaded"
    OBVIOUS
  <2> HIDE DEF z
  <2>3. NoAnswer.asked \in Seq(startIndexType .. Len(types)) /\ Answered(NoAnswer, tags)
    BY NothingAnswered
  <2>4. IsGood(tags, c4, c7, NoAnswer, z)
    BY <1>2, <2>2, <2>3 DEF IsGood
  <2> QED BY <1>1, <2>1, <2>4, GoodAfter
<1>6. CASE ~wrong
  <2> HIDE DEF N, U, needed, t
  <2>1. mode' = m /\ tags' = g /\ c7' = state
    BY <1>1, <1>6
  <2>2. g \in [1 .. N -> {0, 1}] /\ \A j \in 1 .. N : g[j] = IF j \in needed THEN tag ELSE tags[j]
    BY <1>2
  <2>3. AreNeeded(needed, lastIndexType(needed), U, N)
    BY <1>4, MembersFacts
  <2>4. \A x \in needed : x \in 1 .. N /\ x \notin 1 .. U
    <3>1. U \in Nat /\ N \in Nat /\ needed \in SUBSET (U + 1 .. N)
      BY <2>3 DEF AreNeeded
    <3>2. \A x \in U + 1 .. N : x \in 1 .. N /\ x \notin 1 .. U
      BY <3>1
    <3> QED BY <3>1, <3>2
  <2>5. \A x \in needed : new[x] = Value(types[x], x, g[x])
    BY <2>2, <2>4
  <2> HIDE DEF g, new, s, state, m
  <2>6. \A k \in 1 .. Len(types) : k \notin needed => g[k] = tags[k]
    BY <1>4, <2>2
  <2>7. PutTogether(needed, TakeApart(needed, new)) = SliceOf(g) /\ SliceOf(g) # Broken
    BY <1>2, <1>4, <2>5, <2>6, PackedSlice
  <2>8. s = SliceOf(g) /\ s # Broken
    BY <1>4, <2>7 DEF s
  <2>9. m = "loaded"
    BY <1>1, <2>8 DEF m
  <2>10. /\ UsualOf(Values(tags)) = [j \in 1 .. U |-> Value(types[j], j, tags[j])]
         /\ UsualOf(Values(g)) = [j \in 1 .. U |-> Value(types[j], j, g[j])]
    BY <1>4, ValuesParts
  <2>11. \A j \in 1 .. U : g[j] = tags[j]
    <3>1. \A j \in 1 .. U : j \in 1 .. N /\ j \notin needed
      BY <1>3, <2>4
    <3> QED BY <2>2, <3>1
  <2>12. UsualOf(Values(g)) = UsualOf(Values(tags))
    BY <2>10, <2>11
  <2> DEFINE u == UsualOf(Values(tags))
             old == SliceOf(tags)
  <2>13. state = StateOf(g)
    <3>1. c7 = [usual |-> u, slice |-> old]
      BY <1>2 DEF StateOf
    <3>2. StateOf(g) = [usual |-> u, slice |-> s]
      BY <2>8, <2>12 DEF StateOf
    <3> HIDE DEF u, old
    <3>3. state = [usual |-> u, slice |-> s]
      BY <3>1 DEF state
    <3> QED BY <3>2, <3>3
  <2>14. NoAnswer.asked \in Seq(startIndexType .. Len(types)) /\ Answered(NoAnswer, g)
    BY NothingAnswered
  <2>15. IsGood(g, c4, state, NoAnswer, m)
    BY <2>2, <2>9, <2>13, <2>14 DEF IsGood, N
  <2> QED BY <1>1, <2>1, <2>15, GoodAfter
<1> QED BY <1>5, <1>6

(* Every step keeps the invariant.                                          *)
LEMMA NextGood == StorageInv /\ [Next]_vars => StorageInv'
<1> SUFFICES ASSUME StorageInv, [Next]_vars PROVE StorageInv'
  OBVIOUS
<1>1. Computed /\ IsGood(tags, c4, c7, answer, mode)
  BY GoodNow
<1>2. CASE LoadData
  BY <1>1, <1>2, LoadGood
<1>3. ASSUME NEW v \in 1 .. Len(contract.usual), NEW tag \in {0, 1}, Assign(v, tag) PROVE StorageInv'
  BY <1>1, <1>3, AssignGood
<1>4. ASSUME NEW vs \in (SUBSET UnpackedVars) \ {{}}, UnpackData(vs) PROVE StorageInv'
  BY <1>1, <1>4, UnpackGood
<1>5. ASSUME NEW vs \in (SUBSET UnpackedVars) \ {{}}, NEW tag \in {0, 1}, PackData(vs, tag) PROVE StorageInv'
  BY <1>1, <1>5, PackGood
<1>6. CASE ResetStorage
  BY <1>1, <1>6, ResetGood
<1>7. CASE SaveData
  BY <1>1, <1>7, SaveGood
<1>8. CASE UNCHANGED vars
  BY <1>1, <1>8, NothingGood
<1> QED BY <1>2, <1>3, <1>4, <1>5, <1>6, <1>7, <1>8 DEF Next

-----------------------------------------------------------------------------
(* c4, and the slice in c7, are what encodeParameters makes of the current  *)
(* values, in every state of every contract: whatever was loaded, assigned, *)
(* unpacked, packed, reset and saved before.                                *)
THEOREM StorageSound == Spec => []StorageInv
<1>1. Init => StorageInv
  BY InitGood
<1>2. StorageInv /\ [Next]_vars => StorageInv'
  BY NextGood
<1> QED BY <1>1, <1>2, PTL DEF Spec

(* What the invariant says about the properties of StateStorage.            *)
LEMMA InvMeans == StorageInv => NothingBreaks /\ UsualIsCurrent /\ AnswerIsCurrent /\ SliceIsCurrent
BY GoodNow, GoodMeans

(* c4_to_c7, unpackData, packData and c7_to_c4 overflow no cell, read past  *)
(* no slice and take nothing for something else.                            *)
THEOREM StorageUnbroken == Spec => []NothingBreaks
<1>1. StorageInv => NothingBreaks
  BY InvMeans
<1> QED BY <1>1, StorageSound, PTL

(* The usual variables are read from where they were written: c4_to_c7 uses *)
(* the positions that c7_to_c4 used, whatever lies behind them.             *)
THEOREM UsualVariables == Spec => []UsualIsCurrent
<1>1. StorageInv => UsualIsCurrent
  BY InvMeans
<1> QED BY <1>1, StorageSound, PTL

(* The walk of unpackedData ends at the members it is asked for, and loads  *)
(* their current values.                                                    *)
THEOREM UnpackedVariables == Spec => []AnswerIsCurrent
<1>1. StorageInv => AnswerIsCurrent
  BY InvMeans
<1> QED BY <1>1, StorageSound, PTL

(* packData leaves a slice that the plain decoder reads as the current      *)
(* values: the new ones replaced, the others kept, every cell boundary of   *)
(* the positions in its place.                                              *)
THEOREM PackedVariables == Spec => []SliceIsCurrent
<1>1. StorageInv => SliceIsCurrent
  BY InvMeans
<1> QED BY <1>1, StorageSound, PTL
==============================================================================
