---------------------- MODULE StackOpcodeSquasherProofs ----------------------
(***************************************************************************)
(* The tables of the squasher are real, for every depth of the stacks.     *)
(*                                                                         *)
(* First, what StackState::apply does to its array is what the TVM does to *)
(* the stack that the array stands for.  Then the search: the invariant    *)
(* of Dijkstra's algorithm, and the one instruction for which apply looks  *)
(* behind the end of the array.                                            *)
(*                                                                         *)
(* Second, what the peephole optimizer takes from the tables does the same *)
(* as what it replaces, for every code.                                    *)
(***************************************************************************)
EXTENDS StackOpcodeSquasher, NumberRecursion, SequenceTheorems, TLAPS

(* The arrays and sizes that a StackState can have.                         *)
State == [size : 0 .. MAX_STACK_DEPTH, values : [Cells -> Nat]]

(* A stack of the TVM that is what an array and a size say.                 *)
Agrees(s, v, size) ==
    /\ v \in [Cells -> Nat] /\ size \in 0 .. MAX_STACK_DEPTH
    /\ s \in Seq(Nat) /\ Len(s) = size
    /\ \A p \in 1 .. size : s[p] = v[p - 1]

(* The constants of the search.                                             *)
LEMMA Depth == MAX_STACK_DEPTH \in Nat /\ MAX_STACK_DEPTH >= 2 /\ MAX_NEW_OPCODES \in Nat /\ MAX_NEW_OPCODES >= 1
BY DepthAssumption

(* Key is that stack.                                                       *)
LEMMA KeyFacts ==
    ASSUME NEW t \in State
    PROVE  Agrees(Key(t), t.values, t.size)
<1>1. t.size \in Nat /\ t.size <= MAX_STACK_DEPTH /\ MAX_STACK_DEPTH \in Nat /\ t.size \in 0 .. MAX_STACK_DEPTH
      /\ t.values \in [Cells -> Nat]
  BY Depth DEF State
<1> DEFINE f == [p \in 1 .. t.size |-> t.values[p - 1]]
<1>2. \A p \in 1 .. t.size : p - 1 \in Cells /\ t.values[p - 1] \in Nat
  BY <1>1 DEF Cells
<1>3. f \in Seq(Nat) /\ Len(f) = t.size
  BY <1>1, <1>2, IsASeq
<1>4. Key(t) = <<>> \o f
  BY DEF Key, StackOf
<1>5. <<>> \o f = f
  BY <1>3, ConcatEmptySeq
<1> QED BY <1>1, <1>3, <1>4, <1>5 DEF Agrees

(* There is only one such stack.                                            *)
LEMMA AgreesIsKey ==
    ASSUME NEW t \in State, NEW s, Agrees(s, t.values, t.size)
    PROVE  Key(t) = s
<1>1. Agrees(Key(t), t.values, t.size)
  BY KeyFacts
<1>2. Key(t) \in Seq(Nat) /\ s \in Seq(Nat) /\ Len(Key(t)) = Len(s)
  BY <1>1 DEF Agrees
<1>3. \A p \in 1 .. Len(s) : Key(t)[p] = s[p]
  BY <1>1 DEF Agrees
<1> QED BY <1>2, <1>3, SeqEqual

(* What is read at an index is the same.                                    *)
LEMMA CellIsElement ==
    ASSUME NEW s, NEW v, NEW size, Agrees(s, v, size), NEW i \in 0 .. size - 1
    PROVE  /\ i \in Cells /\ v[i] \in Nat /\ s[i + 1] = v[i] /\ i + 1 \in 1 .. size /\ i \in Nat
           /\ size \in Nat /\ size >= 1 /\ size <= MAX_STACK_DEPTH
<1>1. size \in Nat /\ MAX_STACK_DEPTH \in Nat /\ size <= MAX_STACK_DEPTH
  BY Depth DEF Agrees
<1>2. i \in Cells /\ i + 1 \in 1 .. size /\ (i + 1) - 1 = i /\ i \in Nat /\ size >= 1
  BY <1>1 DEF Cells
<1> QED BY <1>1, <1>2 DEF Agrees

(***************************************************************************)
(* The basic changes of the array, and what they do to the stack.          *)
(***************************************************************************)
LEMMA SwapAgrees ==
    ASSUME NEW s, NEW v, NEW size, Agrees(s, v, size), NEW i \in 0 .. size - 1, NEW j \in 0 .. size - 1
    PROVE  Agrees(DoXchg(s, i, j), Swap(v, i, j), size)
<1>1. /\ i \in Cells /\ j \in Cells /\ i + 1 \in 1 .. size /\ j + 1 \in 1 .. size /\ i \in Nat /\ j \in Nat
      /\ v[i] \in Nat /\ v[j] \in Nat /\ s[i + 1] = v[i] /\ s[j + 1] = v[j] /\ size \in Nat
  BY CellIsElement
<1>2. v \in [Cells -> Nat] /\ s \in Seq(Nat) /\ Len(s) = size /\ size \in 0 .. MAX_STACK_DEPTH
  BY DEF Agrees
<1>3. Swap(v, i, j) \in [Cells -> Nat]
      /\ \A p \in Cells : Swap(v, i, j)[p] = IF p = j THEN v[i] ELSE IF p = i THEN v[j] ELSE v[p]
  BY <1>1, <1>2 DEF Swap
<1> DEFINE d == DoXchg(s, i, j)
<1>4. d \in Seq(Nat) /\ Len(d) = size
      /\ \A p \in 1 .. size : d[p] = IF p = j + 1 THEN s[i + 1] ELSE IF p = i + 1 THEN s[j + 1] ELSE s[p]
  <2>1. s[i + 1] \in Nat /\ s[j + 1] \in Nat
    BY <1>1
  <2> DEFINE e == [s EXCEPT ![i + 1] = s[j + 1]]
  <2>2. e \in Seq(Nat) /\ Len(e) = size /\ \A p \in 1 .. size : e[p] = IF p = i + 1 THEN s[j + 1] ELSE s[p]
    BY <1>1, <1>2, <2>1, ExceptSeq
  <2> HIDE DEF e
  <2>3. d = [e EXCEPT ![j + 1] = s[i + 1]]
    BY DEF DoXchg, e
  <2>4. [e EXCEPT ![j + 1] = s[i + 1]] \in Seq(Nat) /\ Len([e EXCEPT ![j + 1] = s[i + 1]]) = size
        /\ \A p \in 1 .. size : [e EXCEPT ![j + 1] = s[i + 1]][p] = IF p = j + 1 THEN s[i + 1] ELSE e[p]
    BY <1>1, <2>1, <2>2, ExceptSeq
  <2> QED BY <2>2, <2>3, <2>4
<1>5. ASSUME NEW p \in 1 .. size PROVE d[p] = Swap(v, i, j)[p - 1]
  <2>1. p - 1 \in Cells /\ (p = j + 1 <=> p - 1 = j) /\ (p = i + 1 <=> p - 1 = i)
    BY <1>1, <1>2, Depth DEF Cells
  <2>2. s[p] = v[p - 1]
    BY DEF Agrees
  <2> QED BY <1>1, <1>3, <1>4, <2>1, <2>2
<1> QED BY <1>2, <1>3, <1>4, <1>5 DEF Agrees

(* The order of the two does not matter.                                    *)
LEMMA SwapSymmetric ==
    ASSUME NEW v \in [Cells -> Nat], NEW i \in Cells, NEW j \in Cells
    PROVE  Swap(v, i, j) = Swap(v, j, i)
BY DEF Swap

(* Values on top of the others.                                             *)
LEMMA RaisedAgrees ==
    ASSUME NEW s, NEW v, NEW size, Agrees(s, v, size),
           NEW new \in Seq(Nat), size + Len(new) <= MAX_STACK_DEPTH
    PROVE  Agrees(new \o s, Raised(v, new, size), size + Len(new))
<1>1. /\ size \in Nat /\ MAX_STACK_DEPTH \in Nat /\ Len(new) \in Nat /\ s \in Seq(Nat) /\ Len(s) = size
      /\ v \in [Cells -> Nat] /\ size + Len(new) \in 0 .. MAX_STACK_DEPTH /\ Len(new) + size = size + Len(new)
  BY Depth DEF Agrees
<1> DEFINE r == Raised(v, new, size)
<1>2. \A p \in Cells : r[p] = IF p < Len(new) THEN new[p + 1]
                               ELSE IF p < size + Len(new) THEN v[p - Len(new)] ELSE v[p]
  BY DEF Raised
<1>3. \A p \in Cells : /\ p < Len(new) => new[p + 1] \in Nat
                       /\ ~(p < Len(new)) /\ p < size + Len(new) => v[p - Len(new)] \in Nat
  BY <1>1 DEF Cells
<1>4. r \in [Cells -> Nat]
  BY <1>1, <1>2, <1>3 DEF Raised
<1>5. /\ new \o s \in Seq(Nat) /\ Len(new \o s) = Len(new) + size
      /\ \A p \in 1 .. Len(new) + size : (new \o s)[p] = IF p <= Len(new) THEN new[p] ELSE s[p - Len(new)]
  BY <1>1, ConcatProperties
<1>6. ASSUME NEW p \in 1 .. size + Len(new) PROVE (new \o s)[p] = r[p - 1]
  <2>1. p - 1 \in Cells /\ (p - 1) + 1 = p /\ (p <= Len(new) <=> p - 1 < Len(new)) /\ p - 1 < size + Len(new)
        /\ p \in 1 .. Len(new) + size
    BY <1>1 DEF Cells
  <2>2. CASE p <= Len(new)
    BY <1>2, <1>5, <2>1, <2>2
  <2>3. CASE ~(p <= Len(new))
    <3>1. p - Len(new) \in 1 .. size /\ (p - 1) - Len(new) = (p - Len(new)) - 1
      BY <1>1, <2>3
    <3>2. s[p - Len(new)] = v[(p - Len(new)) - 1]
      BY <3>1 DEF Agrees
    <3> QED BY <1>2, <1>5, <2>1, <2>3, <3>1, <3>2
  <2> QED BY <2>2, <2>3
<1> QED BY <1>1, <1>4, <1>5, <1>6 DEF Agrees

(* Three parts behind each other.                                           *)
LEMMA ThreeParts ==
    ASSUME NEW a \in Seq(Nat), NEW b \in Seq(Nat), NEW c \in Seq(Nat)
    PROVE  /\ a \o b \o c \in Seq(Nat)
           /\ Len(a \o b \o c) = Len(a) + Len(b) + Len(c)
           /\ \A p \in 1 .. Len(a) + Len(b) + Len(c) :
                 (a \o b \o c)[p] = IF p <= Len(a) THEN a[p]
                                    ELSE IF p <= Len(a) + Len(b) THEN b[p - Len(a)]
                                    ELSE c[p - (Len(a) + Len(b))]
<1>1. Len(a) \in Nat /\ Len(b) \in Nat /\ Len(c) \in Nat
  OBVIOUS
<1>2. /\ a \o b \in Seq(Nat) /\ Len(a \o b) = Len(a) + Len(b)
      /\ \A p \in 1 .. Len(a) + Len(b) : (a \o b)[p] = IF p <= Len(a) THEN a[p] ELSE b[p - Len(a)]
  BY ConcatProperties
<1> DEFINE ab == a \o b
<1> HIDE DEF ab
<1>3. /\ ab \o c \in Seq(Nat) /\ Len(ab \o c) = Len(ab) + Len(c)
      /\ \A p \in 1 .. Len(ab) + Len(c) : (ab \o c)[p] = IF p <= Len(ab) THEN ab[p] ELSE c[p - Len(ab)]
  BY <1>2, ConcatProperties DEF ab
<1>4. ASSUME NEW p \in 1 .. Len(a) + Len(b) + Len(c)
      PROVE  (ab \o c)[p] = IF p <= Len(a) THEN a[p]
                                    ELSE IF p <= Len(a) + Len(b) THEN b[p - Len(a)]
                                    ELSE c[p - (Len(a) + Len(b))]
  <2>1. p \in 1 .. Len(ab) + Len(c) /\ Len(ab) = Len(a) + Len(b)
    BY <1>2 DEF ab
  <2>2. CASE p <= Len(a) + Len(b)
    <3>1. p \in 1 .. Len(a) + Len(b)
      BY <1>1, <2>2
    <3>2. ab[p] = IF p <= Len(a) THEN a[p] ELSE b[p - Len(a)]
      BY <1>2, <3>1 DEF ab
    <3> QED BY <1>1, <1>3, <2>1, <2>2, <3>2
  <2>3. CASE ~(p <= Len(a) + Len(b))
    BY <1>1, <1>3, <2>1, <2>3
  <2> QED BY <2>2, <2>3
<1>5. Len(ab \o c) = Len(a) + Len(b) + Len(c)
  BY <1>2, <1>3 DEF ab
<1> QED BY <1>3, <1>4, <1>5 DEF ab

(* The parts of a stack.                                                    *)
LEMMA PartFacts ==
    ASSUME NEW s \in Seq(Nat), NEW m \in Nat, NEW n \in Nat, m <= n, n <= Len(s)
    PROVE  /\ SubSeq(s, m + 1, n) \in Seq(Nat)
           /\ Len(SubSeq(s, m + 1, n)) = n - m
           /\ \A p \in 1 .. n - m : SubSeq(s, m + 1, n)[p] = s[m + p]
<1>1. \A p \in m + 1 .. n : s[p] \in Nat
  OBVIOUS
<1>2. /\ SubSeq(s, m + 1, n) \in Seq(Nat)
      /\ Len(SubSeq(s, m + 1, n)) = IF m + 1 <= n THEN n - (m + 1) + 1 ELSE 0
      /\ \A p \in 1 .. n - (m + 1) + 1 : SubSeq(s, m + 1, n)[p] = s[(m + 1) + p - 1]
  BY <1>1, SubSeqProperties
<1>3. n - (m + 1) + 1 = n - m /\ \A p \in 1 .. n - m : (m + 1) + p - 1 = m + p
  OBVIOUS
<1>4. Len(SubSeq(s, m + 1, n)) = n - m
  BY <1>2
<1> QED BY <1>2, <1>3, <1>4

(* The upper n cells of a stack.                                            *)
LEMMA TopFacts ==
    ASSUME NEW s \in Seq(Nat), NEW n \in Nat, n <= Len(s)
    PROVE  /\ Top(s, n) \in Seq(Nat) /\ Len(Top(s, n)) = n
           /\ \A p \in 1 .. n : Top(s, n)[p] = s[p]
<1>1. /\ SubSeq(s, 0 + 1, n) \in Seq(Nat) /\ Len(SubSeq(s, 0 + 1, n)) = n - 0
      /\ \A p \in 1 .. n - 0 : SubSeq(s, 0 + 1, n)[p] = s[0 + p]
  BY PartFacts, 0 \in Nat
<1>2. 0 + 1 = 1 /\ n - 0 = n /\ \A p \in 1 .. n : 0 + p = p
  OBVIOUS
<1> QED BY <1>1, <1>2 DEF Top

(* The cells under the upper n ones.                                        *)
LEMMA FromFacts ==
    ASSUME NEW s \in Seq(Nat), NEW n \in Nat, n <= Len(s)
    PROVE  /\ From(s, n) \in Seq(Nat) /\ Len(From(s, n)) = Len(s) - n
           /\ \A p \in 1 .. Len(s) - n : From(s, n)[p] = s[n + p]
BY PartFacts DEF From

(* One value on top.                                                        *)
LEMMA PushAgrees ==
    ASSUME NEW s, NEW v, NEW size, Agrees(s, v, size), NEW i \in 0 .. size - 1, size + 1 <= MAX_STACK_DEPTH
    PROVE  Agrees(DoPush(s, i), Raised(v, <<v[i]>>, size), size + 1)
<1>1. v[i] \in Nat /\ s[i + 1] = v[i]
  BY CellIsElement
<1> DEFINE new == <<v[i]>>
<1>2. new \in Seq(Nat) /\ Len(new) = 1
  BY <1>1
<1> HIDE DEF new
<1>3. Agrees(new \o s, Raised(v, new, size), size + Len(new))
  BY <1>2, RaisedAgrees
<1> QED BY <1>1, <1>2, <1>3 DEF new, DoPush

(* Short stacks put together.                                               *)
LEMMA TupleParts ==
    ASSUME NEW x \in Nat, NEW y \in Nat, NEW z \in Nat
    PROVE  <<x>> \o <<y>> = <<x, y>> /\ <<x>> \o <<y, z>> = <<x, y, z>>
<1> DEFINE a == <<x>>  b == <<y>>  c == <<y, z>>  ab == <<x, y>>  ac == <<x, y, z>>
<1>1. /\ a \in Seq(Nat) /\ b \in Seq(Nat) /\ c \in Seq(Nat) /\ ab \in Seq(Nat) /\ ac \in Seq(Nat)
      /\ Len(a) = 1 /\ Len(b) = 1 /\ Len(c) = 2 /\ Len(ab) = 2 /\ Len(ac) = 3
      /\ a[1] = x /\ b[1] = y /\ c[1] = y /\ c[2] = z /\ ab[1] = x /\ ab[2] = y
      /\ ac[1] = x /\ ac[2] = y /\ ac[3] = z
  OBVIOUS
<1> HIDE DEF a, b, c, ab, ac
<1>2. /\ a \o b \in Seq(Nat) /\ Len(a \o b) = 1 + 1
      /\ \A i \in 1 .. 1 + 1 : (a \o b)[i] = IF i <= 1 THEN a[i] ELSE b[i - 1]
  <2>1. /\ a \o b \in Seq(Nat) /\ Len(a \o b) = Len(a) + Len(b)
        /\ \A i \in 1 .. Len(a) + Len(b) : (a \o b)[i] = IF i <= Len(a) THEN a[i] ELSE b[i - Len(a)]
    BY <1>1, ConcatProperties
  <2> QED BY <1>1, <2>1
<1>3. /\ a \o c \in Seq(Nat) /\ Len(a \o c) = 1 + 2
      /\ \A i \in 1 .. 1 + 2 : (a \o c)[i] = IF i <= 1 THEN a[i] ELSE c[i - 1]
  <2>1. /\ a \o c \in Seq(Nat) /\ Len(a \o c) = Len(a) + Len(c)
        /\ \A i \in 1 .. Len(a) + Len(c) : (a \o c)[i] = IF i <= Len(a) THEN a[i] ELSE c[i - Len(a)]
    BY <1>1, ConcatProperties
  <2> QED BY <1>1, <2>1
<1>4. a \o b = ab
  <2>1. (a \o b)[1] = ab[1] /\ (a \o b)[2] = ab[2] /\ Len(a \o b) = 2
    BY <1>1, <1>2
  <2>2. \A i \in 1 .. 2 : i = 1 \/ i = 2
    OBVIOUS
  <2>3. Len(a \o b) = Len(ab) /\ \A i \in 1 .. Len(a \o b) : (a \o b)[i] = ab[i]
    BY <1>1, <2>1, <2>2
  <2> QED BY <1>1, <1>2, <2>3, SeqEqual
<1>5. a \o c = ac
  <2>1. (a \o c)[1] = ac[1] /\ (a \o c)[2] = ac[2] /\ (a \o c)[3] = ac[3] /\ Len(a \o c) = 3
    BY <1>1, <1>3, SMTT(20)
  <2>2. \A i \in 1 .. 3 : i = 1 \/ i = 2 \/ i = 3
    OBVIOUS
  <2>3. Len(a \o c) = Len(ac) /\ \A i \in 1 .. Len(a \o c) : (a \o c)[i] = ac[i]
    BY <1>1, <2>1, <2>2
  <2> QED BY <1>1, <1>3, <2>3, SeqEqual
<1> QED BY <1>4, <1>5 DEF a, b, c, ab, ac

(* Two and three values on top.                                             *)
LEMMA Push2Agrees ==
    ASSUME NEW s, NEW v, NEW size, Agrees(s, v, size),
           NEW i \in 0 .. size - 1, NEW j \in 0 .. size - 1, size + 2 <= MAX_STACK_DEPTH
    PROVE  Agrees(DoPush2(s, i, j), Raised(v, <<v[j], v[i]>>, size), size + 2)
<1>1. /\ v[i] \in Nat /\ s[i + 1] = v[i] /\ v[j] \in Nat /\ s[j + 1] = v[j] /\ i \in Nat /\ j \in Nat
      /\ i + 1 \in 1 .. size /\ j + 1 \in 1 .. size /\ s \in Seq(Nat) /\ Len(s) = size /\ size \in Nat
  <2>1. s \in Seq(Nat) /\ Len(s) = size
    BY DEF Agrees
  <2> QED BY <2>1, CellIsElement, SMTT(20)
<1> DEFINE new == <<v[j], v[i]>>
<1>2. new \in Seq(Nat) /\ Len(new) = 2
  BY <1>1
<1>3. Agrees(new \o s, Raised(v, new, size), size + Len(new))
  <2> HIDE DEF new
  <2> QED BY <1>2, RaisedAgrees
<1>4. DoPush2(s, i, j) = new \o s
  <2>1. DoPush(s, i) = <<v[i]>> \o s
    BY <1>1 DEF DoPush
  <2>2. (<<v[i]>> \o s)[(j + 1) + 1] = v[j]
    BY <1>1
  <2>3. DoPush2(s, i, j) = <<v[j]>> \o (<<v[i]>> \o s)
    BY <2>1, <2>2 DEF DoPush2, DoPush
  <2>4. <<v[j]>> \o (<<v[i]>> \o s) = (<<v[j]>> \o <<v[i]>>) \o s
    BY <1>1, ConcatAssociative
  <2>5. <<v[j]>> \o <<v[i]>> = new
    BY <1>1, TupleParts
  <2> QED BY <2>3, <2>4, <2>5
<1> QED BY <1>2, <1>3, <1>4

(* Three copies on top.                                                     *)
LEMMA Push3Agrees ==
    ASSUME NEW s, NEW v, NEW size, Agrees(s, v, size),
           NEW i \in 0 .. size - 1, NEW j \in 0 .. size - 1, NEW k \in 0 .. size - 1, size + 3 <= MAX_STACK_DEPTH
    PROVE  Agrees(DoPush(DoPush2(s, i, j), k + 2), Raised(v, <<v[k], v[j], v[i]>>, size), size + 3)
<1>1. /\ v[i] \in Nat /\ s[i + 1] = v[i] /\ v[j] \in Nat /\ s[j + 1] = v[j] /\ i \in Nat /\ j \in Nat
      /\ v[k] \in Nat /\ s[k + 1] = v[k] /\ k \in Nat /\ k + 1 \in 1 .. size
      /\ i + 1 \in 1 .. size /\ j + 1 \in 1 .. size /\ s \in Seq(Nat) /\ Len(s) = size /\ size \in Nat
  <2>1. s \in Seq(Nat) /\ Len(s) = size
    BY DEF Agrees
  <2>2. v[k] \in Nat /\ s[k + 1] = v[k] /\ k \in Nat /\ k + 1 \in 1 .. size
    BY CellIsElement
  <2>3. v[j] \in Nat /\ s[j + 1] = v[j] /\ j \in Nat /\ j + 1 \in 1 .. size
    BY CellIsElement
  <2>4. v[i] \in Nat /\ s[i + 1] = v[i] /\ i \in Nat /\ i + 1 \in 1 .. size /\ size \in Nat
    BY CellIsElement
  <2> QED BY <2>1, <2>2, <2>3, <2>4
<1> DEFINE new == <<v[k], v[j], v[i]>>
<1>2. new \in Seq(Nat) /\ Len(new) = 3
  BY <1>1
<1>3. Agrees(new \o s, Raised(v, new, size), size + Len(new))
  <2> HIDE DEF new
  <2> QED BY <1>2, RaisedAgrees
<1>4. DoPush(DoPush2(s, i, j), k + 2) = new \o s
  <2>1. DoPush(s, i) = <<v[i]>> \o s
    BY <1>1 DEF DoPush
  <2>2. (<<v[i]>> \o s)[(j + 1) + 1] = v[j]
    BY <1>1
  <2>3. DoPush2(s, i, j) = <<v[j]>> \o (<<v[i]>> \o s)
    BY <2>1, <2>2 DEF DoPush2, DoPush
  <2>4. <<v[j]>> \o (<<v[i]>> \o s) = (<<v[j]>> \o <<v[i]>>) \o s
    BY <1>1, ConcatAssociative
  <2>5. <<v[j]>> \o <<v[i]>> = <<v[j], v[i]>>
    BY <1>1, TupleParts
  <2>6. (<<v[j], v[i]>> \o s)[(k + 2) + 1] = v[k]
    BY <1>1
  <2>7. DoPush(DoPush2(s, i, j), k + 2) = <<v[k]>> \o (<<v[j], v[i]>> \o s)
    BY <2>3, <2>4, <2>5, <2>6 DEF DoPush
  <2>8. <<v[k]>> \o (<<v[j], v[i]>> \o s) = (<<v[k]>> \o <<v[j], v[i]>>) \o s
    BY <1>1, ConcatAssociative, SMTT(20)
  <2>9. <<v[k]>> \o <<v[j], v[i]>> = new
    BY <1>1, TupleParts
  <2> QED BY <2>7, <2>8, <2>9
<1> QED BY <1>2, <1>3, <1>4

(* BLKPUSH: the values under an index, again and again.                     *)
LEMMA BlkPushAgrees ==
    ASSUME NEW s, NEW v, NEW size, Agrees(s, v, size),
           NEW n \in Nat, NEW j \in 0 .. size - 1, size + n <= MAX_STACK_DEPTH
    PROVE  Agrees(DoBlkPush(s, n, j), Raised(v, [p \in 1 .. n |-> v[j - ((n - p) % (j + 1))]], size), size + n)
<1>1. j \in Nat /\ size \in Nat /\ j + 1 \in 1 .. size
  BY CellIsElement
<1> DEFINE at(p) == j - ((n - p) % (j + 1))
<1>2. ASSUME NEW p \in 1 .. n PROVE at(p) \in 0 .. size - 1 /\ at(p) + 1 = j + 1 - ((n - p) % (j + 1))
  <2>1. n - p \in Int /\ j + 1 \in Nat \ {0}
    BY <1>1
  <2>2. (n - p) % (j + 1) \in 0 .. j
    BY <1>1, <2>1
  <2> QED BY <1>1, <2>2
<1> HIDE DEF at
<1>3. \A p \in 1 .. n : v[at(p)] \in Nat /\ s[at(p) + 1] = v[at(p)]
  BY <1>2, CellIsElement
<1> DEFINE new == [p \in 1 .. n |-> v[at(p)]]
<1>4. new \in Seq(Nat) /\ Len(new) = n
  BY <1>3, IsASeq
<1>5. Agrees(new \o s, Raised(v, new, size), size + Len(new))
  <2> HIDE DEF new
  <2> QED BY <1>4, RaisedAgrees
<1>6. [p \in 1 .. n |-> s[j + 1 - ((n - p) % (j + 1))]] = new
  BY <1>2, <1>3
<1>7. DoBlkPush(s, n, j) = new \o s
  BY <1>6 DEF DoBlkPush
<1> QED BY <1>4, <1>5, <1>7 DEF at

(* DROP and BLKDROP2: the rest moves up.                                    *)
LEMMA DropUnderAgrees ==
    ASSUME NEW s, NEW v, NEW size, Agrees(s, v, size), NEW n \in Nat, NEW left \in Nat, n + left <= size
    PROVE  Agrees(DoDropUnder(s, n, left), Lowered(v, n + left, n, size), size - n)
<1>1. /\ size \in Nat /\ size <= MAX_STACK_DEPTH /\ MAX_STACK_DEPTH \in Nat /\ s \in Seq(Nat) /\ Len(s) = size
      /\ v \in [Cells -> Nat] /\ size - n \in 0 .. MAX_STACK_DEPTH /\ (n + left) - n = left
      /\ left <= size /\ left + n <= size /\ left + n \in Nat
  BY Depth DEF Agrees
<1> DEFINE w == Lowered(v, n + left, n, size)
<1>2. \A p \in Cells : w[p] = IF left <= p /\ p < size - n THEN v[p + n] ELSE v[p]
  BY <1>1 DEF Lowered
<1>3. \A p \in Cells : left <= p /\ p < size - n => p + n \in Cells
  BY <1>1 DEF Cells
<1>4. w \in [Cells -> Nat]
  BY <1>1, <1>2, <1>3 DEF Lowered
<1> DEFINE a == Top(s, left)  b == From(s, left + n)
<1>5. a \in Seq(Nat) /\ Len(a) = left /\ \A p \in 1 .. left : a[p] = s[p]
  BY <1>1, TopFacts
<1>6. /\ b \in Seq(Nat) /\ Len(b) = size - (left + n)
      /\ \A p \in 1 .. size - (left + n) : b[p] = s[(left + n) + p]
  BY <1>1, FromFacts
<1> HIDE DEF a, b
<1>7. /\ a \o b \in Seq(Nat) /\ Len(a \o b) = left + (size - (left + n))
      /\ \A p \in 1 .. left + (size - (left + n)) : (a \o b)[p] = IF p <= left THEN a[p] ELSE b[p - left]
  <2>1. /\ a \o b \in Seq(Nat) /\ Len(a \o b) = Len(a) + Len(b)
        /\ \A p \in 1 .. Len(a) + Len(b) : (a \o b)[p] = IF p <= Len(a) THEN a[p] ELSE b[p - Len(a)]
    BY <1>5, <1>6, ConcatProperties
  <2> QED BY <1>5, <1>6, <2>1
<1>8. ASSUME NEW p \in 1 .. size - n PROVE (a \o b)[p] = w[p - 1]
  <2>1. p \in 1 .. left + (size - (left + n)) /\ p - 1 \in Cells /\ p - 1 < size - n
    BY <1>1 DEF Cells
  <2>2. CASE p <= left
    <3>1. p \in 1 .. left /\ p \in 1 .. size /\ ~(left <= p - 1)
      BY <1>1, <2>2
    <3>2. s[p] = v[p - 1]
      BY <3>1 DEF Agrees
    <3> QED BY <1>2, <1>5, <1>7, <2>1, <2>2, <3>1, <3>2
  <2>3. CASE ~(p <= left)
    <3>1. /\ p - left \in 1 .. size - (left + n) /\ left <= p - 1 /\ (left + n) + (p - left) = p + n
          /\ p + n \in 1 .. size /\ (p + n) - 1 = (p - 1) + n
      BY <1>1, <2>3
    <3>2. s[p + n] = v[(p + n) - 1]
      BY <3>1 DEF Agrees
    <3>3. (a \o b)[p] = s[p + n]
      BY <1>6, <1>7, <2>1, <2>3, <3>1
    <3> QED BY <1>2, <2>1, <3>1, <3>2, <3>3
  <2> QED BY <2>2, <2>3
<1>9. left + (size - (left + n)) = size - n
  BY <1>1
<1>10. DoDropUnder(s, n, left) = a \o b
  BY DEF DoDropUnder, a, b
<1> QED BY <1>1, <1>4, <1>7, <1>8, <1>9, <1>10 DEF Agrees

(* The upper n cells are gone.                                              *)
LEMMA DropAgrees ==
    ASSUME NEW s, NEW v, NEW size, Agrees(s, v, size), NEW n \in Nat, n <= size
    PROVE  Agrees(From(s, n), Lowered(v, n, n, size), size - n)
<1>1. n + 0 = n /\ 0 \in Nat /\ 0 + n = n /\ size \in Nat /\ s \in Seq(Nat) /\ Len(s) = size
  BY DEF Agrees
<1>2. Agrees(DoDropUnder(s, n, 0), Lowered(v, n + 0, n, size), size - n)
  BY <1>1, DropUnderAgrees
<1>3. Top(s, 0) = <<>>
  BY <1>1, SubSeqEmpty DEF Top
<1>4. From(s, n) \in Seq(Nat)
  BY <1>1, FromFacts
<1>5. DoDropUnder(s, n, 0) = From(s, n)
  BY <1>1, <1>3, <1>4, ConcatEmptySeq DEF DoDropUnder
<1> QED BY <1>1, <1>2, <1>5

(* POP: the top is written over another value.                              *)
LEMMA PopAgrees ==
    ASSUME NEW s, NEW v, NEW size, Agrees(s, v, size), NEW i \in 1 .. size - 1
    PROVE  Agrees(DoPop(s, i), Lowered([v EXCEPT ![i] = v[0]], 1, 1, size), size - 1)
<1>1. /\ size \in Nat /\ size <= MAX_STACK_DEPTH /\ MAX_STACK_DEPTH \in Nat /\ s \in Seq(Nat) /\ Len(s) = size
      /\ v \in [Cells -> Nat]
  BY Depth DEF Agrees
<1>2. size >= 2 /\ size - 1 \in 0 .. MAX_STACK_DEPTH /\ i \in Cells /\ 0 \in Cells /\ 0 \in 0 .. size - 1 /\ i \in Nat
  BY <1>1 DEF Cells
<1>3. v[0] \in Nat /\ s[1] = v[0]
  BY <1>2, CellIsElement
<1> DEFINE u == [v EXCEPT ![i] = v[0]]
           w == Lowered(u, 1, 1, size)
<1>4. u \in [Cells -> Nat] /\ \A p \in Cells : u[p] = IF p = i THEN v[0] ELSE v[p]
  BY <1>1, <1>2, <1>3
<1> HIDE DEF u
<1>5. \A p \in Cells : w[p] = IF p < size - 1 THEN u[p + 1] ELSE u[p]
  BY <1>1 DEF Lowered, Cells
<1>6. \A p \in Cells : p < size - 1 => p + 1 \in Cells
  BY <1>1 DEF Cells
<1>7. w \in [Cells -> Nat]
  BY <1>4, <1>5, <1>6 DEF Lowered
<1>8. s # <<>>
  BY <1>1, <1>2
<1>9. Tail(s) \in Seq(Nat) /\ Len(Tail(s)) = size - 1 /\ \A p \in 1 .. size - 1 : Tail(s)[p] = s[p + 1]
  BY <1>1, <1>8, HeadTailProperties
<1>10. /\ [Tail(s) EXCEPT ![i] = s[1]] \in Seq(Nat) /\ Len([Tail(s) EXCEPT ![i] = s[1]]) = size - 1
       /\ \A p \in 1 .. size - 1 : [Tail(s) EXCEPT ![i] = s[1]][p] = IF p = i THEN s[1] ELSE Tail(s)[p]
  <2> DEFINE e == Tail(s)  x == s[1]
  <2>1. e \in Seq(Nat) /\ Len(e) = size - 1 /\ i \in 1 .. Len(e) /\ x \in Nat
    BY <1>3, <1>9
  <2> HIDE DEF e, x
  <2>2. /\ [e EXCEPT ![i] = x] \in Seq(Nat) /\ Len([e EXCEPT ![i] = x]) = Len(e)
        /\ \A p \in 1 .. Len(e) : [e EXCEPT ![i] = x][p] = IF p = i THEN x ELSE e[p]
    BY <2>1, ExceptSeq
  <2> QED BY <2>1, <2>2 DEF e, x
<1>11. ASSUME NEW p \in 1 .. size - 1 PROVE [Tail(s) EXCEPT ![i] = s[1]][p] = w[p - 1]
  <2>1. p - 1 \in Cells /\ p \in Cells /\ p - 1 < size - 1 /\ (p - 1) + 1 = p /\ p \in 0 .. size - 1
    BY <1>1 DEF Cells
  <2>2. s[p + 1] = v[p]
    BY <2>1, CellIsElement
  <2>3. w[p - 1] = u[p]
    BY <1>5, <2>1
  <2> QED BY <1>3, <1>4, <1>9, <1>10, <2>1, <2>2, <2>3
<1> QED BY <1>1, <1>2, <1>7, <1>10, <1>11 DEF Agrees, DoPop, u

(* REVERSE.                                                                 *)
LEMMA ReversedFacts ==
    ASSUME NEW v \in [Cells -> Nat], NEW lo \in Nat, NEW hi \in Nat, lo <= hi, hi <= MAX_STACK_DEPTH
    PROVE  /\ Reversed(v, lo, hi) \in [Cells -> Nat]
           /\ \A p \in Cells : lo <= p /\ p < hi =>
                 lo + hi - 1 - p \in Cells /\ Reversed(v, lo, hi)[p] = v[lo + hi - 1 - p]
           /\ \A p \in Cells : ~(lo <= p /\ p < hi) => Reversed(v, lo, hi)[p] = v[p]
<1>1. \A p \in Cells : lo <= p /\ p < hi => lo + hi - 1 - p \in Cells
  BY Depth DEF Cells
<1> QED BY <1>1 DEF Reversed

(* n cells, the j upper ones left out, in the opposite order.               *)
LEMMA ReverseAgrees ==
    ASSUME NEW s, NEW v, NEW size, Agrees(s, v, size), NEW n \in Nat, NEW j \in Nat, j + n <= size
    PROVE  Agrees(DoReverse(s, n, j), Reversed(v, j, j + n), size)
<1>1. /\ size \in Nat /\ size <= MAX_STACK_DEPTH /\ MAX_STACK_DEPTH \in Nat /\ s \in Seq(Nat) /\ Len(s) = size
      /\ v \in [Cells -> Nat] /\ size \in 0 .. MAX_STACK_DEPTH /\ j <= j + n /\ j <= size /\ j + n \in Nat
      /\ j + n <= MAX_STACK_DEPTH
  BY Depth DEF Agrees
<1> DEFINE w == Reversed(v, j, j + n)
<1>2. /\ w \in [Cells -> Nat]
      /\ \A p \in Cells : j <= p /\ p < j + n => w[p] = v[j + (j + n) - 1 - p]
      /\ \A p \in Cells : ~(j <= p /\ p < j + n) => w[p] = v[p]
  BY <1>1, ReversedFacts
<1> DEFINE a == Top(s, j)
           b == [p \in 1 .. n |-> s[j + n + 1 - p]]
           c == From(s, j + n)
<1>3. a \in Seq(Nat) /\ Len(a) = j /\ \A p \in 1 .. j : a[p] = s[p]
  BY <1>1, TopFacts
<1>4. \A p \in 1 .. n : j + n + 1 - p \in 1 .. size /\ s[j + n + 1 - p] \in Nat
  BY <1>1
<1>5. b \in Seq(Nat) /\ Len(b) = n /\ \A p \in 1 .. n : b[p] = s[j + n + 1 - p]
  BY <1>4, IsASeq
<1>6. c \in Seq(Nat) /\ Len(c) = size - (j + n) /\ \A p \in 1 .. size - (j + n) : c[p] = s[(j + n) + p]
  BY <1>1, FromFacts
<1> HIDE DEF a, b, c
<1> DEFINE r == a \o b \o c
<1>7. /\ r \in Seq(Nat) /\ Len(r) = Len(a) + Len(b) + Len(c)
      /\ \A p \in 1 .. Len(a) + Len(b) + Len(c) :
                 r[p] = IF p <= Len(a) THEN a[p] ELSE IF p <= Len(a) + Len(b) THEN b[p - Len(a)]
                        ELSE c[p - (Len(a) + Len(b))]
  BY <1>3, <1>5, <1>6, ThreeParts
<1> HIDE DEF r
<1>8. Len(a) + Len(b) + Len(c) = size
  BY <1>1, <1>3, <1>5, <1>6
<1>9. ASSUME NEW p \in 1 .. size PROVE r[p] = w[p - 1]
  <2>1. p - 1 \in Cells
    BY <1>1 DEF Cells
  <2>2. r[p] = IF p <= j THEN a[p] ELSE IF p <= j + n THEN b[p - j] ELSE c[p - (j + n)]
    BY <1>3, <1>5, <1>7, <1>8
  <2>3. s[p] = v[p - 1]
    BY DEF Agrees
  <2>4. CASE p <= j
    <3>1. p \in 1 .. j /\ ~(j <= p - 1)
      BY <2>4
    <3> QED BY <1>2, <1>3, <2>1, <2>2, <2>3, <2>4, <3>1
  <2>5. CASE ~(p <= j) /\ p <= j + n
    <3>1. /\ p - j \in 1 .. n /\ j <= p - 1 /\ p - 1 < j + n /\ j + n + 1 - (p - j) = j + (j + n) + 1 - p
          /\ j + (j + n) + 1 - p \in 1 .. size /\ (j + (j + n) + 1 - p) - 1 = j + (j + n) - 1 - (p - 1)
      BY <1>1, <2>5
    <3>2. s[j + (j + n) + 1 - p] = v[(j + (j + n) + 1 - p) - 1]
      BY <3>1 DEF Agrees
    <3>3. b[p - j] = s[j + (j + n) + 1 - p]
      BY <1>5, <3>1
    <3> QED BY <1>2, <2>1, <2>2, <2>5, <3>1, <3>2, <3>3
  <2>6. CASE ~(p <= j + n)
    <3>1. p - (j + n) \in 1 .. size - (j + n) /\ (j + n) + (p - (j + n)) = p /\ ~(p - 1 < j + n) /\ ~(p <= j)
      BY <1>1, <2>6
    <3> QED BY <1>2, <1>6, <2>1, <2>2, <2>3, <2>6, <3>1
  <2> QED BY <1>1, <2>4, <2>5, <2>6
<1>10. DoReverse(s, n, j) = r
  BY DEF DoReverse, r, a, b, c
<1> QED BY <1>1, <1>2, <1>7, <1>8, <1>9, <1>10 DEF Agrees

(* BLKSWAP, which is done by three reversals.                               *)
LEMMA BlkSwapAgrees ==
    ASSUME NEW s, NEW v, NEW size, Agrees(s, v, size), NEW i \in Nat, NEW j \in Nat, i + j <= size
    PROVE  Agrees(DoBlkSwap(s, i, j), Reversed(Reversed(Reversed(v, 0, j), j, j + i), 0, i + j), size)
<1>1. /\ size \in Nat /\ size <= MAX_STACK_DEPTH /\ MAX_STACK_DEPTH \in Nat /\ s \in Seq(Nat) /\ Len(s) = size
      /\ v \in [Cells -> Nat] /\ size \in 0 .. MAX_STACK_DEPTH /\ 0 \in Nat /\ 0 <= j /\ j <= MAX_STACK_DEPTH
      /\ j + i \in Nat /\ i + j \in Nat /\ j <= j + i /\ j + i <= MAX_STACK_DEPTH /\ i + j <= MAX_STACK_DEPTH
      /\ 0 <= i + j /\ j <= size /\ j + i <= size
  BY Depth DEF Agrees
<1> DEFINE u == Reversed(v, 0, j)
           w == Reversed(u, j, j + i)
           z == Reversed(w, 0, i + j)
<1>2. /\ u \in [Cells -> Nat]
      /\ \A p \in Cells : p < j => u[p] = v[0 + j - 1 - p]
      /\ \A p \in Cells : ~(p < j) => u[p] = v[p]
  <2>1. /\ u \in [Cells -> Nat]
        /\ \A p \in Cells : 0 <= p /\ p < j => u[p] = v[0 + j - 1 - p]
        /\ \A p \in Cells : ~(0 <= p /\ p < j) => u[p] = v[p]
    BY <1>1, ReversedFacts
  <2>2. \A p \in Cells : 0 <= p
    BY DEF Cells
  <2> QED BY <2>1, <2>2
<1> HIDE DEF u
<1>3. /\ w \in [Cells -> Nat]
      /\ \A p \in Cells : j <= p /\ p < j + i => w[p] = u[j + (j + i) - 1 - p]
      /\ \A p \in Cells : ~(j <= p /\ p < j + i) => w[p] = u[p]
  <2>1. u \in [Cells -> Nat] /\ j + i \in Nat /\ j <= j + i /\ j + i <= MAX_STACK_DEPTH
    BY <1>1, <1>2
  <2> QED BY <2>1, ReversedFacts
<1> HIDE DEF w
<1>4. /\ z \in [Cells -> Nat]
      /\ \A p \in Cells : p < i + j => z[p] = w[0 + (i + j) - 1 - p]
      /\ \A p \in Cells : ~(p < i + j) => z[p] = w[p]
  <2>1. w \in [Cells -> Nat] /\ 0 \in Nat /\ i + j \in Nat /\ 0 <= i + j /\ i + j <= MAX_STACK_DEPTH
    BY <1>1, <1>3
  <2>2. /\ z \in [Cells -> Nat]
        /\ \A p \in Cells : 0 <= p /\ p < i + j => z[p] = w[0 + (i + j) - 1 - p]
        /\ \A p \in Cells : ~(0 <= p /\ p < i + j) => z[p] = w[p]
    BY <2>1, ReversedFacts
  <2>3. \A p \in Cells : 0 <= p
    BY DEF Cells
  <2> QED BY <2>2, <2>3
<1> HIDE DEF z
<1>5. ASSUME NEW p \in Cells PROVE z[p] = IF p < i THEN v[p + j] ELSE IF p < i + j THEN v[p - i] ELSE v[p]
  <2> DEFINE g == 0 + (i + j) - 1 - p
  <2>1. CASE p < i
    <3>1. p < i + j /\ g \in Cells /\ j <= g /\ g < j + i /\ j + (j + i) - 1 - g = p + j /\ p + j \in Cells /\ ~(p + j < j)
      BY <1>1, <2>1 DEF Cells
    <3>2. z[p] = w[g]
      BY <1>4, <3>1
    <3>3. w[g] = u[p + j]
      BY <1>3, <3>1
    <3>4. u[p + j] = v[p + j]
      BY <1>2, <3>1
    <3> QED BY <2>1, <3>2, <3>3, <3>4
  <2>2. CASE ~(p < i) /\ p < i + j
    <3>1. g \in Cells /\ g < j /\ ~(j <= g) /\ 0 + j - 1 - g = p - i
      BY <1>1, <2>2 DEF Cells
    <3>2. z[p] = w[g]
      BY <1>4, <2>2
    <3>3. w[g] = u[g]
      BY <1>3, <3>1
    <3>4. u[g] = v[p - i]
      BY <1>2, <3>1
    <3> QED BY <2>2, <3>2, <3>3, <3>4
  <2>3. CASE ~(p < i + j)
    <3>1. ~(p < i) /\ ~(p < j + i) /\ ~(p < j)
      BY <1>1, <2>3 DEF Cells
    <3> QED BY <1>2, <1>3, <1>4, <2>3, <3>1
  <2> QED BY <2>1, <2>2, <2>3
<1> DEFINE a == SubSeq(s, j + 1, j + i)
           b == Top(s, j)
           c == From(s, j + i)
<1>6. a \in Seq(Nat) /\ Len(a) = i /\ \A p \in 1 .. i : a[p] = s[j + p]
  <2>1. /\ a \in Seq(Nat) /\ Len(a) = (j + i) - j /\ \A p \in 1 .. (j + i) - j : a[p] = s[j + p]
    BY <1>1, PartFacts
  <2> QED BY <2>1
<1>7. b \in Seq(Nat) /\ Len(b) = j /\ \A p \in 1 .. j : b[p] = s[p]
  BY <1>1, TopFacts
<1>8. c \in Seq(Nat) /\ Len(c) = size - (j + i) /\ \A p \in 1 .. size - (j + i) : c[p] = s[(j + i) + p]
  BY <1>1, FromFacts
<1> HIDE DEF a, b, c
<1> DEFINE r == a \o b \o c
<1>9. /\ r \in Seq(Nat) /\ Len(r) = Len(a) + Len(b) + Len(c)
      /\ \A p \in 1 .. Len(a) + Len(b) + Len(c) :
                 r[p] = IF p <= Len(a) THEN a[p] ELSE IF p <= Len(a) + Len(b) THEN b[p - Len(a)]
                        ELSE c[p - (Len(a) + Len(b))]
  BY <1>6, <1>7, <1>8, ThreeParts
<1> HIDE DEF r
<1>10. Len(a) + Len(b) + Len(c) = size
  BY <1>1, <1>6, <1>7, <1>8
<1>11. ASSUME NEW p \in 1 .. size PROVE r[p] = z[p - 1]
  <2>1. p - 1 \in Cells
    BY <1>1 DEF Cells
  <2>2. r[p] = IF p <= i THEN a[p] ELSE IF p <= i + j THEN b[p - i] ELSE c[p - (i + j)]
    BY <1>6, <1>7, <1>9, <1>10
  <2>3. z[p - 1] = IF p - 1 < i THEN v[(p - 1) + j] ELSE IF p - 1 < i + j THEN v[(p - 1) - i] ELSE v[p - 1]
    BY <1>5, <2>1
  <2>4. CASE p <= i
    <3>1. p \in 1 .. i /\ p - 1 < i /\ j + p \in 1 .. size /\ (j + p) - 1 = (p - 1) + j
      BY <1>1, <2>4
    <3>2. s[j + p] = v[(j + p) - 1]
      BY <3>1 DEF Agrees
    <3> QED BY <1>6, <2>2, <2>3, <2>4, <3>1, <3>2
  <2>5. CASE ~(p <= i) /\ p <= i + j
    <3>1. p - i \in 1 .. j /\ ~(p - 1 < i) /\ p - 1 < i + j /\ p - i \in 1 .. size /\ (p - i) - 1 = (p - 1) - i
      BY <1>1, <2>5
    <3>2. s[p - i] = v[(p - i) - 1]
      BY <3>1 DEF Agrees
    <3> QED BY <1>7, <2>2, <2>3, <2>5, <3>1, <3>2
  <2>6. CASE ~(p <= i + j)
    <3>1. p - (i + j) \in 1 .. size - (j + i) /\ (j + i) + (p - (i + j)) = p /\ ~(p - 1 < i + j) /\ ~(p <= i) /\ ~(p - 1 < i)
      BY <1>1, <2>6
    <3>2. s[p] = v[p - 1]
      BY DEF Agrees
    <3> QED BY <1>8, <2>2, <2>3, <2>6, <3>1, <3>2
  <2> QED BY <1>1, <2>4, <2>5, <2>6
<1>12. DoBlkSwap(s, i, j) = r
  BY DEF DoBlkSwap, r, a, b, c
<1> QED BY <1>1, <1>4, <1>9, <1>10, <1>11, <1>12 DEF Agrees, z, w, u

(* PUXC.                                                                    *)
LEMMA PuxcAgrees ==
    ASSUME NEW s, NEW v, NEW size, Agrees(s, v, size), NEW i \in 0 .. size - 1, NEW j \in -1 .. size - 1,
           size + 1 <= MAX_STACK_DEPTH
    PROVE  Agrees(DoPuxc(s, i, j), Swap(Swap(Raised(v, <<v[i]>>, size), 0, 1), 0, j + 1), size + 1)
<1>1. size \in Nat /\ size >= 1
  BY CellIsElement
<1>2. Agrees(DoPush(s, i), Raised(v, <<v[i]>>, size), size + 1)
  BY PushAgrees
<1>3. 0 \in 0 .. (size + 1) - 1 /\ 1 \in 0 .. (size + 1) - 1 /\ j + 1 \in 0 .. (size + 1) - 1
  BY <1>1
<1> DEFINE u == Raised(v, <<v[i]>>, size)
           t == DoPush(s, i)
<1> HIDE DEF u, t
<1>4. Agrees(DoXchg(t, 0, 1), Swap(u, 0, 1), size + 1)
  BY <1>2, <1>3, SwapAgrees DEF u, t
<1> DEFINE w == Swap(u, 0, 1)
           r == DoXchg(t, 0, 1)
<1> HIDE DEF w, r
<1>5. Agrees(DoXchg(r, 0, j + 1), Swap(w, 0, j + 1), size + 1)
  BY <1>3, <1>4, SwapAgrees DEF w, r
<1> QED BY <1>5 DEF DoPuxc, r, w, u, t

(***************************************************************************)
(* The instructions of the search, and their numbers.                      *)
(***************************************************************************)
(* The fields of an instruction.                                            *)
LEMMA InstrFields ==
    ASSUME NEW op, NEW i, NEW j, NEW k
    PROVE  Instr(op, i, j, k).op = op /\ Instr(op, i, j, k).i = i /\ Instr(op, i, j, k).j = j /\ Instr(op, i, j, k).k = k
BY DEF Instr

(* The numbers of the instructions init() lists first.                      *)
LEMMA SimpleNumbers ==
    ASSUME NEW n \in SimpleEdges
    PROVE  /\ Numbers(n) /\ n.op \in {"POP_S", "BLKDROP2", "DROP", "BLKSWAP", "XCHG", "REVERSE", "PUSH_S"}
           /\ n.op = "XCHG" => n.i < n.j
<1> DEFINE M == MAX_STACK_DEPTH
<1>1. CASE n \in {POP(i) : i \in 1 .. M - 1}
  <2>1. PICK i \in 1 .. M - 1 : n = POP(i)
    BY <1>1
  <2>2. n.op = "POP_S" /\ n.i \in 1 .. M - 1 /\ n.j = -1 /\ n.k = -1
    BY <2>1, InstrFields DEF POP
  <2> QED BY <2>2, Depth DEF Numbers, StackOps, Cells
<1>2. CASE n \in {BLKDROP2(p[1], p[2]) : p \in {r \in (1 .. M) \X (1 .. M) : r[1] + r[2] <= M}}
  <2>1. PICK p \in {r \in (1 .. M) \X (1 .. M) : r[1] + r[2] <= M} : n = BLKDROP2(p[1], p[2])
    BY <1>2
  <2>2. n.op = "BLKDROP2" /\ n.i \in 1 .. M /\ n.j \in 1 .. M /\ n.k = -1
    BY <2>1, InstrFields DEF BLKDROP2
  <2> QED BY <2>2, Depth DEF Numbers, StackOps, Cells
<1>3. CASE n \in {DROP(i) : i \in 1 .. M}
  <2>1. PICK i \in 1 .. M : n = DROP(i)
    BY <1>3
  <2>2. n.op = "DROP" /\ n.i \in 1 .. M /\ n.j = -1 /\ n.k = -1
    BY <2>1, InstrFields DEF DROP
  <2> QED BY <2>2, Depth DEF Numbers, StackOps, Cells
<1>4. CASE n \in {BLKSWAP(p[1], p[2]) : p \in {r \in (1 .. M) \X (1 .. M) : r[1] + r[2] < M}}
  <2>1. PICK p \in {r \in (1 .. M) \X (1 .. M) : r[1] + r[2] < M} : n = BLKSWAP(p[1], p[2])
    BY <1>4
  <2>2. n.op = "BLKSWAP" /\ n.i \in 1 .. M /\ n.j \in 1 .. M /\ n.k = -1
    BY <2>1, InstrFields DEF BLKSWAP
  <2> QED BY <2>2, Depth DEF Numbers, StackOps, Cells
<1>5. CASE n \in {XCHG(p[1], p[2]) : p \in {r \in Cells \X Cells : r[1] < r[2]}}
  <2>1. PICK p \in {r \in Cells \X Cells : r[1] < r[2]} : n = XCHG(p[1], p[2])
    BY <1>5
  <2>2. n.op = "XCHG" /\ n.i \in Cells /\ n.j \in Cells /\ n.k = -1 /\ n.i < n.j
    BY <2>1, InstrFields DEF XCHG
  <2> QED BY <2>2, Depth DEF Numbers, StackOps, Cells
<1>6. CASE n \in {REVERSE(p[2], p[1]) : p \in {r \in Cells \X (2 .. M) : r[1] + r[2] <= M}}
  <2>1. PICK p \in {r \in Cells \X (2 .. M) : r[1] + r[2] <= M} : n = REVERSE(p[2], p[1])
    BY <1>6
  <2>2. n.op = "REVERSE" /\ n.i \in 2 .. M /\ n.j \in Cells /\ n.k = -1
    BY <2>1, InstrFields DEF REVERSE
  <2> QED BY <2>2, Depth DEF Numbers, StackOps, Cells
<1>7. CASE n \in {PUSH(i) : i \in Cells}
  <2>1. PICK i \in Cells : n = PUSH(i)
    BY <1>7
  <2>2. n.op = "PUSH_S" /\ n.i \in Cells /\ n.j = -1 /\ n.k = -1
    BY <2>1, InstrFields DEF PUSH
  <2> QED BY <2>2, Depth DEF Numbers, StackOps, Cells
<1> QED BY <1>1, <1>2, <1>3, <1>4, <1>5, <1>6, <1>7 DEF SimpleEdges

(* The numbers of the instructions of the compound search.                  *)
LEMMA CompoundNumbers ==
    ASSUME NEW n \in CompoundEdges
    PROVE  Numbers(n) /\ n.op \in StackOps \ {"XCHG"}
<1> DEFINE M == MAX_STACK_DEPTH
           Minus1 == -1 .. M - 2
           Triples(op, I, J, K) == {Instr(op, i, j, k) : i \in I, j \in J, k \in K}
           S1 == {BLKPUSH(p[2], p[1]) : p \in {r \in Cells \X (2 .. M) : r[1] + 1 + r[2] <= M}}
           S2 == {PUSH2(i, j) : i, j \in Cells}
           S3 == Triples("XCPU", 1 .. M - 1, Cells, {-1})
           S4 == Triples("PUXC", Cells, -1 .. M - 1, {-1})
           S5 == Triples("XCHG2", Cells, Cells, {-1})
           S6 == UNION {Triples(op, Cells, Cells, Cells) : op \in {"XC2PU", "XCPU2", "XCHG3", "PUSH3_S"}}
           S7 == UNION {Triples(op, Cells, Minus1, Minus1) : op \in {"PUXC2", "PUXCPU"}}
           S8 == Triples("XCPUXC", Cells, Cells, Minus1)
           S9 == Triples("PU2XC", Cells, Minus1, -2 .. M - 3)
<1>1. CASE n \in S1
  <2>1. PICK p \in {r \in Cells \X (2 .. M) : r[1] + 1 + r[2] <= M} : n = BLKPUSH(p[2], p[1])
    BY <1>1
  <2>2. n.op = "BLKPUSH" /\ n.i \in 2 .. M /\ n.j \in Cells /\ n.k = -1
    BY <2>1, InstrFields DEF BLKPUSH
  <2> QED BY <2>2, Depth DEF Numbers, StackOps, Cells
<1>2. CASE n \in S2
  <2>1. PICK i, j \in Cells : n = PUSH2(i, j)
    BY <1>2
  <2>2. n.op = "PUSH2_S" /\ n.i \in Cells /\ n.j \in Cells /\ n.k = -1
    BY <2>1, InstrFields DEF PUSH2
  <2> QED BY <2>2, Depth DEF Numbers, StackOps, Cells
<1>3. CASE n \in S3
  <2>1. PICK i \in 1 .. M - 1, j \in Cells, k \in {-1} : n = Instr("XCPU", i, j, k)
    BY <1>3
  <2>2. n.op = "XCPU" /\ n.i \in 1 .. M - 1 /\ n.j \in Cells /\ n.k \in {-1}
    BY <2>1, InstrFields
  <2> QED BY <2>2, Depth DEF Numbers, StackOps, Cells
<1>4. CASE n \in S4
  <2>1. PICK i \in Cells, j \in -1 .. M - 1, k \in {-1} : n = Instr("PUXC", i, j, k)
    BY <1>4
  <2>2. n.op = "PUXC" /\ n.i \in Cells /\ n.j \in -1 .. M - 1 /\ n.k \in {-1}
    BY <2>1, InstrFields
  <2> QED BY <2>2, Depth DEF Numbers, StackOps, Cells
<1>5. CASE n \in S5
  <2>1. PICK i \in Cells, j \in Cells, k \in {-1} : n = Instr("XCHG2", i, j, k)
    BY <1>5
  <2>2. n.op = "XCHG2" /\ n.i \in Cells /\ n.j \in Cells /\ n.k \in {-1}
    BY <2>1, InstrFields
  <2> QED BY <2>2, Depth DEF Numbers, StackOps, Cells
<1>6. CASE n \in S6
  <2>1. PICK op \in {"XC2PU", "XCPU2", "XCHG3", "PUSH3_S"} : n \in Triples(op, Cells, Cells, Cells)
    BY <1>6
  <2>2. PICK i \in Cells, j \in Cells, k \in Cells : n = Instr(op, i, j, k)
    BY <2>1
  <2>3. n.op \in {"XC2PU", "XCPU2", "XCHG3", "PUSH3_S"} /\ n.i \in Cells /\ n.j \in Cells /\ n.k \in Cells
    BY <2>2, InstrFields
  <2> QED BY <2>3, Depth DEF Numbers, StackOps, Cells
<1>7. CASE n \in S7
  <2>1. PICK op \in {"PUXC2", "PUXCPU"} : n \in Triples(op, Cells, Minus1, Minus1)
    BY <1>7
  <2>2. PICK i \in Cells, j \in Minus1, k \in Minus1 : n = Instr(op, i, j, k)
    BY <2>1
  <2>3. n.op \in {"PUXC2", "PUXCPU"} /\ n.i \in Cells /\ n.j \in Minus1 /\ n.k \in Minus1
    BY <2>2, InstrFields
  <2> QED BY <2>3, Depth DEF Numbers, StackOps, Cells
<1>8. CASE n \in S8
  <2>1. PICK i \in Cells, j \in Cells, k \in Minus1 : n = Instr("XCPUXC", i, j, k)
    BY <1>8
  <2>2. n.op = "XCPUXC" /\ n.i \in Cells /\ n.j \in Cells /\ n.k \in Minus1
    BY <2>1, InstrFields
  <2> QED BY <2>2, Depth DEF Numbers, StackOps, Cells
<1>9. CASE n \in S9
  <2>1. PICK i \in Cells, j \in Minus1, k \in -2 .. M - 3 : n = Instr("PU2XC", i, j, k)
    BY <1>9
  <2>2. n.op = "PU2XC" /\ n.i \in Cells /\ n.j \in Minus1 /\ n.k \in -2 .. M - 3
    BY <2>1, InstrFields
  <2> QED BY <2>2, Depth DEF Numbers, StackOps, Cells
<1>10. CompoundEdges = S1 \cup S2 \cup S3 \cup S4 \cup S5 \cup S6 \cup S7 \cup S8 \cup S9
  BY DEF CompoundEdges
<1> HIDE DEF S1, S2, S3, S4, S5, S6, S7, S8, S9
<1> QED BY <1>1, <1>2, <1>3, <1>4, <1>5, <1>6, <1>7, <1>8, <1>9, <1>10

(* The numbers of all of them.                                              *)
LEMMA EdgeNumbers ==
    ASSUME NEW n \in AllEdges
    PROVE  Numbers(n) /\ n.op \in StackOps /\ (n.op = "XCHG" => n.i < n.j)
BY SimpleNumbers, CompoundNumbers DEF AllEdges, StackOps

(***************************************************************************)
(* What apply does is what the TVM does.                                   *)
(***************************************************************************)
LEMMA Result ==
    ASSUME NEW s \in State, NEW w, NEW change \in Int, NEW r, Agrees(r, w, s.size + change)
    PROVE  With(s, w, change) \in State /\ Key(With(s, w, change)) = r
<1>1. With(s, w, change).size = s.size + change /\ With(s, w, change).values = w
  BY DEF With
<1>2. With(s, w, change) \in State
  BY DEF With, State, Agrees
<1> HIDE DEF With
<1> QED BY <1>1, <1>2, AgreesIsKey

(* The parts of apply that are functions of their own.                      *)
LEMMA PushsIsReal ==
    ASSUME NEW s \in State, NEW i \in Nat, NEW t \in execPUSHS(s, i)
    PROVE  /\ t \in State /\ t.size = s.size + 1 /\ i < s.size /\ s.size + 1 <= MAX_STACK_DEPTH
           /\ t.values = Raised(s.values, <<s.values[i]>>, s.size)
           /\ Key(t) = DoPush(Key(s), i)
<1>1. i < s.size /\ s.size + 1 <= MAX_STACK_DEPTH
  BY DEF execPUSHS, Room
<1>2. t = With(s, Raised(s.values, <<s.values[i]>>, s.size), 1)
  BY DEF execPUSHS
<1>3. s.size \in Nat /\ i \in 0 .. s.size - 1
  BY <1>1, Depth DEF State
<1>4. Agrees(DoPush(Key(s), i), Raised(s.values, <<s.values[i]>>, s.size), s.size + 1)
  BY <1>1, <1>3, KeyFacts, PushAgrees
<1>5. t.size = s.size + 1 /\ t.values = Raised(s.values, <<s.values[i]>>, s.size)
  BY <1>2 DEF With
<1> QED BY <1>1, <1>2, <1>4, <1>5, Result

(* execPUXC.                                                                *)
LEMMA PuxcIsReal ==
    ASSUME NEW s \in State, NEW i \in Nat, NEW j \in Int, j >= -1, NEW t \in execPUXC(s, i, j)
    PROVE  /\ t \in State /\ t.size = s.size + 1 /\ i < s.size /\ j + 1 < s.size /\ s.size + 1 <= MAX_STACK_DEPTH
           /\ Key(t) = DoPuxc(Key(s), i, j)
<1> DEFINE w == Swap(Swap(Raised(s.values, <<s.values[i]>>, s.size), 0, 1), 0, j + 1)
<1>1. i < s.size /\ j + 1 < s.size /\ s.size + 1 <= MAX_STACK_DEPTH
  BY DEF execPUXC, Room
<1>2. t = With(s, w, 1)
  BY DEF execPUXC
<1>3. s.size \in Nat /\ i \in 0 .. s.size - 1 /\ j \in -1 .. s.size - 1
  BY <1>1, Depth DEF State
<1>4. Agrees(DoPuxc(Key(s), i, j), w, s.size + 1)
  BY <1>1, <1>3, KeyFacts, PuxcAgrees
<1>5. t.size = s.size + 1
  BY <1>2 DEF With
<1> HIDE DEF w
<1> QED BY <1>1, <1>2, <1>4, <1>5, Result

(* An exchange before or after them.                                        *)
LEMMA SwappedIsReal ==
    ASSUME NEW s \in State, NEW i \in 0 .. s.size - 1, NEW j \in 0 .. s.size - 1
    PROVE  /\ [s EXCEPT !.values = Swap(@, i, j)] \in State
           /\ [s EXCEPT !.values = Swap(@, i, j)].size = s.size
           /\ [s EXCEPT !.values = Swap(@, i, j)].values = Swap(s.values, i, j)
           /\ Key([s EXCEPT !.values = Swap(@, i, j)]) = DoXchg(Key(s), i, j)
<1> DEFINE t == [s EXCEPT !.values = Swap(@, i, j)]
<1>1. Agrees(DoXchg(Key(s), i, j), Swap(s.values, i, j), s.size)
  BY KeyFacts, SwapAgrees
<1>2. t.size = s.size /\ t.values = Swap(s.values, i, j)
  BY DEF State
<1>3. t \in State
  BY <1>1 DEF State, Agrees
<1> HIDE DEF t
<1>4. Key(t) = DoXchg(Key(s), i, j)
  BY <1>1, <1>2, <1>3, AgreesIsKey
<1> QED BY <1>2, <1>3, <1>4 DEF t

(* What is meant by an instruction being real.                              *)
Real(n, s, t) == t \in State /\ Reach(n) <= s.size /\ Key(t) = ExecStack(n, Key(s))

(* apply for BLKSWAP.                                                       *)
LEMMA BlkSwapIsReal ==
    ASSUME NEW n, Numbers(n), n.op = "BLKSWAP", NEW s \in State, NEW t \in apply(n, s)
    PROVE  Real(n, s, t)
<1> DEFINE w == Reversed(Reversed(Reversed(s.values, 0, n.j), n.j, n.j + n.i), 0, n.i + n.j)
<1>1. n.i + n.j <= s.size /\ t = With(s, w, 0)
  BY DEF apply, Room
<1>2. s.size \in Nat /\ n.i \in Nat /\ n.j \in Nat /\ 0 \in Int
  <2> HIDE DEF w
  <2>1. s.size \in Nat
    BY Depth DEF State, Cells
  <2> QED BY <1>1, <2>1 DEF Numbers, Cells
<1>3. Agrees(DoBlkSwap(Key(s), n.i, n.j), w, s.size)
  BY <1>1, <1>2, KeyFacts, BlkSwapAgrees
<1>4. s.size = s.size + (0)
  BY <1>2
<1>5. ExecStack(n, Key(s)) = DoBlkSwap(Key(s), n.i, n.j)
  BY DEF ExecStack
<1>6. Reach(n) <= s.size
  BY <1>1, <1>2 DEF Reach, Max4, Max2
<1> HIDE DEF w
<1> QED BY <1>1, <1>2, <1>3, <1>4, <1>5, <1>6, Result DEF Real

(* apply for REVERSE.                                                       *)
LEMMA ReverseIsReal ==
    ASSUME NEW n, Numbers(n), n.op = "REVERSE", NEW s \in State, NEW t \in apply(n, s)
    PROVE  Real(n, s, t)
<1> DEFINE w == Reversed(s.values, n.j, n.j + n.i)
<1>1. n.j + n.i <= s.size /\ t = With(s, w, 0)
  BY DEF apply, Room
<1>2. s.size \in Nat /\ n.i \in Nat /\ n.j \in Nat /\ 0 \in Int
  <2> HIDE DEF w
  <2>1. s.size \in Nat
    BY Depth DEF State, Cells
  <2> QED BY <1>1, <2>1 DEF Numbers, Cells
<1>3. Agrees(DoReverse(Key(s), n.i, n.j), w, s.size)
  BY <1>1, <1>2, KeyFacts, ReverseAgrees
<1>4. s.size = s.size + (0)
  BY <1>2
<1>5. ExecStack(n, Key(s)) = DoReverse(Key(s), n.i, n.j)
  BY DEF ExecStack
<1>6. Reach(n) <= s.size
  BY <1>1, <1>2 DEF Reach, Max4, Max2
<1> HIDE DEF w
<1> QED BY <1>1, <1>2, <1>3, <1>4, <1>5, <1>6, Result DEF Real

(* apply for XCHG.                                                          *)
LEMMA XchgIsReal ==
    ASSUME NEW n, Numbers(n), n.op = "XCHG", NEW s \in State, NEW t \in apply(n, s)
    PROVE  Real(n, s, t)
<1> DEFINE w == Swap(s.values, n.i, n.j)
<1>1. n.i < s.size /\ n.j < s.size /\ t = With(s, w, 0)
  BY DEF apply, Room
<1>2. s.size \in Nat /\ n.i \in 0 .. s.size - 1 /\ n.j \in 0 .. s.size - 1 /\ n.k = -1 /\ 0 \in Int
  <2> HIDE DEF w
  <2>1. s.size \in Nat
    BY Depth DEF State, Cells
  <2> QED BY <1>1, <2>1 DEF Numbers, Cells
<1>3. Agrees(DoXchg(Key(s), n.i, n.j), w, s.size)
  BY <1>1, <1>2, KeyFacts, SwapAgrees
<1>4. s.size = s.size + (0)
  BY <1>2
<1>5. ExecStack(n, Key(s)) = DoXchg(Key(s), n.i, n.j)
  BY DEF ExecStack
<1>6. Reach(n) <= s.size
  BY <1>1, <1>2 DEF Reach, Max4, Max2
<1> HIDE DEF w
<1> QED BY <1>1, <1>2, <1>3, <1>4, <1>5, <1>6, Result DEF Real

(* apply for DROP.                                                          *)
LEMMA DropIsReal ==
    ASSUME NEW n, Numbers(n), n.op = "DROP", NEW s \in State, NEW t \in apply(n, s)
    PROVE  Real(n, s, t)
<1> DEFINE w == Lowered(s.values, n.i, n.i, s.size)
<1>1. n.i < s.size /\ t = With(s, w, -n.i)
  BY DEF apply, Room
<1>2. s.size \in Nat /\ n.i \in Nat /\ n.i <= s.size /\ -n.i \in Int
  <2> HIDE DEF w
  <2>1. s.size \in Nat
    BY Depth DEF State, Cells
  <2> QED BY <1>1, <2>1 DEF Numbers, Cells
<1>3. Agrees(From(Key(s), n.i), w, s.size - n.i)
  BY <1>1, <1>2, KeyFacts, DropAgrees
<1>4. s.size - n.i = s.size + (-n.i)
  BY <1>2
<1>5. ExecStack(n, Key(s)) = From(Key(s), n.i)
  BY DEF ExecStack
<1>6. Reach(n) <= s.size
  BY <1>1, <1>2 DEF Reach, Max4, Max2
<1> HIDE DEF w
<1> QED BY <1>1, <1>2, <1>3, <1>4, <1>5, <1>6, Result DEF Real

(* apply for BLKDROP2.                                                      *)
LEMMA BlkDrop2IsReal ==
    ASSUME NEW n, Numbers(n), n.op = "BLKDROP2", NEW s \in State, NEW t \in apply(n, s)
    PROVE  Real(n, s, t)
<1> DEFINE w == Lowered(s.values, n.i + n.j, n.i, s.size)
<1>1. n.i + n.j <= s.size /\ t = With(s, w, -n.i)
  BY DEF apply, Room
<1>2. s.size \in Nat /\ n.i \in Nat /\ n.j \in Nat /\ -n.i \in Int
  <2> HIDE DEF w
  <2>1. s.size \in Nat
    BY Depth DEF State, Cells
  <2> QED BY <1>1, <2>1 DEF Numbers, Cells
<1>3. Agrees(DoDropUnder(Key(s), n.i, n.j), w, s.size - n.i)
  BY <1>1, <1>2, KeyFacts, DropUnderAgrees
<1>4. s.size - n.i = s.size + (-n.i)
  BY <1>2
<1>5. ExecStack(n, Key(s)) = DoDropUnder(Key(s), n.i, n.j)
  BY DEF ExecStack
<1>6. Reach(n) <= s.size
  BY <1>1, <1>2 DEF Reach, Max4, Max2
<1> HIDE DEF w
<1> QED BY <1>1, <1>2, <1>3, <1>4, <1>5, <1>6, Result DEF Real

(* apply for POP.                                                           *)
LEMMA PopIsReal ==
    ASSUME NEW n, Numbers(n), n.op = "POP_S", NEW s \in State, NEW t \in apply(n, s)
    PROVE  Real(n, s, t)
<1> DEFINE w == Lowered([s.values EXCEPT ![n.i] = s.values[0]], 1, 1, s.size)
<1>1. n.i < s.size /\ t = With(s, w, -1)
  BY DEF apply, Room
<1>2. s.size \in Nat /\ n.i \in 1 .. s.size - 1 /\ n.j = -1 /\ n.k = -1 /\ -1 \in Int
  <2> HIDE DEF w
  <2>1. s.size \in Nat
    BY Depth DEF State, Cells
  <2> QED BY <1>1, <2>1 DEF Numbers, Cells
<1>3. Agrees(DoPop(Key(s), n.i), w, s.size - 1)
  BY <1>1, <1>2, KeyFacts, PopAgrees
<1>4. s.size - 1 = s.size + (-1)
  BY <1>2
<1>5. ExecStack(n, Key(s)) = DoPop(Key(s), n.i)
  BY DEF ExecStack
<1>6. Reach(n) <= s.size
  BY <1>1, <1>2 DEF Reach, Max4, Max2
<1> HIDE DEF w
<1> QED BY <1>1, <1>2, <1>3, <1>4, <1>5, <1>6, Result DEF Real

(* apply for BLKPUSH: the value that is j deep is copied i times.         *)
LEMMA BlkPushIsReal ==
    ASSUME NEW n, Numbers(n), n.op = "BLKPUSH", NEW s \in State, NEW t \in apply(n, s)
    PROVE  Real(n, s, t)
<1> DEFINE w == Raised(s.values, [p \in 1 .. n.i |-> s.values[n.j - ((n.i - p) % (n.j + 1))]], s.size)
<1>1. s.size + n.i <= MAX_STACK_DEPTH /\ n.j < s.size /\ t = With(s, w, n.i)
  BY DEF apply, Room
<1>2. s.size \in Nat /\ n.i \in Nat /\ n.j \in 0 .. s.size - 1 /\ n.i \in Int
  <2> HIDE DEF w
  <2>1. s.size \in Nat
    BY Depth DEF State, Cells
  <2> QED BY <1>1, <2>1 DEF Numbers, Cells
<1>3. Agrees(DoBlkPush(Key(s), n.i, n.j), w, s.size + n.i)
  BY <1>1, <1>2, KeyFacts, BlkPushAgrees
<1>4. s.size + n.i = s.size + (n.i)
  BY <1>2
<1>5. ExecStack(n, Key(s)) = DoBlkPush(Key(s), n.i, n.j)
  BY DEF ExecStack
<1>6. Reach(n) <= s.size
  BY <1>1, <1>2 DEF Reach, Max4, Max2
<1> HIDE DEF w
<1> QED BY <1>1, <1>2, <1>3, <1>4, <1>5, <1>6, Result DEF Real

(* apply for PUSH.                                                          *)
LEMMA PushIsReal ==
    ASSUME NEW n, Numbers(n), n.op = "PUSH_S", NEW s \in State, NEW t \in apply(n, s)
    PROVE  Real(n, s, t)
<1>1. n.i \in Nat /\ n.j = -1 /\ n.k = -1 /\ s.size \in Nat
  BY Depth DEF Numbers, Cells, State
<1>2. t \in execPUSHS(s, n.i)
  BY DEF apply
<1>3. t \in State /\ n.i < s.size /\ Key(t) = DoPush(Key(s), n.i)
  BY <1>1, <1>2, PushsIsReal
<1>4. Reach(n) <= s.size
  BY <1>1, <1>3 DEF Reach, Max4, Max2
<1>5. ExecStack(n, Key(s)) = DoPush(Key(s), n.i)
  BY DEF ExecStack
<1> QED BY <1>3, <1>4, <1>5 DEF Real

(* apply for PUXC.                                                          *)
LEMMA PuxcOpIsReal ==
    ASSUME NEW n, Numbers(n), n.op = "PUXC", NEW s \in State, NEW t \in apply(n, s)
    PROVE  Real(n, s, t)
<1>1. n.i \in Nat /\ n.j \in Int /\ n.j >= -1 /\ n.k = -1 /\ s.size \in Nat
  BY Depth DEF Numbers, Cells, State
<1>2. t \in execPUXC(s, n.i, n.j)
  BY DEF apply
<1>3. t \in State /\ n.i < s.size /\ n.j + 1 < s.size /\ Key(t) = DoPuxc(Key(s), n.i, n.j)
  BY <1>1, <1>2, PuxcIsReal
<1>4. Reach(n) <= s.size
  BY <1>1, <1>3 DEF Reach, Max4, Max2
<1>5. ExecStack(n, Key(s)) = DoPuxc(Key(s), n.i, n.j)
  BY DEF ExecStack
<1> QED BY <1>3, <1>4, <1>5 DEF Real

(* Several values at once, for one, two and three of them.                  *)
LEMMA PushesOne ==
    ASSUME NEW s \in State, NEW u, NEW i, NEW t \in execPUSHES(s, u, <<i>>)
    PROVE  /\ s.size + 1 <= MAX_STACK_DEPTH /\ i < s.size /\ t = With(s, Raised(u, <<u[i]>>, s.size), 1)
           /\ t.size = s.size + 1
<1> DEFINE new == <<i>>
<1>1. DOMAIN new = 1 .. 1 /\ Len(new) = 1 /\ new[1] = i
  OBVIOUS
<1>2. [p \in 1 .. 1 |-> u[new[p]]] = <<u[i]>>
  BY <1>1
<1> HIDE DEF new
<1>3. Room(s, 1) /\ (\A p \in 1 .. 1 : new[p] < s.size) /\ t = With(s, Raised(u, [p \in 1 .. 1 |-> u[new[p]]], s.size), 1)
  <2>1. t \in execPUSHES(s, u, new)
    BY DEF new
  <2> QED BY <1>1, <2>1 DEF execPUSHES
<1>4. t.size = s.size + 1
  BY <1>3 DEF With
<1>5. 1 \in 1 .. 1
  OBVIOUS
<1> QED BY <1>1, <1>2, <1>3, <1>4, <1>5 DEF Room

(* execPUSHES with two cells.                                               *)
LEMMA PushesTwo ==
    ASSUME NEW s \in State, NEW u, NEW i, NEW j, NEW t \in execPUSHES(s, u, <<j, i>>)
    PROVE  /\ s.size + 2 <= MAX_STACK_DEPTH /\ i < s.size /\ j < s.size
           /\ t = With(s, Raised(u, <<u[j], u[i]>>, s.size), 2)
           /\ t.size = s.size + 2
<1> DEFINE new == <<j, i>>
<1>1. DOMAIN new = 1 .. 2 /\ Len(new) = 2 /\ new[1] = j /\ new[2] = i
  OBVIOUS
<1>2. [p \in 1 .. 2 |-> u[new[p]]] = <<u[j], u[i]>>
  BY <1>1
<1> HIDE DEF new
<1>3. Room(s, 2) /\ (\A p \in 1 .. 2 : new[p] < s.size) /\ t = With(s, Raised(u, [p \in 1 .. 2 |-> u[new[p]]], s.size), 2)
  <2>1. t \in execPUSHES(s, u, new)
    BY DEF new
  <2> QED BY <1>1, <2>1 DEF execPUSHES
<1>4. 1 \in 1 .. 2 /\ 2 \in 1 .. 2
  OBVIOUS
<1>5. t.size = s.size + 2
  BY <1>3 DEF With
<1> QED BY <1>1, <1>2, <1>3, <1>4, <1>5 DEF Room

(* execPUSHES with three cells.                                             *)
LEMMA PushesThree ==
    ASSUME NEW s \in State, NEW u, NEW i, NEW j, NEW k, NEW t \in execPUSHES(s, u, <<k, j, i>>)
    PROVE  /\ s.size + 3 <= MAX_STACK_DEPTH /\ i < s.size /\ j < s.size /\ k < s.size
           /\ t = With(s, Raised(u, <<u[k], u[j], u[i]>>, s.size), 3)
           /\ t.size = s.size + 3
<1> DEFINE new == <<k, j, i>>
<1>1. DOMAIN new = 1 .. 3 /\ Len(new) = 3 /\ new[1] = k /\ new[2] = j /\ new[3] = i
  OBVIOUS
<1>2. [p \in 1 .. 3 |-> u[new[p]]] = <<u[k], u[j], u[i]>>
  BY <1>1
<1> HIDE DEF new
<1>3. Room(s, 3) /\ (\A p \in 1 .. 3 : new[p] < s.size) /\ t = With(s, Raised(u, [p \in 1 .. 3 |-> u[new[p]]], s.size), 3)
  <2>1. t \in execPUSHES(s, u, new)
    BY DEF new
  <2> QED BY <1>1, <2>1 DEF execPUSHES
<1>4. 1 \in 1 .. 3 /\ 2 \in 1 .. 3 /\ 3 \in 1 .. 3
  OBVIOUS
<1>5. t.size = s.size + 3
  BY <1>3 DEF With
<1> QED BY <1>1, <1>2, <1>3, <1>4, <1>5 DEF Room

(* apply for PUSH2.                                                         *)
LEMMA Push2IsReal ==
    ASSUME NEW n, Numbers(n), n.op = "PUSH2_S", NEW s \in State, NEW t \in apply(n, s)
    PROVE  Real(n, s, t)
<1> DEFINE w == Raised(s.values, <<s.values[n.j], s.values[n.i]>>, s.size)
<1>1. t \in execPUSHES(s, s.values, <<n.j, n.i>>)
  BY DEF apply
<1>2. s.size + 2 <= MAX_STACK_DEPTH /\ n.i < s.size /\ n.j < s.size /\ t = With(s, w, 2)
  BY <1>1, PushesTwo
<1>3. s.size \in Nat /\ n.i \in 0 .. s.size - 1 /\ n.j \in 0 .. s.size - 1 /\ n.k = -1
  BY <1>2, Depth, SMTT(20) DEF Numbers, State, Cells
<1>4. Agrees(DoPush2(Key(s), n.i, n.j), w, s.size + 2)
  BY <1>2, <1>3, KeyFacts, Push2Agrees
<1>5. ExecStack(n, Key(s)) = DoPush2(Key(s), n.i, n.j)
  BY DEF ExecStack
<1>6. Reach(n) <= s.size
  BY <1>2, <1>3 DEF Reach, Max4, Max2
<1> HIDE DEF w
<1> QED BY <1>2, <1>4, <1>5, <1>6, Result DEF Real

(* apply for PUSH3.                                                         *)
LEMMA Push3IsReal ==
    ASSUME NEW n, Numbers(n), n.op = "PUSH3_S", NEW s \in State, NEW t \in apply(n, s)
    PROVE  Real(n, s, t)
<1> DEFINE w == Raised(s.values, <<s.values[n.k], s.values[n.j], s.values[n.i]>>, s.size)
<1>1. t \in execPUSHES(s, s.values, <<n.k, n.j, n.i>>)
  BY DEF apply
<1>2. s.size + 3 <= MAX_STACK_DEPTH /\ n.i < s.size /\ n.j < s.size /\ n.k < s.size /\ t = With(s, w, 3)
  BY <1>1, PushesThree
<1>3. s.size \in Nat /\ n.i \in 0 .. s.size - 1 /\ n.j \in 0 .. s.size - 1 /\ n.k \in 0 .. s.size - 1
  <2> HIDE DEF w
  <2>1. n.i \in Nat /\ n.j \in Nat /\ n.k \in Nat
    BY DEF Numbers
  <2> QED BY <1>2, <2>1, Depth, SMTT(20) DEF State, Cells
<1>4. Agrees(DoPush(DoPush2(Key(s), n.i, n.j), n.k + 2), w, s.size + 3)
  BY <1>2, <1>3, KeyFacts, Push3Agrees
<1>5. ExecStack(n, Key(s)) = DoPush(DoPush2(Key(s), n.i, n.j), n.k + 2)
  BY DEF ExecStack
<1>6. Reach(n) <= s.size
  BY <1>2, <1>3 DEF Reach, Max4, Max2
<1> HIDE DEF w
<1> QED BY <1>2, <1>4, <1>5, <1>6, Result DEF Real

(* The compound instructions that begin with exchanges.                     *)
LEMMA XcpuIsReal ==
    ASSUME NEW n, Numbers(n), n.op = "XCPU", NEW s \in State, NEW t \in apply(n, s)
    PROVE  Real(n, s, t)
<1> DEFINE u == Swap(s.values, 0, n.i)
           r == DoXchg(Key(s), 0, n.i)
           w == Raised(u, <<u[n.j]>>, s.size)
<1>1. n.i < s.size /\ t \in execPUSHES(s, Swap(s.values, 0, n.i), <<n.j>>)
  BY DEF apply
<1>2. s.size + 1 <= MAX_STACK_DEPTH /\ n.j < s.size /\ t = With(s, w, 1)
  BY <1>1, PushesOne
<1>3. s.size \in Nat /\ n.i \in 0 .. s.size - 1 /\ n.j \in 0 .. s.size - 1 /\ 0 \in 0 .. s.size - 1 /\ n.k = -1
  BY <1>1, <1>2, Depth DEF Numbers, State, Cells
<1>4. Agrees(r, u, s.size)
  BY <1>3, KeyFacts, SwapAgrees
<1>5. ExecStack(n, Key(s)) = DoPush(r, n.j)
  BY DEF ExecStack
<1>6. Reach(n) <= s.size
  BY <1>1, <1>2, <1>3 DEF Reach, Max4, Max2
<1> HIDE DEF u, r
<1>7. Agrees(DoPush(r, n.j), w, s.size + 1)
  BY <1>2, <1>3, <1>4, PushAgrees
<1> HIDE DEF w
<1> QED BY <1>2, <1>5, <1>6, <1>7, Result DEF Real

(* apply for XCPU2.                                                         *)
LEMMA Xcpu2IsReal ==
    ASSUME NEW n, Numbers(n), n.op = "XCPU2", NEW s \in State, NEW t \in apply(n, s)
    PROVE  Real(n, s, t)
<1> DEFINE u == Swap(s.values, 0, n.i)
           r == DoXchg(Key(s), 0, n.i)
           w == Raised(u, <<u[n.k], u[n.j]>>, s.size)
<1>1. n.i < s.size /\ t \in execPUSHES(s, Swap(s.values, 0, n.i), <<n.k, n.j>>)
  BY DEF apply
<1>2. s.size + 2 <= MAX_STACK_DEPTH /\ n.j < s.size /\ n.k < s.size /\ t = With(s, w, 2)
  BY <1>1, PushesTwo
<1>3. /\ s.size \in Nat /\ n.i \in 0 .. s.size - 1 /\ n.j \in 0 .. s.size - 1 /\ n.k \in 0 .. s.size - 1
      /\ 0 \in 0 .. s.size - 1
  <2>1. n.i \in Nat /\ n.j \in Nat /\ n.k \in Nat
    BY DEF Numbers
  <2> QED BY <1>1, <1>2, <2>1, Depth, SMTT(20) DEF State, Cells
<1>4. Agrees(r, u, s.size)
  BY <1>3, KeyFacts, SwapAgrees
<1>5. ExecStack(n, Key(s)) = DoPush2(r, n.j, n.k)
  BY DEF ExecStack
<1>6. Reach(n) <= s.size
  BY <1>1, <1>2, <1>3 DEF Reach, Max4, Max2
<1> HIDE DEF u, r
<1>7. Agrees(DoPush2(r, n.j, n.k), w, s.size + 2)
  BY <1>2, <1>3, <1>4, Push2Agrees
<1> HIDE DEF w
<1> QED BY <1>2, <1>5, <1>6, <1>7, Result DEF Real

(* Two exchanges with the upper two cells, which have to exist.             *)
LEMMA Xchg2Agrees ==
    ASSUME NEW s, NEW v, NEW size, Agrees(s, v, size), size >= 2, NEW i \in 0 .. size - 1, NEW j \in 0 .. size - 1
    PROVE  Agrees(DoXchg2(s, i, j), Swap(Swap(v, 1, i), 0, j), size)
<1>1. size \in Nat /\ 0 \in 0 .. size - 1 /\ 1 \in 0 .. size - 1
  BY Depth DEF Agrees
<1> DEFINE u == Swap(v, 1, i)
           r == DoXchg(s, 1, i)
<1>2. Agrees(r, u, size)
  BY <1>1, SwapAgrees
<1> HIDE DEF u, r
<1>3. Agrees(DoXchg(r, 0, j), Swap(u, 0, j), size)
  BY <1>1, <1>2, SwapAgrees
<1> QED BY <1>3 DEF DoXchg2, u, r

(* apply for XC2PU.                                                         *)
LEMMA Xc2puIsReal ==
    ASSUME NEW n, Numbers(n), n.op = "XC2PU", NEW s \in State, NEW t \in apply(n, s)
    PROVE  Real(n, s, t)
<1> DEFINE u == Swap(Swap(s.values, 1, n.i), 0, n.j)
           r == DoXchg2(Key(s), n.i, n.j)
           w == Raised(u, <<u[n.k]>>, s.size)
<1>1. Max4(n.i, n.j, n.k, 1) < s.size /\ t \in execPUSHES(s, u, <<n.k>>)
  BY DEF apply
<1>2. s.size + 1 <= MAX_STACK_DEPTH /\ n.k < s.size /\ t = With(s, w, 1)
  <2> HIDE DEF u
  <2> QED BY <1>1, PushesOne
<1>3. /\ s.size \in Nat /\ s.size >= 2 /\ n.i \in 0 .. s.size - 1 /\ n.j \in 0 .. s.size - 1 /\ n.k \in 0 .. s.size - 1
  <2>1. n.i \in Nat /\ n.j \in Nat /\ n.k \in Nat
    BY DEF Numbers
  <2>2. s.size \in Nat
    BY Depth DEF State
  <2> HIDE DEF u, r, w
  <2> QED BY <1>1, <2>1, <2>2 DEF Max4, Max2
<1>4. Agrees(r, u, s.size)
  BY <1>3, KeyFacts, Xchg2Agrees
<1>5. ExecStack(n, Key(s)) = DoPush(r, n.k)
  BY DEF ExecStack
<1>6. Reach(n) <= s.size
  BY <1>1, <1>3 DEF Reach, Max4, Max2
<1> HIDE DEF u, r
<1>7. Agrees(DoPush(r, n.k), w, s.size + 1)
  BY <1>2, <1>3, <1>4, PushAgrees
<1> HIDE DEF w
<1> QED BY <1>2, <1>5, <1>6, <1>7, Result DEF Real

(* apply for XCHG2, on a stack of two cells or more.                        *)
LEMMA Xchg2IsReal ==
    ASSUME NEW n, Numbers(n), n.op = "XCHG2", NEW s \in State, NEW t \in apply(n, s), s.size >= 2
    PROVE  Real(n, s, t)
<1> DEFINE w == Swap(Swap(s.values, 1, n.i), 0, n.j)
<1>1. Max2(n.i, n.j) < s.size /\ t = With(s, w, 0)
  BY DEF apply
<1>2. s.size \in Nat /\ n.i \in 0 .. s.size - 1 /\ n.j \in 0 .. s.size - 1 /\ n.k = -1
  BY <1>1, Depth DEF Numbers, State, Cells, Max2
<1>3. Agrees(DoXchg2(Key(s), n.i, n.j), w, s.size)
  BY <1>2, KeyFacts, Xchg2Agrees
<1>4. s.size = s.size + 0 /\ 0 \in Int
  BY <1>2
<1>5. ExecStack(n, Key(s)) = DoXchg2(Key(s), n.i, n.j)
  BY DEF ExecStack
<1>6. Reach(n) <= s.size
  BY <1>2 DEF Reach, Max4, Max2
<1> HIDE DEF w
<1> QED BY <1>1, <1>3, <1>4, <1>5, <1>6, Result DEF Real

(* apply for XCHG3.                                                         *)
LEMMA Xchg3IsReal ==
    ASSUME NEW n, Numbers(n), n.op = "XCHG3", NEW s \in State, NEW t \in apply(n, s)
    PROVE  Real(n, s, t)
<1> DEFINE u1 == Swap(s.values, 2, n.i)
           r1 == DoXchg(Key(s), 2, n.i)
           u2 == Swap(u1, 1, n.j)
           r2 == DoXchg(r1, 1, n.j)
           u3 == Swap(u2, 0, n.k)
           r3 == DoXchg(r2, 0, n.k)
<1>1. Max4(2, n.i, n.j, n.k) < s.size /\ t = With(s, u3, 0)
  BY DEF apply
<1>2. /\ s.size \in Nat /\ n.i \in 0 .. s.size - 1 /\ n.j \in 0 .. s.size - 1 /\ n.k \in 0 .. s.size - 1
      /\ 2 \in 0 .. s.size - 1 /\ 1 \in 0 .. s.size - 1 /\ 0 \in 0 .. s.size - 1
      /\ s.size = s.size + 0 /\ 0 \in Int
  <2> HIDE DEF u3
  <2>1. n.i \in Nat /\ n.j \in Nat /\ n.k \in Nat
    BY DEF Numbers
  <2>2. s.size \in Nat
    BY Depth DEF State
  <2>3. n.i < s.size /\ n.j < s.size /\ n.k < s.size /\ 2 < s.size
    BY <1>1, <2>1, <2>2 DEF Cells, Max4, Max2
  <2> QED BY <2>1, <2>2, <2>3 DEF Cells
<1>3. ExecStack(n, Key(s)) = r3
  BY DEF ExecStack
<1>4. Reach(n) <= s.size
  BY <1>1, <1>2 DEF Reach, Max4, Max2
<1>5. Agrees(r1, u1, s.size)
  BY <1>2, KeyFacts, SwapAgrees
<1> HIDE DEF r1, u1
<1>6. Agrees(r2, u2, s.size)
  BY <1>2, <1>5, SwapAgrees
<1> HIDE DEF r2, u2
<1>7. Agrees(r3, u3, s.size)
  BY <1>2, <1>6, SwapAgrees
<1> HIDE DEF r3, u3
<1> QED BY <1>1, <1>2, <1>3, <1>4, <1>7, Result DEF Real

(* The compound instructions that end with PUXC or begin with it.           *)
LEMMA PuxcpuIsReal ==
    ASSUME NEW n, Numbers(n), n.op = "PUXCPU", NEW s \in State, NEW t \in apply(n, s)
    PROVE  Real(n, s, t)
<1>1. n.i \in Nat /\ n.j \in Int /\ n.j >= -1 /\ n.k \in Int /\ n.k >= -1 /\ n.k + 1 \in Nat /\ s.size \in Nat
  <2>1. n.i \in Nat /\ n.j \in Nat \cup {-1} /\ n.k \in Nat \cup {-1}
    BY DEF Numbers
  <2> QED BY <2>1, Depth DEF State, Cells
<1>2. t \in UNION {execPUSHS(r, n.k + 1) : r \in execPUXC(s, n.i, n.j)}
  BY DEF apply
<1>3. PICK r \in execPUXC(s, n.i, n.j) : t \in execPUSHS(r, n.k + 1)
  BY <1>2
<1>4. r \in State /\ r.size = s.size + 1 /\ n.i < s.size /\ n.j + 1 < s.size /\ Key(r) = DoPuxc(Key(s), n.i, n.j)
  BY <1>1, PuxcIsReal
<1>5. t \in State /\ n.k + 1 < r.size /\ Key(t) = DoPush(Key(r), n.k + 1)
  BY <1>1, <1>3, <1>4, PushsIsReal
<1>6. ExecStack(n, Key(s)) = DoPush(DoPuxc(Key(s), n.i, n.j), n.k + 1)
  BY DEF ExecStack
<1>7. Reach(n) <= s.size
  BY <1>1, <1>4, <1>5 DEF Reach, Max4, Max2
<1> QED BY <1>4, <1>5, <1>6, <1>7 DEF Real

(* apply for XCPUXC.                                                        *)
LEMMA XcpuxcIsReal ==
    ASSUME NEW n, Numbers(n), n.op = "XCPUXC", NEW s \in State, NEW t \in apply(n, s)
    PROVE  Real(n, s, t)
<1>1. n.i \in Nat /\ n.j \in Nat /\ n.k \in Int /\ n.k >= -1 /\ s.size \in Nat
  BY Depth DEF Numbers, State, Cells
<1> DEFINE r == [s EXCEPT !.values = Swap(@, 1, n.i)]
<1>2. Max2(n.i, 1) < s.size /\ t \in execPUXC(r, n.j, n.k)
  BY DEF apply
<1>3. n.i \in 0 .. s.size - 1 /\ 1 \in 0 .. s.size - 1 /\ n.i < s.size /\ 1 < s.size
  <2>1. Max2(n.i, 1) < s.size
    BY <1>2
  <2> QED BY <1>1, <2>1 DEF Max2
<1>4. r \in State /\ r.size = s.size /\ Key(r) = DoXchg(Key(s), 1, n.i)
  BY <1>3, SwappedIsReal
<1> HIDE DEF r
<1>5. t \in State /\ n.j < r.size /\ n.k + 1 < r.size /\ Key(t) = DoPuxc(Key(r), n.j, n.k)
  BY <1>1, <1>2, <1>4, PuxcIsReal
<1>6. ExecStack(n, Key(s)) = DoPuxc(DoXchg(Key(s), 1, n.i), n.j, n.k)
  BY DEF ExecStack
<1>7. Reach(n) <= s.size
  BY <1>1, <1>3, <1>4, <1>5 DEF Reach, Max4, Max2
<1> QED BY <1>4, <1>5, <1>6, <1>7 DEF Real

(* apply for PU2XC.                                                         *)
LEMMA Pu2xcIsReal ==
    ASSUME NEW n, Numbers(n), n.op = "PU2XC", NEW s \in State, NEW t \in apply(n, s)
    PROVE  Real(n, s, t)
<1>1. /\ n.i \in Nat /\ n.j \in Int /\ n.j >= -1 /\ n.k \in Int /\ n.k >= -2 /\ s.size \in Nat
      /\ n.j + 1 \in Nat /\ n.k + 1 \in Int /\ n.k + 1 >= -1
  <2>1. n.i \in Nat /\ n.j \in Nat \cup {-1} /\ n.k \in Nat \cup {-2, -1}
    BY DEF Numbers
  <2> QED BY <2>1, Depth, SMTT(20) DEF State, Cells
<1>2. t \in UNION {execPUXC([r EXCEPT !.values = Swap(@, 0, 1)], n.j + 1, n.k + 1) : r \in execPUSHS(s, n.i)}
  BY DEF apply
<1>3. PICK r \in execPUSHS(s, n.i) : t \in execPUXC([r EXCEPT !.values = Swap(@, 0, 1)], n.j + 1, n.k + 1)
  BY <1>2
<1>4. r \in State /\ r.size = s.size + 1 /\ n.i < s.size /\ Key(r) = DoPush(Key(s), n.i)
  BY <1>1, PushsIsReal
<1> DEFINE u == [r EXCEPT !.values = Swap(@, 0, 1)]
<1>5. 0 \in 0 .. r.size - 1 /\ 1 \in 0 .. r.size - 1
  BY <1>1, <1>4
<1>6. u \in State /\ u.size = r.size /\ Key(u) = DoXchg(Key(r), 0, 1)
  BY <1>4, <1>5, SwappedIsReal
<1>7. t \in execPUXC(u, n.j + 1, n.k + 1)
  BY <1>3
<1> HIDE DEF u
<1>8. /\ t \in State /\ n.j + 1 < u.size /\ (n.k + 1) + 1 < u.size
      /\ Key(t) = DoPuxc(Key(u), n.j + 1, n.k + 1)
  BY <1>1, <1>6, <1>7, PuxcIsReal
<1>9. ExecStack(n, Key(s)) = DoPuxc(DoXchg(DoPush(Key(s), n.i), 0, 1), n.j + 1, n.k + 1)
  BY DEF ExecStack
<1>10. Reach(n) <= s.size
  <2>1. n.j + 1 <= s.size /\ n.k + 1 <= s.size /\ n.i + 1 <= s.size
    BY <1>1, <1>4, <1>6, <1>8
  <2> QED BY <1>1, <2>1 DEF Reach, Max4, Max2
<1> QED BY <1>4, <1>6, <1>8, <1>9, <1>10 DEF Real

(* apply for PUXC2.                                                         *)
LEMMA Puxc2IsReal ==
    ASSUME NEW n, Numbers(n), n.op = "PUXC2", NEW s \in State, NEW t \in apply(n, s)
    PROVE  Real(n, s, t)
<1>1. n.i \in Nat /\ n.j \in Int /\ n.j >= -1 /\ n.k \in Int /\ n.k >= -1 /\ s.size \in Nat
  <2>1. n.i \in Nat /\ n.j \in Nat \cup {-1} /\ n.k \in Nat \cup {-1}
    BY DEF Numbers
  <2> QED BY <2>1, Depth DEF State, Cells
<1>2. /\ Max4(1, n.i, n.j, n.k) < s.size
      /\ t \in {[r EXCEPT !.values = Swap(Swap(Swap(@, 2, 0), 1, n.j + 1), 0, n.k + 1)] : r \in execPUSHS(s, n.i)}
  BY DEF apply
<1>3. PICK r \in execPUSHS(s, n.i) : t = [r EXCEPT !.values = Swap(Swap(Swap(@, 2, 0), 1, n.j + 1), 0, n.k + 1)]
  BY <1>2
<1>4. r \in State /\ r.size = s.size + 1 /\ n.i < s.size /\ Key(r) = DoPush(Key(s), n.i)
  BY <1>1, PushsIsReal
<1>5. 1 < s.size /\ n.i < s.size /\ n.j < s.size /\ n.k < s.size
  BY <1>1, <1>2 DEF Max4, Max2
<1>6. /\ r.size \in Nat /\ r.size >= 2 /\ n.j + 1 \in 0 .. r.size - 1 /\ n.k + 1 \in 0 .. r.size - 1
      /\ 0 \in 0 .. r.size - 1 /\ 2 \in 0 .. r.size - 1 /\ r.size <= MAX_STACK_DEPTH
  <2>1. r.size \in Nat /\ r.size <= MAX_STACK_DEPTH
    BY <1>4, Depth DEF State
  <2> QED BY <1>1, <1>4, <1>5, <2>1
<1>7. 0 \in Cells /\ 2 \in Cells /\ r.values \in [Cells -> Nat]
  BY <1>4, <1>6, Depth DEF Cells, State
<1> DEFINE v == Swap(r.values, 2, 0)
           k == DoXchg(Key(r), 0, 2)
           w == Swap(Swap(v, 1, n.j + 1), 0, n.k + 1)
<1>8. Agrees(k, v, r.size)
  <2>1. Agrees(Key(r), r.values, r.size)
    BY <1>4, KeyFacts
  <2>2. Agrees(k, Swap(r.values, 0, 2), r.size)
    BY <1>6, <2>1, SwapAgrees
  <2>3. v = Swap(r.values, 0, 2)
    BY <1>7, SwapSymmetric
  <2> QED BY <2>2, <2>3
<1>9. t.size = r.size /\ t.values = w /\ t = [r EXCEPT !.values = w]
  BY <1>3, <1>4 DEF State
<1>10. ExecStack(n, Key(s)) = DoXchg2(k, n.j + 1, n.k + 1)
  BY <1>4 DEF ExecStack
<1> HIDE DEF v, k
<1>11. Agrees(DoXchg2(k, n.j + 1, n.k + 1), w, r.size)
  BY <1>6, <1>8, Xchg2Agrees
<1> HIDE DEF w
<1>12. t \in State
  BY <1>4, <1>9, <1>11 DEF State, Agrees
<1>13. Reach(n) <= s.size
  BY <1>1, <1>5 DEF Reach, Max4, Max2
<1>14. Key(t) = DoXchg2(k, n.j + 1, n.k + 1)
  BY <1>9, <1>11, <1>12, AgreesIsKey
<1> QED BY <1>10, <1>12, <1>13, <1>14 DEF Real

(* All together.                                                            *)
LEMMA ApplyIsReal ==
    ASSUME NEW n, Numbers(n), n.op \in StackOps, NEW s \in State, NEW t \in apply(n, s), n.op = "XCHG2" => s.size >= 2
    PROVE  Real(n, s, t)
<1>1. Numbers(n) /\ n.op \in StackOps
  OBVIOUS
<1>2. CASE n.op \in {"PUSH_S", "PUSH2_S", "PUSH3_S", "BLKPUSH", "POP_S", "DROP", "BLKDROP2", "BLKSWAP", "REVERSE", "XCHG"}
  BY <1>1, <1>2, PushIsReal, Push2IsReal, Push3IsReal, BlkPushIsReal, PopIsReal, DropIsReal, BlkDrop2IsReal,
     BlkSwapIsReal, ReverseIsReal, XchgIsReal
<1>3. CASE n.op \in {"XCHG2", "XCHG3", "XCPU", "XC2PU", "XCPU2", "XCPUXC", "PUXC", "PUXC2", "PUXCPU", "PU2XC"}
  BY <1>1, <1>3, Xchg2IsReal, Xchg3IsReal, XcpuIsReal, Xc2puIsReal, Xcpu2IsReal, XcpuxcIsReal, PuxcOpIsReal,
     Puxc2IsReal, PuxcpuIsReal, Pu2xcIsReal
<1> QED BY <1>1, <1>2, <1>3 DEF StackOps

(***************************************************************************)
(* The search.  RescueCost is what the stack <<1>> really costs, for the   *)
(* start sizes from which XCHG2 on a stack of one can seem to reach it.    *)
(***************************************************************************)
RescueCost(size) == IF size = 2 THEN 18 ELSE IF size = 3 THEN 36 ELSE 44

(* A step that the TVM makes, and one that only apply makes.                *)
TrueStep(op, prev, key) == Reach(op) <= Len(prev) /\ ExecStack(op, prev) = key
WrongStep(key, gas) == compound /\ stackSize >= 2 /\ key = <<1>> /\ gas > RescueCost(stackSize)

(* Who is in the queue is in the table, at the price of the queue.          *)
QueueOK ==
    \A y \in q : /\ y.state \in State /\ y.gas \in Nat /\ y.qty \in Nat
                 /\ Key(y.state) \in DOMAIN dp /\ dp[Key(y.state)].gas = y.gas

(* The price of an entry is settled before it is continued.                 *)
EntryOK(key) ==
    /\ dp[key].gas \in Nat
    /\ dp[key].op # NoOp =>
         /\ dp[key].prev \in DOMAIN dp
         /\ dp[key].gas = dp[dp[key].prev].gas + GasCost(dp[key].op)
         /\ \A y \in q : dp[dp[key].prev].gas <= y.gas
         /\ TrueStep(dp[key].op, dp[key].prev, key) \/ WrongStep(key, dp[key].gas)

TableOK == \A key \in DOMAIN dp : EntryOK(key)

(* With compound instructions the queue holds the start, or what one        *)
(* instruction makes of it.                                                 *)
AtStart == q = FirstQueue(stackSize) /\ dp = FirstTable(stackSize)
OneStep(y) ==
    y.qty = 1 /\ \E n \in AllEdges : y.state \in apply(n, StackState(stackSize)) /\ y.gas = GasCost(n)
CompoundOK == compound => AtStart \/ \A y \in q : OneStep(y)

(* <<1>> has its real price, or the stack from which it gets it is waiting. *)
Waiting(y) == y.gas = 18 /\ Key(y.state) = From(Key(StackState(stackSize)), 1)
Rescued == <<1>> \in DOMAIN dp /\ dp[<<1>>].gas <= RescueCost(stackSize)
RescueOK ==
    compound /\ stackSize >= 2 =>
        AtStart \/ (stackSize >= 3 /\ \E y \in q : Waiting(y)) \/ Rescued

(* The invariant of the search, with the tables it has finished.            *)
SearchInv ==
    /\ compound \in BOOLEAN /\ stackSize \in Nat
    /\ Searching => QueueOK /\ TableOK /\ CompoundOK /\ RescueOK
    /\ TablesAreReal

(* The prices: 10 and the bits of the instruction.                          *)
LEMMA GasValues ==
    ASSUME NEW n
    PROVE  GasCost(n) \in {18, 26, 34}
BY DEF GasCost

(* The stack a search starts with.                                          *)
LEMMA StartFacts ==
    ASSUME NEW size \in 0 .. MAX_STACK_DEPTH
    PROVE  /\ StackState(size) \in State /\ StackState(size).size = size
           /\ \A p \in Cells : StackState(size).values[p] = IF p < size THEN p ELSE 0
BY Depth DEF StackState, State, Cells

(* The key of a stack of one cell.                                          *)
LEMMA OneKey ==
    ASSUME NEW t \in State, t.size = 1
    PROVE  Key(t) = <<t.values[0]>>
<1>1. 0 \in Cells /\ 1 \in 0 .. MAX_STACK_DEPTH /\ t.values \in [Cells -> Nat]
  BY Depth DEF Cells, State
<1>2. t.values[0] \in Nat
  BY <1>1
<1> DEFINE s == <<t.values[0]>>
<1>3. s \in Seq(Nat) /\ Len(s) = 1 /\ s[1] = t.values[0]
  BY <1>2
<1> HIDE DEF s
<1>4. \A p \in 1 .. 1 : p = 1 /\ p - 1 = 0
  OBVIOUS
<1>5. Agrees(s, t.values, t.size)
  BY <1>1, <1>3, <1>4 DEF Agrees
<1> QED BY <1>5, AgreesIsKey DEF s

(* XCHG2 on a stack of one takes what is left behind its end.               *)
LEMMA WrongXchg2 ==
    ASSUME NEW n, Numbers(n), n.op = "XCHG2", NEW s \in State, NEW t \in apply(n, s), ~(s.size >= 2)
    PROVE  s.size = 1 /\ t \in State /\ Key(s) = <<s.values[0]>> /\ Key(t) = <<s.values[1]>>
<1>1. Max2(n.i, n.j) < s.size /\ t = With(s, Swap(Swap(s.values, 1, n.i), 0, n.j), 0)
  BY DEF apply
<1>2. s.size \in Nat /\ n.i \in Nat /\ n.j \in Nat /\ 0 \in Cells /\ 1 \in Cells /\ s.values \in [Cells -> Nat]
      /\ s.size \in 0 .. MAX_STACK_DEPTH
  BY Depth DEF Numbers, State, Cells
<1>3. Max2(n.i, n.j) < s.size
  BY <1>1
<1>4. s.size = 1 /\ n.i = 0 /\ n.j = 0
  BY <1>2, <1>3 DEF Max2
<1> DEFINE u == Swap(s.values, 1, 0)
<1>5. u \in [Cells -> Nat] /\ u[0] = s.values[1]
  BY <1>2 DEF Swap
<1> HIDE DEF u
<1>6. Swap(u, 0, 0) \in [Cells -> Nat] /\ Swap(u, 0, 0)[0] = u[0]
  BY <1>2, <1>5 DEF Swap
<1>7. t = [size |-> 1, values |-> Swap(u, 0, 0)]
  BY <1>1, <1>2, <1>4 DEF With, u
<1>8. t \in State /\ t.size = 1 /\ t.values[0] = s.values[1]
  BY <1>2, <1>4, <1>5, <1>6, <1>7 DEF State
<1> QED BY <1>4, <1>8, OneKey

(* The other instructions do not make a stack of one.                       *)
LEMMA NotToOne ==
    ASSUME NEW n, Numbers(n), n.op \in StackOps \ {"DROP", "BLKDROP2", "POP_S"},
           NEW s \in State, NEW t \in apply(n, s), n.op = "XCHG2" => s.size >= 2,
           n.op = "XCHG" => n.i < n.j
    PROVE  t.size # 1
<1>1. s.size \in Nat /\ MAX_STACK_DEPTH \in Nat
  BY Depth DEF State
<1>2. CASE n.op = "BLKSWAP"
  <2>1. n.i \in Nat /\ n.j \in Nat /\ n.i >= 1 /\ n.j >= 1
    BY <1>2 DEF Numbers
  <2>2. n.i + n.j <= s.size /\ t.size = s.size + 0
    BY <1>2 DEF apply, With
  <2> QED BY <1>1, <2>1, <2>2
<1>3. CASE n.op = "REVERSE"
  <2>1. n.i \in Nat /\ n.j \in Nat /\ n.i >= 2
    BY <1>1, <1>3 DEF Numbers, Cells
  <2>2. n.j + n.i <= s.size /\ t.size = s.size + 0
    BY <1>3 DEF apply, With
  <2> QED BY <1>1, <2>1, <2>2
<1>4. CASE n.op = "XCHG"
  <2>1. n.i \in Nat /\ n.j \in Nat /\ n.i < n.j
    BY <1>1, <1>4 DEF Numbers, Cells
  <2>2. n.j < s.size /\ t.size = s.size + 0
    BY <1>4 DEF apply, With
  <2> QED BY <1>1, <2>1, <2>2
<1>5. CASE n.op = "XCHG2"
  <2>1. t.size = s.size + 0
    BY <1>5 DEF apply, With
  <2> QED BY <1>1, <1>5, <2>1
<1>6. CASE n.op = "XCHG3"
  <2>1. n.i \in Nat /\ n.j \in Nat /\ n.k \in Nat
    BY <1>1, <1>6 DEF Numbers, Cells
  <2>2. Max4(2, n.i, n.j, n.k) < s.size /\ t.size = s.size + 0
    BY <1>6 DEF apply, With
  <2>3. Max4(2, n.i, n.j, n.k) < s.size
    BY <2>2
  <2>4. 2 < s.size
    BY <1>1, <2>1, <2>3 DEF Max4, Max2
  <2> QED BY <1>1, <2>2, <2>4
<1>7. CASE n.op = "BLKPUSH"
  <2>1. n.i \in Nat /\ n.j \in Nat /\ n.i >= 2
    BY <1>1, <1>7 DEF Numbers, Cells
  <2>2. n.j < s.size /\ t.size = s.size + n.i
    BY <1>7 DEF apply, With
  <2> QED BY <1>1, <2>1, <2>2
<1>8. CASE n.op \in {"PUSH_S", "PUXC", "PUXCPU", "XCPUXC", "PU2XC", "PUXC2"}
  <2>1. n.i \in Nat /\ n.j \in Int /\ n.j >= -1
    BY <1>1, <1>8 DEF Numbers, Cells
  <2>2. CASE n.op = "PUSH_S"
    <3>1. t \in execPUSHS(s, n.i)
      BY <2>2 DEF apply
    <3>2. t.size = s.size + 1 /\ n.i < s.size
      BY <2>1, <3>1, PushsIsReal
    <3> QED BY <1>1, <2>1, <3>2
  <2>3. CASE n.op = "PUXC"
    <3>1. t \in execPUXC(s, n.i, n.j)
      BY <2>3 DEF apply
    <3>2. t.size = s.size + 1 /\ n.i < s.size
      BY <2>1, <3>1, PuxcIsReal
    <3> QED BY <1>1, <2>1, <3>2
  <2>4. CASE n.op = "PUXCPU"
    <3>1. PICK r \in execPUXC(s, n.i, n.j) : t \in execPUSHS(r, n.k + 1)
      BY <2>4 DEF apply
    <3>2. r \in State /\ r.size = s.size + 1 /\ n.i < s.size
      BY <2>1, PuxcIsReal
    <3>3. n.k + 1 \in Nat
      BY <1>1, <2>4 DEF Numbers
    <3>4. t.size = r.size + 1
      BY <3>1, <3>2, <3>3, PushsIsReal
    <3> QED BY <1>1, <2>1, <3>2, <3>4
  <2>5. CASE n.op = "XCPUXC"
    <3>1. n.j \in Nat /\ n.k \in Int /\ n.k >= -1
      BY <1>1, <2>5 DEF Numbers, Cells
    <3> DEFINE r == [s EXCEPT !.values = Swap(@, 1, n.i)]
    <3>2. Max2(n.i, 1) < s.size /\ t \in execPUXC(r, n.j, n.k)
      BY <2>5 DEF apply
    <3>3. n.i \in 0 .. s.size - 1 /\ 1 \in 0 .. s.size - 1
      <4>1. Max2(n.i, 1) < s.size
        BY <3>2
      <4> QED BY <1>1, <2>1, <4>1 DEF Max2
    <3>4. r \in State /\ r.size = s.size
      BY <3>3, SwappedIsReal
    <3> HIDE DEF r
    <3>5. t.size = r.size + 1
      BY <3>1, <3>2, <3>4, PuxcIsReal
    <3> QED BY <1>1, <3>3, <3>4, <3>5
  <2>6. CASE n.op = "PU2XC"
    <3>1. PICK r \in execPUSHS(s, n.i) : t \in execPUXC([r EXCEPT !.values = Swap(@, 0, 1)], n.j + 1, n.k + 1)
      BY <2>6 DEF apply
    <3>2. r \in State /\ r.size = s.size + 1 /\ n.i < s.size
      BY <2>1, PushsIsReal
    <3>3. n.j + 1 \in Nat /\ n.k + 1 \in Int /\ n.k + 1 >= -1 /\ 0 \in 0 .. r.size - 1 /\ 1 \in 0 .. r.size - 1
      BY <1>1, <2>1, <2>6, <3>2 DEF Numbers
    <3> DEFINE u == [r EXCEPT !.values = Swap(@, 0, 1)]
    <3>4. u \in State /\ u.size = r.size /\ t \in execPUXC(u, n.j + 1, n.k + 1)
      BY <3>1, <3>2, <3>3, SwappedIsReal
    <3> HIDE DEF u
    <3>5. t.size = u.size + 1
      BY <3>3, <3>4, PuxcIsReal
    <3> QED BY <1>1, <3>2, <3>4, <3>5
  <2>7. CASE n.op = "PUXC2"
    <3>1. PICK r \in execPUSHS(s, n.i) : t = [r EXCEPT !.values = Swap(Swap(Swap(@, 2, 0), 1, n.j + 1), 0, n.k + 1)]
      BY <2>7 DEF apply
    <3>2. r \in State /\ r.size = s.size + 1 /\ n.i < s.size
      BY <2>1, PushsIsReal
    <3>3. t.size = r.size
      BY <3>1, <3>2 DEF State
    <3> QED BY <1>1, <2>1, <3>2, <3>3
  <2> QED BY <1>8, <2>2, <2>3, <2>4, <2>5, <2>6, <2>7
<1>9. CASE n.op \in {"PUSH2_S", "PUSH3_S", "XCPU", "XC2PU", "XCPU2"}
  <2>1. n.j \in Nat /\ n.j >= 0
    BY <1>1, <1>9 DEF Numbers, Cells
  <2>2. CASE n.op = "PUSH2_S"
    <3> DEFINE i == n.i  j == n.j  u == s.values
    <3>1. t \in execPUSHES(s, u, <<j, i>>)
      BY <2>2 DEF apply
    <3> HIDE DEF i, j, u
    <3>2. t.size = s.size + 2
      BY <3>1, PushesTwo
    <3> QED BY <1>1, <3>2
  <2>3. CASE n.op = "PUSH3_S"
    <3> DEFINE i == n.i  j == n.j  k == n.k  u == s.values
    <3>1. t \in execPUSHES(s, u, <<k, j, i>>)
      BY <2>3 DEF apply
    <3> HIDE DEF i, j, k, u
    <3>2. /\ s.size + 3 <= MAX_STACK_DEPTH /\ i < s.size /\ j < s.size /\ k < s.size
          /\ t = With(s, Raised(u, <<u[k], u[j], u[i]>>, s.size), 3)
          /\ t.size = s.size + 3
      BY <3>1, PushesThree
    <3> QED BY <1>1, <3>2
  <2>4. CASE n.op = "XCPU"
    <3>1. t \in execPUSHES(s, Swap(s.values, 0, n.i), <<n.j>>)
      BY <2>4 DEF apply
    <3>2. t.size = s.size + 1 /\ n.j < s.size
      BY <3>1, PushesOne
    <3> QED BY <1>1, <2>1, <3>2
  <2>5. CASE n.op = "XC2PU"
    <3>1. n.i \in Nat /\ n.k \in Nat
      BY <1>1, <2>5 DEF Numbers, Cells
    <3>2. t \in execPUSHES(s, Swap(Swap(s.values, 1, n.i), 0, n.j), <<n.k>>)
      BY <2>5 DEF apply
    <3>3. t.size = s.size + 1 /\ n.k < s.size
      BY <3>2, PushesOne
    <3> QED BY <1>1, <3>1, <3>3
  <2>6. CASE n.op = "XCPU2"
    <3> DEFINE j == n.j  k == n.k  u == Swap(s.values, 0, n.i)
    <3>1. t \in execPUSHES(s, u, <<k, j>>)
      BY <2>6 DEF apply
    <3> HIDE DEF j, k, u
    <3>2. t.size = s.size + 2
      BY <3>1, PushesTwo
    <3> QED BY <1>1, <3>2
  <2> QED BY <1>9, <2>2, <2>3, <2>4, <2>5, <2>6
<1> QED BY <1>2, <1>3, <1>4, <1>5, <1>6, <1>7, <1>8, <1>9 DEF StackOps

(* What one instruction can leave behind the end of a stack of one.         *)
LEMMA OneCell ==
    ASSUME NEW n \in AllEdges, NEW k \in 0 .. MAX_STACK_DEPTH, NEW t \in apply(n, StackState(k)), t.size = 1
    PROVE  \/ t.values[1] = t.values[0]
           \/ k >= 2 /\ t.values[1] = 1 /\ (k >= 4 => GasCost(n) = 26)
<1> DEFINE s == StackState(k)
           v == s.values
<1>1. s \in State /\ s.size = k /\ \A p \in Cells : v[p] = IF p < k THEN p ELSE 0
  BY StartFacts
<1>2. k \in Nat /\ k <= MAX_STACK_DEPTH /\ 0 \in Cells /\ 1 \in Cells
  BY Depth DEF Cells
<1>3. Numbers(n) /\ n.op \in StackOps /\ (n.op = "XCHG" => n.i < n.j)
  BY EdgeNumbers
<1>4. v \in [Cells -> Nat] /\ t \in apply(n, s)
  BY <1>1 DEF State
<1> HIDE DEF s, v
<1>5. CASE n.op = "DROP"
  <2>1. n.i < s.size /\ t = With(s, Lowered(v, n.i, n.i, s.size), -n.i)
    BY <1>4, <1>5 DEF apply, v
  <2>2. n.i \in Nat /\ n.i >= 1
    BY <1>3, <1>5 DEF Numbers
  <2>3. t.size = k - n.i /\ t.values = Lowered(v, n.i, n.i, k)
    BY <1>1, <1>2, <2>1, <2>2 DEF With
  <2>4. k - n.i = 1 /\ k >= 2 /\ n.i = k - 1
    BY <1>2, <2>2, <2>3
  <2>5. Lowered(v, n.i, n.i, k)[1] = v[1]
    BY <1>2, <2>2, <2>4 DEF Lowered
  <2>6. v[1] = 1
    BY <1>1, <1>2, <2>4
  <2>7. k >= 4 => GasCost(n) = 26
    BY <1>2, <1>5, <2>4 DEF GasCost
  <2> QED BY <2>3, <2>4, <2>5, <2>6, <2>7
<1>6. CASE n.op = "BLKDROP2"
  <2>1. n.i + n.j <= s.size /\ t = With(s, Lowered(v, n.i + n.j, n.i, s.size), -n.i)
    BY <1>4, <1>6 DEF apply, v
  <2>2. n.i \in Nat /\ n.i >= 1 /\ n.j \in Nat /\ n.j >= 1
    BY <1>3, <1>6 DEF Numbers
  <2>3. t.size = k - n.i /\ t.values = Lowered(v, n.i + n.j, n.i, k)
    BY <1>1, <1>2, <2>1, <2>2 DEF With
  <2>4. k - n.i = 1 /\ k >= 2
    BY <1>2, <2>2, <2>3
  <2>5. Lowered(v, n.i + n.j, n.i, k)[1] = v[1]
    BY <1>2, <2>2, <2>4 DEF Lowered
  <2>6. v[1] = 1
    BY <1>1, <1>2, <2>4
  <2>7. GasCost(n) = 26
    BY <1>6 DEF GasCost
  <2> QED BY <2>3, <2>4, <2>5, <2>6, <2>7
<1>7. CASE n.op = "POP_S"
  <2> DEFINE u == [v EXCEPT ![n.i] = v[0]]
  <2>1. n.i < s.size /\ t = With(s, Lowered(u, 1, 1, s.size), -1)
    BY <1>4, <1>7 DEF apply, v
  <2>2. n.i \in Nat /\ n.i >= 1 /\ n.i < k
    BY <1>1, <1>3, <1>7, <2>1 DEF Numbers
  <2>3. t.size = k - 1 /\ t.values = Lowered(u, 1, 1, k)
    BY <1>1, <1>2, <2>1 DEF With
  <2>4. k = 2 /\ n.i = 1
    BY <1>2, <2>2, <2>3
  <2>5. u[1] = v[0]
    BY <1>2, <1>4, <2>4
  <2> HIDE DEF u
  <2>6. Lowered(u, 1, 1, k)[1] = u[1] /\ Lowered(u, 1, 1, k)[0] = u[1]
    BY <1>2, <2>4 DEF Lowered
  <2> QED BY <2>3, <2>6
<1>8. CASE n.op \notin {"DROP", "BLKDROP2", "POP_S"}
  <2>1. CASE n.op = "XCHG2" /\ ~(s.size >= 2)
    <3>1. Max2(n.i, n.j) < s.size /\ t = With(s, Swap(Swap(v, 1, n.i), 0, n.j), 0)
      BY <1>4, <2>1 DEF apply, v
    <3>2. n.i \in Nat /\ n.j \in Nat /\ Max2(n.i, n.j) < s.size
      BY <1>3, <2>1, <3>1, Depth DEF Numbers, Cells
    <3>3. k = 1 /\ n.i = 0 /\ n.j = 0
      BY <1>1, <1>2, <2>1, <3>2 DEF Max2
    <3>4. v[0] = 0 /\ v[1] = 0
      BY <1>1, <1>2, <3>3
    <3>5. t.values = Swap(Swap(v, 1, 0), 0, 0)
      BY <3>1, <3>3 DEF With
    <3> DEFINE u == Swap(v, 1, 0)
    <3>6. u \in [Cells -> Nat] /\ u[0] = 0 /\ u[1] = 0
      BY <1>2, <1>4, <3>4 DEF Swap
    <3> HIDE DEF u
    <3>7. Swap(u, 0, 0)[0] = 0 /\ Swap(u, 0, 0)[1] = 0
      BY <1>2, <3>6 DEF Swap
    <3> QED BY <3>5, <3>7 DEF u
  <2>2. CASE ~(n.op = "XCHG2" /\ ~(s.size >= 2))
    <3>1. t.size # 1
      BY <1>1, <1>3, <1>4, <1>8, <2>2, NotToOne
    <3> QED BY <3>1
  <2> QED BY <2>1, <2>2
<1> QED BY <1>5, <1>6, <1>7, <1>8

(* What a step of the search may use.                                       *)
LEMMA ImprovingFacts ==
    ASSUME SearchInv, Searching, NEW x \in q, NEW m \in Improving(x)
    PROVE  /\ m.op \in AllEdges /\ m.to \in apply(m.op, x.state) /\ m.to \in State /\ m.key = Key(m.to)
           /\ m.gas = x.gas + GasCost(m.op) /\ m.gas \in {x.gas + 18, x.gas + 26, x.gas + 34}
           /\ m.key \in DOMAIN dp => dp[m.key].gas > m.gas
           /\ TrueStep(m.op, Key(x.state), m.key) \/ WrongStep(m.key, m.gas)
<1>1. /\ x.state \in State /\ x.gas \in Nat /\ x.qty \in Nat
      /\ Key(x.state) \in DOMAIN dp /\ dp[Key(x.state)].gas = x.gas
  BY DEF SearchInv, QueueOK
<1>2. /\ m \in UNION {{[to |-> t, key |-> Key(t), op |-> n, gas |-> x.gas + GasCost(n)] :
                     t \in apply(n, x.state)} : n \in Edges(compound)}
      /\ m.key \in DOMAIN dp => dp[m.key].gas > m.gas
  BY DEF Improving
<1>3. PICK n \in Edges(compound) : m \in {[to |-> t, key |-> Key(t), op |-> n, gas |-> x.gas + GasCost(n)] :
                                            t \in apply(n, x.state)}
  BY <1>2
<1>4. PICK t \in apply(n, x.state) : m = [to |-> t, key |-> Key(t), op |-> n, gas |-> x.gas + GasCost(n)]
  BY <1>3
<1>5. m.to = t /\ m.key = Key(t) /\ m.op = n /\ m.gas = x.gas + GasCost(n)
  BY <1>4
<1>6. n \in AllEdges /\ (n \in SimpleEdges \/ compound)
  BY DEF Edges, AllEdges
<1>7. Numbers(n) /\ n.op \in StackOps
  BY <1>6, EdgeNumbers
<1>8. GasCost(n) \in {18, 26, 34} /\ m.gas \in {x.gas + 18, x.gas + 26, x.gas + 34}
  BY <1>5, GasValues
<1>9. Len(Key(x.state)) = x.state.size
  BY <1>1, KeyFacts DEF Agrees
<1>10. CASE n.op = "XCHG2" => x.state.size >= 2
  <2>1. Real(n, x.state, t)
    BY <1>1, <1>7, <1>10, ApplyIsReal
  <2> QED BY <1>2, <1>5, <1>6, <1>8, <1>9, <2>1 DEF Real, TrueStep
<1>11. CASE n.op = "XCHG2" /\ ~(x.state.size >= 2)
  <2>1. x.state.size = 1 /\ t \in State /\ Key(x.state) = <<x.state.values[0]>> /\ Key(t) = <<x.state.values[1]>>
    BY <1>1, <1>7, <1>11, WrongXchg2
  <2>2. compound
    BY <1>6, <1>11, SimpleNumbers
  <2>3. GasCost(n) = 26
    BY <1>11 DEF GasCost
  <2>4. x.state.values[1] # x.state.values[0]
    <3>1. SUFFICES ASSUME x.state.values[1] = x.state.values[0] PROVE FALSE
      OBVIOUS
    <3>2. dp[m.key].gas > m.gas /\ dp[m.key].gas = x.gas /\ m.gas = x.gas + 26
      BY <1>1, <1>2, <1>5, <2>1, <2>3, <3>1
    <3> QED BY <1>1, <3>2
  <2>5. stackSize \in 0 .. MAX_STACK_DEPTH
    BY Depth DEF Searching, SearchInv
  <2>6. ~AtStart
    <3>1. SUFFICES ASSUME AtStart PROVE FALSE
      OBVIOUS
    <3>2. x.state = StackState(stackSize)
      BY <3>1 DEF AtStart, FirstQueue
    <3>3. stackSize = 1 /\ 0 \in Cells /\ 1 \in Cells
      BY <2>1, <2>5, <3>2, StartFacts, Depth DEF Cells
    <3>4. x.state.values[0] = 0 /\ x.state.values[1] = 0
      BY <2>5, <3>2, <3>3, StartFacts
    <3> QED BY <2>4, <3>4
  <2>7. OneStep(x)
    BY <2>2, <2>6 DEF SearchInv, CompoundOK
  <2>8. PICK o \in AllEdges : x.state \in apply(o, StackState(stackSize)) /\ x.gas = GasCost(o)
    BY <2>7 DEF OneStep
  <2>9. stackSize >= 2 /\ x.state.values[1] = 1 /\ (stackSize >= 4 => GasCost(o) = 26)
    BY <2>1, <2>4, <2>5, <2>8, OneCell
  <2>10. GasCost(o) \in {18, 26, 34}
    BY GasValues
  <2>11. m.gas > RescueCost(stackSize)
    BY <1>5, <2>3, <2>5, <2>8, <2>9, <2>10, Depth DEF RescueCost
  <2>12. WrongStep(m.key, m.gas)
    BY <1>5, <2>1, <2>2, <2>9, <2>11 DEF WrongStep
  <2> QED BY <1>2, <1>5, <1>6, <1>8, <2>1, <2>12
<1> QED BY <1>10, <1>11

(* What an instruction reaches is among the steps, if it is an improvement. *)
LEMMA ImprovingHas ==
    ASSUME NEW x, NEW n \in Edges(compound), NEW t \in apply(n, x.state),
           Key(t) \in DOMAIN dp => dp[Key(t)].gas > x.gas + GasCost(n)
    PROVE  \E m \in Improving(x) : m.key = Key(t) /\ m.gas = x.gas + GasCost(n)
<1> DEFINE m == [to |-> t, key |-> Key(t), op |-> n, gas |-> x.gas + GasCost(n)]
<1>1. m.key = Key(t) /\ m.gas = x.gas + GasCost(n)
  OBVIOUS
<1>2. m \in {[to |-> r, key |-> Key(r), op |-> n, gas |-> x.gas + GasCost(n)] : r \in apply(n, x.state)}
  OBVIOUS
<1> HIDE DEF m
<1>3. m \in UNION {{[to |-> r, key |-> Key(r), op |-> o, gas |-> x.gas + GasCost(o)] :
                     r \in apply(o, x.state)} : o \in Edges(compound)}
  BY <1>2
<1>4. m \in Improving(x)
  BY <1>1, <1>3 DEF Improving
<1> QED BY <1>1, <1>4

(* The cheapest steps: there is one for each stack.                         *)
LEMMA TakenFacts ==
    ASSUME NEW steps, NEW b \in Nat, \A m \in steps : m.gas \in {b + 18, b + 26, b + 34}
    PROVE  /\ Taken(steps) \subseteq steps
           /\ \A m \in steps : \E c \in Taken(steps) : c.key = m.key /\ c.gas <= m.gas
           /\ \A c, d \in Taken(steps) : c.key = d.key => c = d
<1>1. ASSUME NEW m \in steps
      PROVE  /\ Cheapest(steps, m.key) \in steps /\ Cheapest(steps, m.key).key = m.key
             /\ Cheapest(steps, m.key).gas <= m.gas
  <2> DEFINE Best(c) == c.key = m.key /\ \A o \in steps : o.key = m.key => c.gas <= o.gas
  <2>1. \E c \in steps : Best(c)
    <3>1. CASE \E c \in steps : c.key = m.key /\ c.gas = b + 18
      <4>1. PICK c \in steps : c.key = m.key /\ c.gas = b + 18
        BY <3>1
      <4>2. \A o \in steps : c.gas <= o.gas
        BY <4>1
      <4> QED BY <4>1, <4>2
    <3>2. CASE (~\E c \in steps : c.key = m.key /\ c.gas = b + 18) /\ \E c \in steps : c.key = m.key /\ c.gas = b + 26
      <4>1. PICK c \in steps : c.key = m.key /\ c.gas = b + 26
        BY <3>2
      <4>2. \A o \in steps : o.key = m.key => c.gas <= o.gas
        BY <3>2, <4>1
      <4> QED BY <4>1, <4>2
    <3>3. CASE ~\E c \in steps : c.key = m.key /\ (c.gas = b + 18 \/ c.gas = b + 26)
      <4>1. \A o \in steps : o.key = m.key => m.gas <= o.gas
        BY <3>3
      <4> QED BY <4>1
    <3> QED BY <3>1, <3>2, <3>3
  <2>2. Cheapest(steps, m.key) = CHOOSE c \in steps : Best(c)
    BY DEF Cheapest
  <2>3. Cheapest(steps, m.key) \in steps /\ Best(Cheapest(steps, m.key))
    <3> HIDE DEF Best
    <3> QED BY <2>1, <2>2
  <2> QED BY <2>3
<1>2. \A c \in Taken(steps) : \E m \in steps : c = Cheapest(steps, m.key)
  BY DEF Taken
<1>3. \A m \in steps : Cheapest(steps, m.key) \in Taken(steps)
  BY DEF Taken
<1>4. Taken(steps) \subseteq steps
  BY <1>1, <1>2
<1>5. \A m \in steps : \E c \in Taken(steps) : c.key = m.key /\ c.gas <= m.gas
  BY <1>1, <1>3
<1>6. \A c, d \in Taken(steps) : c.key = d.key => c = d
  BY <1>1, <1>2
<1> QED BY <1>4, <1>5, <1>6

(* One turn of the loop, as the proofs use it.                              *)
Entry(x, m) == [gas |-> m.gas, prev |-> Key(x.state), op |-> m.op]
Continued(x, m) == [state |-> m.to, gas |-> m.gas, qty |-> x.qty + 1]
Replaced(taken, key) == \E m \in taken : m.key = key

Expansion(x, taken) ==
    /\ x \in q /\ taken \subseteq Improving(x)
    /\ \A m \in Improving(x) : \E c \in taken : c.key = m.key /\ c.gas <= m.gas
    /\ \A y \in q : x.gas <= y.gas
    /\ \A key : key \in DOMAIN dp' <=> key \in DOMAIN dp \/ Replaced(taken, key)
    /\ \A m \in taken : dp'[m.key] = Entry(x, m)
    /\ \A key \in DOMAIN dp : ~Replaced(taken, key) => dp'[key] = dp[key]
    /\ \A y \in q' : \/ y \in q /\ y # x /\ ~Replaced(taken, Key(y.state))
                     \/ x.qty + 1 < MaxDepth(compound) /\ \E m \in taken : y = Continued(x, m)
    /\ \A y \in q : y # x /\ ~Replaced(taken, Key(y.state)) => y \in q'
    /\ x.qty + 1 < MaxDepth(compound) => \A m \in taken : Continued(x, m) \in q'

(* A turn of the loop in upd(), as Expansion.                               *)
LEMMA ExpandIs ==
    ASSUME SearchInv, Expand
    PROVE  \E x \in q : \E taken : Expansion(x, taken)
<1>1. Searching
  BY DEF Expand
<1>2. PICK x \in q :
        /\ isFront(x)
        /\ \E taken \in {Taken(Improving(x))} :
             LET Reached == {m.key : m \in taken}
                 Step(key) == CHOOSE m \in taken : m.key = key
             IN  /\ dp' = [key \in Reached \cup DOMAIN dp |->
                              IF key \in Reached
                              THEN [gas |-> Step(key).gas, prev |-> Key(x.state), op |-> Step(key).op]
                              ELSE dp[key]]
                 /\ q' = {y \in q \ {x} : ~(Key(y.state) \in Reached /\ y.gas = dp[Key(y.state)].gas)}
                         \cup (IF x.qty + 1 < MaxDepth(compound)
                               THEN {[state |-> m.to, gas |-> m.gas, qty |-> x.qty + 1] : m \in taken} ELSE {})
  BY DEF Expand
<1> DEFINE taken == Taken(Improving(x))
           Reached == {m.key : m \in taken}
           Step(key) == CHOOSE m \in taken : m.key = key
<1>3. dp' = [key \in Reached \cup DOMAIN dp |->
                 IF key \in Reached
                 THEN [gas |-> Step(key).gas, prev |-> Key(x.state), op |-> Step(key).op]
                 ELSE dp[key]]
  BY <1>2
<1>4. q' = {y \in q \ {x} : ~(Key(y.state) \in Reached /\ y.gas = dp[Key(y.state)].gas)}
              \cup (IF x.qty + 1 < MaxDepth(compound) THEN {Continued(x, m) : m \in taken} ELSE {})
  BY <1>2 DEF Continued
<1>5. \A y \in q : y.gas \in Nat /\ y.gas = dp[Key(y.state)].gas
  BY <1>1 DEF SearchInv, QueueOK
<1>6. \A m \in Improving(x) : m.gas \in {x.gas + 18, x.gas + 26, x.gas + 34}
  BY <1>1, ImprovingFacts
<1>7. /\ taken \subseteq Improving(x)
      /\ \A m \in Improving(x) : \E c \in taken : c.key = m.key /\ c.gas <= m.gas
      /\ \A c, d \in taken : c.key = d.key => c = d
  <2> DEFINE steps == Improving(x)  b == x.gas
  <2>1. b \in Nat /\ \A m \in steps : m.gas \in {b + 18, b + 26, b + 34}
    BY <1>5, <1>6
  <2> HIDE DEF steps, b
  <2>2. /\ Taken(steps) \subseteq steps
        /\ \A m \in steps : \E c \in Taken(steps) : c.key = m.key /\ c.gas <= m.gas
        /\ \A c, d \in Taken(steps) : c.key = d.key => c = d
    BY <2>1, TakenFacts
  <2> QED BY <2>2 DEF steps
<1> HIDE DEF taken
<1>8. \A y \in q : x.gas <= y.gas
  BY <1>2, <1>5 DEF isFront
<1>9. \A key : key \in Reached <=> Replaced(taken, key)
  BY DEF Replaced
<1>10. \A m \in taken : Step(m.key) = m
  BY <1>7
<1> HIDE DEF Reached, Step
<1>11. \A key : key \in DOMAIN dp' <=> key \in DOMAIN dp \/ Replaced(taken, key)
  BY <1>3, <1>9
<1>12. \A m \in taken : m.key \in Reached
  BY DEF Reached
<1>13. \A m \in taken : dp'[m.key] = Entry(x, m)
  BY <1>3, <1>10, <1>12 DEF Entry
<1>14. \A key \in DOMAIN dp : ~Replaced(taken, key) => dp'[key] = dp[key]
  BY <1>3, <1>9
<1>15. \A y \in q' : \/ y \in q /\ y # x /\ ~Replaced(taken, Key(y.state))
                     \/ x.qty + 1 < MaxDepth(compound) /\ \E m \in taken : y = Continued(x, m)
  BY <1>4, <1>5, <1>9
<1>16. \A y \in q : y # x /\ ~Replaced(taken, Key(y.state)) => y \in q'
  BY <1>4, <1>9
<1>17. x.qty + 1 < MaxDepth(compound) => \A m \in taken : Continued(x, m) \in q'
  BY <1>4
<1>18. Expansion(x, taken)
  BY <1>7, <1>8, <1>11, <1>13, <1>14, <1>15, <1>16, <1>17 DEF Expansion
<1> QED BY <1>18

(* Prices go down, and no lower than what has been continued.               *)
LEMMA PricesGoDown ==
    ASSUME SearchInv, Searching, NEW x, NEW taken, Expansion(x, taken), NEW key \in DOMAIN dp
    PROVE  /\ key \in DOMAIN dp' /\ dp[key].gas \in Nat /\ dp'[key].gas \in Nat /\ dp'[key].gas <= dp[key].gas
           /\ dp[key].gas <= x.gas + 18 => dp'[key] = dp[key] /\ ~Replaced(taken, key)
<1>1. x \in q /\ x.gas \in Nat /\ dp[key].gas \in Nat /\ key \in DOMAIN dp'
  BY DEF Expansion, SearchInv, QueueOK, TableOK, EntryOK
<1>2. CASE ~Replaced(taken, key)
  BY <1>1, <1>2 DEF Expansion
<1>3. CASE Replaced(taken, key)
  <2>1. PICK m \in taken : m.key = key
    BY <1>3 DEF Replaced
  <2>2. m \in Improving(x) /\ dp'[key] = Entry(x, m)
    BY <2>1 DEF Expansion
  <2>3. dp[key].gas > m.gas /\ m.gas \in {x.gas + 18, x.gas + 26, x.gas + 34}
    BY <1>1, <2>1, <2>2, ImprovingFacts
  <2>4. dp'[key].gas = m.gas
    BY <2>2 DEF Entry
  <2> QED BY <1>1, <2>3, <2>4
<1> QED BY <1>2, <1>3

(* A turn of the loop keeps QueueOK.                                        *)
LEMMA ExpandQueue ==
    ASSUME SearchInv, Searching, NEW x, NEW taken, Expansion(x, taken)
    PROVE  QueueOK'
<1>1. x \in q /\ x.gas \in Nat /\ x.qty \in Nat
  BY DEF Expansion, SearchInv, QueueOK
<1> SUFFICES ASSUME NEW y \in q'
             PROVE  /\ y.state \in State /\ y.gas \in Nat /\ y.qty \in Nat
                    /\ Key(y.state) \in DOMAIN dp' /\ dp'[Key(y.state)].gas = y.gas
  BY DEF QueueOK
<1>2. CASE y \in q /\ ~Replaced(taken, Key(y.state))
  <2>1. /\ y.state \in State /\ y.gas \in Nat /\ y.qty \in Nat
        /\ Key(y.state) \in DOMAIN dp /\ dp[Key(y.state)].gas = y.gas
    BY <1>2 DEF SearchInv, QueueOK
  <2>2. Key(y.state) \in DOMAIN dp' /\ dp'[Key(y.state)] = dp[Key(y.state)]
    BY <1>2, <2>1 DEF Expansion
  <2> QED BY <2>1, <2>2
<1>3. CASE \E m \in taken : y = Continued(x, m)
  <2>1. PICK m \in taken : y = Continued(x, m)
    BY <1>3
  <2>2. m \in Improving(x) /\ dp'[m.key] = Entry(x, m) /\ m.key \in DOMAIN dp'
    BY DEF Expansion, Replaced
  <2>3. m.to \in State /\ m.key = Key(m.to) /\ m.gas \in {x.gas + 18, x.gas + 26, x.gas + 34}
    BY <1>1, <2>2, ImprovingFacts
  <2>4. y.state = m.to /\ y.gas = m.gas /\ y.qty = x.qty + 1
    BY <2>1 DEF Continued
  <2>5. m.gas \in Nat /\ x.qty + 1 \in Nat
    BY <1>1, <2>3
  <2>6. dp'[m.key].gas = m.gas
    BY <2>2 DEF Entry
  <2> QED BY <2>2, <2>3, <2>4, <2>5, <2>6
<1> QED BY <1>2, <1>3 DEF Expansion

(* A turn of the loop keeps TableOK.                                        *)
LEMMA ExpandTable ==
    ASSUME SearchInv, Searching, NEW x, NEW taken, Expansion(x, taken), UNCHANGED <<compound, stackSize>>
    PROVE  TableOK'
<1>1. /\ x \in q /\ x.gas \in Nat /\ Key(x.state) \in DOMAIN dp /\ dp[Key(x.state)].gas = x.gas
      /\ \A y \in q : y.gas \in Nat
  BY DEF Expansion, SearchInv, QueueOK
<1>2. \A y \in q' : y.gas \in Nat /\ x.gas <= y.gas
  <2> SUFFICES ASSUME NEW y \in q' PROVE y.gas \in Nat /\ x.gas <= y.gas
    OBVIOUS
  <2>1. CASE y \in q
    BY <1>1, <2>1 DEF Expansion
  <2>2. CASE \E m \in taken : y = Continued(x, m)
    <3>1. PICK m \in taken : y = Continued(x, m)
      BY <2>2
    <3>2. m.gas \in {x.gas + 18, x.gas + 26, x.gas + 34}
      BY <1>1, ImprovingFacts DEF Expansion
    <3>3. y.gas = m.gas
      BY <3>1 DEF Continued
    <3> QED BY <1>1, <3>2, <3>3
  <2> QED BY <2>1, <2>2 DEF Expansion
<1>3. Key(x.state) \in DOMAIN dp' /\ dp'[Key(x.state)].gas = x.gas
  BY <1>1, PricesGoDown
<1> SUFFICES ASSUME NEW key \in DOMAIN dp' PROVE EntryOK(key)'
  BY DEF TableOK
<1>4. CASE Replaced(taken, key)
  <2>1. PICK m \in taken : m.key = key
    BY <1>4 DEF Replaced
  <2>2. m \in Improving(x) /\ dp'[key] = Entry(x, m)
    BY <2>1 DEF Expansion
  <2>3. /\ m.gas = x.gas + GasCost(m.op) /\ m.gas \in {x.gas + 18, x.gas + 26, x.gas + 34}
        /\ TrueStep(m.op, Key(x.state), m.key) \/ WrongStep(m.key, m.gas)
    BY <1>1, <2>2, ImprovingFacts
  <2>4. dp'[key].gas = m.gas /\ dp'[key].prev = Key(x.state) /\ dp'[key].op = m.op /\ m.gas \in Nat
    BY <1>1, <2>2, <2>3 DEF Entry
  <2>6. (TrueStep(dp[key].op, dp[key].prev, key) \/ WrongStep(key, dp[key].gas))'
    BY <2>1, <2>3, <2>4 DEF WrongStep, TrueStep
  <2>7. dp'[dp'[key].prev].gas = x.gas /\ dp'[key].prev \in DOMAIN dp'
    BY <1>3, <2>4
  <2>8. dp'[key].gas = dp'[dp'[key].prev].gas + GasCost(dp'[key].op)
    BY <2>3, <2>4, <2>7
  <2>9. \A y \in q' : dp'[dp'[key].prev].gas <= y.gas
    BY <1>2, <2>7
  <2> QED BY <2>4, <2>6, <2>7, <2>8, <2>9 DEF EntryOK
<1>5. CASE ~Replaced(taken, key)
  <2>1. key \in DOMAIN dp /\ dp'[key] = dp[key]
    BY <1>5 DEF Expansion
  <2>2. EntryOK(key)
    BY <2>1 DEF SearchInv, TableOK
  <2>3. CASE dp[key].op = NoOp
    BY <2>1, <2>2, <2>3 DEF EntryOK
  <2>4. CASE dp[key].op # NoOp
    <3> DEFINE p == dp[key].prev
    <3>1. /\ p \in DOMAIN dp /\ dp[key].gas = dp[p].gas + GasCost(dp[key].op) /\ dp[p].gas <= x.gas
          /\ TrueStep(dp[key].op, p, key) \/ WrongStep(key, dp[key].gas)
      BY <1>1, <2>2, <2>4 DEF EntryOK
    <3>2. dp[p].gas \in Nat
      BY <3>1 DEF SearchInv, TableOK, EntryOK
    <3>3. dp[p].gas <= x.gas + 18
      BY <1>1, <3>1, <3>2
    <3>4. p \in DOMAIN dp' /\ dp'[p] = dp[p]
      BY <3>1, <3>3, PricesGoDown
    <3>5. \A y \in q' : dp'[p].gas <= y.gas
      BY <1>1, <1>2, <3>1, <3>2, <3>4
    <3>6. (TrueStep(dp[key].op, dp[key].prev, key) \/ WrongStep(key, dp[key].gas))'
      BY <2>1, <3>1 DEF WrongStep, TrueStep
    <3>7. dp'[key].prev = p /\ dp'[key].gas \in Nat /\ dp'[key].gas = dp'[p].gas + GasCost(dp'[key].op)
      BY <2>1, <2>2, <3>1, <3>4 DEF EntryOK
    <3> QED BY <3>4, <3>5, <3>6, <3>7 DEF EntryOK
  <2> QED BY <2>3, <2>4
<1> QED BY <1>4, <1>5

(* A turn of the loop keeps CompoundOK.                                     *)
LEMMA ExpandCompound ==
    ASSUME SearchInv, Searching, NEW x, NEW taken, Expansion(x, taken), UNCHANGED <<compound, stackSize>>
    PROVE  CompoundOK'
<1> SUFFICES ASSUME compound PROVE \A y \in q' : OneStep(y)'
  BY DEF CompoundOK
<1>1. x \in q /\ MaxDepth(compound) = 2
  BY DEF Expansion, MaxDepth
<1>2. CASE AtStart
  <2>1. x = [state |-> StackState(stackSize), gas |-> 0, qty |-> 0] /\ \A y \in q : y = x
    BY <1>1, <1>2 DEF AtStart, FirstQueue
  <2> SUFFICES ASSUME NEW y \in q' PROVE OneStep(y)'
    OBVIOUS
  <2>2. PICK m \in taken : y = Continued(x, m)
    BY <2>1 DEF Expansion
  <2>3. m.op \in AllEdges /\ m.to \in apply(m.op, x.state) /\ m.gas = x.gas + GasCost(m.op)
    BY <1>1, ImprovingFacts DEF Expansion
  <2>4. y.state = m.to /\ y.gas = m.gas /\ y.qty = x.qty + 1
    BY <2>2 DEF Continued
  <2>5. GasCost(m.op) \in Nat
    BY GasValues
  <2>6. y.gas = GasCost(m.op) /\ y.qty = 1
    BY <2>1, <2>3, <2>4, <2>5
  <2>7. y.state \in apply(m.op, StackState(stackSize'))
    BY <2>1, <2>3, <2>4
  <2> QED BY <2>3, <2>6, <2>7 DEF OneStep
<1>3. CASE ~AtStart
  <2>1. \A y \in q : OneStep(y)
    BY <1>3 DEF SearchInv, CompoundOK
  <2>2. x.qty = 1
    BY <1>1, <2>1 DEF OneStep
  <2>3. \A y \in q' : y \in q
    <3>1. ~(x.qty + 1 < 2)
      BY <2>2
    <3>2. ~(x.qty + 1 < MaxDepth(compound))
      BY <1>1, <3>1, Zenon
    <3> QED BY <3>2 DEF Expansion
  <2> QED BY <2>1, <2>3 DEF OneStep
<1> QED BY <1>2, <1>3

(* What an instruction reaches from the front is in the table afterwards.   *)
LEMMA ReachedAtMost ==
    ASSUME SearchInv, Searching, NEW x, NEW taken, Expansion(x, taken),
           NEW n \in Edges(compound), NEW t \in apply(n, x.state)
    PROVE  Key(t) \in DOMAIN dp' /\ dp'[Key(t)].gas <= x.gas + GasCost(n)
<1>1. x \in q /\ x.gas \in Nat /\ GasCost(n) \in Nat
  BY GasValues DEF Expansion, SearchInv, QueueOK
<1>2. CASE Key(t) \in DOMAIN dp => dp[Key(t)].gas > x.gas + GasCost(n)
  <2>1. PICK m \in Improving(x) : m.key = Key(t) /\ m.gas = x.gas + GasCost(n)
    BY <1>2, ImprovingHas
  <2>2. PICK c \in taken : c.key = m.key /\ c.gas <= m.gas
    BY DEF Expansion
  <2>3. dp'[c.key] = Entry(x, c) /\ c.key \in DOMAIN dp'
    BY DEF Expansion, Replaced
  <2> QED BY <2>1, <2>2, <2>3 DEF Entry
<1>3. CASE Key(t) \in DOMAIN dp /\ ~(dp[Key(t)].gas > x.gas + GasCost(n))
  <2>1. Key(t) \in DOMAIN dp' /\ dp[Key(t)].gas \in Nat /\ dp'[Key(t)].gas \in Nat /\ dp'[Key(t)].gas <= dp[Key(t)].gas
    BY <1>3, PricesGoDown
  <2> QED BY <1>1, <1>3, <2>1
<1> QED BY <1>2, <1>3

(* The instructions on the way to <<1>>.                                    *)
LEMMA WayEdges ==
    ASSUME NEW k \in 2 .. MAX_STACK_DEPTH
    PROVE  DROP(1) \in AllEdges /\ (k >= 3 => POP(1) \in AllEdges /\ BLKDROP2(k - 2, 1) \in AllEdges)
<1>1. 1 \in 1 .. MAX_STACK_DEPTH /\ k \in Nat /\ k >= 2 /\ k <= MAX_STACK_DEPTH
  BY Depth
<1>2. DROP(1) \in SimpleEdges
  BY <1>1 DEF SimpleEdges
<1>3. ASSUME k >= 3 PROVE POP(1) \in SimpleEdges /\ BLKDROP2(k - 2, 1) \in SimpleEdges
  <2>1. 1 \in 1 .. MAX_STACK_DEPTH - 1
    BY <1>1, <1>3, Depth
  <2>2. POP(1) \in SimpleEdges
    BY <2>1 DEF SimpleEdges
  <2> DEFINE p == <<k - 2, 1>>
             S == {r \in (1 .. MAX_STACK_DEPTH) \X (1 .. MAX_STACK_DEPTH) : r[1] + r[2] <= MAX_STACK_DEPTH}
  <2>3. k - 2 \in 1 .. MAX_STACK_DEPTH /\ (k - 2) + 1 <= MAX_STACK_DEPTH
    BY <1>1, <1>3, Depth
  <2>4. p \in S /\ p[1] = k - 2 /\ p[2] = 1
    BY <1>1, <2>3
  <2> HIDE DEF p
  <2>5. BLKDROP2(p[1], p[2]) \in {BLKDROP2(r[1], r[2]) : r \in S}
    BY <2>4
  <2>6. BLKDROP2(p[1], p[2]) \in SimpleEdges
    BY <2>5 DEF SimpleEdges
  <2> QED BY <2>2, <2>4, <2>6
<1> QED BY <1>2, <1>3 DEF AllEdges

(* DROP(1) on the start, which is <<0, 1, 2, ...>>.                         *)
LEMMA FirstDrop ==
    ASSUME NEW k \in 2 .. MAX_STACK_DEPTH
    PROVE  \E t \in apply(DROP(1), StackState(k)) :
              /\ t \in State /\ t.size = k - 1 /\ Key(t) = From(Key(StackState(k)), 1)
              /\ t.values[0] = 1
<1> DEFINE s == StackState(k)
           n == DROP(1)
           t == With(s, Lowered(s.values, n.i, n.i, s.size), -n.i)
<1>1. k \in Nat /\ k >= 2 /\ k \in 0 .. MAX_STACK_DEPTH /\ 0 \in Cells /\ 1 \in Cells
  BY Depth DEF Cells
<1>2. n.op = "DROP" /\ n.i = 1 /\ n \in AllEdges
  BY InstrFields, WayEdges DEF DROP
<1>3. s \in State /\ s.size = k /\ s.values[1] = 1
  BY <1>1, StartFacts
<1>4. t \in apply(n, s)
  <2>1. n.i < s.size
    BY <1>1, <1>2, <1>3
  <2> HIDE DEF n, s
  <2> QED BY <1>2, <2>1 DEF apply
<1> HIDE DEF n, s
<1>5. Real(n, s, t)
  <2> HIDE DEF t
  <2> QED BY <1>2, <1>3, <1>4, EdgeNumbers, ApplyIsReal
<1>6. t \in State /\ Key(t) = From(Key(s), 1)
  BY <1>2, <1>5 DEF Real, ExecStack
<1>7. t.size = k - 1 /\ t.values = Lowered(s.values, 1, 1, k)
  BY <1>1, <1>2, <1>3 DEF With
<1>8. Lowered(s.values, 1, 1, k)[0] = s.values[1]
  BY <1>1 DEF Lowered
<1> HIDE DEF t
<1> QED BY <1>3, <1>4, <1>6, <1>7, <1>8 DEF n, s

(* The instruction that leads from there to <<1>>.                          *)
LEMMA SecondStep ==
    ASSUME NEW k \in 3 .. MAX_STACK_DEPTH, NEW s \in State, Key(s) = From(Key(StackState(k)), 1)
    PROVE  \E n \in AllEdges : \E t \in apply(n, s) : Key(t) = <<1>> /\ 18 + GasCost(n) = RescueCost(k)
<1>1. k \in Nat /\ k >= 3 /\ k \in 2 .. MAX_STACK_DEPTH /\ 0 \in Cells /\ 1 \in Cells /\ k <= MAX_STACK_DEPTH
  BY Depth DEF Cells
<1>2. PICK d \in apply(DROP(1), StackState(k)) :
              d \in State /\ d.size = k - 1 /\ Key(d) = From(Key(StackState(k)), 1) /\ d.values[0] = 1
  BY <1>1, FirstDrop
<1>3. Key(s) = Key(d)
  BY <1>2
<1>4. s.size = k - 1 /\ s.values[0] = 1 /\ s.values \in [Cells -> Nat]
  <2>1. Agrees(Key(s), s.values, s.size) /\ Agrees(Key(s), d.values, d.size)
    BY <1>2, <1>3, KeyFacts
  <2>2. s.size = k - 1
    BY <1>2, <2>1 DEF Agrees
  <2>3. 1 \in 1 .. s.size /\ 1 \in 1 .. d.size /\ 1 - 1 = 0
    BY <1>1, <1>2, <2>2
  <2>4. Key(s)[1] = s.values[0] /\ Key(s)[1] = d.values[0]
    BY <2>1, <2>3 DEF Agrees
  <2> QED BY <1>2, <2>2, <2>4 DEF State
<1>5. CASE k = 3
  <2> DEFINE n == POP(1)
             u == [s.values EXCEPT ![n.i] = s.values[0]]
             t == With(s, Lowered(u, 1, 1, s.size), -1)
  <2>1. n.op = "POP_S" /\ n.i = 1 /\ n \in AllEdges
    BY <1>1, InstrFields, WayEdges DEF POP
  <2>2. t \in apply(n, s)
    <3>1. n.i < s.size
      BY <1>1, <1>4, <1>5, <2>1
    <3> HIDE DEF n
    <3> QED BY <2>1, <3>1 DEF apply
  <2> HIDE DEF n
  <2>3. u[1] = 1
    BY <1>1, <1>4, <2>1
  <2>4. t \in State
    <3> HIDE DEF t
    <3>1. Real(n, s, t)
      BY <2>1, <2>2, EdgeNumbers, ApplyIsReal
    <3> QED BY <3>1 DEF Real
  <2> HIDE DEF u
  <2>5. t.size = 1 /\ t.values = Lowered(u, 1, 1, 2)
    BY <1>4, <1>5 DEF With
  <2>6. Lowered(u, 1, 1, 2)[0] = u[1]
    BY <1>1 DEF Lowered
  <2> HIDE DEF t
  <2>7. Key(t) = <<1>>
    BY <2>3, <2>4, <2>5, <2>6, OneKey
  <2>8. 18 + GasCost(n) = RescueCost(k)
    BY <1>5, <2>1 DEF GasCost, RescueCost
  <2> QED BY <2>1, <2>2, <2>7, <2>8
<1>6. CASE k # 3
  <2> DEFINE n == BLKDROP2(k - 2, 1)
             t == With(s, Lowered(s.values, n.i + n.j, n.i, s.size), -n.i)
  <2>1. n.op = "BLKDROP2" /\ n.i = k - 2 /\ n.j = 1 /\ n \in AllEdges
    BY <1>1, InstrFields, WayEdges DEF BLKDROP2
  <2> HIDE DEF n
  <2>2. t \in apply(n, s)
    <3>1. n.i + n.j <= s.size
      BY <1>1, <1>4, <2>1
    <3> QED BY <2>1, <3>1 DEF apply
  <2>3. t \in State
    <3> HIDE DEF t
    <3>1. Real(n, s, t)
      BY <2>1, <2>2, EdgeNumbers, ApplyIsReal
    <3> QED BY <3>1 DEF Real
  <2>4. t.size = 1 /\ t.values = Lowered(s.values, n.i + n.j, n.i, s.size)
    BY <1>1, <1>4, <2>1 DEF With
  <2>5. Lowered(s.values, n.i + n.j, n.i, s.size)[0] = s.values[0]
    BY <1>1, <1>4, <2>1 DEF Lowered
  <2> HIDE DEF t
  <2>6. Key(t) = <<1>>
    BY <1>4, <2>3, <2>4, <2>5, OneKey
  <2>7. 18 + GasCost(n) = RescueCost(k)
    BY <1>1, <1>6, <2>1 DEF GasCost, RescueCost
  <2> QED BY <2>1, <2>2, <2>6, <2>7
<1> QED BY <1>5, <1>6

(* A turn of the loop keeps RescueOK.                                       *)
LEMMA ExpandRescue ==
    ASSUME SearchInv, Searching, NEW x, NEW taken, Expansion(x, taken), UNCHANGED <<compound, stackSize>>
    PROVE  RescueOK'
<1> SUFFICES ASSUME compound, stackSize >= 2
             PROVE  ((stackSize >= 3 /\ \E y \in q : Waiting(y)) \/ Rescued)'
  BY DEF RescueOK
<1>1. /\ x \in q /\ x.state \in State /\ x.gas \in Nat /\ Key(x.state) \in DOMAIN dp /\ dp[Key(x.state)].gas = x.gas
      /\ MaxDepth(compound) = 2 /\ AllEdges = Edges(compound)
  BY DEF Expansion, SearchInv, QueueOK, MaxDepth, Edges
<1>2. stackSize \in 2 .. MAX_STACK_DEPTH /\ stackSize \in 0 .. MAX_STACK_DEPTH /\ stackSize \in Nat
  BY Depth DEF SearchInv, Searching
<1>3. CASE AtStart
  <2>1. x = [state |-> StackState(stackSize), gas |-> 0, qty |-> 0] /\ DOMAIN dp = {Key(StackState(stackSize))}
    BY <1>1, <1>3 DEF AtStart, FirstQueue, FirstTable
  <2>2. x.state = StackState(stackSize) /\ x.gas = 0 /\ x.qty = 0
    BY <2>1
  <2>3. PICK d \in apply(DROP(1), StackState(stackSize)) :
              /\ d \in State /\ d.size = stackSize - 1 /\ Key(d) = From(Key(StackState(stackSize)), 1)
              /\ d.values[0] = 1
    BY <1>2, FirstDrop
  <2>4. DROP(1) \in Edges(compound) /\ GasCost(DROP(1)) = 18
    <3>1. DROP(1) \in Edges(compound)
      BY <1>1, <1>2, WayEdges
    <3> DEFINE n == DROP(1)
    <3>2. n.op = "DROP" /\ n.i = 1
      BY InstrFields DEF DROP
    <3> HIDE DEF n
    <3>3. GasCost(n) = 18
      BY <3>2 DEF GasCost
    <3> QED BY <3>1, <3>3 DEF n
  <2>5. CASE stackSize = 2
    <3>1. Key(d) = <<1>>
      BY <2>3, <2>5, OneKey
    <3>2. Key(d) \in DOMAIN dp' /\ dp'[Key(d)].gas <= x.gas + GasCost(DROP(1))
      BY <2>2, <2>3, <2>4, ReachedAtMost
    <3> QED BY <2>2, <2>4, <2>5, <3>1, <3>2 DEF Rescued, RescueCost
  <2>6. CASE stackSize # 2
    <3>1. Key(d) \notin DOMAIN dp
      <4>1. Len(Key(d)) = stackSize - 1
        BY <2>3, KeyFacts DEF Agrees
      <4>2. Len(Key(StackState(stackSize))) = stackSize
        BY <1>2, StartFacts, KeyFacts DEF Agrees
      <4> QED BY <1>2, <2>1, <4>1, <4>2
    <3>2. PICK m \in Improving(x) : m.key = Key(d) /\ m.gas = x.gas + GasCost(DROP(1))
      <4> DEFINE n == DROP(1)
      <4>1. n \in Edges(compound) /\ d \in apply(n, x.state)
        BY <2>2, <2>3, <2>4
      <4> HIDE DEF n
      <4>2. \E m \in Improving(x) : m.key = Key(d) /\ m.gas = x.gas + GasCost(n)
        BY <3>1, <4>1, ImprovingHas
      <4> QED BY <4>2 DEF n
    <3>3. PICK c \in taken : c.key = m.key /\ c.gas <= m.gas
      BY DEF Expansion
    <3>4. c.gas \in {x.gas + 18, x.gas + 26, x.gas + 34} /\ c.key = Key(c.to)
      BY <1>1, ImprovingFacts DEF Expansion
    <3>5. c.gas = 18
      BY <2>2, <2>4, <3>2, <3>3, <3>4
    <3>6. Continued(x, c) \in q'
      <4>1. x.qty + 1 < 2
        BY <2>2
      <4>2. x.qty + 1 < MaxDepth(compound)
        BY <1>1, <4>1, Zenon
      <4> QED BY <4>2 DEF Expansion
    <3>7. Continued(x, c).gas = 18 /\ Key(Continued(x, c).state) = From(Key(StackState(stackSize)), 1)
      BY <2>3, <3>2, <3>3, <3>4, <3>5 DEF Continued
    <3>8. stackSize' = stackSize /\ stackSize >= 3
      BY <1>2, <2>6
    <3> HIDE DEF Continued
    <3> QED BY <3>6, <3>7, <3>8 DEF Waiting
  <2> QED BY <2>5, <2>6
<1>4. CASE Rescued
  <2>1. <<1>> \in DOMAIN dp /\ dp[<<1>>].gas <= RescueCost(stackSize)
    BY <1>4 DEF Rescued
  <2>2. /\ <<1>> \in DOMAIN dp' /\ dp[<<1>>].gas \in Nat /\ dp'[<<1>>].gas \in Nat
        /\ dp'[<<1>>].gas <= dp[<<1>>].gas
    <3> DEFINE key == <<1>>
    <3>1. key \in DOMAIN dp
      BY <2>1
    <3> HIDE DEF key
    <3>2. key \in DOMAIN dp' /\ dp[key].gas \in Nat /\ dp'[key].gas \in Nat /\ dp'[key].gas <= dp[key].gas
      BY <3>1, PricesGoDown
    <3> QED BY <3>2 DEF key
  <2>3. RescueCost(stackSize) \in Nat
    BY DEF RescueCost
  <2>4. dp'[<<1>>].gas <= RescueCost(stackSize)
    BY <2>1, <2>2, <2>3
  <2> QED BY <2>2, <2>4 DEF Rescued
<1>5. CASE stackSize >= 3 /\ \E y \in q : Waiting(y)
  <2>1. PICK y \in q : y.gas = 18 /\ Key(y.state) = From(Key(StackState(stackSize)), 1)
    BY <1>5 DEF Waiting
  <2>2. Key(y.state) \in DOMAIN dp /\ dp[Key(y.state)].gas = 18 /\ y.state \in State
    BY <2>1 DEF SearchInv, QueueOK
  <2>3. CASE y # x
    <3>1. dp[Key(y.state)].gas <= x.gas + 18
      BY <1>1, <2>2
    <3>2. ~Replaced(taken, Key(y.state))
      BY <2>2, <3>1, PricesGoDown
    <3>3. y \in q'
      BY <2>3, <3>2 DEF Expansion
    <3> QED BY <1>5, <2>1, <3>3 DEF Waiting
  <2>4. CASE y = x
    <3>1. stackSize \in 3 .. MAX_STACK_DEPTH
      BY <1>2, <1>5
    <3>2. PICK n \in AllEdges : \E t \in apply(n, x.state) : Key(t) = <<1>> /\ 18 + GasCost(n) = RescueCost(stackSize)
      BY <2>1, <2>2, <2>4, <3>1, SecondStep
    <3>3. PICK t \in apply(n, x.state) : Key(t) = <<1>> /\ 18 + GasCost(n) = RescueCost(stackSize)
      BY <3>2
    <3>4. Key(t) \in DOMAIN dp' /\ dp'[Key(t)].gas <= x.gas + GasCost(n)
      BY <1>1, ReachedAtMost
    <3> QED BY <2>1, <2>4, <3>3, <3>4 DEF Rescued
  <2> QED BY <2>3, <2>4
<1> QED BY <1>3, <1>4, <1>5 DEF SearchInv, RescueOK

(* A finished table is real: <<1>> has been rescued.                        *)
LEMMA FinishedIsReal ==
    ASSUME SearchInv, Searching, q = {}, NEW key \in DOMAIN dp, dp[key].op # NoOp
    PROVE  /\ dp[key].prev \in DOMAIN dp /\ Reach(dp[key].op) <= Len(dp[key].prev)
           /\ ExecStack(dp[key].op, dp[key].prev) = key
           /\ dp[key].gas = dp[dp[key].prev].gas + GasCost(dp[key].op)
<1>1. /\ dp[key].prev \in DOMAIN dp /\ dp[key].gas \in Nat
      /\ dp[key].gas = dp[dp[key].prev].gas + GasCost(dp[key].op)
      /\ TrueStep(dp[key].op, dp[key].prev, key) \/ WrongStep(key, dp[key].gas)
  BY DEF SearchInv, TableOK, EntryOK
<1>2. ~WrongStep(key, dp[key].gas)
  <2>1. SUFFICES ASSUME WrongStep(key, dp[key].gas) PROVE FALSE
    OBVIOUS
  <2>2. compound /\ stackSize >= 2 /\ key = <<1>> /\ dp[key].gas > RescueCost(stackSize)
    BY <2>1 DEF WrongStep
  <2>3. ~AtStart
    BY DEF AtStart, FirstQueue
  <2>4. Rescued
    BY <2>2, <2>3 DEF SearchInv, RescueOK
  <2>5. RescueCost(stackSize) \in Nat
    BY DEF RescueCost
  <2> QED BY <1>1, <2>2, <2>4, <2>5 DEF Rescued
<1> QED BY <1>1, <1>2 DEF TrueStep

(* A new table keeps the invariant, and the finished one is real.           *)
LEMMA NextTableStep ==
    ASSUME SearchInv, NextTable
    PROVE  SearchInv'
<1>1. Searching /\ q = {} /\ m_dp' = Stored /\ stackSize \in Nat /\ compound \in BOOLEAN
  BY DEF NextTable, SearchInv
<1> DEFINE again == stackSize = MAX_STACK_DEPTH /\ ~compound
           size == IF again THEN 0 ELSE stackSize + 1
<1>2. /\ stackSize' = size /\ compound' = (compound \/ again)
      /\ size <= MAX_STACK_DEPTH => dp' = FirstTable(size) /\ q' = FirstQueue(size)
  BY DEF NextTable
<1>3. size \in Nat /\ (compound \/ again) \in BOOLEAN
  BY <1>1
<1>4. TablesAreReal'
  <2> SUFFICES ASSUME NEW t \in DOMAIN m_dp', NEW key \in DOMAIN m_dp'[t], m_dp'[t][key].op # NoOp
               PROVE  /\ m_dp'[t][key].prev \in DOMAIN m_dp'[t]
                      /\ Reach(m_dp'[t][key].op) <= Len(m_dp'[t][key].prev)
                      /\ ExecStack(m_dp'[t][key].op, m_dp'[t][key].prev) = key
                      /\ m_dp'[t][key].gas = m_dp'[t][m_dp'[t][key].prev].gas + GasCost(m_dp'[t][key].op)
    BY DEF TablesAreReal
  <2>1. m_dp'[t] = dp \/ (t \in DOMAIN m_dp /\ m_dp'[t] = m_dp[t])
    BY <1>1 DEF Stored
  <2>2. CASE m_dp'[t] = dp
    BY <1>1, <2>2, FinishedIsReal
  <2>3. CASE t \in DOMAIN m_dp /\ m_dp'[t] = m_dp[t]
    BY <2>3 DEF SearchInv, TablesAreReal
  <2> QED BY <2>1, <2>2, <2>3
<1> HIDE DEF size
<1>5. ASSUME Searching' PROVE (QueueOK /\ TableOK /\ CompoundOK /\ RescueOK)'
  <2>1. size \in 0 .. MAX_STACK_DEPTH /\ dp' = FirstTable(size) /\ q' = FirstQueue(size) /\ stackSize' = size
    BY <1>2, <1>3, <1>5, Depth DEF Searching
  <2> DEFINE s == StackState(size)
  <2>2. s \in State
    BY <2>1, StartFacts
  <2> HIDE DEF s
  <2>3. /\ dp' = [key \in {Key(s)} |-> [gas |-> 0, prev |-> key, op |-> NoOp]]
        /\ q' = {[state |-> s, gas |-> 0, qty |-> 0]}
    BY <2>1 DEF FirstTable, FirstQueue, s
  <2>4. QueueOK'
    BY <2>2, <2>3 DEF QueueOK
  <2>5. TableOK'
    BY <2>3 DEF TableOK, EntryOK
  <2>6. AtStart'
    BY <2>1 DEF AtStart
  <2> QED BY <2>4, <2>5, <2>6 DEF CompoundOK, RescueOK
<1>6. compound' \in BOOLEAN /\ stackSize' \in Nat
  BY <1>2, <1>3
<1> QED BY <1>4, <1>5, <1>6 DEF SearchInv

(* A turn of the loop keeps the invariant.                                  *)
LEMMA ExpandStep ==
    ASSUME SearchInv, Expand
    PROVE  SearchInv'
<1>1. Searching /\ UNCHANGED <<compound, stackSize, m_dp>>
  BY DEF Expand
<1>2. PICK x \in q : \E taken : Expansion(x, taken)
  BY ExpandIs
<1>3. PICK taken : Expansion(x, taken)
  BY <1>2
<1>4. QueueOK' /\ TableOK' /\ CompoundOK' /\ RescueOK'
  BY <1>1, <1>3, ExpandQueue, ExpandTable, ExpandCompound, ExpandRescue
<1>5. TablesAreReal'
  BY <1>1 DEF SearchInv, TablesAreReal
<1> QED BY <1>1, <1>4, <1>5 DEF SearchInv

(* The first table, when it is still empty.                                 *)
LEMMA SearchInit == Init => SearchInv
<1> SUFFICES ASSUME Init PROVE SearchInv
  OBVIOUS
<1>1. compound = FALSE /\ stackSize = 0 /\ dp = FirstTable(0) /\ q = FirstQueue(0) /\ m_dp = <<>>
  BY DEF Init
<1> DEFINE s == StackState(0)
<1>2. s \in State
  BY StartFacts, Depth
<1> HIDE DEF s
<1>3. /\ dp = [key \in {Key(s)} |-> [gas |-> 0, prev |-> key, op |-> NoOp]]
      /\ q = {[state |-> s, gas |-> 0, qty |-> 0]}
  BY <1>1 DEF FirstTable, FirstQueue, s
<1>4. QueueOK
  BY <1>2, <1>3 DEF QueueOK
<1>5. TableOK
  BY <1>3 DEF TableOK, EntryOK
<1>6. CompoundOK /\ RescueOK
  BY <1>1 DEF CompoundOK, RescueOK
<1>7. TablesAreReal
  <2>1. DOMAIN m_dp = {}
    BY <1>1
  <2> QED BY <2>1 DEF TablesAreReal
<1> QED BY <1>1, <1>4, <1>5, <1>6, <1>7 DEF SearchInv

(* Steps outside the search do not touch its variables.                     *)
LEMMA SearchKept ==
    ASSUME SearchInv, UNCHANGED <<compound, stackSize, dp, q, m_dp>>
    PROVE  SearchInv'
<1>1. QueueOK' = QueueOK /\ TableOK' = TableOK /\ CompoundOK' = CompoundOK /\ RescueOK' = RescueOK
      /\ TablesAreReal' = TablesAreReal /\ Searching' = Searching
  BY DEF QueueOK, TableOK, EntryOK, WrongStep, CompoundOK, AtStart, OneStep, RescueOK, Waiting, Rescued,
         TablesAreReal, Searching
<1> QED BY <1>1 DEF SearchInv

(* Every step keeps the invariant.                                          *)
LEMMA SearchNext == SearchInv /\ [Next]_vars => SearchInv'
<1> SUFFICES ASSUME SearchInv, [Next]_vars PROVE SearchInv'
  OBVIOUS
<1>1. CASE Expand
  BY <1>1, ExpandStep
<1>2. CASE NextTable
  BY <1>2, NextTableStep
<1>3. ASSUME NEW code \in Codes, NEW withCompound \in BOOLEAN, Squash(code, withCompound) PROVE SearchInv'
  BY <1>3, SearchKept DEF Squash
<1>4. CASE UNCHANGED vars
  BY <1>4, SearchKept DEF vars
<1> QED BY <1>1, <1>2, <1>3, <1>4 DEF Next

(* Every entry of a finished table of StackOpcodeSquasher::init is what the *)
(* TVM makes of the entry before it, at the sum of the prices: for every    *)
(* depth of the stacks and every number of instructions, not only for the   *)
(* depth that the run can search.                                           *)
THEOREM FinishedTablesAreReal == Spec => []TablesAreReal
<1>1. SearchInv => TablesAreReal
  BY DEF SearchInv
<1> QED BY <1>1, SearchInit, SearchNext, PTL DEF Spec

-----------------------------------------------------------------------------
(***************************************************************************)
(* The tables are made for small stacks: an instruction that finds its     *)
(* operands in the upper cells leaves everything under them as it is       *)
(* (ExecFramed).  So the code that is replaced leads from a deep stack to  *)
(* the one the table was asked for, and the rest (AfterLeads).  In a table *)
(* every entry has a way back to the start that is no longer than the      *)
(* search was deep (ChainOK, PathInv), so recover finds all of it, and the *)
(* instructions it returns lead there too (RecoverLeads).                  *)
(***************************************************************************)

(***************************************************************************)
(* Instructions do not touch what lies deeper than they reach.             *)
(***************************************************************************)
Framed(deep, s, R, len) == s \in Seq(Nat) /\ Len(s) = len /\ deep = s \o R

(* The cells of a deep stack.                                               *)
LEMMA DeepFacts ==
    ASSUME NEW s \in Seq(Nat), NEW R \in Seq(Nat)
    PROVE  /\ s \o R \in Seq(Nat) /\ Len(s \o R) = Len(s) + Len(R)
           /\ Len(s) \in Nat /\ Len(R) \in Nat
           /\ \A p \in 1 .. Len(s) : (s \o R)[p] = s[p] /\ s[p] \in Nat
           /\ \A p \in Len(s) + 1 .. Len(s) + Len(R) : (s \o R)[p] = R[p - Len(s)]
BY ConcatProperties

(* Two deep stacks are the same if their cells are.                         *)
LEMMA SameDeep ==
    ASSUME NEW d \in Seq(Nat), NEW s \in Seq(Nat), NEW R \in Seq(Nat), Len(d) = Len(s) + Len(R),
           \A p \in 1 .. Len(s) : d[p] = s[p],
           \A p \in Len(s) + 1 .. Len(s) + Len(R) : d[p] = R[p - Len(s)]
    PROVE  d = s \o R
<1>1. /\ s \o R \in Seq(Nat) /\ Len(s \o R) = Len(s) + Len(R) /\ Len(s) \in Nat /\ Len(R) \in Nat
      /\ \A p \in 1 .. Len(s) + Len(R) : (s \o R)[p] = IF p <= Len(s) THEN s[p] ELSE R[p - Len(s)]
  BY ConcatProperties
<1> DEFINE e == s \o R
<1> HIDE DEF e
<1>2. ASSUME NEW p \in 1 .. Len(d) PROVE d[p] = e[p]
  <2>1. CASE p <= Len(s)
    BY <1>1, <2>1 DEF e
  <2>2. CASE ~(p <= Len(s))
    BY <1>1, <2>2 DEF e
  <2> QED BY <2>1, <2>2
<1>3. d = e
  BY <1>1, <1>2, SeqEqual DEF e
<1> QED BY <1>3 DEF e

(* Three parts in either order.                                             *)
LEMMA Associative ==
    ASSUME NEW a \in Seq(Nat), NEW b \in Seq(Nat), NEW c \in Seq(Nat)
    PROVE  (a \o b) \o c = a \o (b \o c)
BY ConcatAssociative

LEMMA PushFramed ==
    ASSUME NEW s \in Seq(Nat), NEW R \in Seq(Nat), NEW i \in 0 .. Len(s) - 1
    PROVE  Framed(DoPush(s \o R, i), DoPush(s, i), R, Len(s) + 1)
<1>1. i + 1 \in 1 .. Len(s)
  OBVIOUS
<1>2. (s \o R)[i + 1] = s[i + 1] /\ s[i + 1] \in Nat
  BY <1>1, DeepFacts
<1> DEFINE h == <<s[i + 1]>>
<1>3. h \in Seq(Nat) /\ Len(h) = 1
  BY <1>2
<1> HIDE DEF h
<1>4. h \o s \in Seq(Nat) /\ Len(h \o s) = Len(s) + 1
  <2>1. h \o s \in Seq(Nat) /\ Len(h \o s) = Len(h) + Len(s)
    BY <1>3, DeepFacts
  <2> QED BY <1>3, <2>1, DeepFacts
<1>5. (h \o s) \o R = h \o (s \o R)
  BY <1>3, Associative
<1> QED BY <1>2, <1>4, <1>5 DEF Framed, DoPush, h

(* The cells after an exchange.                                             *)
LEMMA XchgCells ==
    ASSUME NEW s \in Seq(Nat), NEW i \in 0 .. Len(s) - 1, NEW j \in 0 .. Len(s) - 1
    PROVE  /\ DoXchg(s, i, j) \in Seq(Nat) /\ Len(DoXchg(s, i, j)) = Len(s)
           /\ \A p \in 1 .. Len(s) :
                 DoXchg(s, i, j)[p] = IF p = j + 1 THEN s[i + 1] ELSE IF p = i + 1 THEN s[j + 1] ELSE s[p]
<1>1. Len(s) \in Nat /\ i + 1 \in 1 .. Len(s) /\ j + 1 \in 1 .. Len(s)
  OBVIOUS
<1>2. s[i + 1] \in Nat /\ s[j + 1] \in Nat
  BY <1>1
<1> DEFINE e == [s EXCEPT ![i + 1] = s[j + 1]]
<1>3. e \in Seq(Nat) /\ Len(e) = Len(s) /\ \A p \in 1 .. Len(s) : e[p] = IF p = i + 1 THEN s[j + 1] ELSE s[p]
  BY <1>1, <1>2, ExceptSeq
<1> HIDE DEF e
<1>4. DoXchg(s, i, j) = [e EXCEPT ![j + 1] = s[i + 1]]
  BY DEF DoXchg, e
<1>5. [e EXCEPT ![j + 1] = s[i + 1]] \in Seq(Nat) /\ Len([e EXCEPT ![j + 1] = s[i + 1]]) = Len(s)
      /\ \A p \in 1 .. Len(s) : [e EXCEPT ![j + 1] = s[i + 1]][p] = IF p = j + 1 THEN s[i + 1] ELSE e[p]
  BY <1>1, <1>2, <1>3, ExceptSeq
<1> QED BY <1>3, <1>4, <1>5

LEMMA XchgFramed ==
    ASSUME NEW s \in Seq(Nat), NEW R \in Seq(Nat), NEW i \in 0 .. Len(s) - 1, NEW j \in 0 .. Len(s) - 1
    PROVE  Framed(DoXchg(s \o R, i, j), DoXchg(s, i, j), R, Len(s))
<1> DEFINE d == s \o R
           a == DoXchg(d, i, j)
           b == DoXchg(s, i, j)
<1>1. /\ d \in Seq(Nat) /\ Len(d) = Len(s) + Len(R) /\ Len(s) \in Nat /\ Len(R) \in Nat
      /\ \A p \in 1 .. Len(s) : d[p] = s[p] /\ s[p] \in Nat
      /\ \A p \in Len(s) + 1 .. Len(s) + Len(R) : d[p] = R[p - Len(s)]
  BY DeepFacts
<1>2. /\ b \in Seq(Nat) /\ Len(b) = Len(s)
      /\ \A p \in 1 .. Len(s) : b[p] = IF p = j + 1 THEN s[i + 1] ELSE IF p = i + 1 THEN s[j + 1] ELSE s[p]
  BY XchgCells
<1> HIDE DEF d
<1>3. i \in 0 .. Len(d) - 1 /\ j \in 0 .. Len(d) - 1 /\ i + 1 \in 1 .. Len(s) /\ j + 1 \in 1 .. Len(s)
  BY <1>1
<1>4. /\ a \in Seq(Nat) /\ Len(a) = Len(d)
      /\ \A p \in 1 .. Len(d) : a[p] = IF p = j + 1 THEN d[i + 1] ELSE IF p = i + 1 THEN d[j + 1] ELSE d[p]
  BY <1>1, <1>3, XchgCells
<1> HIDE DEF a, b
<1>5. d[i + 1] = s[i + 1] /\ d[j + 1] = s[j + 1]
  BY <1>1, <1>3
<1>6. ASSUME NEW p \in 1 .. Len(b) PROVE a[p] = b[p]
  <2>1. p \in 1 .. Len(s) /\ p \in 1 .. Len(d) /\ d[p] = s[p]
    BY <1>1, <1>2
  <2> QED BY <1>2, <1>4, <1>5, <2>1
<1>7. ASSUME NEW p \in Len(b) + 1 .. Len(b) + Len(R) PROVE a[p] = R[p - Len(b)]
  <2>1. p \in Len(s) + 1 .. Len(s) + Len(R) /\ p \in 1 .. Len(d) /\ p # i + 1 /\ p # j + 1 /\ Len(b) = Len(s)
    BY <1>1, <1>2, <1>3
  <2> QED BY <1>1, <1>4, <2>1
<1>8. Len(a) = Len(b) + Len(R)
  BY <1>1, <1>2, <1>4
<1>9. a = b \o R
  BY <1>2, <1>4, <1>6, <1>7, <1>8, SameDeep
<1> QED BY <1>2, <1>9 DEF Framed, a, b, d

(* The upper part, the part between and the lower part.                     *)
LEMMA PartFramed ==
    ASSUME NEW s \in Seq(Nat), NEW R \in Seq(Nat), NEW m \in Nat, NEW n \in Nat, m <= n, n <= Len(s)
    PROVE  /\ SubSeq(s \o R, m + 1, n) = SubSeq(s, m + 1, n)
           /\ SubSeq(s, m + 1, n) \in Seq(Nat) /\ Len(SubSeq(s, m + 1, n)) = n - m
<1> DEFINE d == s \o R
<1>1. /\ d \in Seq(Nat) /\ Len(d) = Len(s) + Len(R) /\ Len(s) \in Nat /\ Len(R) \in Nat
      /\ \A p \in 1 .. Len(s) : d[p] = s[p]
  BY DeepFacts
<1> HIDE DEF d
<1>2. /\ SubSeq(s, m + 1, n) \in Seq(Nat) /\ Len(SubSeq(s, m + 1, n)) = n - m
      /\ \A p \in 1 .. n - m : SubSeq(s, m + 1, n)[p] = s[m + p]
  BY PartFacts
<1>3. /\ SubSeq(d, m + 1, n) \in Seq(Nat) /\ Len(SubSeq(d, m + 1, n)) = n - m
      /\ \A p \in 1 .. n - m : SubSeq(d, m + 1, n)[p] = d[m + p]
  BY <1>1, PartFacts
<1>4. \A p \in 1 .. n - m : m + p \in 1 .. Len(s)
  BY <1>1
<1>5. \A p \in 1 .. n - m : SubSeq(d, m + 1, n)[p] = SubSeq(s, m + 1, n)[p]
  BY <1>1, <1>2, <1>3, <1>4
<1> DEFINE a == SubSeq(d, m + 1, n)  b == SubSeq(s, m + 1, n)
<1> HIDE DEF a, b
<1>6. a = b
  BY <1>2, <1>3, <1>5, SeqEqual DEF a, b
<1> QED BY <1>2, <1>6 DEF a, b, d

LEMMA TopFramed ==
    ASSUME NEW s \in Seq(Nat), NEW R \in Seq(Nat), NEW n \in Nat, n <= Len(s)
    PROVE  Top(s \o R, n) = Top(s, n) /\ Top(s, n) \in Seq(Nat) /\ Len(Top(s, n)) = n
<1>1. /\ SubSeq(s \o R, 0 + 1, n) = SubSeq(s, 0 + 1, n)
      /\ SubSeq(s, 0 + 1, n) \in Seq(Nat) /\ Len(SubSeq(s, 0 + 1, n)) = n - 0
  BY PartFramed, 0 \in Nat
<1>2. 0 + 1 = 1 /\ n - 0 = n
  OBVIOUS
<1> QED BY <1>1, <1>2 DEF Top

LEMMA FromFramed ==
    ASSUME NEW s \in Seq(Nat), NEW R \in Seq(Nat), NEW n \in Nat, n <= Len(s)
    PROVE  Framed(From(s \o R, n), From(s, n), R, Len(s) - n)
<1> DEFINE d == s \o R
<1>1. /\ d \in Seq(Nat) /\ Len(d) = Len(s) + Len(R) /\ Len(s) \in Nat /\ Len(R) \in Nat
      /\ \A p \in 1 .. Len(s) : d[p] = s[p]
      /\ \A p \in Len(s) + 1 .. Len(s) + Len(R) : d[p] = R[p - Len(s)]
  BY DeepFacts
<1> HIDE DEF d
<1> DEFINE a == From(d, n)  b == From(s, n)
<1>2. b \in Seq(Nat) /\ Len(b) = Len(s) - n /\ \A p \in 1 .. Len(s) - n : b[p] = s[n + p]
  BY FromFacts
<1>3. a \in Seq(Nat) /\ Len(a) = Len(d) - n /\ \A p \in 1 .. Len(d) - n : a[p] = d[n + p]
  <2>1. n <= Len(d)
    BY <1>1
  <2> QED BY <1>1, <2>1, FromFacts
<1> HIDE DEF a, b
<1>4. ASSUME NEW p \in 1 .. Len(b) PROVE a[p] = b[p]
  <2>1. n + p \in 1 .. Len(s) /\ p \in 1 .. Len(d) - n /\ p \in 1 .. Len(s) - n
    BY <1>1, <1>2
  <2> QED BY <1>1, <1>2, <1>3, <2>1
<1>5. ASSUME NEW p \in Len(b) + 1 .. Len(b) + Len(R) PROVE a[p] = R[p - Len(b)]
  <2>1. n + p \in Len(s) + 1 .. Len(s) + Len(R) /\ p \in 1 .. Len(d) - n /\ p - Len(b) = (n + p) - Len(s)
    BY <1>1, <1>2
  <2> QED BY <1>1, <1>3, <2>1
<1>6. Len(a) = Len(b) + Len(R)
  BY <1>1, <1>2, <1>3
<1>7. a = b \o R
  BY <1>2, <1>3, <1>4, <1>5, <1>6, SameDeep
<1> QED BY <1>2, <1>7 DEF Framed, a, b, d

(* A frame of a frame is a frame.                                           *)
LEMMA PutOn ==
    ASSUME NEW a \in Seq(Nat), NEW b, NEW s, NEW R \in Seq(Nat), NEW len, Framed(b, s, R, len)
    PROVE  Framed(a \o b, a \o s, R, Len(a) + len)
<1>1. s \in Seq(Nat) /\ Len(s) = len /\ b = s \o R
  BY DEF Framed
<1>2. (a \o s) \o R = a \o (s \o R)
  BY <1>1, Associative
<1>3. a \o s \in Seq(Nat) /\ Len(a \o s) = Len(a) + Len(s)
  BY <1>1, DeepFacts
<1> QED BY <1>1, <1>2, <1>3 DEF Framed

(* The frame under a push.                                                  *)
LEMMA FramePush ==
    ASSUME NEW d, NEW s, NEW R \in Seq(Nat), NEW len, Framed(d, s, R, len), NEW i \in 0 .. len - 1
    PROVE  Framed(DoPush(d, i), DoPush(s, i), R, len + 1)
BY PushFramed DEF Framed

(* ... under an exchange.                                                   *)
LEMMA FrameXchg ==
    ASSUME NEW d, NEW s, NEW R \in Seq(Nat), NEW len, Framed(d, s, R, len), NEW i \in 0 .. len - 1, NEW j \in 0 .. len - 1
    PROVE  Framed(DoXchg(d, i, j), DoXchg(s, i, j), R, len)
<1>1. s \in Seq(Nat) /\ Len(s) = len /\ d = s \o R
  BY DEF Framed
<1>2. i \in 0 .. Len(s) - 1 /\ j \in 0 .. Len(s) - 1
  BY <1>1
<1>3. Framed(DoXchg(s \o R, i, j), DoXchg(s, i, j), R, Len(s))
  BY <1>1, <1>2, XchgFramed
<1> QED BY <1>1, <1>3

(* ... under two pushes.                                                    *)
LEMMA FramePush2 ==
    ASSUME NEW d, NEW s, NEW R \in Seq(Nat), NEW len, Framed(d, s, R, len), NEW i \in 0 .. len - 1, NEW j \in 0 .. len - 1
    PROVE  Framed(DoPush2(d, i, j), DoPush2(s, i, j), R, len + 2)
<1>1. len \in Nat /\ j + 1 \in 0 .. (len + 1) - 1 /\ (len + 1) + 1 = len + 2
  BY DEF Framed
<1>2. Framed(DoPush(d, i), DoPush(s, i), R, len + 1)
  BY FramePush
<1>3. Framed(DoPush(DoPush(d, i), j + 1), DoPush(DoPush(s, i), j + 1), R, (len + 1) + 1)
  BY <1>1, <1>2, FramePush
<1> QED BY <1>1, <1>3 DEF DoPush2

(* ... under XCHG2.                                                         *)
LEMMA FrameXchg2 ==
    ASSUME NEW d, NEW s, NEW R \in Seq(Nat), NEW len, Framed(d, s, R, len), len >= 2,
           NEW i \in 0 .. len - 1, NEW j \in 0 .. len - 1
    PROVE  Framed(DoXchg2(d, i, j), DoXchg2(s, i, j), R, len)
<1>1. len \in Nat /\ 0 \in 0 .. len - 1 /\ 1 \in 0 .. len - 1
  BY DEF Framed
<1>2. Framed(DoXchg(d, 1, i), DoXchg(s, 1, i), R, len)
  BY <1>1, FrameXchg
<1> QED BY <1>1, <1>2, FrameXchg DEF DoXchg2

(* ... under PUXC.                                                          *)
LEMMA FramePuxc ==
    ASSUME NEW d, NEW s, NEW R \in Seq(Nat), NEW len, Framed(d, s, R, len),
           NEW i \in 0 .. len - 1, NEW j \in -1 .. len - 1
    PROVE  Framed(DoPuxc(d, i, j), DoPuxc(s, i, j), R, len + 1)
<1>1. len \in Nat /\ 0 \in 0 .. (len + 1) - 1 /\ 1 \in 0 .. (len + 1) - 1 /\ j + 1 \in 0 .. (len + 1) - 1
  BY DEF Framed
<1>2. Framed(DoPush(d, i), DoPush(s, i), R, len + 1)
  BY FramePush
<1>3. Framed(DoXchg(DoPush(d, i), 0, 1), DoXchg(DoPush(s, i), 0, 1), R, len + 1)
  BY <1>1, <1>2, FrameXchg
<1> QED BY <1>1, <1>3, FrameXchg DEF DoPuxc

(* ... under DROP.                                                          *)
LEMMA FrameDrop ==
    ASSUME NEW s \in Seq(Nat), NEW R \in Seq(Nat), NEW n \in Nat, n <= Len(s)
    PROVE  From(s \o R, n) = From(s, n) \o R /\ From(s, n) \in Seq(Nat)
BY FromFramed DEF Framed

(* ... under BLKDROP2.                                                      *)
LEMMA FrameDropUnder ==
    ASSUME NEW s \in Seq(Nat), NEW R \in Seq(Nat), NEW n \in Nat, NEW left \in Nat, n + left <= Len(s)
    PROVE  DoDropUnder(s \o R, n, left) = DoDropUnder(s, n, left) \o R /\ DoDropUnder(s, n, left) \in Seq(Nat)
<1>1. left <= Len(s) /\ left + n <= Len(s) /\ left + n \in Nat
  OBVIOUS
<1>2. Top(s \o R, left) = Top(s, left) /\ Top(s, left) \in Seq(Nat)
  BY <1>1, TopFramed
<1>3. Framed(From(s \o R, left + n), From(s, left + n), R, Len(s) - (left + n))
  BY <1>1, FromFramed
<1>4. Framed(Top(s, left) \o From(s \o R, left + n), Top(s, left) \o From(s, left + n), R,
             Len(Top(s, left)) + (Len(s) - (left + n)))
  BY <1>2, <1>3, PutOn
<1> QED BY <1>2, <1>4 DEF DoDropUnder, Framed

(* ... under BLKSWAP.                                                       *)
LEMMA FrameBlkSwap ==
    ASSUME NEW s \in Seq(Nat), NEW R \in Seq(Nat), NEW down \in Nat, NEW up \in Nat, down + up <= Len(s)
    PROVE  DoBlkSwap(s \o R, down, up) = DoBlkSwap(s, down, up) \o R /\ DoBlkSwap(s, down, up) \in Seq(Nat)
<1>1. up <= Len(s) /\ up + down <= Len(s) /\ up + down \in Nat /\ up <= up + down
  OBVIOUS
<1> DEFINE a == SubSeq(s, up + 1, up + down)  b == Top(s, up)  f == From(s, up + down)  g == From(s \o R, up + down)
<1>2. Top(s \o R, up) = b /\ b \in Seq(Nat)
  BY <1>1, TopFramed
<1>3. SubSeq(s \o R, up + 1, up + down) = a /\ a \in Seq(Nat)
  BY <1>1, PartFramed
<1>4. Framed(g, f, R, Len(s) - (up + down))
  BY <1>1, FromFramed
<1>5. DoBlkSwap(s \o R, down, up) = (a \o b) \o g /\ DoBlkSwap(s, down, up) = (a \o b) \o f
  BY <1>2, <1>3 DEF DoBlkSwap
<1> HIDE DEF a, b, f, g
<1>6. a \o b \in Seq(Nat)
  BY <1>2, <1>3, DeepFacts
<1>7. Framed((a \o b) \o g, (a \o b) \o f, R, Len(a \o b) + (Len(s) - (up + down)))
  BY <1>4, <1>6, PutOn
<1> QED BY <1>5, <1>7 DEF Framed

(* ... under REVERSE.                                                       *)
LEMMA FrameReverse ==
    ASSUME NEW s \in Seq(Nat), NEW R \in Seq(Nat), NEW n \in Nat, NEW j \in Nat, n + j <= Len(s)
    PROVE  DoReverse(s \o R, n, j) = DoReverse(s, n, j) \o R /\ DoReverse(s, n, j) \in Seq(Nat)
<1>1. j <= Len(s) /\ j + n <= Len(s) /\ j + n \in Nat
  OBVIOUS
<1> DEFINE a == Top(s, j)  b == [p \in 1 .. n |-> s[j + n + 1 - p]]  f == From(s, j + n)  g == From(s \o R, j + n)
           d == s \o R
<1>2. Top(d, j) = a /\ a \in Seq(Nat)
  BY <1>1, TopFramed
<1>3. \A p \in 1 .. Len(s) : d[p] = s[p] /\ s[p] \in Nat
  BY DeepFacts
<1>4. Framed(g, f, R, Len(s) - (j + n))
  BY <1>1, FromFramed
<1>5. \A p \in 1 .. n : j + n + 1 - p \in 1 .. Len(s)
  BY <1>1
<1>6. b \in Seq(Nat)
  BY <1>3, <1>5, IsASeq
<1> HIDE DEF d
<1>7. [p \in 1 .. n |-> d[j + n + 1 - p]] = b
  BY <1>3, <1>5
<1>8. DoReverse(d, n, j) = (a \o b) \o g
  BY <1>2, <1>7 DEF DoReverse, d
<1>9. DoReverse(s, n, j) = (a \o b) \o f
  BY DEF DoReverse
<1> HIDE DEF a, b, f, g
<1>10. a \o b \in Seq(Nat)
  BY <1>2, <1>6, DeepFacts
<1>11. Framed((a \o b) \o g, (a \o b) \o f, R, Len(a \o b) + (Len(s) - (j + n)))
  BY <1>4, <1>10, PutOn
<1> QED BY <1>8, <1>9, <1>11 DEF Framed, d

(* ... under BLKPUSH.                                                       *)
LEMMA FrameBlkPush ==
    ASSUME NEW s \in Seq(Nat), NEW R \in Seq(Nat), NEW n \in Nat, NEW j \in 0 .. Len(s) - 1
    PROVE  DoBlkPush(s \o R, n, j) = DoBlkPush(s, n, j) \o R /\ DoBlkPush(s, n, j) \in Seq(Nat)
<1> DEFINE b == [p \in 1 .. n |-> s[j + 1 - ((n - p) % (j + 1))]]
           d == s \o R
<1>1. \A p \in 1 .. Len(s) : d[p] = s[p] /\ s[p] \in Nat
  BY DeepFacts
<1>2. ASSUME NEW p \in 1 .. n PROVE j + 1 - ((n - p) % (j + 1)) \in 1 .. Len(s)
  <2>1. n - p \in Int /\ j + 1 \in Nat \ {0} /\ Len(s) \in Nat
    OBVIOUS
  <2>2. (n - p) % (j + 1) \in 0 .. j
    BY <2>1
  <2> QED BY <2>1, <2>2
<1>3. b \in Seq(Nat)
  BY <1>1, <1>2, IsASeq
<1> HIDE DEF d
<1>4. [p \in 1 .. n |-> d[j + 1 - ((n - p) % (j + 1))]] = b
  BY <1>1, <1>2
<1>5. DoBlkPush(d, n, j) = b \o d /\ DoBlkPush(s, n, j) = b \o s
  BY <1>4 DEF DoBlkPush
<1> HIDE DEF b
<1>6. b \o s \in Seq(Nat) /\ (b \o s) \o R = b \o (s \o R)
  BY <1>3, DeepFacts, Associative
<1> QED BY <1>5, <1>6 DEF d

(* ... under POP.                                                           *)
LEMMA FramePop ==
    ASSUME NEW s \in Seq(Nat), NEW R \in Seq(Nat), NEW i \in 1 .. Len(s) - 1
    PROVE  DoPop(s \o R, i) = DoPop(s, i) \o R /\ DoPop(s, i) \in Seq(Nat)
<1> DEFINE d == s \o R
           u == From(d, 1)
           v == From(s, 1)
           x == s[1]
           a == [u EXCEPT ![i] = x]
           b == [v EXCEPT ![i] = x]
<1>1. /\ d \in Seq(Nat) /\ Len(d) = Len(s) + Len(R) /\ Len(s) \in Nat /\ Len(R) \in Nat
      /\ 1 <= Len(s) /\ 1 \in 1 .. Len(s)
      /\ \A p \in 1 .. Len(s) : d[p] = s[p] /\ s[p] \in Nat
  BY DeepFacts
<1>2. Framed(u, v, R, Len(s) - 1)
  BY <1>1, FromFramed
<1> HIDE DEF d
<1>3. Tail(d) = u /\ Tail(s) = v
  BY <1>1 DEF u, v, From
<1>4. DoPop(d, i) = a /\ DoPop(s, i) = b
  BY <1>1, <1>3 DEF DoPop
<1> HIDE DEF u, v
<1>5. /\ v \in Seq(Nat) /\ Len(v) = Len(s) - 1 /\ u = v \o R /\ u \in Seq(Nat) /\ Len(u) = Len(v) + Len(R)
      /\ \A p \in 1 .. Len(v) : u[p] = v[p]
      /\ \A p \in Len(v) + 1 .. Len(v) + Len(R) : u[p] = R[p - Len(v)]
  BY <1>2, DeepFacts DEF Framed
<1>6. i \in 1 .. Len(v) /\ i \in 1 .. Len(u) /\ x \in Nat
  BY <1>1, <1>5
<1> HIDE DEF x
<1>7. b \in Seq(Nat) /\ Len(b) = Len(v) /\ \A p \in 1 .. Len(v) : b[p] = IF p = i THEN x ELSE v[p]
  <2>1. v \in Seq(Nat) /\ i \in 1 .. Len(v) /\ x \in Nat
    BY <1>5, <1>6
  <2> QED BY <2>1, ExceptSeq
<1>8. a \in Seq(Nat) /\ Len(a) = Len(u) /\ \A p \in 1 .. Len(u) : a[p] = IF p = i THEN x ELSE u[p]
  <2>1. u \in Seq(Nat) /\ i \in 1 .. Len(u) /\ x \in Nat
    BY <1>5, <1>6
  <2> QED BY <2>1, ExceptSeq
<1> HIDE DEF a, b
<1>9. ASSUME NEW p \in 1 .. Len(b) PROVE a[p] = b[p]
  <2>1. p \in 1 .. Len(v) /\ p \in 1 .. Len(u)
    BY <1>5, <1>7
  <2>2. u[p] = v[p]
    BY <1>5, <2>1
  <2> QED BY <1>7, <1>8, <2>1, <2>2
<1>10. ASSUME NEW p \in Len(b) + 1 .. Len(b) + Len(R) PROVE a[p] = R[p - Len(b)]
  <2>1. p \in Len(v) + 1 .. Len(v) + Len(R) /\ p \in 1 .. Len(u) /\ p # i /\ Len(b) = Len(v)
    BY <1>5, <1>6, <1>7
  <2>2. u[p] = R[p - Len(b)]
    BY <1>5, <2>1
  <2> QED BY <1>8, <2>1, <2>2
<1>11. Len(a) = Len(b) + Len(R)
  BY <1>5, <1>7, <1>8
<1>12. a = b \o R
  BY <1>7, <1>8, <1>9, <1>10, <1>11, SameDeep
<1> QED BY <1>4, <1>7, <1>12 DEF d

(* What an instruction leaves on a deep stack is what it leaves on the top, *)
(* and the rest.                                                            *)
FrameOK(n, s, R) == ExecStack(n, s \o R) = ExecStack(n, s) \o R /\ ExecStack(n, s) \in Seq(Nat)

(* How far the operands of an instruction reach.                            *)
LEMMA ReachFacts ==
    ASSUME NEW n, Numbers(n), n.op \in StackOps, NEW len \in Nat, Reach(n) <= len
    PROVE  /\ n.op \in {"PUSH_S", "POP_S", "XCHG", "PUSH2_S", "PUSH3_S", "XCPU", "XCPU2", "XCHG2", "XCHG3", "XC2PU",
                        "XCPUXC", "PUXC", "PUXC2", "PUXCPU", "PU2XC"} =>
                n.i \in 0 .. len - 1 /\ (n.op = "POP_S" => n.i \in 1 .. len - 1)
           /\ n.op \in {"XCHG", "PUSH2_S", "PUSH3_S", "XCPU", "XCPU2", "XCHG2", "XCHG3", "XC2PU", "XCPUXC"} =>
                n.j \in 0 .. len - 1
           /\ n.op \in {"PUXC", "PUXC2", "PUXCPU", "PU2XC"} => n.j \in -1 .. len - 1 /\ n.j + 1 \in 0 .. len
           /\ n.op \in {"PUSH3_S", "XCPU2", "XCHG3", "XC2PU"} => n.k \in 0 .. len - 1
           /\ n.op \in {"XCPUXC", "PUXC2", "PUXCPU"} => n.k \in -1 .. len - 1 /\ n.k + 1 \in 0 .. len
           /\ n.op = "PU2XC" => n.k \in -2 .. len - 1 /\ n.k + 1 \in -1 .. len
           /\ n.op \in {"XCHG2", "XC2PU", "XCPUXC", "PUXC2"} => len >= 2
           /\ n.op = "XCHG3" => len >= 3
           /\ n.op = "BLKPUSH" => n.i \in Nat /\ n.j \in 0 .. len - 1
           /\ n.op \in {"BLKDROP2", "BLKSWAP", "REVERSE"} => n.i \in Nat /\ n.j \in Nat /\ n.i + n.j <= len
           /\ n.op = "DROP" => n.i \in Nat /\ n.i <= len
<1>1. CASE n.op \in {"PUSH_S", "POP_S", "XCHG"}
  BY <1>1 DEF Numbers, Reach, Max4, Max2
<1>2. CASE n.op \in {"PUSH2_S", "XCPU"}
  BY <1>2 DEF Numbers, Reach, Max4, Max2
<1>3. CASE n.op \in {"XCHG2"}
  BY <1>3 DEF Numbers, Reach, Max4, Max2
<1>4. CASE n.op \in {"PUXC"}
  BY <1>4 DEF Numbers, Reach, Max4, Max2
<1>5. CASE n.op \in {"PUSH3_S", "XCPU2"}
  BY <1>5 DEF Numbers, Reach, Max4, Max2
<1>6. CASE n.op \in {"XCHG3"}
  BY <1>6 DEF Numbers, Reach, Max4, Max2
<1>7. CASE n.op \in {"XC2PU"}
  BY <1>7 DEF Numbers, Reach, Max4, Max2
<1>8. CASE n.op \in {"XCPUXC"}
  BY <1>8 DEF Numbers, Reach, Max4, Max2
<1>9. CASE n.op \in {"PUXC2"}
  BY <1>9 DEF Numbers, Reach, Max4, Max2
<1>10. CASE n.op \in {"PUXCPU"}
  BY <1>10 DEF Numbers, Reach, Max4, Max2
<1>11. CASE n.op \in {"PU2XC"}
  BY <1>11 DEF Numbers, Reach, Max4, Max2
<1>12. CASE n.op \in {"BLKPUSH"}
  BY <1>12 DEF Numbers, Reach, Max4, Max2
<1>13. CASE n.op \in {"BLKDROP2", "BLKSWAP", "REVERSE"}
  BY <1>13 DEF Numbers, Reach, Max4, Max2
<1>14. CASE n.op \in {"DROP"}
  BY <1>14 DEF Numbers, Reach, Max4, Max2
<1> QED BY <1>1, <1>2, <1>3, <1>4, <1>5, <1>6, <1>7, <1>8, <1>9, <1>10, <1>11, <1>12, <1>13, <1>14 DEF StackOps

(* The instructions that move blocks.                                       *)
LEMMA BlockFramed ==
    ASSUME NEW n, Numbers(n), NEW s \in Seq(Nat), NEW R \in Seq(Nat), Reach(n) <= Len(s),
           n.op \in {"DROP", "BLKDROP2", "BLKSWAP", "REVERSE", "BLKPUSH", "POP_S"}
    PROVE  FrameOK(n, s, R)
<1> DEFINE d == s \o R
<1>1. n.op \in StackOps /\ Len(s) \in Nat
  BY DEF StackOps
<1>2. CASE n.op = "DROP"
  <2>1. ExecStack(n, d) = From(d, n.i) /\ ExecStack(n, s) = From(s, n.i)
    <3> HIDE DEF d
    <3> QED BY <1>2 DEF ExecStack
  <2>2. n.i \in Nat /\ n.i <= Len(s)
    BY <1>1, <1>2, ReachFacts
  <2>3. From(d, n.i) = From(s, n.i) \o R /\ From(s, n.i) \in Seq(Nat)
    BY <2>2, FrameDrop
  <2> QED BY <2>1, <2>3 DEF FrameOK
<1>3. CASE n.op = "BLKDROP2"
  <2>1. ExecStack(n, d) = DoDropUnder(d, n.i, n.j) /\ ExecStack(n, s) = DoDropUnder(s, n.i, n.j)
    <3> HIDE DEF d
    <3> QED BY <1>3 DEF ExecStack
  <2>2. n.i \in Nat /\ n.j \in Nat /\ n.i + n.j <= Len(s)
    BY <1>1, <1>3, ReachFacts
  <2>3. DoDropUnder(d, n.i, n.j) = DoDropUnder(s, n.i, n.j) \o R /\ DoDropUnder(s, n.i, n.j) \in Seq(Nat)
    BY <2>2, FrameDropUnder
  <2> QED BY <2>1, <2>3 DEF FrameOK
<1>4. CASE n.op = "BLKSWAP"
  <2>1. ExecStack(n, d) = DoBlkSwap(d, n.i, n.j) /\ ExecStack(n, s) = DoBlkSwap(s, n.i, n.j)
    <3> HIDE DEF d
    <3> QED BY <1>4 DEF ExecStack
  <2>2. n.i \in Nat /\ n.j \in Nat /\ n.i + n.j <= Len(s)
    BY <1>1, <1>4, ReachFacts
  <2>3. DoBlkSwap(d, n.i, n.j) = DoBlkSwap(s, n.i, n.j) \o R /\ DoBlkSwap(s, n.i, n.j) \in Seq(Nat)
    BY <2>2, FrameBlkSwap
  <2> QED BY <2>1, <2>3 DEF FrameOK
<1>5. CASE n.op = "REVERSE"
  <2>1. ExecStack(n, d) = DoReverse(d, n.i, n.j) /\ ExecStack(n, s) = DoReverse(s, n.i, n.j)
    <3> HIDE DEF d
    <3> QED BY <1>5 DEF ExecStack
  <2>2. n.i \in Nat /\ n.j \in Nat /\ n.i + n.j <= Len(s)
    BY <1>1, <1>5, ReachFacts
  <2>3. DoReverse(d, n.i, n.j) = DoReverse(s, n.i, n.j) \o R /\ DoReverse(s, n.i, n.j) \in Seq(Nat)
    BY <2>2, FrameReverse
  <2> QED BY <2>1, <2>3 DEF FrameOK
<1>6. CASE n.op = "BLKPUSH"
  <2>1. ExecStack(n, d) = DoBlkPush(d, n.i, n.j) /\ ExecStack(n, s) = DoBlkPush(s, n.i, n.j)
    <3> HIDE DEF d
    <3> QED BY <1>6 DEF ExecStack
  <2>2. n.i \in Nat /\ n.j \in 0 .. Len(s) - 1
    BY <1>1, <1>6, ReachFacts
  <2>3. DoBlkPush(d, n.i, n.j) = DoBlkPush(s, n.i, n.j) \o R /\ DoBlkPush(s, n.i, n.j) \in Seq(Nat)
    BY <2>2, FrameBlkPush
  <2> QED BY <2>1, <2>3 DEF FrameOK
<1>7. CASE n.op = "POP_S"
  <2>1. ExecStack(n, d) = DoPop(d, n.i) /\ ExecStack(n, s) = DoPop(s, n.i)
    <3> HIDE DEF d
    <3> QED BY <1>7 DEF ExecStack
  <2>2. n.i \in 1 .. Len(s) - 1
    BY <1>1, <1>7, ReachFacts
  <2>3. DoPop(d, n.i) = DoPop(s, n.i) \o R /\ DoPop(s, n.i) \in Seq(Nat)
    BY <2>2, FramePop
  <2> QED BY <2>1, <2>3 DEF FrameOK
<1> QED BY <1>2, <1>3, <1>4, <1>5, <1>6, <1>7

(* Pushes and exchanges.                                                    *)
LEMMA BasicFramed ==
    ASSUME NEW n, Numbers(n), NEW s \in Seq(Nat), NEW R \in Seq(Nat), Reach(n) <= Len(s),
           n.op \in {"PUSH_S", "XCHG", "PUSH2_S", "PUSH3_S"}
    PROVE  FrameOK(n, s, R)
<1> DEFINE d == s \o R  len == Len(s)
<1>1. n.op \in StackOps /\ len \in Nat /\ Framed(d, s, R, len)
  BY DEF StackOps, Framed
<1> HIDE DEF d, len
<1>2. CASE n.op = "PUSH_S"
  <2>1. n.i \in 0 .. len - 1
    BY <1>1, <1>2, ReachFacts DEF len
  <2>2. Framed(DoPush(d, n.i), DoPush(s, n.i), R, len + 1)
    BY <1>1, <2>1, FramePush
  <2>3. ExecStack(n, d) = DoPush(d, n.i) /\ ExecStack(n, s) = DoPush(s, n.i)
    BY <1>2 DEF ExecStack
  <2> QED BY <2>2, <2>3 DEF FrameOK, Framed, d
<1>3. CASE n.op = "XCHG"
  <2>1. n.i \in 0 .. len - 1 /\ n.j \in 0 .. len - 1
    BY <1>1, <1>3, ReachFacts DEF len
  <2>2. Framed(DoXchg(d, n.i, n.j), DoXchg(s, n.i, n.j), R, len)
    BY <1>1, <2>1, FrameXchg
  <2>3. ExecStack(n, d) = DoXchg(d, n.i, n.j) /\ ExecStack(n, s) = DoXchg(s, n.i, n.j)
    BY <1>3 DEF ExecStack
  <2> QED BY <2>2, <2>3 DEF FrameOK, Framed, d
<1>4. CASE n.op = "PUSH2_S"
  <2>1. n.i \in 0 .. len - 1 /\ n.j \in 0 .. len - 1
    BY <1>1, <1>4, ReachFacts DEF len
  <2>2. Framed(DoPush2(d, n.i, n.j), DoPush2(s, n.i, n.j), R, len + 2)
    BY <1>1, <2>1, FramePush2
  <2>3. ExecStack(n, d) = DoPush2(d, n.i, n.j) /\ ExecStack(n, s) = DoPush2(s, n.i, n.j)
    BY <1>4 DEF ExecStack
  <2> QED BY <2>2, <2>3 DEF FrameOK, Framed, d
<1>5. CASE n.op = "PUSH3_S"
  <2>1. n.i \in 0 .. len - 1 /\ n.j \in 0 .. len - 1 /\ n.k + 2 \in 0 .. (len + 2) - 1
    BY <1>1, <1>5, ReachFacts DEF len
  <2>2. Framed(DoPush2(d, n.i, n.j), DoPush2(s, n.i, n.j), R, len + 2)
    BY <1>1, <2>1, FramePush2
  <2>3. Framed(DoPush(DoPush2(d, n.i, n.j), n.k + 2), DoPush(DoPush2(s, n.i, n.j), n.k + 2), R, (len + 2) + 1)
    BY <2>2, <2>1, FramePush
  <2>4. ExecStack(n, d) = DoPush(DoPush2(d, n.i, n.j), n.k + 2) /\ ExecStack(n, s) = DoPush(DoPush2(s, n.i, n.j), n.k + 2)
    BY <1>5 DEF ExecStack
  <2> QED BY <2>3, <2>4 DEF FrameOK, Framed, d
<1> QED BY <1>2, <1>3, <1>4, <1>5

(* Several exchanges, and pushes after them.                                *)
LEMMA XchgsFramed ==
    ASSUME NEW n, Numbers(n), NEW s \in Seq(Nat), NEW R \in Seq(Nat), Reach(n) <= Len(s),
           n.op \in {"XCHG2", "XCHG3", "XCPU", "XC2PU", "XCPU2", "XCPUXC"}
    PROVE  FrameOK(n, s, R)
<1> DEFINE d == s \o R  len == Len(s)
<1>1. n.op \in StackOps /\ len \in Nat /\ Framed(d, s, R, len)
  BY DEF StackOps, Framed
<1> HIDE DEF d, len
<1>2. CASE n.op = "XCHG2"
  <2>1. n.i \in 0 .. len - 1 /\ n.j \in 0 .. len - 1 /\ len >= 2
    BY <1>1, <1>2, ReachFacts DEF len
  <2>2. Framed(DoXchg2(d, n.i, n.j), DoXchg2(s, n.i, n.j), R, len)
    BY <1>1, <2>1, FrameXchg2
  <2>3. ExecStack(n, d) = DoXchg2(d, n.i, n.j) /\ ExecStack(n, s) = DoXchg2(s, n.i, n.j)
    BY <1>2 DEF ExecStack
  <2> QED BY <2>2, <2>3 DEF FrameOK, Framed, d
<1>3. CASE n.op = "XCHG3"
  <2>1. 2 \in 0 .. len - 1 /\ n.i \in 0 .. len - 1 /\ 1 \in 0 .. len - 1 /\ n.j \in 0 .. len - 1 /\ 0 \in 0 .. len - 1 /\ n.k \in 0 .. len - 1
    BY <1>1, <1>3, ReachFacts DEF len
  <2>2. Framed(DoXchg(d, 2, n.i), DoXchg(s, 2, n.i), R, len)
    BY <1>1, <2>1, FrameXchg
  <2>3. Framed(DoXchg(DoXchg(d, 2, n.i), 1, n.j), DoXchg(DoXchg(s, 2, n.i), 1, n.j), R, len)
    BY <2>2, <2>1, FrameXchg
  <2>4. Framed(DoXchg(DoXchg(DoXchg(d, 2, n.i), 1, n.j), 0, n.k), DoXchg(DoXchg(DoXchg(s, 2, n.i), 1, n.j), 0, n.k), R, len)
    BY <2>3, <2>1, FrameXchg
  <2>5. ExecStack(n, d) = DoXchg(DoXchg(DoXchg(d, 2, n.i), 1, n.j), 0, n.k) /\ ExecStack(n, s) = DoXchg(DoXchg(DoXchg(s, 2, n.i), 1, n.j), 0, n.k)
    BY <1>3 DEF ExecStack
  <2> QED BY <2>4, <2>5 DEF FrameOK, Framed, d
<1>4. CASE n.op = "XCPU"
  <2>1. 0 \in 0 .. len - 1 /\ n.i \in 0 .. len - 1 /\ n.j \in 0 .. len - 1
    BY <1>1, <1>4, ReachFacts DEF len
  <2>2. Framed(DoXchg(d, 0, n.i), DoXchg(s, 0, n.i), R, len)
    BY <1>1, <2>1, FrameXchg
  <2>3. Framed(DoPush(DoXchg(d, 0, n.i), n.j), DoPush(DoXchg(s, 0, n.i), n.j), R, len + 1)
    BY <2>2, <2>1, FramePush
  <2>4. ExecStack(n, d) = DoPush(DoXchg(d, 0, n.i), n.j) /\ ExecStack(n, s) = DoPush(DoXchg(s, 0, n.i), n.j)
    BY <1>4 DEF ExecStack
  <2> QED BY <2>3, <2>4 DEF FrameOK, Framed, d
<1>5. CASE n.op = "XC2PU"
  <2>1. n.i \in 0 .. len - 1 /\ n.j \in 0 .. len - 1 /\ len >= 2 /\ n.k \in 0 .. len - 1
    BY <1>1, <1>5, ReachFacts DEF len
  <2>2. Framed(DoXchg2(d, n.i, n.j), DoXchg2(s, n.i, n.j), R, len)
    BY <1>1, <2>1, FrameXchg2
  <2>3. Framed(DoPush(DoXchg2(d, n.i, n.j), n.k), DoPush(DoXchg2(s, n.i, n.j), n.k), R, len + 1)
    BY <2>2, <2>1, FramePush
  <2>4. ExecStack(n, d) = DoPush(DoXchg2(d, n.i, n.j), n.k) /\ ExecStack(n, s) = DoPush(DoXchg2(s, n.i, n.j), n.k)
    BY <1>5 DEF ExecStack
  <2> QED BY <2>3, <2>4 DEF FrameOK, Framed, d
<1>6. CASE n.op = "XCPU2"
  <2>1. 0 \in 0 .. len - 1 /\ n.i \in 0 .. len - 1 /\ n.j \in 0 .. len - 1 /\ n.k \in 0 .. len - 1
    BY <1>1, <1>6, ReachFacts DEF len
  <2>2. Framed(DoXchg(d, 0, n.i), DoXchg(s, 0, n.i), R, len)
    BY <1>1, <2>1, FrameXchg
  <2>3. Framed(DoPush2(DoXchg(d, 0, n.i), n.j, n.k), DoPush2(DoXchg(s, 0, n.i), n.j, n.k), R, len + 2)
    BY <2>2, <2>1, FramePush2
  <2>4. ExecStack(n, d) = DoPush2(DoXchg(d, 0, n.i), n.j, n.k) /\ ExecStack(n, s) = DoPush2(DoXchg(s, 0, n.i), n.j, n.k)
    BY <1>6 DEF ExecStack
  <2> QED BY <2>3, <2>4 DEF FrameOK, Framed, d
<1>7. CASE n.op = "XCPUXC"
  <2>1. 1 \in 0 .. len - 1 /\ n.i \in 0 .. len - 1 /\ n.j \in 0 .. len - 1 /\ n.k \in -1 .. len - 1
    BY <1>1, <1>7, ReachFacts DEF len
  <2>2. Framed(DoXchg(d, 1, n.i), DoXchg(s, 1, n.i), R, len)
    BY <1>1, <2>1, FrameXchg
  <2>3. Framed(DoPuxc(DoXchg(d, 1, n.i), n.j, n.k), DoPuxc(DoXchg(s, 1, n.i), n.j, n.k), R, len + 1)
    BY <2>2, <2>1, FramePuxc
  <2>4. ExecStack(n, d) = DoPuxc(DoXchg(d, 1, n.i), n.j, n.k) /\ ExecStack(n, s) = DoPuxc(DoXchg(s, 1, n.i), n.j, n.k)
    BY <1>7 DEF ExecStack
  <2> QED BY <2>3, <2>4 DEF FrameOK, Framed, d
<1> QED BY <1>2, <1>3, <1>4, <1>5, <1>6, <1>7

(* Exchanges after a push.                                                  *)
LEMMA PuxcsFramed ==
    ASSUME NEW n, Numbers(n), NEW s \in Seq(Nat), NEW R \in Seq(Nat), Reach(n) <= Len(s),
           n.op \in {"PUXC", "PUXC2", "PUXCPU", "PU2XC"}
    PROVE  FrameOK(n, s, R)
<1> DEFINE d == s \o R  len == Len(s)
<1>1. n.op \in StackOps /\ len \in Nat /\ Framed(d, s, R, len)
  BY DEF StackOps, Framed
<1> HIDE DEF d, len
<1>2. CASE n.op = "PUXC"
  <2>1. n.i \in 0 .. len - 1 /\ n.j \in -1 .. len - 1
    BY <1>1, <1>2, ReachFacts DEF len
  <2>2. Framed(DoPuxc(d, n.i, n.j), DoPuxc(s, n.i, n.j), R, len + 1)
    BY <1>1, <2>1, FramePuxc
  <2>3. ExecStack(n, d) = DoPuxc(d, n.i, n.j) /\ ExecStack(n, s) = DoPuxc(s, n.i, n.j)
    BY <1>2 DEF ExecStack
  <2> QED BY <2>2, <2>3 DEF FrameOK, Framed, d
<1>3. CASE n.op = "PUXC2"
  <2>1. n.i \in 0 .. len - 1 /\ 0 \in 0 .. (len + 1) - 1 /\ 2 \in 0 .. (len + 1) - 1 /\ n.j + 1 \in 0 .. (len + 1) - 1 /\ n.k + 1 \in 0 .. (len + 1) - 1 /\ len + 1 >= 2
    BY <1>1, <1>3, ReachFacts DEF len
  <2>2. Framed(DoPush(d, n.i), DoPush(s, n.i), R, len + 1)
    BY <1>1, <2>1, FramePush
  <2>3. Framed(DoXchg(DoPush(d, n.i), 0, 2), DoXchg(DoPush(s, n.i), 0, 2), R, len + 1)
    BY <2>2, <2>1, FrameXchg
  <2>4. Framed(DoXchg2(DoXchg(DoPush(d, n.i), 0, 2), n.j + 1, n.k + 1), DoXchg2(DoXchg(DoPush(s, n.i), 0, 2), n.j + 1, n.k + 1), R, len + 1)
    BY <2>3, <2>1, FrameXchg2
  <2>5. ExecStack(n, d) = DoXchg2(DoXchg(DoPush(d, n.i), 0, 2), n.j + 1, n.k + 1) /\ ExecStack(n, s) = DoXchg2(DoXchg(DoPush(s, n.i), 0, 2), n.j + 1, n.k + 1)
    BY <1>3 DEF ExecStack
  <2> QED BY <2>4, <2>5 DEF FrameOK, Framed, d
<1>4. CASE n.op = "PUXCPU"
  <2>1. n.i \in 0 .. len - 1 /\ n.j \in -1 .. len - 1 /\ n.k + 1 \in 0 .. (len + 1) - 1
    BY <1>1, <1>4, ReachFacts DEF len
  <2>2. Framed(DoPuxc(d, n.i, n.j), DoPuxc(s, n.i, n.j), R, len + 1)
    BY <1>1, <2>1, FramePuxc
  <2>3. Framed(DoPush(DoPuxc(d, n.i, n.j), n.k + 1), DoPush(DoPuxc(s, n.i, n.j), n.k + 1), R, (len + 1) + 1)
    BY <2>2, <2>1, FramePush
  <2>4. ExecStack(n, d) = DoPush(DoPuxc(d, n.i, n.j), n.k + 1) /\ ExecStack(n, s) = DoPush(DoPuxc(s, n.i, n.j), n.k + 1)
    BY <1>4 DEF ExecStack
  <2> QED BY <2>3, <2>4 DEF FrameOK, Framed, d
<1>5. CASE n.op = "PU2XC"
  <2>1. n.i \in 0 .. len - 1 /\ 0 \in 0 .. (len + 1) - 1 /\ 1 \in 0 .. (len + 1) - 1 /\ n.j + 1 \in 0 .. (len + 1) - 1 /\ n.k + 1 \in -1 .. (len + 1) - 1
    BY <1>1, <1>5, ReachFacts DEF len
  <2>2. Framed(DoPush(d, n.i), DoPush(s, n.i), R, len + 1)
    BY <1>1, <2>1, FramePush
  <2>3. Framed(DoXchg(DoPush(d, n.i), 0, 1), DoXchg(DoPush(s, n.i), 0, 1), R, len + 1)
    BY <2>2, <2>1, FrameXchg
  <2>4. Framed(DoPuxc(DoXchg(DoPush(d, n.i), 0, 1), n.j + 1, n.k + 1), DoPuxc(DoXchg(DoPush(s, n.i), 0, 1), n.j + 1, n.k + 1), R, (len + 1) + 1)
    BY <2>3, <2>1, FramePuxc
  <2>5. ExecStack(n, d) = DoPuxc(DoXchg(DoPush(d, n.i), 0, 1), n.j + 1, n.k + 1) /\ ExecStack(n, s) = DoPuxc(DoXchg(DoPush(s, n.i), 0, 1), n.j + 1, n.k + 1)
    BY <1>5 DEF ExecStack
  <2> QED BY <2>4, <2>5 DEF FrameOK, Framed, d
<1> QED BY <1>2, <1>3, <1>4, <1>5

(* All together.                                                            *)
LEMMA ExecFramed ==
    ASSUME NEW n, Numbers(n), n.op \in StackOps, NEW s \in Seq(Nat), NEW R \in Seq(Nat), Reach(n) <= Len(s)
    PROVE  FrameOK(n, s, R)
<1>1. \/ n.op \in {"DROP", "BLKDROP2", "BLKSWAP", "REVERSE", "BLKPUSH", "POP_S"}
      \/ n.op \in {"PUSH_S", "XCHG", "PUSH2_S", "PUSH3_S"}
      \/ n.op \in {"XCHG2", "XCHG3", "XCPU", "XC2PU", "XCPU2", "XCPUXC"}
      \/ n.op \in {"PUXC", "PUXC2", "PUXCPU", "PU2XC"}
  BY DEF StackOps
<1> QED BY <1>1, BlockFramed, BasicFramed, XchgsFramed, PuxcsFramed

(***************************************************************************)
(* Runs of instructions, step by step.                                     *)
(***************************************************************************)
IsRun(r, code, s) ==
    r = [n \in 0 .. Len(code) |-> IF n = 0 THEN s ELSE ExecStack(code[n], r[n - 1])]
Leads(code, s, t) == \E r : IsRun(r, code, s) /\ r[Len(code)] = t

(* Steps of a run.                                                          *)
LEMMA RunSteps ==
    ASSUME NEW code, NEW s, NEW r, Len(code) \in Nat
    PROVE  IsRun(r, code, s) <=> /\ r = [n \in 0 .. Len(code) |-> r[n]] /\ r[0] = s
                                 /\ \A n \in 1 .. Len(code) : r[n] = ExecStack(code[n], r[n - 1])
<1>1. ASSUME IsRun(r, code, s)
      PROVE  /\ r = [n \in 0 .. Len(code) |-> r[n]] /\ r[0] = s
             /\ \A n \in 1 .. Len(code) : r[n] = ExecStack(code[n], r[n - 1])
  BY <1>1 DEF IsRun
<1>2. ASSUME r = [n \in 0 .. Len(code) |-> r[n]], r[0] = s,
             \A n \in 1 .. Len(code) : r[n] = ExecStack(code[n], r[n - 1])
      PROVE  IsRun(r, code, s)
  <2>1. ASSUME NEW n \in 0 .. Len(code) PROVE r[n] = IF n = 0 THEN s ELSE ExecStack(code[n], r[n - 1])
    BY <1>2
  <2>2. [n \in 0 .. Len(code) |-> r[n]] = [n \in 0 .. Len(code) |-> IF n = 0 THEN s ELSE ExecStack(code[n], r[n - 1])]
    BY <2>1
  <2> QED BY <1>2, <2>2 DEF IsRun
<1> QED BY <1>1, <1>2

(* Run is where the steps lead.                                             *)
LEMMA RunIs ==
    ASSUME NEW code, NEW s, NEW t, Len(code) \in Nat, Leads(code, s, t)
    PROVE  Run(code, s) = t
<1>1. PICK r : IsRun(r, code, s) /\ r[Len(code)] = t
  BY DEF Leads
<1> DEFINE F == CHOOSE f : IsRun(f, code, s)
<1>2. IsRun(F, code, s)
  BY <1>1
<1>3. Run(code, s) = F[Len(code)]
  BY DEF Run, IsRun
<1> HIDE DEF F
<1> DEFINE T == {n \in 0 .. Len(code) : F[n] = r[n]}
<1>4. 0 \in T
  BY <1>1, <1>2, RunSteps
<1>5. ASSUME NEW n \in 1 .. Len(code), n - 1 \in T PROVE n \in T
  <2>1. F[n] = ExecStack(code[n], F[n - 1]) /\ r[n] = ExecStack(code[n], r[n - 1])
    BY <1>1, <1>2, RunSteps
  <2> QED BY <1>5, <2>1
<1> HIDE DEF T
<1>6. \A n \in 0 .. Len(code) : n \in T
  BY <1>4, <1>5, Upwards
<1>7. F[Len(code)] = r[Len(code)]
  BY <1>6 DEF T
<1> QED BY <1>1, <1>3, <1>7

(* No instructions.                                                         *)
LEMMA LeadsNone ==
    ASSUME NEW s
    PROVE  Leads(<<>>, s, s)
<1> DEFINE r == [n \in 0 .. Len(<<>>) |-> s]
<1>1. Len(<<>>) = 0 /\ 0 \in 0 .. 0 /\ r[0] = s /\ r = [n \in 0 .. Len(<<>>) |-> r[n]]
  OBVIOUS
<1> HIDE DEF r
<1>2. IsRun(r, <<>>, s)
  BY <1>1, RunSteps
<1> QED BY <1>1, <1>2 DEF Leads

(* One instruction more at the end.                                         *)
LEMMA LeadsAppend ==
    ASSUME NEW A, NEW code \in Seq(A), NEW a \in A, NEW s, NEW t, Leads(code, s, t)
    PROVE  Leads(Append(code, a), s, ExecStack(a, t))
<1> DEFINE c == Append(code, a)  L == Len(code)
<1>1. c \in Seq(A) /\ Len(c) = L + 1 /\ L \in Nat /\ c[L + 1] = a /\ \A n \in 1 .. L : c[n] = code[n]
  BY AppendProperties
<1>2. PICK r : IsRun(r, code, s) /\ r[L] = t
  BY DEF Leads
<1>3. r[0] = s /\ \A n \in 1 .. L : r[n] = ExecStack(code[n], r[n - 1])
  BY <1>1, <1>2, RunSteps
<1> HIDE DEF c, L
<1> DEFINE u == [n \in 0 .. Len(c) |-> IF n <= L THEN r[n] ELSE ExecStack(a, t)]
<1>4. u[0] = s /\ u[Len(c)] = ExecStack(a, t) /\ u = [n \in 0 .. Len(c) |-> u[n]]
  BY <1>1, <1>3
<1>5. ASSUME NEW n \in 1 .. Len(c) PROVE u[n] = ExecStack(c[n], u[n - 1])
  <2>1. n - 1 \in 0 .. Len(c) /\ n - 1 <= L /\ u[n - 1] = r[n - 1]
    BY <1>1
  <2>2. CASE n <= L
    <3>1. n \in 1 .. L /\ u[n] = r[n]
      BY <1>1, <2>2
    <3> QED BY <1>1, <1>3, <2>1, <3>1
  <2>3. CASE ~(n <= L)
    <3>1. n = L + 1 /\ n - 1 = L /\ u[n] = ExecStack(a, t)
      BY <1>1, <2>3
    <3> QED BY <1>1, <1>2, <2>1, <3>1
  <2> QED BY <2>2, <2>3
<1> HIDE DEF u
<1>6. Len(c) \in Nat
  BY <1>1
<1>7. IsRun(u, c, s)
  BY <1>4, <1>5, <1>6, RunSteps
<1> QED BY <1>4, <1>7 DEF Leads, c

(* A sequence with one element more in front.                               *)
LEMMA InFront ==
    ASSUME NEW A, NEW code \in Seq(A), NEW a \in A
    PROVE  /\ <<a>> \o code \in Seq(A) /\ Len(<<a>> \o code) = Len(code) + 1 /\ Len(code) \in Nat
           /\ (<<a>> \o code)[1] = a /\ \A n \in 1 .. Len(code) : (<<a>> \o code)[n + 1] = code[n]
<1> DEFINE f == <<a>>
<1>1. f \in Seq(A) /\ Len(f) = 1 /\ f[1] = a /\ Len(code) \in Nat
  OBVIOUS
<1> HIDE DEF f
<1>2. /\ f \o code \in Seq(A) /\ Len(f \o code) = Len(f) + Len(code)
      /\ \A i \in 1 .. Len(f) + Len(code) : (f \o code)[i] = IF i <= Len(f) THEN f[i] ELSE code[i - Len(f)]
  BY <1>1, ConcatProperties
<1>3. (f \o code)[1] = a
  <2>1. 1 \in 1 .. Len(f) + Len(code) /\ 1 <= Len(f)
    BY <1>1
  <2> QED BY <1>1, <1>2, <2>1
<1>4. ASSUME NEW n \in 1 .. Len(code) PROVE (f \o code)[n + 1] = code[n]
  <2>1. n + 1 \in 1 .. Len(f) + Len(code) /\ ~(n + 1 <= Len(f)) /\ (n + 1) - Len(f) = n
    BY <1>1
  <2> QED BY <1>2, <2>1
<1> QED BY <1>1, <1>2, <1>3, <1>4 DEF f

(* One instruction more in front.                                           *)
LEMMA LeadsInFront ==
    ASSUME NEW A, NEW code \in Seq(A), NEW a \in A, NEW s, NEW t, Leads(code, ExecStack(a, s), t)
    PROVE  Leads(<<a>> \o code, s, t)
<1> DEFINE c == <<a>> \o code  L == Len(code)
<1>1. Len(c) = L + 1 /\ L \in Nat /\ c[1] = a /\ \A n \in 1 .. L : c[n + 1] = code[n]
  BY InFront
<1>2. PICK r : IsRun(r, code, ExecStack(a, s)) /\ r[L] = t
  BY DEF Leads
<1>3. r[0] = ExecStack(a, s) /\ \A n \in 1 .. L : r[n] = ExecStack(code[n], r[n - 1])
  BY <1>1, <1>2, RunSteps
<1> HIDE DEF c, L
<1> DEFINE u == [n \in 0 .. Len(c) |-> IF n = 0 THEN s ELSE r[n - 1]]
<1>4. u[0] = s /\ u[Len(c)] = t /\ u = [n \in 0 .. Len(c) |-> u[n]]
  BY <1>1, <1>2
<1>5. ASSUME NEW n \in 1 .. Len(c) PROVE u[n] = ExecStack(c[n], u[n - 1])
  <2>1. n \in 0 .. Len(c) /\ n - 1 \in 0 .. Len(c) /\ u[n] = r[n - 1]
    BY <1>1
  <2>2. CASE n = 1
    <3>1. n - 1 = 0
      BY <2>2
    <3> QED BY <1>1, <1>3, <1>4, <2>1, <2>2, <3>1
  <2>3. CASE n # 1
    <3>1. n - 1 \in 1 .. L /\ (n - 1) + 1 = n /\ u[n - 1] = r[(n - 1) - 1]
      BY <1>1, <2>1, <2>3
    <3> QED BY <1>1, <1>3, <2>1, <3>1
  <2> QED BY <2>2, <2>3
<1> HIDE DEF u
<1>6. Len(c) \in Nat
  BY <1>1
<1>7. IsRun(u, c, s)
  BY <1>4, <1>5, <1>6, RunSteps
<1> QED BY <1>4, <1>7 DEF Leads, c

(***************************************************************************)
(* What a run of instructions costs.                                       *)
(***************************************************************************)
IsGas(g, code) ==
    g = [n \in 0 .. Len(code) |-> IF n = 0 THEN 0 ELSE g[n - 1] + GasCost(code[n])]
Costs(code, gas) == gas \in Nat /\ \E g : IsGas(g, code) /\ g[Len(code)] = gas

(* Steps of the sum.                                                        *)
LEMMA GasSteps ==
    ASSUME NEW code, NEW g, Len(code) \in Nat
    PROVE  IsGas(g, code) <=> /\ g = [n \in 0 .. Len(code) |-> g[n]] /\ g[0] = 0
                              /\ \A n \in 1 .. Len(code) : g[n] = g[n - 1] + GasCost(code[n])
<1>1. ASSUME IsGas(g, code)
      PROVE  /\ g = [n \in 0 .. Len(code) |-> g[n]] /\ g[0] = 0
             /\ \A n \in 1 .. Len(code) : g[n] = g[n - 1] + GasCost(code[n])
  BY <1>1 DEF IsGas
<1>2. ASSUME g = [n \in 0 .. Len(code) |-> g[n]], g[0] = 0,
             \A n \in 1 .. Len(code) : g[n] = g[n - 1] + GasCost(code[n])
      PROVE  IsGas(g, code)
  <2>1. ASSUME NEW n \in 0 .. Len(code) PROVE g[n] = IF n = 0 THEN 0 ELSE g[n - 1] + GasCost(code[n])
    BY <1>2
  <2>2. [n \in 0 .. Len(code) |-> g[n]] = [n \in 0 .. Len(code) |-> IF n = 0 THEN 0 ELSE g[n - 1] + GasCost(code[n])]
    BY <2>1
  <2> QED BY <1>2, <2>2 DEF IsGas
<1> QED BY <1>1, <1>2

(* CodeGas is the sum.                                                      *)
LEMMA GasIs ==
    ASSUME NEW code, NEW gas, Len(code) \in Nat, Costs(code, gas)
    PROVE  CodeGas(code) = gas
<1>1. PICK g : IsGas(g, code) /\ g[Len(code)] = gas
  BY DEF Costs
<1> DEFINE F == CHOOSE f : IsGas(f, code)
<1>2. IsGas(F, code)
  BY <1>1
<1>3. CodeGas(code) = F[Len(code)]
  BY DEF CodeGas, IsGas
<1> HIDE DEF F
<1> DEFINE T == {n \in 0 .. Len(code) : F[n] = g[n]}
<1>4. 0 \in T
  BY <1>1, <1>2, GasSteps
<1>5. ASSUME NEW n \in 1 .. Len(code), n - 1 \in T PROVE n \in T
  <2>1. F[n] = F[n - 1] + GasCost(code[n]) /\ g[n] = g[n - 1] + GasCost(code[n])
    BY <1>1, <1>2, GasSteps
  <2> QED BY <1>5, <2>1
<1> HIDE DEF T
<1>6. \A n \in 0 .. Len(code) : n \in T
  BY <1>4, <1>5, Upwards
<1>7. F[Len(code)] = g[Len(code)]
  BY <1>6 DEF T
<1> QED BY <1>1, <1>3, <1>7

(* No instructions are free.                                                *)
LEMMA CostsNone == Costs(<<>>, 0)
<1> DEFINE g == [n \in 0 .. Len(<<>>) |-> 0]
<1>1. Len(<<>>) = 0 /\ 0 \in 0 .. 0 /\ g[0] = 0 /\ g = [n \in 0 .. Len(<<>>) |-> g[n]]
  OBVIOUS
<1> HIDE DEF g
<1>2. IsGas(g, <<>>)
  BY <1>1, GasSteps
<1> QED BY <1>1, <1>2 DEF Costs

(* One instruction more in front costs its price.                           *)
LEMMA CostsInFront ==
    ASSUME NEW A, NEW code \in Seq(A), NEW a \in A, NEW gas, Costs(code, gas)
    PROVE  Costs(<<a>> \o code, gas + GasCost(a))
<1> DEFINE c == <<a>> \o code  L == Len(code)  p == GasCost(a)
<1>1. Len(c) = L + 1 /\ L \in Nat /\ c[1] = a /\ \A n \in 1 .. L : c[n + 1] = code[n]
  BY InFront
<1>2. PICK g : IsGas(g, code) /\ g[L] = gas
  BY DEF Costs
<1>3. g[0] = 0 /\ \A n \in 1 .. L : g[n] = g[n - 1] + GasCost(code[n])
  BY <1>1, <1>2, GasSteps
<1>4. p \in Nat /\ gas \in Nat
  BY GasValues DEF Costs
<1> HIDE DEF c, L
<1>5. \A n \in 0 .. L : g[n] \in Nat
  <2> DEFINE T == {n \in 0 .. L : g[n] \in Nat}
  <2>1. 0 \in T
    BY <1>1, <1>3
  <2>2. ASSUME NEW n \in 1 .. L, n - 1 \in T PROVE n \in T
    <3>1. GasCost(code[n]) \in Nat
      BY GasValues
    <3> QED BY <1>3, <2>2, <3>1
  <2> HIDE DEF T
  <2>3. \A n \in 0 .. L : n \in T
    BY <1>1, <2>1, <2>2, Upwards
  <2> QED BY <2>3 DEF T
<1> DEFINE u == [n \in 0 .. Len(c) |-> IF n = 0 THEN 0 ELSE g[n - 1] + p]
<1>6. u[0] = 0 /\ u[Len(c)] = gas + p /\ u = [n \in 0 .. Len(c) |-> u[n]]
  BY <1>1, <1>2
<1>7. ASSUME NEW n \in 1 .. Len(c) PROVE u[n] = u[n - 1] + GasCost(c[n])
  <2>1. n \in 0 .. Len(c) /\ n - 1 \in 0 .. Len(c) /\ u[n] = g[n - 1] + p
    BY <1>1
  <2>2. CASE n = 1
    <3>1. n - 1 = 0
      BY <2>2
    <3> QED BY <1>1, <1>3, <1>4, <1>6, <2>1, <2>2, <3>1 DEF p
  <2>3. CASE n # 1
    <3>1. n - 1 \in 1 .. L /\ (n - 1) + 1 = n /\ u[n - 1] = g[(n - 1) - 1] + p /\ (n - 1) - 1 \in 0 .. L
      BY <1>1, <2>1, <2>3
    <3>2. g[n - 1] = g[(n - 1) - 1] + GasCost(c[n])
      BY <1>1, <1>3, <3>1
    <3>3. GasCost(c[n]) \in Nat /\ g[(n - 1) - 1] \in Nat
      BY <1>5, <3>1, GasValues
    <3> HIDE DEF u, p
    <3> QED BY <1>4, <2>1, <3>1, <3>2, <3>3
  <2> QED BY <2>2, <2>3
<1> HIDE DEF u
<1>8. Len(c) \in Nat
  BY <1>1
<1>9. IsGas(u, c)
  BY <1>6, <1>7, <1>8, GasSteps
<1>10. gas + p \in Nat
  BY <1>4
<1> QED BY <1>6, <1>9, <1>10 DEF Costs, c

(***************************************************************************)
(* The code that is replaced.                                              *)
(***************************************************************************)
MadeCode(c) == c \in Seq(StackInstructions) /\ \A p \in 1 .. Len(c) : Made(c[p])

(* apply does what the TVM does, for all instructions of a code.            *)
LEMMA MadeIsReal ==
    ASSUME NEW n \in StackInstructions, Made(n), NEW s \in State, NEW t \in apply(n, s)
    PROVE  Real(n, s, t)
<1>1. Numbers(n) /\ n.op \in StackOps /\ (n.op = "XCHG2" => n.i + n.j > 0)
  BY DEF Made, StackInstructions
<1>2. ASSUME n.op = "XCHG2" PROVE s.size >= 2
  <2>1. n.i \in Nat /\ n.j \in Nat /\ s.size \in Nat
    BY <1>1, <1>2, Depth DEF Numbers, State
  <2>2. Max2(n.i, n.j) < s.size
    BY <1>2 DEF apply
  <2> QED BY <1>1, <1>2, <2>1, <2>2 DEF Max2
<1> QED BY <1>1, <1>2, ApplyIsReal

(* The stack under the upper cells.                                         *)
Rest(size) == From(DeepStack, size)

(* The deep stack is the start of a search and the rest.                    *)
LEMMA DeepIs ==
    ASSUME NEW size \in 0 .. MAX_STACK_DEPTH
    PROVE  /\ DeepStack = Key(StackState(size)) \o Rest(size)
           /\ Rest(size) \in Seq(Nat) /\ Key(StackState(size)) \in Seq(Nat) /\ StackState(size) \in State
<1> DEFINE N == 2 * MAX_STACK_DEPTH + 4
           f == [p \in 1 .. N |-> p - 1]
           k == Key(StackState(size))
<1>1. N \in Nat /\ size \in Nat /\ size <= N
  BY Depth
<1>2. f \in Seq(Nat) /\ Len(f) = N /\ \A p \in 1 .. N : f[p] = p - 1
  BY <1>1, IsASeq
<1>3. DeepStack = <<>> \o f
  BY DEF DeepStack, StackOf
<1> HIDE DEF f, N
<1>4. DeepStack = f
  BY <1>2, <1>3, ConcatEmptySeq
<1>5. /\ Rest(size) \in Seq(Nat) /\ Len(Rest(size)) = N - size
      /\ \A p \in 1 .. N - size : Rest(size)[p] = f[size + p]
  BY <1>1, <1>2, <1>4, FromFacts DEF Rest
<1>6. StackState(size) \in State /\ StackState(size).size = size /\ \A p \in Cells : p < size => StackState(size).values[p] = p
  BY StartFacts DEF StackState
<1>7. k \in Seq(Nat) /\ Len(k) = size /\ \A p \in 1 .. size : k[p] = StackState(size).values[p - 1]
  BY <1>6, KeyFacts DEF Agrees
<1>8. \A p \in 1 .. size : k[p] = p - 1
  <2>1. \A p \in 1 .. size : p - 1 \in Cells /\ p - 1 < size
    BY <1>1, Depth DEF Cells
  <2> QED BY <1>6, <1>7, <2>1
<1> HIDE DEF k
<1>9. Len(f) = Len(k) + Len(Rest(size))
  BY <1>1, <1>2, <1>5, <1>7
<1>10. \A p \in 1 .. Len(k) : f[p] = k[p]
  BY <1>1, <1>2, <1>7, <1>8
<1>11. ASSUME NEW p \in Len(k) + 1 .. Len(k) + Len(Rest(size)) PROVE f[p] = Rest(size)[p - Len(k)]
  <2>1. p - Len(k) \in 1 .. N - size /\ size + (p - Len(k)) = p
    BY <1>1, <1>5, <1>7
  <2> QED BY <1>5, <2>1
<1>12. f = k \o Rest(size)
  BY <1>2, <1>5, <1>7, <1>9, <1>10, <1>11, SameDeep
<1> QED BY <1>4, <1>5, <1>6, <1>7, <1>12 DEF k

(* What an instruction makes of every stack of a set.                       *)
Applied(n, X) == UNION {apply(n, t) : t \in X}

(* Where a code has come to after n instructions.                           *)
IsAfter(a, code, start) ==
    a = [n \in 0 .. Len(code) |-> IF n = 0 THEN {StackState(start)} ELSE Applied(code[n], a[n - 1])]

(* Steps of it.                                                             *)
LEMMA AfterSteps ==
    ASSUME NEW code, NEW start, NEW a, Len(code) \in Nat
    PROVE  IsAfter(a, code, start) <=>
              /\ a = [n \in 0 .. Len(code) |-> a[n]] /\ a[0] = {StackState(start)}
              /\ \A n \in 1 .. Len(code) : a[n] = Applied(code[n], a[n - 1])
<1>1. ASSUME IsAfter(a, code, start)
      PROVE  /\ a = [n \in 0 .. Len(code) |-> a[n]] /\ a[0] = {StackState(start)}
             /\ \A n \in 1 .. Len(code) : a[n] = Applied(code[n], a[n - 1])
  BY <1>1 DEF IsAfter
<1>2. ASSUME a = [n \in 0 .. Len(code) |-> a[n]], a[0] = {StackState(start)},
             \A n \in 1 .. Len(code) : a[n] = Applied(code[n], a[n - 1])
      PROVE  IsAfter(a, code, start)
  <2>1. ASSUME NEW n \in 0 .. Len(code)
        PROVE  a[n] = IF n = 0 THEN {StackState(start)} ELSE Applied(code[n], a[n - 1])
    BY <1>2
  <2>2. [n \in 0 .. Len(code) |-> a[n]]
          = [n \in 0 .. Len(code) |-> IF n = 0 THEN {StackState(start)} ELSE Applied(code[n], a[n - 1])]
    BY <2>1
  <2> QED BY <1>2, <2>2 DEF IsAfter
<1> QED BY <1>1, <1>2

(* There is such a function, and After is where it ends.                    *)
LEMMA AfterIs ==
    ASSUME NEW c, MadeCode(c), NEW start \in 0 .. MAX_STACK_DEPTH
    PROVE  \E a : IsAfter(a, c, start) /\ After(c, start) = a[Len(c)]
<1> DEFINE S == SUBSET State
           N == Len(c)
           D == [n \in 1 .. N |-> [X \in S |-> Applied(c[n], X)]]
           first == {StackState(start)}
<1>1. N \in Nat /\ first \in S
  BY DeepIs DEF MadeCode
<1>2. ASSUME NEW n \in 1 .. Len(c), NEW X \in S PROVE Applied(c[n], X) \in S
  <2>1. Made(c[n]) /\ c[n] \in StackInstructions
    BY DEF MadeCode
  <2>2. \A t \in X : \A u \in apply(c[n], t) : u \in State
    BY <2>1, MadeIsReal DEF Real
  <2> QED BY <2>2 DEF Applied
<1>3. D \in [1 .. N -> [S -> S]]
  BY <1>2
<1>4. \A n \in 1 .. N : \A X \in S : D[n][X] = Applied(c[n], X)
  OBVIOUS
<1> HIDE DEF D, S, first, N
<1>5. HasSteps(N, S, first, D)
  BY <1>1, <1>3, Recursion
<1>6. PICK a \in [0 .. N -> S] : a[0] = first /\ \A n \in 1 .. N : a[n] = D[n][a[n - 1]]
  BY <1>5 DEF HasSteps
<1>7. a = [n \in 0 .. N |-> a[n]] /\ \A n \in 1 .. N : a[n] = Applied(c[n], a[n - 1])
  <2>1. \A n \in 1 .. N : n - 1 \in 0 .. N
    BY <1>1
  <2> QED BY <1>4, <1>6, <2>1
<1>8. IsAfter(a, c, start)
  BY <1>1, <1>6, <1>7, AfterSteps DEF first, N
<1> DEFINE F == CHOOSE f : IsAfter(f, c, start)
<1>9. IsAfter(F, c, start)
  BY <1>8
<1>10. After(c, start) = F[Len(c)]
  BY DEF After, IsAfter, Applied
<1> HIDE DEF F
<1> QED BY <1>9, <1>10

(* The first n instructions and one more.                                   *)
LEMMA OneMore ==
    ASSUME NEW A, NEW c \in Seq(A), NEW n \in 1 .. Len(c)
    PROVE  Top(c, n) = Append(Top(c, n - 1), c[n]) /\ Top(c, n - 1) \in Seq(A) /\ c[n] \in A /\ Top(c, n) \in Seq(A)
<1>1. 1 \in 1 .. Len(c) /\ n \in 1 .. Len(c) /\ c[n] \in A /\ 1 \in Int /\ n - 1 \in Int
  OBVIOUS
<1>2. SubSeq(c, 1, n) = SubSeq(c, 1, n - 1) \o <<c[n]>>
  BY <1>1, SubSeqRecursiveSecond
<1>3. \A i \in 1 .. n - 1 : c[i] \in A
  OBVIOUS
<1>4. SubSeq(c, 1, n - 1) \in Seq(A)
  BY <1>1, <1>3, SubSeqProperties
<1> DEFINE u == SubSeq(c, 1, n - 1)
<1> HIDE DEF u
<1>5. Append(u, c[n]) = u \o <<c[n]>> /\ Append(u, c[n]) \in Seq(A)
  BY <1>1, <1>4, AppendIsConcat, AppendProperties DEF u
<1> QED BY <1>1, <1>2, <1>4, <1>5 DEF Top, u

(* What the peephole optimizer has for a code is what the code really does, *)
(* to a stack of any depth.                                                 *)
LEMMA AfterLeads ==
    ASSUME NEW c, MadeCode(c), NEW start \in 0 .. MAX_STACK_DEPTH, NEW s \in After(c, start)
    PROVE  s \in State /\ Leads(c, DeepStack, Key(s) \o Rest(start))
<1>1. c \in Seq(StackInstructions) /\ Len(c) \in Nat
  BY DEF MadeCode
<1>2. PICK a : IsAfter(a, c, start) /\ After(c, start) = a[Len(c)]
  BY AfterIs
<1>3. a[0] = {StackState(start)} /\ \A n \in 1 .. Len(c) : a[n] = Applied(c[n], a[n - 1])
  BY <1>1, <1>2, AfterSteps
<1> DEFINE T == {n \in 0 .. Len(c) :
                   \A t \in a[n] : t \in State /\ Leads(Top(c, n), DeepStack, Key(t) \o Rest(start))}
<1>4. 0 \in T
  <2>1. DeepStack = Key(StackState(start)) \o Rest(start) /\ StackState(start) \in State
    BY DeepIs
  <2>2. Top(c, 0) = <<>>
    BY SubSeqEmpty DEF Top
  <2>3. Leads(<<>>, DeepStack, DeepStack)
    BY LeadsNone
  <2>4. Leads(Top(c, 0), DeepStack, Key(StackState(start)) \o Rest(start))
    BY <2>1, <2>2, <2>3
  <2> QED BY <1>1, <1>3, <2>1, <2>4
<1>5. ASSUME NEW n \in 1 .. Len(c), n - 1 \in T PROVE n \in T
  <2>1. Top(c, n) = Append(Top(c, n - 1), c[n]) /\ Top(c, n - 1) \in Seq(StackInstructions) /\ c[n] \in StackInstructions
    BY <1>1, OneMore
  <2>2. Made(c[n])
    BY DEF MadeCode
  <2>3. ASSUME NEW u \in a[n] PROVE u \in State /\ Leads(Top(c, n), DeepStack, Key(u) \o Rest(start))
    <3>1. PICK t \in a[n - 1] : u \in apply(c[n], t)
      BY <1>3 DEF Applied
    <3>2. t \in State /\ Leads(Top(c, n - 1), DeepStack, Key(t) \o Rest(start))
      BY <1>5
    <3>3. Real(c[n], t, u)
      BY <2>1, <2>2, <3>1, <3>2, MadeIsReal
    <3>4. u \in State /\ Reach(c[n]) <= t.size /\ Key(u) = ExecStack(c[n], Key(t))
      BY <3>3 DEF Real
    <3>5. Key(t) \in Seq(Nat) /\ Len(Key(t)) = t.size /\ Rest(start) \in Seq(Nat)
      BY <3>2, KeyFacts, DeepIs DEF Agrees
    <3>6. FrameOK(c[n], Key(t), Rest(start))
      <4>1. Numbers(c[n]) /\ c[n].op \in StackOps /\ Reach(c[n]) <= Len(Key(t))
        BY <2>1, <2>2, <3>4, <3>5 DEF Made, StackInstructions
      <4> QED BY <3>5, <4>1, ExecFramed
    <3>7. ExecStack(c[n], Key(t) \o Rest(start)) = Key(u) \o Rest(start)
      BY <3>4, <3>6 DEF FrameOK
    <3>8. Leads(Append(Top(c, n - 1), c[n]), DeepStack, ExecStack(c[n], Key(t) \o Rest(start)))
      BY <2>1, <3>2, LeadsAppend
    <3> QED BY <2>1, <3>4, <3>7, <3>8
  <2> QED BY <2>3
<1> HIDE DEF T
<1>6. \A n \in 0 .. Len(c) : n \in T
  BY <1>1, <1>4, <1>5, Upwards
<1>7. Len(c) \in T
  BY <1>1, <1>6
<1>8. Top(c, Len(c)) = c
  BY <1>1, SubSeqFull DEF Top
<1> QED BY <1>2, <1>7, <1>8 DEF T

(***************************************************************************)
(* The way back to the start.  d is how many instructions lead to an entry *)
(* of a table: no more than recover looks for.                             *)
(***************************************************************************)
ChainOK(table, size, withCompound, d) ==
    /\ d \in [DOMAIN table -> 0 .. MaxDepth(withCompound)]
    /\ Key(StackState(size)) \in DOMAIN table /\ table[Key(StackState(size))].gas = 0
    /\ \A key \in DOMAIN table :
         /\ key \in Seq(Nat) /\ table[key].gas \in Nat
         /\ key # Key(StackState(size)) =>
              table[key].op \in AllEdges /\ table[key].prev \in DOMAIN table /\ d[table[key].prev] < d[key]

QueueDepth(queue, withCompound, d) == \A y \in queue : d[Key(y.state)] <= y.qty /\ y.qty < MaxDepth(withCompound)

(* Which tables are finished.                                               *)
TablesDone ==
    /\ stackSize <= MAX_STACK_DEPTH \/ compound
    /\ compound => \A size \in 0 .. MAX_STACK_DEPTH : <<FALSE, size>> \in DOMAIN m_dp
    /\ \A size \in 0 .. MAX_STACK_DEPTH : size < stackSize => <<compound, size>> \in DOMAIN m_dp

PathInv ==
    /\ Searching => \E d : ChainOK(dp, stackSize, compound, d) /\ QueueDepth(q, compound, d)
    /\ \A withCompound \in BOOLEAN, size \in 0 .. MAX_STACK_DEPTH :
         <<withCompound, size>> \in DOMAIN m_dp => \E d : ChainOK(m_dp[<<withCompound, size>>], size, withCompound, d)
    /\ TablesDone

(* The search is bounded.                                                   *)
LEMMA MaxDepthFacts ==
    ASSUME NEW withCompound \in BOOLEAN
    PROVE  MaxDepth(withCompound) \in Nat /\ MaxDepth(withCompound) >= 1
BY Depth DEF MaxDepth

(* An instruction is not the mark of the start.                             *)
LEMMA EdgeIsOp ==
    ASSUME NEW n \in AllEdges
    PROVE  n # NoOp
<1>1. n.op \in StackOps
  BY EdgeNumbers
<1>2. NoOp.op = "nullptr"
  BY InstrFields DEF NoOp
<1> QED BY <1>1, <1>2 DEF StackOps

(* A turn of the loop keeps the ways.                                       *)
LEMMA ExpandPath ==
    ASSUME SearchInv, Searching, NEW x, NEW taken, Expansion(x, taken), UNCHANGED <<compound, stackSize>>,
           NEW d, ChainOK(dp, stackSize, compound, d), QueueDepth(q, compound, d)
    PROVE  \E e : ChainOK(dp', stackSize, compound, e) /\ QueueDepth(q', compound, e)
<1> DEFINE k == Key(x.state)
           start == Key(StackState(stackSize))
           M == MaxDepth(compound)
           e == [key \in DOMAIN dp' |-> IF Replaced(taken, key) THEN d[k] + 1 ELSE d[key]]
<1>1. /\ x \in q /\ x.state \in State /\ x.gas \in Nat /\ x.qty \in Nat /\ k \in DOMAIN dp /\ dp[k].gas = x.gas
      /\ M \in Nat
  BY MaxDepthFacts DEF Expansion, SearchInv, QueueOK
<1>2. /\ d \in [DOMAIN dp -> 0 .. M] /\ start \in DOMAIN dp /\ dp[start].gas = 0
      /\ \A key \in DOMAIN dp :
           /\ key \in Seq(Nat) /\ dp[key].gas \in Nat
           /\ key # start => dp[key].op \in AllEdges /\ dp[key].prev \in DOMAIN dp /\ d[dp[key].prev] < d[key]
  BY DEF ChainOK
<1>3. d[k] \in 0 .. M /\ d[k] <= x.qty /\ x.qty < M /\ d[k] + 1 \in 0 .. M /\ d[k] < d[k] + 1
  <2>1. d[k] \in 0 .. M /\ d[k] <= x.qty /\ x.qty < M
    BY <1>1, <1>2 DEF QueueDepth
  <2> QED BY <1>1, <2>1
<1>4. /\ \A key : key \in DOMAIN dp' <=> key \in DOMAIN dp \/ Replaced(taken, key)
      /\ \A m \in taken : dp'[m.key] = Entry(x, m)
      /\ \A key \in DOMAIN dp : ~Replaced(taken, key) => dp'[key] = dp[key]
  BY DEF Expansion
<1>5. ASSUME NEW m \in taken
      PROVE  /\ m.op \in AllEdges /\ m.to \in State /\ m.key = Key(m.to) /\ m.gas \in Nat /\ m.gas > x.gas
             /\ m.key \in DOMAIN dp => dp[m.key].gas > m.gas
  <2>1. /\ m.op \in AllEdges /\ m.to \in State /\ m.key = Key(m.to)
        /\ m.gas \in {x.gas + 18, x.gas + 26, x.gas + 34}
        /\ m.key \in DOMAIN dp => dp[m.key].gas > m.gas
    BY <1>1, ImprovingFacts DEF Expansion
  <2> QED BY <1>1, <2>1
<1>6. ASSUME NEW key \in DOMAIN dp, dp[key].gas <= x.gas PROVE ~Replaced(taken, key)
  <2>1. SUFFICES ASSUME NEW m \in taken, m.key = key PROVE FALSE
    BY DEF Replaced
  <2>2. m.gas \in Nat /\ m.gas > x.gas /\ dp[key].gas > m.gas /\ dp[key].gas \in Nat
    BY <1>2, <1>5, <2>1
  <2> QED BY <1>1, <1>6, <2>2
<1>7. ~Replaced(taken, k) /\ ~Replaced(taken, start)
  BY <1>1, <1>2, <1>6
<1>8. ASSUME NEW key \in DOMAIN dp, key # start PROVE ~Replaced(taken, dp[key].prev)
  <2>1. dp[key].prev \in DOMAIN dp /\ dp[key].op # NoOp
    BY <1>2, <1>8, EdgeIsOp
  <2>2. dp[dp[key].prev].gas <= x.gas
    BY <1>1, <2>1 DEF SearchInv, TableOK, EntryOK
  <2> QED BY <1>6, <2>1, <2>2
<1> HIDE DEF k, start, M
<1>9. e \in [DOMAIN dp' -> 0 .. M]
  <2>1. ASSUME NEW key \in DOMAIN dp' PROVE (IF Replaced(taken, key) THEN d[k] + 1 ELSE d[key]) \in 0 .. M
    BY <1>2, <1>3, <1>4
  <2> QED BY <2>1
<1>10. /\ \A key \in DOMAIN dp' : Replaced(taken, key) => e[key] = d[k] + 1
       /\ \A key \in DOMAIN dp' : ~Replaced(taken, key) => e[key] = d[key]
  OBVIOUS
<1> HIDE DEF e
<1>11. start \in DOMAIN dp' /\ dp'[start].gas = 0
  BY <1>2, <1>4, <1>7
<1>12. ASSUME NEW key \in DOMAIN dp'
       PROVE  /\ key \in Seq(Nat) /\ dp'[key].gas \in Nat
              /\ key # start => dp'[key].op \in AllEdges /\ dp'[key].prev \in DOMAIN dp' /\ e[dp'[key].prev] < e[key]
  <2>1. CASE Replaced(taken, key)
    <3>1. PICK m \in taken : m.key = key
      BY <2>1 DEF Replaced
    <3>2. dp'[key].gas = m.gas /\ dp'[key].op = m.op /\ dp'[key].prev = k
      <4>1. dp'[key] = Entry(x, m)
        BY <1>4, <3>1
      <4> QED BY <4>1 DEF Entry, k
    <3>3. m.op \in AllEdges /\ m.gas \in Nat /\ key = Key(m.to) /\ m.to \in State
      BY <1>5, <3>1
    <3>4. key \in Seq(Nat)
      BY <3>3, KeyFacts DEF Agrees
    <3>5. k \in DOMAIN dp' /\ e[k] = d[k] /\ e[key] = d[k] + 1
      BY <1>1, <1>4, <1>7, <1>10, <2>1
    <3> QED BY <1>3, <3>2, <3>3, <3>4, <3>5
  <2>2. CASE ~Replaced(taken, key)
    <3>1. key \in DOMAIN dp /\ dp'[key] = dp[key] /\ e[key] = d[key]
      BY <1>4, <1>10, <2>2
    <3>2. ASSUME key # start PROVE e[dp[key].prev] = d[dp[key].prev] /\ dp[key].prev \in DOMAIN dp'
      BY <1>2, <1>4, <1>8, <1>10, <3>1, <3>2
    <3> QED BY <1>2, <3>1, <3>2
  <2> QED BY <2>1, <2>2
<1>13. ASSUME NEW y \in q' PROVE e[Key(y.state)] <= y.qty /\ y.qty < M
  <2>1. CASE y \in q /\ y # x /\ ~Replaced(taken, Key(y.state))
    <3>1. Key(y.state) \in DOMAIN dp /\ d[Key(y.state)] <= y.qty /\ y.qty < M
      BY <2>1 DEF SearchInv, QueueOK, QueueDepth, M
    <3> QED BY <1>4, <1>10, <2>1, <3>1
  <2>2. ASSUME x.qty + 1 < M, NEW m \in taken, y = Continued(x, m) PROVE e[Key(y.state)] <= y.qty /\ y.qty < M
    <3>1. y.qty = x.qty + 1 /\ Key(y.state) = m.key
      BY <1>5, <2>2 DEF Continued
    <3>2. Replaced(taken, m.key) /\ m.key \in DOMAIN dp'
      BY <1>4 DEF Replaced
    <3>3. e[m.key] = d[k] + 1
      BY <1>10, <3>2
    <3>4. d[k] + 1 <= x.qty + 1
      BY <1>1, <1>3
    <3> QED BY <2>2, <3>1, <3>3, <3>4
  <2> QED BY <2>1, <2>2 DEF Expansion, M
<1>14. ChainOK(dp', stackSize, compound, e)
  BY <1>9, <1>11, <1>12 DEF ChainOK, start, M
<1>15. QueueDepth(q', compound, e)
  BY <1>13 DEF QueueDepth, M
<1> QED BY <1>14, <1>15

(* The first table has only the start.                                      *)
LEMMA FirstChain ==
    ASSUME NEW size \in 0 .. MAX_STACK_DEPTH, NEW withCompound \in BOOLEAN
    PROVE  \E d : ChainOK(FirstTable(size), size, withCompound, d) /\ QueueDepth(FirstQueue(size), withCompound, d)
<1> DEFINE s == StackState(size)
           k == Key(s)
           d == [key \in {k} |-> 0]
<1>1. k \in Seq(Nat) /\ MaxDepth(withCompound) \in Nat /\ MaxDepth(withCompound) >= 1
  BY DeepIs, MaxDepthFacts
<1>2. FirstTable(size) = [key \in {k} |-> [gas |-> 0, prev |-> key, op |-> NoOp]]
  BY DEF FirstTable
<1>3. FirstQueue(size) = {[state |-> s, gas |-> 0, qty |-> 0]}
  BY DEF FirstQueue
<1> HIDE DEF s
<1>4. QueueDepth(FirstQueue(size), withCompound, d)
  BY <1>1, <1>3 DEF QueueDepth
<1> HIDE DEF k
<1>5. ChainOK(FirstTable(size), size, withCompound, d)
  BY <1>1, <1>2 DEF ChainOK, k, s
<1> QED BY <1>4, <1>5

(* At the beginning there is no finished table.                             *)
LEMMA PathInit == Init => PathInv
<1> SUFFICES ASSUME Init PROVE PathInv
  OBVIOUS
<1>1. compound = FALSE /\ stackSize = 0 /\ dp = FirstTable(0) /\ q = FirstQueue(0) /\ DOMAIN m_dp = {}
  BY DEF Init
<1>2. 0 \in 0 .. MAX_STACK_DEPTH /\ FALSE \in BOOLEAN /\ 0 <= MAX_STACK_DEPTH /\ \A n \in 0 .. MAX_STACK_DEPTH : ~(n < 0)
  BY Depth
<1>3. \E d : ChainOK(dp, stackSize, compound, d) /\ QueueDepth(q, compound, d)
  BY <1>1, <1>2, FirstChain
<1>4. TablesDone
  BY <1>1, <1>2 DEF TablesDone
<1> QED BY <1>1, <1>3, <1>4 DEF PathInv

(* Which tables there are after another one.                                *)
LEMMA NextTableDone ==
    ASSUME SearchInv, PathInv, NextTable
    PROVE  TablesDone'
<1> DEFINE M == MAX_STACK_DEPTH
           again == stackSize = M /\ ~compound
           size == IF again THEN 0 ELSE stackSize + 1
<1>1. /\ stackSize \in Nat /\ compound \in BOOLEAN /\ M \in Nat /\ stackSize <= M
      /\ stackSize' = size /\ compound' = (compound \/ again)
      /\ DOMAIN m_dp' = DOMAIN m_dp \cup {<<compound, stackSize>>}
  BY Depth DEF NextTable, SearchInv, Stored, Searching
<1>2. /\ compound => \A n \in 0 .. M : <<FALSE, n>> \in DOMAIN m_dp
      /\ \A n \in 0 .. M : n < stackSize => <<compound, n>> \in DOMAIN m_dp
  BY DEF PathInv, TablesDone
<1>3. \A n \in 0 .. M : n <= stackSize => <<compound, n>> \in DOMAIN m_dp'
  <2>1. ASSUME NEW n \in 0 .. M, n <= stackSize PROVE <<compound, n>> \in DOMAIN m_dp'
    <3>1. n < stackSize \/ n = stackSize
      BY <1>1, <2>1
    <3> QED BY <1>1, <1>2, <3>1
  <2> QED BY <2>1
<1> HIDE DEF M
<1>4. CASE again
  <2>1. stackSize' = 0 /\ compound' = TRUE /\ compound = FALSE /\ stackSize = M
    BY <1>1, <1>4
  <2>2. \A n \in 0 .. M : <<FALSE, n>> \in DOMAIN m_dp'
    <3>1. \A n \in 0 .. M : n <= stackSize
      BY <1>1, <2>1
    <3>2. \A n \in 0 .. M : <<compound, n>> \in DOMAIN m_dp'
      BY <1>3, <3>1
    <3> QED BY <2>1, <3>2, Zenon
  <2>3. \A n \in 0 .. M : ~(n < 0)
    BY <1>1
  <2> QED BY <2>1, <2>2, <2>3 DEF TablesDone, M
<1>5. CASE ~again
  <2>1. stackSize' = stackSize + 1 /\ compound' = compound
    BY <1>1, <1>5
  <2>2. stackSize + 1 <= M \/ compound
    BY <1>1, <1>5
  <2>3. \A n \in 0 .. M : n < stackSize + 1 => n <= stackSize
    BY <1>1
  <2>4. compound => \A n \in 0 .. M : <<FALSE, n>> \in DOMAIN m_dp'
    BY <1>1, <1>2
  <2> QED BY <1>3, <2>1, <2>2, <2>3, <2>4 DEF TablesDone, M
<1> QED BY <1>4, <1>5

(* The next table.                                                          *)
LEMMA NextTablePath ==
    ASSUME SearchInv, PathInv, NextTable
    PROVE  PathInv'
<1>1. Searching /\ m_dp' = Stored /\ stackSize \in Nat /\ compound \in BOOLEAN
  BY DEF NextTable, SearchInv
<1> DEFINE again == stackSize = MAX_STACK_DEPTH /\ ~compound
           size == IF again THEN 0 ELSE stackSize + 1
<1>2. /\ stackSize' = size /\ compound' = (compound \/ again)
      /\ size <= MAX_STACK_DEPTH => dp' = FirstTable(size) /\ q' = FirstQueue(size)
  BY DEF NextTable
<1>3. size \in Nat /\ compound' \in BOOLEAN
  BY <1>1, <1>2
<1> HIDE DEF size
<1>4. ASSUME Searching' PROVE \E d : ChainOK(dp', stackSize', compound', d) /\ QueueDepth(q', compound', d)
  <2>1. size \in 0 .. MAX_STACK_DEPTH /\ dp' = FirstTable(size) /\ q' = FirstQueue(size) /\ stackSize' = size
    BY <1>2, <1>3, <1>4, Depth DEF Searching
  <2> QED BY <1>3, <2>1, FirstChain
<1>5. ASSUME NEW withCompound \in BOOLEAN, NEW n \in 0 .. MAX_STACK_DEPTH, <<withCompound, n>> \in DOMAIN m_dp'
      PROVE  \E d : ChainOK(m_dp'[<<withCompound, n>>], n, withCompound, d)
  <2>1. CASE <<withCompound, n>> = <<compound, stackSize>>
    <3>1. withCompound = compound /\ n = stackSize /\ m_dp'[<<withCompound, n>>] = dp
      BY <1>1, <1>5, <2>1 DEF Stored
    <3> QED BY <1>1, <3>1 DEF PathInv
  <2>2. CASE <<withCompound, n>> # <<compound, stackSize>>
    <3>1. <<withCompound, n>> \in DOMAIN m_dp /\ m_dp'[<<withCompound, n>>] = m_dp[<<withCompound, n>>]
      BY <1>1, <1>5, <2>2 DEF Stored
    <3> QED BY <3>1 DEF PathInv
  <2> QED BY <2>1, <2>2
<1>6. TablesDone'
  BY NextTableDone
<1> QED BY <1>4, <1>5, <1>6 DEF PathInv

(* Steps outside the search.                                                *)
LEMMA PathKept ==
    ASSUME PathInv, UNCHANGED <<compound, stackSize, dp, q, m_dp>>
    PROVE  PathInv'
<1>1. Searching' = Searching /\ TablesDone' = TablesDone
  BY DEF Searching, TablesDone
<1> QED BY <1>1 DEF PathInv

(* A turn of the loop.                                                      *)
LEMMA ExpandPaths ==
    ASSUME SearchInv, PathInv, Expand
    PROVE  PathInv'
<1>1. Searching /\ UNCHANGED <<compound, stackSize, m_dp>>
  BY DEF Expand
<1>2. PICK x \in q : \E taken : Expansion(x, taken)
  BY ExpandIs
<1>3. PICK taken : Expansion(x, taken)
  BY <1>2
<1>4. PICK d : ChainOK(dp, stackSize, compound, d) /\ QueueDepth(q, compound, d)
  BY <1>1 DEF PathInv
<1>5. \E e : ChainOK(dp', stackSize, compound, e) /\ QueueDepth(q', compound, e)
  BY <1>1, <1>3, <1>4, ExpandPath
<1>6. TablesDone' = TablesDone
  BY <1>1 DEF TablesDone
<1> QED BY <1>1, <1>5, <1>6 DEF PathInv

(* Every step keeps the ways.                                               *)
LEMMA PathNext == SearchInv /\ PathInv /\ [Next]_vars => PathInv'
<1> SUFFICES ASSUME SearchInv, PathInv, [Next]_vars PROVE PathInv'
  OBVIOUS
<1>1. CASE Expand
  BY <1>1, ExpandPaths
<1>2. CASE NextTable
  BY <1>2, NextTablePath
<1>3. ASSUME NEW code \in Codes, NEW withCompound \in BOOLEAN, Squash(code, withCompound) PROVE PathInv'
  BY <1>3, PathKept DEF Squash
<1>4. CASE UNCHANGED vars
  BY <1>4, PathKept DEF vars
<1> QED BY <1>1, <1>2, <1>3, <1>4 DEF Next

(***************************************************************************)
(* recover(): one instruction back, and the whole way.                     *)
(***************************************************************************)
Back(table, first, x) ==
    IF x.at = first THEN x ELSE [at |-> table[x.at].prev, ops |-> <<table[x.at].op>> \o x.ops]
IsPath(p, table, first, key, N) ==
    p = [n \in 0 .. N |-> IF n = 0 THEN [at |-> key, ops |-> <<>>] ELSE Back(table, first, p[n - 1])]

(* Steps of the way.                                                        *)
LEMMA PathSteps ==
    ASSUME NEW table, NEW first, NEW key, NEW N \in Nat, NEW p
    PROVE  IsPath(p, table, first, key, N) <=>
              /\ p = [n \in 0 .. N |-> p[n]] /\ p[0] = [at |-> key, ops |-> <<>>]
              /\ \A n \in 1 .. N : p[n] = Back(table, first, p[n - 1])
<1>1. ASSUME IsPath(p, table, first, key, N)
      PROVE  /\ p = [n \in 0 .. N |-> p[n]] /\ p[0] = [at |-> key, ops |-> <<>>]
             /\ \A n \in 1 .. N : p[n] = Back(table, first, p[n - 1])
  BY <1>1 DEF IsPath
<1>2. ASSUME p = [n \in 0 .. N |-> p[n]], p[0] = [at |-> key, ops |-> <<>>],
             \A n \in 1 .. N : p[n] = Back(table, first, p[n - 1])
      PROVE  IsPath(p, table, first, key, N)
  <2>1. ASSUME NEW n \in 0 .. N
        PROVE  p[n] = IF n = 0 THEN [at |-> key, ops |-> <<>>] ELSE Back(table, first, p[n - 1])
    <3>1. CASE n = 0
      BY <1>2, <3>1
    <3>2. CASE n # 0
      <4>1. n \in 1 .. N
        BY <3>2
      <4>2. p[n] = Back(table, first, p[n - 1])
        BY <1>2, <4>1, Zenon
      <4> QED BY <3>2, <4>2, Zenon
    <3> QED BY <3>1, <3>2
  <2>2. [n \in 0 .. N |-> p[n]]
          = [n \in 0 .. N |-> IF n = 0 THEN [at |-> key, ops |-> <<>>] ELSE Back(table, first, p[n - 1])]
    BY <2>1
  <2> QED BY <1>2, <2>2 DEF IsPath
<1> QED BY <1>1, <1>2

(* What recover collects, n instructions from the end.                      *)
Collected(x, table, first, key, R, d, n) ==
    /\ x \in [at : DOMAIN table, ops : Seq(AllEdges)]
    /\ Leads(x.ops, x.at \o R, key \o R)
    /\ \E gas : Costs(x.ops, gas) /\ gas + table[x.at].gas = table[key].gas
    /\ x.at = first \/ d[x.at] + n <= d[key]

(* A table with a way from every entry to the start.                        *)
RealTable(table) ==
    \A key \in DOMAIN table :
        table[key].op # NoOp =>
            /\ table[key].prev \in DOMAIN table
            /\ Reach(table[key].op) <= Len(table[key].prev)
            /\ ExecStack(table[key].op, table[key].prev) = key
            /\ table[key].gas = table[table[key].prev].gas + GasCost(table[key].op)

(* One instruction back.                                                    *)
LEMMA BackStep ==
    ASSUME NEW table, NEW size, NEW withCompound \in BOOLEAN, NEW d, NEW key \in DOMAIN table, NEW R \in Seq(Nat),
           ChainOK(table, size, withCompound, d), RealTable(table), NEW n \in Nat, NEW x,
           Collected(x, table, Key(StackState(size)), key, R, d, n)
    PROVE  Collected(Back(table, Key(StackState(size)), x), table, Key(StackState(size)), key, R, d, n + 1)
<1> DEFINE first == Key(StackState(size))
           y == Back(table, first, x)
<1> HIDE DEF first
<1>1. /\ x \in [at : DOMAIN table, ops : Seq(AllEdges)] /\ Leads(x.ops, x.at \o R, key \o R)
      /\ x.at = first \/ d[x.at] + n <= d[key]
  BY DEF Collected, first
<1>2. PICK gas : Costs(x.ops, gas) /\ gas + table[x.at].gas = table[key].gas
  BY DEF Collected, first
<1>3. CASE x.at = first
  <2>1. y = x
    BY <1>3 DEF Back
  <2> HIDE DEF y
  <2>2. Collected(y, table, first, key, R, d, n + 1)
    BY <1>1, <1>2, <1>3, <2>1 DEF Collected
  <2> QED BY <2>2 DEF first, y
<1>4. CASE x.at # first
  <2> DEFINE o == table[x.at].op  p == table[x.at].prev
  <2>1. /\ x.at \in DOMAIN table /\ x.ops \in Seq(AllEdges) /\ x.at \in Seq(Nat)
        /\ o \in AllEdges /\ p \in DOMAIN table /\ d[p] < d[x.at] /\ p \in Seq(Nat)
        /\ d \in [DOMAIN table -> 0 .. MaxDepth(withCompound)] /\ table[p].gas \in Nat
        /\ table[x.at].gas \in Nat
    BY <1>1, <1>4 DEF ChainOK, first
  <2>2. /\ o # NoOp /\ Reach(o) <= Len(p) /\ ExecStack(o, p) = x.at
        /\ table[x.at].gas = table[p].gas + GasCost(o)
    BY <2>1, EdgeIsOp DEF RealTable
  <2>3. y = [at |-> p, ops |-> <<o>> \o x.ops]
    BY <1>4 DEF Back
  <2> HIDE DEF o, p, y
  <2>4. y.at = p /\ y.ops = <<o>> \o x.ops /\ <<o>> \o x.ops \in Seq(AllEdges)
    BY <2>1, <2>3, InFront
  <2>5. y \in [at : DOMAIN table, ops : Seq(AllEdges)]
    BY <2>1, <2>3, <2>4
  <2>6. ExecStack(o, p \o R) = x.at \o R
    <3>1. Numbers(o) /\ o.op \in StackOps
      BY <2>1, EdgeNumbers
    <3>2. FrameOK(o, p, R)
      BY <2>1, <2>2, <3>1, ExecFramed
    <3> QED BY <2>2, <3>2 DEF FrameOK
  <2>7. Leads(<<o>> \o x.ops, p \o R, key \o R)
    BY <1>1, <2>1, <2>6, LeadsInFront
  <2>8. Costs(<<o>> \o x.ops, gas + GasCost(o))
    BY <1>2, <2>1, CostsInFront
  <2>9. (gas + GasCost(o)) + table[p].gas = table[key].gas
    <3>1. gas \in Nat /\ GasCost(o) \in Nat
      BY <1>2, GasValues DEF Costs
    <3> QED BY <1>2, <2>1, <2>2, <3>1
  <2>10. d[p] + (n + 1) <= d[key]
    <3>1. d[p] \in Nat /\ d[x.at] \in Nat /\ d[key] \in Nat
      BY <2>1, MaxDepthFacts
    <3> QED BY <1>1, <1>4, <2>1, <3>1
  <2>11. Collected(y, table, first, key, R, d, n + 1)
    BY <2>4, <2>5, <2>7, <2>8, <2>9, <2>10 DEF Collected
  <2> QED BY <2>11 DEF first, y
<1> QED BY <1>3, <1>4

(* The whole way.                                                           *)
LEMMA PathCollected ==
    ASSUME NEW table, NEW size, NEW withCompound \in BOOLEAN, NEW d, NEW key \in DOMAIN table, NEW R \in Seq(Nat),
           ChainOK(table, size, withCompound, d), RealTable(table),
           NEW first, first = Key(StackState(size)), NEW N, N = MaxDepth(withCompound),
           NEW p, IsPath(p, table, first, key, N)
    PROVE  /\ p[N].ops \in Seq(AllEdges) /\ Leads(p[N].ops, first \o R, key \o R)
           /\ Costs(p[N].ops, table[key].gas)
<1> DEFINE T == {n \in 0 .. N : Collected(p[n], table, first, key, R, d, n)}
<1>1. N \in Nat
  BY MaxDepthFacts
<1>2. p[0] = [at |-> key, ops |-> <<>>] /\ \A n \in 1 .. N : p[n] = Back(table, first, p[n - 1])
  BY <1>1 DEF IsPath
<1>3. /\ d \in [DOMAIN table -> 0 .. N] /\ key \in Seq(Nat) /\ table[key].gas \in Nat /\ table[first].gas = 0
      /\ \A k \in DOMAIN table : k # first => table[k].prev \in DOMAIN table /\ d[table[k].prev] < d[k]
  BY DEF ChainOK
<1>4. 0 \in T
  <2>1. p[0].at = key /\ p[0].ops = <<>> /\ p[0] \in [at : DOMAIN table, ops : Seq(AllEdges)]
    BY <1>2
  <2>2. Leads(<<>>, key \o R, key \o R) /\ Costs(<<>>, 0)
    BY LeadsNone, CostsNone
  <2>3. 0 + table[key].gas = table[key].gas
    BY <1>3
  <2>4. d[key] + 0 <= d[key]
    BY <1>1, <1>3
  <2>5. Collected(p[0], table, first, key, R, d, 0)
    BY <2>1, <2>2, <2>3, <2>4 DEF Collected
  <2> QED BY <1>1, <2>5
<1>5. ASSUME NEW n \in 1 .. N, n - 1 \in T PROVE n \in T
  <2>1. Collected(p[n - 1], table, first, key, R, d, n - 1) /\ n - 1 \in Nat /\ (n - 1) + 1 = n
    BY <1>1, <1>5
  <2>2. Collected(Back(table, first, p[n - 1]), table, first, key, R, d, (n - 1) + 1)
    BY <2>1, BackStep
  <2>3. p[n] = Back(table, first, p[n - 1])
    BY <1>2
  <2>4. Collected(p[n], table, first, key, R, d, n)
    BY <2>1, <2>2, <2>3
  <2> QED BY <2>4
<1> HIDE DEF T
<1>6. \A n \in 0 .. N : n \in T
  BY <1>1, <1>4, <1>5, Upwards
<1>7. Collected(p[N], table, first, key, R, d, N)
  BY <1>1, <1>6 DEF T
<1> DEFINE x == p[N]
<1> HIDE DEF x
<1>8. /\ x.at \in DOMAIN table /\ x.ops \in Seq(AllEdges) /\ Leads(x.ops, x.at \o R, key \o R)
      /\ \E gas : Costs(x.ops, gas) /\ gas + table[x.at].gas = table[key].gas
      /\ x.at = first \/ d[x.at] + N <= d[key]
  BY <1>7 DEF Collected, x
<1>9. x.at = first
  <2>1. SUFFICES ASSUME x.at # first PROVE FALSE
    OBVIOUS
  <2>2. d[x.at] \in 0 .. N /\ d[key] \in 0 .. N /\ d[table[x.at].prev] \in 0 .. N
        /\ d[x.at] + N <= d[key] /\ d[table[x.at].prev] < d[x.at]
    BY <1>3, <1>8, <2>1
  <2> QED BY <1>1, <2>2
<1>10. Costs(x.ops, table[key].gas)
  <2>1. PICK gas : Costs(x.ops, gas) /\ gas + table[x.at].gas = table[key].gas
    BY <1>8
  <2>2. gas \in Nat
    BY <2>1 DEF Costs
  <2>3. gas = table[key].gas
    BY <1>3, <1>9, <2>1, <2>2
  <2> QED BY <2>1, <2>3
<1> QED BY <1>8, <1>9, <1>10 DEF x

(* recover follows such a way.                                              *)
LEMMA RecoverIs ==
    ASSUME NEW table, NEW size, NEW withCompound \in BOOLEAN, NEW d, NEW key \in DOMAIN table,
           ChainOK(table, size, withCompound, d), table = m_dp[<<withCompound, size>>],
           NEW first, first = Key(StackState(size)), NEW N, N = MaxDepth(withCompound)
    PROVE  \E p : IsPath(p, table, first, key, N) /\ recover(size, key, withCompound) = p[N].ops
<1> DEFINE S == [at : DOMAIN table, ops : Seq(AllEdges)]
           D == [n \in 1 .. N |-> [x \in S |-> Back(table, first, x)]]
           c == [at |-> key, ops |-> <<>>]
<1>1. N \in Nat /\ c \in S
  BY MaxDepthFacts
<1>2. ASSUME NEW x \in S PROVE Back(table, first, x) \in S
  <2>1. CASE x.at = first
    BY <2>1 DEF Back
  <2>2. CASE x.at # first
    <3>1. x.at \in DOMAIN table /\ x.ops \in Seq(AllEdges)
      OBVIOUS
    <3>2. table[x.at].op \in AllEdges /\ table[x.at].prev \in DOMAIN table
      BY <2>2, <3>1 DEF ChainOK
    <3>3. <<table[x.at].op>> \o x.ops \in Seq(AllEdges)
      BY <3>1, <3>2, InFront
    <3> QED BY <2>2, <3>2, <3>3 DEF Back
  <2> QED BY <2>1, <2>2
<1>3. D \in [1 .. N -> [S -> S]]
  BY <1>2
<1>4. \A n \in 1 .. N : \A x \in S : D[n][x] = Back(table, first, x)
  OBVIOUS
<1> HIDE DEF S, D, c
<1>5. HasSteps(N, S, c, D)
  BY <1>1, <1>3, Recursion
<1>6. PICK p \in [0 .. N -> S] : p[0] = c /\ \A n \in 1 .. N : p[n] = D[n][p[n - 1]]
  BY <1>5 DEF HasSteps
<1>7. p = [n \in 0 .. N |-> p[n]] /\ \A n \in 1 .. N : p[n] = Back(table, first, p[n - 1])
  <2>1. \A n \in 1 .. N : n - 1 \in 0 .. N
    BY <1>1
  <2> QED BY <1>4, <1>6, <2>1
<1>8. IsPath(p, table, first, key, N)
  BY <1>1, <1>6, <1>7, PathSteps DEF c
<1> DEFINE F == CHOOSE f : IsPath(f, table, first, key, N)
<1>9. IsPath(F, table, first, key, N)
  BY <1>8
<1>10. recover(size, key, withCompound) = F[N].ops
  BY DEF recover, IsPath, Back
<1> HIDE DEF F
<1> QED BY <1>9, <1>10

(* The instructions that recover returns lead to the stack it is asked for, *)
(* whatever lies under it, at the price of the table.                       *)
LEMMA RecoverLeads ==
    ASSUME SearchInv, PathInv, NEW withCompound \in BOOLEAN, NEW size \in 0 .. MAX_STACK_DEPTH,
           <<withCompound, size>> \in DOMAIN m_dp, NEW key \in DOMAIN m_dp[<<withCompound, size>>]
    PROVE  /\ recover(size, key, withCompound) \in Seq(AllEdges)
           /\ Leads(recover(size, key, withCompound), DeepStack, key \o Rest(size))
           /\ Costs(recover(size, key, withCompound), m_dp[<<withCompound, size>>][key].gas)
<1> DEFINE table == m_dp[<<withCompound, size>>]
           first == Key(StackState(size))
           N == MaxDepth(withCompound)
           new == recover(size, key, withCompound)
<1>1. PICK d : ChainOK(table, size, withCompound, d)
  BY DEF PathInv
<1>2. RealTable(table)
  BY DEF SearchInv, TablesAreReal, RealTable
<1>3. DeepStack = first \o Rest(size) /\ Rest(size) \in Seq(Nat)
  BY DeepIs
<1>4. \E p : IsPath(p, table, first, key, N) /\ new = p[N].ops
  BY <1>1, RecoverIs
<1>5. PICK p : IsPath(p, table, first, key, N) /\ new = p[N].ops
  BY <1>4
<1>6. /\ p[N].ops \in Seq(AllEdges) /\ Leads(p[N].ops, first \o Rest(size), key \o Rest(size))
      /\ Costs(p[N].ops, table[key].gas)
  BY <1>1, <1>2, <1>3, <1>5, PathCollected
<1> QED BY <1>3, <1>5, <1>6

(* A part of a code is a code.                                              *)
LEMMA PartIsMade ==
    ASSUME NEW code \in Codes, NEW n \in 1 .. Len(code)
    PROVE  MadeCode(Top(code, n))
<1>1. code \in Seq(StackInstructions) /\ \A p \in 1 .. Len(code) : Made(code[p])
  BY CodesAssumption
<1>2. Len(code) \in Nat /\ \A p \in 1 .. n : p \in 1 .. Len(code) /\ code[p] \in StackInstructions
  BY <1>1
<1>3. /\ SubSeq(code, 1, n) \in Seq(StackInstructions)
      /\ Len(SubSeq(code, 1, n)) = IF 1 <= n THEN n - 1 + 1 ELSE 0
      /\ \A p \in 1 .. n - 1 + 1 : SubSeq(code, 1, n)[p] = code[1 + p - 1]
  BY <1>2, SubSeqProperties, 1 \in Int, n \in Int
<1>4. Len(Top(code, n)) = n /\ \A p \in 1 .. n : Top(code, n)[p] = code[p]
  <2>1. n - 1 + 1 = n /\ 1 <= n /\ \A p \in 1 .. n : 1 + p - 1 = p
    OBVIOUS
  <2> QED BY <1>3, <2>1 DEF Top
<1>5. \A p \in 1 .. n : Made(Top(code, n)[p])
  BY <1>1, <1>2, <1>4
<1> QED BY <1>3, <1>4, <1>5 DEF MadeCode, Top

(* A replacement does what it should.                                       *)
LEMMA SquashStep ==
    ASSUME SearchInv, PathInv, NEW code \in Codes, NEW withCompound \in BOOLEAN, Squash(code, withCompound)
    PROVE  SquashKeepsStack'
<1>1. ~Searching /\ stackSize \in Nat
  BY DEF Squash, SearchInv
<1>2. PICK r \in Savings(code, withCompound) :
           squashed' = [old |-> Top(code, r.qty), new |-> recover(r.start, r.key, withCompound)]
  BY DEF Squash
<1> DEFINE Found(size, n) == {[start |-> size, qty |-> n, key |-> Key(s)] : s \in After(Top(code, n), size)}
<1>3. /\ r \in UNION {Found(size, n) : size \in 0 .. MAX_STACK_DEPTH, n \in 1 .. Len(code)}
      /\ r.key \in DOMAIN m_dp[<<withCompound, r.start>>]
      /\ m_dp[<<withCompound, r.start>>][r.key].gas < CodeGas(Top(code, r.qty))
  BY <1>2 DEF Savings
<1>4. PICK size \in 0 .. MAX_STACK_DEPTH, n \in 1 .. Len(code) : r \in Found(size, n)
  <2> HIDE DEF Found
  <2> QED BY <1>3
<1>5. PICK s \in After(Top(code, n), size) : r = [start |-> size, qty |-> n, key |-> Key(s)]
  BY <1>4
<1>6. r.start = size /\ r.qty = n /\ r.key = Key(s)
  BY <1>5
<1> DEFINE old == Top(code, n)
           new == recover(size, Key(s), withCompound)
           table == m_dp[<<withCompound, size>>]
<1>7. Key(s) \in DOMAIN table /\ table[Key(s)].gas < CodeGas(old) /\ squashed' = [old |-> old, new |-> new]
  BY <1>2, <1>3, <1>6
<1>8. <<withCompound, size>> \in DOMAIN m_dp
  <2>1. compound /\ size < stackSize
    BY <1>1, Depth DEF PathInv, TablesDone, Searching
  <2>2. <<FALSE, size>> \in DOMAIN m_dp /\ <<compound, size>> \in DOMAIN m_dp
    BY <2>1 DEF PathInv, TablesDone
  <2>3. compound = TRUE
    BY <2>1 DEF SearchInv
  <2>4. CASE withCompound = TRUE
    BY <2>2, <2>3, <2>4, Zenon
  <2>5. CASE withCompound = FALSE
    BY <2>2, <2>5, Zenon
  <2> QED BY <2>4, <2>5
<1>9. MadeCode(old)
  BY PartIsMade
<1>10. Leads(old, DeepStack, Key(s) \o Rest(size)) /\ Len(old) \in Nat
  BY <1>9, AfterLeads DEF MadeCode
<1>11. new \in Seq(AllEdges) /\ Leads(new, DeepStack, Key(s) \o Rest(size)) /\ Costs(new, table[Key(s)].gas)
  BY <1>7, <1>8, RecoverLeads
<1> HIDE DEF old, new, table
<1>12. Run(old, DeepStack) = Key(s) \o Rest(size) /\ Run(new, DeepStack) = Key(s) \o Rest(size)
  <2>1. Len(new) \in Nat
    BY <1>11
  <2> QED BY <1>10, <1>11, <2>1, RunIs
<1>13. CodeGas(new) < CodeGas(old)
  <2>1. Len(new) \in Nat
    BY <1>11
  <2>2. CodeGas(new) = table[Key(s)].gas
    BY <1>11, <2>1, GasIs
  <2> QED BY <1>7, <2>2
<1>14. squashed'.old = old /\ squashed'.new = new
  BY <1>7
<1> QED BY <1>12, <1>13, <1>14 DEF SquashKeepsStack

(* Only a replacement changes what was replaced last.                       *)
LEMMA SquashKept ==
    ASSUME SquashKeepsStack, UNCHANGED squashed
    PROVE  SquashKeepsStack'
BY DEF SquashKeepsStack

(* What StackOpcodeSquasher puts in place of a run of stack instructions    *)
(* leaves the same stack, whatever lies under the cells it was found for,   *)
(* and costs less gas: for every code, every depth of the stacks and every  *)
(* number of instructions.                                                  *)
THEOREM ReplacementsKeepStack == Spec => []SquashKeepsStack
<1> DEFINE Inv == SearchInv /\ PathInv /\ SquashKeepsStack
<1>1. Init => Inv
  BY SearchInit, PathInit DEF Init, SquashKeepsStack
<1>2. Inv /\ [Next]_vars => Inv'
  <2> SUFFICES ASSUME Inv, [Next]_vars PROVE Inv'
    OBVIOUS
  <2>1. SearchInv' /\ PathInv'
    BY SearchNext, PathNext
  <2>2. CASE UNCHANGED squashed
    BY <2>1, <2>2, SquashKept
  <2>3. ASSUME NEW code \in Codes, NEW withCompound \in BOOLEAN, Squash(code, withCompound) PROVE SquashKeepsStack'
    BY <2>3, SquashStep
  <2> QED BY <2>1, <2>2, <2>3 DEF Next, Expand, NextTable, vars
<1> QED BY <1>1, <1>2, PTL DEF Spec
=============================================================================
