------------------------------- MODULE TvmStack -------------------------------
(***************************************************************************)
(* The stack instructions of the TVM, as the virtual machine executes      *)
(* them: the reference against which the optimizers are checked.  A stack  *)
(* is a sequence whose first element is the top; instructions number the   *)
(* elements from 0.                                                        *)
(***************************************************************************)
EXTENDS Integers, Sequences

(* Op(v), with v evaluated once.                                           *)
Strict(v, Op(_)) == CHOOSE r \in {Op(x) : x \in {v}} : TRUE

(* A node of the code tree: i, j, k are its numbers, t and f its blocks.   *)
Instr(op, i, j, k) ==
    [op |-> op, i |-> i, j |-> j, k |-> k, name |-> "", pure |-> FALSE, t |-> <<>>, f |-> <<>>]

PUSH(i) == Instr("PUSH_S", i, -1, -1)
PUSH2(i, j) == Instr("PUSH2_S", i, j, -1)
BLKPUSH(n, j) == Instr("BLKPUSH", n, j, -1)
POP(i) == Instr("POP_S", i, -1, -1)
DROP(n) == Instr("DROP", n, -1, -1)
BLKDROP2(n, left) == Instr("BLKDROP2", n, left, -1)
BLKSWAP(down, up) == Instr("BLKSWAP", down, up, -1)
REVERSE(n, j) == Instr("REVERSE", n, j, -1)
XCHG(i, j) == Instr("XCHG", i, j, -1)

-----------------------------------------------------------------------------
(* The basic instructions. *)
From(s, n) == SubSeq(s, n + 1, Len(s))       \* without the n top elements
Top(s, n) == SubSeq(s, 1, n)
StackOf(n, Value(_)) == <<>> \o [p \in 1..n |-> Value(p)]

DoPush(s, i) == <<s[i + 1]>> \o s
DoPop(s, i) == [Tail(s) EXCEPT ![i] = s[1]]
DoXchg(s, i, j) == [s EXCEPT ![i + 1] = s[j + 1], ![j + 1] = s[i + 1]]
DoDropUnder(s, n, left) == Top(s, left) \o From(s, left + n)
DoBlkSwap(s, down, up) == SubSeq(s, up + 1, up + down) \o Top(s, up) \o From(s, up + down)
DoReverse(s, n, j) == Top(s, j) \o [p \in 1..n |-> s[j + n + 1 - p]] \o From(s, j + n)
DoBlkPush(s, n, j) == [p \in 1..n |-> s[j + 1 - ((n - p) % (j + 1))]] \o s

(* The compound instructions, by their definition in terms of basic ones. *)
DoPush2(s, i, j) == DoPush(DoPush(s, i), j + 1)
DoXchg2(s, i, j) == DoXchg(DoXchg(s, 1, i), 0, j)
DoPuxc(s, i, j) == DoXchg(DoXchg(DoPush(s, i), 0, 1), 0, j + 1)

StackOps == {"PUSH_S", "PUSH2_S", "PUSH3_S", "BLKPUSH", "POP_S", "DROP", "BLKDROP2", "BLKSWAP",
             "REVERSE", "XCHG", "XCHG2", "XCHG3", "XCPU", "XC2PU", "XCPU2", "XCPUXC",
             "PUXC", "PUXC2", "PUXCPU", "PU2XC"}

ExecStack(n, s) ==
    CASE n.op = "PUSH_S"   -> DoPush(s, n.i)
      [] n.op = "PUSH2_S"  -> DoPush2(s, n.i, n.j)
      [] n.op = "PUSH3_S"  -> DoPush(DoPush2(s, n.i, n.j), n.k + 2)
      [] n.op = "BLKPUSH"  -> DoBlkPush(s, n.i, n.j)
      [] n.op = "POP_S"    -> DoPop(s, n.i)
      [] n.op = "DROP"     -> From(s, n.i)
      [] n.op = "BLKDROP2" -> DoDropUnder(s, n.i, n.j)
      [] n.op = "BLKSWAP"  -> DoBlkSwap(s, n.i, n.j)
      [] n.op = "REVERSE"  -> DoReverse(s, n.i, n.j)
      [] n.op = "XCHG"     -> DoXchg(s, n.i, n.j)
      [] n.op = "XCHG2"    -> DoXchg2(s, n.i, n.j)
      [] n.op = "XCHG3"    -> DoXchg(DoXchg(DoXchg(s, 2, n.i), 1, n.j), 0, n.k)
      [] n.op = "XCPU"     -> DoPush(DoXchg(s, 0, n.i), n.j)
      [] n.op = "XC2PU"    -> DoPush(DoXchg2(s, n.i, n.j), n.k)
      [] n.op = "XCPU2"    -> DoPush2(DoXchg(s, 0, n.i), n.j, n.k)
      [] n.op = "XCPUXC"   -> DoPuxc(DoXchg(s, 1, n.i), n.j, n.k)
      [] n.op = "PUXC"     -> DoPuxc(s, n.i, n.j)
      [] n.op = "PUXC2"    -> DoXchg2(DoXchg(DoPush(s, n.i), 0, 2), n.j + 1, n.k + 1)
      [] n.op = "PUXCPU"   -> DoPush(DoPuxc(s, n.i, n.j), n.k + 1)
      [] n.op = "PU2XC"    -> DoPuxc(DoXchg(DoPush(s, n.i), 0, 1), n.j + 1, n.k + 1)

(* How deep an instruction reaches. *)
Max2(a, b) == IF a > b THEN a ELSE b
Max4(a, b, c, d) == Max2(Max2(a, b), Max2(c, d))

Reach(n) ==
    CASE n.op = "DROP" -> n.i
      [] n.op \in {"BLKDROP2", "BLKSWAP", "REVERSE"} -> n.i + n.j
      [] n.op = "BLKPUSH" -> n.j + 1
      [] n.op \in {"XCHG2", "XCPUXC", "XC2PU", "PUXC2"} -> Max4(n.i, n.j, n.k, 1) + 1
      [] n.op = "XCHG3" -> Max4(n.i, n.j, n.k, 2) + 1
      [] OTHER -> Max4(n.i, n.j, n.k, 0) + 1
=============================================================================
