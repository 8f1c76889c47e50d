---------------------------- MODULE StackOptimizer ----------------------------
(***************************************************************************)
(* class StackOptimizer: it goes through the code of a function, block by  *)
(* block, and at every node tries its rewritings, most of which remove a   *)
(* stack element that the rest of the block never reads.  The passes are   *)
(* repeated until nothing changes, at most IterStackOptQty times.          *)
(***************************************************************************)
EXTENDS TvmSimulator

CONSTANTS
    Functions,          \* the functions compiled: [take : Nat, code : block]
    IterStackOptQty     \* TvmConst::IterStackOptQty

VARIABLES
    fun,        \* the function, as it came from the code generator
    frames,     \* the blocks being visited, the function's own block first
    iter,       \* number of the pass
    didSome,    \* m_didSome
    done        \* the optimizer has finished with the function

vars == <<fun, frames, iter, didSome, done>>

(* code: the block; idx: the node to visit; size: m_stackSize.back();       *)
(* part: which body of the enclosing node this is                           *)
Frame(code, size, part) == [code |-> code, idx |-> 1, size |-> size, part |-> part]

depth == Len(frames)
top == frames[depth]

scopeSize == top.size - (IF depth = 1 THEN 0 ELSE frames[depth - 1].size)

-----------------------------------------------------------------------------
(***************************************************************************)
(* successfullyUpdate.  Every rewriting yields the set of the blocks that  *)
(* may replace the code from the node on: empty when it does not apply.    *)
(***************************************************************************)
isPOP(n) == n.op = "POP_S" \/ (n.op = "BLKDROP2" /\ n.i = 1 /\ n.j = 1)
popIndex(n) == IF n.op = "POP_S" THEN n.i ELSE 1
isPUSH(n) == n.op = "PUSH_S" \/ (n.op = "BLKPUSH" /\ n.i = 1)
pushIndex(n) == IF n.op = "PUSH_S" THEN n.i ELSE n.j
isDrop(n) == n.op = "DROP"

isSWAP(n) == \/ n.op = "BLKSWAP" /\ n.i = 1 /\ n.j = 1
             \/ n.op = "XCHG" /\ n.i = 0 /\ n.j = 1
             \/ n.op = "REVERSE" /\ n.i = 2 /\ n.j = 0
isBLKSWAP(n) == n.op = "BLKSWAP" \/ isSWAP(n)
down(n) == IF n.op = "BLKSWAP" THEN n.i ELSE 1
up(n) == IF n.op = "BLKSWAP" THEN n.j ELSE 1

(* Up to which element BLKSWAP, REVERSE or XCHG S0 permutes the stack.     *)
permutes(n) == n.op \in {"BLKSWAP", "REVERSE"} \/ (n.op = "XCHG" /\ n.i = 0)
permuted(n) == IF n.op = "XCHG" THEN n.j + 1 ELSE n.i + n.j

(* The simulations that come to a good end: the segment is dropped unread,  *)
(* or it is overwritten by a POP Si.                                        *)
Unread(code, size, segment) == {s \in {Run(Sim(code, size, segment, FALSE, FALSE))} : success(s)}
Overwritten(code, size) == {s \in {Run(Sim(code, size, 1, TRUE, FALSE))} : s.wasSet}

(* What is computed for the overwritten element takes its place at once.    *)
SetInstead(before, sims) ==
    {before \o s.cmds \o <<BLKSWAP(popIndex(s.rest[1]) - 1, 1)>> \o From(s.rest, 1) : s \in sims}

(* Mutant: a global variable that is assigned meanwhile is moved as well. *)
MoveGen_AnyGlob(op, rest) ==
    IF ~isPureGen01(op) THEN {}
    ELSE {s.cmds \o <<op>> \o s.rest :
            s \in {sim \in {Run(Sim(rest, 1, 1, FALSE, TRUE))} : sim.wasMoved /\ ~sim.wasSet}}

MoveGen(op, rest) ==
    IF ~isPureGen01(op) THEN {}
    ELSE {s.cmds \o <<op>> \o s.rest :
            s \in {sim \in {Run(Sim(rest, 1, 1, FALSE, TRUE))} :
                     /\ op.op = "GETGLOB" => op.i \notin sim.setGlobs /\ ~sim.wasCall
                     /\ sim.wasMoved /\ ~sim.wasSet}}

DupSet(op, rest) ==
    IF isPUSH(op) /\ pushIndex(op) = 0 THEN SetInstead(<<>>, Overwritten(rest, 2)) ELSE {}

RollRevSet(op, rest) ==
    IF isBLKSWAP(op) /\ up(op) = 1 THEN SetInstead(<<DROP(1)>>, Overwritten(rest, down(op) + 1)) ELSE {}

GenSet(op, rest) ==
    IF isPureGen01(op) THEN SetInstead(<<>>, Overwritten(rest, 1)) ELSE {}

RollRevPushSet(op, rest) ==
    IF /\ isBLKSWAP(op) /\ up(op) = 1
       /\ rest # <<>> /\ isPUSH(rest[1]) /\ pushIndex(rest[1]) = down(op)
    THEN SetInstead(<<>>, Overwritten(From(rest, 1), down(op) + 2)) ELSE {}

PopPushSet(op, rest) ==
    IF /\ isPOP(op)
       /\ rest # <<>> /\ isPUSH(rest[1]) /\ pushIndex(rest[1]) + 1 = popIndex(op)
    THEN {From(rest, 1) : s \in Overwritten(From(rest, 1), popIndex(op) + 1)} ELSE {}

PopUnread(op, rest) ==
    IF ~isPOP(op) THEN {}
    ELSE {<<DROP(1)>> \o rest : s \in {sim \in {Run(Sim(rest, popIndex(op), 1, FALSE, FALSE))} :
                                         sim.wasSet \/ success(sim)}}

IgnorePermutation(op, rest) ==
    IF permutes(op) THEN {rest : s \in Unread(rest, permuted(op), permuted(op))} ELSE {}

SwapUnread(op, rest) ==
    IF isSWAP(op) THEN {<<DROP(1)>> \o s.cmds : s \in Unread(rest, 2, 1)} ELSE {}

PushDropsUpper(op, rest, scope) ==
    IF isPUSH(op) /\ op.i > 0 /\ op.i <= scope
    THEN {<<DROP(op.i), PUSH(0)>> \o s.cmds : s \in Unread(rest, op.i + 1, op.i)} ELSE {}

PushBecomesRoll(op, rest) ==
    IF isPUSH(op) THEN {SomeBLKSWAP(1, op.i) \o s.cmds : s \in Unread(rest, op.i + 2, 1)} ELSE {}

GenUnread(op, rest) ==
    IF isPureGen01(op) THEN {s.cmds : s \in Unread(rest, 1, 1)} ELSE {}

(* Mutant: an element that is dropped next counts as useless. *)
DropUseless_EvenDrop(op, rest, scope, afterFlag) ==
    IF scope >= 1 /\ ~afterFlag
    THEN {<<DROP(1)>> \o s.cmds : s \in Unread(<<op>> \o rest, 1, 1)} ELSE {}

DropUseless(op, rest, scope, afterFlag) ==
    IF ~isDrop(op) /\ scope >= 1 /\ ~afterFlag
    THEN {<<DROP(1)>> \o s.cmds : s \in Unread(<<op>> \o rest, 1, 1)} ELSE {}

DropMore(op, rest, scope) ==
    IF isDrop(op) /\ rest # <<>> /\ scope >= op.i + 1
    THEN {<<DROP(op.i + 1)>> \o s.cmds : s \in Unread(rest, 1, 1)} ELSE {}

Rules == 1..14

Rewritten(rule, op, rest, scope, afterFlag) ==
    CASE rule = 1 -> MoveGen(op, rest)
      [] rule = 2 -> DupSet(op, rest)
      [] rule = 3 -> RollRevSet(op, rest)
      [] rule = 4 -> GenSet(op, rest)
      [] rule = 5 -> RollRevPushSet(op, rest)
      [] rule = 6 -> PopPushSet(op, rest)
      [] rule = 7 -> PopUnread(op, rest)
      [] rule = 8 -> IgnorePermutation(op, rest)
      [] rule = 9 -> SwapUnread(op, rest)
      [] rule = 10 -> PushDropsUpper(op, rest, scope)
      [] rule = 11 -> PushBecomesRoll(op, rest)
      [] rule = 12 -> GenUnread(op, rest)
      [] rule = 13 -> DropUseless(op, rest, scope, afterFlag)
      [] rule = 14 -> DropMore(op, rest, scope)

(* The rewritings are tried in this order: the first that applies is taken. *)
NewCode(rule) ==
    Rewritten(rule, top.code[top.idx], From(top.code, top.idx), scopeSize,
              top.idx > 1 /\ top.code[top.idx - 1].op = "DECLRETFLAG")

RECURSIVE UpdateFrom(_)
UpdateFrom(rule) ==
    IF rule \notin Rules THEN {}
    ELSE Strict(NewCode(rule), LAMBDA new : IF new # {} THEN new ELSE UpdateFrom(rule + 1))
successfullyUpdate == UpdateFrom(1)

-----------------------------------------------------------------------------
(* What a node does to the size of the stack. *)
delta(n) ==
    CASE n.op \in {"GEN", "CALL"} -> n.j - n.i
      [] n.op \in {"GETGLOB", "PUSH_C7", "PUSH_S", "DECLRETFLAG"} -> 1
      [] n.op \in {"SETGLOB", "POP_C7", "POP_S", "THROWIF"} -> -1
      [] n.op = "PUSH2_S" -> 2
      [] n.op = "BLKPUSH" -> n.i
      [] n.op \in {"DROP", "BLKDROP2"} -> -n.i
      [] n.op \in {"BLKSWAP", "REVERSE", "XCHG"} -> 0
      [] n.op = "RETURN" -> -scopeSize

InBlock == ~done /\ top.idx <= Len(top.code)
AtEnd == ~done /\ top.idx > Len(top.code)
WithTop(f) == [frames EXCEPT ![depth] = f]

(* The node is rewritten, or visited: *)
Rewrite(new) ==
    /\ frames' = WithTop([top EXCEPT !.code = Top(@, top.idx - 1) \o new])
    /\ didSome' = TRUE
    /\ UNCHANGED <<fun, iter, done>>

VisitNode ==
    /\ top.code[top.idx].op \notin IfOps
    /\ frames' = WithTop([top EXCEPT !.size = @ + delta(top.code[top.idx]), !.idx = @ + 1])
    /\ UNCHANGED <<fun, iter, didSome, done>>

EnterIf ==
    /\ top.code[top.idx].op \in IfOps
    /\ frames' = Append(WithTop([top EXCEPT !.size = @ - 1]),
                        Frame(top.code[top.idx].t, top.size - 1, "t"))
    /\ UNCHANGED <<fun, iter, didSome, done>>

VisitBlock ==
    /\ InBlock
    /\ \E update \in {successfullyUpdate} :
          \/ \E new \in update : Rewrite(new)
          \/ update = {} /\ (VisitNode \/ EnterIf)

(* A block goes back into its node. *)
PutBack(fs) ==
    LET n == Len(fs)  f == fs[n]  p == fs[n - 1] IN
    [Top(fs, n - 1) EXCEPT ![n - 1].code[p.idx] =
        IF f.part = "t" THEN [@ EXCEPT !.t = f.code] ELSE [@ EXCEPT !.f = f.code]]

(* Mutant: what the branches leave on the stack is not counted. *)
LeaveIf_NoRet ==
    /\ AtEnd
    /\ depth > 1
    /\ LET fs == PutBack(frames)
           p == fs[depth - 1]
           n == p.code[p.idx]
       IN  frames' = IF top.part = "t" /\ HasElse(n) THEN Append(fs, Frame(n.f, p.size, "f"))
                     ELSE [fs EXCEPT ![depth - 1].idx = @ + 1]
    /\ UNCHANGED <<fun, iter, didSome, done>>

LeaveIf ==
    /\ AtEnd
    /\ depth > 1
    /\ LET fs == PutBack(frames)
           p == fs[depth - 1]
           n == p.code[p.idx]
       IN  frames' = IF top.part = "t" /\ HasElse(n) THEN Append(fs, Frame(n.f, p.size, "f"))
                     ELSE [fs EXCEPT ![depth - 1].size = @ + n.j, ![depth - 1].idx = @ + 1]
    /\ UNCHANGED <<fun, iter, didSome, done>>

EndPass ==
    /\ AtEnd
    /\ depth = 1
    /\ IF didSome /\ iter < IterStackOptQty
       THEN /\ frames' = <<Frame(top.code, fun.take, "fun")>>
            /\ iter' = iter + 1
            /\ didSome' = FALSE
            /\ UNCHANGED done
       ELSE done' = TRUE /\ UNCHANGED <<frames, iter, didSome>>
    /\ UNCHANGED fun

Init ==
    /\ fun \in Functions
    /\ frames = <<Frame(fun.code, fun.take, "fun")>>
    /\ iter = 1
    /\ didSome = FALSE
    /\ done = FALSE

Finished == done /\ UNCHANGED vars

Next == VisitBlock \/ LeaveIf \/ EndPass \/ Finished

Spec == Init /\ [][Next]_vars /\ WF_vars(Next)

-----------------------------------------------------------------------------
(***************************************************************************)
(* The meaning of code: what the TVM does with it.  Values are symbols;    *)
(* what a Gen computes from its operands is a term.  log records, in       *)
(* order, everything with an effect or that may throw.                     *)
(***************************************************************************)
Machine(take) == [stack |-> StackOf(take, LAMBDA p : <<"arg", p>>), glob |-> <<<<"glob", 1>>, <<"glob", 2>>>>,
                  log |-> <<>>, ended |-> FALSE, fits |-> TRUE]

Needs(n) ==
    CASE n.op \in StackOps -> Reach(n)
      [] n.op \in {"GEN", "CALL", "RETURN"} -> n.i
      [] n.op \in {"SETGLOB", "POP_C7", "THROWIF"} \cup IfOps -> 1
      [] OTHER -> 0

RECURSIVE Exec(_, _, _)

(* c: is the condition of the IFs true? *)
Step(n, m, c) ==
    LET s == m.stack
        args == Top(s, n.i)
        push(v) == [m EXCEPT !.stack = <<v>> \o @]
    IN  CASE n.op \in StackOps -> [m EXCEPT !.stack = ExecStack(n, s)]
          [] n.op = "GEN" -> [m EXCEPT !.stack = [p \in 1..n.j |-> <<n.name, p, args>>] \o From(s, n.i),
                                       !.log = IF n.pure THEN @ ELSE Append(@, <<n.name, args>>)]
          [] n.op = "CALL" -> [m EXCEPT !.stack = [p \in 1..n.j |-> <<n.name, p, args, m.glob>>] \o From(s, n.i),
                                        !.glob = [p \in 1..2 |-> <<"by", p, args, @>>],
                                        !.log = Append(@, <<n.name, args>>)]
          [] n.op = "GETGLOB" -> push(m.glob[n.i])
          [] n.op = "PUSH_C7" -> push(<<"c7", m.glob>>)
          [] n.op = "SETGLOB" -> [m EXCEPT !.stack = Tail(s), !.glob[n.i] = s[1]]
          [] n.op = "POP_C7" -> [m EXCEPT !.stack = Tail(s), !.glob = [p \in 1..2 |-> <<"of", p, s[1]>>]]
          [] n.op = "DECLRETFLAG" -> push(<<"flag">>)
          [] n.op = "THROWIF" -> [m EXCEPT !.stack = Tail(s), !.log = Append(@, <<"throwif", s[1]>>)]
          [] n.op = "RETURN" -> [Exec(n.t, m, c) EXCEPT !.ended = TRUE]
          [] n.op \in IfOps ->
               LET rest == [m EXCEPT !.stack = Tail(s), !.log = Append(@, <<"if", s[1]>>)]
               IN  IF c THEN Exec(n.t, rest, c) ELSE IF HasElse(n) THEN Exec(n.f, rest, c) ELSE rest

Exec(code, m, c) ==
    IF code = <<>> \/ m.ended \/ ~m.fits THEN m
    ELSE IF Needs(code[1]) > Len(m.stack) THEN [m EXCEPT !.fits = FALSE]
    ELSE Strict(Step(code[1], m, c), LAMBDA next : Exec(Tail(code), next, c))

Meaning(take, code) == [c \in BOOLEAN |-> Exec(code, Machine(take), c)]

(* The whole function while some of its blocks are being visited. *)
RECURSIVE Whole(_)
Whole(fs) == IF Len(fs) = 1 THEN fs[1].code ELSE Whole(PutBack(fs))

(* The code executed before the node being visited. *)
RECURSIVE Before(_)
Before(fs) ==
    IF fs = <<>> THEN <<>>
    ELSE Top(fs[1].code, fs[1].idx - 1) \o (IF Len(fs) > 1 THEN <<DROP(1)>> ELSE <<>>) \o Before(Tail(fs))

-----------------------------------------------------------------------------
(* After every rewriting the function leaves the same stack and the same    *)
(* global variables, performs the same effects in the same order and        *)
(* returns from the same place as the code that the code generator emitted. *)
SameEffect == Meaning(fun.take, Whole(frames)) = Meaning(fun.take, fun.code)

(* m_stackSize is the depth that the stack really has at the node being     *)
(* visited, however the code before it was rewritten: scopeSize, which      *)
(* protects the variables of the enclosing blocks, is computed from it.     *)
StackSizeIsReal ==
    \A c \in BOOLEAN :
        LET m == Exec(Before(frames), Machine(fun.take), c)
        IN  m.ended \/ (m.fits /\ Len(m.stack) = top.size)

(* The solAsserts of makeDROP, makeBLKSWAP, makeREVERSE, makeBLKDROP2,      *)
(* makeBLKPUSH and Stack: no rewriting builds an instruction with an        *)
(* operand that the instruction cannot have.                                *)
WellFormed(n) ==
    CASE n.op = "DROP" -> n.i >= 1
      [] n.op = "POP_S" -> n.i >= 1
      [] n.op = "BLKDROP2" -> n.i >= 1 /\ n.j >= 1
      [] n.op = "BLKSWAP" -> n.i >= 1 /\ n.j >= 1
      [] n.op = "REVERSE" -> n.i >= 2 /\ n.j >= 0
      [] n.op = "XCHG" -> 0 <= n.i /\ n.i < n.j
      [] n.op \in {"PUSH_S", "PUSH2_S"} -> n.i >= 0
      [] n.op = "BLKPUSH" -> n.i >= 2 /\ n.j >= 0
      [] OTHER -> TRUE

OperandsWellFormed == \A p \in DOMAIN top.code : WellFormed(top.code[p])

(* The rewritings at one node cannot go round in circles, so that the       *)
(* optimizer comes to the end of every pass and to the end of the function. *)
Terminates == <>done
=============================================================================
