----------------------------- MODULE TvmSimulator -----------------------------
(***************************************************************************)
(* class Simulator: it walks over code as if a segment of the stack (one   *)
(* element, or a block of neighbours) were not there, and rewrites every   *)
(* instruction accordingly.  It learns whether the code drops the segment  *)
(* before reading it, overwrites it, or moves it to the top.               *)
(***************************************************************************)
EXTENDS TvmStack, FiniteSets

(* Other nodes of the code tree.  A Gen takes i elements and returns j. *)
Gen(name, take, ret, pure) == [Instr("GEN", take, ret, -1) EXCEPT !.name = name, !.pure = pure]
CALL(name, take, ret) == [Instr("CALL", take, ret, -1) EXCEPT !.name = name]
GETGLOB(index) == [Instr("GETGLOB", index, -1, -1) EXCEPT !.pure = TRUE]
SETGLOB(index) == Instr("SETGLOB", index, -1, -1)
PUSH_C7 == Instr("PUSH_C7", -1, -1, -1)
POP_C7 == Instr("POP_C7", -1, -1, -1)
THROWIF == Instr("THROWIF", 1, -1, -1)
DECLRETFLAG == Instr("DECLRETFLAG", -1, -1, -1)
(* TvmIfElse: the bodies run with JMP leave the function.  j = ret() *)
IF1(t) == [Instr("IF", -1, 0, -1) EXCEPT !.t = t]
IFJMP(t) == [Instr("IFJMP", -1, 0, -1) EXCEPT !.t = t]
IFELSE(t, f, ret) == [Instr("IFELSE", -1, ret, -1) EXCEPT !.t = t, !.f = f]
IFELSEJMP(t, f) == [Instr("IFELSEJMP", -1, 0, -1) EXCEPT !.t = t, !.f = f]
(* ReturnOrBreakOrCont: i = take() values are kept *)
RETURN(take, body) == [Instr("RETURN", take, -1, -1) EXCEPT !.t = body]

IfOps == {"IF", "IFJMP", "IFELSE", "IFELSEJMP"}
HasElse(n) == n.op \in {"IFELSE", "IFELSEJMP"}

isPureGen01(n) == n.op = "GETGLOB" \/ (n.op = "GEN" /\ n.pure /\ n.i = 0 /\ n.j = 1)

makeBLKDROP2(n, left) ==
    IF left = 1 /\ n = 1 THEN POP(1) ELSE IF left = 0 THEN DROP(n) ELSE BLKDROP2(n, left)
makeBLKPUSH(n, j) == IF n = 1 THEN PUSH(j) ELSE BLKPUSH(n, j)
(* Mutant: BLKSWAP is not left out when there is nothing to swap. *)
SomeBLKSWAP_Always(down, up) == <<BLKSWAP(down, up)>>

(* DROP n, BLKSWAP and REVERSE, left out when there is nothing to do *)
SomeDROP(n) == IF n > 0 THEN <<DROP(n)>> ELSE <<>>
SomeBLKSWAP(down, up) == IF down >= 1 /\ up >= 1 THEN <<BLKSWAP(down, up)>> ELSE <<>>
SomeREVERSE(n, j) == IF n >= 2 THEN <<REVERSE(n, j)>> ELSE <<>>

-----------------------------------------------------------------------------
(* m_stackSize, m_segment, m_commands, ..., and the code not yet visited. *)
Sim(code, size, seg, stopIfSet, stopIfMoved) ==
    [size |-> size, seg |-> seg, cmds |-> <<>>, rest |-> code,
     wasSet |-> FALSE, wasMoved |-> FALSE, able |-> TRUE, dropped |-> FALSE, wasRet |-> FALSE,
     setGlobs |-> {}, wasCall |-> FALSE, stopIfSet |-> stopIfSet, stopIfMoved |-> stopIfMoved]

Rest(sim) == sim.size - sim.seg                 \* elements above the segment
Hits(sim, i) == Rest(sim) <= i /\ i < sim.size  \* is element i in the segment?
New(sim, i) == IF i < sim.size - 1 THEN i ELSE i - sim.seg
Disjoint(sim, lo, hi) == Max2(Rest(sim), lo) > (IF sim.size - 1 < hi THEN sim.size - 1 ELSE hi)

Unable(sim) == [sim EXCEPT !.able = FALSE]
Emit(sim, cmds, delta) == [sim EXCEPT !.cmds = @ \o cmds, !.size = @ + delta]
Dropped(sim, cmds) == [sim EXCEPT !.cmds = @ \o cmds, !.dropped = TRUE]

(* Nodes known only by what they take and return. *)
VisitGen(sim, n, take, ret) == IF take > Rest(sim) THEN Unable(sim) ELSE Emit(sim, <<n>>, ret - take)

VisitCall(sim, n) == [VisitGen(sim, n, n.i, n.j) EXCEPT !.wasCall = TRUE]

VisitGlob(sim, n) ==
    IF n.op \in {"GETGLOB", "PUSH_C7"} THEN Emit(sim, <<n>>, 1)
    ELSE LET s == IF n.op = "SETGLOB" THEN [sim EXCEPT !.setGlobs = @ \cup {n.i}] ELSE sim
         IN  IF Rest(sim) >= 1 THEN Emit(s, <<n>>, -1) ELSE Unable(Emit(s, <<n>>, 0))

VisitPush(sim, n) ==
    IF Hits(sim, n.i) THEN Unable(sim) ELSE Emit(sim, <<PUSH(New(sim, n.i))>>, 1)

VisitPush2(sim, n) ==
    IF Hits(sim, n.i) \/ Hits(sim, n.j) THEN Unable(sim)
    ELSE Emit(sim, <<PUSH2(New(sim, n.i), New(sim, n.j))>>, 2)

VisitPop(sim, n) ==
    CASE sim.seg = 1 /\ n.i = 1 /\ sim.size = 2 -> Dropped(sim, <<>>)
      [] Rest(sim) = 0 -> Unable(sim)
      [] n.i = sim.size - 1 /\ sim.seg = 1 /\ Rest(sim) # 0 /\ n.i # 1 ->
            [Emit(sim, <<>>, -1) EXCEPT !.wasSet = TRUE]
      [] n.i < Rest(sim) /\ Rest(sim) # 0 -> Emit(sim, <<n>>, -1)
      [] n.i > sim.size - 1 /\ Rest(sim) # 0 -> Emit(sim, <<POP(New(sim, n.i))>>, -1)
      [] OTHER -> Unable(sim)

VisitDrop(sim, n) ==
    IF sim.size <= n.i THEN Dropped(sim, SomeDROP(n.i - sim.seg))
    ELSE IF Rest(sim) >= n.i THEN Emit(sim, <<n>>, -n.i)
    ELSE Unable(sim)

VisitBlkDrop2(sim, n) ==
    LET drop == n.i  left == n.j IN
    IF left >= sim.size THEN Emit(sim, <<makeBLKDROP2(drop, left - sim.seg)>>, 0)
    ELSE IF left <= Rest(sim) /\ left + drop >= sim.size
         THEN Dropped(sim, IF drop - sim.seg > 0 THEN <<makeBLKDROP2(drop - sim.seg, left)>> ELSE <<>>)
    ELSE IF left + drop <= Rest(sim) THEN Emit(sim, <<makeBLKDROP2(drop, left)>>, -drop)
    ELSE Unable(sim)

VisitBlkPush(sim, n) ==
    IF Disjoint(sim, n.j - n.i + 1, n.j) THEN Emit(sim, <<makeBLKPUSH(n.i, New(sim, n.j))>>, n.i)
    ELSE Unable(sim)

VisitReverse(sim, n) ==
    LET hi == n.j + n.i - 1  pos == sim.size - 1 IN
    IF sim.seg = 1 /\ n.j <= pos /\ pos <= hi
    THEN [Emit(sim, SomeREVERSE(n.i - 1, n.j), 0) EXCEPT !.size = n.j + (hi - pos) + 1]
    ELSE IF Disjoint(sim, n.j, hi)
         THEN Emit(sim, <<IF pos < n.j THEN REVERSE(n.i, n.j - sim.seg) ELSE n>>, 0)
    ELSE Unable(sim)

VisitBlkSwap(sim, n) ==
    LET down == n.i  up == n.j IN
    IF down = 1 /\ up + down = sim.size /\ sim.seg = 1 /\ sim.stopIfMoved
    THEN [sim EXCEPT !.wasMoved = TRUE]
    ELSE IF up <= Rest(sim) /\ down + up >= sim.size
         THEN Emit(sim, SomeBLKSWAP(down - sim.seg, up), -up)
    ELSE IF down + up <= Rest(sim) THEN Emit(sim, <<n>>, 0)
    ELSE IF up >= sim.size THEN Emit(sim, SomeBLKSWAP(down, up - sim.seg), down)
    ELSE Unable(sim)

VisitXchg(sim, n) ==
    LET i == n.i  j == n.j IN
    IF sim.seg = 1 /\ i = sim.size - 1
    THEN [Emit(sim, IF j >= 2 THEN <<REVERSE(j, 0)>> \o SomeBLKSWAP(j - i - 1, 1) \o <<REVERSE(j, 0)>>
                    ELSE <<>>, 0) EXCEPT !.size = j + 1]
    ELSE IF sim.seg = 1 /\ j = sim.size - 1
    THEN [Emit(sim, SomeBLKSWAP(1, i) \o SomeBLKSWAP(j - 1, 1), 0) EXCEPT !.size = i + 1]
    ELSE IF Hits(sim, i) \/ Hits(sim, j) THEN Unable(sim)
    ELSE Emit(sim, <<XCHG(New(sim, i), New(sim, j))>>, 0)

-----------------------------------------------------------------------------
RECURSIVE Run(_)

success(sim) == sim.able /\ sim.dropped /\ ~sim.wasSet

(* isPopAndDrop: POP S[p], DROP p-1 where p is the segment *)
isPopAndDrop(sim) ==
    /\ Len(sim.rest) >= 2
    /\ sim.seg = 1
    /\ LET pop == sim.rest[1]  drop == sim.rest[2]
           p == IF pop.op = "POP_S" THEN pop.i
                ELSE IF pop.op = "BLKDROP2" /\ pop.i = 1 /\ pop.j = 1 THEN 1 ELSE -1
       IN  drop.op = "DROP" /\ p = sim.size - 1 /\ p = drop.i + 1

(* trySimulate: the ways in which a body that runs on a stack of the given  *)
(* size can do without the segment; none or one.                            *)
trySimulate(sim, body, size) ==
    {b \in {Run(Sim(body, size, sim.seg, FALSE, FALSE))} :
        b.able /\ ~b.wasSet /\ (b.dropped => b.wasRet)}

VisitReturn(sim, n) ==
    LET bodies == {b \in {Run(Sim(n.t, sim.size, sim.seg, FALSE, FALSE))} : b.able /\ b.dropped} IN
    IF n.i > Rest(sim) THEN Unable(sim)
    ELSE IF bodies = {} THEN [Unable(sim) EXCEPT !.wasRet = TRUE]
    ELSE CHOOSE s \in {[Dropped(sim, <<[n EXCEPT !.t = b.cmds]>>) EXCEPT !.wasRet = TRUE] : b \in bodies} : TRUE

(* The node and the simulator after both branches; no second branch is an  *)
(* empty one that drops nothing.                                           *)
AfterIf(sim, n) ==
    {[Emit(sim, <<[n EXCEPT !.t = t.cmds, !.f = f.cmds]>>, n.j - 1)
        EXCEPT !.setGlobs = @ \cup t.setGlobs \cup f.setGlobs,
               !.wasCall = @ \/ t.wasCall \/ f.wasCall,
               !.dropped = t.dropped /\ f.dropped] :
       t \in trySimulate(sim, n.t, sim.size - 1), f \in trySimulate(sim, n.f, sim.size - 1)}

VisitIf(sim, n) ==
    IF Rest(sim) = 0 THEN Unable(sim)
    ELSE Strict(AfterIf(sim, n), LAMBDA sims : IF sims = {} THEN Unable(sim) ELSE CHOOSE s \in sims : TRUE)

Visit(sim, n) ==
    CASE n.op = "GEN" -> VisitGen(sim, n, n.i, n.j)
      [] n.op = "THROWIF" -> VisitGen(sim, n, 1, 0)
      [] n.op = "DECLRETFLAG" -> VisitGen(sim, n, 0, 1)
      [] n.op = "CALL" -> VisitCall(sim, n)
      [] n.op \in {"GETGLOB", "SETGLOB", "PUSH_C7", "POP_C7"} -> VisitGlob(sim, n)
      [] n.op = "PUSH_S" -> VisitPush(sim, n)
      [] n.op = "PUSH2_S" -> VisitPush2(sim, n)
      [] n.op = "POP_S" -> VisitPop(sim, n)
      [] n.op = "DROP" -> VisitDrop(sim, n)
      [] n.op = "BLKDROP2" -> VisitBlkDrop2(sim, n)
      [] n.op = "BLKPUSH" -> VisitBlkPush(sim, n)
      [] n.op = "REVERSE" -> VisitReverse(sim, n)
      [] n.op = "BLKSWAP" -> VisitBlkSwap(sim, n)
      [] n.op = "XCHG" -> VisitXchg(sim, n)
      [] n.op = "RETURN" -> VisitReturn(sim, n)
      [] n.op \in IfOps -> VisitIf(sim, n)

(* The rest of the code goes unchanged behind the rewritten part. *)
Finish(sim) ==
    IF success(sim) THEN [sim EXCEPT !.cmds = @ \o sim.rest, !.rest = <<>>] ELSE sim

Skip(sim, n) == [sim EXCEPT !.rest = From(@, n)]

(* What happens after the first instruction has been visited. *)
Continue(s) ==
    IF s.wasSet /\ s.stopIfSet THEN Finish(s)
    ELSE IF (s.wasMoved /\ s.stopIfMoved) \/ ~s.able \/ s.dropped THEN Finish(Skip(s, 1))
    ELSE Run(Skip(s, 1))

Run(sim) ==
    IF sim.rest = <<>> THEN Finish(sim)
    ELSE IF isPopAndDrop(sim)
    THEN Finish(Skip(Dropped(sim, <<makeBLKDROP2(sim.rest[2].i, 1)>>), 2))
    ELSE Strict(Visit(sim, sim.rest[1]), Continue)
=============================================================================
