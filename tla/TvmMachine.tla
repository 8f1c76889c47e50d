------------------------------- MODULE TvmMachine -------------------------------
(***************************************************************************)
(* The part of the TVM that structured code is mapped to: a stack, the     *)
(* code that is left to do, and the continuations in c0 (where RET goes),  *)
(* c1 (where RETALT goes) and c2 (where an exception goes).  A             *)
(* continuation may carry values that the registers get when it is jumped  *)
(* to.  The top of the stack is the last element; -1 is true, 0 is false.  *)
(*                                                                         *)
(* A machine stops in status "cond" when a condition of the source has to  *)
(* be known, "returned" when the function is done, "thrown" when nobody    *)
(* catches an exception and "underflow".                                   *)
(***************************************************************************)
EXTENDS Integers, Sequences

Keep == [keep |-> TRUE]     \* a register that a continuation leaves alone
Null == -99

Cont(code, c0, c1, c2, depth) == [code |-> code, c0 |-> c0, c1 |-> c1, c2 |-> c2, depth |-> depth]
Halt(status) == Cont(<<[op |-> "HALT", status |-> status]>>, Keep, Keep, Keep, 0)

Load(code, stack) ==
    [code |-> code, stack |-> stack, c0 |-> Halt("returned"), c1 |-> Halt("lost"), c2 |-> Halt("thrown"),
     log |-> <<>>, size |-> 0, status |-> "run"]

Or(saved, now) == IF saved = Keep THEN now ELSE saved
Jump(m, k) ==
    [m EXCEPT !.code = k.code, !.c0 = Or(k.c0, @), !.c1 = Or(k.c1, @), !.c2 = Or(k.c2, @)]
Rest(m) == Cont(m.code, m.c0, Keep, Keep, 0)
Call(m, code) == [m EXCEPT !.code = code, !.c0 = Rest(m)]

Take(s, n) == SubSeq(s, 1, Len(s) - n)
Nth(s, i) == s[Len(s) - i]
TopOf(m) == Nth(m.stack, 0)
Popped(m) == [m EXCEPT !.stack = Take(@, 1)]
Pushed(m, v) == [m EXCEPT !.stack = Append(@, v)]
Bool(b) == IF b THEN -1 ELSE 0

(* Where a loop goes on afterwards.  WHILEBRK and its likes put that into   *)
(* c1, with the c1 of before saved in it.                                   *)
After(m, brk) == IF brk THEN [Rest(m) EXCEPT !.c1 = m.c1] ELSE Rest(m)
InLoop(m, brk) == [m EXCEPT !.c0 = After(m, brk), !.c1 = IF brk THEN After(m, brk) ELSE @]
(* Then code runs, after it check, with the continuation of the loop kept.  *)
Around(m, code, check) == [m EXCEPT !.code = code, !.c0 = Cont(<<check>>, m.c0, Keep, Keep, 0)]

(* What an instruction needs on the stack.                                  *)
Needs(i) ==
    CASE i.op \in {"DROP", "PUSH", "POP"} -> i.n + (IF i.op = "DROP" THEN 0 ELSE 1)
      [] i.op = "DROPUNDER" -> i.n + i.under
      [] i.op = "GETDICT" -> 2
      [] i.op \in {"NOT", "INC", "ISNULL", "EQINT", "LOG", "IF", "IFELSE", "IFRET", "IFRETALT", "REPEAT",
                   "WHILECHECK", "UNTILCHECK"} -> 1
      [] OTHER -> 0

Array == <<50, 51>>

(* One instruction, taken off the code of m already.                        *)
Execute(i, m) ==
    CASE i.op = "PUSHINT"   -> Pushed(m, i.v)
      [] i.op = "PUSH"      -> Pushed(m, Nth(m.stack, i.n))
      [] i.op = "POP"       -> Popped([m EXCEPT !.stack[Len(m.stack) - i.n] = TopOf(m)])
      [] i.op = "DROP"      -> [m EXCEPT !.stack = Take(@, i.n)]
      [] i.op = "DROPUNDER" -> [m EXCEPT !.stack = Take(@, i.n + i.under) \o SubSeq(@, Len(@) - i.under + 1, Len(@))]
      [] i.op = "NOT"       -> Pushed(Popped(m), -1 - TopOf(m))
      [] i.op = "INC"       -> Pushed(Popped(m), TopOf(m) + 1)
      [] i.op = "EQINT"     -> Pushed(Popped(m), Bool(TopOf(m) = i.v))
      [] i.op = "ISNULL"    -> Pushed(Popped(m), Bool(TopOf(m) = Null))
      [] i.op = "GETDICT"   -> LET k == Nth(m.stack, 1) + 1
                               IN  Pushed([m EXCEPT !.stack = Take(@, 2)],
                                          IF k \in DOMAIN Array THEN Array[k] ELSE Null)
      [] i.op = "LOG"       -> [Popped(m) EXCEPT !.log = Append(@, TopOf(m))]
      [] i.op = "COND"      -> [m EXCEPT !.status = "cond", !.size = i.size]
      [] i.op = "HALT"      -> [m EXCEPT !.status = i.status]
      [] i.op = "THROW"     -> Jump([m EXCEPT !.stack = SubSeq(@, 1, m.c2.depth) \o <<0, 0>>], m.c2)
      [] i.op = "CALLX"     -> Call(m, i.body)
      [] i.op = "LEAVE"     -> [m EXCEPT !.code = i.body \o @]
      [] i.op = "RET"       -> Jump(m, m.c0)
      [] i.op = "RETALT"    -> Jump(m, m.c1)
      [] i.op = "IFRET"     -> IF TopOf(m) # 0 THEN Jump(Popped(m), m.c0) ELSE Popped(m)
      [] i.op = "IFRETALT"  -> IF TopOf(m) # 0 THEN Jump(Popped(m), m.c1) ELSE Popped(m)
      [] i.op = "IF"        -> IF TopOf(m) = 0 THEN Popped(m)
                               ELSE IF i.jmp THEN [Popped(m) EXCEPT !.code = i.body] ELSE Call(Popped(m), i.body)
      [] i.op = "IFELSE"    -> Call(Popped(m), IF TopOf(m) # 0 THEN i.body ELSE i.else)
      [] i.op = "WHILE"     -> Around(InLoop(m, i.brk), i.cond, [i EXCEPT !.op = "WHILECHECK"])
      [] i.op = "WHILECHECK" -> IF TopOf(m) # 0 THEN Around(Popped(m), i.body, [i EXCEPT !.op = "WHILECOND"])
                                ELSE Jump(Popped(m), m.c0)
      [] i.op = "WHILECOND" -> Around(m, i.cond, [i EXCEPT !.op = "WHILECHECK"])
      [] i.op = "UNTIL"     -> Around(InLoop(m, i.brk), i.body, [i EXCEPT !.op = "UNTILCHECK"])
      [] i.op = "UNTILCHECK" -> IF TopOf(m) # 0 THEN Jump(Popped(m), m.c0)
                                ELSE Around(Popped(m), i.body, i)
      [] i.op = "REPEAT"    -> [InLoop(Popped(m), i.brk) EXCEPT !.code = <<[i EXCEPT !.op = "MORE", !.n = TopOf(m)]>>]
      [] i.op = "MORE"      -> IF i.n = 0 THEN Jump(m, m.c0) ELSE Around(m, i.body, [i EXCEPT !.n = @ - 1])
      [] i.op = "SAVEALT"   -> [m EXCEPT !.c1.c2 = IF @ = Keep THEN m.c2 ELSE @]
      [] i.op = "TRYKEEP"   ->
            LET after == [Rest(m) EXCEPT !.c2 = m.c2]
            IN  [m EXCEPT !.code = i.body, !.c0 = after,
                          !.c2 = Cont(i.else, after, m.c1, m.c2, Len(m.stack))]

(* At the end of its code a continuation returns.                           *)
Step(m) ==
    IF m.code = <<>> THEN Jump(m, m.c0)
    ELSE LET i == Head(m.code)
         IN  IF Needs(i) > Len(m.stack) THEN [m EXCEPT !.status = "underflow"]
             ELSE Execute(i, [m EXCEPT !.code = Tail(@)])

RECURSIVE Run(_)
Run(m) == IF m.status = "run" THEN Run(Step(m)) ELSE m

Answer(m, b) == Run([Pushed(m, Bool(b)) EXCEPT !.status = "run"])
=============================================================================
