--------------------------- MODULE StatementCompiler ---------------------------
(***************************************************************************)
(* TVMFunctionCompiler on statements: how if, loops, try, break, continue  *)
(* and return become continuations, drops of the stack and flags.          *)
(*                                                                         *)
(* A statement is a record with field "is".  The state of the compiler is  *)
(* stack, the compile-time image of the stack (the name of the variable in *)
(* each slot, or "_"), info, the control flow around the statement         *)
(* (m_controlFlowInfo), and code, the instructions of the block that is    *)
(* open.                                                                   *)
(***************************************************************************)
EXTENDS Integers, Sequences, SequencesExt

RETURN_FLAG == 4
CONTINUE_FLAG == 1
Times == 2          \* the argument of every repeat

Loops == {"while", "dowhile", "repeat", "for", "foreach"}
None == [is |-> "none"]
Parts(s) ==         \* the statements of which s consists
    CASE s.is = "block" -> s.list
      [] s.is = "if"    -> IF s.else = None THEN <<s.then>> ELSE <<s.then, s.else>>
      [] s.is = "try"   -> <<s.body, s.catch>>
      [] s.is \in Loops -> <<s.body>>
      [] OTHER          -> <<>>

-----------------------------------------------------------------------------
(* CFAnalyzer.                                                              *)
RECURSIVE canReturn(_), canLeave(_, _), doesAlways(_, _)
canReturn(s) == s.is = "return" \/ \E i \in DOMAIN Parts(s) : canReturn(Parts(s)[i])

(* A break or continue that is not of a loop inside of s.                   *)
canLeave(kind, s) ==
    s.is = kind \/ (s.is \notin Loops /\ \E i \in DOMAIN Parts(s) : canLeave(kind, Parts(s)[i]))
canBreak(s) == canLeave("break", s)
canContinue(s) == canLeave("continue", s)

doesAlways(kind, s) ==
    \/ s.is = kind
    \/ s.is = "block" /\ \E i \in DOMAIN s.list : doesAlways(kind, s.list[i])
    \/ s.is = "if" /\ s.else # None /\ doesAlways(kind, s.then) /\ doesAlways(kind, s.else)
doThatAlways(s) == \E kind \in {"return", "break", "continue"} : doesAlways(kind, s)

(* Where a function returns: "no", "last" (its last statement) or           *)
(* "anywhere".                                                              *)
notNeedsPushContWhenInlining(b) ==
    CASE ~canReturn(b) -> "no"
      [] canReturn(b) /\ Last(b.list).is = "return"
            /\ \A i \in 1 .. (Len(b.list) - 1) : ~canReturn(b.list[i]) -> "last"
      [] OTHER -> "anywhere"

-----------------------------------------------------------------------------
(* The open block and the image of the stack.                               *)
Emit(c, i) == [c EXCEPT !.code = Append(@, i)]
Emits(c, is) == [c EXCEPT !.code = @ \o is]
Size(c) == Len(c.stack)
Add(c, name) == [c EXCEPT !.stack = Append(@, name)]
fixStack(c, n) ==
    [c EXCEPT !.stack = IF n < 0 THEN SubSeq(@, 1, Len(@) + n) ELSE @ \o [k \in 1 .. n |-> "_"]]

Op(name) == [op |-> name]
PushInt(v) == [op |-> "PUSHINT", v |-> v]
Push(n) == [op |-> "PUSH", n |-> n]
Pop(n) == [op |-> "POP", n |-> n]
Drop(n) == IF n = 0 THEN <<>> ELSE <<[op |-> "DROP", n |-> n]>>
DropUnder(n, under) == IF n = 0 THEN <<>> ELSE <<[op |-> "DROPUNDER", n |-> n, under |-> under]>>
drop(c, n) == fixStack(Emits(c, Drop(n)), -n)
Slot(c, name) == Size(c) - SelectLastInSeq(c.stack, LAMBDA v : v = name)

(* A condition of the source: pushed, consumed by what follows.             *)
Condition(c) == Emit(c, [op |-> "COND", size |-> Size(c)])

Opens(c) == [c EXCEPT !.code = <<>>]

(* DeleterAfterRet: what follows a jump in its block is removed.            *)
Leaves(i) == i.op \in {"LEAVE", "THROW"} \/ (i.op = "IFELSE" /\ i.jmp)
Block(code) ==
    LET n == SelectInSeq(code, Leaves) IN IF n = 0 THEN code ELSE SubSeq(code, 1, n)

-----------------------------------------------------------------------------
(* m_controlFlowInfo.                                                       *)
ControlFlowInfo(c, flag, loop) == [size |-> Size(c), flag |-> flag, loop |-> loop]
hasLoop(c) == \E i \in DOMAIN c.info : c.info[i].loop
lastLoop(c) == c.info[SelectLastInSeq(c.info, LAMBDA x : x.loop)]
lastAnalyzeFlag(c) == \E i \in DOMAIN c.info : c.info[i].flag
lastAnalyzerBeforeLoop(c) ==
    \E i \in DOMAIN c.info : c.info[i].flag /\ \A j \in i .. Len(c.info) : ~c.info[j].loop
Entered(c, info) == [c EXCEPT !.info = Append(@, info)]
Left(c) == [c EXCEPT !.info = SubSeq(@, 1, Len(@) - 1)]
declRetFlag(c) == Add(Emit(c, PushInt(0)), "_")

beforeTryOrIfCheck(s, c) ==
    LET flag == canContinue(s) \/ (~hasLoop(c) /\ canReturn(s))
        d    == IF flag THEN declRetFlag(c) ELSE c
    IN  Entered(d, ControlFlowInfo(d, flag, FALSE))

(* mutant: the flag is not kept for the statement around *)
afterTryOrIfCheck_Take(c) ==
    LET flag == Last(c.info).flag
        d    == Left(c)
    IN  IF ~flag THEN d ELSE fixStack(Emit(d, Op("IFRET")), -1)

afterTryOrIfCheck(c) ==
    LET flag == Last(c.info).flag
        d    == Left(c)
    IN  CASE ~flag -> d
          [] flag /\ lastAnalyzeFlag(d) -> fixStack(Emits(d, <<Push(0), Op("IFRET")>> \o Drop(1)), -1)
          [] OTHER -> fixStack(Emit(d, Op("IFRET")), -1)

pushControlFlowFlag(body, c) ==
    LET flag == canReturn(body)
        d    == IF flag THEN declRetFlag(c) ELSE c
    IN  Entered(d, ControlFlowInfo(d, flag, TRUE))

(* c has left the loop already.                                             *)
afterLoopCheck(body, flag, c, loopVarQty) ==
    LET keep  == lastAnalyzeFlag(c)
        check == (IF keep THEN <<Push(0)>> ELSE <<>>)
                   \o (IF canBreak(body) \/ canContinue(body)
                       THEN <<[op |-> "EQINT", v |-> RETURN_FLAG]>> ELSE <<>>)
                   \o <<Op(IF hasLoop(c) THEN "IFRETALT" ELSE "IFRET")>>
                   \o (IF keep THEN Drop(1) ELSE <<>>)
    IN  drop(IF flag THEN fixStack(Emits(c, check), -1) ELSE c, loopVarQty)

-----------------------------------------------------------------------------
(* The way out.                                                             *)
Leave(c, body) == Emit(c, [op |-> "LEAVE", body |-> body])

(* One value is returned; the base of the function's stack is start.        *)
Return(s, c) ==
    LET d     == Add(Emit(c, Push(Slot(c, s.v))), "_")
        trash == Size(d) - d.start
    IN  Leave(d, DropUnder(trash - 1, 1)
                   \o (IF lastAnalyzeFlag(d) THEN <<PushInt(RETURN_FLAG)>> ELSE <<>>)
                   \o <<Op(IF hasLoop(d) THEN "RETALT" ELSE "RET")>>)

(* mutant: the slots of the inner statements stay *)
Break_NoDrop(c) == Leave(c, <<Op("RETALT")>>)

Break(c) == Leave(c, Drop(Size(c) - lastLoop(c).size) \o <<Op("RETALT")>>)

Continue(c) ==
    LET delta == Size(c) - lastLoop(c).size
    IN  Leave(c, (IF lastAnalyzerBeforeLoop(c)
                  THEN Drop(delta + (IF lastLoop(c).flag THEN 1 ELSE 0)) \o <<PushInt(CONTINUE_FLAG)>>
                  ELSE Drop(delta)) \o <<Op("RET")>>)

-----------------------------------------------------------------------------
RECURSIVE Compile(_, _)

(* acceptBody: the variables of a block are dropped at its end.             *)
acceptBody(b, c) ==
    LET d     == FoldLeft(LAMBDA e, s : Compile(s, e), c, b.list)
        delta == Size(d) - Size(c)
    IN  IF b.list # <<>> /\ Last(b.list).is # "return" THEN drop(d, delta) ELSE fixStack(d, -delta)

(* A statement as a block of its own, the stack cleaned up to size.         *)
Body(s, c, size) ==
    LET d == Compile(s, Opens(c)) IN Block(d.code \o Drop(Size(d) - size))
(* ... or left as it is, when the end is never reached.                     *)
JmpBody(s, c) == Block(Compile(s, Opens(c)).code)

IfStatement(s, c) ==
    LET jmp  == doThatAlways(s.then) /\ (s.else # None => doThatAlways(s.else))
        d    == IF jmp THEN Entered(c, ControlFlowInfo(c, FALSE, FALSE)) ELSE beforeTryOrIfCheck(s, c)
        of(b) == IF jmp THEN JmpBody(b, d) ELSE Body(b, d, Size(d))
        e    == Emit(Condition(d),
                     IF s.else = None THEN [op |-> "IF", body |-> of(s.then), jmp |-> jmp]
                     ELSE [op |-> "IFELSE", body |-> of(s.then), else |-> of(s.else), jmp |-> jmp])
    IN  afterTryOrIfCheck(e)

(* mutant: a return does not make the handler be restored *)
TryStatement_Break(s, c) ==
    LET d     == beforeTryOrIfCheck(s, c)
        tries == IF canBreak(s) THEN Emit(d, Op("SAVEALT")) ELSE d
    IN  afterTryOrIfCheck(Emit(tries, [op |-> "TRYKEEP", body |-> Body(s.body, d, Size(d)),
                                       else |-> Body(s.catch, fixStack(d, 2), Size(d))]))

TryStatement(s, c) ==
    LET d     == beforeTryOrIfCheck(s, c)
        tries == IF canReturn(s) \/ canBreak(s) THEN Emit(d, Op("SAVEALT")) ELSE d
    IN  afterTryOrIfCheck(Emit(tries, [op |-> "TRYKEEP", body |-> Body(s.body, d, Size(d)),
                                       else |-> Body(s.catch, fixStack(d, 2), Size(d))]))

Brk(body) == canBreak(body) \/ canReturn(body)
CallX(code) == <<[op |-> "CALLX", body |-> code]>>

doWhile(s, c) ==
    LET d    == pushControlFlowFlag(s.body, c)
        body == Body(s.body, d, Size(d))
        wrap == canReturn(s.body) \/ canBreak(s.body) \/ canContinue(s.body)
        loop == Block((IF wrap THEN CallX(body) ELSE body)
                        \o <<[op |-> "COND", size |-> Size(d)], Op("NOT")>>)
        e    == Emit(d, [op |-> "UNTIL", body |-> loop, brk |-> Brk(s.body)])
    IN  afterLoopCheck(s.body, Last(d.info).flag, Left(e), 0)

WhileStatement(s, c) ==
    LET d    == pushControlFlowFlag(s.body, c)
        body == Body(s.body, d, Size(d))
        e    == IF s.is = "repeat"
                THEN Emits(d, <<PushInt(Times), [op |-> "REPEAT", n |-> 0, body |-> body, brk |-> Brk(s.body)]>>)
                ELSE Emit(d, [op |-> "WHILE", cond |-> Condition(Opens(d)).code, body |-> body, brk |-> Brk(s.body)])
    IN  afterLoopCheck(s.body, Last(d.info).flag, Left(e), 0)

(* visitBodyOfForLoop: a body with continue is called, so that the loop     *)
(* expression follows it.                                                   *)
visitBodyOfForLoop(s, d, loopExpression) ==
    LET body == Body(s.body, d, Size(d))
    IN  Block((IF canContinue(s.body) THEN CallX(body) ELSE body) \o loopExpression)

(* One variable is declared; the loop expression is a statement.            *)
ForStatement(s, c) ==
    LET i == Compile(s.init, c)
        d == pushControlFlowFlag(s.body, i)
        e == Emit(d, [op |-> "WHILE", cond |-> Condition(Opens(d)).code, brk |-> Brk(s.body),
                      body |-> visitBodyOfForLoop(s, d, Compile(s.step, Opens(d)).code)])
    IN  afterLoopCheck(s.body, Last(d.info).flag, Left(e), Size(i) - Size(c))

(* Over an array: dictionary, index and value lie below the flag.           *)
ForEachStatement(s, c) ==
    LET i    == Add(fixStack(Emits(c, <<PushInt(0), PushInt(0), PushInt(-99)>>), 2), s.v)
        d    == pushControlFlowFlag(s.body, i)
        n    == Size(d) - Size(c)
        cond == <<Push(n - 2), Push(n), Op("GETDICT"), Push(0), Pop(n - 1), Op("ISNULL"), Op("NOT")>>
        step == <<Push(n - 2), Op("INC"), Pop(n - 1)>>
        e    == Emit(d, [op |-> "WHILE", cond |-> cond, brk |-> Brk(s.body),
                         body |-> visitBodyOfForLoop(s, d, step)])
    IN  afterLoopCheck(s.body, Last(d.info).flag, Left(e), 3)

(* decl and inc and log are the statements without control flow.            *)
Compile(s, c) ==
    CASE s.is = "decl"     -> Add(Emit(c, PushInt(s.value)), s.v)
      [] s.is = "inc"      -> Emits(c, <<Push(Slot(c, s.v)), Op("INC"), Pop(Slot(c, s.v) + 1)>>)
      [] s.is = "log"      -> Emits(c, <<Push(Slot(c, s.v)), Op("LOG")>>)
      [] s.is = "throw"    -> Emit(c, Op("THROW"))
      [] s.is = "block"    -> acceptBody(s, c)
      [] s.is = "if"       -> IfStatement(s, c)
      [] s.is = "try"      -> TryStatement(s, c)
      [] s.is = "dowhile"  -> doWhile(s, c)
      [] s.is \in {"while", "repeat"} -> WhileStatement(s, c)
      [] s.is = "for"      -> ForStatement(s, c)
      [] s.is = "foreach"  -> ForEachStatement(s, c)
      [] s.is = "return"   -> Return(s, c)
      [] s.is = "break"    -> Break(c)
      [] s.is = "continue" -> Continue(c)

(* visitFunctionWithModifiers and visitModifierOrFunctionBlock for a        *)
(* function without modifiers, with the parameter "arg" and one return      *)
(* value, "ret", which has a slot of its own unless the only return is the  *)
(* last statement.                                                          *)
Function(b) ==
    LET where == notNeedsPushContWhenInlining(b)
        ret   == where # "last"
        c0    == [stack |-> IF ret THEN <<"arg", "ret">> ELSE <<"arg">>, start |-> 0, info |-> <<>>, code |-> <<>>]
        d     == FoldLeft(LAMBDA e, s : Compile(s, e), c0, b.list)
        trash == Size(d) - Size(c0)
        ends  == IF b.list # <<>> /\ Last(b.list).is = "return" THEN <<>>
                 ELSE Drop(trash) \o DropUnder(1, IF ret THEN 1 ELSE 0)
        body  == d.code \o ends
        last  == body[Len(body)]
    IN  (IF ret THEN <<PushInt(0)>> ELSE <<>>)
          \o CASE where = "anywhere" -> CallX(Block(body))
               [] where = "last"     -> Block(SubSeq(body, 1, Len(body) - 1) \o SubSeq(last.body, 1, Len(last.body) - 1))
               [] OTHER              -> Block(body)
=============================================================================
