------------------------------ MODULE ControlFlow ------------------------------
(***************************************************************************)
(* A function compiled by StatementCompiler runs on the TvmMachine.  The   *)
(* conditions of the source are answered one after the other, each answer  *)
(* is a step.  What the code does is compared with the meaning of the      *)
(* statements, given by Do.                                                *)
(***************************************************************************)
EXTENDS StatementCompiler, TvmMachine

CONSTANTS Programs,     \* names of functions -> their bodies
          MaxAnswers    \* how many conditions are answered

VARIABLES program, answers, machine
vars == <<program, answers, machine>>

Arg == 100
Init == /\ program \in DOMAIN Programs
        /\ answers = <<>>
        /\ machine = Run(Load(Function(Programs[program]), <<Arg>>))

AnswerCondition(b) ==
    /\ machine.status = "cond"
    /\ Len(answers) < MaxAnswers
    /\ machine' = Answer(machine, b)
    /\ answers' = Append(answers, b)
    /\ UNCHANGED program

Next == \E b \in BOOLEAN : AnswerCondition(b)
Spec == Init /\ [][Next]_vars

-----------------------------------------------------------------------------
(* The meaning of statements.  A state has the values of the variables, the *)
(* answers that are left, what was logged, and in "out" how the statement   *)
(* ended.                                                                   *)
Ends == {"next", "break", "continue", "return", "throw", "wait"}
RECURSIVE Do(_, _), DoLoop(_, _, _)

DoList(list, st) == FoldLeft(LAMBDA r, s : IF r.out = "next" THEN Do(s, r) ELSE r, st, list)
Out(st, how) == [st EXCEPT !.out = how]
Answered(st) == [st EXCEPT !.answers = Tail(@)]
Asking(st, then(_)) ==
    IF st.answers = <<>> THEN Out(st, "wait") ELSE then(Head(st.answers))

(* The n-th time at the head of a loop.                                     *)
DoLoop(s, n, st) ==
    LET asks   == s.is \in {"while", "for"} \/ (s.is = "dowhile" /\ n > 0)
        times  == CASE s.is = "repeat" -> Times [] s.is = "foreach" -> Len(Array) [] OTHER -> 1
        entered == IF s.is = "foreach" THEN [st EXCEPT !.env = (s.v :> Array[n + 1]) @@ @]
                   ELSE IF asks THEN Answered(st) ELSE st
        more(b) ==
            LET r == Do(s.body, entered)
                again == IF s.is = "for" THEN Do(s.step, Out(r, "next")) ELSE Out(r, "next")
            IN  IF ~b THEN IF asks THEN Answered(st) ELSE st
                ELSE CASE r.out \in {"next", "continue"} -> DoLoop(s, n + 1, again)
                       [] r.out = "break" -> Out(r, "next")
                       [] OTHER -> r
    IN  IF asks THEN Asking(st, more) ELSE more(n < times)

Do(s, st) ==
    CASE s.is = "decl"   -> [st EXCEPT !.env = (s.v :> s.value) @@ @]
      [] s.is = "inc"    -> [st EXCEPT !.env[s.v] = @ + 1]
      [] s.is = "log"    -> [st EXCEPT !.log = Append(@, st.env[s.v])]
      [] s.is = "block"  -> DoList(s.list, st)
      [] s.is = "if"     -> Asking(st, LAMBDA b : IF b THEN Do(s.then, Answered(st))
                                                  ELSE IF s.else = None THEN Answered(st)
                                                  ELSE Do(s.else, Answered(st)))
      [] s.is = "try"    -> LET r == Do(s.body, st)
                            IN  IF r.out = "throw" THEN Do(s.catch, Out(r, "next")) ELSE r
      [] s.is = "for"    -> DoLoop(s, 0, Do(s.init, st))
      [] s.is \in Loops \ {"for"} -> DoLoop(s, 0, st)
      [] s.is = "return" -> [Out(st, "return") EXCEPT !.env.ret = st.env[s.v]]
      [] s.is \in {"break", "continue", "throw"} -> Out(st, s.is)

Meaning(body, given) ==
    Do(body, [env |-> [arg |-> Arg, ret |-> 0], answers |-> given, log |-> <<>>, out |-> "next"])

-----------------------------------------------------------------------------
(* The generated code asks for the conditions of the source in their order, *)
(* logs the same values and ends in the same way with the same result, and  *)
(* leaves nothing else on the stack: every path out of nested statements,   *)
(* by break, continue, return or exception, drops exactly the slots of the  *)
(* statements it leaves.                                                    *)
SourceSemantics ==
    LET m == Meaning(Programs[program], answers)
    IN  /\ machine.log = m.log
        /\ CASE m.out = "wait"  -> machine.status = "cond"
             [] m.out = "throw" -> machine.status = "thrown"
             [] OTHER           -> machine.status = "returned" /\ machine.stack = <<m.env.ret>>

(* Wherever a condition is evaluated, the stack of the machine is as deep   *)
(* as the compiler thinks, so that a variable is read from its slot.        *)
StackSizeIsKnown == machine.status = "cond" => Len(machine.stack) = machine.size

(* A function gives back c1 and c2 as they were: neither the way out of a   *)
(* loop nor a handler of an exception survives it.                          *)
RegistersAreRestored ==
    machine.status = "returned" =>
        machine.c1.code = Halt("lost").code /\ machine.c2.code = Halt("thrown").code
=============================================================================
