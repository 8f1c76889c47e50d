---------------------------- MODULE ProgramSamples ----------------------------
(***************************************************************************)
(* Functions in which a way out (break, continue, return, throw) lies      *)
(* under up to three statements, each of them with a variable of its    *)
(* own that is written and logged after the inner statement.               *)
(***************************************************************************)
EXTENDS StatementCompiler

BlockOf(list) == [is |-> "block", list |-> list]
Decl(v, value) == [is |-> "decl", v |-> v, value |-> value]
Inc(v) == [is |-> "inc", v |-> v]
Log(v) == [is |-> "log", v |-> v]
Throw == [is |-> "throw"]
ReturnOf(v) == [is |-> "return", v |-> v]
If(then, else) == [is |-> "if", then |-> then, else |-> else]

Ways == {[is |-> "break"], [is |-> "continue"], ReturnOf("arg"), Throw}
IfKinds == {"if", "ifelse", "ifret", "try", "catch"}
LoopKinds == {"while", "whileret", "dowhile", "for", "foreach", "repeat"}
Kinds == IfKinds \cup LoopKinds
Name(depth) == <<"x", "y", "z">>[depth]

(* The statement of a kind around s.                                        *)
AroundOf(kind, depth, s) ==
    LET v     == Name(depth)
        inner == BlockOf(<<Decl(v, 10 * depth), s, Inc(v), Log(v)>>)
        mayReturn == BlockOf(<<Decl(v, 10 * depth), s, If(ReturnOf(v), None), Log(v)>>)
        note  == BlockOf(<<Log("arg")>>)
    IN  CASE kind = "if"       -> If(inner, None)
          [] kind = "ifelse"   -> If(note, inner)
          [] kind = "ifret"    -> If(mayReturn, None)
          [] kind = "while"    -> [is |-> "while", body |-> inner]
          [] kind = "whileret" -> [is |-> "while", body |-> mayReturn]
          [] kind = "dowhile"  -> [is |-> "dowhile", body |-> inner]
          [] kind = "repeat"   -> [is |-> "repeat", body |-> inner]
          [] kind = "for"      -> [is |-> "for", init |-> Decl(v, 10 * depth), step |-> Inc(v),
                                   body |-> BlockOf(<<s, Log(v)>>)]
          [] kind = "foreach"  -> [is |-> "foreach", v |-> v, body |-> BlockOf(<<s, Log(v)>>)]
          [] kind = "try"      -> [is |-> "try", body |-> inner, catch |-> note]
          [] kind = "catch"    -> [is |-> "try", body |-> BlockOf(<<Decl("t", 1), Throw>>), catch |-> inner]

(* A name of a function is the path of kinds to the way out, the way out,   *)
(* whether it depends on a condition, and whether the last statement of the *)
(* function is a return.                                                    *)
Named(paths) == [path : paths, way : Ways, sometimes : BOOLEAN, returns : BOOLEAN]

FunctionOf(f) ==
    LET n   == Len(f.path)
        way == IF f.sometimes THEN If(BlockOf(<<Decl("w", 7), f.way>>), None) ELSE f.way
    IN  BlockOf(<<FoldRight(LAMBDA k, s : AroundOf(f.path[k], k, s), [k \in 1 .. n |-> k], way), Log("arg")>>
                  \o IF f.returns THEN <<ReturnOf("arg")>> ELSE <<>>)

InLoops(f) == f.way.is \in {"break", "continue"} => \E i \in DOMAIN f.path : f.path[i] \in LoopKinds

(* A continue in an if or try of a loop without return, under a statement   *)
(* that declares a flag.                                                    *)
LeavesFlag(f) ==
    /\ f.way.is = "continue"
    /\ \E i, j, k \in DOMAIN f.path :
          /\ i < j /\ j < k
          /\ f.path[i] \in {"ifret", "whileret"}
          /\ f.path[j] \in LoopKinds \ {"whileret"}
          /\ \A l \in j + 1 .. Len(f.path) : f.path[l] \notin LoopKinds \cup {"ifret"}

=============================================================================
