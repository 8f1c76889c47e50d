------------------------------- MODULE CallGraph -------------------------------
(***************************************************************************)
(* How the compiler decides, call by call, whether the callee's code is    *)
(* pasted (inline function), referenced (CALLREF of a fragment) or called  *)
(* through a private function id, and in which order it hands the          *)
(* functions to the assembler (which must see a fragment before its user). *)
(*                                                                         *)
(* FunctionCallGraph holds the edges accepted so far.  Every call site     *)
(* tries its edge: a depth-first search over the whole graph, here one     *)
(* visit per step, tells whether it closes a loop; if so it is taken back. *)
(*                                                                         *)
(* A name is a number: std::map and std::set iterate over names in their   *)
(* order.  A program tells which functions a function calls, which are     *)
(* inline, and which one (or None) is onCodeUpgrade.  Main stands for      *)
(* main_internal and main_external, which reference the public functions   *)
(* and are compiled after all functions that can be called.                *)
(***************************************************************************)
EXTENDS Integers, FiniteSets, Sequences, FiniteSetsExt, SequencesExt

CONSTANTS Names,     \* the functions of the contract, Main among them
          Main,
          Id,        \* [Names -> Int]: the private id, a 14-bit hash unless given
          Programs,  \* the programs to compile
          None

Edge == [kind : {"inline", "fragment", "call"}, to : Names]

ASSUME NamesAreOrdered == Names \subseteq Nat /\ IsFiniteSet(Names) /\ Main \in Names
ASSUME NoneIsNothing == None \notin Names \cup Edge
ASSUME IdAssumption == Id \in [Names -> Int]

Program == [calls : [Names -> SUBSET Names], inline : SUBSET Names, upgrade : Names \cup {None}]
ASSUME ProgramsAreTyped == Programs \subseteq Program

VARIABLES program,   \* what is compiled
          phase,     \* "check", "inline", "functions", "order", "emit", "rest", "done", or how compilation failed
          functions, \* the functions compiled, in the order of their generation
          current,   \* m_currentFunctionName or None
          pending,   \* the calls of current that have no code yet
          graph,     \* m_graph
          private,   \* m_privcateFuncs
          code,      \* what the code of each function refers to
          color,     \* m_color
          order,     \* m_order
          stack,     \* the activations of dfs: the node and its successors not yet visited
          keys,      \* the keys of m_graph from which dfs has not been started
          edge,      \* the edge being tried and for whom, or None
          functionsInMap, \* the functions that are not in the output yet
          functionOrder,  \* the output
          at         \* where the loops over m_order and functions are

dfsVars == <<color, order, stack, keys>>
outputVars == <<functionsInMap, functionOrder, at>>
vars == <<program, phase, functions, current, pending, graph, private, code, color, order, stack, keys, edge,
          functionsInMap, functionOrder, at>>

Color == {"White", "Red", "Black"}
Ref == [kind : {"fragment", "id"}, to : Names]
Fragment(n) == [kind |-> "fragment", to |-> n]
ById(n) == [kind |-> "id", to |-> n]

Compiled == Range(functions)
Failed == phase \in {"cycle", "assert"}

-----------------------------------------------------------------------------
(* The depth-first search of the graph.                                     *)

(* mutant: the colours of the last search are kept *)
StartSearch_Stale(g) ==
    /\ color' = [n \in DOMAIN g |-> IF n \in DOMAIN color THEN color[n] ELSE "White"]
    /\ order' = <<>>
    /\ stack' = <<>>
    /\ keys'  = DOMAIN g

(* Every node White, nothing in m_order, the outer loop at the first key.   *)
StartSearch(g) ==
    /\ color' = [n \in DOMAIN g |-> "White"]
    /\ order' = <<>>
    /\ stack' = <<>>
    /\ keys'  = DOMAIN g

Idle == ~Failed /\ edge = None /\ stack = <<>> /\ keys = {}

Top == Head(stack)

(* dfs is entered at a White node.                                          *)
Enter(n) ==
    /\ color' = [color EXCEPT ![n] = "Red"]
    /\ UNCHANGED order

(* The outer loop starts dfs at the next key; a Black one returns at once.  *)
NextKey ==
    /\ stack = <<>> /\ keys # {}
    /\ LET k == Min(keys)
       IN  /\ keys' = keys \ {k}
           /\ IF color[k] = "White"
              THEN Enter(k) /\ stack' = <<[node |-> k, rest |-> graph[k]]>>
              ELSE UNCHANGED <<color, order, stack>>

(* dfs visits the next successor: a White one is entered, a Black one is    *)
(* left alone.                                                              *)
NextSuccessor ==
    /\ stack # <<>> /\ Top.rest # {}
    /\ LET m    == Min(Top.rest)
           here == [Top EXCEPT !.rest = @ \ {m}]
       IN  /\ color[m] # "Red"
           /\ IF color[m] = "White"
              THEN /\ Enter(m)
                   /\ stack' = <<[node |-> m, rest |-> graph[m]], here>> \o Tail(stack)
              ELSE /\ stack' = <<here>> \o Tail(stack)
                   /\ UNCHANGED <<color, order>>
    /\ UNCHANGED keys

(* mutant: a node is put in front of the order *)
Leave_Front ==
    /\ stack # <<>> /\ Top.rest = {}
    /\ order' = <<Top.node>> \o order
    /\ color' = [color EXCEPT ![Top.node] = "Black"]
    /\ stack' = Tail(stack)
    /\ UNCHANGED keys

(* All successors are done: the node is appended to m_order.                *)
Leave ==
    /\ stack # <<>> /\ Top.rest = {}
    /\ order' = Append(order, Top.node)
    /\ color' = [color EXCEPT ![Top.node] = "Black"]
    /\ stack' = Tail(stack)
    /\ UNCHANGED keys

(* The next successor is Red.                                               *)
LoopFound == stack # <<>> /\ Top.rest # {} /\ color[Min(Top.rest)] = "Red"

Finished == stack = <<>> /\ keys = {}

Search ==
    /\ phase \in {"inline", "functions", "order"}
    /\ NextKey \/ NextSuccessor \/ Leave
    /\ UNCHANGED <<program, phase, functions, current, pending, graph, private, code, edge, outputVars>>

-----------------------------------------------------------------------------
(* Compilation of one function.                                             *)

(* Loops among inline functions are reported to the user before any code is *)
(* generated; TVMInlineFunctionChecker follows inline functions only.       *)
InlineCalls(p) == [n \in p.inline |-> p.calls[n] \cap p.inline]

InlineLoop(p) ==
    \E loop \in SUBSET p.inline : loop # {} /\ \A n \in loop : InlineCalls(p)[n] \cap loop # {}

CheckInline ==
    /\ phase = "check"
    /\ phase' = IF InlineLoop(program) THEN "cycle" ELSE "inline"
    /\ UNCHANGED <<program, functions, current, pending, graph, private, code, edge, outputVars>> /\ UNCHANGED dfsVars

(* Inline functions are generated first, the ones they call before them;    *)
(* among those that do not call each other the order is that of addresses.  *)
(* The others follow in any order, Main last; the functions of libraries    *)
(* and free functions really come behind Main, which makes no difference to *)
(* the graph: nothing calls Main, so no loop goes through it.               *)
MayStart(n) ==
    /\ n \notin Compiled
    /\ CASE phase = "inline"    -> n \in program.inline /\ program.calls[n] \cap program.inline \subseteq Compiled
         [] phase = "functions" -> n \notin program.inline /\ (n = Main => Names \ {Main} \subseteq Compiled)
         [] OTHER               -> FALSE

Start(n) ==
    /\ current = None /\ Idle
    /\ MayStart(n)
    /\ current' = n
    /\ pending' = program.calls[n]
    /\ UNCHANGED <<program, phase, functions, graph, private, code, edge, outputVars>> /\ UNCHANGED dfsVars

(* tryToAddEdge inserts the edge, makes both ends keys and searches.        *)
TryEdge(kind, n) ==
    /\ graph' = [m \in DOMAIN graph \cup {current, n} |->
                    (IF m \in DOMAIN graph THEN graph[m] ELSE {}) \cup (IF m = current THEN {n} ELSE {})]
    /\ StartSearch(graph')
    /\ edge' = [kind |-> kind, to |-> n]

(* mutant: the id is pushed but not registered *)
CallById_Unregistered(n) ==
    /\ code' = [code EXCEPT ![current] = @ \cup {ById(n)}]
    /\ UNCHANGED <<phase, private>>

(* addPrivateFunction asserts that an id stands for one function.           *)
CallById(n) ==
    /\ code' = [code EXCEPT ![current] = @ \cup {ById(n)}]
    /\ IF Id[n] \in DOMAIN private /\ private[Id[n]] # n
       THEN phase' = "assert" /\ UNCHANGED private
       ELSE /\ private' = [i \in DOMAIN private \cup {Id[n]} |-> IF i = Id[n] THEN n ELSE private[i]]
            /\ UNCHANGED phase

(* A call site: an inline callee is pasted, Main's callees are put into the *)
(* selector, onCodeUpgrade is always called by its id.                      *)
Kind(n) ==
    IF n \in program.inline THEN "inline" ELSE IF current = Main THEN "fragment" ELSE "call"

Call(n) ==
    /\ current # None /\ Idle
    /\ n \in pending
    /\ pending' = pending \ {n}
    /\ IF n = program.upgrade
       THEN CallById(n) /\ UNCHANGED <<graph, edge>> /\ UNCHANGED dfsVars
       ELSE TryEdge(Kind(n), n) /\ UNCHANGED <<phase, private, code>>
    /\ UNCHANGED <<program, functions, current, outputVars>>

(* mutant: the accepted edge is tried again for the same caller *)
EdgeAdded_Again ==
    /\ edge # None /\ Finished
    /\ TryEdge(edge.kind, edge.to)
    /\ UNCHANGED <<program, phase, functions, current, pending, private, code, outputVars>>

(* No loop: pushInlineFunction pastes the body; pushCallOrCallRef goes on   *)
(* to pushFragment, which tries the same edge once more.                    *)
EdgeAdded ==
    /\ edge # None /\ Finished
    /\ CASE edge.kind = "inline" ->
              /\ code' = [code EXCEPT ![current] = @ \cup code[edge.to]]
              /\ edge' = None
              /\ UNCHANGED graph /\ UNCHANGED dfsVars
         [] edge.kind = "fragment" ->
              /\ code' = [code EXCEPT ![current] = @ \cup {Fragment(edge.to)}]
              /\ edge' = None
              /\ UNCHANGED graph /\ UNCHANGED dfsVars
         [] edge.kind = "call" ->
              /\ TryEdge("fragment", edge.to)
              /\ UNCHANGED code
    /\ UNCHANGED <<program, phase, functions, current, pending, private, outputVars>>

(* mutants: all edges of the caller are dropped; the edge stays *)
EdgeRefused_DropAll ==
    /\ edge # None /\ LoopFound
    /\ graph' = [graph EXCEPT ![current] = {}]
    /\ stack' = <<>> /\ keys' = {}
    /\ edge' = None
    /\ IF edge.kind = "call"
       THEN CallById(edge.to)
       ELSE phase' = "assert" /\ UNCHANGED <<private, code>>
    /\ UNCHANGED <<program, functions, current, pending, color, order, outputVars>>

EdgeRefused_Keep ==
    /\ edge # None /\ LoopFound
    /\ stack' = <<>> /\ keys' = {}
    /\ edge' = None
    /\ IF edge.kind = "call"
       THEN CallById(edge.to)
       ELSE phase' = "assert" /\ UNCHANGED <<private, code>>
    /\ UNCHANGED <<program, functions, current, pending, graph, color, order, outputVars>>

(* A loop: the edge is taken back.  pushCallOrCallRef then calls by the id; *)
(* pushInlineFunction and pushFragment assert that there is none.           *)
EdgeRefused ==
    /\ edge # None /\ LoopFound
    /\ graph' = [graph EXCEPT ![current] = @ \ {edge.to}]
    /\ stack' = <<>> /\ keys' = {}
    /\ edge' = None
    /\ IF edge.kind = "call"
       THEN CallById(edge.to)
       ELSE phase' = "assert" /\ UNCHANGED <<private, code>>
    /\ UNCHANGED <<program, functions, current, pending, color, order, outputVars>>

Finish ==
    /\ current # None /\ pending = {} /\ Idle
    /\ functions' = Append(functions, current)
    /\ current' = None
    /\ UNCHANGED <<program, phase, pending, graph, private, code, edge, outputVars>> /\ UNCHANGED dfsVars

InlineDone ==
    /\ phase = "inline" /\ current = None
    /\ program.inline \subseteq Compiled
    /\ phase' = "functions"
    /\ UNCHANGED <<program, functions, current, pending, graph, private, code, edge, outputVars>> /\ UNCHANGED dfsVars

-----------------------------------------------------------------------------
(* The order of the functions in the output.                                *)

(* DAG() searches once more, for m_order.                                   *)
BuildOrder ==
    /\ phase = "functions" /\ current = None /\ Compiled = Names
    /\ phase' = "order"
    /\ StartSearch(graph)
    /\ UNCHANGED <<program, functions, current, pending, graph, private, code, edge, outputVars>>

(* Every function but the inline ones, which are in no list of functions,   *)
(* is put into a map, for the loop over what DAG() returns.                 *)
StartOutput ==
    /\ phase = "order" /\ Finished
    /\ phase' = "emit"
    /\ functionsInMap' = Compiled \ program.inline
    /\ at' = 1
    /\ UNCHANGED <<program, functions, current, pending, graph, private, code, edge, functionOrder>> /\ UNCHANGED dfsVars

(* Functions of the graph come in m_order and leave the map.                *)
EmitOrdered ==
    /\ phase = "emit" /\ at <= Len(order)
    /\ at' = at + 1
    /\ IF order[at] \in functionsInMap
       THEN /\ functionOrder' = Append(functionOrder, order[at])
            /\ functionsInMap' = functionsInMap \ {order[at]}
       ELSE UNCHANGED <<functionOrder, functionsInMap>>
    /\ UNCHANGED <<program, phase, functions, current, pending, graph, private, code, edge>> /\ UNCHANGED dfsVars

StartRest ==
    /\ phase = "emit" /\ at > Len(order)
    /\ phase' = "rest"
    /\ at' = 1
    /\ UNCHANGED <<program, functions, current, pending, graph, private, code, edge>> /\ UNCHANGED dfsVars
    /\ UNCHANGED <<functionOrder, functionsInMap>>

(* The others follow in the order of their generation.                      *)
EmitOther ==
    /\ phase = "rest" /\ at <= Len(functions)
    /\ at' = at + 1
    /\ IF functions[at] \in functionsInMap
       THEN functionOrder' = Append(functionOrder, functions[at])
       ELSE UNCHANGED functionOrder
    /\ UNCHANGED <<program, phase, functions, current, pending, graph, private, code, edge, functionsInMap>> /\ UNCHANGED dfsVars

Done ==
    /\ phase = "rest" /\ at > Len(functions)
    /\ phase' = "done"
    /\ UNCHANGED <<program, functions, current, pending, graph, private, code, edge, outputVars>> /\ UNCHANGED dfsVars

Output == StartOutput \/ EmitOrdered \/ StartRest \/ EmitOther \/ Done

-----------------------------------------------------------------------------
Init ==
    /\ program \in Programs
    /\ phase = "check"
    /\ functions = <<>>
    /\ current = None
    /\ pending = {}
    /\ graph = <<>>
    /\ private = <<>>
    /\ code = [n \in Names |-> {}]
    /\ color = <<>> /\ order = <<>> /\ stack = <<>> /\ keys = {}
    /\ edge = None
    /\ functionsInMap = {} /\ functionOrder = <<>> /\ at = 1

Terminated == (phase = "done" \/ Failed) /\ UNCHANGED vars

Next ==
    \/ CheckInline
    \/ \E n \in Names : Start(n) \/ Call(n)
    \/ Search
    \/ EdgeAdded \/ EdgeRefused
    \/ Finish \/ InlineDone \/ BuildOrder \/ Output
    \/ Terminated

Spec == Init /\ [][Next]_vars /\ WF_vars(Next)

-----------------------------------------------------------------------------
Phase == {"check", "inline", "functions", "order", "emit", "rest", "done", "cycle", "assert"}

(* The types of the variables, with what proofs about the graph need: every *)
(* callee is a key, and an id stands for the function it was made from.     *)
TypeOK ==
    /\ program \in Program
    /\ phase \in Phase
    /\ functions \in Seq(Names)
    /\ current \in Names \cup {None}
    /\ pending \subseteq Names
    /\ DOMAIN graph \subseteq Names /\ \A n \in DOMAIN graph : graph[n] \subseteq DOMAIN graph
    /\ \A i \in DOMAIN private : private[i] \in Names /\ Id[private[i]] = i
    /\ code \in [Names -> SUBSET Ref]
    /\ color \in [DOMAIN color -> Color]
    /\ order \in Seq(Names)
    /\ stack \in Seq([node : Names, rest : SUBSET Names])
    /\ keys \subseteq Names
    /\ edge \in Edge \cup {None}
    /\ functionsInMap \subseteq Names
    /\ functionOrder \in Seq(Names)
    /\ at \in Nat

(* n reaches m by one edge of the graph or more.                            *)
Reaches(g, n, m) ==
    \A s \in SUBSET DOMAIN g :
        (g[n] \subseteq s /\ \A k \in s : g[k] \subseteq s) => m \in s

(* Whatever a function's code refers to as a fragment, itself or through an *)
(* inline function pasted into it, is behind it in the graph, and stays     *)
(* there while later edges are tried and taken back: no accepted edge is    *)
(* lost.                                                                    *)
CodeIsInGraph ==
    \A n \in Names : \A m \in Names :
        Fragment(m) \in code[n] => n \in DOMAIN graph /\ Reaches(graph, n, m)

(* The edges accepted so far, without the one being tried, have no loop, so *)
(* that tryToAddEdge blames the new edge rightly.                           *)
Accepted(n) == graph[n] \ (IF edge # None /\ n = current THEN {edge.to} ELSE {})
GraphHasNoLoop ==
    \A loop \in (SUBSET DOMAIN graph) \ {{}} : \E n \in loop : Accepted(n) \cap loop = {}

(* In the output every non-inline function appears once, and behind all     *)
(* fragments its code refers to.                                            *)
DefinedBeforeUse ==
    phase = "done" =>
        /\ IsInjective(functionOrder) /\ Range(functionOrder) = Names \ program.inline
        /\ \A i \in 1 .. Len(functionOrder) : \A m \in Names :
              Fragment(m) \in code[functionOrder[i]] => m \in {functionOrder[j] : j \in 1 .. (i - 1)}

(* A function that is called through its id is in the dictionary of private *)
(* functions under that id.                                                 *)
IdsResolve ==
    ~Failed => \A n \in Names : \A m \in Names :
        ById(m) \in code[n] => Id[m] \in DOMAIN private /\ private[Id[m]] = m

(* A call is made by id, the dearer way, only when the callee already leads *)
(* back to the caller, or is onCodeUpgrade.                                 *)
IdOnlyForLoop ==
    [][\A m \in Names :
          current # None /\ ById(m) \in code'[current] \ code[current] =>
              \/ m = program.upgrade
              \/ m = current
              \/ m \in DOMAIN graph /\ Reaches(graph', m, current)
              \/ \E k \in program.inline : edge # None /\ edge.to = k /\ ById(m) \in code[k]]_vars

(* Compilation ends, with code or with a diagnosis.                         *)
CompilationEnds == <>(phase = "done" \/ Failed)
=============================================================================
