---------------------------- MODULE CallGraphProofs ----------------------------
(***************************************************************************)
(* The call graph for every program, whatever its size and its calls.      *)
(*                                                                         *)
(* What tryToAddEdge promises rests on its depth-first search: the search  *)
(* invariant (SearchOK, StackOK) says that m_order is a topological order  *)
(* of the Black nodes and that the Red ones form the path on the stack.    *)
(***************************************************************************)
EXTENDS CallGraph, SequenceTheorems, WellFoundedInduction, TLAPS

(* The graph of the accepted edges.                                         *)
AcceptedGraph == [k \in DOMAIN graph |-> Accepted(k)]

(* Colours and order mean something from the start of a search until its    *)
(* answer is used.                                                          *)
Searching == edge # None \/ phase \in {"order", "emit", "rest", "done"}

(* Who may be compiled when, and whose edge is tried.                       *)
ControlOK ==
    /\ current # None /\ ~Failed => phase \in {"inline", "functions"}
    /\ edge # None => /\ ~Failed /\ current # None
                      /\ current \in DOMAIN graph /\ edge.to \in graph[current]
                      /\ edge.kind = "inline" => edge.to \in program.inline
    /\ ~Searching \/ phase \in {"emit", "rest", "done"} => Finished

(* An edge is tried for the first time: no edge of current goes to a callee *)
(* that is still pending, and who has not been started has no edges.        *)
PendingOK ==
    /\ current \in DOMAIN graph => graph[current] \cap pending = {}
    /\ \A n \in DOMAIN graph : n # current /\ n \notin Compiled => graph[n] = {}

(* Nodes that were never a key are not White any more; the Black ones are   *)
(* in m_order, each once and behind its successors.                         *)
SearchOK ==
    /\ color \in [DOMAIN graph -> Color]
    /\ keys \subseteq DOMAIN graph
    /\ \A n \in DOMAIN graph \ keys : color[n] # "White"
    /\ \A i \in 1 .. Len(order) : order[i] \in DOMAIN graph /\ color[order[i]] = "Black"
    /\ \A n \in DOMAIN graph : color[n] = "Black" => \E i \in 1 .. Len(order) : order[i] = n
    /\ \A i \in 1 .. Len(order) : \A j \in 1 .. Len(order) : order[i] = order[j] => i = j
    /\ \A i \in 1 .. Len(order) : \A m \in graph[order[i]] : \E j \in 1 .. (i - 1) : order[j] = m

(* The activations of dfs are the Red nodes, each once, the innermost       *)
(* first; each is a successor of the next one, and the successors that an   *)
(* activation is done with are Black, but for the one it waits for.         *)
StackOK ==
    /\ \A i \in 1 .. Len(stack) : /\ stack[i].node \in DOMAIN graph
                                  /\ color[stack[i].node] = "Red"
                                  /\ stack[i].rest \subseteq graph[stack[i].node]
    /\ \A i \in 1 .. Len(stack) : \A j \in 1 .. Len(stack) : stack[i].node = stack[j].node => i = j
    /\ \A n \in DOMAIN graph : color[n] = "Red" => \E i \in 1 .. Len(stack) : stack[i].node = n
    /\ \A i \in 1 .. Len(stack) : \A m \in graph[stack[i].node] \ stack[i].rest :
          color[m] = "Black" \/ (i > 1 /\ m = stack[i - 1].node)
    /\ \A i \in 2 .. Len(stack) : stack[i - 1].node \in graph[stack[i].node]

(* Fragments are reached by accepted edges already.                         *)
FragmentsOK ==
    \A n \in Names : \A m \in Names :
        Fragment(m) \in code[n] => n \in DOMAIN graph /\ Reaches(AcceptedGraph, n, m)

GraphInv ==
    /\ TypeOK /\ ControlOK /\ PendingOK
    /\ Searching => SearchOK /\ StackOK
    /\ GraphHasNoLoop /\ FragmentsOK /\ IdsResolve

(* Every function is generated once, all of them before DAG() is called,    *)
(* and only what is not inline is referred to as a fragment.                *)
GeneratedOK ==
    /\ \A i \in 1 .. Len(functions) : \A j \in 1 .. Len(functions) : functions[i] = functions[j] => i = j
    /\ current \notin Compiled
    /\ phase \in {"order", "emit", "rest", "done"} => Compiled = Names
    /\ edge # None /\ edge.kind # "inline" => edge.to \notin program.inline
    /\ \A n \in Names : \A m \in Names : Fragment(m) \in code[n] => m \notin program.inline

(* What a loop at index k of s has passed.                                  *)
Passed(s, k) == {s[j] : j \in 1 .. (k - 1)}

(* The output so far: what left the map is in it, once and behind the       *)
(* fragments its code refers to.                                            *)
OutputOK ==
    /\ phase \notin {"emit", "rest", "done"} => functionOrder = <<>>
    /\ \A i \in 1 .. Len(functionOrder) : \A j \in 1 .. Len(functionOrder) :
          functionOrder[i] = functionOrder[j] => i = j
    /\ \A i \in 1 .. Len(functionOrder) : \A m \in Names :
          Fragment(m) \in code[functionOrder[i]] => m \in {functionOrder[j] : j \in 1 .. (i - 1)}
    /\ phase = "emit" =>
          /\ at \in 1 .. Len(order) + 1
          /\ functionsInMap = (Names \ program.inline) \ Passed(order, at)
          /\ Range(functionOrder) = Passed(order, at) \ program.inline
    /\ phase = "rest" =>
          /\ at \in 1 .. Len(functions) + 1
          /\ functionsInMap = (Names \ program.inline) \ DOMAIN graph
          /\ Range(functionOrder) = (DOMAIN graph \ program.inline) \cup (Passed(functions, at) \cap functionsInMap)
    /\ phase = "done" => Range(functionOrder) = Names \ program.inline

(* In m_order, as DAG() returns it, every function of the graph appears     *)
(* once, and behind all fragments its code refers to.                       *)
OrderIsTopological ==
    phase \in {"emit", "rest", "done"} =>
        /\ \A i \in DOMAIN order : \A j \in DOMAIN order : order[i] = order[j] => i = j
        /\ Range(order) = DOMAIN graph
        /\ \A n \in Names : \A m \in Names : Fragment(m) \in code[n] =>
              \E i \in DOMAIN order : \E j \in DOMAIN order : j < i /\ order[i] = n /\ order[j] = m

-----------------------------------------------------------------------------
(***************************************************************************)
(* Facts about the operators.                                              *)
(***************************************************************************)
(* The least element that std::set and std::map iterate from.               *)
LEMMA MinFact ==
    ASSUME NEW S \in SUBSET Nat, S # {}
    PROVE  Min(S) \in S /\ \A y \in S : Min(S) =< y
<1> DEFINE R == {ss \in Nat \X Nat : ss[1] < ss[2]}
<1>1. IsWellFoundedOn(R, Nat)
  BY NatLessThanWellFounded, Zenon DEF OpToRel
<1> HIDE DEF R
<1>2. PICK x \in S : \A y \in S : ~(<<y, x>> \in R)
  BY <1>1, WFMin
<1>3. ASSUME NEW y \in S PROVE x =< y
  <2>1. <<y, x>> \in Nat \X Nat /\ <<y, x>>[1] = y /\ <<y, x>>[2] = x
    OBVIOUS
  <2>2. ~(<<y, x>>[1] < <<y, x>>[2])
    BY <1>2, <2>1, Zenon DEF R
  <2> QED BY <2>1, <2>2
<1> QED BY <1>3 DEF Min

(* The top activation goes on with a successor less.                        *)
LEMMA ReplaceTop ==
    ASSUME NEW S, NEW s \in Seq(S), s # <<>>, NEW e \in S
    PROVE  /\ <<e>> \o Tail(s) \in Seq(S)
           /\ Len(<<e>> \o Tail(s)) = Len(s)
           /\ (<<e>> \o Tail(s))[1] = e
           /\ \A i \in 2 .. Len(s) : (<<e>> \o Tail(s))[i] = s[i]
<1>1. Tail(s) \in Seq(S) /\ Len(s) \in Nat \ {0} /\ Len(Tail(s)) = Len(s) - 1
  BY HeadTailProperties, EmptySeq
<1>2. \A i \in 1 .. Len(s) - 1 : Tail(s)[i] = s[i + 1]
  BY <1>1, HeadTailProperties
<1>3. <<e>> \in Seq(S) /\ Len(<<e>>) = 1 /\ <<e>>[1] = e
  OBVIOUS
<1>4. /\ <<e>> \o Tail(s) \in Seq(S)
      /\ Len(<<e>> \o Tail(s)) = 1 + (Len(s) - 1)
      /\ \A i \in 1 .. 1 + (Len(s) - 1) :
            (<<e>> \o Tail(s))[i] = IF i =< 1 THEN <<e>>[i] ELSE Tail(s)[i - 1]
  BY <1>1, <1>3, ConcatProperties
<1>5. ASSUME NEW i \in 2 .. Len(s) PROVE (<<e>> \o Tail(s))[i] = s[i]
  <2>1. i - 1 \in 1 .. Len(s) - 1 /\ i \in 1 .. 1 + (Len(s) - 1) /\ ~(i =< 1) /\ (i - 1) + 1 = i
    BY <1>1
  <2> QED BY <2>1, <1>2, <1>4
<1>6. (<<e>> \o Tail(s))[1] = e
  BY <1>1, <1>3, <1>4
<1> QED BY <1>1, <1>4, <1>5, <1>6

(* A successor is entered.                                                  *)
LEMMA PushOnTop ==
    ASSUME NEW S, NEW s \in Seq(S), s # <<>>, NEW e \in S, NEW f \in S
    PROVE  /\ <<f, e>> \o Tail(s) \in Seq(S)
           /\ Len(<<f, e>> \o Tail(s)) = Len(s) + 1
           /\ (<<f, e>> \o Tail(s))[1] = f
           /\ (<<f, e>> \o Tail(s))[2] = e
           /\ \A i \in 3 .. Len(s) + 1 : (<<f, e>> \o Tail(s))[i] = s[i - 1]
<1>1. Tail(s) \in Seq(S) /\ Len(s) \in Nat \ {0} /\ Len(Tail(s)) = Len(s) - 1
  BY HeadTailProperties, EmptySeq
<1>2. \A i \in 1 .. Len(s) - 1 : Tail(s)[i] = s[i + 1]
  BY <1>1, HeadTailProperties
<1>3. <<f, e>> \in Seq(S) /\ Len(<<f, e>>) = 2 /\ <<f, e>>[1] = f /\ <<f, e>>[2] = e
  OBVIOUS
<1>4. /\ <<f, e>> \o Tail(s) \in Seq(S)
      /\ Len(<<f, e>> \o Tail(s)) = 2 + (Len(s) - 1)
      /\ \A i \in 1 .. 2 + (Len(s) - 1) :
            (<<f, e>> \o Tail(s))[i] = IF i =< 2 THEN <<f, e>>[i] ELSE Tail(s)[i - 2]
  BY <1>1, <1>3, ConcatProperties
<1>5. ASSUME NEW i \in 3 .. Len(s) + 1 PROVE (<<f, e>> \o Tail(s))[i] = s[i - 1]
  <2>1. i - 2 \in 1 .. Len(s) - 1 /\ i \in 1 .. 2 + (Len(s) - 1) /\ ~(i =< 2) /\ (i - 2) + 1 = i - 1
    BY <1>1
  <2> QED BY <2>1, <1>2, <1>4
<1>6. (<<f, e>> \o Tail(s))[1] = f /\ (<<f, e>> \o Tail(s))[2] = e
  BY <1>1, <1>3, <1>4
<1> QED BY <1>1, <1>4, <1>5, <1>6

(* The top activation ends.                                                 *)
LEMMA PopTop ==
    ASSUME NEW S, NEW s \in Seq(S), s # <<>>
    PROVE  /\ Head(s) = s[1] /\ s[1] \in S
           /\ Tail(s) \in Seq(S)
           /\ Len(s) \in Nat \ {0}
           /\ Len(Tail(s)) = Len(s) - 1
           /\ \A i \in 1 .. Len(s) - 1 : Tail(s)[i] = s[i + 1]
<1>1. Tail(s) \in Seq(S) /\ Len(s) \in Nat \ {0} /\ Len(Tail(s)) = Len(s) - 1
  BY HeadTailProperties, EmptySeq
<1>2. \A i \in 1 .. Len(s) - 1 : Tail(s)[i] = s[i + 1]
  BY <1>1, HeadTailProperties
<1>3. Head(s) = s[1] /\ s[1] \in S
  BY <1>1, ElementOfSeq
<1> QED BY <1>1, <1>2, <1>3

(* A node is reached in every graph with more nodes and edges.              *)
LEMMA ReachesMore ==
    ASSUME NEW g, NEW h, NEW n \in DOMAIN g, NEW m,
           DOMAIN g \subseteq DOMAIN h,
           \A k \in DOMAIN g : g[k] \subseteq h[k] /\ g[k] \subseteq DOMAIN g,
           Reaches(g, n, m)
    PROVE  Reaches(h, n, m)
<1> SUFFICES ASSUME NEW s \in SUBSET DOMAIN h, h[n] \subseteq s, \A k \in s : h[k] \subseteq s
             PROVE  m \in s
  BY DEF Reaches
<1>1. s \cap DOMAIN g \in SUBSET DOMAIN g
  OBVIOUS
<1>2. g[n] \subseteq s \cap DOMAIN g /\ \A k \in s \cap DOMAIN g : g[k] \subseteq s \cap DOMAIN g
  OBVIOUS
<1> QED BY <1>1, <1>2 DEF Reaches

(* A successor is reached, and what it reaches.                             *)
LEMMA ReachesNext ==
    ASSUME NEW g, NEW n \in DOMAIN g, NEW k \in g[n]
    PROVE  Reaches(g, n, k) /\ \A m : Reaches(g, k, m) => Reaches(g, n, m)
<1>1. Reaches(g, n, k)
  BY DEF Reaches
<1>2. ASSUME NEW m, Reaches(g, k, m) PROVE Reaches(g, n, m)
  BY <1>2 DEF Reaches
<1> QED BY <1>1, <1>2

-----------------------------------------------------------------------------
(***************************************************************************)
(* Types.                                                                  *)
(***************************************************************************)
Activation == [node : Names, rest : SUBSET Names]

(* The three steps of a search, spelled out for the indices of the stack.   *)
LEMMA NextKeyFacts ==
    ASSUME TypeOK, keys \subseteq DOMAIN graph, NextKey
    PROVE  \E k \in keys :
              /\ stack = <<>> /\ keys' = keys \ {k} /\ order' = order
              /\ \/ /\ color[k] = "White" /\ color' = [color EXCEPT ![k] = "Red"]
                    /\ stack' \in Seq(Activation) /\ Len(stack') = 1
                    /\ stack'[1].node = k /\ stack'[1].rest = graph[k]
                 \/ color[k] # "White" /\ color' = color /\ stack' = stack
<1> DEFINE k == Min(keys)
<1>1. k \in keys /\ k \in Names /\ graph[k] \subseteq Names
  BY MinFact, NamesAreOrdered DEF NextKey, TypeOK
<1> HIDE DEF k
<1>2. /\ stack = <<>> /\ keys' = keys \ {k}
      /\ IF color[k] = "White"
         THEN Enter(k) /\ stack' = <<[node |-> k, rest |-> graph[k]]>>
         ELSE UNCHANGED <<color, order, stack>>
  BY DEF NextKey, k
<1>3. [node |-> k, rest |-> graph[k]] \in Activation
  BY <1>1 DEF Activation
<1>4. CASE color[k] = "White"
  <2>1. stack' = <<[node |-> k, rest |-> graph[k]]>> /\ color' = [color EXCEPT ![k] = "Red"] /\ order' = order
    BY <1>2, <1>4 DEF Enter
  <2>2. /\ stack' \in Seq(Activation) /\ Len(stack') = 1
        /\ stack'[1].node = k /\ stack'[1].rest = graph[k]
    BY <2>1, <1>3
  <2> QED BY <2>1, <2>2, <1>1, <1>2, <1>4
<1>5. CASE color[k] # "White"
  BY <1>1, <1>2, <1>5
<1> QED BY <1>4, <1>5

(* A successor is visited.                                                  *)
LEMMA NextSuccessorFacts ==
    ASSUME TypeOK, NextSuccessor, stack[1].rest \subseteq DOMAIN graph
    PROVE  \E m \in stack[1].rest :
              /\ Len(stack) \in Nat \ {0} /\ keys' = keys /\ order' = order
              /\ stack' \in Seq(Activation) /\ color[m] # "Red"
              /\ \/ /\ color[m] = "White" /\ color' = [color EXCEPT ![m] = "Red"]
                    /\ Len(stack') = Len(stack) + 1
                    /\ stack'[1].node = m /\ stack'[1].rest = graph[m]
                    /\ stack'[2].node = stack[1].node /\ stack'[2].rest = stack[1].rest \ {m}
                    /\ \A i \in 3 .. Len(stack) + 1 : stack'[i] = stack[i - 1]
                 \/ /\ color[m] # "White" /\ color' = color
                    /\ Len(stack') = Len(stack)
                    /\ stack'[1].node = stack[1].node /\ stack'[1].rest = stack[1].rest \ {m}
                    /\ \A i \in 2 .. Len(stack) : stack'[i] = stack[i]
<1>1. stack \in Seq(Activation) /\ stack # <<>> /\ Top.rest # {}
  BY DEF TypeOK, Activation, NextSuccessor
<1>2. Top = stack[1] /\ stack[1] \in Activation /\ Len(stack) \in Nat \ {0}
  BY <1>1, PopTop DEF Top
<1> DEFINE m == Min(Top.rest)
           here == [Top EXCEPT !.rest = @ \ {m}]
           new == [node |-> m, rest |-> graph[m]]
<1>3. m \in stack[1].rest
  BY <1>1, <1>2, MinFact, NamesAreOrdered DEF Activation
<1>4. /\ color[m] # "Red" /\ keys' = keys
      /\ IF color[m] = "White"
         THEN Enter(m) /\ stack' = <<new, here>> \o Tail(stack)
         ELSE stack' = <<here>> \o Tail(stack) /\ UNCHANGED <<color, order>>
  BY DEF NextSuccessor
<1> HIDE DEF m
<1>5. here \in Activation /\ here.node = stack[1].node /\ here.rest = stack[1].rest \ {m}
  BY <1>2 DEF Activation
<1>6. new \in Activation /\ new.node = m /\ new.rest = graph[m]
  BY <1>3 DEF Activation, TypeOK
<1> HIDE DEF here, new
<1>7. CASE color[m] = "White"
  <2>1. stack' = <<new, here>> \o Tail(stack) /\ color' = [color EXCEPT ![m] = "Red"] /\ order' = order
    BY <1>4, <1>7 DEF Enter
  <2>2. /\ stack' \in Seq(Activation) /\ Len(stack') = Len(stack) + 1
        /\ stack'[1] = new /\ stack'[2] = here
        /\ \A i \in 3 .. Len(stack) + 1 : stack'[i] = stack[i - 1]
    BY <2>1, <1>1, <1>5, <1>6, PushOnTop
  <2> QED BY <2>1, <2>2, <1>2, <1>3, <1>4, <1>5, <1>6, <1>7
<1>8. CASE color[m] # "White"
  <2>1. stack' = <<here>> \o Tail(stack) /\ color' = color /\ order' = order
    BY <1>4, <1>8
  <2>2. /\ stack' \in Seq(Activation) /\ Len(stack') = Len(stack)
        /\ stack'[1] = here
        /\ \A i \in 2 .. Len(stack) : stack'[i] = stack[i]
    BY <2>1, <1>1, <1>5, ReplaceTop
  <2> QED BY <2>1, <2>2, <1>2, <1>3, <1>4, <1>5, <1>8
<1> QED BY <1>7, <1>8

(* An activation ends.                                                      *)
LEMMA LeaveFacts ==
    ASSUME TypeOK, Leave
    PROVE  /\ Len(stack) \in Nat \ {0} /\ stack[1].rest = {} /\ stack[1].node \in Names /\ keys' = keys
           /\ color' = [color EXCEPT ![stack[1].node] = "Black"]
           /\ order' \in Seq(Names) /\ Len(order) \in Nat /\ Len(order') = Len(order) + 1
           /\ order'[Len(order) + 1] = stack[1].node
           /\ \A i \in 1 .. Len(order) : order'[i] = order[i]
           /\ stack' \in Seq(Activation) /\ Len(stack') = Len(stack) - 1
           /\ \A i \in 1 .. Len(stack) - 1 : stack'[i] = stack[i + 1]
<1>1. stack \in Seq(Activation) /\ stack # <<>> /\ Top.rest = {} /\ stack' = Tail(stack) /\ keys' = keys
  BY DEF TypeOK, Activation, Leave
<1>2. Top = stack[1] /\ stack[1] \in Activation /\ Len(stack) \in Nat \ {0}
  BY <1>1, PopTop DEF Top
<1>3. /\ stack' \in Seq(Activation) /\ Len(stack') = Len(stack) - 1
      /\ \A i \in 1 .. Len(stack) - 1 : stack'[i] = stack[i + 1]
  BY <1>1, PopTop
<1>4. stack[1].node \in Names /\ order \in Seq(Names) /\ order' = Append(order, stack[1].node)
  BY <1>2 DEF TypeOK, Leave, Activation
<1>5. /\ order' \in Seq(Names) /\ Len(order) \in Nat /\ Len(order') = Len(order) + 1
      /\ order'[Len(order) + 1] = stack[1].node
      /\ \A i \in 1 .. Len(order) : order'[i] = order[i]
  BY <1>4
<1> QED BY <1>1, <1>2, <1>3, <1>4, <1>5 DEF Leave

(* The loops that fill the output leave the rest alone.                     *)
LEMMA OutputFacts ==
    ASSUME Output
    PROVE  /\ UNCHANGED <<program, functions, current, pending, graph, private, code, edge>> /\ UNCHANGED dfsVars
           /\ phase \in {"order", "emit", "rest"} /\ phase' \in {"emit", "rest", "done"}
           /\ phase = "order" => Finished
<1>1. CASE StartOutput
  BY <1>1 DEF StartOutput
<1>2. CASE EmitOrdered
  BY <1>2 DEF EmitOrdered
<1>3. CASE StartRest
  BY <1>3 DEF StartRest
<1>4. CASE EmitOther
  BY <1>4 DEF EmitOther
<1>5. CASE Done
  BY <1>5 DEF Done
<1> QED BY <1>1, <1>2, <1>3, <1>4, <1>5 DEF Output

(* Nobody else touches the output.                                          *)
LEMMA OutputOnly ==
    ASSUME [Next]_vars
    PROVE  Output \/ UNCHANGED outputVars
<1>1. CASE \E n \in Names : Start(n) \/ Call(n)
  BY <1>1 DEF Start, Call
<1>2. CASE CheckInline \/ Search \/ Finish \/ InlineDone \/ BuildOrder
  BY <1>2 DEF CheckInline, Search, Finish, InlineDone, BuildOrder
<1>3. CASE EdgeAdded \/ EdgeRefused
  BY <1>3 DEF EdgeAdded, EdgeRefused
<1>4. CASE UNCHANGED vars
  BY <1>4 DEF vars, outputVars
<1> QED BY <1>1, <1>2, <1>3, <1>4 DEF Next, Terminated

(* Its types.                                                               *)
LEMMA OutputTypes ==
    ASSUME TypeOK, [Next]_vars
    PROVE  functionsInMap' \subseteq Names /\ functionOrder' \in Seq(Names) /\ at' \in Nat
<1>0. functionsInMap \subseteq Names /\ functionOrder \in Seq(Names) /\ at \in Nat
  BY DEF TypeOK
<1>1. CASE StartOutput
  BY <1>1 DEF StartOutput, TypeOK, Compiled, Range
<1>2. CASE EmitOrdered
  <2>1. at' = at + 1 /\ functionsInMap' \subseteq functionsInMap
    BY <1>2 DEF EmitOrdered
  <2>2. functionOrder' = functionOrder \/ \E n \in functionsInMap : functionOrder' = Append(functionOrder, n)
    BY <1>2 DEF EmitOrdered
  <2> QED BY <1>0, <2>1, <2>2
<1>3. CASE StartRest
  BY <1>3 DEF StartRest, TypeOK
<1>4. CASE EmitOther
  <2>1. at' = at + 1 /\ functionsInMap' = functionsInMap
    BY <1>4 DEF EmitOther
  <2>2. functionOrder' = functionOrder \/ \E n \in functionsInMap : functionOrder' = Append(functionOrder, n)
    BY <1>4 DEF EmitOther
  <2> QED BY <1>0, <2>1, <2>2
<1>5. CASE Done \/ UNCHANGED outputVars
  BY <1>0, <1>5 DEF Done, outputVars
<1> QED BY <1>1, <1>2, <1>3, <1>4, <1>5, OutputOnly DEF Output

(* The graph with one edge more, and the search over it.                    *)
LEMMA TryEdgeFacts ==
    ASSUME TypeOK, current \in Names, NEW kind \in {"inline", "fragment", "call"}, NEW n \in Names,
           TryEdge(kind, n)
    PROVE  /\ DOMAIN graph' = DOMAIN graph \cup {current, n}
           /\ \A m \in DOMAIN graph : m # current => graph'[m] = graph[m]
           /\ current \in DOMAIN graph => graph'[current] = graph[current] \cup {n}
           /\ current \notin DOMAIN graph => graph'[current] = {n}
           /\ \A m \in DOMAIN graph' \ DOMAIN graph : m # current => graph'[m] = {}
           /\ color' = [m \in DOMAIN graph' |-> "White"]
           /\ order' = <<>> /\ stack' = <<>> /\ keys' = DOMAIN graph'
           /\ edge' \in Edge /\ edge' # None /\ edge'.kind = kind /\ edge'.to = n
<1> DEFINE Added(m) == (IF m \in DOMAIN graph THEN graph[m] ELSE {}) \cup (IF m = current THEN {n} ELSE {})
<1>1. graph' = [m \in DOMAIN graph \cup {current, n} |-> Added(m)]
  BY DEF TryEdge
<1>2. DOMAIN graph' = DOMAIN graph \cup {current, n} /\ \A m \in DOMAIN graph' : graph'[m] = Added(m)
  BY <1>1
<1>3. edge' \in Edge /\ edge' # None /\ edge'.kind = kind /\ edge'.to = n
  BY NoneIsNothing DEF TryEdge, Edge
<1> QED BY <1>2, <1>3 DEF TryEdge, StartSearch

(* Their types.                                                             *)
LEMMA TryEdgeTypes ==
    ASSUME TypeOK, current \in Names, NEW kind \in {"inline", "fragment", "call"}, NEW n \in Names,
           TryEdge(kind, n)
    PROVE  /\ DOMAIN graph' \subseteq Names /\ \A m \in DOMAIN graph' : graph'[m] \subseteq DOMAIN graph'
           /\ color' \in [DOMAIN color' -> Color] /\ order' \in Seq(Names)
           /\ stack' \in Seq(Activation) /\ keys' \subseteq Names /\ edge' \in Edge
<1>1. DOMAIN graph' = DOMAIN graph \cup {current, n}
  BY TryEdgeFacts
<1>2. ASSUME NEW m \in DOMAIN graph' PROVE graph'[m] \subseteq DOMAIN graph'
  <2>1. CASE m = current
    <3>1. graph'[m] \subseteq (IF current \in DOMAIN graph THEN graph[current] ELSE {}) \cup {n}
      BY <2>1, TryEdgeFacts
    <3> QED BY <1>1, <3>1 DEF TypeOK
  <2>2. CASE m # current /\ m \in DOMAIN graph
    <3>1. graph'[m] = graph[m]
      BY <2>2, TryEdgeFacts
    <3> QED BY <1>1, <2>2, <3>1 DEF TypeOK
  <2>3. CASE m # current /\ m \notin DOMAIN graph
    <3>1. graph'[m] = {}
      BY <1>2, <2>3, TryEdgeFacts
    <3> QED BY <3>1
  <2> QED BY <2>1, <2>2, <2>3
<1>3. DOMAIN graph' \subseteq Names
  BY <1>1 DEF TypeOK
<1>4. /\ color' = [m \in DOMAIN graph' |-> "White"]
      /\ order' = <<>> /\ stack' = <<>> /\ keys' = DOMAIN graph' /\ edge' \in Edge
  BY TryEdgeFacts
<1> QED BY <1>2, <1>3, <1>4 DEF Color

(* An id stands for one function.                                           *)
LEMMA CallByIdFacts ==
    ASSUME TypeOK, current \in Names, NEW n \in Names, CallById(n)
    PROVE  /\ code' \in [Names -> SUBSET Ref]
           /\ \A k \in Names : k # current => code'[k] = code[k]
           /\ code'[current] = code[current] \cup {ById(n)}
           /\ phase' \in {phase, "assert"}
           /\ \A i \in DOMAIN private' : private'[i] \in Names /\ Id[private'[i]] = i
           /\ \A i \in DOMAIN private : i \in DOMAIN private' /\ (phase' = phase => private'[i] = private[i])
           /\ phase' # "assert" => Id[n] \in DOMAIN private' /\ private'[Id[n]] = n
<1>1. code' = [code EXCEPT ![current] = @ \cup {ById(n)}] /\ ById(n) \in Ref
  BY DEF CallById, ById, Ref
<1>2. /\ code' \in [Names -> SUBSET Ref]
      /\ \A k \in Names : k # current => code'[k] = code[k]
      /\ code'[current] = code[current] \cup {ById(n)}
  BY <1>1 DEF TypeOK
<1>3. CASE Id[n] \in DOMAIN private /\ private[Id[n]] # n
  BY <1>2, <1>3 DEF CallById, TypeOK
<1>4. CASE ~(Id[n] \in DOMAIN private /\ private[Id[n]] # n)
  <2>1. private' = [i \in DOMAIN private \cup {Id[n]} |-> IF i = Id[n] THEN n ELSE private[i]] /\ phase' = phase
    BY <1>4 DEF CallById
  <2>2. /\ DOMAIN private' = DOMAIN private \cup {Id[n]} /\ private'[Id[n]] = n
        /\ \A i \in DOMAIN private : i # Id[n] => private'[i] = private[i]
    BY <2>1
  <2> QED BY <1>2, <1>4, <2>1, <2>2 DEF TypeOK
<1> QED BY <1>3, <1>4
(* Nothing is searched but for an edge or for the order.                    *)
LEMMA SearchIsOn ==
    ASSUME ControlOK, Search
    PROVE  Searching
  BY DEF ControlOK, Finished, Search, NextKey, NextSuccessor, Leave

(* Types, from the types and the search invariant.                          *)
LEMMA TypeStep ==
    ASSUME TypeOK, ControlOK, Searching => SearchOK /\ StackOK, [Next]_vars
    PROVE  TypeOK'
<1>0. functionsInMap' \subseteq Names /\ functionOrder' \in Seq(Names) /\ at' \in Nat
  BY OutputTypes
<1>1. CASE CheckInline
  BY <1>0, <1>1 DEF CheckInline, TypeOK, dfsVars, Phase
<1>2. CASE \E n \in Names : Start(n)
  BY <1>0, <1>2 DEF Start, TypeOK, dfsVars, Program
<1>3. ASSUME NEW n \in Names, Call(n) PROVE TypeOK'
  <2>1. current \in Names /\ UNCHANGED <<program, functions, current>> /\ pending' \subseteq Names
    BY <1>3 DEF Call, TypeOK
  <2>2. CASE n = program.upgrade
    <3>1. CallById(n) /\ UNCHANGED <<graph, edge, color, order, stack, keys>>
      BY <1>3, <2>2 DEF Call, dfsVars
    <3> QED BY <1>0, <2>1, <3>1, CallByIdFacts DEF TypeOK, Phase
  <2>3. CASE n # program.upgrade
    <3>1. TryEdge(Kind(n), n) /\ UNCHANGED <<phase, private, code>>
      BY <1>3, <2>3 DEF Call
    <3>2. Kind(n) \in {"inline", "fragment", "call"}
      BY DEF Kind
    <3>3. DOMAIN graph' \subseteq Names /\ (\A m \in DOMAIN graph' : graph'[m] \subseteq DOMAIN graph') /\ edge' \in Edge
      BY <2>1, <3>1, <3>2, TryEdgeTypes
    <3>4. color' \in [DOMAIN color' -> Color] /\ order' \in Seq(Names) /\ stack' \in Seq(Activation) /\ keys' \subseteq Names
      BY <2>1, <3>1, <3>2, TryEdgeTypes
    <3> QED BY <1>0, <2>1, <3>1, <3>3, <3>4 DEF TypeOK, Activation
  <2> QED BY <2>2, <2>3
<1>4. CASE Search
  <2>1. SearchOK /\ StackOK /\ UNCHANGED <<program, phase, functions, current, pending, graph, private, code, edge>>
    BY <1>4, SearchIsOn DEF Search
  <2>2. CASE NextKey
    <3>1. PICK k \in keys :
              /\ stack = <<>> /\ keys' = keys \ {k} /\ order' = order
              /\ \/ /\ color[k] = "White" /\ color' = [color EXCEPT ![k] = "Red"]
                    /\ stack' \in Seq(Activation) /\ Len(stack') = 1
                    /\ stack'[1].node = k /\ stack'[1].rest = graph[k]
                 \/ color[k] # "White" /\ color' = color /\ stack' = stack
      BY <2>1, <2>2, NextKeyFacts DEF SearchOK
    <3>2. color' \in [DOMAIN color' -> Color]
      BY <3>1 DEF TypeOK, Color
    <3> QED BY <1>0, <2>1, <3>1, <3>2 DEF TypeOK, Activation
  <2>3. CASE NextSuccessor
    <3>1. stack \in Seq(Activation) /\ stack # <<>>
      BY <2>3 DEF NextSuccessor, TypeOK, Activation
    <3>2. 1 \in 1 .. Len(stack)
      BY <3>1, PopTop
    <3>a. stack[1].node \in DOMAIN graph /\ stack[1].rest \subseteq graph[stack[1].node]
      BY <2>1, <3>2 DEF StackOK
    <3>b. \A n \in DOMAIN graph : graph[n] \subseteq DOMAIN graph
      BY DEF TypeOK
    <3>3. stack[1].rest \subseteq DOMAIN graph
      BY <3>a, <3>b
    <3>4. keys' = keys /\ order' = order /\ stack' \in Seq(Activation)
          /\ (color' = color \/ \E m \in stack[1].rest : color' = [color EXCEPT ![m] = "Red"])
      BY <2>3, <3>3, NextSuccessorFacts
    <3>5. color' \in [DOMAIN color' -> Color]
      BY <3>4 DEF TypeOK, Color
    <3> QED BY <1>0, <2>1, <3>4, <3>5 DEF TypeOK, Activation
  <2>4. CASE Leave
    <3>1. color' \in [DOMAIN color' -> Color]
      BY <2>4, LeaveFacts DEF TypeOK, Color
    <3> QED BY <1>0, <2>1, <2>4, <3>1, LeaveFacts DEF TypeOK, Activation
  <2> QED BY <1>4, <2>2, <2>3, <2>4 DEF Search
<1>5. CASE EdgeAdded
  <2>1. /\ edge \in Edge /\ current \in Names /\ edge.to \in Names
        /\ edge.kind \in {"inline", "fragment", "call"}
        /\ UNCHANGED <<program, phase, functions, current, pending, private>>
    BY <1>5 DEF EdgeAdded, TypeOK, ControlOK, Edge
  <2>2. CASE edge.kind = "inline"
    <3>1. code' = [code EXCEPT ![current] = @ \cup code[edge.to]] /\ edge' = None
          /\ UNCHANGED <<graph, color, order, stack, keys>>
      BY <1>5, <2>2 DEF EdgeAdded, dfsVars
    <3>2. code' \in [Names -> SUBSET Ref]
      BY <2>1, <3>1 DEF TypeOK
    <3> QED BY <1>0, <2>1, <3>1, <3>2 DEF TypeOK
  <2>3. CASE edge.kind = "fragment"
    <3>1. code' = [code EXCEPT ![current] = @ \cup {Fragment(edge.to)}] /\ edge' = None
          /\ UNCHANGED <<graph, color, order, stack, keys>>
      BY <1>5, <2>3 DEF EdgeAdded, dfsVars
    <3>2. code' \in [Names -> SUBSET Ref]
      BY <2>1, <3>1 DEF TypeOK, Fragment, Ref
    <3> QED BY <1>0, <2>1, <3>1, <3>2 DEF TypeOK
  <2>4. CASE edge.kind = "call"
    <3>1. TryEdge("fragment", edge.to) /\ UNCHANGED code
      BY <1>5, <2>4 DEF EdgeAdded
    <3>3. DOMAIN graph' \subseteq Names /\ (\A m \in DOMAIN graph' : graph'[m] \subseteq DOMAIN graph') /\ edge' \in Edge
      BY <2>1, <3>1, TryEdgeTypes
    <3>4. color' \in [DOMAIN color' -> Color] /\ order' \in Seq(Names) /\ stack' \in Seq(Activation) /\ keys' \subseteq Names
      BY <2>1, <3>1, TryEdgeTypes
    <3> QED BY <1>0, <2>1, <3>1, <3>3, <3>4 DEF TypeOK, Activation
  <2> QED BY <2>1, <2>2, <2>3, <2>4
<1>6. CASE EdgeRefused
  <2>1. /\ edge \in Edge /\ current \in Names /\ edge.to \in Names
        /\ UNCHANGED <<program, functions, current, pending, color, order>>
        /\ graph' = [graph EXCEPT ![current] = @ \ {edge.to}]
        /\ stack' = <<>> /\ keys' = {} /\ edge' = None
    BY <1>6 DEF EdgeRefused, TypeOK, ControlOK, Edge
  <2>2. DOMAIN graph' \subseteq Names /\ \A n \in DOMAIN graph' : graph'[n] \subseteq DOMAIN graph'
    BY <2>1 DEF TypeOK
  <2>3. CASE edge.kind = "call"
    BY <1>0, <1>6, <2>1, <2>2, <2>3, CallByIdFacts DEF EdgeRefused, TypeOK, Phase
  <2>4. CASE edge.kind # "call"
    BY <1>0, <1>6, <2>1, <2>2, <2>4 DEF EdgeRefused, TypeOK, Phase
  <2> QED BY <2>3, <2>4
<1>7. CASE Finish
  BY <1>0, <1>7 DEF Finish, TypeOK, dfsVars
<1>8. CASE InlineDone
  BY <1>0, <1>8 DEF InlineDone, TypeOK, dfsVars, Phase
<1>9. CASE BuildOrder
  BY <1>0, <1>9 DEF BuildOrder, StartSearch, TypeOK, Phase, Color
<1>10. CASE Output
  BY <1>0, <1>10, OutputFacts DEF TypeOK, dfsVars, Phase
<1>11. CASE UNCHANGED vars
  BY <1>11 DEF vars, TypeOK
<1> QED BY <1>1, <1>2, <1>3, <1>4, <1>5, <1>6, <1>7, <1>8, <1>9, <1>10, <1>11 DEF Next, Terminated
-----------------------------------------------------------------------------
(***************************************************************************)
(* Who is compiled, and which edges are new.                               *)
(***************************************************************************)
(* An accepted edge that is tried once more changes nothing in the graph.   *)
LEMMA TryAgain ==
    ASSUME TypeOK, ControlOK, EdgeAdded, edge.kind = "call"
    PROVE  /\ edge \in Edge /\ edge.to \in Names /\ current \in Names
           /\ DOMAIN graph' = DOMAIN graph /\ \A m \in DOMAIN graph : graph'[m] = graph[m]
           /\ color' = [m \in DOMAIN graph' |-> "White"]
           /\ order' = <<>> /\ stack' = <<>> /\ keys' = DOMAIN graph'
           /\ edge' \in Edge /\ edge' # None /\ edge'.kind = "fragment" /\ edge'.to = edge.to
           /\ UNCHANGED <<program, phase, functions, current, pending, private, code>>
<1>1. edge \in Edge /\ edge.to \in Names /\ current \in Names /\ current \in DOMAIN graph /\ edge.to \in graph[current]
  BY DEF TypeOK, ControlOK, EdgeAdded, Edge
<1>2. TryEdge("fragment", edge.to) /\ UNCHANGED <<program, phase, functions, current, pending, private, code>>
  BY DEF EdgeAdded
<1>3. /\ DOMAIN graph' = DOMAIN graph \cup {current, edge.to}
      /\ \A m \in DOMAIN graph : m # current => graph'[m] = graph[m]
      /\ graph'[current] = graph[current] \cup {edge.to}
      /\ color' = [m \in DOMAIN graph' |-> "White"]
      /\ order' = <<>> /\ stack' = <<>> /\ keys' = DOMAIN graph'
      /\ edge' \in Edge /\ edge' # None /\ edge'.kind = "fragment" /\ edge'.to = edge.to
  BY <1>1, <1>2, TryEdgeFacts
<1>4. edge.to \in DOMAIN graph
  BY <1>1 DEF TypeOK
<1> QED BY <1>1, <1>2, <1>3, <1>4

(* The other answers to a search.                                           *)
LEMMA EdgeFacts ==
    ASSUME TypeOK, ControlOK, edge # None
    PROVE  /\ edge \in Edge /\ edge.to \in Names /\ current \in Names /\ ~Failed
           /\ edge.kind \in {"inline", "fragment", "call"}
           /\ current \in DOMAIN graph /\ edge.to \in graph[current] /\ edge.to \in DOMAIN graph
           /\ phase \in {"inline", "functions"}
  BY DEF TypeOK, ControlOK, Edge

(* The edge stays, and the code is extended.                                *)
LEMMA AddedFacts ==
    ASSUME TypeOK, ControlOK, EdgeAdded, edge.kind # "call"
    PROVE  /\ Finished /\ edge' = None
           /\ code' = [code EXCEPT ![current] = @ \cup (IF edge.kind = "inline" THEN code[edge.to] ELSE {Fragment(edge.to)})]
           /\ UNCHANGED <<program, phase, functions, current, pending, private, graph, color, order, stack, keys>>
<1>1. edge.kind \in {"inline", "fragment"}
  BY EdgeFacts DEF EdgeAdded
<1>2. CASE edge.kind = "inline"
  BY <1>2 DEF EdgeAdded, dfsVars
<1>3. CASE edge.kind = "fragment"
  BY <1>3 DEF EdgeAdded, dfsVars
<1> QED BY <1>1, <1>2, <1>3

(* The edge is taken back.                                                  *)
LEMMA RefusedFacts ==
    ASSUME TypeOK, ControlOK, EdgeRefused
    PROVE  /\ LoopFound /\ edge' = None /\ stack' = <<>> /\ keys' = {}
           /\ DOMAIN graph' = DOMAIN graph
           /\ \A m \in DOMAIN graph : graph'[m] = Accepted(m)
           /\ phase' \in {phase, "assert"}
           /\ UNCHANGED <<program, functions, current, pending, color, order>>
<1>1. graph' = [graph EXCEPT ![current] = @ \ {edge.to}] /\ edge # None
  BY DEF EdgeRefused
<1>2. DOMAIN graph' = DOMAIN graph /\ \A m \in DOMAIN graph : graph'[m] = Accepted(m)
  BY <1>1 DEF Accepted
<1>3. phase' \in {phase, "assert"}
  BY EdgeFacts, CallByIdFacts DEF EdgeRefused
<1> QED BY <1>2, <1>3 DEF EdgeRefused

(* Who may be compiled when.                                                *)
LEMMA ControlStep ==
    ASSUME TypeOK, ControlOK, [Next]_vars
    PROVE  ControlOK'
<1>1. CASE CheckInline
  <2>1. edge = None /\ current = None /\ ~Searching /\ ~Failed
    BY <1>1 DEF CheckInline, ControlOK, Searching, Failed
  <2> QED BY <1>1, <2>1 DEF CheckInline, ControlOK, dfsVars, Finished, Searching
<1>2. ASSUME NEW n \in Names, Start(n) PROVE ControlOK'
  <2>1. phase \in {"inline", "functions"} /\ edge = None /\ Finished
    BY <1>2 DEF Start, MayStart, Idle, Finished
  <2> QED BY <1>2, <2>1 DEF Start, ControlOK, dfsVars, Finished, Searching, Failed
<1>3. ASSUME NEW n \in Names, Call(n) PROVE ControlOK'
  <2>1. current \in Names /\ current # None /\ ~Failed /\ edge = None /\ Finished /\ phase \in {"inline", "functions"}
        /\ UNCHANGED <<program, current>>
    BY <1>3 DEF Call, Idle, TypeOK, ControlOK, Finished
  <2>2. CASE n = program.upgrade
    <3>1. CallById(n) /\ UNCHANGED <<graph, edge, color, order, stack, keys>>
      BY <1>3, <2>2 DEF Call, dfsVars
    <3>2. phase' \in {phase, "assert"}
      BY <2>1, <3>1, CallByIdFacts
    <3> QED BY <2>1, <3>1, <3>2 DEF ControlOK, Finished, Searching, Failed
  <2>3. CASE n # program.upgrade
    <3>1. TryEdge(Kind(n), n) /\ phase' = phase
      BY <1>3, <2>3 DEF Call
    <3>2. Kind(n) \in {"inline", "fragment", "call"} /\ (Kind(n) = "inline" => n \in program.inline)
      BY DEF Kind
    <3>3. /\ DOMAIN graph' = DOMAIN graph \cup {current, n}
          /\ current \in DOMAIN graph => graph'[current] = graph[current] \cup {n}
          /\ current \notin DOMAIN graph => graph'[current] = {n}
          /\ edge' # None /\ edge'.kind = Kind(n) /\ edge'.to = n
      BY <2>1, <3>1, <3>2, TryEdgeFacts
    <3> QED BY <2>1, <3>1, <3>2, <3>3 DEF ControlOK, Searching, Failed
  <2> QED BY <2>2, <2>3
<1>4. CASE Search
  <2>1. Searching /\ phase \notin {"emit", "rest", "done"} /\ UNCHANGED <<program, phase, functions, current, graph, edge>>
    BY <1>4, SearchIsOn DEF Search
  <2> QED BY <2>1 DEF ControlOK, Searching, Failed
<1>5. CASE EdgeAdded /\ edge.kind = "call"
  <2>1. /\ current \in DOMAIN graph' /\ edge'.to \in graph'[current] /\ edge' # None /\ edge'.kind = "fragment"
        /\ ~Failed /\ current # None /\ phase \in {"inline", "functions"}
        /\ UNCHANGED <<program, phase, current>>
    BY <1>5, TryAgain, EdgeFacts DEF EdgeAdded, ControlOK
  <2> QED BY <2>1 DEF ControlOK, Searching, Failed
<1>6. CASE EdgeAdded /\ edge.kind # "call"
  <2>1. edge # None
    BY <1>6 DEF EdgeAdded
  <2> QED BY <1>6, <2>1, AddedFacts, EdgeFacts DEF ControlOK, Searching, Failed, Finished
<1>7. CASE EdgeRefused
  <2>1. edge # None
    BY <1>7 DEF EdgeRefused
  <2> QED BY <1>7, <2>1, RefusedFacts, EdgeFacts DEF ControlOK, Searching, Failed, Finished
<1>8. CASE Finish
  BY <1>8 DEF Finish, Idle, ControlOK, dfsVars, Finished, Searching, Failed
<1>9. CASE InlineDone
  BY <1>9 DEF InlineDone, ControlOK, dfsVars, Finished, Searching, Failed
<1>10. CASE BuildOrder
  BY <1>10 DEF BuildOrder, StartSearch, ControlOK, Finished, Searching, Failed
<1>11. CASE Output
  BY <1>11, OutputFacts DEF ControlOK, dfsVars, Finished, Searching, Failed
<1>12. CASE UNCHANGED vars
  BY <1>12 DEF vars, ControlOK, Finished, Searching, Failed
<1> QED BY <1>1, <1>2, <1>3, <1>4, <1>5, <1>6, <1>7, <1>8, <1>9, <1>10, <1>11, <1>12 DEF Next, Terminated

(* Every edge is tried once per caller.                                     *)
LEMMA PendingStep ==
    ASSUME TypeOK, ControlOK, PendingOK, [Next]_vars
    PROVE  PendingOK'
<1>0. None \notin DOMAIN graph
  BY NoneIsNothing DEF TypeOK
<1>1. CASE CheckInline
  BY <1>1 DEF CheckInline, PendingOK, Compiled
<1>2. ASSUME NEW n \in Names, Start(n) PROVE PendingOK'
  <2>1. n \notin Compiled /\ current = None /\ current' = n /\ UNCHANGED <<functions, graph>>
    BY <1>2 DEF Start, MayStart
  <2> QED BY <1>0, <2>1 DEF PendingOK, Compiled
<1>3. ASSUME NEW n \in Names, Call(n) PROVE PendingOK'
  <2>1. current \in Names /\ pending' = pending \ {n} /\ UNCHANGED <<functions, current>>
    BY <1>3 DEF Call, TypeOK
  <2>2. CASE n = program.upgrade
    BY <1>3, <2>1, <2>2 DEF Call, PendingOK, Compiled
  <2>3. CASE n # program.upgrade
    <3>1. TryEdge(Kind(n), n)
      BY <1>3, <2>3 DEF Call
    <3>2. Kind(n) \in {"inline", "fragment", "call"}
      BY DEF Kind
    <3>3. /\ \A m \in DOMAIN graph : m # current => graph'[m] = graph[m]
          /\ current \in DOMAIN graph => graph'[current] = graph[current] \cup {n}
          /\ current \notin DOMAIN graph => graph'[current] = {n}
          /\ \A m \in DOMAIN graph' \ DOMAIN graph : m # current => graph'[m] = {}
      BY <2>1, <3>1, <3>2, TryEdgeFacts
    <3>4. graph'[current] \cap pending' = {}
      BY <2>1, <3>3 DEF PendingOK
    <3>5. ASSUME NEW m \in DOMAIN graph', m # current, m \notin Compiled PROVE graph'[m] = {}
      BY <3>3, <3>5 DEF PendingOK
    <3> QED BY <2>1, <3>4, <3>5 DEF PendingOK, Compiled
  <2> QED BY <2>2, <2>3
<1>4. CASE Search
  BY <1>4 DEF Search, PendingOK, Compiled
<1>5. CASE EdgeAdded /\ edge.kind = "call"
  BY <1>5, TryAgain DEF PendingOK, Compiled
<1>6. CASE EdgeAdded /\ edge.kind # "call"
  BY <1>6, AddedFacts DEF PendingOK, Compiled
<1>7. CASE EdgeRefused
  BY <1>7, RefusedFacts DEF PendingOK, Compiled, Accepted
<1>8. CASE Finish
  <2>1. functions \in Seq(Names) /\ current \in Names /\ functions' = Append(functions, current) /\ current' = None /\ UNCHANGED <<pending, graph>>
    BY <1>8 DEF Finish, TypeOK
  <2>2. Compiled' = Compiled \cup {current}
    <3>1. DOMAIN functions = 1 .. Len(functions) /\ DOMAIN functions' = 1 .. Len(functions) + 1 /\ Len(functions) \in Nat
      BY <2>1
    <3>2. functions'[Len(functions) + 1] = current /\ \A i \in 1 .. Len(functions) : functions'[i] = functions[i]
      BY <2>1
    <3> QED BY <3>1, <3>2 DEF Compiled, Range
  <2> QED BY <1>0, <2>1, <2>2 DEF PendingOK
<1>9. CASE InlineDone
  BY <1>9 DEF InlineDone, PendingOK, Compiled
<1>10. CASE BuildOrder
  BY <1>10 DEF BuildOrder, PendingOK, Compiled
<1>11. CASE Output
  BY <1>11, OutputFacts DEF PendingOK, Compiled
<1>12. CASE UNCHANGED vars
  BY <1>12 DEF vars, PendingOK, Compiled
<1> QED BY <1>1, <1>2, <1>3, <1>4, <1>5, <1>6, <1>7, <1>8, <1>9, <1>10, <1>11, <1>12 DEF Next, Terminated
-----------------------------------------------------------------------------
(***************************************************************************)
(* The depth-first search.                                                 *)
(***************************************************************************)
(* A search starts with everything White.                                   *)
LEMMA FreshSearch ==
    ASSUME color' = [m \in DOMAIN graph' |-> "White"], order' = <<>>, stack' = <<>>, keys' = DOMAIN graph'
    PROVE  SearchOK' /\ StackOK'
<1>1. SearchOK'
  BY DEF SearchOK, Color
<1>2. StackOK'
  BY DEF StackOK
<1> QED BY <1>1, <1>2

(* The outer loop starts at a key.                                          *)
LEMMA SearchKey ==
    ASSUME TypeOK, SearchOK, StackOK, NextKey, UNCHANGED graph
    PROVE  SearchOK' /\ StackOK'
<1>1. PICK k \in keys :
         /\ stack = <<>> /\ keys' = keys \ {k} /\ order' = order
         /\ \/ /\ color[k] = "White" /\ color' = [color EXCEPT ![k] = "Red"]
               /\ stack' \in Seq(Activation) /\ Len(stack') = 1
               /\ stack'[1].node = k /\ stack'[1].rest = graph[k]
            \/ color[k] # "White" /\ color' = color /\ stack' = stack
  BY NextKeyFacts DEF SearchOK
<1>2. k \in DOMAIN graph /\ Len(order) \in Nat
  BY <1>1 DEF SearchOK, TypeOK
<1>3. CASE color[k] # "White"
  BY <1>1, <1>2, <1>3 DEF SearchOK, StackOK
<1>4. CASE color[k] = "White"
  <2>1. /\ color' \in [DOMAIN graph -> Color] /\ color'[k] = "Red"
        /\ \A n \in DOMAIN graph : n # k => color'[n] = color[n]
    BY <1>1, <1>2, <1>4 DEF SearchOK, Color
  <2>2. \A n \in DOMAIN graph : color[n] # "Red"
    BY <1>1 DEF StackOK
  <2>3. SearchOK'
    BY <1>1, <1>2, <1>4, <2>1 DEF SearchOK
  <2>4. Len(stack') = 1 /\ stack'[1].node = k /\ stack'[1].rest = graph[k]
    BY <1>1, <1>4
  <2>5. StackOK'
    BY <1>2, <2>1, <2>2, <2>4 DEF StackOK
  <2> QED BY <2>3, <2>5
<1> QED BY <1>3, <1>4

(* A successor is visited.                                                  *)
LEMMA SearchSuccessor ==
    ASSUME TypeOK, SearchOK, StackOK, NextSuccessor, UNCHANGED graph
    PROVE  SearchOK' /\ StackOK'
<1>1. 1 \in 1 .. Len(stack)
  BY PopTop DEF NextSuccessor, TypeOK
<1>2. stack[1].rest \subseteq graph[stack[1].node] /\ stack[1].node \in DOMAIN graph /\ stack[1].rest \subseteq DOMAIN graph
  <2>1. stack[1].node \in DOMAIN graph /\ stack[1].rest \subseteq graph[stack[1].node]
    BY <1>1 DEF StackOK
  <2>2. \A n \in DOMAIN graph : graph[n] \subseteq DOMAIN graph
    BY DEF TypeOK
  <2> QED BY <2>1, <2>2
<1>3. PICK m \in stack[1].rest :
         /\ Len(stack) \in Nat \ {0} /\ keys' = keys /\ order' = order
         /\ stack' \in Seq(Activation) /\ color[m] # "Red"
         /\ \/ /\ color[m] = "White" /\ color' = [color EXCEPT ![m] = "Red"]
               /\ Len(stack') = Len(stack) + 1
               /\ stack'[1].node = m /\ stack'[1].rest = graph[m]
               /\ stack'[2].node = stack[1].node /\ stack'[2].rest = stack[1].rest \ {m}
               /\ \A i \in 3 .. Len(stack) + 1 : stack'[i] = stack[i - 1]
            \/ /\ color[m] # "White" /\ color' = color
               /\ Len(stack') = Len(stack)
               /\ stack'[1].node = stack[1].node /\ stack'[1].rest = stack[1].rest \ {m}
               /\ \A i \in 2 .. Len(stack) : stack'[i] = stack[i]
  BY <1>2, NextSuccessorFacts
<1>4. m \in DOMAIN graph /\ m \in graph[stack[1].node] /\ Len(order) \in Nat
  BY <1>2 DEF TypeOK
<1>5. CASE color[m] = "White"
  <2>1. /\ color' \in [DOMAIN graph -> Color] /\ color'[m] = "Red"
        /\ \A n \in DOMAIN graph : n # m => color'[n] = color[n]
    BY <1>3, <1>4, <1>5 DEF SearchOK, Color
  <2>2. SearchOK'
    BY <1>3, <1>4, <1>5, <2>1 DEF SearchOK
  <2>3. /\ Len(stack) \in Nat \ {0} /\ Len(stack') = Len(stack) + 1
        /\ stack'[1].node = m /\ stack'[1].rest = graph[m]
        /\ stack'[2].node = stack[1].node /\ stack'[2].rest = stack[1].rest \ {m}
        /\ \A i \in 3 .. Len(stack) + 1 : stack'[i] = stack[i - 1]
    BY <1>3, <1>5
  <2>4. \A i \in 2 .. Len(stack) + 1 :
           /\ i - 1 \in 1 .. Len(stack)
           /\ stack'[i].node = stack[i - 1].node
           /\ stack'[i].rest \subseteq stack[i - 1].rest
    BY <2>3
  <2>5. \A i \in 1 .. Len(stack) : color[stack[i].node] = "Red" /\ stack[i].node \in DOMAIN graph /\ stack[i].node # m
    BY <1>5 DEF StackOK
  <2>6. ASSUME NEW i \in 1 .. Len(stack')
        PROVE  /\ stack'[i].node \in DOMAIN graph
               /\ color'[stack'[i].node] = "Red"
               /\ stack'[i].rest \subseteq graph[stack'[i].node]
    <3>1. CASE i = 1
      BY <3>1, <1>4, <2>1, <2>3
    <3>2. CASE i \in 2 .. Len(stack) + 1
      <4>1. stack[i - 1].rest \subseteq graph[stack[i - 1].node]
        BY <2>4, <3>2 DEF StackOK
      <4> QED BY <3>2, <2>1, <2>4, <2>5, <4>1
    <3> QED BY <2>3, <3>1, <3>2
  <2>7. ASSUME NEW i \in 1 .. Len(stack'), NEW j \in 1 .. Len(stack'), stack'[i].node = stack'[j].node
        PROVE  i = j
    <3>1. CASE i = 1 \/ j = 1
      BY <3>1, <2>3, <2>4, <2>5, <2>7
    <3>2. CASE i \in 2 .. Len(stack) + 1 /\ j \in 2 .. Len(stack) + 1
      <4>1. stack[i - 1].node = stack[j - 1].node /\ i - 1 \in 1 .. Len(stack) /\ j - 1 \in 1 .. Len(stack)
        BY <3>2, <2>4, <2>7
      <4>2. i - 1 = j - 1
        BY <4>1 DEF StackOK
      <4> QED BY <4>2, <2>3
    <3> QED BY <2>3, <3>1, <3>2
  <2>8. ASSUME NEW n \in DOMAIN graph, color'[n] = "Red"
        PROVE  \E i \in 1 .. Len(stack') : stack'[i].node = n
    <3>1. CASE n = m
      BY <3>1, <2>3
    <3>2. CASE n # m
      <4>1. PICK i \in 1 .. Len(stack) : stack[i].node = n
        BY <2>1, <2>8, <3>2 DEF StackOK
      <4>2. i + 1 \in 2 .. Len(stack) + 1 /\ (i + 1) - 1 = i
        BY <2>3
      <4>3. stack'[i + 1].node = n /\ i + 1 \in 1 .. Len(stack')
        BY <4>1, <4>2, <2>3, <2>4
      <4> QED BY <4>3
    <3> QED BY <3>1, <3>2
  <2>9. ASSUME NEW i \in 1 .. Len(stack'), NEW x \in graph[stack'[i].node] \ stack'[i].rest
        PROVE  color'[x] = "Black" \/ (i > 1 /\ x = stack'[i - 1].node)
    <3>1. CASE i = 1
      BY <3>1, <2>3
    <3>2. CASE i = 2
      <4>1. CASE x = m
        BY <4>1, <3>2, <2>3
      <4>2. CASE x # m
        <5>1. x \in graph[stack[1].node] \ stack[1].rest /\ x \in DOMAIN graph
          BY <4>2, <3>2, <2>3, <1>2 DEF TypeOK
        <5>2. color[x] = "Black"
          BY <5>1, <1>1 DEF StackOK
        <5> QED BY <5>1, <5>2, <4>2, <2>1
      <4> QED BY <4>1, <4>2
    <3>3. CASE i \in 3 .. Len(stack) + 1
      <4>1. stack'[i] = stack[i - 1] /\ stack'[i - 1].node = stack[i - 2].node /\ i - 1 \in 1 .. Len(stack) /\ (i - 1) - 1 = i - 2 /\ i > 1
        BY <3>3, <2>3, <2>4
      <4>2. color[x] = "Black" \/ x = stack[(i - 1) - 1].node
        BY <4>1 DEF StackOK
      <4>3. x \in DOMAIN graph
        BY <4>1, <2>5 DEF TypeOK
      <4> QED BY <4>1, <4>2, <4>3, <1>5, <2>1
    <3> QED BY <2>3, <3>1, <3>2, <3>3
  <2>10. ASSUME NEW i \in 2 .. Len(stack')
         PROVE  stack'[i - 1].node \in graph[stack'[i].node]
    <3>1. CASE i = 2
      BY <3>1, <2>3, <1>4
    <3>2. CASE i \in 3 .. Len(stack) + 1
      <4>1. stack'[i] = stack[i - 1] /\ stack'[i - 1].node = stack[i - 2].node /\ i - 1 \in 2 .. Len(stack) /\ (i - 1) - 1 = i - 2
        BY <3>2, <2>3, <2>4
      <4>2. stack[(i - 1) - 1].node \in graph[stack[i - 1].node]
        BY <4>1 DEF StackOK
      <4> QED BY <4>1, <4>2
    <3> QED BY <2>3, <3>1, <3>2
  <2>11. StackOK'
    BY <2>6, <2>7, <2>8, <2>9, <2>10 DEF StackOK
  <2> QED BY <2>2, <2>11
<1>6. CASE color[m] # "White"
  <2>1. color[m] = "Black"
    BY <1>3, <1>4, <1>6 DEF SearchOK, Color
  <2>2. SearchOK'
    BY <1>3, <1>6 DEF SearchOK
  <2>3. /\ Len(stack) \in Nat \ {0} /\ Len(stack') = Len(stack) /\ color' = color
        /\ stack'[1].node = stack[1].node /\ stack'[1].rest = stack[1].rest \ {m}
        /\ \A i \in 2 .. Len(stack) : stack'[i] = stack[i]
    BY <1>3, <1>6
  <2>4. \A i \in 1 .. Len(stack) : stack'[i].node = stack[i].node /\ stack'[i].rest \subseteq stack[i].rest
    BY <2>3
  <2>5. ASSUME NEW i \in 1 .. Len(stack'), NEW x \in graph[stack'[i].node] \ stack'[i].rest
        PROVE  color'[x] = "Black" \/ (i > 1 /\ x = stack'[i - 1].node)
    <3>1. CASE x = m /\ i = 1
      BY <3>1, <2>1, <2>3
    <3>2. CASE ~(x = m /\ i = 1)
      <4>1. x \in graph[stack[i].node] \ stack[i].rest /\ i \in 1 .. Len(stack)
        BY <3>2, <2>3, <2>4
      <4>2. color[x] = "Black" \/ (i > 1 /\ x = stack[i - 1].node)
        BY <4>1 DEF StackOK
      <4>3. i > 1 => i - 1 \in 1 .. Len(stack)
        BY <4>1, <2>3
      <4> QED BY <4>2, <4>3, <2>3, <2>4
    <3> QED BY <3>1, <3>2
  <2>6. \A i \in 1 .. Len(stack') : /\ stack'[i].node \in DOMAIN graph
                                   /\ color'[stack'[i].node] = "Red"
                                   /\ stack'[i].rest \subseteq graph[stack'[i].node]
    BY <2>3, <2>4 DEF StackOK
  <2>7. \A i \in 1 .. Len(stack') : \A j \in 1 .. Len(stack') : stack'[i].node = stack'[j].node => i = j
    BY <2>3, <2>4 DEF StackOK
  <2>8. \A n \in DOMAIN graph : color'[n] = "Red" => \E i \in 1 .. Len(stack') : stack'[i].node = n
    BY <2>3, <2>4 DEF StackOK
  <2>9. ASSUME NEW i \in 2 .. Len(stack') PROVE stack'[i - 1].node \in graph[stack'[i].node]
    <3>1. i \in 1 .. Len(stack) /\ i - 1 \in 1 .. Len(stack) /\ i \in 2 .. Len(stack)
      BY <2>3
    <3> QED BY <3>1, <2>4 DEF StackOK
  <2>10. StackOK'
    BY <2>5, <2>6, <2>7, <2>8, <2>9 DEF StackOK
  <2> QED BY <2>2, <2>10
<1> QED BY <1>5, <1>6
(* An activation ends: its successors are all in m_order.                   *)
LEMMA SearchLeave ==
    ASSUME TypeOK, SearchOK, StackOK, Leave, UNCHANGED graph
    PROVE  SearchOK' /\ StackOK'
<1> DEFINE t == stack[1].node
<1>1. /\ Len(stack) \in Nat \ {0} /\ stack[1].rest = {} /\ keys' = keys
      /\ color' = [color EXCEPT ![t] = "Black"]
      /\ Len(order) \in Nat /\ Len(order') = Len(order) + 1
      /\ order'[Len(order) + 1] = t
      /\ \A i \in 1 .. Len(order) : order'[i] = order[i]
      /\ Len(stack') = Len(stack) - 1
      /\ \A i \in 1 .. Len(stack) - 1 : stack'[i] = stack[i + 1]
  BY LeaveFacts
<1>2. t \in DOMAIN graph /\ color[t] = "Red" /\ \A m \in graph[t] : color[m] = "Black"
  BY <1>1 DEF StackOK
<1>3. \A i \in 2 .. Len(stack) : stack[i].node # t
  BY <1>1 DEF StackOK
<1> HIDE DEF t
<1>4. /\ color' \in [DOMAIN graph -> Color] /\ color'[t] = "Black"
      /\ \A n \in DOMAIN graph : n # t => color'[n] = color[n]
  BY <1>1, <1>2 DEF SearchOK, Color
<1>5. \A i \in 1 .. Len(order) : order[i] # t /\ order[i] \in DOMAIN graph /\ color[order[i]] = "Black"
  BY <1>2 DEF SearchOK
<1>6. SearchOK'
  <2>1. \A n \in DOMAIN graph \ keys' : color'[n] # "White"
    BY <1>1, <1>4 DEF SearchOK
  <2>2. \A i \in 1 .. Len(order') : order'[i] \in DOMAIN graph /\ color'[order'[i]] = "Black"
    BY <1>1, <1>2, <1>4, <1>5
  <2>3. ASSUME NEW n \in DOMAIN graph, color'[n] = "Black"
        PROVE  \E i \in 1 .. Len(order') : order'[i] = n
    <3>1. CASE n = t
      BY <3>1, <1>1
    <3>2. CASE n # t
      <4>1. PICK i \in 1 .. Len(order) : order[i] = n
        BY <2>3, <3>2, <1>4 DEF SearchOK
      <4> QED BY <4>1, <1>1
    <3> QED BY <3>1, <3>2
  <2>4. \A i \in 1 .. Len(order') : \A j \in 1 .. Len(order') : order'[i] = order'[j] => i = j
    BY <1>1, <1>5 DEF SearchOK
  <2>5. ASSUME NEW i \in 1 .. Len(order'), NEW m \in graph[order'[i]]
        PROVE  \E j \in 1 .. (i - 1) : order'[j] = m
    <3>1. CASE i = Len(order) + 1
      <4>1. m \in DOMAIN graph /\ color[m] = "Black"
        BY <3>1, <1>1, <1>2 DEF TypeOK
      <4>2. PICK j \in 1 .. Len(order) : order[j] = m
        BY <4>1 DEF SearchOK
      <4> QED BY <4>2, <3>1, <1>1
    <3>2. CASE i \in 1 .. Len(order)
      <4>1. PICK j \in 1 .. (i - 1) : order[j] = m
        BY <3>2, <1>1 DEF SearchOK
      <4>2. j \in 1 .. Len(order)
        BY <3>2, <1>1
      <4>3. order'[j] = order[j]
        BY <4>2, <1>1
      <4> QED BY <4>1, <4>3
    <3> QED BY <3>1, <3>2, <1>1
  <2>6. keys' \subseteq DOMAIN graph
    BY <1>1 DEF SearchOK
  <2> QED BY <1>4, <2>1, <2>2, <2>3, <2>4, <2>5, <2>6 DEF SearchOK
<1>7. StackOK'
  <2>1. ASSUME NEW i \in 1 .. Len(stack')
        PROVE  /\ i + 1 \in 2 .. Len(stack) /\ i + 1 \in 1 .. Len(stack) /\ stack'[i] = stack[i + 1] /\ stack'[i].node # t
               /\ stack'[i].node \in DOMAIN graph
    <3>1. i + 1 \in 2 .. Len(stack) /\ i + 1 \in 1 .. Len(stack) /\ stack'[i] = stack[i + 1]
      BY <1>1
    <3> QED BY <3>1, <1>3 DEF StackOK
  <2>2. ASSUME NEW i \in 1 .. Len(stack')
        PROVE  /\ color'[stack'[i].node] = "Red"
               /\ stack'[i].rest \subseteq graph[stack'[i].node]
    <3>1. color[stack[i + 1].node] = "Red" /\ stack[i + 1].rest \subseteq graph[stack[i + 1].node]
      BY <2>1 DEF StackOK
    <3> QED BY <2>1, <3>1, <1>4
  <2>3. ASSUME NEW i \in 1 .. Len(stack'), NEW j \in 1 .. Len(stack'), stack'[i].node = stack'[j].node
        PROVE  i = j
    <3>1. i + 1 = j + 1
      BY <2>1, <2>3 DEF StackOK
    <3> QED BY <3>1, <1>1
  <2>4. ASSUME NEW n \in DOMAIN graph, color'[n] = "Red"
        PROVE  \E i \in 1 .. Len(stack') : stack'[i].node = n
    <3>1. n # t
      BY <2>4, <1>4
    <3>2. PICK i \in 1 .. Len(stack) : stack[i].node = n
      BY <2>4, <3>1, <1>4 DEF StackOK
    <3>3. i # 1
      BY <3>1, <3>2 DEF t
    <3>4. i - 1 \in 1 .. Len(stack') /\ (i - 1) + 1 = i
      BY <3>3, <1>1
    <3>5. stack'[i - 1].node = n
      BY <3>2, <3>4, <2>1
    <3> QED BY <3>4, <3>5
  <2>5. ASSUME NEW i \in 1 .. Len(stack'), NEW x \in graph[stack'[i].node] \ stack'[i].rest
        PROVE  color'[x] = "Black" \/ (i > 1 /\ x = stack'[i - 1].node)
    <3>1. x \in graph[stack[i + 1].node] \ stack[i + 1].rest /\ x \in DOMAIN graph
      BY <2>1 DEF TypeOK
    <3>2. color[x] = "Black" \/ x = stack[(i + 1) - 1].node
      BY <3>1, <2>1 DEF StackOK
    <3>3. (i + 1) - 1 = i
      BY <1>1
    <3>4. CASE color[x] = "Black"
      BY <3>1, <3>4, <1>4
    <3>5. CASE x = stack[i].node /\ i = 1
      BY <3>5, <1>4 DEF t
    <3>6. CASE x = stack[i].node /\ i # 1
      <4>1. i - 1 \in 1 .. Len(stack') /\ (i - 1) + 1 = i /\ i > 1
        BY <3>6, <1>1
      <4> QED BY <3>6, <4>1, <2>1
    <3> QED BY <3>2, <3>3, <3>4, <3>5, <3>6
  <2>6. ASSUME NEW i \in 2 .. Len(stack') PROVE stack'[i - 1].node \in graph[stack'[i].node]
    <3>1. i \in 1 .. Len(stack') /\ i - 1 \in 1 .. Len(stack') /\ (i - 1) + 1 = i /\ (i + 1) - 1 = i
      BY <1>1
    <3>2. stack'[i] = stack[i + 1] /\ stack'[i - 1] = stack[i] /\ i + 1 \in 2 .. Len(stack)
      BY <3>1, <2>1
    <3>3. stack[(i + 1) - 1].node \in graph[stack[i + 1].node]
      BY <3>2 DEF StackOK
    <3> QED BY <3>1, <3>2, <3>3
  <2> QED BY <2>1, <2>2, <2>3, <2>4, <2>5, <2>6 DEF StackOK
<1> QED BY <1>6, <1>7

(* The search invariant is preserved by every step.                         *)
LEMMA SearchStep ==
    ASSUME TypeOK, ControlOK, Searching => SearchOK /\ StackOK, [Next]_vars, Searching'
    PROVE  SearchOK' /\ StackOK'
<1>1. CASE Search
  <2>1. SearchOK /\ StackOK /\ UNCHANGED graph
    BY <1>1, SearchIsOn DEF Search
  <2> QED BY <1>1, <2>1, SearchKey, SearchSuccessor, SearchLeave DEF Search
<1>2. ASSUME NEW n \in Names, Call(n) PROVE SearchOK' /\ StackOK'
  <2>1. current \in Names /\ current # None /\ edge = None /\ phase \in {"inline", "functions"}
    BY <1>2 DEF Call, Idle, TypeOK, ControlOK
  <2>2. CASE n = program.upgrade
    <3>1. CallById(n) /\ edge' = edge
      BY <1>2, <2>2 DEF Call
    <3>2. phase' \in {phase, "assert"}
      BY <2>1, <3>1, CallByIdFacts
    <3> QED BY <2>1, <3>1, <3>2 DEF Searching
  <2>3. CASE n # program.upgrade
    <3>1. TryEdge(Kind(n), n)
      BY <1>2, <2>3 DEF Call
    <3> QED BY <3>1, FreshSearch DEF TryEdge, StartSearch
  <2> QED BY <2>2, <2>3
<1>3. CASE EdgeAdded /\ edge.kind = "call"
  BY <1>3, TryAgain, FreshSearch
<1>4. CASE EdgeAdded /\ edge.kind # "call"
  <2>1. phase \in {"inline", "functions"}
    BY <1>4, EdgeFacts DEF EdgeAdded
  <2> QED BY <1>4, <2>1, AddedFacts DEF Searching
<1>5. CASE EdgeRefused
  <2>1. phase \in {"inline", "functions"}
    BY <1>5, EdgeFacts DEF EdgeRefused
  <2> QED BY <1>5, <2>1, RefusedFacts DEF Searching
<1>6. CASE BuildOrder
  BY <1>6, FreshSearch DEF BuildOrder, StartSearch
<1>7. CASE Output
  <2>1. UNCHANGED <<graph, color, order, stack, keys>> /\ Searching
    BY <1>7, OutputFacts DEF dfsVars, Searching
  <2> QED BY <2>1 DEF SearchOK, StackOK
<1>8. CASE UNCHANGED vars
  BY <1>8 DEF vars, Searching, SearchOK, StackOK
<1>9. CASE \/ CheckInline \/ \E n \in Names : Start(n)
           \/ Finish \/ InlineDone
  <2>1. edge' = edge /\ edge = None /\ phase' \notin {"order", "emit", "rest", "done"}
    <3>1. CASE CheckInline
      BY <3>1 DEF CheckInline, ControlOK, Failed
    <3>2. CASE \E n \in Names : Start(n)
      BY <3>2 DEF Start, Idle, MayStart
    <3>3. CASE Finish
      BY <3>3 DEF Finish, Idle, ControlOK
    <3>4. CASE InlineDone
      BY <3>4 DEF InlineDone, ControlOK
    <3> QED BY <1>9, <3>1, <3>2, <3>3, <3>4
  <2> QED BY <2>1 DEF Searching
<1> QED BY <1>1, <1>2, <1>3, <1>4, <1>5, <1>6, <1>7, <1>8, <1>9 DEF Next, Terminated
-----------------------------------------------------------------------------
(***************************************************************************)
(* Loops.                                                                  *)
(***************************************************************************)
(* A search that comes to its end has seen a graph without loops: the node  *)
(* of a set that comes first in m_order has no successor in the set.        *)
LEMMA SearchedHasNoLoop ==
    ASSUME TypeOK, SearchOK, StackOK, Finished,
           NEW loop \in SUBSET DOMAIN graph, loop # {}
    PROVE  \E n \in loop : graph[n] \cap loop = {}
<1>1. \A n \in DOMAIN graph : color[n] = "Black"
  <2>1. \A n \in DOMAIN graph : color[n] # "White" /\ color[n] # "Red"
    BY DEF Finished, SearchOK, StackOK
  <2> QED BY <2>1 DEF SearchOK, Color
<1> DEFINE T == {i \in 1 .. Len(order) : order[i] \in loop}
           first == Min(T)
<1>2. T \in SUBSET Nat /\ T # {}
  <2>1. PICK n \in loop : TRUE
    OBVIOUS
  <2>2. PICK i \in 1 .. Len(order) : order[i] = n
    BY <1>1, <2>1 DEF SearchOK
  <2> QED BY <2>2
<1> HIDE DEF T
<1>3. first \in T /\ \A i \in T : first =< i
  BY <1>2, MinFact
<1> HIDE DEF first
<1>4. first \in 1 .. Len(order) /\ order[first] \in loop /\ Len(order) \in Nat
  BY <1>3 DEF T, TypeOK
<1>5. ASSUME NEW m \in graph[order[first]], m \in loop PROVE FALSE
  <2>1. PICK j \in 1 .. (first - 1) : order[j] = m
    BY <1>4 DEF SearchOK
  <2>2. j \in 1 .. Len(order) /\ ~(first =< j)
    BY <1>4
  <2>3. j \in T
    BY <2>1, <2>2, <1>5 DEF T
  <2> QED BY <2>2, <2>3, <1>3
<1> QED BY <1>4, <1>5

(* A search that meets a Red node has found a loop: the activations from    *)
(* the innermost to that node.                                              *)
LEMMA RedIsLoop ==
    ASSUME TypeOK, SearchOK, StackOK, LoopFound
    PROVE  \E loop \in SUBSET DOMAIN graph : loop # {} /\ \A n \in loop : graph[n] \cap loop # {}
<1>1. stack \in Seq(Activation) /\ stack # <<>> /\ Top.rest # {}
  BY DEF TypeOK, Activation, LoopFound
<1>2. Top = stack[1] /\ stack[1] \in Activation /\ Len(stack) \in Nat \ {0}
  BY <1>1, PopTop DEF Top
<1> DEFINE r == Min(Top.rest)
<1>3. r \in stack[1].rest /\ color[r] = "Red"
  BY <1>1, <1>2, MinFact, NamesAreOrdered DEF Activation, LoopFound
<1> HIDE DEF r
<1>4. r \in graph[stack[1].node] /\ stack[1].node \in DOMAIN graph
  BY <1>2, <1>3 DEF StackOK
<1>5. PICK p \in 1 .. Len(stack) : stack[p].node = r
  BY <1>3, <1>4 DEF StackOK, TypeOK
<1> DEFINE loop == {stack[i].node : i \in 1 .. p}
<1>6. loop \in SUBSET DOMAIN graph /\ r \in loop
  <2>1. p \in 1 .. p /\ \A i \in 1 .. p : i \in 1 .. Len(stack)
    BY <1>2, <1>5
  <2>2. \A i \in 1 .. p : stack[i].node \in DOMAIN graph
    BY <2>1 DEF StackOK
  <2> QED BY <1>5, <2>1, <2>2
<1>7. ASSUME NEW n \in loop PROVE graph[n] \cap loop # {}
  <2>1. PICK i \in 1 .. p : n = stack[i].node
    BY <1>7
  <2>2. CASE i = 1
    BY <2>1, <2>2, <1>4, <1>6
  <2>3. CASE i # 1
    <3>1. i \in 2 .. Len(stack) /\ i - 1 \in 1 .. p
      BY <2>3, <1>2
    <3>2. stack[i - 1].node \in graph[n] /\ stack[i - 1].node \in loop
      BY <2>1, <3>1 DEF StackOK
    <3> QED BY <3>2
  <2> QED BY <2>2, <2>3
<1> QED BY <1>6, <1>7

(* The edge that is blamed for the loop closes it: without it the callee    *)
(* still leads back to the caller.                                          *)
LEMMA BlamedEdge ==
    ASSUME TypeOK, ControlOK, SearchOK, StackOK, GraphHasNoLoop, edge # None, LoopFound
    PROVE  edge.to = current \/ Reaches(AcceptedGraph, edge.to, current)
<1>1. current \in DOMAIN graph /\ edge.to \in graph[current] /\ edge.to \in DOMAIN graph
  BY EdgeFacts
<1>2. PICK loop \in SUBSET DOMAIN graph : loop # {} /\ \A n \in loop : graph[n] \cap loop # {}
  BY RedIsLoop
<1>3. \A n \in DOMAIN graph : n # current => Accepted(n) = graph[n]
  BY DEF Accepted
<1>4. Accepted(current) = graph[current] \ {edge.to}
  BY DEF Accepted
<1>5. edge.to \in loop
  <2>1. SUFFICES ASSUME edge.to \notin loop PROVE FALSE
    OBVIOUS
  <2>2. PICK n \in loop : Accepted(n) \cap loop = {}
    BY <1>2 DEF GraphHasNoLoop
  <2> QED BY <1>2, <1>3, <1>4, <2>1, <2>2
<1>6. SUFFICES ASSUME edge.to # current,
                      NEW s \in SUBSET DOMAIN graph, Accepted(edge.to) \subseteq s,
                      \A k \in s : Accepted(k) \subseteq s, current \notin s
               PROVE  FALSE
  BY <1>1 DEF Reaches, AcceptedGraph
<1> DEFINE inner == loop \cap (s \cup {edge.to})
<1>7. inner \in SUBSET DOMAIN graph /\ inner # {}
  BY <1>1, <1>5
<1>8. PICK n \in inner : Accepted(n) \cap inner = {}
  BY <1>7 DEF GraphHasNoLoop
<1>9. n \in loop /\ n # current /\ n \in DOMAIN graph /\ Accepted(n) \subseteq s
  BY <1>6, <1>8
<1>10. graph[n] \cap loop # {} /\ graph[n] \subseteq s
  BY <1>2, <1>3, <1>9
<1> QED BY <1>3, <1>8, <1>9, <1>10

(* Accepted edges never form a loop.                                        *)
LEMMA LoopStep ==
    ASSUME TypeOK, ControlOK, PendingOK, Searching => SearchOK /\ StackOK, GraphHasNoLoop, [Next]_vars
    PROVE  GraphHasNoLoop'
<1>1. ASSUME NEW n \in Names, Call(n), n # program.upgrade PROVE GraphHasNoLoop'
  <2>1. current \in Names /\ edge = None /\ n \in pending /\ current' = current
    BY <1>1 DEF Call, Idle, TypeOK
  <2>2. TryEdge(Kind(n), n)
    BY <1>1 DEF Call
  <2>3. Kind(n) \in {"inline", "fragment", "call"}
    BY DEF Kind
  <2>4. /\ DOMAIN graph' = DOMAIN graph \cup {current, n}
        /\ \A m \in DOMAIN graph : m # current => graph'[m] = graph[m]
        /\ current \in DOMAIN graph => graph'[current] = graph[current] \cup {n}
        /\ current \notin DOMAIN graph => graph'[current] = {n}
        /\ \A m \in DOMAIN graph' \ DOMAIN graph : m # current => graph'[m] = {}
        /\ edge' # None /\ edge'.to = n
    BY <2>1, <2>2, <2>3, TryEdgeFacts
  <2>5. ASSUME NEW m \in DOMAIN graph PROVE (Accepted(m))' = Accepted(m)
    <3>1. Accepted(m) = graph[m] /\ (Accepted(m))' = graph'[m] \ (IF m = current THEN {n} ELSE {})
      BY <2>1, <2>4 DEF Accepted
    <3>2. current \in DOMAIN graph => n \notin graph[current]
      BY <2>1 DEF PendingOK
    <3> QED BY <2>4, <3>1, <3>2
  <2>6. ASSUME NEW m \in DOMAIN graph' \ DOMAIN graph PROVE (Accepted(m))' = {}
    BY <2>1, <2>4 DEF Accepted
  <2>7. ASSUME NEW loop \in SUBSET DOMAIN graph', loop # {}
        PROVE  \E m \in loop : (Accepted(m))' \cap loop = {}
    <3>1. CASE loop \subseteq DOMAIN graph
      <4>1. PICK m \in loop : Accepted(m) \cap loop = {}
        BY <2>7, <3>1 DEF GraphHasNoLoop
      <4> QED BY <2>5, <3>1, <4>1
    <3>2. CASE ~(loop \subseteq DOMAIN graph)
      <4>1. PICK m \in loop : m \in DOMAIN graph' \ DOMAIN graph
        BY <2>7, <3>2
      <4>2. (Accepted(m))' = {}
        BY <4>1, <2>6
      <4> QED BY <4>1, <4>2
    <3> QED BY <3>1, <3>2
  <2> QED BY <2>7 DEF GraphHasNoLoop
<1>2. CASE EdgeAdded /\ edge.kind = "call"
  <2>1. DOMAIN graph' = DOMAIN graph /\ \A m \in DOMAIN graph : (Accepted(m))' = Accepted(m)
    BY <1>2, TryAgain DEF Accepted, EdgeAdded
  <2> QED BY <2>1 DEF GraphHasNoLoop
<1>3. CASE EdgeAdded /\ edge.kind # "call"
  <2>1. edge' = None /\ UNCHANGED graph /\ Finished /\ Searching
    BY <1>3, AddedFacts DEF EdgeAdded, Searching
  <2>2. \A m \in DOMAIN graph : (Accepted(m))' = graph[m]
    BY <2>1 DEF Accepted
  <2> QED BY <2>1, <2>2, SearchedHasNoLoop DEF GraphHasNoLoop
<1>4. CASE EdgeRefused
  <2>1. edge' = None /\ DOMAIN graph' = DOMAIN graph /\ \A m \in DOMAIN graph : graph'[m] = Accepted(m)
    BY <1>4, RefusedFacts
  <2>2. \A m \in DOMAIN graph : (Accepted(m))' = Accepted(m)
    BY <2>1 DEF Accepted
  <2> QED BY <2>1, <2>2 DEF GraphHasNoLoop
<1>5. CASE UNCHANGED <<graph, edge>> /\ (edge = None \/ current' = current)
  <2>1. \A m \in DOMAIN graph : (Accepted(m))' = Accepted(m)
    BY <1>5 DEF Accepted
  <2> QED BY <1>5, <2>1 DEF GraphHasNoLoop
<1>6. ASSUME NEW n \in Names, Call(n), n = program.upgrade PROVE GraphHasNoLoop'
  BY <1>5, <1>6 DEF Call
<1>7. ASSUME NEW n \in Names, Start(n) PROVE GraphHasNoLoop'
  BY <1>5, <1>7 DEF Start, Idle
<1>8. CASE CheckInline \/ Search \/ InlineDone \/ BuildOrder \/ Output \/ UNCHANGED vars
  BY <1>5, <1>8, OutputFacts DEF CheckInline, Search, InlineDone, BuildOrder, vars
<1>9. CASE Finish
  BY <1>5, <1>9 DEF Finish, Idle
<1> QED BY <1>1, <1>2, <1>3, <1>4, <1>6, <1>7, <1>8, <1>9 DEF Next, Terminated
-----------------------------------------------------------------------------
(***************************************************************************)
(* The code.                                                               *)
(***************************************************************************)
(* What the accepted edges reach is reached by more of them.                *)
LEMMA StillReached ==
    ASSUME TypeOK, DOMAIN graph \subseteq DOMAIN graph',
           \A k \in DOMAIN graph : Accepted(k) \subseteq (Accepted(k))',
           NEW n \in DOMAIN graph, NEW m, Reaches(AcceptedGraph, n, m)
    PROVE  Reaches(AcceptedGraph', n, m)
<1> DEFINE g == AcceptedGraph
           h == AcceptedGraph'
<1>1. /\ DOMAIN g = DOMAIN graph /\ DOMAIN h = DOMAIN graph'
      /\ \A k \in DOMAIN graph : g[k] = Accepted(k) /\ g[k] \subseteq DOMAIN graph
      /\ \A k \in DOMAIN graph' : h[k] = (Accepted(k))'
  BY DEF AcceptedGraph, Accepted, TypeOK
<1>2. /\ n \in DOMAIN g /\ DOMAIN g \subseteq DOMAIN h
      /\ \A k \in DOMAIN g : g[k] \subseteq h[k] /\ g[k] \subseteq DOMAIN g
      /\ Reaches(g, n, m)
  BY <1>1
<1> HIDE DEF g, h
<1>3. Reaches(h, n, m)
  BY <1>2, ReachesMore
<1> QED BY <1>3 DEF h

(* A step that adds no fragment and takes no accepted edge back.            *)
LEMMA NoNewFragment ==
    ASSUME TypeOK, FragmentsOK, DOMAIN graph \subseteq DOMAIN graph',
           \A k \in DOMAIN graph : Accepted(k) \subseteq (Accepted(k))',
           \A n \in Names : \A m \in Names : Fragment(m) \in code'[n] => Fragment(m) \in code[n]
    PROVE  FragmentsOK'
<1> SUFFICES ASSUME NEW n \in Names, NEW m \in Names, Fragment(m) \in code'[n]
             PROVE  n \in DOMAIN graph' /\ Reaches(AcceptedGraph', n, m)
  BY DEF FragmentsOK
<1>1. n \in DOMAIN graph /\ Reaches(AcceptedGraph, n, m)
  BY DEF FragmentsOK
<1>2. Reaches(AcceptedGraph', n, m)
  BY <1>1, StillReached
<1> QED BY <1>1, <1>2

(* Fragments stay behind their users.                                       *)
LEMMA FragmentStep ==
    ASSUME TypeOK, TypeOK', ControlOK, PendingOK, FragmentsOK, [Next]_vars
    PROVE  FragmentsOK'
<1>0. \A m \in Names : \A n \in Names : Fragment(m) # ById(n)
  BY DEF Fragment, ById
<1>1. ASSUME NEW n \in Names, Call(n), n # program.upgrade PROVE FragmentsOK'
  <2>1. current \in Names /\ edge = None /\ n \in pending /\ current' = current /\ code' = code
    BY <1>1 DEF Call, Idle, TypeOK
  <2>2. TryEdge(Kind(n), n)
    BY <1>1 DEF Call
  <2>3. Kind(n) \in {"inline", "fragment", "call"}
    BY DEF Kind
  <2>4. /\ DOMAIN graph' = DOMAIN graph \cup {current, n}
        /\ \A m \in DOMAIN graph : m # current => graph'[m] = graph[m]
        /\ current \in DOMAIN graph => graph'[current] = graph[current] \cup {n}
        /\ edge' # None /\ edge'.to = n
    BY <2>1, <2>2, <2>3, TryEdgeFacts
  <2>5. ASSUME NEW m \in DOMAIN graph PROVE Accepted(m) \subseteq (Accepted(m))'
    <3>1. Accepted(m) = graph[m] /\ (Accepted(m))' = graph'[m] \ (IF m = current THEN {n} ELSE {})
      BY <2>1, <2>4 DEF Accepted
    <3>2. current \in DOMAIN graph => n \notin graph[current]
      BY <2>1 DEF PendingOK
    <3> QED BY <2>4, <3>1, <3>2
  <2> QED BY <2>1, <2>4, <2>5, NoNewFragment
<1>2. CASE EdgeAdded /\ edge.kind = "call"
  <2>1. DOMAIN graph' = DOMAIN graph /\ code' = code /\ \A m \in DOMAIN graph : (Accepted(m))' = Accepted(m)
    BY <1>2, TryAgain DEF Accepted, EdgeAdded
  <2> QED BY <2>1, NoNewFragment
<1>3. CASE EdgeAdded /\ edge.kind # "call"
  <2>1. /\ edge' = None /\ UNCHANGED graph
        /\ code' = [code EXCEPT ![current] = @ \cup (IF edge.kind = "inline" THEN code[edge.to] ELSE {Fragment(edge.to)})]
    BY <1>3, AddedFacts
  <2>2. edge.to \in Names /\ current \in Names /\ current \in DOMAIN graph /\ edge.to \in graph[current] /\ edge.to \in DOMAIN graph
    BY <1>3, EdgeFacts DEF EdgeAdded
  <2>3. \A k \in DOMAIN graph : (Accepted(k))' = graph[k] /\ Accepted(k) \subseteq (Accepted(k))'
    BY <2>1 DEF Accepted
  <2>4. \A n \in DOMAIN graph : \A m : Reaches(AcceptedGraph, n, m) => Reaches(AcceptedGraph', n, m)
    BY <2>1, <2>3, StillReached
  <2> DEFINE h == AcceptedGraph'
  <2>5. current \in DOMAIN h /\ edge.to \in h[current]
    BY <2>1, <2>2, <2>3 DEF AcceptedGraph
  <2>6. Reaches(h, current, edge.to) /\ \A m : Reaches(h, edge.to, m) => Reaches(h, current, m)
    <3> HIDE DEF h
    <3> QED BY <2>5, ReachesNext
  <2>7. /\ \A n \in Names : n # current => code'[n] = code[n]
        /\ edge.kind = "inline" => code'[current] = code[current] \cup code[edge.to]
        /\ edge.kind # "inline" => code'[current] = code[current] \cup {Fragment(edge.to)}
    BY <2>1, <2>2 DEF TypeOK
  <2>8. ASSUME NEW n \in Names, NEW m \in Names, Fragment(m) \in code'[n]
        PROVE  n \in DOMAIN graph /\ Reaches(AcceptedGraph', n, m)
    <3>1. CASE Fragment(m) \in code[n]
      BY <3>1, <2>4 DEF FragmentsOK
    <3>2. CASE n = current /\ edge.kind = "inline" /\ Fragment(m) \in code[edge.to]
      <4>1. Reaches(AcceptedGraph, edge.to, m)
        BY <3>2, <2>2 DEF FragmentsOK
      <4> QED BY <3>2, <4>1, <2>2, <2>4, <2>6
    <3>3. CASE n = current /\ Fragment(m) = Fragment(edge.to)
      <4>1. m = edge.to
        BY <3>3 DEF Fragment
      <4> QED BY <3>3, <4>1, <2>2, <2>6
    <3> QED BY <2>7, <2>8, <3>1, <3>2, <3>3
  <2> QED BY <2>1, <2>8 DEF FragmentsOK
<1>4. CASE EdgeRefused
  <2>1. edge' = None /\ DOMAIN graph' = DOMAIN graph /\ \A m \in DOMAIN graph : graph'[m] = Accepted(m)
    BY <1>4, RefusedFacts
  <2>2. \A m \in DOMAIN graph : (Accepted(m))' = Accepted(m)
    BY <2>1 DEF Accepted
  <2>3. edge.to \in Names /\ current \in Names /\ edge \in Edge
    BY <1>4, EdgeFacts DEF EdgeRefused
  <2>4. \A n \in Names : \A m \in Names : Fragment(m) \in code'[n] => Fragment(m) \in code[n]
    <3>1. CASE edge.kind = "call"
      <4>1. CallById(edge.to)
        BY <1>4, <3>1 DEF EdgeRefused
      <4>2. /\ \A k \in Names : k # current => code'[k] = code[k]
            /\ code'[current] = code[current] \cup {ById(edge.to)}
        BY <2>3, <4>1, CallByIdFacts
      <4> QED BY <1>0, <2>3, <4>2
    <3>2. CASE edge.kind # "call"
      BY <1>4, <3>2 DEF EdgeRefused
    <3> QED BY <3>1, <3>2
  <2> QED BY <2>1, <2>2, <2>4, NoNewFragment
<1>5. CASE UNCHANGED <<graph, edge, code>> /\ (edge = None \/ current' = current)
  <2>1. \A m \in DOMAIN graph : (Accepted(m))' = Accepted(m)
    BY <1>5 DEF Accepted
  <2> QED BY <1>5, <2>1, NoNewFragment
<1>6. ASSUME NEW n \in Names, Call(n), n = program.upgrade PROVE FragmentsOK'
  <2>1. current \in Names /\ CallById(n) /\ UNCHANGED <<graph, edge, current>>
    BY <1>6 DEF Call, TypeOK
  <2>2. \A m \in DOMAIN graph : (Accepted(m))' = Accepted(m)
    BY <2>1 DEF Accepted
  <2>3. /\ \A k \in Names : k # current => code'[k] = code[k]
        /\ code'[current] = code[current] \cup {ById(n)}
    BY <2>1, CallByIdFacts
  <2>4. \A k \in Names : \A m \in Names : Fragment(m) \in code'[k] => Fragment(m) \in code[k]
    BY <1>0, <2>3
  <2> QED BY <2>1, <2>2, <2>4, NoNewFragment
<1>7. ASSUME NEW n \in Names, Start(n) PROVE FragmentsOK'
  BY <1>5, <1>7 DEF Start, Idle
<1>8. CASE CheckInline \/ Search \/ InlineDone \/ BuildOrder \/ Output \/ UNCHANGED vars
  BY <1>5, <1>8, OutputFacts DEF CheckInline, Search, InlineDone, BuildOrder, vars
<1>9. CASE Finish
  BY <1>5, <1>9 DEF Finish, Idle
<1> QED BY <1>1, <1>2, <1>3, <1>4, <1>6, <1>7, <1>8, <1>9 DEF Next, Terminated
(* A call by id registers the id, or the compiler gives up.                 *)
LEMMA RegisteredById ==
    ASSUME TypeOK, IdsResolve, ~Failed, current \in Names, NEW n \in Names, CallById(n)
    PROVE  IdsResolve'
<1>1. /\ \A k \in Names : k # current => code'[k] = code[k]
      /\ code'[current] = code[current] \cup {ById(n)}
      /\ phase' \in {phase, "assert"}
      /\ \A i \in DOMAIN private : i \in DOMAIN private' /\ (phase' = phase => private'[i] = private[i])
      /\ phase' # "assert" => Id[n] \in DOMAIN private' /\ private'[Id[n]] = n
  BY CallByIdFacts
<1>2. ASSUME ~Failed', NEW k \in Names, NEW m \in Names, ById(m) \in code'[k]
      PROVE  Id[m] \in DOMAIN private' /\ private'[Id[m]] = m
  <2>1. phase' = phase /\ phase' # "assert"
    BY <1>1, <1>2 DEF Failed
  <2>2. CASE ById(m) \in code[k]
    BY <1>1, <2>1, <2>2 DEF IdsResolve
  <2>3. CASE ById(m) = ById(n)
    <3>1. m = n
      BY <2>3 DEF ById
    <3> QED BY <1>1, <2>1, <3>1
  <2> QED BY <1>1, <1>2, <2>2, <2>3
<1> QED BY <1>2 DEF IdsResolve

(* Ids resolve.                                                             *)
LEMMA IdStep ==
    ASSUME TypeOK, ControlOK, IdsResolve, [Next]_vars
    PROVE  IdsResolve'
<1>1. ASSUME NEW n \in Names, Call(n), n # program.upgrade PROVE IdsResolve'
  BY <1>1 DEF Call, IdsResolve, Failed
<1>2. ASSUME NEW n \in Names, Call(n), n = program.upgrade PROVE IdsResolve'
  <2>1. current \in Names /\ CallById(n) /\ ~Failed
    BY <1>2 DEF Call, Idle, TypeOK
  <2> QED BY <2>1, RegisteredById
<1>3. CASE EdgeAdded /\ edge.kind = "call"
  BY <1>3, TryAgain DEF IdsResolve, Failed
<1>4. CASE EdgeAdded /\ edge.kind # "call"
  <2>1. /\ UNCHANGED <<phase, private>>
        /\ code' = [code EXCEPT ![current] = @ \cup (IF edge.kind = "inline" THEN code[edge.to] ELSE {Fragment(edge.to)})]
    BY <1>4, AddedFacts
  <2>2. edge.to \in Names /\ current \in Names /\ ~Failed
    BY <1>4, EdgeFacts DEF EdgeAdded
  <2>3. \A n \in Names : code'[n] \subseteq code[n] \cup code[edge.to] \cup {Fragment(edge.to)}
    BY <2>1, <2>2 DEF TypeOK
  <2>4. \A m \in Names : ById(m) # Fragment(edge.to)
    BY DEF ById, Fragment
  <2> QED BY <2>1, <2>2, <2>3, <2>4 DEF IdsResolve, Failed
<1>5. CASE EdgeRefused
  <2>1. edge.to \in Names /\ current \in Names /\ ~Failed
    BY <1>5, EdgeFacts DEF EdgeRefused
  <2>2. CASE edge.kind = "call"
    BY <1>5, <2>1, <2>2, RegisteredById DEF EdgeRefused
  <2>3. CASE edge.kind # "call"
    BY <1>5, <2>3 DEF EdgeRefused, IdsResolve, Failed
  <2> QED BY <2>2, <2>3
<1>6. ASSUME NEW n \in Names, Start(n) PROVE IdsResolve'
  BY <1>6 DEF Start, IdsResolve, Failed
<1>7. CASE CheckInline \/ Search \/ Finish \/ InlineDone \/ BuildOrder \/ Output \/ UNCHANGED vars
  BY <1>7, OutputFacts DEF CheckInline, Search, Finish, InlineDone, BuildOrder, vars, IdsResolve, Failed
<1> QED BY <1>1, <1>2, <1>3, <1>4, <1>5, <1>6, <1>7 DEF Next, Terminated

-----------------------------------------------------------------------------
(* Before anything is compiled.                                             *)
LEMMA GraphInit == Init => GraphInv
<1> SUFFICES ASSUME Init PROVE GraphInv
  OBVIOUS
<1>1. TypeOK
  <2>1. code \in [Names -> SUBSET Ref]
    BY DEF Init
  <2>2. /\ DOMAIN graph = {} /\ DOMAIN private = {} /\ color \in [DOMAIN color -> Color]
        /\ functions \in Seq(Names) /\ order \in Seq(Names)
        /\ stack \in Seq([node : Names, rest : SUBSET Names])
    BY DEF Init
  <2> QED BY <2>1, <2>2, ProgramsAreTyped DEF Init, TypeOK, Phase
<1>2. ControlOK /\ ~Searching
  BY DEF Init, ControlOK, Searching, Finished
<1>3. DOMAIN graph = {} /\ \A n \in Names : code[n] = {}
  BY DEF Init
<1>4. PendingOK /\ FragmentsOK /\ IdsResolve
  BY <1>3 DEF PendingOK, FragmentsOK, IdsResolve
<1>5. GraphHasNoLoop
  <2>1. \A loop \in SUBSET DOMAIN graph : loop = {}
    BY <1>3
  <2> QED BY <2>1 DEF GraphHasNoLoop
<1> QED BY <1>1, <1>2, <1>4, <1>5 DEF GraphInv

(* The invariant is inductive.                                              *)
LEMMA GraphStep == GraphInv /\ [Next]_vars => GraphInv'
<1> SUFFICES ASSUME GraphInv, [Next]_vars PROVE GraphInv'
  OBVIOUS
<1>1. /\ TypeOK /\ ControlOK /\ PendingOK /\ (Searching => SearchOK /\ StackOK)
      /\ GraphHasNoLoop /\ FragmentsOK /\ IdsResolve
  BY DEF GraphInv
<1>2. TypeOK'
  BY <1>1, TypeStep
<1>3. ControlOK' /\ PendingOK'
  BY <1>1, ControlStep, PendingStep
<1>4. Searching' => SearchOK' /\ StackOK'
  BY <1>1, SearchStep
<1>5. GraphHasNoLoop' /\ IdsResolve'
  BY <1>1, LoopStep, IdStep
<1>6. FragmentsOK'
  BY <1>1, <1>2, FragmentStep
<1> QED BY <1>2, <1>3, <1>4, <1>5, <1>6 DEF GraphInv

(* The inductive invariant holds throughout.                                *)
LEMMA GraphInvariant == Spec => []GraphInv
  BY GraphInit, GraphStep, PTL DEF Spec

(* The types of the variables.                                              *)
THEOREM GraphTypes == Spec => []TypeOK
<1>1. GraphInv => TypeOK
  BY DEF GraphInv
<1> QED BY <1>1, GraphInvariant, PTL

(* Edges that tryToAddEdge has accepted never form a loop, for every        *)
(* program and every order of its call sites.                               *)
THEOREM AcceptedIsAcyclic == Spec => []GraphHasNoLoop
<1>1. GraphInv => GraphHasNoLoop
  BY DEF GraphInv
<1> QED BY <1>1, GraphInvariant, PTL

(* Every fragment that the code of a function refers to is behind it in     *)
(* m_graph, itself or through the inline functions pasted into it.          *)
THEOREM FragmentsAreInGraph == Spec => []CodeIsInGraph
<1>1. GraphInv => CodeIsInGraph
  <2> SUFFICES ASSUME GraphInv, NEW n \in Names, NEW m \in Names, Fragment(m) \in code[n]
               PROVE  n \in DOMAIN graph /\ Reaches(graph, n, m)
    BY DEF CodeIsInGraph
  <2>1. n \in DOMAIN graph /\ Reaches(AcceptedGraph, n, m) /\ TypeOK
    BY DEF GraphInv, FragmentsOK
  <2> DEFINE g == AcceptedGraph
  <2>2. /\ n \in DOMAIN g /\ DOMAIN g \subseteq DOMAIN graph
        /\ \A k \in DOMAIN g : g[k] \subseteq graph[k] /\ g[k] \subseteq DOMAIN g
    BY <2>1 DEF AcceptedGraph, Accepted, TypeOK
  <2>3. Reaches(g, n, m)
    BY <2>1
  <2> HIDE DEF g
  <2>4. Reaches(graph, n, m)
    BY <2>2, <2>3, ReachesMore
  <2> QED BY <2>1, <2>4
<1> QED BY <1>1, GraphInvariant, PTL

(* A function that is called through its id is registered under that id by  *)
(* addPrivateFunction, and no other function is.                            *)
THEOREM PrivateIdsResolve == Spec => []IdsResolve
<1>1. GraphInv => IdsResolve
  BY DEF GraphInv
<1> QED BY <1>1, GraphInvariant, PTL

(* m_order lists the functions of the graph once each, every one behind     *)
(* the fragments that its code refers to.                                   *)
LEMMA OrderIsRight == GraphInv => OrderIsTopological
<1> SUFFICES ASSUME GraphInv, phase \in {"emit", "rest", "done"} PROVE OrderIsTopological
  BY DEF OrderIsTopological
<1>1. TypeOK /\ SearchOK /\ StackOK /\ Finished /\ FragmentsOK
  BY DEF GraphInv, Searching, ControlOK
<1>2. edge = None
  BY DEF GraphInv, ControlOK
<1>3. DOMAIN order = 1 .. Len(order) /\ Len(order) \in Nat
  BY <1>1 DEF TypeOK
<1>4. \A n \in DOMAIN graph : color[n] = "Black"
  <2>1. \A n \in DOMAIN graph : color[n] # "White" /\ color[n] # "Red"
    BY <1>1 DEF Finished, SearchOK, StackOK
  <2> QED BY <1>1, <2>1 DEF SearchOK, Color
<1>5. Range(order) = DOMAIN graph
  <2>1. \A i \in DOMAIN order : order[i] \in DOMAIN graph
    BY <1>1, <1>3 DEF SearchOK
  <2>2. \A n \in DOMAIN graph : \E i \in DOMAIN order : order[i] = n
    BY <1>1, <1>3, <1>4 DEF SearchOK
  <2> QED BY <2>1, <2>2 DEF Range
<1>6. \A i \in DOMAIN order : \A j \in DOMAIN order : order[i] = order[j] => i = j
  BY <1>1, <1>3 DEF SearchOK
<1>7. ASSUME NEW n \in Names, NEW m \in Names, Fragment(m) \in code[n]
      PROVE  \E i \in DOMAIN order : \E j \in DOMAIN order : j < i /\ order[i] = n /\ order[j] = m
  <2>1. n \in DOMAIN graph /\ Reaches(AcceptedGraph, n, m)
    BY <1>1, <1>7 DEF FragmentsOK
  <2>2. PICK i \in 1 .. Len(order) : order[i] = n
    BY <1>1, <1>4, <2>1 DEF SearchOK
  <2> DEFINE s == {order[j] : j \in 1 .. (i - 1)}
  <2>3. s \in SUBSET DOMAIN graph
    BY <1>1, <1>3 DEF SearchOK
  <2>4. graph[n] \subseteq s
    BY <1>1, <2>2 DEF SearchOK
  <2>5. ASSUME NEW k \in s PROVE graph[k] \subseteq s
    <3>1. PICK j \in 1 .. (i - 1) : order[j] = k
      BY <2>5
    <3>2. j \in 1 .. Len(order) /\ \A l \in 1 .. (j - 1) : l \in 1 .. (i - 1)
      BY <1>3
    <3>3. \A x \in graph[k] : \E l \in 1 .. (j - 1) : order[l] = x
      BY <1>1, <3>1, <3>2 DEF SearchOK
    <3> QED BY <3>2, <3>3
  <2>6. DOMAIN AcceptedGraph = DOMAIN graph /\ \A k \in DOMAIN graph : AcceptedGraph[k] = graph[k]
    BY <1>2 DEF AcceptedGraph, Accepted
  <2>7. m \in s
    <3> HIDE DEF s
    <3> QED BY <2>1, <2>3, <2>4, <2>5, <2>6 DEF Reaches
  <2>8. PICK j \in 1 .. (i - 1) : order[j] = m
    BY <2>7
  <2> QED BY <1>3, <2>2, <2>8
<1> QED BY <1>5, <1>6, <1>7 DEF OrderIsTopological

-----------------------------------------------------------------------------
(***************************************************************************)
(* The output.                                                             *)
(***************************************************************************)
(* A function that no element has yet is appended.                          *)
LEMMA AppendOnce ==
    ASSUME NEW s \in Seq(Names), NEW n \in Names, n \notin Range(s),
           \A i \in 1 .. Len(s) : \A j \in 1 .. Len(s) : s[i] = s[j] => i = j,
           \A i \in 1 .. Len(s) : \A m \in Names : Fragment(m) \in code[s[i]] => m \in {s[j] : j \in 1 .. (i - 1)},
           \A m \in Names : Fragment(m) \in code[n] => m \in Range(s),
           NEW t \in {Append(s, n)}
    PROVE  /\ \A i \in 1 .. Len(t) : \A j \in 1 .. Len(t) : t[i] = t[j] => i = j
           /\ \A i \in 1 .. Len(t) : \A m \in Names : Fragment(m) \in code[t[i]] => m \in {t[j] : j \in 1 .. (i - 1)}
           /\ Range(t) = Range(s) \cup {n}
<1>1. /\ t \in Seq(Names) /\ Len(s) \in Nat /\ Len(t) = Len(s) + 1 /\ t[Len(s) + 1] = n
      /\ \A i \in 1 .. Len(s) : t[i] = s[i]
      /\ DOMAIN t = 1 .. Len(t) /\ DOMAIN s = 1 .. Len(s)
  OBVIOUS
<1>2. \A i \in 1 .. Len(t) : i \in 1 .. Len(s) \/ i = Len(s) + 1
  BY <1>1
<1>3. \A i \in 1 .. Len(s) : s[i] # n
  BY <1>1 DEF Range
<1>4. \A i \in 1 .. Len(t) : \A j \in 1 .. Len(t) : t[i] = t[j] => i = j
  BY <1>1, <1>2, <1>3
<1>5. Range(t) = Range(s) \cup {n}
  <2>1. ASSUME NEW x \in Range(t) PROVE x \in Range(s) \cup {n}
    <3>1. PICK i \in 1 .. Len(t) : t[i] = x
      BY <1>1, <2>1 DEF Range
    <3> QED BY <1>1, <1>2, <3>1 DEF Range
  <2>2. ASSUME NEW x \in Range(s) PROVE x \in Range(t)
    <3>1. PICK i \in 1 .. Len(s) : s[i] = x
      BY <1>1, <2>2 DEF Range
    <3>2. i \in 1 .. Len(t) /\ t[i] = x
      BY <1>1, <3>1
    <3> QED BY <1>1, <3>2 DEF Range
  <2>3. n \in Range(t)
    <3>1. Len(s) + 1 \in 1 .. Len(t)
      BY <1>1
    <3> QED BY <1>1, <3>1 DEF Range
  <2> QED BY <2>1, <2>2, <2>3
<1>6. ASSUME NEW i \in 1 .. Len(t), NEW m \in Names, Fragment(m) \in code[t[i]]
      PROVE  m \in {t[j] : j \in 1 .. (i - 1)}
  <2>1. CASE i \in 1 .. Len(s)
    <3>1. PICK j \in 1 .. (i - 1) : s[j] = m
      BY <1>1, <1>6, <2>1
    <3>2. j \in 1 .. Len(s)
      BY <1>1, <2>1
    <3> QED BY <1>1, <3>1, <3>2
  <2>2. CASE i = Len(s) + 1
    <3>1. m \in Range(s)
      BY <1>1, <1>6, <2>2
    <3>2. PICK j \in 1 .. Len(s) : s[j] = m
      BY <1>1, <3>1 DEF Range
    <3>3. j \in 1 .. (i - 1) /\ t[j] = m
      BY <1>1, <2>2, <3>2
    <3> QED BY <3>3
  <2> QED BY <1>2, <2>1, <2>2
<1> QED BY <1>4, <1>5, <1>6

(* A loop passes its next element.                                          *)
LEMMA PassedNext ==
    ASSUME NEW s \in Seq(Names), NEW k \in 1 .. Len(s)
    PROVE  /\ Passed(s, k + 1) = Passed(s, k) \cup {s[k]}
           /\ s[k] \in Names /\ k + 1 \in 1 .. Len(s) + 1
<1>1. Len(s) \in Nat /\ s[k] \in Names /\ k + 1 \in 1 .. Len(s) + 1 /\ (k + 1) - 1 = k
  OBVIOUS
<1>2. \A j \in 1 .. k : j \in 1 .. (k - 1) \/ j = k
  OBVIOUS
<1>3. k \in 1 .. k /\ \A j \in 1 .. (k - 1) : j \in 1 .. k
  OBVIOUS
<1> QED BY <1>1, <1>2, <1>3 DEF Passed

(* Nothing is passed at the start, and everything at the end.               *)
LEMMA PassedAll ==
    ASSUME NEW s \in Seq(Names)
    PROVE  Passed(s, 1) = {} /\ Passed(s, Len(s) + 1) = Range(s)
<1>1. Len(s) \in Nat /\ DOMAIN s = 1 .. Len(s) /\ (Len(s) + 1) - 1 = Len(s)
  OBVIOUS
<1>2. 1 .. (1 - 1) = {}
  OBVIOUS
<1> QED BY <1>1, <1>2 DEF Passed, Range

(* The order of generation, and the kinds of reference.                     *)
LEMMA GeneratedStep ==
    ASSUME TypeOK, ControlOK, GeneratedOK, [Next]_vars
    PROVE  GeneratedOK'
<1>0. \A n \in Names : \A m \in Names : Fragment(m) # ById(n)
  BY DEF Fragment, ById
<1>1. CASE CheckInline \/ InlineDone \/ Search \/ UNCHANGED vars
  BY <1>1 DEF CheckInline, InlineDone, Search, vars, GeneratedOK, Compiled, dfsVars
<1>2. CASE Output
  BY <1>2, OutputFacts DEF GeneratedOK, Compiled
<1>3. CASE BuildOrder
  BY <1>3 DEF BuildOrder, GeneratedOK, Compiled
<1>4. ASSUME NEW n \in Names, Start(n) PROVE GeneratedOK'
  <2>1. n \notin Compiled /\ current' = n /\ UNCHANGED <<program, phase, functions, code, edge>>
    BY <1>4 DEF Start, MayStart
  <2> QED BY <2>1 DEF GeneratedOK, Compiled
<1>5. ASSUME NEW n \in Names, Call(n), n = program.upgrade PROVE GeneratedOK'
  <2>1. current \in Names /\ CallById(n) /\ UNCHANGED <<program, functions, current, edge>> /\ phase \in {"inline", "functions"}
    BY <1>5 DEF Call, TypeOK, ControlOK, Idle
  <2>2. /\ \A k \in Names : k # current => code'[k] = code[k]
        /\ code'[current] = code[current] \cup {ById(n)}
        /\ phase' \in {phase, "assert"}
    BY <2>1, CallByIdFacts
  <2>3. \A k \in Names : \A m \in Names : Fragment(m) \in code'[k] => Fragment(m) \in code[k]
    BY <1>0, <2>1, <2>2
  <2> QED BY <2>1, <2>2, <2>3 DEF GeneratedOK, Compiled
<1>6. ASSUME NEW n \in Names, Call(n), n # program.upgrade PROVE GeneratedOK'
  <2>1. TryEdge(Kind(n), n) /\ UNCHANGED <<program, phase, functions, current, code>>
    BY <1>6 DEF Call
  <2>2. edge'.kind = Kind(n) /\ edge'.to = n
    BY <2>1 DEF TryEdge
  <2>3. Kind(n) # "inline" => n \notin program.inline
    BY DEF Kind
  <2> QED BY <2>1, <2>2, <2>3 DEF GeneratedOK, Compiled
<1>7. CASE EdgeAdded /\ edge.kind = "call"
  BY <1>7, TryAgain DEF GeneratedOK, Compiled, EdgeAdded
<1>8. CASE EdgeAdded /\ edge.kind # "call"
  <2>1. /\ edge' = None /\ UNCHANGED <<program, phase, functions, current>>
        /\ code' = [code EXCEPT ![current] = @ \cup (IF edge.kind = "inline" THEN code[edge.to] ELSE {Fragment(edge.to)})]
    BY <1>8, AddedFacts
  <2>2. edge # None /\ edge.to \in Names /\ current \in Names
    BY <1>8, EdgeFacts DEF EdgeAdded
  <2>3. ASSUME NEW k \in Names, NEW m \in Names, Fragment(m) \in code'[k] PROVE m \notin program.inline
    <3>1. Fragment(m) \in code[k] \/ Fragment(m) \in code[edge.to] \/ (edge.kind # "inline" /\ Fragment(m) = Fragment(edge.to))
      BY <2>1, <2>2, <2>3 DEF TypeOK
    <3>2. Fragment(m) = Fragment(edge.to) => m = edge.to
      BY DEF Fragment
    <3> QED BY <2>2, <3>1, <3>2 DEF GeneratedOK
  <2> QED BY <2>1, <2>3 DEF GeneratedOK, Compiled
<1>9. CASE EdgeRefused
  <2>1. edge.to \in Names /\ current \in Names /\ phase \in {"inline", "functions"}
    BY <1>9, EdgeFacts DEF EdgeRefused
  <2>2. edge' = None /\ phase' \in {phase, "assert"} /\ UNCHANGED <<program, functions, current>>
    BY <1>9, RefusedFacts
  <2>3. \A k \in Names : \A m \in Names : Fragment(m) \in code'[k] => Fragment(m) \in code[k]
    <3>1. CASE edge.kind = "call"
      <4>1. CallById(edge.to)
        BY <1>9, <3>1 DEF EdgeRefused
      <4>2. /\ \A k \in Names : k # current => code'[k] = code[k]
            /\ code'[current] = code[current] \cup {ById(edge.to)}
        BY <2>1, <4>1, CallByIdFacts
      <4> QED BY <1>0, <2>1, <4>2
    <3>2. CASE edge.kind # "call"
      BY <1>9, <3>2 DEF EdgeRefused
    <3> QED BY <3>1, <3>2
  <2> QED BY <2>1, <2>2, <2>3 DEF GeneratedOK, Compiled
<1>10. CASE Finish
  <2>1. /\ functions' = Append(functions, current) /\ current' = None /\ UNCHANGED <<program, phase, code, edge>>
        /\ current \in Names /\ phase \in {"inline", "functions"} /\ functions \in Seq(Names)
    BY <1>10 DEF Finish, Idle, TypeOK, ControlOK
  <2>2. /\ functions' \in Seq(Names) /\ Len(functions) \in Nat /\ Len(functions') = Len(functions) + 1
        /\ functions'[Len(functions) + 1] = current /\ \A i \in 1 .. Len(functions) : functions'[i] = functions[i]
        /\ DOMAIN functions = 1 .. Len(functions)
    BY <2>1
  <2>3. \A i \in 1 .. Len(functions') : i \in 1 .. Len(functions) \/ i = Len(functions) + 1
    BY <2>2
  <2>4. \A i \in 1 .. Len(functions) : functions[i] # current
    BY <2>2 DEF GeneratedOK, Compiled, Range
  <2>5. \A i \in 1 .. Len(functions') : \A j \in 1 .. Len(functions') : functions'[i] = functions'[j] => i = j
    BY <2>2, <2>3, <2>4 DEF GeneratedOK
  <2>6. None \notin Compiled'
    <3>1. Range(functions') \subseteq Names
      BY <2>2 DEF Range
    <3> QED BY <3>1, NoneIsNothing DEF Compiled
  <2> QED BY <2>1, <2>5, <2>6 DEF GeneratedOK
<1> QED BY <1>1, <1>2, <1>3, <1>4, <1>5, <1>6, <1>7, <1>8, <1>9, <1>10 DEF Next, Terminated

(* What the loops of the output do to it.                                   *)
LEMMA OutputStep ==
    ASSUME GraphInv, GeneratedOK, OutputOK, [Next]_vars
    PROVE  OutputOK'
<1>1. /\ TypeOK /\ functions \in Seq(Names) /\ order \in Seq(Names) /\ functionOrder \in Seq(Names)
      /\ DOMAIN graph \subseteq Names
  BY DEF GraphInv, TypeOK
<1>2. OrderIsTopological
  BY OrderIsRight
<1>3. ASSUME ~Output PROVE OutputOK'
  <2>1. UNCHANGED <<functionOrder, functionsInMap, at>>
    BY <1>3, OutputOnly DEF outputVars
  <2>2. CASE UNCHANGED vars
    BY <2>2 DEF vars, OutputOK
  <2>3. CASE ~UNCHANGED vars
    <3>1. phase \notin {"emit", "rest", "done"} /\ phase' \notin {"emit", "rest", "done"}
      <4>1. CASE \E n \in Names : Start(n)
        BY <4>1 DEF Start, MayStart
      <4>2. ASSUME NEW n \in Names, Call(n) PROVE phase \in {"inline", "functions"} /\ phase' \in {phase, "assert"}
        BY <4>2 DEF Call, CallById, Idle, GraphInv, ControlOK
      <4>3. CASE CheckInline \/ InlineDone \/ BuildOrder \/ Search
        BY <4>3 DEF CheckInline, InlineDone, BuildOrder, Search
      <4>4. CASE EdgeAdded
        BY <4>4, <1>1, EdgeFacts DEF EdgeAdded, GraphInv
      <4>5. CASE EdgeRefused
        <5>1. phase \in {"inline", "functions"}
          BY <4>5, <1>1, EdgeFacts DEF EdgeRefused, GraphInv
        <5>2. phase' \in {phase, "assert"}
          BY <4>5, <1>1, RefusedFacts DEF GraphInv
        <5> QED BY <5>1, <5>2
      <4>6. CASE Finish
        BY <4>6 DEF Finish, Idle, GraphInv, ControlOK
      <4> QED BY <1>3, <2>3, <4>1, <4>2, <4>3, <4>4, <4>5, <4>6 DEF Next, Terminated
    <3>2. functionOrder = <<>> /\ functionOrder' = <<>> /\ Len(functionOrder') = 0
      BY <2>1, <3>1 DEF OutputOK
    <3>3. 1 .. 0 = {}
      OBVIOUS
    <3> QED BY <3>1, <3>2, <3>3 DEF OutputOK
  <2> QED BY <2>2, <2>3
<1>4. ASSUME Output, functionOrder' = functionOrder PROVE
      /\ \A i \in 1 .. Len(functionOrder') : \A j \in 1 .. Len(functionOrder') :
            functionOrder'[i] = functionOrder'[j] => i = j
      /\ \A i \in 1 .. Len(functionOrder') : \A m \in Names :
            Fragment(m) \in code'[functionOrder'[i]] => m \in {functionOrder'[j] : j \in 1 .. (i - 1)}
  <2>1. code' = code
    BY <1>4, OutputFacts
  <2> QED BY <1>4, <2>1 DEF OutputOK
<1>5. CASE StartOutput
  <2>1. functionOrder' = functionOrder /\ functionOrder = <<>> /\ phase' = "emit" /\ at' = 1
        /\ UNCHANGED <<program, order>> /\ functionsInMap' = Names \ program.inline
    BY <1>5 DEF StartOutput, OutputOK, GeneratedOK, dfsVars
  <2>2. Passed(order', at') = {} /\ at' \in 1 .. Len(order') + 1 /\ Range(functionOrder') = {}
    <3>1. Len(order) \in Nat
      BY <1>1
    <3>2. Range(<<>>) = {}
      BY DEF Range
    <3> QED BY <1>1, <2>1, <3>1, <3>2, PassedAll
  <2>3. Output
    BY <1>5 DEF Output
  <2> QED BY <1>4, <2>1, <2>2, <2>3 DEF OutputOK
<1>6. CASE EmitOrdered
  <2>1. /\ phase = "emit" /\ phase' = phase /\ at' = at + 1 /\ at \in 1 .. Len(order)
        /\ UNCHANGED <<program, order, code>>
    <3>1. at \in 1 .. Len(order) + 1 /\ Len(order) \in Nat
      BY <1>1, <1>6 DEF EmitOrdered, OutputOK
    <3> QED BY <1>6, <3>1 DEF EmitOrdered, dfsVars
  <2> DEFINE n == order[at]
  <2>2. /\ Passed(order', at') = Passed(order, at) \cup {n}
        /\ n \in Names /\ at' \in 1 .. Len(order') + 1
    BY <1>1, <2>1, PassedNext
  <2>3. /\ functionsInMap = (Names \ program.inline) \ Passed(order, at)
        /\ Range(functionOrder) = Passed(order, at) \ program.inline
    BY <2>1 DEF OutputOK
  <2>4. CASE n \in functionsInMap
    <3>1. functionOrder' = Append(functionOrder, n) /\ functionsInMap' = functionsInMap \ {n}
      BY <1>6, <2>4 DEF EmitOrdered
    <3>2. n \notin Range(functionOrder) /\ n \notin program.inline
      BY <2>3, <2>4
    <3>3. ASSUME NEW m \in Names, Fragment(m) \in code[n] PROVE m \in Range(functionOrder)
      <4>1. DOMAIN order = 1 .. Len(order) /\ Len(order) \in Nat
        BY <1>1
      <4>2. PICK i \in DOMAIN order : \E j \in DOMAIN order : j < i /\ order[i] = n /\ order[j] = m
        BY <1>2, <2>1, <2>2, <3>3 DEF OrderIsTopological
      <4>3. PICK j \in DOMAIN order : j < i /\ order[i] = n /\ order[j] = m
        BY <4>2
      <4>4. i = at
        BY <1>2, <2>1, <4>1, <4>3 DEF OrderIsTopological
      <4>5. j \in 1 .. (at - 1)
        BY <2>1, <4>1, <4>3, <4>4
      <4>6. m \in Passed(order, at)
        BY <4>3, <4>5 DEF Passed
      <4>7. m \notin program.inline
        BY <2>2, <3>3 DEF GeneratedOK
      <4> QED BY <2>3, <4>6, <4>7
    <3> HIDE DEF n
    <3>4. /\ \A i \in 1 .. Len(functionOrder) : \A j \in 1 .. Len(functionOrder) :
                functionOrder[i] = functionOrder[j] => i = j
          /\ \A i \in 1 .. Len(functionOrder) : \A m \in Names :
                Fragment(m) \in code[functionOrder[i]] => m \in {functionOrder[j] : j \in 1 .. (i - 1)}
      BY DEF OutputOK
    <3>a. functionOrder' \in {Append(functionOrder, n)} /\ \A m \in Names : Fragment(m) \in code[n] => m \in Range(functionOrder)
      BY <3>1, <3>3
    <3>5. /\ \A i \in 1 .. Len(functionOrder') : \A j \in 1 .. Len(functionOrder') :
                functionOrder'[i] = functionOrder'[j] => i = j
          /\ \A i \in 1 .. Len(functionOrder') : \A m \in Names :
                Fragment(m) \in code[functionOrder'[i]] => m \in {functionOrder'[j] : j \in 1 .. (i - 1)}
          /\ Range(functionOrder') = Range(functionOrder) \cup {n}
      BY <1>1, <2>2, <3>a, <3>2, <3>4, AppendOnce
    <3>6. /\ functionsInMap' = (Names \ program'.inline) \ Passed(order', at')
          /\ Range(functionOrder') = Passed(order', at') \ program'.inline
      BY <2>1, <2>2, <2>3, <3>1, <3>2, <3>5
    <3> QED BY <2>1, <2>2, <3>5, <3>6 DEF OutputOK
  <2>5. CASE n \notin functionsInMap
    <3>1. functionOrder' = functionOrder /\ functionsInMap' = functionsInMap
      BY <1>6, <2>5 DEF EmitOrdered
    <3> HIDE DEF n
    <3>2. n \in program.inline \/ n \in Passed(order, at)
      BY <2>2, <2>3, <2>5
    <3>3. /\ functionsInMap' = (Names \ program'.inline) \ Passed(order', at')
          /\ Range(functionOrder') = Passed(order', at') \ program'.inline
      BY <2>1, <2>2, <2>3, <3>1, <3>2
    <3>4. Output
      BY <1>6 DEF Output
    <3> QED BY <1>4, <2>1, <2>2, <3>1, <3>3, <3>4 DEF OutputOK
  <2> QED BY <2>4, <2>5
<1>7. CASE StartRest
  <2>1. /\ phase = "emit" /\ phase' = "rest" /\ at' = 1 /\ at = Len(order) + 1
        /\ UNCHANGED <<program, functions, graph, functionOrder, functionsInMap>>
    <3>1. at \in 1 .. Len(order) + 1 /\ Len(order) \in Nat
      BY <1>1, <1>7 DEF StartRest, OutputOK
    <3> QED BY <1>7, <3>1 DEF StartRest
  <2>2. Passed(order, at) = DOMAIN graph
    BY <1>1, <1>2, <2>1, PassedAll DEF OrderIsTopological
  <2>3. Passed(functions', at') = {} /\ at' \in 1 .. Len(functions') + 1
    <3>1. Len(functions) \in Nat
      BY <1>1
    <3> QED BY <1>1, <2>1, <3>1, PassedAll
  <2>4. /\ functionsInMap' = (Names \ program'.inline) \ DOMAIN graph'
        /\ Range(functionOrder') = (DOMAIN graph' \ program'.inline) \cup (Passed(functions', at') \cap functionsInMap')
    BY <2>1, <2>2, <2>3 DEF OutputOK
  <2>5. Output
    BY <1>7 DEF Output
  <2> QED BY <1>4, <2>1, <2>3, <2>4, <2>5 DEF OutputOK
<1>8. CASE EmitOther
  <2>1. /\ phase = "rest" /\ phase' = phase /\ at' = at + 1 /\ at \in 1 .. Len(functions)
        /\ UNCHANGED <<program, functions, code, graph, functionsInMap>>
    <3>1. at \in 1 .. Len(functions) + 1 /\ Len(functions) \in Nat
      BY <1>1, <1>8 DEF EmitOther, OutputOK
    <3> QED BY <1>8, <3>1 DEF EmitOther
  <2> DEFINE n == functions[at]
  <2>2. /\ Passed(functions', at') = Passed(functions, at) \cup {n}
        /\ n \in Names /\ at' \in 1 .. Len(functions') + 1
    BY <1>1, <2>1, PassedNext
  <2>3. /\ functionsInMap = (Names \ program.inline) \ DOMAIN graph
        /\ Range(functionOrder) = (DOMAIN graph \ program.inline) \cup (Passed(functions, at) \cap functionsInMap)
    BY <2>1 DEF OutputOK
  <2>4. CASE n \in functionsInMap
    <3>1. functionOrder' = Append(functionOrder, n)
      BY <1>8, <2>4 DEF EmitOther
    <3>2. n \notin Passed(functions, at)
      <4>1. Len(functions) \in Nat /\ \A j \in 1 .. (at - 1) : j \in 1 .. Len(functions) /\ j # at
        BY <1>1, <2>1
      <4> QED BY <2>1, <4>1 DEF Passed, GeneratedOK
    <3>3. n \notin Range(functionOrder) /\ n \notin DOMAIN graph
      BY <2>3, <2>4, <3>2
    <3>4. \A m \in Names : Fragment(m) \notin code[n]
      BY <2>2, <3>3 DEF GraphInv, FragmentsOK
    <3> HIDE DEF n
    <3>5. /\ \A i \in 1 .. Len(functionOrder) : \A j \in 1 .. Len(functionOrder) :
                functionOrder[i] = functionOrder[j] => i = j
          /\ \A i \in 1 .. Len(functionOrder) : \A m \in Names :
                Fragment(m) \in code[functionOrder[i]] => m \in {functionOrder[j] : j \in 1 .. (i - 1)}
      BY DEF OutputOK
    <3>a. functionOrder' \in {Append(functionOrder, n)} /\ \A m \in Names : Fragment(m) \in code[n] => m \in Range(functionOrder)
      BY <3>1, <3>4
    <3>6. /\ \A i \in 1 .. Len(functionOrder') : \A j \in 1 .. Len(functionOrder') :
                functionOrder'[i] = functionOrder'[j] => i = j
          /\ \A i \in 1 .. Len(functionOrder') : \A m \in Names :
                Fragment(m) \in code[functionOrder'[i]] => m \in {functionOrder'[j] : j \in 1 .. (i - 1)}
          /\ Range(functionOrder') = Range(functionOrder) \cup {n}
      BY <1>1, <2>2, <3>a, <3>3, <3>5, AppendOnce
    <3>7. /\ functionsInMap' = (Names \ program'.inline) \ DOMAIN graph'
          /\ Range(functionOrder') = (DOMAIN graph' \ program'.inline) \cup (Passed(functions', at') \cap functionsInMap')
      BY <2>1, <2>2, <2>3, <2>4, <3>6
    <3> QED BY <2>1, <2>2, <3>6, <3>7 DEF OutputOK
  <2>5. CASE n \notin functionsInMap
    <3>1. functionOrder' = functionOrder
      BY <1>8, <2>5 DEF EmitOther
    <3> HIDE DEF n
    <3>2. /\ functionsInMap' = (Names \ program'.inline) \ DOMAIN graph'
          /\ Range(functionOrder') = (DOMAIN graph' \ program'.inline) \cup (Passed(functions', at') \cap functionsInMap')
      BY <2>1, <2>2, <2>3, <2>5, <3>1
    <3>3. Output
      BY <1>8 DEF Output
    <3> QED BY <1>4, <2>1, <2>2, <3>1, <3>2, <3>3 DEF OutputOK
  <2> QED BY <2>4, <2>5
<1>9. CASE Done
  <2>1. phase = "rest" /\ phase' = "done" /\ at = Len(functions) + 1 /\ UNCHANGED <<program, functionOrder>>
    <3>1. at \in 1 .. Len(functions) + 1 /\ Len(functions) \in Nat
      BY <1>1, <1>9 DEF Done, OutputOK
    <3> QED BY <1>9, <3>1 DEF Done, outputVars
  <2>2. Passed(functions, at) = Names
    BY <1>1, <2>1, PassedAll DEF GeneratedOK, Compiled
  <2>3. Range(functionOrder') = Names \ program'.inline
    BY <1>1, <2>1, <2>2 DEF OutputOK
  <2>4. Output
    BY <1>9 DEF Output
  <2> QED BY <1>4, <2>1, <2>3, <2>4 DEF OutputOK
<1> QED BY <1>3, <1>5, <1>6, <1>7, <1>8, <1>9 DEF Output

(* What the assembler gets: every function that is not inline, once, and    *)
(* behind all fragments that its code refers to.                            *)
THEOREM OutputIsOrdered == Spec => []DefinedBeforeUse
<1> DEFINE Inv == GraphInv /\ GeneratedOK /\ OutputOK
<1>1. Init => Inv
  <2> SUFFICES ASSUME Init PROVE Inv
    OBVIOUS
  <2>1. GraphInv
    BY GraphInit
  <2>2. functions = <<>> /\ Len(functions) = 0 /\ functionOrder = <<>> /\ Len(functionOrder) = 0 /\ Range(functions) = {}
    BY DEF Init, Range
  <2>3. 1 .. 0 = {}
    OBVIOUS
  <2>4. GeneratedOK /\ OutputOK
    BY <2>2, <2>3 DEF Init, GeneratedOK, OutputOK, Compiled
  <2> QED BY <2>1, <2>4
<1>2. Inv /\ [Next]_vars => Inv'
  <2> SUFFICES ASSUME Inv, [Next]_vars PROVE Inv'
    OBVIOUS
  <2>1. GraphInv'
    BY GraphStep
  <2>2. GeneratedOK' /\ OutputOK'
    BY GeneratedStep, OutputStep DEF GraphInv
  <2> QED BY <2>1, <2>2
<1>3. Inv => DefinedBeforeUse
  <2> SUFFICES ASSUME Inv, phase = "done" PROVE DefinedBeforeUse
    BY DEF DefinedBeforeUse
  <2>1. DOMAIN functionOrder = 1 .. Len(functionOrder)
    BY DEF GraphInv, TypeOK
  <2> QED BY <2>1 DEF OutputOK, DefinedBeforeUse, IsInjective
<1> QED BY <1>1, <1>2, <1>3, PTL DEF Spec

(* A call by id is a call whose edge closes a loop: the callee leads back   *)
(* to the caller by the edges that are left.                                *)
THEOREM IdsOnlyForLoops == Spec => IdOnlyForLoop
<1> DEFINE Justified(m) ==
              \/ m = program.upgrade
              \/ m = current
              \/ m \in DOMAIN graph /\ Reaches(graph', m, current)
              \/ \E k \in program.inline : edge # None /\ edge.to = k /\ ById(m) \in code[k]
           Step == \A m \in Names :
              current # None /\ ById(m) \in code'[current] \ code[current] => Justified(m)
<1>1. ASSUME GraphInv, [Next]_vars PROVE [Step]_vars
  <2> SUFFICES ASSUME NEW m \in Names, current # None, ById(m) \in code'[current] \ code[current]
               PROVE  Justified(m)
    OBVIOUS
  <2>0. TypeOK /\ ControlOK /\ current \in Names
    BY <1>1 DEF GraphInv, TypeOK
  <2>1. CASE EdgeRefused
    <3>1. edge # None /\ edge.to \in Names /\ edge.to \in DOMAIN graph
      BY <2>0, <2>1, EdgeFacts DEF EdgeRefused
    <3>2. CASE edge.kind = "call"
      <4>1. CallById(edge.to)
        BY <2>1, <3>2 DEF EdgeRefused
      <4>2. code'[current] = code[current] \cup {ById(edge.to)}
        BY <2>0, <3>1, <4>1, CallByIdFacts
      <4>3. m = edge.to
        BY <4>2 DEF ById
      <4>4. SearchOK /\ StackOK /\ GraphHasNoLoop
        BY <1>1, <3>1 DEF GraphInv, Searching
      <4>5. edge.to = current \/ Reaches(AcceptedGraph, edge.to, current)
        BY <2>0, <2>1, <3>1, <4>4, BlamedEdge DEF EdgeRefused
      <4>6. DOMAIN graph' = DOMAIN graph /\ \A k \in DOMAIN graph : graph'[k] = Accepted(k)
        BY <2>0, <2>1, RefusedFacts
      <4> DEFINE g == AcceptedGraph
                 h == graph'
      <4>7. /\ edge.to \in DOMAIN g /\ DOMAIN g \subseteq DOMAIN h
            /\ \A k \in DOMAIN g : g[k] \subseteq h[k] /\ g[k] \subseteq DOMAIN g
        BY <2>0, <3>1, <4>6 DEF AcceptedGraph, Accepted, TypeOK
      <4>8. Reaches(g, edge.to, current) => Reaches(h, edge.to, current)
        <5> HIDE DEF g, h
        <5> QED BY <4>7, ReachesMore
      <4> QED BY <3>1, <4>3, <4>5, <4>8
    <3>3. CASE edge.kind # "call"
      BY <2>1, <3>3 DEF EdgeRefused
    <3> QED BY <3>2, <3>3
  <2>2. CASE EdgeAdded
    <3>1. edge # None /\ edge.to \in Names /\ (edge.kind = "inline" => edge.to \in program.inline)
      BY <2>0, <2>2, EdgeFacts DEF EdgeAdded, ControlOK
    <3>2. CASE edge.kind = "call"
      BY <2>0, <2>2, <3>2, TryAgain
    <3>3. CASE edge.kind = "inline"
      <4>1. code' = [code EXCEPT ![current] = @ \cup code[edge.to]]
        BY <2>0, <2>2, <3>3, AddedFacts
      <4>2. code'[current] = code[current] \cup code[edge.to]
        BY <2>0, <4>1 DEF TypeOK
      <4> QED BY <3>1, <3>3, <4>2
    <3>4. CASE edge.kind \notin {"call", "inline"}
      <4>1. code' = [code EXCEPT ![current] = @ \cup {Fragment(edge.to)}]
        BY <2>0, <2>2, <3>4, AddedFacts
      <4>2. code'[current] = code[current] \cup {Fragment(edge.to)}
        BY <2>0, <4>1 DEF TypeOK
      <4>3. ById(m) # Fragment(edge.to)
        BY DEF ById, Fragment
      <4> QED BY <4>2, <4>3
    <3> QED BY <3>2, <3>3, <3>4
  <2>3. ASSUME NEW n \in Names, Call(n) PROVE Justified(m)
    <3>1. CASE n = program.upgrade
      <4>1. CallById(n)
        BY <2>3, <3>1 DEF Call
      <4>2. code'[current] = code[current] \cup {ById(n)}
        BY <2>0, <4>1, CallByIdFacts
      <4>3. m = n
        BY <4>2 DEF ById
      <4> QED BY <3>1, <4>3
    <3>2. CASE n # program.upgrade
      BY <2>3, <3>2 DEF Call
    <3> QED BY <3>1, <3>2
  <2>4. CASE \/ CheckInline \/ Search \/ Finish \/ InlineDone \/ BuildOrder \/ Output \/ UNCHANGED vars
             \/ \E n \in Names : Start(n)
    BY <2>4, OutputFacts DEF CheckInline, Search, Finish, InlineDone, BuildOrder, vars, Start
  <2> QED BY <1>1, <2>1, <2>2, <2>3, <2>4 DEF Next, Terminated
<1> QED BY <1>1, GraphInvariant, PTL DEF Spec, IdOnlyForLoop
=============================================================================
