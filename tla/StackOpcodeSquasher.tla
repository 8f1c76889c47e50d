-------------------------- MODULE StackOpcodeSquasher --------------------------
(***************************************************************************)
(* class StackOpcodeSquasher: for every start size it fills a table of the *)
(* stacks that a few stack instructions can produce, with the cheapest way *)
(* to produce each, by Dijkstra's algorithm.  The peephole optimizer then  *)
(* replaces a run of stack instructions by a cheaper one from the table.   *)
(***************************************************************************)
EXTENDS TvmStack

CONSTANTS
    MAX_STACK_DEPTH,    \* StackState::MAX_STACK_DEPTH
    MAX_NEW_OPCODES,    \* longest replacement by simple instructions
    Codes               \* the runs of stack instructions given to the peephole optimizer

ASSUME DepthAssumption == MAX_STACK_DEPTH \in Nat \ {0, 1} /\ MAX_NEW_OPCODES \in Nat \ {0}

VARIABLES
    compound,   \* _withCompoundOpcodes
    stackSize,  \* the start size whose table is being filled
    dp,         \* the table: stack -> [gas, prev, op]
    q,          \* the queue: stacks to be continued, [state, gas, qty]
    m_dp,       \* the finished tables, by <<compound, start size>>
    squashed    \* what the peephole optimizer did last

vars == <<compound, stackSize, dp, q, m_dp, squashed>>

(* The numbers of a stack instruction: what its make function asserts.      *)
Numbers(n) ==
    LET Pos == Nat \ {0} IN
    /\ n.op \in {"POP_S", "DROP"} => n.i \in Pos /\ n.j = -1 /\ n.k = -1
    /\ n.op \in {"BLKDROP2", "BLKSWAP"} => n.i \in Pos /\ n.j \in Pos /\ n.k = -1
    /\ n.op = "XCHG" => n.i \in Nat /\ n.j \in Nat /\ n.k = -1 /\ n.i <= n.j
    /\ n.op \in {"REVERSE", "BLKPUSH"} => n.i \in Pos \ {1} /\ n.j \in Nat /\ n.k = -1
    /\ n.op = "PUSH_S" => n.i \in Nat /\ n.j = -1 /\ n.k = -1
    /\ n.op \in {"PUSH2_S", "XCPU", "XCHG2"} => n.i \in Nat /\ n.j \in Nat /\ n.k = -1
    /\ n.op = "PUXC" => n.i \in Nat /\ n.j \in Nat \cup {-1} /\ n.k = -1
    /\ n.op \in {"XC2PU", "XCPU2", "XCHG3", "PUSH3_S"} => n.i \in Nat /\ n.j \in Nat /\ n.k \in Nat
    /\ n.op \in {"PUXC2", "PUXCPU"} => n.i \in Nat /\ n.j \in Nat \cup {-1} /\ n.k \in Nat \cup {-1}
    /\ n.op = "XCPUXC" => n.i \in Nat /\ n.j \in Nat /\ n.k \in Nat \cup {-1}
    /\ n.op = "PU2XC" => n.i \in Nat /\ n.j \in Nat \cup {-1} /\ n.k \in Nat \cup {-2, -1}

(* What the generators and the optimizers put into a code.  XCHG2 comes     *)
(* only out of the tables, where S0, S0 is never the cheapest.              *)
StackInstructions ==
    [op : StackOps, i : Int, j : Int, k : Int, name : {""}, pure : {FALSE}, t : {<<>>}, f : {<<>>}]
Made(n) == Numbers(n) /\ (n.op = "XCHG2" => n.i + n.j > 0)

ASSUME CodesAssumption ==
    \A code \in Codes : code \in Seq(StackInstructions) /\ \A p \in 1..Len(code) : Made(code[p])

-----------------------------------------------------------------------------
(***************************************************************************)
(* StackState: the array keeps old values behind m_size; == ignores them.  *)
(***************************************************************************)
Cells == 0..MAX_STACK_DEPTH - 1

StackState(size) == [size |-> size, values |-> [p \in Cells |-> IF p < size THEN p ELSE 0]]

Key(s) == StackOf(s.size, LAMBDA p : s.values[p - 1])

Swap(v, i, j) == [v EXCEPT ![i] = v[j], ![j] = v[i]]
Reversed(v, lo, hi) == [p \in Cells |-> IF lo <= p /\ p < hi THEN v[lo + hi - 1 - p] ELSE v[p]]
(* m_values[p - by] = m_values[p] for p in from..size-1, and the reverse    *)
Lowered(v, from, by, size) ==
    [p \in Cells |-> IF from - by <= p /\ p < size - by THEN v[p + by] ELSE v[p]]
Raised(v, new, size) ==
    [p \in Cells |-> IF p < Len(new) THEN new[p + 1]
                     ELSE IF p < size + Len(new) THEN v[p - Len(new)] ELSE v[p]]

(* The state after an instruction; none when the instruction is refused.    *)
Room(s, n) == s.size + n <= MAX_STACK_DEPTH
With(s, values, change) == [size |-> s.size + change, values |-> values]

execPUSHS(s, i) == 
    IF i < s.size /\ Room(s, 1) THEN {With(s, Raised(s.values, <<s.values[i]>>, s.size), 1)} ELSE {}

execPUXC(s, i, j) ==
    IF j + 1 < s.size /\ i < s.size /\ Room(s, 1)
    THEN {With(s, Swap(Swap(Raised(s.values, <<s.values[i]>>, s.size), 0, 1), 0, j + 1), 1)} ELSE {}

(* Mutant: the values are pushed in the opposite order. *)
execPUSHES_Swapped(s, v, indexes) ==
    IF Room(s, Len(indexes)) /\ \A p \in DOMAIN indexes : indexes[p] < s.size
    THEN {With(s, Raised(v, [p \in DOMAIN indexes |-> v[indexes[Len(indexes) + 1 - p]]], s.size), Len(indexes))}
    ELSE {}

(* Pushing several values at once. *)
execPUSHES(s, v, indexes) ==
    IF Room(s, Len(indexes)) /\ \A p \in DOMAIN indexes : indexes[p] < s.size
    THEN {With(s, Raised(v, [p \in DOMAIN indexes |-> v[indexes[p]]], s.size), Len(indexes))} ELSE {}

apply(n, s) ==
    LET i == n.i  j == n.j  k == n.k  v == s.values
        below(cond, values, change) == IF cond THEN {With(s, values, change)} ELSE {}
    IN
    CASE n.op = "BLKSWAP" ->
            below(i + j <= s.size, Reversed(Reversed(Reversed(v, 0, j), j, j + i), 0, i + j), 0)
      [] n.op = "REVERSE" -> below(j + i <= s.size, Reversed(v, j, j + i), 0)
      [] n.op = "XCHG" -> below(i < s.size /\ j < s.size, Swap(v, i, j), 0)
      [] n.op = "DROP" -> below(i < s.size, Lowered(v, i, i, s.size), -i)
      [] n.op = "BLKDROP2" -> below(i + j <= s.size, Lowered(v, i + j, i, s.size), -i)
      [] n.op = "POP_S" -> below(i < s.size, Lowered([v EXCEPT ![i] = v[0]], 1, 1, s.size), -1)
      [] n.op = "BLKPUSH" ->
            below(Room(s, i) /\ j < s.size, Raised(v, [p \in 1..i |-> v[j - ((i - p) % (j + 1))]], s.size), i)
      [] n.op = "PUSH_S" -> execPUSHS(s, i)
      [] n.op = "PUSH2_S" -> execPUSHES(s, v, <<j, i>>)
      [] n.op = "PUSH3_S" -> execPUSHES(s, v, <<k, j, i>>)
      [] n.op = "XC2PU" ->
            IF Max4(i, j, k, 1) < s.size THEN execPUSHES(s, Swap(Swap(v, 1, i), 0, j), <<k>>) ELSE {}
      [] n.op = "XCPU" -> IF i < s.size THEN execPUSHES(s, Swap(v, 0, i), <<j>>) ELSE {}
      [] n.op = "PUXC" -> execPUXC(s, i, j)
      [] n.op = "XCHG2" -> below(Max2(i, j) < s.size, Swap(Swap(v, 1, i), 0, j), 0)
      [] n.op = "XCHG3" -> below(Max4(2, i, j, k) < s.size, Swap(Swap(Swap(v, 2, i), 1, j), 0, k), 0)
      [] n.op = "PU2XC" ->
            UNION {execPUXC([t EXCEPT !.values = Swap(@, 0, 1)], j + 1, k + 1) : t \in execPUSHS(s, i)}
      [] n.op = "PUXCPU" -> UNION {execPUSHS(t, k + 1) : t \in execPUXC(s, i, j)}
      [] n.op = "XCPUXC" ->
            IF Max2(i, 1) < s.size THEN execPUXC([s EXCEPT !.values = Swap(@, 1, i)], j, k) ELSE {}
      [] n.op = "PUXC2" ->
            IF Max4(1, i, j, k) < s.size
            THEN {[t EXCEPT !.values = Swap(Swap(Swap(@, 2, 0), 1, j + 1), 0, k + 1)] : t \in execPUSHS(s, i)}
            ELSE {}
      [] n.op = "XCPU2" -> IF i < s.size THEN execPUSHES(s, Swap(v, 0, i), <<k, j>>) ELSE {}

-----------------------------------------------------------------------------
(* Mutant: the instructions with three operands are taken to be free of     *)
(* the price of their length.                                               *)
GasCost_NoLength(n) ==
    IF n.op \in {"XCHG2", "XCHG3", "PUXC2", "XC2PU", "XCPUXC"} THEN 10 ELSE IF n.op = "BLKDROP2" THEN 26 ELSE 18

(* OpcodeUtils::gasCost, for operands up to 15. *)
GasCost(n) ==
    CASE n.op \in {"POP_S", "PUSH_S"} -> 18
      [] n.op = "DROP" -> IF n.i <= 2 THEN 18 ELSE 26
      [] n.op = "BLKSWAP" -> IF n.i <= 2 /\ n.j <= 2 THEN 18 ELSE 26
      [] n.op = "BLKPUSH" -> IF n.i = 2 /\ n.j \in {1, 3} THEN 18 ELSE 26
      [] n.op = "PUSH2_S" -> IF <<n.i, n.j>> \in {<<1, 0>>, <<3, 2>>} THEN 18 ELSE 26
      [] n.op = "REVERSE" -> IF n.i \in {2, 3} /\ n.j = 0 THEN 18 ELSE 26
      [] n.op = "XCHG" -> IF n.i <= 1 THEN 18 ELSE 26
      [] n.op \in {"BLKDROP2", "XCHG2", "XCHG3", "XCPU", "PUXC"} -> 26
      [] OTHER -> 34

(* The instructions that the search uses. *)
SimpleEdges ==
    LET M == MAX_STACK_DEPTH IN
         {POP(i) : i \in 1..M - 1}
    \cup {BLKDROP2(p[1], p[2]) : p \in {r \in (1..M) \X (1..M) : r[1] + r[2] <= M}}
    \cup {DROP(n) : n \in 1..M}
    \cup {BLKSWAP(p[1], p[2]) : p \in {r \in (1..M) \X (1..M) : r[1] + r[2] < M}}
    \cup {XCHG(p[1], p[2]) : p \in {r \in Cells \X Cells : r[1] < r[2]}}
    \cup {REVERSE(p[2], p[1]) : p \in {r \in Cells \X (2..M) : r[1] + r[2] <= M}}
    \cup {PUSH(i) : i \in Cells}

CompoundEdges ==
    LET M == MAX_STACK_DEPTH
        Minus1 == -1..M - 2
        Triples(op, I, J, K) == {Instr(op, i, j, k) : i \in I, j \in J, k \in K}
    IN   {BLKPUSH(p[2], p[1]) : p \in {r \in Cells \X (2..M) : r[1] + 1 + r[2] <= M}}
    \cup {PUSH2(i, j) : i, j \in Cells}
    \cup Triples("XCPU", 1..M - 1, Cells, {-1})
    \cup Triples("PUXC", Cells, -1..M - 1, {-1})
    \cup Triples("XCHG2", Cells, Cells, {-1})
    \cup (UNION {Triples(op, Cells, Cells, Cells) : op \in {"XC2PU", "XCPU2", "XCHG3", "PUSH3_S"}})
    \cup (UNION {Triples(op, Cells, Minus1, Minus1) : op \in {"PUXC2", "PUXCPU"}})
    \cup Triples("XCPUXC", Cells, Cells, Minus1)
    \cup Triples("PU2XC", Cells, Minus1, -2..M - 3)

AllEdges == SimpleEdges \cup CompoundEdges
Edges(withCompound) == IF withCompound THEN AllEdges ELSE SimpleEdges

MaxDepth(withCompound) == IF withCompound THEN 2 ELSE MAX_NEW_OPCODES

hash(s) == LET h[p \in 0..s.size] == IF p = 0 THEN s.size ELSE h[p - 1] * 31 + s.values[p - 1]
           IN  h[s.size]

-----------------------------------------------------------------------------
(* init(): the table and the queue for one start size *)
NoOp == Instr("nullptr", -1, -1, -1)
FirstTable(size) == [key \in {Key(StackState(size))} |-> [gas |-> 0, prev |-> key, op |-> NoOp]]
FirstQueue(size) == {[state |-> StackState(size), gas |-> 0, qty |-> 0]}

Searching == stackSize <= MAX_STACK_DEPTH

isFront(x) ==
    \A y \in q : \/ x.gas < y.gas
                 \/ x.gas = y.gas /\ hash(x.state) <= hash(y.state)

(* The steps from a queue entry that reach a new stack, or one in the table *)
(* at a lower cost.                                                         *)
Improving(x) ==
    {m \in UNION {{[to |-> t, key |-> Key(t), op |-> n, gas |-> x.gas + GasCost(n)] :
                     t \in apply(n, x.state)} : n \in Edges(compound)} :
        m.key \in DOMAIN dp => dp[m.key].gas > m.gas}

(* The cheapest step to a stack: edges are tried in the order of their cost *)
Cheapest(steps, key) ==
    CHOOSE m \in steps : m.key = key /\ \A o \in steps : o.key = key => m.gas <= o.gas

Taken(steps) == {Cheapest(steps, key) : key \in {m.key : m \in steps}}

(* One turn of the loop: the front of the queue is continued by all edges.  *)
Expand ==
    /\ Searching
    /\ \E x \in q : 
        /\ isFront(x)
        /\ \E taken \in {Taken(Improving(x))} :
             LET Reached == {m.key : m \in taken}
                 Step(key) == CHOOSE m \in taken : m.key = key
             IN  /\ dp' = [key \in Reached \cup DOMAIN dp |->
                              IF key \in Reached
                              THEN [gas |-> Step(key).gas, prev |-> Key(x.state), op |-> Step(key).op]
                              ELSE dp[key]]
                 /\ q' = {y \in q \ {x} : ~(Key(y.state) \in Reached /\ y.gas = dp[Key(y.state)].gas)}
                         \cup (IF x.qty + 1 < MaxDepth(compound)
                               THEN {[state |-> m.to, gas |-> m.gas, qty |-> x.qty + 1] : m \in taken} ELSE {})
    /\ UNCHANGED <<compound, stackSize, m_dp, squashed>>

(* m_dp with the table that is finished *)
Stored ==
    [t \in DOMAIN m_dp \cup {<<compound, stackSize>>} |-> IF t = <<compound, stackSize>> THEN dp ELSE m_dp[t]]

(* Mutant: the tables are made again and again. *)
NextTable_Again ==
    /\ Searching
    /\ q = {}
    /\ m_dp' = Stored
    /\ stackSize' = (stackSize + 1) % (MAX_STACK_DEPTH + 1)
    /\ compound' = (compound \/ stackSize = MAX_STACK_DEPTH)
    /\ dp' = FirstTable(stackSize') /\ q' = FirstQueue(stackSize')
    /\ UNCHANGED squashed

(* The queue is empty: the table is kept, and the next one is begun. *)
NextTable ==
    /\ Searching
    /\ q = {}
    /\ m_dp' = Stored
    /\ LET again == stackSize = MAX_STACK_DEPTH /\ ~compound
           size == IF again THEN 0 ELSE stackSize + 1
       IN  /\ stackSize' = size
           /\ compound' = (compound \/ again)
           /\ IF size <= MAX_STACK_DEPTH THEN dp' = FirstTable(size) /\ q' = FirstQueue(size)
              ELSE UNCHANGED <<dp, q>>
    /\ UNCHANGED squashed

-----------------------------------------------------------------------------
(* Mutant: the instructions are left in the order in which they are found. *)
recover_Backwards(start, key, withCompound) ==
    LET table == m_dp[<<withCompound, start>>]
        path[n \in 0..MaxDepth(withCompound)] ==
            IF n = 0 THEN [at |-> key, ops |-> <<>>]
            ELSE IF path[n - 1].at = Key(StackState(start)) THEN path[n - 1]
            ELSE [at |-> table[path[n - 1].at].prev, ops |-> Append(path[n - 1].ops, table[path[n - 1].at].op)]
    IN  path[MaxDepth(withCompound)].ops

(* recover(): the instructions that lead to the stack. *)
recover(start, key, withCompound) ==
    LET table == m_dp[<<withCompound, start>>]
        path[n \in 0..MaxDepth(withCompound)] ==       \* the last n instructions, and what is before them
            IF n = 0 THEN [at |-> key, ops |-> <<>>]
            ELSE IF path[n - 1].at = Key(StackState(start)) THEN path[n - 1]
            ELSE [at |-> table[path[n - 1].at].prev, ops |-> <<table[path[n - 1].at].op>> \o path[n - 1].ops]
    IN  path[MaxDepth(withCompound)].ops

(* The peephole optimizer follows the code from every start size. *)
After(code, start) ==
    LET s[n \in 0..Len(code)] == IF n = 0 THEN {StackState(start)} ELSE UNION {apply(code[n], t) : t \in s[n - 1]}
    IN  s[Len(code)]

CodeGas(code) ==
    LET gas[n \in 0..Len(code)] == IF n = 0 THEN 0 ELSE gas[n - 1] + GasCost(code[n]) IN gas[Len(code)]

Savings(code, withCompound) ==
    {r \in UNION {{[start |-> size, qty |-> n, key |-> Key(s)] : s \in After(Top(code, n), size)} :
                    size \in 0..MAX_STACK_DEPTH, n \in 1..Len(code)} :
        /\ r.key \in DOMAIN m_dp[<<withCompound, r.start>>]
        /\ m_dp[<<withCompound, r.start>>][r.key].gas < CodeGas(Top(code, r.qty))}

(* The last one found wins. *)
isLast(r, results) == \A o \in results : o.start < r.start \/ (o.start = r.start /\ o.qty <= r.qty)

Nothing == [old |-> <<>>, new |-> <<>>]

(* Replacements are independent of each other: one is looked at. *)
Squash(code, withCompound) ==
    /\ ~Searching
    /\ squashed = Nothing
    /\ \E results \in {Savings(code, withCompound)} : \E r \in results :
         /\ isLast(r, results)
         /\ squashed' = [old |-> Top(code, r.qty), new |-> recover(r.start, r.key, withCompound)]
    /\ UNCHANGED <<compound, stackSize, dp, q, m_dp>>

Init ==
    /\ compound = FALSE
    /\ stackSize = 0
    /\ dp = FirstTable(0)
    /\ q = FirstQueue(0)
    /\ m_dp = <<>>
    /\ squashed = Nothing

Next ==
    \/ Expand
    \/ NextTable
    \/ \E code \in Codes, withCompound \in BOOLEAN : Squash(code, withCompound)

Spec == Init /\ [][Next]_vars /\ WF_vars(Expand \/ NextTable)

-----------------------------------------------------------------------------
(* The stack that the TVM really leaves, and how deep the code reaches. *)
Run(code, s) ==
    LET r[n \in 0..Len(code)] == IF n = 0 THEN s ELSE ExecStack(code[n], r[n - 1]) IN r[Len(code)]

Change(n, s) == Len(ExecStack(n, s)) - Len(s)
DeepStack == StackOf(2 * MAX_STACK_DEPTH + 4, LAMBDA p : p - 1)

Need(code) ==
    LET d[n \in 0..Len(code)] ==
            IF n = 0 THEN 0
            ELSE Max2(d[n - 1], Reach(code[n]) + Len(DeepStack) - Len(Run(Top(code, n - 1), DeepStack)))
    IN  d[Len(code)]

(* Every entry of a finished table is what the TVM makes of the entry before *)
(* it, by an instruction that finds all its operands there, and its price is *)
(* the sum of the prices: recover() returns code that does what the key      *)
(* says.  While the search runs this does not hold: XCHG2 on a stack of one  *)
(* reads an old value, and only a cheaper, real way replaces the entry.      *)
TablesAreReal ==
    \A t \in DOMAIN m_dp : \A key \in DOMAIN m_dp[t] :
        LET e == m_dp[t][key] IN
        e.op # NoOp =>
            /\ e.prev \in DOMAIN m_dp[t]
            /\ Reach(e.op) <= Len(e.prev)
            /\ ExecStack(e.op, e.prev) = key
            /\ e.gas = m_dp[t][e.prev].gas + GasCost(e.op)

(* What the peephole optimizer puts in place of a run of instructions leaves *)
(* the same stack and is cheaper.                                            *)
SquashKeepsStack ==
    squashed # Nothing =>
        /\ Run(squashed.new, DeepStack) = Run(squashed.old, DeepStack)
        /\ CodeGas(squashed.new) < CodeGas(squashed.old)

(* ... and it does not reach deeper into the stack, where there may be       *)
(* nothing: the start size it was found for is not the size of the stack.    *)
SquashNeedsNoMore == Need(squashed.new) <= Need(squashed.old)

(* The search ends, for every start size and both sets of instructions.      *)
SearchEnds == <>~Searching
=============================================================================
