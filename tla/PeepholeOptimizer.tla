--------------------------- MODULE PeepholeOptimizer ---------------------------
(***************************************************************************)
(* class PeepholeOptimizer: a sweep tries the rules at each place of a     *)
(* block in turn and steps back after a replacement; the passes of         *)
(* TVMContractCompiler::optimizeCode differ in the flags.                  *)
(***************************************************************************)
EXTENDS PeepholeRules

CONSTANTS
    Codes,      \* the blocks given to the optimizer
    Stacks(_)   \* the stacks that a block is executed on

VARIABLES
    original,   \* the block as it was generated
    m_instructions, \* the block as it is now
    stage,      \* which part of which pass is running
    idx1,       \* where the sweep is
    didSomething,
    seen        \* what the block has been in this stage

vars == <<original, m_instructions, stage, idx1, didSomething, seen>>

-----------------------------------------------------------------------------
(* A sweep over a block: what to do at place i, and where to go on after    *)
(* the replacement.                                                         *)
StepBack == 10
At_i(do, code, i, flags) ==
    CASE do = "unsquash" -> unsquash(code[i], flags)
      [] do = "slice"    -> optimizeSlice(code[i], At(code, i + 1), At(code, i + 2))
      [] do = "rules"    -> optimizeAt(code, i, flags)
      [] do = "squash"   -> squash(code, i, flags)
updateLines(code, i, r) == SubSeq(code, 1, i - 1) \o r.new \o SubSeq(code, i + r.n, Len(code))
Back(code, i) == LET j == IF i <= Len(code) THEN i ELSE Len(code) IN IF j > StepBack THEN j - StepBack ELSE 1

(* The parts of optimizeBlock, in order; rules are tried until none applies.*)
Repeated == {"rules", "slice"}
Parts(flags) ==
    <<"unsquash", IF "OptimizeSlice" \in flags THEN "slice" ELSE "rules">>
    \o (IF "UseCompoundOpcodes" \in flags THEN <<"squash">> ELSE <<>>)

(* The first place from i on where a rule applies, and that rule.           *)
RECURSIVE FirstRule(_, _, _, _)
FirstRule(do, code, i, flags) ==
    IF i > Len(code) THEN [at |-> i, rule |-> NoRule]
    ELSE Strict(At_i(do, code, i, flags), LAMBDA r :
            IF r = NoRule THEN FirstRule(do, code, i + 1, flags) ELSE [at |-> i, rule |-> r])

RECURSIVE Sweep(_, _, _, _, _)
Sweep(do, code, i, flags, did) ==
    Strict(FirstRule(do, code, i, flags), LAMBDA found :
        IF found.rule # NoRule
        THEN Strict(updateLines(code, found.at, found.rule), LAMBDA new : Sweep(do, new, Back(new, found.at), flags, TRUE))
        ELSE IF did /\ do \in Repeated THEN Sweep(do, code, 1, flags, FALSE) ELSE code)

(* A block that only calls another is that block.                           *)
Unwrapped(block) == IF Len(block) = 1 /\ block[1].op = "SUB" THEN block[1].t ELSE block
optimizeBlock(block, flags) == FoldLeft(LAMBDA b, do : Sweep(do, b, 1, flags, FALSE), Unwrapped(block), Parts(flags))

(* visit and endVisit of a block inside another.                            *)
RECURSIVE Visited(_, _)
Inner(code, flags) ==
    StackOf(Len(code), LAMBDA p : [code[p] EXCEPT !.t = IF HasBlocks(code[p]) THEN Visited(@, flags) ELSE @,
                                                  !.f = Visited(@, flags)])
Visited(block, flags) == IF block = <<>> THEN <<>> ELSE optimizeBlock(Inner(optimizeBlock(block, flags), flags), flags)

(* optimizeCode: the passes, each a visit of the function's block.          *)
Passes == <<{}, {"UnpackOpaque"}, {"UnpackOpaque", "UseCompoundOpcodes"}, {"OptimizeSlice", "UseCompoundOpcodes"}>>
Schedule ==
    LET Stages(flags) == LET Stage(do) == [do |-> do, flags |-> flags]
                             block == [p \in DOMAIN Parts(flags) |-> Stage(Parts(flags)[p])]
                         IN  block \o <<Stage("inner")>> \o block
    IN  FoldLeft(LAMBDA s, flags : s \o Stages(flags), <<>>, Passes)

-----------------------------------------------------------------------------
Init ==
    /\ original \in {c \in Codes : \E s \in Stacks(c) : Effect(c, s).out # "ill"}    \* what types allow
    /\ m_instructions = original
    /\ stage = 1 /\ idx1 = 1 /\ didSomething = FALSE /\ seen = {}

Running == stage <= Len(Schedule)
Do == Schedule[stage].do
Flags == Schedule[stage].flags

(* A rule applies at the first place from idx1 on where one does.           *)
Replace(found) ==
    /\ found.rule # NoRule
    /\ m_instructions' = updateLines(m_instructions, found.at, found.rule)
    /\ idx1' = Back(m_instructions', found.at)
    /\ didSomething' = TRUE
    /\ seen' = seen \cup {m_instructions}
    /\ UNCHANGED <<original, stage>>

(* None applies in the rest of the block: another sweep, or the next part.  *)
SweepAgain(found) ==
    /\ found.rule = NoRule /\ Do \in Repeated /\ didSomething
    /\ idx1' = 1 /\ didSomething' = FALSE
    /\ UNCHANGED <<original, m_instructions, stage, seen>>

EndSweep(found) ==
    /\ found.rule = NoRule /\ ~(Do \in Repeated /\ didSomething)
    /\ stage' = stage + 1 /\ idx1' = 1 /\ didSomething' = FALSE /\ seen' = {}
    /\ UNCHANGED <<original, m_instructions>>

SweepStep ==
    /\ Running /\ Do # "inner"
    /\ \E found \in {FirstRule(Do, m_instructions, idx1, Flags)} :
        Replace(found) \/ SweepAgain(found) \/ EndSweep(found)

(* The blocks inside this one are visited.                                  *)
VisitInner ==
    /\ Running /\ Do = "inner"
    /\ m_instructions' = Inner(m_instructions, Flags)
    /\ stage' = stage + 1
    /\ UNCHANGED <<original, idx1, didSomething, seen>>

Next == SweepStep \/ VisitInner
Spec == Init /\ [][Next]_vars

-----------------------------------------------------------------------------
(* Operands that the assembler can encode, and that the make functions of   *)
(* TvmAst.cpp do not refuse.                                                *)
Encodable(n) ==
    CASE n.op = "PUSH_S" -> n.i \in 0 .. 255
      [] n.op = "POP_S" -> n.i \in 1 .. 255
      [] n.op = "DROP" -> n.i >= 1
      [] n.op = "BLKPUSH" -> n.i >= 1 /\ n.j \in 0 .. 15 /\ (n.i > 15 => n.j = 0)
      [] n.op = "BLKDROP2" -> n.i \in 1 .. 15 /\ n.j \in 1 .. 15
      [] n.op = "BLKSWAP" -> n.i \in 1 .. 16 /\ n.j \in 1 .. 16
      [] n.op = "REVERSE" -> n.i \in 2 .. 17 /\ n.j \in 0 .. 15
      [] n.op \in {"PUSH2_S", "XCPU"} -> n.i \in 0 .. 15 /\ n.j \in 0 .. 15
      [] n.op = "PUSH3_S" -> n.i \in 0 .. 15 /\ n.j \in 0 .. 15 /\ n.k \in 0 .. 15
      [] n.op = "PUXC" -> n.i \in 0 .. 15 /\ n.j \in -1 .. 14
      [] Is(n, {"ADDCONST", "MULCONST", "EQINT", "NEQINT", "GTINT", "LESSINT"}) -> n.i \in -128 .. 127
      [] Is(n, {"STU", "STI", "STUR", "STIR", "MODPOW2", "UFITS", "FITS"} \cup Loads) -> n.i \in 1 .. 256
      [] Is(n, {"STSLICECONST"}) -> Len(n.t) <= MaxSTSLICECONST
      [] Is(n, {"PUSHSLICE", "PUSHREF"}) -> Len(n.t) <= CellBitLength
      [] OTHER -> TRUE

RECURSIVE AllEncodable(_)
AllEncodable(block) ==
    \A n \in Range(block) : Encodable(n) /\ (HasBlocks(n) => AllEncodable(n.t) /\ AllEncodable(n.f))

(* The blocks for which a rule makes an instruction that cannot be encoded: *)
(* LDSLICE of no bits or of fewer (PeepholeOptimizer.cpp:1583), and BLKPUSH *)
(* of more than 15 values from below the top (2351), which the assertion of *)
(* the printer refuses (TvmAstVisitor.cpp:416).                             *)
SplitsNothing(block) ==
    \E p \in DOMAIN block : /\ Is(block[p], {"PUSHINT"}) /\ block[p].i <= 0
                            /\ At(block, p + 1) = PushInt(0) /\ Is(At(block, p + 2), {"SPLIT"})
PushesMany(block) ==
    \E p \in DOMAIN block : /\ isPUSH(block[p]) \notin {{}, {0}} /\ p + 15 <= Len(block)
                            /\ \A q \in p .. p + 15 : isPUSH(block[q]) = isPUSH(block[p])

(* Every instruction that a rule makes has operands that the assembler can  *)
(* encode, at every step of every pass, except in those blocks.             *)
TypeOK ==
    /\ stage \in 1 .. Len(Schedule) + 1 /\ idx1 \in 1 .. Len(m_instructions) + 1
    /\ SplitsNothing(original) \/ PushesMany(original) \/ AllEncodable(m_instructions)

(* The blocks for which a rule drops an exception: the test of an optional  *)
(* before it is taken out of its tuple (1704), and the check of the first   *)
(* of two sums when the second goes back (1639).                            *)
GetOptional == <<PUSH(0), G("ISNULL"), Throws("THROWIF", GetOptionalException), GenArg("UNTUPLE", 1)>>
DropsNullTest(block) == \E p \in DOMAIN block : SubSeq(block, p, p + 3) = GetOptional
DropsRangeCheck(block) ==
    \E p \in 1 .. Len(block) - 3 : /\ isConstAdd(block[p]) /\ isConstAdd(block[p + 2])
                                   /\ Is(block[p + 1], {"UFITS", "FITS"}) /\ block[p + 3] = block[p + 1]
                                   /\ (getAddNum(block[p]) < 0) # (getAddNum(block[p + 2]) < 0)
IntegerOverflow == 4
ExceptionIsDropped(block, before) ==
    /\ before.out = "throw"
    /\ \/ before.code = GetOptionalException /\ DropsNullTest(block)
       \/ before.code = IntegerOverflow /\ DropsRangeCheck(block)

(* After every replacement the block does what it did before the first:     *)
(* the same stack and global variables, the same exit, the same exception,  *)
(* unless it is one of the two that are dropped.                            *)
SameEffect ==
    m_instructions # original => \A s \in Stacks(original) :
        LET before == Effect(original, s)
        IN  before.out # "ill" /\ ~ExceptionIsDropped(original, before) => Effect(m_instructions, s) = before

(* No rule undoes what others did: within one part of a pass the block is   *)
(* never again what it was, so `while (optimizer.optimize(...))` ends.      *)
NeverUndone == m_instructions \notin seen
=============================================================================
