---------------------------- MODULE TvmInstructions ----------------------------
(***************************************************************************)
(* What the instructions that the peephole optimizer rewrites do to the    *)
(* stack, as the virtual machine executes them.  A value is an integer,    *)
(* null, a tuple, a slice, a builder or a cell.  Code that no well-typed   *)
(* program contains (a wrong type, too few values) ends in "ill".          *)
(***************************************************************************)
EXTENDS TvmStack, SequencesExt

Num(n) == [int |-> n]
Null == [null |-> 0]
Tuple(s) == [tuple |-> s]
Slice(bits) == [slice |-> bits]
Builder(bits, refs) == [builder |-> bits, refs |-> refs]
Cell(bits, refs) == [cell |-> bits, refs |-> refs]
Has(v, kind) == kind \in DOMAIN v
Bool(b) == Num(IF b THEN -1 ELSE 0)

(* Instructions.  Gen: i is its argument, t its bits.                       *)
GenArg(name, arg) == [Instr("GEN", arg, -1, -1) EXCEPT !.name = name]
GenOp(name) == GenArg(name, 0)
GenBits(name, bits) == [GenOp(name) EXCEPT !.t = bits]
GetGlob(n) == Instr("GETGLOB", n, -1, -1)
SetGlob(n) == Instr("SETGLOB", n, -1, -1)
Throws(name, code) == [Instr("THROW", code, -1, -1) EXCEPT !.name = name]
Ret(name) == [Instr("RET", -1, -1, -1) EXCEPT !.name = name]
SubProgram(take, jmp, block) == [Instr("SUB", take, jmp, -1) EXCEPT !.t = block]
IfElse(not, jmp, t, else, f) == [Instr("IF", not, jmp, else) EXCEPT !.t = t, !.f = f]   \* k = 1: with else
Asym(name) == [Instr("ASYM", -1, -1, -1) EXCEPT !.name = name]
Opaque(take, ret, pure, block) == [Instr("OPAQUE", take, ret, -1) EXCEPT !.pure = pure, !.t = block]
ReturnOrBreakOrCont(block) == [Instr("LEAVE", -1, -1, -1) EXCEPT !.t = block]

-----------------------------------------------------------------------------
Exp2(n) == 2 ^ n
FloorDiv(a, b) == IF b > 0 THEN a \div b ELSE (-a) \div (-b)
BitOf(a, k) == (a \div Exp2(k)) % 2
Width == 8      \* enough for the integers of the samples
And(a, b) == FoldLeft(LAMBDA s, k : s + BitOf(a, k) * BitOf(b, k) * Exp2(k), IF a < 0 /\ b < 0 THEN -Exp2(Width) ELSE 0,
                      [k \in 1 .. Width |-> k - 1])
BitsOf(a, n) == [k \in 1 .. n |-> BitOf(a, n - k)]
Zeroes(n) == [k \in 1 .. n |-> 0]
Unsigned(a, n) == 0 <= a /\ a < Exp2(n)
Signed(a, n) == -Exp2(n - 1) <= a /\ a < Exp2(n - 1)
(* An amount: how many bytes in four bits, then the bytes.                  *)
GramBits(a) == IF a = 0 THEN Zeroes(4) ELSE BitsOf(1, 4) \o BitsOf(a, 8)

Unary == {"INC", "DEC", "ADDCONST", "MULCONST", "NEGATE", "NOT", "EQINT", "NEQINT", "GTINT", "LESSINT", "UFITS",
          "FITS", "ABS", "MODPOW2"}
Shift == {"RSHIFT", "LSHIFT"}
Binary == {"ADD", "SUB", "SUBR", "MUL", "DIV", "MOD", "AND", "MAX", "MIN", "EQUAL", "NEQ", "LESS", "LEQ", "GREATER", "GEQ"}
Pushes == {"PUSHINT", "TRUE", "FALSE", "NULL", "NEWC", "PUSHSLICE", "PUSHREF"}

DoPushes(n) ==
    CASE n.name = "PUSHINT"   -> Num(n.i)
      [] n.name = "TRUE"      -> Bool(TRUE)
      [] n.name = "FALSE"     -> Bool(FALSE)
      [] n.name = "NULL"      -> Null
      [] n.name = "NEWC"      -> Builder(<<>>, <<>>)
      [] n.name = "PUSHSLICE" -> Slice(n.t)
      [] n.name = "PUSHREF"   -> Cell(n.t, <<>>)

DoUnary(n, a) ==
    CASE n.name \in {"INC", "DEC", "ADDCONST"} ->
            Num(a + (IF n.name = "INC" THEN 1 ELSE IF n.name = "DEC" THEN -1 ELSE n.i))
      [] n.name = "MULCONST" -> Num(a * n.i)
      [] n.name = "NEGATE"   -> Num(-a)
      [] n.name = "NOT"      -> Num(-1 - a)
      [] n.name = "EQINT"    -> Bool(a = n.i)
      [] n.name = "NEQINT"   -> Bool(a # n.i)
      [] n.name = "GTINT"    -> Bool(a > n.i)
      [] n.name = "LESSINT"  -> Bool(a < n.i)
      [] n.name \in {"UFITS", "FITS"} -> Num(a)
      [] n.name = "ABS"      -> Num(IF a < 0 THEN -a ELSE a)
      [] n.name = "MODPOW2"  -> Num(a % Exp2(n.i))

DoBinary(name, a, b) ==
    CASE name = "ADD"  -> Num(a + b)
      [] name = "SUB"  -> Num(a - b)
      [] name = "SUBR" -> Num(b - a)
      [] name = "MUL"  -> Num(a * b)
      [] name = "DIV"  -> Num(FloorDiv(a, b))
      [] name = "MOD"  -> Num(a - b * FloorDiv(a, b))
      [] name = "AND"  -> Num(And(a, b))
      [] name = "MAX"  -> Num(IF a > b THEN a ELSE b)
      [] name = "MIN"  -> Num(IF a < b THEN a ELSE b)
      [] name = "EQUAL" -> Bool(a = b)
      [] name = "NEQ"  -> Bool(a # b)
      [] name = "LESS" -> Bool(a < b)
      [] name = "LEQ"  -> Bool(a <= b)
      [] name = "GREATER" -> Bool(a > b)
      [] name = "GEQ"  -> Bool(a >= b)
DoShift(name, a, n) == Num(IF name = "LSHIFT" THEN a * Exp2(n) ELSE a \div Exp2(n))

-----------------------------------------------------------------------------
Start(stack) == [stack |-> stack, globs |-> [n \in 1 .. 2 |-> Null], out |-> "run", code |-> 0]
Ill(st) == [st EXCEPT !.out = "ill"]
Throw(st, code) == [st EXCEPT !.out = "throw", !.code = code, !.stack = <<>>]
Put(st, n, v) == [st EXCEPT !.stack = <<v>> \o From(@, n)]      \* n values give way to v
Kinds(st, kinds) ==         \* the kinds of the top values, from the top
    /\ Len(st.stack) >= Len(kinds)
    /\ \A i \in DOMAIN kinds : kinds[i] = "any" \/ Has(st.stack[i], kinds[i])
Ints(st, n) == Kinds(st, [i \in 1 .. n |-> "int"])
Isbool(v) == Has(v, "int") /\ v.int \in {0, -1}

(* Stores: STxR finds the builder below the value, STx above it.            *)
StoreNames == {"STU", "STI", "STSLICE", "STREF", "STB", "STBREF", "STGRAMS", "STZEROES", "STDICT"}
Reversed == {"STUR", "STIR", "STSLICER", "STREFR", "STBREFR"}
StoreOf(name) == CASE name = "STUR" -> "STU" [] name = "STIR" -> "STI" [] name = "STSLICER" -> "STSLICE"
                   [] name = "STREFR" -> "STREF" [] name = "STBREFR" -> "STBREF" [] OTHER -> name
OnTop == Reversed \cup {"STGRAMS", "STZEROES"}    \* the value is above the builder
Storable(name, n, v) ==
    CASE name \in {"STU", "STI", "STZEROES", "STGRAMS"} -> Has(v, "int")
      [] name = "STSLICE" -> Has(v, "slice") [] name = "STREF" -> Has(v, "cell")
      [] name \in {"STB", "STBREF"} -> Has(v, "builder") [] name = "STDICT" -> v = Null
InRange(name, n, v) ==
    CASE name = "STU" -> Unsigned(v.int, n) [] name = "STI" -> Signed(v.int, n)
      [] name = "STGRAMS" -> v.int >= 0 [] name = "STZEROES" -> v.int >= 0 [] OTHER -> TRUE
Stored(name, n, b, v) ==
    CASE name \in {"STU", "STI"} -> Builder(b.builder \o BitsOf(v.int, n), b.refs)
      [] name = "STZEROES" -> Builder(b.builder \o Zeroes(v.int), b.refs)
      [] name = "STGRAMS"  -> Builder(b.builder \o GramBits(v.int), b.refs)
      [] name = "STSLICE"  -> Builder(b.builder \o v.slice, b.refs)
      [] name = "STB"      -> Builder(b.builder \o v.builder, b.refs \o v.refs)
      [] name = "STREF"    -> Builder(b.builder, Append(b.refs, v))
      [] name = "STBREF"   -> Builder(b.builder, Append(b.refs, Cell(v.builder, v.refs)))
      [] name = "STDICT"   -> Builder(Append(b.builder, 0), b.refs)

DoStore(n, st) ==
    LET name == StoreOf(n.name)
        v == IF n.name \in OnTop THEN st.stack[1] ELSE st.stack[2]
        b == IF n.name \in OnTop THEN st.stack[2] ELSE st.stack[1]
    IN  IF Len(st.stack) < 2 \/ ~Has(b, "builder") \/ ~Storable(name, n.i, v) THEN Ill(st)
        ELSE IF InRange(name, n.i, v) THEN Put(st, 2, Stored(name, n.i, b, v)) ELSE Throw(st, 5)

(* Loads: a slice gives its first bits, PLDx keeps nothing of the rest.     *)
Loads == {"LDU", "LDI", "LDSLICE", "PLDU", "PLDI", "PLDSLICE"}
ValueOf(bits) == FoldLeft(LAMBDA v, b : 2 * v + b, 0, bits)
Loaded(name, bits) ==
    CASE name \in {"LDSLICE", "PLDSLICE", "LDSLICEX"} -> Slice(bits)
      [] name \in {"LDU", "PLDU"} -> Num(ValueOf(bits))
      [] name \in {"LDI", "PLDI"} -> Num(ValueOf(bits) - (IF bits[1] = 1 THEN Exp2(Len(bits)) ELSE 0))
(* n bits of the slice below the pop top values.                            *)
DoLoad(name, st, pop, n) ==
    LET bits == st.stack[pop + 1].slice
        rest == [st EXCEPT !.stack = From(@, pop + 1)]
    IN  CASE n < 0 -> Throw(st, 5)
          [] n > Len(bits) -> Throw(st, 9)
          [] name \in {"SDSKIPFIRST", "SSKIPFIRST"} -> Put(rest, 0, Slice(From(bits, n)))
          [] name \in {"PLDU", "PLDI", "PLDSLICE"} -> Put(rest, 0, Loaded(name, Top(bits, n)))
          [] OTHER -> Put(Put(rest, 0, Loaded(name, Top(bits, n))), 0, Slice(From(bits, n)))

DoGen(n, st) ==
    LET s == st.stack
    IN  CASE n.name \in Pushes -> Put(st, 0, DoPushes(n))
          [] n.name \in {"UFITS", "FITS"} /\ Ints(st, 1) ->
                IF (IF n.name = "UFITS" THEN Unsigned(s[1].int, n.i) ELSE Signed(s[1].int, n.i)) THEN st ELSE Throw(st, 4)
          [] n.name = "NOT" /\ Ints(st, 1) /\ ~Isbool(s[1]) -> Ill(st)
          [] n.name \in Unary \ {"UFITS", "FITS"} /\ Ints(st, 1) -> Put(st, 1, DoUnary(n, s[1].int))
          [] n.name \in Shift /\ n.i \in 1 .. Width /\ Ints(st, 1) -> Put(st, 1, DoShift(n.name, s[1].int, n.i))
          [] n.name \in Shift /\ n.i = 0 /\ Ints(st, 2) ->
                IF s[1].int \notin 0 .. 256 THEN Throw(st, 5)
                ELSE IF s[1].int > Width THEN Ill(st) ELSE Put(st, 2, DoShift(n.name, s[2].int, s[1].int))
          [] n.name \in {"DIV", "MOD"} /\ Ints(st, 2) /\ s[1].int = 0 -> Throw(st, 4)
          [] n.name \in Binary /\ Ints(st, 2) -> Put(st, 2, DoBinary(n.name, s[2].int, s[1].int))
          [] n.name = "ISNULL" /\ Len(s) > 0 -> Put(st, 1, Bool(s[1] = Null))
          [] n.name = "TUPLE" /\ Len(s) >= n.i -> Put(st, n.i, Tuple(Reverse(Top(s, n.i))))
          [] n.name = "UNTUPLE" /\ Kinds(st, <<"tuple">>) /\ Len(s[1].tuple) = n.i ->
                [st EXCEPT !.stack = Reverse(s[1].tuple) \o Tail(s)]
          [] n.name = "CONDSEL" /\ Kinds(st, <<"any", "any", "int">>) -> Put(st, 3, IF s[3].int # 0 THEN s[2] ELSE s[1])
          [] n.name = "STSLICECONST" /\ Kinds(st, <<"builder">>) -> Put(st, 1, Builder(s[1].builder \o n.t, s[1].refs))
          [] n.name = "ENDC" /\ Kinds(st, <<"builder">>) -> Put(st, 1, Cell(s[1].builder, s[1].refs))
          [] n.name \in StoreNames \cup Reversed -> DoStore(n, st)
          [] n.name \in Loads /\ Kinds(st, <<"slice">>) -> DoLoad(n.name, st, 0, n.i)
          [] n.name \in {"LDSLICEX", "SDSKIPFIRST"} /\ Kinds(st, <<"int", "slice">>) -> DoLoad(n.name, st, 1, s[1].int)
          [] n.name \in {"SPLIT", "SSKIPFIRST"} /\ Kinds(st, <<"int", "int", "slice">>) /\ s[1].int = 0 ->
                DoLoad(IF n.name = "SPLIT" THEN "LDSLICEX" ELSE n.name, st, 2, s[2].int)
          [] OTHER -> Ill(st)

(* ZEROSWAPIF and its likes put a zero or null under the top value, or      *)
(* under the two top values (ROTR), depending on the condition on top.      *)
DoAsym(name, st) ==
    LET s == st.stack
        v == IF name \in {"NULLSWAPIF", "NULLSWAPIFNOT", "NULLROTRIF", "NULLROTRIFNOT"} THEN Null ELSE Num(0)
        n == IF name \in {"NULLSWAPIF", "NULLSWAPIFNOT", "ZEROSWAPIF", "ZEROSWAPIFNOT"} THEN 1 ELSE 2
        not == name \in {"NULLSWAPIFNOT", "NULLROTRIFNOT", "ZEROSWAPIFNOT", "ZEROROTRIFNOT"}
    IN  IF Len(s) < n \/ ~Has(s[1], "int") THEN Ill(st)
        ELSE IF (s[1].int # 0) # not THEN [st EXCEPT !.stack = Top(s, n) \o <<v>> \o From(s, n)] ELSE st

RECURSIVE Exec(_, _)
(* A block that is called comes back on RET; one that is jumped to returns  *)
(* from the code around it as well.                                         *)
Called(st) == IF st.out = "ret" THEN [st EXCEPT !.out = "run"] ELSE st
Jumped(st) == IF st.out = "run" THEN [st EXCEPT !.out = "ret"] ELSE st
Popped(st) == [st EXCEPT !.stack = Tail(@)]
TopIs(st, b) == (st.stack[1].int # 0) = b

DoIf(n, st) ==
    LET then == TopIs(st, n.i = 0)
    IN  IF then \/ n.k = 1
        THEN LET r == Exec(IF then THEN n.t ELSE n.f, Popped(st)) IN IF n.j = 1 THEN Jumped(r) ELSE Called(r)
        ELSE Popped(st)

DoRet(name, st) ==
    LET out == IF name \in {"RET", "IFRET", "IFNOTRET"} THEN "ret" ELSE "alt"
    IN  CASE name \in {"RET", "RETALT"} -> [st EXCEPT !.out = out]
          [] ~Ints(st, 1) -> Ill(st)
          [] OTHER -> IF TopIs(st, name \in {"IFRET", "IFRETALT"}) THEN [Popped(st) EXCEPT !.out = out] ELSE Popped(st)

DoThrow(n, st) ==
    CASE n.name = "THROW" -> Throw(st, n.i)
      [] ~Ints(st, 1) -> Ill(st)
      [] OTHER -> IF TopIs(st, n.name = "THROWIF") THEN Throw(st, n.i) ELSE Popped(st)

DoInstr(n, st) ==
    CASE n.op \in StackOps -> IF Reach(n) <= Len(st.stack) THEN [st EXCEPT !.stack = ExecStack(n, @)] ELSE Ill(st)
      [] n.op = "GEN" -> DoGen(n, st)
      [] n.op = "GETGLOB" -> Put(st, 0, st.globs[n.i])
      [] n.op = "SETGLOB" -> IF st.stack = <<>> THEN Ill(st) ELSE [Popped(st) EXCEPT !.globs[n.i] = st.stack[1]]
      [] n.op = "THROW" -> DoThrow(n, st)
      [] n.op = "RET" -> DoRet(n.name, st)
      [] n.op = "IF" -> IF Ints(st, 1) THEN DoIf(n, st) ELSE Ill(st)
      [] n.op = "SUB" -> LET r == Exec(n.t, st) IN IF n.j = 1 THEN Jumped(r) ELSE Called(r)
      [] n.op = "ASYM" -> DoAsym(n.name, st)
      [] n.op \in {"OPAQUE", "LEAVE"} -> Exec(n.t, st)

Exec(code, st) == FoldLeft(LAMBDA r, n : IF r.out = "run" THEN DoInstr(n, r) ELSE r, st, code)
(* A block as a whole: at its end it returns.                               *)
Effect(code, stack) == Jumped(Exec(code, Start(stack)))
=============================================================================
