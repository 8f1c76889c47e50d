----------------------------- MODULE PeepholeRules -----------------------------
(***************************************************************************)
(* class PrivatePeepholeOptimizer: the rules that replace a few            *)
(* consecutive instructions of a block by cheaper ones.  The rule that     *)
(* takes replacements from a table is in StackOpcodeSquasher.  Left out    *)
(* are the rules for instructions of dictionaries, references and vectors  *)
(* (INDEX, LDREF, PLDREFIDX), of loops and of string concatenation.        *)
(***************************************************************************)
EXTENDS TvmInstructions

CONSTANTS
    MaxSTSLICECONST,    \* bits that STSLICECONST can hold
    CellBitLength       \* bits of a cell

ASSUME LengthAssumption == MaxSTSLICECONST \in Nat /\ CellBitLength \in Nat

-----------------------------------------------------------------------------
(* What an instruction is: the numbers of the ones it is an alias of, as a  *)
(* set that is empty when it is another.                                    *)
None == Instr("NONE", -1, -1, -1)
At(code, i) == IF i \in DOMAIN code THEN code[i] ELSE None

isOp(n, op) == n.op = op
Is(n, names) == n.op = "GEN" /\ n.name \in names
isExc(n, names) == n.op = "THROW" /\ n.name \in names
isPushCellOrSlice(n) == Is(n, {"PUSHSLICE", "PUSHREF"})
isGlob(n) == n.op \in {"GETGLOB", "SETGLOB"}
isStackOpcode(n) == n.op = "GEN" /\ ~isPushCellOrSlice(n)
isPureGen01(n) ==
    \/ n.op = "GETGLOB"
    \/ Is(n, Pushes)
    \/ n.op = "OPAQUE" /\ n.pure /\ n.i = 0 /\ n.j = 1
isSimpleCommand(n) == isPureGen01(n) \/ (n.op = "OPAQUE" /\ n.i = 0 /\ n.j = 1)
isPureGen11(n) == Is(n, {"EQINT", "NEQINT", "GTINT", "LESSINT", "NOT", "ISNULL"})
isCommutative(n) == Is(n, {"ADD", "AND", "EQUAL", "MAX", "MIN", "MUL", "NEQ"})
isConstAdd(n) == Is(n, {"INC", "DEC", "ADDCONST"})
getAddNum(n) == CASE n.name = "INC" -> 1 [] n.name = "DEC" -> -1 [] OTHER -> n.i

isBLKSWAP(n) ==
    CASE n.op = "BLKSWAP" -> {<<n.i, n.j>>}
      [] n \in {XCHG(0, 1), REVERSE(2, 0)} -> {<<1, 1>>}
      [] OTHER -> {}
isSWAP(n) == isBLKSWAP(n) = {<<1, 1>>}
isDrop(n) == IF n.op = "DROP" THEN {n.i} ELSE {}
isPOP(n) == IF n.op = "POP_S" THEN {n.i} ELSE IF n = BLKDROP2(1, 1) THEN {1} ELSE {}
isBLKDROP2(n) == IF n.op = "BLKDROP2" THEN {<<n.i, n.j>>} ELSE IF n = POP(1) THEN {<<1, 1>>} ELSE {}
isNIP(n) == n \in {POP(1), BLKDROP2(1, 1)}
isPUSH(n) == IF n.op = "PUSH_S" THEN {n.i} ELSE IF n.op = "BLKPUSH" /\ n.i = 1 THEN {n.j} ELSE {}
isDUP(n) == isPUSH(n) = {0}
isBLKPUSH(n) == IF n.op = "BLKPUSH" THEN {<<n.i, n.j>>} ELSE IF n = PUSH(0) THEN {<<1, 0>>} ELSE {}
isXCHG_S0(n) ==
    CASE n.op = "XCHG" /\ n.i = 0 -> {n.j}
      [] isSWAP(n) -> {1}
      [] n = REVERSE(3, 0) -> {2}
      [] OTHER -> {}
isREVERSE(n) ==
    CASE n.op = "REVERSE" -> {<<n.i, n.j>>}
      [] isSWAP(n) -> {<<2, 0>>}
      [] n = XCHG(0, 2) -> {<<3, 0>>}
      [] OTHER -> {}
The(s) == CHOOSE x \in s : TRUE

makeDROP(n) == DROP(n)
makeBLKPUSH(n, i) == IF n = 1 THEN PUSH(i) ELSE BLKPUSH(n, i)
makeBLKDROP2(n, left) ==
    IF n = 1 /\ left = 1 THEN POP(1) ELSE IF left = 0 THEN DROP(n) ELSE BLKDROP2(n, left)
flipIfElse(n) == IF n.k = 1 THEN [n EXCEPT !.t = n.f, !.f = n.t] ELSE [n EXCEPT !.i = 1 - @]

(* Bits of an integer when it fits, and the bits that fit into a cell.      *)
Fits(v, n, signed) == IF signed THEN Signed(v, n) ELSE Unsigned(v, n)
unitBitString(bits) == Len(bits) <= CellBitLength
(* mutant: one more than a byte holds *)
Small_128(v) == -128 <= v /\ v <= 128
Small(v) == -128 <= v /\ v <= 127
PowersOf2 == {Exp2(p) : p \in 1 .. 20}
Log2(v) == CHOOSE p \in 0 .. 20 : Exp2(p) = v

(* mutant: a conditional return in a branch is overlooked *)
hasRetOrJmp_NoIfRet(n) ==
    \/ n.op = "LEAVE" \/ n \in {Ret("RET"), Ret("RETALT")}
    \/ n.op \in {"SUB", "IF"} /\ n.j = 1
RECURSIVE hasRetOrJmp(_)
hasRetOrJmp(n) ==
    \/ n.op \in {"LEAVE", "RET"}
    \/ n.op \in {"SUB", "IF"} /\ n.j = 1
    \/ n.op = "OPAQUE" /\ \E m \in Range(n.t) : hasRetOrJmp(m)
noRetOrJmp(block) == \A n \in Range(block) : ~hasRetOrJmp(n)

-----------------------------------------------------------------------------
(* A rule either applies, and n instructions give way to new, or it does    *)
(* not; of two rules the first that applies is taken.                       *)
NoRule == [n |-> 0, new |-> <<>>]
Rule(applies, n, new) == IF applies THEN [n |-> n, new |-> new] ELSE NoRule
r ?? s == IF r = NoRule THEN s ELSE r

G(name) == GenOp(name)
PushSlice(bits) == GenBits("PUSHSLICE", bits)
StSliceConst(bits) == GenBits("STSLICECONST", bits)
PushRef(bits) == GenBits("PUSHREF", bits)
PushInt(v) == GenArg("PUSHINT", v)
Unreversed == [s \in Reversed |-> StoreOf(s)]

GetOptionalException == 63      \* TvmConst::RuntimeException

(* PUSHCONT { n } with a single instruction. *)
Single(block, n) == Len(block) = 1 /\ block[1] = n
(* NULL or zero, alone or with SWAP, as a whole branch.                     *)
Align(block) ==
    CASE block = <<PushInt(0)>> -> "ZEROSWAP" [] block = <<PushInt(0), XCHG(0, 1)>> -> "ZEROROTR"
      [] block = <<G("NULL")>> -> "NULLSWAP"  [] block = <<G("NULL"), XCHG(0, 1)>> -> "NULLROTR"
      [] OTHER -> ""
AlignOp(align, not) ==
    CASE align = "ZEROSWAP" -> Asym(IF not THEN "ZEROSWAPIFNOT" ELSE "ZEROSWAPIF")
      [] align = "ZEROROTR" -> Asym(IF not THEN "ZEROROTRIFNOT" ELSE "ZEROROTRIF")
      [] align = "NULLSWAP" -> Asym(IF not THEN "NULLSWAPIFNOT" ELSE "NULLSWAPIF")
      [] align = "NULLROTR" -> Asym(IF not THEN "NULLROTRIFNOT" ELSE "NULLROTRIF")
AlignRule(a, align) ==
       Rule(Align(a.t) = align, 1, <<AlignOp(align, a.i = 1), [a EXCEPT !.t = <<>>]>>)
    ?? Rule(a.k = 1 /\ Align(a.f) = align, 1, <<AlignOp(align, TRUE), [a EXCEPT !.f = <<>>]>>)

(* A branch that only pushes, with d values more on the stack.              *)
Deeper(n, d) == IF isPUSH(n) # {} THEN PUSH(The(isPUSH(n)) + d) ELSE n
Selectable(t, f) ==
    /\ Len(t) = 1 /\ Len(f) = 1
    /\ (isPureGen01(t[1]) /\ isStackOpcode(t[1])) \/ isGlob(t[1]) \/ isPushCellOrSlice(t[1]) \/ isPUSH(t[1]) # {}
    /\ isStackOpcode(f[1]) \/ isGlob(f[1]) \/ isPushCellOrSlice(f[1]) \/ isPUSH(f[1]) # {}

IfRules(a, flags) ==
    LET t == a.t  f == a.f  else == a.k = 1  not == a.i = 1  jmp == a.j = 1
    IN  Rule(t = <<>> /\ ~else /\ ~jmp, 1, <<makeDROP(1)>>)
     ?? Rule(t = <<>> /\ ~else /\ jmp, 1, <<Ret(IF not THEN "IFNOTRET" ELSE "IFRET")>>)
     ?? Rule(~else /\ Len(t) = 1 /\ isExc(At(t, 1), {"THROW"}), 1,
             <<Throws(IF not THEN "THROWIFNOT" ELSE "THROWIF", t[1].i)>>)
     ?? Rule(~else /\ Single(t, Ret("RETALT")), 1, <<Ret(IF not THEN "IFNOTRETALT" ELSE "IFRETALT")>>)
     ?? Rule(else /\ t = f, 1, <<makeDROP(1), SubProgram(0, 0, t)>>)
     ?? Rule(/\ "UnpackOpaque" \in flags /\ else /\ ~jmp /\ t # <<>> /\ f # <<>>
             /\ At(t, Len(t)) = At(f, Len(f)) /\ noRetOrJmp(t) /\ noRetOrJmp(f), 1,
             <<[a EXCEPT !.t = Front(t), !.f = Front(f)], t[Len(t)]>>)
     ?? Rule(else /\ f = <<>> /\ ~jmp, 1, <<IfElse(a.i, 0, t, 0, <<>>)>>)
     ?? Rule(else /\ t = <<>> /\ ~jmp, 1, <<IfElse(1 - a.i, 0, f, 0, <<>>)>>)
     ?? Rule(else /\ Selectable(t, f), 1, <<Deeper(t[1], 1), Deeper(f[1], 2), G("CONDSEL")>>)
     ?? (IF "UnpackOpaque" \in flags
         THEN AlignRule(a, "ZEROROTR") ?? AlignRule(a, "ZEROSWAP") ?? AlignRule(a, "NULLROTR") ?? AlignRule(a, "NULLSWAP")
         ELSE NoRule)

optimizeAt1(a, flags) ==
    IF a.op = "IF" THEN IfRules(a, flags)
    ELSE Rule(a = GenArg("ADDCONST", 0) \/ a = GenArg("MULCONST", 1), 1, <<>>)
      ?? Rule(a = GenArg("ADDCONST", 1), 1, <<G("INC")>>)
      ?? Rule(a = GenArg("ADDCONST", -1), 1, <<G("DEC")>>)
      ?? Rule(a = GenArg("MULCONST", -1), 1, <<G("NEGATE")>>)
      ?? Rule(a.op = "SUB" /\ Single(a.t, Ret("RETALT")), 1, <<Ret("RETALT")>>)
      ?? Rule(a.op = "SUB" /\ a.j = 0 /\ noRetOrJmp(a.t), 1, a.t)

-----------------------------------------------------------------------------
(* Two instructions, by the first.                                          *)
AfterSWAP(b) ==
       Rule(Is(b, {"STU"}), 2, <<GenArg("STUR", b.i)>>)
    ?? Rule(Is(b, {"STSLICE"}), 2, <<G("STSLICER")>>)
    ?? Rule(Is(b, {"SUB"}), 2, <<G("SUBR")>>)
    ?? Rule(Is(b, {"SUBR"}), 2, <<G("SUB")>>)
    ?? Rule(isCommutative(b), 1, <<>>)
    ?? Rule(Is(b, Reversed), 2, <<GenArg(Unreversed[b.name], b.i)>>)

AfterPUSHINT(v, b) ==
       Rule(v = 1 /\ Is(b, {"ADD"}), 2, <<G("INC")>>)
    ?? Rule(v = 1 /\ Is(b, {"SUB"}), 2, <<G("DEC")>>)
    ?? Rule(Small(v) /\ Is(b, {"ADD"}), 2, <<GenArg("ADDCONST", v)>>)
    ?? Rule(Small(v) /\ Is(b, {"MUL"}), 2, <<GenArg("MULCONST", v)>>)
    ?? Rule(Small(-v) /\ Is(b, {"SUB"}), 2, <<GenArg("ADDCONST", -v)>>)
    ?? Rule(isConstAdd(b), 2, <<PushInt(v + getAddNum(b))>>)
    ?? Rule(Is(b, {"UFITS"}) /\ Unsigned(v, b.i), 2, <<PushInt(v)>>)
    ?? Rule(Is(b, {"FITS"}) /\ Signed(v, b.i), 2, <<PushInt(v)>>)
    ?? Rule(v \in 1 .. 256 /\ Is(b, Shift) /\ b.i = 0, 2, <<GenArg(b.name, v)>>)
    ?? Rule(v \in PowersOf2 /\ Is(b, {"DIV"}), 2, <<GenArg("RSHIFT", Log2(v))>>)
    ?? Rule(v \in PowersOf2 /\ Is(b, {"MUL"}), 2, <<GenArg("LSHIFT", Log2(v))>>)
    ?? Rule(v \in PowersOf2 /\ Is(b, {"MOD"}), 2, <<GenArg("MODPOW2", Log2(v))>>)
    ?? Rule(v + 1 \in PowersOf2 /\ Is(b, {"AND"}), 2, <<GenArg("MODPOW2", Log2(v + 1))>>)
    ?? Rule(Small(v) /\ Is(b, {"NEQ"}), 2, <<GenArg("NEQINT", v)>>)
    ?? Rule(Small(v) /\ Is(b, {"EQUAL"}), 2, <<GenArg("EQINT", v)>>)
    ?? Rule(Small(v) /\ Is(b, {"GREATER"}), 2, <<GenArg("GTINT", v)>>)
    ?? Rule(Small(v) /\ Is(b, {"LESS"}), 2, <<GenArg("LESSINT", v)>>)
    ?? Rule(Small(v - 1) /\ Is(b, {"GEQ"}), 2, <<GenArg("GTINT", v - 1)>>)
    ?? Rule(Small(v + 1) /\ Is(b, {"LEQ"}), 2, <<GenArg("LESSINT", v + 1)>>)
    ?? Rule(v = 0 /\ Is(b, {"STUR"}), 2, <<PushInt(b.i), G("STZEROES")>>)
    ?? Rule(v = 1 /\ Is(b, {"STZEROES"}), 2, <<StSliceConst(<<0>>)>>)
    ?? Rule(Is(b, {"ISNULL"}), 2, <<G("FALSE")>>)

(* A value that is pushed and then dropped, or kept while others are        *)
(* dropped below it.                                                        *)
PushAndDrop(a, b, flags) ==
    LET compound == "UseCompoundOpcodes" \in flags
        drop == The(isDrop(b))
        down == The(isBLKDROP2(b))[1]   up == The(isBLKDROP2(b))[2]
        n == The(isPUSH(a))
        qty == The(isBLKPUSH(a))[1]     index == The(isBLKPUSH(a))[2]
        onPUSH == isPUSH(a) # {}        onGen == isPureGen01(a)
        onDrop == isDrop(b) # {}        onDrop2 == isBLKDROP2(b) # {}
    IN  Rule((onPUSH \/ onGen) /\ onDrop, 2, IF drop = 1 THEN <<>> ELSE <<makeDROP(drop - 1)>>)
     ?? Rule(compound /\ isBLKPUSH(a) # {} /\ onDrop, 2,
             IF qty = drop THEN <<>> ELSE IF qty < drop THEN <<makeDROP(drop - qty)>> ELSE <<makeBLKPUSH(qty - drop, index)>>)
     ?? Rule(onPUSH /\ onDrop2 /\ down = n + 1 /\ up = 1, 2, IF down = 1 THEN <<>> ELSE <<makeDROP(down - 1)>>)
     ?? Rule(onGen /\ onDrop2, 2, <<makeBLKDROP2(down, up - 1), a>>)
     ?? Rule(compound /\ onPUSH /\ onDrop2 /\ n + 2 <= up, 2, <<makeBLKDROP2(down, up - 1), a>>)
     ?? Rule(compound /\ onPUSH /\ onDrop2 /\ n >= down + up - 1, 2, <<makeBLKDROP2(down, up - 1), PUSH(n - down)>>)
     ?? (IF isBLKPUSH(a) # {} /\ onDrop2
         THEN Rule(qty = index + 1 /\ up = qty /\ down >= qty, 2,
                   IF down = qty THEN <<>> ELSE <<makeBLKDROP2(down - qty, qty)>>)
           ?? Rule(qty = up /\ index - qty + 1 >= 0 /\ index + 1 = down, 2, <<makeDROP(index - qty + 1)>>)
         ELSE NoRule)
     ?? Rule(isDUP(a) /\ onDrop2 /\ up = 1, 2, IF down = 1 THEN <<>> ELSE <<makeBLKDROP2(down - 1, 1)>>)

(* Exchanges and drops.                                                     *)
SwapAndDrop(a, b) ==
    LET down == The(isBLKSWAP(a))[1]    up == The(isBLKSWAP(a))[2]
        drop1 == The(isBLKDROP2(a))[1]  rest1 == The(isBLKDROP2(a))[2]
        drop2 == The(isBLKDROP2(b))[1]  rest2 == The(isBLKDROP2(b))[2]
        swap2 == The(isBLKSWAP(b))      n == The(isDrop(b))
        rev == The(isREVERSE(a))
        onSwap == isBLKSWAP(a) # {}     onDrop == isDrop(b) # {}
        onDrop1 == isBLKDROP2(a) # {}   onDrop2 == isBLKDROP2(b) # {}
        swaps == onSwap /\ isBLKSWAP(b) # {} /\ down + up = swap2[1] + swap2[2]
    IN  Rule(isNIP(a) /\ onDrop, 2, <<makeDROP(n + 1)>>)
     ?? Rule(onSwap /\ onDrop2 /\ drop2 = up /\ rest2 = down, 2, <<makeDROP(up)>>)
     ?? Rule(onDrop1 /\ onDrop /\ n >= rest1, 2, <<makeDROP(drop1 + n)>>)
     ?? Rule(onSwap /\ onDrop /\ n = down, 2, <<makeBLKDROP2(down, up)>>)
     ?? Rule(swaps /\ swap2[1] = 1, 2, IF up = 1 THEN <<>> ELSE <<BLKSWAP(down + 1, up - 1)>>)
     ?? Rule(swaps /\ swap2[2] = 1, 2, IF down = 1 THEN <<>> ELSE <<BLKSWAP(down - 1, up + 1)>>)
     ?? Rule(onDrop1 /\ onDrop2 /\ rest1 = rest2 /\ drop1 + drop2 <= 15, 2, <<makeBLKDROP2(drop1 + drop2, rest1)>>)
     ?? Rule(onDrop1 /\ onDrop2 /\ rest1 = drop2 + rest2, 2, <<makeBLKDROP2(drop1 + drop2, rest2)>>)
     ?? Rule(/\ isREVERSE(a) # {} /\ isBLKSWAP(b) # {}
             /\ swap2[2] = 1 /\ rev[2] = 1 /\ rev[1] = swap2[1], 2, <<REVERSE(rev[1] + 1, 0)>>)
     ?? Rule(isREVERSE(a) # {} /\ onDrop /\ rev = <<n + 1, 0>>, 2, <<makeBLKDROP2(n, 1)>>)

(* Conditions.  Negated: what NOT makes of a comparison.                    *)
Negated ==
    [LESS |-> "GEQ", LEQ |-> "GREATER", GREATER |-> "LEQ", GEQ |-> "LESS", EQUAL |-> "NEQ", NEQ |-> "EQUAL",
     EQINT |-> "NEQINT", NEQINT |-> "EQINT", TRUE |-> "FALSE", FALSE |-> "TRUE"]
OtherThrow == [THROWIF |-> "THROWIFNOT", THROWIFNOT |-> "THROWIF"]
ThrowsIf == {"THROWIF", "THROWIFNOT"}
Flips(a) == Is(a, {"NOT"}) \/ a = GenArg("EQINT", 0)
Conditions(a, b) ==
       Rule(Flips(a) /\ isExc(b, ThrowsIf), 2, <<Throws(OtherThrow[b.name], b.i)>>)
    ?? Rule(Flips(a) /\ b.op = "IF", 2, <<flipIfElse(b)>>)
    ?? Rule(a = GenArg("NEQINT", 0) /\ (isExc(b, ThrowsIf) \/ b.op = "IF"), 2, <<b>>)
    ?? Rule(Is(a, {"TRUE"}) /\ b.op = "IF" /\ b.i = 0, 2, <<SubProgram(0, b.j, b.t)>>)
    ?? (IF Is(b, {"NOT"})
        THEN Rule(Is(a, DOMAIN Negated), 2, <<GenArg(Negated[a.name], a.i)>>)
          ?? Rule(Is(a, {"LESSINT"}) /\ Small(a.i - 1), 2, <<GenArg("GTINT", a.i - 1)>>)
          ?? Rule(Is(a, {"GTINT"}) /\ Small(a.i + 1), 2, <<GenArg("LESSINT", a.i + 1)>>)
          ?? Rule(Is(a, {"NOT"}), 2, <<>>)
        ELSE NoRule)
    ?? Rule(Is(a, {"TRUE"}) /\ Is(b, {"AND"}), 2, <<>>)
    ?? Rule(Is(a, {"NULL"}) /\ Is(b, {"ISNULL"}), 2, <<G("TRUE")>>)
    ?? (IF Is(a, {"TRUE", "FALSE"}) /\ isExc(b, ThrowsIf)
        THEN Rule(TRUE, 2, IF (a.name = "TRUE") = (b.name = "THROWIF") THEN <<Throws("THROW", b.i)>> ELSE <<>>)
        ELSE NoRule)
    ?? Rule(isPureGen11(a) /\ isDrop(b) # {}, 2, <<b>>)

Preload == [LDU |-> "PLDU", LDI |-> "PLDI", LDSLICE |-> "PLDSLICE"]

(* Tuples, globals, ranges, stores and loads.                               *)
Values(a, b, flags) ==
       Rule(Is(a, {"TUPLE"}) /\ Is(b, {"UNTUPLE"}) /\ a.i = b.i, 2, <<>>)
    ?? Rule(Is(a, {"UNTUPLE"}) /\ Is(b, {"TUPLE"}) /\ a.i = b.i, 2, <<>>)
    ?? Rule(a.op = "SETGLOB" /\ b.op = "GETGLOB" /\ a.i = b.i, 2, <<PUSH(0), a>>)
    ?? Rule(isConstAdd(a) /\ isConstAdd(b) /\ Small(getAddNum(a) + getAddNum(b)), 2,
            <<GenArg("ADDCONST", getAddNum(a) + getAddNum(b))>>)
    ?? Rule(Is(a, {"NEWC"}) /\ Is(b, {"ENDC"}), 2, <<PushRef(<<>>)>>)
    ?? Rule(Is(a, {"UFITS", "FITS"}) /\ Is(b, {a.name}), 2, <<GenArg(a.name, IF a.i < b.i THEN a.i ELSE b.i)>>)
    ?? Rule(Is(a, {"TRUE", "FALSE"}) /\ b = GenArg("STIR", 1), 2, <<StSliceConst(<<IF a.name = "TRUE" THEN 1 ELSE 0>>)>>)
    ?? Rule(Is(a, {"ENDC"}) /\ Is(b, {"STREFR"}), 2, <<G("STBREFR")>>)
    ?? Rule(isPureGen01(a) /\ b = XCHG(1, 2), 2, <<BLKSWAP(1, 1), a>>)
    ?? Rule(Is(a, {"MODPOW2"}) /\ Is(b, {"MODPOW2"}), 2, <<GenArg("MODPOW2", IF a.i < b.i THEN a.i ELSE b.i)>>)
    ?? Rule(/\ "UseCompoundOpcodes" \in flags /\ isBLKPUSH(a) # {} /\ isBLKPUSH(b) # {}
            /\ The(isBLKPUSH(a))[2] = 0 /\ The(isBLKPUSH(b))[2] = 0
            /\ The(isBLKPUSH(a))[1] + The(isBLKPUSH(b))[1] <= 15, 2,
            <<makeBLKPUSH(The(isBLKPUSH(a))[1] + The(isBLKPUSH(b))[1], 0)>>)
    ?? Rule(Is(a, DOMAIN Preload) /\ isDrop(b) # {}, 2,
            <<GenArg(Preload[a.name], a.i)>> \o (IF b.i = 1 THEN <<>> ELSE <<makeDROP(b.i - 1)>>))
    ?? Rule(isPureGen01(a) /\ b.op = "SUB" /\ b.j = 0 /\ b.i >= 1, 2, <<SubProgram(b.i - 1, 0, <<a>> \o b.t)>>)
    ?? Rule(Is(a, {"TUPLE"}) /\ isDrop(b) # {}, 2, <<makeDROP(b.i - 1 + a.i)>>)

optimizeAt2(a, b, flags) ==
       (IF isSWAP(a) THEN AfterSWAP(b) ELSE NoRule)
    ?? (IF Is(a, {"PUSHINT"}) THEN AfterPUSHINT(a.i, b) ELSE NoRule)
    ?? Rule(a \in {Ret("RET"), Ret("RETALT")} \/ isExc(a, {"THROW"}), 2, <<a>>)
    ?? Rule(isDUP(a) /\ isSWAP(b), 2, <<a>>)
    ?? Rule(isPOP(a) # {} /\ isDrop(b) = {The(isPOP(a)) - 1} /\ The(isPOP(a)) <= 15, 2, <<makeBLKDROP2(The(isPOP(a)), 1)>>)
    ?? Rule(isSWAP(a) /\ isPOP(b) = {2}, 2, <<makeBLKDROP2(1, 2)>>)
    ?? PushAndDrop(a, b, flags)
    ?? SwapAndDrop(a, b)
    ?? Conditions(a, b)
    ?? Values(a, b, flags)

-----------------------------------------------------------------------------
(* Three to six instructions.                                               *)
optimizeAt3(a, b, c, flags) ==
    LET v == a.i
        push == isPUSH(b)
        Shallower == IF push # {} THEN PUSH(The(push) - 1) ELSE b
        Compare(name, w) == Rule(Small(w), 3, <<Shallower, GenArg(name, w)>>)
    IN  Rule(Is(a, {"NEWC"}) /\ isSimpleCommand(b) /\ Is(c, Reversed), 3, <<b, a, GenArg(Unreversed[c.name], c.i)>>)
     ?? Rule(isDUP(a) /\ isExc(b, ThrowsIf) /\ isDrop(c) # {}, 3, <<b>> \o (IF c.i = 1 THEN <<>> ELSE <<makeDROP(c.i - 1)>>))
     ?? Rule(Is(a, {"NEWC"}) /\ Is(b, {"STSLICECONST"}) /\ Len(b.t) > 1 /\ Is(c, {"ENDC"}), 3, <<PushRef(b.t)>>)
     ?? (IF Is(a, {"PUSHINT"}) /\ ((push # {} /\ push # {0}) \/ isPureGen01(b)) /\ c.op = "GEN"
         THEN CASE c.name = "NEQ"     -> Compare("NEQINT", v)
                [] c.name = "EQUAL"   -> Compare("EQINT", v)
                [] c.name = "GREATER" -> Compare("LESSINT", v)
                [] c.name = "LESS"    -> Compare("GTINT", v)
                [] c.name = "GEQ"     -> Compare("LESSINT", v + 1)
                [] c.name = "LEQ"     -> Compare("GTINT", v - 1)
                [] OTHER -> NoRule
         ELSE NoRule)
     ?? Rule(Is(a, {"PUSHINT"}) /\ Is(b, {"PUSHINT"}) /\ Is(c, {"ADD", "MUL", "MAX"}), 3,
             <<PushInt(DoBinary(c.name, v, b.i).int)>>)
     ?? Rule(Is(a, {"PUSHINT"}) /\ Is(b, {"PUSHINT"}) /\ Is(c, {"DIV"}) /\ v >= 0 /\ b.i > 0, 3, <<PushInt(v \div b.i)>>)
     ?? Rule(/\ Is(a, {"PUSHINT"}) /\ Small(v) /\ Is(c, {"ADD", "MUL"})
             /\ (isPureGen01(b) /\ isStackOpcode(b)) \/ isGlob(b) \/ (push # {} /\ push # {0}), 3,
             <<Shallower, GenArg(IF c.name = "ADD" THEN "ADDCONST" ELSE "MULCONST", v)>>)
     ?? Rule(Is(a, {"TRUE", "FALSE"}) /\ Is(b, {"NEWC"}) /\ c = GenArg("STI", 1), 3,
             <<b, StSliceConst(<<IF a.name = "TRUE" THEN 1 ELSE 0>>)>>)
     ?? Rule(isBLKSWAP(a) # {} /\ The(isBLKSWAP(a))[1] = 1 /\ isPureGen01(b) /\ isSWAP(c), 3,
             <<b, BLKSWAP(1, The(isBLKSWAP(a))[2] + 1)>>)
     ?? Rule(Is(a, {"NULL"}) /\ isDUP(b) /\ Is(c, {"ISNULL"}), 3, <<a, G("TRUE")>>)
     ?? Rule(/\ "UseCompoundOpcodes" \in flags /\ isPureGen01(a) /\ a = c /\ isBLKPUSH(b) # {}
             /\ The(isBLKPUSH(b))[2] = 0 /\ The(isBLKPUSH(b))[1] + 1 <= 15, 3,
             <<a, makeBLKPUSH(The(isBLKPUSH(b))[1] + 1, 0)>>)
     ?? Rule(isSWAP(a) /\ isBLKSWAP(c) = {<<1, 2>>} /\ isPureGen01(b), 3, <<b, XCHG(0, 1)>>)
     ?? Rule(Is(a, {"PUSHINT"}) /\ b = PushInt(0) /\ Is(c, {"SPLIT"}), 3,
             IF v <= 256 THEN <<GenArg("LDSLICE", v)>> ELSE <<a, G("LDSLICEX")>>)
     ?? Rule(Is(a, {"PUSHINT"}) /\ b = PushInt(0) /\ Is(c, {"SSKIPFIRST"}), 3, <<a, G("SDSKIPFIRST")>>)

(* A builder with these bits only.                                          *)
Filled(bits) == <<PushSlice(bits), G("NEWC"), G("STSLICE")>>
FillRule(applies, n, bits) == Rule(applies /\ unitBitString(bits), n, Filled(bits))
isStoreInt(n, v) == Is(n, {"STU", "STI"}) /\ Fits(v, n.i, n.name = "STI")

optimizeAt4(a, b, c, d) ==
    LET sum == (IF b.name = "ADD" THEN a.i ELSE -a.i) + (IF d.name = "ADD" THEN c.i ELSE -c.i)
    IN  Rule(Is(a, {"PUSHINT"}) /\ Is(c, {"PUSHINT"}) /\ Is(b, {"ADD", "SUB"}) /\ Is(d, {"ADD", "SUB"}), 4,
             <<PushInt(sum), G("ADD")>>)
     ?? FillRule(isPushCellOrSlice(a) /\ Is(b, {"NEWC"}) /\ Is(c, {"STSLICECONST"}) /\ Is(d, {"STSLICE"}), 4, c.t \o a.t)
     ?? Rule(/\ isConstAdd(a) /\ isConstAdd(c) /\ Is(b, {"UFITS", "FITS"}) /\ b = d
             /\ Small(getAddNum(a) + getAddNum(c)), 4, <<GenArg("ADDCONST", getAddNum(a) + getAddNum(c)), b>>)
     ?? FillRule(Is(a, {"PUSHINT"}) /\ Is(b, {"NEWC"}) /\ Is(c, {"STSLICECONST"}) /\ isStoreInt(d, a.i), 4, c.t \o BitsOf(a.i, d.i))
     ?? (IF isPushCellOrSlice(a) /\ Is(b, {"NEWC"}) /\ Is(c, {"STSLICE"})
         THEN Rule(Is(d, {"ENDC"}), 4, <<PushRef(a.t)>>)
           ?? Rule(Is(d, {"STBREFR"}), 4, <<PushRef(a.t), G("STREFR")>>)
         ELSE NoRule)
     ?? Rule(a = PushInt(0) /\ Is(b, {"STUR"}) /\ c = a /\ Is(d, {"STUR"}) /\ b.i + d.i <= 256, 4,
             <<a, GenArg("STUR", b.i + d.i)>>)
     ?? Rule(isDUP(a) /\ Is(b, {"ISNULL"}) /\ c = Throws("THROWIF", GetOptionalException) /\ d = GenArg("UNTUPLE", 1), 4, <<d>>)

optimizeAt5(a, b, c, d, e) ==
    IF isPushCellOrSlice(b) /\ Is(c, {"NEWC"}) /\ Is(d, {"STSLICE"})
    THEN FillRule(isPushCellOrSlice(a) /\ Is(e, {"STSLICE"}), 5, b.t \o a.t)
      ?? FillRule(Is(a, {"PUSHINT"}) /\ isStoreInt(e, a.i), 5, b.t \o BitsOf(a.i, e.i))
      ?? FillRule(Is(a, {"NULL"}) /\ Is(e, {"STDICT"}), 5, Append(b.t, 0))
    ELSE NoRule

optimizeAt6(a, b, c, d, e, f) ==
    FillRule(/\ isPushCellOrSlice(a) /\ Is(b, {"NEWC"}) /\ Is(c, {"STSLICE"})
             /\ Is(d, {"NEWC"}) /\ Is(e, {"STSLICECONST"}) /\ Is(f, {"STB"}), 6, e.t \o a.t)

-----------------------------------------------------------------------------
(* Runs of any length that start at i.                                      *)

(* Bits that constant stores put into a builder, as far as they go.         *)
RECURSIVE StoredBits(_, _)
StoredBits(code, i) ==
    LET a == At(code, i)
        b == At(code, i + 1)
        bits == CASE Is(a, {"STSLICECONST"}) -> {<<1, a.t>>}
                  [] Is(a, {"PUSHINT"}) /\ Is(b, {"STUR", "STIR"}) /\ Fits(a.i, b.i, b.name = "STIR") -> {<<2, BitsOf(a.i, b.i)>>}
                  [] Is(a, {"PUSHINT"}) /\ Is(b, {"STGRAMS"}) -> {<<2, GramBits(a.i)>>}
                  [] Is(a, {"PUSHINT"}) /\ Is(b, {"STZEROES"}) -> {<<2, Zeroes(a.i)>>}
                  [] isPushCellOrSlice(a) /\ Is(b, {"STSLICER"}) -> {<<2, a.t>>}
                  [] OTHER -> {}
    IN  IF bits = {} THEN <<0, <<>>>>
        ELSE LET rest == StoredBits(code, i + The(bits)[1])
             IN  <<The(bits)[1] + rest[1], The(bits)[2] \o rest[2]>>

(* mutant: stores are replaced although nothing gets better *)
SquashStores_Same(code, i) ==
    LET a == At(code, i)  b == At(code, i + 1)  c == At(code, i + 2)
        first == CASE isPushCellOrSlice(a) /\ Is(b, {"NEWC"}) /\ Is(c, {"STSLICE"}) -> {a.t}
                   [] Is(a, {"PUSHINT"}) /\ Is(b, {"NEWC"}) /\ isStoreInt(c, a.i) -> {BitsOf(a.i, c.i)}
                   [] OTHER -> {}
        rest == StoredBits(code, IF first = {} THEN i ELSE i + 3)
        n == IF first = {} THEN rest[1] ELSE rest[1] + 3
        bits == IF first = {} THEN rest[2] ELSE The(first) \o rest[2]
        new == IF Len(bits) <= MaxSTSLICECONST
               THEN (IF first = {} THEN <<>> ELSE <<G("NEWC")>>) \o <<StSliceConst(bits)>>
               ELSE IF first = {} THEN <<PushSlice(bits), G("STSLICER")>> ELSE Filled(bits)
    IN  Rule(unitBitString(bits) /\ n > 0 /\ n >= Len(new), n, new)

SquashStores(code, i) ==
    LET a == At(code, i)  b == At(code, i + 1)  c == At(code, i + 2)
        first == CASE isPushCellOrSlice(a) /\ Is(b, {"NEWC"}) /\ Is(c, {"STSLICE"}) -> {a.t}
                   [] Is(a, {"PUSHINT"}) /\ Is(b, {"NEWC"}) /\ isStoreInt(c, a.i) -> {BitsOf(a.i, c.i)}
                   [] OTHER -> {}
        rest == StoredBits(code, IF first = {} THEN i ELSE i + 3)
        n == IF first = {} THEN rest[1] ELSE rest[1] + 3
        bits == IF first = {} THEN rest[2] ELSE The(first) \o rest[2]
        new == IF Len(bits) <= MaxSTSLICECONST
               THEN (IF first = {} THEN <<>> ELSE <<G("NEWC")>>) \o <<StSliceConst(bits)>>
               ELSE IF first = {} THEN <<PushSlice(bits), G("STSLICER")>> ELSE Filled(bits)
    IN  Rule(unitBitString(bits) /\ (n > Len(new) \/ (n = Len(new) /\ SubSeq(code, i, i + n - 1) # new)), n, new)

(* The last place of the longest run from i on whose instructions are P.    *)
RunFrom(code, i, P(_, _)) ==
    LET ends == {j \in i .. Len(code) : \A p \in i .. j : P(code[p], p - i)}
    IN  IF ends = {} THEN i - 1 ELSE CHOOSE j \in ends : \A p \in ends : p <= j

(* REVERSE of n values that are then popped: popped in the opposite order.  *)
ReversedPops(code, i) ==
    LET n == The(isREVERSE(code[i]))[1]
        si(p) == The(isPOP(code[i + n - p])) + n - 1 - 2 * p        \* of the p-th new POP, from 0
    IN  Rule(/\ isREVERSE(code[i]) # {} /\ The(isREVERSE(code[i]))[2] = 0 /\ i + n <= Len(code)
             /\ \A p \in 1 .. n : isPOP(code[i + p]) # {}
             /\ \A p \in 0 .. n - 1 : si(p) >= n - p
             /\ \A p, q \in 0 .. n - 1 : p # q => si(p) + p # si(q) + q,
             n + 1, StackOf(n, LAMBDA p : POP(si(p - 1))))

DropsAndRolls(code, i) ==
    LET a == code[i]
        swap == The(isBLKSWAP(a))  onSwap == isBLKSWAP(a) # {}
        pop == The(isPOP(a))
        drops == RunFrom(code, i, LAMBDA n, p : isDrop(n) # {})
        same == RunFrom(code, i, LAMBDA n, p : isBLKSWAP(n) = isBLKSWAP(a)) - i + 1
        pops == RunFrom(code, i, LAMBDA n, p : isPOP(n) = isPOP(a)) - i + 1
        deep == RunFrom(code, i + 1, LAMBDA n, p : isPOP(n) = {swap[1] + 1}) - i
        rolls == RunFrom(code, i, LAMBDA n, p : isBLKSWAP(n) = {<<1, swap[2] + p>>}) - i + 1
    IN  Rule(drops > i, drops - i + 1, <<makeDROP(FoldLeft(LAMBDA t, n : t + n.i, 0, SubSeq(code, i, drops)))>>)
     ?? Rule(onSwap /\ swap[2] = 1 /\ same >= swap[1] + 1, swap[1] + 1, <<>>)
     ?? Rule(isPOP(a) # {} /\ pop >= 2 /\ pops >= pop, pop, <<makeBLKDROP2(pop, pop)>>)
     ?? ReversedPops(code, i)
     ?? Rule(onSwap /\ swap[2] = 1 /\ deep >= swap[1], swap[1] + 1, <<makeBLKDROP2(swap[1], swap[1] + 1)>>)
     ?? Rule(onSwap /\ swap[1] = 1 /\ rolls >= 2, rolls, <<BLKSWAP(rolls, swap[2]), REVERSE(rolls, 0)>>)

(* Pushes without effect, permuted: pushed in the final order instead.      *)
(* stack: <<instruction, how many were pushed before it>>, from the top.    *)
RECURSIVE Permuted(_, _, _)
Permuted(code, i, s) ==
    LET a == At(code, i)
        n == Len(s.stack)
        Pushed == [s EXCEPT !.stack = <<<<a, n>>>> \o @, !.cnt = @ + 1]
        Moved == [s EXCEPT !.stack = ExecStack(a, @), !.cnt = @ + 1, !.removed = TRUE]
    IN  CASE isPureGen01(a) \/ (a.op = "PUSH_S" /\ a.i >= n) -> Permuted(code, i + 1, Pushed)
          [] a.op \in {"BLKSWAP", "REVERSE", "XCHG"} /\ Reach(a) <= n -> Permuted(code, i + 1, Moved)
          [] OTHER -> s

SquashPermutation(code, i) ==
    LET s == Permuted(code, i, [stack |-> <<>>, cnt |-> 0, removed |-> FALSE])
        n == Len(s.stack)
        Node(p) == LET x == s.stack[n + 1 - p]      \* the p-th to be pushed
                   IN  IF isPUSH(x[1]) = {} THEN x[1] ELSE PUSH(The(isPUSH(x[1])) - x[2] + p - 1)
    IN  Rule(s.removed, s.cnt, StackOf(n, Node))

optimizeAtInf(code, i) ==
    LET a == code[i]
        last == i = Len(code)
    IN  Rule(a = Ret("RET") /\ last, 1, <<>>)
     ?? Rule(a.op = "IF" /\ a.k = 0 /\ a.j = 1 /\ a.i = 1 /\ last /\ Len(a.t) = 2 /\ a.t[1] = G("NULL") /\ isSWAP(a.t[2]), 1,
             <<Asym("NULLROTRIFNOT"), makeDROP(1)>>)
     ?? SquashStores(code, i)
     ?? DropsAndRolls(code, i)
     ?? SquashPermutation(code, i)
     ?? Rule(a.op = "SUB" /\ a.j = 0 /\ last, 1, a.t)

optimizeAt(code, i, flags) ==
    LET c(d) == At(code, i + d)
        has(d) == i + d <= Len(code)
    IN  optimizeAt1(code[i], flags)
     ?? optimizeAtInf(code, i)
     ?? (IF has(1) THEN optimizeAt2(c(0), c(1), flags) ELSE NoRule)
     ?? (IF has(2) THEN optimizeAt3(c(0), c(1), c(2), flags) ELSE NoRule)
     ?? (IF has(3) THEN optimizeAt4(c(0), c(1), c(2), c(3)) ELSE NoRule)
     ?? (IF has(4) THEN optimizeAt5(c(0), c(1), c(2), c(3), c(4)) ELSE NoRule)
     ?? (IF has(5) THEN optimizeAt6(c(0), c(1), c(2), c(3), c(4), c(5)) ELSE NoRule)

-----------------------------------------------------------------------------
(* The other three kinds of rules.                                          *)
unsquash(a, flags) ==
       Rule(a.op = "PUSH2_S", 1, <<PUSH(a.i), PUSH(a.j + 1)>>)
    ?? Rule("UnpackOpaque" \in flags /\ a.op \in {"LEAVE", "OPAQUE"}, 1, a.t)

squash(code, i, flags) ==
    LET a == code[i]  b == At(code, i + 1)  c == At(code, i + 2)
        x == The(isPUSH(a))
        y == IF isPUSH(b) = {0} THEN x ELSE The(isPUSH(b)) - 1
        z == IF isPUSH(c) = {1} THEN x ELSE IF isPUSH(c) = {0} THEN y ELSE The(isPUSH(c)) - 2
        two == isPUSH(a) # {} /\ isPUSH(b) # {} /\ x <= 15
        pushes == RunFrom(code, i, LAMBDA n, p : isPUSH(n) = isPUSH(a)) - i + 1
        same == RunFrom(code, i, LAMBDA n, p : n = a) - i + 1
    IN  Rule(two /\ pushes >= 2, pushes, <<makeBLKPUSH(pushes, x)>>)
     ?? Rule(two /\ isPUSH(c) # {} /\ y <= 15 /\ z <= 15, 3, <<Instr("PUSH3_S", x, y, z)>>)
     ?? Rule(two /\ y <= 15, 2, <<PUSH2(x, y)>>)
     ?? Rule((isPureGen01(a) \/ isPushCellOrSlice(a)) /\ same >= 2, same, <<a, makeBLKPUSH(same - 1, 0)>>)
     ?? Rule(isPUSH(a) # {} /\ isXCHG_S0(b) = {1} /\ x <= 15, 2, <<Instr("PUXC", x, -1, -1)>>)
     ?? Rule(/\ "UseCompoundOpcodes" \in flags /\ isXCHG_S0(a) # {} /\ isPUSH(b) # {}
             /\ The(isXCHG_S0(a)) <= 15 /\ The(isPUSH(b)) <= 15, 2, <<Instr("XCPU", The(isXCHG_S0(a)), The(isPUSH(b)), -1)>>)

HasBlocks(n) == n.op \in {"IF", "SUB", "OPAQUE", "LEAVE"}

(* Constant bits as an integer, when that is shorter.                       *)
StoreR == [STU |-> "STUR", STI |-> "STIR"]
BitLength(v) == IF v = 0 THEN 0 ELSE CHOOSE n \in 1 .. 30 : Exp2(n - 1) <= v /\ v < Exp2(n)
optimizeSlice(a, b, c) ==
    LET newc == Is(b, {"NEWC"}) /\ Is(c, {"STSLICE"})
        n == Len(a.t)
        num == ValueOf(a.t)
        neg == num - Exp2(n)
        numLength == BitLength(num) + 5
        negLength == IF a.t[1] = 1 THEN BitLength(-neg) + 5 ELSE 10000
        Store(v, name) ==
            IF newc THEN <<PushInt(v), b, GenArg(name, n)>> ELSE <<PushInt(v), GenArg(StoreR[name], n)>>
    IN  IF isPushCellOrSlice(a) /\ (newc \/ Is(b, {"STSLICER"}))
        THEN Rule(a.t = Zeroes(n), IF newc THEN 3 ELSE 2, (IF newc THEN <<b>> ELSE <<>>) \o <<PushInt(n), G("STZEROES")>>)
          ?? Rule(n <= 256 /\ (n > numLength \/ n > negLength), IF newc THEN 3 ELSE 2,
                  IF numLength < negLength THEN Store(num, "STU") ELSE Store(neg, "STI"))
        ELSE NoRule
=============================================================================
