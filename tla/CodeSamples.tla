------------------------------ MODULE CodeSamples ------------------------------
(* Blocks of instructions for the peephole optimizer, and stacks to execute *)
(* them on.                                                                 *)
EXTENDS PeepholeRules

Seqs2(A, B) == {a \o b : a \in A, b \in B}
Seqs3(A, B, C) == Seqs2(Seqs2(A, B), C)
One(A) == {<<a>> : a \in A}
Maybe(A) == A \cup {<<>>}

(* Stack instructions and pushes.                                           *)
FewStack == {PUSH(0), PUSH(1), POP(1), POP(2), DROP(1), BLKDROP2(1, 2), BLKSWAP(1, 1), BLKSWAP(1, 2), XCHG(0, 2),
             BLKPUSH(2, 1), PushInt(1), GetGlob(1)}
ManyStack == FewStack \cup
    {PUSH(2), POP(3), DROP(2), DROP(3), BLKDROP2(2, 1), BLKDROP2(2, 2), BLKDROP2(3, 1), BLKSWAP(2, 1), BLKSWAP(2, 2),
     BLKSWAP(1, 3), XCHG(1, 2), REVERSE(3, 0), REVERSE(2, 1), PUSH2(1, 0), BLKPUSH(2, 0), BLKPUSH(3, 2), G("NULL"),
     GenArg("TUPLE", 2), SetGlob(1)}
StackRuns ==
    Seqs2({<<REVERSE(3, 0)>>}, {<<POP(a), POP(b), POP(c)>> : a, b, c \in 1 .. 4})
    \cup Seqs2({<<REVERSE(2, 0)>>}, {<<POP(a), POP(b)>> : a, b \in 1 .. 4})
    \cup {<<POP(3), POP(3), POP(3)>>, <<BLKSWAP(2, 1), BLKSWAP(2, 1), BLKSWAP(2, 1)>>,
          <<BLKSWAP(2, 1), POP(3), POP(3)>>, <<BLKSWAP(1, 2), BLKSWAP(1, 3), BLKSWAP(1, 4)>>,
          <<PushInt(1), PUSH(3), GetGlob(1), BLKSWAP(2, 1), REVERSE(3, 0), PUSH(4)>>}
    \cup {<<BLKPUSH(2, i), BLKDROP2(i + 1, 2)>> : i \in {2, 3}}
    \cup {[p \in 1 .. n |-> PUSH(i)] : n \in {15, 16}, i \in {0, 1, 3}}
    \cup {[p \in 1 .. n |-> PushInt(3)] : n \in {15, 16, 17}}
StackCodes == Seqs2(One(ManyStack), One(ManyStack)) \cup Seqs3(One(FewStack), One(FewStack), One(FewStack)) \cup StackRuns

(* Arithmetic and comparisons.                                              *)
Edges == {-129, -128, -127, -1, 0, 1, 2, 3, 4, 126, 127, 128, 129}
Few == {-2, 0, 1, 4, 127, 200}
UnaryOps == {G("INC"), G("DEC"), GenArg("ADDCONST", 127), GenArg("ADDCONST", -1), GenArg("MULCONST", 1), G("NEGATE"),
             GenArg("UFITS", 2), GenArg("UFITS", 8), GenArg("FITS", 3), GenArg("FITS", 8), GenArg("MODPOW2", 1),
             GenArg("MODPOW2", 3), GenArg("EQINT", 0), GenArg("NEQINT", 0), GenArg("GTINT", 127), GenArg("GTINT", 0),
             GenArg("LESSINT", -128), GenArg("LESSINT", 1), G("ISNULL")}
BinaryOps == {G(name) : name \in Binary \cup Shift}
Arithmetic ==
    Seqs2(One({PushInt(v) : v \in Edges}), One(BinaryOps \cup UnaryOps))
    \cup Seqs3(One({PushInt(v) : v \in Edges}), One({PUSH(0), PUSH(1), GetGlob(1), PushInt(-2), PushInt(3)}), One(BinaryOps))
    \cup Seqs2(One(UnaryOps \cup BinaryOps \cup {BLKSWAP(1, 1)}), One(UnaryOps \cup BinaryOps \cup {DROP(1)}))
    \cup {<<PushInt(v), G(o), PushInt(w), G(p)>> : v, w \in Few, o, p \in {"ADD", "SUB"}}
    \cup {<<a, f, b, f>> : a, b \in {GenArg("ADDCONST", 2), GenArg("ADDCONST", 126), GenArg("ADDCONST", -100), G("INC"), G("DEC")},
                           f \in {GenArg("UFITS", 8), GenArg("FITS", 8)}}
Comparisons == {GenArg("EQINT", 0), GenArg("NEQINT", 0), GenArg("GTINT", 127), GenArg("GTINT", 0),
                GenArg("LESSINT", -128), GenArg("LESSINT", 1), G("EQUAL"),
                G("NEQ"), G("LESS"), G("LEQ"), G("GREATER"), G("GEQ"), G("TRUE"), G("FALSE"), G("ISNULL")}
Logic == Seqs3(One(Comparisons), Maybe(One({G("NOT")})),
               One({G("NOT"), Throws("THROWIF", 60), Throws("THROWIFNOT", 60), DROP(1), DROP(2)}))
         \cup {<<a, G("TRUE"), G("AND")>> : a \in Comparisons}

(* Branches: both leave the stack with as many values, or leave the block.  *)
Leaving == {<<Throws("THROW", 60)>>, <<Ret("RETALT")>>, <<Ret("RET")>>}
Branches0 == {<<>>, <<G("INC")>>, <<PushInt(1), G("ADD")>>, <<GetGlob(1), DROP(1), G("INC")>>,
              <<PUSH(1), PUSH(1), Ret("IFRETALT"), DROP(1)>>}
Branches1 == {<<G("NULL")>>, <<PushInt(0)>>, <<GetGlob(2)>>, <<PUSH(1)>>, <<G("NULL"), XCHG(0, 1)>>,
              <<PushInt(0), XCHG(0, 1)>>, <<PUSH(0), G("INC")>>}
Pairs == {<<t, f>> : t, f \in Branches0 \cup Leaving} \cup {<<t, f>> : t, f \in Branches1 \cup Leaving}
Ifs == {IfElse(not, jmp, t, 0, <<>>) : not, jmp \in {0, 1}, t \in Branches0 \cup Leaving}
       \cup {IfElse(not, 1, t, 0, <<>>) : not \in {0, 1}, t \in Branches1}
IfElses == {IfElse(0, jmp, p[1], 1, p[2]) : jmp \in {0, 1}, p \in Pairs}
Nested == {IfElse(not, 0, <<PUSH(1), i>>, 0, <<>>) : not \in {0, 1}, i \in {j \in Ifs : j.j = 0}}
Subs == {SubProgram(take, jmp, t) : take, jmp \in {0, 1}, t \in Branches0 \cup Leaving \cup {<<Ret("IFRET"), G("INC")>>}}
        \cup {SubProgram(0, 0, <<s>>) : s \in {SubProgram(0, 0, <<Ret("IFRET"), G("INC")>>)}}
(* DeleterAfterRet has removed what follows an if-else that never returns.  *)
Conds == Maybe(One({G("NOT"), GenArg("EQINT", 0), GenArg("NEQINT", 0), G("TRUE")}))
Control ==
    Seqs3(Conds, One(Ifs \cup {i \in IfElses : i.j = 0}), Maybe(One({G("INC")})))
    \cup Seqs2(Conds, One({i \in IfElses : i.j = 1}))
    \cup Seqs2(One(Nested), Maybe(One({G("INC")})))
    \cup Seqs3(Maybe(One({PushInt(1), G("TRUE")})), One(Subs), Maybe(One({G("INC")})))
    \cup Seqs2(Leaving, One({G("INC")}))
    \cup {<<PUSH(0), Throws(name, 60), DROP(n)>> : name \in ThrowsIf, n \in {1, 2}}
Wrapped ==
    LET Boxes == {Opaque(0, 1, pure, <<PushInt(1)>>) : pure \in BOOLEAN} \cup {ReturnOrBreakOrCont(<<DROP(1), Ret("RETALT")>>)}
    IN  Seqs3(Maybe(One({G("NEWC"), BLKSWAP(1, 1)})), One(Boxes),
              Maybe(One({DROP(1), POP(1), GenArg("STUR", 2), BLKSWAP(1, 1), BLKSWAP(1, 2), G("INC")})))

(* Builders, cells and slices of a few bits.                                *)
Bits == {<<1>>, <<0, 0, 1>>, <<1, 1, 1, 1, 1, 1, 1>>}
Heads == {<<>>, <<G("NEWC")>>, <<PushInt(1), G("NEWC"), GenArg("STU", 2)>>, <<PushInt(-1), G("NEWC"), GenArg("STI", 8)>>,
          <<PushInt(9), G("NEWC"), GenArg("STU", 2)>>, <<G("TRUE"), G("NEWC"), GenArg("STI", 1)>>}
         \cup {<<PushSlice(b), G("NEWC"), G("STSLICE")>> : b \in Bits}
Stores == {<<PushInt(v), GenArg("STUR", 3)>> : v \in {0, 5, 8}} \cup {<<PushInt(v), GenArg("STIR", 3)>> : v \in {-1, 4}}
          \cup {<<StSliceConst(b)>> : b \in {<<0>>, <<1, 0>>}} \cup {<<PushSlice(b), G("STSLICER")>> : b \in Bits}
          \cup {<<PushInt(v), G("STGRAMS")>> : v \in {0, 3}} \cup {<<PushInt(v), G("STZEROES")>> : v \in {0, 1, 7}}
          \cup {<<G("TRUE"), GenArg("STIR", 1)>>, <<PushRef(<<1>>), G("STREFR")>>, <<G("NEWC"), G("ENDC"), G("STREFR")>>,
                <<PushInt(1), BLKSWAP(1, 1), GenArg("STU", 2)>>, <<PushSlice(<<1>>), BLKSWAP(1, 1), G("STSLICE")>>,
                <<PushRef(<<1>>), BLKSWAP(1, 1), G("STREF")>>}
Under == {<<PushSlice(<<0, 1>>)>>, <<PushInt(2)>>, <<G("NULL")>>}
Over == {<<G("STSLICE")>>, <<GenArg("STU", 2)>>, <<GenArg("STI", 2)>>, <<G("STDICT")>>}
FewStores == {<<PushInt(5), GenArg("STUR", 3)>>, <<PushInt(0), GenArg("STUR", 3)>>, <<StSliceConst(<<1, 0>>)>>,
              <<PushSlice(<<0, 0, 1>>), G("STSLICER")>>, <<PushInt(7), G("STZEROES")>>}
Building ==
    Seqs3(Heads, Stores, Maybe(FewStores) \cup {<<G("ENDC")>>, <<G("STBREFR")>>})
    \cup Seqs3(Under, Seqs2(Heads \ {<<>>}, {<<>>, <<StSliceConst(<<1, 0>>)>>}), Over)
    \cup Seqs3(Heads, {<<G("NEWC"), StSliceConst(<<1, 0>>)>>}, {<<G("STB")>>})
    \cup Seqs2(Heads, {<<G("ENDC")>>, <<G("STBREFR")>>})
    \cup {<<PushSlice(Append(Zeroes(n), 1)), G("STSLICER")>> : n \in {6, 7}}
    \cup {<<BLKSWAP(1, 1), op>> : op \in {GenArg("STUR", 3), GenArg("STIR", 3), GenArg("STU", 3), G("STSLICER"), G("STSLICE")}}
    \cup Seqs2(Maybe({<<PushInt(1), G("STZEROES")>>}), {[p \in 1 .. 10 |-> IF p % 2 = 1 THEN PushInt(0) ELSE GenArg("STUR", 3)]})
    \cup {<<G("NEWC"), G("NEWC"), PUSH(2), GenArg("STUR", 3), G("ENDC"), G("STREFR")>>}
Loading ==
    {<<GenArg(name, 2), DROP(n)>> : name \in {"LDU", "LDI", "LDSLICE"}, n \in {1, 2}}
    \cup {<<PushInt(v), PushInt(0), G(name)>> : v \in {-1, 0, 1, 2, 9, 257}, name \in {"SPLIT", "SSKIPFIRST"}}

(* Tuples and global variables.                                             *)
Tuples ==
    Seqs2(One({GenArg("TUPLE", 1), GenArg("TUPLE", 2), GenArg("UNTUPLE", 1), GenArg("UNTUPLE", 2), SetGlob(1)}),
          One({GenArg("TUPLE", 1), GenArg("TUPLE", 2), GenArg("UNTUPLE", 1), GenArg("UNTUPLE", 2), GetGlob(1), GetGlob(2), DROP(2)}))
    \cup {<<G("NULL"), PUSH(0), G("ISNULL")>>, <<G("NULL"), G("ISNULL")>>}
    \cup {<<PUSH(0), G("ISNULL"), Throws("THROWIF", c), GenArg("UNTUPLE", n)>> : c \in {60, GetOptionalException}, n \in {1, 2}}

-----------------------------------------------------------------------------
Numbers(s) == [p \in DOMAIN s |-> Num(s[p])]
SampleStacks ==
    {Numbers(<<0, 5, -3, 7, 11, 13, 17, 19>>), Numbers(<<-1, 0, 2, 7, 11, 13, 17, 19>>), Numbers(<<4, 4, 1, 128, 0, 2, 9, 5>>),
     <<Builder(<<1>>, <<>>), Num(3), Num(4)>>, <<Num(1), Builder(<<1>>, <<>>), Num(3)>>,
     <<Slice(<<1, 0, 1>>), Num(2), Num(5)>>, <<Tuple(<<Num(4)>>), Num(1)>>, <<Tuple(<<Num(4), Num(6)>>), Num(1), Num(7)>>,
     <<Null, Num(1), Num(2)>>}
=============================================================================
