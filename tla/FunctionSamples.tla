---------------------------- MODULE FunctionSamples ----------------------------
(***************************************************************************)
(* Small functions of three parameters, put together the way the code      *)
(* generator does it, for the runs of the optimizer.                       *)
(***************************************************************************)
EXTENDS StackOptimizer

Const == Gen("const", 0, 1, TRUE)
Add == Gen("add", 2, 1, TRUE)
Send == Gen("send", 1, 0, FALSE)
f == CALL("f", 0, 1)

Take == 3
Depth(code) == Len(Meaning(Take, code)[TRUE].stack)
Fits(code) == \A c \in BOOLEAN : Meaning(Take, code)[c].fits

(* The function returns one value: what lies under it is dropped.          *)
DropUnder(depthThere) == IF depthThere >= 2 THEN <<makeBLKDROP2(depthThere - 1, 1)>> ELSE <<>>
Returned(code) == code \o DropUnder(Depth(code))
Fun(code) == [take |-> Take, code |-> code]

-----------------------------------------------------------------------------
(* Functions without branches. *)
AllNodes ==
    {PUSH(0), PUSH(1), PUSH(2), POP(1), POP(2), POP(3), DROP(1), DROP(2), BLKSWAP(1, 1), BLKSWAP(2, 1),
     BLKSWAP(1, 2), XCHG(0, 2), XCHG(1, 2), REVERSE(3, 0), REVERSE(2, 1), BLKDROP2(1, 2), BLKDROP2(2, 1),
     PUSH2(0, 1), BLKPUSH(2, 1), Const, Add, Send, GETGLOB(1), SETGLOB(1), PUSH_C7, POP_C7,
     f, THROWIF}

(* The nodes at which some rewriting may begin. *)
HeadNodes ==
    {PUSH(0), PUSH(1), PUSH(2), POP(1), POP(2), DROP(1), BLKSWAP(1, 1), BLKSWAP(2, 1), XCHG(0, 2),
     REVERSE(3, 0), Const, GETGLOB(1)}

Straight == {code \in {<<a, b, c>> : a \in HeadNodes, b, c \in AllNodes} : Fits(code)}

(* A value that is moved, or overwritten, two nodes after it was made. *)
Heads ==
    {<<PUSH(0)>>, <<BLKSWAP(1, 1)>>, <<BLKSWAP(2, 1)>>, <<Const>>, <<GETGLOB(1)>>, <<GETGLOB(1), Const>>,
     <<GETGLOB(2), Const>>, <<BLKSWAP(1, 1), PUSH(1)>>, <<BLKSWAP(2, 1), PUSH(2)>>, <<POP(1), PUSH(0)>>, <<POP(2), PUSH(1)>>}

Assigning ==
    {code \in {h \o <<a, b, c>> :
                 h \in Heads, a \in {Const, PUSH(1), f, SETGLOB(1), GETGLOB(1), BLKSWAP(1, 1), Add},
                 b \in {Const, PUSH(1), PUSH(2), Add, SETGLOB(1)},
                 c \in {POP(1), POP(2), POP(3), BLKSWAP(1, 1), BLKSWAP(1, 2)}} : Fits(code)}

(* c7 is replaced after a global variable has been read: see the findings. *)
ResetsAfterRead(code) ==
    \E p, q \in DOMAIN code : p < q /\ code[p] = GETGLOB(1) /\ code[q] = POP_C7

-----------------------------------------------------------------------------
(* Functions with a branch: something before it, a statement in it and      *)
(* something behind.                                                        *)
FewNodes == {PUSH(0), PUSH(2), POP(2), BLKSWAP(1, 1), BLKSWAP(2, 1), Const, GETGLOB(1), Send, DECLRETFLAG}

Statements ==
    {<<a, b>> : a \in {PUSH(1), PUSH(2), PUSH(3), Const, GETGLOB(1)},
                b \in {POP(1), POP(2), POP(3), DROP(1), Send, SETGLOB(1)}}
Values == {<<PUSH(1)>>, <<Const>>, <<f>>, <<Const, PUSH(2), Add>>}

Exits(depthThere) ==
    {v \o <<RETURN(1, DropUnder(depthThere + 1))>> : v \in {<<PUSH(0)>>, <<Const>>, <<PUSH(2)>>}}

(* The branches behind the code given. *)
Branches(code) ==
    LET d == Depth(code) - 1 IN
    {IF1(s) : s \in Statements} \cup {IFJMP(e) : e \in Exits(d)}
    \cup {IFELSE(t, e, 1) : t, e \in Values}
    \cup {IFELSE(s, <<Send>> \o v, 0) : s \in {<<Const, POP(2)>>}, v \in Values}
    \cup {IFELSEJMP(t, e) : t \in Exits(d), e \in Exits(d)}

Branching ==
    {code \in UNION {{<<a, br, b>> : br \in Branches(<<a>>), b \in FewNodes} : a \in FewNodes} : Fits(code)}

MCFunctions ==
    {Fun(Returned(code)) : code \in {s \in Straight : ~ResetsAfterRead(s)} \cup Assigning \cup Branching}
=============================================================================
