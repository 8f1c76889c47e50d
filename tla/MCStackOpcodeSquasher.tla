------------------------ MODULE MCStackOpcodeSquasher ------------------------
(* The tables for a small stack, and short runs of simple instructions. *)
EXTENDS StackOpcodeSquasher

FewEdges ==
    {PUSH(0), PUSH(1), PUSH(2), POP(1), POP(2), DROP(1), BLKDROP2(1, 2), BLKSWAP(1, 1), BLKSWAP(1, 2),
     XCHG(0, 2), REVERSE(3, 0), PUSH2(0, 1)}

MCCodes == {<<a, b>> : a, b \in SimpleEdges} \cup {<<a, b, c>> : a, b, c \in FewEdges}
=============================================================================
