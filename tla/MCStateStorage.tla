----------------------------- MODULE MCStateStorage -----------------------------
(* Contracts whose variables fill cells to their limits of bits and          *)
(* references, with every list of at most two unpacked variables of the      *)
(* kinds below behind several lists of usual ones, and lists of three.       *)
EXTENDS StorageInvariants

Pubkey == <<Uint(256), Uint(64), Uint(1)>>

Plain(t) == Var(<<t>>)
Pair == Var(<<Mapping, Uint(512)>>)

Lists(kinds, n) == [1 .. n -> kinds]

Usuals == {<<>>, <<Var(<<Uint(189), Uint(256)>>)>>, <<Var(<<Cell, String, Mapping>>)>>}
Long == <<Plain(Uint(702))>>

Kinds == {Plain(Uint(256)), Plain(Mapping), Plain(Cell), Plain(Address), Pair}

Layouts ==
    (Usuals \X (Lists(Kinds, 0) \cup Lists(Kinds, 1) \cup Lists(Kinds, 2)))
        \cup ({Long} \X Lists(Kinds, 3))

MCContracts ==
    {c \in {[header |-> Pubkey, usual |-> l[1], unpacked |-> l[2]] : l \in Layouts} : PositionsAgree(c)}
=============================================================================
