-------------------------- MODULE StorageInvariants --------------------------
(***************************************************************************)
(* The contracts whose state variables are stored without harm, and the    *)
(* inductive invariant behind the properties of StateStorage: c4, and the  *)
(* slice in c7, are what encodeParameters makes of the current values.     *)
(***************************************************************************)
EXTENDS StateStorage

(* c4_to_c7 computes positions without the unpacked variables.  Contracts   *)
(* for which that makes a difference are the subject of StorageFindings.    *)
PositionsAgree(c) ==
    LET u == unroll(c.usual)
        o == getOffsetC4(c)
    IN  doLoadNextCell(u, o, 0) = SubSeq(doLoadNextCell(unroll(c.usual \o c.unpacked), o, 0), 1, Len(u))

(* Public key, time and constructor flag: values without references, in the *)
(* first cell.  A variable has members; the compiler lets nobody declare an *)
(* empty structure.                                                         *)
Storable(t) == IsType(t) /\ (t.fixedRefs /\ ~t.fixedSize => t.refs = 0)
IsVariable(v) ==
    v.types \in Seq(TypeSizes) /\ v.types # <<>> /\ \A k \in 1 .. Len(v.types) : Storable(v.types[k])

IsContract(c) ==
    /\ c.header \in Seq(TypeSizes) /\ getOffsetC4(c) <= CellBits
    /\ \A k \in 1 .. Len(c.header) : IsType(c.header[k]) /\ c.header[k].refs = 0
    /\ \A vs \in {c.usual, c.unpacked} :
         vs = [v \in 1 .. Len(vs) |-> vs[v]] /\ Len(vs) \in Nat /\ \A v \in 1 .. Len(vs) : IsVariable(vs[v])
    /\ PositionsAgree(c)

ASSUME ContractsAssumption == \A c \in Contracts : IsContract(c)

-----------------------------------------------------------------------------
(* The current values, and how they are stored: all of them behind the      *)
(* header, or those of the unpacked variables.                              *)
Held == [j \in 1 .. Len(types) |-> Current(j)]

AllLoad == doLoadNextCell(contract.header \o types, 0, 0)
StoredCell == encodeParameters(Header \o Held, AllLoad, Empty)

UsualOf(values) == SubSeq(values, 1, startIndexType - 1)
UnpackedOf(values) == SubSeq(values, startIndexType, Len(types))
StoredSlice == encodeParameters(UnpackedOf(Held), UnpackedOf(load), Empty)

StorageInv ==
    /\ contract \in Contracts /\ code = Compiled(contract) /\ tags \in [1 .. Len(types) -> {0, 1}]
    /\ mode \in {"stored", "loaded", "assert"}
    /\ mode = "stored" => c4 = StoredCell
    /\ mode = "loaded" => c7 = [usual |-> UsualOf(Held), slice |-> StoredSlice]
    /\ answer.asked \in Seq(startIndexType .. Len(types))
    /\ AnswerIsCurrent
=============================================================================
