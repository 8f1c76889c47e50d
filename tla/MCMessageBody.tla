----------------------------- MODULE MCMessageBody -----------------------------
(* Every list of at most four parameters of the types below, which meet the  *)
(* limits of a cell of bits and of references, with and without callback,    *)
(* currencies and state init.                                                *)
EXTENDS MessageBody

Types == {Uint(256), Uint(120), Uint(8), Address, String, Mapping}
Params == UNION {[1 .. n -> Types] : n \in 0 .. 4}

(* The default values, large ones, and one after the other.                  *)
Tags == {[i \in 1 .. 4 |-> 0], [i \in 1 .. 4 |-> 1], [i \in 1 .. 4 |-> i % 2]}

All ==
    [kind : {"call"}, responsible : BOOLEAN, dest : {2, 267}, currencies : BOOLEAN, stateInit : BOOLEAN,
     tags : Tags, params : Params]
  \cup
    [kind : {"emit"}, responsible : {FALSE}, dest : {0, 267}, currencies : {FALSE}, stateInit : {FALSE},
     tags : Tags, params : Params]
  \cup
    [kind : {"body"}, responsible : {FALSE}, dest : {0}, currencies : {FALSE}, stateInit : {FALSE},
     tags : Tags, params : Params]

MCRequests == {r \in All : Counted(r)}
=============================================================================
