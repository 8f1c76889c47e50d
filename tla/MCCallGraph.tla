------------------------------ MODULE MCCallGraph ------------------------------
(* All programs of three functions with at most MaxCalls calls, any of them  *)
(* inline, one of them perhaps onCodeUpgrade, and the entry point behind.    *)
EXTENDS CallGraph

CONSTANT MaxCalls

MCNames == 1 .. 4
MCMain == 4
MCId == [n \in MCNames |-> 10 + n]
User == 1 .. 3

MCPrograms ==
    {[calls |-> [n \in MCNames |-> IF n = MCMain THEN User \ {up} ELSE {m \in User : <<n, m>> \in pairs}],
      inline |-> inl, upgrade |-> up] :
        pairs \in UNION {kSubset(k, User \X User) : k \in 0 .. MaxCalls},
        inl \in SUBSET {1, 2}, up \in {None, 3}}
=============================================================================
