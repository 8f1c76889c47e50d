--------------------------- MODULE MCStackOptimizer ---------------------------
(* The optimizer on the sample functions. *)
EXTENDS FunctionSamples
=============================================================================
