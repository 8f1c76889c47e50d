-------------------------- MODULE MCPeepholeOptimizer --------------------------
(* The peephole optimizer on the sample blocks.                             *)
EXTENDS PeepholeOptimizer, CodeSamples

MCCodes == StackCodes \cup Arithmetic \cup Logic \cup Control \cup Wrapped \cup Building \cup Loading \cup Tuples
MCStacks(c) == SampleStacks
=============================================================================
