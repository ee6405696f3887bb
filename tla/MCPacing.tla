------------------------------ MODULE MCPacing ------------------------------
(* Instances of Pacing for TLC.                                             *)
EXTENDS Pacing, TLC

\* All clocks agree ...
InStep == [w \in Workers |-> 0]

\* ... or one of the workers is ahead of the others by half the pause between
\* two requests.
CONSTANT Early
OneEarly == [w \in Workers |-> IF w = Early THEN 1 ELSE 0]

Symmetry == Permutations(Workers)
=============================================================================
