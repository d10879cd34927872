------------------------------ MODULE MCPipes ------------------------------
(* Two zones, the second with two pipes.                                   *)
EXTENDS Pipes

CONSTANTS a, b1, b2

ThreePipes == {a, b1, b2}
ThreeCodeOf == [p \in ThreePipes |-> IF p = a THEN 1 ELSE 2]
TwoPipes == {a, b1}
TwoCodeOf == [p \in TwoPipes |-> IF p = a THEN 1 ELSE 2]
=============================================================================
