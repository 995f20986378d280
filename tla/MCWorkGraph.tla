---------------------------- MODULE MCWorkGraph ----------------------------
(* Instances of WorkGraph for TLC: begin_node calls of each risk.           *)
EXTENDS WorkGraph, TLC
CONSTANTS a1, a2, c1, c2

Request(risk, specialists, review) == [risk |-> risk, specialists |-> specialists, review |-> review]
Plain   == {Request("medium", 1, FALSE)}
LowAndMedium == {Request("low", 1, FALSE), Request("medium", 1, FALSE)}
LowAndHigh == {Request("low", 1, FALSE), Request("high", 1, FALSE)}

One == {a1}
Two == {a1, a2}
\* Without children nothing tells the root agent from the others.
AgentSymmetry == Permutations(Two)
NoChildren == {}
OneChild == {c1}
TwoChildren == {c1, c2}
=============================================================================
