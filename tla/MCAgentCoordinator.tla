------------------------- MODULE MCAgentCoordinator -------------------------
(* Instances of AgentCoordinator for TLC. *)
EXTENDS AgentCoordinator, TLC

CONSTANTS s1, t1, c1, c2, g1, g2

MCSessions == {s1}
MCTurns    == {t1}
MCChildren == {c1, c2}
MCOwners   == MCChildren \cup {Root}
MCGroupIds == {g1, g2}

Symmetry == Permutations(MCChildren) \cup Permutations(MCGroupIds)
=============================================================================
