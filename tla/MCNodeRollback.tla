--------------------------- MODULE MCNodeRollback ---------------------------
(* The workspace behind the nodes on its own, for TLC. *)
EXTENDS NodeRollback

Spec == RollbackInit /\ [][RollbackNext]_rollbackVars
=============================================================================
