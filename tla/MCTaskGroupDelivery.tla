------------------------- MODULE MCTaskGroupDelivery -------------------------
(* Instance of TaskGroupDelivery for TLC. *)
EXTENDS TaskGroupDelivery

CONSTANTS s1, o1, o2, t1, c1, c2, g1, g2

MCSessions == {s1}
MCOwners   == {o1, o2}
MCTurns    == {t1}
MCChildren == {c1, c2}
MCGroupIds == {g1, g2}
=============================================================================
