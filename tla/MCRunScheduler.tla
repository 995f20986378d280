--------------------------- MODULE MCRunScheduler ---------------------------
(* Small instances of RunScheduler for TLC.  Tasks and messages are          *)
(* interchangeable; run ids are not, because Mint chooses among them.        *)
EXTENDS RunScheduler, TLC

Symmetry == Permutations(Tasks) \cup Permutations(Messages)
=============================================================================
