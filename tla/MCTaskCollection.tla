--------------------------- MODULE MCTaskCollection ---------------------------
(***************************************************************************)
(* TaskCollection on small sets of tasks and workers.                      *)
(***************************************************************************)
EXTENDS TaskCollection, TLC

Symmetry == Permutations(Tasks) \cup Permutations(Workers)
=============================================================================
