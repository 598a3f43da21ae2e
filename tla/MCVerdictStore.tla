--------------------------- MODULE MCVerdictStore ---------------------------
(* Instances of VerdictStore for TLC. *)
EXTENDS VerdictStore

RaceBounds == [reconciles |-> 2, resets |-> 1, rebuilds |-> 1, upgrades |-> 1,
               stops |-> 2, overruns |-> 2, all |-> 2]
=============================================================================
