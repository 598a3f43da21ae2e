--------------------------- MODULE MCResultCache ---------------------------
(* Instances of ResultCache for TLC. *)
EXTENDS ResultCache, TLC

CONSTANTS j1, j2, a1, a2, b1, t1, t2, k1, k2

\* Job j1 may run the stage twice, job j2 once.
TwoJobs == (a1 :> j1) @@ (a2 :> j1) @@ (b1 :> j2)

TwoKeys == (t1 :> k1) @@ (t2 :> k2)

CacheBounds == [faults |-> 2, alters |-> 1, rotations |-> 1, purges |-> 1,
                restores |-> 1, all |-> 2]

\* The attempts of one job are alike, and so are the two requests, each taken
\* with its key.
Alike == Permutations({a1, a2}) \cup
         {(t1 :> t2) @@ (t2 :> t1) @@ (k1 :> k2) @@ (k2 :> k1)}
=============================================================================
