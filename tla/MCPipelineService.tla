-------------------------- MODULE MCPipelineService --------------------------
(***************************************************************************)
(* PipelineService on small sets of jobs, runs, requests and stages.       *)
(***************************************************************************)
EXTENDS PipelineService, TLC

\* Stage names in the collation order of GetStages.
MCRank ==
    [s \in Stages |->
       CASE s = "candidate_generation" -> 1
         [] s = "classify"             -> 2
         [] s = "graph"                -> 3
         [] s = "requires"             -> 4
         [] s = "synthesis"            -> 5]

Symmetry ==
    Permutations(Jobs) \cup Permutations(Runs) \cup Permutations(Calls)

\* What is explored: two requests at once and a failing write, about one job;
\* one request and two jobs; and one request while the process restarts and
\* resumes a job.
Within ==
    LET used == Cardinality({j \in Jobs : ~Fresh(j)})
        busy == Cardinality({c \in Calls : call[c].pc # "idle"})
        calm == halts = 0 /\ resume = {} /\ dispatch = NoJob /\ (listed \/ used = 0)
    IN  \/ calm /\ used <= 1
        \/ calm /\ faults = 0 /\ busy <= 1
        \/ used <= 1 /\ faults = 0 /\ busy <= 1

OneStage       == {"classify"}
NoStage        == {}
OneClass       == {"retryable"}
TwoClasses     == {"retryable", "empty_target_catalog"}
=============================================================================
