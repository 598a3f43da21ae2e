----------------------------- MODULE AnalysisJob -----------------------------
(***************************************************************************)
(* One analysis job from its first analyzer to its attestation bundle      *)
(* (internal/pipeline/executor.go with internal/analysis/engine.go): the   *)
(* analyzers of Analyzers run level by level in the order of AnalyzerDag,  *)
(* Candidates chooses the pairs, Synthesis ranks them, Attestation signs   *)
(* every step.  A job that stops is resumed, by the next process when it   *)
(* crashed and by RetryJob when it failed, and runs only the stages that   *)
(* are not stored as completed.                                            *)
(*                                                                         *)
(* Stored: job, failure, stage, results, embeddings, candidates, votes and *)
(* objects.  Lost with the process: pc, exec and collected.                *)
(***************************************************************************)
EXTENDS Synthesis, AnalyzerDag, Attestation

CONSTANTS
    Registry,    \* registered analyzer -> the analyzers it depends on
    Scenarios,   \* what a behaviour may vary: answers, orders, generators, attested, mishaps
    Keys,        \* the key pairs an operator may configure
    MaxRuns      \* bound on executions of the job

ASSUME JobAssumption == MaxRuns \in Nat \ {0} /\ Keys # {}

VARIABLES
    scenario,    \* [answers, orders, gens, cats, attested]
    job,         \* status in jobs
    failure,     \* why the job last failed
    stage,       \* job_stages: stage -> status
    results,     \* analysis_results: analyzer -> aggregate
    embeddings,  \* rows of embeddings
    candidates,  \* [requires, relationship]: the candidate tables
    votes,       \* vote_summaries
    objects,     \* object storage below the job's attestation prefix
    key,         \* the key pair the process loaded
    pc,          \* where executeJob is; "down" when it does not run
    exec,        \* jobExecution and runAnalysis' locals
    collected,   \* analyzer -> the results its collection returned
    run,         \* executions so far: the trace of a synthesis result
    mishaps,     \* faults that may still happen
    lost         \* stages whose "completed" status could not be written, and other mishaps

vars == <<scenario, job, failure, stage, results, embeddings, candidates, votes, objects, key, pc,
          exec, collected, run, mishaps, lost>>
stored == <<results, embeddings, candidates, votes, objects>>

Dag == BuildDAG(Registry)
Order == Dag.order
StageNames == BuildStageNames(Order)
Subject == JobSubject("job", "config")
Matrices == [m \in ToSet(EmbedModels) |->
                MatrixIDs(embeddings, {scenario.cats.source, scenario.cats.target}, m)]

NoRun == [completed |-> {}, links |-> <<>>, layout |-> <<>>, work |-> <<>>, chosen |-> <<>>, report |-> <<>>]

Init ==
    /\ scenario \in Scenarios
    /\ job = "running" /\ failure = ""
    /\ stage = [s \in ToSet(StageNames) |-> "pending"]
    /\ results = <<>> /\ embeddings = {} /\ votes = <<>>
    /\ candidates = [requires |-> <<>>, relationship |-> <<>>]
    /\ objects = <<>>
    /\ key = CHOOSE k \in Keys : TRUE
    /\ pc = "start" /\ exec = NoRun /\ collected = <<>>
    /\ run = 0 /\ mishaps = scenario.mishaps /\ lost = {}
-----------------------------------------------------------------------------
(* How an execution ends *)

\* failJob: the job is failed, and so is every stage that was running.
FailJob(reason) ==
    /\ job' = "failed" /\ failure' = reason
    /\ stage' = [s \in DOMAIN stage |-> IF stage[s] = "running" THEN "failed" ELSE stage[s]]
    /\ pc' = "down" /\ exec' = NoRun /\ collected' = <<>>

Running(to) == pc' = to /\ UNCHANGED <<job, failure, collected>>
Put(name, object) == objects' = (name :> object) @@ objects
Same == UNCHANGED <<scenario, key, run, mishaps, lost>>

Mishap(what) ==
    /\ mishaps > 0 /\ mishaps' = mishaps - 1
    /\ lost' = lost \cup {what}
-----------------------------------------------------------------------------
(* The start of executeJob *)

\* Stages that completed in an earlier execution are not run again; the
\* stored links of synthesis and graph must still verify.
StartRun ==
    LET completed == {s \in DOMAIN stage : stage[s] = "completed"}
        linked == SelectSeq(<<"synthesis", "graph">>, LAMBDA s : s \in completed)
        sound(s) == s \in DOMAIN objects /\ VerifyStoredLink(key, objects[s], s, Subject)
    IN /\ pc = "start" /\ run < MaxRuns
       /\ run' = run + 1
       /\ IF scenario.attested /\ \E i \in 1..Len(linked) : ~sound(linked[i])
          THEN FailJob("attestation_invalid")
          ELSE /\ exec' = [NoRun EXCEPT !.completed = completed,
                             !.links = IF scenario.attested
                                       THEN [i \in 1..Len(linked) |-> objects[linked[i]]] ELSE <<>>]
               /\ Running("layout") /\ UNCHANGED stage
       /\ UNCHANGED <<stored, scenario, key, mishaps, lost>>

Incomplete == ToSet(Order) \ exec.completed
PrePass == Incomplete \ CandidateDependent
PostPass == Incomplete \cap CandidateDependent
Todo(names) == [a \in names |-> "waiting"]

\* The layout is signed anew on every execution; with every analyzer done,
\* the rest of the analysis phase is skipped.
SignLayout ==
    LET layout == CreateLayout(key, LayoutSteps(Order, Registry, "job"), 1)
    IN /\ pc = "layout"
       /\ IF ~CheckJobAnalyzers(StageNames, Order) THEN FailJob("analyzers_changed") /\ UNCHANGED objects
          ELSE /\ IF scenario.attested
                  THEN Put("layout", layout) ELSE UNCHANGED objects
               /\ exec' = [exec EXCEPT !.layout = IF scenario.attested THEN <<layout>> ELSE <<>>,
                                       !.work = Todo(PrePass)]
               /\ Running(IF Incomplete = {} THEN "attest" ELSE "prepass")
               /\ UNCHANGED stage
       /\ UNCHANGED <<results, embeddings, candidates, votes>> /\ Same
-----------------------------------------------------------------------------
(* A pass of the engine over exec.work *)

Settled == {"done", "failed", "skipped"}

\* Analyzers of one level run together; a level waits for the one before.
LevelOf(a) ==
    LET levels == Subset(Dag, DOMAIN exec.work).levels
    IN SelectInSeq(levels, LAMBDA l : a \in ToSet(l))
MayStart(a) ==
    /\ exec.work[a] = "waiting"
    /\ \A b \in DOMAIN exec.work : LevelOf(b) < LevelOf(a) => exec.work[b] \in Settled
DepsDone(a) ==
    \A d \in Registry[a] : d \in exec.completed \/ d \notin DOMAIN exec.work \/ exec.work[d] = "done"

Work(a) ==
    CASE a = "classify" -> UNION {ClassifyWork(c) : c \in DOMAIN Control}
      [] a = "embedding" -> UNION {EmbeddingWork(c) : c \in DOMAIN Control}
      [] a = "artifacts" -> UNION {ArtifactsWork(c) : c \in DOMAIN Control}
      [] a = "requires" -> RequiresWork(DOMAIN candidates.requires)
      [] a = "relationship" -> RelationshipWork(DOMAIN candidates.relationship)

WorkRefused(a) ==
    \/ a = "requires" /\ MissingText(DOMAIN candidates.requires)
    \/ a = "relationship" /\ MissingText(DOMAIN candidates.relationship)

\* An answer "error" is a task that failed.
Result(t, answer) ==
    [task |-> t, error |-> answer.kind = "error",
     text |-> IF t.prebuilt \/ answer.kind = "error" THEN NoText ELSE answer]

\* The orders in which n answers may come back.
ArrivalOrders(kind, n) ==
    LET id == [i \in 1..n |-> i]
    IN CASE kind = "fixed" -> {id}
         [] kind = "reversible" -> {id, Reverse(id)}

\* executeAnalyzer up to the collected results: the workers' answers, in the
\* order they arrived, then the prebuilt ones.
Collect(a) ==
    /\ pc \in {"prepass", "postpass"} /\ a \in DOMAIN exec.work /\ MayStart(a)
    /\ IF ~DepsDone(a)
       THEN /\ exec' = [exec EXCEPT !.work[a] = "skipped"]
            /\ UNCHANGED <<stage, collected>>
       ELSE IF WorkRefused(a)
       THEN /\ exec' = [exec EXCEPT !.work[a] = "failed"]
            /\ stage' = [stage EXCEPT ![a] = "failed"]
            /\ UNCHANGED collected
       ELSE LET tasks == Work(a)
                asked == {t \in tasks : ~t.prebuilt}
                byID == Listed(asked)
                prebuilt == Listed(tasks \ asked)
            IN \E answer \in [asked -> scenario.answers[a]] :
               \E order \in ArrivalOrders(scenario.orders[a], Len(byID)) :
                 /\ collected' = (a :> ([i \in 1..Len(byID) |-> Result(byID[order[i]], answer[byID[order[i]]])]
                                        \o [i \in 1..Len(prebuilt) |-> Result(prebuilt[i], NoText)]))
                                 @@ collected
                 /\ exec' = [exec EXCEPT !.work[a] = "collected"]
                 /\ stage' = [stage EXCEPT ![a] = "running"]
    /\ UNCHANGED <<pc, job, failure, stored>> /\ Same

AggregateOf(a, rs) ==
    CASE a = "classify" -> ClassifyAggregate(rs)
      [] a = "embedding" -> EmbeddingAggregate(rs).listed
      [] a = "artifacts" -> ArtifactsAggregate(rs)
      [] a = "requires" -> RequiresAggregate(rs)
      [] a = "relationship" -> RelationshipAggregate(rs)

Forget(f, a) == [x \in DOMAIN f \ {a} |-> f[x]]

\* Every task failed, or the embeddings could not be stored.
StageFails(a) ==
    LET rs == collected[a]
    IN \/ rs # <<>> /\ \A i \in 1..Len(rs) : rs[i].error
       \/ a = "embedding" /\ ~EmbeddingAggregate(rs).ok

\* CompleteAnalysisStage stores the aggregate and the status in one transaction.
Aggregate(a) ==
    /\ pc \in {"prepass", "postpass"} /\ a \in DOMAIN exec.work /\ exec.work[a] = "collected"
    /\ collected' = Forget(collected, a)
    /\ IF StageFails(a)
       THEN /\ exec' = [exec EXCEPT !.work[a] = "failed"]
            /\ stage' = [stage EXCEPT ![a] = "failed"]
            /\ UNCHANGED <<results, embeddings>>
       ELSE /\ exec' = [exec EXCEPT !.work[a] = "done"]
            /\ stage' = [stage EXCEPT ![a] = "completed"]
            /\ results' = (a :> AggregateOf(a, collected[a])) @@ results
            /\ embeddings' = IF a = "embedding" THEN embeddings \cup EmbeddingAggregate(collected[a]).batch
                             ELSE embeddings
    /\ UNCHANGED <<pc, job, failure, candidates, votes, objects>> /\ Same

\* The stage is stored, but its completion event cannot be published: the
\* engine counts the analyzer as failed.
PublishFails(a) ==
    /\ pc \in {"prepass", "postpass"} /\ a \in DOMAIN exec.work /\ exec.work[a] = "collected"
    /\ ~StageFails(a) /\ Mishap("event")
    /\ collected' = Forget(collected, a)
    /\ exec' = [exec EXCEPT !.work[a] = "failed"]
    /\ stage' = [stage EXCEPT ![a] = "completed"]
    /\ results' = (a :> AggregateOf(a, collected[a])) @@ results
    /\ embeddings' = IF a = "embedding" THEN embeddings \cup EmbeddingAggregate(collected[a]).batch
                     ELSE embeddings
    /\ UNCHANGED <<pc, job, failure, candidates, votes, objects, scenario, key, run>>

EndPass ==
    /\ pc \in {"prepass", "postpass"}
    /\ \A a \in DOMAIN exec.work : exec.work[a] \in Settled
    /\ IF \E a \in DOMAIN exec.work : exec.work[a] = "failed" THEN FailJob("analysis")
       ELSE /\ Running(IF pc = "postpass" \/ PostPass = {} THEN "votes"
                       ELSE IF "candidate_generation" \in exec.completed THEN "postpass" ELSE "candidates")
            /\ exec' = [exec EXCEPT !.work = Todo(PostPass)]
            /\ UNCHANGED stage
    /\ UNCHANGED stored /\ Same
-----------------------------------------------------------------------------
(* Candidate generation *)

StartCandidates ==
    /\ pc = "candidates" /\ Running("generate")
    /\ stage' = [stage EXCEPT !["candidate_generation"] = "running"]
    /\ UNCHANGED <<stored, exec>> /\ Same

GenerateAndWriteRequires ==
    LET model == EmbedModels[1]
        cats == scenario.cats
    IN /\ pc = "generate"
       /\ IF InsufficientCoverage(cats, results["classify"], embeddings, model)
          THEN FailJob("coverage") /\ UNCHANGED candidates
          ELSE \E cs \in GenerateCandidates(scenario.gens, cats, results["classify"], embeddings, model) :
                 /\ candidates' = [candidates EXCEPT !.requires = WriteRequiresCandidates(@, RequiresRows(cs))]
                 /\ exec' = [exec EXCEPT !.chosen = cs]
                 /\ Running("write_relationship") /\ UNCHANGED stage
       /\ UNCHANGED <<results, embeddings, votes, objects>> /\ Same

WriteRelationship ==
    /\ pc = "write_relationship"
    /\ candidates' = [candidates EXCEPT !.relationship =
                        WriteRelationshipCandidates(@, RelationshipRows(exec.chosen, Matrices[EmbedModels[1]]))]
    /\ Running("candidates_done")
    /\ UNCHANGED <<results, embeddings, votes, objects, stage, exec>> /\ Same

\* The "completed" statuses of candidate_generation, synthesis and graph: a
\* write that fails is only logged.
DoneAt == [candidates_done |-> "candidate_generation", synthesis_done |-> "synthesis", graph_done |-> "graph"]
AfterDone(s) ==
    CASE s = "candidate_generation" -> "postpass"
      [] s = "synthesis" -> IF "graph" \in exec.completed THEN "finalize" ELSE "graph"
      [] s = "graph" -> "finalize"

CompleteStage ==
    /\ pc \in DOMAIN DoneAt
    /\ stage' = [stage EXCEPT ![DoneAt[pc]] = "completed"]
    /\ Running(AfterDone(DoneAt[pc]))
    /\ UNCHANGED <<stored, exec>> /\ Same

LoseCompletion ==
    /\ pc \in DOMAIN DoneAt
    /\ Mishap(DoneAt[pc])
    /\ Running(AfterDone(DoneAt[pc]))
    /\ UNCHANGED <<stored, exec, stage, scenario, key, run>>
-----------------------------------------------------------------------------
(* Vote summaries and the analyzers' links *)

\* The end of runAnalysis.
SummarizeVotes ==
    LET pairs == BuildVoteSummaryPairs(results["requires"], results["relationship"])
    IN /\ pc = "votes"
       /\ IF CorruptPairs(pairs) THEN FailJob("analysis") /\ UNCHANGED votes
          ELSE /\ votes' = WriteVoteSummaries(votes, pairs)
               /\ Running("attest") /\ UNCHANGED <<stage, exec>>
       /\ UNCHANGED <<results, embeddings, candidates, objects>> /\ Same

AfterAttest ==
    IF "synthesis" \notin exec.completed THEN "synthesis"
    ELSE IF "graph" \notin exec.completed THEN "graph" ELSE "finalize"

\* Every analyzer is linked on every execution, from its stored result.
AttestAnalyzers ==
    LET manifest == [a \in ToSet(Order) |-> <<"manifest", a>>]
        links == [i \in 1..Len(Order) |->
                    AnalyzerLink(key, Subject, Registry, Order[i], results, manifest)]
    IN /\ pc = "attest"
       /\ IF scenario.attested /\ ~(ToSet(Order) \subseteq DOMAIN results)
          THEN FailJob("attestation_invalid")
          ELSE /\ exec' = IF scenario.attested THEN [exec EXCEPT !.links = @ \o links] ELSE exec
               /\ Running(AfterAttest) /\ UNCHANGED stage
       /\ UNCHANGED stored /\ Same
-----------------------------------------------------------------------------
(* Synthesis, graph and the bundle *)

StartSynthesis ==
    /\ pc = "synthesis" /\ Running("execute")
    /\ stage' = [stage EXCEPT !["synthesis"] = "running"]
    /\ UNCHANGED <<stored, exec>> /\ Same

SynthesisInputs == BuildSynthesisInputs(results["requires"], results["relationship"], Matrices)

\* The viabilities are written in a transaction that expects every row.
ExecuteSynthesis ==
    LET rows == ExecuteRows(SynthesisInputs, results["classify"])
    IN /\ pc = "execute"
       /\ IF ~ValidateInputs(SynthesisInputs) THEN FailJob("invalid_inputs") /\ UNCHANGED votes
          ELSE IF ~RowsFound(votes, rows) THEN FailJob("no_rows_affected") /\ UNCHANGED votes
          ELSE /\ votes' = PersistViability(votes, rows)
               /\ exec' = [exec EXCEPT !.report = ComputeContentHash(Assess(rows), run)]
               /\ Running("attest_synthesis") /\ UNCHANGED stage
       /\ UNCHANGED <<results, embeddings, candidates, objects>> /\ Same

LinkStage(link, name, next) ==
    /\ IF scenario.attested
       THEN Put(name, link) /\ exec' = [exec EXCEPT !.links = Append(@, link)]
       ELSE UNCHANGED <<objects, exec>>
    /\ Running(next)
    /\ UNCHANGED <<results, embeddings, candidates, votes, stage>> /\ Same

AttestSynthesis ==
    /\ pc = "attest_synthesis"
    /\ LinkStage(SynthesisLink(key, Subject, Order, exec.links, exec.report), "synthesis", "synthesis_done")

StartGraph ==
    /\ pc = "graph" /\ Running("attest_graph")
    /\ stage' = [stage EXCEPT !["graph"] = "running"]
    /\ UNCHANGED <<stored, exec>> /\ Same

AttestGraph ==
    /\ pc = "attest_graph"
    /\ LinkStage(GraphLink(key, Subject, exec.links), "graph", "graph_done")

\* Mutant: the bundle is stored without verifying the chain.
FinalizeUnverified ==
    /\ pc = "finalize"
    /\ IF ~scenario.attested THEN UNCHANGED objects
       ELSE Put("bundle", MarshalBundle(exec.layout[1], exec.links))
    /\ Running("complete")
    /\ UNCHANGED <<results, embeddings, candidates, votes, stage, exec>> /\ Same

FinalizeAttestation ==
    /\ pc = "finalize"
    /\ IF ~scenario.attested THEN Running("complete") /\ UNCHANGED <<objects, stage, exec>>
       ELSE IF VerifyChain(key, 0, exec.layout[1], exec.links, Subject) # ""
       THEN FailJob("attestation_invalid") /\ UNCHANGED objects
       ELSE /\ Put("bundle", MarshalBundle(exec.layout[1], exec.links))
            /\ Running("complete") /\ UNCHANGED <<stage, exec>>
    /\ UNCHANGED <<results, embeddings, candidates, votes>> /\ Same

CompleteJob ==
    /\ pc = "complete"
    /\ job' = "completed" /\ failure' = ""
    /\ pc' = "down" /\ exec' = NoRun
    /\ UNCHANGED <<stored, stage, collected>> /\ Same
-----------------------------------------------------------------------------
(* Faults, restarts and retries *)

\* A database or object storage call of the present step fails.
StepFails ==
    /\ pc \in {"layout", "generate", "write_relationship", "votes", "attest", "execute",
               "attest_synthesis", "attest_graph", "finalize"}
    /\ Mishap("call") /\ FailJob("unavailable")
    /\ UNCHANGED <<stored, scenario, key, run>>

Crash ==
    /\ pc \notin {"down", "start", "crashed"}
    /\ Mishap("process")
    /\ pc' = "crashed" /\ exec' = NoRun /\ collected' = <<>>
    /\ UNCHANGED <<stored, stage, job, failure, scenario, key, run>>

\* The next process resumes a job stored as running.
Resume ==
    /\ pc = "crashed" /\ pc' = "start"
    /\ UNCHANGED <<stored, stage, job, failure, exec, collected>> /\ Same

\* The daemon is restarted with another key pair.
RotateKey ==
    /\ pc \in {"down", "crashed"} /\ job # "completed"
    /\ Mishap("key")
    /\ key' \in Keys \ {key}
    /\ UNCHANGED <<stored, stage, job, failure, pc, exec, collected, scenario, run>>

\* Object storage loses an object of the job.
LoseObject ==
    /\ pc \in {"down", "crashed"} /\ job # "completed"
    /\ Mishap("object")
    /\ \E o \in DOMAIN objects : objects' = Forget(objects, o)
    /\ UNCHANGED <<results, embeddings, candidates, votes, stage, job, failure, pc, exec, collected,
                   scenario, key, run>>

\* RetryJob from the failure: the first failed stage and all after it are
\* reset; with none failed, nothing is.
RetryFromFailure ==
    LET failed == SelectInSeq(StageNames, LAMBDA s : stage[s] = "failed")
        reset == IF failed = 0 THEN {} ELSE {StageNames[i] : i \in failed..Len(StageNames)}
    IN /\ pc = "down" /\ job = "failed"
       /\ failure \notin {"attestation_invalid", "analyzers_changed"}
       /\ stage' = [s \in DOMAIN stage |-> IF s \in reset THEN "pending" ELSE stage[s]]
       /\ job' = "running" /\ failure' = "" /\ pc' = "start"
       /\ UNCHANGED <<stored, exec, collected>> /\ Same

Next ==
    \/ StartRun \/ SignLayout
    \/ \E a \in ToSet(Order) : Collect(a)
    \/ \E a \in ToSet(Order) : Aggregate(a)
    \/ \E a \in ToSet(Order) : PublishFails(a)
    \/ EndPass
    \/ StartCandidates \/ GenerateAndWriteRequires \/ WriteRelationship
    \/ CompleteStage \/ LoseCompletion
    \/ SummarizeVotes \/ AttestAnalyzers
    \/ StartSynthesis \/ ExecuteSynthesis \/ AttestSynthesis
    \/ StartGraph \/ AttestGraph \/ FinalizeAttestation \/ CompleteJob
    \/ StepFails \/ Crash \/ Resume \/ RotateKey \/ LoseObject \/ RetryFromFailure

Spec == Init /\ [][Next]_vars
-----------------------------------------------------------------------------
(* Properties *)

\* A step in which pair analyzer a stores its aggregate.
Decided(a) == a \in DOMAIN collected /\ a \notin DOMAIN collected' /\ stage'[a] = "completed"

\* What a pair stage stores is what the panel of each pair concludes: a pair
\* is a prerequisite, and has a relationship, by the votes of its own voters
\* alone, whatever order the answers came back in (requires.Aggregate and
\* relationship.Aggregate, which only get task IDs back).
PanelVerdict ==
    /\ Decided("requires") =>
          {<<r.source, r.target>> : r \in results'["requires"]}
            = {p \in DOMAIN candidates.requires : PrerequisiteBy(collected["requires"], p)}
    /\ Decided("relationship") =>
          {<<<<r.source, r.target>>, r.relationship>> : r \in results'["relationship"]}
            = {x \in (DOMAIN candidates.relationship) \X (ToSet(RelationshipPriority) \ {NoRelationship}) :
                  RelationshipBy(collected["relationship"], x[1], x[2])}
PanelVerdicts == [][PanelVerdict]_vars

\* Once synthesis is stored as completed, every row it ranks is in
\* vote_summaries with the consensus and confidence of the stored result and
\* with the row's own viability, after whatever crashes and retries, unless
\* the status of candidate_generation was lost: then the pair stages ran
\* twice, and INSERT ... ON CONFLICT DO NOTHING kept the first rows.
RankedRowsAreStored ==
    stage["synthesis"] = "completed" /\ "candidate_generation" \notin lost =>
        \A r \in ExecuteRows(SynthesisInputs, results["classify"]) :
            /\ RowKey(r) \in DOMAIN votes
            /\ votes[RowKey(r)] = [consensus |-> r.input.consensus, confidence |-> r.input.confidence,
                                   viability |-> r.viability]

\* A job of an attested tenant completes only with a bundle that verifies
\* under the key in use, whose synthesis link names the digest of every
\* stored analyzer result (finalizeAttestation, attestAnalyzers).  A resumed job
\* is refused for its attestation only when something happened to what it
\* stored: a key was replaced, an object was lost, or the completed status of
\* synthesis was not written (loadStoredLinks); crashes and failed calls alone
\* never refuse it.
CompletedIsAttested ==
    /\ job = "completed" /\ scenario.attested =>
          /\ "bundle" \in DOMAIN objects
          /\ VerifyChain(key, 0, objects["bundle"].layout, objects["bundle"].links, Subject) = ""
          /\ \A a \in ToSet(Order) :
                LinkOf(objects["bundle"].links, "synthesis").materials[OutputURI(a)] = results[a]
    /\ failure = "attestation_invalid" => lost \cap {"key", "object", "synthesis"} # {}

\* Synthesis finds a row to update for every pair it ranks.
SynthesisFindsItsRows == failure # "no_rows_affected"
=============================================================================
