--------------------------- MODULE PipelineService ---------------------------
(***************************************************************************)
(* The pipeline orchestration service (internal/pipeline): the job and     *)
(* stage rows it keeps in PostgreSQL, the map of running jobs it keeps in  *)
(* memory, the CreateJob, RetryJob and CancelJob handlers, the goroutine   *)
(* that executes one job (executeJob), and the daemon's start, resume,     *)
(* shutdown and crash.                                                     *)
(*                                                                         *)
(* Everything in memory dies with the process; job and stage survive.      *)
(* A database write commits, fails without effect, or fails after it       *)
(* committed (the answer to COMMIT was lost).  A write made on the context *)
(* of a cancelled or stopped job may fail too.                             *)
(***************************************************************************)
EXTENDS Naturals, FiniteSets

CONSTANTS
    Jobs,               \* job IDs (uuid.New)
    Runs,               \* identities of concurrent executeJob goroutines
    NoRun,              \* no entry in Service.running
    NoJob,              \* no job: an idle run or request
    Calls,              \* concurrent CreateJob and RetryJob requests
    Analyzers,          \* the registered analyzers (dag.Order())
    PairAnalyzers,      \* candidateDependentAnalyzers among them
    Rank,               \* position of a stage name in GetStages' ORDER BY
    Classes,            \* jobs.error_class values a failure may get
    MaxConcurrentJobs,  \* pipeline.max_concurrent_jobs, 0 = unbounded
    RoleAll,            \* role "all": the gateway listens before Start
    MaxFaults,          \* bound: database writes that fail
    MaxHalts            \* bound: crashes and shutdowns of the process

\* buildStageNames: the analyzers, candidate_generation when a pair analyzer
\* reads candidates, then synthesis and graph.
Stages ==
    Analyzers \cup {"synthesis", "graph"}
      \cup (IF PairAnalyzers = {} THEN {} ELSE {"candidate_generation"})

ASSUME ConstantsAssumption ==
    /\ PairAnalyzers \subseteq Analyzers
    /\ Analyzers \cap {"candidate_generation", "synthesis", "graph"} = {}
    /\ Rank \in [Stages -> Nat]
    /\ \A s, t \in Stages : Rank[s] = Rank[t] => s = t
    /\ NoRun \notin Runs
    /\ NoJob \notin Jobs
    /\ "retryable" \in Classes
    /\ RoleAll \in BOOLEAN
    /\ MaxConcurrentJobs \in Nat
    /\ MaxFaults \in Nat
    /\ MaxHalts \in Nat

VARIABLES
    job,        \* jobs rows: status and error_class
    stage,      \* job_stages rows: status of each stage
    running,    \* Service.running: the run registered for a job
    retrying,   \* Service.retrying
    run,        \* the executeJob goroutines
    call,       \* the CreateJob and RetryJob requests in progress
    proc,       \* the process: "down", "up", "draining", "stopping"
    listening,  \* its RPC listener accepts requests
    listed,     \* Start has read the resumable jobs
    resume,     \* resumable jobs dispatchResumableJobs has not reached
    dispatch,   \* the job it has taken from the list, or NoJob
    faults,     \* database writes that have failed
    halts,      \* crashes and shutdowns so far
    raced       \* history: jobs registered by CreateJob or the dispatcher
                \* while a retry had reserved them, or after Stop

vars == <<job, stage, running, retrying, run, call, proc, listening, listed,
          resume, dispatch, faults, halts, raced>>
db   == <<job, stage>>
env  == <<proc, listening, listed, resume, dispatch, halts>>

JobStatus   == {"none", "pending", "running", "completed", "failed", "cancelled"}
StageStatus == {"none", "pending", "running", "completed", "failed", "cancelled"}

RunPC == {"idle", "load", "snapshot", "work", "finalize", "claim", "complete",
          "failing", "panic", "interrupt", "endFailed", "endCancelled", "return"}

CallPC == {"idle", "insert", "stages", "register", "reserve", "plan", "reset",
           "setRunning"}

RunType ==
    [pc : RunPC, job : Jobs \cup {NoJob}, ctx : {"live", "cancelled", "stopped"},
     done : SUBSET Stages, active : SUBSET Stages, failed : SUBSET Analyzers,
     class : Classes, resumed : BOOLEAN, completing : BOOLEAN]

\* job is the job the request starts; orig the job RetryJob retries; status
\* and class are RetryJob's copy of orig's row; from is the stage it resets
\* from, or "none".
CallType ==
    [pc : CallPC, job : Jobs \cup {NoJob}, orig : Jobs \cup {NoJob},
     status : JobStatus, class : Classes, from : Stages \cup {"none"}]

IdleRun ==
    [pc |-> "idle", job |-> NoJob, ctx |-> "live", done |-> {}, active |-> {},
     failed |-> {}, class |-> "retryable", resumed |-> FALSE,
     completing |-> FALSE]

IdleCall ==
    [pc |-> "idle", job |-> NoJob, orig |-> NoJob, status |-> "none",
     class |-> "retryable", from |-> "none"]

\* &runningJob{cancel: cancel} and the goroutine started with it.
NewRun(j, resumed) ==
    [IdleRun EXCEPT !.pc = "load", !.job = j, !.resumed = resumed]

Live(r)    == run[r].pc # "idle"

\* Mutant: no completed-job trigger.
MutableAlways(j) == TRUE

Mutable(j) == job[j].status # "completed"

-----------------------------------------------------------------------------
(* Execution order: the analyzers that need no candidates, then candidate  *)
(* generation, the pair analyzers, synthesis, graph.                       *)
Phase(s) ==
    CASE s = "candidate_generation" -> 2
      [] s \in PairAnalyzers        -> 3
      [] s = "synthesis"            -> 4
      [] s = "graph"                -> 5
      [] OTHER                      -> 1

\* Candidate generation is skipped once no pair analyzer is left to run.
Needed(r, s) ==
    s = "candidate_generation" => PairAnalyzers \ run[r].done # {}

Ready(r, s) ==
    /\ s \notin run[r].done \cup run[r].active \cup run[r].failed
    /\ Needed(r, s)
    /\ \A t \in Stages : Phase(t) < Phase(s) /\ Needed(r, t) => t \in run[r].done

AllDone(r) == \A s \in Stages : Needed(r, s) => s \in run[r].done

\* The completed-job triggers: a completed job's row and its stage rows
\* refuse every update.
SetJob(j, status, class) ==
    IF Mutable(j) THEN [job EXCEPT ![j] = [status |-> status, class |-> class]] ELSE job

SetStage(j, s, status) ==
    IF Mutable(j) THEN [stage EXCEPT ![j][s] = status] ELSE stage

\* A failed database write: one of the faults the environment may inject.
Fault == faults < MaxFaults /\ faults' = faults + 1

\* A write on run r's own context also fails once that context is done.
CtxFault(r) ==
    \/ run[r].ctx # "live" /\ UNCHANGED faults
    \/ Fault

Init ==
    /\ job = [j \in Jobs |-> [status |-> "none", class |-> "retryable"]]
    /\ stage = [j \in Jobs |-> [s \in Stages |-> "none"]]
    /\ running = [j \in Jobs |-> NoRun]
    /\ retrying = {}
    /\ run = [r \in Runs |-> IdleRun]
    /\ call = [c \in Calls |-> IdleCall]
    /\ proc = "down" /\ listening = FALSE /\ listed = FALSE
    /\ resume = {} /\ dispatch = NoJob /\ faults = 0 /\ halts = 0 /\ raced = {}

-----------------------------------------------------------------------------
(* CreateJob                                                               *)

\* checkConcurrencyLimit
BelowLimit ==
    MaxConcurrentJobs = 0
      \/ Cardinality({j \in Jobs : running[j] # NoRun}) < MaxConcurrentJobs

\* A job ID no row, request or run uses: uuid.New().
Fresh(j) ==
    /\ job[j].status = "none"
    /\ \A c \in Calls : call[c].job # j

\* Validation, the concurrency limit and the new ID; a refused request
\* changes nothing.
CreateBegin(c, j) ==
    /\ call[c].pc = "idle" /\ listening
    /\ Fresh(j) /\ BelowLimit
    /\ call' = [call EXCEPT ![c] = [IdleCall EXCEPT !.pc = "insert", !.job = j]]
    /\ UNCHANGED <<db, running, retrying, run, env, faults, raced>>

\* The request returns; a RetryJob request gives up its reservation.
Leave(c) ==
    /\ call' = [call EXCEPT ![c] = IdleCall]
    /\ retrying' = retrying \ {call[c].orig}

\* store.CreateJob, in a transaction of its own.
CreateInsert(c) ==
    LET j == call[c].job
        row == [job EXCEPT ![j] = [status |-> "pending", class |-> "retryable"]]
    IN  /\ call[c].pc = "insert"
        /\ \/ /\ job' = row
              /\ call' = [call EXCEPT ![c].pc = "stages"]
              /\ UNCHANGED <<retrying, faults>>
           \/ /\ Fault
              /\ job' \in {job, row}
              /\ Leave(c)
        /\ UNCHANGED <<stage, running, run, env, raced>>

\* store.CreateStages, in a second transaction.
CreateStages(c) ==
    LET j == call[c].job
        rows == [stage EXCEPT ![j] = [s \in Stages |-> "pending"]]
    IN  /\ call[c].pc = "stages"
        /\ \/ /\ stage' = rows
              /\ call' = [call EXCEPT ![c].pc = "register"]
              /\ UNCHANGED <<retrying, faults>>
           \/ /\ Fault
              /\ stage' \in {stage, rows}
              /\ Leave(c)
        /\ UNCHANGED <<job, running, run, env, raced>>

\* s.running[jobID] = rj under s.mu, and the goroutine starts.  The entry is
\* written whatever it held, and CreateJob does not consult s.retrying.
Register(c) ==
    LET j == call[c].job
    IN  /\ call[c].pc = "register"
        /\ \E r \in Runs :
             /\ ~Live(r)
             /\ run' = [run EXCEPT ![r] = NewRun(j, FALSE)]
             /\ running' = [running EXCEPT ![j] = r]
        /\ Leave(c)
        /\ raced' = IF call[c].orig # j /\ j \in retrying THEN raced \cup {j} ELSE raced
        /\ UNCHANGED <<db, env, faults>>

-----------------------------------------------------------------------------
(* RetryJob                                                                *)

\* The job's row is read before anything is reserved.
RetryRead(c, j) ==
    /\ call[c].pc = "idle" /\ listening
    /\ job[j].status # "none"
    /\ call' = [call EXCEPT ![c] =
         [IdleCall EXCEPT !.pc = "reserve", !.orig = j,
                          !.status = job[j].status, !.class = job[j].class]]
    /\ UNCHANGED <<db, running, retrying, run, env, faults, raced>>

\* Mutant: retrying is not checked.
RetryReserveAgain(c) ==
    LET j == call[c].orig
    IN  /\ call[c].pc = "reserve"
        /\ IF running[j] # NoRun
             THEN /\ call' = [call EXCEPT ![c] = IdleCall]
                  /\ UNCHANGED retrying
             ELSE /\ call' = [call EXCEPT ![c].pc = "plan"]
                  /\ retrying' = retrying \cup {j}
        /\ UNCHANGED <<db, running, run, env, faults, raced>>

\* reserveRetry: refused while the job runs or another retry acts on it.
RetryReserve(c) ==
    LET j == call[c].orig
    IN  /\ call[c].pc = "reserve"
        /\ IF running[j] # NoRun \/ j \in retrying
             THEN /\ call' = [call EXCEPT ![c] = IdleCall]
                  /\ UNCHANGED retrying
             ELSE /\ call' = [call EXCEPT ![c].pc = "plan"]
                  /\ retrying' = retrying \cup {j}
        /\ UNCHANGED <<db, running, run, env, faults, raced>>

\* retryRefusal, and RetryJob's refusals of a new job with the same config.
RefusesResume(class) == class \in {"attestation_invalid", "empty_target_catalog"}
RefusesNewJob(class) == class = "empty_target_catalog"

Stopped(j) == {s \in Stages : stage[j][s] \in {"failed", "cancelled"}}

\* The first failed or cancelled stage in the order GetStages returns.
FirstFailed(j) == CHOOSE s \in Stopped(j) : \A t \in Stopped(j) : Rank[s] <= Rank[t]

\* From-failure: the refusal by class, the limit, and the stage to reset
\* from.  The class and the status are the ones RetryRead saw.
RetryPlan(c) ==
    LET j == call[c].orig
    IN  /\ call[c].pc = "plan"
        /\ \/ /\ ~RefusesResume(call[c].class) /\ BelowLimit
              /\ Stopped(j) # {}
              /\ call' = [call EXCEPT ![c].pc = "reset", ![c].job = j,
                                      ![c].from = FirstFailed(j)]
              /\ UNCHANGED retrying
           \/ /\ ~RefusesResume(call[c].class) /\ BelowLimit
              /\ Stopped(j) = {} /\ call[c].status \in {"failed", "cancelled"}
              /\ call' = [call EXCEPT ![c].pc = "setRunning", ![c].job = j]
              /\ UNCHANGED retrying
           \/ Leave(c)   \* refused, over the limit, or the read failed
        /\ UNCHANGED <<db, running, run, env, faults, raced>>

\* Without from-failure the config becomes a new job's.
RetryAsNew(c, j) ==
    /\ call[c].pc = "plan"
    /\ ~RefusesNewJob(call[c].class) /\ BelowLimit
    /\ Fresh(j)
    /\ call' = [call EXCEPT ![c].pc = "insert", ![c].job = j]
    /\ UNCHANGED <<db, running, retrying, run, env, faults, raced>>

\* The stages ResetStagesFrom resets: fromStage and the ones after it in the
\* list RetryJob passes, which is in GetStages' order.
ResetFrom(s) == {t \in Stages : Rank[t] >= Rank[s]}

RetryReset(c) ==
    LET j == call[c].job
        rows == [stage EXCEPT ![j] =
                  [s \in Stages |-> IF s \in ResetFrom(call[c].from)
                                      THEN "pending" ELSE stage[j][s]]]
    IN  /\ call[c].pc = "reset"
        /\ \/ /\ Mutable(j)
              /\ stage' = rows
              /\ call' = [call EXCEPT ![c].pc = "setRunning"]
              /\ UNCHANGED <<retrying, faults>>
           \/ /\ Mutable(j) /\ Fault
              /\ stage' \in {stage, rows}
              /\ Leave(c)
           \/ /\ ~Mutable(j)
              /\ Leave(c)
              /\ UNCHANGED <<stage, faults>>
        /\ UNCHANGED <<job, running, run, env, raced>>

RetrySetRunning(c) ==
    LET j == call[c].job
    IN  /\ call[c].pc = "setRunning"
        /\ \/ /\ Mutable(j)
              /\ job' = SetJob(j, "running", "retryable")
              /\ call' = [call EXCEPT ![c].pc = "register"]
              /\ UNCHANGED <<retrying, faults>>
           \/ /\ Mutable(j) /\ Fault
              /\ job' \in {job, SetJob(j, "running", "retryable")}
              /\ Leave(c)
           \/ /\ ~Mutable(j)
              /\ Leave(c)
              /\ UNCHANGED <<job, faults>>
        /\ UNCHANGED <<stage, running, run, env, raced>>

-----------------------------------------------------------------------------
(* CancelJob: one critical section of s.mu.  rj.cancelled is set together  *)
(* with the context's cause, so ctx = "cancelled" stands for both.         *)

CancelJob(j) ==
    LET r == running[j]
    IN  /\ listening
        /\ r # NoRun
        /\ ~run[r].completing /\ run[r].ctx # "cancelled"
        /\ run' = [run EXCEPT ![r].ctx = "cancelled"]
        /\ UNCHANGED <<db, running, retrying, call, env, faults, raced>>

-----------------------------------------------------------------------------
(* executeJob, one run r of one job                                        *)

\* Everything but the run, the rows and the fault count.
RunFrame == UNCHANGED <<running, retrying, call, env, raced>>

\* GetJob and UpdateJobStatus(running); a completed job refuses the update.
RunLoad(r) ==
    LET j == run[r].job
    IN  /\ run[r].pc = "load"
        /\ \/ /\ Mutable(j)
              /\ job' = SetJob(j, "running", "retryable")
              /\ run' = [run EXCEPT ![r].pc = "snapshot"]
              /\ UNCHANGED faults
           \/ /\ Mutable(j) /\ CtxFault(r)
              /\ job' \in {job, SetJob(j, "running", "retryable")}
              /\ run' = [run EXCEPT ![r].pc = "failing"]
           \/ /\ ~Mutable(j)
              /\ run' = [run EXCEPT ![r].pc = "failing"]
              /\ UNCHANGED <<job, faults>>
        /\ UNCHANGED stage
        /\ RunFrame

\* GetStages and completedStageSet: read once, used for the whole run.
RunSnapshot(r) ==
    /\ run[r].pc = "snapshot"
    /\ run' = [run EXCEPT ![r].pc = "work",
         ![r].done = {s \in Stages : stage[run[r].job][s] = "completed"}]
    /\ UNCHANGED <<db, faults>>
    /\ RunFrame

\* A stage starts.  The failed write of an analyzer's start is only logged
\* (DBStageReporter); one of a pipeline stage fails the job.
RunStageStart(r, s) ==
    LET j == run[r].job
    IN  /\ run[r].pc = "work" /\ Ready(r, s)
        /\ \/ /\ s \in Analyzers \/ Mutable(j)
              /\ stage' = SetStage(j, s, "running")
              /\ run' = [run EXCEPT ![r].active = @ \cup {s}]
              /\ UNCHANGED faults
           \/ /\ s \in Analyzers /\ CtxFault(r)
              /\ run' = [run EXCEPT ![r].active = @ \cup {s}]
              /\ UNCHANGED stage
           \/ /\ s \notin Analyzers
              /\ \/ CtxFault(r) /\ stage' \in {stage, SetStage(j, s, "running")}
                 \/ ~Mutable(j) /\ UNCHANGED <<stage, faults>>
              /\ run' = [run EXCEPT ![r].pc = "failing"]
        /\ UNCHANGED job
        /\ RunFrame

\* Mutant: the failed write of an analyzer's result is only logged.
RunStageDoneLossy(r, s) ==
    LET j == run[r].job
    IN  /\ run[r].pc = "work" /\ s \in run[r].active
        /\ run' = [run EXCEPT ![r].active = @ \ {s}, ![r].done = @ \cup {s}]
        /\ \/ /\ Mutable(j)
              /\ stage' = SetStage(j, s, "completed")
              /\ UNCHANGED faults
           \/ /\ CtxFault(r) \/ (~Mutable(j) /\ UNCHANGED faults)
              /\ UNCHANGED stage
        /\ UNCHANGED job
        /\ RunFrame

\* A stage completes.  CompleteAnalysisStage stores the result and the row
\* together, and its failure fails the analyzer; the failed write of a
\* pipeline stage's completion is only logged.
RunStageDone(r, s) ==
    LET j == run[r].job
    IN  /\ run[r].pc = "work" /\ s \in run[r].active
        /\ run' = [run EXCEPT ![r].active = @ \ {s}, ![r].done = @ \cup {s}]
        /\ \/ /\ Mutable(j)
              /\ stage' = SetStage(j, s, "completed")
              /\ UNCHANGED faults
           \/ /\ s \notin Analyzers
              /\ CtxFault(r) \/ (~Mutable(j) /\ UNCHANGED faults)
              /\ UNCHANGED stage
        /\ UNCHANGED job
        /\ RunFrame

\* An analyzer fails, on its own or because its result could not be stored:
\* recorded unless the job's context is done.  The write that failed may have
\* been committed.
RunAnalyzerFail(r, s) ==
    LET j == run[r].job
    IN  /\ run[r].pc = "work" /\ s \in run[r].active \cap Analyzers
        /\ run' = [run EXCEPT ![r].active = @ \ {s}, ![r].failed = @ \cup {s}]
        /\ \/ /\ run[r].ctx = "live"
              /\ stage' = SetStage(j, s, "failed")
              /\ UNCHANGED faults
           \/ /\ CtxFault(r)
              /\ stage' \in {stage, SetStage(j, s, "completed"), SetStage(j, s, "failed")}
        /\ UNCHANGED job
        /\ RunFrame

\* The analyzers of a pass have all ended and one failed.
RunPassFailed(r) ==
    /\ run[r].pc = "work" /\ run[r].failed # {} /\ run[r].active = {}
    /\ \E class \in Classes :
         run' = [run EXCEPT ![r].pc = "failing", ![r].class = class]
    /\ UNCHANGED <<db, faults>>
    /\ RunFrame

\* A pipeline stage fails.  Some of its errors mark the stage failed, the
\* others leave it running for endRunningStages.
RunPipelineStageFail(r, s) ==
    /\ run[r].pc = "work" /\ s \in run[r].active \ Analyzers
    /\ stage' \in {stage, SetStage(run[r].job, s, "failed")}
    /\ \E class \in Classes :
         run' = [run EXCEPT ![r].pc = "failing", ![r].class = class,
                            ![r].active = {}]
    /\ UNCHANGED <<job, faults>>
    /\ RunFrame

\* An error outside any stage: a read, a check of the job's catalogs, the
\* layout, an analyzer's link, the vote summaries, the bundle.
RunError(r) ==
    /\ run[r].pc \in {"snapshot", "work", "finalize"} /\ run[r].active = {}
    /\ \E class \in Classes :
         run' = [run EXCEPT ![r].pc = "failing", ![r].class = class]
    /\ UNCHANGED <<db, faults>>
    /\ RunFrame

\* Every stage has run: the context is checked before finalizing.
RunFinish(r) ==
    /\ run[r].pc = "work" /\ AllDone(r) /\ run[r].failed = {} /\ run[r].active = {}
    /\ run' = [run EXCEPT ![r].pc = IF run[r].ctx = "live" THEN "finalize"
                                                           ELSE "interrupt"]
    /\ UNCHANGED <<db, faults>>
    /\ RunFrame

\* finalizeAttestation stores the bundle.
RunFinalize(r) ==
    /\ run[r].pc = "finalize"
    /\ run' = [run EXCEPT ![r].pc = "claim"]
    /\ UNCHANGED <<db, faults>>
    /\ RunFrame

\* Mutant: the claim does not look at the context.
RunClaimBlind(r) ==
    /\ run[r].pc = "claim"
    /\ run' = [run EXCEPT ![r].pc = "complete", ![r].completing = TRUE]
    /\ UNCHANGED <<db, faults>>
    /\ RunFrame

\* claimCompletion, under s.mu.
RunClaim(r) ==
    /\ run[r].pc = "claim"
    /\ \/ /\ run[r].ctx = "live"
          /\ run' = [run EXCEPT ![r].pc = "complete", ![r].completing = TRUE]
       \/ /\ run[r].ctx # "live"
          /\ run' = [run EXCEPT ![r].pc = "interrupt"]
    /\ UNCHANGED <<db, faults>>
    /\ RunFrame

\* UpdateJobStatus(completed) on a detached context; its failure is logged.
RunComplete(r) ==
    LET row == SetJob(run[r].job, "completed", "retryable")
    IN  /\ run[r].pc = "complete"
        /\ \/ job' = row /\ UNCHANGED faults
           \/ Fault /\ job' \in {job, row}
        /\ run' = [run EXCEPT ![r].pc = "return"]
        /\ UNCHANGED stage
        /\ RunFrame

\* failJob: a job whose context is done did not fail on its own.  A panic
\* (pc "panic") is recorded whatever the context.
RunFail(r) ==
    LET row == SetJob(run[r].job, "failed", run[r].class)
    IN  /\ run[r].pc \in {"failing", "panic"}
        /\ \/ /\ run[r].pc = "failing" /\ run[r].ctx # "live"
              /\ run' = [run EXCEPT ![r].pc = "interrupt"]
              /\ UNCHANGED <<job, faults>>
           \/ /\ run[r].pc = "panic" \/ run[r].ctx = "live"
              /\ Mutable(run[r].job)
              /\ job' = row
              /\ run' = [run EXCEPT ![r].pc = "endFailed"]
              /\ UNCHANGED faults
           \/ /\ run[r].pc = "panic" \/ run[r].ctx = "live"
              /\ \/ Fault /\ job' \in {job, row}
                 \/ ~Mutable(run[r].job) /\ UNCHANGED <<job, faults>>
              /\ run' = [run EXCEPT ![r].pc = "return"]
        /\ UNCHANGED stage
        /\ RunFrame

\* Mutant: every interruption is taken for a shutdown.
RunInterruptSilent(r) ==
    /\ run[r].pc = "interrupt"
    /\ run' = [run EXCEPT ![r].pc = "return"]
    /\ UNCHANGED <<db, faults>>
    /\ RunFrame

\* interruptJob: only a cancel is recorded; a shutdown writes nothing.
RunInterrupt(r) ==
    LET row == SetJob(run[r].job, "cancelled", "retryable")
    IN  /\ run[r].pc = "interrupt"
        /\ \/ /\ run[r].ctx = "stopped"
              /\ run' = [run EXCEPT ![r].pc = "return"]
              /\ UNCHANGED <<job, faults>>
           \/ /\ run[r].ctx = "cancelled" /\ Mutable(run[r].job)
              /\ job' = row
              /\ run' = [run EXCEPT ![r].pc = "endCancelled"]
              /\ UNCHANGED faults
           \/ /\ run[r].ctx = "cancelled"
              /\ \/ Fault /\ job' \in {job, row}
                 \/ ~Mutable(run[r].job) /\ UNCHANGED <<job, faults>>
              /\ run' = [run EXCEPT ![r].pc = "return"]
        /\ UNCHANGED stage
        /\ RunFrame

\* Mutant: only a failed job's running stages are ended.
RunEndStagesFailedOnly(r) ==
    LET j == run[r].job
    IN  /\ run[r].pc \in {"endFailed", "endCancelled"}
        /\ stage' = [stage EXCEPT ![j] = [s \in Stages |->
             IF run[r].pc = "endFailed" /\ stage[j][s] = "running"
               THEN "failed" ELSE stage[j][s]]]
        /\ run' = [run EXCEPT ![r].pc = "return"]
        /\ UNCHANGED <<job, faults>>
        /\ RunFrame

\* endRunningStages: the stages still running end with the job; a failed
\* read or write leaves some of them as they are.
RunEndStages(r) ==
    LET j     == run[r].job
        left  == {s \in Stages : stage[j][s] = "running"}
        final == IF run[r].pc = "endFailed" THEN "failed" ELSE "cancelled"
        Ended(ended) ==
          IF Mutable(j)
            THEN [stage EXCEPT ![j] = [s \in Stages |->
                   IF s \in ended THEN final ELSE stage[j][s]]]
            ELSE stage
    IN  /\ run[r].pc \in {"endFailed", "endCancelled"}
        /\ \/ stage' = Ended(left) /\ UNCHANGED faults
           \/ Fault /\ \E ended \in SUBSET left : stage' = Ended(ended)
        /\ run' = [run EXCEPT ![r].pc = "return"]
        /\ UNCHANGED job
        /\ RunFrame

\* A panic in the goroutine, recovered by its deferred function.
RunPanic(r) ==
    /\ run[r].pc \in {"load", "snapshot", "work", "finalize", "complete"}
    /\ run' = [run EXCEPT ![r].pc = "panic", ![r].active = {}]
    /\ UNCHANGED <<db, faults>>
    /\ RunFrame

\* The first deferred function, which runs last: the entry goes only if it
\* is still this run's, and a resumed run's slot is freed.
RunReturn(r) ==
    LET j == run[r].job
    IN  /\ run[r].pc = "return"
        /\ run' = [run EXCEPT ![r] = IdleRun]
        /\ running' = [running EXCEPT ![j] = IF @ = r THEN NoRun ELSE @]
        /\ UNCHANGED <<db, retrying, call, env, faults, raced>>

RunStep(r) ==
    \/ RunLoad(r) \/ RunSnapshot(r)
    \/ \E s \in Stages : \/ RunStageStart(r, s) \/ RunStageDone(r, s)
                         \/ RunAnalyzerFail(r, s) \/ RunPipelineStageFail(r, s)
    \/ RunPassFailed(r) \/ RunError(r) \/ RunFinish(r) \/ RunFinalize(r)
    \/ RunClaim(r) \/ RunComplete(r) \/ RunFail(r) \/ RunInterrupt(r)
    \/ RunEndStages(r) \/ RunPanic(r) \/ RunReturn(r)

-----------------------------------------------------------------------------
(* The process (cmd/crosscodexd): start, resume, shutdown, crash           *)

StartProcess ==
    /\ proc = "down"
    /\ proc' = "up"
    /\ UNCHANGED <<db, running, retrying, run, call, listening, listed, resume,
                   dispatch, faults, halts, raced>>

\* Mutant: Start looks for jobs nobody has started.
StartServicePending ==
    /\ proc = "up" /\ ~listed
    /\ listed' = TRUE
    /\ resume' = {j \in Jobs : job[j].status = "pending"}
    /\ UNCHANGED <<db, running, retrying, run, call, proc, listening, dispatch,
                   faults, halts, raced>>

\* Service.Start reads the resumable jobs (status running) and hands them to
\* the dispatcher.
StartService ==
    /\ proc = "up" /\ ~listed
    /\ listed' = TRUE
    /\ resume' = {j \in Jobs : job[j].status = "running"}
    /\ UNCHANGED <<db, running, retrying, run, call, proc, listening, dispatch,
                   faults, halts, raced>>

\* The listener of role "pipeline" opens after Start; role "all" opens the
\* gateway, which calls the service in process, before it.
OpenListener ==
    /\ proc = "up" /\ ~listening
    /\ listed \/ RoleAll
    /\ listening' = TRUE
    /\ UNCHANGED <<db, running, retrying, run, call, proc, listed, resume,
                   dispatch, faults, halts, raced>>

\* dispatchResumableJobs takes the next job of the list Start read, unless
\* s.stopped is closed.
DispatchNext(j) ==
    /\ proc \in {"up", "draining"}
    /\ dispatch = NoJob /\ j \in resume
    /\ dispatch' = j /\ resume' = resume \ {j}
    /\ UNCHANGED <<db, running, retrying, run, call, proc, listening, listed,
                   faults, halts, raced>>

\* One slot of the resume semaphore; then, under s.mu, the job is registered
\* unless it is in running.  s.retrying and s.stopped are not consulted.
DispatchRegister ==
    LET j == dispatch
    IN  /\ dispatch # NoJob
        /\ MaxConcurrentJobs = 0
             \/ Cardinality({r \in Runs : Live(r) /\ run[r].resumed}) < MaxConcurrentJobs
        /\ dispatch' = NoJob
        /\ \/ /\ running[j] # NoRun
              /\ UNCHANGED <<running, run, raced>>
           \/ /\ running[j] = NoRun
              /\ \E r \in Runs :
                   /\ ~Live(r)
                   /\ run' = [run EXCEPT ![r] = NewRun(j, TRUE)]
                   /\ running' = [running EXCEPT ![j] = r]
              /\ raced' = IF j \in retrying \/ proc = "stopping"
                            THEN raced \cup {j} ELSE raced
        /\ UNCHANGED <<db, retrying, call, proc, listening, listed, resume,
                       faults, halts>>

\* While it waits for a slot, a closed s.stopped ends the dispatcher.
DispatchStop ==
    /\ proc = "stopping" /\ MaxConcurrentJobs > 0
    /\ dispatch # NoJob
    /\ dispatch' = NoJob
    /\ UNCHANGED <<db, running, retrying, run, call, proc, listening, listed,
                   resume, faults, halts, raced>>

\* A signal: the listeners drain before the services stop.
BeginShutdown ==
    /\ proc = "up" /\ listed /\ listening
    /\ halts < MaxHalts
    /\ proc' = "draining" /\ listening' = FALSE
    /\ UNCHANGED <<db, running, retrying, run, call, listed, resume, dispatch,
                   faults, halts, raced>>

\* Service.Stop, once no request is in flight: s.stopped is closed, every
\* registered run is stopped and the map is emptied while the runs still
\* execute.
StopService ==
    /\ proc = "draining"
    /\ \A c \in Calls : call[c].pc = "idle"
    /\ proc' = "stopping"
    /\ run' = [r \in Runs |->
         IF (\E j \in Jobs : running[j] = r) /\ run[r].ctx = "live"
           THEN [run[r] EXCEPT !.ctx = "stopped"] ELSE run[r]]
    /\ running' = [j \in Jobs |-> NoRun]
    /\ resume' = {}
    /\ UNCHANGED <<db, retrying, call, listening, listed, dispatch, faults,
                   halts, raced>>

\* The process ends and its memory with it.
Halt ==
    /\ halts < MaxHalts
    /\ halts' = halts + 1
    /\ proc' = "down" /\ listening' = FALSE /\ listed' = FALSE
    /\ running' = [j \in Jobs |-> NoRun] /\ retrying' = {}
    /\ run' = [r \in Runs |-> IdleRun] /\ call' = [c \in Calls |-> IdleCall]
    /\ resume' = {} /\ dispatch' = NoJob
    /\ UNCHANGED <<db, faults, raced>>

\* Stop has waited for every run and the dispatcher; an expired wait is a
\* Crash.
Exit ==
    /\ proc = "stopping" /\ dispatch = NoJob
    /\ \A r \in Runs : ~Live(r)
    /\ Halt

Crash == proc # "down" /\ Halt

-----------------------------------------------------------------------------
CallStep(c) ==
    \/ CreateInsert(c) \/ CreateStages(c) \/ Register(c)
    \/ RetryReserve(c) \/ RetryPlan(c) \/ RetryReset(c) \/ RetrySetRunning(c)
    \/ \E j \in Jobs : RetryAsNew(c, j)

Request ==
    \E j \in Jobs :
      \/ CancelJob(j)
      \/ \E c \in Calls : CreateBegin(c, j) \/ RetryRead(c, j)

Next ==
    \/ Request
    \/ \E c \in Calls : CallStep(c)
    \/ \E r \in Runs : RunStep(r)
    \/ \E j \in Jobs : DispatchNext(j)
    \/ DispatchRegister \/ DispatchStop
    \/ StartProcess \/ StartService \/ OpenListener
    \/ BeginShutdown \/ StopService \/ Exit \/ Crash

Spec == Init /\ [][Next]_vars

\* Goroutines are scheduled, a stage ends (every wait of one is bounded by a
\* timeout), a request is served and the supervisor restarts the process.
\* Nobody has to send a request, and nothing has to fail, panic or halt.
Fairness ==
    /\ \A r \in Runs : WF_vars(RunStep(r))
    /\ \A c \in Calls : WF_vars(CallStep(c))
    /\ \A j \in Jobs : WF_vars(DispatchNext(j))
    /\ WF_vars(DispatchRegister)
    /\ WF_vars(StartProcess) /\ WF_vars(StartService) /\ WF_vars(OpenListener)
    /\ WF_vars(StopService) /\ WF_vars(Exit)

FairSpec == Spec /\ Fairness

-----------------------------------------------------------------------------
(* Properties                                                              *)

\* Rows, maps, goroutines and requests keep their types, and a request or
\* run past its first step names the job it works for.
TypeOK ==
    /\ job \in [Jobs -> [status : JobStatus, class : Classes]]
    /\ stage \in [Jobs -> [Stages -> StageStatus]]
    /\ running \in [Jobs -> Runs \cup {NoRun}]
    /\ retrying \subseteq Jobs
    /\ run \in [Runs -> RunType]
    /\ \A r \in Runs : Live(r) => run[r].job \in Jobs
    /\ call \in [Calls -> CallType]
    /\ \A c \in Calls :
         /\ call[c].pc \in {"insert", "stages", "register", "reset", "setRunning"}
              => call[c].job \in Jobs
         /\ call[c].pc \in {"reserve", "plan", "reset", "setRunning"}
              => call[c].orig \in Jobs
         /\ call[c].pc = "reset" => call[c].from \in Stages
    /\ proc \in {"down", "up", "draining", "stopping"}
    /\ listening \in BOOLEAN /\ listed \in BOOLEAN
    /\ resume \subseteq Jobs /\ dispatch \in Jobs \cup {NoJob}
    /\ raced \subseteq Jobs
    /\ faults \in 0..MaxFaults /\ halts \in 0..MaxHalts

\* Service.running's contract (service.go:90): two runs of one job never
\* overlap, unless CreateJob or the resume dispatcher registered the job while
\* a retry had reserved it, or the dispatcher did after Stop emptied the map.
RunsExclusive ==
    \A r, q \in Runs :
      r # q /\ Live(r) /\ Live(q) /\ run[r].job = run[q].job
        => run[r].job \in raced

\* claimCompletion and CancelJob decide under one lock: a run that is writing
\* its job completed was never reported cancelled.
CancelOrComplete ==
    \A r \in Runs : run[r].completing => run[r].ctx # "cancelled"

\* The completed-job triggers: whatever retry, resume or second run follows,
\* a completed job's row and stage rows never change again.
CompletedIsFinal ==
    [][\A j \in Jobs : job[j].status = "completed"
         => job'[j] = job[j] /\ stage'[j] = stage[j]]_vars

\* ReportStageCompleted's contract (reporter.go:78): a completed job has
\* every analyzer's completed row, and so its stored result, through lost
\* writes, crashes, resumes and retries (unless two of its runs overlapped).
CompletedHasResults ==
    \A j \in Jobs \ raced : job[j].status = "completed"
      => \A a \in Analyzers : stage[j][a] = "completed"

\* endRunningStages (executor.go:821): once a failed or cancelled job's run
\* has ended, none of its stages claims to be running, when no write was lost
\* and the process did not halt.
EndedHasNoRunningStage ==
    faults = 0 /\ halts = 0 =>
      \A j \in Jobs \ raced :
        /\ job[j].status \in {"failed", "cancelled"}
        /\ \A r \in Runs : Live(r) => run[r].job # j
        => \A s \in Stages : stage[j][s] # "running"

-----------------------------------------------------------------------------
\* Start and executeJob's recovery (executor.go:87): while no database write
\* is lost, a running job ends, through cancels, crashes, shutdowns, panics
\* and retries.
RunningJobEnds ==
    \A j \in Jobs : job[j].status = "running" ~> job[j].status # "running"

\* CancelJob answered "cancelled" for a job that is not completed: while no
\* write is lost, the process does not halt and no second run of the job is
\* registered over a retry, the job ends cancelled, or failed if it had failed
\* by itself.
CancelTakesEffect ==
    \A j \in Jobs :
      (/\ job[j].status # "completed"
       /\ \E r \in Runs : run[r].job = j /\ run[r].ctx = "cancelled")
        ~> job[j].status \in {"cancelled", "failed"} \/ j \in raced \/ halts > 0
=============================================================================
