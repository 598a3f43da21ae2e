---------------------- MODULE PipelineServiceRunProofs ----------------------
(***************************************************************************)
(* The inductive invariant of PipelineService.  Every step of a run        *)
(* (executeJob) keeps it, and leaves a completed job alone; a step of a    *)
(* request keeps it that writes only its own job's rows and its record.    *)
(***************************************************************************)
EXTENDS PipelineService, WellFoundedInduction, TLAPS


-----------------------------------------------------------------------------
(* The inductive invariant                                                 *)

NoLive(j) == \A r \in Runs : Live(r) => run[r].job # j

\* A run of the job has been started: a job's status never goes back.
Begun(j) == job[j].status \notin {"none", "pending"}

\* c creates a job of its own (CreateJob, or RetryJob without from-failure).
Creates(c) ==
    \/ call[c].pc \in {"insert", "stages"}
    \/ call[c].pc = "register" /\ call[c].orig # call[c].job

\* c is a RetryJob past reserveRetry.
Reserved(c) == call[c].pc \notin {"idle", "reserve"} /\ call[c].orig # NoJob

ProcInv ==
    /\ proc = "down" => \A r \in Runs : ~Live(r)
    /\ \A c \in Calls : call[c].pc # "idle" => proc \in {"up", "draining"}
    /\ listening => proc = "up"
    /\ proc = "down" => dispatch = NoJob

\* Until Stop empties it, running names the run of every job that was not
\* registered behind a retry's back.
RegisteredInv ==
    proc # "stopping" =>
      \A r \in Runs : Live(r) /\ run[r].job \notin raced => running[run[r].job] = r

\* A run's job has a row, and a job without one has no stage that ran.
LiveInv ==
    /\ \A r \in Runs : Live(r) => job[run[r].job].status # "none"
    /\ \A j \in Jobs : job[j].status = "none" =>
         \A s \in Stages : stage[j][s] \in {"none", "pending"}

CallInv ==
    \A c \in Calls :
      /\ call[c].pc = "idle" => call[c].orig = NoJob
      /\ call[c].pc \in {"idle", "reserve", "plan"} => call[c].job = NoJob
      /\ call[c].pc \in {"reset", "setRunning"} => call[c].job = call[c].orig

\* A reservation is exclusive, and no run of the reserved job is live.
ReservedInv ==
    /\ \A c \in Calls : Reserved(c) =>
         /\ call[c].orig \in retrying
         /\ call[c].orig \notin raced => NoLive(call[c].orig)
    /\ \A c, d \in Calls :
         Reserved(c) /\ Reserved(d) /\ call[c].orig = call[d].orig => c = d

\* What RetryRead copied is still true of the job as far as it has begun.
OrigInv ==
    \A c \in Calls : call[c].orig # NoJob =>
      /\ job[call[c].orig].status # "none"
      /\ call[c].status \notin {"none", "pending"} => Begun(call[c].orig)

\* A job being created is untouched by everyone else.
CreatesInv ==
    \A c \in Calls : Creates(c) =>
      /\ call[c].orig # call[c].job
      /\ ~Begun(call[c].job)
      /\ call[c].pc # "insert" => job[call[c].job].status # "none"
      /\ NoLive(call[c].job)
      /\ \A s \in Stages : stage[call[c].job][s] \in {"none", "pending"}

JobInv ==
    \A c, d \in Calls : call[c].job # NoJob /\ call[c].job = call[d].job => c = d

ResumeInv ==
    /\ \A j \in resume : Begun(j)
    /\ dispatch # NoJob => Begun(dispatch)

WorkInv ==
    \A r \in Runs :
      /\ run[r].pc \in {"load", "snapshot"} => run[r].active = {}
      /\ run[r].active \cap run[r].done = {}
      /\ run[r].pc \in {"finalize", "claim", "complete"} => Analyzers \subseteq run[r].done

\* What a run believes completed is completed in the database.
DoneInv ==
    \A r \in Runs : Live(r) /\ run[r].job \notin raced =>
      \A a \in run[r].done \cap Analyzers : stage[run[r].job][a] = "completed"

IInv ==
    /\ TypeOK /\ ProcInv /\ RegisteredInv /\ RunsExclusive /\ LiveInv /\ CallInv
    /\ ReservedInv /\ OrigInv /\ CreatesInv /\ JobInv /\ ResumeInv
    /\ WorkInv /\ DoneInv /\ CompletedHasResults /\ CancelOrComplete

-----------------------------------------------------------------------------
(* Types of the records and rows                                           *)

\* The records of an idle run, an idle call and a new run have their types.
LEMMA IdleTyped ==
    /\ IdleRun \in RunType /\ IdleCall \in CallType
    /\ \A j \in Jobs, b \in BOOLEAN : NewRun(j, b) \in RunType
BY ConstantsAssumption, Zenon DEF IdleRun, IdleCall, NewRun, RunType, CallType, RunPC,
   CallPC, JobStatus

\* Counting a lost write stays within the bound.
LEMMA FaultTyped ==
    ASSUME TypeOK, NEW r, Fault \/ CtxFault(r) \/ UNCHANGED faults
    PROVE  faults' \in 0..MaxFaults
BY ConstantsAssumption DEF TypeOK, Fault, CtxFault

\* SetJob and SetStage write one row of a job that is not completed.
LEMMA JobWritten ==
    ASSUME TypeOK, NEW j \in Jobs, NEW st \in JobStatus \ {"none", "pending"},
           NEW class \in Classes, job' = job \/ job' = SetJob(j, st, class)
    PROVE  /\ job' \in [Jobs -> [status : JobStatus, class : Classes]]
           /\ \A k \in Jobs : k # j => job'[k] = job[k]
           /\ ~Mutable(j) => job'[j] = job[j]
           /\ job'[j] = job[j] \/ job'[j].status = st
           /\ job'[j] = job[j] \/ job'[j].status \notin {"none", "pending"}
BY DEF TypeOK, SetJob

-----------------------------------------------------------------------------
(* What every step of executeJob but its return does.  RunKeeps: it keeps  *)
(* to its own record and its own job's rows, and leaves a completed job    *)
(* alone.  RunLocal: its record stays consistent with those rows.          *)

RunKeeps(r) ==
    LET j == run[r].job
    IN  /\ Live(r)
        /\ run' = [run EXCEPT ![r] = run'[r]]
        /\ run'[r] \in RunType /\ run'[r].job = j /\ run'[r].pc # "idle"
        /\ UNCHANGED <<running, retrying, call, proc, listening, listed, resume,
                       dispatch, halts, raced>>
        /\ faults' \in 0..MaxFaults
        /\ job' \in [Jobs -> [status : JobStatus, class : Classes]]
        /\ stage' \in [Jobs -> [Stages -> StageStatus]]
        /\ \A k \in Jobs : k # j => job'[k] = job[k] /\ stage'[k] = stage[k]
        /\ ~Mutable(j) => job'[j] = job[j] /\ stage'[j] = stage[j]
        /\ job'[j] = job[j] \/ job'[j].status \notin {"none", "pending"}

RunLocal(r) ==
    LET j == run[r].job
    IN  /\ run'[r].pc \in {"load", "snapshot"} => run'[r].active = {}
        /\ run'[r].active \cap run'[r].done = {}
        /\ run'[r].pc \in {"finalize", "claim", "complete"}
             => Analyzers \subseteq run'[r].done
        /\ run'[r].completing => run'[r].ctx # "cancelled"
        /\ \A a \in run'[r].done \cap Analyzers :
             \/ stage'[j][a] = "completed"
             \/ /\ a \in run[r].done
                /\ stage[j][a] = "completed" => stage'[j][a] = "completed"
        /\ job'[j].status = "completed" =>
             \/ job[j].status = "completed"
             \/ Analyzers \subseteq run[r].done /\ stage' = stage

\* A stage write touches one row, and none of a completed job.
LEMMA StageWritten ==
    ASSUME TypeOK, NEW j \in Jobs, NEW s \in Stages, NEW st \in StageStatus,
           stage' = stage \/ stage' = SetStage(j, s, st)
    PROVE  /\ stage' \in [Jobs -> [Stages -> StageStatus]]
           /\ \A k \in Jobs : k # j => stage'[k] = stage[k]
           /\ ~Mutable(j) => stage'[j] = stage[j]
           /\ \A t \in Stages : t # s => stage'[j][t] = stage[j][t]
           /\ stage'[j][s] = stage[j][s] \/ stage'[j][s] = st
<1>1. CASE stage' = stage
  BY <1>1 DEF TypeOK
<1>2. CASE stage' = [stage EXCEPT ![j][s] = st] /\ Mutable(j)
  <2>1. stage[j] \in [Stages -> StageStatus]
    BY DEF TypeOK
  <2>2. stage' = [stage EXCEPT ![j] = [stage[j] EXCEPT ![s] = st]]
    BY <1>2
  <2>. QED
    BY <1>2, <2>1, <2>2 DEF TypeOK
<1>. QED
  BY <1>1, <1>2 DEF SetStage

\* executeJob's first status write preserves the invariant.
LEMMA LoadStep ==
    ASSUME IInv, NEW r \in Runs, RunLoad(r)
    PROVE  RunKeeps(r) /\ RunLocal(r)
<1>. DEFINE j == run[r].job
<1>1. /\ TypeOK /\ Live(r) /\ j \in Jobs
      /\ run[r] \in RunType
  BY DEF IInv, TypeOK, RunLoad, Live
<1>2. PICK p \in {"snapshot", "failing"} : run' = [run EXCEPT ![r].pc = p]
  BY DEF RunLoad
<1>3. /\ run'[r] = [run[r] EXCEPT !.pc = p]
      /\ run' = [run EXCEPT ![r] = run'[r]]
  BY <1>1, <1>2 DEF TypeOK
<1>4. /\ run'[r] \in RunType /\ run'[r].job = j /\ run'[r].pc # "idle"
      /\ run'[r].done = run[r].done /\ run'[r].active = run[r].active
      /\ run'[r].completing = run[r].completing /\ run'[r].ctx = run[r].ctx
      /\ run'[r].pc \in {"snapshot", "failing"}
  BY <1>1, <1>3 DEF RunType, RunPC
<1>5. faults' \in 0..MaxFaults
  BY <1>1, FaultTyped DEF RunLoad
<1>6. job' = job \/ job' = SetJob(j, "running", "retryable")
  BY DEF RunLoad
<1>7. /\ job' \in [Jobs -> [status : JobStatus, class : Classes]]
      /\ \A k \in Jobs : k # j => job'[k] = job[k]
      /\ ~Mutable(j) => job'[j] = job[j]
      /\ job'[j] = job[j] \/ job'[j].status = "running"
  BY <1>1, <1>6, JobWritten, "running" \in JobStatus, ConstantsAssumption DEF JobStatus
<1>8. UNCHANGED <<stage, running, retrying, call, proc, listening, listed, resume,
                  dispatch, halts, raced>>
  BY DEF RunLoad, RunFrame, env
<1>9. RunKeeps(r)
  BY <1>1, <1>3, <1>4, <1>5, <1>7, <1>8, ZenonT(60) DEF RunKeeps, TypeOK
<1>10. RunLocal(r)
  BY <1>1, <1>4, <1>7, <1>8 DEF RunLocal, IInv, WorkInv, CancelOrComplete, RunLoad
<1>. QED
  BY <1>9, <1>10

\* A step of executeJob that writes no row.
LEMMA QuietStep ==
    ASSUME IInv, NEW r \in Runs, Live(r), NEW rec \in RunType,
           run' = [run EXCEPT ![r] = rec], UNCHANGED <<db, faults>>, RunFrame,
           rec.job = run[r].job, rec.pc # "idle",
           rec.pc \in {"load", "snapshot"} => rec.active = {},
           rec.active \cap rec.done = {},
           rec.pc \in {"finalize", "claim", "complete"} => Analyzers \subseteq rec.done,
           rec.completing => rec.ctx # "cancelled",
           \A a \in rec.done \cap Analyzers :
             a \in run[r].done \/ stage[run[r].job][a] = "completed"
    PROVE  RunKeeps(r) /\ RunLocal(r)
<1>1. TypeOK /\ run'[r] = rec
  BY DEF IInv, TypeOK
<1>2. RunKeeps(r)
  BY <1>1 DEF RunKeeps, RunFrame, db, env, TypeOK
<1>3. RunLocal(r)
  BY <1>1 DEF RunLocal, db
<1>. QED
  BY <1>2, <1>3

\* What the invariant says of a live run.
LEMMA RunFacts ==
    ASSUME IInv, NEW r \in Runs, Live(r)
    PROVE  /\ run[r] \in RunType /\ run[r].job \in Jobs
           /\ run[r].pc \in {"load", "snapshot"} => run[r].active = {}
           /\ run[r].active \cap run[r].done = {}
           /\ run[r].pc \in {"finalize", "claim", "complete"}
                => Analyzers \subseteq run[r].done
           /\ run[r].completing => run[r].ctx # "cancelled"
           /\ run[r].done \subseteq Stages /\ run[r].active \subseteq Stages
BY DEF IInv, TypeOK, WorkInv, CancelOrComplete, RunType

\* Reading the completed stages preserves the invariant: a run believes
\* completed only what the rows say.
LEMMA SnapshotStep ==
    ASSUME IInv, NEW r \in Runs, RunSnapshot(r)
    PROVE  RunKeeps(r) /\ RunLocal(r)
<1>. DEFINE D == {s \in Stages : stage[run[r].job][s] = "completed"}
            rec == [run[r] EXCEPT !.pc = "work", !.done = D]
<1>1. Live(r) /\ run[r].pc = "snapshot"
  BY DEF RunSnapshot, Live
<1>2. D \in SUBSET Stages
  OBVIOUS
<1>3. /\ rec \in RunType /\ rec.job = run[r].job /\ rec.pc = "work" /\ rec.done = D
      /\ rec.active = run[r].active /\ rec.completing = run[r].completing
      /\ rec.ctx = run[r].ctx
  <2>. HIDE DEF D
  <2>. QED
    BY <1>1, <1>2, RunFacts, ZenonT(30) DEF RunType, RunPC
<1>4. run' = [run EXCEPT ![r] = rec]
  BY Zenon DEF RunSnapshot, IInv, TypeOK
<1>5. \A a \in rec.done \cap Analyzers : stage[run[r].job][a] = "completed"
  BY <1>3
<1>6. rec.active = {} /\ (rec.completing => rec.ctx # "cancelled")
  BY <1>1, <1>3, RunFacts
<1>7. UNCHANGED <<db, faults>> /\ RunFrame
  BY DEF RunSnapshot
<1>. HIDE DEF rec
<1>. QED
  BY <1>1, <1>3, <1>4, <1>5, <1>6, <1>7, QuietStep, Zenon

\* The end of a failed analysis pass preserves the invariant.
LEMMA PassFailedStep ==
    ASSUME IInv, NEW r \in Runs, RunPassFailed(r)
    PROVE  RunKeeps(r) /\ RunLocal(r)
<1>1. PICK class \in Classes : run' = [run EXCEPT ![r].pc = "failing", ![r].class = class]
  BY Zenon DEF RunPassFailed
<1>. DEFINE rec == [run[r] EXCEPT !.pc = "failing", !.class = class]
<1>2. Live(r) /\ UNCHANGED <<db, faults>> /\ RunFrame
  BY DEF RunPassFailed, Live
<1>3. /\ rec \in RunType /\ rec.job = run[r].job
      /\ rec.pc = "failing" /\ rec.done = run[r].done
      /\ rec.active = run[r].active /\ rec.completing = run[r].completing
      /\ rec.ctx = run[r].ctx
  BY <1>1, <1>2, RunFacts, Zenon DEF RunType, RunPC
<1>4. run' = [run EXCEPT ![r] = rec]
  BY <1>1, Zenon DEF IInv, TypeOK
<1>. HIDE DEF rec
<1>. QED
  BY <1>1, <1>2, <1>3, <1>4, RunFacts, QuietStep, Zenon

\* An error outside a stage preserves the invariant.
LEMMA ErrorStep ==
    ASSUME IInv, NEW r \in Runs, RunError(r)
    PROVE  RunKeeps(r) /\ RunLocal(r)
<1>1. PICK class \in Classes : run' = [run EXCEPT ![r].pc = "failing", ![r].class = class]
  BY Zenon DEF RunError
<1>. DEFINE rec == [run[r] EXCEPT !.pc = "failing", !.class = class]
<1>2. Live(r) /\ UNCHANGED <<db, faults>> /\ RunFrame
  BY DEF RunError, Live
<1>3. /\ rec \in RunType /\ rec.job = run[r].job
      /\ rec.pc = "failing" /\ rec.done = run[r].done
      /\ rec.active = run[r].active /\ rec.completing = run[r].completing
      /\ rec.ctx = run[r].ctx
  BY <1>1, <1>2, RunFacts, Zenon DEF RunType, RunPC
<1>4. run' = [run EXCEPT ![r] = rec]
  BY <1>1, Zenon DEF IInv, TypeOK
<1>. HIDE DEF rec
<1>. QED
  BY <1>1, <1>2, <1>3, <1>4, RunFacts, QuietStep, Zenon

\* The last stage's end preserves the invariant.
LEMMA FinishStep ==
    ASSUME IInv, NEW r \in Runs, RunFinish(r)
    PROVE  RunKeeps(r) /\ RunLocal(r)
<1>1. PICK p \in {"finalize", "interrupt"} : run' = [run EXCEPT ![r].pc = p]
  BY Zenon DEF RunFinish
<1>. DEFINE rec == [run[r] EXCEPT !.pc = p]
<1>2. Live(r) /\ UNCHANGED <<db, faults>> /\ RunFrame
  BY DEF RunFinish, Live
<1>3. /\ rec \in RunType /\ rec.job = run[r].job
      /\ rec.pc = p /\ rec.done = run[r].done
      /\ rec.active = run[r].active /\ rec.completing = run[r].completing
      /\ rec.ctx = run[r].ctx
  BY <1>1, <1>2, RunFacts DEF RunType, RunPC
<1>4. run' = [run EXCEPT ![r] = rec]
  BY <1>1 DEF IInv, TypeOK
<1>5. Analyzers \subseteq run[r].done
  BY ConstantsAssumption DEF RunFinish, AllDone, Needed, Stages
<1>. HIDE DEF rec
<1>. QED
  BY <1>1, <1>2, <1>3, <1>4, <1>5, RunFacts, QuietStep, Zenon

\* Storing the attestation bundle preserves the invariant.
LEMMA FinalizeStep ==
    ASSUME IInv, NEW r \in Runs, RunFinalize(r)
    PROVE  RunKeeps(r) /\ RunLocal(r)
<1>1. run' = [run EXCEPT ![r].pc = "claim"]
  BY DEF RunFinalize
<1>. DEFINE rec == [run[r] EXCEPT !.pc = "claim"]
<1>2. Live(r) /\ UNCHANGED <<db, faults>> /\ RunFrame
  BY DEF RunFinalize, Live
<1>3. /\ rec \in RunType /\ rec.job = run[r].job
      /\ rec.pc = "claim" /\ rec.done = run[r].done
      /\ rec.active = run[r].active /\ rec.completing = run[r].completing
      /\ rec.ctx = run[r].ctx
  BY <1>1, <1>2, RunFacts DEF RunType, RunPC
<1>4. run' = [run EXCEPT ![r] = rec]
  BY <1>1 DEF IInv, TypeOK
<1>5. Analyzers \subseteq run[r].done
  BY <1>2, RunFacts DEF RunFinalize
<1>. HIDE DEF rec
<1>. QED
  BY <1>1, <1>2, <1>3, <1>4, <1>5, RunFacts, QuietStep, Zenon

\* A recovered panic preserves the invariant.
LEMMA PanicStep ==
    ASSUME IInv, NEW r \in Runs, RunPanic(r)
    PROVE  RunKeeps(r) /\ RunLocal(r)
<1>1. run' = [run EXCEPT ![r].pc = "panic", ![r].active = {}]
  BY DEF RunPanic
<1>. DEFINE rec == [run[r] EXCEPT !.pc = "panic", !.active = {}]
<1>2. Live(r) /\ UNCHANGED <<db, faults>> /\ RunFrame
  BY DEF RunPanic, Live
<1>3. /\ rec \in RunType /\ rec.job = run[r].job
      /\ rec.pc = "panic" /\ rec.done = run[r].done
      /\ rec.active = {} /\ rec.completing = run[r].completing
      /\ rec.ctx = run[r].ctx
  BY <1>1, <1>2, RunFacts, Zenon DEF RunType, RunPC
<1>4. run' = [run EXCEPT ![r] = rec]
  BY <1>1, Zenon DEF IInv, TypeOK
<1>. HIDE DEF rec
<1>. QED
  BY <1>1, <1>2, <1>3, <1>4, RunFacts, QuietStep, Zenon

\* claimCompletion preserves the invariant: it sees a cancel made before it.
LEMMA ClaimStep ==
    ASSUME IInv, NEW r \in Runs, RunClaim(r)
    PROVE  RunKeeps(r) /\ RunLocal(r)
<1>1. Live(r) /\ UNCHANGED <<db, faults>> /\ RunFrame /\ Analyzers \subseteq run[r].done
  BY RunFacts DEF RunClaim, Live
<1>2. CASE run[r].ctx = "live" /\ run' = [run EXCEPT ![r].pc = "complete", ![r].completing = TRUE]
  <2>. DEFINE rec == [run[r] EXCEPT !.pc = "complete", !.completing = TRUE]
  <2>1. /\ rec \in RunType /\ rec.job = run[r].job /\ rec.pc = "complete"
        /\ rec.done = run[r].done /\ rec.active = run[r].active /\ rec.ctx = "live"
    BY <1>1, <1>2, RunFacts, ZenonT(30) DEF RunType, RunPC
  <2>2. run' = [run EXCEPT ![r] = rec]
    BY <1>2, Zenon DEF IInv, TypeOK
  <2>. HIDE DEF rec
  <2>. QED
    BY <1>1, <2>1, <2>2, RunFacts, QuietStep, Zenon
<1>3. CASE run' = [run EXCEPT ![r].pc = "interrupt"]
  <2>. DEFINE rec == [run[r] EXCEPT !.pc = "interrupt"]
  <2>1. /\ rec \in RunType /\ rec.job = run[r].job /\ rec.pc = "interrupt"
        /\ rec.done = run[r].done /\ rec.active = run[r].active /\ rec.ctx = run[r].ctx
        /\ rec.completing = run[r].completing
    BY <1>1, RunFacts DEF RunType, RunPC
  <2>2. run' = [run EXCEPT ![r] = rec]
    BY <1>3 DEF IInv, TypeOK
  <2>. HIDE DEF rec
  <2>. QED
    BY <1>1, <2>1, <2>2, RunFacts, QuietStep, Zenon
<1>. QED
  BY <1>2, <1>3 DEF RunClaim

\* A step of executeJob that writes a stage row.
LEMMA StageStep ==
    ASSUME IInv, NEW r \in Runs, Live(r), NEW rec \in RunType,
           NEW s \in Stages, NEW st \in StageStatus,
           run' = [run EXCEPT ![r] = rec], UNCHANGED job, RunFrame,
           faults' \in 0..MaxFaults,
           stage' = stage \/ stage' = SetStage(run[r].job, s, st),
           rec.job = run[r].job, rec.pc \in {"work", "failing"},
           rec.active \cap rec.done = {},
           rec.completing => rec.ctx # "cancelled",
           \A a \in rec.done \cap Analyzers :
             \/ stage'[run[r].job][a] = "completed"
             \/ a \in run[r].done /\ a # s
    PROVE  RunKeeps(r) /\ RunLocal(r)
<1>. DEFINE j == run[r].job
<1>1. TypeOK /\ run'[r] = rec /\ run' = [run EXCEPT ![r] = run'[r]] /\ j \in Jobs
  BY RunFacts DEF IInv, TypeOK
<1>2. /\ stage' \in [Jobs -> [Stages -> StageStatus]]
      /\ \A k \in Jobs : k # j => stage'[k] = stage[k]
      /\ ~Mutable(j) => stage'[j] = stage[j]
      /\ \A t \in Stages : t # s => stage'[j][t] = stage[j][t]
  BY <1>1, StageWritten
<1>3. RunKeeps(r)
  BY <1>1, <1>2 DEF RunKeeps, RunFrame, env, TypeOK
<1>4. Analyzers \subseteq Stages
  BY DEF Stages
<1>5. RunLocal(r)
  BY <1>1, <1>2, <1>4 DEF RunLocal
<1>. QED
  BY <1>3, <1>5

\* A step of executeJob that writes the job's row.
LEMMA JobStep ==
    ASSUME IInv, NEW r \in Runs, Live(r), NEW p \in RunPC,
           NEW st \in JobStatus \ {"none", "pending"}, NEW class \in Classes,
           run' = [run EXCEPT ![r].pc = p], UNCHANGED stage, RunFrame,
           faults' \in 0..MaxFaults,
           job' = job \/ job' = SetJob(run[r].job, st, class),
           p \notin {"idle", "load", "snapshot", "finalize", "claim", "complete"},
           st = "completed" => Analyzers \subseteq run[r].done
    PROVE  RunKeeps(r) /\ RunLocal(r)
<1>. DEFINE j == run[r].job
<1>1. TypeOK /\ run[r] \in RunType /\ j \in Jobs
  BY RunFacts DEF IInv
<1>2. run'[r] = [run[r] EXCEPT !.pc = p] /\ run' = [run EXCEPT ![r] = run'[r]]
  BY <1>1 DEF TypeOK
<1>3. /\ run'[r] \in RunType /\ run'[r].job = j /\ run'[r].pc = p
      /\ run'[r].done = run[r].done /\ run'[r].active = run[r].active
      /\ run'[r].completing = run[r].completing /\ run'[r].ctx = run[r].ctx
  BY <1>1, <1>2 DEF RunType
<1>4. /\ job' \in [Jobs -> [status : JobStatus, class : Classes]]
      /\ \A k \in Jobs : k # j => job'[k] = job[k]
      /\ ~Mutable(j) => job'[j] = job[j]
      /\ job'[j] = job[j] \/ job'[j].status = st
      /\ job'[j] = job[j] \/ job'[j].status \notin {"none", "pending"}
  BY <1>1, JobWritten
<1>5. RunKeeps(r)
  BY <1>1, <1>2, <1>3, <1>4 DEF RunKeeps, RunFrame, env, TypeOK
<1>6. RunLocal(r)
  BY <1>3, <1>4, RunFacts DEF RunLocal
<1>. QED
  BY <1>5, <1>6

\* Writing the job completed preserves the invariant: every analyzer's row is.
LEMMA CompleteStep ==
    ASSUME IInv, NEW r \in Runs, RunComplete(r)
    PROVE  RunKeeps(r) /\ RunLocal(r)
<1>1. /\ Live(r) /\ run' = [run EXCEPT ![r].pc = "return"]
      /\ UNCHANGED stage /\ RunFrame
      /\ job' = job \/ job' = SetJob(run[r].job, "completed", "retryable")
  BY DEF RunComplete, Live
<1>2. Analyzers \subseteq run[r].done
  BY <1>1, RunFacts DEF RunComplete
<1>3. faults' \in 0..MaxFaults
  BY FaultTyped DEF RunComplete, IInv
<1>4. "completed" \in JobStatus \ {"none", "pending"} /\ "return" \in RunPC
  BY DEF JobStatus, RunPC
<1>. QED
  BY <1>1, <1>2, <1>3, <1>4, JobStep, ConstantsAssumption, Zenon

\* failJob preserves the invariant.
LEMMA FailStep ==
    ASSUME IInv, NEW r \in Runs, RunFail(r)
    PROVE  RunKeeps(r) /\ RunLocal(r)
<1>1. /\ Live(r) /\ UNCHANGED stage /\ RunFrame
      /\ job' = job \/ job' = SetJob(run[r].job, "failed", run[r].class)
  BY DEF RunFail, Live
<1>2. PICK p \in {"interrupt", "endFailed", "return"} : run' = [run EXCEPT ![r].pc = p]
  BY DEF RunFail
<1>3. faults' \in 0..MaxFaults
  BY FaultTyped DEF RunFail, IInv
<1>4. "failed" \in JobStatus \ {"none", "pending"} /\ p \in RunPC
  BY DEF JobStatus, RunPC
<1>5. run[r].class \in Classes
  BY <1>1, RunFacts DEF RunType
<1>. QED
  BY <1>1, <1>2, <1>3, <1>4, <1>5, JobStep, Zenon

\* interruptJob preserves the invariant.
LEMMA InterruptStep ==
    ASSUME IInv, NEW r \in Runs, RunInterrupt(r)
    PROVE  RunKeeps(r) /\ RunLocal(r)
<1>1. /\ Live(r) /\ UNCHANGED stage /\ RunFrame
      /\ job' = job \/ job' = SetJob(run[r].job, "cancelled", "retryable")
  BY DEF RunInterrupt, Live
<1>2. PICK p \in {"endCancelled", "return"} : run' = [run EXCEPT ![r].pc = p]
  BY DEF RunInterrupt
<1>3. faults' \in 0..MaxFaults
  BY FaultTyped DEF RunInterrupt, IInv
<1>4. "cancelled" \in JobStatus \ {"none", "pending"} /\ p \in RunPC
  BY DEF JobStatus, RunPC
<1>. QED
  BY <1>1, <1>2, <1>3, <1>4, JobStep, ConstantsAssumption, Zenon

\* Marking a stage running preserves the invariant.
LEMMA StageStartStep ==
    ASSUME IInv, NEW r \in Runs, NEW s \in Stages, RunStageStart(r, s)
    PROVE  RunKeeps(r) /\ RunLocal(r)
<1>1. /\ Live(r) /\ UNCHANGED job /\ RunFrame /\ run[r].pc = "work"
      /\ stage' = stage \/ stage' = SetStage(run[r].job, s, "running")
      /\ s \notin run[r].done
  BY DEF RunStageStart, Live, Ready
<1>2. faults' \in 0..MaxFaults
  BY FaultTyped DEF RunStageStart, IInv
<1>3. "running" \in StageStatus
  BY DEF StageStatus
<1>4. CASE run' = [run EXCEPT ![r].active = @ \cup {s}]
  <2>. DEFINE A == run[r].active \cup {s}
              rec == [run[r] EXCEPT !.active = A]
  <2>1. A \in SUBSET Stages /\ A \cap run[r].done = {}
    BY <1>1, RunFacts
  <2>2. /\ rec \in RunType /\ rec.job = run[r].job /\ rec.pc = "work"
        /\ rec.done = run[r].done /\ rec.active = A /\ rec.ctx = run[r].ctx
        /\ rec.completing = run[r].completing
    <3>. HIDE DEF A
    <3>. QED
      BY <1>1, <2>1, RunFacts DEF RunType
  <2>3. run' = [run EXCEPT ![r] = rec]
    BY <1>4 DEF IInv, TypeOK
  <2>4. /\ rec.active \cap rec.done = {}
        /\ rec.completing => rec.ctx # "cancelled"
        /\ \A a \in rec.done \cap Analyzers : a \in run[r].done /\ a # s
    BY <1>1, <2>1, <2>2, RunFacts
  <2>. HIDE DEF rec
  <2>. QED
    BY <1>1, <1>2, <1>3, <2>2, <2>3, <2>4, StageStep, Zenon
<1>5. CASE run' = [run EXCEPT ![r].pc = "failing"]
  <2>. DEFINE rec == [run[r] EXCEPT !.pc = "failing"]
  <2>1. /\ rec \in RunType /\ rec.job = run[r].job /\ rec.pc = "failing"
        /\ rec.done = run[r].done /\ rec.active = run[r].active
        /\ rec.ctx = run[r].ctx /\ rec.completing = run[r].completing
    BY <1>1, RunFacts DEF RunType, RunPC
  <2>2. run' = [run EXCEPT ![r] = rec]
    BY <1>5 DEF IInv, TypeOK
  <2>3. /\ rec.active \cap rec.done = {}
        /\ rec.completing => rec.ctx # "cancelled"
        /\ \A a \in rec.done \cap Analyzers : a \in run[r].done /\ a # s
    BY <1>1, <2>1, RunFacts
  <2>. HIDE DEF rec
  <2>. QED
    BY <1>1, <1>2, <1>3, <2>1, <2>2, <2>3, StageStep, Zenon
<1>. QED
  BY <1>4, <1>5 DEF RunStageStart

\* CompleteAnalysisStage preserves the invariant, also when its answer is lost.
LEMMA StageDoneStep ==
    ASSUME IInv, NEW r \in Runs, NEW s \in Stages, RunStageDone(r, s)
    PROVE  RunKeeps(r) /\ RunLocal(r)
<1>. DEFINE j   == run[r].job
            A   == run[r].active \ {s}
            D   == run[r].done \cup {s}
            rec == [run[r] EXCEPT !.active = A, !.done = D]
<1>1. /\ Live(r) /\ UNCHANGED job /\ RunFrame /\ run[r].pc = "work"
      /\ stage' = stage \/ stage' = SetStage(j, s, "completed")
      /\ s \in run[r].active
  BY DEF RunStageDone, Live
<1>2. faults' \in 0..MaxFaults
  BY FaultTyped DEF RunStageDone, IInv
<1>3. "completed" \in StageStatus
  BY DEF StageStatus
<1>4. A \in SUBSET Stages /\ D \in SUBSET Stages /\ A \cap D = {}
  BY <1>1, RunFacts
<1>5. /\ rec \in RunType /\ rec.job = j /\ rec.pc = "work"
      /\ rec.done = D /\ rec.active = A /\ rec.ctx = run[r].ctx
      /\ rec.completing = run[r].completing
  <2>. HIDE DEF A, D
  <2>. QED
    BY <1>1, <1>4, RunFacts, ZenonT(30) DEF RunType
<1>6. run' = [run EXCEPT ![r] = rec]
  BY Zenon DEF RunStageDone, IInv, TypeOK
<1>7. s \in Analyzers => stage'[j][s] = "completed"
  <2>1. s \in Analyzers => stage' = [stage EXCEPT ![j][s] = "completed"]
    BY DEF RunStageDone, SetStage
  <2>. QED
    BY <1>1, <2>1, RunFacts DEF IInv, TypeOK
<1>8. /\ rec.active \cap rec.done = {}
      /\ rec.completing => rec.ctx # "cancelled"
      /\ \A a \in rec.done \cap Analyzers :
           stage'[j][a] = "completed" \/ (a \in run[r].done /\ a # s)
  BY <1>1, <1>4, <1>5, <1>7, RunFacts
<1>. HIDE DEF rec
<1>. QED
  BY <1>1, <1>2, <1>3, <1>5, <1>6, <1>8, StageStep, Zenon

\* A failed analyzer preserves the invariant.
LEMMA AnalyzerFailStep ==
    ASSUME IInv, NEW r \in Runs, NEW s \in Stages, RunAnalyzerFail(r, s)
    PROVE  RunKeeps(r) /\ RunLocal(r)
<1>. DEFINE A   == run[r].active \ {s}
            F   == run[r].failed \cup {s}
            rec == [run[r] EXCEPT !.active = A, !.failed = F]
<1>1. /\ Live(r) /\ UNCHANGED job /\ RunFrame /\ run[r].pc = "work"
      /\ s \in run[r].active /\ s \in Analyzers
  BY DEF RunAnalyzerFail, Live
<1>2. PICK st \in {"failed", "completed"} :
        stage' = stage \/ stage' = SetStage(run[r].job, s, st)
  BY DEF RunAnalyzerFail
<1>3. faults' \in 0..MaxFaults
  BY FaultTyped DEF RunAnalyzerFail, IInv
<1>4. st \in StageStatus
  BY DEF StageStatus
<1>5. /\ A \in SUBSET Stages /\ F \in SUBSET Analyzers
      /\ A \cap run[r].done = {} /\ s \notin run[r].done
  BY <1>1, RunFacts DEF RunType
<1>6. /\ rec \in RunType /\ rec.job = run[r].job /\ rec.pc = "work"
      /\ rec.done = run[r].done /\ rec.active = A /\ rec.ctx = run[r].ctx
      /\ rec.completing = run[r].completing
  <2>. HIDE DEF A, F
  <2>. QED
    BY <1>1, <1>5, RunFacts, Zenon DEF RunType
<1>7. run' = [run EXCEPT ![r] = rec]
  BY Zenon DEF RunAnalyzerFail, IInv, TypeOK
<1>8. /\ rec.active \cap rec.done = {}
      /\ rec.completing => rec.ctx # "cancelled"
      /\ \A a \in rec.done \cap Analyzers :
           stage'[run[r].job][a] = "completed" \/ (a \in run[r].done /\ a # s)
  BY <1>1, <1>5, <1>6, RunFacts
<1>. HIDE DEF rec, A, F
<1>. QED
  BY <1>1, <1>2, <1>3, <1>4, <1>6, <1>7, <1>8, StageStep, Zenon

\* A failed pipeline stage preserves the invariant.
LEMMA PipelineStageFailStep ==
    ASSUME IInv, NEW r \in Runs, NEW s \in Stages, RunPipelineStageFail(r, s)
    PROVE  RunKeeps(r) /\ RunLocal(r)
<1>1. /\ Live(r) /\ UNCHANGED job /\ RunFrame /\ faults' = faults
      /\ s \in run[r].active
      /\ stage' = stage \/ stage' = SetStage(run[r].job, s, "failed")
  BY DEF RunPipelineStageFail, Live
<1>2. PICK class \in Classes :
        run' = [run EXCEPT ![r].pc = "failing", ![r].class = class, ![r].active = {}]
  BY Zenon DEF RunPipelineStageFail
<1>. DEFINE rec == [run[r] EXCEPT !.pc = "failing", !.class = class, !.active = {}]
<1>3. "failed" \in StageStatus /\ faults' \in 0..MaxFaults /\ s \notin run[r].done
  BY <1>1, RunFacts DEF StageStatus, IInv, TypeOK
<1>4. /\ rec \in RunType /\ rec.job = run[r].job /\ rec.pc = "failing"
      /\ rec.done = run[r].done /\ rec.active = {} /\ rec.ctx = run[r].ctx
      /\ rec.completing = run[r].completing
  BY <1>1, RunFacts, ZenonT(60) DEF RunType, RunPC
<1>5. run' = [run EXCEPT ![r] = rec]
  BY <1>2, Zenon DEF IInv, TypeOK
<1>6. /\ rec.active \cap rec.done = {}
      /\ rec.completing => rec.ctx # "cancelled"
      /\ \A a \in rec.done \cap Analyzers :
           stage'[run[r].job][a] = "completed" \/ (a \in run[r].done /\ a # s)
  BY <1>1, <1>3, <1>4, RunFacts
<1>. HIDE DEF rec
<1>. QED
  BY <1>1, <1>3, <1>4, <1>5, <1>6, StageStep, Zenon

\* endRunningStages preserves the invariant.
LEMMA EndStagesStep ==
    ASSUME IInv, NEW r \in Runs, RunEndStages(r)
    PROVE  RunKeeps(r) /\ RunLocal(r)
<1>. DEFINE j == run[r].job
<1>1. /\ Live(r) /\ UNCHANGED job /\ RunFrame
      /\ run' = [run EXCEPT ![r].pc = "return"]
  BY DEF RunEndStages, Live
<1>2. faults' \in 0..MaxFaults
  BY FaultTyped, ZenonT(60) DEF RunEndStages, IInv
<1>3. \E E \in SUBSET {s \in Stages : stage[j][s] = "running"},
         f \in {"failed", "cancelled"} :
        \/ Mutable(j) /\ stage' = [stage EXCEPT ![j] =
             [s \in Stages |-> IF s \in E THEN f ELSE stage[j][s]]]
        \/ ~Mutable(j) /\ stage' = stage
  <2>. DEFINE left == {s \in Stages : stage[j][s] = "running"}
              f == IF run[r].pc = "endFailed" THEN "failed" ELSE "cancelled"
  <2>1. \E E \in SUBSET left :
          stage' = IF Mutable(j)
                     THEN [stage EXCEPT ![j] = [s \in Stages |->
                            IF s \in E THEN f ELSE stage[j][s]]]
                     ELSE stage
    BY Zenon DEF RunEndStages
  <2>2. f \in {"failed", "cancelled"}
    OBVIOUS
  <2>. HIDE DEF f
  <2>. QED
    BY <2>1, <2>2, Zenon
<1>4. TypeOK /\ run[r] \in RunType /\ j \in Jobs
  BY <1>1, RunFacts DEF IInv
<1>5. /\ stage' \in [Jobs -> [Stages -> StageStatus]]
      /\ \A k \in Jobs : k # j => stage'[k] = stage[k]
      /\ ~Mutable(j) => stage'[j] = stage[j]
      /\ \A s \in Stages : stage'[j][s] = stage[j][s] \/ stage[j][s] = "running"
  <2>1. PICK E \in SUBSET {s \in Stages : stage[j][s] = "running"},
             f \in {"failed", "cancelled"} :
          \/ Mutable(j) /\ stage' = [stage EXCEPT ![j] =
               [s \in Stages |-> IF s \in E THEN f ELSE stage[j][s]]]
          \/ ~Mutable(j) /\ stage' = stage
    BY <1>3, ZenonT(60)
  <2>. DEFINE row == [s \in Stages |-> IF s \in E THEN f ELSE stage[j][s]]
  <2>2. row \in [Stages -> StageStatus]
    BY <1>4 DEF TypeOK, StageStatus
  <2>3. \A s \in Stages : row[s] = stage[j][s] \/ stage[j][s] = "running"
    OBVIOUS
  <2>. HIDE DEF row
  <2>4. \/ Mutable(j) /\ stage' = [stage EXCEPT ![j] = row]
        \/ ~Mutable(j) /\ stage' = stage
    BY <2>1 DEF row
  <2>. QED
    BY <1>4, <2>2, <2>3, <2>4 DEF TypeOK
<1>6. run'[r] = [run[r] EXCEPT !.pc = "return"] /\ run' = [run EXCEPT ![r] = run'[r]]
  BY <1>1, <1>4 DEF TypeOK
<1>7. /\ run'[r] \in RunType /\ run'[r].job = j /\ run'[r].pc = "return"
      /\ run'[r].done = run[r].done /\ run'[r].active = run[r].active
      /\ run'[r].completing = run[r].completing /\ run'[r].ctx = run[r].ctx
  BY <1>4, <1>6 DEF RunType, RunPC
<1>8. RunKeeps(r)
  BY <1>1, <1>2, <1>4, <1>5, <1>6, <1>7 DEF RunKeeps, RunFrame, env, TypeOK
<1>9. RunLocal(r)
  BY <1>1, <1>4, <1>5, <1>7, RunFacts DEF RunLocal, Stages
<1>. QED
  BY <1>8, <1>9

\* Such a step keeps the invariant.
LEMMA RunKeepsInv ==
    ASSUME IInv, NEW r \in Runs, RunKeeps(r), RunLocal(r)
    PROVE  IInv'
<1>. DEFINE j == run[r].job
<1>1. TypeOK /\ Live(r) /\ j \in Jobs /\ run[r] \in RunType
  BY RunFacts DEF IInv, RunKeeps
<1>2. \A q \in Runs : /\ q # r => run'[q] = run[q]
                      /\ run'[q].job = run[q].job
                      /\ Live(q)' <=> Live(q)
  BY <1>1, ZenonT(60) DEF RunKeeps, TypeOK, Live
<1>3. \A k \in Jobs : /\ job[k].status # "none" => job'[k].status # "none"
                      /\ job[k].status \notin {"none", "pending"}
                            => job'[k].status \notin {"none", "pending"}
  BY <1>1 DEF RunKeeps
<1>4. \A q \in Runs : /\ run'[q].pc # "idle" <=> run[q].pc # "idle"
                      /\ run'[q].job = run[q].job
  BY <1>2 DEF Live
<1>5. UNCHANGED <<running, retrying, call, proc, listening, listed, resume,
                  dispatch, halts, raced>>
  BY ZenonT(60) DEF RunKeeps
<1>6. TypeOK'
  <2>1. run' \in [Runs -> RunType] /\ \A q \in Runs : Live(q)' => run'[q].job \in Jobs
    BY <1>1, <1>2, Zenon DEF RunKeeps, TypeOK
  <2>. QED
    BY <1>1, <1>5, <2>1, ZenonT(60) DEF TypeOK, RunKeeps
<1>7. ProcInv' /\ RegisteredInv' /\ RunsExclusive'
  <2>1. ProcInv /\ RegisteredInv /\ RunsExclusive
    BY DEF IInv
  <2>. QED
    BY <1>4, <1>5, <2>1 DEF ProcInv, RegisteredInv, RunsExclusive, Live
<1>8. LiveInv'
  <2>1. \A q \in Runs : Live(q) => run[q].job \in Jobs /\ job[run[q].job].status # "none"
    BY <1>1 DEF IInv, TypeOK, LiveInv
  <2>2. \A q \in Runs : Live(q)' => job'[run'[q].job].status # "none"
    BY <1>3, <1>4, <2>1 DEF Live
  <2>3. \A k \in Jobs : job'[k].status = "none" =>
          job[k].status = "none" /\ stage'[k] = stage[k]
    BY <1>1, <1>3, <2>1 DEF RunKeeps
  <2>. QED
    BY <2>2, <2>3 DEF IInv, LiveInv
<1>9. CallInv' /\ JobInv'
  <2>1. CallInv /\ JobInv
    BY DEF IInv
  <2>. QED
    BY <1>5, <2>1 DEF CallInv, JobInv
<1>10. ReservedInv'
  <2>1. ReservedInv /\ \A c \in Calls : call[c].orig \in Jobs \cup {NoJob}
    BY <1>1 DEF IInv, TypeOK, CallType
  <2>. QED
    BY <1>4, <1>5, <2>1 DEF ReservedInv, Reserved, NoLive, Live
<1>11. OrigInv'
  <2>1. OrigInv /\ \A c \in Calls : call[c].orig \in Jobs \cup {NoJob}
    BY <1>1 DEF IInv, TypeOK, CallType
  <2>. QED
    BY <1>3, <1>5, <2>1 DEF OrigInv, Begun
<1>12. CreatesInv'
  <2>2. \A c \in Calls : Creates(c) => call[c].job \in Jobs
    BY <1>1, ZenonT(60) DEF TypeOK, Creates
  <2>3. \A c \in Calls : Creates(c) => call[c].job # j
    BY <1>1, ZenonT(60) DEF IInv, CreatesInv, NoLive
  <2>4. \A c \in Calls : Creates(c) => /\ job'[call[c].job] = job[call[c].job]
                                       /\ stage'[call[c].job] = stage[call[c].job]
    BY <2>2, <2>3 DEF RunKeeps
  <2>5. CreatesInv
    BY DEF IInv
  <2>. QED
    BY <1>4, <1>5, <2>2, <2>4, <2>5, ZenonT(60) DEF CreatesInv, Creates, Begun, NoLive, Live
<1>13. ResumeInv'
  <2>1. ResumeInv /\ resume \subseteq Jobs /\ dispatch \in Jobs \cup {NoJob}
    BY <1>1 DEF IInv, TypeOK
  <2>. QED
    BY <1>3, <1>5, <2>1, ZenonT(60) DEF ResumeInv, Begun
<1>14. WorkInv' /\ CancelOrComplete'
  <2>1. WorkInv /\ CancelOrComplete
    BY DEF IInv
  <2>. QED
    BY <1>2, <2>1 DEF WorkInv, CancelOrComplete, RunLocal
<1>15. DoneInv'
  <2>. SUFFICES ASSUME NEW q \in Runs, Live(q)', run'[q].job \notin raced',
                       NEW a \in run'[q].done \cap Analyzers
                PROVE  stage'[run'[q].job][a] = "completed"
    BY DEF DoneInv
  <2>1. Live(q) /\ run[q].job \notin raced /\ run[q].job \in Jobs
    BY <1>1, <1>2, <1>5 DEF TypeOK
  <2>2. \A b \in run[q].done \cap Analyzers : stage[run[q].job][b] = "completed"
    BY <2>1, ZenonT(60) DEF IInv, DoneInv
  <2>3. CASE q = r
    BY <1>2, <2>2, <2>3, ZenonT(60) DEF RunLocal
  <2>4. CASE q # r
    <3>1. run[q].job # j
      BY <1>1, <2>1, <2>4 DEF IInv, RunsExclusive
    <3>2. run'[q] = run[q] /\ stage'[run[q].job] = stage[run[q].job]
      BY <1>2, <2>1, <2>4, <3>1 DEF RunKeeps
    <3>. QED
      BY <2>2, <3>2
  <2>. QED
    BY <2>3, <2>4
<1>16. CompletedHasResults'
  <2>. SUFFICES ASSUME NEW k \in Jobs, k \notin raced, job'[k].status = "completed",
                       NEW a \in Analyzers
                PROVE  stage'[k][a] = "completed"
    BY <1>5 DEF CompletedHasResults
  <2>1. CASE job[k].status = "completed"
    <3>1. stage'[k] = stage[k]
      BY <2>1 DEF RunKeeps, Mutable
    <3>. QED
      BY <2>1, <3>1 DEF IInv, CompletedHasResults
  <2>2. CASE job[k].status # "completed"
    <3>1. k = j
      BY <2>2 DEF RunKeeps
    <3>2. Analyzers \subseteq run[r].done /\ stage' = stage
      BY <2>2, <3>1 DEF RunLocal
    <3>. QED
      BY <1>1, <3>1, <3>2, ZenonT(60) DEF IInv, DoneInv
  <2>. QED
    BY <2>1, <2>2
<1>. QED
  BY <1>6, <1>7, <1>8, <1>9, <1>10, <1>11, <1>12, <1>13, <1>14, <1>15, <1>16, ZenonT(60) DEF IInv

\* executeJob's last deferred function: the run is gone, and running loses no
\* other run's entry.
LEMMA ReturnStep ==
    ASSUME IInv, NEW r \in Runs, RunReturn(r)
    PROVE  IInv'
<1>. DEFINE j == run[r].job
<1>1. TypeOK /\ Live(r) /\ j \in Jobs /\ IdleRun \in RunType
  BY RunFacts, IdleTyped, ZenonT(60) DEF IInv, RunReturn, Live
<1>2. /\ run' = [run EXCEPT ![r] = IdleRun]
      /\ running' = [running EXCEPT ![j] = IF running[j] = r THEN NoRun ELSE running[j]]
      /\ UNCHANGED <<job, stage, retrying, call, proc, listening, listed, resume,
                     dispatch, halts, faults, raced>>
  BY <1>1, ZenonT(60) DEF RunReturn, db, env, TypeOK
<1>3. /\ run'[r] = IdleRun
      /\ \A q \in Runs : q # r => run'[q] = run[q]
  BY <1>1, <1>2 DEF TypeOK
<1>4. IdleRun.pc = "idle" /\ IdleRun.done = {} /\ IdleRun.active = {} /\ ~IdleRun.completing
  BY DEF IdleRun
<1>. HIDE DEF IdleRun
<1>5. \A q \in Runs : run'[q].pc # "idle" => q # r /\ Live(q) /\ run'[q] = run[q]
  BY <1>3, <1>4, ZenonT(60) DEF Live
<1>6. TypeOK'
  <2>1. run' \in [Runs -> RunType] /\ running' \in [Jobs -> Runs \cup {NoRun}]
    BY <1>1, <1>2 DEF TypeOK
  <2>2. \A q \in Runs : Live(q)' => run'[q].job \in Jobs
    BY <1>1, <1>5, ZenonT(60) DEF TypeOK, Live
  <2>. QED
    BY <1>1, <1>2, <2>1, <2>2, ZenonT(60) DEF TypeOK
<1>7. RegisteredInv'
  <2>. SUFFICES ASSUME proc # "stopping", NEW q \in Runs, run'[q].pc # "idle",
                       run'[q].job \notin raced
                PROVE  running'[run'[q].job] = q
    BY <1>2 DEF RegisteredInv, Live
  <2>1. q # r /\ run'[q] = run[q] /\ running[run[q].job] = q
    BY <1>5, ZenonT(60) DEF IInv, RegisteredInv
  <2>2. run[q].job \in Jobs
    BY <1>1, <1>5, ZenonT(60) DEF TypeOK
  <2>. QED
    BY <1>1, <1>2, <2>1, <2>2 DEF TypeOK
<1>8. ProcInv' /\ RunsExclusive' /\ LiveInv'
  <2>1. ProcInv /\ RunsExclusive /\ LiveInv
    BY ZenonT(60) DEF IInv
  <2>. QED
    BY <1>2, <1>5, <2>1 DEF ProcInv, RunsExclusive, LiveInv, Live
<1>9. CallInv' /\ JobInv' /\ OrigInv' /\ ResumeInv' /\ CompletedHasResults'
  <2>1. CallInv /\ JobInv /\ OrigInv /\ ResumeInv /\ CompletedHasResults
    BY ZenonT(60) DEF IInv
  <2>. QED
    BY <1>2, <2>1 DEF CallInv, JobInv, OrigInv, ResumeInv, CompletedHasResults, Begun
<1>10. ReservedInv'
  <2>1. ReservedInv
    BY ZenonT(60) DEF IInv
  <2>. QED
    BY <1>2, <1>5, <2>1 DEF ReservedInv, Reserved, NoLive, Live
<1>11. CreatesInv'
  <2>1. CreatesInv
    BY DEF IInv
  <2>. QED
    BY <1>2, <1>5, <2>1 DEF CreatesInv, Creates, Begun, NoLive, Live
<1>12. WorkInv' /\ CancelOrComplete'
  <2>1. WorkInv /\ CancelOrComplete
    BY DEF IInv
  <2>. QED
    BY <1>3, <1>4, <2>1 DEF WorkInv, CancelOrComplete
<1>13. DoneInv'
  <2>1. DoneInv
    BY DEF IInv
  <2>. QED
    BY <1>2, <1>5, <2>1 DEF DoneInv, Live
<1>. QED
  BY <1>6, <1>7, <1>8, <1>9, <1>10, <1>11, <1>12, <1>13, ZenonT(60) DEF IInv

\* Every step of a run preserves the invariant.
LEMMA RunStepInv ==
    ASSUME IInv, NEW r \in Runs, RunStep(r)
    PROVE  IInv'
<1>1. CASE \E s \in Stages : \/ RunStageStart(r, s) \/ RunStageDone(r, s)
                             \/ RunAnalyzerFail(r, s) \/ RunPipelineStageFail(r, s)
  BY <1>1, StageStartStep, StageDoneStep, AnalyzerFailStep, PipelineStageFailStep,
     RunKeepsInv
<1>2. CASE RunReturn(r)
  BY <1>2, ReturnStep
<1>3. CASE \/ RunLoad(r) \/ RunSnapshot(r) \/ RunPassFailed(r) \/ RunError(r)
           \/ RunFinish(r) \/ RunFinalize(r) \/ RunClaim(r) \/ RunComplete(r)
           \/ RunFail(r) \/ RunInterrupt(r) \/ RunEndStages(r) \/ RunPanic(r)
  BY <1>3, LoadStep, SnapshotStep, PassFailedStep, ErrorStep, FinishStep,
     FinalizeStep, ClaimStep, CompleteStep, FailStep, InterruptStep, EndStagesStep,
     PanicStep, RunKeepsInv, ZenonT(60)
<1>. QED
  BY <1>1, <1>2, <1>3 DEF RunStep

\* No step of a run changes a completed job's rows.
LEMMA RunKeepsCompleted ==
    ASSUME IInv, NEW r \in Runs, RunStep(r), NEW k \in Jobs, job[k].status = "completed"
    PROVE  job'[k] = job[k] /\ stage'[k] = stage[k]
<1>1. ASSUME RunKeeps(r)
      PROVE  job'[k] = job[k] /\ stage'[k] = stage[k]
  BY <1>1, ZenonT(60) DEF RunKeeps, Mutable
<1>2. CASE \E s \in Stages : \/ RunStageStart(r, s) \/ RunStageDone(r, s)
                             \/ RunAnalyzerFail(r, s) \/ RunPipelineStageFail(r, s)
  BY <1>1, <1>2, StageStartStep, StageDoneStep, AnalyzerFailStep, PipelineStageFailStep, Zenon
<1>3. CASE RunReturn(r)
  BY <1>3, ZenonT(60) DEF RunReturn, db
<1>4. CASE \/ RunLoad(r) \/ RunSnapshot(r) \/ RunPassFailed(r) \/ RunError(r)
           \/ RunFinish(r) \/ RunFinalize(r) \/ RunClaim(r) \/ RunComplete(r)
           \/ RunFail(r) \/ RunInterrupt(r) \/ RunEndStages(r) \/ RunPanic(r)
  BY ZenonT(20), <1>1, <1>4, LoadStep, SnapshotStep, PassFailedStep, ErrorStep, FinishStep,
     FinalizeStep, ClaimStep, CompleteStep, FailStep, InterruptStep, EndStagesStep,
     PanicStep
<1>. QED
  BY <1>2, <1>3, <1>4, ZenonT(60) DEF RunStep

-----------------------------------------------------------------------------
(* The stages of a job that ended.  A run works only on a job it has set   *)
(* running, so a failed or cancelled job with a running stage has a run    *)
(* about to end its stages, while no write was lost and nothing halted.    *)

Working == {"snapshot", "work", "finalize", "claim", "complete"}
Ending  == {"endFailed", "endCancelled"}

WorkingInv ==
    \A r \in Runs : run[r].pc \in Working /\ run[r].job \notin raced
      => job[run[r].job].status = "running"

EndingInv ==
    faults = 0 /\ halts = 0 =>
      \A j \in Jobs \ raced : \A s \in Stages :
        job[j].status \in {"failed", "cancelled"} /\ stage[j][s] = "running"
          => \E r \in Runs : run[r].job = j /\ run[r].pc \in Ending

EInv == WorkingInv /\ EndingInv

\* What a step of a run does to its job on its way to the end.
EndsWell(r) ==
    LET j == run[r].job
    IN  /\ faults' = 0 => faults = 0
        /\ run'[r].pc \in Working
             => job'[j].status = "running" \/ (run[r].pc \in Working /\ job' = job)
        /\ faults' = 0 /\ run'[r].pc \notin Ending =>
             \/ job'[j].status \notin {"failed", "cancelled"}
             \/ run[r].pc \in Working /\ job' = job
             \/ run[r].pc \notin Ending /\ UNCHANGED <<job, stage>>
             \/ \A s \in Stages : stage'[j][s] # "running"

\* A lost write is counted.
LEMMA FaultsCount ==
    ASSUME TypeOK, NEW r \in Runs
    PROVE  /\ Fault => faults' # 0
           /\ CtxFault(r) \/ Fault \/ UNCHANGED faults => (faults' = 0 => faults = 0)
BY ConstantsAssumption DEF TypeOK, Fault, CtxFault

\* A step that only moves a run on.
LEMMA MovesOn ==
    ASSUME TypeOK, NEW r \in Runs, NEW p, run' = [run EXCEPT ![r].pc = p]
    PROVE  run'[r].pc = p
BY DEF TypeOK, RunType

\* endRunningStages ends every running stage of a job that is not completed.
LEMMA EndStagesEndsWell ==
    ASSUME IInv, NEW r \in Runs, RunEndStages(r)
    PROVE  EndsWell(r)
<1>. DEFINE j == run[r].job
            final == IF run[r].pc = "endFailed" THEN "failed" ELSE "cancelled"
            left == {s \in Stages : stage[j][s] = "running"}
<1>1. TypeOK /\ j \in Jobs /\ run'[r].pc = "return"
  BY DEF IInv, TypeOK, RunEndStages, Live
<1>2. faults' = 0 => faults = 0 /\ UNCHANGED faults
  BY <1>1, FaultsCount DEF RunEndStages
<1>3. ASSUME faults' = 0, job[j].status \in {"failed", "cancelled"}
      PROVE  \A s \in Stages : stage'[j][s] # "running"
  <2>1. ~Fault
    BY <1>1, <1>3, FaultsCount
  <2>2. stage' = [stage EXCEPT ![j] = [s \in Stages |-> IF s \in left THEN final ELSE stage[j][s]]]
    BY <1>3, <2>1 DEF RunEndStages, Mutable
  <2>. QED
    BY <1>1, <2>2 DEF TypeOK
<1>4. UNCHANGED job
  BY DEF RunEndStages
<1>. QED
  BY <1>1, <1>2, <1>3, <1>4, Zenon DEF EndsWell, Working

\* Every other step of a run that does not return.
LEMMA StepEndsWell ==
    ASSUME IInv, NEW r \in Runs, RunStep(r), ~RunReturn(r)
    PROVE  EndsWell(r)
<1>. DEFINE j == run[r].job
<1>0. TypeOK /\ run \in [Runs -> RunType] /\ job \in [Jobs -> [status : JobStatus, class : Classes]]
  BY DEF IInv, TypeOK
<1>1. CASE RunLoad(r)
  <2>1. j \in Jobs /\ run[r].pc \notin Ending /\ UNCHANGED stage /\ (faults' = 0 => faults = 0)
    BY <1>0, <1>1, FaultsCount DEF RunLoad, TypeOK, Live, Ending
  <2>2. job' = job \/ job'[j].status = "running"
    BY <1>0, <1>1, <2>1 DEF RunLoad, SetJob
  <2>3. run'[r].pc \in Working => job'[j].status = "running"
    <3>1. \/ job' = SetJob(j, "running", "retryable") /\ Mutable(j)
          \/ run' = [run EXCEPT ![r].pc = "failing"]
      BY <1>1, Zenon DEF RunLoad
    <3>2. job' = SetJob(j, "running", "retryable") /\ Mutable(j) => job'[j].status = "running"
      BY <1>0, <2>1 DEF SetJob
    <3>3. run' = [run EXCEPT ![r].pc = "failing"] => run'[r].pc = "failing"
      BY <1>0, MovesOn
    <3>. QED
      BY <3>1, <3>2, <3>3 DEF Working
  <2>. QED
    BY <2>1, <2>2, <2>3 DEF EndsWell
<1>2. CASE \E s \in Stages : \/ RunStageStart(r, s) \/ RunStageDone(r, s)
                             \/ RunAnalyzerFail(r, s) \/ RunPipelineStageFail(r, s)
  <2>1. run[r].pc \in Working /\ UNCHANGED job /\ (faults' = 0 => faults = 0)
    BY <1>0, <1>2, FaultsCount, Zenon DEF RunStageStart, RunStageDone, RunAnalyzerFail, RunPipelineStageFail, Working
  <2>. QED
    BY <2>1 DEF EndsWell
<1>3. CASE \/ RunSnapshot(r) \/ RunPassFailed(r) \/ RunError(r) \/ RunFinish(r)
           \/ RunFinalize(r) \/ RunClaim(r) \/ RunPanic(r)
  <2>1. UNCHANGED <<job, stage, faults>> /\ run[r].pc \in Working \cup {"load"}
    BY <1>3, Zenon DEF RunSnapshot, RunPassFailed, RunError, RunFinish, RunFinalize, RunClaim, RunPanic,
       Working, db
  <2>2. run'[r].pc \in Working => run[r].pc \in Working
    <3>1. run[r].pc = "load" => RunPanic(r)
      BY <1>3, Zenon DEF RunSnapshot, RunPassFailed, RunError, RunFinish, RunFinalize, RunClaim
    <3>2. RunPanic(r) => run'[r].pc = "panic"
      BY <1>0 DEF RunPanic, RunType
    <3>. QED
      BY <2>1, <3>1, <3>2, Zenon DEF Working
  <2>. QED
    BY <2>1, <2>2, Zenon DEF EndsWell, Working, Ending
<1>4. CASE RunComplete(r)
  <2>1. j \in Jobs /\ run[r].pc \notin Ending /\ run'[r].pc = "return" /\ UNCHANGED stage
        /\ (faults' = 0 => faults = 0)
    BY <1>0, <1>4, FaultsCount DEF RunComplete, TypeOK, Live, Ending
  <2>2. job' = job \/ job'[j].status = "completed"
    BY <1>0, <1>4, <2>1 DEF RunComplete, SetJob
  <2>. QED
    BY <2>1, <2>2 DEF EndsWell, Working
<1>5. CASE RunFail(r) \/ RunInterrupt(r)
  <2>1. run[r].pc \notin Ending /\ UNCHANGED stage /\ (faults' = 0 => faults = 0)
    BY <1>0, <1>5, FaultsCount DEF RunFail, RunInterrupt, Ending
  <2>2. PICK p \in Ending \cup {"return", "interrupt"} :
          /\ run' = [run EXCEPT ![r].pc = p]
          /\ p \in Ending \/ Fault \/ UNCHANGED job
    BY <1>5, Zenon DEF RunFail, RunInterrupt, Ending
  <2>3. run'[r].pc = p
    BY <1>0, <2>2, MovesOn
  <2>4. faults' = 0 => ~Fault
    BY <1>0, FaultsCount
  <2>. QED
    BY <2>1, <2>2, <2>3, <2>4, Zenon DEF EndsWell, Working, Ending
<1>. QED
  BY <1>1, <1>2, <1>3, <1>4, <1>5, EndStagesEndsWell, ZenonT(30) DEF RunStep

\* Every step of a run keeps that about its own job and every other.
LEMMA RunKeepsEnding ==
    ASSUME IInv, EInv, NEW r \in Runs, RunStep(r)
    PROVE  EInv'
<1>. DEFINE j == run[r].job
<1>0. TypeOK /\ RunsExclusive
  BY DEF IInv
<1>1. CASE RunReturn(r)
  <2>1. /\ UNCHANGED <<job, stage, faults, halts, raced>> /\ run[r].pc = "return"
        /\ run'[r].pc = "idle" /\ \A q \in Runs : q # r => run'[q] = run[q]
    BY <1>0, <1>1 DEF RunReturn, db, env, TypeOK, IdleRun
  <2>2. WorkingInv'
    BY <2>1 DEF EInv, WorkingInv, Working
  <2>3. EndingInv'
    BY <2>1 DEF EInv, EndingInv, Ending
  <2>. QED
    BY ZenonT(20), <2>2, <2>3 DEF EInv
<1>2. CASE ~RunReturn(r)
  <2>1. RunKeeps(r) /\ EndsWell(r)
    <3>1. CASE \E s \in Stages : \/ RunStageStart(r, s) \/ RunStageDone(r, s)
                                 \/ RunAnalyzerFail(r, s) \/ RunPipelineStageFail(r, s)
      BY <1>2, <3>1, StageStartStep, StageDoneStep, AnalyzerFailStep, PipelineStageFailStep, StepEndsWell
    <3>2. CASE \/ RunLoad(r) \/ RunSnapshot(r) \/ RunPassFailed(r) \/ RunError(r)
               \/ RunFinish(r) \/ RunFinalize(r) \/ RunClaim(r) \/ RunComplete(r)
               \/ RunFail(r) \/ RunInterrupt(r) \/ RunEndStages(r) \/ RunPanic(r)
      BY <1>2, <3>2, LoadStep, SnapshotStep, PassFailedStep, ErrorStep, FinishStep,
         FinalizeStep, ClaimStep, CompleteStep, FailStep, InterruptStep, EndStagesStep,
         PanicStep, StepEndsWell, ZenonT(60)
    <3>. QED
      BY <1>2, <3>1, <3>2, Zenon DEF RunStep
  <2>2. /\ j \in Jobs /\ Live(r) /\ run'[r].job = j /\ UNCHANGED <<halts, raced>>
        /\ \A q \in Runs : q # r => run'[q] = run[q]
        /\ \A k \in Jobs : k # j => job'[k] = job[k] /\ stage'[k] = stage[k]
    BY ZenonT(20), <1>0, <2>1 DEF RunKeeps, TypeOK
  <2>3. ASSUME NEW q \in Runs, run[q].pc \in Working \cup Ending, run[q].job = j, j \notin raced
        PROVE  q = r
    BY <1>0, <2>2, <2>3 DEF RunsExclusive, Live, Working, Ending
  <2>4. WorkingInv'
    <3>. SUFFICES ASSUME NEW q \in Runs, run'[q].pc \in Working, run'[q].job \notin raced
                  PROVE  job'[run'[q].job].status = "running"
      BY <2>2 DEF WorkingInv
    <3>1. CASE q = r
      BY ZenonT(20), <2>1, <2>2, <3>1 DEF EndsWell, EInv, WorkingInv
    <3>2. CASE q # r
      <4>1. run'[q] = run[q] /\ run[q].job # j /\ run[q].job \in Jobs
        BY <1>0, <2>2, <2>3, <3>2 DEF TypeOK, Live, Working
      <4>. QED
        BY ZenonT(20), <2>2, <4>1 DEF EInv, WorkingInv
    <3>. QED
      BY ZenonT(20), <3>1, <3>2
  <2>5. EndingInv'
    <3>. SUFFICES ASSUME faults' = 0, halts' = 0, NEW k \in Jobs \ raced, NEW s \in Stages,
                         job'[k].status \in {"failed", "cancelled"}, stage'[k][s] = "running"
                  PROVE  \E q \in Runs : run'[q].job = k /\ run'[q].pc \in Ending
      BY <2>2 DEF EndingInv
    <3>1. faults = 0 /\ halts = 0
      BY <2>1, <2>2 DEF EndsWell
    <3>2. CASE k # j
      <4>1. PICK q \in Runs : run[q].job = k /\ run[q].pc \in Ending
        BY <2>2, <3>1, <3>2 DEF EInv, EndingInv
      <4>. QED
        BY <2>2, <3>2, <4>1
    <3>3. CASE k = j
      <4>1. CASE run'[r].pc \in Ending
        BY <2>2, <3>3, <4>1
      <4>2. CASE run[r].pc \in Working /\ job' = job
        BY <3>3, <4>2 DEF EInv, WorkingInv
      <4>3. CASE run[r].pc \notin Ending /\ UNCHANGED <<job, stage>>
        <5>1. PICK q \in Runs : run[q].job = k /\ run[q].pc \in Ending
          BY <3>1, <4>3 DEF EInv, EndingInv
        <5>. QED
          BY <2>3, <3>3, <4>3, <5>1
      <4>. QED
        BY ZenonT(20), <2>1, <3>3, <4>1, <4>2, <4>3 DEF EndsWell
    <3>. QED
      BY <3>2, <3>3
  <2>. QED
    BY <2>4, <2>5 DEF EInv
<1>. QED
  BY <1>1, <1>2

-----------------------------------------------------------------------------
(* Requests.  CallWrites: a request writes no rows but its own job's, of a *)
(* job with no live run, never a completed job's.                          *)

CallWrites(c) ==
    LET j == call[c].job
    IN  /\ job' \in [Jobs -> [status : JobStatus, class : Classes]]
        /\ stage' \in [Jobs -> [Stages -> StageStatus]]
        /\ \A k \in Jobs : k # j => job'[k] = job[k] /\ stage'[k] = stage[k]
        /\ ~Mutable(j) => job' = job /\ stage' = stage
        /\ j \in Jobs =>
             /\ stage' # stage /\ j \notin raced => NoLive(j)
             /\ job'[j].status = "completed" => job[j].status = "completed"
             /\ job'[j].status = "none" => stage' = stage
             /\ job[j].status # "none" => job'[j].status # "none"
             /\ job[j].status \notin {"none", "pending"}
                  => job'[j].status \notin {"none", "pending"}

\* A request's record after its step: what CallInv, ReservedInv, OrigInv,
\* CreatesInv and JobInv ask of it alone.
CallLocal(c, rec) ==
    /\ rec \in CallType
    /\ rec.pc \in {"insert", "stages", "register", "reset", "setRunning"}
         => rec.job \in Jobs
    /\ rec.pc \in {"reserve", "plan", "reset", "setRunning"} => rec.orig \in Jobs
    /\ rec.pc = "reset" => rec.from \in Stages
    /\ rec.pc = "idle" => rec.orig = NoJob
    /\ rec.pc \in {"idle", "reserve", "plan"} => rec.job = NoJob
    /\ rec.pc \in {"reset", "setRunning"} => rec.job = rec.orig
    /\ rec.job # NoJob => \A d \in Calls : d # c => call[d].job # rec.job
    /\ rec.pc \notin {"idle", "reserve"} /\ rec.orig # NoJob =>
         /\ rec.orig \in retrying'
         /\ rec.orig \notin raced => NoLive(rec.orig)
         /\ \A d \in Calls : d # c /\ Reserved(d) => call[d].orig # rec.orig
    /\ rec.orig # NoJob =>
         /\ job'[rec.orig].status # "none"
         /\ rec.status \notin {"none", "pending"}
              => job'[rec.orig].status \notin {"none", "pending"}
    /\ rec.pc \in {"insert", "stages"} \/ (rec.pc = "register" /\ rec.orig # rec.job) =>
         /\ rec.orig # rec.job
         /\ job'[rec.job].status \in {"none", "pending"}
         /\ rec.pc # "insert" => job'[rec.job].status # "none"
         /\ NoLive(rec.job)
         /\ \A s \in Stages : stage'[rec.job][s] \in {"none", "pending"}

\* A request that registers no run preserves the invariant if its own record
\* and its database writes keep their parts of it.
LEMMA CallKeepsInv ==
    ASSUME IInv, NEW c \in Calls, NEW rec, CallLocal(c, rec), CallWrites(c),
           call' = [call EXCEPT ![c] = rec],
           UNCHANGED <<running, run, env, raced>>, faults' \in 0..MaxFaults,
           proc \in {"up", "draining"},
           retrying' \subseteq Jobs,
           \A d \in Calls : d # c /\ Reserved(d) => call[d].orig \in retrying'
    PROVE  IInv'
<1>1. TypeOK /\ UNCHANGED <<running, run, proc, listening, listed, resume, dispatch,
                            halts, raced>>
  BY ZenonT(20) DEF IInv, env
<1>2. call'[c] = rec /\ \A d \in Calls : d # c => call'[d] = call[d]
  BY ZenonT(20), <1>1 DEF TypeOK
<1>3. \A k \in Jobs : /\ job[k].status # "none" => job'[k].status # "none"
                      /\ job[k].status \notin {"none", "pending"}
                           => job'[k].status \notin {"none", "pending"}
  BY ZenonT(20) DEF CallWrites
<1>4. TypeOK'
  <2>1. call' \in [Calls -> CallType]
    BY ZenonT(20), <1>1 DEF TypeOK, CallLocal
  <2>2. \A d \in Calls :
         /\ call'[d].pc \in {"insert", "stages", "register", "reset", "setRunning"}
              => call'[d].job \in Jobs
         /\ call'[d].pc \in {"reserve", "plan", "reset", "setRunning"}
              => call'[d].orig \in Jobs
         /\ call'[d].pc = "reset" => call'[d].from \in Stages
    BY ZenonT(20), <1>1, <1>2 DEF TypeOK, CallLocal
  <2>3. job' \in [Jobs -> [status : JobStatus, class : Classes]]
        /\ stage' \in [Jobs -> [Stages -> StageStatus]]
    BY ZenonT(20) DEF CallWrites
  <2>. QED
    BY ZenonT(20), <1>1, <2>1, <2>2, <2>3 DEF TypeOK, Live
<1>5. ProcInv' /\ RegisteredInv' /\ RunsExclusive' /\ WorkInv' /\ CancelOrComplete'
  <2>1. ProcInv /\ RegisteredInv /\ RunsExclusive /\ WorkInv /\ CancelOrComplete
    BY ZenonT(20) DEF IInv
  <2>. QED
    BY <1>1, <1>2, <2>1 DEF ProcInv, RegisteredInv, RunsExclusive, WorkInv,
       CancelOrComplete, Live
<1>6. LiveInv'
  <2>1. LiveInv /\ \A r \in Runs : Live(r) => run[r].job \in Jobs
    BY ZenonT(20), <1>1 DEF IInv, TypeOK
  <2>2. \A k \in Jobs : job'[k].status = "none" =>
          job[k].status = "none" /\ stage'[k] = stage[k]
    BY <1>3, ZenonT(30) DEF CallWrites
  <2>. QED
    BY ZenonT(20), <1>1, <1>3, <2>1, <2>2 DEF LiveInv, Live
<1>7. CallInv'
  <2>1. CallInv
    BY DEF IInv
  <2>. QED
    BY <1>2, <2>1 DEF CallInv, CallLocal
<1>8. JobInv'
  <2>1. JobInv
    BY DEF IInv
  <2>2. rec.job # NoJob => \A d \in Calls : d # c => call[d].job # rec.job
    BY ZenonT(20) DEF CallLocal
  <2>. QED
    BY <1>2, <2>1, <2>2 DEF JobInv
<1>9. ReservedInv'
  <2>1. ReservedInv
    BY DEF IInv
  <2>2. rec.pc \notin {"idle", "reserve"} /\ rec.orig # NoJob =>
         /\ rec.orig \in retrying'
         /\ rec.orig \notin raced => NoLive(rec.orig)
         /\ \A d \in Calls : d # c /\ Reserved(d) => call[d].orig # rec.orig
    BY ZenonT(20) DEF CallLocal
  <2>. QED
    BY <1>1, <1>2, <2>1, <2>2 DEF ReservedInv, Reserved, NoLive, Live
<1>10. OrigInv'
  <2>1. OrigInv /\ \A d \in Calls : call[d].orig \in Jobs \cup {NoJob}
    BY ZenonT(20), <1>1 DEF IInv, TypeOK, CallType
  <2>2. rec.orig # NoJob =>
         /\ job'[rec.orig].status # "none"
         /\ rec.status \notin {"none", "pending"}
              => job'[rec.orig].status \notin {"none", "pending"}
    BY ZenonT(20) DEF CallLocal
  <2>. QED
    BY ZenonT(20), <1>2, <1>3, <2>1, <2>2 DEF OrigInv, Begun
<1>11. CreatesInv'
  <2>. SUFFICES ASSUME NEW d \in Calls, Creates(d)'
                PROVE  /\ call'[d].orig # call'[d].job
                       /\ job'[call'[d].job].status \in {"none", "pending"}
                       /\ call'[d].pc # "insert" => job'[call'[d].job].status # "none"
                       /\ NoLive(call'[d].job)
                       /\ \A s \in Stages : stage'[call'[d].job][s] \in {"none", "pending"}
    BY ZenonT(60), <1>1 DEF CreatesInv, Begun, NoLive, Live
  <2>1. CASE d = c
    BY <1>2, <2>1 DEF CallLocal, Creates
  <2>2. CASE d # c
    <3>1. Creates(d) /\ call'[d] = call[d]
      BY ZenonT(20), <1>2, <2>2 DEF Creates
    <3>2. call[d].job \in Jobs
      BY <1>1, <3>1 DEF TypeOK, Creates
    <3>3. call[d].job # call[c].job
      BY <2>2, <3>2, ConstantsAssumption, ZenonT(60) DEF IInv, JobInv
    <3>4. job'[call[d].job] = job[call[d].job] /\ stage'[call[d].job] = stage[call[d].job]
      BY <3>2, <3>3, Zenon DEF CallWrites
    <3>5. CreatesInv
      BY ZenonT(20) DEF IInv
    <3>. QED
      BY <3>1, <3>4, <3>5, ZenonT(30) DEF CreatesInv, Begun
  <2>. QED
    BY ZenonT(20), <2>1, <2>2
<1>12. ResumeInv'
  <2>1. ResumeInv /\ resume \subseteq Jobs /\ dispatch \in Jobs \cup {NoJob}
    BY <1>1, ZenonT(30) DEF IInv, TypeOK
  <2>. QED
    BY <1>1, <1>3, <2>1, Zenon DEF ResumeInv, Begun
<1>13. DoneInv'
  <2>. SUFFICES ASSUME NEW q \in Runs, Live(q), run[q].job \notin raced,
                       NEW a \in run[q].done \cap Analyzers
                PROVE  stage'[run[q].job][a] = "completed"
    BY <1>1 DEF DoneInv, Live
  <2>1. stage[run[q].job][a] = "completed" /\ run[q].job \in Jobs
    BY <1>1, ZenonT(30) DEF IInv, DoneInv, TypeOK
  <2>2. CASE run[q].job # call[c].job
    BY <2>1, <2>2, ZenonT(30) DEF CallWrites
  <2>3. CASE run[q].job = call[c].job
    BY ZenonT(20), <2>1, <2>3 DEF CallWrites, NoLive
  <2>. QED
    BY <2>2, <2>3
<1>14. CompletedHasResults'
  <2>. SUFFICES ASSUME NEW k \in Jobs, k \notin raced, job'[k].status = "completed",
                       NEW a \in Analyzers
                PROVE  stage'[k][a] = "completed"
    BY ZenonT(20), <1>1 DEF CompletedHasResults
  <2>1. job[k].status = "completed"
    BY ZenonT(20) DEF CallWrites
  <2>2. stage'[k] = stage[k]
    BY <2>1 DEF CallWrites, Mutable
  <2>. QED
    BY <2>1, <2>2 DEF IInv, CompletedHasResults
<1>. QED
  BY ZenonT(20), <1>4, <1>5, <1>6, <1>7, <1>8, <1>9, <1>10, <1>11, <1>12, <1>13, <1>14 DEF IInv

\* A non-empty set of naturals has a least element (the first failed stage).
LEMMA NatSetHasMin ==
    ASSUME NEW T, T \subseteq Nat, T # {}
    PROVE  \E x \in T : \A y \in T : x <= y
<1>. DEFINE less == {ss \in Nat \X Nat : ss[1] < ss[2]}
<1>1. IsWellFoundedOn(less, Nat)
  BY NatLessThanWellFounded DEF OpToRel
<1>2. PICK x \in T : \A y \in T : ~(<<y, x>> \in less)
  <2>. HIDE DEF less
  <2>. QED
    BY <1>1, WFMin, Zenon
<1>3. \A y \in T : ~(y < x)
  <2>. TAKE y \in T
  <2>1. <<y, x>> \in Nat \X Nat /\ <<y, x>>[1] = y /\ <<y, x>>[2] = x
    OBVIOUS
  <2>. QED
    BY <1>2, <2>1
<1>. QED
  BY <1>3

\* FirstFailed is one of the job's stages.
LEMMA FirstFailedIsStage ==
    ASSUME NEW j \in Jobs, Stopped(j) # {}
    PROVE  FirstFailed(j) \in Stages
<1>. DEFINE ranks == {Rank[s] : s \in Stopped(j)}
<1>1. Stopped(j) \subseteq Stages
  BY DEF Stopped
<1>2. ranks \subseteq Nat /\ ranks # {}
  BY <1>1, ConstantsAssumption
<1>3. PICK x \in ranks : \A y \in ranks : x <= y
  <2>. HIDE DEF ranks
  <2>. QED
    BY <1>2, NatSetHasMin, Zenon
<1>4. \E s \in Stopped(j) : \A t \in Stopped(j) : Rank[s] <= Rank[t]
  BY <1>3
<1>5. FirstFailed(j) \in Stopped(j)
  BY <1>4 DEF FirstFailed
<1>. QED
  BY <1>1, <1>5

\* A request that returns, giving up its reservation.
LEMMA LeaveStep ==
    ASSUME IInv, NEW c \in Calls, Leave(c), call[c].pc \notin {"idle", "reserve"},
           CallWrites(c), UNCHANGED <<running, run, env, raced>>,
           faults' \in 0..MaxFaults
    PROVE  IInv'
<1>1. TypeOK /\ IdleCall \in CallType
  BY IdleTyped DEF IInv
<1>2. CallLocal(c, IdleCall)
  BY <1>1, ZenonT(30) DEF CallLocal, IdleCall
<1>3. proc \in {"up", "draining"} /\ retrying' \subseteq Jobs
  BY <1>1, ZenonT(30) DEF IInv, ProcInv, TypeOK, Leave
<1>4. ReservedInv
  BY DEF IInv
<1>5. \A d \in Calls : d # c /\ Reserved(d) => call[d].orig \in retrying'
  BY <1>4 DEF ReservedInv, Reserved, Leave
<1>6. call' = [call EXCEPT ![c] = IdleCall]
  BY ZenonT(60) DEF Leave
<1>. QED
  BY <1>2, <1>3, <1>5, <1>6, CallKeepsInv, Zenon

\* What IInv says of a request that is past its first step.
LEMMA CallFacts ==
    ASSUME IInv, NEW c \in Calls
    PROVE  /\ TypeOK /\ call[c] \in CallType
           /\ call[c].pc \in {"insert", "stages", "register", "reset", "setRunning"}
                => call[c].job \in Jobs
           /\ call[c].pc \in {"reserve", "plan", "reset", "setRunning"}
                => call[c].orig \in Jobs
           /\ call[c].orig \in Jobs \cup {NoJob}
           /\ call[c].pc = "idle" => call[c].orig = NoJob
           /\ call[c].pc \in {"idle", "reserve", "plan"} => call[c].job = NoJob
           /\ call[c].pc \in {"reset", "setRunning"} => call[c].job = call[c].orig
           /\ call[c].pc # "idle" => proc \in {"up", "draining"}
           /\ call[c].job # NoJob =>
                \A d \in Calls : d # c => call[d].job # call[c].job
           /\ Reserved(c) =>
                /\ call[c].orig \in retrying
                /\ call[c].orig \notin raced => NoLive(call[c].orig)
                /\ \A d \in Calls : d # c /\ Reserved(d) => call[d].orig # call[c].orig
           /\ call[c].orig # NoJob =>
                /\ job[call[c].orig].status # "none"
                /\ call[c].status \notin {"none", "pending"}
                     => job[call[c].orig].status \notin {"none", "pending"}
           /\ Creates(c) =>
                /\ call[c].orig # call[c].job
                /\ job[call[c].job].status \in {"none", "pending"}
                /\ call[c].pc # "insert" => job[call[c].job].status # "none"
                /\ NoLive(call[c].job)
                /\ \A s \in Stages : stage[call[c].job][s] \in {"none", "pending"}
<1>1. TypeOK /\ ProcInv /\ CallInv /\ JobInv /\ ReservedInv /\ OrigInv /\ CreatesInv
  BY DEF IInv
<1>2. call[c] \in CallType /\ call[c].orig \in Jobs \cup {NoJob}
  BY ZenonT(20), <1>1 DEF TypeOK, CallType
<1>3. /\ call[c].pc \in {"insert", "stages", "register", "reset", "setRunning"}
           => call[c].job \in Jobs
      /\ call[c].pc \in {"reserve", "plan", "reset", "setRunning"}
           => call[c].orig \in Jobs
      /\ call[c].pc # "idle" => proc \in {"up", "draining"}
  BY <1>1 DEF TypeOK, ProcInv
<1>4. /\ call[c].pc = "idle" => call[c].orig = NoJob
      /\ call[c].pc \in {"idle", "reserve", "plan"} => call[c].job = NoJob
      /\ call[c].pc \in {"reset", "setRunning"} => call[c].job = call[c].orig
  BY <1>1 DEF CallInv
<1>5. call[c].job # NoJob => \A d \in Calls : d # c => call[d].job # call[c].job
  BY <1>1 DEF JobInv
<1>6. Reserved(c) =>
        /\ call[c].orig \in retrying
        /\ call[c].orig \notin raced => NoLive(call[c].orig)
        /\ \A d \in Calls : d # c /\ Reserved(d) => call[d].orig # call[c].orig
  BY <1>1 DEF ReservedInv
<1>7. call[c].orig # NoJob =>
        /\ job[call[c].orig].status # "none"
        /\ call[c].status \notin {"none", "pending"}
             => job[call[c].orig].status \notin {"none", "pending"}
  BY <1>1 DEF OrigInv, Begun
<1>8. Creates(c) =>
        /\ call[c].orig # call[c].job
        /\ job[call[c].job].status \in {"none", "pending"}
        /\ call[c].pc # "insert" => job[call[c].job].status # "none"
        /\ NoLive(call[c].job)
        /\ \A s \in Stages : stage[call[c].job][s] \in {"none", "pending"}
  BY <1>1, ZenonT(60) DEF CreatesInv, Begun
<1>. QED
  BY <1>1, <1>2, <1>3, <1>4, <1>5, <1>6, <1>7, <1>8, Zenon

\* A request step without a database write keeps the database's part.
LEMMA NoWrites ==
    ASSUME IInv, NEW c \in Calls, UNCHANGED db
    PROVE  CallWrites(c)
BY ZenonT(30) DEF IInv, TypeOK, CallWrites, db

\* A job without a row has no live run.
LEMMA FreshFacts ==
    ASSUME IInv, NEW j \in Jobs, Fresh(j)
    PROVE  /\ job[j].status = "none" /\ NoLive(j)
           /\ \A s \in Stages : stage[j][s] \in {"none", "pending"}
           /\ \A d \in Calls : call[d].job # j
BY DEF IInv, LiveInv, Fresh, NoLive

=============================================================================
