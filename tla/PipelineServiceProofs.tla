----------------------- MODULE PipelineServiceProofs ------------------------
(***************************************************************************)
(* The theorems about PipelineService, for any jobs, runs, requests,       *)
(* analyzers and bounds: the steps of a CreateJob or RetryJob request and  *)
(* of the process keep the invariant, and what follows from it.            *)
(***************************************************************************)
EXTENDS PipelineServiceRunProofs

-----------------------------------------------------------------------------
(* The steps of a request (CreateJob, RetryJob)                            *)

\* CreateJob's admission preserves the invariant.
LEMMA CreateBeginStep ==
    ASSUME IInv, NEW c \in Calls, NEW j \in Jobs, CreateBegin(c, j)
    PROVE  IInv'
<1>. DEFINE rec == [IdleCall EXCEPT !.pc = "insert", !.job = j]
<1>1. /\ rec \in CallType /\ rec.pc = "insert" /\ rec.job = j /\ rec.orig = NoJob
      /\ NoJob # j
  BY IdleTyped, ConstantsAssumption, Zenon DEF IdleCall, CallType, CallPC
<1>2. call' = [call EXCEPT ![c] = rec]
  BY DEF CreateBegin
<1>. HIDE DEF rec
<1>3. /\ UNCHANGED <<db, job, stage, running, run, env, raced, retrying, faults>>
      /\ listening /\ call[c].pc = "idle"
  BY DEF CreateBegin, db
<1>4. CallWrites(c)
  BY <1>3, NoWrites
<1>5. Fresh(j)
  BY ZenonT(60) DEF CreateBegin
<1>6. CallLocal(c, rec)
  BY <1>1, <1>3, <1>5, FreshFacts, ZenonT(60) DEF CallLocal
<1>7. /\ proc \in {"up", "draining"} /\ retrying' \subseteq Jobs /\ faults' \in 0..MaxFaults
      /\ \A d \in Calls : d # c /\ Reserved(d) => call[d].orig \in retrying'
  BY <1>3, ZenonT(60) DEF IInv, ProcInv, TypeOK, ReservedInv
<1>. QED
  BY <1>2, <1>3, <1>4, <1>6, <1>7, CallKeepsInv, Zenon

\* RetryJob's first read preserves the invariant.
LEMMA RetryReadStep ==
    ASSUME IInv, NEW c \in Calls, NEW j \in Jobs, RetryRead(c, j)
    PROVE  IInv'
<1>. DEFINE rec == [IdleCall EXCEPT !.pc = "reserve", !.orig = j,
                          !.status = job[j].status, !.class = job[j].class]
<1>1. job[j] \in [status : JobStatus, class : Classes]
  BY DEF IInv, TypeOK
<1>2. /\ rec \in CallType /\ rec.pc = "reserve" /\ rec.job = NoJob /\ rec.orig = j
      /\ rec.status = job[j].status /\ NoJob # j
  BY <1>1, IdleTyped, ConstantsAssumption, ZenonT(60) DEF IdleCall, CallType, CallPC
<1>3. call' = [call EXCEPT ![c] = rec]
  BY DEF RetryRead
<1>. HIDE DEF rec
<1>4. /\ UNCHANGED <<db, job, stage, running, run, env, raced, retrying, faults>>
      /\ listening /\ call[c].pc = "idle" /\ job[j].status # "none"
  BY DEF RetryRead, db
<1>5. CallWrites(c)
  BY <1>4, NoWrites
<1>6. CallLocal(c, rec)
  BY <1>2, <1>4, ZenonT(60) DEF CallLocal
<1>7. /\ proc \in {"up", "draining"} /\ retrying' \subseteq Jobs /\ faults' \in 0..MaxFaults
      /\ \A d \in Calls : d # c /\ Reserved(d) => call[d].orig \in retrying'
  BY <1>4 DEF IInv, ProcInv, TypeOK, ReservedInv
<1>. QED
  BY <1>3, <1>4, <1>5, <1>6, <1>7, CallKeepsInv, Zenon

\* reserveRetry preserves the invariant: one call per job holds the reservation.
LEMMA RetryReserveStep ==
    ASSUME IInv, NEW c \in Calls, RetryReserve(c)
    PROVE  IInv'
<1>. DEFINE j   == call[c].orig
            rec == [call[c] EXCEPT !.pc = "plan"]
<1>1. /\ UNCHANGED <<db, job, stage, running, run, env, raced, faults>>
      /\ call[c].pc = "reserve"
  BY ZenonT(60) DEF RetryReserve, db
<1>a. CallWrites(c)
  BY <1>1, NoWrites, Zenon
<1>b. /\ proc \in {"up", "draining"} /\ j \in Jobs /\ TypeOK
  BY <1>1, CallFacts, Zenon
<1>c. faults' \in 0..MaxFaults
  BY <1>1, <1>b, Zenon DEF TypeOK
<1>2. /\ CallWrites(c) /\ faults' \in 0..MaxFaults /\ proc \in {"up", "draining"}
      /\ j \in Jobs /\ TypeOK
  BY <1>a, <1>b, <1>c, Zenon
<1>3. CASE running[j] # NoRun \/ j \in retrying
  <2>1. call' = [call EXCEPT ![c] = IdleCall] /\ UNCHANGED retrying
    BY <1>3 DEF RetryReserve
  <2>2. CallLocal(c, IdleCall)
    BY IdleTyped DEF CallLocal, IdleCall
  <2>3. /\ retrying' \subseteq Jobs
        /\ \A d \in Calls : d # c /\ Reserved(d) => call[d].orig \in retrying'
    BY <2>1 DEF IInv, TypeOK, ReservedInv
  <2>. QED
    BY <1>1, <1>2, <2>1, <2>2, <2>3, CallKeepsInv, Zenon
<1>4. CASE running[j] = NoRun /\ j \notin retrying
  <2>1. call' = [call EXCEPT ![c] = rec] /\ retrying' = retrying \cup {j}
    BY <1>2, <1>4 DEF RetryReserve, TypeOK
  <2>2. /\ rec \in CallType /\ rec.pc = "plan" /\ rec.job = NoJob /\ rec.orig = j
        /\ rec.status = call[c].status
    BY <1>1, CallFacts DEF CallType, CallPC
  <2>. HIDE DEF rec
  <2>3. /\ retrying' \subseteq Jobs
        /\ \A d \in Calls : Reserved(d) => call[d].orig \in retrying
        /\ \A d \in Calls : d # c /\ Reserved(d) => call[d].orig \in retrying'
    BY <1>2, <2>1 DEF IInv, TypeOK, ReservedInv
  <2>4. j \notin raced => NoLive(j)
    BY <1>2, <1>4, ConstantsAssumption, ZenonT(60) DEF IInv, RegisteredInv, NoLive
  <2>5. CallLocal(c, rec)
    BY <1>1, <1>2, <1>4, <2>1, <2>2, <2>3, <2>4, CallFacts, ZenonT(60) DEF CallLocal
  <2>. QED
    BY <1>1, <1>2, <2>1, <2>3, <2>5, CallKeepsInv, ZenonT(60)
<1>. QED
  BY <1>3, <1>4

\* A retry from failure cannot pick a job another request is still creating:
\* such a job has no stopped stage and has not begun.
LEMMA PlannedIsNotCreated ==
    ASSUME IInv, NEW c \in Calls, call[c].pc = "plan",
           Stopped(call[c].orig) # {} \/ call[c].status \in {"failed", "cancelled"},
           NEW d \in Calls, d # c
    PROVE  call[d].job # call[c].orig
<1>. SUFFICES ASSUME call[d].job = call[c].orig
              PROVE  FALSE
  BY ZenonT(60)
<1>1. call[c].orig \in Jobs /\ call[c].orig # NoJob /\ Reserved(c)
  BY CallFacts, ConstantsAssumption, ZenonT(60) DEF Reserved
<1>2. call[d].pc \in CallPC /\ call[d].job # NoJob
  BY <1>1, CallFacts, ZenonT(60) DEF CallType
<1>3. Creates(d) \/ (Reserved(d) /\ call[d].orig = call[c].orig)
  BY <1>1, <1>2, CallFacts DEF Creates, Reserved, CallPC
<1>4. CASE Creates(d)
  <2>1. /\ job[call[c].orig].status \in {"none", "pending"}
        /\ \A s \in Stages : stage[call[c].orig][s] \in {"none", "pending"}
    BY <1>4, CallFacts, ZenonT(60)
  <2>2. call[c].status \notin {"failed", "cancelled"}
    BY <1>1, <2>1, CallFacts, ZenonT(60)
  <2>3. Stopped(call[c].orig) = {}
    BY <2>1, ZenonT(60) DEF Stopped
  <2>. QED
    BY <2>2, <2>3, ZenonT(60)
<1>5. CASE Reserved(d) /\ call[d].orig = call[c].orig
  BY <1>1, <1>5, CallFacts
<1>. QED
  BY <1>3, <1>4, <1>5, ZenonT(60)

\* RetryJob's second read and refusals preserve the invariant.
LEMMA RetryPlanStep ==
    ASSUME IInv, NEW c \in Calls, RetryPlan(c)
    PROVE  IInv'
<1>. DEFINE j == call[c].orig
<1>1. /\ UNCHANGED <<db, job, stage, running, run, env, raced, faults>>
      /\ call[c].pc = "plan"
  BY ZenonT(60) DEF RetryPlan, db
<1>2. /\ CallWrites(c) /\ faults' \in 0..MaxFaults /\ proc \in {"up", "draining"}
      /\ j \in Jobs /\ TypeOK /\ j # NoJob /\ Reserved(c)
  BY <1>1, NoWrites, CallFacts, ConstantsAssumption, ZenonT(60) DEF TypeOK, Reserved
<1>3. CASE Leave(c)
  BY <1>1, <1>2, <1>3, LeaveStep, ZenonT(60)
<1>4. UNCHANGED retrying =>
        /\ retrying' \subseteq Jobs
        /\ \A d \in Calls : d # c /\ Reserved(d) => call[d].orig \in retrying'
  BY DEF IInv, TypeOK, ReservedInv
<1>5. CASE /\ Stopped(j) # {} /\ UNCHANGED retrying
           /\ call' = [call EXCEPT ![c].pc = "reset", ![c].job = j, ![c].from = FirstFailed(j)]
  <2>. DEFINE from == FirstFailed(j)
              rec  == [call[c] EXCEPT !.pc = "reset", !.job = j, !.from = from]
  <2>1. from \in Stages
    BY <1>2, <1>5, FirstFailedIsStage
  <2>2. call' = [call EXCEPT ![c] = rec]
    BY <1>2, <1>5, Zenon DEF TypeOK
  <2>. HIDE DEF from
  <2>3. /\ rec \in CallType /\ rec.pc = "reset" /\ rec.job = j /\ rec.orig = j
        /\ rec.status = call[c].status /\ rec.from = from
    BY <1>2, <2>1, CallFacts, Zenon DEF CallType, CallPC
  <2>. HIDE DEF rec
  <2>4. \A d \in Calls : d # c => call[d].job # j
    BY <1>1, <1>5, PlannedIsNotCreated
  <2>5. CallLocal(c, rec)
    BY <1>1, <1>2, <1>5, <2>1, <2>3, <2>4, CallFacts DEF CallLocal
  <2>. QED
    BY <1>1, <1>2, <1>4, <1>5, <2>2, <2>5, CallKeepsInv, Zenon
<1>6. CASE /\ call[c].status \in {"failed", "cancelled"} /\ UNCHANGED retrying
           /\ call' = [call EXCEPT ![c].pc = "setRunning", ![c].job = j]
  <2>. DEFINE rec  == [call[c] EXCEPT !.pc = "setRunning", !.job = j]
  <2>2. call' = [call EXCEPT ![c] = rec]
    BY <1>2, <1>6, Zenon DEF TypeOK
  <2>3. /\ rec \in CallType /\ rec.pc = "setRunning" /\ rec.job = j /\ rec.orig = j
        /\ rec.status = call[c].status
    BY <1>2, CallFacts, ZenonT(30) DEF CallType, CallPC
  <2>. HIDE DEF rec
  <2>4. \A d \in Calls : d # c => call[d].job # j
    BY <1>1, <1>6, PlannedIsNotCreated
  <2>5. CallLocal(c, rec)
    BY <1>1, <1>2, <1>6, <2>3, <2>4, CallFacts DEF CallLocal
  <2>. QED
    BY <1>1, <1>2, <1>4, <1>6, <2>2, <2>5, CallKeepsInv, Zenon
<1>. QED
  BY <1>3, <1>5, <1>6 DEF RetryPlan

\* A retry that becomes a new job preserves the invariant: its ID is fresh.
LEMMA RetryAsNewStep ==
    ASSUME IInv, NEW c \in Calls, NEW j \in Jobs, RetryAsNew(c, j)
    PROVE  IInv'
<1>. DEFINE rec == [call[c] EXCEPT !.pc = "insert", !.job = j]
<1>1. /\ UNCHANGED <<db, job, stage, running, run, env, raced, retrying, faults>>
      /\ call[c].pc = "plan" /\ Fresh(j)
  BY DEF RetryAsNew, db
<1>2. /\ CallWrites(c) /\ faults' \in 0..MaxFaults /\ proc \in {"up", "draining"}
      /\ TypeOK /\ call[c].orig # NoJob /\ Reserved(c)
  BY <1>1, NoWrites, CallFacts, ConstantsAssumption, Zenon DEF TypeOK, Reserved
<1>3. call' = [call EXCEPT ![c] = rec]
  BY <1>2, Zenon DEF RetryAsNew, TypeOK
<1>4. /\ rec \in CallType /\ rec.pc = "insert" /\ rec.job = j
      /\ rec.orig = call[c].orig /\ rec.status = call[c].status
  BY <1>2, CallFacts, ZenonT(60) DEF CallType, CallPC
<1>. HIDE DEF rec
<1>5. /\ retrying' \subseteq Jobs
      /\ \A d \in Calls : d # c /\ Reserved(d) => call[d].orig \in retrying'
  BY <1>1, Zenon DEF IInv, TypeOK, ReservedInv
<1>6. call[c].orig # j
  BY <1>1, <1>2, FreshFacts, CallFacts, ZenonT(60)
<1>7. /\ call[c].orig \in retrying' /\ call[c].orig \in Jobs
      /\ call[c].orig \notin raced => NoLive(call[c].orig)
      /\ \A d \in Calls : d # c /\ Reserved(d) => call[d].orig # call[c].orig
      /\ job'[call[c].orig].status # "none"
      /\ call[c].status \notin {"none", "pending"}
           => job'[call[c].orig].status \notin {"none", "pending"}
  BY <1>1, <1>2, CallFacts, ZenonT(60)
<1>8. /\ job'[j].status = "none" /\ NoLive(j)
      /\ \A s \in Stages : stage'[j][s] \in {"none", "pending"}
      /\ \A d \in Calls : call[d].job # j
  BY <1>1, FreshFacts, ZenonT(60)
<1>9. CallLocal(c, rec)
  BY <1>4, <1>6, <1>7, <1>8 DEF CallLocal
<1>. QED
  BY <1>1, <1>2, <1>3, <1>5, <1>9, CallKeepsInv, ZenonT(30)

\* A request that moves to its next step and keeps its job and reservation.
LEMMA MoveStep ==
    ASSUME IInv, NEW c \in Calls, NEW pc \in CallPC \ {"idle", "reserve", "plan", "insert"},
           call[c].pc \notin {"idle", "reserve", "plan"},
           call' = [call EXCEPT ![c].pc = pc],
           UNCHANGED <<running, run, env, raced, retrying>>, CallWrites(c),
           faults' \in 0..MaxFaults,
           pc \in {"reset", "setRunning"} => call[c].job = call[c].orig,
           pc = "reset" => call[c].from \in Stages,
           pc \in {"stages", "register"} /\ call[c].orig # call[c].job =>
             /\ Creates(c)
             /\ job'[call[c].job].status = "pending"
             /\ \A s \in Stages : stage'[call[c].job][s] \in {"none", "pending"},
           pc = "stages" => call[c].orig # call[c].job
    PROVE  IInv'
<1>. DEFINE rec == [call[c] EXCEPT !.pc = pc]
<1>1. call' = [call EXCEPT ![c] = rec]
  BY CallFacts DEF TypeOK
<1>2. /\ rec \in CallType /\ rec.pc = pc /\ rec.job = call[c].job /\ rec.orig = call[c].orig
      /\ rec.status = call[c].status /\ rec.from = call[c].from
  BY CallFacts DEF CallType
<1>3. call[c].pc \in CallPC
  BY CallFacts DEF CallType
<1>. HIDE DEF rec
<1>4. call[c].job \in Jobs /\ call[c].job # NoJob /\ call[c].orig \in Jobs \cup {NoJob}
  BY <1>3, CallFacts, ConstantsAssumption DEF CallPC
<1>5. call[c].orig # NoJob => Reserved(c)
  BY ZenonT(60) DEF Reserved
<1>6. call[c].orig # NoJob =>
        /\ job'[call[c].orig].status # "none"
        /\ call[c].status \notin {"none", "pending"}
             => job'[call[c].orig].status \notin {"none", "pending"}
  BY <1>4, CallFacts DEF CallWrites
<1>7. call[c].orig # NoJob =>
        /\ call[c].orig \in retrying'
        /\ call[c].orig \notin raced => NoLive(call[c].orig)
        /\ \A d \in Calls : d # c /\ Reserved(d) => call[d].orig # call[c].orig
  BY <1>5, CallFacts
<1>8. \A d \in Calls : d # c => call[d].job # call[c].job
  BY <1>4, CallFacts
<1>9. /\ rec.pc \in {"reserve", "plan", "reset", "setRunning"} => rec.orig \in Jobs
      /\ rec.pc \in {"reset", "setRunning"} => rec.job = rec.orig
      /\ rec.pc = "reset" => rec.from \in Stages
  BY <1>2, <1>4
<1>10. rec.pc \in {"insert", "stages"} \/ (rec.pc = "register" /\ rec.orig # rec.job) =>
         /\ rec.orig # rec.job
         /\ job'[rec.job].status \in {"none", "pending"}
         /\ rec.pc # "insert" => job'[rec.job].status # "none"
         /\ NoLive(rec.job)
         /\ \A s \in Stages : stage'[rec.job][s] \in {"none", "pending"}
  BY <1>2, CallFacts, ZenonT(60)
<1>11. CallLocal(c, rec)
  BY <1>2, <1>4, <1>6, <1>7, <1>8, <1>9, <1>10, ZenonT(60) DEF CallLocal
<1>12. /\ retrying' \subseteq Jobs /\ proc \in {"up", "draining"}
       /\ \A d \in Calls : d # c /\ Reserved(d) => call[d].orig \in retrying'
  BY CallFacts DEF IInv, TypeOK, ReservedInv
<1>. QED
  BY <1>1, <1>11, <1>12, CallKeepsInv, ZenonT(30)

\* Inserting the job row, or losing that write, preserves the invariant.
LEMMA CreateInsertStep ==
    ASSUME IInv, NEW c \in Calls, CreateInsert(c)
    PROVE  IInv'
<1>. DEFINE j   == call[c].job
            new == [status |-> "pending", class |-> "retryable"]
            row == [job EXCEPT ![j] = new]
<1>1. /\ UNCHANGED <<stage, running, run, env, raced>> /\ call[c].pc = "insert"
      /\ job' \in {job, row}
      /\ \/ Leave(c)
         \/ call' = [call EXCEPT ![c].pc = "stages"] /\ retrying' = retrying /\ job' = row
  BY DEF CreateInsert
<1>2. faults' \in 0..MaxFaults
  BY FaultTyped DEF CreateInsert, IInv
<1>3. /\ Creates(c) /\ j \in Jobs /\ TypeOK /\ job[j].status \in {"none", "pending"}
      /\ call[c].orig # j
      /\ \A s \in Stages : stage[j][s] \in {"none", "pending"}
  BY <1>1, CallFacts DEF Creates
<1>4. new \in [status : JobStatus, class : Classes] /\ new.status = "pending"
  BY ConstantsAssumption, ZenonT(60) DEF JobStatus
<1>. HIDE DEF new
<1>5. CallWrites(c)
  <2>1. /\ job' \in [Jobs -> [status : JobStatus, class : Classes]]
        /\ \A k \in Jobs : k # j => job'[k] = job[k]
        /\ job'[j] = job[j] \/ job'[j] = new
    BY <1>1, <1>3, <1>4, SMTT(60) DEF TypeOK
  <2>2. stage' = stage /\ stage \in [Jobs -> [Stages -> StageStatus]] /\ Mutable(j)
    BY <1>1, <1>3 DEF TypeOK, Mutable
  <2>. QED
    BY <1>3, <1>4, <2>1, <2>2 DEF CallWrites
<1>6. CASE Leave(c)
  BY <1>1, <1>2, <1>5, <1>6, LeaveStep
<1>7. CASE call' = [call EXCEPT ![c].pc = "stages"] /\ retrying' = retrying /\ job' = row
  <2>1. "stages" \in CallPC \ {"idle", "reserve", "plan", "insert"}
    BY DEF CallPC
  <2>2. /\ job'[j].status = "pending"
        /\ \A s \in Stages : stage'[j][s] \in {"none", "pending"}
    BY <1>1, <1>3, <1>4, <1>7 DEF TypeOK
  <2>. QED
    BY <1>1, <1>2, <1>3, <1>5, <1>7, <2>1, <2>2, MoveStep, Zenon
<1>. QED
  BY <1>1, <1>6, <1>7

\* Inserting the stage rows, or losing that write, preserves the invariant.
LEMMA CreateStagesStep ==
    ASSUME IInv, NEW c \in Calls, CreateStages(c)
    PROVE  IInv'
<1>. DEFINE j    == call[c].job
            new  == [s \in Stages |-> "pending"]
            rows == [stage EXCEPT ![j] = new]
<1>1. /\ UNCHANGED <<job, running, run, env, raced>> /\ call[c].pc = "stages"
      /\ stage' \in {stage, rows}
      /\ \/ Leave(c)
         \/ call' = [call EXCEPT ![c].pc = "register"] /\ retrying' = retrying
  BY DEF CreateStages
<1>2. faults' \in 0..MaxFaults
  BY FaultTyped DEF CreateStages, IInv
<1>3. /\ Creates(c) /\ j \in Jobs /\ TypeOK /\ job[j].status = "pending"
      /\ NoLive(j)
      /\ \A s \in Stages : stage[j][s] \in {"none", "pending"}
  BY <1>1, CallFacts DEF Creates
<1>4. new \in [Stages -> StageStatus] /\ \A s \in Stages : new[s] = "pending"
  BY DEF StageStatus
<1>. HIDE DEF new
<1>5. CallWrites(c)
  BY <1>1, <1>3, <1>4 DEF CallWrites, Mutable, TypeOK
<1>6. CASE Leave(c)
  BY <1>1, <1>2, <1>5, <1>6, LeaveStep
<1>7. CASE call' = [call EXCEPT ![c].pc = "register"] /\ retrying' = retrying
  <2>1. "register" \in CallPC \ {"idle", "reserve", "plan", "insert"}
    BY DEF CallPC
  <2>2. /\ job'[j].status = "pending"
        /\ \A s \in Stages : stage'[j][s] \in {"none", "pending"}
    BY <1>1, <1>3, <1>4, <1>7 DEF TypeOK
  <2>. QED
    BY <1>1, <1>2, <1>3, <1>5, <1>7, <2>1, <2>2, MoveStep, ZenonT(60)
<1>. QED
  BY <1>1, <1>6, <1>7

\* ResetStagesFrom preserves the invariant: no live run relies on the rows
\* it puts back to pending.
LEMMA RetryResetStep ==
    ASSUME IInv, NEW c \in Calls, RetryReset(c)
    PROVE  IInv'
<1>. DEFINE j    == call[c].job
            new  == [s \in Stages |-> IF s \in ResetFrom(call[c].from)
                                        THEN "pending" ELSE stage[j][s]]
            rows == [stage EXCEPT ![j] = new]
<1>1. /\ UNCHANGED <<job, running, run, env, raced>> /\ call[c].pc = "reset"
      /\ stage' \in {stage, rows} /\ (~Mutable(j) => stage' = stage)
      /\ \/ Leave(c)
         \/ call' = [call EXCEPT ![c].pc = "setRunning"] /\ retrying' = retrying
  BY DEF RetryReset
<1>2. faults' \in 0..MaxFaults
  BY FaultTyped DEF RetryReset, IInv
<1>3. /\ j \in Jobs /\ TypeOK /\ j = call[c].orig /\ j # NoJob
      /\ j \notin raced => NoLive(j)
      /\ job[j].status # "none"
  BY <1>1, CallFacts, ConstantsAssumption DEF Reserved
<1>4. new \in [Stages -> StageStatus]
  BY <1>3 DEF TypeOK, StageStatus
<1>. HIDE DEF new
<1>5. CallWrites(c)
  BY <1>1, <1>3, <1>4, ZenonT(60) DEF CallWrites, TypeOK
<1>6. CASE Leave(c)
  BY <1>1, <1>2, <1>5, <1>6, LeaveStep
<1>7. CASE call' = [call EXCEPT ![c].pc = "setRunning"] /\ retrying' = retrying
  <2>1. "setRunning" \in CallPC \ {"idle", "reserve", "plan", "insert"}
    BY DEF CallPC
  <2>. QED
    BY <1>1, <1>2, <1>3, <1>5, <1>7, <2>1, MoveStep, Zenon
<1>. QED
  BY <1>1, <1>6, <1>7

\* RetryJob's status write preserves the invariant.
LEMMA RetrySetRunningStep ==
    ASSUME IInv, NEW c \in Calls, RetrySetRunning(c)
    PROVE  IInv'
<1>. DEFINE j == call[c].job
<1>1. /\ UNCHANGED <<stage, running, run, env, raced>> /\ call[c].pc = "setRunning"
      /\ job' = job \/ job' = SetJob(j, "running", "retryable")
      /\ \/ Leave(c)
         \/ call' = [call EXCEPT ![c].pc = "register"] /\ retrying' = retrying
  BY DEF RetrySetRunning
<1>2. faults' \in 0..MaxFaults
  BY FaultTyped DEF RetrySetRunning, IInv
<1>3. j \in Jobs /\ TypeOK /\ j = call[c].orig /\ job[j].status # "none"
  BY <1>1, CallFacts, ConstantsAssumption
<1>4. /\ "running" \in JobStatus \ {"none", "pending"} /\ "retryable" \in Classes
  BY ConstantsAssumption DEF JobStatus
<1>5. /\ job' \in [Jobs -> [status : JobStatus, class : Classes]]
      /\ \A k \in Jobs : k # j => job'[k] = job[k]
      /\ ~Mutable(j) => job' = job
      /\ job'[j] = job[j] \/ job'[j].status = "running"
  BY <1>1, <1>3, <1>4, JobWritten DEF SetJob
<1>6. CallWrites(c)
  BY <1>1, <1>3, <1>5 DEF CallWrites, TypeOK
<1>7. CASE Leave(c)
  BY <1>1, <1>2, <1>6, <1>7, LeaveStep
<1>8. CASE call' = [call EXCEPT ![c].pc = "register"] /\ retrying' = retrying
  <2>1. "register" \in CallPC \ {"idle", "reserve", "plan", "insert"}
    BY DEF CallPC
  <2>. QED
    BY <1>1, <1>2, <1>3, <1>6, <1>8, <2>1, MoveStep, ZenonT(60)
<1>. QED
  BY <1>1, <1>7, <1>8

-----------------------------------------------------------------------------
(* Starting a run: a registered job has no live run, or it is in raced.    *)

\* Run r of job j starts; every request either ends or is not about j's run.
Starts(r, j, resumed) ==
    /\ ~Live(r)
    /\ run' = [run EXCEPT ![r] = NewRun(j, resumed)]
    /\ running' = [running EXCEPT ![j] = r]
    /\ raced \subseteq raced' /\ raced' \subseteq raced \cup {j}
    /\ j \notin raced' => NoLive(j)
    /\ job[j].status # "none" /\ proc # "down"
    /\ UNCHANGED <<job, stage, proc, listening, listed, resume, faults, halts>>
    /\ dispatch' \in {dispatch, NoJob} /\ retrying' \subseteq Jobs
    /\ call' \in [Calls -> CallType]
    /\ \A d \in Calls :
         \/ call'[d] = IdleCall
         \/ /\ call'[d] = call[d]
            /\ Reserved(d) => /\ call[d].orig \in retrying'
                              /\ call[d].orig = j => j \in raced'
            /\ Creates(d) => call[d].job # j

\* A starting run preserves the invariant, if its job has no live run or is
\* in raced.
LEMMA StartStep ==
    ASSUME IInv, NEW j \in Jobs, NEW r \in Runs, NEW resumed \in BOOLEAN,
           Starts(r, j, resumed)
    PROVE  IInv'
<1>. DEFINE rec == NewRun(j, resumed)
<1>a. /\ ~Live(r) /\ run' = [run EXCEPT ![r] = rec]
      /\ running' = [running EXCEPT ![j] = r]
  BY Zenon DEF Starts
<1>b. /\ raced \subseteq raced' /\ raced' \subseteq raced \cup {j}
      /\ j \notin raced' => NoLive(j)
  BY Zenon DEF Starts
<1>c. job[j].status # "none" /\ proc # "down"
  BY Zenon DEF Starts
<1>d. /\ job' = job /\ stage' = stage /\ proc' = proc /\ listening' = listening
      /\ listed' = listed /\ resume' = resume /\ faults' = faults /\ halts' = halts
  BY DEF Starts
<1>e. dispatch' \in {dispatch, NoJob} /\ retrying' \subseteq Jobs
  BY Zenon DEF Starts
<1>f. call' \in [Calls -> CallType]
  BY Zenon DEF Starts
<1>g. \A d \in Calls :
         \/ call'[d] = IdleCall
         \/ /\ call'[d] = call[d]
            /\ Reserved(d) => /\ call[d].orig \in retrying'
                              /\ call[d].orig = j => j \in raced'
            /\ Creates(d) => call[d].job # j
  BY Zenon DEF Starts
<1>t. TypeOK
  BY Zenon DEF IInv
<1>1. run'[r] = rec /\ \A q \in Runs : q # r => run'[q] = run[q]
  BY <1>a, <1>t, Zenon DEF TypeOK
<1>2. /\ rec \in RunType /\ rec.job = j /\ rec.pc = "load" /\ rec.done = {}
      /\ rec.active = {} /\ ~rec.completing
  BY IdleTyped, ZenonT(60) DEF NewRun, IdleRun
<1>. HIDE DEF rec
<1>3. \A q \in Runs : run'[q].pc # "idle" /\ q # r => Live(q) /\ run'[q] = run[q]
  BY <1>1, Zenon DEF Live
<1>4. run' \in [Runs -> RunType] /\ running' \in [Jobs -> Runs \cup {NoRun}]
  BY <1>a, <1>t, <1>2 DEF TypeOK
<1>5. /\ IdleCall.pc = "idle" /\ IdleCall.job = NoJob /\ IdleCall.orig = NoJob
      /\ IdleCall \in CallType
  BY IdleTyped DEF IdleCall
<1>6. \A d \in Calls : call'[d].pc # "idle" \/ call'[d].job # NoJob \/ call'[d].orig # NoJob =>
        /\ call'[d] = call[d]
        /\ Reserved(d) => /\ call[d].orig \in retrying'
                          /\ call[d].orig = j => j \in raced'
        /\ Creates(d) => call[d].job # j
  BY <1>5, <1>g
<1>7. TypeOK'
  <2>1. \A q \in Runs : run'[q].pc # "idle" => run'[q].job \in Jobs
    BY <1>t, <1>1, <1>2, <1>3 DEF TypeOK
  <2>2. \A d \in Calls :
         /\ call'[d].pc \in {"insert", "stages", "register", "reset", "setRunning"}
              => call'[d].job \in Jobs
         /\ call'[d].pc \in {"reserve", "plan", "reset", "setRunning"}
              => call'[d].orig \in Jobs
         /\ call'[d].pc = "reset" => call'[d].from \in Stages
    BY <1>t, <1>6, ZenonT(60) DEF TypeOK
  <2>3. raced' \subseteq Jobs /\ dispatch' \in Jobs \cup {NoJob}
    BY <1>t, <1>b, <1>e DEF TypeOK
  <2>. QED
    BY <1>t, <1>d, <1>e, <1>f, <1>4, <2>1, <2>2, <2>3, ZenonT(60) DEF TypeOK, Live
<1>8. ProcInv'
  <2>1. ProcInv
    BY Zenon DEF IInv
  <2>. QED
    BY <1>c, <1>d, <1>e, <1>6, <2>1, ZenonT(60) DEF ProcInv
<1>9. RegisteredInv'
  <2>. SUFFICES ASSUME proc # "stopping", NEW q \in Runs, run'[q].pc # "idle",
                       run'[q].job \notin raced'
                PROVE  running'[run'[q].job] = q
    BY <1>d, ZenonT(60) DEF RegisteredInv, Live
  <2>1. CASE q = r
    BY <1>t, <1>a, <1>1, <1>2, <2>1 DEF TypeOK
  <2>2. CASE q # r
    <3>1. Live(q) /\ run'[q] = run[q] /\ run[q].job \in Jobs
      BY <1>t, <1>3, <2>2, Zenon DEF TypeOK
    <3>2. run[q].job # j /\ run[q].job \notin raced
      BY <1>b, <3>1, Zenon DEF NoLive
    <3>3. running[run[q].job] = q
      BY <3>1, <3>2, Zenon DEF IInv, RegisteredInv
    <3>. QED
      BY <1>t, <1>a, <3>1, <3>2, <3>3, ZenonT(30) DEF TypeOK
  <2>. QED
    BY <2>1, <2>2, Zenon
<1>10. RunsExclusive'
  <2>. SUFFICES ASSUME NEW p \in Runs, NEW q \in Runs, p # q, run'[p].pc # "idle",
                       run'[q].pc # "idle", run'[p].job = run'[q].job
                PROVE  run'[p].job \in raced'
    BY DEF RunsExclusive, Live
  <2>1. CASE p # r /\ q # r
    BY <1>b, <1>3, <2>1 DEF IInv, RunsExclusive
  <2>2. CASE p = r \/ q = r
    BY <1>b, <1>1, <1>2, <1>3, <2>2, Zenon DEF NoLive
  <2>. QED
    BY <2>1, <2>2, Zenon
<1>11. LiveInv' /\ CompletedHasResults'
  <2>1. LiveInv /\ CompletedHasResults
    BY Zenon DEF IInv
  <2>2. CompletedHasResults'
    BY <1>b, <1>d, <2>1, ZenonT(60) DEF CompletedHasResults
  <2>3. \A q \in Runs : run'[q].pc # "idle" => job[run'[q].job].status # "none"
    BY <1>c, <1>1, <1>2, <1>3, <2>1, ZenonT(60) DEF LiveInv
  <2>4. LiveInv'
    BY <1>d, <2>1, <2>3 DEF LiveInv, Live
  <2>. QED
    BY <2>2, <2>4, Zenon
<1>12. WorkInv' /\ CancelOrComplete'
  <2>1. WorkInv /\ CancelOrComplete
    BY Zenon DEF IInv
  <2>. QED
    BY <1>1, <1>2, <2>1, ZenonT(60) DEF WorkInv, CancelOrComplete
<1>13. DoneInv'
  <2>. SUFFICES ASSUME NEW q \in Runs, run'[q].pc # "idle", run'[q].job \notin raced',
                       NEW a \in run'[q].done \cap Analyzers
                PROVE  stage[run'[q].job][a] = "completed"
    BY <1>d, Zenon DEF DoneInv, Live
  <2>1. q # r
    BY <1>1, <1>2, Zenon
  <2>2. Live(q) /\ run'[q] = run[q] /\ run[q].job \notin raced
    BY <1>b, <1>3, <2>1
  <2>. QED
    BY <2>2 DEF IInv, DoneInv
<1>14. CallInv' /\ JobInv'
  <2>1. CallInv /\ JobInv
    BY Zenon DEF IInv
  <2>2. JobInv'
    BY <1>6, <2>1 DEF JobInv
  <2>3. CallInv'
    BY <1>5, <1>g, <2>1 DEF CallInv
  <2>. QED
    BY <2>2, <2>3, Zenon
<1>15. ReservedInv'
  <2>1. ReservedInv
    BY Zenon DEF IInv
  <2>2. \A d \in Calls : call'[d].pc \notin {"idle", "reserve"} /\ call'[d].orig # NoJob =>
          /\ Reserved(d) /\ call'[d] = call[d] /\ call[d].orig \in retrying'
          /\ call[d].orig = j => j \in raced'
    BY <1>6 DEF Reserved
  <2>3. \A d \in Calls : call'[d].pc \notin {"idle", "reserve"} /\ call'[d].orig # NoJob =>
          (call[d].orig \notin raced' =>
            \A q \in Runs : run'[q].pc # "idle" => run'[q].job # call[d].orig)
    BY <1>b, <1>1, <1>2, <1>3, <2>1, <2>2, SMTT(60) DEF ReservedInv, NoLive
  <2>. QED
    BY <2>1, <2>2, <2>3, ZenonT(60) DEF ReservedInv, Reserved, NoLive, Live
<1>16. OrigInv'
  <2>1. OrigInv
    BY Zenon DEF IInv
  <2>. QED
    BY <1>d, <1>6, <2>1 DEF OrigInv, Begun
<1>17. CreatesInv'
  <2>. SUFFICES ASSUME NEW d \in Calls, Creates(d)'
                PROVE  /\ call'[d].orig # call'[d].job
                       /\ job[call'[d].job].status \in {"none", "pending"}
                       /\ call'[d].pc # "insert" => job[call'[d].job].status # "none"
                       /\ \A q \in Runs : run'[q].pc # "idle" => run'[q].job # call'[d].job
                       /\ \A s \in Stages : stage[call'[d].job][s] \in {"none", "pending"}
    BY <1>d DEF CreatesInv, Begun, NoLive, Live
  <2>1. Creates(d) /\ call'[d] = call[d] /\ call[d].job # j
    BY <1>6, Zenon DEF Creates
  <2>2. CreatesInv
    BY Zenon DEF IInv
  <2>3. /\ call[d].orig # call[d].job
        /\ job[call[d].job].status \in {"none", "pending"}
        /\ call[d].pc # "insert" => job[call[d].job].status # "none"
        /\ \A q \in Runs : Live(q) => run[q].job # call[d].job
        /\ \A s \in Stages : stage[call[d].job][s] \in {"none", "pending"}
    BY <2>1, <2>2, Zenon DEF CreatesInv, Begun, NoLive
  <2>4. \A q \in Runs : run'[q].pc # "idle" => run'[q].job # call[d].job
    BY <1>1, <1>2, <1>3, <2>1, <2>3, Zenon
  <2>. QED
    BY <2>1, <2>3, <2>4, ZenonT(30)
<1>18. ResumeInv'
  <2>1. ResumeInv
    BY Zenon DEF IInv
  <2>. QED
    BY <1>d, <1>e, <2>1 DEF ResumeInv, Begun
<1>. QED
  BY <1>7, <1>8, <1>9, <1>10, <1>11, <1>12, <1>13, <1>14, <1>15, <1>16, <1>17, <1>18, ZenonT(30)
  DEF IInv

\* Registering the run of a created or retried job preserves the invariant.
LEMMA RegisterStep ==
    ASSUME IInv, NEW c \in Calls, Register(c)
    PROVE  IInv'
<1>. DEFINE j == call[c].job
<1>1. PICK r \in Runs : /\ ~Live(r)
                        /\ run' = [run EXCEPT ![r] = NewRun(j, FALSE)]
                        /\ running' = [running EXCEPT ![j] = r]
  BY ZenonT(60) DEF Register
<1>a. /\ call[c].pc = "register" /\ Leave(c) /\ UNCHANGED <<db, env, faults>>
      /\ raced' = IF call[c].orig # j /\ j \in retrying THEN raced \cup {j} ELSE raced
  BY ZenonT(60) DEF Register
<1>b. call' = [call EXCEPT ![c] = IdleCall] /\ retrying' = retrying \ {call[c].orig}
  BY <1>a, Zenon DEF Leave
<1>c. UNCHANGED <<job, stage, proc, listening, listed, resume, dispatch, faults, halts>>
  BY <1>a, Zenon DEF db, env
<1>2. /\ call[c].pc = "register"
      /\ call' = [call EXCEPT ![c] = IdleCall] /\ retrying' = retrying \ {call[c].orig}
      /\ raced' = IF call[c].orig # j /\ j \in retrying THEN raced \cup {j} ELSE raced
      /\ UNCHANGED <<job, stage, proc, listening, listed, resume, dispatch, faults, halts>>
  BY <1>a, <1>b, <1>c, Zenon
<1>3. /\ TypeOK /\ j \in Jobs /\ call[c].orig \in Jobs \cup {NoJob}
      /\ proc # "down" /\ j # NoJob
  BY <1>2, CallFacts, ConstantsAssumption, ZenonT(60)
<1>4. Creates(c) \/ (call[c].orig = j /\ Reserved(c))
  BY <1>2, <1>3, ZenonT(60) DEF Creates, Reserved
<1>5. job[j].status # "none" /\ (j \notin raced' => NoLive(j))
  BY <1>2, <1>3, <1>4, CallFacts, ZenonT(60)
<1>6. retrying' \subseteq Jobs /\ call' \in [Calls -> CallType]
  BY <1>2, <1>3, IdleTyped, ZenonT(60) DEF TypeOK
<1>7. /\ raced \subseteq raced' /\ raced' \subseteq raced \cup {j}
      /\ dispatch' \in {dispatch, NoJob}
  BY <1>2, ZenonT(60)
<1>8. ASSUME NEW d \in Calls
      PROVE  \/ call'[d] = IdleCall
             \/ /\ call'[d] = call[d]
                /\ Reserved(d) => /\ call[d].orig \in retrying'
                                  /\ call[d].orig = j => j \in raced'
                /\ Creates(d) => call[d].job # j
  <2>1. CASE d = c
    BY <1>2, <1>3, <2>1, ZenonT(60) DEF TypeOK
  <2>2. CASE d # c
    <3>1. call'[d] = call[d] /\ (Creates(d) => call[d].job # j)
      BY <1>2, <1>3, <2>2, CallFacts, ZenonT(60) DEF TypeOK
    <3>2. ASSUME Reserved(d)
          PROVE  /\ call[d].orig \in retrying' /\ (call[d].orig = j => j \in raced')
      <4>1. call[d].orig \in retrying /\ call[d].orig # NoJob
        BY <3>2, CallFacts, ZenonT(60) DEF Reserved
      <4>2. call[d].orig # call[c].orig
        BY <1>2, <2>2, <3>2, <4>1, CallFacts, ZenonT(60) DEF Reserved
      <4>. QED
        BY <1>2, <4>1, <4>2, ZenonT(60)
    <3>. QED
      BY <3>1, <3>2, ZenonT(60)
  <2>. QED
    BY <2>1, <2>2, ZenonT(60)
<1>9. Starts(r, j, FALSE)
  BY <1>1, <1>2, <1>3, <1>5, <1>6, <1>7, <1>8, ZenonT(60) DEF Starts
<1>. QED
  BY <1>3, <1>9, StartStep, ZenonT(60)

\* Every step of a request preserves the invariant.
LEMMA CallStepInv ==
    ASSUME IInv, NEW c \in Calls, CallStep(c)
    PROVE  IInv'
BY CreateInsertStep, CreateStagesStep, RegisterStep, RetryReserveStep, RetryPlanStep,
   RetryResetStep, RetrySetRunningStep, RetryAsNewStep, ZenonT(60) DEF CallStep

\* A request leaves a completed job's rows alone.
LEMMA CallKeepsCompleted ==
    ASSUME IInv, NEW c \in Calls, CallStep(c), NEW k \in Jobs, job[k].status = "completed"
    PROVE  job'[k] = job[k] /\ stage'[k] = stage[k]
<1>. DEFINE j == call[c].job
<1>1. TypeOK
  BY ZenonT(60) DEF IInv
<1>2. call[c].pc \in {"insert", "stages"} => k # j
  BY CallFacts DEF Creates
<1>3. CASE CreateInsert(c)
  BY <1>1, <1>2, <1>3 DEF CreateInsert, TypeOK
<1>4. CASE CreateStages(c)
  BY <1>1, <1>2, <1>4, ZenonT(60) DEF CreateStages, TypeOK
<1>5. CASE RetryReset(c)
  <2>1. UNCHANGED job /\ (~Mutable(j) => stage' = stage)
    BY <1>5 DEF RetryReset
  <2>2. k # j => stage'[k] = stage[k]
    BY <1>1, <1>5 DEF RetryReset, TypeOK
  <2>. QED
    BY <2>1, <2>2 DEF Mutable
<1>6. CASE RetrySetRunning(c)
  <2>1. UNCHANGED stage /\ (~Mutable(j) => job' = job)
    BY <1>6 DEF RetrySetRunning
  <2>2. k # j => job'[k] = job[k]
    BY <1>1, <1>6, ZenonT(60) DEF RetrySetRunning, TypeOK, SetJob
  <2>. QED
    BY <2>1, <2>2 DEF Mutable
<1>7. CASE Register(c) \/ RetryReserve(c) \/ RetryPlan(c) \/ \E i \in Jobs : RetryAsNew(c, i)
  BY <1>7, Zenon DEF Register, RetryReserve, RetryPlan, RetryAsNew, db
<1>. QED
  BY <1>3, <1>4, <1>5, <1>6, <1>7, ZenonT(60) DEF CallStep

-----------------------------------------------------------------------------
(* The process                                                             *)

\* A step that only moves the process, its listener or the resume list.
LEMMA ProcessStep ==
    ASSUME IInv, UNCHANGED <<job, stage, running, retrying, run, call, raced, faults, halts>>,
           proc' \in {"up", "draining", "stopping"}, listening' \in BOOLEAN,
           listed' \in BOOLEAN,
           resume' \subseteq Jobs, dispatch' \in Jobs \cup {NoJob},
           \A j \in resume' : Begun(j), dispatch' # NoJob => Begun(dispatch'),
           proc = "stopping" => proc' = "stopping",
           proc' = "stopping" => proc = "stopping",
           listening' => proc' = "up"
    PROVE  IInv'
<1>1. TypeOK'
  <2>1. TypeOK
    BY ZenonT(20) DEF IInv
  <2>. QED
    BY <2>1 DEF TypeOK, Live
<1>2. ProcInv' /\ RegisteredInv'
  <2>1. ProcInv /\ RegisteredInv
    BY Zenon DEF IInv
  <2>2. proc \in {"down", "up", "draining", "stopping"}
    BY DEF IInv, TypeOK
  <2>. QED
    BY <2>1, <2>2 DEF ProcInv, RegisteredInv, Live
<1>3. RunsExclusive' /\ LiveInv' /\ CallInv' /\ OrigInv' /\ JobInv' /\ ResumeInv'
  <2>1. RunsExclusive /\ LiveInv /\ CallInv /\ OrigInv /\ JobInv /\ ResumeInv
    BY DEF IInv
  <2>. QED
    BY <2>1 DEF RunsExclusive, LiveInv, CallInv, OrigInv, JobInv, ResumeInv, Live, Begun
<1>4. ReservedInv' /\ CreatesInv'
  <2>1. ReservedInv /\ CreatesInv
    BY DEF IInv
  <2>. QED
    BY <2>1 DEF ReservedInv, CreatesInv, Reserved, Creates, NoLive, Live, Begun
<1>5. WorkInv' /\ DoneInv' /\ CompletedHasResults' /\ CancelOrComplete'
  <2>1. WorkInv /\ DoneInv /\ CompletedHasResults /\ CancelOrComplete
    BY DEF IInv
  <2>. QED
    BY <2>1 DEF WorkInv, DoneInv, CompletedHasResults, CancelOrComplete, Live
<1>. QED
  BY ZenonT(20), <1>1, <1>2, <1>3, <1>4, <1>5 DEF IInv

\* Process start, Start's listing, the listener and the begin of a shutdown
\* preserve the invariant: a listed job has been begun.
LEMMA StartingStep ==
    ASSUME IInv, StartProcess \/ StartService \/ OpenListener \/ BeginShutdown
    PROVE  IInv'
<1>1. TypeOK /\ ResumeInv /\ ProcInv
  BY DEF IInv
<1>2. \A j \in Jobs : job[j].status = "running" => Begun(j)
  BY DEF Begun
<1>3. CASE StartService
  <2>1. \A j \in resume' : Begun(j)
    BY <1>2, <1>3 DEF StartService
  <2>. QED
    BY ZenonT(20), <1>1, <1>3, <2>1, ProcessStep DEF StartService, TypeOK, ResumeInv, ProcInv, db
<1>4. CASE StartProcess \/ OpenListener \/ BeginShutdown
  BY <1>1, <1>4, ProcessStep, Zenon
  DEF StartProcess, OpenListener, BeginShutdown, TypeOK, ResumeInv, ProcInv, db
<1>. QED
  BY <1>3, <1>4

\* The dispatcher's steps that register nothing preserve the invariant.
LEMMA DispatchStep ==
    ASSUME IInv, DispatchStop \/ (\E j \in Jobs : DispatchNext(j))
    PROVE  IInv'
<1>1. TypeOK /\ ResumeInv /\ ProcInv
  BY DEF IInv
<1>2. CASE DispatchStop
  BY ZenonT(20), <1>1, <1>2, ProcessStep DEF DispatchStop, TypeOK, ResumeInv, ProcInv, db
<1>3. CASE \E j \in Jobs : DispatchNext(j)
  BY <1>1, <1>3, ProcessStep DEF DispatchNext, TypeOK, ResumeInv, ProcInv, db
<1>. QED
  BY <1>2, <1>3

\* dispatchResumableJobs registering a run preserves the invariant: the job
\* is not in s.running, so a run beside it is recorded as a race.
LEMMA DispatchRegisterStep ==
    ASSUME IInv, DispatchRegister
    PROVE  IInv'
<1>. DEFINE j == dispatch
<1>1. /\ TypeOK /\ j \in Jobs /\ Begun(j) /\ proc # "down"
      /\ dispatch' = NoJob
      /\ UNCHANGED <<job, stage, retrying, call, proc, listening, listed, resume,
                     faults, halts>>
  BY ZenonT(20) DEF IInv, TypeOK, ResumeInv, ProcInv, DispatchRegister, db
<1>2. CASE UNCHANGED <<running, run, raced>>
  <2>1. ResumeInv /\ ProcInv
    BY DEF IInv
  <2>. QED
    BY <1>1, <1>2, <2>1, ProcessStep DEF TypeOK, ResumeInv, ProcInv
<1>3. CASE /\ running[j] = NoRun
           /\ \E r \in Runs : /\ ~Live(r)
                               /\ run' = [run EXCEPT ![r] = NewRun(j, TRUE)]
                               /\ running' = [running EXCEPT ![j] = r]
           /\ raced' = IF j \in retrying \/ proc = "stopping"
                         THEN raced \cup {j} ELSE raced
  <2>1. PICK r \in Runs : /\ ~Live(r)
                          /\ run' = [run EXCEPT ![r] = NewRun(j, TRUE)]
                          /\ running' = [running EXCEPT ![j] = r]
    BY <1>3, Zenon
  <2>2. job[j].status # "none"
    BY <1>1 DEF Begun
  <2>3. j \notin raced' => NoLive(j)
    BY ZenonT(20), <1>1, <1>3, ConstantsAssumption DEF IInv, RegisteredInv, NoLive
  <2>4. /\ raced \subseteq raced' /\ raced' \subseteq raced \cup {j}
        /\ retrying' \subseteq Jobs /\ call' \in [Calls -> CallType]
    BY <1>1, <1>3 DEF TypeOK
  <2>5. \A d \in Calls :
          /\ Reserved(d) => /\ call[d].orig \in retrying'
                            /\ call[d].orig = j => j \in raced'
          /\ Creates(d) => call[d].job # j
    <3>1. \A d \in Calls : Reserved(d) => call[d].orig \in retrying
      BY ZenonT(20), CallFacts
    <3>2. \A d \in Calls : Creates(d) => ~Begun(call[d].job)
      BY DEF IInv, CreatesInv
    <3>. QED
      BY <1>1, <1>3, <3>1, <3>2, ZenonT(60)
  <2>6. \A d \in Calls :
             \/ call'[d] = IdleCall
             \/ /\ call'[d] = call[d]
                /\ Reserved(d) => /\ call[d].orig \in retrying'
                                  /\ call[d].orig = j => j \in raced'
                /\ Creates(d) => call[d].job # j
    BY <1>1, <2>5
  <2>. HIDE DEF j
  <2>7. Starts(r, j, TRUE)
    BY <1>1, <2>1, <2>2, <2>3, <2>4, <2>6, ZenonT(60) DEF Starts
  <2>. QED
    BY <1>1, <2>7, StartStep, Zenon
<1>. QED
  BY <1>2, <1>3, ZenonT(30) DEF DispatchRegister

\* A step that only changes the contexts of runs: CancelJob and Stop.
LEMMA ContextStep ==
    ASSUME IInv,
           UNCHANGED <<job, stage, retrying, call, listening, listed, dispatch,
                       halts, faults, raced>>,
           run' \in [Runs -> RunType],
           \A q \in Runs : /\ run'[q].pc = run[q].pc /\ run'[q].job = run[q].job
                           /\ run'[q].done = run[q].done /\ run'[q].active = run[q].active
                           /\ run'[q].completing = run[q].completing
                           /\ run'[q].completing /\ run'[q].ctx = "cancelled"
                                => run[q].ctx = "cancelled",
           running' \in [Jobs -> Runs \cup {NoRun}], resume' \subseteq resume,
           proc \in {"up", "draining"},
           \/ proc' = proc /\ running' = running
           \/ /\ proc' = "stopping" /\ proc = "draining"
              /\ \A c \in Calls : call[c].pc = "idle"
    PROVE  IInv'
<1>1. TypeOK'
  <2>1. TypeOK
    BY ZenonT(20) DEF IInv
  <2>2. \A q \in Runs : run'[q].pc # "idle" => run'[q].job \in Jobs
    BY ZenonT(20), <2>1 DEF TypeOK, Live
  <2>3. resume' \subseteq Jobs /\ proc' \in {"down", "up", "draining", "stopping"}
    BY ZenonT(20), <2>1 DEF TypeOK
  <2>. QED
    BY ZenonT(20), <2>1, <2>2, <2>3 DEF TypeOK, Live
<1>2. ProcInv' /\ RegisteredInv'
  <2>1. ProcInv /\ RegisteredInv
    BY ZenonT(60) DEF IInv
  <2>. QED
    BY <2>1 DEF ProcInv, RegisteredInv, Live
<1>3. RunsExclusive' /\ LiveInv' /\ CallInv' /\ OrigInv' /\ JobInv' /\ ResumeInv'
  <2>1. RunsExclusive /\ LiveInv /\ CallInv /\ OrigInv /\ JobInv /\ ResumeInv
    BY ZenonT(60) DEF IInv
  <2>. QED
    BY <2>1 DEF RunsExclusive, LiveInv, CallInv, OrigInv, JobInv, ResumeInv, Live, Begun
<1>4. ReservedInv' /\ CreatesInv'
  <2>1. ReservedInv /\ CreatesInv
    BY DEF IInv
  <2>. QED
    BY <2>1 DEF ReservedInv, CreatesInv, Reserved, Creates, NoLive, Live, Begun
<1>5. WorkInv' /\ CompletedHasResults' /\ CancelOrComplete'
  <2>1. WorkInv /\ CompletedHasResults /\ CancelOrComplete
    BY DEF IInv
  <2>. QED
    BY <2>1 DEF WorkInv, CompletedHasResults, CancelOrComplete
<1>6. DoneInv'
  <2>1. DoneInv
    BY DEF IInv
  <2>. QED
    BY <2>1 DEF DoneInv, Live
<1>. QED
  BY <1>1, <1>2, <1>3, <1>4, <1>5, <1>6, ZenonT(60) DEF IInv

\* CancelJob preserves the invariant: it refuses a run that claimed completion.
LEMMA CancelStep ==
    ASSUME IInv, NEW j \in Jobs, CancelJob(j)
    PROVE  IInv'
<1>. DEFINE r   == running[j]
            rec == [run[r] EXCEPT !.ctx = "cancelled"]
<1>1. TypeOK /\ r \in Runs /\ ~run[r].completing /\ proc \in {"up", "draining"}
  BY DEF IInv, TypeOK, ProcInv, CancelJob
<1>2. /\ UNCHANGED <<job, stage, running, retrying, call, proc, listening, listed,
                     resume, dispatch, halts, faults, raced>>
      /\ run' = [run EXCEPT ![r] = rec]
  BY <1>1 DEF CancelJob, db, env, TypeOK
<1>3. /\ rec \in RunType /\ rec.pc = run[r].pc /\ rec.job = run[r].job
      /\ rec.done = run[r].done /\ rec.active = run[r].active
      /\ rec.completing = run[r].completing
  <2>1. run[r] \in RunType
    BY ZenonT(20), <1>1 DEF TypeOK
  <2>. QED
    BY <2>1 DEF RunType
<1>. HIDE DEF rec, r
<1>4. /\ run' \in [Runs -> RunType] /\ run'[r] = rec
      /\ \A q \in Runs : q # r => run'[q] = run[q]
  BY <1>1, <1>2, <1>3 DEF TypeOK
<1>5. \A q \in Runs : /\ run'[q].pc = run[q].pc /\ run'[q].job = run[q].job
                      /\ run'[q].done = run[q].done /\ run'[q].active = run[q].active
                      /\ run'[q].completing = run[q].completing
                      /\ run'[q].completing /\ run'[q].ctx = "cancelled"
                           => run[q].ctx = "cancelled"
  BY <1>1, <1>3, <1>4, ZenonT(60)
<1>6. running' \in [Jobs -> Runs \cup {NoRun}] /\ resume' \subseteq resume
  BY ZenonT(20), <1>1, <1>2 DEF TypeOK
<1>. QED
  BY <1>1, <1>2, <1>4, <1>5, <1>6, ContextStep, ZenonT(60)

\* Stop preserves the invariant although it forgets runs that still execute.
LEMMA StopStep ==
    ASSUME IInv, StopService
    PROVE  IInv'
<1>1. /\ TypeOK /\ proc = "draining" /\ proc' = "stopping" /\ resume' = {}
      /\ \A c \in Calls : call[c].pc = "idle"
      /\ running' = [j \in Jobs |-> NoRun]
      /\ UNCHANGED <<job, stage, retrying, call, listening, listed, dispatch,
                     halts, faults, raced>>
  BY DEF IInv, StopService, db
<1>2. \A q \in Runs : run'[q] = run[q] \/
        run'[q] = [run[q] EXCEPT !.ctx = "stopped"]
  BY DEF StopService
<1>3. \A q \in Runs : /\ run'[q] \in RunType
                      /\ run'[q].pc = run[q].pc /\ run'[q].job = run[q].job
                      /\ run'[q].done = run[q].done /\ run'[q].active = run[q].active
                      /\ run'[q].completing = run[q].completing
                      /\ run'[q].completing /\ run'[q].ctx = "cancelled"
                           => run[q].ctx = "cancelled"
  <2>. TAKE q \in Runs
  <2>1. run[q] \in RunType
    BY <1>1 DEF TypeOK
  <2>2. CASE run'[q] = run[q]
    BY <2>1, <2>2
  <2>3. CASE run'[q] = [run[q] EXCEPT !.ctx = "stopped"]
    BY <2>1, <2>3 DEF RunType
  <2>. QED
    BY <1>2, <2>2, <2>3
<1>4. run' \in [Runs -> RunType]
  <2>1. run' = [q \in Runs |-> run'[q]]
    BY DEF StopService
  <2>. QED
    BY <1>3, <2>1
<1>5. running' \in [Jobs -> Runs \cup {NoRun}] /\ resume' \subseteq resume
  BY <1>1
<1>. QED
  BY <1>1, <1>3, <1>4, <1>5, ContextStep

\* The process ends: only the rows survive.
LEMMA HaltStep ==
    ASSUME IInv, Halt
    PROVE  IInv'
<1>1. TypeOK /\ IdleRun \in RunType /\ IdleCall \in CallType
  BY IdleTyped DEF IInv
<1>2. /\ IdleRun.pc = "idle" /\ IdleRun.active = {} /\ ~IdleRun.completing
      /\ IdleCall.pc = "idle" /\ IdleCall.job = NoJob /\ IdleCall.orig = NoJob
  BY DEF IdleRun, IdleCall
<1>3. /\ \A q \in Runs : run'[q] = IdleRun
      /\ \A c \in Calls : call'[c] = IdleCall
      /\ UNCHANGED <<job, stage, raced>>
      /\ proc' = "down" /\ ~listening' /\ resume' = {} /\ dispatch' = NoJob
  BY DEF Halt, db
<1>. HIDE DEF IdleRun, IdleCall
<1>4. TypeOK'
  <2>1. /\ run' \in [Runs -> RunType] /\ call' \in [Calls -> CallType]
        /\ running' \in [Jobs -> Runs \cup {NoRun}] /\ retrying' \subseteq Jobs
    BY <1>1, ZenonT(60) DEF Halt
  <2>2. halts' \in 0..MaxHalts /\ faults' = faults
    BY <1>1, ConstantsAssumption DEF Halt, TypeOK
  <2>3. listed' \in BOOLEAN /\ listening' \in BOOLEAN
    BY ZenonT(60) DEF Halt
  <2>. QED
    BY <1>1, <1>2, <1>3, <2>1, <2>2, <2>3, ZenonT(60) DEF TypeOK, Live
<1>5. /\ ProcInv' /\ RegisteredInv' /\ RunsExclusive' /\ CallInv' /\ ReservedInv'
      /\ OrigInv' /\ CreatesInv' /\ JobInv' /\ ResumeInv' /\ WorkInv' /\ DoneInv'
      /\ CancelOrComplete'
  BY <1>2, <1>3, ZenonT(30) DEF ProcInv, RegisteredInv, RunsExclusive, CallInv, ReservedInv,
     OrigInv, CreatesInv, JobInv, ResumeInv, WorkInv, DoneInv, CancelOrComplete,
     Live, Reserved, Creates
<1>6. LiveInv' /\ CompletedHasResults'
  <2>1. LiveInv /\ CompletedHasResults
    BY DEF IInv
  <2>. QED
    BY <1>2, <1>3, <2>1 DEF LiveInv, CompletedHasResults, Live
<1>. QED
  BY <1>4, <1>5, <1>6 DEF IInv

-----------------------------------------------------------------------------
(* The theorems                                                            *)

\* The invariant holds when the daemon has never run.
LEMMA InitInv == Init => IInv
<1>. SUFFICES ASSUME Init PROVE IInv
  BY ZenonT(20)
<1>1. /\ IdleRun \in RunType /\ IdleCall \in CallType
      /\ IdleRun.pc = "idle" /\ IdleRun.active = {} /\ ~IdleRun.completing
      /\ IdleCall.pc = "idle" /\ IdleCall.job = NoJob /\ IdleCall.orig = NoJob
  BY IdleTyped DEF IdleRun, IdleCall
<1>2. /\ \A q \in Runs : run[q] = IdleRun
      /\ \A c \in Calls : call[c] = IdleCall
      /\ \A j \in Jobs : job[j].status = "none" /\ \A s \in Stages : stage[j][s] = "none"
  BY ZenonT(60) DEF Init
<1>. HIDE DEF IdleRun, IdleCall
<1>3. TypeOK
  <2>1. /\ run \in [Runs -> RunType] /\ call \in [Calls -> CallType]
        /\ running \in [Jobs -> Runs \cup {NoRun}]
        /\ stage \in [Jobs -> [Stages -> StageStatus]]
    BY <1>1 DEF Init, StageStatus
  <2>2. job \in [Jobs -> [status : JobStatus, class : Classes]]
    BY ConstantsAssumption DEF Init, JobStatus
  <2>3. faults \in 0..MaxFaults /\ halts \in 0..MaxHalts
    BY ConstantsAssumption DEF Init
  <2>4. listening \in BOOLEAN /\ listed \in BOOLEAN
    BY ZenonT(30) DEF Init
  <2>. QED
    BY <1>1, <1>2, <2>1, <2>2, <2>3, <2>4, ZenonT(60) DEF Init, TypeOK, Live
<1>4. /\ ProcInv /\ RegisteredInv /\ RunsExclusive /\ LiveInv /\ CallInv /\ ReservedInv
      /\ OrigInv /\ CreatesInv /\ JobInv
  BY <1>1, <1>2 DEF Init, ProcInv, RegisteredInv, RunsExclusive, LiveInv, CallInv,
     ReservedInv, OrigInv, CreatesInv, JobInv, Live, Reserved, Creates
<1>5. ResumeInv /\ WorkInv /\ DoneInv /\ CompletedHasResults /\ CancelOrComplete
  BY <1>1, <1>2 DEF Init, ResumeInv, WorkInv, DoneInv, CompletedHasResults,
     CancelOrComplete, Live
<1>. QED
  BY <1>3, <1>4, <1>5 DEF IInv

\* The invariant depends on the variables alone.
LEMMA StutterInv ==
    ASSUME IInv, UNCHANGED vars
    PROVE  IInv'
<1>1. TypeOK'
  BY ZenonT(60) DEF vars, IInv, TypeOK, Live
<1>2. ProcInv' /\ RegisteredInv' /\ RunsExclusive' /\ LiveInv'
  BY ZenonT(60) DEF vars, IInv, ProcInv, RegisteredInv, RunsExclusive, LiveInv, Live
<1>3. CallInv' /\ OrigInv' /\ JobInv' /\ ResumeInv'
  BY ZenonT(60) DEF vars, IInv, CallInv, OrigInv, JobInv, ResumeInv, Begun
<1>4. ReservedInv' /\ CreatesInv'
  BY ZenonT(60) DEF vars, IInv, ReservedInv, CreatesInv, Live, Reserved, Creates, NoLive, Begun
<1>5. WorkInv' /\ DoneInv' /\ CompletedHasResults' /\ CancelOrComplete'
  BY DEF vars, IInv, WorkInv, DoneInv, CompletedHasResults, CancelOrComplete, Live
<1>. QED
  BY <1>1, <1>2, <1>3, <1>4, <1>5, ZenonT(60) DEF IInv

\* Every step of the specification preserves the invariant.
LEMMA NextInv ==
    ASSUME IInv, Next
    PROVE  IInv'
<1>1. CASE Request
  BY <1>1, CancelStep, CreateBeginStep, RetryReadStep DEF Request
<1>2. CASE \E c \in Calls : CallStep(c)
  BY <1>2, CallStepInv
<1>3. CASE \E r \in Runs : RunStep(r)
  BY <1>3, RunStepInv
<1>4. CASE DispatchStop \/ (\E j \in Jobs : DispatchNext(j))
  BY <1>4, DispatchStep
<1>5. CASE StartProcess \/ StartService \/ OpenListener \/ BeginShutdown
  BY <1>5, StartingStep
<1>6. CASE DispatchRegister
  BY <1>6, DispatchRegisterStep
<1>7. CASE StopService
  BY <1>7, StopStep
<1>8. CASE Exit \/ Crash
  BY <1>8, HaltStep DEF Exit, Crash
<1>. QED
  BY <1>1, <1>2, <1>3, <1>4, <1>5, <1>6, <1>7, <1>8, ZenonT(60) DEF Next

\* The inductive invariant holds of every reachable state of the service.
THEOREM Invariance == Spec => []IInv
<1>1. IInv /\ [Next]_vars => IInv'
  BY NextInv, StutterInv
<1>. QED
  BY <1>1, InitInv, PTL DEF Spec

\* Every row, map, goroutine and request record keeps its type.
THEOREM TypeCorrect == Spec => []TypeOK
<1>1. IInv => TypeOK
  BY DEF IInv
<1>. QED
  BY <1>1, Invariance, PTL

\* Two executeJob goroutines of one job never overlap, unless CreateJob or the
\* resume dispatcher registered the job behind a retry or after Stop.
THEOREM RunsAreExclusive == Spec => []RunsExclusive
<1>1. IInv => RunsExclusive
  BY DEF IInv
<1>. QED
  BY <1>1, Invariance, PTL

\* claimCompletion and CancelJob exclude each other.
THEOREM CancelOrCompleteHolds == Spec => []CancelOrComplete
<1>1. IInv => CancelOrComplete
  BY DEF IInv
<1>. QED
  BY <1>1, Invariance, PTL

\* A completed job that no overlapping runs touched has every analyzer's
\* completed row.
THEOREM CompletedResults == Spec => []CompletedHasResults
<1>1. IInv => CompletedHasResults
  BY DEF IInv
<1>. QED
  BY <1>1, Invariance, PTL

\* No step changes a completed job's rows: the database triggers refuse it.
LEMMA NextKeepsCompleted ==
    ASSUME IInv, Next, NEW k \in Jobs, job[k].status = "completed"
    PROVE  job'[k] = job[k] /\ stage'[k] = stage[k]
<1>1. CASE \E c \in Calls : CallStep(c)
  BY <1>1, CallKeepsCompleted
<1>2. CASE \E r \in Runs : RunStep(r)
  BY <1>2, RunKeepsCompleted
<1>3. CASE Request
  BY <1>3 DEF Request, CancelJob, CreateBegin, RetryRead, db
<1>4. CASE \/ DispatchStop \/ DispatchRegister \/ StartProcess \/ StartService
           \/ OpenListener \/ BeginShutdown \/ StopService \/ Exit \/ Crash
           \/ \E j \in Jobs : DispatchNext(j)
  BY <1>4, Zenon DEF DispatchStop, DispatchRegister, StartProcess, StartService,
     OpenListener, BeginShutdown, StopService, Exit, Crash, Halt, DispatchNext, db
<1>. QED
  BY <1>1, <1>2, <1>3, <1>4, ZenonT(60) DEF Next

\* No step of a request, a run, the dispatcher or the process changes a
\* completed job's row or its stage rows.
THEOREM CompletedStays == Spec => CompletedIsFinal
<1>. DEFINE Keeps == \A j \in Jobs : job[j].status = "completed"
                       => job'[j] = job[j] /\ stage'[j] = stage[j]
<1>1. IInv /\ [Next]_vars => [Keeps]_vars
  BY NextKeepsCompleted
<1>. QED
  BY <1>1, Invariance, PTL DEF Spec, CompletedIsFinal
-----------------------------------------------------------------------------
(* The stages of a job that ended, under the steps of the rest             *)

\* A step that ends no run's work and starts no stage.
LEMMA EndingGoesOn ==
    ASSUME IInv, EInv, raced \subseteq raced',
           faults' = 0 /\ halts' = 0 => faults = 0 /\ halts = 0,
           \A q \in Runs : run'[q].pc \in Working => run'[q].pc = run[q].pc /\ run'[q].job = run[q].job,
           halts' = 0 => \A q \in Runs : run[q].pc \in Ending
                           => run'[q].pc = run[q].pc /\ run'[q].job = run[q].job,
           \A k \in Jobs : \/ job'[k] = job[k] \/ job'[k].status = "running"
                           \/ job'[k].status = "pending" /\ NoLive(k),
           \A k \in Jobs, s \in Stages : stage'[k][s] = "running" => stage[k][s] = "running"
    PROVE  EInv'
<1>1. WorkingInv'
  <2>. SUFFICES ASSUME NEW q \in Runs, run'[q].pc \in Working, run'[q].job \notin raced'
                PROVE  job'[run'[q].job].status = "running"
    BY DEF WorkingInv
  <2>1. /\ run[q].pc \in Working /\ run'[q].job = run[q].job /\ Live(q)
        /\ run[q].job \notin raced /\ job[run[q].job].status = "running"
    BY ZenonT(20) DEF EInv, WorkingInv, Working, Live
  <2>2. run[q].job \in Jobs
    BY ZenonT(20), <2>1 DEF IInv, TypeOK
  <2>. QED
    BY <2>1, <2>2 DEF NoLive
<1>2. EndingInv'
  <2>. SUFFICES ASSUME faults' = 0, halts' = 0, NEW k \in Jobs \ raced', NEW s \in Stages,
                       job'[k].status \in {"failed", "cancelled"}, stage'[k][s] = "running"
                PROVE  \E q \in Runs : run'[q].job = k /\ run'[q].pc \in Ending
    BY DEF EndingInv
  <2>1. job[k].status \in {"failed", "cancelled"} /\ stage[k][s] = "running" /\ k \notin raced
    OBVIOUS
  <2>2. PICK q \in Runs : run[q].job = k /\ run[q].pc \in Ending
    BY <2>1 DEF EInv, EndingInv
  <2>. QED
    BY <2>2
<1>. QED
  BY <1>1, <1>2 DEF EInv

\* A new run takes a free slot and has not begun to work.
LEMMA NewRunEnding ==
    ASSUME TypeOK, NEW r \in Runs, ~Live(r), NEW j, NEW b, run' = [run EXCEPT ![r] = NewRun(j, b)]
    PROVE  /\ \A q \in Runs : run'[q].pc \in Working => run'[q].pc = run[q].pc /\ run'[q].job = run[q].job
           /\ \A q \in Runs : run[q].pc \in Ending => run'[q].pc = run[q].pc /\ run'[q].job = run[q].job
<1>1. \A q \in Runs : q # r => run'[q] = run[q]
  BY DEF TypeOK
<1>2. run'[r].pc = "load" /\ run[r].pc = "idle"
  BY DEF TypeOK, NewRun, IdleRun, Live
<1>. QED
  BY ZenonT(20), <1>1, <1>2 DEF Working, Ending

\* A request starts no stage and fails or cancels no job.
LEMMA CallKeepsEnding ==
    ASSUME IInv, EInv, NEW c \in Calls, CallStep(c)
    PROVE  EInv'
<1>. DEFINE j == call[c].job
<1>0. TypeOK /\ job \in [Jobs -> [status : JobStatus, class : Classes]]
      /\ stage \in [Jobs -> [Stages -> StageStatus]] /\ faults \in Nat /\ halts \in Nat
  BY DEF IInv, TypeOK
<1>1. CASE Register(c)
  <2>1. UNCHANGED <<job, stage, faults, halts>> /\ raced \subseteq raced'
    BY <1>1, Zenon DEF Register, db, env
  <2>2. PICK r \in Runs : ~Live(r) /\ run' = [run EXCEPT ![r] = NewRun(j, FALSE)]
    BY <1>1, ZenonT(30) DEF Register
  <2>. QED
    BY <1>0, <2>1, <2>2, NewRunEnding, EndingGoesOn, ZenonT(30)
<1>2. CASE ~Register(c)
  <2>0. UNCHANGED <<run, halts, raced>> /\ (Fault \/ UNCHANGED faults)
    BY <1>2, Zenon DEF CallStep, CreateInsert, CreateStages, RetryReserve, RetryPlan, RetryReset,
       RetrySetRunning, RetryAsNew, env
  <2>1. UNCHANGED <<run, halts, raced>> /\ (faults' = 0 => faults = 0)
    BY <1>0, <2>0 DEF Fault
  <2>2. ASSUME NEW k \in Jobs
        PROVE  \/ job'[k] = job[k] \/ job'[k].status = "running"
               \/ job'[k].status = "pending" /\ NoLive(k)
    <3>1. CASE CreateInsert(c)
      <4>1. j \in Jobs /\ NoLive(j)
        BY <3>1, CallFacts DEF CreateInsert, Creates
      <4>2. job' \in {job, [job EXCEPT ![j] = [status |-> "pending", class |-> "retryable"]]}
        BY <3>1, Zenon DEF CreateInsert
      <4>. QED
        BY <1>0, <4>1, <4>2
    <3>2. CASE RetrySetRunning(c)
      <4>1. job' \in {job, SetJob(j, "running", "retryable")}
        BY <3>2 DEF RetrySetRunning
      <4>. QED
        BY <1>0, <4>1 DEF SetJob
    <3>3. CASE ~CreateInsert(c) /\ ~RetrySetRunning(c)
      <4>1. UNCHANGED job
        BY <1>2, <3>3, Zenon DEF CallStep, CreateStages, RetryReserve, RetryPlan, RetryReset, RetryAsNew, db
      <4>. QED
        BY <4>1, Zenon
    <3>. QED
      BY <3>1, <3>2, <3>3, Zenon
  <2>3. ASSUME NEW k \in Jobs, NEW s \in Stages, stage'[k][s] = "running"
        PROVE  stage[k][s] = "running"
    <3>1. CASE CreateStages(c)
      <4>1. stage' \in {stage, [stage EXCEPT ![j] = [t \in Stages |-> "pending"]]}
        BY <3>1 DEF CreateStages
      <4>. QED
        BY <1>0, <2>3, <4>1
    <3>2. CASE RetryReset(c)
      <4>1. stage' \in {stage, [stage EXCEPT ![j] = [t \in Stages |->
                                  IF t \in ResetFrom(call[c].from) THEN "pending" ELSE stage[j][t]]]}
        BY <3>2 DEF RetryReset
      <4>. QED
        BY <1>0, <2>3, <4>1
    <3>3. CASE ~CreateStages(c) /\ ~RetryReset(c)
      <4>1. UNCHANGED stage
        BY <1>2, <3>3, Zenon DEF CallStep, CreateInsert, RetryReserve, RetryPlan, RetrySetRunning, RetryAsNew, db
      <4>. QED
        BY <2>3, <4>1, Zenon
    <3>. QED
      BY <3>1, <3>2, <3>3, Zenon
  <2>. QED
    BY ZenonT(20), <2>1, <2>2, <2>3, EndingGoesOn
<1>. QED
  BY ZenonT(20), <1>1, <1>2

\* Requests that begin, and the process, its dispatcher and its end.
LEMMA ProcessKeepsEnding ==
    ASSUME IInv, EInv,
           \/ Request \/ DispatchStop \/ DispatchRegister \/ StartProcess \/ StartService
           \/ OpenListener \/ BeginShutdown \/ StopService \/ Exit \/ Crash
           \/ \E j \in Jobs : DispatchNext(j)
    PROVE  EInv'
<1>0. TypeOK /\ run \in [Runs -> RunType] /\ halts \in Nat
  BY DEF IInv, TypeOK
<1>1. UNCHANGED <<job, stage, faults>> /\ raced \subseteq raced'
  BY Zenon DEF Request, CancelJob, CreateBegin, RetryRead, DispatchStop, DispatchRegister, StartProcess,
     StartService, OpenListener, BeginShutdown, StopService, Exit, Crash, Halt, DispatchNext, db
<1>2. CASE Exit \/ Crash
  <2>1. halts' = halts + 1 /\ \A q \in Runs : run'[q] = IdleRun
    BY <1>2, Zenon DEF Exit, Crash, Halt
  <2>2. halts' # 0
    <3>1. \A n \in Nat : n + 1 # 0
      OBVIOUS
    <3>. QED
      BY <1>0, <2>1, <3>1, Zenon
  <2>3. \A q \in Runs : run'[q].pc = "idle"
    BY <2>1 DEF IdleRun
  <2>. QED
    BY <1>1, <2>2, <2>3, EndingGoesOn, Zenon DEF Working
<1>3. CASE DispatchRegister
  <2>1. UNCHANGED halts
    BY <1>3, Zenon DEF DispatchRegister, env
  <2>2. CASE UNCHANGED run
    BY <1>1, <2>1, <2>2, EndingGoesOn
  <2>3. CASE \E r \in Runs : ~Live(r) /\ run' = [run EXCEPT ![r] = NewRun(dispatch, TRUE)]
    BY <1>0, <1>1, <2>1, <2>3, NewRunEnding, EndingGoesOn, ZenonT(30)
  <2>. QED
    BY <1>3, <2>2, <2>3, Zenon DEF DispatchRegister
<1>4. CASE ~Exit /\ ~Crash /\ ~DispatchRegister
  <2>1. UNCHANGED halts
    BY <1>4, Zenon DEF Request, CancelJob, CreateBegin, RetryRead, DispatchStop, StartProcess,
       StartService, OpenListener, BeginShutdown, StopService, DispatchNext, env
  <2>2. \A q \in Runs : run'[q].pc = run[q].pc /\ run'[q].job = run[q].job
    <3>1. CASE \E j \in Jobs : CancelJob(j)
      BY <1>0, <3>1 DEF CancelJob, RunType
    <3>2. CASE StopService
      BY <1>0, <3>2 DEF StopService, RunType
    <3>3. CASE ~StopService /\ ~\E j \in Jobs : CancelJob(j)
      <4>1. UNCHANGED run
        BY <1>4, <3>3, Zenon DEF Request, CreateBegin, RetryRead, DispatchStop, StartProcess,
           StartService, OpenListener, BeginShutdown, DispatchNext
      <4>. QED
        BY <4>1
    <3>. QED
      BY <3>1, <3>2, <3>3
  <2>. QED
    BY <1>1, <2>1, <2>2, EndingGoesOn, Zenon
<1>. QED
  BY ZenonT(20), <1>2, <1>3, <1>4

\* Once the run of a failed or cancelled job has ended, none of its stages
\* claims to be running, when no write was lost and the process did not halt:
\* endRunningStages is on every way out of executeJob that ends its job.
THEOREM EndedStagesAreEnded == Spec => []EndedHasNoRunningStage
<1>1. Init => EInv
  BY DEF Init, EInv, WorkingInv, EndingInv, IdleRun, Working
<1>2. IInv /\ EInv /\ [Next]_vars => EInv'
  <2>1. IInv /\ EInv /\ UNCHANGED vars => EInv'
    BY DEF vars, EInv, WorkingInv, EndingInv
  <2>. QED
    BY <2>1, RunKeepsEnding, CallKeepsEnding, ProcessKeepsEnding, ZenonT(30) DEF Next
<1>3. EInv => EndedHasNoRunningStage
  BY DEF EInv, EndingInv, EndedHasNoRunningStage, Live, Ending
<1>. QED
  BY <1>1, <1>2, <1>3, Invariance, PTL DEF Spec
=============================================================================
