---------------------------- MODULE TaskCollection ----------------------------
(***************************************************************************)
(* One analyzer stage of one job sending its tasks to the worker pool and  *)
(* collecting the results (internal/analysis: engine, dispatcher and       *)
(* collector; internal/worker).                                            *)
(*                                                                         *)
(* The stage of a failed or interrupted job runs again as a new collection *)
(* with the same job ID, and so the same result subject and task IDs.      *)
(* Messages go over core NATS: one published while nobody subscribes is    *)
(* lost, and nothing is redelivered.  A result carries its task's ID only; *)
(* the collection and the attempt it came from are kept here to state      *)
(* properties.                                                             *)
(***************************************************************************)
EXTENDS Naturals, Sequences, FiniteSets

CONSTANTS
    Tasks,           \* the stage's dispatched tasks
    Workers,
    MaxRetries,      \* analysis.engine.max_retries
    Timeout,         \* analysis.engine.task_timeout, in ticks
    StageTimeout,    \* pipeline.stage_timeout, in ticks
    MaxInFlight,     \* worker.max_in_flight
    AbandonLimit,    \* worker.max_abandoned_collections
    MaxCollections,  \* bound: times the stage runs
    MaxFaults,       \* bound: publishes that fail or are lost
    MaxRefusals,     \* bound: redispatches that fail
    MaxStops         \* bound: workers that stop or crash

ASSUME ConstantsAssumption ==
    /\ Tasks # {} /\ IsFiniteSet(Tasks)
    /\ MaxRetries \in Nat /\ Timeout \in Nat \ {0} /\ StageTimeout \in Nat \ {0}
    /\ MaxInFlight \in Nat \ {0} /\ AbandonLimit \in Nat \ {0}
    /\ MaxCollections \in Nat /\ MaxFaults \in Nat /\ MaxRefusals \in Nat
    /\ MaxStops \in Nat

VARIABLES
    coll,       \* the latest collection's ID, counted from 1
    phase,      \* where executeAnalyzer is with it
    undispatched, \* tasks Dispatch has not published
    pending,    \* the handle's pending set
    retryCount, \* retryCounts
    retries,    \* the goroutines waiting to redispatch a task
    inbox,      \* results delivered to the subscription, not yet handled
    resultChan, \* the buffered channel from the handler to AwaitResults
    results,    \* what AwaitResults has read
    done,       \* doneChan is closed
    progress,   \* the one-slot progress channel holds a tick
    quiet,      \* ticks since the idle timer was reset
    age,        \* ticks since the stage cap was started
    cancelled,  \* the stage's context is done
    ending,     \* why the collection ended: "none", "complete", "error"
    verdict,    \* what executeAnalyzer made of it
    abandonedBy,\* collections whose abandon was sent
    pool,       \* the workers: "up", "stopping", "down"
    queued,     \* tasks delivered to a worker, waiting for a slot
    busy,       \* tasks a worker is running
    control,    \* abandons delivered to a worker, not yet handled
    abandoned,  \* each worker's abandonedSet, oldest first
    faults, refusals, stops  \* counted bounds

collector == <<pending, retryCount, retries, inbox, resultChan, results, done,
               progress, quiet, age>>
engine    == <<coll, phase, undispatched, cancelled, ending, verdict, abandonedBy>>
workers   == <<pool, queued, busy, control, abandoned>>
bounds    == <<faults, refusals, stops>>
vars      == <<engine, collector, workers, bounds>>

Task == [task : Tasks, coll : 1..MaxCollections, retry : 0..MaxRetries]

\* What a result says of its task: an answer, an error worth a retry, no
\* answer within max_tokens; "exhausted" is the collector's own.
Answers  == {"ok", "error", "truncated"}
Outcomes == {"ok", "truncated", "exhausted"}
Answer   == [task : Tasks, coll : 1..MaxCollections, retry : 0..MaxRetries, out : Answers]
Result   == [task : Tasks, coll : 1..MaxCollections, retry : 0..MaxRetries, out : Outcomes]

Phases == {"idle", "dispatch", "await", "release", "abandon", "decide"}

Up == {w \in Workers : pool[w] = "up"}

\* The result and progress subscriptions exist.
Subscribed == phase \in {"dispatch", "await", "release"}

Fault == faults < MaxFaults /\ faults' = faults + 1

Init ==
    /\ coll = 0 /\ phase = "idle" /\ undispatched = {}
    /\ pending = {} /\ retryCount = [t \in Tasks |-> 0] /\ retries = {}
    /\ inbox = {} /\ resultChan = {} /\ results = {} /\ done = FALSE
    /\ progress = FALSE /\ quiet = 0 /\ age = 0
    /\ cancelled = FALSE /\ ending = "none" /\ verdict = "none" /\ abandonedBy = {}
    /\ pool = [w \in Workers |-> "up"]
    /\ queued = [w \in Workers |-> {}] /\ busy = [w \in Workers |-> {}]
    /\ control = [w \in Workers |-> {}] /\ abandoned = [w \in Workers |-> <<>>]
    /\ faults = 0 /\ refusals = 0 /\ stops = 0

-----------------------------------------------------------------------------
(* Dispatch                                                                *)

\* PrepareCollect subscribes before anything is published, under a fresh
\* collection ID.  The stage runs again when the job is retried or resumed.
PrepareCollect ==
    /\ phase = "idle" /\ verdict \notin {"completed", "incomplete"}
    /\ coll < MaxCollections
    /\ coll' = coll + 1
    /\ phase' = "dispatch" /\ undispatched' = Tasks /\ ending' = "none"
    /\ verdict' = "none" /\ cancelled' = FALSE
    /\ pending' = Tasks /\ retryCount' = [t \in Tasks |-> 0] /\ retries' = {}
    /\ inbox' = {} /\ resultChan' = {} /\ results' = {} /\ done' = FALSE
    /\ progress' = FALSE /\ quiet' = 0 /\ age' = 0
    /\ UNCHANGED <<abandonedBy, workers, bounds>>

\* A work message goes to one subscribed worker of the queue group.
Publish(m) ==
    IF Up = {} THEN UNCHANGED queued
    ELSE \E w \in Up : queued' = [queued EXCEPT ![w] = @ \cup {m}]

\* Dispatch publishes the tasks one by one and stops at the first error;
\* executeAnalyzer then releases and abandons the collection.
Dispatch(t) ==
    /\ phase = "dispatch" /\ t \in undispatched
    /\ \/ /\ Publish([task |-> t, coll |-> coll, retry |-> 0])
          /\ undispatched' = undispatched \ {t}
          /\ phase' = IF undispatched' = {} THEN "await" ELSE "dispatch"
          /\ UNCHANGED <<ending, faults>>
       \/ /\ IF cancelled THEN UNCHANGED faults ELSE Fault
          /\ phase' = "release" /\ ending' = "error"
          /\ UNCHANGED <<undispatched, queued>>
    /\ UNCHANGED <<coll, cancelled, verdict, abandonedBy, collector,
                   pool, busy, control, abandoned, refusals, stops>>

\* The job is cancelled, or the daemon stops.
Cancel ==
    /\ phase \in {"dispatch", "await"} /\ ~cancelled
    /\ cancelled' = TRUE
    /\ UNCHANGED <<coll, phase, undispatched, ending, verdict, abandonedBy,
                   collector, workers, bounds>>

-----------------------------------------------------------------------------
(* The result handler and the retries                                      *)

\* The channel has one slot per task; a send to a full channel blocks.
Room == Cardinality(resultChan) < Cardinality(Tasks)

Settle(t, r) ==
    /\ Room
    /\ pending' = pending \ {t}
    /\ resultChan' = resultChan \cup {r}
    /\ UNCHANGED <<retryCount, retries>>

\* The handler: ignores a task that is not pending, schedules a retry of a
\* failed one, and passes on anything final.
HandleResult(m) ==
    /\ Subscribed /\ m \in inbox
    /\ LET t == m.task
           Final(out) == [task |-> t, coll |-> m.coll, retry |-> m.retry, out |-> out]
       IN  IF t \notin pending
           THEN UNCHANGED <<pending, retryCount, retries, resultChan>>
           ELSE CASE m.out = "ok"        -> Settle(t, Final("ok"))
                  [] m.out = "truncated" -> Settle(t, Final("truncated"))
                  [] m.out = "error" ->
                       IF retryCount[t] < MaxRetries
                       THEN /\ retryCount' = [retryCount EXCEPT ![t] = @ + 1]
                            /\ retries' = retries \cup
                                 {[task |-> t, retry |-> retryCount[t] + 1, at |-> "backoff"]}
                            /\ UNCHANGED <<pending, resultChan>>
                       ELSE Settle(t, Final("exhausted"))
    /\ inbox' = inbox \ {m}
    /\ UNCHANGED <<engine, results, done, progress, quiet, age, workers, bounds>>

\* redispatchMu is held by a retry whose redispatch failed, until its result
\* is in the channel.
RedispatchLocked == \E g \in retries : g.at # "backoff"

\* The backoff is over: under redispatchMu, publish unless released.
Redispatch(g) ==
    /\ g \in retries /\ g.at = "backoff" /\ ~RedispatchLocked
    /\ \/ /\ Publish([task |-> g.task, coll |-> coll, retry |-> g.retry])
          /\ retries' = retries \ {g}
          /\ UNCHANGED refusals
       \/ /\ refusals < MaxRefusals /\ refusals' = refusals + 1
          /\ retries' = (retries \ {g}) \cup {[g EXCEPT !.at = "failed"]}
          /\ UNCHANGED queued
    /\ UNCHANGED <<engine, pending, retryCount, inbox, resultChan, results, done,
                   progress, quiet, age, pool, busy, control, abandoned, faults, stops>>

\* The failed redispatch takes its task out of pending, under mu ...
RedispatchGivesUp(g) ==
    /\ g \in retries /\ g.at = "failed"
    /\ pending' = pending \ {g.task}
    /\ retries' = (retries \ {g}) \cup {[g EXCEPT !.at = "send"]}
    /\ UNCHANGED <<engine, retryCount, inbox, resultChan, results, done,
                   progress, quiet, age, workers, bounds>>

\* ... and only then, without mu, sends the task's result.
RedispatchSends(g) ==
    /\ g \in retries /\ g.at = "send" /\ Room
    /\ resultChan' = resultChan \cup
         {[task |-> g.task, coll |-> coll, retry |-> g.retry, out |-> "exhausted"]}
    /\ retries' = retries \ {g}
    /\ UNCHANGED <<engine, pending, retryCount, inbox, results, done,
                   progress, quiet, age, workers, bounds>>

\* A waiting retry also ends when the stage's context does.
RetryQuits(g) ==
    /\ g \in retries /\ g.at = "backoff" /\ cancelled
    /\ retries' = retries \ {g}
    /\ UNCHANGED <<engine, pending, retryCount, inbox, resultChan, results, done,
                   progress, quiet, age, workers, bounds>>

-----------------------------------------------------------------------------
(* AwaitResults                                                            *)

\* The monitor polls pending under mu and closes doneChan once it is empty.
MonitorDone ==
    /\ phase = "await" /\ pending = {} /\ ~done
    /\ done' = TRUE
    /\ UNCHANGED <<engine, pending, retryCount, retries, inbox, resultChan, results,
                   progress, quiet, age, workers, bounds>>

ReadResult(r) ==
    /\ phase = "await" /\ r \in resultChan
    /\ resultChan' = resultChan \ {r} /\ results' = results \cup {r}
    /\ quiet' = 0
    /\ UNCHANGED <<engine, pending, retryCount, retries, inbox, done, progress, age,
                   workers, bounds>>

\* A tick resetting the stage cap too.
ReadProgressResetsCap ==
    /\ phase = "await" /\ progress
    /\ progress' = FALSE /\ quiet' = 0 /\ age' = 0
    /\ UNCHANGED <<engine, pending, retryCount, retries, inbox, resultChan, results, done,
                   workers, bounds>>

ReadProgress ==
    /\ phase = "await" /\ progress
    /\ progress' = FALSE /\ quiet' = 0
    /\ UNCHANGED <<engine, pending, retryCount, retries, inbox, resultChan, results, done,
                   age, workers, bounds>>

\* Time passes for the idle timer and the stage cap.
Tick ==
    /\ phase = "await" /\ age < StageTimeout
    /\ age' = age + 1
    /\ quiet' = IF quiet < Timeout THEN quiet + 1 ELSE quiet
    /\ UNCHANGED <<engine, pending, retryCount, retries, inbox, resultChan, results, done,
                   progress, workers, bounds>>

\* Cancellation, the idle timeout and the stage cap end the wait; what was
\* read so far is returned with the error.
AwaitFails ==
    /\ phase = "await"
    /\ cancelled \/ quiet = Timeout \/ age = StageTimeout
    /\ phase' = "release" /\ ending' = "error"
    /\ UNCHANGED <<coll, undispatched, cancelled, verdict, abandonedBy, collector,
                   workers, bounds>>

\* Returning without draining the channel.
AwaitCompletesUndrained ==
    /\ phase = "await" /\ done
    /\ phase' = "release" /\ ending' = "complete"
    /\ UNCHANGED <<coll, undispatched, cancelled, verdict, abandonedBy, collector,
                   workers, bounds>>

AwaitCompletes ==
    /\ phase = "await" /\ done
    /\ results' = results \cup resultChan /\ resultChan' = {}
    /\ phase' = "release" /\ ending' = "complete"
    /\ UNCHANGED <<coll, undispatched, cancelled, verdict, abandonedBy, pending, retryCount,
                   retries, inbox, done, progress, quiet, age, workers, bounds>>

\* Unsubscribing and leaving the waiting retries to fire.
ReleaseKeepsRetries ==
    /\ phase = "release"
    /\ inbox' = {} /\ progress' = FALSE
    /\ phase' = IF ending = "complete" THEN "decide" ELSE "abandon"
    /\ UNCHANGED <<coll, undispatched, cancelled, ending, verdict, abandonedBy, pending,
                   retryCount, retries, resultChan, results, done, quiet, age, workers, bounds>>

\* release closes released under redispatchMu, which ends every waiting
\* retry, then unsubscribes.
Release ==
    /\ phase = "release" /\ ~RedispatchLocked
    /\ retries' = {}
    /\ inbox' = {} /\ progress' = FALSE
    /\ phase' = IF ending = "complete" THEN "decide" ELSE "abandon"
    /\ UNCHANGED <<coll, undispatched, cancelled, ending, verdict, abandonedBy, pending,
                   retryCount, resultChan, results, done, quiet, age, workers, bounds>>

\* publishAbandon: every subscribed worker gets the control message, unless
\* the publish fails, which is only logged.
Abandon ==
    /\ phase = "abandon"
    /\ \/ /\ control' = [w \in Workers |->
                           IF w \in Up THEN control[w] \cup {coll} ELSE control[w]]
          /\ UNCHANGED faults
       \/ Fault /\ UNCHANGED control
    /\ abandonedBy' = abandonedBy \cup {coll}
    /\ phase' = "decide"
    /\ UNCHANGED <<coll, undispatched, cancelled, ending, verdict, collector,
                   pool, queued, busy, abandoned, refusals, stops>>

\* executeAnalyzer on the collected results: one truncated answer or no
\* success at all fails the stage, a failed task flags it incomplete, and
\* aggregating, sealing or saving the output may fail.
Decide ==
    /\ phase = "decide"
    /\ LET outs   == {r.out : r \in results}
           failed == \/ ending = "error" \/ "truncated" \in outs
                     \/ "exhausted" \in outs /\ "ok" \notin outs
       IN  \/ verdict' = "failed"
           \/ ~failed /\ verdict' = IF "exhausted" \in outs THEN "incomplete" ELSE "completed"
    /\ phase' = "idle"
    /\ UNCHANGED <<coll, undispatched, cancelled, ending, abandonedBy, collector,
                   workers, bounds>>

\* The daemon crashes: the collection ends without release or abandon.  (A
\* crash of the last collection the bound allows is left out.)
EngineCrash ==
    /\ phase # "idle" /\ coll < MaxCollections
    /\ phase' = "idle" /\ verdict' = "failed"
    /\ retries' = {} /\ inbox' = {} /\ progress' = FALSE
    /\ UNCHANGED <<coll, undispatched, cancelled, ending, abandonedBy, pending, retryCount,
                   resultChan, results, done, quiet, age, workers, bounds>>

-----------------------------------------------------------------------------
(* The workers                                                             *)

\* An abandonedSet keyed by job instead of collection.
HoldsAnyOfJob(w, c) == abandoned[w] # <<>>

Holds(w, c) == \E i \in 1..Len(abandoned[w]) : abandoned[w][i] = c

\* A free slot: drop the task if its collection was abandoned, else run it.
StartTask(w, m) ==
    /\ pool[w] = "up" /\ m \in queued[w]
    /\ Cardinality(busy[w]) < MaxInFlight
    /\ queued' = [queued EXCEPT ![w] = @ \ {m}]
    /\ busy' = IF Holds(w, m.coll) THEN busy ELSE [busy EXCEPT ![w] = @ \cup {m}]
    /\ UNCHANGED <<engine, collector, pool, control, abandoned, bounds>>

\* The LLM call ends and its result is published, then a progress tick; a
\* failed publish of either is only logged.
FinishTask(w, m, out) ==
    /\ pool[w] # "down" /\ m \in busy[w]
    /\ busy' = [busy EXCEPT ![w] = @ \ {m}]
    /\ \/ /\ inbox' = IF Subscribed
                      THEN inbox \cup {[task |-> m.task, coll |-> m.coll,
                                        retry |-> m.retry, out |-> out]}
                      ELSE inbox
          /\ progress' \in {progress, progress \/ Subscribed}
          /\ UNCHANGED faults
       \/ Fault /\ UNCHANGED <<inbox, progress>>
    /\ UNCHANGED <<engine, pending, retryCount, retries, resultChan, results, done, quiet,
                   age, pool, queued, control, abandoned, refusals, stops>>

\* The pool reports progress on other stages, jobs and tenants.
OtherProgress ==
    /\ Subscribed /\ ~progress
    /\ progress' = TRUE
    /\ UNCHANGED <<engine, pending, retryCount, retries, inbox, resultChan, results, done,
                   quiet, age, workers, bounds>>

\* handleAbandoned adds the collection, evicting the oldest at the limit.
HandleAbandoned(w, c) ==
    /\ pool[w] = "up" /\ c \in control[w]
    /\ control' = [control EXCEPT ![w] = @ \ {c}]
    /\ abandoned' = [abandoned EXCEPT ![w] =
         IF Holds(w, c) THEN @
         ELSE Append(IF Len(@) >= AbandonLimit THEN Tail(@) ELSE @, c)]
    /\ UNCHANGED <<engine, collector, pool, queued, busy, bounds>>

\* Entries expire oldest first.
Expire(w) ==
    /\ abandoned[w] # <<>>
    /\ abandoned' = [abandoned EXCEPT ![w] = Tail(@)]
    /\ UNCHANGED <<engine, collector, pool, queued, busy, control, bounds>>

\* Stop: tasks waiting for a slot are dropped, running ones finish.
StopWorker(w) ==
    /\ pool[w] = "up" /\ stops < MaxStops
    /\ pool' = [pool EXCEPT ![w] = "stopping"]
    /\ queued' = [queued EXCEPT ![w] = {}] /\ control' = [control EXCEPT ![w] = {}]
    /\ stops' = stops + 1
    /\ UNCHANGED <<engine, collector, busy, abandoned, faults, refusals>>

\* The worker's process ends, after Stop or by a crash.
ExitWorker(w) ==
    /\ \/ pool[w] = "stopping" /\ UNCHANGED stops
       \/ pool[w] = "up" /\ stops < MaxStops /\ stops' = stops + 1
    /\ pool' = [pool EXCEPT ![w] = "down"]
    /\ queued' = [queued EXCEPT ![w] = {}] /\ busy' = [busy EXCEPT ![w] = {}]
    /\ control' = [control EXCEPT ![w] = {}] /\ abandoned' = [abandoned EXCEPT ![w] = <<>>]
    /\ UNCHANGED <<engine, collector, faults, refusals>>

StartWorker(w) ==
    /\ pool[w] = "down"
    /\ pool' = [pool EXCEPT ![w] = "up"]
    /\ UNCHANGED <<engine, collector, queued, busy, control, abandoned, bounds>>

-----------------------------------------------------------------------------
(* Specification                                                           *)

CollectorStep ==
    \/ \E m \in inbox : HandleResult(m)
    \/ \E g \in retries :
         \/ Redispatch(g) \/ RedispatchGivesUp(g) \/ RedispatchSends(g) \/ RetryQuits(g)
    \/ MonitorDone \/ ReadProgress \/ Tick
    \/ \E r \in resultChan : ReadResult(r)
    \/ AwaitFails \/ AwaitCompletes \/ Release \/ Abandon

EngineStep ==
    \/ PrepareCollect \/ Decide \/ EngineCrash \/ Cancel
    \/ \E t \in Tasks : Dispatch(t)

WorkerStep(w) ==
    \/ \E m \in queued[w] : StartTask(w, m)
    \/ \E m \in busy[w], out \in Answers : FinishTask(w, m, out)
    \/ \E c \in control[w] : HandleAbandoned(w, c)
    \/ Expire(w) \/ StopWorker(w) \/ ExitWorker(w) \/ StartWorker(w)

Next ==
    \/ CollectorStep
    \/ EngineStep
    \/ OtherProgress
    \/ \E w \in Workers : WorkerStep(w)

Spec == Init /\ [][Next]_vars

\* The engine's goroutines are scheduled and time passes; the workers may do
\* nothing at all, and other jobs' ticks may never stop.
Fairness ==
    /\ WF_vars(\E t \in Tasks : Dispatch(t))
    /\ WF_vars(Tick) /\ WF_vars(AwaitFails) /\ WF_vars(AwaitCompletes)
    /\ WF_vars(Release) /\ WF_vars(Abandon) /\ WF_vars(Decide)
    /\ WF_vars(\E g \in retries : RedispatchGivesUp(g) \/ RedispatchSends(g))

FairSpec == Spec /\ Fairness

-----------------------------------------------------------------------------
(* Properties                                                              *)

\* Every variable keeps its type, the channel its capacity, a worker its
\* slots and its abandonedSet its limit.
TypeOK ==
    /\ coll \in 0..MaxCollections /\ phase \in Phases
    /\ undispatched \subseteq Tasks /\ pending \subseteq Tasks
    /\ retryCount \in [Tasks -> 0..MaxRetries]
    /\ retries \subseteq [task : Tasks, retry : 1..MaxRetries, at : {"backoff", "failed", "send"}]
    /\ inbox \subseteq Answer /\ results \subseteq Result
    /\ resultChan \subseteq Result /\ Cardinality(resultChan) <= Cardinality(Tasks)
    /\ done \in BOOLEAN /\ progress \in BOOLEAN /\ cancelled \in BOOLEAN
    /\ quiet \in 0..Timeout /\ age \in 0..StageTimeout
    /\ ending \in {"none", "complete", "error"}
    /\ verdict \in {"none", "failed", "incomplete", "completed"}
    /\ abandonedBy \subseteq 1..MaxCollections
    /\ pool \in [Workers -> {"up", "stopping", "down"}]
    /\ queued \in [Workers -> SUBSET Task] /\ busy \in [Workers -> SUBSET Task]
    /\ control \in [Workers -> SUBSET (1..MaxCollections)]
    /\ abandoned \in [Workers -> Seq(1..MaxCollections)]
    /\ \A w \in Workers : /\ Len(abandoned[w]) <= AbandonLimit
                          /\ Cardinality(busy[w]) <= MaxInFlight
    /\ faults \in 0..MaxFaults /\ refusals \in 0..MaxRefusals /\ stops \in 0..MaxStops

\* "an abandon from an earlier run cannot drop the new run's tasks"
\* (CollectionHandle.CollectionID): a running worker takes a task off its
\* queue without running it only if that task's own collection was abandoned.
DropsOnlyAbandoned ==
    [][\A w \in Workers : pool'[w] = "up" =>
         \A m \in queued[w] \ queued'[w] : m \in busy'[w] \/ m.coll \in abandonedBy]_vars

\* "no task of this collection is published after its abandon"
\* (AwaitResults): the abandon that follows release is the last word, however
\* the retries' timers interleave with it.
NothingAfterAbandon ==
    [][\A w \in Workers : \A m \in queued'[w] \ queued[w] : m.coll \notin abandonedBy]_vars

Unaccounted == {t \in Tasks : \A r \in results : r.task # t}

\* A stage that ends well has a result for every task, except for as many as
\* there were failed redispatches: a result on its way through the channel
\* is not lost when doneChan closes.
CompletedIsCollected ==
    verdict \in {"completed", "incomplete"} => Cardinality(Unaccounted) <= refusals

\* "StageTimeout caps the whole collection and nothing resets it"
\* (AwaitResults): a stage ends, whatever the workers lose and however long
\* other jobs keep the pool's ticks coming, except for the one way the code
\* has not to end: a retry whose redispatch failed holds redispatchMu and
\* waits for room in a channel that AwaitResults no longer reads.
StageEndsUnlessBlocked ==
    (phase # "idle") ~> (phase = "idle" \/ (phase = "release" /\ RedispatchLocked /\ ~Room))
=============================================================================
