------------------------- MODULE TaskCollectionProofs -------------------------
(***************************************************************************)
(* What an abandon can and cannot do, for any number of tasks, workers,    *)
(* retries, collections and faults: it never drops a task of another       *)
(* collection, and nothing of its own collection is published after it.    *)
(* And what a stage reported as completed has collected: a result of every *)
(* task, but for as many as there were failed redispatches.               *)
(***************************************************************************)
EXTENDS TaskCollection, FiniteSetTheorems, SequenceTheorems, TLAPS

-----------------------------------------------------------------------------
(* The inductive invariant                                                 *)

\* IDs are fresh: only collections begun so far were abandoned, and the one
\* in progress not before its abandon step.
FreshInv ==
    /\ coll \in Nat
    /\ \A c \in abandonedBy : c \in Nat /\ c <= coll
    /\ phase \in {"dispatch", "await", "release", "abandon"} => coll \notin abandonedBy

\* A retry waits only while the collection is not released.
RetriesInv ==
    phase \in {"abandon", "decide", "idle"} => retries = {}

\* What workers hear and remember of abandons was sent.
ControlInv ==
    /\ control \in [Workers -> SUBSET abandonedBy]
    /\ abandoned \in [Workers -> Seq(abandonedBy)]

AInv == FreshInv /\ RetriesInv /\ ControlInv

\* TypeOK, part by part.
EngineType ==
    /\ coll \in 0..MaxCollections /\ phase \in Phases
    /\ undispatched \subseteq Tasks
    /\ ending \in {"none", "complete", "error"}
    /\ verdict \in {"none", "failed", "incomplete", "completed"}
    /\ abandonedBy \subseteq 1..MaxCollections

CollectorType ==
    /\ pending \subseteq Tasks /\ retryCount \in [Tasks -> 0..MaxRetries]
    /\ retries \subseteq [task : Tasks, retry : 1..MaxRetries, at : {"backoff", "failed", "send"}]
    /\ inbox \subseteq Answer /\ results \subseteq Result /\ resultChan \subseteq Result
    /\ quiet \in 0..Timeout /\ age \in 0..StageTimeout

FlagsType == done \in BOOLEAN /\ progress \in BOOLEAN /\ cancelled \in BOOLEAN

PoolType ==
    /\ pool \in [Workers -> {"up", "stopping", "down"}]
    /\ queued \in [Workers -> SUBSET Task] /\ busy \in [Workers -> SUBSET Task]
    /\ control \in [Workers -> SUBSET (1..MaxCollections)]
    /\ abandoned \in [Workers -> Seq(1..MaxCollections)]

BoundsType ==
    faults \in 0..MaxFaults /\ refusals \in 0..MaxRefusals /\ stops \in 0..MaxStops

\* The channel, the slots and the abandonedSet stay within their limits;
\* the sets counted are finite.
LimitsInv ==
    /\ IsFiniteSet(resultChan) /\ Cardinality(resultChan) <= Cardinality(Tasks)
    /\ \A w \in Workers : /\ IsFiniteSet(busy[w]) /\ Cardinality(busy[w]) <= MaxInFlight
                          /\ Len(abandoned[w]) <= AbandonLimit

\* A collection in progress has an ID.
StartedInv == phase # "idle" => coll >= 1

TInv ==
    /\ EngineType /\ CollectorType /\ FlagsType /\ PoolType /\ BoundsType
    /\ LimitsInv /\ StartedInv

\* The invariant holds before the first collection.
LEMMA AInvInit == Init => AInv
BY DEF Init, AInv, FreshInv, RetriesInv, ControlInv

\* Every step preserves it.
LEMMA AInvNext == AInv /\ [Next]_vars => AInv'
<1>. SUFFICES ASSUME AInv, [Next]_vars PROVE AInv'
  OBVIOUS
<1>. USE DEF AInv
<1>1. CASE UNCHANGED vars
  BY <1>1 DEF vars, engine, collector, workers, FreshInv, RetriesInv, ControlInv
<1>2. CASE PrepareCollect
  BY <1>2 DEF PrepareCollect, workers, FreshInv, RetriesInv, ControlInv
<1>3. ASSUME NEW t \in Tasks, Dispatch(t) PROVE AInv'
  BY <1>3 DEF Dispatch, collector, FreshInv, RetriesInv, ControlInv
<1>4. CASE Cancel \/ Decide
  BY <1>4 DEF Cancel, Decide, collector, workers, FreshInv, RetriesInv, ControlInv
<1>5. CASE EngineCrash
  BY <1>5 DEF EngineCrash, workers, FreshInv, RetriesInv, ControlInv
<1>6. ASSUME NEW m \in inbox, HandleResult(m) PROVE AInv'
  <2>1. UNCHANGED <<engine, workers>> /\ phase \notin {"abandon", "decide", "idle"}
    BY <1>6 DEF HandleResult, Subscribed
  <2>. QED
    BY <2>1 DEF engine, workers, FreshInv, RetriesInv, ControlInv
<1>7. ASSUME NEW g \in retries,
             Redispatch(g) \/ RedispatchGivesUp(g) \/ RedispatchSends(g) \/ RetryQuits(g)
      PROVE  AInv'
  <2>1. UNCHANGED <<engine, control, abandoned>>
    BY <1>7 DEF Redispatch, RedispatchGivesUp, RedispatchSends, RetryQuits, workers
  <2>2. phase \notin {"abandon", "decide", "idle"}
    BY <1>7 DEF RetriesInv
  <2>. QED
    BY <2>1, <2>2 DEF engine, FreshInv, RetriesInv, ControlInv
<1>8. CASE MonitorDone \/ ReadProgress \/ Tick \/ OtherProgress
           \/ \E r \in resultChan : ReadResult(r)
  <2>1. UNCHANGED <<engine, workers, retries>>
    BY <1>8 DEF MonitorDone, ReadProgress, Tick, OtherProgress, ReadResult
  <2>. QED
    BY <2>1, Zenon DEF engine, workers, FreshInv, RetriesInv, ControlInv
<1>9. CASE AwaitFails \/ AwaitCompletes
  BY <1>9 DEF AwaitFails, AwaitCompletes, collector, workers, FreshInv, RetriesInv, ControlInv
<1>10. CASE Release
  BY <1>10 DEF Release, workers, FreshInv, RetriesInv, ControlInv
<1>11. CASE Abandon
  <2>1. FreshInv' /\ RetriesInv'
    BY <1>11 DEF Abandon, collector, FreshInv, RetriesInv
  <2>2. abandonedBy \subseteq abandonedBy' /\ coll \in abandonedBy' /\ UNCHANGED abandoned
    BY <1>11 DEF Abandon
  <2>3. control' \in [Workers -> SUBSET abandonedBy']
    BY <1>11, <2>2, Zenon DEF Abandon, ControlInv
  <2>4. abandoned' \in [Workers -> Seq(abandonedBy')]
    BY <2>2 DEF ControlInv
  <2>. QED
    BY <2>1, <2>3, <2>4 DEF ControlInv
<1>12. ASSUME NEW w \in Workers, WorkerStep(w) PROVE AInv'
  <2>1. UNCHANGED engine /\ (retries = {} => retries' = {})
    BY <1>12 DEF WorkerStep, StartTask, FinishTask, HandleAbandoned, Expire, StopWorker,
       ExitWorker, StartWorker, collector
  <2>2. FreshInv' /\ RetriesInv'
    BY <2>1 DEF engine, FreshInv, RetriesInv
  <2>3. control' \in [Workers -> SUBSET abandonedBy]
    BY <1>12, ZenonT(60) DEF WorkerStep, StartTask, FinishTask, HandleAbandoned, Expire, StopWorker,
       ExitWorker, StartWorker, ControlInv
  <2>4. ASSUME NEW c \in control[w], HandleAbandoned(w, c)
        PROVE  abandoned' \in [Workers -> Seq(abandonedBy)]
    <3>1. c \in abandonedBy /\ abandoned[w] \in Seq(abandonedBy)
      BY DEF ControlInv
    <3>2. abandoned[w] # <<>> => Tail(abandoned[w]) \in Seq(abandonedBy)
      BY <3>1
    <3>3. Len(abandoned[w]) >= AbandonLimit => abandoned[w] # <<>>
      BY <3>1, ConstantsAssumption
    <3>. QED
      BY <2>4, <3>1, <3>2, <3>3 DEF HandleAbandoned, ControlInv
  <2>5. ASSUME Expire(w) PROVE abandoned' \in [Workers -> Seq(abandonedBy)]
    <3>1. Tail(abandoned[w]) \in Seq(abandonedBy)
      BY <2>5 DEF Expire, ControlInv
    <3>. QED
      BY <2>5, <3>1 DEF Expire, ControlInv
  <2>6. ASSUME ExitWorker(w) PROVE abandoned' \in [Workers -> Seq(abandonedBy)]
    BY <2>6 DEF ExitWorker, ControlInv
  <2>7. abandoned' \in [Workers -> Seq(abandonedBy)]
    BY <1>12, <2>4, <2>5, <2>6 DEF WorkerStep, StartTask, FinishTask, StopWorker,
       StartWorker, ControlInv
  <2>. QED
    BY <2>1, <2>2, <2>3, <2>7 DEF engine, ControlInv
<1>. QED
  BY <1>1, <1>2, <1>3, <1>4, <1>5, <1>6, <1>7, <1>8, <1>9, <1>10, <1>11, <1>12
  DEF Next, CollectorStep, EngineStep

-----------------------------------------------------------------------------
(* Types and limits                                                        *)

\* A set with room for one more stays within its limit with one more.
LEMMA AddOne ==
    ASSUME NEW S, NEW e, NEW n \in Nat, IsFiniteSet(S), Cardinality(S) < n
    PROVE  IsFiniteSet(S \cup {e}) /\ Cardinality(S \cup {e}) <= n
BY FS_AddElement, FS_CardinalityType

\* A smaller set stays within the limit of a larger one.
LEMMA TakeSome ==
    ASSUME NEW S, NEW U, NEW n \in Nat, IsFiniteSet(S), Cardinality(S) <= n, U \subseteq S
    PROVE  IsFiniteSet(U) /\ Cardinality(U) <= n
BY FS_Subset, FS_CardinalityType

\* Publish keeps the queues' type.
LEMMA PublishType ==
    ASSUME PoolType, NEW m \in Task, Publish(m)
    PROVE  queued' \in [Workers -> SUBSET Task]
BY DEF Publish, PoolType, Up

\* Types and limits hold before the first collection.
LEMMA TInvInit == Init => TInv
<1>. SUFFICES ASSUME Init PROVE TInv
  OBVIOUS
<1>1. EngineType /\ CollectorType /\ BoundsType /\ StartedInv
  BY ConstantsAssumption DEF Init, EngineType, CollectorType, BoundsType, StartedInv, Phases
<1>2. PoolType
  BY DEF Init, PoolType
<1>f. FlagsType
  BY Zenon DEF Init, FlagsType
<1>3. IsFiniteSet({}) /\ Cardinality({}) = 0 /\ Cardinality(Tasks) \in Nat
  BY FS_EmptySet, FS_CardinalityType, ConstantsAssumption
<1>4. LimitsInv
  BY <1>3, ConstantsAssumption DEF Init, LimitsInv
<1>. QED
  BY <1>1, <1>2, <1>4, <1>f DEF TInv

\* Every step of the engine preserves the types and the limits.
LEMMA EngineTypes ==
    ASSUME TInv, RetriesInv, EngineStep \/ AwaitFails \/ AwaitCompletes \/ Release \/ Abandon
    PROVE  TInv'
<1>. USE DEF TInv
<1>0. IsFiniteSet({}) /\ Cardinality({}) = 0 /\ Cardinality(Tasks) \in Nat
  BY FS_EmptySet, FS_CardinalityType, ConstantsAssumption
<1>f. FlagsType'
  BY Zenon DEF EngineStep, PrepareCollect, Dispatch, Cancel, Decide, EngineCrash, AwaitFails,
     AwaitCompletes, Release, Abandon, collector, FlagsType
<1>1. CASE PrepareCollect
  <2>1. EngineType' /\ StartedInv'
    BY <1>1, ConstantsAssumption DEF PrepareCollect, EngineType, StartedInv, Phases
  <2>2. CollectorType'
    BY <1>1, ConstantsAssumption DEF PrepareCollect, CollectorType
  <2>3. PoolType' /\ BoundsType'
    BY <1>1 DEF PrepareCollect, PoolType, BoundsType, workers, bounds
  <2>4. LimitsInv'
    BY <1>0, <1>1 DEF PrepareCollect, LimitsInv, workers
  <2>. QED
    BY <1>f, <2>1, <2>2, <2>3, <2>4
<1>2. ASSUME NEW t \in Tasks, Dispatch(t) PROVE TInv'
  <2>1. EngineType' /\ StartedInv'
    BY <1>2 DEF Dispatch, EngineType, StartedInv, Phases
  <2>2. CollectorType' /\ LimitsInv'
    BY <1>2 DEF Dispatch, CollectorType, LimitsInv, collector
  <2>3. [task |-> t, coll |-> coll, retry |-> 0] \in Task
    BY <1>2, ConstantsAssumption DEF Dispatch, Task, EngineType, StartedInv
  <2>4. queued' \in [Workers -> SUBSET Task]
    BY <1>2, <2>3, PublishType DEF Dispatch, PoolType
  <2>5. PoolType' /\ BoundsType'
    BY <1>2, <2>4, ConstantsAssumption DEF Dispatch, PoolType, BoundsType, Fault
  <2>. QED
    BY <1>f, <2>1, <2>2, <2>5
<1>3. CASE Cancel \/ Decide \/ AwaitFails
  <2>1. UNCHANGED <<collector, workers, bounds>>
    BY <1>3 DEF Cancel, Decide, AwaitFails
  <2>2. EngineType' /\ StartedInv'
    BY <1>3, Zenon DEF Cancel, Decide, AwaitFails, EngineType, StartedInv, Phases
  <2>. QED
    BY <1>f, <2>1, <2>2 DEF collector, workers, bounds, CollectorType, PoolType, BoundsType, LimitsInv
<1>4. CASE EngineCrash \/ Release
  <2>1. UNCHANGED <<workers, bounds, resultChan>>
    BY <1>4 DEF EngineCrash, Release
  <2>2. EngineType' /\ StartedInv'
    BY <1>4, Zenon DEF EngineCrash, Release, EngineType, StartedInv, Phases
  <2>3. CollectorType'
    BY <1>4, Zenon DEF EngineCrash, Release, CollectorType
  <2>. QED
    BY <1>f, <2>1, <2>2, <2>3 DEF workers, bounds, PoolType, BoundsType, LimitsInv
<1>5. CASE AwaitCompletes
  <2>1. EngineType' /\ StartedInv'
    BY <1>5 DEF AwaitCompletes, EngineType, StartedInv, Phases
  <2>2. CollectorType'
    BY <1>5 DEF AwaitCompletes, CollectorType
  <2>3. PoolType' /\ BoundsType' /\ LimitsInv'
    BY <1>0, <1>5 DEF AwaitCompletes, PoolType, BoundsType, LimitsInv, workers, bounds
  <2>. QED
    BY <1>f, <2>1, <2>2, <2>3
<1>6. CASE Abandon
  <2>1. EngineType' /\ StartedInv' /\ coll \in 1..MaxCollections
    BY <1>6, ConstantsAssumption DEF Abandon, EngineType, StartedInv, Phases
  <2>2. CollectorType' /\ LimitsInv'
    BY <1>6 DEF Abandon, CollectorType, LimitsInv, collector
  <2>3. PoolType'
    BY <1>6, <2>1, ZenonT(60) DEF Abandon, PoolType
  <2>4. BoundsType'
    BY <1>6, ConstantsAssumption DEF Abandon, BoundsType, Fault
  <2>. QED
    BY <1>f, <2>1, <2>2, <2>3, <2>4
<1>. QED
  BY <1>1, <1>2, <1>3, <1>4, <1>5, <1>6 DEF EngineStep

\* Every step of the collector's goroutines preserves them.
LEMMA CollectorTypes ==
    ASSUME TInv, RetriesInv, CollectorStep \/ OtherProgress PROVE TInv'
<1>. USE DEF TInv
<1>0. Cardinality(Tasks) \in Nat
  BY FS_CardinalityType, ConstantsAssumption
<1>1. ASSUME NEW m \in inbox, HandleResult(m) PROVE TInv'
  <2>1. m \in Answer /\ m.task \in Tasks
    BY DEF CollectorType, Answer
  <2>2. \A out \in Outcomes :
          [task |-> m.task, coll |-> m.coll, retry |-> m.retry, out |-> out] \in Result
    BY <2>1 DEF Answer, Result
  <2>3. ASSUME NEW r \in Result, Settle(m.task, r)
        PROVE  /\ pending' \subseteq Tasks /\ resultChan' \subseteq Result
               /\ IsFiniteSet(resultChan') /\ Cardinality(resultChan') <= Cardinality(Tasks)
               /\ UNCHANGED <<retryCount, retries>>
    BY <1>0, <2>3, AddOne, Zenon DEF Settle, Room, CollectorType, LimitsInv
  <2>4. ASSUME m.task \in pending, m.out = "error", retryCount[m.task] < MaxRetries
        PROVE  /\ retryCount' \in [Tasks -> 0..MaxRetries]
               /\ retries' \subseteq
                    [task : Tasks, retry : 1..MaxRetries, at : {"backoff", "failed", "send"}]
               /\ UNCHANGED <<pending, resultChan>>
    <3>1. retryCount[m.task] + 1 \in 1..MaxRetries
      BY <2>1, <2>4, ConstantsAssumption DEF CollectorType
    <3>. QED
      BY <1>1, <2>1, <2>4, <3>1 DEF HandleResult, CollectorType
  <2>5. \/ UNCHANGED <<pending, retryCount, retries, resultChan>>
        \/ \E r \in Result : Settle(m.task, r)
        \/ m.task \in pending /\ m.out = "error" /\ retryCount[m.task] < MaxRetries
    BY <1>1, <2>1, <2>2, Zenon DEF HandleResult, Answer, Answers, Outcomes
  <2>6. /\ pending' \subseteq Tasks /\ resultChan' \subseteq Result
        /\ retryCount' \in [Tasks -> 0..MaxRetries]
        /\ retries' \subseteq
             [task : Tasks, retry : 1..MaxRetries, at : {"backoff", "failed", "send"}]
        /\ IsFiniteSet(resultChan') /\ Cardinality(resultChan') <= Cardinality(Tasks)
    BY <2>3, <2>4, <2>5 DEF CollectorType, LimitsInv
  <2>7. inbox' \subseteq inbox /\ UNCHANGED <<engine, results, done, progress, quiet, age,
                                               workers, bounds>>
    BY <1>1 DEF HandleResult
  <2>8. CollectorType' /\ LimitsInv'
    BY <2>6, <2>7 DEF CollectorType, LimitsInv, workers
  <2>9. EngineType' /\ StartedInv' /\ PoolType' /\ BoundsType' /\ FlagsType'
    BY <2>7, Zenon DEF engine, workers, bounds, EngineType, StartedInv, PoolType, BoundsType,
       FlagsType
  <2>. QED
    BY <2>8, <2>9
<1>2. ASSUME NEW g \in retries, Redispatch(g) PROVE TInv'
  <2>1. phase # "idle"
    BY DEF RetriesInv
  <2>2. /\ [task |-> g.task, coll |-> coll, retry |-> g.retry] \in Task
        /\ [g EXCEPT !.at = "failed"] \in
             [task : Tasks, retry : 1..MaxRetries, at : {"backoff", "failed", "send"}]
    BY <2>1, ConstantsAssumption DEF Task, CollectorType, EngineType, StartedInv
  <2>3. queued' \in [Workers -> SUBSET Task]
    BY <1>2, <2>2, PublishType DEF Redispatch, PoolType
  <2>4. retries' \subseteq [task : Tasks, retry : 1..MaxRetries, at : {"backoff", "failed", "send"}]
    BY <1>2, <2>2, Zenon DEF Redispatch, CollectorType
  <2>5. BoundsType'
    BY <1>2, ConstantsAssumption DEF Redispatch, BoundsType
  <2>6. UNCHANGED <<engine, pending, retryCount, inbox, resultChan, results, done,
                    progress, quiet, age, pool, busy, control, abandoned>>
    BY <1>2 DEF Redispatch
  <2>7. CollectorType' /\ LimitsInv' /\ PoolType'
    BY <2>3, <2>4, <2>6 DEF CollectorType, LimitsInv, PoolType
  <2>8. EngineType' /\ StartedInv' /\ FlagsType'
    BY <2>6, Zenon DEF engine, EngineType, StartedInv, FlagsType
  <2>. QED
    BY <2>5, <2>7, <2>8
<1>3. ASSUME NEW g \in retries, RedispatchGivesUp(g) \/ RedispatchSends(g) \/ RetryQuits(g)
      PROVE TInv'
  <2>1. phase # "idle"
    BY DEF RetriesInv
  <2>2. /\ [task |-> g.task, coll |-> coll, retry |-> g.retry, out |-> "exhausted"] \in Result
        /\ [g EXCEPT !.at = "send"] \in
             [task : Tasks, retry : 1..MaxRetries, at : {"backoff", "failed", "send"}]
    BY <2>1, ConstantsAssumption DEF Result, Outcomes, CollectorType, EngineType, StartedInv
  <2>3. retries' \subseteq [task : Tasks, retry : 1..MaxRetries, at : {"backoff", "failed", "send"}]
    BY <1>3, <2>2, Zenon DEF RedispatchGivesUp, RedispatchSends, RetryQuits, CollectorType
  <2>4. pending' \subseteq Tasks
    BY <1>3, Zenon DEF RedispatchGivesUp, RedispatchSends, RetryQuits, CollectorType
  <2>5. /\ resultChan' \subseteq Result
        /\ IsFiniteSet(resultChan') /\ Cardinality(resultChan') <= Cardinality(Tasks)
    <3>1. CASE RedispatchSends(g)
      BY <1>0, <2>2, <3>1, AddOne, Zenon DEF RedispatchSends, Room, CollectorType, LimitsInv
    <3>2. CASE RedispatchGivesUp(g) \/ RetryQuits(g)
      BY <3>2 DEF RedispatchGivesUp, RetryQuits, CollectorType, LimitsInv
    <3>. QED
      BY <1>3, <3>1, <3>2
  <2>6. UNCHANGED <<engine, retryCount, inbox, results, done, progress, quiet, age, workers, bounds>>
    BY <1>3 DEF RedispatchGivesUp, RedispatchSends, RetryQuits
  <2>7. CollectorType' /\ LimitsInv'
    BY <2>3, <2>4, <2>5, <2>6 DEF CollectorType, LimitsInv, workers
  <2>8. EngineType' /\ StartedInv' /\ PoolType' /\ BoundsType' /\ FlagsType'
    BY <2>6, Zenon DEF engine, workers, bounds, EngineType, StartedInv, PoolType, BoundsType,
       FlagsType
  <2>. QED
    BY <2>7, <2>8
<1>4. CASE MonitorDone \/ ReadProgress \/ Tick \/ OtherProgress
           \/ \E r \in resultChan : ReadResult(r)
  <2>1. UNCHANGED <<engine, pending, retryCount, retries, inbox, workers, bounds>>
    BY <1>4 DEF MonitorDone, ReadProgress, Tick, OtherProgress, ReadResult
  <2>2. FlagsType'
    BY <1>4, Zenon DEF MonitorDone, ReadProgress, Tick, OtherProgress, ReadResult, engine,
       FlagsType
  <2>3. resultChan' \subseteq resultChan /\ results' \subseteq results \cup resultChan
    BY <1>4, Zenon DEF MonitorDone, ReadProgress, Tick, OtherProgress, ReadResult
  <2>4. quiet' \in 0..Timeout /\ age' \in 0..StageTimeout
    BY <1>4, ConstantsAssumption DEF MonitorDone, ReadProgress, Tick, OtherProgress, ReadResult,
       CollectorType
  <2>5. IsFiniteSet(resultChan') /\ Cardinality(resultChan') <= Cardinality(Tasks)
    BY <1>0, <2>3, TakeSome, ZenonT(60) DEF LimitsInv
  <2>6. CollectorType' /\ LimitsInv'
    BY <2>1, <2>3, <2>4, <2>5 DEF CollectorType, LimitsInv, workers
  <2>7. EngineType' /\ StartedInv' /\ PoolType' /\ BoundsType'
    BY <2>1, Zenon DEF engine, workers, bounds, EngineType, StartedInv, PoolType, BoundsType
  <2>. QED
    BY <2>2, <2>6, <2>7
<1>5. CASE AwaitFails \/ AwaitCompletes \/ Release \/ Abandon
  BY <1>5, EngineTypes
<1>. QED
  BY <1>1, <1>2, <1>3, <1>4, <1>5 DEF CollectorStep

\* Every step of a worker preserves them.
LEMMA WorkerTypes ==
    ASSUME TInv, NEW w \in Workers, WorkerStep(w) PROVE TInv'
<1>. USE DEF TInv
<1>1. /\ UNCHANGED <<engine, pending, retryCount, retries, resultChan, results, done, quiet, age>>
      /\ UNCHANGED refusals
  BY DEF WorkerStep, StartTask, FinishTask, HandleAbandoned, Expire, StopWorker, ExitWorker,
     StartWorker, collector, bounds
<1>2. EngineType' /\ StartedInv'
  BY <1>1, ZenonT(30) DEF engine, EngineType, StartedInv
<1>3. BoundsType'
  BY ConstantsAssumption, SMTT(60) DEF WorkerStep, StartTask, FinishTask, HandleAbandoned, Expire,
     StopWorker, ExitWorker, StartWorker, bounds, Fault, BoundsType
<1>4. FlagsType'
  BY Zenon DEF WorkerStep, StartTask, FinishTask, HandleAbandoned, Expire, StopWorker, ExitWorker,
     StartWorker, collector, engine, FlagsType, Subscribed
<1>5. inbox' \subseteq Answer
  <2>1. ASSUME NEW m \in busy[w], NEW out \in Answers
        PROVE  [task |-> m.task, coll |-> m.coll, retry |-> m.retry, out |-> out] \in Answer
    BY DEF PoolType, Task, Answer
  <2>2. ASSUME NEW m \in busy[w], NEW out \in Answers, FinishTask(w, m, out)
        PROVE  inbox' \subseteq Answer
    <3>1. [task |-> m.task, coll |-> m.coll, retry |-> m.retry, out |-> out] \in Answer
      BY <2>1, Zenon
    <3>2. inbox' \subseteq inbox \cup
            {[task |-> m.task, coll |-> m.coll, retry |-> m.retry, out |-> out]}
      BY <2>2, Zenon DEF FinishTask
    <3>. QED
      BY <3>1, <3>2, ZenonT(60) DEF CollectorType
  <2>3. (\E m \in busy[w], out \in Answers : FinishTask(w, m, out)) \/ UNCHANGED inbox
    BY DEF WorkerStep, StartTask, HandleAbandoned, Expire, StopWorker, ExitWorker, StartWorker,
       collector
  <2>. QED
    BY <2>2, <2>3, Zenon DEF CollectorType
<1>6. CollectorType'
  BY <1>1, <1>5, Zenon DEF CollectorType
<1>7. ASSUME NEW m \in queued[w], StartTask(w, m) PROVE PoolType' /\ LimitsInv'
  <2>1. PoolType'
    BY <1>7 DEF StartTask, PoolType
  <2>2. IsFiniteSet(busy[w] \cup {m}) /\ Cardinality(busy[w] \cup {m}) <= MaxInFlight
    BY <1>7, AddOne, ConstantsAssumption, Zenon DEF StartTask, LimitsInv
  <2>. QED
    BY <1>1, <1>7, <2>1, <2>2 DEF StartTask, PoolType, LimitsInv
<1>8. ASSUME NEW m \in busy[w], NEW out \in Answers, FinishTask(w, m, out)
      PROVE  PoolType' /\ LimitsInv'
  <2>1. PoolType'
    BY ZenonT(20), <1>8 DEF FinishTask, PoolType
  <2>2. IsFiniteSet(busy[w] \ {m}) /\ Cardinality(busy[w] \ {m}) <= MaxInFlight
    BY TakeSome, ConstantsAssumption DEF LimitsInv
  <2>. QED
    BY <1>1, <1>8, <2>1, <2>2 DEF FinishTask, PoolType, LimitsInv
<1>9. ASSUME NEW c \in control[w], HandleAbandoned(w, c) PROVE PoolType' /\ LimitsInv'
  <2>1. c \in 1..MaxCollections /\ abandoned[w] \in Seq(1..MaxCollections)
    BY DEF PoolType
  <2>2. Len(abandoned[w]) <= AbandonLimit
    BY Zenon DEF LimitsInv
  <2>3. DEFINE kept == IF Len(abandoned[w]) >= AbandonLimit THEN Tail(abandoned[w])
                       ELSE abandoned[w]
  <2>4. Len(abandoned[w]) >= AbandonLimit => abandoned[w] # <<>>
    BY <2>1, ConstantsAssumption
  <2>5. kept \in Seq(1..MaxCollections) /\ Len(kept) < AbandonLimit
    <3>1. CASE Len(abandoned[w]) >= AbandonLimit
      <4>1. /\ Tail(abandoned[w]) \in Seq(1..MaxCollections)
            /\ Len(Tail(abandoned[w])) = Len(abandoned[w]) - 1
        BY <2>1, <2>4, <3>1, HeadTailProperties, Zenon
      <4>2. Len(abandoned[w]) = AbandonLimit
        BY <2>1, <2>2, <3>1, ConstantsAssumption
      <4>. QED
        BY <3>1, <4>1, <4>2, ConstantsAssumption
    <3>2. CASE ~ (Len(abandoned[w]) >= AbandonLimit)
      BY <2>1, <3>2, ConstantsAssumption, SMTT(60)
    <3>. QED
      BY <3>1, <3>2
  <2>6. Append(kept, c) \in Seq(1..MaxCollections) /\ Len(Append(kept, c)) <= AbandonLimit
    BY <2>1, <2>5, ConstantsAssumption
  <2>. HIDE DEF kept
  <2>7. abandoned' = [abandoned EXCEPT ![w] = IF Holds(w, c) THEN abandoned[w] ELSE Append(kept, c)]
    BY <1>9 DEF HandleAbandoned, kept
  <2>8. PoolType'
    BY <1>9, <2>1, <2>6, <2>7, ZenonT(30) DEF HandleAbandoned, PoolType
  <2>. QED
    BY <1>1, <1>9, <2>6, <2>7, <2>8 DEF HandleAbandoned, PoolType, LimitsInv
<1>10. CASE Expire(w)
  <2>1. /\ Tail(abandoned[w]) \in Seq(1..MaxCollections)
        /\ Len(Tail(abandoned[w])) <= AbandonLimit
    BY <1>10, ConstantsAssumption DEF Expire, PoolType, LimitsInv
  <2>2. PoolType' /\ LimitsInv'
    BY <1>1, <1>10, <2>1 DEF Expire, PoolType, LimitsInv
  <2>. QED
    BY <1>2, <1>3, <1>4, <1>6, <2>2
<1>11. CASE StopWorker(w) \/ StartWorker(w)
  <2>1. PoolType' /\ LimitsInv'
    BY <1>1, <1>11, Zenon DEF StopWorker, StartWorker, PoolType, LimitsInv
  <2>. QED
    BY <1>2, <1>3, <1>4, <1>6, <2>1
<1>12. CASE ExitWorker(w)
  <2>1. IsFiniteSet({}) /\ Cardinality({}) = 0
    BY FS_EmptySet
  <2>2. PoolType'
    BY <1>12 DEF ExitWorker, PoolType
  <2>3. LimitsInv'
    BY <1>1, <1>12, <2>1, <2>2, ConstantsAssumption DEF ExitWorker, PoolType, LimitsInv
  <2>. QED
    BY <1>2, <1>3, <1>4, <1>6, <2>2, <2>3
<1>. QED
  BY ZenonT(60), <1>2, <1>3, <1>4, <1>6, <1>7, <1>8, <1>9, <1>10, <1>11, <1>12 DEF WorkerStep

\* Every step preserves the types and the limits.
LEMMA TInvNext == TInv /\ RetriesInv /\ [Next]_vars => TInv'
<1>. SUFFICES ASSUME TInv, RetriesInv, [Next]_vars PROVE TInv'
  OBVIOUS
<1>1. CASE UNCHANGED vars
  BY <1>1, Zenon DEF vars, engine, collector, workers, bounds, TInv, EngineType, CollectorType,
     FlagsType, PoolType, BoundsType, LimitsInv, StartedInv
<1>. QED
  BY <1>1, EngineTypes, CollectorTypes, WorkerTypes DEF Next

-----------------------------------------------------------------------------
(* The theorems                                                            *)

\* AInv is an invariant of the collections and the worker pool.
THEOREM AbandonInvariant == Spec => []AInv
<1>. QED
  BY AInvInit, AInvNext, PTL DEF Spec
\* Types, and the limits of the result channel, a worker's slots and its
\* abandonedSet, hold for any number of tasks and workers.
THEOREM TypeCorrect == Spec => []TypeOK
<1>1. TInv => TypeOK
  BY Zenon DEF TInv, TypeOK, EngineType, CollectorType, FlagsType, PoolType, BoundsType, LimitsInv
<1>2. AInv => RetriesInv
  BY ZenonT(20) DEF AInv
<1>. QED
  BY <1>1, <1>2, TInvInit, TInvNext, AbandonInvariant, PTL DEF Spec

\* A worker's abandonedSet holds abandoned collections only, so a worker that
\* stays up drops no other task from its queue.
LEMMA NextDropsOnlyAbandoned ==
    ASSUME AInv, TInv, [Next]_vars
    PROVE  \A w \in Workers : pool'[w] = "up" =>
             \A m \in queued[w] \ queued'[w] : m \in busy'[w] \/ m.coll \in abandonedBy
<1>. SUFFICES ASSUME NEW w \in Workers, pool'[w] = "up", NEW m \in queued[w] \ queued'[w]
              PROVE  m \in busy'[w] \/ m.coll \in abandonedBy
  OBVIOUS
<1>0. PoolType
  BY DEF TInv
<1>1. ASSUME NEW n \in queued[w], StartTask(w, n)
      PROVE  m \in busy'[w] \/ m.coll \in abandonedBy
  <2>1. m = n
    BY <1>0, <1>1 DEF StartTask, PoolType
  <2>2. Holds(w, m.coll) => m.coll \in abandonedBy
    BY DEF Holds, AInv, ControlInv
  <2>. QED
    BY <1>0, <1>1, <2>1, <2>2 DEF StartTask, PoolType
<1>2. ASSUME NEW v \in Workers, WorkerStep(v), ~ \E n \in queued[w] : StartTask(w, n)
      PROVE  queued[w] \subseteq queued'[w]
  <2>1. ASSUME NEW n \in queued[v], StartTask(v, n) PROVE v # w
    BY <1>2, <2>1
  <2>2. ASSUME StopWorker(v) \/ ExitWorker(v) PROVE v # w
    BY <1>0, <2>2 DEF StopWorker, ExitWorker, PoolType
  <2>. QED
    BY <1>0, <1>2, <2>1, <2>2, Zenon DEF WorkerStep, StartTask, FinishTask, HandleAbandoned, Expire,
       StopWorker, ExitWorker, StartWorker, PoolType
<1>3. ASSUME CollectorStep \/ EngineStep \/ OtherProgress \/ UNCHANGED vars
      PROVE  queued[w] \subseteq queued'[w]
  <2>1. UNCHANGED queued \/ \E n : Publish(n)
    BY <1>3, Zenon DEF CollectorStep, EngineStep, OtherProgress, vars, workers, HandleResult, Redispatch,
       RedispatchGivesUp, RedispatchSends, RetryQuits, MonitorDone, ReadProgress, Tick,
       ReadResult, AwaitFails, AwaitCompletes, Release, Abandon, PrepareCollect, Decide,
       EngineCrash, Cancel, Dispatch
  <2>. QED
    BY <1>0, <2>1, Zenon DEF Publish, PoolType
<1>. QED
  BY <1>1, <1>2, <1>3 DEF Next

\* An abandon of one run of a stage never drops the tasks of another.
THEOREM AbandonDropsItsOwn == Spec => DropsOnlyAbandoned
<1>1. AInv => RetriesInv
  BY DEF AInv
<1>2. AInv /\ TInv /\ [Next]_vars =>
        [\A w \in Workers : pool'[w] = "up" =>
           \A m \in queued[w] \ queued'[w] : m \in busy'[w] \/ m.coll \in abandonedBy]_vars
  BY NextDropsOnlyAbandoned
<1>. QED
  BY <1>1, <1>2, TInvInit, TInvNext, AbandonInvariant, PTL DEF Spec, DropsOnlyAbandoned

\* Tasks are published by Dispatch and by a retry, and both only before the
\* collection is abandoned.
LEMMA NextPublishesBeforeAbandon ==
    ASSUME AInv, TInv, [Next]_vars
    PROVE  \A w \in Workers : \A m \in queued'[w] \ queued[w] : m.coll \notin abandonedBy
<1>. SUFFICES ASSUME NEW w \in Workers, NEW m \in queued'[w] \ queued[w]
              PROVE  m.coll \notin abandonedBy
  OBVIOUS
<1>0. PoolType
  BY DEF TInv
<1>1. ASSUME NEW n, Publish(n) PROVE m = n
  BY <1>0, <1>1, ZenonT(60) DEF Publish, PoolType
<1>2. ASSUME NEW t \in Tasks, Dispatch(t) PROVE m.coll \notin abandonedBy
  <2>1. coll \notin abandonedBy
    BY <1>2 DEF Dispatch, AInv, FreshInv
  <2>2. Publish([task |-> t, coll |-> coll, retry |-> 0])
    BY <1>2 DEF Dispatch
  <2>3. m = [task |-> t, coll |-> coll, retry |-> 0]
    BY <1>1, <2>2
  <2>. QED
    BY <2>1, <2>3
<1>3. ASSUME NEW g \in retries, Redispatch(g) PROVE m.coll \notin abandonedBy
  <2>1. phase \notin {"abandon", "decide", "idle"} /\ phase \in Phases
    BY DEF AInv, RetriesInv, TInv, EngineType
  <2>2. coll \notin abandonedBy
    BY <2>1 DEF Phases, AInv, FreshInv
  <2>3. Publish([task |-> g.task, coll |-> coll, retry |-> g.retry])
    BY <1>3 DEF Redispatch
  <2>4. m = [task |-> g.task, coll |-> coll, retry |-> g.retry]
    BY <1>1, <2>3, ZenonT(60)
  <2>. QED
    BY <2>2, <2>4
<1>4. ASSUME NEW v \in Workers, WorkerStep(v) PROVE FALSE
  BY <1>0, <1>4, ZenonT(60) DEF WorkerStep, StartTask, FinishTask, HandleAbandoned, Expire,
     StopWorker, ExitWorker, StartWorker, PoolType
<1>5. \/ \E t \in Tasks : Dispatch(t)
      \/ \E g \in retries : Redispatch(g)
      \/ \E v \in Workers : WorkerStep(v)
      \/ UNCHANGED queued
  BY Zenon DEF Next, CollectorStep, EngineStep, OtherProgress, vars, workers, HandleResult,
     RedispatchGivesUp, RedispatchSends, RetryQuits, MonitorDone, ReadProgress, Tick,
     ReadResult, AwaitFails, AwaitCompletes, Release, Abandon, PrepareCollect, Decide,
     EngineCrash, Cancel
<1>. QED
  BY <1>2, <1>3, <1>4, <1>5

\* However a retry's timer races the end of the collection, no task is
\* published after its collection's abandon.
THEOREM AbandonIsLast == Spec => NothingAfterAbandon
<1>1. AInv => RetriesInv
  BY DEF AInv
<1>2. AInv /\ TInv /\ [Next]_vars =>
        [\A w \in Workers : \A m \in queued'[w] \ queued[w] : m.coll \notin abandonedBy]_vars
  BY NextPublishesBeforeAbandon
<1>. QED
  BY <1>1, <1>2, TInvInit, TInvNext, AbandonInvariant, PTL DEF Spec, NothingAfterAbandon
-----------------------------------------------------------------------------
(* What a completed collection has collected                               *)

\* Tasks that are settled and whose result is neither read nor in the channel,
\* and the retry about to settle one that way.
Missing  == {t \in Tasks \ pending : \A r \in results \cup resultChan : r.task # t}
GivingUp == {g \in retries : g.at = "failed"}

\* A failed redispatch pays for every such task, the one about to be included.
CountInv == coll # 0 => Cardinality(Missing) + (IF GivingUp = {} THEN 0 ELSE 1) <= refusals

\* redispatchMu has one holder.
LockInv == \A g, h \in retries : g.at # "backoff" /\ h.at # "backoff" => g = h

\* doneChan closes on an empty pending set; only a wait that ended on it ends
\* the stage well, with all but the missing results read.
EndInv ==
    /\ done => pending = {}
    /\ phase \in {"release", "abandon", "decide"} => ending # "none"
    /\ ending = "complete" => Cardinality(Unaccounted) <= refusals
    /\ verdict \in {"completed", "incomplete"} => phase = "idle" /\ ending = "complete"

CollectInv == CountInv /\ LockInv /\ EndInv

\* No more tasks are counted in a smaller set, and one more with one more.
LEMMA Counted ==
    ASSUME NEW S \in SUBSET Tasks, NEW U \in SUBSET Tasks
    PROVE  /\ Cardinality(S) \in Nat /\ Cardinality(U) \in Nat
           /\ U \subseteq S => Cardinality(U) <= Cardinality(S)
           /\ \A e : U \subseteq S \cup {e} => Cardinality(U) <= Cardinality(S) + 1
<1>1. IsFiniteSet(S) /\ IsFiniteSet(U) /\ Cardinality(S) \in Nat /\ Cardinality(U) \in Nat
  BY FS_Subset, FS_CardinalityType, ConstantsAssumption
<1>2. U \subseteq S => Cardinality(U) <= Cardinality(S)
  BY <1>1, FS_Subset
<1>3. ASSUME NEW e, U \subseteq S \cup {e} PROVE Cardinality(U) <= Cardinality(S) + 1
  <2>1. /\ IsFiniteSet(S \cup {e}) /\ Cardinality(S \cup {e}) \in Nat
        /\ Cardinality(S \cup {e}) <= Cardinality(S) + 1
    BY <1>1, FS_AddElement, FS_CardinalityType
  <2>2. Cardinality(U) <= Cardinality(S \cup {e})
    BY <1>3, <2>1, FS_Subset
  <2>. QED
    BY <1>1, <2>1, <2>2
<1>. QED
  BY <1>1, <1>2, <1>3

\* The count goes on when no task goes missing and no redispatch fails.
LEMMA CountGoesOn ==
    ASSUME CollectInv, BoundsType, UNCHANGED <<coll, refusals>>, Missing' \subseteq Missing,
           GivingUp = {} => GivingUp' = {}
    PROVE  CountInv'
<1>1. Cardinality(Missing) \in Nat /\ Cardinality(Missing') \in Nat
      /\ Cardinality(Missing') <= Cardinality(Missing)
  BY Counted DEF Missing
<1>. QED
  BY <1>1, ConstantsAssumption DEF CollectInv, CountInv, BoundsType

\* A step that leaves the collector and the end of the stage alone.
LEMMA CollectStutter ==
    ASSUME CollectInv, UNCHANGED <<coll, pending, retries, resultChan, results, done, refusals>>,
           UNCHANGED <<phase, ending, verdict>>
    PROVE  CollectInv'
BY DEF CollectInv, CountInv, LockInv, EndInv, Missing, GivingUp, Unaccounted

\* Nothing is counted before the first collection.
LEMMA CollectInit == Init => CollectInv
BY DEF Init, CollectInv, CountInv, LockInv, EndInv

\* The handler settles a task with its result in the channel.
LEMMA HandleCollects ==
    ASSUME TInv, CollectInv, NEW m \in inbox, HandleResult(m)
    PROVE  CollectInv'
<1>1. UNCHANGED <<coll, phase, ending, verdict, results, done, refusals>>
  BY DEF HandleResult, engine, bounds
<1>2. m.task \in Tasks /\ m.out \in Answers
  BY DEF TInv, CollectorType, Answer
<1>3. \/ UNCHANGED <<pending, retries, resultChan>>
      \/ \E r : r.task = m.task /\ Settle(m.task, r)
      \/ UNCHANGED <<pending, resultChan>>
         /\ retries' = retries \cup {[task |-> m.task, retry |-> retryCount[m.task] + 1, at |-> "backoff"]}
  BY <1>2, Zenon DEF HandleResult, Answers
<1>4. Missing' \subseteq Missing
  BY <1>1, <1>3 DEF Missing, Settle
<1>5. GivingUp = {} => GivingUp' = {}
  BY <1>3 DEF GivingUp, Settle
<1>6. LockInv'
  BY <1>3 DEF LockInv, CollectInv, Settle
<1>7. EndInv'
  BY <1>1, <1>3 DEF EndInv, CollectInv, Settle, Unaccounted
<1>. QED
  BY <1>1, <1>4, <1>5, <1>6, <1>7, CountGoesOn DEF CollectInv, TInv

\* A retry that fails to redispatch pays before it takes its task out.
LEMMA RetryCollects ==
    ASSUME TInv, CollectInv, NEW g \in retries,
           Redispatch(g) \/ RedispatchGivesUp(g) \/ RedispatchSends(g) \/ RetryQuits(g)
    PROVE  CollectInv'
<1>1. UNCHANGED <<coll, phase, ending, verdict, results, done>>
  BY DEF Redispatch, RedispatchGivesUp, RedispatchSends, RetryQuits, engine
<1>2. refusals \in Nat /\ refusals' \in Nat /\ refusals <= refusals'
  BY DEF Redispatch, RedispatchGivesUp, RedispatchSends, RetryQuits, bounds, TInv, BoundsType
<1>3. EndInv'
  <2>1. pending' \subseteq pending
    BY DEF Redispatch, RedispatchGivesUp, RedispatchSends, RetryQuits
  <2>2. Unaccounted' = Unaccounted /\ Cardinality(Unaccounted) \in Nat
    BY <1>1, Counted DEF Unaccounted
  <2>. QED
    BY <1>1, <1>2, <2>1, <2>2 DEF EndInv, CollectInv
<1>4. CASE retries' = retries \ {g} /\ UNCHANGED <<refusals, pending>> /\ resultChan \subseteq resultChan'
  <2>1. Missing' \subseteq Missing /\ (GivingUp = {} => GivingUp' = {}) /\ LockInv'
    BY <1>1, <1>4 DEF Missing, GivingUp, LockInv, CollectInv
  <2>. QED
    BY <1>1, <1>3, <1>4, <2>1, CountGoesOn DEF CollectInv, TInv
<1>5. CASE /\ g.at = "backoff" /\ ~RedispatchLocked /\ refusals' = refusals + 1
           /\ retries' = (retries \ {g}) \cup {[g EXCEPT !.at = "failed"]}
           /\ UNCHANGED <<pending, resultChan>>
  <2>1. GivingUp = {} /\ LockInv'
    BY <1>5 DEF RedispatchLocked, GivingUp, LockInv
  <2>2. Missing' = Missing /\ Cardinality(Missing) \in Nat
    BY <1>1, <1>5, Counted DEF Missing
  <2>3. CountInv'
    BY <1>1, <1>2, <1>5, <2>1, <2>2 DEF CountInv, CollectInv
  <2>. QED
    BY <1>3, <2>1, <2>3 DEF CollectInv
<1>6. CASE /\ g.at = "failed" /\ UNCHANGED <<refusals, resultChan>>
           /\ pending' = pending \ {g.task}
           /\ retries' = (retries \ {g}) \cup {[g EXCEPT !.at = "send"]}
  <2>0. \A h \in retries \ {g} : h.at = "backoff"
    BY <1>6 DEF LockInv, CollectInv
  <2>1. GivingUp # {} /\ GivingUp' = {} /\ LockInv'
    <3> DEFINE k == [g EXCEPT !.at = "send"]
    <3>1. k.at = "send"
      BY DEF TInv, CollectorType
    <3>2. retries' = (retries \ {g}) \cup {k}
      BY <1>6
    <3> HIDE DEF k
    <3>. QED
      BY <1>6, <2>0, <3>1, <3>2 DEF GivingUp, LockInv
  <2>2. Missing' \subseteq Missing \cup {g.task}
    BY <1>1, <1>6 DEF Missing
  <2>3. /\ Cardinality(Missing) \in Nat /\ Cardinality(Missing') \in Nat
        /\ Cardinality(Missing') <= Cardinality(Missing) + 1
    BY <2>2, Counted DEF Missing
  <2>4. CountInv'
    BY <1>1, <1>2, <1>6, <2>1, <2>3 DEF CountInv, CollectInv
  <2>. QED
    BY <1>3, <2>1, <2>4 DEF CollectInv
<1>. QED
  BY <1>4, <1>5, <1>6, Zenon DEF Redispatch, RedispatchGivesUp, RedispatchSends, RetryQuits, bounds

\* Closing doneChan, reading results and ending the wait lose no result.
LEMMA AwaitCollects ==
    ASSUME TInv, CollectInv,
           MonitorDone \/ AwaitFails \/ AwaitCompletes \/ \E r \in resultChan : ReadResult(r)
    PROVE  CollectInv'
<1>1. UNCHANGED <<coll, pending, retries, refusals, verdict>> /\ phase = "await"
  BY DEF MonitorDone, AwaitFails, AwaitCompletes, ReadResult, engine, collector, bounds
<1>2. /\ results' \cup resultChan' = results \cup resultChan /\ results \subseteq results'
      /\ done' => pending = {}
  BY DEF MonitorDone, AwaitFails, AwaitCompletes, ReadResult, engine, collector, EndInv, CollectInv
<1>3. Missing' \subseteq Missing /\ GivingUp' = GivingUp /\ LockInv'
  BY <1>1, <1>2 DEF Missing, GivingUp, LockInv, CollectInv
<1>4. CountInv'
  BY <1>1, <1>3, CountGoesOn DEF TInv
<1>5. ASSUME ending' = "complete" PROVE Cardinality(Unaccounted') <= refusals'
  <2>1. CASE AwaitCompletes
    <3>0. pending = {} /\ coll # 0
      BY <1>1, <2>1 DEF AwaitCompletes, EndInv, CollectInv, TInv, StartedInv
    <3>1. Unaccounted' \subseteq Missing
      BY ZenonT(20), <2>1, <3>0 DEF AwaitCompletes, Unaccounted, Missing
    <3>2. /\ Cardinality(Missing) \in Nat /\ Cardinality(Unaccounted') \in Nat
          /\ Cardinality(Unaccounted') <= Cardinality(Missing)
      BY <3>1, Counted DEF Missing, Unaccounted
    <3>. QED
      BY <1>1, <3>0, <3>2 DEF CollectInv, CountInv, TInv, BoundsType
  <2>2. CASE ~AwaitCompletes
    <3>1. ending = "complete"
      BY <1>5, <2>2 DEF MonitorDone, AwaitFails, ReadResult, engine
    <3>2. Unaccounted' \subseteq Unaccounted
      BY <1>2 DEF Unaccounted
    <3>3. /\ Cardinality(Unaccounted) \in Nat /\ Cardinality(Unaccounted') \in Nat
          /\ Cardinality(Unaccounted') <= Cardinality(Unaccounted)
      BY <3>2, Counted DEF Unaccounted
    <3>. QED
      BY <1>1, <3>1, <3>3 DEF CollectInv, EndInv, TInv, BoundsType
  <2>. QED
    BY <2>1, <2>2
<1>6. phase' \in {"release", "abandon", "decide"} => ending' # "none"
  BY <1>1 DEF MonitorDone, AwaitFails, AwaitCompletes, ReadResult, engine
<1>7. EndInv'
  BY <1>1, <1>2, <1>5, <1>6 DEF EndInv, CollectInv
<1>. QED
  BY <1>3, <1>4, <1>7 DEF CollectInv

\* The engine's own steps: a new collection counts from nothing, and only a
\* completed wait leads to a good end.
LEMMA EngineCollects ==
    ASSUME TInv, RetriesInv, CollectInv, EngineStep \/ Release \/ Abandon
    PROVE  CollectInv'
<1>1. CASE PrepareCollect
  <2>1. Missing' = {} /\ GivingUp' = {} /\ refusals' = refusals
    BY <1>1 DEF PrepareCollect, Missing, GivingUp, bounds
  <2>. QED
    BY <1>1, <2>1, FS_EmptySet DEF PrepareCollect, CollectInv, CountInv, LockInv, EndInv, TInv, BoundsType
<1>2. CASE Release \/ EngineCrash
  <2>1. /\ UNCHANGED <<coll, pending, resultChan, results, done, ending, refusals>> /\ retries' = {}
        /\ verdict' \in {verdict, "failed"} /\ phase # "idle"
        /\ phase' \in {"release", "abandon", "decide"} => ending # "none"
    BY <1>2 DEF Release, EngineCrash, bounds, CollectInv, EndInv
  <2>2. Missing' \subseteq Missing /\ GivingUp' = {} /\ LockInv'
    BY <2>1 DEF Missing, GivingUp, LockInv
  <2>3. EndInv'
    BY <2>1 DEF EndInv, CollectInv, Unaccounted
  <2>. QED
    BY <2>1, <2>2, <2>3, CountGoesOn DEF CollectInv, TInv
<1>3. CASE Decide
  <2>1. UNCHANGED <<coll, pending, retries, resultChan, results, done, ending, refusals>> /\ phase' = "idle"
    BY <1>3, Zenon DEF Decide, collector, bounds
  <2>2. verdict' \in {"completed", "incomplete"} => ending # "error"
    BY <1>3 DEF Decide
  <2>3. phase = "decide" => ending \in {"complete", "error"}
    BY DEF CollectInv, EndInv, TInv, EngineType
  <2>4. CountInv' /\ LockInv'
    BY <2>1 DEF CollectInv, CountInv, LockInv, Missing, GivingUp
  <2>. QED
    BY <1>3, <2>1, <2>2, <2>3, <2>4, ZenonT(30) DEF CollectInv, EndInv, Unaccounted, Decide
<1>4. CASE Cancel \/ Abandon \/ \E t \in Tasks : Dispatch(t)
  <2>1. /\ UNCHANGED <<coll, pending, retries, resultChan, results, done, verdict, refusals>>
        /\ phase # "idle" /\ ending' \in {ending, "error"}
        /\ phase' \in {"release", "abandon", "decide"} => ending' # "none"
    BY <1>4, Zenon DEF Cancel, Abandon, Dispatch, collector, bounds, CollectInv, EndInv
  <2>2. CountInv' /\ LockInv'
    BY <2>1 DEF CollectInv, CountInv, LockInv, Missing, GivingUp
  <2>. QED
    BY <2>1, <2>2 DEF CollectInv, EndInv, Unaccounted
<1>. QED
  BY ZenonT(20), <1>1, <1>2, <1>3, <1>4 DEF EngineStep

\* Every step preserves the count.
LEMMA CollectNext == TInv /\ RetriesInv /\ CollectInv /\ [Next]_vars => CollectInv'
<1>. SUFFICES ASSUME TInv, RetriesInv, CollectInv, [Next]_vars PROVE CollectInv'
  OBVIOUS
<1>1. CASE UNCHANGED vars
  BY ZenonT(20), <1>1, CollectStutter DEF vars, engine, collector, bounds
<1>2. CASE ReadProgress \/ Tick \/ OtherProgress
  BY <1>2, CollectStutter DEF ReadProgress, Tick, OtherProgress, engine, bounds
<1>3. ASSUME NEW w \in Workers, WorkerStep(w) PROVE CollectInv'
  <2>1. UNCHANGED <<coll, pending, retries, resultChan, results, done, refusals, phase, ending, verdict>>
    BY <1>3, Zenon DEF WorkerStep, StartTask, FinishTask, HandleAbandoned, Expire, StopWorker, ExitWorker,
       StartWorker, collector, engine, bounds
  <2>. QED
    BY <2>1, CollectStutter
<1>. QED
  BY <1>1, <1>2, <1>3, HandleCollects, RetryCollects, AwaitCollects, EngineCollects
  DEF Next, CollectorStep

\* A stage that ends well has read a result for every task, but for one task
\* for each failed redispatch: however the handler, the retries, the monitor
\* and AwaitResults interleave, no other result is lost when doneChan closes.
THEOREM CompletedStagesAreCollected == Spec => []CompletedIsCollected
<1>1. AInv => RetriesInv
  BY DEF AInv
<1>2. CollectInv => CompletedIsCollected
  BY DEF CollectInv, EndInv, CompletedIsCollected
<1>. QED
  BY <1>1, <1>2, TInvInit, TInvNext, CollectInit, CollectNext, AbandonInvariant, PTL DEF Spec
=============================================================================
