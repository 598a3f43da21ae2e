----------------------------- MODULE ResultCache -----------------------------
(***************************************************************************)
(* Reuse of model answers between jobs (pkg/resultcache, its PostgreSQL    *)
(* store, internal/analysis/cache.go and the checkpoint files of           *)
(* internal/pipeline).                                                     *)
(*                                                                         *)
(* One analyzer stage of every job runs here.  Each execution of the stage *)
(* is an attempt.  An attempt looks its requests up in the cache, asks the *)
(* model for the rest, stores the answers (a cache row and an audit entry  *)
(* in one transaction), records its hits and statistics, has the record    *)
(* signed under the job's row lock, stores the signed checkpoint in object *)
(* storage, and only then persists the stage as completed.                 *)
(*                                                                         *)
(* A cached answer is used only when the attempt that stored it is covered *)
(* by a checkpoint that verifies under the tenant's key and the attempt's  *)
(* entries in the database still are the ones that were signed.            *)
(*                                                                         *)
(* An answer is named by the attempt and the task it was given to, so two  *)
(* calls of the model never give the same answer; a digest is the answer   *)
(* itself.  A request key is a model value; KeyOf gives the key of a task, *)
(* and tasks with the same request share one.                              *)
(***************************************************************************)
EXTENDS Integers, FiniteSets

CONSTANTS
    Jobs,         \* job IDs
    Attempts,     \* attempt IDs (uuid.NewString in planCache)
    JobOf,        \* [Attempts -> Jobs]: the job an attempt belongs to
    Tasks,        \* the tasks GenerateWork returns for the stage
    Keys,         \* lookup keys
    KeyOf,        \* [Tasks -> Keys]: resultcache.Key of the task's request
    BatchSize,    \* analysis.result_cache.lookup_batch_size
    None,         \* no row, no attempt, no checkpoint
    Altered,      \* content nobody produced
    Bounds        \* how often each outside event may happen

ASSUME CacheAssumption ==
    /\ JobOf \in [Attempts -> Jobs]
    /\ KeyOf \in [Tasks -> Keys]
    /\ BatchSize \in Nat \ {0}
    /\ None \notin Attempts

VARIABLES
    job,          \* jobs.status
    stage,        \* job_stages: the stage's status and cache_attempt
    cache,        \* llm_result_cache: key -> answer and its producer
    entries,      \* job_cache_entries of each attempt
    stats,        \* job_cache_stats of each attempt: the mode, or None
    checkpoint,   \* object storage: the signed checkpoint of each attempt
    trusted,      \* the generation of the attestation key pair in use
    run,          \* the engine's in-process state of each attempt
    left          \* what remains of Bounds

tables == <<job, stage, cache, entries, stats>>
vars == <<job, stage, cache, entries, stats, checkpoint, trusted, run, left>>

-----------------------------------------------------------------------------
(* What is stored *)

\* The digest of an answer is the answer: digests of two answers differ.
Answers == Attempts \X Tasks

\* The key a task's request is looked up and stored under.
Key(t) == KeyOf[t]

Write(t, v) == [task |-> t, role |-> "write", result |-> v, producer |-> None]
Hit(t, v, j) == [task |-> t, role |-> "hit", result |-> v, producer |-> j]

\* The entries Validate and the audit table's constraints accept.
Entry == [task : Tasks, role : {"write", "hit"}, result : Answers \cup {Altered},
          producer : Jobs \cup {None}]

\* An attempt's manifest: its entries and its statistics row.  Its digest
\* covers both, in canonical order, so it is the manifest itself.
ManifestOf(a) == [entries |-> entries[a], stats |-> stats[a]]

\* The answers a manifest's write entries record under key k.
Written(m, k) == {e.result : e \in {x \in m.entries : x.role = "write" /\ Key(x.task) = k}}

\* What a probe of the alias can bring: a model and deployment to file answers
\* under, no usable name (or only the alias, with no deployment and no
\* configured revision), or no answer.
Probes == {"named", "unusable", "failed"}

\* prepareResultCache and planCache: how the stage uses the cache.  switched
\* is analysis.result_cache.enabled for the tenant.
ModeFor(switched, noCache, probe) ==
    IF ~switched THEN "disabled"
    ELSE IF probe = "unusable" THEN "skipped"
    ELSE IF noCache THEN "bypassed" ELSE "enabled"

Idle == [pc |-> "idle", mode |-> None, todo |-> {}, batch |-> {}, producers |-> {},
         verified |-> {}, signed |-> [b \in Attempts |-> None],
         found |-> [k \in Keys |-> None], hits |-> {}, toPut |-> {}, writes |-> {},
         recorded |-> FALSE, uncertain |-> FALSE, stops |-> FALSE, outcome |-> None]

Active(a) == run[a].pc \notin {"idle", "done"}

ActiveIn(j) == \E a \in Attempts : JobOf[a] = j /\ Active(a)

\* The engine's own record of an attempt, which Checkpoint compares with the
\* database: the accepted writes and, once RecordStage succeeded, the hits
\* and the statistics.
Expected(r) == [entries |-> r.writes \cup (IF r.recorded THEN r.hits ELSE {}),
                stats   |-> IF r.recorded THEN r.mode ELSE None]

\* An execution that is over keeps the engine's record and the outcome:
\* completed, corrupt (result_cache_corrupt), or failed (any other error, a
\* cancellation or an interruption).
Over(r, outcome) == [Idle EXCEPT !.pc = "done", !.mode = r.mode, !.hits = r.hits,
                                 !.writes = r.writes, !.recorded = r.recorded,
                                 !.outcome = outcome]

Ends(a, outcome) == run' = [run EXCEPT ![a] = Over(@, outcome)]

\* Nothing of the cache is used and the stage fails as result_cache_corrupt.
CacheCorrupt(a) == Ends(a, "corrupt")

\* An outside event takes from its own bound and from the bound on all of them,
\* of which one that changes what is stored takes twice as much.
Spends(what) ==
    LET price == IF what = "faults" THEN 1 ELSE 2 IN
    /\ left[what] > 0 /\ left["all"] >= price
    /\ left' = [left EXCEPT ![what] = @ - 1, !["all"] = @ - price]

Init ==
    /\ job = [j \in Jobs |-> "running"]
    /\ stage = [j \in Jobs |-> [completed |-> FALSE, attempt |-> None]]
    /\ cache = [k \in Keys |-> None]
    /\ entries = [a \in Attempts |-> {}]
    /\ stats = [a \in Attempts |-> None]
    /\ checkpoint = [a \in Attempts |-> None]
    /\ trusted = 0
    /\ run = [a \in Attempts |-> Idle]
    /\ left = Bounds

-----------------------------------------------------------------------------
(* The stage's execution *)

\* executeAnalyzer reaches planCache: a new attempt in its mode.
Planned(mode) ==
    [Idle EXCEPT !.mode = mode,
                 !.pc = IF mode = "enabled" THEN "producers" ELSE "calls",
                 !.todo = IF mode = "enabled" THEN {Key(t) : t \in Tasks} ELSE {}]

\* The tenant's switch may change, and so may what the gateway answers, from
\* one run of the job to the next.  A probe that fails ends the job before any
\* stage starts.
StartStage(a) ==
    LET j == JobOf[a] IN
    /\ run[a].pc = "idle"
    /\ job[j] = "running" /\ ~stage[j].completed /\ ~ActiveIn(j)
    /\ \/ /\ \E switched, noCache \in BOOLEAN : \E probe \in Probes \ {"failed"} :
               run' = [run EXCEPT ![a] = Planned(ModeFor(switched, noCache, probe))]
          /\ UNCHANGED left
       \/ Spends("faults") /\ Ends(a, "failed")
    /\ UNCHANGED <<tables, checkpoint, trusted>>

\* The jobs that stored the rows under keys.
ProducersOf(keys) == {JobOf[cache[k].attempt] : k \in {x \in keys : cache[x] # None}}

\* lookupCached, first read of a batch: which jobs produced the rows there.
\* The checkpoints of a producer are loaded once per stage.
Producers(a) ==
    LET r == run[a] IN
    /\ r.pc = "producers"
    /\ \E batch \in SUBSET r.todo :
         /\ Cardinality(batch) = BatchSize \/ (batch = r.todo /\ Cardinality(batch) < BatchSize)
         /\ run' = [run EXCEPT ![a] = [r EXCEPT !.batch = batch, !.producers = ProducersOf(batch),
                        !.pc = IF ProducersOf(batch) \subseteq r.verified
                               THEN "snapshot" ELSE "checkpoints"]]
    /\ UNCHANGED <<tables, checkpoint, trusted, left>>

\* verifyCheckpoint: what a's stored checkpoint signs, if its key is in use.
VerifyCheckpoint(a) ==
    IF checkpoint[a].manifest = Altered THEN Altered
    ELSE IF checkpoint[a].key # trusted THEN None ELSE checkpoint[a].manifest

\* The checkpoints stored for the jobs.
CheckpointsOf(jobs) == {b \in Attempts : JobOf[b] \in jobs /\ checkpoint[b] # None}

\* cacheCheckpoints.Verified: every checkpoint stored for the producers not
\* loaded yet.  One of a retired key is ignored; one that does not verify
\* under the trusted key stops the stage.
Verified(a) ==
    LET r == run[a]
        new == CheckpointsOf(r.producers \ r.verified) IN
    /\ r.pc = "checkpoints"
    /\ \/ (\E b \in new : VerifyCheckpoint(b) = Altered) /\ CacheCorrupt(a)
       \/ /\ \A b \in new : VerifyCheckpoint(b) # Altered
          /\ run' = [run EXCEPT ![a] = [r EXCEPT !.pc = "snapshot",
                         !.verified = @ \cup r.producers,
                         !.signed = [b \in Attempts |->
                             IF b \in new THEN VerifyCheckpoint(b) ELSE @[b]]]]
    /\ UNCHANGED <<tables, checkpoint, trusted, left>>

\* The rows LookupVerifiable reads, with their producers' manifests, in one
\* snapshot.
Rows(keys) == {k \in keys : cache[k] # None}

\* Mutant of Verify: the row's answer is not compared with the write entries.
VerifyAttemptOnly(r, k) ==
    LET row == cache[k] IN
    IF JobOf[row.attempt] \notin r.producers \/ r.signed[row.attempt] = None THEN "miss"
    ELSE IF ManifestOf(row.attempt) # r.signed[row.attempt] THEN "corrupt"
    ELSE "hit"

\* Snapshot.Verify of the row under k, against the signed attempts of the
\* producers this batch named.
Verify(r, k) ==
    LET row == cache[k] IN
    IF JobOf[row.attempt] \notin r.producers \/ r.signed[row.attempt] = None THEN "miss"
    ELSE IF ManifestOf(row.attempt) # r.signed[row.attempt] THEN "corrupt"
    ELSE IF row.result \notin Written(ManifestOf(row.attempt), k) THEN "corrupt"
    ELSE "hit"

\* LookupVerifiable reads the batch's rows and their producers' manifests in
\* one snapshot.  Any row that fails stops the stage and none is used.
LookupVerifiable(a) ==
    LET r == run[a]
        rows == Rows(r.batch)
        found == [k \in Keys |-> IF k \in rows /\ Verify(r, k) = "hit" THEN cache[k] ELSE r.found[k]]
        todo == r.todo \ r.batch
        reused == {t \in Tasks : found[Key(t)] # None} IN
    /\ r.pc = "snapshot"
    /\ \/ (\E k \in rows : Verify(r, k) = "corrupt") /\ CacheCorrupt(a)
       \/ /\ \A k \in rows : Verify(r, k) # "corrupt"
          /\ run' = [run EXCEPT ![a] = IF todo # {}
                 THEN [r EXCEPT !.pc = "producers", !.todo = todo, !.found = found,
                                !.batch = {}, !.producers = {}]
                 ELSE [Idle EXCEPT !.pc = "calls", !.mode = r.mode,
                           !.hits = {Hit(t, found[Key(t)].result, JobOf[found[Key(t)].attempt])
                                     : t \in reused}]]
    /\ UNCHANGED <<tables, checkpoint, trusted, left>>

\* A failed read of the database or of object storage: result_cache_unavailable.
LookupFails(a) ==
    /\ run[a].pc \in {"producers", "checkpoints", "snapshot"}
    /\ Spends("faults")
    /\ Ends(a, "failed")
    /\ UNCHANGED <<tables, checkpoint, trusted>>

\* Dispatch, Collect and Aggregate over the tasks no hit answered.  stored is
\* what putResults offers to the cache: answers of the probed model that the
\* analyzer would use.  A collection that fails, or leaves no success, stops
\* the stage after its answers are stored.
Called(a, stored, stops) ==
    LET r == run[a] IN
    run' = [run EXCEPT ![a] =
        IF r.mode # "disabled" THEN [r EXCEPT !.pc = "puts", !.toPut = stored, !.stops = stops]
        ELSE IF stops THEN Over(r, "failed") ELSE [r EXCEPT !.pc = "persist"]]

Calls(a) ==
    LET r == run[a]
        remaining == Tasks \ {h.task : h \in r.hits}
        storable == IF r.mode \in {"enabled", "bypassed"} THEN remaining ELSE {} IN
    /\ r.pc = "calls"
    /\ \/ Called(a, storable, FALSE) /\ UNCHANGED left
       \/ /\ Spends("faults")
          /\ \E stored \in SUBSET storable : \E stops \in BOOLEAN : Called(a, stored, stops)
    /\ UNCHANGED <<tables, checkpoint, trusted>>

Stored(a, t) ==
    /\ cache' = [cache EXCEPT ![Key(t)] = [result |-> <<a, t>>, attempt |-> a]]
    /\ entries' = [entries EXCEPT ![a] = @ \cup {Write(t, <<a, t>>)}]

\* One Put of putResults.  The transaction is refused outright when the job
\* is no longer running; any other failure may have committed.
PutResult(a) ==
    LET r == run[a] IN
    /\ r.pc = "puts"
    /\ \E t \in r.toPut :
         \/ /\ job[JobOf[a]] = "running"
            /\ Stored(a, t)
            /\ run' = [run EXCEPT ![a] = [@ EXCEPT !.toPut = @ \ {t},
                                                   !.writes = @ \cup {Write(t, <<a, t>>)}]]
            /\ UNCHANGED left
         \/ /\ job[JobOf[a]] # "running"
            /\ run' = [run EXCEPT ![a] = [@ EXCEPT !.toPut = @ \ {t}]]
            /\ UNCHANGED <<cache, entries, left>>
         \/ /\ Spends("faults")
            /\ run' = [run EXCEPT ![a] = [@ EXCEPT !.toPut = @ \ {t}, !.uncertain = TRUE]]
            /\ \/ UNCHANGED <<cache, entries>>
               \/ job[JobOf[a]] = "running" /\ Stored(a, t)
    /\ UNCHANGED <<job, stage, stats, checkpoint, trusted>>

Recorded(a) ==
    /\ entries' = [entries EXCEPT ![a] = @ \cup run[a].hits]
    /\ stats' = [stats EXCEPT ![a] = run[a].mode]

\* recordStage of a stage that completes.  When it fails, sealAfterFailure
\* seals the writes alone.
RecordStage(a) ==
    LET r == run[a] IN
    /\ r.pc = "puts" /\ r.toPut = {} /\ ~r.stops
    /\ \/ /\ job[JobOf[a]] = "running"
          /\ Recorded(a)
          /\ run' = [run EXCEPT ![a] = [@ EXCEPT !.pc = "seal", !.recorded = TRUE]]
          /\ UNCHANGED left
       \/ /\ job[JobOf[a]] # "running"
          /\ run' = [run EXCEPT ![a] = [@ EXCEPT !.stops = TRUE]]
          /\ UNCHANGED <<entries, stats, left>>
       \/ /\ Spends("faults")
          /\ run' = [run EXCEPT ![a] = [@ EXCEPT !.stops = TRUE, !.uncertain = TRUE]]
          /\ \/ UNCHANGED <<entries, stats>>
             \/ job[JobOf[a]] = "running" /\ Recorded(a)
    /\ UNCHANGED <<job, stage, cache, checkpoint, trusted>>

\* sealAfterFailure: a stage that wrote nothing has nothing to vouch for.
StopStage(a) ==
    /\ run[a].pc = "puts" /\ run[a].toPut = {} /\ run[a].stops
    /\ run' = [run EXCEPT ![a] = IF @.writes = {} THEN Over(@, "failed") ELSE [@ EXCEPT !.pc = "seal"]]
    /\ UNCHANGED <<tables, checkpoint, trusted, left>>

\* Mutant of Checkpoint: the record is signed without reading it back.
CheckpointBlindly(a) ==
    /\ run[a].pc = "seal"
    /\ run' = [run EXCEPT ![a].pc = "store"]
    /\ UNCHANGED <<tables, checkpoint, trusted, left>>

\* Mutant of CheckpointFailed: a write of unknown outcome is taken for tampering.
CheckpointSuspicious(r) == Over(r, IF r.stops THEN "failed" ELSE "corrupt")

\* MatchRecord, on the rows the transaction reads under the job's row lock.
MatchRecord(a) == ManifestOf(a) = Expected(run[a])

\* checkpointFailed: a mismatch is tampering unless a write of the stage had an
\* unknown outcome; after a failure the stage's own error stands.
CheckpointFailed(r) == Over(r, IF r.stops \/ r.uncertain THEN "failed" ELSE "corrupt")

\* seal, under the job's row lock: Checkpoint compares the database with the
\* engine's record and has the digest signed only when they agree.
Checkpoint(a) ==
    /\ run[a].pc = "seal"
    /\ run' = [run EXCEPT ![a] = IF MatchRecord(a) THEN [@ EXCEPT !.pc = "store"]
                                 ELSE CheckpointFailed(@)]
    /\ UNCHANGED <<tables, checkpoint, trusted, left>>

\* Sign, called under the lock.
Sign(a) == [manifest |-> Expected(run[a]), key |-> trusted]

\* seal, after the lock is released: the signed checkpoint is stored.
Sealed(a) == checkpoint' = [checkpoint EXCEPT ![a] = Sign(a)]

StoreCheckpoint(a) ==
    LET r == run[a] IN
    /\ r.pc = "store"
    /\ Sealed(a)
    /\ run' = [run EXCEPT ![a] = IF r.stops THEN Over(r, "failed") ELSE [r EXCEPT !.pc = "persist"]]
    /\ UNCHANGED <<tables, trusted, left>>

\* A lock, signature or write that fails.  The write may have been made.
SealFails(a) ==
    /\ run[a].pc \in {"seal", "store"}
    /\ Spends("faults")
    /\ \/ UNCHANGED checkpoint
       \/ run[a].pc = "store" /\ Sealed(a)
    /\ Ends(a, "failed")
    /\ UNCHANGED <<tables, trusted>>

\* ReportStageCompleted: the result, the stage's status and the attempt that
\* sealed it, in one transaction, whose failure may have committed.
Completed(a) ==
    stage' = [stage EXCEPT ![JobOf[a]] =
        [completed |-> TRUE, attempt |-> IF run[a].mode = "disabled" THEN None ELSE a]]

ReportStageCompleted(a) ==
    /\ run[a].pc = "persist"
    /\ \/ Completed(a) /\ Ends(a, "completed") /\ UNCHANGED left
       \/ /\ Spends("faults") /\ Ends(a, "failed")
          /\ UNCHANGED stage \/ Completed(a)
    /\ UNCHANGED <<job, cache, entries, stats, checkpoint, trusted>>

\* The job's context ends: no further call succeeds and nothing is sealed.
StageCancelled(a) ==
    /\ Active(a) /\ job[JobOf[a]] # "running"
    /\ Ends(a, "failed")
    /\ UNCHANGED <<tables, checkpoint, trusted, left>>

Stopped == [a \in Attempts |-> IF Active(a) THEN Over(run[a], "failed") ELSE run[a]]

\* The daemon stops or crashes.
Crash ==
    /\ \E a \in Attempts : Active(a)
    /\ Spends("faults")
    /\ run' = Stopped
    /\ UNCHANGED <<tables, checkpoint, trusted>>

-----------------------------------------------------------------------------
(* The job around the stage *)

\* The job ends once its stage has: completed, or failed.
EndJob(j) ==
    /\ job[j] = "running" /\ ~ActiveIn(j)
    /\ \E a \in Attempts : JobOf[a] = j /\ run[a].pc = "done"
    /\ job' = [job EXCEPT ![j] = IF stage[j].completed THEN "completed" ELSE "ended"]
    /\ UNCHANGED <<stage, cache, entries, stats, checkpoint, trusted, run, left>>

\* A cancellation does not wait for the stage.
CancelJob(j) ==
    /\ job[j] = "running" /\ ActiveIn(j)
    /\ Spends("faults")
    /\ job' = [job EXCEPT ![j] = "ended"]
    /\ UNCHANGED <<stage, cache, entries, stats, checkpoint, trusted, run>>

\* A retry puts the job back to running; a retry from this stage clears it.
RetryJob(j) ==
    /\ job[j] = "ended" /\ ~ActiveIn(j)
    /\ job' = [job EXCEPT ![j] = "running"]
    /\ \/ UNCHANGED stage
       \/ stage' = [stage EXCEPT ![j] = [completed |-> FALSE, attempt |-> None]]
    /\ UNCHANGED <<cache, entries, stats, checkpoint, trusted, run, left>>

Own(j) == {a \in Attempts : JobOf[a] = j}

\* Retention deletes a completed job with its cache rows, entries and
\* statistics in one transaction.  Its checkpoints stay in object storage.
PurgeJob(j) ==
    /\ job[j] = "completed"
    /\ Spends("purges")
    /\ job' = [job EXCEPT ![j] = "purged"]
    /\ stage' = [stage EXCEPT ![j] = [completed |-> FALSE, attempt |-> None]]
    /\ cache' = [k \in Keys |-> IF cache[k] # None /\ cache[k].attempt \in Own(j) THEN None ELSE cache[k]]
    /\ entries' = [a \in Attempts |-> IF a \in Own(j) THEN {} ELSE entries[a]]
    /\ stats' = [a \in Attempts |-> IF a \in Own(j) THEN None ELSE stats[a]]
    /\ UNCHANGED <<checkpoint, trusted, run>>

\* Retention deletes the cached answers about a catalog's controls.
PurgeCatalog(k) ==
    /\ cache[k] # None
    /\ Spends("purges")
    /\ cache' = [cache EXCEPT ![k] = None]
    /\ UNCHANGED <<job, stage, entries, stats, checkpoint, trusted, run>>

\* A new attestation key pair, with the restart that loads it.
RotateKey ==
    /\ Spends("rotations")
    /\ trusted' = trusted + 1
    /\ run' = Stopped
    /\ UNCHANGED <<tables, checkpoint>>

-----------------------------------------------------------------------------
(* Stored content that changes outside the program, and a restore *)

AlterRow(k) ==
    /\ cache[k] # None /\ cache[k].result # Altered
    /\ Spends("alters")
    /\ cache' = [cache EXCEPT ![k].result = Altered]
    /\ UNCHANGED <<job, stage, entries, stats, checkpoint, trusted, run>>

\* An entry is accepted only while its job is running (the freeze trigger).
AlterEntries(a) ==
    /\ job[JobOf[a]] = "running" /\ run[a].pc # "idle"
    /\ Spends("alters")
    /\ \E t \in Tasks : entries' = [entries EXCEPT ![a] = @ \cup {Write(t, Altered)}]
    /\ UNCHANGED <<job, stage, cache, stats, checkpoint, trusted, run>>

AlterCheckpoint(a) ==
    /\ checkpoint[a] # None /\ checkpoint[a].manifest # Altered
    /\ Spends("alters")
    /\ checkpoint' = [checkpoint EXCEPT ![a].manifest = Altered]
    /\ UNCHANGED <<tables, trusted, run>>

\* A restore as deploy/README.md lays it out: the daemon is stopped, the
\* database recovers from its base backup and replays the archived WAL up to
\* the last commit, and the emptied object store gets the objects the restore
\* point captured, which lack the checkpoints stored after the capture.
Restore ==
    /\ Spends("restores")
    /\ \E captured \in SUBSET {a \in Attempts : checkpoint[a] # None} :
         checkpoint' = [a \in Attempts |-> IF a \in captured THEN checkpoint[a] ELSE None]
    /\ run' = Stopped
    /\ UNCHANGED <<tables, trusted>>

-----------------------------------------------------------------------------
StageStep(a) ==
    \/ StartStage(a) \/ Producers(a) \/ Verified(a) \/ LookupVerifiable(a) \/ LookupFails(a)
    \/ Calls(a) \/ PutResult(a) \/ RecordStage(a) \/ StopStage(a) \/ Checkpoint(a)
    \/ StoreCheckpoint(a) \/ SealFails(a) \/ ReportStageCompleted(a) \/ StageCancelled(a)

Next ==
    \/ \E a \in Attempts : StageStep(a) \/ AlterEntries(a) \/ AlterCheckpoint(a)
    \/ \E j \in Jobs : EndJob(j) \/ CancelJob(j) \/ RetryJob(j) \/ PurgeJob(j)
    \/ \E k \in Keys : PurgeCatalog(k) \/ AlterRow(k)
    \/ Crash \/ RotateKey \/ Restore

Spec == Init /\ [][Next]_vars

-----------------------------------------------------------------------------
(* Reading the record back *)

\* ownCheckpoint: the checkpoint of a's attempt is stored and verifies.
OwnCheckpoint(a) == checkpoint[a] # None /\ VerifyCheckpoint(a) \notin {None, Altered}

\* Mutant of SummarizeSigned: the rows are not compared with the signed digest.
SummarizeUnchecked(a) == stats[a] # None

\* VerifiedSummaries and SummarizeSigned: the rows read are the ones signed,
\* and they have the statistics of a completed stage.
SummarizeSigned(a) == checkpoint[a].manifest = ManifestOf(a) /\ stats[a] # None

Attested(a) == OwnCheckpoint(a) /\ SummarizeSigned(a)

\* checkNoSignedCompletion: an attempt of the job completed the stage and its
\* record is still attested.
SignedCompletion(j) == \E a \in Own(j) : Attested(a)

\* cacheRecordOf for a stage an earlier run completed: whether a resumed job
\* can attest it.
CacheRecordOf(j) ==
    LET a == stage[j].attempt IN
    IF a = None THEN ~SignedCompletion(j) ELSE Attested(a)

\* cacheSummaries: the record run status shows for the job's stage, if any.
CacheSummary(j) ==
    LET a == stage[j].attempt IN
    IF stage[j].completed /\ a # None /\ Attested(a)
    THEN ManifestOf(a) ELSE None

-----------------------------------------------------------------------------
(* Properties *)

\* Whatever happens to the stored rows, entries and checkpoints, and whatever
\* is rotated, purged or restored meanwhile, an answer a stage reuses
\* (lookupCached) is one the model gave to the same request in an attempt of
\* the job it is credited to, and that attempt had it recorded.
ReusedAnswersAreGenuine ==
    \A a \in Attempts : \A h \in run[a].hits :
        /\ h \in Entry /\ h.result \in Answers
        /\ LET b == h.result[1]
               t == h.result[2] IN
           /\ Key(t) = Key(h.task)
           /\ JobOf[b] = h.producer
           /\ Write(t, h.result) \in run[b].writes

Untouched == left["alters"] = Bounds["alters"]
NeverRestored == left["restores"] = Bounds["restores"]

\* The comment in lookupCached: a checkpoint sealed later than its producer
\* was loaded gives a miss, "never a false hit, and never a false corrupt".
\* While nobody changes what is stored, no stage stops with
\* result_cache_corrupt, whatever writes are lost or have an unknown outcome,
\* and whoever stores, seals, rotates, purges or restores in between.
NoFalseCorrupt ==
    Untouched => \A a \in Attempts : run[a].outcome # "corrupt"

\* The checkpoint is stored after the job's row lock is released (seal).  Until
\* retention deletes the job, the attempt's rows stay the ones it signs.  And a
\* stage is persisted as completed only after its record is sealed, so a
\* resumed job can attest every completed stage that names its attempt
\* (cacheRecordOf), as long as the key is the one it was signed with.
SealedRecordStands ==
    /\ Untouched =>
          \A a \in Attempts : checkpoint[a] # None /\ job[JobOf[a]] # "purged" =>
              checkpoint[a].manifest = ManifestOf(a)
    /\ Untouched /\ NeverRestored /\ trusted = 0 =>
          \A j \in Jobs : stage[j].completed /\ stage[j].attempt # None => CacheRecordOf(j)

\* Run status shows a record (cacheSummaries) only if it is what the engine
\* did in that attempt, even when rows, entries or checkpoints are changed.
ShownIsWhatHappened ==
    \A j \in Jobs : CacheSummary(j) # None => CacheSummary(j) = Expected(run[stage[j].attempt])

=============================================================================
