------------------------------ MODULE Stores ------------------------------
(* The stores that retention and backup share: the Postgres rows of jobs    *)
(* and catalogs, the tenants' object stores, the JetStream audit stream and *)
(* the session advisory lock crosscodex:backup-retention.                   *)
(*                                                                          *)
(* A row is a job or a catalog with the set of child tables that hold rows  *)
(* of it.  An object is a key of one tenant's store with its content.  The  *)
(* daemon writes both while scans and backups run.                          *)
EXTENDS Integers, FiniteSets

CONSTANTS Tenants,      \* tenant IDs
          Jobs,         \* job IDs
          Catalogs,     \* catalog IDs
          Objects,      \* object keys
          TenantOf,     \* the tenant of each job, catalog and object
          Prefix,       \* the first path element of each object key
          Contents,     \* the contents an object may have
          Absent,       \* no such row, object or stream
          Free,         \* nobody holds the advisory lock
          MaxNow,       \* bound on the clock
          Budgets       \* bounds on how often each kind of event happens

ASSUME StoresAssumption ==
    /\ TenantOf \in [Jobs \cup Catalogs \cup Objects -> Tenants]
    /\ (Jobs \cup Catalogs) \cap Objects = {} /\ Jobs \cap Catalogs = {}
    /\ Absent \notin Contents
    /\ \A tables \in SUBSET {"job_stages", "llm_result_cache", "classifications",
                             "embeddings"} : tables # Absent
    /\ Free # "backup" /\ MaxNow \in Nat

VARIABLES now,          \* the clock
          rows,         \* the child tables holding rows of a job or catalog
          finished,     \* the jobs whose status is 'completed'
          objects,      \* the content of each object
          created,      \* created_at or LastModified of a row or object
          stream,       \* the records of the audit stream
          lock,         \* the session holding the advisory lock
          discarded,    \* the documents the gateway has discarded
          outlived,     \* history: a scan's lock session has dropped
          left          \* how many events of each kind may still happen

storeVars == <<now, rows, finished, objects, created, stream, lock,
               discarded, outlived, left>>

\* One of the bounded events happens.
Spend(kind) == left[kind] > 0 /\ left' = [left EXCEPT ![kind] = @ - 1]

DBRows == Jobs \cup Catalogs
Items  == DBRows \cup Objects

ClassJobResults  == "job-results"
ClassCatalogs    == "catalogs"
ClassAttestation == "attestation"

ClassOf(i) == CASE i \in Jobs     -> ClassJobResults
                [] i \in Catalogs -> ClassCatalogs
                [] i \in Objects  -> ClassAttestation

\* The child tables the purge of a class empties, before the parent row.
dbAggregates ==
    [c \in {ClassJobResults, ClassCatalogs} |->
        IF c = ClassJobResults THEN {"job_stages", "llm_result_cache"}
                               ELSE {"classifications", "embeddings"}]

\* The child tables the archive document of a class holds: not the derived
\* ones, which are regenerable and purge-only.
dbAggregateQueries ==
    [c \in {ClassJobResults, ClassCatalogs} |->
        dbAggregates[c] \ {"embeddings", "llm_result_cache"}]

InitStores ==
    /\ now = 0
    /\ rows = [r \in DBRows |-> IF r \in Jobs THEN {"job_stages"} ELSE {}]
    /\ finished \in SUBSET Jobs
    /\ objects \in [Objects -> Contents \cup {Absent}]
    /\ created = [i \in Items |-> 0]
    /\ stream = {}
    /\ lock = Free
    /\ discarded = {}
    /\ outlived = FALSE
    /\ left \in Budgets

Tick ==
    /\ now < MaxNow
    /\ now' = now + 1
    /\ UNCHANGED <<rows, finished, objects, created, stream, lock, discarded,
                   outlived, left>>

\* A running job writes its stages and results; any job may add derived or
\* classification rows to a catalog it reads, whatever the catalog's age.
WriteChild(r, part) ==
    /\ Spend("writes")
    /\ rows[r] # Absent /\ r \notin finished
    /\ part \in dbAggregates[ClassOf(r)] \ rows[r]
    /\ rows' = [rows EXCEPT ![r] = @ \cup {part}]
    /\ UNCHANGED <<now, finished, objects, created, stream, lock, discarded,
                   outlived>>

\* The pipeline completes a job, which is final.
CompleteJob(j) ==
    /\ j \notin finished /\ rows[j] # Absent
    /\ finished' = finished \cup {j}
    /\ UNCHANGED <<now, rows, objects, created, stream, lock, discarded,
                   outlived, left>>

\* The gateway stores an upload under documents/, the pipeline a link under
\* attestations/.
PutObject(o, c) ==
    /\ Spend("writes")
    /\ objects[o] = Absent /\ Prefix[o] \in {"documents/", "attestations/"}
    /\ objects' = [objects EXCEPT ![o] = c]
    /\ created' = [created EXCEPT ![o] = now]
    /\ UNCHANGED <<now, rows, finished, stream, lock, discarded, outlived>>

\* The gateway deletes a document whose catalog was rejected: no row names it.
DiscardDocument(o) ==
    /\ Spend("writes")
    /\ objects[o] # Absent /\ Prefix[o] = "documents/"
    /\ objects' = [objects EXCEPT ![o] = Absent]
    /\ discarded' = discarded \cup {o}
    /\ UNCHANGED <<now, rows, finished, created, stream, lock, outlived>>

\* The daemon's writes.
Daemon ==
    \/ \E r \in DBRows, part \in {"job_stages", "llm_result_cache",
                                   "classifications", "embeddings"} : WriteChild(r, part)
    \/ \E j \in Jobs : CompleteJob(j)
    \/ \E o \in Objects, c \in Contents : PutObject(o, c)
    \/ \E o \in Objects : DiscardDocument(o)

----------------------------------------------------------------------------
(* The advisory lock.                                                       *)

\* pg_try_advisory_lock on a connection of its own.
TryAcquire(p) == lock = Free /\ lock' = p

\* release: unlocking fails when the session no longer holds the lock, and
\* closing the connection frees it in any case.
Release(p) == lock' = IF lock = p THEN Free ELSE lock
UnlockedOrLost(p) == TRUE
Unlocked(p) == lock = p

\* The holder's connection drops: the server frees the lock and the holder
\* finds out only when it releases.
LoseLock ==
    /\ lock # Free
    /\ Spend(IF lock = "backup" THEN "runLosses" ELSE "scanLosses")
    /\ lock' = Free
    /\ outlived' = (outlived \/ lock # "backup")
    /\ UNCHANGED <<now, rows, finished, objects, created, stream, discarded>>

=============================================================================
