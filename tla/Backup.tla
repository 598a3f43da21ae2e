------------------------------- MODULE Backup -------------------------------
(* `admin backup run`, `verify` and `restore`.  A run captures Postgres with *)
(* WAL-G, then every tenant's objects into content-addressed blobs, then the *)
(* audit stream, and commits the point by writing its manifest last.  A      *)
(* restore verifies the point, checks that every target is empty, and writes *)
(* objects and stream back one at a time.                                    *)
EXTENDS Stores, Sequences

CONSTANTS Points        \* point IDs, ascending

VARIABLES points,       \* the repository's points
          blobs,        \* the contents stored as blobs
          bases,        \* the WAL-G base backups: objects present when pushed
          run,          \* the backup run in progress
          restore       \* the restore in progress

backupVars == <<points, blobs, bases, run, restore>>

Backup == "backup"      \* the run's lock session

NoPoint == [manifest |-> FALSE, marker |-> FALSE, base |-> 0, entries |-> {},
            capture |-> Absent, file |-> Absent, reported |-> FALSE]
NoRun == [pc |-> "idle", point |-> 0, before |-> 0, base |-> 0, todo |-> {},
          tenant |-> Absent, listed |-> {}, entries |-> {}, capture |-> Absent]
NoRestore == [pc |-> "idle", point |-> 0, todo |-> {}]

InitBackup ==
    /\ points = [p \in Points |-> NoPoint]
    /\ blobs = {}
    /\ bases = <<>>
    /\ run = NoRun
    /\ restore = NoRestore

----------------------------------------------------------------------------
(* The repository.                                                          *)

\* A point with a manifest is complete, whatever its marker says.
Complete   == {p \in Points : points[p].manifest}
Incomplete == {p \in Points : points[p].marker /\ ~points[p].manifest}

requireComplete(p) == p \in Complete

\* Every blob is there with the content its name is the digest of, the stream's
\* snapshot file has its recorded digest, and the base backup is listed.
verifyObjects(p) == {e \in points[p].entries : e[2] \notin blobs}
verifyStreams(p) == points[p].file = points[p].capture
verifyPoint(p) ==
    points[p].base \in 1 .. Len(bases) /\ verifyObjects(p) = {} /\ verifyStreams(p)

----------------------------------------------------------------------------
(* A backup run.                                                            *)

\* The marker of a point in progress.
Begin(p) == points' = [points EXCEPT ![p].marker = TRUE]

\* A run takes the lock and marks a new point in progress.
StartRun(p) ==
    /\ run.pc = "idle" /\ restore.pc = "idle"
    /\ points[p] = NoPoint /\ \A q \in Points : q < p => points[q] # NoPoint
    /\ TryAcquire(Backup) /\ Spend("runs")
    /\ Begin(p)
    /\ run' = [NoRun EXCEPT !.pc = "list_bases", !.point = p]
    /\ UNCHANGED <<blobs, bases, restore>>

\* Any step may fail, and the process may die: the point keeps its marker and
\* gets no manifest, and the lock is given back.
FailRun ==
    /\ run.pc \notin {"idle", "clear"} /\ Spend("faults")
    /\ run' = NoRun
    /\ Release(Backup)
    /\ UNCHANGED <<points, blobs, bases, restore>>

\* capturePostgres lists the base backups before and after the push.
ListBases ==
    /\ run.pc = "list_bases"
    /\ run' = [run EXCEPT !.before = Len(bases), !.pc = "push"]
    /\ UNCHANGED <<left, lock, points, blobs, bases, restore>>

Present == {o \in Objects : objects[o] # Absent}

BackupPush ==
    /\ run.pc = "push"
    /\ bases' = Append(bases, Present)
    /\ run' = [run EXCEPT !.pc = "find_new"]
    /\ UNCHANGED <<left, lock, points, blobs, restore>>

\* Somebody else pushes a base backup to the same destination.
PushElsewhere ==
    /\ run.pc # "idle" /\ Spend("faults")
    /\ bases' = Append(bases, Present)
    /\ UNCHANGED <<lock, points, blobs, run, restore>>

\* findNewBackup: exactly one listed backup must be new.
FindNewBackup ==
    /\ run.pc = "find_new"
    /\ IF Len(bases) = run.before + 1
       THEN /\ run' = [run EXCEPT !.base = Len(bases), !.pc = "tenants", !.todo = Tenants]
            /\ UNCHANGED lock
       ELSE run' = NoRun /\ Release(Backup)
    /\ UNCHANGED <<left, points, blobs, bases, restore>>

\* snapshotTenantObjects lists one tenant's store ...
ListObjects ==
    /\ run.pc = "tenants"
    /\ IF run.todo = {}
       THEN run' = [run EXCEPT !.pc = "stream"]
       ELSE \E t \in run.todo :
                run' = [run EXCEPT !.todo = @ \ {t}, !.tenant = t, !.pc = "copy",
                                   !.listed = {o \in Present : TenantOf[o] = t}]
    /\ UNCHANGED <<left, lock, points, blobs, bases, restore>>

\* ... and copies the listed objects.  One that is gone by now is left out; a
\* content that is already stored is not uploaded again.
SnapshotObject ==
    /\ run.pc = "copy" /\ run.listed # {}
    /\ \E o \in run.listed :
         IF objects[o] = Absent
         THEN run' = [run EXCEPT !.listed = @ \ {o}] /\ UNCHANGED blobs
         ELSE /\ run' = [run EXCEPT !.listed = @ \ {o},
                                    !.entries = @ \cup {<<o, objects[o]>>}]
              /\ blobs' = blobs \cup {objects[o]}
    /\ UNCHANGED <<left, lock, points, bases, restore>>

EndTenant ==
    /\ run.pc = "copy" /\ run.listed = {}
    /\ run' = [run EXCEPT !.pc = "tenants", !.tenant = Absent]
    /\ UNCHANGED <<left, lock, points, blobs, bases, restore>>

\* snapshotStream: the stream must exist; its snapshot file is uploaded.
SnapshotStream ==
    /\ run.pc = "stream"
    /\ IF stream = Absent
       THEN run' = NoRun /\ Release(Backup) /\ UNCHANGED points
       ELSE /\ run' = [run EXCEPT !.capture = stream, !.pc = "manifest"]
            /\ points' = [points EXCEPT ![run.point].file = stream]
            /\ UNCHANGED lock
    /\ UNCHANGED <<left, blobs, bases, restore>>

WriteManifest ==
    /\ run.pc = "manifest"
    /\ points' = [points EXCEPT ![run.point] =
                     [@ EXCEPT !.manifest = TRUE, !.base = run.base,
                               !.entries = run.entries, !.capture = run.capture]]
    /\ run' = [run EXCEPT !.pc = "clear"]
    /\ UNCHANGED <<left, lock, blobs, bases, restore>>

\* The marker is removed and the lock given back.  The run reports success
\* only if both succeed: a lock that was lost cannot be given back.
ClearInProgress ==
    /\ run.pc = "clear"
    /\ \E cleared \in BOOLEAN :
         /\ IF cleared THEN UNCHANGED left ELSE Spend("faults")
         /\ points' = [points EXCEPT ![run.point] =
                          [@ EXCEPT !.marker = ~cleared,
                                    !.reported = cleared /\ Unlocked(Backup)]]
    /\ run' = NoRun
    /\ Release(Backup)
    /\ UNCHANGED <<blobs, bases, restore>>

----------------------------------------------------------------------------
(* Restore, with the daemon stopped.                                        *)

\* Part of the repository is lost: a blob or a snapshot file.
Damage ==
    /\ Spend("damage")
    /\ \/ (\E c \in blobs : blobs' = blobs \ {c}) /\ UNCHANGED points
       \/ \E p \in Points : /\ points[p].file # Absent
                            /\ points' = [points EXCEPT ![p].file = Absent]
                            /\ UNCHANGED blobs
    /\ UNCHANGED <<lock, objects, stream, bases, run, restore>>

\* The primary stores are lost or emptied by the operator; nothing runs.
Disaster ==
    /\ Spend("disasters") /\ lock = Free /\ run.pc = "idle" /\ restore.pc = "idle"
    /\ objects' = [o \in Objects |-> Absent]
    /\ stream' \in {Absent, stream}
    /\ UNCHANGED <<lock, points, blobs, bases, run, restore>>

\* No tenant of the point has an object, and the stream does not exist.
preflightObjectsOff == TRUE
preflightObjects == Present = {}
preflightStreams == stream = Absent

\* Restore refuses a point that is incomplete or damaged, and any target that
\* is not empty, before it writes anything.
StartRestore(p) ==
    /\ restore.pc = "idle" /\ run.pc = "idle" /\ Spend("restores")
    /\ restore' = IF requireComplete(p) /\ verifyPoint(p) /\ preflightObjects /\ preflightStreams
                  THEN [pc |-> "objects", point |-> p, todo |-> points[p].entries]
                  ELSE NoRestore
    /\ UNCHANGED <<lock, objects, stream, points, blobs, bases, run>>

\* restoreObject checks the blob again before it writes the object; a missing
\* or altered blob, or a failed write, ends the restore part way.
RestoreObject ==
    /\ restore.pc = "objects" /\ restore.todo # {}
    /\ \E e \in restore.todo :
         \/ /\ e[2] \in blobs
            /\ objects' = [objects EXCEPT ![e[1]] = e[2]]
            /\ restore' = [restore EXCEPT !.todo = @ \ {e}]
            /\ UNCHANGED left
         \/ /\ IF e[2] \in blobs THEN Spend("faults") ELSE UNCHANGED left
            /\ restore' = NoRestore
            /\ UNCHANGED objects
    /\ UNCHANGED <<lock, stream, points, blobs, bases, run>>

\* restoreStream checks the snapshot file, recreates the stream and compares
\* its state with the captured one.
RestoreStream ==
    /\ restore.pc = "objects" /\ restore.todo = {}
    /\ \/ /\ verifyStreams(restore.point)
          /\ stream' = points[restore.point].file
          /\ restore' = [restore EXCEPT !.pc = "done"]
          /\ UNCHANGED left
       \/ /\ IF verifyStreams(restore.point) THEN Spend("faults") ELSE UNCHANGED left
          /\ restore' = NoRestore
          /\ UNCHANGED stream
    /\ UNCHANGED <<lock, objects, points, blobs, bases, run>>

\* The command returns and the daemon is started again.
EndRestore ==
    /\ restore.pc = "done"
    /\ restore' = NoRestore
    /\ UNCHANGED <<left, lock, objects, stream, points, blobs, bases, run>>

RunNext ==
    \/ \E p \in Points : StartRun(p)
    \/ FailRun \/ ListBases \/ BackupPush \/ PushElsewhere \/ FindNewBackup
    \/ ListObjects \/ SnapshotObject \/ EndTenant \/ SnapshotStream
    \/ WriteManifest \/ ClearInProgress

RestoreNext ==
    \/ Disaster
    \/ \E p \in Points : StartRestore(p)
    \/ RestoreObject \/ RestoreStream \/ EndRestore

=============================================================================
