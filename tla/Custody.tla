------------------------------ MODULE Custody ------------------------------
(* Retention scans, backup runs and restores over the same stores, while    *)
(* the daemon writes to them.  A scan and a run exclude each other through  *)
(* the advisory lock; a restore runs with the daemon stopped.               *)
EXTENDS Retention, Backup

vars == <<storeVars, retentionVars, backupVars>>

Init == InitStores /\ InitRetention /\ InitBackup

Quiet == \A s \in Scanners : scan[s].pc = "idle"

Next ==
    \/ /\ Tick \/ LoseLock \/ (restore.pc = "idle" /\ Daemon)
       /\ UNCHANGED <<retentionVars, backupVars>>
    \/ restore.pc = "idle" /\ RetentionNext /\ UNCHANGED backupVars
    \/ RunNext /\ UNCHANGED <<objects, stream>> /\ UNCHANGED retentionVars
       /\ UNCHANGED <<now, rows, finished, created, discarded, outlived>>
    \/ (Damage \/ (Quiet /\ RestoreNext))
       /\ UNCHANGED retentionVars
       /\ UNCHANGED <<now, rows, finished, created, discarded, outlived>>

Spec == Init /\ [][Next]_vars

----------------------------------------------------------------------------
(* Properties.                                                              *)

\* What an item's archived document must hold of what a purge deleted.
Archivable(i, content) ==
    IF i \in Objects THEN content ELSE content \cap dbAggregateQueries[ClassOf(i)]

\* Archive before purge: whatever of a job or an object a scan has deleted is
\* in the archive as it was when it was deleted, the derived tables apart,
\* even though archiving and purging are separate transactions, either may
\* fail, and two scans may overlap once a lock session has dropped
\* (engine.go: a candidate whose archive fails is not purged).
PurgedIsArchived ==
    \A p \in purged :
        p[1] \notin Catalogs /\ p[2] # Absent => archive[p[1]] = Archivable(p[1], p[2])

\* A scan never purges what an unreleased hold covers, if the hold was in
\* place when the scan loaded the holds: a tenant's own or a global one,
\* whatever fields of its scope are left open (HoldChecker.Held,
\* pgHoldStore.Active).
HoldsAreHonoured ==
    [][\A s \in Scanners, h \in holds :
         LET c == scan[s].doc[1]
         IN  (scan[s].pc = "purge" /\ purged' # purged /\ scan'[s].pc # "purge"
              /\ h.name \in scan[s].placed)
             => \/ h.released
                \/ h.expires # Unset /\ h.expires <= scan[s].at
                \/ h.scope.tenant # Unset /\ h.scope.tenant # TenantOf[c.id]
                \/ h.scope.id # Unset /\ h.scope.id # c.id
                \/ h.scope.before # Unset /\ h.scope.before <= created[c.id]]_vars

\* A run that reports success has, for every object that was there when
\* Postgres was captured, an entry in its manifest: no purge took one away in
\* between, even if the run's own lock session dropped (Service.Run), unless
\* a scan went on after its session dropped.  Documents the gateway discarded
\* are referenced by no row.
ReportedRunCoversBase ==
    \A p \in Points : points[p].reported /\ ~outlived =>
        \A o \in bases[points[p].base] \ discarded :
            \E c \in Contents : <<o, c>> \in points[p].entries

\* A restore that ends without an error leaves exactly the objects and the
\* audit stream the manifest names, although a blob may be lost between the
\* verification and the write and an earlier restore may have stopped part
\* way (Service.Restore).
RestoredIsThePoint ==
    [][restore.pc = "objects" /\ restore'.pc = "done"
       => /\ {<<o, objects'[o]>> : o \in {x \in Objects : objects'[x] # Absent}}
               = points[restore.point].entries
          /\ stream' = points[restore.point].capture]_vars

=============================================================================
