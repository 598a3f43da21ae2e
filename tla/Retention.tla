----------------------------- MODULE Retention -----------------------------
(* The retention engine: legal holds, the collectors, and a scan that       *)
(* archives and then purges what has expired and is not held, one candidate *)
(* at a time.  A scan is started for one tenant by the AdminService, or for *)
(* every tenant in turn by `admin retention scan --all-tenants`.            *)
EXTENDS Stores

CONSTANTS Scanners,     \* the processes that run scans
          Policies,     \* the policies scans run with: a duration per class
          DefaultPolicy,\* the configured one
          Indefinite,   \* a class kept indefinitely, or without a duration
          Scopes,       \* the scopes of the holds that may be placed
          Unset         \* a wildcard field of a scope; a hold that never expires

ASSUME ScannersAssumption ==
    /\ Scanners \cap {"backup", Free} = {}
    /\ \A scope \in Scopes : scope.before \in Nat \cup {Unset}

VARIABLES holds,        \* retention_holds
          archive,      \* the archived document of each row or object
          scan,         \* the scan each process is running
          purged        \* what has been deleted: item and content

retentionVars == <<holds, archive, scan, purged>>

NoScan == [pc |-> "idle", tenant |-> Unset, dry |-> FALSE, at |-> 0, policy |-> DefaultPolicy,
           active |-> {}, placed |-> {}, queue |-> {}, doc |-> Absent, todo |-> {}]

InitRetention ==
    /\ holds = {}
    /\ archive = [i \in Items |-> Absent]
    /\ scan = [s \in Scanners |-> NoScan]
    /\ purged = {}

----------------------------------------------------------------------------
(* Holds.                                                                   *)

ActiveAt(h, t) == ~h.released /\ (h.expires = Unset \/ h.expires > t)

\* Every field that is set must match; job_id is compared with the candidate's
\* own ID, which is a job's ID only for job results.
Covers(h, c) ==
    /\ h.scope.before = Unset \/ c.created < h.scope.before
    /\ h.scope.tenant \in {Unset, c.tenant}
    /\ h.scope.id \in {Unset, c.id}

Held(active, c) == \E h \in active : Covers(h, c)

\* Row-level security: a tenant sees its own holds and the global ones.
VisibleIfOwn(h, t) == h.scope.tenant = t
Visible(h, t) == h.scope.tenant \in {Unset, t}

ActiveHolds(t, at) == {h \in holds : ActiveAt(h, at) /\ Visible(h, t)}

Create(h) == holds' = holds \cup {h}

\* The RPC forces the scope's tenant to the caller's; only the operator's own
\* SQL places a global hold.
CreateHold(scope, expires) ==
    /\ Spend("holds")
    /\ Create([name |-> Cardinality(holds), scope |-> scope,
               expires |-> expires, released |-> FALSE])
    /\ UNCHANGED <<archive, scan, purged>>

\* Every unreleased hold of the name is released; a released one stays as it is.
ReleaseNamed(name) ==
    holds' = {IF h.name = name THEN [h EXCEPT !.released = TRUE] ELSE h : h \in holds}

ReleaseHold(name) ==
    /\ \E h \in holds : h.name = name /\ ~h.released
    /\ ReleaseNamed(name)
    /\ UNCHANGED <<archive, scan, purged, left>>

----------------------------------------------------------------------------
(* The policy and the collectors.                                           *)

tierField(policy, class) == policy[class]

Expired(policy, class, at, t) ==
    LET d == tierField(policy, class) IN d # Indefinite /\ t - at > d

Candidate(i) == [id |-> i, class |-> ClassOf(i), tenant |-> TenantOf[i],
                 created |-> created[i]]

Due(i, t, policy, at) == TenantOf[i] = t /\ Expired(policy, ClassOf(i), created[i], at)

\* Completed jobs only.
CollectJobs(t, policy, at) ==
    {Candidate(j) : j \in {x \in finished : rows[x] # Absent /\ Due(x, t, policy, at)}}

\* Every catalog, whatever its state.
CollectCatalogs(t, policy, at) ==
    {Candidate(c) : c \in {x \in Catalogs : rows[x] # Absent /\ Due(x, t, policy, at)}}

classPrefix(class) == IF class = ClassAttestation THEN "attestation/" ELSE class

\* The objects under the prefix of the class.
CollectObjects(t, policy, at) ==
    {Candidate(o) : o \in {x \in Objects : /\ objects[x] # Absent
                                           /\ Prefix[x] = classPrefix(ClassAttestation)
                                           /\ Due(x, t, policy, at)}}

\* The collectors a tenant's engine is built with.
Collect(t, policy, at) ==
    CollectJobs(t, policy, at) \cup CollectCatalogs(t, policy, at)
        \cup CollectObjects(t, policy, at)

\* The engine works through jobs, then catalogs, then objects.
Rank(c) == CASE c.class = ClassJobResults  -> 1
             [] c.class = ClassCatalogs    -> 2
             [] c.class = ClassAttestation -> 3

Frontmost(queue) == {c \in queue : \A d \in queue : Rank(c) <= Rank(d)}

----------------------------------------------------------------------------
(* A scan.                                                                  *)

Faulty(s, next) ==
    /\ Spend("scanFaults")
    /\ scan' = [scan EXCEPT ![s] = next]

\* A scan begins with the lock, unless it only reports.  With the lock held
\* by another process it returns at once.
StartTenant(s, t, dry, policy, rest) ==
    IF dry \/ lock = Free
    THEN /\ IF dry THEN lock' = lock ELSE TryAcquire(s)
         /\ scan' = [scan EXCEPT ![s] = [NoScan EXCEPT !.pc = "holds", !.tenant = t,
                                            !.dry = dry, !.at = now, !.policy = policy,
                                            !.todo = rest]]
    ELSE /\ scan' = [scan EXCEPT ![s] = [NoScan EXCEPT !.pc = "next_tenant",
                                            !.dry = dry, !.todo = rest]]
         /\ UNCHANGED lock

\* One tenant, with the configured policy ...
ScanRetention(s, t, dry) ==
    /\ scan[s].pc = "idle" /\ Spend("scans")
    /\ StartTenant(s, t, dry, DefaultPolicy, {})
    /\ UNCHANGED <<holds, archive, purged>>

\* ... with the caller's policy, for this scan only ...
ApplyRetentionPolicy(s, t, dry) ==
    /\ scan[s].pc = "idle" /\ Spend("scans")
    /\ \E policy \in Policies : StartTenant(s, t, dry, policy, {})
    /\ UNCHANGED <<holds, archive, purged>>

\* ... or as a report.
GetRetentionStats(s, t) == ScanRetention(s, t, TRUE)

\* admin retention scan --all-tenants: every tenant, one after the other.
RunRetentionScan(s, dry) ==
    /\ scan[s].pc = "idle" /\ Spend("scans")
    /\ scan' = [scan EXCEPT ![s] = [NoScan EXCEPT !.pc = "next_tenant", !.todo = Tenants,
                                                 !.dry = dry]]
    /\ UNCHANGED <<lock, holds, archive, purged>>

\* runForTenants: a tenant that fails does not stop the others.
NextTenant(s) ==
    /\ scan[s].pc = "next_tenant"
    /\ IF scan[s].todo = {}
       THEN scan' = [scan EXCEPT ![s] = NoScan] /\ UNCHANGED lock
       ELSE \E t \in scan[s].todo :
                StartTenant(s, t, scan[s].dry, DefaultPolicy, scan[s].todo \ {t})
    /\ UNCHANGED <<holds, archive, purged, left>>

\* The scan of one tenant ends, and gives the lock back.
Ended(s) == [NoScan EXCEPT !.pc = "next_tenant", !.todo = scan[s].todo,
                           !.dry = scan[s].dry]

LoadHolds(s) ==
    /\ scan[s].pc = "holds"
    /\ \/ /\ scan' = [scan EXCEPT ![s].active = ActiveHolds(scan[s].tenant, scan[s].at),
                                  ![s].placed = {h.name : h \in holds},
                                  ![s].pc = "collect"]
          /\ UNCHANGED <<lock, left>>
       \/ Faulty(s, Ended(s)) /\ Release(s)
    /\ UNCHANGED <<holds, archive, purged>>

CollectAll(s) ==
    /\ scan[s].pc = "collect"
    /\ \/ /\ scan' = [scan EXCEPT ![s].queue =
                                      Collect(scan[s].tenant, scan[s].policy, scan[s].at),
                                  ![s].pc = "candidate"]
          /\ UNCHANGED <<lock, left>>
       \/ Faulty(s, Ended(s)) /\ Release(s)
    /\ UNCHANGED <<holds, archive, purged>>

\* What the archiver reads of a candidate: the object's content, or the
\* document of a row, without the derived tables.
archiveObject(i) == objects[i]
archiveDB(i) == IF rows[i] = Absent THEN Absent
                ELSE rows[i] \cap dbAggregateQueries[ClassOf(i)]
Document(i) == IF i \in Objects THEN archiveObject(i) ELSE archiveDB(i)

\* The engine takes the next candidate: a held one is passed over, a dry run
\* changes nothing, and otherwise the archiver reads the candidate.  A missing
\* parent row or object is an error, and the candidate is skipped.
TakeCandidate(s) ==
    /\ scan[s].pc = "candidate"
    /\ \E c \in Frontmost(scan[s].queue) :
         IF Held(scan[s].active, c) \/ scan[s].dry \/ Document(c.id) = Absent
         THEN /\ scan' = [scan EXCEPT ![s].queue = @ \ {c}]
              /\ UNCHANGED left
         ELSE \/ /\ scan' = [scan EXCEPT ![s].doc = <<c, Document(c.id)>>,
                                         ![s].pc = "put"]
                 /\ UNCHANGED left
              \/ Faulty(s, [scan[s] EXCEPT !.queue = @ \ {c}])
    /\ UNCHANGED <<lock, holds, archive, purged>>

Skip(s) == [scan[s] EXCEPT !.queue = @ \ {scan[s].doc[1]}, !.doc = Absent,
                           !.pc = "candidate"]

\* publishAudit: a record that cannot be published is only reported.
Publish(action, i) ==
    \/ stream # Absent /\ stream' = stream \cup {<<action, i>>} /\ UNCHANGED left
    \/ IF stream = Absent THEN UNCHANGED <<stream, left>>
                          ELSE Spend("scanFaults") /\ UNCHANGED stream

\* The copy is put, read back and compared; when that fails, whatever was
\* written stays and the candidate is skipped.
PutArchiveAnyway(s) ==
    /\ scan[s].pc = "put"
    /\ LET i == scan[s].doc[1].id
           copied == [archive EXCEPT ![i] = scan[s].doc[2]]
       IN  \/ /\ archive' = copied
              /\ scan' = [scan EXCEPT ![s].pc = "purge"]
              /\ Publish("archive", i)
           \/ /\ Faulty(s, [scan[s] EXCEPT !.pc = "purge"])
              /\ archive' \in {archive, copied}
              /\ UNCHANGED stream
    /\ UNCHANGED <<lock, holds, purged, rows, objects>>
PutArchive(s) ==
    /\ scan[s].pc = "put"
    /\ LET i == scan[s].doc[1].id
           copied == [archive EXCEPT ![i] = scan[s].doc[2]]
       IN  \/ /\ archive' = copied
              /\ scan' = [scan EXCEPT ![s].pc = "purge"]
              /\ Publish("archive", i)
           \/ /\ Faulty(s, Skip(s))
              /\ archive' \in {archive, copied}
              /\ UNCHANGED stream
    /\ UNCHANGED <<lock, holds, purged, rows, objects>>

\* An object is deleted; deleting a missing one succeeds.
PurgeObject(i) ==
    /\ purged' = purged \cup {<<i, objects[i]>>}
    /\ objects' = [objects EXCEPT ![i] = Absent]
    /\ UNCHANGED rows

\* One transaction deletes the child rows and then the parent.
purgeDB(i) ==
    /\ purged' = purged \cup {<<i, rows[i]>>}
    /\ rows' = [rows EXCEPT ![i] = Absent]
    /\ UNCHANGED objects

Purge(s) ==
    /\ scan[s].pc = "purge"
    /\ LET i == scan[s].doc[1].id
       IN  \/ /\ IF i \in Objects THEN PurgeObject(i) ELSE purgeDB(i)
              /\ Publish("purge", i)
              /\ scan' = [scan EXCEPT ![s] = Skip(s)]
           \/ Faulty(s, Skip(s)) /\ UNCHANGED <<rows, objects, purged, stream>>
    /\ UNCHANGED <<lock, holds, archive>>

EndScan(s) ==
    /\ scan[s].pc = "candidate" /\ scan[s].queue = {}
    /\ scan' = [scan EXCEPT ![s] = Ended(s)]
    /\ IF scan[s].dry THEN UNCHANGED lock ELSE Release(s)
    /\ UNCHANGED <<holds, archive, purged, left>>

\* The process dies: its lock session ends with it.
CrashScan(s) ==
    /\ scan[s].pc # "idle"
    /\ Faulty(s, NoScan)
    /\ Release(s)
    /\ UNCHANGED <<holds, archive, purged>>

\* A scan that holds no row or object in its hands changes neither.
Bookkeeping(s) ==
    /\ \/ NextTenant(s) \/ LoadHolds(s) \/ CollectAll(s) \/ TakeCandidate(s)
       \/ EndScan(s)
    /\ UNCHANGED <<rows, objects, stream>>

ScanStep(s) == Bookkeeping(s) \/ PutArchive(s) \/ Purge(s)

RetentionNext ==
    /\ \/ \E s \in Scanners : ScanStep(s)
       \/ /\ \/ \E s \in Scanners, t \in Tenants, dry \in BOOLEAN : ScanRetention(s, t, dry)
             \/ \E s \in Scanners, t \in Tenants : GetRetentionStats(s, t)
             \/ \E s \in Scanners, t \in Tenants, dry \in BOOLEAN :
                    ApplyRetentionPolicy(s, t, dry)
             \/ \E s \in Scanners, dry \in BOOLEAN : RunRetentionScan(s, dry)
             \/ \E s \in Scanners : CrashScan(s)
             \/ /\ \/ \E scope \in Scopes, e \in {Unset, MaxNow} : CreateHold(scope, e)
                   \/ \E h \in holds : ReleaseHold(h.name)
                /\ UNCHANGED lock
          /\ UNCHANGED <<rows, objects, stream>>
    /\ UNCHANGED <<now, finished, created, discarded, outlived>>

=============================================================================
