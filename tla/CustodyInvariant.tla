-------------------------- MODULE CustodyInvariant --------------------------
(***************************************************************************)
(* The inductive invariant of Custody, the kinds of steps a scan takes,    *)
(* and that every step keeps the variables' types.                         *)
(***************************************************************************)
EXTENDS Custody, FiniteSetTheorems, TLAPS

Tables  == {"job_stages", "llm_result_cache", "classifications", "embeddings"}
Docs    == Contents \cup SUBSET Tables
Streams == {Absent} \cup SUBSET ({"archive", "purge"} \X Items)
Entry   == Objects \X Contents

Hold == [name : Nat, scope : Scopes, expires : {Unset, MaxNow}, released : BOOLEAN]

Cand == [id : Items, class : {ClassJobResults, ClassCatalogs, ClassAttestation},
         tenant : Tenants, created : Nat]

\* A scan between its start and its end holds the lock, unless it is dry or
\* its session dropped.
ScanPCs == {"holds", "collect", "candidate", "put", "purge"}

ScanState ==
    [pc : {"idle", "next_tenant"} \cup ScanPCs, tenant : Tenants \cup {Unset},
     dry : BOOLEAN, at : Nat, policy : Policies \cup {DefaultPolicy},
     active : SUBSET Hold, placed : SUBSET Nat, queue : SUBSET Cand,
     doc : {Absent} \cup (Cand \X Docs), todo : SUBSET Tenants]

Point ==
    [manifest : BOOLEAN, marker : BOOLEAN, base : Nat, entries : SUBSET Entry,
     capture : Streams, file : Streams, reported : BOOLEAN]

RunState ==
    [pc : {"idle", "list_bases", "push", "find_new", "tenants", "copy", "stream",
           "manifest", "clear"},
     point : Points \cup {0}, before : Nat, base : Nat, todo : SUBSET Tenants,
     tenant : Tenants \cup {Absent}, listed : SUBSET Objects,
     entries : SUBSET Entry, capture : Streams]

RestoreState == [pc : {"idle", "objects", "done"}, point : Points \cup {0},
                 todo : SUBSET Entry]

-----------------------------------------------------------------------------
(* The inductive invariant                                                 *)

StoresType ==
    /\ now \in Nat /\ created \in [Items -> Nat]
    /\ rows \in [DBRows -> {Absent} \cup SUBSET Tables] /\ finished \subseteq Jobs
    /\ objects \in [Objects -> Contents \cup {Absent}]
    /\ stream \in Streams
    /\ lock \in Scanners \cup {Free, "backup"}
    /\ discarded \subseteq Objects /\ outlived \in BOOLEAN

RetentionType ==
    /\ holds \subseteq Hold
    /\ archive \in [Items -> Docs \cup {Absent}]
    /\ scan \in [Scanners -> ScanState]
    /\ purged \subseteq Items \X (Docs \cup {Absent})

BackupType ==
    /\ points \in [Points -> Point]
    /\ blobs \subseteq Contents
    /\ bases \in Seq(SUBSET Objects)
    /\ run \in RunState
    /\ restore \in RestoreState

CustodyTypeOK == StoresType /\ RetentionType /\ BackupType

\* What a scan may have in its queue: its tenant's, created when it says, and
\* of a kind the daemon no longer writes, a catalog apart.
AttestationObjects == {o \in Objects : Prefix[o] = "attestation/"}

Settled(c) ==
    /\ c.tenant = TenantOf[c.id] /\ c.created = created[c.id]
    /\ c.id \in finished \cup Catalogs \cup AttestationObjects

ScanInv ==
    \A s \in Scanners :
        /\ \A c \in scan[s].queue : Settled(c) /\ c.tenant = scan[s].tenant
        /\ scan[s].pc \in {"put", "purge"} =>
              /\ ~scan[s].dry
              /\ scan[s].doc \in Cand \X Docs
              /\ scan[s].doc[1] \in scan[s].queue
              /\ ~Held(scan[s].active, scan[s].doc[1])

\* Names are never reused, and a scan knows every hold that was active when
\* it loaded them.
HoldsInv ==
    /\ IsFiniteSet(holds)
    /\ \A h \in holds : h.name < Cardinality(holds)
    /\ \A g, h \in holds : g.name = h.name => g = h
    /\ \A s \in Scanners :
         /\ \A n \in scan[s].placed : n < Cardinality(holds)
         /\ scan[s].pc \in {"collect", "candidate", "put", "purge"} =>
              \A h \in holds :
                  h.name \in scan[s].placed /\ ActiveAt(h, scan[s].at)
                      /\ Visible(h, scan[s].tenant) => h \in scan[s].active

\* Every copy of a row or object: in a scan's hands, archived, purged, in a
\* manifest or still to be restored.
InHand(s, i)   == scan[s].pc \in {"put", "purge"} /\ scan[s].doc[1].id = i
Archived(i)    == {archive[i]} \ {Absent}
Handled(i)     == {scan[s].doc[2] : s \in {x \in Scanners : InHand(x, i)}}
Deleted(i)     == {Archivable(i, p[2]) : p \in {x \in purged : x[1] = i /\ x[2] # Absent}}
AllEntries     == run.entries \cup restore.todo \cup UNION {points[p].entries : p \in Points}
BackedUp(i)    == {e[2] : e \in {x \in AllEntries : x[1] = i}}
Copies(i) == Archived(i) \cup Handled(i) \cup Deleted(i) \cup BackedUp(i)

\* A completed job and an attestation object have one content only, in the
\* store and in every copy; an unfinished job has no copy.
CopiesInv ==
    /\ \A i \in Jobs \cup AttestationObjects :
         \A x, y \in Copies(i) \cup ({Document(i)} \ {Absent}) : x = y
    /\ \A j \in Jobs \ finished : Copies(j) = {}
    /\ \A o \in Objects \ AttestationObjects : Deleted(o) = {}

\* What is about to be purged, and what was, is in the archive.
ArchiveInv ==
    /\ \A s \in Scanners : scan[s].pc = "purge" => archive[scan[s].doc[1].id] # Absent
    /\ \A p \in purged : p[2] # Absent => archive[p[1]] # Absent

\* The lock excludes scans and runs until a scan's session drops.
LockInv ==
    /\ ~outlived => \A s \in Scanners :
                       scan[s].pc \in ScanPCs /\ ~scan[s].dry => lock = s
    /\ lock = "backup" => run.pc # "idle"

\* A run and a restore exclude each other, and a run works on a point that
\* nobody was told of.
RunInv ==
    /\ run.pc # "idle" => /\ restore.pc = "idle" /\ run.point \in Points
                          /\ ~points[run.point].reported
    /\ run.pc \in {"push", "find_new"} => run.before <= Len(bases)
    /\ run.pc \in {"tenants", "copy", "stream", "manifest", "clear"} =>
          run.base \in 1 .. Len(bases)
    /\ run.pc \in {"stream", "manifest", "clear"} => run.todo = {}
    /\ run.pc # "copy" => run.listed = {}
    /\ run.pc = "clear" => /\ points[run.point].entries = run.entries
                           /\ points[run.point].base = run.base

\* No object of the run's base backup is lost to it, while it has the lock.
HasEntry(o, entries) == \E c \in Contents : <<o, c>> \in entries

CoverInv ==
    /\ lock = "backup" /\ ~outlived =>
         /\ run.pc \in {"push", "find_new"} =>
               \A i \in run.before + 1 .. Len(bases) : bases[i] \ discarded \subseteq Present
         /\ run.pc \in {"tenants", "copy", "stream", "manifest", "clear"} =>
               \A o \in bases[run.base] \ discarded :
                   \/ o \in Present /\ (TenantOf[o] \in run.todo \/ o \in run.listed)
                   \/ HasEntry(o, run.entries)
    /\ ~outlived => \A p \in Points : points[p].reported =>
         /\ points[p].base \in 1 .. Len(bases)
         /\ \A o \in bases[points[p].base] \ discarded : HasEntry(o, points[p].entries)

\* A manifest has one entry per object.
Functional(entries) == \A e, f \in entries : e[1] = f[1] => e = f

EntriesInv ==
    /\ Functional(run.entries)
    /\ \A e \in run.entries :
         TenantOf[e[1]] \notin run.todo /\ e[1] \notin run.listed
    /\ run.pc \in {"list_bases", "push", "find_new"} => run.entries = {}
    /\ \A o \in run.listed : TenantOf[o] \notin run.todo
    /\ \A p \in Points : Functional(points[p].entries)

\* A restore has written what it no longer has to write, and nothing else.
Stored == {<<o, objects[o]>> : o \in Present}

RestoreInv ==
    restore.pc = "objects" =>
        /\ restore.point \in Points
        /\ restore.todo \subseteq points[restore.point].entries
        /\ Stored = points[restore.point].entries \ restore.todo

CustodyInv ==
    /\ CustodyTypeOK /\ ScanInv /\ HoldsInv /\ CopiesInv /\ ArchiveInv
    /\ LockInv /\ RunInv /\ CoverInv /\ EntriesInv /\ RestoreInv

-----------------------------------------------------------------------------
(* What a step of retention does to a scan                                 *)

\* The scan starts, or ends for one tenant or altogether.
Resets(s) ==
    \E v \in ScanState :
        /\ v.pc \in {"idle", "next_tenant", "holds"} /\ v.queue = {} /\ v.placed = {}
        /\ scan' = [scan EXCEPT ![s] = v]
        /\ IF v.pc = "holds" /\ ~v.dry
           THEN lock = Free /\ lock' = s
           ELSE lock' \in {lock, IF lock = s THEN Free ELSE lock}
        /\ UNCHANGED <<holds, archive, purged, rows, objects, stream>>

\* It loads the holds.
Loads(s) ==
    /\ scan[s].pc = "holds"
    /\ scan' = [scan EXCEPT ![s] =
                   [scan[s] EXCEPT !.active = ActiveHolds(scan[s].tenant, scan[s].at),
                                   !.placed = {h.name : h \in holds}, !.pc = "collect"]]
    /\ UNCHANGED <<lock, holds, archive, purged, rows, objects, stream>>

\* It collects its candidates.
Collects(s) ==
    /\ scan[s].pc = "collect"
    /\ scan' = [scan EXCEPT ![s] =
                   [scan[s] EXCEPT !.queue = Collect(scan[s].tenant, scan[s].policy, scan[s].at),
                                   !.pc = "candidate"]]
    /\ UNCHANGED <<lock, holds, archive, purged, rows, objects, stream>>

\* It passes a candidate over.
Passes(s) ==
    /\ scan[s].pc = "candidate"
    /\ \E c \in scan[s].queue :
         scan' = [scan EXCEPT ![s] = [scan[s] EXCEPT !.queue = scan[s].queue \ {c}]]
    /\ UNCHANGED <<lock, holds, archive, purged, rows, objects, stream>>

\* It reads a candidate.
Takes(s) ==
    /\ scan[s].pc = "candidate"
    /\ \E c \in scan[s].queue :
         /\ ~Held(scan[s].active, c) /\ ~scan[s].dry /\ Document(c.id) # Absent
         /\ scan' = [scan EXCEPT ![s] = [scan[s] EXCEPT !.doc = <<c, Document(c.id)>>,
                                                       !.pc = "put"]]
    /\ UNCHANGED <<lock, holds, archive, purged, rows, objects, stream>>

\* It has put the copy.
Puts(s) ==
    /\ scan[s].pc = "put"
    /\ archive' = [archive EXCEPT ![scan[s].doc[1].id] = scan[s].doc[2]]
    /\ scan' = [scan EXCEPT ![s] = [scan[s] EXCEPT !.pc = "purge"]]
    /\ stream' \in {stream} \cup {stream \cup {<<"archive", scan[s].doc[1].id>>}}
    /\ stream = Absent => stream' = Absent
    /\ UNCHANGED <<lock, holds, purged, rows, objects>>

\* It gives up on a candidate, which may have been copied.
Drops(s) ==
    /\ scan[s].pc \in {"put", "purge"}
    /\ scan' = [scan EXCEPT ![s] = Skip(s)]
    /\ \/ archive' = archive
       \/ /\ scan[s].pc = "put"
          /\ archive' = [archive EXCEPT ![scan[s].doc[1].id] = scan[s].doc[2]]
    /\ UNCHANGED <<lock, holds, purged, rows, objects, stream>>

\* It purges the candidate.
Purges(s) ==
    /\ scan[s].pc = "purge"
    /\ IF scan[s].doc[1].id \in Objects THEN PurgeObject(scan[s].doc[1].id)
                                      ELSE purgeDB(scan[s].doc[1].id)
    /\ scan' = [scan EXCEPT ![s] = Skip(s)]
    /\ stream' \in {stream} \cup {stream \cup {<<"purge", scan[s].doc[1].id>>}}
    /\ stream = Absent => stream' = Absent
    /\ UNCHANGED <<lock, holds, archive>>

Scans(s) ==
    \/ Resets(s) \/ Loads(s) \/ Collects(s) \/ Passes(s) \/ Takes(s)
    \/ Puts(s) \/ Drops(s) \/ Purges(s)

Holds ==
    /\ \/ \E scope \in Scopes, e \in {Unset, MaxNow} : CreateHold(scope, e)
       \/ \E h \in holds : ReleaseHold(h.name)
    /\ UNCHANGED <<lock, rows, objects, stream>>

\* A tenant's scan that starts, or does not get the lock, resets the scan.
LEMMA StartResets ==
    ASSUME CustodyTypeOK, NEW s \in Scanners, NEW t \in Tenants, NEW dry \in BOOLEAN,
           NEW policy \in Policies \cup {DefaultPolicy}, NEW rest \in SUBSET Tenants,
           StartTenant(s, t, dry, policy, rest),
           UNCHANGED <<holds, archive, purged, rows, objects, stream>>
    PROVE  Resets(s)
<1>. DEFINE v == [NoScan EXCEPT !.pc = "holds", !.tenant = t, !.dry = dry, !.at = now,
                                !.policy = policy, !.todo = rest]
            w == [NoScan EXCEPT !.pc = "next_tenant", !.dry = dry, !.todo = rest]
<1>1. v \in ScanState /\ v.pc = "holds" /\ v.dry = dry /\ v.queue = {} /\ v.placed = {}
  BY Zenon DEF CustodyTypeOK, StoresType, ScanState, ScanPCs, NoScan
<1>2. w \in ScanState /\ w.pc = "next_tenant" /\ w.queue = {} /\ w.placed = {}
  BY Zenon DEF ScanState, ScanPCs, NoScan
<1>3. CASE dry \/ lock = Free
  BY <1>1, <1>3, Zenon DEF StartTenant, Resets, TryAcquire
<1>4. CASE ~(dry \/ lock = Free)
  BY <1>2, <1>4, Zenon DEF StartTenant, Resets
<1>. QED
  BY <1>3, <1>4

\* The scan of a tenant, or of all, ends.
LEMMA EndResets ==
    ASSUME CustodyTypeOK, NEW s \in Scanners
    PROVE  /\ NoScan \in ScanState /\ NoScan.pc = "idle"
           /\ NoScan.queue = {} /\ NoScan.placed = {}
           /\ Ended(s) \in ScanState /\ Ended(s).pc = "next_tenant"
           /\ Ended(s).queue = {} /\ Ended(s).placed = {}
BY Zenon DEF CustodyTypeOK, RetentionType, ScanState, ScanPCs, NoScan, Ended

\* Every step of retention is one of these.
LEMMA RetentionCases ==
    ASSUME CustodyTypeOK, RetentionNext
    PROVE  /\ Holds \/ \E s \in Scanners : Scans(s)
           /\ UNCHANGED <<now, finished, created, discarded, outlived>>
<1>1. UNCHANGED <<now, finished, created, discarded, outlived>>
  BY DEF RetentionNext
<1>2. ASSUME NEW s \in Scanners, Bookkeeping(s) PROVE Scans(s)
  <2>. USE <1>2
  <2>0. UNCHANGED <<rows, objects, stream>> /\ scan[s] \in ScanState
    BY DEF Bookkeeping, CustodyTypeOK, RetentionType
  <2>1. CASE NextTenant(s)
    <3>1. CASE scan[s].todo = {}
      BY <2>0, <2>1, <3>1, EndResets DEF NextTenant, Resets, Scans
    <3>2. CASE scan[s].todo # {}
      <4>1. PICK t \in scan[s].todo :
               StartTenant(s, t, scan[s].dry, DefaultPolicy, scan[s].todo \ {t})
        BY <2>1, <3>2 DEF NextTenant
      <4>2. t \in Tenants /\ scan[s].dry \in BOOLEAN /\ scan[s].todo \ {t} \in SUBSET Tenants
        BY <2>0 DEF ScanState
      <4>. QED
        BY <2>0, <2>1, <4>1, <4>2, StartResets DEF NextTenant, Scans
    <3>. QED
      BY <3>1, <3>2
  <2>2. CASE LoadHolds(s)
    <3>1. CASE scan' = [scan EXCEPT ![s] = Ended(s)] /\ Release(s)
      BY <2>0, <2>2, <3>1, EndResets, Zenon DEF LoadHolds, Resets, Scans, Release
    <3>2. CASE ~(scan' = [scan EXCEPT ![s] = Ended(s)] /\ Release(s))
      <4>1. Loads(s)
        BY <2>0, <2>2, <3>2, Zenon DEF LoadHolds, Loads, Faulty, CustodyTypeOK, RetentionType
      <4>. QED
        BY <4>1 DEF Scans
    <3>. QED
      BY <3>1, <3>2
  <2>3. CASE CollectAll(s)
    <3>1. CASE scan' = [scan EXCEPT ![s] = Ended(s)] /\ Release(s)
      BY <2>0, <2>3, <3>1, EndResets, Zenon DEF CollectAll, Resets, Scans, Release
    <3>2. CASE ~(scan' = [scan EXCEPT ![s] = Ended(s)] /\ Release(s))
      <4>1. Collects(s)
        BY <2>0, <2>3, <3>2, Zenon DEF CollectAll, Collects, Faulty, CustodyTypeOK, RetentionType
      <4>. QED
        BY <4>1 DEF Scans
    <3>. QED
      BY <3>1, <3>2
  <2>4. CASE TakeCandidate(s)
    <3>1. PICK c \in Frontmost(scan[s].queue) :
            IF Held(scan[s].active, c) \/ scan[s].dry \/ Document(c.id) = Absent
            THEN scan' = [scan EXCEPT ![s].queue = @ \ {c}]
            ELSE \/ scan' = [scan EXCEPT ![s].doc = <<c, Document(c.id)>>, ![s].pc = "put"]
                 \/ scan' = [scan EXCEPT ![s] = [scan[s] EXCEPT !.queue = @ \ {c}]]
      BY <2>4, Zenon DEF TakeCandidate, Faulty
    <3>2. c \in scan[s].queue
      BY DEF Frontmost
    <3>3. \/ scan' = [scan EXCEPT ![s] = [scan[s] EXCEPT !.queue = scan[s].queue \ {c}]]
          \/ /\ ~Held(scan[s].active, c) /\ ~scan[s].dry /\ Document(c.id) # Absent
             /\ scan' = [scan EXCEPT ![s] = [scan[s] EXCEPT !.doc = <<c, Document(c.id)>>,
                                                           !.pc = "put"]]
      BY <3>1, Zenon DEF CustodyTypeOK, RetentionType
    <3>4. Passes(s) \/ Takes(s)
      BY <2>0, <2>4, <3>2, <3>3, Zenon DEF TakeCandidate, Passes, Takes
    <3>. QED
      BY <3>4 DEF Scans
  <2>5. CASE EndScan(s)
    BY <2>0, <2>5, EndResets, Zenon DEF EndScan, Resets, Scans, Release
  <2>. QED
    BY <2>1, <2>2, <2>3, <2>4, <2>5 DEF Bookkeeping
<1>3. ASSUME NEW s \in Scanners, PutArchive(s) PROVE Scans(s)
  <2>0. scan[s].pc = "put" /\ UNCHANGED <<lock, holds, purged, rows, objects>>
    BY <1>3, Zenon DEF PutArchive
  <2>. DEFINE i == scan[s].doc[1].id
              copied == [archive EXCEPT ![i] = scan[s].doc[2]]
  <2>1. CASE archive' = copied /\ scan' = [scan EXCEPT ![s].pc = "purge"] /\ Publish("archive", i)
    <3>1. /\ stream' \in {stream} \cup {stream \cup {<<"archive", i>>}}
          /\ stream = Absent => stream' = Absent
      BY <2>1 DEF Publish
    <3>2. scan' = [scan EXCEPT ![s] = [scan[s] EXCEPT !.pc = "purge"]]
      BY <2>1, Zenon
    <3>3. Puts(s)
      BY <2>0, <2>1, <3>1, <3>2, Zenon DEF Puts
    <3>. QED
      BY <3>3 DEF Scans
  <2>2. CASE Faulty(s, Skip(s)) /\ archive' \in {archive, copied} /\ UNCHANGED stream
    <3>1. Drops(s)
      BY <2>0, <2>2, Zenon DEF Faulty, Drops
    <3>. QED
      BY <3>1 DEF Scans
  <2>. QED
    BY <1>3, <2>1, <2>2, Zenon DEF PutArchive
<1>4. ASSUME NEW s \in Scanners, Purge(s) PROVE Scans(s)
  <2>0. scan[s].pc = "purge" /\ UNCHANGED <<lock, holds, archive>>
    BY <1>4, Zenon DEF Purge
  <2>. DEFINE i == scan[s].doc[1].id
  <2>1. CASE /\ IF i \in Objects THEN PurgeObject(i) ELSE purgeDB(i)
             /\ Publish("purge", i)
             /\ scan' = [scan EXCEPT ![s] = Skip(s)]
    <3>1. /\ stream' \in {stream} \cup {stream \cup {<<"purge", i>>}}
          /\ stream = Absent => stream' = Absent
      BY <2>1 DEF Publish
    <3>2. Purges(s)
      BY <2>0, <2>1, <3>1, Zenon DEF Purges
    <3>. QED
      BY <3>2 DEF Scans
  <2>2. CASE Faulty(s, Skip(s)) /\ UNCHANGED <<rows, objects, purged, stream>>
    <3>1. Drops(s)
      BY <2>0, <2>2, Zenon DEF Faulty, Drops
    <3>. QED
      BY <3>1 DEF Scans
  <2>. QED
    BY <1>4, <2>1, <2>2, Zenon DEF Purge
<1>5. ASSUME NEW s \in Scanners, NEW t \in Tenants, NEW dry \in BOOLEAN,
             ScanRetention(s, t, dry) \/ ApplyRetentionPolicy(s, t, dry),
             UNCHANGED <<rows, objects, stream>>
      PROVE  Scans(s)
  <2>1. PICK policy \in Policies \cup {DefaultPolicy} : StartTenant(s, t, dry, policy, {})
    BY <1>5, Zenon DEF ScanRetention, ApplyRetentionPolicy
  <2>2. UNCHANGED <<holds, archive, purged, rows, objects, stream>>
    BY <1>5 DEF ScanRetention, ApplyRetentionPolicy
  <2>. QED
    BY <2>1, <2>2, StartResets DEF Scans
<1>6. ASSUME NEW s \in Scanners, NEW dry \in BOOLEAN,
             RunRetentionScan(s, dry), UNCHANGED <<rows, objects, stream>>
      PROVE  Scans(s)
  <2>. DEFINE v == [NoScan EXCEPT !.pc = "next_tenant", !.todo = Tenants, !.dry = dry]
  <2>1. v \in ScanState /\ v.pc = "next_tenant" /\ v.queue = {} /\ v.placed = {}
    BY Zenon DEF ScanState, ScanPCs, NoScan
  <2>. QED
    BY <1>6, <2>1, Zenon DEF RunRetentionScan, Resets, Scans
<1>7. ASSUME NEW s \in Scanners, CrashScan(s), UNCHANGED <<rows, objects, stream>>
      PROVE  Scans(s)
  BY <1>7, EndResets, Zenon DEF CrashScan, Faulty, Release, Resets, Scans
<1>. QED
  BY <1>1, <1>2, <1>3, <1>4, <1>5, <1>6, <1>7, Zenon
     DEF RetentionNext, ScanStep, GetRetentionStats, Holds

-----------------------------------------------------------------------------
(* Types                                                                   *)

Others == <<now, finished, created, discarded, outlived>>

\* The variables start with their types.
LEMMA CustodyTypeInit == Init => CustodyTypeOK
<1>. SUFFICES ASSUME Init PROVE CustodyTypeOK
  OBVIOUS
<1>1. StoresType
  BY StoresAssumption, Zenon DEF Init, InitStores, StoresType, Items, DBRows, Tables, Streams
<1>2. RetentionType
  BY DEF Init, InitRetention, RetentionType, NoScan, ScanState, ScanPCs
<1>3. BackupType
  BY DEF Init, InitBackup, BackupType, NoPoint, Point, NoRun, RunState, NoRestore,
         RestoreState, Streams
<1>. QED
  BY <1>1, <1>2, <1>3 DEF CustodyTypeOK

\* What an item's document is.
LEMMA DocumentType ==
    ASSUME CustodyTypeOK, NEW i \in Items, Document(i) # Absent
    PROVE  Document(i) \in Docs
BY DEF CustodyTypeOK, StoresType, Document, archiveObject, archiveDB, Docs, Items

\* The collectors return candidates.
LEMMA CollectType ==
    ASSUME CustodyTypeOK, NEW t, NEW policy, NEW at,
           NEW c \in Collect(t, policy, at)
    PROVE  c \in Cand /\ Settled(c) /\ c.tenant = t
<1>1. PICK i \in finished \cup Catalogs \cup AttestationObjects :
         c = Candidate(i) /\ TenantOf[i] = t
  BY DEF Collect, CollectJobs, CollectCatalogs, CollectObjects, classPrefix, Due,
         AttestationObjects, ClassAttestation
<1>2. i \in Items /\ i \in Jobs \cup Catalogs \cup Objects
  BY DEF CustodyTypeOK, StoresType, AttestationObjects, Items, DBRows
<1>3. ClassOf(i) \in {ClassJobResults, ClassCatalogs, ClassAttestation}
  BY <1>2 DEF ClassOf
<1>4. TenantOf[i] \in Tenants /\ created[i] \in Nat
  BY <1>2, StoresAssumption DEF CustodyTypeOK, StoresType
<1>. QED
  BY <1>1, <1>2, <1>3, <1>4 DEF Candidate, Cand, Settled

\* What a scan has in its hands.
LEMMA DocType ==
    ASSUME CustodyTypeOK, ScanInv, NEW s \in Scanners, scan[s].pc \in {"put", "purge"}
    PROVE  /\ scan[s].doc \in Cand \X Docs
           /\ scan[s].doc[1] \in Cand /\ scan[s].doc[1].id \in Items /\ scan[s].doc[2] \in Docs
           /\ scan[s].doc[2] # Absent
BY StoresAssumption DEF ScanInv, Cand, Docs, Tables

\* A step of a scan keeps the types of the stores and the scans.
LEMMA ScansType ==
    ASSUME CustodyTypeOK, ScanInv, NEW s \in Scanners, Scans(s), UNCHANGED Others
    PROVE  StoresType' /\ RetentionType'
<1>. USE DEF Others
<1>0. scan[s] \in ScanState /\ scan \in [Scanners -> ScanState]
  BY DEF CustodyTypeOK, RetentionType
<1>1. CASE Resets(s)
  BY <1>1 DEF CustodyTypeOK, Resets, StoresType, RetentionType
<1>2. CASE Loads(s)
  <2>1. ActiveHolds(scan[s].tenant, scan[s].at) \in SUBSET Hold
        /\ {h.name : h \in holds} \in SUBSET Nat
    BY DEF CustodyTypeOK, RetentionType, ActiveHolds, Hold
  <2>2. [scan[s] EXCEPT !.active = ActiveHolds(scan[s].tenant, scan[s].at),
                        !.placed = {h.name : h \in holds}, !.pc = "collect"] \in ScanState
    BY <1>0, <2>1, Zenon DEF ScanState, ScanPCs
  <2>. QED
    BY <1>0, <1>2, <2>2 DEF CustodyTypeOK, Loads, StoresType, RetentionType
<1>3. CASE Collects(s)
  <2>1. Collect(scan[s].tenant, scan[s].policy, scan[s].at) \in SUBSET Cand
    BY CollectType
  <2>2. [scan[s] EXCEPT !.queue = Collect(scan[s].tenant, scan[s].policy, scan[s].at),
                        !.pc = "candidate"] \in ScanState
    BY <1>0, <2>1, Zenon DEF ScanState, ScanPCs
  <2>. QED
    BY <1>0, <1>3, <2>2 DEF CustodyTypeOK, Collects, StoresType, RetentionType
<1>4. CASE Passes(s)
  <2>1. ASSUME NEW c PROVE [scan[s] EXCEPT !.queue = scan[s].queue \ {c}] \in ScanState
    BY <1>0, Zenon DEF ScanState
  <2>. QED
    BY <1>0, <1>4, <2>1 DEF CustodyTypeOK, Passes, StoresType, RetentionType
<1>5. CASE Takes(s)
  <2>1. PICK c \in scan[s].queue :
           /\ Document(c.id) # Absent
           /\ scan' = [scan EXCEPT ![s] = [scan[s] EXCEPT !.doc = <<c, Document(c.id)>>,
                                                         !.pc = "put"]]
    BY <1>5, Zenon DEF Takes
  <2>2. c \in Cand /\ c.id \in Items
    BY <1>0 DEF ScanState, Cand
  <2>3. Document(c.id) \in Docs
    BY <2>1, <2>2, DocumentType
  <2>4. [scan[s] EXCEPT !.doc = <<c, Document(c.id)>>, !.pc = "put"] \in ScanState
    BY <1>0, <2>2, <2>3, Zenon DEF ScanState, ScanPCs
  <2>. QED
    BY <1>0, <1>5, <2>1, <2>4 DEF CustodyTypeOK, Takes, StoresType, RetentionType
<1>6. Skip(s) \in ScanState /\ [scan[s] EXCEPT !.pc = "purge"] \in ScanState
  BY <1>0, Zenon DEF ScanState, ScanPCs, Skip
<1>7. CASE Puts(s)
  <2>1. scan[s].doc[1].id \in Items /\ scan[s].doc[2] \in Docs
    BY <1>7, DocType DEF Puts
  <2>2. stream' \in Streams
    BY <1>7, <2>1 DEF Puts, Streams, CustodyTypeOK, StoresType
  <2>. QED
    BY <1>0, <1>6, <1>7, <2>1, <2>2 DEF CustodyTypeOK, Puts, StoresType, RetentionType
<1>8. CASE Drops(s)
  <2>1. scan[s].doc[1].id \in Items /\ scan[s].doc[2] \in Docs
    BY <1>8, DocType DEF Drops
  <2>. QED
    BY <1>0, <1>6, <1>8, <2>1 DEF CustodyTypeOK, Drops, StoresType, RetentionType
<1>9. CASE Purges(s)
  <2>. DEFINE i == scan[s].doc[1].id
  <2>1. i \in Items
    BY <1>9, DocType DEF Purges
  <2>2. stream' \in Streams
    BY <1>9, <2>1 DEF Purges, Streams, CustodyTypeOK, StoresType
  <2>3. scan' \in [Scanners -> ScanState] /\ UNCHANGED <<lock, holds, archive>>
    BY <1>0, <1>6, <1>9 DEF Purges
  <2>4. /\ rows' \in [DBRows -> {Absent} \cup SUBSET Tables]
        /\ objects' \in [Objects -> Contents \cup {Absent}]
    BY <1>9 DEF Purges, PurgeObject, purgeDB, CustodyTypeOK, StoresType
  <2>5. purged' \subseteq Items \X (Docs \cup {Absent})
    <3>1. CASE i \in Objects
      BY <1>9, <2>1, <3>1 DEF Purges, PurgeObject, CustodyTypeOK, StoresType, RetentionType, Docs
    <3>2. CASE i \notin Objects
      BY <1>9, <2>1, <3>2 DEF Purges, purgeDB, CustodyTypeOK, StoresType, RetentionType, Docs, Items
    <3>. QED
      BY <3>1, <3>2
  <2>. QED
    BY <2>2, <2>3, <2>4, <2>5 DEF CustodyTypeOK, StoresType, RetentionType
<1>. QED
  BY <1>1, <1>2, <1>3, <1>4, <1>5, <1>7, <1>8, <1>9 DEF Scans

\* A hold is placed or released.
LEMMA HoldsType ==
    ASSUME CustodyTypeOK, IsFiniteSet(holds), Holds, UNCHANGED Others
    PROVE  StoresType' /\ RetentionType'
<1>1. UNCHANGED <<lock, rows, objects, stream, archive, scan, purged>>
  BY Zenon DEF Holds, CreateHold, ReleaseHold
<1>2. holds' \subseteq Hold
  <2>1. ASSUME NEW scope \in Scopes, NEW e \in {Unset, MaxNow}, CreateHold(scope, e)
        PROVE  holds' \subseteq Hold
    <3>1. Cardinality(holds) \in Nat
      BY FS_CardinalityType
    <3>2. [name |-> Cardinality(holds), scope |-> scope, expires |-> e,
           released |-> FALSE] \in Hold
      BY <3>1 DEF Hold
    <3>. QED
      BY <2>1, <3>2, Zenon DEF CreateHold, Create, CustodyTypeOK, RetentionType
  <2>2. ASSUME NEW h \in holds, ReleaseHold(h.name) PROVE holds' \subseteq Hold
    BY <2>2, Zenon DEF ReleaseHold, ReleaseNamed, Hold, CustodyTypeOK, RetentionType
  <2>. QED
    BY <2>1, <2>2 DEF Holds
<1>. QED
  BY <1>1, <1>2 DEF CustodyTypeOK, StoresType, RetentionType, Others

\* The daemon, the clock and the lock server.
LEMMA DaemonType ==
    ASSUME CustodyTypeOK, Tick \/ LoseLock \/ Daemon
    PROVE  StoresType'
<1>. USE DEF CustodyTypeOK, StoresType
<1>1. CASE Tick
  BY <1>1 DEF Tick
<1>2. CASE LoseLock
  BY <1>2 DEF LoseLock
<1>3. ASSUME NEW r \in DBRows, NEW part \in Tables, WriteChild(r, part) PROVE StoresType'
  BY <1>3, StoresAssumption DEF WriteChild, Tables
<1>4. ASSUME NEW j \in Jobs, CompleteJob(j) PROVE StoresType'
  BY <1>4 DEF CompleteJob
<1>5. ASSUME NEW o \in Objects, NEW c \in Contents, PutObject(o, c) PROVE StoresType'
  BY <1>5, Zenon DEF PutObject
<1>6. ASSUME NEW o \in Objects, DiscardDocument(o) PROVE StoresType'
  BY <1>6 DEF DiscardDocument
<1>. QED
  BY <1>1, <1>2, <1>3, <1>4, <1>5, <1>6 DEF Daemon, Tables

\* A run that has not started or has ended.
LEMMA IdleType == NoRun \in RunState /\ NoRun.pc = "idle" /\ NoRestore \in RestoreState
BY DEF NoRun, RunState, NoRestore, RestoreState, Streams

\* A step of a backup run.
LEMMA RunType ==
    ASSUME CustodyTypeOK, RunInv, RunNext
    PROVE  BackupType'
<1>0. /\ run \in RunState /\ points \in [Points -> Point] /\ bases \in Seq(SUBSET Objects)
      /\ Len(bases) \in Nat /\ blobs \subseteq Contents /\ restore \in RestoreState
      /\ objects \in [Objects -> Contents \cup {Absent}] /\ stream \in Streams
      /\ Present \in SUBSET Objects
  BY DEF CustodyTypeOK, BackupType, StoresType, Present
<1>1. ASSUME NEW p \in Points, StartRun(p) PROVE BackupType'
  <2>1. [NoRun EXCEPT !.pc = "list_bases", !.point = p] \in RunState
    BY <1>0, Zenon DEF NoRun, RunState, Streams
  <2>2. points' \in [Points -> Point]
    BY <1>0, <1>1, Zenon DEF StartRun, Begin, Point
  <2>. QED
    BY <1>0, <1>1, <2>1, <2>2 DEF StartRun, BackupType
<1>2. CASE FailRun \/ ListBases \/ EndTenant
  <2>1. /\ [run EXCEPT !.before = Len(bases), !.pc = "push"] \in RunState
        /\ [run EXCEPT !.pc = "tenants", !.tenant = Absent] \in RunState
    BY <1>0, Zenon DEF RunState
  <2>. QED
    BY <1>0, <1>2, <2>1, IdleType DEF FailRun, ListBases, EndTenant, BackupType
<1>3. CASE BackupPush \/ PushElsewhere
  <2>1. [run EXCEPT !.pc = "find_new"] \in RunState
    BY <1>0 DEF RunState
  <2>2. Append(bases, Present) \in Seq(SUBSET Objects)
    BY <1>0
  <2>. QED
    BY <1>0, <1>3, <2>1, <2>2, Zenon DEF BackupPush, PushElsewhere, BackupType
<1>4. CASE FindNewBackup
  <2>1. [run EXCEPT !.base = Len(bases), !.pc = "tenants", !.todo = Tenants] \in RunState
    BY <1>0, Zenon DEF RunState
  <2>. QED
    BY <1>0, <1>4, <2>1, IdleType DEF FindNewBackup, BackupType
<1>5. CASE ListObjects
  <2>1. ASSUME NEW t \in run.todo
        PROVE  [run EXCEPT !.todo = @ \ {t}, !.tenant = t, !.pc = "copy",
                           !.listed = {o \in Present : TenantOf[o] = t}] \in RunState
    BY <1>0, Zenon DEF RunState
  <2>2. [run EXCEPT !.pc = "stream"] \in RunState
    BY <1>0 DEF RunState
  <2>. QED
    BY <1>0, <1>5, <2>1, <2>2, Zenon DEF ListObjects, BackupType
<1>6. CASE SnapshotObject
  <2>1. PICK o \in run.listed :
          IF objects[o] = Absent
          THEN run' = [run EXCEPT !.listed = @ \ {o}] /\ UNCHANGED blobs
          ELSE /\ run' = [run EXCEPT !.listed = @ \ {o},
                                     !.entries = @ \cup {<<o, objects[o]>>}]
               /\ blobs' = blobs \cup {objects[o]}
    BY <1>0, <1>6, Zenon DEF SnapshotObject
  <2>2. o \in Objects /\ objects[o] \in Contents \cup {Absent}
    BY <1>0 DEF RunState, StoresType
  <2>3. [run EXCEPT !.listed = @ \ {o}] \in RunState
    BY <1>0 DEF RunState
  <2>4. objects[o] # Absent => run.entries \cup {<<o, objects[o]>>} \in SUBSET Entry
    BY <1>0, <2>2 DEF RunState, Entry
  <2>5. objects[o] # Absent => [run EXCEPT !.listed = @ \ {o},
                                  !.entries = @ \cup {<<o, objects[o]>>}] \in RunState
    BY <1>0, <2>4, Zenon DEF RunState
  <2>. QED
    BY <1>0, <1>6, <2>1, <2>2, <2>3, <2>5, Zenon DEF SnapshotObject, BackupType
<1>7. CASE SnapshotStream
  <2>1. [run EXCEPT !.capture = stream, !.pc = "manifest"] \in RunState
    BY <1>0, Zenon DEF RunState, StoresType
  <2>2. [points EXCEPT ![run.point].file = stream] \in [Points -> Point]
    BY <1>0, Zenon DEF Point, StoresType
  <2>. QED
    BY <1>0, <1>7, <2>1, <2>2, IdleType DEF SnapshotStream, BackupType
<1>8. CASE WriteManifest
  <2>1. run.point \in Points
    BY <1>0, <1>8 DEF WriteManifest, RunInv
  <2>2. points[run.point] \in Point
    BY <1>0, <2>1
  <2>3. [points[run.point] EXCEPT !.manifest = TRUE, !.base = run.base,
                      !.entries = run.entries, !.capture = run.capture] \in Point
    BY <1>0, <2>2, Zenon DEF Point, RunState
  <2>4. points' \in [Points -> Point]
    BY <1>0, <1>8, <2>3, Zenon DEF WriteManifest
  <2>5. run' \in RunState
    BY <1>0, <1>8 DEF WriteManifest, RunState
  <2>. QED
    BY <1>0, <1>8, <2>4, <2>5 DEF WriteManifest, BackupType
<1>9. CASE ClearInProgress
  <2>1. run.point \in Points
    BY <1>0, <1>9 DEF ClearInProgress, RunInv
  <2>2. points[run.point] \in Point
    BY <1>0, <2>1
  <2>3. PICK cleared \in BOOLEAN :
          points' = [points EXCEPT ![run.point] =
                       [@ EXCEPT !.marker = ~cleared,
                                 !.reported = cleared /\ Unlocked(Backup)]]
    BY <1>0, <1>9, Zenon DEF ClearInProgress
  <2>4. [points[run.point] EXCEPT !.marker = ~cleared,
                                  !.reported = cleared /\ Unlocked(Backup)] \in Point
    BY <1>0, <2>2, Zenon DEF Point, Unlocked
  <2>5. points' \in [Points -> Point]
    BY <1>0, <2>3, <2>4, Zenon
  <2>. QED
    BY <1>0, <1>9, <2>5, IdleType DEF ClearInProgress, BackupType
<1>. QED
  BY <1>1, <1>2, <1>3, <1>4, <1>5, <1>6, <1>7, <1>8, <1>9 DEF RunNext

\* A loss in the repository or the primary stores, and a restore.
LEMMA RestoreType ==
    ASSUME CustodyTypeOK, RestoreInv, Damage \/ RestoreNext,
           UNCHANGED <<now, rows, finished, created, discarded, outlived>>
    PROVE  StoresType' /\ BackupType'
<1>0. /\ restore \in RestoreState /\ points \in [Points -> Point] /\ blobs \subseteq Contents
      /\ objects \in [Objects -> Contents \cup {Absent}] /\ stream \in Streams
      /\ BackupType /\ StoresType
  BY DEF CustodyTypeOK, BackupType, StoresType
<1>1. CASE Damage
  <2>1. ASSUME NEW p \in Points
        PROVE  [points EXCEPT ![p].file = Absent] \in [Points -> Point]
    BY <1>0 DEF Point, Streams
  <2>. QED
    BY <1>0, <1>1, <2>1 DEF Damage, BackupType, StoresType
<1>2. CASE Disaster
  BY <1>0, <1>2 DEF Disaster, Streams, BackupType, StoresType
<1>3. ASSUME NEW p \in Points, StartRestore(p) PROVE StoresType' /\ BackupType'
  <2>1. [pc |-> "objects", point |-> p, todo |-> points[p].entries] \in RestoreState
    BY <1>0 DEF RestoreState, Point
  <2>. QED
    BY <1>0, <1>3, <2>1, IdleType DEF StartRestore, BackupType, StoresType
<1>4. CASE RestoreObject
  <2>1. PICK e \in restore.todo :
          \/ /\ objects' = [objects EXCEPT ![e[1]] = e[2]]
             /\ restore' = [restore EXCEPT !.todo = @ \ {e}]
          \/ restore' = NoRestore /\ UNCHANGED objects
    BY <1>0, <1>4 DEF RestoreObject, BackupType, StoresType
  <2>2. e[1] \in Objects /\ e[2] \in Contents
    BY <1>0 DEF RestoreState, Entry
  <2>3. [restore EXCEPT !.todo = @ \ {e}] \in RestoreState
    BY <1>0 DEF RestoreState
  <2>. QED
    BY <1>0, <1>4, <2>1, <2>2, <2>3, IdleType, Zenon DEF RestoreObject, BackupType, StoresType
<1>5. CASE RestoreStream
  <2>1. restore.point \in Points
    BY <1>0, <1>5 DEF RestoreStream, RestoreInv
  <2>2. points[restore.point].file \in Streams
    BY <1>0, <2>1 DEF Point
  <2>3. [restore EXCEPT !.pc = "done"] \in RestoreState
    BY <1>0 DEF RestoreState
  <2>. QED
    BY <1>0, <1>5, <2>2, <2>3, IdleType, Zenon DEF RestoreStream, BackupType, StoresType
<1>6. CASE EndRestore
  BY <1>0, <1>6, IdleType DEF EndRestore, BackupType, StoresType
<1>. QED
  BY <1>1, <1>2, <1>3, <1>4, <1>5, <1>6 DEF RestoreNext

\* Every step keeps the types.
LEMMA CustodyTypeNext ==
    ASSUME CustodyTypeOK, ScanInv, HoldsInv, RunInv, RestoreInv, [Next]_vars
    PROVE  CustodyTypeOK'
<1>0. StoresType /\ RetentionType /\ BackupType
  BY DEF CustodyTypeOK
<1>1. CASE UNCHANGED vars
  BY <1>0, <1>1 DEF CustodyTypeOK, StoresType, RetentionType, BackupType, vars, storeVars,
     retentionVars, backupVars
<1>2. CASE (Tick \/ LoseLock \/ Daemon) /\ UNCHANGED <<retentionVars, backupVars>>
  <2>1. StoresType'
    BY <1>2, DaemonType
  <2>. QED
    BY <1>0, <1>2, <2>1 DEF CustodyTypeOK, RetentionType, BackupType, retentionVars, backupVars
<1>3. CASE RetentionNext /\ UNCHANGED backupVars
  <2>1. UNCHANGED Others /\ (Holds \/ \E s \in Scanners : Scans(s))
    BY <1>3, RetentionCases DEF Others
  <2>2. StoresType' /\ RetentionType'
    BY <2>1, ScansType, HoldsType DEF HoldsInv
  <2>. QED
    BY <1>0, <1>3, <2>2 DEF CustodyTypeOK, BackupType, backupVars
<1>4. CASE /\ RunNext /\ UNCHANGED <<objects, stream>> /\ UNCHANGED retentionVars
           /\ UNCHANGED <<now, rows, finished, created, discarded, outlived>>
  <2>1. BackupType'
    BY <1>4, RunType
  <2>2. lock' \in {lock, Free, "backup"}
    BY <1>4, Zenon DEF RunNext, StartRun, FailRun, ListBases, BackupPush, PushElsewhere, FindNewBackup,
       ListObjects, SnapshotObject, EndTenant, SnapshotStream, WriteManifest, ClearInProgress,
       Release, TryAcquire, Backup
  <2>. QED
    BY <1>0, <1>4, <2>1, <2>2 DEF CustodyTypeOK, StoresType, RetentionType, retentionVars
<1>5. CASE /\ Damage \/ RestoreNext
           /\ UNCHANGED retentionVars
           /\ UNCHANGED <<now, rows, finished, created, discarded, outlived>>
  BY <1>0, <1>5, RestoreType DEF CustodyTypeOK, RetentionType, retentionVars
<1>. QED
  BY <1>1, <1>2, <1>3, <1>4, <1>5 DEF Next

=============================================================================
