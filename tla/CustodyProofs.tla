--------------------------- MODULE CustodyProofs ----------------------------
(***************************************************************************)
(* What retention, backup and restore promise of the stores they share,    *)
(* for any tenants, rows, objects, scanners, policies, holds and points,   *)
(* and any number of faults, lost lock sessions and disasters.             *)
(***************************************************************************)
EXTENDS CustodyScanProofs

-----------------------------------------------------------------------------
(* A backup run                                                            *)

\* What is true of the run in progress, and of the points it does not write.
RunSafe == LockInv /\ RunInv /\ CoverInv /\ EntriesInv

\* A run's step keeps what was reported, and the base backups it rests on.
LEMMA ReportedStays ==
    ASSUME CustodyTypeOK, CoverInv, UNCHANGED <<discarded, outlived>>,
           UNCHANGED bases \/ bases' = Append(bases, Present),
           \A p \in Points : points'[p].reported =>
               /\ points[p].reported /\ points'[p].base = points[p].base
               /\ points'[p].entries = points[p].entries
    PROVE  /\ Len(bases') \in Nat /\ Len(bases') >= Len(bases)
           /\ \A i \in 1 .. Len(bases) : bases'[i] = bases[i]
           /\ ~outlived' => \A p \in Points : points'[p].reported =>
                /\ points'[p].base \in 1 .. Len(bases')
                /\ \A o \in bases'[points'[p].base] \ discarded' :
                       HasEntry(o, points'[p].entries)
<1>1. bases \in Seq(SUBSET Objects) /\ Len(bases) \in Nat /\ Present \in SUBSET Objects
  BY DEF CustodyTypeOK, BackupType, Present
<1>2. /\ Len(bases') \in Nat /\ Len(bases') >= Len(bases)
      /\ \A i \in 1 .. Len(bases) : i \in 1 .. Len(bases') /\ bases'[i] = bases[i]
  BY <1>1
<1>. QED
  BY <1>2 DEF CoverInv

\* Only the run's own session is the run's, so the scans keep their lock.
LEMMA RunKeepsScans ==
    ASSUME CustodyTypeOK, LockInv, RunStep
    PROVE  ~outlived' => \A s \in Scanners :
              scan'[s].pc \in ScanPCs /\ ~scan'[s].dry => lock' = s
<1>1. lock' = lock \/ lock \in {Free, "backup"}
  BY Zenon DEF RunStep, RunNext, StartRun, FailRun, ListBases, BackupPush, PushElsewhere, FindNewBackup,
     ListObjects, SnapshotObject, EndTenant, SnapshotStream, WriteManifest, ClearInProgress,
     Release, TryAcquire, Backup
<1>2. UNCHANGED <<scan, outlived>>
  BY DEF RunStep, retentionVars, Others
<1>3. \A s \in Scanners : s \notin {Free, "backup"}
  BY ScannersAssumption
<1>. QED
  BY <1>1, <1>2, <1>3 DEF LockInv

\* A run that ends without a word leaves the points as they are.
LEMMA RunStops ==
    ASSUME CustodyTypeOK, RunSafe, RunStep, run' = NoRun, Release(Backup), UNCHANGED <<points, bases>>
    PROVE  RunSafe'
<1>1. NoRun.pc = "idle" /\ NoRun.listed = {} /\ NoRun.entries = {} /\ NoRun.todo = {}
  BY DEF NoRun
<1>2. lock' # "backup"
  BY StoresAssumption DEF Release, Backup
<1>3. UNCHANGED <<discarded, outlived>>
  BY DEF RunStep, Others
<1>4. LockInv'
  BY <1>2, RunKeepsScans DEF RunSafe, LockInv
<1>5. RunInv'
  BY <1>1 DEF RunInv
<1>6. CoverInv'
  BY <1>2, <1>3 DEF RunSafe, CoverInv
<1>7. EntriesInv'
  BY <1>1 DEF RunSafe, EntriesInv, Functional
<1>. QED
  BY <1>4, <1>5, <1>6, <1>7 DEF RunSafe

\* The steps up to the run's own base backup.
LEMMA RunPushes ==
    ASSUME CustodyTypeOK, RunSafe, RunStep,
           (\E p \in Points : StartRun(p)) \/ ListBases \/ BackupPush \/ PushElsewhere
               \/ FindNewBackup
    PROVE  RunSafe'
<1>0. /\ run \in RunState /\ points \in [Points -> Point] /\ bases \in Seq(SUBSET Objects)
      /\ Len(bases) \in Nat /\ Present \in SUBSET Objects
      /\ LockInv /\ RunInv /\ CoverInv /\ EntriesInv
      /\ UNCHANGED <<discarded, outlived, objects>> /\ Present' = Present
  BY DEF CustodyTypeOK, BackupType, Present, RunSafe, RunStep, Others
<1>1. ASSUME NEW p \in Points, StartRun(p) PROVE RunSafe'
  <2>1. /\ run'.pc = "list_bases" /\ run'.point = p /\ run'.listed = {} /\ run'.entries = {}
        /\ run'.todo = {}
    BY <1>1, Zenon DEF StartRun, NoRun
  <2>2. points' = [points EXCEPT ![p] = [points[p] EXCEPT !.marker = TRUE]]
    BY <1>0, <1>1, Zenon DEF StartRun, Begin
  <2>3. \A q \in Points : /\ points'[q].reported = points[q].reported
                          /\ points'[q].base = points[q].base
                          /\ points'[q].entries = points[q].entries
    BY <1>0, <2>2 DEF Point
  <2>4. ~points[p].reported /\ restore'.pc = "idle" /\ UNCHANGED bases
    <3>1. points[p] = NoPoint /\ restore'.pc = "idle" /\ UNCHANGED bases
      BY <1>1, Zenon DEF StartRun
    <3>. QED
      BY <3>1 DEF NoPoint
  <2>5. LockInv'
    BY <1>0, <2>1, RunKeepsScans, Zenon DEF LockInv
  <2>6. RunInv'
    BY <2>1, <2>3, <2>4 DEF RunInv
  <2>7. CoverInv'
    BY <1>0, <2>1, <2>3, <2>4, ReportedStays DEF CoverInv
  <2>8. EntriesInv'
    BY <1>0, <2>1, <2>3, Zenon DEF EntriesInv, Functional
  <2>. QED
    BY <2>5, <2>6, <2>7, <2>8 DEF RunSafe
<1>2. CASE ListBases
  <2>1. /\ run.pc = "list_bases" /\ run'.pc = "push" /\ run'.before = Len(bases)
        /\ run'.point = run.point /\ run'.listed = run.listed /\ run'.entries = run.entries
        /\ run'.todo = run.todo
    BY <1>0, <1>2 DEF ListBases, RunState
  <2>2. UNCHANGED <<lock, points, bases, restore>>
    BY <1>2 DEF ListBases
  <2>3. LockInv'
    BY <2>1, RunKeepsScans, <1>0 DEF LockInv
  <2>4. RunInv'
    BY <1>0, <2>1, <2>2 DEF RunInv
  <2>5. CoverInv'
    BY <1>0, <2>1, <2>2 DEF CoverInv
  <2>6. EntriesInv'
    BY <1>0, <2>1, <2>2 DEF EntriesInv
  <2>. QED
    BY <2>3, <2>4, <2>5, <2>6 DEF RunSafe
<1>3. CASE BackupPush \/ PushElsewhere
  <2>1. /\ \/ run.pc = "push" /\ run'.pc = "find_new"
           \/ run.pc # "idle" /\ run'.pc = run.pc
        /\ run'.point = run.point /\ run'.before = run.before /\ run'.base = run.base
        /\ run'.todo = run.todo /\ run'.listed = run.listed /\ run'.entries = run.entries
    BY <1>0, <1>3 DEF BackupPush, PushElsewhere, RunState
  <2>2. UNCHANGED <<lock, points, restore>> /\ bases' = Append(bases, Present)
    BY <1>3 DEF BackupPush, PushElsewhere
  <2>3. /\ Len(bases') = Len(bases) + 1 /\ bases'[Len(bases) + 1] = Present
        /\ \A i \in 1 .. Len(bases) : bases'[i] = bases[i]
    BY <1>0, <2>2
  <2>4. run.before \in Nat /\ run.base \in Nat
    BY <1>0 DEF RunState
  <2>5. LockInv'
    BY <1>0, <2>1, <2>2, RunKeepsScans DEF LockInv
  <2>6. RunInv'
    BY <1>0, <2>1, <2>2, <2>3, <2>4 DEF RunInv
  <2>7. ASSUME lock' = "backup", ~outlived', run'.pc \in {"push", "find_new"},
               NEW i \in run'.before + 1 .. Len(bases')
        PROVE  bases'[i] \ discarded' \subseteq Present'
    <3>1. run.pc \in {"push", "find_new"} /\ lock = "backup" /\ ~outlived
      BY <1>0, <2>1, <2>2, <2>7
    <3>2. CASE i = Len(bases) + 1
      BY <1>0, <2>3, <3>2
    <3>3. CASE i # Len(bases) + 1
      <4>1. i \in run.before + 1 .. Len(bases) /\ i \in 1 .. Len(bases)
        BY <1>0, <2>1, <2>3, <2>4, <2>7, <3>3
      <4>. QED
        BY <1>0, <2>3, <3>1, <4>1 DEF CoverInv
    <3>. QED
      BY <3>2, <3>3
  <2>8. ASSUME lock' = "backup", ~outlived',
               run'.pc \in {"tenants", "copy", "stream", "manifest", "clear"},
               NEW o \in bases'[run'.base] \ discarded'
        PROVE  \/ o \in Present' /\ (TenantOf[o] \in run'.todo \/ o \in run'.listed)
               \/ HasEntry(o, run'.entries)
    <3>1. /\ run.pc \in {"tenants", "copy", "stream", "manifest", "clear"}
          /\ lock = "backup" /\ ~outlived
      BY <1>0, <2>1, <2>2, <2>8
    <3>2. run.base \in 1 .. Len(bases) /\ o \in bases[run.base] \ discarded
      BY <1>0, <2>1, <2>3, <2>8, <3>1 DEF RunInv
    <3>. QED
      BY <1>0, <2>1, <3>1, <3>2 DEF CoverInv
  <2>9. CoverInv'
    BY <1>0, <2>2, <2>7, <2>8, ReportedStays, Zenon DEF CoverInv
  <2>10. EntriesInv'
    BY <1>0, <2>1, <2>2, Zenon DEF EntriesInv
  <2>. QED
    BY <2>5, <2>6, <2>9, <2>10 DEF RunSafe
<1>4. CASE FindNewBackup
  <2>1. CASE Len(bases) # run.before + 1
    BY <1>4, <2>1, RunStops DEF FindNewBackup
  <2>2. CASE Len(bases) = run.before + 1
    <3>1. /\ run.pc = "find_new" /\ run'.pc = "tenants" /\ run'.base = Len(bases)
          /\ run'.point = run.point /\ run'.todo = Tenants /\ run'.listed = run.listed
          /\ run'.entries = run.entries
      BY <1>0, <1>4, <2>2, Zenon DEF FindNewBackup, RunState
    <3>2. UNCHANGED <<lock, points, bases, restore>> /\ run.before \in Nat
      BY <1>0, <1>4, <2>2 DEF FindNewBackup, RunState
    <3>3. LockInv'
      BY <1>0, <3>1, RunKeepsScans, Zenon DEF LockInv
    <3>4. RunInv'
      BY <1>0, <2>2, <3>1, <3>2 DEF RunInv
    <3>5. ASSUME lock' = "backup", ~outlived', NEW o \in bases'[run'.base] \ discarded'
          PROVE  o \in Present' /\ TenantOf[o] \in run'.todo
      <4>1. o \in Present
        BY <1>0, <2>2, <3>1, <3>2, <3>5 DEF CoverInv
      <4>. QED
        BY <1>0, <3>1, <4>1, StoresAssumption DEF Present
    <3>6. CoverInv'
      BY <1>0, <3>1, <3>2, <3>5, ReportedStays, Zenon DEF CoverInv
    <3>7. EntriesInv'
      BY <1>0, <3>1, <3>2, Zenon DEF EntriesInv, RunInv
    <3>. QED
      BY <3>3, <3>4, <3>6, <3>7 DEF RunSafe
  <2>. QED
    BY <2>1, <2>2
<1>. QED
  BY <1>1, <1>2, <1>3, <1>4

\* The steps that copy the tenants' objects.
LEMMA RunCopies ==
    ASSUME CustodyTypeOK, RunSafe, RunStep, ListObjects \/ SnapshotObject \/ EndTenant
    PROVE  RunSafe'
<1>0. /\ run \in RunState /\ Present \subseteq Objects
      /\ objects \in [Objects -> Contents \cup {Absent}]
      /\ LockInv /\ RunInv /\ CoverInv /\ EntriesInv
      /\ UNCHANGED <<discarded, outlived, objects>> /\ Present' = Present
  BY DEF CustodyTypeOK, StoresType, BackupType, Present, RunSafe, RunStep, Others
<1>1. UNCHANGED <<lock, points, bases, restore>>
  BY Zenon DEF ListObjects, SnapshotObject, EndTenant
<1>. DEFINE At == {"tenants", "copy", "stream", "manifest", "clear"}
            Covered(o) == \/ o \in Present /\ (TenantOf[o] \in run.todo \/ o \in run.listed)
                         \/ HasEntry(o, run.entries)
\* What such a step has to keep.
<1>2. ASSUME run.pc \in {"tenants", "copy"}, run'.pc \in {"tenants", "copy", "stream"},
             run'.point = run.point, run'.base = run.base,
             run'.pc = "stream" => run'.todo = {}, run'.pc # "copy" => run'.listed = {},
             \A o \in Objects : Covered(o) => Covered(o)',
             EntriesInv'
      PROVE  RunSafe'
  <2>1. LockInv'
    BY <1>0, <1>2, RunKeepsScans DEF LockInv
  <2>2. RunInv'
    BY <1>0, <1>1, <1>2 DEF RunInv
  <2>3. ASSUME lock' = "backup", ~outlived', NEW o \in bases'[run'.base] \ discarded'
        PROVE  Covered(o)'
    <3>1. Covered(o)
      BY <1>0, <1>1, <1>2, <2>3, Zenon DEF CoverInv
    <3>2. o \in Objects
      <4>1. run.base \in 1 .. Len(bases) /\ bases \in Seq(SUBSET Objects)
        BY <1>0, <1>2 DEF RunInv, CustodyTypeOK, BackupType
      <4>. QED
        BY <1>1, <1>2, <2>3, <4>1
    <3>. QED
      BY <1>2, <3>1, <3>2
  <2>4. CoverInv'
    BY <1>0, <1>1, <1>2, <2>3, Zenon DEF CoverInv
  <2>. QED
    BY <1>2, <2>1, <2>2, <2>4 DEF RunSafe
<1>3. CASE ListObjects
  <2>1. CASE run.todo = {}
    <3>1. /\ run.pc = "tenants" /\ run'.pc = "stream" /\ run'.point = run.point
          /\ run'.base = run.base /\ run'.todo = run.todo /\ run'.listed = run.listed
          /\ run'.entries = run.entries
      BY <1>0, <1>3, <2>1 DEF ListObjects, RunState
    <3>2. EntriesInv'
      BY <1>0, <1>1, <3>1 DEF EntriesInv
    <3>. QED
      BY <1>0, <1>2, <2>1, <3>1, <3>2, Zenon DEF RunInv
  <2>2. CASE run.todo # {}
    <3>1. PICK t \in run.todo :
             run' = [run EXCEPT !.todo = @ \ {t}, !.tenant = t, !.pc = "copy",
                                !.listed = {o \in Present : TenantOf[o] = t}]
      BY <1>3, <2>2, Zenon DEF ListObjects
    <3>2. /\ run.pc = "tenants" /\ run'.pc = "copy" /\ run'.point = run.point
          /\ run'.base = run.base /\ run'.todo = run.todo \ {t}
          /\ run'.listed = {o \in Present : TenantOf[o] = t} /\ run'.entries = run.entries
      BY <1>0, <1>3, <3>1, Zenon DEF ListObjects, RunState
    <3>3. run.listed = {}
      BY <1>0, <3>2 DEF RunInv
    <3>4. \A o \in Objects : Covered(o) => Covered(o)'
      BY <1>0, <3>2, <3>3
    <3>5. EntriesInv'
      BY <1>0, <1>1, <3>2 DEF EntriesInv
    <3>. QED
      BY SMTT(20), <1>2, <3>2, <3>4, <3>5
  <2>. QED
    BY <2>1, <2>2
<1>4. CASE SnapshotObject
  <2>1. PICK o \in run.listed :
          IF objects[o] = Absent
          THEN run' = [run EXCEPT !.listed = @ \ {o}]
          ELSE run' = [run EXCEPT !.listed = @ \ {o}, !.entries = @ \cup {<<o, objects[o]>>}]
    BY <1>4, Zenon DEF SnapshotObject
  <2>2. run.pc = "copy" /\ o \in Objects
    BY <1>0, <1>4, Zenon DEF SnapshotObject, RunState
  <2>3. CASE objects[o] = Absent
    <3>1. /\ run'.pc = "copy" /\ run'.point = run.point /\ run'.base = run.base
          /\ run'.todo = run.todo /\ run'.listed = run.listed \ {o} /\ run'.entries = run.entries
      BY <1>0, <2>1, <2>2, <2>3 DEF RunState
    <3>2. o \notin Present
      BY <2>3 DEF Present
    <3>3. \A x \in Objects : Covered(x) => Covered(x)'
      <4>1. ASSUME NEW x \in Objects, Covered(x) PROVE Covered(x)'
        BY <1>0, <3>1, <3>2, <4>1
      <4>. QED
        BY <4>1
    <3>4. EntriesInv'
      BY <1>0, <1>1, <3>1 DEF EntriesInv
    <3>. QED
      BY <1>2, <2>2, <3>1, <3>3, <3>4, Zenon
  <2>4. CASE objects[o] # Absent
    <3>1. /\ run'.pc = "copy" /\ run'.point = run.point /\ run'.base = run.base
          /\ run'.todo = run.todo /\ run'.listed = run.listed \ {o}
          /\ run'.entries = run.entries \cup {<<o, objects[o]>>}
      BY <1>0, <2>1, <2>2, <2>4, Zenon DEF RunState
    <3>2. objects[o] \in Contents
      BY <1>0, <2>2, <2>4
    <3>3. HasEntry(o, run'.entries) /\ \A x : HasEntry(x, run.entries) => HasEntry(x, run'.entries)
      BY <3>1, <3>2 DEF HasEntry
    <3>4. \A x \in Objects : Covered(x) => Covered(x)'
      <4>1. ASSUME NEW x \in Objects, Covered(x) PROVE Covered(x)'
        BY <1>0, <3>1, <3>3, <4>1
      <4>. QED
        BY <4>1
    <3>5. EntriesInv'
      <4>1. /\ \A e \in run.entries : TenantOf[e[1]] \notin run.todo /\ e[1] # o
            /\ TenantOf[o] \notin run.todo /\ \A x \in run.listed : TenantOf[x] \notin run.todo
            /\ \A e \in run.entries : e[1] \notin run.listed
        BY <1>0 DEF EntriesInv
      <4>2. \A e \in run'.entries : e \in run.entries \/ (e = <<o, objects[o]>> /\ e[1] = o)
        BY <3>1
      <4>3. Functional(run'.entries)
        BY <1>0, <4>1, <4>2 DEF EntriesInv, Functional
      <4>. QED
        BY <1>0, <1>1, <3>1, <4>1, <4>2, <4>3 DEF EntriesInv
    <3>. QED
      BY <1>2, <2>2, <3>1, <3>4, <3>5, Zenon
  <2>. QED
    BY SMTT(20), <2>3, <2>4
<1>5. CASE EndTenant
  <2>1. /\ run.pc = "copy" /\ run'.pc = "tenants" /\ run'.point = run.point
        /\ run'.base = run.base /\ run'.todo = run.todo /\ run'.listed = run.listed
        /\ run.listed = {} /\ run'.entries = run.entries
    BY <1>0, <1>5 DEF EndTenant, RunState
  <2>2. EntriesInv'
    BY <1>0, <1>1, <2>1 DEF EntriesInv
  <2>. QED
    BY <1>0, <1>2, <2>1, <2>2, Zenon
<1>. QED
  BY <1>3, <1>4, <1>5

\* The steps that capture the stream and commit the point.
LEMMA RunCommits ==
    ASSUME CustodyTypeOK, RunSafe, RunStep,
           FailRun \/ SnapshotStream \/ WriteManifest \/ ClearInProgress
    PROVE  RunSafe'
<1>0. /\ run \in RunState /\ points \in [Points -> Point]
      /\ LockInv /\ RunInv /\ CoverInv /\ EntriesInv
      /\ UNCHANGED <<discarded, outlived, objects>> /\ Present' = Present
  BY DEF CustodyTypeOK, BackupType, Present, RunSafe, RunStep, Others
<1>1. run.pc # "idle" /\ run.point \in Points /\ ~points[run.point].reported
      /\ UNCHANGED <<bases, restore>> /\ restore.pc = "idle"
  BY <1>0, Zenon DEF FailRun, SnapshotStream, WriteManifest, ClearInProgress, RunInv
<1>2. CASE FailRun
  BY <1>2, RunStops DEF FailRun
<1>3. CASE SnapshotStream
  <2>1. CASE stream = Absent
    BY <1>3, <2>1, RunStops DEF SnapshotStream
  <2>2. CASE stream # Absent
    <3>1. points' = [points EXCEPT ![run.point] = [points[run.point] EXCEPT !.file = stream]]
      BY <1>0, <1>3, <2>2, Zenon DEF SnapshotStream
    <3>2. \A q \in Points : /\ points'[q].reported = points[q].reported
                            /\ points'[q].base = points[q].base
                            /\ points'[q].entries = points[q].entries
      BY <1>0, <3>1 DEF Point
    <3>3. /\ run.pc = "stream" /\ run'.pc = "manifest" /\ run'.point = run.point
          /\ run'.base = run.base /\ run'.todo = run.todo /\ run'.listed = run.listed
          /\ run'.entries = run.entries /\ UNCHANGED lock
      BY <1>0, <1>3, <2>2, ZenonT(30) DEF SnapshotStream, RunState
    <3>4. LockInv'
      BY <1>0, <3>3, RunKeepsScans DEF LockInv
    <3>5. RunInv'
      BY <1>0, <1>1, <3>2, <3>3 DEF RunInv
    <3>6. CoverInv'
      BY <1>0, <1>1, <3>2, <3>3, ReportedStays DEF CoverInv
    <3>7. EntriesInv'
      BY <1>0, <3>2, <3>3, Zenon DEF EntriesInv
    <3>. QED
      BY <3>4, <3>5, <3>6, <3>7 DEF RunSafe
  <2>. QED
    BY <2>1, <2>2
<1>4. CASE WriteManifest
  <2>. DEFINE v == [points[run.point] EXCEPT !.manifest = TRUE, !.base = run.base,
                       !.entries = run.entries, !.capture = run.capture]
  <2>1. points' = [points EXCEPT ![run.point] = v]
    BY <1>0, <1>4, Zenon DEF WriteManifest
  <2>2. v.reported = points[run.point].reported /\ v.base = run.base /\ v.entries = run.entries
    BY <1>0, <1>1 DEF Point
  <2>. HIDE DEF v
  <2>3. \A q \in Points : points'[q] = IF q = run.point THEN v ELSE points[q]
    BY <1>0, <2>1
  <2>4. /\ run.pc = "manifest" /\ run'.pc = "clear" /\ run'.point = run.point
        /\ run'.base = run.base /\ run'.todo = run.todo /\ run'.listed = run.listed
        /\ run'.entries = run.entries /\ UNCHANGED lock
    BY <1>0, <1>4 DEF WriteManifest, RunState
  <2>5. LockInv'
    BY <1>0, <2>4, RunKeepsScans DEF LockInv
  <2>6. RunInv'
    BY <1>0, <1>1, <2>2, <2>3, <2>4 DEF RunInv
  <2>7. \A p \in Points : points'[p].reported => points'[p] = points[p]
    BY <1>1, <2>2, <2>3
  <2>8. CoverInv'
    BY <1>0, <1>1, <2>4, <2>7 DEF CoverInv
  <2>9. EntriesInv'
    BY <1>0, <2>2, <2>3, <2>4, Zenon DEF EntriesInv
  <2>. QED
    BY <2>5, <2>6, <2>8, <2>9 DEF RunSafe
<1>5. CASE ClearInProgress
  <2>1. PICK cleared \in BOOLEAN :
          points' = [points EXCEPT ![run.point] =
                       [@ EXCEPT !.marker = ~cleared,
                                 !.reported = cleared /\ Unlocked(Backup)]]
    BY <1>5, Zenon DEF ClearInProgress
  <2>. DEFINE v == [points[run.point] EXCEPT !.marker = ~cleared,
                                             !.reported = cleared /\ Unlocked(Backup)]
  <2>2. points' = [points EXCEPT ![run.point] = v]
    BY <1>0, <2>1, Zenon
  <2>3. /\ v.base = points[run.point].base /\ v.entries = points[run.point].entries
        /\ v.reported = (cleared /\ lock = "backup")
    BY <1>0, <1>1 DEF Point, Unlocked, Backup
  <2>. HIDE DEF v
  <2>4. \A q \in Points : points'[q] = IF q = run.point THEN v ELSE points[q]
    BY <1>0, <2>2
  <2>5. /\ run.pc = "clear" /\ run'.pc = "idle" /\ run'.todo = {} /\ run'.listed = {}
        /\ run'.entries = {} /\ lock' # "backup"
    BY <1>5, StoresAssumption, Zenon DEF ClearInProgress, NoRun, Release, Backup
  <2>6. LockInv'
    BY <1>0, <2>5, RunKeepsScans DEF LockInv
  <2>7. RunInv'
    BY <2>5 DEF RunInv
  <2>8. ASSUME ~outlived', NEW p \in Points, points'[p].reported
        PROVE  /\ points'[p].base \in 1 .. Len(bases')
               /\ \A o \in bases'[points'[p].base] \ discarded' : HasEntry(o, points'[p].entries)
    <3>1. CASE p # run.point
      BY <1>0, <1>1, <2>4, <2>8, <3>1 DEF CoverInv
    <3>2. CASE p = run.point
      <4>1. lock = "backup" /\ ~outlived
        BY <1>0, <2>3, <2>4, <2>8, <3>2, Zenon
      <4>2. /\ run.base \in 1 .. Len(bases) /\ run.todo = {} /\ run.listed = {}
            /\ points[p].entries = run.entries /\ points[p].base = run.base
        BY <1>0, <2>5, <3>2 DEF RunInv
      <4>3. \A o \in bases[run.base] \ discarded : HasEntry(o, run.entries)
        BY <1>0, <2>5, <4>1, <4>2 DEF CoverInv
      <4>. QED
        BY <1>0, <1>1, <2>3, <2>4, <3>2, <4>2, <4>3
    <3>. QED
      BY <3>1, <3>2
  <2>9. CoverInv'
    BY <2>5, <2>8 DEF CoverInv
  <2>10. EntriesInv'
    BY <1>0, <2>3, <2>4, <2>5 DEF EntriesInv, Functional
  <2>. QED
    BY <2>6, <2>7, <2>9, <2>10 DEF RunSafe
<1>. QED
  BY <1>2, <1>3, <1>4, <1>5

\* The run itself.
LEMMA RunSafeRun ==
    ASSUME CustodyTypeOK, RunSafe, RunStep
    PROVE  RunSafe'
BY RunPushes, RunCopies, RunCommits DEF RunStep, RunNext

\* The daemon, and the loss of a lock session.
LEMMA RunSafeDaemon ==
    ASSUME CustodyTypeOK, RunSafe, DaemonStep
    PROVE  RunSafe'
<1>0. LockInv /\ RunInv /\ CoverInv /\ EntriesInv
  BY DEF RunSafe
<1>1. UNCHANGED <<scan, points, bases, run, restore>>
  BY DEF DaemonStep, retentionVars, backupVars
<1>2. RunInv' /\ EntriesInv'
  BY <1>0, <1>1 DEF RunInv, EntriesInv
<1>3. CASE LoseLock
  <2>1. /\ lock' # "backup" /\ UNCHANGED <<discarded, objects>> /\ (~outlived' => ~outlived /\ lock = "backup")
    BY <1>3, StoresAssumption, Zenon DEF LoseLock
  <2>2. LockInv'
    BY <1>0, <1>1, <2>1, ScannersAssumption DEF LockInv
  <2>3. CoverInv'
    BY <1>0, <1>1, <2>1 DEF CoverInv
  <2>. QED
    BY <1>2, <2>2, <2>3 DEF RunSafe
<1>4. CASE Tick \/ Daemon
  <2>1. UNCHANGED <<lock, outlived>>
    BY <1>4, Zenon DEF Tick, Daemon, WriteChild, CompleteJob, PutObject, DiscardDocument
  <2>2. LockInv'
    BY <1>0, <1>1, <2>1 DEF LockInv
  <2>3. discarded \subseteq discarded' /\ Present \ discarded' \subseteq Present'
    <3>1. objects \in [Objects -> Contents \cup {Absent}]
      BY DEF CustodyTypeOK, StoresType
    <3>2. CASE UNCHANGED <<objects, discarded>>
      BY <3>2 DEF Present
    <3>3. ASSUME NEW o \in Objects, NEW c \in Contents, PutObject(o, c)
          PROVE  discarded \subseteq discarded' /\ Present \ discarded' \subseteq Present'
      BY <3>1, <3>3, StoresAssumption DEF PutObject, Present
    <3>4. ASSUME NEW o \in Objects, DiscardDocument(o)
          PROVE  discarded \subseteq discarded' /\ Present \ discarded' \subseteq Present'
      BY <3>1, <3>4 DEF DiscardDocument, Present
    <3>. QED
      BY <1>4, <3>2, <3>3, <3>4 DEF Tick, Daemon, WriteChild, CompleteJob
  <2>4. CoverInv'
    BY <1>0, <1>1, <2>1, <2>3 DEF CoverInv
  <2>. QED
    BY <1>2, <2>2, <2>4 DEF RunSafe
<1>. QED
  BY <1>3, <1>4 DEF DaemonStep

\* A scan purges only while it, and not a run, has the lock, unless its
\* session dropped.
LEMMA RunSafeScan ==
    ASSUME CustodyTypeOK, ScanInv, RunSafe, NEW s \in Scanners, ScannerStep(s)
    PROVE  RunSafe'
<1>0. /\ LockInv /\ RunInv /\ CoverInv /\ EntriesInv
      /\ s \notin {Free, "backup"} /\ \A x \in Scanners : x # Free
      /\ Free # "backup"
  BY ScannersAssumption, StoresAssumption DEF RunSafe
<1>1. UNCHANGED <<points, bases, run, restore, discarded, outlived>>
  BY DEF ScannerStep, Others, backupVars
<1>2. RunInv' /\ EntriesInv'
  BY <1>0, <1>1, Zenon DEF RunInv, EntriesInv
<1>3. CASE Resets(s)
  <2>1. PICK v \in ScanState :
          /\ scan' = [scan EXCEPT ![s] = v] /\ v.pc \in {"idle", "next_tenant", "holds"}
          /\ IF v.pc = "holds" /\ ~v.dry
             THEN lock = Free /\ lock' = s
             ELSE lock' \in {lock, IF lock = s THEN Free ELSE lock}
          /\ UNCHANGED objects
    BY <1>3, Zenon DEF Resets
  <2>2. \A x \in Scanners : scan'[x] = IF x = s THEN v ELSE scan[x]
    BY <2>1 DEF CustodyTypeOK, RetentionType
  <2>3. lock' = "backup" => lock = "backup"
    BY <1>0, <2>1
  <2>4. ASSUME ~outlived', NEW x \in Scanners, scan'[x].pc \in ScanPCs, ~scan'[x].dry
        PROVE  lock' = x
    <3>1. CASE x = s
      BY <2>1, <2>2, <2>4, <3>1 DEF ScanPCs
    <3>2. CASE x # s
      <4>1. lock = x
        BY <1>0, <1>1, <2>2, <2>4, <3>2 DEF LockInv
      <4>. QED
        BY <1>0, <2>1, <3>2, <4>1
    <3>. QED
      BY <3>1, <3>2
  <2>5. LockInv'
    BY <1>0, <1>1, <2>3, <2>4 DEF LockInv
  <2>6. CoverInv'
    BY <1>0, <1>1, <2>1, <2>3, Zenon DEF CoverInv, Present
  <2>. QED
    BY <1>2, <2>5, <2>6 DEF RunSafe
<1>4. CASE ~Resets(s)
  <2>1. /\ \A x \in Scanners \ {s} : scan'[x] = scan[x]
        /\ scan[s].pc \in ScanPCs /\ lock' = lock /\ scan'[s].dry = scan[s].dry
    BY <1>4, ScanMoves DEF ScannerStep
  <2>2. LockInv'
    BY <1>0, <1>1, <2>1, Zenon DEF LockInv
  <2>3. CASE UNCHANGED objects
    <3>1. CoverInv'
      BY <1>0, <1>1, <2>1, <2>3, Zenon DEF CoverInv, Present
    <3>. QED
      BY <1>2, <2>2, <3>1 DEF RunSafe
  <2>4. CASE ~UNCHANGED objects
    <3>1. scan[s].pc = "purge"
      BY <1>4, <2>4, Zenon DEF ScannerStep, Scans, Loads, Collects, Passes, Takes, Puts, Drops, Purges
    <3>2. ~scan[s].dry
      BY <3>1 DEF ScanInv
    <3>3. lock' = "backup" => outlived'
      BY <1>0, <1>1, <2>1, <3>2 DEF LockInv
    <3>4. CoverInv'
      BY <1>0, <1>1, <3>3, Zenon DEF CoverInv
    <3>. QED
      BY <1>2, <2>2, <3>4 DEF RunSafe
  <2>. QED
    BY <2>3, <2>4
<1>. QED
  BY <1>3, <1>4

\* A restore runs only while no run does.
LEMMA RunSafeRestore ==
    ASSUME CustodyTypeOK, RunSafe, RestoreStep
    PROVE  RunSafe'
<1>0. LockInv /\ RunInv /\ CoverInv /\ EntriesInv /\ points \in [Points -> Point]
  BY DEF RunSafe, CustodyTypeOK, BackupType
<1>1. UNCHANGED <<scan, lock, bases, run, discarded, outlived>>
  BY DEF RestoreStep, Damage, RestoreNext, Disaster, StartRestore, RestoreObject, RestoreStream,
     EndRestore, retentionVars, Others
<1>2. LockInv'
  BY <1>0, <1>1 DEF LockInv
<1>3. \A p \in Points : /\ points'[p].reported = points[p].reported
                        /\ points'[p].base = points[p].base
                        /\ points'[p].entries = points[p].entries
  <2>1. CASE UNCHANGED points
    BY <2>1
  <2>2. CASE ~UNCHANGED points
    <3>1. PICK p \in Points : points' = [points EXCEPT ![p].file = Absent]
      BY <2>2 DEF RestoreStep, Damage, RestoreNext, Disaster, StartRestore, RestoreObject,
         RestoreStream, EndRestore
    <3>. QED
      BY <1>0, <3>1 DEF Point
  <2>. QED
    BY <2>1, <2>2
<1>4. EntriesInv'
  BY <1>0, <1>1, <1>3, Zenon DEF EntriesInv
<1>5. run.pc = "idle" \/ UNCHANGED <<objects, restore>>
  BY <1>0 DEF RunInv, RestoreStep, Damage, RestoreNext, Disaster, StartRestore, RestoreObject,
     RestoreStream, EndRestore
<1>6. RunInv'
  <2>1. run.pc # "idle" => run.point \in Points /\ UNCHANGED restore
    BY <1>0, <1>5 DEF RunInv
  <2>. QED
    BY <1>0, <1>1, <1>3, <2>1, Zenon DEF RunInv
<1>7. CoverInv'
  <2>1. lock' = "backup" => lock = "backup" /\ Present' = Present
    BY <1>0, <1>1, <1>5 DEF LockInv, Present
  <2>. QED
    BY <1>0, <1>1, <1>3, <2>1 DEF CoverInv
<1>. QED
  BY <1>2, <1>4, <1>6, <1>7 DEF RunSafe

\* Every step keeps what is true of the run in progress and of the points.
LEMMA RunSafeNext ==
    ASSUME CustodyTypeOK, ScanInv, RunSafe, [Next]_vars
    PROVE  RunSafe'
<1>1. ASSUME UNCHANGED <<scan, lock, objects, points, bases, run, restore, discarded, outlived>>
      PROVE  RunSafe'
  BY <1>1, Zenon DEF RunSafe, LockInv, RunInv, CoverInv, EntriesInv, Present
<1>2. CASE UNCHANGED vars
  BY <1>1, <1>2 DEF vars, storeVars, retentionVars, backupVars
<1>3. CASE HoldStep
  BY <1>1, <1>3 DEF HoldStep, Holds, Others, backupVars
<1>. QED
  BY <1>2, <1>3, RunSafeDaemon, RunSafeScan, RunSafeRun, RunSafeRestore, StepCases

-----------------------------------------------------------------------------
(* A restore                                                               *)

\* Every step keeps what a restore has written.
LEMMA RestoreInvNext ==
    ASSUME CustodyTypeOK, RunInv, EntriesInv, RestoreInv, [Next]_vars
    PROVE  RestoreInv'
<1>0. /\ restore \in RestoreState /\ points \in [Points -> Point]
      /\ objects \in [Objects -> Contents \cup {Absent}]
  BY DEF CustodyTypeOK, BackupType, StoresType
<1>1. ASSUME restore'.pc # "objects" PROVE RestoreInv'
  BY <1>1 DEF RestoreInv
<1>2. ASSUME UNCHANGED <<objects, points, restore>> PROVE RestoreInv'
  BY <1>2 DEF RestoreInv, Stored, Present
<1>3. CASE UNCHANGED vars
  BY <1>2, <1>3 DEF vars, storeVars, backupVars
<1>4. CASE DaemonStep
  <2>1. CASE Tick \/ LoseLock
    BY <1>2, <1>4, <2>1 DEF DaemonStep, Tick, LoseLock, backupVars
  <2>2. CASE restore.pc = "idle"
    BY <1>1, <1>4, <2>2 DEF DaemonStep, backupVars
  <2>. QED
    BY <1>4, <2>1, <2>2 DEF DaemonStep
<1>5. CASE HoldStep \/ \E s \in Scanners : ScannerStep(s)
  BY <1>1, <1>5 DEF HoldStep, ScannerStep, backupVars
<1>6. CASE RunStep
  <2>1. restore' = restore
    BY <1>6, Zenon DEF RunStep, RunNext, StartRun, FailRun, ListBases, BackupPush, PushElsewhere,
       FindNewBackup, ListObjects, SnapshotObject, EndTenant, SnapshotStream, WriteManifest,
       ClearInProgress
  <2>2. run.pc # "idle" \/ restore.pc = "idle"
    BY <1>6, ZenonT(30) DEF RunStep, RunNext, StartRun, FailRun, ListBases, BackupPush, PushElsewhere,
       FindNewBackup, ListObjects, SnapshotObject, EndTenant, SnapshotStream, WriteManifest,
       ClearInProgress
  <2>. QED
    BY SMTT(20), <1>1, <2>1, <2>2 DEF RunInv
<1>7. CASE Damage
  <2>1. UNCHANGED <<objects, restore>>
    BY <1>7 DEF Damage
  <2>2. \A p \in Points : points'[p].entries = points[p].entries
    <3>1. UNCHANGED points \/ \E p \in Points : points' = [points EXCEPT ![p].file = Absent]
      BY <1>7 DEF Damage
    <3>. QED
      BY <1>0, <3>1 DEF Point
  <2>. QED
    BY <2>1, <2>2 DEF RestoreInv, Stored, Present
<1>8. CASE Disaster \/ EndRestore \/ RestoreStream
  BY <1>0, <1>1, <1>8 DEF Disaster, EndRestore, RestoreStream, RestoreState, NoRestore
<1>9. ASSUME NEW p \in Points, StartRestore(p) PROVE RestoreInv'
  <2>1. CASE restore' = NoRestore
    BY <1>1, <2>1 DEF NoRestore
  <2>2. CASE restore' # NoRestore
    <3>1. /\ restore' = [pc |-> "objects", point |-> p, todo |-> points[p].entries]
          /\ Present = {} /\ UNCHANGED <<objects, points>>
      BY <1>9, <2>2 DEF StartRestore, preflightObjects
    <3>2. Stored' = {}
      BY <3>1 DEF Stored, Present
    <3>. QED
      BY <3>1, <3>2 DEF RestoreInv
  <2>. QED
    BY <2>1, <2>2
<1>10. CASE RestoreObject
  <2>1. PICK e \in restore.todo :
           \/ /\ objects' = [objects EXCEPT ![e[1]] = e[2]]
              /\ restore' = [restore EXCEPT !.todo = restore.todo \ {e}]
           \/ restore' = NoRestore
    BY <1>10 DEF RestoreObject
  <2>2. CASE restore' = NoRestore
    BY <1>1, <2>2 DEF NoRestore
  <2>3. CASE restore' # NoRestore
    <3>. DEFINE E == points[restore.point].entries
    <3>1. /\ restore.point \in Points /\ restore.todo \subseteq E /\ Stored = E \ restore.todo
          /\ UNCHANGED points
      BY <1>10 DEF RestoreInv, RestoreObject
    <3>2. restore'.point = restore.point /\ restore'.todo = restore.todo \ {e}
      BY <1>0, <2>1, <2>3 DEF RestoreState
    <3>3. e \in Objects \X Contents /\ e = <<e[1], e[2]>> /\ e[2] # Absent
      BY <1>0, StoresAssumption DEF RestoreState, Entry
    <3>4. Functional(E)
      BY <3>1 DEF EntriesInv
    <3>5. e[1] \notin Present
      <4>1. SUFFICES ASSUME e[1] \in Present PROVE FALSE
        OBVIOUS
      <4>2. <<e[1], objects[e[1]]>> \in E \ restore.todo
        BY <3>1, <4>1 DEF Stored
      <4>3. <<e[1], objects[e[1]]>> = e
        BY <3>1, <3>4, <4>2 DEF Functional
      <4>. QED
        BY <4>2, <4>3
    <3>6. Stored' = Stored \cup {e}
      <4>1. \A o \in Objects : objects'[o] = IF o = e[1] THEN e[2] ELSE objects[o]
        BY <1>0, <2>1, <2>3
      <4>2. Present' = Present \cup {e[1]}
        BY <3>3, <4>1 DEF Present
      <4>3. Stored' = {<<o, objects'[o]>> : o \in Present \cup {e[1]}}
        BY <4>2 DEF Stored
      <4>4. \A o \in Present : objects'[o] = objects[o]
        BY <3>5, <4>1 DEF Present
      <4>5. objects'[e[1]] = e[2]
        BY <3>3, <4>1
      <4>. QED
        BY <3>3, <4>3, <4>4, <4>5 DEF Stored
    <3>7. E' = E
      BY <3>1, <3>2
    <3>. QED
      BY <3>1, <3>2, <3>6, <3>7 DEF RestoreInv
  <2>. QED
    BY <2>2, <2>3
<1>. QED
  BY <1>3, <1>4, <1>5, <1>6, <1>7, <1>8, <1>9, <1>10, StepCases DEF RestoreStep, RestoreNext

-----------------------------------------------------------------------------
(* The theorems                                                            *)

\* The invariant holds initially.
LEMMA CustodyInvInit == Init => CustodyInv
<1>. SUFFICES ASSUME Init PROVE CustodyInv
  OBVIOUS
<1>1. CustodyTypeOK
  BY CustodyTypeInit
<1>2. /\ \A s \in Scanners : scan[s] = NoScan
      /\ holds = {} /\ purged = {} /\ \A i \in Items : archive[i] = Absent
      /\ outlived = FALSE /\ lock = Free
  BY DEF Init, InitStores, InitRetention
<1>3. /\ run = NoRun /\ restore = NoRestore /\ \A p \in Points : points[p] = NoPoint
  BY DEF Init, InitBackup
<1>4. NoScan.pc = "idle" /\ NoScan.queue = {} /\ NoScan.placed = {}
  BY DEF NoScan
<1>5. /\ NoRun.pc = "idle" /\ NoRun.entries = {} /\ NoRun.listed = {} /\ NoRun.todo = {}
      /\ NoRestore.pc = "idle" /\ NoRestore.todo = {}
      /\ NoPoint.entries = {} /\ ~NoPoint.reported
  BY DEF NoRun, NoRestore, NoPoint
<1>6. ScanInv
  BY <1>2, <1>4 DEF ScanInv
<1>7. HoldsInv
  BY <1>2, <1>4, FS_EmptySet, Zenon DEF HoldsInv
<1>8. CopiesInv
  <2>1. AllEntries = {}
    BY <1>3, <1>5 DEF AllEntries
  <2>2. \A i \in Items : Copies(i) = {}
    <3>1. \A i : BackedUp(i) = {} /\ Deleted(i) = {}
      BY <1>2, <2>1 DEF BackedUp, Deleted
    <3>2. \A i : Handled(i) = {}
      BY <1>2, <1>4 DEF Handled, InHand
    <3>3. \A i \in Items : Archived(i) = {}
      BY <1>2 DEF Archived
    <3>. QED
      BY <3>1, <3>2, <3>3 DEF Copies
  <2>3. Jobs \cup Objects \cup AttestationObjects \subseteq Items
    BY DEF Items, DBRows, AttestationObjects
  <2>4. \A o : Deleted(o) = {}
    BY <1>2 DEF Deleted
  <2>. QED
    BY SMTT(20), <2>2, <2>3, <2>4 DEF CopiesInv
<1>9. ArchiveInv
  BY <1>2, <1>4 DEF ArchiveInv
<1>10. LockInv
  BY <1>2, <1>4, StoresAssumption DEF LockInv, ScanPCs
<1>11. RunInv
  BY SMTT(20), <1>3, <1>5 DEF RunInv
<1>12. CoverInv
  BY SMTT(20), <1>2, <1>3, <1>5, StoresAssumption DEF CoverInv
<1>13. EntriesInv
  BY <1>3, <1>5 DEF EntriesInv, Functional
<1>14. RestoreInv
  BY <1>3, <1>5 DEF RestoreInv
<1>. QED
  BY <1>1, <1>6, <1>7, <1>8, <1>9, <1>10, <1>11, <1>12, <1>13, <1>14 DEF CustodyInv

\* Every step keeps the invariant.
LEMMA CustodyInvNext == CustodyInv /\ [Next]_vars => CustodyInv'
<1>. SUFFICES ASSUME CustodyInv, [Next]_vars PROVE CustodyInv'
  OBVIOUS
<1>1. RunSafe'
  BY RunSafeNext DEF CustodyInv, RunSafe
<1>. QED
  BY <1>1, CustodyTypeNext, ScanInvNext, HoldsInvNext, CopiesInvNext, ArchiveInvNext, RestoreInvNext
     DEF CustodyInv, RunSafe

\* The inductive invariant holds in every reachable state of retention, backup
\* and restore.
THEOREM CustodyIsKept == Spec => []CustodyInv
BY CustodyInvInit, CustodyInvNext, PTL DEF Spec

\* Archive before purge (engine.go): whatever a scan deleted of a job or an
\* object is in the archive, as it was when it was deleted, although the copy
\* and the deletion are separate steps, either may fail, restores may put
\* older contents back, and scans may overlap once a lock session dropped.
THEOREM NothingIsPurgedUnarchived == Spec => []PurgedIsArchived
<1>1. CustodyInv => PurgedIsArchived
  <2>. SUFFICES ASSUME CustodyInv, NEW p \in purged, p[1] \notin Catalogs, p[2] # Absent
                PROVE  archive[p[1]] = Archivable(p[1], p[2])
    BY DEF PurgedIsArchived
  <2>1. p[1] \in Items
    BY DEF CustodyInv, CustodyTypeOK, RetentionType
  <2>2. Archivable(p[1], p[2]) \in Deleted(p[1])
    BY DEF Deleted
  <2>3. p[1] \in Jobs \cup AttestationObjects
    BY <2>1, <2>2 DEF CustodyInv, CopiesInv, Items, DBRows
  <2>4. archive[p[1]] \in Archived(p[1])
    BY DEF CustodyInv, ArchiveInv, Archived
  <2>. QED
    BY <2>2, <2>3, <2>4 DEF CustodyInv, CopiesInv, Copies
<1>. QED
  BY <1>1, CustodyIsKept, PTL

\* A scan never purges what a hold covers that was unreleased when the scan
\* loaded the holds (HoldChecker.Held, pgHoldStore.Active), whatever holds are
\* placed and released while it runs.
THEOREM HeldItemsAreNotPurged == Spec => HoldsAreHonoured
<1>1. CustodyInv /\ [Next]_vars =>
        [\A s \in Scanners, h \in holds :
           LET c == scan[s].doc[1]
           IN  (scan[s].pc = "purge" /\ purged' # purged /\ scan'[s].pc # "purge"
                /\ h.name \in scan[s].placed)
               => \/ h.released
                  \/ h.expires # Unset /\ h.expires <= scan[s].at
                  \/ h.scope.tenant # Unset /\ h.scope.tenant # TenantOf[c.id]
                  \/ h.scope.id # Unset /\ h.scope.id # c.id
                  \/ h.scope.before # Unset /\ h.scope.before <= created[c.id]]_vars
  BY NextHonoursHolds DEF CustodyInv
<1>. QED
  BY <1>1, CustodyIsKept, PTL DEF Spec, HoldsAreHonoured

\* A backup run that reports success has an entry for every object its base
\* backup refers to (Service.Run), although objects are uploaded, discarded
\* and purged while it copies and its own lock session may drop.
THEOREM ReportedRunsAreWhole == Spec => []ReportedRunCoversBase
<1>1. CustodyInv => ReportedRunCoversBase
  BY Zenon DEF CustodyInv, CoverInv, ReportedRunCoversBase, HasEntry
<1>. QED
  BY <1>1, CustodyIsKept, PTL

\* A restore that ends without an error leaves exactly the objects and the
\* stream of the point's manifest (Service.Restore), although blobs may be
\* lost while it runs and an earlier restore may have stopped part way.
THEOREM RestoresAreExact == Spec => RestoredIsThePoint
<1>1. ASSUME CustodyInv, [Next]_vars, restore.pc = "objects", restore'.pc = "done"
      PROVE  /\ {<<o, objects'[o]>> : o \in {x \in Objects : objects'[x] # Absent}}
                  = points[restore.point].entries
             /\ stream' = points[restore.point].capture
  <2>0. CustodyTypeOK /\ RunInv /\ RestoreInv /\ restore \in RestoreState /\ restore # restore'
    BY <1>1 DEF CustodyInv, CustodyTypeOK, BackupType
  <2>1. RestoreNext
    <3>1. ~UNCHANGED restore
      BY <2>0
    <3>2. ~RunNext
      BY <3>1, Zenon DEF RunNext, StartRun, FailRun, ListBases, BackupPush, PushElsewhere,
         FindNewBackup, ListObjects, SnapshotObject, EndTenant, SnapshotStream, WriteManifest,
         ClearInProgress
    <3>. QED
      BY <1>1, <3>1, <3>2 DEF Next, Damage, vars, backupVars
  <2>2. ~RestoreObject
    <3>1. SUFFICES ASSUME RestoreObject PROVE FALSE
      OBVIOUS
    <3>2. PICK e \in restore.todo :
             \/ restore' = [restore EXCEPT !.todo = restore.todo \ {e}]
             \/ restore' = NoRestore
      BY <3>1 DEF RestoreObject
    <3>. QED
      BY <1>1, <2>0, <3>2 DEF RestoreState, NoRestore
  <2>3. RestoreStream
    BY <1>1, <2>1, <2>2 DEF RestoreNext, Disaster, StartRestore, EndRestore
  <2>4. /\ restore.todo = {} /\ UNCHANGED objects
        /\ stream' = points[restore.point].file /\ verifyStreams(restore.point)
    BY <1>1, <2>3 DEF RestoreStream, NoRestore
  <2>5. Stored = points[restore.point].entries
    BY <1>1, <2>0, <2>4, Zenon DEF RestoreInv
  <2>. QED
    BY <2>4, <2>5 DEF Stored, Present, verifyStreams
<1>2. CustodyInv /\ [Next]_vars =>
        [restore.pc = "objects" /\ restore'.pc = "done"
         => /\ {<<o, objects'[o]>> : o \in {x \in Objects : objects'[x] # Absent}}
                 = points[restore.point].entries
            /\ stream' = points[restore.point].capture]_vars
  BY <1>1
<1>. QED
  BY <1>2, CustodyIsKept, PTL DEF Spec, RestoredIsThePoint

=============================================================================
