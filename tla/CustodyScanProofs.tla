------------------------- MODULE CustodyScanProofs --------------------------
(***************************************************************************)
(* The steps of retention keep its part of the invariant: what scans have  *)
(* in hand, the holds they know, and every copy of a row or an object, in  *)
(* an archive, a manifest or a store.                                      *)
(***************************************************************************)
EXTENDS CustodyInvariant

-----------------------------------------------------------------------------
(* Scans and holds                                                         *)

\* What is settled stays so.
LEMMA SettledStays ==
    ASSUME CustodyTypeOK, [Next]_vars
    PROVE  /\ finished \subseteq finished'
           /\ \A i \in finished \cup Catalogs \cup AttestationObjects : created'[i] = created[i]
<1>1. CASE UNCHANGED <<finished, created>>
  BY <1>1
<1>2. ASSUME NEW j \in Jobs, CompleteJob(j)
      PROVE  finished \subseteq finished' /\ UNCHANGED created
  BY <1>2 DEF CompleteJob
<1>3. ASSUME NEW o \in Objects, NEW c \in Contents, PutObject(o, c)
      PROVE  /\ UNCHANGED finished
             /\ \A i \in finished \cup Catalogs \cup AttestationObjects : created'[i] = created[i]
  <2>1. o \notin finished \cup Catalogs \cup AttestationObjects
    BY <1>3, StoresAssumption DEF PutObject, AttestationObjects, CustodyTypeOK, StoresType
  <2>2. created' = [created EXCEPT ![o] = now] /\ UNCHANGED finished
    BY <1>3 DEF PutObject
  <2>3. finished \cup Catalogs \cup AttestationObjects \subseteq Items
    BY DEF AttestationObjects, Items, DBRows, CustodyTypeOK, StoresType
  <2>. QED
    BY <2>1, <2>2, <2>3 DEF CustodyTypeOK, StoresType
<1>4. CASE Tick \/ LoseLock \/ Daemon
  <2>1. CASE Tick \/ LoseLock
    BY <1>1, <2>1 DEF Tick, LoseLock
  <2>2. ASSUME NEW r \in DBRows, NEW part, WriteChild(r, part) PROVE UNCHANGED <<finished, created>>
    BY <2>2 DEF WriteChild
  <2>3. ASSUME NEW o \in Objects, DiscardDocument(o) PROVE UNCHANGED <<finished, created>>
    BY <2>3 DEF DiscardDocument
  <2>. QED
    BY <1>1, <1>2, <1>3, <1>4, <2>1, <2>2, <2>3 DEF Daemon
<1>5. CASE RetentionNext
  BY <1>1, <1>5, RetentionCases
<1>. QED
  BY <1>1, <1>4, <1>5 DEF Next, vars, storeVars

\* What a scan has in its queue, and in its hands, stays as it was collected.
LEMMA ScanInvNext ==
    ASSUME CustodyTypeOK, ScanInv, [Next]_vars
    PROVE  ScanInv'
<1>0. scan \in [Scanners -> ScanState]
  BY DEF CustodyTypeOK, RetentionType
<1>1. ASSUME NEW c, Settled(c) PROVE Settled(c)'
  BY <1>1, SettledStays DEF Settled
<1>2. ASSUME NEW s \in Scanners, UNCHANGED scan[s]
      PROVE  /\ \A c \in scan'[s].queue : Settled(c)' /\ c.tenant = scan'[s].tenant
             /\ scan'[s].pc \in {"put", "purge"} =>
                  /\ ~scan'[s].dry
                  /\ scan'[s].doc \in Cand \X Docs
                  /\ scan'[s].doc[1] \in scan'[s].queue
                  /\ ~Held(scan'[s].active, scan'[s].doc[1])
  BY <1>1, <1>2 DEF ScanInv
<1>3. CASE UNCHANGED scan
  BY <1>2, <1>3 DEF ScanInv, Held, Covers
<1>4. ASSUME NEW s \in Scanners, Scans(s), UNCHANGED Others PROVE ScanInv'
  <2>. DEFINE Fits(v) ==
         /\ \A c \in v.queue : Settled(c)' /\ c.tenant = v.tenant
         /\ v.pc \in {"put", "purge"} =>
              /\ ~v.dry
              /\ v.doc \in Cand \X Docs
              /\ v.doc[1] \in v.queue
              /\ ~Held(v.active, v.doc[1])
  <2>0. ASSUME NEW v, Fits(v), scan' = [scan EXCEPT ![s] = v] PROVE ScanInv'
    <3>1. \A x \in Scanners : scan'[x] = IF x = s THEN v ELSE scan[x]
      BY <1>0, <2>0
    <3>2. \A x \in Scanners : Fits(scan'[x])
      BY <1>2, <2>0, <3>1
    <3>. QED
      BY <3>2 DEF ScanInv, Held, Covers
  <2>. HIDE DEF Fits
  <2>1. scan[s] \in ScanState /\ Fits(scan[s])
    BY <1>0, <1>1 DEF ScanInv, Fits
  <2>2. CASE Resets(s)
    BY <2>0, <2>2, Zenon DEF Resets, Fits
  <2>3. CASE Loads(s)
    <3>. DEFINE v == [scan[s] EXCEPT !.active = ActiveHolds(scan[s].tenant, scan[s].at),
                                     !.placed = {h.name : h \in holds}, !.pc = "collect"]
    <3>1. v.queue = scan[s].queue /\ v.tenant = scan[s].tenant /\ v.pc = "collect"
      BY <2>1 DEF ScanState
    <3>2. Fits(v)
      BY <2>1, <3>1 DEF Fits
    <3>. QED
      BY <2>0, <2>3, <3>2, Zenon DEF Loads
  <2>4. CASE Collects(s)
    <3>. DEFINE v == [scan[s] EXCEPT !.queue = Collect(scan[s].tenant, scan[s].policy, scan[s].at),
                                     !.pc = "candidate"]
    <3>1. /\ v.queue = Collect(scan[s].tenant, scan[s].policy, scan[s].at)
          /\ v.tenant = scan[s].tenant /\ v.pc = "candidate"
      BY <2>1 DEF ScanState
    <3>2. Fits(v)
      BY <1>1, <3>1, CollectType DEF Fits
    <3>. QED
      BY <2>0, <2>4, <3>2, Zenon DEF Collects
  <2>5. CASE Passes(s)
    <3>1. ASSUME NEW c PROVE Fits([scan[s] EXCEPT !.queue = scan[s].queue \ {c}])
                             \/ scan[s].pc # "candidate"
      BY <2>1 DEF Fits, ScanState
    <3>. QED
      BY <2>0, <2>5, <3>1, Zenon DEF Passes
  <2>6. CASE Takes(s)
    <3>1. PICK c \in scan[s].queue :
             /\ ~Held(scan[s].active, c) /\ ~scan[s].dry /\ Document(c.id) # Absent
             /\ scan' = [scan EXCEPT ![s] = [scan[s] EXCEPT !.doc = <<c, Document(c.id)>>,
                                                           !.pc = "put"]]
      BY <2>6, Zenon DEF Takes
    <3>. DEFINE v == [scan[s] EXCEPT !.doc = <<c, Document(c.id)>>, !.pc = "put"]
    <3>2. /\ v.doc = <<c, Document(c.id)>> /\ v.queue = scan[s].queue /\ v.dry = scan[s].dry
          /\ v.active = scan[s].active /\ v.tenant = scan[s].tenant
      BY <2>1 DEF ScanState
    <3>3. c \in Cand /\ c.id \in Items
      BY <2>1 DEF ScanState, Cand
    <3>4. v.doc \in Cand \X Docs
      BY <3>1, <3>2, <3>3, DocumentType
    <3>5. Fits(v)
      BY <2>1, <3>1, <3>2, <3>4 DEF Fits
    <3>. QED
      BY <2>0, <3>1, <3>5, Zenon
  <2>7. CASE Puts(s)
    <3>. DEFINE v == [scan[s] EXCEPT !.pc = "purge"]
    <3>2. /\ v.doc = scan[s].doc /\ v.queue = scan[s].queue /\ v.dry = scan[s].dry
          /\ v.active = scan[s].active /\ v.tenant = scan[s].tenant
      BY <2>1 DEF ScanState
    <3>4. Fits(v)
      BY <2>1, <2>7, <3>2 DEF Fits, Puts
    <3>. QED
      BY <2>0, <2>7, <3>4, Zenon DEF Puts
  <2>8. CASE Drops(s) \/ Purges(s)
    <3>1. /\ Skip(s).queue \subseteq scan[s].queue /\ Skip(s).pc = "candidate"
          /\ Skip(s).tenant = scan[s].tenant
      BY <2>1 DEF ScanState, Skip
    <3>2. Fits(Skip(s))
      BY <2>1, <3>1 DEF Fits
    <3>. QED
      BY <2>0, <2>8, <3>2 DEF Drops, Purges
  <2>. QED
    BY SMTT(20), <1>4, <2>2, <2>3, <2>4, <2>5, <2>6, <2>7, <2>8 DEF Scans
<1>5. CASE RetentionNext
  <2>1. UNCHANGED Others /\ (Holds \/ \E s \in Scanners : Scans(s))
    BY <1>5, RetentionCases DEF Others
  <2>2. Holds => UNCHANGED scan
    BY Zenon DEF Holds, CreateHold, ReleaseHold
  <2>. QED
    BY <1>3, <1>4, <2>1, <2>2
<1>. QED
  BY <1>3, <1>5 DEF Next, vars, retentionVars

\* Releasing keeps the number of holds and their names: names are unique.
LEMMA ReleaseKeepsNames ==
    ASSUME CustodyTypeOK, HoldsInv, NEW n, ReleaseNamed(n)
    PROVE  /\ IsFiniteSet(holds') /\ Cardinality(holds') = Cardinality(holds)
           /\ \A g \in holds' : \E h \in holds :
                 /\ g.name = h.name /\ g.scope = h.scope /\ g.expires = h.expires
                 /\ ~g.released => g = h
           /\ \A g, h \in holds' : g.name = h.name => g = h
<1>. DEFINE R(h) == IF h.name = n THEN [h EXCEPT !.released = TRUE] ELSE h
            f == [h \in holds |-> R(h)]
<1>0. holds \subseteq Hold /\ IsFiniteSet(holds) /\ holds' = {R(h) : h \in holds}
  BY DEF CustodyTypeOK, RetentionType, HoldsInv, ReleaseNamed
<1>1. \A h \in holds : /\ R(h).name = h.name /\ R(h).scope = h.scope
                       /\ R(h).expires = h.expires /\ (~R(h).released => R(h) = h)
  BY <1>0 DEF Hold
<1>. HIDE DEF R
<1>2. \A g, h \in holds : R(g).name = R(h).name => g = h
  BY <1>1 DEF HoldsInv
<1>3. f \in Bijection(holds, holds')
  <2>1. f \in [holds -> holds'] /\ \A h \in holds' : \E g \in holds : f[g] = h
    BY <1>0
  <2>2. \A g, h \in holds : f[g] = f[h] => g = h
    BY <1>2
  <2>. HIDE DEF f
  <2>3. f \in Injection(holds, holds') /\ f \in Surjection(holds, holds')
    BY <2>1, <2>2 DEF Injection, IsInjective, Surjection
  <2>. QED
    BY <2>3 DEF Bijection
<1>4. ExistsBijection(holds, holds')
  BY <1>3 DEF ExistsBijection
<1>5. IsFiniteSet(holds') /\ Cardinality(holds') = Cardinality(holds)
  BY <1>0, <1>4, FS_Bijection
<1>6. \A g, h \in holds' : g.name = h.name => g = h
  BY <1>0, <1>2
<1>. QED
  BY <1>0, <1>1, <1>5, <1>6

\* A scan keeps knowing the holds that were active when it loaded them.
LEMMA HoldsInvNext ==
    ASSUME CustodyTypeOK, HoldsInv, [Next]_vars
    PROVE  HoldsInv'
<1>. DEFINE Knows(v, H) ==
         /\ \A n \in v.placed : n < Cardinality(H)
         /\ v.pc \in {"collect", "candidate", "put", "purge"} =>
              \A h \in H : h.name \in v.placed /\ ActiveAt(h, v.at)
                             /\ Visible(h, v.tenant) => h \in v.active
       Named(H) == /\ IsFiniteSet(H)
                   /\ \A h \in H : h.name < Cardinality(H)
                   /\ \A g, h \in H : g.name = h.name => g = h
<1>0. /\ scan \in [Scanners -> ScanState] /\ holds \subseteq Hold
      /\ \A s \in Scanners : scan[s] \in ScanState /\ scan[s].placed \in SUBSET Nat
      /\ Named(holds) /\ \A s \in Scanners : Knows(scan[s], holds)
      /\ Cardinality(holds) \in Nat
  BY FS_CardinalityType DEF CustodyTypeOK, RetentionType, HoldsInv, ScanState
<1>1. ASSUME Named(holds'), \A s \in Scanners : Knows(scan'[s], holds') PROVE HoldsInv'
  BY <1>1 DEF HoldsInv, ActiveAt, Visible
<1>2. CASE UNCHANGED <<holds, scan>>
  BY <1>0, <1>1, <1>2
<1>3. ASSUME NEW s \in Scanners, Scans(s) PROVE HoldsInv'
  <2>0. UNCHANGED holds
    BY <1>3, Zenon DEF Scans, Resets, Loads, Collects, Passes, Takes, Puts, Drops, Purges
  <2>1. ASSUME NEW v, Knows(v, holds), scan' = [scan EXCEPT ![s] = v] PROVE HoldsInv'
    <3>1. \A x \in Scanners : Knows(scan'[x], holds)
      <4>1. \A x \in Scanners : scan'[x] = IF x = s THEN v ELSE scan[x]
        BY <1>0, <2>1
      <4>. HIDE DEF Knows
      <4>. QED
        BY <1>0, <2>1, <4>1
    <3>. QED
      BY <1>0, <1>1, <2>0, <3>1
  <2>2. CASE Resets(s)
    BY <2>1, <2>2, Zenon DEF Resets
  <2>3. CASE Loads(s)
    <3>. DEFINE v == [scan[s] EXCEPT !.active = ActiveHolds(scan[s].tenant, scan[s].at),
                                     !.placed = {h.name : h \in holds}, !.pc = "collect"]
    <3>1. /\ v.placed = {h.name : h \in holds} /\ v.at = scan[s].at /\ v.tenant = scan[s].tenant
          /\ v.active = ActiveHolds(scan[s].tenant, scan[s].at)
      BY <1>0 DEF ScanState
    <3>2. Knows(v, holds)
      BY <1>0, <3>1 DEF ActiveHolds
    <3>. QED
      BY <2>1, <2>3, <3>2, Zenon DEF Loads
  <2>4. ASSUME NEW v, scan' = [scan EXCEPT ![s] = v],
               /\ v.placed = scan[s].placed /\ v.at = scan[s].at /\ v.tenant = scan[s].tenant
               /\ v.active = scan[s].active,
               scan[s].pc \in {"collect", "candidate", "put", "purge"}
        PROVE  HoldsInv'
    <3>1. Knows(v, holds)
      BY <1>0, <2>4
    <3>. QED
      BY <2>1, <2>4, <3>1, Zenon
  <2>. HIDE DEF Knows
  <2>5. CASE Collects(s) \/ Passes(s) \/ Takes(s) \/ Puts(s) \/ Drops(s) \/ Purges(s)
    <3>1. PICK v : /\ scan' = [scan EXCEPT ![s] = v]
                   /\ v.placed = scan[s].placed /\ v.at = scan[s].at
                   /\ v.tenant = scan[s].tenant /\ v.active = scan[s].active
      <4>1. CASE Collects(s)
        <5>. DEFINE v == [scan[s] EXCEPT
                            !.queue = Collect(scan[s].tenant, scan[s].policy, scan[s].at),
                            !.pc = "candidate"]
        <5>1. /\ v.placed = scan[s].placed /\ v.at = scan[s].at
              /\ v.tenant = scan[s].tenant /\ v.active = scan[s].active
          BY <1>0 DEF ScanState
        <5>. QED
          BY <4>1, <5>1, Zenon DEF Collects
      <4>2. CASE Passes(s)
        BY <1>0, <4>2, Zenon DEF Passes, ScanState
      <4>3. CASE Takes(s)
        BY <1>0, <4>3, ZenonT(30) DEF Takes, ScanState
      <4>4. CASE Puts(s)
        <5>. DEFINE v == [scan[s] EXCEPT !.pc = "purge"]
        <5>1. /\ v.placed = scan[s].placed /\ v.at = scan[s].at
              /\ v.tenant = scan[s].tenant /\ v.active = scan[s].active
          BY <1>0 DEF ScanState
        <5>. QED
          BY <4>4, <5>1, Zenon DEF Puts
      <4>5. CASE Drops(s) \/ Purges(s)
        BY <1>0, <4>5, Zenon DEF Drops, Purges, Skip, ScanState
      <4>. QED
        BY <2>5, <4>1, <4>2, <4>3, <4>4, <4>5
    <3>2. scan[s].pc \in {"collect", "candidate", "put", "purge"}
      BY <2>5, Zenon DEF Collects, Passes, Takes, Puts, Drops, Purges
    <3>. QED
      BY <2>4, <3>1, <3>2, Zenon
  <2>. QED
    BY <1>3, <2>2, <2>3, <2>5 DEF Scans
<1>4. CASE Holds
  <2>1. UNCHANGED scan
    BY <1>4, Zenon DEF Holds, CreateHold, ReleaseHold
  <2>2. ASSUME NEW scope \in Scopes, NEW e \in {Unset, MaxNow}, CreateHold(scope, e)
        PROVE  HoldsInv'
    <3>. DEFINE h == [name |-> Cardinality(holds), scope |-> scope, expires |-> e,
                      released |-> FALSE]
    <3>1. holds' = holds \cup {h} /\ h.name = Cardinality(holds)
      BY <2>2 DEF CreateHold, Create
    <3>. HIDE DEF h
    <3>2. h \notin holds
      BY <1>0, <3>1
    <3>3. IsFiniteSet(holds') /\ Cardinality(holds') = Cardinality(holds) + 1
      BY <1>0, <3>1, <3>2, FS_AddElement
    <3>4. \A g \in holds : g.name \in Nat
      BY <1>0 DEF Hold
    <3>5. Named(holds')
      <4>1. \A g \in holds' : g.name < Cardinality(holds')
        BY <1>0, <3>1, <3>3, <3>4
      <4>2. \A g \in holds : g.name # h.name
        BY <1>0, <3>1, <3>4
      <4>3. \A g, k \in holds' : g.name = k.name => g = k
        BY <1>0, <3>1, <4>2
      <4>. QED
        BY <3>3, <4>1, <4>3
    <3>6. ASSUME NEW s \in Scanners PROVE Knows(scan'[s], holds')
      BY <1>0, <2>1, <3>1, <3>3
    <3>. QED
      BY <1>1, <3>5, <3>6
  <2>3. ASSUME NEW h \in holds, ReleaseHold(h.name) PROVE HoldsInv'
    <3>1. /\ IsFiniteSet(holds') /\ Cardinality(holds') = Cardinality(holds)
          /\ \A g \in holds' : \E k \in holds :
                 /\ g.name = k.name /\ g.scope = k.scope /\ g.expires = k.expires
                 /\ ~g.released => g = k
          /\ \A g, k \in holds' : g.name = k.name => g = k
      BY <2>3, ReleaseKeepsNames DEF ReleaseHold
    <3>2. Named(holds')
      BY <1>0, <3>1
    <3>3. ASSUME NEW s \in Scanners PROVE Knows(scan'[s], holds')
      BY <1>0, <2>1, <3>1 DEF ActiveAt
    <3>. QED
      BY <1>1, <3>2, <3>3
  <2>. QED
    BY <1>4, <2>2, <2>3 DEF Holds
<1>. HIDE DEF Knows, Named
<1>5. CASE RetentionNext
  BY <1>3, <1>4, <1>5, RetentionCases
<1>. QED
  BY <1>2, <1>5 DEF Next, vars, retentionVars

\* A purge is of a candidate that none of the holds loaded covers.
LEMMA NextHonoursHolds ==
    ASSUME CustodyTypeOK, ScanInv, HoldsInv, [Next]_vars
    PROVE  \A s \in Scanners, h \in holds :
             LET c == scan[s].doc[1]
             IN  (scan[s].pc = "purge" /\ purged' # purged /\ scan'[s].pc # "purge"
                  /\ h.name \in scan[s].placed)
                 => \/ h.released
                    \/ h.expires # Unset /\ h.expires <= scan[s].at
                    \/ h.scope.tenant # Unset /\ h.scope.tenant # TenantOf[c.id]
                    \/ h.scope.id # Unset /\ h.scope.id # c.id
                    \/ h.scope.before # Unset /\ h.scope.before <= created[c.id]
<1>. DEFINE c(s) == scan[s].doc[1]
<1>. SUFFICES ASSUME NEW s \in Scanners, NEW h \in holds,
                     scan[s].pc = "purge", h.name \in scan[s].placed, ~h.released,
                     h.expires = Unset \/ ~(h.expires <= scan[s].at),
                     h.scope.tenant = Unset \/ h.scope.tenant = TenantOf[c(s).id],
                     h.scope.id = Unset \/ h.scope.id = c(s).id,
                     h.scope.before = Unset \/ ~(h.scope.before <= created[c(s).id])
              PROVE  FALSE
  OBVIOUS
<1>1. /\ ~Held(scan[s].active, c(s)) /\ c(s).tenant = TenantOf[c(s).id]
      /\ c(s).created = created[c(s).id] /\ c(s).tenant = scan[s].tenant
      /\ c(s).id \in Items
  BY DocType DEF ScanInv, Settled
<1>2. /\ h.scope \in Scopes /\ h.expires \in {Unset, MaxNow} /\ scan[s].at \in Nat
      /\ created[c(s).id] \in Nat
  BY <1>1, Zenon DEF CustodyTypeOK, StoresType, RetentionType, ScanState, Hold
<1>3. h.scope.before \in Nat \cup {Unset} /\ MaxNow \in Nat
  BY <1>2, ScannersAssumption, StoresAssumption
<1>4. ActiveAt(h, scan[s].at) /\ Visible(h, scan[s].tenant)
  BY <1>1, <1>2, <1>3 DEF ActiveAt, Visible
<1>5. h \in scan[s].active
  BY <1>4 DEF HoldsInv
<1>6. Covers(h, c(s))
  BY <1>1, <1>2, <1>3 DEF Covers
<1>. QED
  BY <1>1, <1>5, <1>6 DEF Held

-----------------------------------------------------------------------------
(* Copies                                                                  *)

\* A step that adds no copy but of what is stored and settled, and changes
\* what is settled to nothing but one of its copies, keeps copies alike.
LEMMA CopiesStay ==
    ASSUME CustodyTypeOK, CopiesInv, finished \subseteq finished', finished' \subseteq Jobs,
           \A i \in Items : Copies(i)' \subseteq
               Copies(i) \cup (IF i \in Jobs \ finished THEN {} ELSE {Document(i)} \ {Absent}),
           \A i \in finished \cup AttestationObjects :
               Document(i)' \in {Absent, Document(i)} \cup Copies(i),
           \A o \in Objects \ AttestationObjects : Deleted(o)' \subseteq Deleted(o)
    PROVE  CopiesInv'
<1>. DEFINE Versions(i) == Copies(i) \cup ({Document(i)} \ {Absent})
<1>0. AttestationObjects' = AttestationObjects /\ Jobs \cup AttestationObjects \subseteq Items
  BY DEF AttestationObjects, Items, DBRows
<1>1. \A o \in Objects \ AttestationObjects : Deleted(o)' = {}
  BY DEF CopiesInv
<1>2. ASSUME NEW i \in Jobs \ finished PROVE Copies(i)' = {}
  BY <1>0, <1>2 DEF CopiesInv
<1>3. ASSUME NEW i \in Jobs \cup AttestationObjects
      PROVE  \A x, y \in Versions(i)' : x = y
  <2>0. i \in Items /\ Versions(i)' = Copies(i)' \cup ({Document(i)'} \ {Absent})
    BY <1>0
  <2>1. CASE i \in Jobs \ finished
    BY <1>2, <2>0, <2>1
  <2>2. CASE i \notin Jobs \ finished
    <3>1. i \in finished \cup AttestationObjects
      BY <2>2
    <3>2. Versions(i)' \subseteq Versions(i)
      BY <2>0, <2>2, <3>1
    <3>3. \A x, y \in Versions(i) : x = y
      BY DEF CopiesInv
    <3>. QED
      BY <3>2, <3>3
  <2>. QED
    BY <2>1, <2>2
<1>. QED
  BY <1>0, <1>1, <1>2, <1>3 DEF CopiesInv

\* What leaves the parts alone leaves the copies alone.
LEMMA CopiesParts ==
    ASSUME NEW i \in Items
    PROVE  /\ UNCHANGED archive => Archived(i)' = Archived(i)
           /\ UNCHANGED scan => Handled(i)' = Handled(i)
           /\ UNCHANGED purged => Deleted(i)' = Deleted(i)
           /\ UNCHANGED <<run, restore, points>> => BackedUp(i)' = BackedUp(i)
           /\ UNCHANGED <<rows, objects>> => Document(i)' = Document(i)
BY Zenon DEF Archived, Handled, InHand, Deleted, Archivable, BackedUp, AllEntries, Document,
   archiveObject, archiveDB

\* What is in a scan's hands after it changed.
LEMMA HandledStep ==
    ASSUME CustodyTypeOK, NEW s \in Scanners, NEW v, scan' = [scan EXCEPT ![s] = v], NEW i
    PROVE  Handled(i)' \subseteq
             Handled(i) \cup (IF v.pc \in {"put", "purge"} /\ v.doc[1].id = i
                             THEN {v.doc[2]} ELSE {})
<1>1. \A x \in Scanners : scan'[x] = IF x = s THEN v ELSE scan[x]
  BY DEF CustodyTypeOK, RetentionType
<1>2. Handled(i)' = {scan'[x].doc[2] : x \in {y \in Scanners :
                          scan'[y].pc \in {"put", "purge"} /\ scan'[y].doc[1].id = i}}
  BY DEF Handled, InHand
<1>. QED
  BY <1>1, <1>2 DEF Handled, InHand

\* A scan copies what is stored, and purges what it has in its hands.
LEMMA CopiesScan ==
    ASSUME CustodyTypeOK, ScanInv, CopiesInv, NEW s \in Scanners, Scans(s),
           UNCHANGED finished, UNCHANGED <<run, restore, points>>
    PROVE  CopiesInv'
<1>. DEFINE May(i) == Copies(i) \cup (IF i \in Jobs \ finished THEN {} ELSE {Document(i)} \ {Absent})
<1>0. finished' \subseteq Jobs
  BY DEF CustodyTypeOK, StoresType
<1>1. SUFFICES /\ \A i \in Items : Archived(i)' \cup Handled(i)' \cup Deleted(i)' \subseteq May(i)
               /\ \A i \in Items : Document(i)' \in {Absent, Document(i)}
               /\ \A o \in Objects \ AttestationObjects : Deleted(o)' \subseteq Deleted(o)
  <2>1. \A i \in Items : BackedUp(i)' = BackedUp(i)
    BY CopiesParts
  <2>2. \A i \in Items : Copies(i)' \subseteq May(i)
    BY <1>1, <2>1 DEF Copies
  <2>3. finished \cup AttestationObjects \subseteq Items
    BY DEF CustodyTypeOK, StoresType, AttestationObjects, Items, DBRows
  <2>4. \A i \in finished \cup AttestationObjects :
          Document(i)' \in {Absent, Document(i)} \cup Copies(i)
    BY <1>1, <2>3
  <2>. QED
    BY <1>0, <1>1, <2>2, <2>4, CopiesStay
<1>2. /\ \A i \in Items : Archived(i) \cup Handled(i) \cup Deleted(i) \subseteq May(i)
      /\ Objects \subseteq Items
  BY DEF Copies, Items
<1>. HIDE DEF May
<1>3. CASE Resets(s) \/ Loads(s) \/ Collects(s) \/ Passes(s)
  <2>1. UNCHANGED <<archive, purged, rows, objects>>
    BY <1>3 DEF Resets, Loads, Collects, Passes
  <2>2. PICK v : scan' = [scan EXCEPT ![s] = v] /\ v.pc \notin {"put", "purge"}
    <3>0. scan[s] \in ScanState
      BY DEF CustodyTypeOK, RetentionType
    <3>1. CASE Resets(s)
      BY <3>1, Zenon DEF Resets
    <3>2. CASE Loads(s)
      <4>1. [scan[s] EXCEPT !.active = ActiveHolds(scan[s].tenant, scan[s].at),
                            !.placed = {h.name : h \in holds}, !.pc = "collect"].pc = "collect"
        BY <3>0 DEF ScanState
      <4>. QED
        BY <3>2, <4>1, Zenon DEF Loads
    <3>3. CASE Collects(s)
      <4>1. [scan[s] EXCEPT !.queue = Collect(scan[s].tenant, scan[s].policy, scan[s].at),
                            !.pc = "candidate"].pc = "candidate"
        BY <3>0 DEF ScanState
      <4>. QED
        BY <3>3, <4>1, Zenon DEF Collects
    <3>4. CASE Passes(s)
      <4>1. \A c : [scan[s] EXCEPT !.queue = scan[s].queue \ {c}].pc = scan[s].pc
        BY <3>0 DEF ScanState
      <4>. QED
        BY <3>4, <4>1, Zenon DEF Passes
    <3>. QED
      BY <1>3, <3>1, <3>2, <3>3, <3>4
  <2>3. \A i \in Items : Handled(i)' \subseteq Handled(i)
    BY <2>2, HandledStep, Zenon
  <2>4. \A i \in Items : /\ Archived(i)' = Archived(i) /\ Deleted(i)' = Deleted(i)
                         /\ Document(i)' = Document(i)
    BY <2>1, CopiesParts
  <2>. QED
    BY <1>1, <1>2, <2>3, <2>4
<1>4. CASE Takes(s)
  <2>1. UNCHANGED <<archive, purged, rows, objects>>
    BY <1>4 DEF Takes
  <2>2. PICK c \in scan[s].queue :
           /\ Document(c.id) # Absent
           /\ scan' = [scan EXCEPT ![s] = [scan[s] EXCEPT !.doc = <<c, Document(c.id)>>,
                                                         !.pc = "put"]]
    BY <1>4, Zenon DEF Takes
  <2>. DEFINE v == [scan[s] EXCEPT !.doc = <<c, Document(c.id)>>, !.pc = "put"]
  <2>3. v.doc[1] = c /\ v.doc[2] = Document(c.id) /\ v.pc = "put"
    BY DEF CustodyTypeOK, RetentionType, ScanState
  <2>4. c.id \notin Jobs \ finished /\ c.id \in finished \cup Catalogs \cup AttestationObjects
    BY StoresAssumption DEF ScanInv, Settled, AttestationObjects
  <2>5. \A i \in Items : Handled(i)' \subseteq
           Handled(i) \cup (IF c.id = i THEN {Document(c.id)} ELSE {})
    <3>. HIDE DEF v
    <3>. QED
      BY <2>2, <2>3, HandledStep, Zenon DEF v
  <2>6. \A i \in Items : Handled(i)' \subseteq May(i)
    BY <1>2, <2>2, <2>4, <2>5 DEF May
  <2>7. \A i \in Items : /\ Archived(i)' = Archived(i) /\ Deleted(i)' = Deleted(i)
                         /\ Document(i)' = Document(i)
    BY <2>1, CopiesParts, Zenon
  <2>. QED
    BY <1>1, <1>2, <2>6, <2>7
<1>5. ASSUME scan[s].pc \in {"put", "purge"}
      PROVE  /\ scan[s].doc[1].id \in Items /\ scan[s].doc[2] # Absent
             /\ scan[s].doc[2] \in Handled(scan[s].doc[1].id)
             /\ scan[s].doc[1].id \in finished \cup Catalogs \cup AttestationObjects
  BY <1>5, DocType, Zenon DEF Handled, InHand, ScanInv, Settled
<1>6. ASSUME scan[s].pc \in {"put", "purge"},
             archive' = archive
               \/ archive' = [archive EXCEPT ![scan[s].doc[1].id] = scan[s].doc[2]]
      PROVE  \A i \in Items : Archived(i)' \subseteq Archived(i) \cup Handled(i)
  BY <1>5, <1>6 DEF Archived, CustodyTypeOK, RetentionType
<1>7. Skip(s).pc = "candidate" /\ [scan[s] EXCEPT !.pc = "purge"].doc = scan[s].doc
  BY DEF Skip, CustodyTypeOK, RetentionType, ScanState
<1>8. CASE Puts(s)
  <2>1. UNCHANGED <<purged, rows, objects>>
    BY <1>8 DEF Puts
  <2>2. \A i \in Items : Handled(i)' \subseteq Handled(i)
    <3>1. \A i \in Items : Handled(i)' \subseteq
             Handled(i) \cup (IF scan[s].doc[1].id = i THEN {scan[s].doc[2]} ELSE {})
      <4>. DEFINE v == [scan[s] EXCEPT !.pc = "purge"]
      <4>1. scan' = [scan EXCEPT ![s] = v] /\ v.doc = scan[s].doc
        BY <1>7, <1>8, Zenon DEF Puts
      <4>. HIDE DEF v
      <4>. QED
        BY <4>1, HandledStep, Zenon
    <3>. QED
      BY <1>5, <1>8, <3>1 DEF Puts
  <2>3. \A i \in Items : Deleted(i)' = Deleted(i) /\ Document(i)' = Document(i)
    BY <2>1, CopiesParts
  <2>4. \A i \in Items : Archived(i)' \subseteq Archived(i) \cup Handled(i)
    BY <1>6, <1>8 DEF Puts
  <2>. QED
    BY <1>1, <1>2, <2>2, <2>3, <2>4
<1>9. CASE Drops(s)
  <2>1. UNCHANGED <<purged, rows, objects>>
    BY <1>9, Zenon DEF Drops
  <2>2. \A i \in Items : Handled(i)' \subseteq Handled(i)
    BY <1>7, <1>9, HandledStep, ZenonT(30) DEF Drops
  <2>3. \A i \in Items : Deleted(i)' = Deleted(i) /\ Document(i)' = Document(i)
    BY <2>1, CopiesParts
  <2>4. \A i \in Items : Archived(i)' \subseteq Archived(i) \cup Handled(i)
    BY <1>6, <1>9 DEF Drops
  <2>. QED
    BY <1>1, <1>2, <2>2, <2>3, <2>4
<1>10. CASE Purges(s)
  <2>. DEFINE i == scan[s].doc[1].id
  <2>0. /\ i \in Items /\ i \in finished \cup Catalogs \cup AttestationObjects
        /\ scan[s].doc[2] \in Handled(i) /\ UNCHANGED archive
    BY <1>5, <1>10 DEF Purges
  <2>1. \A k \in Items : Archived(k)' = Archived(k)
    BY <2>0, CopiesParts, Zenon
  <2>2. \A k \in Items : Handled(k)' \subseteq Handled(k)
    BY <1>7, <1>10, HandledStep, Zenon DEF Purges
  <2>. DEFINE content == IF i \in Objects THEN objects[i] ELSE rows[i]
  <2>3. purged' = purged \cup {<<i, content>>}
    BY <1>10, Zenon DEF Purges, PurgeObject, purgeDB
  <2>4. content # Absent => Archivable(i, content) = Document(i) /\ Document(i) # Absent
    <3>1. CASE i \in Objects
      BY <3>1 DEF Archivable, Document, archiveObject
    <3>2. CASE i \notin Objects
      <4>1. content = rows[i] /\ i \in DBRows
        BY <2>0, <3>2 DEF Items
      <4>2. content # Absent => content \in SUBSET Tables
        BY <4>1 DEF CustodyTypeOK, StoresType
      <4>3. content # Absent => content \cap dbAggregateQueries[ClassOf(i)] \in SUBSET Tables
        BY <4>2, Zenon
      <4>. QED
        BY <3>2, <4>1, <4>3, StoresAssumption, Zenon DEF Archivable, Document, archiveDB, Tables
    <3>. QED
      BY <3>1, <3>2, Zenon
  <2>. HIDE DEF content
  <2>5. ASSUME NEW k \in Items
        PROVE  /\ k # i => Deleted(k)' = Deleted(k)
               /\ Deleted(k)' \subseteq Deleted(k) \cup ({Document(k)} \ {Absent})
    <3>1. Deleted(k)' = {Archivable(k, p[2]) : p \in {x \in purged' : x[1] = k /\ x[2] # Absent}}
      BY DEF Deleted, Archivable
    <3>2. \A p \in purged' : p \in purged \/ (p[1] = i /\ p[2] = content)
      BY <2>3
    <3>3. \A p \in purged : p \in purged'
      BY <2>3
    <3>. HIDE DEF i
    <3>. QED
      BY <2>4, <3>1, <3>2, <3>3 DEF Deleted
  <2>6. i \notin Jobs \ finished /\ i \notin Objects \ AttestationObjects
    BY <2>0, StoresAssumption DEF AttestationObjects, CustodyTypeOK, StoresType
  <2>. HIDE DEF i
  <2>7. \A k \in Items : Deleted(k)' \subseteq May(k)
    BY <1>2, <2>5, <2>6 DEF May
  <2>8. \A o \in Objects \ AttestationObjects : Deleted(o)' \subseteq Deleted(o)
    BY <1>2, <2>5, <2>6
  <2>9. \A k \in Items : Document(k)' \in {Absent, Document(k)}
    <3>1. /\ \A k \in Objects : objects'[k] \in {Absent, objects[k]}
          /\ \A k \in DBRows : rows'[k] \in {Absent, rows[k]}
      BY <1>10 DEF Purges, PurgeObject, purgeDB, CustodyTypeOK, StoresType
    <3>. QED
      BY <3>1 DEF Document, archiveObject, archiveDB, Items
  <2>. QED
    BY SMTT(20), <1>1, <1>2, <2>1, <2>2, <2>7, <2>8, <2>9
<1>. QED
  BY <1>3, <1>4, <1>8, <1>9, <1>10 DEF Scans

\* A run or a restore adds entries of what is stored only.
LEMMA CopiesEntries ==
    ASSUME CustodyTypeOK, CopiesInv, UNCHANGED <<archive, scan, purged, finished, rows>>,
           AllEntries' \subseteq AllEntries \cup {<<o, objects[o]>> : o \in Present},
           \A o \in Objects : objects'[o] \in {Absent, objects[o]} \cup BackedUp(o)
    PROVE  CopiesInv'
<1>1. \A i \in Items : /\ Archived(i)' = Archived(i) /\ Handled(i)' = Handled(i)
                       /\ Deleted(i)' = Deleted(i)
  BY CopiesParts, Zenon
<1>2. ASSUME NEW i \in Items
      PROVE  BackedUp(i)' \subseteq
               BackedUp(i) \cup (IF i \in Jobs \ finished THEN {} ELSE {Document(i)} \ {Absent})
  <2>1. \A o \in Present : o \notin Jobs /\ Document(o) = objects[o] /\ Document(o) # Absent
    BY StoresAssumption DEF Present, Document, archiveObject
  <2>2. BackedUp(i)' = {e[2] : e \in {x \in AllEntries' : x[1] = i}}
    BY DEF BackedUp
  <2>3. ASSUME NEW e \in AllEntries', e[1] = i
        PROVE  e[2] \in BackedUp(i) \/ (i \in Present /\ e[2] = objects[i])
    BY <2>3 DEF BackedUp
  <2>. QED
    BY <2>1, <2>2, <2>3
<1>3. \A i \in Items : Copies(i)' \subseteq
        Copies(i) \cup (IF i \in Jobs \ finished THEN {} ELSE {Document(i)} \ {Absent})
  BY <1>1, <1>2 DEF Copies
<1>4. ASSUME NEW i \in finished \cup AttestationObjects
      PROVE  Document(i)' \in {Absent, Document(i)} \cup Copies(i)
  <2>1. CASE i \in Objects
    BY <2>1 DEF Document, archiveObject, Copies
  <2>2. CASE i \notin Objects
    BY <2>2, Zenon DEF Document, archiveDB
  <2>. QED
    BY <2>1, <2>2
<1>5. Objects \subseteq Items /\ finished' \subseteq Jobs
  BY DEF Items, CustodyTypeOK, StoresType
<1>. QED
  BY <1>1, <1>3, <1>4, <1>5, CopiesStay

\* Entries of a point that changes.
LEMMA PointEntries ==
    ASSUME CustodyTypeOK, NEW p, NEW v, points' = [points EXCEPT ![p] = v],
           p \in Points => v.entries \subseteq AllEntries
    PROVE  UNION {points'[q].entries : q \in Points} \subseteq AllEntries
<1>1. \A q \in Points : points'[q] = IF q = p THEN v ELSE points[q]
  BY DEF CustodyTypeOK, BackupType
<1>2. \A q \in Points : points[q].entries \subseteq AllEntries
  BY DEF AllEntries
<1>. QED
  BY <1>1, <1>2

\* A backup run makes entries of objects it finds in the store only.
LEMMA RunEntries ==
    ASSUME CustodyTypeOK, RunNext
    PROVE  AllEntries' \subseteq AllEntries \cup {<<o, objects[o]>> : o \in Present}
<1>. DEFINE P == UNION {points[p].entries : p \in Points}
            S == {<<o, objects[o]>> : o \in Present}
<1>0. /\ run \in RunState /\ points \in [Points -> Point]
      /\ NoRun.entries = {} /\ run.entries \subseteq AllEntries /\ restore.todo \subseteq AllEntries
      /\ P \subseteq AllEntries
  BY Zenon DEF CustodyTypeOK, BackupType, NoRun, AllEntries
<1>1. restore' = restore /\ AllEntries' = run'.entries \cup restore'.todo \cup P'
  <2>1. restore' = restore
    BY Zenon DEF RunNext, StartRun, FailRun, ListBases, BackupPush, PushElsewhere, FindNewBackup,
       ListObjects, SnapshotObject, EndTenant, SnapshotStream, WriteManifest, ClearInProgress
  <2>. QED
    BY <2>1 DEF AllEntries
<1>2. SUFFICES run'.entries \subseteq AllEntries \cup S /\ P' \subseteq AllEntries
  BY <1>0, <1>1, <1>2
<1>3. UNCHANGED points => P' \subseteq AllEntries
  BY <1>0
<1>. HIDE DEF P
<1>4. ASSUME NEW p \in Points, StartRun(p)
      PROVE  run'.entries = {} /\ P' \subseteq AllEntries
  <2>1. [NoRun EXCEPT !.pc = "list_bases", !.point = p].entries = {}
    BY DEF NoRun
  <2>2. points' = [points EXCEPT ![p] = [points[p] EXCEPT !.marker = TRUE]]
    BY <1>0, <1>4, Zenon DEF StartRun, Begin
  <2>3. [points[p] EXCEPT !.marker = TRUE].entries = points[p].entries
    BY <1>0 DEF Point
  <2>4. points[p].entries \subseteq AllEntries
    BY DEF AllEntries
  <2>. QED
    BY <1>4, <2>1, <2>2, <2>3, <2>4, PointEntries, Zenon DEF StartRun, P
<1>5. CASE FailRun \/ ListBases \/ BackupPush \/ PushElsewhere \/ FindNewBackup \/ ListObjects
           \/ EndTenant
  <2>1. UNCHANGED points /\ run'.entries \subseteq run.entries
    BY <1>0, <1>5, Zenon DEF FailRun, ListBases, BackupPush, PushElsewhere, FindNewBackup, ListObjects,
       EndTenant, RunState
  <2>. QED
    BY <1>0, <1>2, <1>3, <2>1
<1>6. CASE SnapshotObject
  <2>1. PICK o \in run.listed :
          IF objects[o] = Absent
          THEN run' = [run EXCEPT !.listed = @ \ {o}]
          ELSE run' = [run EXCEPT !.listed = @ \ {o}, !.entries = @ \cup {<<o, objects[o]>>}]
    BY <1>6, Zenon DEF SnapshotObject
  <2>2. run'.entries \subseteq run.entries \cup S
    <3>1. CASE objects[o] = Absent
      BY <1>0, <2>1, <3>1 DEF RunState
    <3>2. CASE objects[o] # Absent
      <4>1. o \in Present
        BY <1>0, <3>2 DEF RunState, Present
      <4>2. run'.entries = run.entries \cup {<<o, objects[o]>>}
        BY <1>0, <2>1, <3>2, Zenon DEF RunState
      <4>. QED
        BY <4>1, <4>2
    <3>. QED
      BY <3>1, <3>2
  <2>3. UNCHANGED points
    BY <1>6 DEF SnapshotObject
  <2>. QED
    BY <1>0, <1>2, <1>3, <2>2, <2>3
<1>7. ASSUME NEW v, points' = [points EXCEPT ![run.point] = v],
             run.point \in Points => v.entries \subseteq AllEntries,
             run'.entries \subseteq run.entries
      PROVE  run'.entries \subseteq AllEntries /\ P' \subseteq AllEntries
  BY <1>0, <1>7, PointEntries DEF P
<1>8. CASE SnapshotStream
  <2>1. CASE stream = Absent
    BY <1>0, <1>2, <1>3, <1>8, <2>1 DEF SnapshotStream
  <2>2. CASE stream # Absent
    <3>1. points' = [points EXCEPT ![run.point] = [points[run.point] EXCEPT !.file = stream]]
      BY <1>0, <1>8, <2>2, Zenon DEF SnapshotStream
    <3>2. run.point \in Points => [points[run.point] EXCEPT !.file = stream].entries \subseteq AllEntries
      BY <1>0 DEF Point, AllEntries
    <3>3. run'.entries \subseteq run.entries
      BY <1>0, <1>8, <2>2, Zenon DEF SnapshotStream, RunState
    <3>. QED
      BY <1>2, <1>7, <3>1, <3>2, <3>3, Zenon
  <2>. QED
    BY <2>1, <2>2
<1>9. CASE WriteManifest
  <2>. DEFINE v == [points[run.point] EXCEPT !.manifest = TRUE, !.base = run.base,
                       !.entries = run.entries, !.capture = run.capture]
  <2>1. points' = [points EXCEPT ![run.point] = v]
    BY <1>0, <1>9, Zenon DEF WriteManifest
  <2>2. run.point \in Points => v.entries \subseteq AllEntries
    BY <1>0 DEF Point
  <2>3. run'.entries \subseteq run.entries
    BY <1>0, <1>9 DEF WriteManifest, RunState
  <2>. QED
    BY <1>2, <1>7, <2>1, <2>2, <2>3, Zenon
<1>10. CASE ClearInProgress
  <2>1. PICK cleared \in BOOLEAN :
          points' = [points EXCEPT ![run.point] =
                       [@ EXCEPT !.marker = ~cleared,
                                 !.reported = cleared /\ Unlocked(Backup)]]
    BY <1>10, Zenon DEF ClearInProgress
  <2>. DEFINE v == [points[run.point] EXCEPT !.marker = ~cleared,
                                             !.reported = cleared /\ Unlocked(Backup)]
  <2>2. points' = [points EXCEPT ![run.point] = v]
    BY <1>0, <2>1, Zenon
  <2>3. run.point \in Points => v.entries \subseteq AllEntries
    BY <1>0 DEF Point, AllEntries
  <2>4. run'.entries \subseteq run.entries
    BY <1>0, <1>10 DEF ClearInProgress
  <2>. HIDE DEF v
  <2>. QED
    BY <1>2, <1>7, <2>2, <2>3, <2>4, Zenon
<1>. QED
  BY <1>2, <1>4, <1>5, <1>6, <1>8, <1>9, <1>10 DEF RunNext

\* A restore, a disaster and the loss of blobs add no entries, and write what
\* an entry holds.
LEMMA CopiesRestore ==
    ASSUME CustodyTypeOK, CopiesInv, Damage \/ RestoreNext,
           UNCHANGED <<archive, scan, purged, finished, rows>>
    PROVE  CopiesInv'
<1>0. /\ restore \in RestoreState /\ points \in [Points -> Point] /\ NoRestore.todo = {}
      /\ objects \in [Objects -> Contents \cup {Absent}]
  BY DEF CustodyTypeOK, BackupType, StoresType, NoRestore
<1>1. ASSUME UNCHANGED <<run, points>>, restore'.todo \subseteq AllEntries
      PROVE  AllEntries' \subseteq AllEntries
  BY <1>1 DEF AllEntries
<1>2. restore.todo \subseteq AllEntries /\ \A p \in Points : points[p].entries \subseteq AllEntries
  BY DEF AllEntries
<1>3. ASSUME AllEntries' \subseteq AllEntries, UNCHANGED objects PROVE CopiesInv'
  BY <1>3, CopiesEntries
<1>4. CASE Damage
  <2>1. CASE UNCHANGED points
    BY <1>1, <1>2, <1>3, <1>4, <2>1 DEF Damage
  <2>2. CASE ~UNCHANGED points
    <3>1. PICK p \in Points : points' = [points EXCEPT ![p].file = Absent]
      BY <1>4, <2>2 DEF Damage
    <3>2. \A q \in Points : points'[q].entries = points[q].entries
      BY <1>0, <3>1 DEF Point
    <3>3. AllEntries' \subseteq AllEntries
      BY <1>4, <3>2 DEF Damage, AllEntries
    <3>. QED
      BY <1>3, <1>4, <3>3 DEF Damage
  <2>. QED
    BY <2>1, <2>2
<1>5. CASE Disaster
  <2>1. AllEntries' \subseteq AllEntries /\ \A o \in Objects : objects'[o] = Absent
    BY <1>1, <1>2, <1>5 DEF Disaster
  <2>. QED
    BY <2>1, CopiesEntries
<1>6. ASSUME NEW p \in Points, StartRestore(p) PROVE CopiesInv'
  <2>1. restore'.todo \subseteq AllEntries
    BY <1>0, <1>2, <1>6 DEF StartRestore
  <2>. QED
    BY <1>1, <1>3, <1>6, <2>1 DEF StartRestore
<1>7. CASE RestoreObject
  <2>1. PICK e \in restore.todo :
           \/ /\ objects' = [objects EXCEPT ![e[1]] = e[2]]
              /\ restore' = [restore EXCEPT !.todo = restore.todo \ {e}]
           \/ restore' = NoRestore /\ UNCHANGED objects
    BY <1>7 DEF RestoreObject
  <2>2. restore'.todo \subseteq restore.todo
    BY <1>0, <2>1 DEF RestoreState
  <2>3. AllEntries' \subseteq AllEntries
    BY <1>1, <1>2, <1>7, <2>2 DEF RestoreObject
  <2>4. e[2] \in BackedUp(e[1])
    BY <1>2 DEF BackedUp
  <2>5. \A o \in Objects : objects'[o] \in {objects[o]} \cup BackedUp(o)
    BY <1>0, <2>1, <2>4
  <2>. QED
    BY <2>3, <2>5, CopiesEntries
<1>8. CASE RestoreStream \/ EndRestore
  <2>1. restore'.todo \subseteq restore.todo
    BY <1>0, <1>8 DEF RestoreStream, EndRestore, RestoreState
  <2>. QED
    BY <1>1, <1>2, <1>3, <1>8, <2>1 DEF RestoreStream, EndRestore
<1>. QED
  BY <1>4, <1>5, <1>6, <1>7, <1>8 DEF RestoreNext

\* The daemon writes no attestation object and no completed job.
LEMMA CopiesDaemon ==
    ASSUME CustodyTypeOK, CopiesInv, Daemon, UNCHANGED <<retentionVars, backupVars>>
    PROVE  CopiesInv'
<1>0. /\ rows \in [DBRows -> {Absent} \cup SUBSET Tables] /\ finished \subseteq Jobs
      /\ objects \in [Objects -> Contents \cup {Absent}]
  BY DEF CustodyTypeOK, StoresType
<1>1. UNCHANGED <<archive, scan, purged, run, restore, points>>
  BY DEF retentionVars, backupVars
<1>2. \A i \in Items : Copies(i)' = Copies(i) /\ Deleted(i)' = Deleted(i)
  BY <1>1, CopiesParts DEF Copies
<1>3. SUFFICES /\ finished \subseteq finished' /\ finished' \subseteq Jobs
               /\ \A i \in finished \cup AttestationObjects : Document(i)' = Document(i)
  BY <1>2, <1>3, CopiesStay DEF AttestationObjects, Items
<1>4. SUFFICES /\ finished \subseteq finished' /\ finished' \subseteq Jobs
               /\ \A i \in finished : rows'[i] = rows[i]
               /\ \A i \in AttestationObjects : objects'[i] = objects[i]
  BY <1>0, <1>4, StoresAssumption, Zenon DEF Document, archiveObject, archiveDB, AttestationObjects
<1>5. ASSUME NEW r \in DBRows, NEW part, WriteChild(r, part)
      PROVE  UNCHANGED <<finished, objects>> /\ \A i \in finished : rows'[i] = rows[i]
  BY <1>0, <1>5, Zenon DEF WriteChild, DBRows
<1>6. ASSUME NEW j \in Jobs, CompleteJob(j)
      PROVE  /\ finished \subseteq finished' /\ finished' \subseteq Jobs
             /\ UNCHANGED <<rows, objects>>
  BY <1>0, <1>6 DEF CompleteJob
<1>7. ASSUME NEW o \in Objects, NEW c, PutObject(o, c)
      PROVE  /\ UNCHANGED <<finished, rows>>
             /\ \A i \in AttestationObjects : objects'[i] = objects[i]
  BY <1>0, <1>7 DEF PutObject, AttestationObjects
<1>8. ASSUME NEW o \in Objects, DiscardDocument(o)
      PROVE  /\ UNCHANGED <<finished, rows>>
             /\ \A i \in AttestationObjects : objects'[i] = objects[i]
  BY <1>0, <1>8 DEF DiscardDocument, AttestationObjects
<1>. QED
  BY <1>0, <1>4, <1>5, <1>6, <1>7, <1>8 DEF Daemon

-----------------------------------------------------------------------------
(* The kinds of steps                                                      *)

DaemonStep ==
    /\ Tick \/ LoseLock \/ (restore.pc = "idle" /\ Daemon)
    /\ UNCHANGED <<retentionVars, backupVars>>

HoldStep ==
    /\ restore.pc = "idle" /\ Holds
    /\ UNCHANGED <<archive, scan, purged>> /\ UNCHANGED Others /\ UNCHANGED backupVars

ScannerStep(s) ==
    restore.pc = "idle" /\ Scans(s) /\ UNCHANGED Others /\ UNCHANGED backupVars

RunStep ==
    /\ RunNext /\ UNCHANGED <<objects, stream>>
    /\ UNCHANGED retentionVars /\ UNCHANGED rows /\ UNCHANGED Others

RestoreStep ==
    /\ Damage \/ RestoreNext
    /\ UNCHANGED retentionVars /\ UNCHANGED rows /\ UNCHANGED Others

\* Every step is of one of these kinds.
LEMMA StepCases ==
    ASSUME CustodyTypeOK, [Next]_vars
    PROVE  \/ UNCHANGED vars \/ DaemonStep \/ HoldStep \/ (\E s \in Scanners : ScannerStep(s))
           \/ RunStep \/ RestoreStep
<1>1. CASE restore.pc = "idle" /\ RetentionNext /\ UNCHANGED backupVars
  <2>1. Holds => UNCHANGED <<archive, scan, purged>>
    BY Zenon DEF Holds, CreateHold, ReleaseHold
  <2>. QED
    BY <1>1, <2>1, RetentionCases DEF HoldStep, ScannerStep, Others
<1>. QED
  BY <1>1 DEF Next, DaemonStep, RunStep, RestoreStep, Others

\* Every step keeps the one content of a completed job or attestation object.
LEMMA CopiesInvNext ==
    ASSUME CustodyTypeOK, ScanInv, CopiesInv, [Next]_vars
    PROVE  CopiesInv'
<1>1. ASSUME UNCHANGED <<archive, scan, purged, run, restore, points, rows, objects, finished>>
      PROVE  CopiesInv'
  <2>1. AllEntries' = AllEntries /\ UNCHANGED <<archive, scan, purged, finished, rows>>
    BY <1>1 DEF AllEntries
  <2>. QED
    BY <1>1, <2>1, CopiesEntries
<1>2. CASE UNCHANGED vars
  BY <1>1, <1>2 DEF vars, storeVars, retentionVars, backupVars
<1>3. CASE DaemonStep
  BY <1>1, <1>3, CopiesDaemon DEF DaemonStep, Tick, LoseLock, retentionVars, backupVars
<1>4. CASE HoldStep
  BY <1>1, <1>4 DEF HoldStep, Holds, Others, backupVars
<1>5. ASSUME NEW s \in Scanners, ScannerStep(s) PROVE CopiesInv'
  BY <1>5, CopiesScan DEF ScannerStep, Others, backupVars
<1>6. CASE RunStep
  <2>1. UNCHANGED <<archive, scan, purged, finished, rows, objects>>
    BY <1>6 DEF RunStep, retentionVars, Others
  <2>. QED
    BY <1>6, <2>1, RunEntries, CopiesEntries, Zenon DEF RunStep
<1>7. CASE RestoreStep
  BY <1>7, CopiesRestore DEF RestoreStep, retentionVars, Others
<1>. QED
  BY <1>2, <1>3, <1>4, <1>5, <1>6, <1>7, StepCases

\* What a scan's step does to the scans.
LEMMA ScanMoves ==
    ASSUME CustodyTypeOK, NEW s \in Scanners, Scans(s)
    PROVE  /\ \A x \in Scanners \ {s} : scan'[x] = scan[x]
           /\ Resets(s) => scan'[s].pc \in {"idle", "next_tenant", "holds"}
           /\ ~Resets(s) => /\ scan[s].pc \in ScanPCs /\ lock' = lock
                            /\ scan'[s].dry = scan[s].dry
           /\ Resets(s) \/ Loads(s) \/ Collects(s) \/ Passes(s) \/ Takes(s)
                => scan'[s].pc # "purge" /\ UNCHANGED <<archive, purged>>
<1>0. scan \in [Scanners -> ScanState] /\ scan[s] \in ScanState
  BY DEF CustodyTypeOK, RetentionType
<1>. DEFINE Moves(v, pc) == scan' = [scan EXCEPT ![s] = v] /\ v.dry = scan[s].dry /\ v.pc = pc
            Moved == Loads(s) \/ Collects(s) \/ Passes(s) \/ Takes(s)
<1>1. ASSUME NEW v, NEW pc, Moves(v, pc)
      PROVE  /\ scan'[s].pc = pc /\ scan'[s].dry = scan[s].dry
             /\ \A x \in Scanners \ {s} : scan'[x] = scan[x]
  BY <1>0, <1>1
<1>2. CASE Resets(s)
  <2>1. PICK v \in ScanState : /\ scan' = [scan EXCEPT ![s] = v]
                              /\ v.pc \in {"idle", "next_tenant", "holds"}
                              /\ UNCHANGED <<archive, purged>>
    BY <1>2, Zenon DEF Resets
  <2>2. scan'[s] = v /\ \A x \in Scanners \ {s} : scan'[x] = scan[x]
    BY <1>0, <2>1
  <2>. QED
    BY <1>2, <2>1, <2>2
<1>3. Loads(s) => \E v : Moves(v, "collect")
  BY <1>0, ZenonT(30) DEF Loads, ScanState
<1>4. Collects(s) => \E v : Moves(v, "candidate")
  BY <1>0, ZenonT(30) DEF Collects, ScanState
<1>5. ASSUME Passes(s) PROVE \E v : Moves(v, "candidate")
  <2>1. PICK c \in scan[s].queue :
           scan' = [scan EXCEPT ![s] = [scan[s] EXCEPT !.queue = scan[s].queue \ {c}]]
    BY <1>5, Zenon DEF Passes
  <2>2. Moves([scan[s] EXCEPT !.queue = scan[s].queue \ {c}], "candidate")
    BY <1>0, <1>5, <2>1, Zenon DEF Passes, ScanState
  <2>. QED
    BY <2>2, Zenon
<1>6. ASSUME Takes(s) PROVE \E v : Moves(v, "put")
  <2>1. PICK c \in scan[s].queue :
           scan' = [scan EXCEPT ![s] = [scan[s] EXCEPT !.doc = <<c, Document(c.id)>>, !.pc = "put"]]
    BY <1>6, Zenon DEF Takes
  <2>2. Moves([scan[s] EXCEPT !.doc = <<c, Document(c.id)>>, !.pc = "put"], "put")
    BY <1>0, <2>1 DEF ScanState
  <2>. QED
    BY <2>2, Zenon
<1>7. Puts(s) => \E v : Moves(v, "purge")
  BY <1>0, ZenonT(30) DEF Puts, ScanState
<1>8. Drops(s) \/ Purges(s) => Moves(Skip(s), "candidate")
  BY <1>0 DEF Drops, Purges, Skip, ScanState
<1>. HIDE DEF Moves
<1>9. /\ Moved \/ Puts(s) \/ Drops(s) \/ Purges(s) => lock' = lock /\ scan[s].pc \in ScanPCs
      /\ Moved => UNCHANGED <<archive, purged>>
  BY Zenon DEF Loads, Collects, Passes, Takes, Puts, Drops, Purges, ScanPCs
<1>10. Moved => scan'[s].pc # "purge"
  BY <1>1, <1>3, <1>4, <1>5, <1>6
<1>11. Moved \/ Puts(s) \/ Drops(s) \/ Purges(s) =>
         scan'[s].dry = scan[s].dry /\ \A x \in Scanners \ {s} : scan'[x] = scan[x]
  BY <1>1, <1>3, <1>4, <1>5, <1>6, <1>7, <1>8, Zenon
<1>. QED
  BY <1>2, <1>9, <1>10, <1>11, Zenon DEF Scans

\* Nothing leaves the archive, and only an archived candidate is purged.
LEMMA ArchiveInvNext ==
    ASSUME CustodyTypeOK, ScanInv, ArchiveInv, [Next]_vars
    PROVE  ArchiveInv'
<1>0. /\ scan \in [Scanners -> ScanState] /\ archive \in [Items -> Docs \cup {Absent}]
      /\ purged \subseteq Items \X (Docs \cup {Absent})
  BY DEF CustodyTypeOK, RetentionType
<1>1. ASSUME UNCHANGED <<archive, scan, purged>> PROVE ArchiveInv'
  BY <1>1 DEF ArchiveInv
<1>2. ASSUME NEW s \in Scanners, ScannerStep(s) PROVE ArchiveInv'
  <2>1. ASSUME NEW v, scan' = [scan EXCEPT ![s] = v],
               \A i \in Items : archive[i] # Absent => archive'[i] # Absent,
               v.pc = "purge" => archive'[v.doc[1].id] # Absent,
               \A p \in purged' : p[2] # Absent => p \in purged \/ archive'[p[1]] # Absent
        PROVE  ArchiveInv'
    <3>1. \A x \in Scanners : scan'[x] = IF x = s THEN v ELSE scan[x]
      BY <1>0, <2>1
    <3>2. \A x \in Scanners : scan[x].pc = "purge" => scan[x].doc[1].id \in Items
      BY DocType
    <3>3. \A x \in Scanners : scan'[x].pc = "purge" => archive'[scan'[x].doc[1].id] # Absent
      BY <2>1, <3>1, <3>2 DEF ArchiveInv
    <3>4. \A p \in purged : p[1] \in Items
      BY <1>0
    <3>. QED
      BY <2>1, <3>3, <3>4 DEF ArchiveInv
  <2>2. CASE Resets(s) \/ Loads(s) \/ Collects(s) \/ Passes(s) \/ Takes(s)
    <3>1. /\ \A x \in Scanners \ {s} : scan'[x] = scan[x]
          /\ scan'[s].pc # "purge" /\ UNCHANGED <<archive, purged>>
      BY <2>2, ScanMoves DEF Scans
    <3>. QED
      BY <3>1 DEF ArchiveInv
  <2>8. CASE Puts(s)
    <3>. DEFINE v == [scan[s] EXCEPT !.pc = "purge"]
    <3>1. v.doc = scan[s].doc
      BY <1>0 DEF ScanState
    <3>2. /\ \A i \in Items : archive'[i] = IF i = scan[s].doc[1].id THEN scan[s].doc[2] ELSE archive[i]
          /\ scan[s].doc[1].id \in Items /\ scan[s].doc[2] # Absent /\ scan' = [scan EXCEPT ![s] = v]
          /\ UNCHANGED purged
      BY <1>0, <2>8, DocType DEF Puts
    <3>. HIDE DEF v
    <3>. QED
      BY <2>1, <3>1, <3>2, Zenon
  <2>9. CASE Drops(s)
    <3>1. Skip(s).pc # "purge"
      BY <1>0 DEF Skip, ScanState
    <3>2. /\ scan[s].doc[1].id \in Items /\ scan[s].doc[2] # Absent
          /\ scan' = [scan EXCEPT ![s] = Skip(s)] /\ UNCHANGED purged
      BY <2>9, DocType, Zenon DEF Drops
    <3>3. \A i \in Items : archive'[i] \in {archive[i], scan[s].doc[2]}
      BY <1>0, <2>9 DEF Drops
    <3>. QED
      BY <2>1, <3>1, <3>2, <3>3, Zenon
  <2>10. CASE Purges(s)
    <3>1. Skip(s).pc # "purge"
      BY <1>0 DEF Skip, ScanState
    <3>2. \A p \in purged' : p \in purged \/ p[1] = scan[s].doc[1].id
      BY <2>10 DEF Purges, PurgeObject, purgeDB
    <3>3. archive[scan[s].doc[1].id] # Absent
      BY <2>10, Zenon DEF Purges, ArchiveInv
    <3>. QED
      BY <2>1, <2>10, <3>1, <3>2, <3>3, ZenonT(30) DEF Purges
  <2>. QED
    BY SMTT(20), <1>2, <2>2, <2>8, <2>9, <2>10 DEF ScannerStep, Scans
<1>3. CASE UNCHANGED vars \/ DaemonStep \/ HoldStep \/ RunStep \/ RestoreStep
  BY <1>1, <1>3 DEF vars, DaemonStep, HoldStep, RunStep, RestoreStep, retentionVars
<1>. QED
  BY <1>2, <1>3, StepCases

=============================================================================
