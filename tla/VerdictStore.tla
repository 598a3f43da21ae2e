---------------------------- MODULE VerdictStore ----------------------------
(***************************************************************************)
(* Artifact equivalence verdicts: the PostgreSQL verdict store             *)
(* (verdictstore_pg.go), the adjudicator that leases pairs, asks the panel *)
(* and writes verdicts to the knowledge graph (adjudicate.go), the         *)
(* reconciler that finds and queues pairs (reconcile.go), and the people   *)
(* who decide pairs with `admin adjudicate artifacts decide`.  A store     *)
(* method is one transaction and a graph call another: an action is one of *)
(* them with the local code around it.                                     *)
(*                                                                         *)
(* Time.  Decision times are stamps of `clock`, which only grows.  A lease *)
(* or a claim names the run it was granted to and whether its time has     *)
(* run out; the store compares leased_until and projection_claimed_until   *)
(* for equality, and a run holds at most one grant on a pair, so the run   *)
(* identifies the grant.                                                   *)
(***************************************************************************)
EXTENDS Naturals, FiniteSets

CONSTANTS
    Pairs,         \* pairs of artifact groups with overlapping names
    Runs,          \* processes that may run an adjudication or a projection pass
    Nobody,        \* the holder of a lease or claim that is NULL
    MaxAttempts,   \* analysis.artifact_adjudication.max_attempts
    MaxClock,      \* bound: decisions stamped
    MaxVersion,    \* bound: releases of the reconciler, by ReconcileAlgorithmVersion
    Bounds         \* bounds on reconciles, resets, rebuilds, upgrades and faults, and on all of them

ASSUME NobodyAssumption == Nobody \notin Runs
ASSUME BoundsAssumption ==
    /\ MaxAttempts \in Nat \ {0} /\ MaxClock \in Nat /\ MaxVersion \in Nat \ {0}
    /\ Bounds \in [{"reconciles", "resets", "rebuilds", "upgrades", "stops", "overruns", "all"} -> Nat]

VARIABLES
    row,           \* the artifact_pair_verdicts row of each pair
    graph,         \* each pair's SAME_AS edges
    groups,        \* whether the pairs' ArtifactGroup nodes are in the graph
    run,           \* what each adjudication or projection run is doing
    rec,           \* the reconcile in progress
    clock,         \* the last stamp of a decision
    version,       \* the ReconcileAlgorithmVersion deployed
    left,          \* what is left of Bounds
    overtaken,     \* history: whether an outlived projection or a late reconcile wrote to a pair
    unattached     \* history: pairs whose verdict found no groups, or a graph since rebuilt

vars == <<row, graph, groups, run, rec, clock, version, left, overtaken, unattached>>

Closed == {"confirmed", "rejected"}
PanelStatus == Closed \union {"undecided"}
NoDissent == [status |-> "none", at |-> 0]
NoGrant == [by |-> Nobody, live |-> FALSE]
GrantTo(r) == [by |-> r, live |-> TRUE]

NewRow == [status |-> "absent", by |-> "token_overlap", at |-> 0, edge |-> 1, attempts |-> 0, due |-> TRUE,
           lease |-> NoGrant, applied |-> FALSE, claim |-> NoGrant, dissent |-> NoDissent]

Candidate(v) == <<"token_overlap", v>>
PanelEdge == <<"llm_panel", 0>>
HumanEdge(t) == <<"human", t>>
EdgeIds == {Candidate(v) : v \in 1..MaxVersion} \union {PanelEdge}
           \union {HumanEdge(t) : t \in 1..MaxClock}

NoEdge == [st |-> "none", from |-> 0, to |-> 0]
NoEdges == [e \in EdgeIds |-> NoEdge]
Live(g) == {e \in EdgeIds : g[e].st = "live"}

\* CreateEdge and BulkCreateEdges: an ID that exists, even ended, is refused with ErrEdgeExists.
Created(g, e, t) == IF g[e].st = "none" THEN [g EXCEPT ![e] = [st |-> "live", from |-> t, to |-> 0]] ELSE g

\* SupersedeFact overwrites valid_to whatever it was; a missing edge is not an error.
Superseded(g, e, t) == IF g[e].st = "none" THEN g ELSE [g EXCEPT ![e].st = "ended", ![e].to = t]

Later(s, t) == IF s > t THEN s ELSE t

\* A verdict as a run holds it to project it (Projection).
NoVerdict == [pair |-> "none", status |-> "none", by |-> "none", at |-> 0, edge |-> 0]
VerdictOf(p) == [pair |-> p, status |-> row[p].status, by |-> row[p].by, at |-> row[p].at, edge |-> row[p].edge]

\* The row still holds the verdict: determination_type, status and decided_at.
Holds(v) == row[v.pair].by = v.by /\ row[v.pair].status = v.status /\ row[v.pair].at = v.at

IdleRun == [pc |-> "idle", goal |-> "project", phase |-> "first", batch |-> {}, fenced |-> FALSE,
            leased |-> {}, v |-> NoVerdict, wrote |-> FALSE, ending |-> {}]
IdleRec == [pc |-> "idle", open |-> {}, from |-> 0, version |-> 1]

Disputed(p) ==
    /\ row[p].by = "human"
    /\ row[p].dissent.status \in Closed
    /\ row[p].dissent.status # row[p].status
    /\ row[p].dissent.at > row[p].at

Queued(p) == row[p].status = "pending" /\ row[p].by # "human"
Due(p) == Queued(p) /\ row[p].due /\ ~row[p].lease.live

\* Mutant of Unclaimed: a claim that ran out is not taken over.
UnclaimedIfReleased(p) == ~row[p].applied /\ row[p].claim.by = Nobody

Unclaimed(p) == ~row[p].applied /\ ~row[p].claim.live

Unprojected == {VerdictOf(p) : p \in {q \in Pairs : row[q].status \in Closed /\ Unclaimed(q)}}

Init ==
    /\ row = [p \in Pairs |-> NewRow]
    /\ graph = [p \in Pairs |-> NoEdges]
    /\ groups = FALSE
    /\ run = [r \in Runs |-> IdleRun]
    /\ rec = IdleRec
    /\ clock = 0
    /\ version = 1
    /\ left = Bounds
    /\ overtaken = [p \in Pairs |-> "never"]
    /\ unattached = {}

storeUnchanged == UNCHANGED <<row, clock>>
graphUnchanged == UNCHANGED <<graph, groups, overtaken, unattached>>
Spends(what) ==
    /\ left[what] > 0 /\ left["all"] > 0
    /\ left' = [left EXCEPT ![what] = @ - 1, !["all"] = @ - 1]

-----------------------------------------------------------------------------
(* The reconciler: match groups, skip closed pairs, write edges, enqueue.  *)

ReconcileStart ==
    /\ rec.pc = "idle"
    /\ Spends("reconciles")
    /\ rec' = [pc |-> "write", open |-> {p \in Pairs : row[p].status \notin Closed},
               from |-> clock, version |-> version]
    /\ storeUnchanged /\ graphUnchanged
    /\ UNCHANGED <<run, version>>

\* The ArtifactGroup nodes, then the SAME_AS edges whose ID no stored edge has.
ReconcileWrite ==
    /\ rec.pc = "write"
    /\ groups' = TRUE
    /\ graph' = [p \in Pairs |-> IF p \in rec.open THEN Created(graph[p], Candidate(rec.version), rec.from)
                                                   ELSE graph[p]]
    /\ overtaken' = [p \in Pairs |-> IF row[p].status \in Closed /\ graph'[p] # graph[p] THEN "since" ELSE overtaken[p]]
    /\ rec' = [rec EXCEPT !.pc = "enqueue"]
    /\ storeUnchanged
    /\ UNCHANGED <<run, version, left, unattached>>

Enqueued(p) ==
    IF row[p].status = "absent" THEN [NewRow EXCEPT !.status = "pending", !.edge = rec.version]
    ELSE IF Queued(p) THEN [row[p] EXCEPT !.edge = rec.version]
    ELSE row[p]

Enqueue ==
    /\ rec.pc = "enqueue"
    /\ row' = [p \in Pairs |-> IF p \in rec.open THEN Enqueued(p) ELSE row[p]]
    /\ rec' = IdleRec
    /\ graphUnchanged
    /\ UNCHANGED <<run, clock, version, left>>

ReconcileStops ==
    /\ rec.pc # "idle"
    /\ Spends("stops")
    /\ rec' = IdleRec
    /\ storeUnchanged /\ graphUnchanged
    /\ UNCHANGED <<run, version>>

-----------------------------------------------------------------------------
(* A run: recoverProjections, lease and adjudicate pairs, recover again.   *)

\* The loops' ends, which read nothing shared: a recovery that tripped no fence is over, a batch
\* of leased pairs that is done is followed by the next Lease.
Settled(x) ==
    IF x.pc = "batch" /\ x.batch = {} THEN
        CASE x.phase = "panel" -> [x EXCEPT !.pc = IF x.leased = {} THEN "lease" ELSE "panel", !.fenced = FALSE]
          [] x.phase # "panel" /\ x.fenced -> [x EXCEPT !.pc = "scan", !.fenced = FALSE]
          [] x.phase = "first" /\ ~x.fenced /\ x.goal = "adjudicate" -> [x EXCEPT !.pc = "lease", !.phase = "panel"]
          [] OTHER -> IdleRun
    ELSE x

Becomes(r, x) == run' = [run EXCEPT ![r] = Settled(x)]

\* Unprojected: the verdicts a recovery works through, one by one.
StartRun(r, goal) ==
    /\ run[r].pc = "idle"
    /\ Becomes(r, [IdleRun EXCEPT !.pc = "batch", !.goal = goal, !.batch = Unprojected])
    /\ storeUnchanged /\ graphUnchanged
    /\ UNCHANGED <<rec, version, left>>

Rescan(r) ==
    /\ run[r].pc = "scan"
    /\ Becomes(r, [run[r] EXCEPT !.pc = "batch", !.batch = Unprojected])
    /\ storeUnchanged /\ graphUnchanged
    /\ UNCHANGED <<rec, version, left>>

\* A --reproject run: ResetProjection, then a recovery and nothing more.
Reproject(r) ==
    /\ run[r].pc = "idle"
    /\ Spends("resets")
    /\ row' = [p \in Pairs |-> IF row[p].status \in Closed THEN [row[p] EXCEPT !.applied = FALSE] ELSE row[p]]
    /\ Becomes(r, [IdleRun EXCEPT !.pc = "scan"])
    /\ graphUnchanged
    /\ UNCHANGED <<rec, clock, version>>

-----------------------------------------------------------------------------
(* project: claim the pair, write the graph, release through the fence.    *)

\* This verdict is dealt with; on to the rest of the batch.
Returned(r, fenced) == [run[r] EXCEPT !.pc = "batch", !.v = NoVerdict, !.wrote = FALSE,
                                      !.fenced = run[r].fenced \/ fenced]

ClaimProjection(r) ==
    /\ run[r].pc = "batch"
    /\ \E v \in run[r].batch :
         LET mine == [run[r] EXCEPT !.batch = @ \ {v}, !.v = v] IN
         \/ /\ Holds(v) /\ Unclaimed(v.pair)
            /\ row' = [row EXCEPT ![v.pair].claim = GrantTo(r)]
            /\ Becomes(r, [mine EXCEPT !.pc = IF v.status = "confirmed" THEN "write" ELSE "read"])
            /\ overtaken' = [overtaken EXCEPT ![v.pair] = IF @ = "since" THEN "before" ELSE @]
            /\ unattached' = unattached \ {v.pair}
         \/ /\ ~(Holds(v) /\ Unclaimed(v.pair))     \* ClaimReplaced trips the fence, ClaimBusy does not
            /\ Becomes(r, [mine EXCEPT !.v = NoVerdict, !.fenced = @ \/ ~Holds(v)])
            /\ UNCHANGED <<row, overtaken, unattached>>
    /\ UNCHANGED <<graph, groups, rec, clock, version, left>>

OwnEdge(v) == IF v.by = "human" THEN HumanEdge(v.at) ELSE PanelEdge

\* History: a run wrote to a pair whose claim it no longer holds.
Noted(r, p) == IF graph'[p] # graph[p] /\ row[p].claim.by # r THEN [overtaken EXCEPT ![p] = "since"] ELSE overtaken

\* A confirmation's own edge; without the groups there is nothing to attach it to.
CreateEdge(r) ==
    LET v == run[r].v  p == v.pair IN
    /\ run[r].pc = "write"
    /\ \/ /\ ~groups
          /\ Becomes(r, [run[r] EXCEPT !.pc = "end"])
          /\ unattached' = unattached \union {p}
          /\ UNCHANGED <<graph, overtaken>>
       \/ /\ groups
          /\ graph' = [graph EXCEPT ![p] = Created(graph[p], OwnEdge(v), v.at)]
          /\ Becomes(r, [run[r] EXCEPT !.pc = "read", !.wrote = graph[p][OwnEdge(v)].st = "none"])
          /\ overtaken' = Noted(r, p)
          /\ UNCHANGED unattached
    /\ storeUnchanged
    /\ UNCHANGED <<groups, rec, version, left>>

\* Mutant of ToEnd: ended edges are ended again.
ToEndAgain(v) ==
    LET known == {e \in EdgeIds : graph[v.pair][e].st # "none"} IN
    IF v.by = "human" THEN known \ (IF v.status = "confirmed" THEN {HumanEdge(v.at)} ELSE {})
                      ELSE known \intersect {Candidate(v.edge)}

\* The edges to end: for the panel its live candidate, for a person every live edge but theirs.
ToEnd(v) ==
    LET live == Live(graph[v.pair]) IN
    IF v.by = "human" THEN live \ (IF v.status = "confirmed" THEN {HumanEdge(v.at)} ELSE {})
                      ELSE live \intersect {Candidate(v.edge)}

ReadEdges(r) ==
    /\ run[r].pc = "read"
    /\ Becomes(r, [run[r] EXCEPT !.pc = "end", !.ending = ToEnd(run[r].v)])
    /\ storeUnchanged /\ graphUnchanged
    /\ UNCHANGED <<rec, version, left>>

SupersedeEdge(r) ==
    LET v == run[r].v  p == v.pair IN
    /\ run[r].pc = "end"
    /\ \E e \in run[r].ending :
         /\ graph' = [graph EXCEPT ![p] = Superseded(graph[p], e,
                        IF v.by = "human" THEN Later(v.at, graph[p][e].from) ELSE v.at)]
         /\ Becomes(r, [run[r] EXCEPT !.ending = @ \ {e}])
    /\ overtaken' = Noted(r, p)
    /\ storeUnchanged
    /\ UNCHANGED <<groups, rec, version, left, unattached>>

\* Mutant of MarkProjected: the verdict read earlier is not compared with the row's.
MarkProjectedUnfenced(r) ==
    LET p == run[r].v.pair IN
    /\ run[r].pc = "end"
    /\ run[r].ending = {}
    /\ row' = IF row[p].claim.by = r THEN [row EXCEPT ![p].applied = TRUE, ![p].claim = NoGrant] ELSE row
    /\ Becomes(r, Returned(r, row[p].claim.by # r))
    /\ graphUnchanged
    /\ UNCHANGED <<rec, clock, version, left>>

\* The fence: applied only if the row still holds the verdict, under this run's claim.
MarkProjected(r) ==
    LET v == run[r].v  p == v.pair IN
    /\ run[r].pc = "end"
    /\ run[r].ending = {}
    /\ row' = IF row[p].claim.by = r THEN [row EXCEPT ![p].applied = Holds(v), ![p].claim = NoGrant] ELSE row
    /\ Becomes(r, Returned(r, row[p].claim.by # r \/ ~Holds(v)))
    /\ graphUnchanged
    /\ UNCHANGED <<rec, clock, version, left>>

\* A failed read of the graph: the claim is released unless an edge was written.
GraphReadFails(r) ==
    /\ run[r].pc = "read"
    /\ Spends("stops")
    /\ Becomes(r, IF run[r].wrote THEN IdleRun ELSE [run[r] EXCEPT !.pc = "release"])
    /\ storeUnchanged /\ graphUnchanged
    /\ UNCHANGED <<rec, version>>

ReleaseClaim(r) ==
    LET p == run[r].v.pair IN
    /\ run[r].pc = "release"
    /\ row' = IF row[p].claim.by = r THEN [row EXCEPT ![p].claim = NoGrant] ELSE row
    /\ Becomes(r, IdleRun)
    /\ graphUnchanged
    /\ UNCHANGED <<rec, clock, version, left>>

-----------------------------------------------------------------------------
(* adjudicatePair: lease, panel, then the verdict or the failure.          *)

\* One statement leases a batch of due pairs.
Lease(r) ==
    /\ run[r].pc = "lease"
    /\ \E batch \in SUBSET {p \in Pairs : Due(p)} \ {{}} :
         /\ row' = [p \in Pairs |-> IF p \in batch THEN [row[p] EXCEPT !.lease = GrantTo(r)] ELSE row[p]]
         /\ Becomes(r, [run[r] EXCEPT !.pc = "panel",
                          !.leased = {[pair |-> p, attempts |-> row[p].attempts] : p \in batch}])
    /\ graphUnchanged
    /\ UNCHANGED <<rec, clock, version, left>>

\* Nothing due, every due row locked elsewhere, or --max-pairs reached: the last recovery.
LeaseDone(r) ==
    /\ run[r].pc = "lease"
    /\ Becomes(r, [run[r] EXCEPT !.pc = "batch", !.phase = "last", !.batch = Unprojected])
    /\ storeUnchanged /\ graphUnchanged
    /\ UNCHANGED <<rec, version, left>>

\* The leased pair l is dealt with.
PairDone(r, l) == [run[r] EXCEPT !.pc = "batch", !.batch = {}, !.leased = @ \ {l}, !.v = NoVerdict]

\* The lease ran out before the panel started.
SkipExpired(r) ==
    /\ run[r].pc = "panel"
    /\ \E l \in run[r].leased : /\ row[l.pair].lease # GrantTo(r)
                                /\ Becomes(r, PairDone(r, l))
    /\ storeUnchanged /\ graphUnchanged
    /\ UNCHANGED <<rec, version, left>>

\* The panel's verdict, stamped but not recorded. It started under a live lease and took any time.
PanelVotes(r) ==
    /\ run[r].pc = "panel"
    /\ clock < MaxClock
    /\ \E l \in run[r].leased, s \in PanelStatus :
         run' = [run EXCEPT ![r] = [PairDone(r, l) EXCEPT !.pc = "commit",
            !.v = [pair |-> l.pair, status |-> s, by |-> "llm_panel", at |-> clock + 1, edge |-> 0]]]
    /\ clock' = clock + 1
    /\ graphUnchanged
    /\ UNCHANGED <<row, rec, version, left>>

Failed(p, attempts) ==
    LET abandon == attempts + 1 >= MaxAttempts IN
    [row[p] EXCEPT !.attempts = @ + 1, !.lease = NoGrant, !.due = FALSE,
                   !.status = IF abandon THEN "abandoned" ELSE @, !.at = IF abandon THEN clock ELSE @]

\* Too few valid votes: counted only under the lease the run was given.
RecordFailure(r) ==
    /\ run[r].pc = "panel"
    /\ \E l \in run[r].leased :
         /\ row' = IF Queued(l.pair) /\ row[l.pair].lease.by = r
                   THEN [row EXCEPT ![l.pair] = Failed(l.pair, l.attempts)] ELSE row
         /\ Becomes(r, PairDone(r, l))
    /\ graphUnchanged
    /\ UNCHANGED <<rec, clock, version, left>>

\* Mutant of Decide: the panel's verdict is recorded whoever decided meanwhile.
DecideUnguarded(r) ==
    LET v == run[r].v  p == v.pair IN
    /\ run[r].pc = "commit"
    /\ row' = [row EXCEPT ![p].status = v.status, ![p].by = "llm_panel", ![p].at = v.at,
                          ![p].lease = NoGrant, ![p].applied = FALSE]
    /\ Becomes(r, [run[r] EXCEPT !.pc = "batch", !.v = NoVerdict,
                    !.batch = IF v.status \in Closed THEN {[v EXCEPT !.edge = row[p].edge]} ELSE {}])
    /\ graphUnchanged
    /\ UNCHANGED <<rec, clock, version, left>>

\* Decide: applied to a queued pair only; on a person's pair the opinion becomes dissent.
Decide(r) ==
    LET v == run[r].v  p == v.pair IN
    /\ run[r].pc = "commit"
    /\ \/ /\ Queued(p)
          /\ row' = [row EXCEPT ![p].status = v.status, ![p].by = "llm_panel", ![p].at = v.at,
                                ![p].lease = NoGrant, ![p].applied = FALSE]
          /\ Becomes(r, [run[r] EXCEPT !.pc = "batch", !.v = NoVerdict,
                          !.batch = IF v.status \in Closed THEN {[v EXCEPT !.edge = row[p].edge]} ELSE {}])
       \/ /\ ~Queued(p)
          /\ Becomes(r, IF row[p].by = "human" THEN [run[r] EXCEPT !.pc = "dissent"]
                                                ELSE [run[r] EXCEPT !.pc = "batch", !.v = NoVerdict])
          /\ UNCHANGED row
    /\ graphUnchanged
    /\ UNCHANGED <<rec, clock, version, left>>

RecordDissent(r) ==
    LET v == run[r].v  p == v.pair IN
    /\ run[r].pc = "dissent"
    /\ row' = IF row[p].by = "human" THEN [row EXCEPT ![p].dissent = [status |-> v.status, at |-> v.at]] ELSE row
    /\ Becomes(r, [run[r] EXCEPT !.pc = "batch", !.v = NoVerdict])
    /\ graphUnchanged
    /\ UNCHANGED <<rec, clock, version, left>>

\* A crash, a cancelled command, a store error, a failed graph write (landed or not), an LLM outage.
RunStops(r) ==
    /\ run[r].pc # "idle"
    /\ Spends("stops")
    /\ Becomes(r, IdleRun)
    /\ storeUnchanged /\ graphUnchanged
    /\ UNCHANGED <<rec, version>>

-----------------------------------------------------------------------------
(* People.  DecideHuman records a verdict only on the state whose EXPECT   *)
(* token `show` printed, so what was shown is what is decided; a changed   *)
(* pair, or a verdict that already stands, records nothing.                *)

\* The claim is kept: its holder is writing the previous verdict. A panel verdict becomes dissent.
Decided(p, s) ==
    [row[p] EXCEPT !.status = s, !.by = "human", !.at = clock + 1, !.applied = FALSE, !.lease = NoGrant,
                   !.dissent = IF row[p].by = "llm_panel" THEN [status |-> row[p].status, at |-> row[p].at] ELSE @]

DecideHuman(p, s) ==
    /\ row[p].status # "absent"
    /\ clock < MaxClock
    /\ ~(row[p].by = "human" /\ row[p].status = s /\ ~Disputed(p))
    /\ row' = [row EXCEPT ![p] = Decided(p, s)]
    /\ clock' = clock + 1
    /\ graphUnchanged
    /\ UNCHANGED <<run, rec, version, left>>

-----------------------------------------------------------------------------
(* Time, releases and the graph's rebuild.                                 *)

Projecting(r, p) == run[r].v.pair = p /\ run[r].pc \in {"write", "read", "end", "release"}
Adjudicating(r, p) == \E l \in run[r].leased : l.pair = p

\* A claim runs out: its holder is gone, or slower than lease_duration (the overruns).
ExpireClaim(p) ==
    /\ row[p].claim.live
    /\ row' = [row EXCEPT ![p].claim.live = FALSE]
    /\ IF Projecting(row[p].claim.by, p) THEN Spends("overruns") ELSE UNCHANGED left
    /\ graphUnchanged
    /\ UNCHANGED <<run, rec, clock, version>>

ExpireLease(p) ==
    /\ row[p].lease.live
    /\ row' = [row EXCEPT ![p].lease.live = FALSE]
    /\ IF Adjudicating(row[p].lease.by, p) THEN Spends("overruns") ELSE UNCHANGED left
    /\ graphUnchanged
    /\ UNCHANGED <<run, rec, clock, version>>

\* next_attempt_at passes.
BackoffPasses(p) ==
    /\ ~row[p].due
    /\ row' = [row EXCEPT ![p].due = TRUE]
    /\ graphUnchanged
    /\ UNCHANGED <<run, rec, clock, version, left>>

\* A release changes ReconcileAlgorithmVersion, and with it the candidate edges' IDs.
Upgrade ==
    /\ version < MaxVersion
    /\ Spends("upgrades")
    /\ version' = version + 1
    /\ storeUnchanged /\ graphUnchanged
    /\ UNCHANGED <<run, rec>>

\* The tenant's graph is dropped and imported again, without groups or SAME_AS edges.
Rebuild ==
    /\ Spends("rebuilds")
    /\ graph' = [p \in Pairs |-> NoEdges]
    /\ groups' = FALSE
    /\ unattached' = Pairs
    /\ storeUnchanged
    /\ UNCHANGED <<run, rec, version, overtaken>>

ProjectStep(r) ==
    Rescan(r) \/ ClaimProjection(r) \/ CreateEdge(r) \/ ReadEdges(r) \/ SupersedeEdge(r)
    \/ MarkProjected(r) \/ ReleaseClaim(r)

AdjudicateStep(r) ==
    Lease(r) \/ LeaseDone(r) \/ SkipExpired(r) \/ PanelVotes(r) \/ RecordFailure(r) \/ Decide(r) \/ RecordDissent(r)

RunStep(r) == ProjectStep(r) \/ AdjudicateStep(r)

Start(r) == StartRun(r, "adjudicate") \/ StartRun(r, "project") \/ Reproject(r)

ReconcileStep == ReconcileStart \/ ReconcileWrite \/ Enqueue \/ ReconcileStops

TimePasses == \E p \in Pairs : ExpireClaim(p) \/ ExpireLease(p) \/ BackoffPasses(p)

Next ==
    \/ ReconcileStep
    \/ TimePasses
    \/ Upgrade
    \/ Rebuild
    \/ \E p \in Pairs, s \in Closed : DecideHuman(p, s)
    \/ \E r \in Runs : Start(r) \/ RunStep(r) \/ GraphReadFails(r) \/ RunStops(r)

\* A started run goes on, leases and claims run out, and projection passes are scheduled.
Fairness ==
    /\ \A r \in Runs : WF_vars(RunStep(r) \/ StartRun(r, "project"))
    /\ \A p \in Pairs : WF_vars(ExpireClaim(p))

Spec == Init /\ [][Next]_vars /\ Fairness

-----------------------------------------------------------------------------
(* Properties *)

Projection == [pair : Pairs, status : PanelStatus, by : {"llm_panel", "human"}, at : 1..MaxClock, edge : 0..MaxVersion]
Leased == [pair : Pairs, attempts : 0..(MaxAttempts - 1)]
Grant == [by : Runs \union {Nobody}, live : BOOLEAN]

\* Every row, edge and run holds a value its Go type and SQL column allow; the verdicts a run works
\* through have a decision time, and the pairs it leased have attempts left.
TypeOK ==
    /\ \A p \in Pairs :
         /\ row[p].status \in PanelStatus \union {"absent", "pending", "abandoned"}
         /\ row[p].by \in {"token_overlap", "llm_panel", "human"}
         /\ row[p].at \in 0..clock /\ row[p].edge \in 1..version /\ row[p].attempts \in 0..MaxAttempts
         /\ row[p].due \in BOOLEAN /\ row[p].applied \in BOOLEAN
         /\ row[p].lease \in Grant /\ row[p].claim \in Grant
         /\ row[p].dissent = NoDissent \/ row[p].dissent \in [status : PanelStatus, at : 1..clock]
         /\ graph[p] \in [EdgeIds -> [st : {"none", "live", "ended"}, from : 0..clock, to : 0..clock]]
    /\ \A r \in Runs :
         /\ run[r].batch \subseteq Projection /\ run[r].leased \subseteq Leased
         /\ run[r].v \in Projection \union {NoVerdict} /\ run[r].ending \subseteq EdgeIds
    /\ clock \in 0..MaxClock /\ version \in 1..MaxVersion

\* The live edges a closed verdict allows. A panel verdict ends its own candidate only, so the
\* candidates of other ReconcileAlgorithmVersions may stay.
Allowed(p) ==
    CASE row[p].by = "human" -> IF row[p].status = "confirmed" THEN {HumanEdge(row[p].at)} ELSE {}
      [] row[p].by = "llm_panel" -> {Candidate(v) : v \in (1..MaxVersion) \ {row[p].edge}}
                                    \union (IF row[p].status = "confirmed" THEN {PanelEdge} ELSE {})

InGraph(p) ==
    /\ Live(graph[p]) \subseteq Allowed(p)
    /\ row[p].status = "confirmed" /\ p \notin unattached => OwnEdge(VerdictOf(p)) \in Live(graph[p])

\* A verdict marked graph_applied is what the graph says: no live SAME_AS edge contradicts it and
\* a confirmation has its edge, whatever crashed, expired or raced, unless an outlived projection
\* or a late reconcile wrote to the pair since (the window adjudicate.go documents), or the graph
\* was rebuilt or lacks the groups.
AppliedIsInGraph == \A p \in Pairs : row[p].applied /\ overtaken[p] = "never" => InGraph(p)

\* A claimed row is never marked applied, so ResetProjection never meets a claim (the comment on
\* VerdictStore.ResetProjection) and no run writes to a pair whose verdict counts as written.
ClaimedIsNotApplied == \A p \in Pairs : row[p].claim.by # Nobody => ~row[p].applied

\* History is not rewritten: an ended edge keeps its end, through retries, takeovers and
\* re-projections, unless an outlived projection wrote to the pair or the graph was rebuilt.
EndedEdgesKeepTheirEnd ==
    [][\A p \in Pairs : \A e \in EdgeIds :
        graph[p][e].st = "ended" /\ overtaken'[p] = "never" /\ left'["rebuilds"] = left["rebuilds"]
            => graph'[p][e] = graph[p][e]]_vars

\* Every confirmed or rejected verdict is written to the graph in the end, also when the run that
\* recorded it stopped between its graph writes or lost its claim.
VerdictsReachTheGraph == \A p \in Pairs : (row[p].status \in Closed) ~> row[p].applied

\* The store keeps the rules of the VerdictStore interface: automation decides a queued pair once,
\* and only a person changes what a person decided.
Authority == INSTANCE VerdictAuthority WITH
                 verdict <- [p \in Pairs |-> [status |-> row[p].status, by |-> row[p].by]]
KeepsAuthority == Authority!Spec
=============================================================================
