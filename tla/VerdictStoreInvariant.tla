------------------------ MODULE VerdictStoreInvariant ------------------------
(***************************************************************************)
(* The inductive invariant of VerdictStore.  Every step that leaves the    *)
(* edges of the graph alone keeps it: the rows, the panel, the claim, the  *)
(* fence and the listing of what is to be ended.                           *)
(*                                                                         *)
(* The argument.  Every verdict a run carries was once the row's, and the  *)
(* row changed since only by a person (Known).  Stamps are never used      *)
(* twice, so the edge of a person's verdict does not exist before its      *)
(* projection starts, and no earlier projection can end it.  While a run   *)
(* holds the claim nobody else writes to the pair unnoticed, so what it    *)
(* wrote and what it read are still there when it reaches the fence        *)
(* (HolderKeeps).                                                          *)
(***************************************************************************)
EXTENDS VerdictStore, TLAPS

Statuses == {"confirmed", "rejected", "undecided", "absent", "pending", "abandoned"}
Row == [status : Statuses, by : {"token_overlap", "llm_panel", "human"}, at : Nat, edge : 1..MaxVersion,
        attempts : Nat, due : BOOLEAN, lease : Grant, applied : BOOLEAN, claim : Grant,
        dissent : [status : PanelStatus \union {"none"}, at : Nat]]
Edge == [st : {"none", "live", "ended"}, from : Nat, to : Nat]
Edges == [EdgeIds -> Edge]
Writing == {"write", "read", "end", "release"}
Steps == {"idle", "scan", "batch", "lease", "panel", "commit", "dissent"} \union Writing
RunState == [pc : Steps, goal : {"adjudicate", "project"}, phase : {"first", "panel", "last"},
             batch : SUBSET Projection, fenced : BOOLEAN, leased : SUBSET [pair : Pairs, attempts : Nat],
             v : Projection \union {NoVerdict}, wrote : BOOLEAN, ending : SUBSET EdgeIds]
RecState == [pc : {"idle", "write", "enqueue"}, open : SUBSET Pairs, from : Nat, version : 1..MaxVersion]

\* The types of the variables.
StoreType ==
    /\ row \in [Pairs -> Row]
    /\ graph \in [Pairs -> Edges]
    /\ groups \in BOOLEAN
    /\ run \in [Runs -> RunState]
    /\ rec \in RecState
    /\ clock \in 0..MaxClock
    /\ version \in 1..MaxVersion
    /\ overtaken \in [Pairs -> {"never", "since", "before"}]
    /\ unattached \subseteq Pairs

\* What a row says is consistent: who may be behind which status, and that a claimed row is not applied.
RowInv ==
    \A p \in Pairs :
        /\ row[p].at <= clock
        /\ row[p].status \in PanelStatus => row[p].at >= 1
        /\ row[p].by = "token_overlap" => row[p].status \in {"absent", "pending", "abandoned"}
        /\ row[p].by = "llm_panel" => row[p].status \in PanelStatus
        /\ row[p].by = "human" => row[p].status \in Closed
        /\ row[p].applied => row[p].status \in Closed
        /\ row[p].claim.by # Nobody => ~row[p].applied

\* A verdict that was read from the row, or recorded in it: only a later human verdict replaced it.
Known(v) ==
    /\ v.status \in Closed
    /\ v.by = "human" => /\ row[v.pair].by = "human"
                         /\ v.at <= row[v.pair].at
                         /\ v.at = row[v.pair].at => v.status = row[v.pair].status
    /\ v.by = "llm_panel" => \/ row[v.pair].by = "human"
                             \/ Holds(v) /\ v.edge = row[v.pair].edge

\* The verdicts run r is to write, or is writing, to the graph.
Carried(r) == run[r].batch \union (IF run[r].pc \in Writing THEN {run[r].v} ELSE {})

RunKeeps(r) ==
    /\ \A v \in Carried(r) : v \in Projection /\ v.at <= clock /\ Known(v)
    /\ run[r].pc \in {"commit", "dissent"} => /\ run[r].v \in Projection
                                              /\ run[r].v.by = "llm_panel"
                                              /\ run[r].v.at <= clock
    /\ run[r].pc = "write" => run[r].v.status = "confirmed"
    /\ run[r].pc # "end" => run[r].ending = {}
    /\ run[r].pc = "end" /\ run[r].v.by = "human" /\ run[r].v.status = "confirmed"
         => HumanEdge(run[r].v.at) \notin run[r].ending
    /\ run[r].pc = "end" /\ run[r].v.by = "llm_panel" => run[r].ending \subseteq {Candidate(run[r].v.edge)}

RunInv == \A r \in Runs : RunKeeps(r)

\* Which edges can exist: none without groups, a person's only from a decision already stamped,
\* the panel's only for its confirmation, ended only once a person decided.
EdgeInv ==
    /\ ~groups => \A p \in Pairs : \A e \in EdgeIds : graph[p][e].st = "none"
    /\ \A p \in Pairs : \A t \in 1..MaxClock :
         graph[p][HumanEdge(t)].st # "none" => row[p].by = "human" /\ t <= clock
    /\ \A p \in Pairs :
         /\ graph[p][PanelEdge].st # "none" => \/ row[p].by = "human"
                                               \/ row[p].by = "llm_panel" /\ row[p].status = "confirmed"
         /\ graph[p][PanelEdge].st = "ended" => row[p].by = "human"

\* Run r is writing to pair p under its claim, and nobody else wrote to p meanwhile.
Holder(r, p) ==
    /\ run[r].pc \in Writing /\ run[r].v.pair = p
    /\ row[p].claim.by = r
    /\ overtaken[p] = "never"

\* What the holder of a claim can rely on until it reaches the fence.
HolderKeeps(r, p) ==
    LET v == run[r].v IN
    /\ \A e \in run[r].ending : graph[p][e].st # "ended"
    /\ ~Holds(v) => row[p].by = "human" /\ graph[p][HumanEdge(row[p].at)].st = "none"
    /\ Holds(v) /\ run[r].pc \in {"read", "end"} /\ v.status = "confirmed" /\ p \notin unattached
         => OwnEdge(v) \in Live(graph[p])
    /\ Holds(v) /\ run[r].pc = "end" => Live(graph[p]) \subseteq Allowed(p) \union run[r].ending

HolderInv == \A r \in Runs, p \in Pairs : Holder(r, p) => HolderKeeps(r, p)

\* The edge of a standing human confirmation has not been ended.
StandingInv ==
    \A p \in Pairs : overtaken[p] = "never" /\ row[p].by = "human" /\ row[p].status = "confirmed"
        => graph[p][HumanEdge(row[p].at)].st # "ended"

VerdictInv ==
    /\ StoreType
    /\ RowInv
    /\ RunInv
    /\ EdgeInv
    /\ HolderInv
    /\ StandingInv
    /\ AppliedIsInGraph

-----------------------------------------------------------------------------
(* What a step may do to the rows and the runs. *)

\* The row keeps its verdict.
Kept(p) == /\ row'[p].status = row[p].status /\ row'[p].by = row[p].by
           /\ row'[p].at = row[p].at /\ row'[p].edge = row[p].edge

\* The reconciler or the panel worked on a pair nobody has decided.
Automated(p) == /\ row[p].by = "token_overlap"
                /\ \/ row'[p].by = "token_overlap" /\ row'[p].status \in {"absent", "pending", "abandoned"}
                   \/ row'[p].by = "llm_panel" /\ row'[p].status \in PanelStatus /\ row'[p].at >= 1
                /\ row'[p].at <= clock' /\ ~row'[p].applied

ByPerson(p) == /\ row'[p].by = "human" /\ row'[p].status \in Closed /\ ~row'[p].applied
               /\ row'[p].at = clock + 1 /\ clock' = clock + 1

Moves == /\ clock' \in {clock, clock + 1}
         /\ \A p \in Pairs : Kept(p) \/ Automated(p) \/ ByPerson(p)

\* No claim is granted, and a row marked applied has no claim.
NoneClaimed ==
    /\ \A p \in Pairs : row'[p].claim.by \in {row[p].claim.by, Nobody}
    /\ \A p \in Pairs : row'[p].applied => row'[p].status \in Closed /\ row'[p].claim.by = Nobody

\* Nothing is newly marked applied.
NoneApplied == \A p \in Pairs : row'[p].applied => row[p].applied /\ Kept(p)

\* A run that is not writing to the graph when the step is over.
Rested(q) == run'[q].pc \notin Writing /\ RunKeeps(q)'

RunsRest == \A q \in Runs : run'[q] = run[q] \/ Rested(q)

\* A verdict a run may work on stays one: a row that has a verdict is replaced by a person only,
\* with a later stamp.
LEMMA KnownStays ==
    ASSUME StoreType, Moves, NEW v \in Projection, v.at <= clock, Known(v)
    PROVE  Known(v)'
<1>1. /\ v.pair \in Pairs /\ v.at \in Nat /\ v.by \in {"llm_panel", "human"}
      /\ clock \in Nat
  BY DEF Projection, StoreType
<1>2. CASE Kept(v.pair)
  BY <1>2 DEF Known, Holds, Kept
<1>3. CASE Automated(v.pair)
  BY <1>1, <1>3 DEF Known, Holds, Automated
<1>4. CASE ByPerson(v.pair)
  BY <1>1, <1>4 DEF Known, Holds, ByPerson
<1> QED BY <1>1, <1>2, <1>3, <1>4 DEF Moves

\* What a row says stays consistent in every such step.
LEMMA MovesKeepRows ==
    ASSUME StoreType, StoreType', RowInv, Moves,
           \A p \in Pairs : row'[p].applied => row'[p].status \in Closed /\ row'[p].claim.by = Nobody
    PROVE  RowInv'
<1> SUFFICES ASSUME NEW p \in Pairs
             PROVE  /\ row'[p].at <= clock'
                    /\ row'[p].status \in PanelStatus => row'[p].at >= 1
                    /\ row'[p].by = "token_overlap" => row'[p].status \in {"absent", "pending", "abandoned"}
                    /\ row'[p].by = "llm_panel" => row'[p].status \in PanelStatus
                    /\ row'[p].by = "human" => row'[p].status \in Closed
                    /\ row'[p].applied => row'[p].status \in Closed
                    /\ row'[p].claim.by # Nobody => ~row'[p].applied
  BY DEF RowInv
<1>1. clock \in Nat /\ clock' \in Nat /\ row[p].at \in Nat /\ clock <= clock'
  BY DEF StoreType, Row, Moves
<1>2. CASE Kept(p)
  BY <1>1, <1>2 DEF RowInv, Kept, Moves
<1>3. CASE Automated(p)
  BY <1>1, <1>3 DEF Automated, Moves, PanelStatus, Closed
<1>4. CASE ByPerson(p)
  BY <1>1, <1>4 DEF ByPerson, Moves, PanelStatus, Closed
<1> QED BY <1>2, <1>3, <1>4 DEF Moves

\* A run that did not move keeps what is known of the verdicts it carries.
LEMMA StillRun ==
    ASSUME StoreType, Moves, NEW q \in Runs, RunKeeps(q), run'[q] = run[q]
    PROVE  RunKeeps(q)'
<1>1. clock \in Nat /\ clock' \in Nat /\ clock <= clock'
  BY DEF StoreType, Moves
<1>2. \A v \in Projection : v.at \in Nat
  BY DEF Projection
<1>3. Carried(q)' = Carried(q)
  BY DEF Carried
<1>4. \A v \in Carried(q) : v \in Projection /\ v.at <= clock' /\ Known(v)'
  <2> TAKE v \in Carried(q)
  <2>1. v \in Projection /\ v.at <= clock /\ Known(v)
    BY DEF RunKeeps
  <2> QED BY <1>1, <1>2, <2>1, KnownStays
<1>5. run[q].pc \in {"commit", "dissent"} => run[q].v.at <= clock'
  BY <1>1, <1>2 DEF RunKeeps
<1> QED BY <1>3, <1>4, <1>5 DEF RunKeeps

LEMMA RestKeepsRuns ==
    ASSUME StoreType, RunInv, Moves, RunsRest
    PROVE  RunInv'
BY StillRun DEF RunInv, RunsRest, Rested

-----------------------------------------------------------------------------
(* Steps that write nothing to the graph. *)

\* Which edges exist is as consistent with the rows as before.
LEMMA CalmEdges ==
    ASSUME StoreType, EdgeInv, Moves, UNCHANGED <<graph, groups>>
    PROVE  EdgeInv'
<1>1. clock \in Nat /\ clock' \in Nat /\ clock <= clock'
  BY DEF StoreType, Moves
<1>2. ASSUME NEW p \in Pairs
      PROVE  /\ row[p].by = "human" => row'[p].by = "human"
             /\ row[p].by = "llm_panel" /\ row[p].status = "confirmed"
                  => row'[p].by = "human" \/ (row'[p].by = "llm_panel" /\ row'[p].status = "confirmed")
  BY DEF Moves, Kept, Automated, ByPerson
<1>3. ASSUME NEW p \in Pairs, NEW t \in 1..MaxClock, graph'[p][HumanEdge(t)].st # "none"
      PROVE  row'[p].by = "human" /\ t <= clock'
  <2>1. row[p].by = "human" /\ t <= clock
    BY <1>3 DEF EdgeInv
  <2> QED BY <1>1, <1>2, <2>1
<1>4. ~groups' => \A p \in Pairs : \A e \in EdgeIds : graph'[p][e].st = "none"
  BY DEF EdgeInv
<1>5. ASSUME NEW p \in Pairs
      PROVE  /\ graph'[p][PanelEdge].st # "none"
                  => row'[p].by = "human" \/ (row'[p].by = "llm_panel" /\ row'[p].status = "confirmed")
             /\ graph'[p][PanelEdge].st = "ended" => row'[p].by = "human"
  BY <1>2 DEF EdgeInv
<1> QED BY <1>3, <1>4, <1>5 DEF EdgeInv, EdgeIds, HumanEdge

\* A stamp not given yet is the stamp of no edge.
LEMMA NextStampIsFree ==
    ASSUME StoreType, StoreType', EdgeInv, NEW p \in Pairs, clock' = clock + 1
    PROVE  graph[p][HumanEdge(clock')].st = "none"
<1>1. clock \in Nat /\ clock' \in 1..MaxClock
  BY DEF StoreType
<1> QED BY <1>1 DEF EdgeInv

\* The edge of a standing human confirmation stays.
LEMMA CalmStanding ==
    ASSUME StoreType, StoreType', EdgeInv, StandingInv, Moves,
           NEW p \in Pairs, graph'[p] = graph[p], overtaken[p] = "never",
           row'[p].by = "human", row'[p].status = "confirmed"
    PROVE  graph'[p][HumanEdge(row'[p].at)].st # "ended"
<1>1. CASE Kept(p)
  BY <1>1 DEF Kept, StandingInv, HumanEdge
<1>2. CASE Automated(p)
  BY <1>2 DEF Automated
<1>3. CASE ByPerson(p)
  BY <1>3, NextStampIsFree DEF ByPerson
<1> QED BY <1>1, <1>2, <1>3 DEF Moves

\* The holder of a claim can go on relying on what it wrote and read, when neither it nor
\* anybody else writes to the pair.
LEMMA CalmHolder ==
    ASSUME StoreType, StoreType', RunInv, EdgeInv, HolderInv, Moves,
           NEW q \in Runs, NEW p \in Pairs, Holder(q, p)', run'[q] = run[q], graph'[p] = graph[p],
           row[p].claim.by = q, overtaken[p] = "never", p \in unattached => p \in unattached'
    PROVE  HolderKeeps(q, p)'
<1> DEFINE v == run[q].v
<1>1. Holder(q, p) /\ HolderKeeps(q, p)
  BY DEF Holder, HolderInv
<1>2. v \in Projection /\ v.at <= clock /\ Known(v) /\ v.pair = p
  BY <1>1 DEF Holder, RunInv, RunKeeps, Carried
<1>3. v.at \in Nat /\ clock \in Nat /\ v.by \in {"llm_panel", "human"}
  BY <1>2 DEF Projection, StoreType
<1>4. CASE Kept(p)
  <2>1. Holds(run[q].v)' = Holds(run[q].v) /\ Allowed(p)' = Allowed(p)
    BY <1>2, <1>4 DEF Holds, Allowed, Kept, HumanEdge, Candidate, PanelEdge
  <2> QED BY <1>1, <1>4, <2>1 DEF HolderKeeps, Kept, HumanEdge, OwnEdge, PanelEdge, Live
<1>5. CASE Automated(p)
  BY <1>2, <1>3, <1>5 DEF Known, Holds, Automated
<1>6. CASE ByPerson(p)
  <2>1. ~Holds(run[q].v)'
    BY <1>2, <1>3, <1>6 DEF Holds, ByPerson
  <2>2. graph'[p][HumanEdge(row'[p].at)].st = "none" /\ row'[p].by = "human"
    BY <1>6, NextStampIsFree DEF ByPerson
  <2> QED BY <1>1, <2>1, <2>2 DEF HolderKeeps, HumanEdge
<1> QED BY <1>4, <1>5, <1>6 DEF Moves

\* An applied verdict that is kept, and to whose pair nobody writes, is still in the graph.
LEMMA CalmInGraph ==
    ASSUME NEW p \in Pairs, Kept(p), graph'[p] = graph[p], p \in unattached => p \in unattached', InGraph(p)
    PROVE  InGraph(p)'
<1>1. Allowed(p)' = Allowed(p) /\ OwnEdge(VerdictOf(p))' = OwnEdge(VerdictOf(p))
  BY DEF Kept, Allowed, OwnEdge, VerdictOf, HumanEdge, PanelEdge, Candidate
<1> QED BY <1>1 DEF InGraph, Kept, Live

LEMMA CalmApplied ==
    ASSUME AppliedIsInGraph, NoneApplied, graphUnchanged
    PROVE  AppliedIsInGraph'
BY CalmInGraph DEF AppliedIsInGraph, NoneApplied, graphUnchanged

\* A step that writes nothing to the graph and leaves no run newly writing keeps the invariant,
\* if what it marks applied is in the graph.
LEMMA CalmButApplied ==
    ASSUME VerdictInv, StoreType', Moves, NoneClaimed, graphUnchanged, RunsRest, AppliedIsInGraph'
    PROVE  VerdictInv'
<1>1. RowInv' /\ RunInv' /\ EdgeInv'
  BY MovesKeepRows, RestKeepsRuns, CalmEdges DEF VerdictInv, NoneClaimed, graphUnchanged
<1>2. StandingInv'
  <2> SUFFICES ASSUME NEW p \in Pairs, overtaken'[p] = "never", row'[p].by = "human", row'[p].status = "confirmed"
               PROVE  graph'[p][HumanEdge(row'[p].at)].st # "ended"
    BY DEF StandingInv, HumanEdge
  <2> QED BY CalmStanding DEF VerdictInv, graphUnchanged
<1>3. HolderInv'
  <2> SUFFICES ASSUME NEW q \in Runs, NEW p \in Pairs, Holder(q, p)'
               PROVE  HolderKeeps(q, p)'
    BY DEF HolderInv
  <2>1. run'[q] = run[q] /\ row[p].claim.by = q /\ overtaken[p] = "never"
    BY NobodyAssumption DEF RunsRest, Rested, Holder, NoneClaimed, graphUnchanged
  <2> QED BY <2>1, CalmHolder DEF VerdictInv, graphUnchanged
<1> QED BY <1>1, <1>2, <1>3 DEF VerdictInv

\* A step that writes nothing to the graph, marks nothing applied and leaves no run newly writing
\* keeps the invariant.
LEMMA CalmStep ==
    ASSUME VerdictInv, StoreType', Moves, NoneClaimed, NoneApplied, graphUnchanged, RunsRest
    PROVE  VerdictInv'
BY CalmApplied, CalmButApplied DEF VerdictInv

\* A step that leaves the rows alone.
LEMMA RowsAlone ==
    ASSUME VerdictInv, storeUnchanged
    PROVE  Moves /\ NoneClaimed /\ NoneApplied
BY DEF VerdictInv, RowInv, storeUnchanged, Moves, NoneClaimed, NoneApplied, Kept

\* A step that leaves the runs alone.
LEMMA RunsAlone ==
    ASSUME run' = run
    PROVE  RunsRest
BY DEF RunsRest

\* The loops' ends lead to no write.
LEMMA SettledRun ==
    ASSUME NEW x \in RunState
    PROVE  /\ Settled(x) \in RunState
           /\ x.pc # "batch" => Settled(x) = x
           /\ x.pc = "batch" => Settled(x).pc \in {"batch", "lease", "panel", "scan", "idle"}
           /\ Settled(x).batch \subseteq x.batch
           /\ Settled(x).ending \subseteq x.ending
<1>1. IdleRun \in RunState /\ IdleRun.batch = {} /\ IdleRun.ending = {} /\ IdleRun.pc = "idle"
  BY DEF IdleRun, RunState, Steps
<1>2. CASE ~(x.pc = "batch" /\ x.batch = {})
  BY <1>2 DEF Settled
<1>3. CASE x.pc = "batch" /\ x.batch = {} /\ x.phase = "panel"
  BY <1>3, ZenonT(30) DEF Settled, RunState, Steps
<1>4. CASE x.pc = "batch" /\ x.batch = {} /\ x.phase # "panel" /\ x.fenced
  BY <1>4, Zenon DEF Settled, RunState, Steps
<1>5. CASE x.pc = "batch" /\ x.batch = {} /\ x.phase = "first" /\ ~x.fenced /\ x.goal = "adjudicate"
  BY <1>5, Zenon DEF Settled, RunState, Steps
<1>6. CASE x.pc = "batch" /\ x.batch = {} /\ x.phase # "panel" /\ ~x.fenced
           /\ ~(x.phase = "first" /\ x.goal = "adjudicate")
  BY <1>1, <1>6 DEF Settled
<1> QED BY <1>2, <1>3, <1>4, <1>5, <1>6

\* A run that goes on without writing to the graph, with verdicts that are known.
LEMMA RunGoesOn ==
    ASSUME StoreType, NEW r \in Runs, NEW x \in RunState, Becomes(r, x),
           x.pc \notin Writing, x.ending = {},
           x.pc \in {"commit", "dissent"} => x.v \in Projection /\ x.v.by = "llm_panel" /\ x.v.at <= clock',
           \A v \in x.batch : v.at <= clock' /\ Known(v)'
    PROVE  run' \in [Runs -> RunState] /\ RunsRest
<1>1. run \in [Runs -> RunState]
  BY DEF StoreType
<1>2. /\ Settled(x) \in RunState /\ Settled(x).pc \notin Writing
      /\ Settled(x).batch \subseteq x.batch /\ Settled(x).ending = {}
      /\ Settled(x).pc \in {"commit", "dissent"} => Settled(x) = x
  BY SettledRun DEF Writing
<1>3. run' \in [Runs -> RunState] /\ run'[r] = Settled(x) /\ \A q \in Runs : q # r => run'[q] = run[q]
  BY <1>1, <1>2 DEF Becomes
<1>4. Carried(r)' \subseteq x.batch
  BY <1>2, <1>3 DEF Carried
<1>5. x.batch \subseteq Projection
  BY DEF RunState
<1>6. Rested(r)
  BY <1>2, <1>3, <1>4, <1>5 DEF Rested, RunKeeps, Writing
<1> QED BY <1>3, <1>6 DEF RunsRest

\* The verdicts a recovery works through stand in their rows.
LEMMA UnprojectedKnown ==
    ASSUME StoreType, RowInv
    PROVE  Unprojected \subseteq Projection /\ \A v \in Unprojected : v.at <= clock /\ Known(v)
<1> SUFFICES ASSUME NEW p \in Pairs, row[p].status \in Closed
             PROVE  VerdictOf(p) \in Projection /\ VerdictOf(p).at <= clock /\ Known(VerdictOf(p))
  BY DEF Unprojected
<1>1. /\ row[p].at \in Nat /\ row[p].edge \in 1..MaxVersion /\ clock \in 0..MaxClock
      /\ row[p].by \in {"token_overlap", "llm_panel", "human"}
  BY DEF StoreType, Row
<1>2. row[p].at \in 1..MaxClock /\ row[p].at <= clock /\ row[p].by \in {"llm_panel", "human"}
  BY <1>1, BoundsAssumption DEF RowInv, PanelStatus, Closed
<1>3. VerdictOf(p) \in Projection
  BY <1>1, <1>2, BoundsAssumption DEF VerdictOf, Projection, PanelStatus
<1> QED BY <1>1, <1>2, <1>3 DEF VerdictOf, Known, Holds

-----------------------------------------------------------------------------
(* The reconciler, people and time, one lemma per action. *)

LEMMA ReconcileStartStep == VerdictInv /\ ReconcileStart => VerdictInv'
<1> SUFFICES ASSUME VerdictInv, ReconcileStart PROVE VerdictInv'
  OBVIOUS
<1>1. StoreType'
  BY DEF VerdictInv, StoreType, ReconcileStart, RecState, storeUnchanged, graphUnchanged
<1> QED BY <1>1, RowsAlone, RunsAlone, CalmStep DEF ReconcileStart

LEMMA ReconcileStopsStep == VerdictInv /\ ReconcileStops => VerdictInv'
<1> SUFFICES ASSUME VerdictInv, ReconcileStops PROVE VerdictInv'
  OBVIOUS
<1>1. StoreType'
  BY BoundsAssumption DEF VerdictInv, StoreType, ReconcileStops, RecState, IdleRec, storeUnchanged, graphUnchanged
<1> QED BY <1>1, RowsAlone, RunsAlone, CalmStep DEF ReconcileStops

LEMMA UpgradeStep == VerdictInv /\ Upgrade => VerdictInv'
<1> SUFFICES ASSUME VerdictInv, Upgrade PROVE VerdictInv'
  OBVIOUS
<1>1. StoreType'
  BY BoundsAssumption DEF VerdictInv, StoreType, Upgrade, storeUnchanged, graphUnchanged
<1> QED BY <1>1, RowsAlone, RunsAlone, CalmStep DEF Upgrade

\* A pair the reconcile found is queued, or its edge updated, unless it was decided.
LEMMA EnqueueStep == VerdictInv /\ Enqueue => VerdictInv'
<1> SUFFICES ASSUME VerdictInv, Enqueue PROVE VerdictInv'
  OBVIOUS
<1>0. /\ row \in [Pairs -> Row] /\ rec \in RecState /\ clock \in Nat /\ RowInv /\ StoreType
      /\ rec.version \in 1..MaxVersion
  BY DEF VerdictInv, StoreType, RecState
<1>1. NewRow \in Row
  BY BoundsAssumption DEF NewRow, Row, Statuses, NoGrant, NoDissent, Grant
<1>2. \A p \in Pairs : Enqueued(p) \in Row
  BY <1>0, <1>1, ZenonT(30) DEF Enqueued, Row, Statuses
<1>3. StoreType'
  BY <1>0, <1>2, BoundsAssumption DEF StoreType, Enqueue, RecState, IdleRec, graphUnchanged
<1>4. ASSUME NEW p \in Pairs
      PROVE  /\ Kept(p) \/ Automated(p)
             /\ row'[p].claim.by \in {row[p].claim.by, Nobody}
             /\ row'[p].applied => row[p].applied /\ Kept(p)
  <2>0. row[p] \in Row
    BY <1>0
  <2>1. CASE ~(p \in rec.open /\ (row[p].status = "absent" \/ Queued(p)))
    BY <2>1, <1>0 DEF Enqueue, Enqueued, Kept
  <2>2. CASE p \in rec.open /\ row[p].status = "absent"
    <3>1. row'[p] = [NewRow EXCEPT !.status = "pending", !.edge = rec.version]
      BY <2>2 DEF Enqueue, Enqueued
    <3>2. row[p].by = "token_overlap"
      BY <2>0, <2>2, <1>0 DEF RowInv, Row, PanelStatus, Closed
    <3>3. /\ row'[p].by = "token_overlap" /\ row'[p].status = "pending" /\ row'[p].at = 0
          /\ row'[p].applied = FALSE /\ row'[p].claim.by = Nobody
      BY <3>1 DEF NewRow, NoGrant
    <3> QED BY <1>0, <3>2, <3>3 DEF Automated, Enqueue
  <2>3. CASE p \in rec.open /\ row[p].status # "absent" /\ Queued(p)
    <3>1. row'[p] = [row[p] EXCEPT !.edge = rec.version]
      BY <2>3 DEF Enqueue, Enqueued
    <3>2. row[p].by = "token_overlap" /\ ~row[p].applied /\ row[p].status = "pending" /\ row[p].at <= clock
      BY <2>0, <2>3, <1>0 DEF RowInv, Row, PanelStatus, Closed, Queued
    <3>3. /\ row'[p].by = row[p].by /\ row'[p].status = row[p].status /\ row'[p].at = row[p].at
          /\ row'[p].applied = row[p].applied /\ row'[p].claim = row[p].claim
      BY <2>0, <3>1 DEF Row
    <3> QED BY <1>0, <3>2, <3>3 DEF Automated, Enqueue
  <2> QED BY <2>1, <2>2, <2>3
<1>5. Moves /\ NoneClaimed /\ NoneApplied
  BY <1>0, <1>4 DEF Moves, NoneClaimed, NoneApplied, Enqueue, RowInv, Kept
<1> QED BY <1>3, <1>5, RunsAlone, CalmStep DEF Enqueue

\* A person's verdict gets a stamp no other verdict has.
LEMMA DecideHumanStep ==
    ASSUME VerdictInv, NEW p \in Pairs, NEW s \in Closed, DecideHuman(p, s)
    PROVE  VerdictInv'
<1>0. /\ row \in [Pairs -> Row] /\ row[p] \in Row /\ clock \in Nat /\ clock < MaxClock /\ RowInv /\ StoreType
      /\ MaxClock \in Nat
  BY BoundsAssumption DEF VerdictInv, StoreType, DecideHuman
<1>1. row[p].by = "llm_panel" => row[p].status \in PanelStatus
  BY <1>0 DEF RowInv
<1>2. Decided(p, s) \in Row
  <2> DEFINE d == IF row[p].by = "llm_panel" THEN [status |-> row[p].status, at |-> row[p].at] ELSE row[p].dissent
  <2>1. d \in [status : PanelStatus \union {"none"}, at : Nat]
    BY <1>0, <1>1 DEF Row
  <2>2. s \in Statuses /\ clock + 1 \in Nat /\ NoGrant \in Grant
    BY <1>0 DEF Statuses, Closed, NoGrant, Grant
  <2>3. Decided(p, s) = [row[p] EXCEPT !.status = s, !.by = "human", !.at = clock + 1, !.applied = FALSE,
                                       !.lease = NoGrant, !.dissent = d]
    BY <1>0 DEF Decided, Row
  <2> HIDE DEF d
  <2> QED BY <1>0, <2>1, <2>2, <2>3, ZenonT(30) DEF Row
<1>3. row' \in [Pairs -> Row] /\ row'[p] = Decided(p, s) /\ \A q \in Pairs : q # p => row'[q] = row[q]
  BY <1>0, <1>2 DEF DecideHuman
<1>4. StoreType'
  BY <1>0, <1>3 DEF StoreType, DecideHuman, graphUnchanged
<1>5. ByPerson(p) /\ row'[p].claim = row[p].claim /\ ~row'[p].applied
  BY <1>0, <1>3 DEF Decided, Row, ByPerson, DecideHuman
<1>6. Moves /\ NoneClaimed /\ NoneApplied
  BY <1>0, <1>3, <1>5 DEF Moves, NoneClaimed, NoneApplied, DecideHuman, RowInv, Kept
<1> QED BY <1>4, <1>6, RunsAlone, CalmStep DEF DecideHuman

LEMMA ExpireClaimStep ==
    ASSUME VerdictInv, NEW p \in Pairs, ExpireClaim(p)
    PROVE  VerdictInv'
<1>0. row \in [Pairs -> Row] /\ row[p] \in Row /\ clock \in Nat /\ RowInv /\ StoreType
  BY DEF VerdictInv, StoreType
<1>1. /\ row' \in [Pairs -> Row]
      /\ \A q \in Pairs : Kept(q) /\ row'[q].claim.by = row[q].claim.by /\ row'[q].applied = row[q].applied
  BY <1>0, Zenon DEF ExpireClaim, Row, Grant, Kept
<1>2. StoreType'
  BY <1>0, <1>1 DEF StoreType, ExpireClaim, graphUnchanged
<1>3. Moves /\ NoneClaimed /\ NoneApplied
  BY <1>0, <1>1 DEF Moves, NoneClaimed, NoneApplied, ExpireClaim, RowInv, Kept
<1> QED BY <1>2, <1>3, RunsAlone, CalmStep DEF ExpireClaim

LEMMA ExpireLeaseStep ==
    ASSUME VerdictInv, NEW p \in Pairs, ExpireLease(p)
    PROVE  VerdictInv'
<1>0. row \in [Pairs -> Row] /\ row[p] \in Row /\ clock \in Nat /\ RowInv /\ StoreType
  BY DEF VerdictInv, StoreType
<1>1. /\ row' \in [Pairs -> Row]
      /\ \A q \in Pairs : Kept(q) /\ row'[q].claim.by = row[q].claim.by /\ row'[q].applied = row[q].applied
  BY <1>0, Zenon DEF ExpireLease, Row, Grant, Kept
<1>2. StoreType'
  BY <1>0, <1>1 DEF StoreType, ExpireLease, graphUnchanged
<1>3. Moves /\ NoneClaimed /\ NoneApplied
  BY <1>0, <1>1 DEF Moves, NoneClaimed, NoneApplied, ExpireLease, RowInv, Kept
<1> QED BY <1>2, <1>3, RunsAlone, CalmStep DEF ExpireLease

LEMMA BackoffPassesStep ==
    ASSUME VerdictInv, NEW p \in Pairs, BackoffPasses(p)
    PROVE  VerdictInv'
<1>0. row \in [Pairs -> Row] /\ row[p] \in Row /\ clock \in Nat /\ RowInv /\ StoreType
  BY DEF VerdictInv, StoreType
<1>1. /\ row' \in [Pairs -> Row]
      /\ \A q \in Pairs : Kept(q) /\ row'[q].claim.by = row[q].claim.by /\ row'[q].applied = row[q].applied
  BY <1>0, Zenon DEF BackoffPasses, Row, Kept
<1>2. StoreType'
  BY <1>0, <1>1 DEF StoreType, BackoffPasses, graphUnchanged
<1>3. Moves /\ NoneClaimed /\ NoneApplied
  BY <1>0, <1>1 DEF Moves, NoneClaimed, NoneApplied, BackoffPasses, RowInv, Kept
<1> QED BY <1>2, <1>3, RunsAlone, CalmStep DEF BackoffPasses

-----------------------------------------------------------------------------
(* The runs' steps that write nothing to the graph. *)

\* The verdicts a run still has to write are known after any step.
LEMMA BatchStaysKnown ==
    ASSUME VerdictInv, Moves, NEW r \in Runs
    PROVE  \A v \in run[r].batch : v.at <= clock' /\ Known(v)'
<1> TAKE v \in run[r].batch
<1>1. v \in Projection /\ v.at <= clock /\ Known(v) /\ StoreType
  BY DEF VerdictInv, RunInv, RunKeeps, Carried
<1>2. v.at \in Nat /\ clock \in Nat /\ clock' \in Nat /\ clock <= clock'
  BY <1>1 DEF Projection, Moves, StoreType
<1> QED BY <1>1, <1>2, KnownStays

LEMMA IdleRunType == IdleRun \in RunState /\ IdleRun.batch = {} /\ IdleRun.ending = {} /\ IdleRun.pc = "idle"
BY DEF IdleRun, RunState, Steps

\* A step of a run that changes neither a row nor the graph, and goes on with some of the verdicts
\* it had, or with the ones a recovery finds.
LEMMA QuietRun ==
    ASSUME VerdictInv, storeUnchanged, graphUnchanged, UNCHANGED <<rec, version>>,
           NEW r \in Runs, NEW x \in RunState, Becomes(r, x),
           x.pc \notin Writing, x.ending = {},
           x.pc \in {"commit", "dissent"} => x.v \in Projection /\ x.v.by = "llm_panel" /\ x.v.at <= clock',
           x.batch \subseteq run[r].batch \union Unprojected
    PROVE  VerdictInv'
<1>1. Moves /\ NoneClaimed /\ NoneApplied
  BY RowsAlone
<1>2. Unprojected \subseteq Projection /\ \A v \in Unprojected : v.at <= clock /\ Known(v)
  BY UnprojectedKnown DEF VerdictInv
<1>3. \A v \in Unprojected : v.at <= clock' /\ Known(v)'
  BY <1>1, <1>2, KnownStays DEF VerdictInv, storeUnchanged
<1>4. \A v \in x.batch : v.at <= clock' /\ Known(v)'
  BY <1>1, <1>3, BatchStaysKnown
<1>5. run' \in [Runs -> RunState] /\ RunsRest
  BY <1>4, RunGoesOn DEF VerdictInv
<1>6. StoreType'
  BY <1>5 DEF VerdictInv, StoreType, storeUnchanged, graphUnchanged
<1> QED BY <1>1, <1>5, <1>6, CalmStep

\* A run's record, with nothing left to end unless it is ending edges.
LEMMA RunRecord ==
    ASSUME VerdictInv, NEW r \in Runs
    PROVE  /\ run[r] \in RunState
           /\ run[r].pc # "end" => run[r].ending = {}
BY DEF VerdictInv, StoreType, RunInv, RunKeeps

LEMMA StartRunStep ==
    ASSUME VerdictInv, NEW r \in Runs, NEW goal \in {"adjudicate", "project"}, StartRun(r, goal)
    PROVE  VerdictInv'
<1> DEFINE x == [IdleRun EXCEPT !.pc = "batch", !.goal = goal, !.batch = Unprojected]
<1>1. Unprojected \subseteq Projection
  BY UnprojectedKnown DEF VerdictInv
<1>2. x \in RunState /\ x.pc = "batch" /\ x.ending = {} /\ x.batch = Unprojected
  BY <1>1, IdleRunType, Zenon DEF RunState, Steps
<1>3. Becomes(r, x)
  BY DEF StartRun
<1> HIDE DEF x
<1> QED BY <1>2, <1>3, QuietRun DEF StartRun, Writing

LEMMA RescanStep ==
    ASSUME VerdictInv, NEW r \in Runs, Rescan(r)
    PROVE  VerdictInv'
<1> DEFINE x == [run[r] EXCEPT !.pc = "batch", !.batch = Unprojected]
<1>1. Unprojected \subseteq Projection
  BY UnprojectedKnown DEF VerdictInv
<1>2. x \in RunState /\ x.pc = "batch" /\ x.ending = {} /\ x.batch = Unprojected
  BY <1>1, RunRecord, Zenon DEF RunState, Steps, Rescan
<1>3. Becomes(r, x)
  BY DEF Rescan
<1> HIDE DEF x
<1> QED BY <1>2, <1>3, QuietRun DEF Rescan, Writing

LEMMA LeaseDoneStep ==
    ASSUME VerdictInv, NEW r \in Runs, LeaseDone(r)
    PROVE  VerdictInv'
<1> DEFINE x == [run[r] EXCEPT !.pc = "batch", !.phase = "last", !.batch = Unprojected]
<1>1. Unprojected \subseteq Projection
  BY UnprojectedKnown DEF VerdictInv
<1>2. x \in RunState /\ x.pc = "batch" /\ x.ending = {} /\ x.batch = Unprojected
  BY <1>1, RunRecord, Zenon DEF RunState, Steps, LeaseDone
<1>3. Becomes(r, x)
  BY DEF LeaseDone
<1> HIDE DEF x
<1> QED BY <1>2, <1>3, QuietRun DEF LeaseDone, Writing

\* What is left of a run once a leased pair is dealt with.
LEMMA PairDoneRun ==
    ASSUME VerdictInv, NEW r \in Runs, run[r].pc = "panel", NEW l
    PROVE  /\ PairDone(r, l) \in RunState
           /\ PairDone(r, l).pc = "batch" /\ PairDone(r, l).ending = {} /\ PairDone(r, l).batch = {}
BY RunRecord, ZenonT(30) DEF PairDone, RunState, Steps

LEMMA SkipExpiredStep ==
    ASSUME VerdictInv, NEW r \in Runs, SkipExpired(r)
    PROVE  VerdictInv'
<1>1. PICK l \in run[r].leased : Becomes(r, PairDone(r, l))
  BY DEF SkipExpired
<1>2. /\ PairDone(r, l) \in RunState
      /\ PairDone(r, l).pc = "batch" /\ PairDone(r, l).ending = {} /\ PairDone(r, l).batch = {}
  BY PairDoneRun DEF SkipExpired
<1> QED BY <1>1, <1>2, QuietRun DEF SkipExpired, Writing

LEMMA RunStopsStep ==
    ASSUME VerdictInv, NEW r \in Runs, RunStops(r)
    PROVE  VerdictInv'
BY IdleRunType, QuietRun DEF RunStops, Writing

\* A step of a run that changes rows and not the graph.
LEMMA StoreRun ==
    ASSUME VerdictInv, Moves, NoneClaimed, NoneApplied, row' \in [Pairs -> Row], clock' \in 0..MaxClock,
           graphUnchanged, UNCHANGED <<rec, version>>,
           NEW r \in Runs, NEW x \in RunState, Becomes(r, x),
           x.pc \notin Writing, x.ending = {},
           x.pc \in {"commit", "dissent"} => x.v \in Projection /\ x.v.by = "llm_panel" /\ x.v.at <= clock',
           \A v \in x.batch : v \in run[r].batch \/ (v.at <= clock' /\ Known(v)')
    PROVE  VerdictInv'
<1>1. \A v \in x.batch : v.at <= clock' /\ Known(v)'
  BY BatchStaysKnown
<1>2. run' \in [Runs -> RunState] /\ RunsRest
  BY <1>1, RunGoesOn DEF VerdictInv
<1>3. StoreType'
  BY <1>2 DEF VerdictInv, StoreType, graphUnchanged
<1> QED BY <1>2, <1>3, CalmStep

\* A row whose verdict, claim and mark are as before, or less.
Touched(x, y) ==
    /\ y \in Row
    /\ y.status = x.status /\ y.by = x.by /\ y.at = x.at /\ y.edge = x.edge
    /\ y.claim.by \in {x.claim.by, Nobody}
    /\ y.applied => x.applied

LEMMA RowTouches ==
    ASSUME NEW x \in Row
    PROVE  /\ Touched(x, x)
           /\ Touched(x, [x EXCEPT !.applied = FALSE])
           /\ Touched(x, [x EXCEPT !.claim = NoGrant])
           /\ \A g \in Grant : Touched(x, [x EXCEPT !.lease = g])
           /\ \A d \in [status : PanelStatus \union {"none"}, at : Nat] : Touched(x, [x EXCEPT !.dissent = d])
<1>0. NoGrant \in Grant /\ NoGrant.by = Nobody
  BY DEF NoGrant, Grant
<1>1. Touched(x, x)
  BY DEF Touched
<1>2. Touched(x, [x EXCEPT !.applied = FALSE])
  BY Zenon DEF Touched, Row
<1>3. Touched(x, [x EXCEPT !.claim = NoGrant])
  BY <1>0 DEF Touched, Row
<1>4. ASSUME NEW g \in Grant PROVE Touched(x, [x EXCEPT !.lease = g])
  BY DEF Touched, Row
<1>5. ASSUME NEW d \in [status : PanelStatus \union {"none"}, at : Nat] PROVE Touched(x, [x EXCEPT !.dissent = d])
  BY DEF Touched, Row
<1> QED BY <1>1, <1>2, <1>3, <1>4, <1>5

LEMMA RowsTouched ==
    ASSUME VerdictInv, clock' = clock, \A p \in Pairs : Touched(row[p], row'[p])
    PROVE  Moves /\ NoneClaimed /\ NoneApplied
BY DEF VerdictInv, RowInv, Moves, NoneClaimed, NoneApplied, Kept, Touched

LEMMA OneTouched ==
    ASSUME VerdictInv, NEW p \in Pairs, NEW y, row' = [row EXCEPT ![p] = y], Touched(row[p], y)
    PROVE  row' \in [Pairs -> Row] /\ \A q \in Pairs : Touched(row[q], row'[q])
<1>0. row \in [Pairs -> Row] /\ y \in Row
  BY DEF VerdictInv, StoreType, Touched
<1>1. row' \in [Pairs -> Row] /\ row'[p] = y /\ \A q \in Pairs : q # p => row'[q] = row[q]
  BY <1>0
<1>2. \A q \in Pairs : Touched(row[q], row[q])
  BY <1>0, RowTouches, Zenon
<1> QED BY <1>1, <1>2

LEMMA NoneTouched ==
    ASSUME VerdictInv, row' = row
    PROVE  row' \in [Pairs -> Row] /\ \A q \in Pairs : Touched(row[q], row'[q])
BY RowTouches, Zenon DEF VerdictInv, StoreType

\* The pair a run is writing about.
LEMMA PairWritten ==
    ASSUME VerdictInv, NEW r \in Runs, run[r].pc \in Writing \union {"commit", "dissent"}
    PROVE  run[r].v.pair \in Pairs /\ run[r].v \in Projection
<1>1. run[r].v \in Projection
  BY DEF VerdictInv, RunInv, RunKeeps, Carried
<1> QED BY <1>1 DEF Projection

LEMMA ReprojectStep ==
    ASSUME VerdictInv, NEW r \in Runs, Reproject(r)
    PROVE  VerdictInv'
<1> DEFINE x == [IdleRun EXCEPT !.pc = "scan"]
<1>0. row \in [Pairs -> Row] /\ clock \in 0..MaxClock
  BY DEF VerdictInv, StoreType
<1>1. row' \in [Pairs -> Row] /\ \A p \in Pairs : Touched(row[p], row'[p])
  BY <1>0, RowTouches, Zenon DEF Reproject, Touched
<1>2. x \in RunState /\ x.pc = "scan" /\ x.ending = {} /\ x.batch = {}
  BY IdleRunType DEF RunState, Steps
<1>3. Becomes(r, x)
  BY DEF Reproject
<1>4. Moves /\ NoneClaimed /\ NoneApplied
  BY ZenonT(20), <1>1, RowsTouched DEF Reproject
<1> HIDE DEF x
<1> QED BY <1>0, <1>1, <1>2, <1>3, <1>4, StoreRun DEF Reproject, Writing

LEMMA ReleaseClaimStep ==
    ASSUME VerdictInv, NEW r \in Runs, ReleaseClaim(r)
    PROVE  VerdictInv'
<1>0. row \in [Pairs -> Row] /\ clock \in 0..MaxClock
  BY DEF VerdictInv, StoreType
<1>1. row' \in [Pairs -> Row] /\ \A p \in Pairs : Touched(row[p], row'[p])
  <2>1. run[r].v.pair \in Pairs
    BY PairWritten DEF ReleaseClaim, Writing
  <2>2. CASE row' = row
    BY <2>2, NoneTouched
  <2>3. CASE row' = [row EXCEPT ![run[r].v.pair] = [row[run[r].v.pair] EXCEPT !.claim = NoGrant]]
    BY <1>0, <2>1, <2>3, RowTouches, OneTouched, ZenonT(30)
  <2> QED BY <2>2, <2>3, Zenon DEF ReleaseClaim
<1>2. Moves /\ NoneClaimed /\ NoneApplied
  BY <1>1, RowsTouched DEF ReleaseClaim
<1> QED BY <1>0, <1>1, <1>2, IdleRunType, StoreRun DEF ReleaseClaim, Writing

LEMMA LeaseStep ==
    ASSUME VerdictInv, NEW r \in Runs, Lease(r)
    PROVE  VerdictInv'
<1>0. row \in [Pairs -> Row] /\ clock \in 0..MaxClock
  BY DEF VerdictInv, StoreType
<1>1. PICK batch \in SUBSET {p \in Pairs : Due(p)} :
         /\ row' = [p \in Pairs |-> IF p \in batch THEN [row[p] EXCEPT !.lease = GrantTo(r)] ELSE row[p]]
         /\ Becomes(r, [run[r] EXCEPT !.pc = "panel",
                          !.leased = {[pair |-> p, attempts |-> row[p].attempts] : p \in batch}])
  BY Zenon DEF Lease
<1> DEFINE leased == {[pair |-> p, attempts |-> row[p].attempts] : p \in batch}
           x == [run[r] EXCEPT !.pc = "panel", !.leased = leased]
<1>2. row' \in [Pairs -> Row] /\ \A p \in Pairs : Touched(row[p], row'[p])
  <2>1. GrantTo(r) \in Grant
    BY DEF GrantTo, Grant
  <2>2. \A p \in Pairs : row'[p] = IF p \in batch THEN [row[p] EXCEPT !.lease = GrantTo(r)] ELSE row[p]
    BY <1>1
  <2>3. \A p \in Pairs : row[p] \in Row
    BY <1>0
  <2>4. ASSUME NEW p \in Pairs PROVE Touched(row[p], row'[p])
    <3>1. Touched(row[p], row[p]) /\ Touched(row[p], [row[p] EXCEPT !.lease = GrantTo(r)])
      BY <2>1, <2>3, RowTouches, Zenon
    <3> QED BY <2>2, <3>1
  <2>5. \A p \in Pairs : row'[p] \in Row
    BY <2>4 DEF Touched
  <2> QED BY <1>1, <2>4, <2>5
<1>3. Moves /\ NoneClaimed /\ NoneApplied
  BY <1>2, RowsTouched DEF Lease
<1>4. leased \in SUBSET [pair : Pairs, attempts : Nat]
  BY <1>0 DEF Row
<1>5. Becomes(r, x)
  BY <1>1
<1> HIDE DEF leased
<1>6. x \in RunState /\ x.pc = "panel" /\ x.ending = {} /\ x.batch = run[r].batch
  BY <1>4, RunRecord, ZenonT(30) DEF RunState, Steps, Lease
<1> HIDE DEF x
<1> QED BY <1>0, <1>2, <1>3, <1>5, <1>6, StoreRun DEF Lease, Writing

LEMMA RecordDissentStep ==
    ASSUME VerdictInv, NEW r \in Runs, RecordDissent(r)
    PROVE  VerdictInv'
<1> DEFINE x == [run[r] EXCEPT !.pc = "batch", !.v = NoVerdict]
<1>0. /\ row \in [Pairs -> Row] /\ clock \in 0..MaxClock
      /\ run[r].v.status \in PanelStatus /\ run[r].v.at \in Nat
  BY DEF VerdictInv, StoreType, RecordDissent, RunInv, RunKeeps, Projection
<1>1. row' \in [Pairs -> Row] /\ \A p \in Pairs : Touched(row[p], row'[p])
  <2> DEFINE d == [status |-> run[r].v.status, at |-> run[r].v.at]
  <2>1. run[r].v.pair \in Pairs /\ d \in [status : PanelStatus \union {"none"}, at : Nat]
    BY <1>0, PairWritten DEF RecordDissent, Writing
  <2>2. CASE row' = row
    BY <2>2, NoneTouched
  <2>3. CASE row' = [row EXCEPT ![run[r].v.pair] = [row[run[r].v.pair] EXCEPT !.dissent = d]]
    <3> HIDE DEF d
    <3> QED BY <1>0, <2>1, <2>3, RowTouches, OneTouched, ZenonT(30)
  <2> QED BY <2>2, <2>3, Zenon DEF RecordDissent
<1>2. Moves /\ NoneClaimed /\ NoneApplied
  BY <1>1, RowsTouched DEF RecordDissent
<1>3. x \in RunState /\ x.pc = "batch" /\ x.ending = {} /\ x.batch = run[r].batch
  BY RunRecord, Zenon DEF RunState, Steps, RecordDissent
<1>4. Becomes(r, x)
  BY DEF RecordDissent
<1> HIDE DEF x
<1> QED BY <1>0, <1>1, <1>2, <1>3, <1>4, StoreRun DEF RecordDissent, Writing

\* Only a queued pair counts a failure or is abandoned.
LEMMA RecordFailureStep ==
    ASSUME VerdictInv, NEW r \in Runs, RecordFailure(r)
    PROVE  VerdictInv'
<1>0. row \in [Pairs -> Row] /\ clock \in 0..MaxClock /\ clock \in Nat /\ RowInv
  BY DEF VerdictInv, StoreType
<1>1. PICK l \in run[r].leased :
         /\ row' = IF Queued(l.pair) /\ row[l.pair].lease.by = r
                   THEN [row EXCEPT ![l.pair] = Failed(l.pair, l.attempts)] ELSE row
         /\ Becomes(r, PairDone(r, l))
  BY Zenon DEF RecordFailure
<1>2. l.pair \in Pairs /\ l.attempts \in Nat
  BY RunRecord DEF RunState
<1> DEFINE p == l.pair
<1>3. CASE row' = row
  <2>1. Moves /\ NoneClaimed /\ NoneApplied
    BY ZenonT(20), <1>3, RowsAlone DEF storeUnchanged, RecordFailure
  <2> QED BY <1>0, <1>1, <1>3, <2>1, PairDoneRun, StoreRun, Zenon DEF RecordFailure, Writing
<1>4. CASE Queued(p) /\ row' = [row EXCEPT ![p] = Failed(p, l.attempts)]
  <2>1. row[p] \in Row /\ row[p].status = "pending" /\ row[p].by = "token_overlap" /\ ~row[p].applied
        /\ row[p].at <= clock
    BY <1>0, <1>2, <1>4 DEF Queued, RowInv, Row, Closed, PanelStatus
  <2>2. /\ Failed(p, l.attempts) \in Row
        /\ Failed(p, l.attempts).by = "token_overlap" /\ ~Failed(p, l.attempts).applied
        /\ Failed(p, l.attempts).status \in {"pending", "abandoned"}
        /\ Failed(p, l.attempts).at <= clock /\ Failed(p, l.attempts).claim = row[p].claim
    <3> DEFINE abandon == l.attempts + 1 >= MaxAttempts
               s == IF abandon THEN "abandoned" ELSE row[p].status
               t == IF abandon THEN clock ELSE row[p].at
               n == row[p].attempts + 1
    <3>1. s \in {"pending", "abandoned"} /\ t \in Nat /\ t <= clock /\ n \in Nat
      BY <1>0, <2>1 DEF Row
    <3>2. Failed(p, l.attempts) = [row[p] EXCEPT !.attempts = n, !.lease = NoGrant, !.due = FALSE,
                                                 !.status = s, !.at = t]
      BY <2>1 DEF Failed, Row
    <3>3. NoGrant \in Grant
      BY DEF NoGrant, Grant
    <3> HIDE DEF s, t, n
    <3> QED BY <2>1, <3>1, <3>2, <3>3, ZenonT(30) DEF Row, Statuses
  <2>3. row' \in [Pairs -> Row] /\ row'[p] = Failed(p, l.attempts) /\ \A q \in Pairs : q # p => row'[q] = row[q]
    BY <1>0, <1>2, <1>4, <2>2
  <2>4. Automated(p)
    BY <2>1, <2>2, <2>3 DEF Automated, RecordFailure
  <2>5. Moves /\ NoneClaimed /\ NoneApplied
    BY <1>0, <1>2, <2>2, <2>3, <2>4, Zenon DEF Moves, NoneClaimed, NoneApplied, RecordFailure, RowInv, Kept
  <2> QED BY <1>0, <1>1, <2>3, <2>5, PairDoneRun, StoreRun DEF RecordFailure, Writing
<1> QED BY <1>1, <1>3, <1>4

\* The panel's verdict gets a stamp, and is not in the row yet.
LEMMA PanelVotesStep ==
    ASSUME VerdictInv, NEW r \in Runs, PanelVotes(r)
    PROVE  VerdictInv'
<1>0. row \in [Pairs -> Row] /\ clock \in 0..MaxClock /\ clock < MaxClock /\ MaxClock \in Nat /\ MaxVersion \in Nat
  BY BoundsAssumption DEF VerdictInv, StoreType, PanelVotes
<1>1. PICK l \in run[r].leased, s \in PanelStatus :
         run' = [run EXCEPT ![r] = [PairDone(r, l) EXCEPT !.pc = "commit",
            !.v = [pair |-> l.pair, status |-> s, by |-> "llm_panel", at |-> clock + 1, edge |-> 0]]]
  BY Zenon DEF PanelVotes
<1> DEFINE w == [pair |-> l.pair, status |-> s, by |-> "llm_panel", at |-> clock + 1, edge |-> 0]
           x == [PairDone(r, l) EXCEPT !.pc = "commit", !.v = w]
<1>2. l.pair \in Pairs
  BY RunRecord DEF RunState
<1>3. clock' = clock + 1 /\ clock' \in 0..MaxClock /\ clock' \in 1..MaxClock
  BY <1>0 DEF PanelVotes
<1>4. w \in Projection /\ w.by = "llm_panel" /\ w.at <= clock'
  BY <1>0, <1>2, <1>3 DEF Projection
<1> HIDE DEF w
<1>5. /\ PairDone(r, l) \in RunState /\ PairDone(r, l).ending = {} /\ PairDone(r, l).batch = {}
  BY PairDoneRun DEF PanelVotes
<1>6. x \in RunState /\ x.pc = "commit" /\ x.ending = {} /\ x.batch = {} /\ x.v = w
  BY <1>4, <1>5, Zenon DEF RunState, Steps
<1>7. run' = [run EXCEPT ![r] = x]
  BY <1>1 DEF w
<1> HIDE DEF x
<1>8. Becomes(r, x)
  BY <1>6, <1>7, SettledRun, Zenon DEF Becomes
<1>9. Moves /\ NoneClaimed /\ NoneApplied
  BY <1>3 DEF VerdictInv, RowInv, Moves, NoneClaimed, NoneApplied, Kept, PanelVotes
<1> QED BY <1>0, <1>3, <1>4, <1>6, <1>8, <1>9, StoreRun DEF PanelVotes, Writing

\* The panel decides a queued pair and no other; what it goes on to write is what it recorded.
LEMMA DecideStep ==
    ASSUME VerdictInv, NEW r \in Runs, Decide(r)
    PROVE  VerdictInv'
<1> DEFINE v == run[r].v
           p == v.pair
<1>0. row \in [Pairs -> Row] /\ clock \in 0..MaxClock /\ clock \in Nat /\ RowInv
  BY DEF VerdictInv, StoreType
<1>1. p \in Pairs /\ v \in Projection
  BY PairWritten, Zenon DEF Decide
<1>2. v.by = "llm_panel" /\ v.at <= clock /\ run[r].ending = {} /\ run[r] \in RunState
  BY RunRecord, Zenon DEF VerdictInv, RunInv, RunKeeps, Decide
<1>3. v.status \in PanelStatus /\ v.at \in 1..MaxClock /\ v.at \in Nat /\ v.at >= 1
  BY <1>1 DEF Projection
<1>4. CASE Queued(p)
  <2> DEFINE w == [v EXCEPT !.edge = row[p].edge]
             b == IF v.status \in Closed THEN {w} ELSE {}
             x == [run[r] EXCEPT !.pc = "batch", !.v = NoVerdict, !.batch = b]
  <2>1. /\ row' = [row EXCEPT ![p].status = v.status, ![p].by = "llm_panel", ![p].at = v.at,
                              ![p].lease = NoGrant, ![p].applied = FALSE]
        /\ Becomes(r, x)
    BY <1>4, ZenonT(30) DEF Decide
  <2>2. row[p] \in Row /\ row[p].status = "pending" /\ row[p].by = "token_overlap" /\ ~row[p].applied
        /\ row[p].edge \in 1..MaxVersion
    BY <1>0, <1>1, <1>4 DEF Queued, RowInv, Row, Closed, PanelStatus
  <2>3. NoGrant \in Grant /\ v.status \in Statuses
    BY ZenonT(20), <1>3 DEF NoGrant, Grant, Statuses, PanelStatus, Closed
  <2>4. /\ row' \in [Pairs -> Row]
        /\ row'[p].status = v.status /\ row'[p].by = "llm_panel" /\ row'[p].at = v.at /\ row'[p].edge = row[p].edge
        /\ ~row'[p].applied /\ row'[p].claim = row[p].claim
        /\ \A q \in Pairs : q # p => row'[q] = row[q]
    <3> DEFINE y == [row[p] EXCEPT !.status = v.status, !.by = "llm_panel", !.at = v.at,
                                   !.lease = NoGrant, !.applied = FALSE]
    <3>1. row' = [row EXCEPT ![p] = y]
      BY <1>0, <1>1, <2>1, Zenon
    <3>2. /\ y \in Row
          /\ y.status = v.status /\ y.by = "llm_panel" /\ y.at = v.at /\ y.edge = row[p].edge
          /\ ~y.applied /\ y.claim = row[p].claim
      BY <1>3, <2>2, <2>3, Zenon DEF Row
    <3> HIDE DEF y
    <3> QED BY <1>0, <1>1, <3>1, <3>2
  <2>5. Automated(p)
    BY <1>2, <1>3, <2>2, <2>4, Zenon DEF Automated, Decide
  <2>6. Moves /\ NoneClaimed /\ NoneApplied
    BY <1>0, <1>1, <2>4, <2>5, Zenon DEF Moves, NoneClaimed, NoneApplied, Decide, RowInv, Kept
  <2>7. /\ w \in Projection /\ w.at = v.at /\ w.status = v.status /\ w.by = "llm_panel"
        /\ w.pair = p /\ w.edge = row[p].edge
    BY <1>1, <1>2, <2>2, BoundsAssumption DEF Projection
  <2> HIDE DEF w
  <2>8. ASSUME NEW u \in b
        PROVE  u \in Projection /\ Known(u)' /\ u.at <= clock'
    <3>1. u = w /\ v.status \in Closed
      OBVIOUS
    <3>2. /\ u \in Projection /\ u.at = v.at /\ u.status = v.status /\ u.by = "llm_panel"
          /\ u.pair = p /\ u.edge = row[p].edge
      BY ZenonT(20), <2>7, <3>1
    <3>3. Known(u)'
      BY <2>4, <3>1, <3>2 DEF Known, Holds
    <3> QED BY <1>2, <3>2, <3>3, Zenon DEF Decide
  <2>9. b \subseteq Projection /\ \A u \in b : Known(u)' /\ u.at <= clock'
    BY <2>8
  <2> HIDE DEF b
  <2>10. x \in RunState /\ x.pc = "batch" /\ x.ending = {} /\ x.batch = b
    BY <1>2, <2>9, Zenon DEF RunState, Steps
  <2> HIDE DEF x
  <2> QED BY <1>0, <2>1, <2>4, <2>6, <2>9, <2>10, StoreRun, Zenon DEF Decide, Writing
<1>5. CASE ~Queued(p) /\ row[p].by = "human"
  <2> DEFINE x == [run[r] EXCEPT !.pc = "dissent"]
  <2>1. Becomes(r, x) /\ row' = row
    BY <1>5, Zenon DEF Decide
  <2>2. x \in RunState /\ x.pc = "dissent" /\ x.ending = {} /\ x.batch = run[r].batch /\ x.v = v
    BY <1>2 DEF RunState, Steps
  <2> HIDE DEF x
  <2> QED BY <1>1, <1>2, <2>1, <2>2, QuietRun, Zenon DEF Decide, Writing, storeUnchanged
<1>6. CASE ~Queued(p) /\ row[p].by # "human"
  <2> DEFINE x == [run[r] EXCEPT !.pc = "batch", !.v = NoVerdict]
  <2>1. Becomes(r, x) /\ row' = row
    BY <1>6, Zenon DEF Decide
  <2>2. x \in RunState /\ x.pc = "batch" /\ x.ending = {} /\ x.batch = run[r].batch
    BY <1>2, Zenon DEF RunState, Steps
  <2> HIDE DEF x
  <2> QED BY <2>1, <2>2, QuietRun, Zenon DEF Decide, Writing, storeUnchanged
<1> QED BY <1>4, <1>5, <1>6

-----------------------------------------------------------------------------
(* The claim, the fence, and what a run reads of the graph. *)

\* Edge names tell what they are the edge of.
LEMMA EdgeNames ==
    ASSUME NEW a, NEW b
    PROVE  /\ Candidate(a) # PanelEdge /\ Candidate(a) # HumanEdge(b) /\ HumanEdge(a) # PanelEdge
           /\ HumanEdge(a) = HumanEdge(b) => a = b
           /\ Candidate(a) = Candidate(b) => a = b
BY DEF Candidate, PanelEdge, HumanEdge

\* The fence marks what the holder of the claim wrote and read, and nothing else.
LEMMA MarkProjectedStep ==
    ASSUME VerdictInv, NEW r \in Runs, MarkProjected(r)
    PROVE  VerdictInv'
<1> DEFINE v == run[r].v
           p == v.pair
           x == Returned(r, row[p].claim.by # r \/ ~Holds(v))
<1>0. row \in [Pairs -> Row] /\ clock \in 0..MaxClock /\ RowInv
  BY DEF VerdictInv, StoreType
<1>1. p \in Pairs /\ v \in Projection /\ Known(v) /\ row[p] \in Row
  BY <1>0, PairWritten, ZenonT(30) DEF MarkProjected, Writing, VerdictInv, RunInv, RunKeeps, Carried
<1>2. x \in RunState /\ x.pc = "batch" /\ x.ending = {} /\ x.batch = run[r].batch /\ Becomes(r, x)
  <2>1. run[r] \in RunState /\ run[r].pc = "end" /\ run[r].ending = {} /\ Becomes(r, x)
    BY RunRecord DEF MarkProjected
  <2>2. (run[r].fenced \/ (row[p].claim.by # r \/ ~Holds(v))) \in BOOLEAN
    BY ZenonT(30)
  <2> QED BY <2>1, <2>2, ZenonT(30) DEF Returned, RunState, Steps
<1> HIDE DEF x
<1>3. CASE row[p].claim.by # r
  <2>1. row' = row
    BY <1>3 DEF MarkProjected
  <2> QED BY <1>2, <2>1, QuietRun, Zenon DEF MarkProjected, Writing, storeUnchanged
<1>4. CASE row[p].claim.by = r
  <2> DEFINE y == [row[p] EXCEPT !.applied = Holds(v), !.claim = NoGrant]
  <2>1. row' = [row EXCEPT ![p] = y]
    BY <1>0, <1>1, <1>4, Zenon DEF MarkProjected
  <2>2. /\ y \in Row /\ y.applied = Holds(v) /\ y.claim.by = Nobody
        /\ y.status = row[p].status /\ y.by = row[p].by /\ y.at = row[p].at /\ y.edge = row[p].edge
    <3>1. Holds(v) \in BOOLEAN /\ NoGrant \in Grant /\ NoGrant.by = Nobody
      BY DEF Holds, NoGrant, Grant
    <3> QED BY <1>1, <3>1, Zenon DEF Row
  <2> HIDE DEF y
  <2>3. row' \in [Pairs -> Row] /\ row'[p] = y /\ \A q \in Pairs : q # p => row'[q] = row[q]
    BY <1>0, <1>1, <2>1, <2>2
  <2>4. \A q \in Pairs : Kept(q)
    BY <2>2, <2>3 DEF Kept
  <2>5. Holds(v) => row[p].status \in Closed
    BY <1>1 DEF Holds, Known
  <2>6. Moves /\ NoneClaimed
    BY <1>0, <1>1, <2>2, <2>3, <2>4, <2>5, ZenonT(30) DEF Moves, NoneClaimed, MarkProjected, RowInv
  <2>7. \A u \in x.batch : u.at <= clock' /\ Known(u)'
    BY <1>2, <2>6, BatchStaysKnown
  <2>8. run' \in [Runs -> RunState] /\ RunsRest
    BY <1>2, <2>7, RunGoesOn DEF VerdictInv, Writing
  <2>9. StoreType'
    BY <2>3, <2>8, Zenon DEF VerdictInv, StoreType, graphUnchanged, MarkProjected
  <2>10. ASSUME NEW q \in Pairs, row'[q].applied, overtaken'[q] = "never"
         PROVE  InGraph(q)'
    <3>1. overtaken[q] = "never"
      BY <2>10, Zenon DEF MarkProjected, graphUnchanged
    <3>2. CASE q # p
      BY <2>3, <2>4, <2>10, <3>1, <3>2, CalmInGraph, ZenonT(30)
        DEF MarkProjected, graphUnchanged, VerdictInv, AppliedIsInGraph
    <3>3. CASE q = p
      <4>1. Holds(v)
        BY ZenonT(20), <2>2, <2>3, <2>10, <3>3
      <4>2. Holder(r, p)
        BY <1>4, <3>1, <3>3 DEF Holder, MarkProjected, Writing
      <4>3. HolderKeeps(r, p)
        BY <1>1, <4>2 DEF VerdictInv, HolderInv
      <4>4. OwnEdge(VerdictOf(p)) = OwnEdge(v) /\ row[p].status = v.status
        BY <4>1 DEF OwnEdge, VerdictOf, Holds
      <4>5. InGraph(p)
        BY <4>1, <4>3, <4>4, Zenon DEF HolderKeeps, InGraph, MarkProjected
      <4> QED BY ZenonT(20), <1>1, <2>4, <3>3, <4>5, CalmInGraph DEF MarkProjected, graphUnchanged
    <3> QED BY <3>2, <3>3
  <2> QED BY <2>6, <2>8, <2>9, <2>10, CalmButApplied, Zenon DEF AppliedIsInGraph, MarkProjected
<1> QED BY <1>3, <1>4

\* A run that goes on writing, with the verdict it carries.
LEMMA WriterGoesOn ==
    ASSUME VerdictInv, NEW r \in Runs, NEW x \in RunState, Becomes(r, x), x.pc \in Writing
    PROVE  run' \in [Runs -> RunState] /\ run'[r] = x /\ \A q \in Runs : q # r => run'[q] = run[q]
<1>1. Settled(x) = x
  BY SettledRun DEF Writing
<1> QED BY <1>1 DEF Becomes, VerdictInv, StoreType

\* A granted claim starts with nothing to rely on.
LEMMA ClaimProjectionStep ==
    ASSUME VerdictInv, NEW r \in Runs, ClaimProjection(r)
    PROVE  VerdictInv'
<1>0. /\ row \in [Pairs -> Row] /\ RowInv /\ StoreType /\ EdgeInv /\ RunInv
      /\ run[r] \in RunState /\ run[r].ending = {} /\ run[r].batch \subseteq Projection
  BY RunRecord DEF VerdictInv, StoreType, ClaimProjection, RunState
<1>1. ASSUME NEW v \in run[r].batch, ~(Holds(v) /\ Unclaimed(v.pair)),
             Becomes(r, [[run[r] EXCEPT !.batch = @ \ {v}, !.v = v] EXCEPT !.v = NoVerdict, !.fenced = @ \/ ~Holds(v)]),
             UNCHANGED <<row, overtaken, unattached>>
      PROVE  VerdictInv'
  <2> DEFINE x == [[run[r] EXCEPT !.batch = @ \ {v}, !.v = v] EXCEPT !.v = NoVerdict, !.fenced = @ \/ ~Holds(v)]
  <2>1. x \in RunState /\ x.pc = "batch" /\ x.ending = {} /\ x.batch \subseteq run[r].batch
    BY <1>0, ZenonT(30) DEF RunState, Steps, ClaimProjection
  <2> HIDE DEF x
  <2> QED BY <1>1, <2>1, QuietRun, Zenon DEF x, ClaimProjection, Writing, storeUnchanged, graphUnchanged
<1>2. ASSUME NEW v \in run[r].batch, Holds(v), Unclaimed(v.pair),
             row' = [row EXCEPT ![v.pair].claim = GrantTo(r)],
             Becomes(r, [[run[r] EXCEPT !.batch = @ \ {v}, !.v = v]
                           EXCEPT !.pc = IF v.status = "confirmed" THEN "write" ELSE "read"]),
             overtaken' = [overtaken EXCEPT ![v.pair] = IF @ = "since" THEN "before" ELSE @],
             unattached' = unattached \ {v.pair}
      PROVE  VerdictInv'
  <2> DEFINE p == v.pair
             pc == IF v.status = "confirmed" THEN "write" ELSE "read"
             x == [run[r] EXCEPT !.batch = @ \ {v}, !.v = v, !.pc = pc]
  <2>1. v \in Projection /\ p \in Pairs /\ Known(v) /\ v.at <= clock
    BY <1>0 DEF RunInv, RunKeeps, Carried, Projection
  <2>2. /\ x \in RunState /\ x.pc = pc /\ x.ending = {} /\ x.batch \subseteq run[r].batch /\ x.v = v
        /\ pc \in {"write", "read"}
    BY <1>0, <2>1, ZenonT(30) DEF RunState, Steps, Writing
  <2>3. Becomes(r, x)
    BY <1>0, <1>2 DEF RunState
  <2> HIDE DEF x
  <2>4. run' \in [Runs -> RunState] /\ run'[r] = x /\ \A q \in Runs : q # r => run'[q] = run[q]
    BY <2>2, <2>3, WriterGoesOn DEF Writing
  <2>5. /\ row' \in [Pairs -> Row] /\ row'[p].claim.by = r /\ row'[p].applied = row[p].applied
        /\ \A q \in Pairs : Kept(q) /\ (q # p => row'[q] = row[q])
    <3> DEFINE y == [row[p] EXCEPT !.claim = GrantTo(r)]
    <3>1. row' = [row EXCEPT ![p] = y]
      BY <1>2
    <3>2. GrantTo(r) \in Grant /\ GrantTo(r).by = r
      BY DEF GrantTo, Grant
    <3>3. /\ y \in Row /\ y.claim.by = r /\ y.applied = row[p].applied
          /\ y.status = row[p].status /\ y.by = row[p].by /\ y.at = row[p].at /\ y.edge = row[p].edge
      BY <1>0, <2>1, <3>2 DEF Row
    <3> HIDE DEF y
    <3> QED BY <1>0, <2>1, <3>1, <3>3 DEF Kept
  <2>6. /\ overtaken' \in [Pairs -> {"never", "since", "before"}]
        /\ \A q \in Pairs : overtaken'[q] = "never" => overtaken[q] = "never"
    BY <1>0, <1>2, <2>1 DEF StoreType
  <2>7. StoreType'
    BY <1>0, <1>2, <2>4, <2>5, <2>6 DEF StoreType, ClaimProjection
  <2>8. Moves
    BY <2>5 DEF Moves, ClaimProjection
  <2>9. RowInv'
    <3>1. ~row[p].applied
      BY <1>2 DEF Unclaimed
    <3>2. ASSUME NEW q \in Pairs
          PROVE  /\ row'[q].at <= clock'
                 /\ row'[q].status \in PanelStatus => row'[q].at >= 1
                 /\ row'[q].by = "token_overlap" => row'[q].status \in {"absent", "pending", "abandoned"}
                 /\ row'[q].by = "llm_panel" => row'[q].status \in PanelStatus
                 /\ row'[q].by = "human" => row'[q].status \in Closed
                 /\ row'[q].applied => row'[q].status \in Closed
                 /\ row'[q].claim.by # Nobody => ~row'[q].applied
      BY <1>0, <2>5, <3>1 DEF RowInv, Kept, ClaimProjection
    <3> QED BY <3>2 DEF RowInv
  <2>10. RunInv'
    <3>1. ASSUME NEW u \in Carried(r)' PROVE u \in Projection /\ u.at <= clock' /\ Known(u)'
      <4>1. u \in Carried(r)
        BY ZenonT(20), <1>2, <2>2, <2>4 DEF Carried
      <4> QED BY <1>0, <2>8, <4>1, KnownStays DEF RunInv, RunKeeps, ClaimProjection
    <3>2. RunKeeps(r)'
      BY ZenonT(20), <2>2, <2>4, <3>1 DEF RunKeeps
    <3>3. ASSUME NEW q \in Runs, q # r PROVE RunKeeps(q)'
      BY <1>0, <2>4, <2>8, <3>3, StillRun DEF RunInv
    <3> QED BY <3>2, <3>3 DEF RunInv
  <2>11. EdgeInv'
    BY <1>0, <2>8, CalmEdges DEF ClaimProjection
  <2>12. StandingInv'
    <3> SUFFICES ASSUME NEW q \in Pairs, overtaken'[q] = "never", row'[q].by = "human", row'[q].status = "confirmed"
                 PROVE  graph'[q][HumanEdge(row'[q].at)].st # "ended"
      BY DEF StandingInv, HumanEdge
    <3> QED BY <2>6, <2>7, <2>8, CalmStanding DEF VerdictInv, ClaimProjection
  <2>13. HolderInv'
    <3> SUFFICES ASSUME NEW q \in Runs, NEW s \in Pairs, Holder(q, s)'
                 PROVE  HolderKeeps(q, s)'
      BY DEF HolderInv
    <3>1. CASE q # r
      <4>1. s # p /\ row[s].claim.by = q /\ overtaken[s] = "never"
        BY ZenonT(20), <2>5, <2>6, <3>1 DEF Holder
      <4> QED BY <1>2, <2>4, <2>7, <2>8, <3>1, <4>1, CalmHolder DEF VerdictInv, ClaimProjection
    <3>2. CASE q = r
      <4>1. s = p
        BY <2>2, <2>4, <3>2 DEF Holder
      <4>2. Holds(run[r].v)'
        BY <1>2, <2>1, <2>2, <2>4, <2>5 DEF Holds, Kept
      <4> QED BY <2>2, <2>4, <3>2, <4>1, <4>2 DEF HolderKeeps
    <3> QED BY <3>1, <3>2
  <2>14. AppliedIsInGraph'
    <3> SUFFICES ASSUME NEW q \in Pairs, row'[q].applied, overtaken'[q] = "never" PROVE InGraph(q)'
      BY DEF AppliedIsInGraph
    <3>1. q # p
      BY <1>2, <2>5 DEF Unclaimed
    <3> QED BY <1>2, <2>5, <2>6, <3>1, CalmInGraph DEF VerdictInv, AppliedIsInGraph, ClaimProjection
  <2> QED BY <2>7, <2>9, <2>10, <2>11, <2>12, <2>13, <2>14 DEF VerdictInv
<1> QED BY <1>1, <1>2, Zenon DEF ClaimProjection

\* A run reads or writes the edges of its pair, noted when it does not hold the claim. What is to
\* be shown is only what it does to the edges, and to what it relies on while it holds the claim.
LEMMA PairWrite ==
    ASSUME VerdictInv, StoreType', storeUnchanged, NEW r \in Runs, NEW p \in Pairs,
           run[r].v.pair = p, run[r].pc \in Writing, run'[r].v = run[r].v,
           \A q \in Runs : q # r => run'[q] = run[q],
           \A q \in Pairs : q # p => graph'[q] = graph[q],
           overtaken' = Noted(r, p), unattached \subseteq unattached',
           EdgeInv', RunKeeps(r)', Holder(r, p) => HolderKeeps(r, p)',
           Holder(r, p) /\ row[p].by = "human" /\ row[p].status = "confirmed"
              => graph'[p][HumanEdge(row[p].at)].st # "ended"
    PROVE  VerdictInv'
<1>1. Moves /\ NoneApplied
  BY ZenonT(20), RowsAlone
<1>2. RowInv'
  BY DEF VerdictInv, RowInv, storeUnchanged
<1>3. RunInv'
  BY <1>1, StillRun, Zenon DEF VerdictInv, RunInv
<1>4. ASSUME NEW q \in Pairs, overtaken'[q] = "never"
      PROVE  /\ overtaken[q] = "never"
             /\ graph'[q] = graph[q] \/ (q = p /\ row[p].claim.by = r)
  BY <1>4, ZenonT(30) DEF Noted, VerdictInv, StoreType
<1>5. StandingInv'
  <2> SUFFICES ASSUME NEW q \in Pairs, overtaken'[q] = "never", row'[q].by = "human", row'[q].status = "confirmed"
               PROVE  graph'[q][HumanEdge(row'[q].at)].st # "ended"
    BY ZenonT(20) DEF StandingInv, HumanEdge
  <2>1. CASE graph'[q] = graph[q]
    BY ZenonT(20), <1>1, <1>4, <2>1, CalmStanding DEF VerdictInv
  <2>2. CASE q = p /\ row[p].claim.by = r
    BY ZenonT(20), <1>4, <2>2 DEF Holder, storeUnchanged
  <2> QED BY <1>4, <2>1, <2>2, Zenon
<1>6. HolderInv'
  <2> SUFFICES ASSUME NEW q \in Runs, NEW s \in Pairs, Holder(q, s)'
               PROVE  HolderKeeps(q, s)'
    BY ZenonT(20) DEF HolderInv
  <2>1. overtaken[s] = "never" /\ row[s].claim.by = q
    BY <1>4, Zenon DEF Holder, storeUnchanged
  <2>2. CASE q = r
    BY ZenonT(20), <2>1, <2>2 DEF Holder
  <2>3. CASE q # r
    <3>1. graph'[s] = graph[s]
      BY ZenonT(20), <1>4, <2>1, <2>3 DEF Holder
    <3> QED BY ZenonT(20), <1>1, <2>1, <2>3, <3>1, CalmHolder DEF VerdictInv
  <2> QED BY <2>2, <2>3
<1>7. AppliedIsInGraph'
  <2> SUFFICES ASSUME NEW q \in Pairs, row'[q].applied, overtaken'[q] = "never" PROVE InGraph(q)'
    BY ZenonT(20) DEF AppliedIsInGraph
  <2>1. row[q].applied /\ Kept(q) /\ row[q].claim.by = Nobody
    BY DEF storeUnchanged, Kept, VerdictInv, RowInv
  <2>2. graph'[q] = graph[q] /\ overtaken[q] = "never"
    BY <1>4, <2>1, NobodyAssumption, ZenonT(30)
  <2> QED BY <2>1, <2>2, CalmInGraph DEF VerdictInv, AppliedIsInGraph
<1> QED BY ZenonT(20), <1>2, <1>3, <1>5, <1>6, <1>7 DEF VerdictInv

\* What is known of a run that writes, and of the verdict it carries.
LEMMA WriterKnows ==
    ASSUME VerdictInv, NEW r \in Runs, run[r].pc \in Writing
    PROVE  /\ run[r] \in RunState /\ RunKeeps(r)
           /\ run[r].v \in Projection /\ run[r].v.pair \in Pairs /\ Known(run[r].v)
           /\ run[r].v.at \in 1..MaxClock /\ run[r].v.at <= clock
           /\ run[r].v.by \in {"llm_panel", "human"}
           /\ OwnEdge(run[r].v) \in EdgeIds
<1>1. run[r] \in RunState /\ RunKeeps(r) /\ run[r].v \in Projection /\ run[r].v.at <= clock /\ Known(run[r].v)
  BY Zenon DEF VerdictInv, RunInv, RunKeeps, Carried, StoreType
<1>2. run[r].v.pair \in Pairs /\ run[r].v.at \in 1..MaxClock /\ run[r].v.by \in {"llm_panel", "human"}
  BY <1>1 DEF Projection
<1> QED BY <1>1, <1>2 DEF OwnEdge, EdgeIds

\* A run keeps carrying known verdicts when it goes on with the same ones and the rows are unchanged.
LEMMA CarriesOn ==
    ASSUME VerdictInv, storeUnchanged, NEW r \in Runs, run[r].pc \in Writing, run'[r].pc \in Writing,
           run'[r].v = run[r].v, run'[r].batch = run[r].batch
    PROVE  \A v \in Carried(r)' : v \in Projection /\ v.at <= clock' /\ Known(v)'
<1>1. Carried(r)' = Carried(r)
  BY DEF Carried
<1>2. \A v \in Carried(r) : v \in Projection /\ v.at <= clock /\ Known(v)
  BY DEF VerdictInv, RunInv, RunKeeps
<1> QED BY <1>1, <1>2, RowsAlone, KnownStays DEF VerdictInv, storeUnchanged

\* What a run lists to end is what is live and the verdict does not allow.
LEMMA ReadEdgesStep ==
    ASSUME VerdictInv, NEW r \in Runs, ReadEdges(r)
    PROVE  VerdictInv'
<1> DEFINE v == run[r].v
           p == v.pair
           x == [run[r] EXCEPT !.pc = "end", !.ending = ToEnd(v)]
<1>0. /\ run[r] \in RunState /\ RunKeeps(r) /\ run[r].pc = "read" /\ run[r].pc \in Writing
      /\ v \in Projection /\ p \in Pairs /\ Known(v) /\ v.by \in {"llm_panel", "human"}
  BY ZenonT(20), WriterKnows DEF ReadEdges, Writing
<1>1. ToEnd(v) \subseteq Live(graph[p]) /\ ToEnd(v) \subseteq EdgeIds
  BY DEF ToEnd, Live
<1>2. /\ x \in RunState /\ x.pc = "end" /\ x.v = v /\ x.batch = run[r].batch /\ x.ending = ToEnd(v)
      /\ Becomes(r, x)
  BY <1>0, <1>1, Zenon DEF RunState, Steps, Writing, ReadEdges
<1> HIDE DEF x
<1>3. run' \in [Runs -> RunState] /\ run'[r] = x /\ \A q \in Runs : q # r => run'[q] = run[q]
  BY <1>2, WriterGoesOn DEF Writing
<1>4. StoreType'
  BY ZenonT(20), <1>3 DEF VerdictInv, StoreType, ReadEdges, storeUnchanged, graphUnchanged
<1>5. RunKeeps(r)'
  <2>1. \A u \in Carried(r)' : u \in Projection /\ u.at <= clock' /\ Known(u)'
    BY ZenonT(20), <1>0, <1>2, <1>3, CarriesOn DEF Writing, ReadEdges
  <2>2. /\ v.by = "human" /\ v.status = "confirmed" => HumanEdge(v.at) \notin ToEnd(v)
        /\ v.by = "llm_panel" => ToEnd(v) \subseteq {Candidate(v.edge)}
    BY DEF ToEnd
  <2> QED BY <1>2, <1>3, <2>1, <2>2 DEF RunKeeps
<1>6. EdgeInv'
  BY RowsAlone, CalmEdges DEF VerdictInv, ReadEdges, graphUnchanged
<1>7. ASSUME Holder(r, p)
      PROVE  HolderKeeps(r, p)'
  <2>1. HolderKeeps(r, p)
    BY <1>0, <1>7 DEF VerdictInv, HolderInv
  <2>2. Holds(run[r].v)' = Holds(v) /\ Allowed(p)' = Allowed(p) /\ OwnEdge(run[r].v)' = OwnEdge(v)
    BY <1>2, <1>3, Zenon DEF Holds, Allowed, OwnEdge, HumanEdge, Candidate, PanelEdge, ReadEdges, storeUnchanged
  <2>3. \A e \in ToEnd(v) : graph[p][e].st # "ended"
    BY <1>1 DEF Live
  <2>4. Holds(v) => Live(graph[p]) \subseteq Allowed(p) \union ToEnd(v)
    <3> SUFFICES ASSUME Holds(v), NEW e \in Live(graph[p]), e \notin ToEnd(v) PROVE e \in Allowed(p)
      OBVIOUS
    <3>1. CASE v.by = "human"
      BY <3>1 DEF ToEnd, Allowed, Holds
    <3>2. CASE v.by = "llm_panel"
      <4>1. row[p].by = "llm_panel" /\ v.edge = row[p].edge /\ v.status = row[p].status
        BY ZenonT(20), <1>0, <3>2 DEF Known, Holds
      <4>2. e # Candidate(row[p].edge)
        BY ZenonT(20), <3>2, <4>1 DEF ToEnd
      <4>3. e = PanelEdge => row[p].status = "confirmed"
        BY ZenonT(20), <1>0, <4>1 DEF VerdictInv, EdgeInv, Live
      <4>4. \A t \in 1..MaxClock : e # HumanEdge(t)
        BY <1>0, <4>1 DEF VerdictInv, EdgeInv, Live
      <4>5. \/ e = PanelEdge
            \/ \E n \in 1..MaxVersion : e = Candidate(n)
        BY <4>4 DEF Live, EdgeIds
      <4> QED BY ZenonT(20), <4>1, <4>2, <4>3, <4>5 DEF Allowed
    <3> QED BY <1>0, <3>1, <3>2
  <2> QED BY <1>0, <1>2, <1>3, <2>1, <2>2, <2>3, <2>4, Zenon
        DEF HolderKeeps, ReadEdges, storeUnchanged, graphUnchanged, HumanEdge, Live
<1>8. Holder(r, p) /\ row[p].by = "human" /\ row[p].status = "confirmed"
         => graph'[p][HumanEdge(row[p].at)].st # "ended"
  BY <1>0, Zenon DEF VerdictInv, StandingInv, Holder, ReadEdges, graphUnchanged
<1>9. overtaken' = Noted(r, p)
  BY DEF Noted, ReadEdges, graphUnchanged
<1> QED BY <1>0, <1>2, <1>3, <1>4, <1>5, <1>6, <1>7, <1>8, <1>9, PairWrite, Zenon DEF ReadEdges, graphUnchanged

==============================================================================
