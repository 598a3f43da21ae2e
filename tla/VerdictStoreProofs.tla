------------------------- MODULE VerdictStoreProofs -------------------------
(***************************************************************************)
(* The theorems about VerdictStore, for any pairs, runs and bounds: it     *)
(* keeps the rules of VerdictAuthority, an applied verdict is in the       *)
(* graph, and an ended edge keeps its end.                                 *)
(***************************************************************************)
EXTENDS VerdictStoreInvariant

-----------------------------------------------------------------------------
(* The writes to the graph. *)

\* A run without groups to attach its edge to leaves nothing in the graph that its verdict forbids.
LEMMA UnattachedStep ==
    ASSUME VerdictInv, NEW r \in Runs, CreateEdge(r), ~groups
    PROVE  VerdictInv'
<1> DEFINE v == run[r].v
           p == v.pair
           x == [run[r] EXCEPT !.pc = "end"]
<1>0. /\ run[r] \in RunState /\ RunKeeps(r) /\ run[r].pc = "write" /\ run[r].pc \in Writing
      /\ run[r].ending = {} /\ v \in Projection /\ p \in Pairs
  BY WriterKnows DEF CreateEdge, Writing, RunKeeps
<1>1. /\ x \in RunState /\ x.pc = "end" /\ x.v = v /\ x.batch = run[r].batch /\ x.ending = {}
      /\ Becomes(r, x)
  BY <1>0 DEF RunState, Steps, Writing, CreateEdge
<1> HIDE DEF x
<1>2. run' \in [Runs -> RunState] /\ run'[r] = x /\ \A q \in Runs : q # r => run'[q] = run[q]
  BY <1>1, WriterGoesOn DEF Writing
<1>3. graph' = graph /\ overtaken' = overtaken /\ groups' = groups /\ unattached' = unattached \union {p}
  BY DEF CreateEdge
<1>4. StoreType'
  BY <1>0, <1>2, <1>3 DEF VerdictInv, StoreType, CreateEdge, storeUnchanged
<1>5. RunKeeps(r)'
  <2>1. \A u \in Carried(r)' : u \in Projection /\ u.at <= clock' /\ Known(u)'
    BY <1>0, <1>1, <1>2, CarriesOn DEF Writing, CreateEdge
  <2> QED BY <1>1, <1>2, <2>1 DEF RunKeeps
<1>6. EdgeInv'
  BY <1>3, RowsAlone, CalmEdges DEF VerdictInv, CreateEdge
<1>7. ASSUME Holder(r, p)
      PROVE  HolderKeeps(r, p)'
  <2>1. HolderKeeps(r, p)
    BY <1>0, <1>7 DEF VerdictInv, HolderInv
  <2>2. Holds(run[r].v)' = Holds(v)
    BY <1>1, <1>2 DEF Holds, CreateEdge, storeUnchanged
  <2>3. Live(graph[p]) = {} /\ Live(graph[p])' = Live(graph[p])
    BY <1>0, <1>1, <1>2, <1>3 DEF Live, VerdictInv, EdgeInv
  <2> QED BY <1>0, <1>1, <1>2, <1>3, <2>1, <2>2, <2>3, Zenon DEF HolderKeeps, CreateEdge, storeUnchanged, HumanEdge
<1>8. Holder(r, p) /\ row[p].by = "human" /\ row[p].status = "confirmed"
         => graph'[p][HumanEdge(row[p].at)].st # "ended"
  BY <1>0, <1>3, Zenon DEF VerdictInv, StandingInv, Holder
<1>9. overtaken' = Noted(r, p)
  BY <1>3 DEF Noted
<1> QED BY <1>0, <1>1, <1>2, <1>3, <1>4, <1>5, <1>6, <1>7, <1>8, <1>9, PairWrite, ZenonT(30) DEF CreateEdge

LEMMA NotedType ==
    ASSUME StoreType, NEW r, NEW p \in Pairs
    PROVE  Noted(r, p) \in [Pairs -> {"never", "since", "before"}]
BY DEF StoreType, Noted

\* What creating an edge does: a name already in use, even by an ended edge, is left alone.
LEMMA CreatedEdges ==
    ASSUME NEW g \in Edges, NEW e \in EdgeIds, NEW t \in Nat
    PROVE  /\ Created(g, e, t) \in Edges
           /\ \A d \in EdgeIds : d # e => Created(g, e, t)[d] = g[d]
           /\ g[e].st = "none" => Created(g, e, t)[e].st = "live"
           /\ g[e].st # "none" => Created(g, e, t) = g
BY DEF Created, Edges, Edge

\* The confirmation's own edge is new, or still live: it has not been ended.
LEMMA AttachedStep ==
    ASSUME VerdictInv, NEW r \in Runs, CreateEdge(r), groups
    PROVE  VerdictInv'
<1> DEFINE v == run[r].v
           p == v.pair
           own == OwnEdge(v)
           x == [run[r] EXCEPT !.pc = "read", !.wrote = graph[p][own].st = "none"]
<1>0. /\ run[r] \in RunState /\ RunKeeps(r) /\ run[r].pc = "write" /\ run[r].pc \in Writing
      /\ run[r].ending = {} /\ v \in Projection /\ p \in Pairs /\ Known(v) /\ v.status = "confirmed"
      /\ v.at \in 1..MaxClock /\ v.at \in Nat /\ v.at <= clock /\ v.by \in {"llm_panel", "human"} /\ own \in EdgeIds
  <2>1. run[r].pc = "write" /\ run[r].pc \in Writing
    BY Zenon DEF CreateEdge, Writing
  <2>2. /\ run[r] \in RunState /\ RunKeeps(r) /\ v \in Projection /\ p \in Pairs /\ Known(v)
        /\ v.at \in 1..MaxClock /\ v.at <= clock /\ v.by \in {"llm_panel", "human"} /\ own \in EdgeIds
    BY <2>1, WriterKnows
  <2>3. run[r].ending = {} /\ v.status = "confirmed"
    BY <2>1, <2>2 DEF RunKeeps
  <2> QED BY <2>1, <2>2, <2>3
<1>1. /\ x \in RunState /\ x.pc = "read" /\ x.v = v /\ x.batch = run[r].batch /\ x.ending = {}
      /\ Becomes(r, x)
  BY <1>0, ZenonT(30) DEF RunState, Steps, Writing, CreateEdge
<1> HIDE DEF x
<1>2. run' \in [Runs -> RunState] /\ run'[r] = x /\ \A q \in Runs : q # r => run'[q] = run[q]
  BY <1>1, WriterGoesOn DEF Writing
<1>3. /\ graph' = [graph EXCEPT ![p] = Created(graph[p], own, v.at)]
      /\ overtaken' = Noted(r, p) /\ groups' = groups /\ unattached' = unattached
      /\ graph \in [Pairs -> Edges] /\ graph[p] \in Edges
  BY <1>0 DEF CreateEdge, VerdictInv, StoreType
<1>4. /\ graph' \in [Pairs -> Edges] /\ graph'[p] = Created(graph[p], own, v.at)
      /\ \A q \in Pairs : q # p => graph'[q] = graph[q]
  BY <1>0, <1>3, CreatedEdges, ZenonT(30)
<1>5. /\ \A d \in EdgeIds : d # own => graph'[p][d] = graph[p][d]
      /\ graph[p][own].st = "none" => graph'[p][own].st = "live"
      /\ graph[p][own].st # "none" => graph'[p] = graph[p]
  <2> HIDE DEF own
  <2> DEFINE g == graph[p]
  <2>1. g \in Edges /\ own \in EdgeIds /\ v.at \in Nat /\ graph'[p] = Created(g, own, v.at)
    BY <1>0, <1>3, <1>4, Zenon
  <2> HIDE DEF g
  <2>2. /\ \A d \in EdgeIds : d # own => graph'[p][d] = g[d]
        /\ g[own].st = "none" => graph'[p][own].st = "live"
        /\ g[own].st # "none" => graph'[p] = g
    <3>1. /\ \A d \in EdgeIds : d # own => Created(g, own, v.at)[d] = g[d]
          /\ g[own].st = "none" => Created(g, own, v.at)[own].st = "live"
          /\ g[own].st # "none" => Created(g, own, v.at) = g
      <4> HIDE DEF v
      <4>1. \A d \in EdgeIds : d # own => Created(g, own, v.at)[d] = g[d]
        BY <2>1, CreatedEdges
      <4>2. g[own].st = "none" => Created(g, own, v.at)[own].st = "live"
        BY <2>1, CreatedEdges
      <4>3. g[own].st # "none" => Created(g, own, v.at) = g
        BY <2>1, CreatedEdges
      <4> QED BY <4>1, <4>2, <4>3, Zenon
    <3> QED BY <2>1, <3>1, Zenon
  <2> QED BY <2>2, Zenon DEF g
<1>6. StoreType'
  <2>1. overtaken' \in [Pairs -> {"never", "since", "before"}]
    BY <1>0, <1>3, NotedType, Zenon DEF VerdictInv, StoreType
  <2> QED BY <1>2, <1>3, <1>4, <2>1 DEF VerdictInv, StoreType, CreateEdge, storeUnchanged
<1>7. RunKeeps(r)'
  <2>1. \A u \in Carried(r)' : u \in Projection /\ u.at <= clock' /\ Known(u)'
    BY <1>0, <1>1, <1>2, CarriesOn DEF Writing, CreateEdge
  <2> QED BY <1>1, <1>2, <2>1, ZenonT(30) DEF RunKeeps
<1>8. row' = row /\ clock' = clock
  BY DEF CreateEdge, storeUnchanged
<1>9. \A t \in 1..MaxClock : HumanEdge(t) \in EdgeIds
  BY DEF EdgeIds
<1>10. PanelEdge \in EdgeIds
  BY DEF EdgeIds
<1>11. EdgeInv'
  <2>1. ASSUME NEW q \in Pairs, NEW t \in 1..MaxClock, graph'[q][HumanEdge(t)].st # "none"
        PROVE  row'[q].by = "human" /\ t <= clock'
    <3>1. CASE q = p /\ own = HumanEdge(t)
      <4>1. v.by = "human" /\ v.at = t
        BY ZenonT(20), <1>0, <3>1, EdgeNames DEF OwnEdge
      <4> QED BY <1>0, <1>8, <3>1, <4>1, Zenon DEF Known
    <3>2. CASE ~(q = p /\ own = HumanEdge(t))
      BY <1>4, <1>5, <1>8, <1>9, <2>1, <3>2 DEF VerdictInv, EdgeInv
    <3> QED BY <3>1, <3>2
  <2>2. ASSUME NEW q \in Pairs
        PROVE  /\ graph'[q][PanelEdge].st # "none"
                    => row'[q].by = "human" \/ (row'[q].by = "llm_panel" /\ row'[q].status = "confirmed")
               /\ graph'[q][PanelEdge].st = "ended" => row'[q].by = "human"
    <3>1. CASE q = p /\ own = PanelEdge /\ graph[p][own].st = "none"
      <4>1. v.by = "llm_panel"
        BY <1>0, <3>1, EdgeNames, Zenon DEF OwnEdge
      <4> QED BY <1>0, <1>5, <1>8, <3>1, <4>1, Zenon DEF Known, Holds
    <3>2. CASE ~(q = p /\ own = PanelEdge /\ graph[p][own].st = "none")
      <4>1. graph'[q][PanelEdge] = graph[q][PanelEdge]
        BY <1>4, <1>5, <1>10, <3>2, Zenon
      <4> QED BY <1>8, <4>1, Zenon DEF VerdictInv, EdgeInv
    <3> QED BY <3>1, <3>2, Zenon
  <2> QED BY <1>3, <2>1, <2>2, Zenon DEF EdgeInv, HumanEdge, PanelEdge
<1>12. ASSUME Holder(r, p)
       PROVE  HolderKeeps(r, p)'
  <2>1. HolderKeeps(r, p) /\ overtaken[p] = "never"
    BY <1>0, <1>12, Zenon DEF VerdictInv, HolderInv, Holder
  <2>2. Holds(run[r].v)' = Holds(v) /\ OwnEdge(run[r].v)' = own
    BY <1>1, <1>2, <1>8 DEF Holds, OwnEdge, HumanEdge, PanelEdge
  <2>3. ASSUME ~Holds(v)
        PROVE  row'[p].by = "human" /\ graph'[p][HumanEdge(row'[p].at)].st = "none"
    <3>1. row[p].by = "human" /\ graph[p][HumanEdge(row[p].at)].st = "none" /\ row[p].status \in PanelStatus
      BY <1>0, <2>1, <2>3, ZenonT(30) DEF HolderKeeps, VerdictInv, RowInv, PanelStatus
    <3>2. row[p].at \in 1..MaxClock
      BY <1>0, <3>1, BoundsAssumption DEF VerdictInv, RowInv, StoreType, Row
    <3>3. own # HumanEdge(row[p].at)
      BY <1>0, <2>3, <3>1, EdgeNames, Zenon DEF OwnEdge, Known, Holds
    <3> QED BY <1>5, <1>8, <1>9, <3>1, <3>2, <3>3, Zenon
  <2>4. ASSUME Holds(v)
        PROVE  own \in Live(graph[p])'
    <3>1. graph[p][own].st # "ended"
      <4>1. CASE v.by = "human"
        BY <1>0, <2>1, <2>4, <4>1, Zenon DEF Holds, OwnEdge, VerdictInv, StandingInv
      <4>2. CASE v.by = "llm_panel"
        BY <1>0, <2>4, <4>2, Zenon DEF Holds, OwnEdge, VerdictInv, EdgeInv
      <4> QED BY <1>0, <4>1, <4>2, Zenon
    <3>2. graph[p][own].st \in {"none", "live", "ended"}
      BY <1>0, <1>3, Zenon DEF Edges, Edge
    <3>3. graph'[p][own].st = "live"
      BY <1>5, <3>1, <3>2, Zenon
    <3> QED BY <1>0, <1>1, <1>2, <3>3, Zenon DEF Live
  <2> QED BY <1>1, <1>2, <2>2, <2>3, <2>4, Zenon DEF HolderKeeps, HumanEdge
<1>13. Holder(r, p) /\ row[p].by = "human" /\ row[p].status = "confirmed"
         => graph'[p][HumanEdge(row[p].at)].st # "ended"
  <2> SUFFICES ASSUME Holder(r, p), row[p].by = "human", row[p].status = "confirmed"
               PROVE  graph'[p][HumanEdge(row[p].at)].st # "ended"
    BY Zenon
  <2>1. graph[p][HumanEdge(row[p].at)].st # "ended"
    BY <1>0, Zenon DEF VerdictInv, StandingInv, Holder
  <2>2. row[p].at \in 1..MaxClock
    BY <1>0, BoundsAssumption DEF VerdictInv, RowInv, StoreType, Row, PanelStatus, Closed
  <2>3. HumanEdge(row[p].at) \in EdgeIds
    BY <1>9, <2>2, Zenon
  <2> QED BY <1>5, <2>1, <2>3, Zenon
<1> HIDE DEF own
<1> QED BY <1>0, <1>1, <1>2, <1>3, <1>4, <1>6, <1>7, <1>11, <1>12, <1>13, PairWrite, ZenonT(30) DEF CreateEdge

\* What ending an edge does: a missing edge stays missing.
LEMMA SupersededEdges ==
    ASSUME NEW g \in Edges, NEW e \in EdgeIds, NEW t \in Nat
    PROVE  /\ Superseded(g, e, t) \in Edges
           /\ \A d \in EdgeIds : d # e => Superseded(g, e, t)[d] = g[d]
           /\ g[e].st = "none" => Superseded(g, e, t) = g
           /\ g[e].st # "none" => Superseded(g, e, t)[e].st = "ended"
<1>1. CASE g[e].st = "none"
  BY <1>1 DEF Superseded
<1>2. CASE g[e].st # "none"
  <2> DEFINE y == [g[e] EXCEPT !.st = "ended", !.to = t]
  <2>1. Superseded(g, e, t) = [g EXCEPT ![e] = y]
    BY <1>2, Zenon DEF Superseded, Edges
  <2>2. y \in Edge /\ y.st = "ended"
    BY Zenon DEF Edges, Edge
  <2> HIDE DEF y
  <2> QED BY <1>2, <2>1, <2>2 DEF Edges
<1> QED BY <1>1, <1>2

\* The holder of a claim ends no edge twice, and never the edge of the verdict that stands.
LEMMA SupersedeEdgeStep ==
    ASSUME VerdictInv, NEW r \in Runs, SupersedeEdge(r)
    PROVE  VerdictInv'
<1> DEFINE v == run[r].v
           p == v.pair
<1>0. /\ run[r] \in RunState /\ RunKeeps(r) /\ run[r].pc = "end" /\ run[r].pc \in Writing
      /\ v \in Projection /\ p \in Pairs /\ Known(v) /\ run[r].ending \subseteq EdgeIds
      /\ v.at \in Nat /\ v.by \in {"llm_panel", "human"}
  BY WriterKnows DEF SupersedeEdge, Writing, RunState
<1>1. PICK e \in run[r].ending :
         /\ graph' = [graph EXCEPT ![p] = Superseded(graph[p], e,
                        IF v.by = "human" THEN Later(v.at, graph[p][e].from) ELSE v.at)]
         /\ Becomes(r, [run[r] EXCEPT !.ending = @ \ {e}])
  BY Zenon DEF SupersedeEdge
<1> DEFINE x == [run[r] EXCEPT !.ending = @ \ {e}]
           t == IF v.by = "human" THEN Later(v.at, graph[p][e].from) ELSE v.at
<1>2. /\ x \in RunState /\ x.pc = "end" /\ x.v = v /\ x.batch = run[r].batch /\ x.ending = run[r].ending \ {e}
      /\ Becomes(r, x)
  BY <1>0, <1>1 DEF RunState
<1> HIDE DEF x
<1>3. run' \in [Runs -> RunState] /\ run'[r] = x /\ \A q \in Runs : q # r => run'[q] = run[q]
  BY <1>2, WriterGoesOn DEF Writing
<1>4. graph \in [Pairs -> Edges] /\ graph[p] \in Edges /\ e \in EdgeIds /\ t \in Nat
  <2>1. graph \in [Pairs -> Edges] /\ graph[p] \in Edges /\ e \in EdgeIds
    BY <1>0 DEF VerdictInv, StoreType
  <2>2. graph[p][e].from \in Nat
    BY <2>1 DEF Edges, Edge
  <2> QED BY <1>0, <2>1, <2>2 DEF Later
<1> HIDE DEF t
<1>5. /\ graph' \in [Pairs -> Edges]
      /\ \A q \in Pairs : q # p => graph'[q] = graph[q]
      /\ \A d \in EdgeIds : d # e => graph'[p][d] = graph[p][d]
      /\ graph[p][e].st = "none" => graph'[p] = graph[p]
      /\ graph[p][e].st # "none" => graph'[p][e].st = "ended"
  <2> DEFINE g == graph[p]
  <2>1. graph' = [graph EXCEPT ![p] = Superseded(g, e, t)] /\ g \in Edges
    BY <1>1, <1>4 DEF t
  <2> HIDE DEF g
  <2>2. /\ Superseded(g, e, t) \in Edges
        /\ \A d \in EdgeIds : d # e => Superseded(g, e, t)[d] = g[d]
        /\ g[e].st = "none" => Superseded(g, e, t) = g
        /\ g[e].st # "none" => Superseded(g, e, t)[e].st = "ended"
    BY <1>4, <2>1, SupersededEdges
  <2>3. /\ graph' \in [Pairs -> Edges] /\ graph'[p] = Superseded(g, e, t)
        /\ \A q \in Pairs : q # p => graph'[q] = graph[q]
    BY <1>0, <1>4, <2>1, <2>2
  <2> QED BY <2>2, <2>3, Zenon DEF g
<1>6. row' = row /\ clock' = clock /\ groups' = groups /\ unattached' = unattached /\ overtaken' = Noted(r, p)
  BY DEF SupersedeEdge, storeUnchanged
<1>7. StoreType'
  <2>1. overtaken' \in [Pairs -> {"never", "since", "before"}]
    BY <1>0, <1>6, NotedType, Zenon DEF VerdictInv
  <2> QED BY <1>3, <1>5, <1>6, <2>1, Zenon DEF VerdictInv, StoreType, SupersedeEdge
<1>8. RunKeeps(r)'
  <2>1. \A u \in Carried(r)' : u \in Projection /\ u.at <= clock' /\ Known(u)'
    BY <1>0, <1>2, <1>3, CarriesOn DEF Writing, SupersedeEdge
  <2> QED BY <1>0, <1>2, <1>3, <2>1, Zenon DEF RunKeeps
<1>9. /\ \A n \in 1..MaxClock : HumanEdge(n) \in EdgeIds
      /\ PanelEdge \in EdgeIds
  BY DEF EdgeIds
<1>10. \A q \in Pairs : \A d \in EdgeIds : graph'[q][d].st = "none" <=> graph[q][d].st = "none"
  BY <1>4, <1>5
<1>11. EdgeInv'
  <2>1. \A q \in Pairs : graph'[q][PanelEdge].st = "ended" => row'[q].by = "human"
    <3> SUFFICES ASSUME NEW q \in Pairs, graph'[q][PanelEdge].st = "ended" PROVE row[q].by = "human"
      BY <1>6 DEF PanelEdge
    <3>1. CASE q = p /\ e = PanelEdge
      <4>1. v.by = "human"
        BY <1>0, <3>1, EdgeNames, ZenonT(30) DEF RunKeeps
      <4> QED BY <1>0, <3>1, <4>1 DEF Known
    <3>2. CASE ~(q = p /\ e = PanelEdge)
      BY <1>5, <1>9, <3>2 DEF VerdictInv, EdgeInv
    <3> QED BY <3>1, <3>2
  <2>2. ASSUME NEW q \in Pairs, NEW n \in 1..MaxClock, graph'[q][HumanEdge(n)].st # "none"
        PROVE  row'[q].by = "human" /\ n <= clock'
    BY <1>6, <1>9, <1>10, <2>2, Zenon DEF VerdictInv, EdgeInv
  <2>3. ASSUME NEW q \in Pairs, graph'[q][PanelEdge].st # "none"
        PROVE  row'[q].by = "human" \/ (row'[q].by = "llm_panel" /\ row'[q].status = "confirmed")
    BY <1>6, <1>9, <1>10, <2>3 DEF VerdictInv, EdgeInv
  <2>4. ~groups' => \A q \in Pairs : \A d \in EdgeIds : graph'[q][d].st = "none"
    BY <1>6, <1>10 DEF VerdictInv, EdgeInv
  <2> QED BY <2>1, <2>2, <2>3, <2>4, Zenon DEF EdgeInv, HumanEdge, PanelEdge, EdgeIds
<1>12. ASSUME Holder(r, p)
       PROVE  HolderKeeps(r, p)'
  <2>1. HolderKeeps(r, p)
    BY <1>0, <1>12, Zenon DEF VerdictInv, HolderInv
  <2>2. Holds(run[r].v)' = Holds(v) /\ Allowed(p)' = Allowed(p) /\ OwnEdge(run[r].v)' = OwnEdge(v)
    BY <1>2, <1>3, <1>6, Zenon DEF Holds, Allowed, OwnEdge, HumanEdge, Candidate, PanelEdge
  <2>3. \A d \in run[r].ending \ {e} : graph'[p][d].st # "ended"
    BY <1>0, <1>5, <2>1, Zenon DEF HolderKeeps
  <2>4. ASSUME ~Holds(v)
        PROVE  row[p].by = "human" /\ graph'[p][HumanEdge(row[p].at)].st = "none"
    <3>1. row[p].by = "human" /\ graph[p][HumanEdge(row[p].at)].st = "none" /\ row[p].status \in PanelStatus
      BY <1>0, <2>1, <2>4, ZenonT(30) DEF HolderKeeps, VerdictInv, RowInv, PanelStatus
    <3>2. row[p].at \in 1..MaxClock
      BY <1>0, <3>1, BoundsAssumption DEF VerdictInv, RowInv, StoreType, Row
    <3> QED BY <1>0, <1>9, <1>10, <3>1, <3>2, Zenon
  <2>5. v.status = "confirmed" => OwnEdge(v) # e
    BY <1>0, EdgeNames DEF RunKeeps, OwnEdge
  <2>6. OwnEdge(v) \in EdgeIds /\ \A d \in EdgeIds : d # e => (d \in Live(graph[p])' <=> d \in Live(graph[p]))
    BY <1>0, <1>2, <1>3, <1>5, WriterKnows, Zenon DEF Live
  <2>7. e \notin Live(graph[p])'
    BY <1>2, <1>3, <1>5, Zenon DEF Live
  <2>8. Holds(v) => Live(graph[p])' \subseteq Allowed(p) \union (run[r].ending \ {e})
    <3>1. Live(graph[p])' \subseteq EdgeIds
      BY DEF Live
    <3>2. Holds(v) => Live(graph[p]) \subseteq Allowed(p) \union run[r].ending
      BY <1>0, <2>1, Zenon DEF HolderKeeps
    <3> QED BY <2>6, <2>7, <3>1, <3>2, Zenon
  <2>9. Holds(v) /\ v.status = "confirmed" /\ p \notin unattached => OwnEdge(v) \in Live(graph[p])'
    BY <1>0, <2>1, <2>5, <2>6, Zenon DEF HolderKeeps
  <2> QED BY <1>0, <1>2, <1>3, <1>6, <2>2, <2>3, <2>4, <2>8, <2>9, Zenon DEF HolderKeeps, HumanEdge
<1>13. Holder(r, p) /\ row[p].by = "human" /\ row[p].status = "confirmed"
         => graph'[p][HumanEdge(row[p].at)].st # "ended"
  <2> SUFFICES ASSUME Holder(r, p), row[p].by = "human", row[p].status = "confirmed"
               PROVE  graph'[p][HumanEdge(row[p].at)].st # "ended"
    BY Zenon
  <2>1. graph[p][HumanEdge(row[p].at)].st # "ended" /\ HolderKeeps(r, p)
    BY <1>0, Zenon DEF VerdictInv, StandingInv, Holder, HolderInv
  <2>2. row[p].at \in 1..MaxClock
    BY <1>0, BoundsAssumption DEF VerdictInv, RowInv, StoreType, Row, PanelStatus, Closed
  <2>3. HumanEdge(row[p].at) \in EdgeIds
    BY <1>9, <2>2
  <2>4. CASE Holds(v)
    <3>1. e # HumanEdge(row[p].at)
      BY <1>0, <2>4, Zenon DEF Holds, RunKeeps
    <3> QED BY <1>5, <2>1, <2>3, <3>1, Zenon
  <2>5. CASE ~Holds(v)
    <3>1. graph[p][HumanEdge(row[p].at)].st = "none"
      BY <2>1, <2>5, Zenon DEF HolderKeeps
    <3> QED BY <1>0, <1>10, <2>3, <3>1, Zenon
  <2> QED BY <2>4, <2>5, Zenon
<1> QED BY <1>0, <1>2, <1>3, <1>5, <1>6, <1>7, <1>8, <1>11, <1>12, <1>13, PairWrite, Zenon DEF SupersedeEdge

LEMMA GraphReadFailsStep ==
    ASSUME VerdictInv, NEW r \in Runs, GraphReadFails(r)
    PROVE  VerdictInv'
<1>1. CASE run[r].wrote
  BY <1>1, IdleRunType, QuietRun DEF GraphReadFails, Writing
<1>2. CASE ~run[r].wrote
  <2> DEFINE v == run[r].v
             p == v.pair
             x == [run[r] EXCEPT !.pc = "release"]
  <2>0. /\ run[r] \in RunState /\ RunKeeps(r) /\ run[r].pc = "read" /\ run[r].pc \in Writing
        /\ run[r].ending = {} /\ p \in Pairs
    BY WriterKnows DEF GraphReadFails, Writing, RunKeeps
  <2>1. /\ x \in RunState /\ x.pc = "release" /\ x.v = v /\ x.batch = run[r].batch /\ x.ending = {}
        /\ Becomes(r, x)
    BY <1>2, <2>0 DEF RunState, Steps, Writing, GraphReadFails
  <2> HIDE DEF x
  <2>2. run' \in [Runs -> RunState] /\ run'[r] = x /\ \A q \in Runs : q # r => run'[q] = run[q]
    BY <2>1, WriterGoesOn DEF Writing
  <2>3. StoreType'
    BY <2>2 DEF VerdictInv, StoreType, GraphReadFails, storeUnchanged, graphUnchanged
  <2>4. RunKeeps(r)'
    <3>1. \A u \in Carried(r)' : u \in Projection /\ u.at <= clock' /\ Known(u)'
      BY <2>0, <2>1, <2>2, CarriesOn DEF Writing, GraphReadFails
    <3> QED BY <2>1, <2>2, <3>1 DEF RunKeeps
  <2>5. EdgeInv'
    BY ZenonT(20), RowsAlone, CalmEdges DEF VerdictInv, GraphReadFails, graphUnchanged
  <2>6. ASSUME Holder(r, p)
        PROVE  HolderKeeps(r, p)'
    <3>1. HolderKeeps(r, p)
      BY <2>0, <2>6 DEF VerdictInv, HolderInv
    <3>2. Holds(run[r].v)' = Holds(v)
      BY <2>1, <2>2 DEF Holds, GraphReadFails, storeUnchanged
    <3> QED BY ZenonT(20), <2>1, <2>2, <3>1, <3>2 DEF HolderKeeps, GraphReadFails, storeUnchanged, graphUnchanged, HumanEdge
  <2>7. Holder(r, p) /\ row[p].by = "human" /\ row[p].status = "confirmed"
           => graph'[p][HumanEdge(row[p].at)].st # "ended"
    BY <2>0, Zenon DEF VerdictInv, StandingInv, Holder, GraphReadFails, graphUnchanged
  <2>8. overtaken' = Noted(r, p)
    BY DEF Noted, GraphReadFails, graphUnchanged
  <2> QED BY <2>0, <2>1, <2>2, <2>3, <2>4, <2>5, <2>6, <2>7, <2>8, PairWrite, Zenon DEF GraphReadFails, graphUnchanged
<1> QED BY <1>1, <1>2

-----------------------------------------------------------------------------
(* The reconciler's write and the rebuild. *)

\* A reconcile that writes to a pair with a verdict is noted; elsewhere nobody relies on the edges.
LEMMA ReconcileWriteStep == VerdictInv /\ ReconcileWrite => VerdictInv'
<1> SUFFICES ASSUME VerdictInv, ReconcileWrite PROVE VerdictInv'
  OBVIOUS
<1>0. graph \in [Pairs -> Edges] /\ rec.version \in 1..MaxVersion /\ rec.from \in Nat /\ rec \in RecState
  BY DEF VerdictInv, StoreType, RecState
<1> DEFINE c == Candidate(rec.version)
<1>1. c \in EdgeIds /\ PanelEdge \in EdgeIds /\ \A n \in 1..MaxClock : HumanEdge(n) \in EdgeIds
  BY <1>0 DEF EdgeIds
<1>2. ASSUME NEW p \in Pairs
      PROVE  /\ graph'[p] \in Edges
             /\ \A d \in EdgeIds : d # c => graph'[p][d] = graph[p][d]
  <2>1. graph'[p] = graph[p] \/ graph'[p] = Created(graph[p], c, rec.from)
    BY DEF ReconcileWrite
  <2>2. graph[p] \in Edges
    BY <1>0
  <2> HIDE DEF c
  <2>3. CASE graph'[p] = Created(graph[p], c, rec.from)
    <3> DEFINE g == graph[p]
               h == graph'[p]
               t == rec.from
    <3>1. g \in Edges /\ t \in Nat /\ c \in EdgeIds /\ h = Created(g, c, t)
      BY <1>0, <1>1, <2>2, <2>3
    <3> HIDE DEF g, h, t
    <3>2. h \in Edges /\ \A d \in EdgeIds : d # c => h[d] = g[d]
      BY <3>1, CreatedEdges
    <3> QED BY <3>2 DEF g, h
  <2> QED BY <2>1, <2>2, <2>3
<1>3. graph' \in [Pairs -> Edges]
  <2>1. graph' = [p \in Pairs |-> graph'[p]]
    BY DEF ReconcileWrite
  <2> QED BY <1>2, <2>1
<1>4. /\ overtaken' \in [Pairs -> {"never", "since", "before"}]
      /\ \A p \in Pairs : overtaken'[p] = "never"
           => overtaken[p] = "never" /\ (row[p].status \in Closed => graph'[p] = graph[p])
  BY DEF ReconcileWrite, VerdictInv, StoreType
<1>5. StoreType'
  BY <1>0, <1>3, <1>4 DEF VerdictInv, StoreType, ReconcileWrite, RecState, storeUnchanged
<1>6. Moves /\ NoneApplied /\ row' = row /\ clock' = clock /\ run' = run
  BY RowsAlone DEF ReconcileWrite, storeUnchanged
<1>7. RowInv' /\ RunInv'
  BY <1>6, RestKeepsRuns, RunsAlone DEF VerdictInv, RowInv
<1>8. EdgeInv'
  <2>1. \A p \in Pairs : graph'[p][PanelEdge] = graph[p][PanelEdge]
    BY <1>1, <1>2, EdgeNames
  <2>2. \A p \in Pairs : \A n \in 1..MaxClock : graph'[p][HumanEdge(n)] = graph[p][HumanEdge(n)]
    BY <1>1, <1>2, EdgeNames
  <2>3. groups'
    BY DEF ReconcileWrite
  <2> QED BY <1>6, <2>1, <2>2, <2>3 DEF VerdictInv, EdgeInv, HumanEdge, PanelEdge
<1>9. StandingInv'
  <2> SUFFICES ASSUME NEW p \in Pairs, overtaken'[p] = "never", row'[p].by = "human", row'[p].status = "confirmed"
               PROVE  graph'[p][HumanEdge(row'[p].at)].st # "ended"
    BY DEF StandingInv, HumanEdge
  <2>1. overtaken[p] = "never" /\ graph'[p] = graph[p]
    BY <1>4, <1>6 DEF Closed
  <2> QED BY <1>5, <1>6, <2>1, CalmStanding DEF VerdictInv
<1>10. HolderInv'
  <2> SUFFICES ASSUME NEW q \in Runs, NEW p \in Pairs, Holder(q, p)'
               PROVE  HolderKeeps(q, p)'
    BY DEF HolderInv
  <2>1. /\ overtaken[p] = "never" /\ row[p].claim.by = q /\ run[q].pc \in Writing /\ run[q].v.pair = p
        /\ overtaken'[p] = "never"
    BY <1>4, <1>6 DEF Holder
  <2>2. Known(run[q].v) /\ run[q].v.by \in {"llm_panel", "human"}
    BY <2>1, WriterKnows
  <2>3. row[p].status \in Closed
    BY <2>1, <2>2, Zenon DEF Known, Holds, VerdictInv, RowInv
  <2>4. graph'[p] = graph[p] /\ unattached' = unattached
    BY <1>4, <2>1, <2>3 DEF ReconcileWrite
  <2> QED BY <1>5, <1>6, <2>1, <2>4, CalmHolder DEF VerdictInv
<1>11. AppliedIsInGraph'
  <2> SUFFICES ASSUME NEW p \in Pairs, row'[p].applied, overtaken'[p] = "never" PROVE InGraph(p)'
    BY DEF AppliedIsInGraph
  <2>1. row[p].applied /\ Kept(p) /\ overtaken[p] = "never"
    BY <1>4, <1>6 DEF Kept
  <2>2. graph'[p] = graph[p] /\ unattached' = unattached
    BY <1>4, <2>1 DEF ReconcileWrite, VerdictInv, RowInv
  <2> QED BY <2>1, <2>2, CalmInGraph DEF VerdictInv, AppliedIsInGraph
<1> QED BY <1>5, <1>7, <1>8, <1>9, <1>10, <1>11 DEF VerdictInv

\* A rebuilt graph contradicts no verdict, and nothing was attached to it.
LEMMA RebuildStep == VerdictInv /\ Rebuild => VerdictInv'
<1> SUFFICES ASSUME VerdictInv, Rebuild PROVE VerdictInv'
  OBVIOUS
<1>0. NoEdges \in Edges /\ (\A e \in EdgeIds : NoEdges[e].st = "none") /\ Live(NoEdges) = {}
  BY DEF NoEdges, NoEdge, Edges, Edge, Live
<1>1. /\ graph' \in [Pairs -> Edges] /\ (\A p \in Pairs : graph'[p] = NoEdges) /\ unattached' = Pairs
      /\ row' = row /\ clock' = clock /\ run' = run /\ overtaken' = overtaken
  BY <1>0 DEF Rebuild, storeUnchanged
<1>2. StoreType'
  BY <1>1, Zenon DEF VerdictInv, StoreType, Rebuild
<1>3. Moves
  BY RowsAlone DEF Rebuild
<1>4. RowInv' /\ RunInv'
  BY <1>1, <1>3, RestKeepsRuns, RunsAlone DEF VerdictInv, RowInv
<1>5. PanelEdge \in EdgeIds /\ \A n \in 1..MaxClock : HumanEdge(n) \in EdgeIds
  BY DEF EdgeIds
<1>6. EdgeInv'
  BY <1>0, <1>1, <1>5, Zenon DEF EdgeInv, HumanEdge, PanelEdge, EdgeIds
<1>7. ASSUME NEW p \in Pairs, row[p].by = "human"
      PROVE  graph'[p][HumanEdge(row[p].at)].st = "none"
  <2>1. row[p].at \in 1..MaxClock
    BY <1>7, BoundsAssumption DEF VerdictInv, RowInv, StoreType, Row, PanelStatus
  <2> QED BY <1>0, <1>1, <1>5, <2>1
<1>8. StandingInv'
  BY <1>1, <1>7 DEF StandingInv, HumanEdge
<1>9. HolderInv'
  <2> SUFFICES ASSUME NEW q \in Runs, NEW p \in Pairs, Holder(q, p)'
               PROVE  HolderKeeps(q, p)'
    BY DEF HolderInv
  <2>1. Holder(q, p) /\ HolderKeeps(q, p) /\ run[q].ending \subseteq EdgeIds
    BY <1>1 DEF Holder, VerdictInv, HolderInv, StoreType, RunState
  <2>2. Holds(run[q].v)' = Holds(run[q].v)
    BY <1>1 DEF Holds
  <2>3. \A e \in run'[q].ending : graph'[p][e].st # "ended"
    BY <1>0, <1>1, <2>1
  <2>4. ~Holds(run[q].v) => row'[p].by = "human" /\ graph'[p][HumanEdge(row'[p].at)].st = "none"
    BY <1>1, <1>7, <2>1, Zenon DEF HolderKeeps
  <2>5. Live(graph[p])' = {}
    BY <1>0, <1>1
  <2> QED BY <1>1, <2>2, <2>3, <2>4, <2>5 DEF HolderKeeps, HumanEdge
<1>10. AppliedIsInGraph'
  <2>1. \A p \in Pairs : Live(graph[p])' = {}
    BY <1>0, <1>1
  <2> QED BY <1>1, <2>1 DEF AppliedIsInGraph, InGraph
<1> QED BY <1>2, <1>4, <1>6, <1>8, <1>9, <1>10 DEF VerdictInv

-----------------------------------------------------------------------------
(* The theorems. *)

LEMMA VerdictInit == Init => VerdictInv
<1> SUFFICES ASSUME Init PROVE VerdictInv
  OBVIOUS
<1>0. NewRow \in Row /\ IdleRun \in RunState /\ IdleRec \in RecState /\ NoEdges \in Edges
  <2>1. NewRow \in Row
    BY BoundsAssumption DEF NewRow, Row, Statuses, NoGrant, NoDissent, Grant
  <2>2. IdleRec \in RecState
    BY BoundsAssumption DEF IdleRec, RecState
  <2> QED BY <2>1, <2>2, IdleRunType DEF NoEdges, NoEdge, Edges, Edge
<1>1. StoreType
  <2>1. clock \in 0..MaxClock /\ version \in 1..MaxVersion
    BY BoundsAssumption DEF Init
  <2>2. row \in [Pairs -> Row] /\ graph \in [Pairs -> Edges] /\ run \in [Runs -> RunState] /\ rec \in RecState
    BY <1>0 DEF Init
  <2>3. groups \in BOOLEAN /\ unattached \subseteq Pairs /\ overtaken \in [Pairs -> {"never", "since", "before"}]
    BY Zenon DEF Init
  <2> QED BY <2>1, <2>2, <2>3 DEF StoreType
<1>2. RowInv
  <2>1. /\ NewRow.status = "absent" /\ NewRow.by = "token_overlap" /\ NewRow.at = 0
        /\ ~NewRow.applied /\ NewRow.claim.by = Nobody
    BY DEF NewRow, NoGrant
  <2>2. clock = 0 /\ \A p \in Pairs : row[p] = NewRow
    BY DEF Init
  <2> QED BY <2>1, <2>2 DEF RowInv, PanelStatus, Closed
<1>3. RunInv
  BY IdleRunType, Zenon DEF Init, RunInv, RunKeeps, Carried, Writing
<1>4. EdgeInv
  BY DEF Init, EdgeInv, NoEdges, NoEdge, EdgeIds
<1>5. HolderInv
  BY IdleRunType DEF Init, HolderInv, Holder, Writing
<1>6. StandingInv /\ AppliedIsInGraph
  BY Zenon DEF Init, StandingInv, AppliedIsInGraph, NewRow
<1> QED BY <1>1, <1>2, <1>3, <1>4, <1>5, <1>6 DEF VerdictInv

LEMMA VerdictStutter == VerdictInv /\ UNCHANGED vars => VerdictInv'
<1> SUFFICES ASSUME VerdictInv, UNCHANGED vars PROVE VerdictInv'
  OBVIOUS
<1>1. StoreType' /\ graphUnchanged /\ storeUnchanged /\ run' = run
  BY DEF VerdictInv, StoreType, vars, graphUnchanged, storeUnchanged
<1> QED BY <1>1, RowsAlone, RunsAlone, CalmStep

LEMMA VerdictNext == VerdictInv /\ [Next]_vars => VerdictInv'
<1> SUFFICES ASSUME VerdictInv, [Next]_vars PROVE VerdictInv'
  OBVIOUS
<1>1. CASE ReconcileStep
  BY <1>1, ReconcileStartStep, ReconcileWriteStep, EnqueueStep, ReconcileStopsStep DEF ReconcileStep
<1>2. CASE TimePasses
  BY <1>2, ExpireClaimStep, ExpireLeaseStep, BackoffPassesStep DEF TimePasses
<1>3. CASE Upgrade
  BY <1>3, UpgradeStep
<1>4. CASE Rebuild
  BY <1>4, RebuildStep
<1>5. ASSUME NEW p \in Pairs, NEW s \in Closed, DecideHuman(p, s) PROVE VerdictInv'
  BY <1>5, DecideHumanStep
<1>6. ASSUME NEW r \in Runs, Start(r) PROVE VerdictInv'
  BY <1>6, StartRunStep, ReprojectStep DEF Start
<1>7. ASSUME NEW r \in Runs, ProjectStep(r) PROVE VerdictInv'
  BY <1>7, RescanStep, ClaimProjectionStep, UnattachedStep, AttachedStep, ReadEdgesStep, SupersedeEdgeStep,
     MarkProjectedStep, ReleaseClaimStep DEF ProjectStep
<1>8. ASSUME NEW r \in Runs, AdjudicateStep(r) PROVE VerdictInv'
  BY <1>8, LeaseStep, LeaseDoneStep, SkipExpiredStep, PanelVotesStep, RecordFailureStep, DecideStep,
     RecordDissentStep DEF AdjudicateStep
<1>9. ASSUME NEW r \in Runs, GraphReadFails(r) \/ RunStops(r) PROVE VerdictInv'
  BY <1>9, GraphReadFailsStep, RunStopsStep
<1>10. CASE UNCHANGED vars
  BY <1>10, VerdictStutter
<1> QED BY <1>1, <1>2, <1>3, <1>4, <1>5, <1>6, <1>7, <1>8, <1>9, <1>10 DEF Next, RunStep

\* The inductive invariant holds in every reachable state, for any pairs, runs and bounds.
THEOREM VerdictsAreConsistent == Spec => []VerdictInv
<1>1. Init => VerdictInv
  BY VerdictInit
<1>2. VerdictInv /\ [Next]_vars => VerdictInv'
  BY VerdictNext
<1> QED BY <1>1, <1>2, PTL DEF Spec

\* AppliedIsInGraph: what MarkProjected marks graph_applied is what the pair's edges say, however
\* runs, claims, takeovers, people and rebuilds interleave, unless a run that had lost its claim or a
\* late reconcile wrote to the pair.
THEOREM AppliedVerdictsAreWritten == Spec => []AppliedIsInGraph
<1>1. VerdictInv => AppliedIsInGraph
  BY DEF VerdictInv
<1> QED BY <1>1, VerdictsAreConsistent, PTL

\* ClaimedIsNotApplied: ResetProjection never meets a claim, as its comment says.
THEOREM ClaimedVerdictsAreOpen == Spec => []ClaimedIsNotApplied
<1>1. VerdictInv => ClaimedIsNotApplied
  BY DEF VerdictInv, RowInv, ClaimedIsNotApplied
<1> QED BY <1>1, VerdictsAreConsistent, PTL

\* What is left of the bounds is a number, so a rebuild is seen in it.
Kinds == {"reconciles", "resets", "rebuilds", "upgrades", "stops", "overruns", "all"}
LeftType == left \in [Kinds -> Nat]

LEMMA LeftNext == LeftType /\ [Next]_vars => LeftType'
<1> SUFFICES ASSUME LeftType, [Next]_vars PROVE LeftType'
  OBVIOUS
<1>1. ASSUME NEW k \in Kinds \ {"all"}, Spends(k) PROVE LeftType'
  BY <1>1 DEF LeftType, Spends, Kinds
<1>2. CASE left' = left
  BY <1>2 DEF LeftType
<1>3. CASE ReconcileStep
  BY <1>1, <1>2, <1>3 DEF ReconcileStep, ReconcileStart, ReconcileWrite, Enqueue, ReconcileStops, Kinds
<1>4. CASE TimePasses
  BY <1>1, <1>2, <1>4 DEF TimePasses, ExpireClaim, ExpireLease, BackoffPasses, Kinds
<1>5. CASE Upgrade \/ Rebuild
  BY <1>1, <1>2, <1>5 DEF Upgrade, Rebuild, Kinds
<1>6. CASE \E p \in Pairs, s \in Closed : DecideHuman(p, s)
  BY <1>2, <1>6 DEF DecideHuman
<1>7. ASSUME NEW r \in Runs, Start(r) \/ GraphReadFails(r) \/ RunStops(r) PROVE LeftType'
  BY <1>1, <1>2, <1>7 DEF Start, StartRun, Reproject, GraphReadFails, RunStops, Kinds
<1>8. ASSUME NEW r \in Runs, ProjectStep(r) PROVE LeftType'
  BY <1>2, <1>8, Zenon DEF ProjectStep, Rescan, ClaimProjection, CreateEdge, ReadEdges, SupersedeEdge, MarkProjected,
                    ReleaseClaim
<1>9. ASSUME NEW r \in Runs, AdjudicateStep(r) PROVE LeftType'
  BY <1>2, <1>9, Zenon DEF AdjudicateStep, Lease, LeaseDone, SkipExpired, PanelVotes, RecordFailure, Decide, RecordDissent
<1>10. CASE UNCHANGED vars
  BY <1>2, <1>10 DEF vars
<1> QED BY <1>3, <1>4, <1>5, <1>6, <1>7, <1>8, <1>9, <1>10 DEF Next, RunStep

\* Only four actions write to the graph.
LEMMA GraphWriters ==
    ASSUME [Next]_vars
    PROVE  \/ graph' = graph
           \/ ReconcileWrite
           \/ Rebuild
           \/ \E r \in Runs : CreateEdge(r) \/ SupersedeEdge(r)
<1>1. CASE ReconcileStep
  BY <1>1 DEF ReconcileStep, ReconcileStart, Enqueue, ReconcileStops, graphUnchanged
<1>2. CASE TimePasses
  BY <1>2 DEF TimePasses, ExpireClaim, ExpireLease, BackoffPasses, graphUnchanged
<1>3. CASE Upgrade \/ Rebuild
  BY <1>3 DEF Upgrade, graphUnchanged
<1>4. CASE \E p \in Pairs, s \in Closed : DecideHuman(p, s)
  BY <1>4 DEF DecideHuman, graphUnchanged
<1>5. CASE \E r \in Runs : Start(r) \/ GraphReadFails(r) \/ RunStops(r)
  BY <1>5 DEF Start, StartRun, Reproject, GraphReadFails, RunStops, graphUnchanged
<1>6. CASE \E r \in Runs : ProjectStep(r)
  BY <1>6, Zenon DEF ProjectStep, Rescan, ClaimProjection, ReadEdges, MarkProjected, ReleaseClaim, graphUnchanged
<1>7. CASE \E r \in Runs : AdjudicateStep(r)
  BY <1>7, ZenonT(30) DEF AdjudicateStep, Lease, LeaseDone, SkipExpired, PanelVotes, RecordFailure, Decide, RecordDissent,
              graphUnchanged
<1>8. CASE UNCHANGED vars
  BY <1>8 DEF vars
<1> QED BY <1>1, <1>2, <1>3, <1>4, <1>5, <1>6, <1>7, <1>8 DEF Next, RunStep

\* EndedEdgesKeepTheirEnd: whoever holds the claim lists no edge that is ended, and creating an edge
\* leaves an ended one of that name alone.
THEOREM EndsAreKept == Spec => EndedEdgesKeepTheirEnd
<1> DEFINE A == \A p \in Pairs : \A e \in EdgeIds :
                   graph[p][e].st = "ended" /\ overtaken'[p] = "never" /\ left'["rebuilds"] = left["rebuilds"]
                      => graph'[p][e] = graph[p][e]
<1>1. VerdictInv /\ LeftType /\ [Next]_vars => A
  <2> SUFFICES ASSUME VerdictInv, LeftType, [Next]_vars, NEW p \in Pairs, NEW e \in EdgeIds,
                      graph[p][e].st = "ended", overtaken'[p] = "never", left'["rebuilds"] = left["rebuilds"]
               PROVE  graph'[p][e] = graph[p][e]
    OBVIOUS
  <2>0. graph \in [Pairs -> Edges] /\ graph[p] \in Edges
    BY DEF VerdictInv, StoreType
  <2>1. CASE graph' = graph
    BY <2>1
  <2>2. CASE ReconcileWrite
    <3> DEFINE c == Candidate(rec.version)
    <3>1. graph'[p] = graph[p] \/ graph'[p] = Created(graph[p], c, rec.from)
      BY <2>2 DEF ReconcileWrite
    <3>2. Created(graph[p], c, rec.from)[e] = graph[p][e]
      BY <2>0, Zenon DEF Created, Edges
    <3> QED BY <3>1, <3>2
  <2>3. CASE Rebuild
    BY <2>3 DEF Rebuild, Spends, LeftType, Kinds
  <2>4. ASSUME NEW r \in Runs, CreateEdge(r) PROVE graph'[p][e] = graph[p][e]
    <3> DEFINE own == OwnEdge(run[r].v)
               q == run[r].v.pair
    <3>1. graph' = graph \/ graph' = [graph EXCEPT ![q] = Created(graph[q], own, run[r].v.at)]
      BY <2>4 DEF CreateEdge
    <3> HIDE DEF own
    <3>2. Created(graph[p], own, run[r].v.at)[e] = graph[p][e]
      BY <2>0, Zenon DEF Created, Edges
    <3> QED BY <2>0, <3>1, <3>2
  <2>5. ASSUME NEW r \in Runs, SupersedeEdge(r) PROVE graph'[p][e] = graph[p][e]
    <3> DEFINE v == run[r].v
               q == v.pair
    <3>1. PICK d \in run[r].ending :
             graph' = [graph EXCEPT ![q] = Superseded(graph[q], d,
                          IF v.by = "human" THEN Later(v.at, graph[q][d].from) ELSE v.at)]
      BY <2>5, Zenon DEF SupersedeEdge
    <3>2. q \in Pairs /\ run[r].pc \in Writing /\ overtaken' = Noted(r, q)
      BY <2>5, WriterKnows DEF SupersedeEdge, Writing
    <3>3. CASE q # p
      BY <2>0, <3>1, <3>3, Zenon
    <3>4. CASE q = p /\ graph'[p] = graph[p]
      BY <3>4
    <3>5. CASE q = p /\ graph'[p] # graph[p]
      <4>1. row[p].claim.by = r /\ overtaken[p] = "never"
        BY <3>2, <3>5 DEF Noted, VerdictInv, StoreType
      <4>2. Holder(r, p)
        BY <3>2, <3>5, <4>1 DEF Holder
      <4>3. d # e
        BY <3>1, <3>2, <3>5, <4>2, ZenonT(30) DEF VerdictInv, HolderInv, HolderKeeps
      <4> DEFINE t == IF v.by = "human" THEN Later(v.at, graph[q][d].from) ELSE v.at
      <4>4. graph'[p] = Superseded(graph[p], d, t)
        BY <2>0, <3>1, <3>5
      <4> HIDE DEF t
      <4>5. Superseded(graph[p], d, t)[e] = graph[p][e]
        BY <2>0, <4>3 DEF Superseded, Edges
      <4> QED BY <4>4, <4>5
    <3> QED BY <3>3, <3>4, <3>5
  <2> QED BY <2>1, <2>2, <2>3, <2>4, <2>5, GraphWriters
<1>2. Init => LeftType
  BY BoundsAssumption DEF Init, LeftType, Kinds
<1>3. LeftType /\ [Next]_vars => LeftType'
  BY LeftNext
<1>4. Spec => []LeftType
  BY <1>2, <1>3, PTL DEF Spec
<1> HIDE DEF A
<1>5. VerdictInv /\ LeftType /\ [Next]_vars => [A]_vars
  BY <1>1
<1>6. Spec => [][A]_vars
  BY <1>4, <1>5, VerdictsAreConsistent, PTL DEF Spec
<1> QED BY <1>6 DEF A, EndedEdgesKeepTheirEnd

-----------------------------------------------------------------------------
(* The store implements VerdictAuthority. *)

\* A step that changes nobody's status or authority is a step of VerdictAuthority that changes nothing.
SameVerdicts == \A p \in Pairs : row'[p].status = row[p].status /\ row'[p].by = row[p].by

LEMMA OtherSteps ==
    ASSUME VerdictInv, [Next]_vars
    PROVE  \/ SameVerdicts
           \/ Enqueue
           \/ \E p \in Pairs, s \in Closed : DecideHuman(p, s)
           \/ \E r \in Runs : RecordFailure(r) \/ Decide(r)
<1>0. row \in [Pairs -> Row] /\ \A p \in Pairs : row[p] \in Row
  BY DEF VerdictInv, StoreType
<1>1. row' = row => SameVerdicts
  BY DEF SameVerdicts
<1>2. CASE ReconcileStep
  BY <1>1, <1>2 DEF ReconcileStep, ReconcileStart, ReconcileWrite, ReconcileStops, storeUnchanged
<1>3. CASE TimePasses
  BY <1>0, <1>3 DEF TimePasses, ExpireClaim, ExpireLease, BackoffPasses, SameVerdicts, Row
<1>4. CASE Upgrade \/ Rebuild \/ UNCHANGED vars
  BY <1>1, <1>4 DEF Upgrade, Rebuild, vars, storeUnchanged
<1>5. ASSUME NEW r \in Runs, Start(r) \/ GraphReadFails(r) \/ RunStops(r) PROVE SameVerdicts
  <2>1. CASE Reproject(r)
    BY <1>0, <2>1 DEF Reproject, SameVerdicts, Row
  <2> QED BY <1>1, <1>5, <2>1 DEF Start, StartRun, GraphReadFails, RunStops, storeUnchanged
<1>6. ASSUME NEW r \in Runs, ProjectStep(r) PROVE SameVerdicts
  <2>1. CASE ClaimProjection(r)
    BY <1>0, <2>1 DEF ClaimProjection, SameVerdicts, Row
  <2>2. CASE MarkProjected(r)
    BY <1>0, <2>2, ZenonT(30) DEF MarkProjected, SameVerdicts, Row
  <2>3. CASE ReleaseClaim(r)
    BY <1>0, <2>3 DEF ReleaseClaim, SameVerdicts, Row
  <2> QED BY <1>1, <1>6, <2>1, <2>2, <2>3, Zenon
        DEF ProjectStep, Rescan, CreateEdge, ReadEdges, SupersedeEdge, storeUnchanged
<1>7. ASSUME NEW r \in Runs, AdjudicateStep(r) PROVE SameVerdicts \/ RecordFailure(r) \/ Decide(r)
  <2>1. CASE Lease(r)
    BY <1>0, <2>1 DEF Lease, SameVerdicts, Row
  <2>2. CASE RecordDissent(r)
    BY <1>0, <2>2 DEF RecordDissent, SameVerdicts, Row
  <2> QED BY <1>1, <1>7, <2>1, <2>2, Zenon
        DEF AdjudicateStep, LeaseDone, SkipExpired, PanelVotes, storeUnchanged
<1> QED BY <1>2, <1>3, <1>4, <1>5, <1>6, <1>7 DEF Next, RunStep

\* KeepsAuthority: automation decides a queued pair once, and from the first human verdict on only a
\* person changes it (the rules of the VerdictStore interface), step by step: Enqueue queues the
\* pairs that were absent, Decide is the panel's decision, a failure past MaxAttempts gives up, and
\* DecideHuman is a person's; every other step leaves the verdicts alone.
THEOREM StoreKeepsAuthority == Spec => KeepsAuthority
<1> DEFINE verdict == [p \in Pairs |-> [status |-> row[p].status, by |-> row[p].by]]
<1>1. Init => Authority!Init
  BY DEF Init, NewRow, Authority!Init, Authority!NotQueued
<1>2. VerdictInv /\ [Next]_vars => [Authority!Next]_verdict
  <2> SUFFICES ASSUME VerdictInv, [Next]_vars PROVE [Authority!Next]_verdict
    OBVIOUS
  <2>0. row \in [Pairs -> Row] /\ (\A p \in Pairs : row[p] \in Row) /\ RowInv
    BY DEF VerdictInv, StoreType
  <2>1. SameVerdicts => verdict' = verdict
    BY DEF SameVerdicts
  <2>2. CASE Enqueue
    <3>1. rec.open \subseteq Pairs
      BY DEF VerdictInv, StoreType, RecState
    <3> PICK found \in SUBSET Pairs : found = {p \in rec.open : row[p].status = "absent"}
      BY <3>1, Zenon
    <3>2. \A p \in found : verdict[p] = [status |-> "absent", by |-> "token_overlap"]
      BY <2>0, <3>1 DEF RowInv, Row, PanelStatus, Closed
    <3>3. \A p \in Pairs : [status |-> row'[p].status, by |-> row'[p].by]
              = IF p \in found THEN [status |-> "pending", by |-> "token_overlap"] ELSE verdict[p]
      <4> SUFFICES ASSUME NEW p \in Pairs
                   PROVE  [status |-> row'[p].status, by |-> row'[p].by]
                            = IF p \in found THEN [status |-> "pending", by |-> "token_overlap"] ELSE verdict[p]
        BY Zenon
      <4>1. CASE p \in found
        <5>1. row'[p] = [NewRow EXCEPT !.status = "pending", !.edge = rec.version]
          BY <2>2, <4>1 DEF Enqueue, Enqueued
        <5> QED BY <4>1, <5>1 DEF NewRow
      <4>2. CASE p \notin found
        <5>1. row'[p] = row[p] \/ row'[p] = [row[p] EXCEPT !.edge = rec.version]
          BY <2>2, <4>2 DEF Enqueue, Enqueued
        <5> QED BY <2>0, <4>2, <5>1 DEF Row
      <4> QED BY <4>1, <4>2
    <3>4. Authority!Queue(found)
      BY <3>1, <3>2, <3>3, Zenon DEF Authority!Queue, Authority!NotQueued
    <3> QED BY <3>4 DEF Authority!Next
  <2>3. ASSUME NEW p \in Pairs, NEW s \in Closed, DecideHuman(p, s) PROVE Authority!Next
    <3>1. /\ row[p].status # "absent" /\ row'[p].status = s /\ row'[p].by = "human"
          /\ \A q \in Pairs : q # p => row'[q] = row[q]
      BY <2>0, <2>3 DEF DecideHuman, Decided, Row
    <3>2. Authority!PersonDecides(p, s)
      BY <3>1, Zenon DEF Authority!PersonDecides
    <3> QED BY <3>2 DEF Authority!Next, Authority!Closed, Closed
  <2>4. ASSUME NEW r \in Runs, Decide(r) PROVE [Authority!Next]_verdict
    <3> DEFINE v == run[r].v
               p == v.pair
    <3>1. p \in Pairs /\ v.status \in PanelStatus
      BY <2>4, PairWritten, Zenon DEF Decide, Projection
    <3>2. CASE ~Queued(p)
      <4>1. SameVerdicts
        BY <2>4, <3>2, Zenon DEF Decide, SameVerdicts
      <4> QED BY <2>1, <4>1
    <3>3. CASE Queued(p)
      <4>1. /\ row[p].status = "pending" /\ row[p].by # "human"
            /\ row'[p].status = v.status /\ row'[p].by = "llm_panel"
            /\ \A q \in Pairs : q # p => row'[q] = row[q]
        <5> DEFINE y == [row[p] EXCEPT !.status = v.status, !.by = "llm_panel", !.at = v.at,
                                       !.lease = NoGrant, !.applied = FALSE]
        <5>1. row' = [row EXCEPT ![p] = y]
          BY <2>0, <2>4, <3>1, <3>3, Zenon DEF Decide
        <5>2. y.status = v.status /\ y.by = "llm_panel"
          BY <2>0, <3>1 DEF Row
        <5> HIDE DEF y
        <5>3. row'[p] = y /\ \A q \in Pairs : q # p => row'[q] = row[q]
          BY <2>0, <3>1, <5>1
        <5> QED BY <3>3, <5>2, <5>3 DEF Queued
      <4>2. PICK q \in Pairs, s \in PanelStatus : q = p /\ s = v.status
        BY <3>1
      <4>3. Authority!PanelDecides(q, s)
        BY <4>1, <4>2, Zenon DEF Authority!PanelDecides
      <4> QED BY <4>3 DEF Authority!Next, Authority!Closed, PanelStatus, Closed
    <3> QED BY <3>2, <3>3
  <2>5. ASSUME NEW r \in Runs, RecordFailure(r) PROVE [Authority!Next]_verdict
    <3>1. PICK l \in run[r].leased :
             row' = IF Queued(l.pair) /\ row[l.pair].lease.by = r
                    THEN [row EXCEPT ![l.pair] = Failed(l.pair, l.attempts)] ELSE row
      BY ZenonT(20), <2>5 DEF RecordFailure
    <3> DEFINE p == l.pair
    <3>2. p \in Pairs
      BY RunRecord DEF RunState
    <3>3. CASE row' = row
      <4>1. SameVerdicts
        BY <3>3 DEF SameVerdicts
      <4> QED BY <2>1, <4>1
    <3>4. CASE Queued(p) /\ row' = [row EXCEPT ![p] = Failed(p, l.attempts)]
      <4>1. row'[p] = Failed(p, l.attempts) /\ \A q \in Pairs : q # p => row'[q] = row[q]
        BY <2>0, <3>2, <3>4
      <4>2. row'[p].by = row[p].by /\ row'[p].status \in {row[p].status, "abandoned"}
        <5> DEFINE abandon == l.attempts + 1 >= MaxAttempts
                   st == IF abandon THEN "abandoned" ELSE row[p].status
                   t == IF abandon THEN clock ELSE row[p].at
                   n == row[p].attempts + 1
        <5>1. row'[p] = [row[p] EXCEPT !.attempts = n, !.lease = NoGrant, !.due = FALSE, !.status = st, !.at = t]
          BY <2>0, <3>2, <4>1 DEF Failed, Row
        <5>2. st \in {row[p].status, "abandoned"}
          OBVIOUS
        <5> HIDE DEF st, t, n
        <5> QED BY <2>0, <3>2, <5>1, <5>2 DEF Row
      <4>3. CASE row'[p].status = row[p].status
        <5>1. SameVerdicts
          BY <4>1, <4>2, <4>3 DEF SameVerdicts
        <5> QED BY <2>1, <5>1
      <4>4. CASE row'[p].status = "abandoned"
        <5>1. Authority!GiveUp(p)
          BY <3>2, <3>4, <4>1, <4>2, <4>4, Zenon DEF Authority!GiveUp, Queued
        <5> QED BY <3>2, <5>1, Zenon DEF Authority!Next
      <4> QED BY <4>2, <4>3, <4>4
    <3> QED BY <3>1, <3>3, <3>4, Zenon
  <2> QED BY <2>1, <2>2, <2>3, <2>4, <2>5, OtherSteps, Zenon
<1> QED BY <1>1, <1>2, VerdictsAreConsistent, PTL DEF Spec, KeepsAuthority, Authority!Spec
=============================================================================
