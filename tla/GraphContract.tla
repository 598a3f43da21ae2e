--------------------------- MODULE GraphContract ---------------------------
(* One tenant's property graph as the GraphDB interface promises it and as  *)
(* pkg/graphdb/memdriver keeps it: every call is one atomic step on three   *)
(* pieces of state.  AgeGraph shows that the driver over Apache AGE, whose  *)
(* calls are several statements and transactions, implements this.          *)
EXTENDS Naturals, Sequences, FiniteSets

CONSTANTS IDs,        \* node IDs
          EdgeIDs,    \* edge IDs
          NoID,       \* the empty ID, in neither set
          Labels,     \* labels CheckLabel accepts
          Times,      \* instants, a set of naturals
          NoTime,     \* an unset validity end
          Data        \* what a node's remaining properties tell apart

VARIABLES labelKinds,  \* what each label was first written as
          nodes,       \* the vertices, in creation order
          edges        \* the edges, in creation order

contractVars == <<labelKinds, nodes, edges>>

Node == [id : IDs, label : Labels, from : Times, to : Times \cup {NoTime}, data : Data]
Edge == [id : EdgeIDs \cup {NoID}, label : Labels, source : IDs, target : IDs,
         from : Times, to : Times \cup {NoTime}]

Init == /\ labelKinds = [l \in Labels |-> "none"]
        /\ nodes = << >>
        /\ edges = << >>

-----------------------------------------------------------------------------
(* Helpers of the drivers. *)

NodesWith(ns, id) == {i \in DOMAIN ns : ns[i].id = id}
EdgesWith(es, id) == {i \in DOMAIN es : es[i].id = id}

\* useLabel: a label keeps the kind it was first written as, also when the
\* write that used it is then refused.
useLabel(kinds, label, kind) == IF kinds[label] = "none" THEN [kinds EXCEPT ![label] = kind] ELSE kinds
Usable(kinds, label, kind) == kinds[label] \in {"none", kind}

\* resolveNode and the checks of addEdge: both endpoints exist, and an ID,
\* when there is one, is not in use.
Addable(ns, es, e) == /\ NodesWith(ns, e.source) # {}
                      /\ NodesWith(ns, e.target) # {}
                      /\ e.id # NoID => EdgesWith(es, e.id) = {}

\* An update keeps the stored start of validity, and the stored end unless
\* the caller sets one.
Refreshed(old, new) == [new EXCEPT !.from = old.from, !.to = IF new.to = NoTime THEN old.to ELSE new.to]

-----------------------------------------------------------------------------
(* The calls that write. *)

\* A call that was refused or failed after its label was recorded.
UseLabel(label, kind) == /\ labelKinds' = useLabel(labelKinds, label, kind)
                         /\ UNCHANGED <<nodes, edges>>

CreateNode(n) == /\ Usable(labelKinds, n.label, "node")
                 /\ NodesWith(nodes, n.id) = {}
                 /\ labelKinds' = useLabel(labelKinds, n.label, "node")
                 /\ nodes' = Append(nodes, n)
                 /\ UNCHANGED edges

UpsertNode(n) == /\ Usable(labelKinds, n.label, "node")
                 /\ \A i \in NodesWith(nodes, n.id) : nodes[i].label = n.label
                 /\ labelKinds' = useLabel(labelKinds, n.label, "node")
                 /\ nodes' = IF NodesWith(nodes, n.id) = {}
                             THEN Append(nodes, n)
                             ELSE [i \in DOMAIN nodes |->
                                     IF nodes[i].id = n.id THEN Refreshed(nodes[i], n) ELSE nodes[i]]
                 /\ UNCHANGED edges

\* One batch: every edge passes the checks, each as if the earlier ones were
\* already there, and all are added.
BulkCreateEdges(batch) ==
  /\ batch # << >>
  /\ \A i \in DOMAIN batch : /\ Usable(labelKinds, batch[i].label, "edge")
                             /\ Addable(nodes, edges \o SubSeq(batch, 1, i - 1), batch[i])
  /\ labelKinds' = [l \in Labels |-> IF \E i \in DOMAIN batch : batch[i].label = l
                                     THEN useLabel(labelKinds, l, "edge")[l] ELSE labelKinds[l]]
  /\ edges' = edges \o batch
  /\ UNCHANGED nodes

CreateEdge(e) == BulkCreateEdges(<<e>>)

SupersedeNode(id, t) == /\ nodes' = [i \in DOMAIN nodes |->
                                       IF nodes[i].id = id THEN [nodes[i] EXCEPT !.to = t] ELSE nodes[i]]
                        /\ UNCHANGED <<labelKinds, edges>>
SupersedeEdge(id, t) == /\ edges' = [i \in DOMAIN edges |->
                                       IF edges[i].id = id THEN [edges[i] EXCEPT !.to = t] ELSE edges[i]]
                        /\ UNCHANGED <<labelKinds, nodes>>

\* The batch a step appends, if it appends one.
Appended == SubSeq(edges', Len(edges) + 1, Len(edges'))

Next == \/ \E l \in Labels, k \in {"node", "edge"} : UseLabel(l, k)
        \/ \E n \in Node : CreateNode(n) \/ UpsertNode(n)
        \/ Len(edges') > Len(edges) /\ BulkCreateEdges(Appended)
        \/ \E id \in IDs, t \in Times : SupersedeNode(id, t)
        \/ \E id \in EdgeIDs, t \in Times : SupersedeEdge(id, t)

Spec == Init /\ [][Next]_contractVars
=============================================================================
