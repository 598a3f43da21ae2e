----------------------------- MODULE MCAgeGraph -----------------------------
(* Two daemons write one tenant's graph: two nodes, two labels that may be  *)
(* taken for a node or for an edge, two edge IDs.                           *)
EXTENDS GraphReads, TLC

CONSTANTS n1, n2, e1, e2, La, Lb, d1, d2, p1, p2, c1, c2

MCClient == p1 :> c1 @@ p2 :> c2

N(id, label, from, data) == [id |-> id, label |-> label, from |-> from, to |-> NoTime, data |-> data]
E(id, source, target, label) == [id |-> id, label |-> label, source |-> source, target |-> target,
                                 from |-> 15, to |-> NoTime]

\* Calls that meet: one ID under two labels, one label as two kinds, one edge
\* ID twice, a batch with and without a conflict, an update of what another
\* caller supersedes.
MCCalls == {[name |-> "CreateNode", node |-> N(n1, La, 10, d1)],
            [name |-> "UpsertNode", node |-> N(n1, Lb, 20, d2)],
            [name |-> "UpsertNode", node |-> N(n1, La, 20, d2)],
            [name |-> "UpsertNode", node |-> N(n2, La, 10, d1)],
            [name |-> "CreateEdge", batch |-> <<E(e1, n1, n2, Lb)>>],
            [name |-> "CreateRequiresEdge", batch |-> <<E(e1, n2, n2, La)>>],
            [name |-> "BulkCreateEdges", batch |-> <<E(NoID, n1, n2, Lb), E(e2, n2, n1, Lb), E(e1, n1, n1, Lb)>>],
            [name |-> "SupersedeNode", id |-> n1, at |-> 20],
            [name |-> "SupersedeEdge", id |-> e1, at |-> 20]}
=============================================================================
