------------------------------ MODULE AgeGraph ------------------------------
(* pkg/graphdb/agedriver: the GraphDB interface over Apache AGE.  A write   *)
(* first makes sure its labels exist, in transactions of their own, and     *)
(* then checks and writes in one READ COMMITTED transaction.  AGE has no    *)
(* unique constraints, so node writes take an advisory lock on the node ID  *)
(* and edge writes take none.  Several calls run at once, from one client   *)
(* or from the clients of several daemons.                                  *)
EXTENDS Naturals, Sequences, FiniteSets

CONSTANTS IDs, EdgeIDs, NoID, Labels, Times, NoTime, Data,
          Procs,      \* callers: each makes one call at a time
          Client,     \* the driver client each caller uses
          Calls,      \* the calls that are made
          MaxCalls,   \* bound: calls in one behaviour
          MaxFaults,  \* bound: failed statements and crashed clients
          MaxDeletes  \* bound: deletions of the tenant

ASSUME Bounds == /\ NoID \notin IDs \cup EdgeIDs
                 /\ NoTime \notin Times
                 /\ Times \subseteq Nat
                 /\ {MaxCalls, MaxFaults, MaxDeletes} \subseteq Nat

VARIABLES labelKinds, nodes, edges,  \* the committed graph
          tenant,                    \* "active" or "deleted"
          labels,                    \* per client: the labels it knows are indexed
          locks,                     \* advisory locks: pairs of node ID and caller
          pc, call, todo,            \* each caller's place, call and labels to ensure
          calls, faults, deletes     \* what is left of the bounds

graph == <<labelKinds, nodes, edges>>
control == <<labels, locks, pc, call, todo>>
vars == <<graph, tenant, control, calls, faults, deletes>>

\* The same graph read as the contract reads it, and the graph the contract
\* sees: an edge ID that concurrent writers stored twice counts once.
G == INSTANCE GraphContract
FirstOfEachID(es) == SelectSeq([i \in DOMAIN es |-> [edge |-> es[i],
                                  first |-> es[i].id = NoID \/ \A j \in 1..(i - 1) : es[j].id # es[i].id]],
                               LAMBDA r : r.first)
Distinct(es) == [i \in DOMAIN FirstOfEachID(es) |-> FirstOfEachID(es)[i].edge]
Contract == INSTANCE GraphContract WITH edges <- Distinct(edges)

IsNodeCall(c) == c.name \in {"CreateNode", "UpsertNode"}
IsEdgeCall(c) == c.name \in {"CreateEdge", "CreateRequiresEdge", "BulkCreateEdges"}
KindOf(c) == IF IsNodeCall(c) THEN "node" ELSE "edge"

\* The distinct labels of a call, in the order of their first use.
LabelsOf(c) ==
  CASE IsNodeCall(c) -> <<c.node.label>>
    [] IsEdgeCall(c) -> LET first == {i \in DOMAIN c.batch : \A j \in 1..(i - 1) : c.batch[j].label # c.batch[i].label}
                        IN  [k \in 1..Cardinality(first) |->
                               c.batch[CHOOSE i \in first : Cardinality({j \in first : j <= i}) = k].label]
    [] OTHER -> << >>

NoCall == [name |-> "none"]

Init == /\ labelKinds = [l \in Labels |-> "none"] /\ nodes = << >> /\ edges = << >>
        /\ tenant = "active"
        /\ labels = [c \in {Client[p] : p \in Procs} |-> {}]
        /\ locks = {}
        /\ pc = [p \in Procs |-> "idle"]
        /\ call = [p \in Procs |-> NoCall]
        /\ todo = [p \in Procs |-> << >>]
        /\ calls = MaxCalls /\ faults = MaxFaults /\ deletes = MaxDeletes

-----------------------------------------------------------------------------
(* The course of one call. *)

\* beginTx: enter_tenant refuses a deleted tenant when the transaction begins,
\* and takes no lock, so a transaction that has begun may finish.
beginTx == tenant = "active"

\* The deferred Rollback, or PostgreSQL at commit, releases the caller's locks.
Done(p) == /\ pc' = [pc EXCEPT ![p] = "idle"]
           /\ call' = [call EXCEPT ![p] = NoCall]
           /\ todo' = [todo EXCEPT ![p] = << >>]
           /\ locks' = {l \in locks : l[2] # p}

GoTo(p, place) == pc' = [pc EXCEPT ![p] = place] /\ UNCHANGED <<call, todo>>

Call(p) == /\ pc[p] = "idle" /\ calls > 0
           /\ \E c \in Calls : /\ call' = [call EXCEPT ![p] = c]
                               /\ todo' = [todo EXCEPT ![p] = LabelsOf(c)]
           /\ pc' = [pc EXCEPT ![p] = "labels"]
           /\ calls' = calls - 1
           /\ UNCHANGED <<graph, tenant, labels, locks, faults, deletes>>

\* labelKey and the cache look-up of ensureLabel.
Known(p, l) == <<l, KindOf(call[p])>> \in labels[Client[p]]

\* indexLabel: one transaction under an advisory lock on the label name, so
\* that of two first writers of a name one waits and sees the other's kind.
IndexLabel(p, l) ==
  IF beginTx /\ G!Usable(labelKinds, l, KindOf(call[p]))
  THEN /\ labelKinds' = G!useLabel(labelKinds, l, KindOf(call[p]))
       /\ labels' = [labels EXCEPT ![Client[p]] = @ \cup {<<l, KindOf(call[p])>>}]
       /\ todo' = [todo EXCEPT ![p] = Tail(@)]
       /\ UNCHANGED <<pc, call, locks>>
  ELSE Done(p) /\ UNCHANGED <<labelKinds, labels>>

ensureLabel(p) ==
  /\ pc[p] = "labels" /\ todo[p] # << >>
  /\ IF Known(p, Head(todo[p]))
     THEN /\ todo' = [todo EXCEPT ![p] = Tail(@)]
          /\ UNCHANGED <<labelKinds, labels, pc, call, locks>>
     ELSE IndexLabel(p, Head(todo[p]))
  /\ UNCHANGED <<nodes, edges, tenant, calls, faults, deletes>>

BeginTx(p) == /\ pc[p] = "labels" /\ todo[p] = << >>
              /\ IF beginTx THEN GoTo(p, "check") /\ UNCHANGED locks ELSE Done(p)
              /\ UNCHANGED <<graph, tenant, labels, calls, faults, deletes>>

\* advisoryKey hashes the graph and the ID only: writers of one ID under
\* different labels wait for each other too.
lockNodePerLabel(p, id) == \A l \in locks : l[1] = id => call[l[2]].node.label # call[p].node.label
lockNode(p, id) == \A l \in locks : l[1] # id

\* storedNodeLabels after the wait, in a fresh snapshot.
storedNodeLabels(id) == {nodes[i].label : i \in G!NodesWith(nodes, id)}

CheckNode(p) ==
  LET c == call[p] stored == storedNodeLabels(c.node.id)
  IN /\ pc[p] = "check" /\ IsNodeCall(c)
     /\ lockNode(p, c.node.id)
     /\ IF stored \ {c.node.label} # {} \/ (c.name = "CreateNode" /\ stored # {})
        THEN Done(p)                    \* NodeIDConflictError, ErrNodeExists
        ELSE locks' = locks \cup {<<c.node.id, p>>} /\ GoTo(p, "write")
     /\ UNCHANGED <<graph, tenant, labels, calls, faults, deletes>>

\* nodeUpsertProperties: SET n = {...} reads valid_from, and valid_to when the
\* caller sets none, from the stored node.
nodeUpsertProperties(old, n) == G!Refreshed(old, n)

\* CREATE, or MATCH ... SET and CREATE only when the SET matched nothing.
WriteNode(p) ==
  LET c == call[p] matched == {i \in G!NodesWith(nodes, c.node.id) : nodes[i].label = c.node.label}
  IN /\ pc[p] = "write" /\ IsNodeCall(c)
     /\ nodes' = IF c.name = "CreateNode" \/ matched = {}
                 THEN Append(nodes, c.node)
                 ELSE [i \in DOMAIN nodes |->
                         IF i \in matched THEN nodeUpsertProperties(nodes[i], c.node) ELSE nodes[i]]
     /\ Done(p)
     /\ UNCHANGED <<labelKinds, edges, tenant, labels, calls, faults, deletes>>

\* endpointErr: an endpoint must name exactly one node.
endpointErr(id) == Cardinality(G!NodesWith(nodes, id)) # 1

\* checkEdgeWrite, and checkBulkEdgeWrites for a batch: the first fault found
\* refuses the call; a repeated ID within the batch counts as in use.
checkEdgeWrite(e) == /\ ~endpointErr(e.source) /\ ~endpointErr(e.target)
                     /\ e.id # NoID => G!EdgesWith(edges, e.id) = {}
checkBulkEdgeWrites(batch) ==
  /\ \A i \in DOMAIN batch : checkEdgeWrite(batch[i])
  /\ \A i, j \in DOMAIN batch : i # j /\ batch[i].id # NoID => batch[i].id # batch[j].id

CheckEdges(p) ==
  /\ pc[p] = "check" /\ IsEdgeCall(call[p])
  /\ IF checkBulkEdgeWrites(call[p].batch) THEN GoTo(p, "write") /\ UNCHANGED locks ELSE Done(p)
  /\ UNCHANGED <<graph, tenant, labels, calls, faults, deletes>>

\* createLabelEdges counts what the CREATE made: an endpoint that is no longer
\* one node rolls the batch back.
WriteEdges(p) ==
  /\ pc[p] = "write" /\ IsEdgeCall(call[p])
  /\ edges' = IF \A i \in DOMAIN call[p].batch : ~endpointErr(call[p].batch[i].source)
                                                /\ ~endpointErr(call[p].batch[i].target)
              THEN edges \o call[p].batch ELSE edges
  /\ Done(p)
  /\ UNCHANGED <<labelKinds, nodes, tenant, labels, calls, faults, deletes>>

\* SupersedeFact: one MATCH ... SET, on every node or edge with the ID.
SupersedeFact(p) ==
  /\ pc[p] = "check"
  /\ \/ /\ call[p].name = "SupersedeNode"
        /\ nodes' = [i \in DOMAIN nodes |-> IF nodes[i].id = call[p].id
                                            THEN [nodes[i] EXCEPT !.to = call[p].at] ELSE nodes[i]]
        /\ UNCHANGED edges
     \/ /\ call[p].name = "SupersedeEdge"
        /\ edges' = [i \in DOMAIN edges |-> IF edges[i].id = call[p].id
                                            THEN [edges[i] EXCEPT !.to = call[p].at] ELSE edges[i]]
        /\ UNCHANGED nodes
  /\ Done(p)
  /\ UNCHANGED <<labelKinds, tenant, labels, calls, faults, deletes>>

\* A statement or the commit fails: the transaction leaves nothing.  A label
\* committed before it stays.
Fail(p) == /\ pc[p] # "idle" /\ faults > 0
           /\ faults' = faults - 1
           /\ Done(p)
           /\ UNCHANGED <<graph, tenant, labels, calls, deletes>>

\* The process of a client ends with its calls in the middle; the client that
\* replaces it knows no label.
Crash(c) == /\ faults > 0 /\ \E p \in Procs : Client[p] = c /\ pc[p] # "idle"
            /\ faults' = faults - 1
            /\ labels' = [labels EXCEPT ![c] = {}]
            /\ pc' = [p \in Procs |-> IF Client[p] = c THEN "idle" ELSE pc[p]]
            /\ call' = [p \in Procs |-> IF Client[p] = c THEN NoCall ELSE call[p]]
            /\ todo' = [p \in Procs |-> IF Client[p] = c THEN << >> ELSE todo[p]]
            /\ locks' = {l \in locks : Client[l[2]] # c}
            /\ UNCHANGED <<graph, tenant, calls, deletes>>

\* An operator deletes the tenant: its graph stays, and is not entered again.
DeleteTenant == /\ deletes > 0 /\ tenant = "active"
                /\ deletes' = deletes - 1
                /\ tenant' = "deleted"
                /\ UNCHANGED <<graph, control, calls, faults>>

Next == \/ \E p \in Procs : \/ Call(p) \/ ensureLabel(p) \/ BeginTx(p)
                            \/ CheckNode(p) \/ WriteNode(p)
                            \/ CheckEdges(p) \/ WriteEdges(p)
                            \/ SupersedeFact(p) \/ Fail(p)
        \/ \E c \in DOMAIN labels : Crash(c)
        \/ DeleteTenant

Spec == Init /\ [][Next]_vars

-----------------------------------------------------------------------------
(* Properties. *)

\* However the calls of several clients interleave, fail or are cut off by a
\* crash, the committed graph changes only as the one-lock in-memory driver
\* changes it: one node per ID, one kind per label, a batch of edges whole or
\* not at all, a superseded fact left superseded.  The exception the driver's
\* comments accept is an edge ID stored twice by concurrent writers, which the
\* mapping counts once.
ImplementsContract == Contract!Spec
=============================================================================
