---------------------------- MODULE CatalogGraph ----------------------------
(* From a submitted document to the graph.  The gateway stores the document *)
(* and asks the catalog service to parse it (internal/gateway/document.go,  *)
(* internal/catalog); the catalog service commits the catalog row, then the *)
(* control rows, then publishes an event; the graph role (internal/graph)   *)
(* projects the rows into nodes and edges, and materialises the results of  *)
(* analysis stages on the same graph.  The events are core NATS messages:   *)
(* they reach the daemons that listen when they are published, once.        *)
EXTENDS NatsBus, FiniteSets

CONSTANTS
  Tenant,         \* the tenant: a subject token
  Contents,       \* document contents: also the ID of the catalog parsed from each
  Items,          \* content -> its controls in control_id order, or {} if refused
  Refused,        \* contents ParseCatalog refuses
  Imports,        \* document submissions; each is also its document's key
  Jobs,           \* analysis jobs
  Reads,          \* job -> the contents whose controls it analyses
  Matches,        \* job -> the pairs its relationship stage found
  Requires,       \* job -> the pairs its requires stage found
  Artifacts,      \* job -> the artifacts found: control and artifact type
  Types,          \* artifact types
  Daemons,        \* daemons that run the graph role
  Budgets,        \* the bounds a behaviour starts with
  NoDocument      \* no object path

VARIABLES
  documents,      \* object storage: the documents kept
  catalogs,       \* catalogs rows: content -> object_path
  controls,       \* contents whose controls rows are stored
  results,        \* analysis_results rows: job and analyzer
  labelKinds, nodes, edges,   \* the tenant's graph
  imports,        \* each submission's place and content
  daemons,        \* "down", "up" or "draining"
  queue,          \* messages a daemon's subscription holds
  work,           \* what a daemon's subscription is handling
  lost,           \* history: contents whose last event was lost or failed
  handled,        \* history: stage events handled without a failure, with the
                  \* nodes there were
  left            \* what is left of the bounds

stores == <<documents, catalogs, controls, results>>
graph == <<labelKinds, nodes, edges>>
bus == <<daemons, queue, work>>
history == <<lost, handled>>
vars == <<stores, graph, imports, bus, history, left>>

ControlID(c, item) == <<c, item>>
ArtifactID(control, i) == <<"art", control, i>>
TypeID(t) == <<"type", t>>
Controls == UNION {{ControlID(c, Items[c][i].id) : i \in DOMAIN Items[c]} : c \in Contents \ Refused}

\* The graph role calls a GraphDB, whose writes are the contract's steps.
IDs == Controls \cup {ArtifactID(control, i) : control \in Controls, i \in 1..2} \cup {TypeID(t) : t \in Types}
Labels == {"Control", "Artifact", "ArtifactType", "PARENT_OF", "SEMANTIC_MATCH", "REQUIRES", "DEMANDS", "IS_TYPE"}
Now == 1
Later == 2
NoTime == 0
NoID == << >>
EdgeIDs == Seq(IDs)
G == INSTANCE GraphContract WITH Times <- {Now, Later}, Data <- {"row"}

Subscriptions == {"catalog", "stage"}
\* ok: no GraphDB call of the event failed.
Idle == [event |-> << >>, calls |-> << >>, ok |-> TRUE, present |-> {}]
Gone == [at |-> "gone", content |-> NoDocument]
Spend(what) == left[what] > 0 /\ left' = [left EXCEPT ![what] = @ - 1]

Init == /\ documents = {} /\ controls = {} /\ results = {}
        /\ catalogs = [c \in Contents |-> NoDocument]
        /\ G!Init
        /\ imports = [i \in Imports |-> [at |-> "new", content |-> NoDocument]]
        /\ daemons = [d \in Daemons |-> "down"]
        /\ queue = [d \in Daemons, s \in Subscriptions |-> << >>]
        /\ work = [d \in Daemons, s \in Subscriptions |-> Idle]
        /\ lost = {} /\ handled = {}
        /\ left \in Budgets

-----------------------------------------------------------------------------
(* Publishing. *)

catalogSubject == <<"crosscodex", "catalog", "*", "*", "parsed">>
subscriberSubject == <<"crosscodex", "pipeline", "*", "*", "stage", "completed">>
Filter(s) == IF s = "catalog" THEN catalogSubject ELSE subscriberSubject

\* Core NATS with a queue group: one of the members that listen gets the
\* message, and nobody does when none listens.
Listening == {d \in Daemons : daemons[d] = "up"}
Publish(msg) ==
  IF Listening = {} THEN UNCHANGED queue
  ELSE \E d \in Listening :
         queue' = [q \in DOMAIN queue |-> IF q[1] = d /\ SubjectMatches(Filter(q[2]), msg.subject)
                                          THEN Append(queue[q], msg) ELSE queue[q]]

-----------------------------------------------------------------------------
(* A document submission: processDocument of the gateway and ParseCatalog.  *)

At(i, place) == imports[i].at = place
MoveTo(i, place) == imports' = [imports EXCEPT ![i].at = place]

SubmitDocument(i) == /\ At(i, "new")
                     /\ \E c \in Contents : imports' = [imports EXCEPT ![i] = [at |-> "convert", content |-> c]]
                     /\ UNCHANGED <<stores, graph, bus, history, left>>

\* ConvertDocument stores the content under a new key.
ConvertDocument(i) == /\ At(i, "convert")
                      /\ documents' = documents \cup {i}
                      /\ MoveTo(i, "parse")
                      /\ UNCHANGED <<catalogs, controls, results, graph, bus, history, left>>

\* catalogRejected: only an error that ParseCatalog returns before it persists
\* anything lets the gateway delete the document.
catalogRejectedAny(code) == TRUE
catalogRejected(code) == code \in {"InvalidArgument", "FailedPrecondition", "Unimplemented"}
ReplyError(i, code) == MoveTo(i, IF catalogRejected(code) THEN "discard" ELSE "gone")

ParseDocument(i) == /\ At(i, "parse")
                    /\ IF imports[i].content \in Refused THEN ReplyError(i, "InvalidArgument")
                       ELSE MoveTo(i, "catalog")
                    /\ UNCHANGED <<stores, graph, bus, history, left>>

DiscardDocument(i) == /\ At(i, "discard")
                      /\ documents' = documents \ {i}
                      /\ MoveTo(i, "gone")
                      /\ UNCHANGED <<catalogs, controls, results, graph, bus, history, left>>

\* The same content has the same catalog ID: a re-import moves object_path to
\* the new document.
UpsertCatalog(i) == /\ At(i, "catalog")
                    /\ catalogs' = [catalogs EXCEPT ![imports[i].content] = i]
                    /\ MoveTo(i, "controls")
                    /\ UNCHANGED <<documents, controls, results, graph, bus, history, left>>

UpsertControls(i) == /\ At(i, "controls")
                     /\ catalogs[imports[i].content] # NoDocument
                     /\ controls' = controls \cup {imports[i].content}
                     /\ MoveTo(i, "publish")
                     /\ UNCHANGED <<documents, catalogs, results, graph, bus, history, left>>

\* publishParsed; a catalog without controls is never announced.  What
\* follows, embeddings and an audit event, fails only into the log.
publishParsed(i) ==
  LET c == imports[i].content
  IN /\ At(i, "publish")
     /\ IF Items[c] = << >> THEN UNCHANGED <<queue, lost>>
        ELSE /\ Publish(PublishWithHeaders(CatalogParsedSubject(Tenant, c), Tenant, c, NoHeaders))
             /\ lost' = IF Listening = {} THEN lost \cup {c} ELSE lost \ {c}
     /\ MoveTo(i, "done")
     /\ UNCHANGED <<stores, graph, daemons, work, handled, left>>

\* A step fails, or the process ends in it.  A failed write may have been
\* committed all the same; a failed publish is Unavailable, anything else
\* Internal.
FailImport(i) ==
  /\ Spend("faults")
  /\ imports[i].at \in {"convert", "parse", "discard", "catalog", "controls", "publish"}
  /\ \/ At(i, "discard") /\ MoveTo(i, "gone")
     \/ At(i, "convert") /\ MoveTo(i, "gone")
     \/ imports[i].at \in {"parse", "catalog", "controls"} /\ ReplyError(i, "Internal")
     \/ At(i, "publish") /\ ReplyError(i, "Unavailable")
  /\ documents' \in {documents, CASE At(i, "convert") -> documents \cup {i}
                                   [] At(i, "discard") -> documents \ {i}
                                   [] OTHER -> documents}
  /\ catalogs' \in {catalogs, IF At(i, "catalog") THEN [catalogs EXCEPT ![imports[i].content] = i] ELSE catalogs}
  /\ controls' \in {controls, IF At(i, "controls") THEN controls \cup {imports[i].content} ELSE controls}
  /\ UNCHANGED <<results, graph, bus, history>>

-----------------------------------------------------------------------------
(* Analysis stages, as the pipeline's reporter ends them. *)

Analyzers == {"relationship", "requires", "artifacts", "classify", "embedding", "synthesis"}
StageEvent(j, a) == PublishWithHeaders(PipelineStageSubject(Tenant, j, "completed"), Tenant, <<a, j>>, NoHeaders)

\* ReportStageCompleted: the result row is committed, then the event published.
ReportStageCompleted(j, a) ==
  /\ Reads[j] \subseteq controls
  /\ a \in left.analyzers
  /\ [job |-> j, analyzer |-> a] \notin results
  /\ Spend("stages")
  /\ results' = results \cup {[job |-> j, analyzer |-> a]}
  /\ Publish(StageEvent(j, a))
  /\ UNCHANGED <<documents, catalogs, controls, graph, imports, daemons, work, history>>

-----------------------------------------------------------------------------
(* What the graph role makes of an event: the GraphDB calls, in order.      *)

NodeCall(name, id, label) ==
  [name |-> name, node |-> [id |-> id, label |-> label, from |-> Now, to |-> NoTime, data |-> "row"]]
EdgeCall(id, label, source, target) ==
  [name |-> "CreateEdge", edge |-> [id |-> id, label |-> label, source |-> source, target |-> target,
                                    from |-> Now, to |-> NoTime]]

\* DerivedID: distinct part lists give distinct IDs.
matchID(j, s, t) == <<"semantic-match", j, s, t>>
EdgeID(j, s, t) == <<"requires", j, s, t>>

\* parseCatalogSubject and extractTenantFromSubject read the subject alone.
parseCatalogSubject(msg) == msg.subject[4]
extractTenantFromSubject(msg) == msg.subject[3]

\* projectCatalog: every node before any edge, as control_id order may list a
\* child ahead of its parent.
Flatten(ss) == LET flat[n \in 0..Len(ss)] == IF n = 0 THEN << >> ELSE flat[n - 1] \o ss[n] IN flat[Len(ss)]
Upsert(c, item) == NodeCall("UpsertNode", ControlID(c, item.id), "Control")
ParentOf(c, item) == IF item.parent = "" THEN << >>
                     ELSE <<EdgeCall(<<"parent-of", ControlID(c, item.parent), ControlID(c, item.id)>>, "PARENT_OF",
                                     ControlID(c, item.parent), ControlID(c, item.id))>>
projectCatalogInOrder(c) == Flatten([i \in DOMAIN Items[c] |-> <<Upsert(c, Items[c][i])>> \o ParentOf(c, Items[c][i])])
projectCatalog(c) == [i \in DOMAIN Items[c] |-> Upsert(c, Items[c][i])]
                     \o Flatten([i \in DOMAIN Items[c] |-> ParentOf(c, Items[c][i])])

materializeRelationship(j) == [i \in DOMAIN Matches[j] |->
  EdgeCall(matchID(j, Matches[j][i][1], Matches[j][i][2]), "SEMANTIC_MATCH", Matches[j][i][1], Matches[j][i][2])]
materializeRequires(j) == [i \in DOMAIN Requires[j] |->
  EdgeCall(EdgeID(j, Requires[j][i][1], Requires[j][i][2]), "REQUIRES", Requires[j][i][1], Requires[j][i][2])]

\* One artifact: its node, its type's node, and the two edges.  The IDs name
\* no job, so a later job finds them in use and leaves them.
materializeArtifact(control, i, type) ==
  LET art == ArtifactID(control, i)
  IN <<NodeCall("CreateNode", art, "Artifact"), NodeCall("CreateNode", TypeID(type), "ArtifactType"),
       EdgeCall(<<"demands", control, art>>, "DEMANDS", control, art),
       EdgeCall(<<"is-type", art, type>>, "IS_TYPE", art, TypeID(type))>>
materializeArtifacts(j) == Flatten([k \in DOMAIN Artifacts[j] |->
  Flatten([i \in DOMAIN Artifacts[j][k].types |->
             materializeArtifact(Artifacts[j][k].control, i, Artifacts[j][k].types[i])])])

\* handlerFor: other stages have nothing for the graph, and classifications
\* and embeddings are kept elsewhere.
materialize(a, j) == CASE a = "relationship" -> materializeRelationship(j)
                       [] a = "requires" -> materializeRequires(j)
                       [] a = "artifacts" -> materializeArtifacts(j)
                       [] OTHER -> << >>

-----------------------------------------------------------------------------
(* A daemon's two subscriptions.  Each handles one message at a time. *)

Present == {nodes[i].id : i \in DOMAIN nodes}
Working(d, s) == work[d, s] # Idle

\* The rows the two handlers read: a catalog's controls, a stage's result.
ListCatalogControls(c) == IF c \in controls THEN Items[c] ELSE << >>
Resolve(j, a) == [job |-> j, analyzer |-> a] \in results

\* handleCatalogEvent: no rows is an error, logged; nothing is redelivered.
handleCatalogEvent(d, msg) ==
  LET c == parseCatalogSubject(msg)
  IN IF wrapHandler(msg) /\ extractTenantFromSubject(msg) = Tenant /\ ListCatalogControls(c) # << >>
     THEN work' = [work EXCEPT ![d, "catalog"] = [event |-> msg, calls |-> projectCatalog(c), ok |-> TRUE, present |-> {}]]
          /\ UNCHANGED lost
     ELSE lost' = lost \cup {c} /\ UNCHANGED work

\* handleEvent: the result is read from its row, not from the message.
handleEvent(d, msg) ==
  LET a == msg.data[1] j == msg.data[2]
  IN /\ IF /\ wrapHandler(msg) /\ extractTenantFromSubject(msg) = Tenant
           /\ Resolve(j, a) /\ materialize(a, j) # << >>
        THEN work' = [work EXCEPT ![d, "stage"] = [event |-> msg, calls |-> materialize(a, j), ok |-> TRUE,
                                                   present |-> Present]]
        ELSE UNCHANGED work
     /\ UNCHANGED lost

Receive(d, s) ==
  /\ daemons[d] # "down" /\ ~Working(d, s) /\ queue[d, s] # << >>
  /\ queue' = [queue EXCEPT ![d, s] = Tail(@)]
  /\ IF s = "catalog" THEN handleCatalogEvent(d, Head(queue[d, s])) ELSE handleEvent(d, Head(queue[d, s]))
  /\ UNCHANGED <<stores, graph, imports, daemons, handled, left>>

\* One GraphDB call.  A node or an edge that exists is success.
isNodeExists(call) == IF call.name = "CreateEdge" THEN G!EdgesWith(edges, call.edge.id) # {}
                      ELSE call.name = "CreateNode" /\ G!NodesWith(nodes, call.node.id) # {}
MissingEndpoint(call) == call.name = "CreateEdge" /\ ~{call.edge.source, call.edge.target} \subseteq Present

\* skipMissingEndpoint: the edge stays absent and the rest of the event goes on.
skipMissingEndpointNever(call) == FALSE
skipMissingEndpoint(call) == call.edge.label # "IS_TYPE"

Apply(call) == IF isNodeExists(call) \/ MissingEndpoint(call) THEN UNCHANGED graph
               ELSE CASE call.name = "CreateNode" -> G!CreateNode(call.node)
                      [] call.name = "UpsertNode" -> G!UpsertNode(call.node)
                      [] OTHER -> G!CreateEdge(call.edge)

\* The catalog handler collects errors and goes on; the stage handlers stop.
AfterError(w, s) == [w EXCEPT !.calls = IF s = "catalog" THEN Tail(@) ELSE << >>]
Step(d, s) ==
  LET w == work[d, s] call == Head(w.calls)
  IN /\ Working(d, s) /\ w.calls # << >>
     /\ Apply(call)
     /\ work' = [work EXCEPT ![d, s] = IF MissingEndpoint(call) /\ ~isNodeExists(call) /\ ~skipMissingEndpoint(call)
                                       THEN AfterError(w, s) ELSE [w EXCEPT !.calls = Tail(@)]]
     /\ UNCHANGED <<stores, imports, daemons, queue, history, left>>

\* A GraphDB call fails, and may have been committed all the same.
FailStep(d, s) ==
  /\ Spend("faults")
  /\ Working(d, s) /\ work[d, s].calls # << >>
  /\ Apply(Head(work[d, s].calls)) \/ UNCHANGED graph
  /\ work' = [work EXCEPT ![d, s] = [AfterError(work[d, s], s) EXCEPT !.ok = FALSE]]
  /\ UNCHANGED <<stores, imports, daemons, queue, history>>

Finish(d, s) ==
  LET w == work[d, s]
  IN /\ Working(d, s) /\ w.calls = << >>
     /\ work' = [work EXCEPT ![d, s] = Idle]
     /\ lost' = IF s = "catalog" /\ ~w.ok THEN lost \cup {parseCatalogSubject(w.event)} ELSE lost
     /\ handled' = IF s = "stage" /\ w.ok THEN handled \cup {[data |-> w.event.data, present |-> w.present]} ELSE handled
     /\ UNCHANGED <<stores, graph, imports, daemons, queue, left>>

-----------------------------------------------------------------------------
(* The daemons. *)

\* Start subscribes to both subjects or, when one fails, to neither.
Start(d) == /\ daemons[d] = "down" /\ Spend("starts")
            /\ daemons' = [daemons EXCEPT ![d] = "up"]
            /\ UNCHANGED <<stores, graph, imports, queue, work, history>>

\* Stop drains: no new message, the ones held are handled while the process lives.
Stop(d) == /\ daemons[d] = "up" /\ Spend("stops")
           /\ daemons' = [daemons EXCEPT ![d] = "draining"]
           /\ UNCHANGED <<stores, graph, imports, queue, work, history>>

\* The contents of the catalog events daemon d holds.
Holds(d) == {parseCatalogSubject(queue[d, "catalog"][k]) : k \in DOMAIN queue[d, "catalog"]}
            \cup {parseCatalogSubject(work[d, "catalog"].event) : k \in {k \in {1} : Working(d, "catalog")}}

\* The process ends, by itself after a drain or by a crash: what it holds is lost.
Exit(d) == /\ \/ daemons[d] = "draining" /\ UNCHANGED left
              \/ daemons[d] = "up" /\ Spend("crashes")
           /\ daemons' = [daemons EXCEPT ![d] = "down"]
           /\ queue' = [q \in DOMAIN queue |-> IF q[1] = d THEN << >> ELSE queue[q]]
           /\ work' = [q \in DOMAIN work |-> IF q[1] = d THEN Idle ELSE work[q]]
           /\ lost' = lost \cup Holds(d)
           /\ UNCHANGED <<stores, graph, imports, handled>>

Next == \/ \E i \in Imports : \/ SubmitDocument(i) \/ ConvertDocument(i) \/ ParseDocument(i) \/ DiscardDocument(i)
                              \/ UpsertCatalog(i) \/ UpsertControls(i) \/ publishParsed(i) \/ FailImport(i)
        \/ \E j \in Jobs, a \in Analyzers : ReportStageCompleted(j, a)
        \/ \E d \in Daemons, s \in Subscriptions : Receive(d, s) \/ Step(d, s) \/ FailStep(d, s) \/ Finish(d, s)
        \/ \E d \in Daemons : Start(d) \/ Stop(d) \/ Exit(d)

\* The NATS clients run the callbacks of the messages they hold: while there
\* is one, some callback gets on.
Handle == \E d \in Daemons, s \in Subscriptions : Receive(d, s) \/ Step(d, s) \/ Finish(d, s)
Fairness == WF_vars(Handle)

Spec == Init /\ [][Next]_vars /\ Fairness

-----------------------------------------------------------------------------
(* Properties. *)

\* However imports of equal and different documents interleave and fail, the
\* document that a catalog row's object_path names is kept: the gateway
\* deletes only documents no row can name.
ImportedDocumentIsKept == \A c \in Contents : catalogs[c] # NoDocument => catalogs[c] \in documents

\* Every control of a catalog is a node, under its parent.
Projected(c) == \A i \in DOMAIN Items[c] :
  LET item == Items[c][i]
  IN /\ ControlID(c, item.id) \in Present
     /\ item.parent # "" => \E k \in DOMAIN edges : /\ edges[k].label = "PARENT_OF"
                                                    /\ edges[k].source = ControlID(c, item.parent)
                                                    /\ edges[k].target = ControlID(c, item.id)

\* An import that was reported as done reaches the graph in full, unless its
\* event was lost (nobody listening, a daemon that ended, a failed GraphDB
\* call); importing the same document again makes up for the loss.
ReportedImportIsProjected ==
  \A c \in Contents \ Refused :
    (c \notin lost /\ \E i \in Imports : At(i, "done") /\ imports[i].content = c) ~> (Projected(c) \/ c \in lost)

\* A stage's results whose controls were in the graph when its event was
\* handled are all there when it has been, whatever other jobs, imports and
\* daemons write meanwhile, and whichever of its results had to be skipped.
HandledResultsAreInGraph ==
  \A h \in handled :
    LET a == h.data[1] j == h.data[2]
        Linked(label, pair) == {pair[1], pair[2]} \subseteq h.present =>
          Cardinality({k \in DOMAIN edges : edges[k].label = label /\ edges[k].source = pair[1] /\ edges[k].target = pair[2]})
          >= Cardinality({o \in handled : o.data[1] = a
                                          /\ {pair[1], pair[2]} \subseteq o.present
                                          /\ \E k \in DOMAIN (IF a = "requires" THEN Requires ELSE Matches)[o.data[2]] :
                                               (IF a = "requires" THEN Requires ELSE Matches)[o.data[2]][k] = pair})
    IN /\ a = "relationship" => \A k \in DOMAIN Matches[j] : Linked("SEMANTIC_MATCH", Matches[j][k])
       /\ a = "requires" => \A k \in DOMAIN Requires[j] : Linked("REQUIRES", Requires[j][k])
       /\ a = "artifacts" => \A k \in DOMAIN Artifacts[j] : \A i \in DOMAIN Artifacts[j][k].types :
            Artifacts[j][k].control \in h.present =>
              \E m, n \in DOMAIN edges : /\ edges[m].label = "DEMANDS" /\ edges[m].source = Artifacts[j][k].control
                                         /\ edges[n].label = "IS_TYPE" /\ edges[n].source = edges[m].target
                                         /\ edges[n].target = TypeID(Artifacts[j][k].types[i])
=============================================================================
