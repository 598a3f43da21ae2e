------------------------------ MODULE MCAccess ------------------------------
(* Operators and clients on one or two tenants; what a behaviour does is     *)
(* chosen in the initial state.                                              *)
EXTENDS Access

CONSTANTS t1, t2, reserved, r1, reservedName, padded

MCTenants == {t1, t2, reserved}
MCReviewers == {r1, reservedName, padded}
MCText == [x \in MCTenants \cup MCReviewers \cup {NoTenant} |->
             CASE x \in {reserved, reservedName} -> "reserved"
               [] x = padded -> "padded"
               [] x = NoTenant -> "blank"
               [] OTHER -> "plain"]

(* Certificates and the mappings of a gateway. *)
MCCerts ==
  [alice   |-> [cn |-> "alice", org |-> <<"acme">>, dns |-> <<>>, uri |-> <<>>],
   bob     |-> [cn |-> "bob", org |-> <<"acme", "other">>, dns |-> <<>>, uri |-> <<>>],
   root    |-> [cn |-> "root", org |-> <<"acme">>, dns |-> <<"www", "admin.acme">>, uri |-> <<>>],
   carol   |-> [cn |-> "carol", org |-> <<"other", "acme">>, dns |-> <<>>, uri |-> <<"spiffe:other">>],
   mallory |-> [cn |-> "mallory", org |-> <<>>, dns |-> <<>>, uri |-> <<>>]]
MCGlob == {<<"acme*", "acme">>, <<"admin*", "admin.acme">>, <<"spiffe*", "spiffe:other">>, <<"r*", "root">>}

Match(cn, org, dns, uri) == [cn |-> cn, org |-> org, dns |-> dns, uri |-> uri]
Mappings ==
  << [match |-> Match("r*", Unset, "admin*", Unset), tenant |-> t1, roles |-> {"admin"}],
     [match |-> Match(Unset, "acme*", Unset, Unset), tenant |-> t1, roles |-> {"user"}],
     [match |-> Match(Unset, Unset, Unset, "spiffe*"), tenant |-> t2, roles |-> {"admin"}] >>
Mapped == [single |-> FALSE, default |-> NoTenant, mappings |-> Mappings]
Single == [single |-> TRUE, default |-> t1, mappings |-> <<>>]
CatchAll == [single |-> FALSE, default |-> NoTenant,
             mappings |-> << [match |-> Match(Unset, Unset, Unset, Unset), tenant |-> t1, roles |-> {}] >>]

AllBackends == {"catalog", "pipeline", "feedback", "graph", "admin", "mappings", "ingestion"}
MCServers == {[x509 |-> <<x>>, backends |-> AllBackends] : x \in {Mapped, Single, CatchAll}}
               \cup {[x509 |-> <<Mapped>>, backends |-> {}], [x509 |-> <<>>, backends |-> AllBackends]}

(* Requests. *)
Conns == {"plain", "nocert", "alice", "bob", "root", "carol", "mallory"}
Bare(conn, tenant, method, arg) == [conn |-> conn, tenant |-> tenant, method |-> method, arg |-> arg]

Simple ==
  {Bare(c, t, m, a) :
     c \in {"alice", "root"}, t \in {NoTenant, t2}, a \in {0, 1},
     m \in {"ListCatalogs", "GetCatalog", "SearchControls", "GetControl", "SubmitVote",
            "GetReviewQueue", "QueryGraph", "FindSimilar", "Health", "ScanRetention"}}
    \cup {Bare(c, t1, "ScanRetention", 0) : c \in {"alice", "root"}}

JobRequests(conns, tenants_) ==
  {Bare(c, t, m, a) : c \in conns, t \in tenants_, a \in 0 .. 4, m \in {"GetJob", "CancelJob", "RetryJob"}}
    \cup {Bare(c, t, "ListJobs", 1) : c \in conns, t \in tenants_}
    \cup {Bare(c, t, "StartAnalysis", a) @@ [target |-> b, both |-> both] :
            c \in conns, t \in tenants_, a \in {0, 1}, b \in {0, 1, 2}, both \in BOOLEAN}

Documents ==
  {Bare("alice", NoTenant, "SubmitDocument", a) @@ [size |-> n] : a \in {0, 1, 2}, n \in {0, 1}}
    \cup {Bare("alice", t2, "StreamDocument", 0) @@ [stream |-> s] :
            s \in UNION {[1 .. n -> {"meta", "chunk"}] : n \in 0 .. 3}}

(* Mappings: three controls, two jobs; a row of each kind a filter tells apart. *)
Mapping(job, src, tgt, type, conf, viab) ==
  [job |-> job, src |-> src, tgt |-> tgt, type |-> type, conf |-> conf, viab |-> viab]
MCRows ==
  {Mapping(1, 1, 2, "EQUAL", 90, 80), Mapping(1, 1, 3, "EQUAL", 40, 0), Mapping(1, 2, 1, "SUBSET", 60, 50),
   Mapping(1, 2, 3, "EQUAL", 60, 50), Mapping(1, 3, 1, "NONE", 70, 50), Mapping(2, 1, 2, "EQUAL", 90, 80)}
Stored == InKeyOrder(MCRows)

Walk(conn, method, req) ==
  Bare(conn, NoTenant, method, req.job) @@ [walk |-> [req |-> req, all |-> <<>>, seen |-> {}, end |-> ""], size |-> req.size]
Walks ==
  {Walk("alice", "ListJobMappings", r) :
     r \in {q \in [tenant : {NoTenant}, job : {1, 2, 3}, stage : {"synthesized", "analyzer"}, control : {0, 1},
                   min : {0, 60}, nonViable : BOOLEAN, types : {{}, {"EQUAL"}, {"EQUAL", "NONE"}},
                   size : {1, 2, 3}, token : {NoToken}] : mappingRequestFromFlags(q)}}
    \cup {Walk("carol", "ListJobMappings", [tenant |-> NoTenant, job |-> 1, stage |-> "unspecified", control |-> 0,
             min |-> 0, nonViable |-> FALSE, types |-> {}, size |-> 2, token |-> t]) : t \in {NoToken, <<0>>, <<2, 1, 1>>}}
    \cup {[Walk("alice", "GetControlMappings", [tenant |-> NoTenant, job |-> 0, stage |-> "synthesized", control |-> k,
             min |-> 0, nonViable |-> FALSE, types |-> {}, size |-> n, token |-> NoToken]) EXCEPT !.arg = k] :
            k \in {0, 1}, n \in {0, 2, 4}}

CONSTANTS c1, c2, c3
MCCalls == [c \in Callers |->
  IF c = c1 THEN Simple \cup Documents \cup JobRequests(Conns, {NoTenant, t2}) \cup Walks
  ELSE IF c = c2
  THEN {Bare("alice", NoTenant, "StartAnalysis", 1) @@ [target |-> 2, both |-> FALSE],
        Bare("root", NoTenant, "RetryJob", 2)}
  ELSE {Bare("bob", NoTenant, "ListJobs", 1)}
         \cup {Bare("bob", NoTenant, m, 4) : m \in {"GetJob", "CancelJob"}}
         \cup {Bare("bob", NoTenant, "CancelJob", 2), Bare("alice", NoTenant, "CancelJob", 4)}]

(* What a behaviour does. *)
Verbs == {"add", "delete", "restore", "hide", "unhide"}
Bounds(sessions, exporters, tenants_, ops, verbs, n) ==
  [sessions |-> sessions, exporters |-> exporters, tenants |-> tenants_, ops |-> ops, verbs |-> verbs, events |-> n]
Scenarios ==
  UNION {
    {Bounds({p, q}, {}, {t1}, {"tenant", "trace", "status"}, Verbs, 5),
     Bounds({p, q}, {}, {t1}, {"tenant", "reviewer", "verdict"}, Verbs, 3),
     Bounds({p, q}, {}, {t1, t2, reserved}, {"tenant", "provision"}, Verbs, 1),
     Bounds({p, q}, Sessions \ {p, q}, {t1, t2}, {"tenant"}, {"delete", "restore"}, 3),
     Bounds({p}, Sessions \ {p}, {t1, t2}, {"tenant"}, {"delete"}, 2)} :
    <<p, q>> \in {x \in Sessions \X Sessions : x[1] # x[2]}}

Calling(on) == [c \in Callers |-> [at |-> IF c \in on THEN "idle" ELSE "off"]]
TwoJobs == (1 :> [tenant |-> t1, owner |-> "alice", status |-> "completed"])
             @@ (2 :> [tenant |-> t1, owner |-> "bob", status |-> "running"])
ForeignJob == 3 :> [tenant |-> t2, owner |-> "alice", status |-> "failed"]

OperatorsOnly ==
  /\ allow \in Scenarios
  /\ tenants \in {[t \in Tenants |-> IF t \in A THEN Row("active") ELSE NoRow] :
                    A \in IF "provision" \in allow.ops THEN {{}, {t1}} ELSE {{t1, t2}}}
  /\ server \in MCServers /\ server.x509 = <<Mapped>> /\ server.backends # {}
  /\ call = Calling({})
  /\ jobs = TwoJobs /\ rows = {} /\ matches = <<>> /\ acts = {}

\* One client of any server, with every request.
OneClient ==
  /\ allow = Bounds({}, {}, {}, {}, {}, 0)
  /\ tenants = [t \in Tenants |-> Row("active")]
  /\ GatewayInit /\ call = Calling({c1})
  /\ jobs = TwoJobs @@ ForeignJob /\ rows = MCRows
  /\ matches \in {Stored, Append(Stored, Stored[1])}

\* Two clients with requests about jobs, while an operator suspends and
\* deletes their tenant.
TwoClients ==
  /\ allow \in {Bounds({p}, {}, {t1}, {"tenant", "status"}, {"delete"}, 1) : p \in Sessions}
  /\ tenants = [t \in Tenants |-> Row("active")]
  /\ GatewayInit /\ call = Calling({c2, c3})
  /\ server = [x509 |-> <<Mapped>>, backends |-> AllBackends]
  /\ jobs = TwoJobs @@ ForeignJob /\ rows = {} /\ matches = <<>>

Init == IdentityInit /\ (OperatorsOnly \/ OneClient \/ TwoClients)
Spec == Init /\ [][Next]_vars

Interchangeable == Permutations(Sessions)

=============================================================================
