------------------------------ MODULE Gateway ------------------------------
(***************************************************************************)
(* The gateway: who a connection is, what every request is checked for     *)
(* before its handler runs, and the handlers.  A request is served in      *)
(* steps, between which tenants are suspended or deleted (module Identity) *)
(* and other requests change jobs.                                         *)
(*                                                                         *)
(* The backends behind a handler are jobs, mappings (module Results) and   *)
(* catalogs, feedback and graph, which answer with any code.  An answer is *)
(* a Connect code; messages are left out.                                  *)
(***************************************************************************)
EXTENDS Identity, Results

CONSTANTS
  Callers,       \* clients of the gateway
  Calls,         \* the requests each of them may send
  Servers,       \* the configurations of a gateway: authenticators and backends
  Certs,         \* client certificates: their subject and names
  Glob,          \* the pairs <<pattern, value>> that filepath.Match accepts
  NoTenant,      \* a request that names no tenant
  MaxUpload,     \* maxUploadSize, in chunks
  MaxJobs        \* bound: jobs ever created

VARIABLES
  server,        \* the configuration of this gateway
  call,          \* the request each caller has open
  jobs,          \* the pipeline's jobs
  rows,          \* vote_summaries of the relationship analyzer
  matches,       \* the relationship analyzer's stored results
  acts           \* what handlers did to jobs, and for whom

gatewayVars == <<server, call, jobs, rows, matches, acts>>

NoIdentity == [subject |-> NoOne, tenant |-> NoTenant, roles |-> {}]

-----------------------------------------------------------------------------
(* Authentication. *)

Unset == "unset"
globMatch(pattern, value) == <<pattern, value>> \in Glob
matchFirst(pattern, values) == Len(values) > 0 /\ globMatch(pattern, values[1])
matchAny(pattern, values) == \E i \in DOMAIN values : globMatch(pattern, values[i])
matchAnyURI(pattern, cert) == matchAny(pattern, cert.uri)

isEmpty(match) == \A f \in DOMAIN match : match[f] = Unset

\* Every field a mapping sets must match.
matchCert(cert, match) ==
  /\ match.cn = Unset \/ globMatch(match.cn, cert.cn)
  /\ match.org = Unset \/ matchFirst(match.org, cert.org)
  /\ match.dns = Unset \/ matchAny(match.dns, cert.dns)
  /\ match.uri = Unset \/ matchAnyURI(match.uri, cert)

\* The configurations a gateway starts with.
NewX509Authenticator(x) ==
  IF x.single THEN ValidateTenantID(x.default)
  ELSE \A i \in DOMAIN x.mappings : ValidateTenantID(x.mappings[i].tenant) /\ ~isEmpty(x.mappings[i].match)

Known(id) == [result |-> "identity", id |-> id]
Failed(how) == [result |-> how, id |-> NoIdentity]

X509Authenticate(x, conn) ==
  LET cert == Certs[conn]
      hits == {i \in DOMAIN x.mappings : matchCert(cert, x.mappings[i].match)}
  IN CASE conn = "plain" -> Failed("unsupported")
       [] conn = "nocert" -> Failed("failed")
       [] conn \in DOMAIN Certs /\ x.single ->
            Known([subject |-> cert.cn, tenant |-> x.default, roles |-> {"admin"}])
       [] conn \in DOMAIN Certs /\ ~x.single /\ hits = {} -> Failed("failed")
       [] OTHER -> LET m == x.mappings[Min(hits)]
                   IN Known([subject |-> cert.cn, tenant |-> m.tenant, roles |-> m.roles])

\* Registry.Authenticate: the first authenticator that supports the request
\* decides.  What it tells the audit log never changes the answer.
Authenticate(conn) ==
  LET answers == [i \in DOMAIN server.x509 |-> X509Authenticate(server.x509[i], conn)]
      deciding == {i \in DOMAIN answers : answers[i].result # "unsupported"}
  IN IF deciding = {} THEN Failed("failed") ELSE answers[Min(deciding)]

RequireRole(id, role) == role \in id.roles
IsAdmin(id) == RequireRole(id, "admin")

-----------------------------------------------------------------------------
(* What is checked before a handler. *)

isHealthProc(m) == m.method = "Health"

\* TLS, the certificate and the tenant it stands for; a health check needs none.
Admitted(m) ==
  LET a == Authenticate(m.conn)
  IN [code |-> FirstFailure(<< <<m.conn # "plain", "unauthenticated">>,
                               <<a.result = "identity", "unauthenticated">>,
                               <<ValidateTenantID(a.id.tenant), "unauthenticated">> >>),
      id |-> a.id]

tenant_is_active(t) == t \in Tenants /\ tenants[t].status = "active"
TenantActive(t) == tenant_is_active(t)

\* The status is asked of the database for every request; a failure to ask
\* is not taken for a yes.
checkTenantActive(id, unreachable) ==
  FirstFailure(<< <<~unreachable, "unavailable">>, <<TenantActive(id.tenant), "permission_denied">> >>)

checkRequestedTenant(m, id) ==
  FirstFailure(<< <<m.tenant \in {NoTenant, id.tenant}, "permission_denied">> >>)

\* The requests of a client stream carry no tenant to check.
IsStream(m) == m.method = "StreamDocument"

Answer(c, m, id, code) == call' = [call EXCEPT ![c] = [at |-> "answered", m |-> m, id |-> id, code |-> code]]
Go(c, m, id, at) == call' = [call EXCEPT ![c] = [at |-> at, m |-> m, id |-> id]]
GoOrAnswer(c, m, id, code, at) == IF code = "ok" THEN Go(c, m, id, at) ELSE Answer(c, m, id, code)

KeepData == UNCHANGED <<server, jobs, rows, matches, acts>>

Arrive(c) ==
  /\ call[c].at = "idle"
  /\ \E m \in Calls[c] : Go(c, m, NoIdentity, "arrived")
  /\ KeepData

\* The first part of the interceptor, for a call of one request ...
WrapUnary(c) ==
  LET m == call[c].m
      a == Admitted(m)
  IN /\ call[c].at = "arrived"
     /\ ~IsStream(m)
     /\ IF isHealthProc(m) THEN Go(c, m, NoIdentity, "handler")
        ELSE GoOrAnswer(c, m, a.id, a.code, "status")
     /\ KeepData

\* ... and for a stream, none of which is a health check.
WrapStreamingHandler(c) ==
  LET m == call[c].m
      a == Admitted(m)
  IN /\ call[c].at = "arrived"
     /\ IsStream(m)
     /\ GoOrAnswer(c, m, a.id, a.code, "status")
     /\ KeepData

\* The tenant's status, then, except for a stream, the tenant the request names.
CheckTenant(c) ==
  LET m == call[c].m
      id == call[c].id
  IN /\ call[c].at = "status"
     /\ \E unreachable \in BOOLEAN :
          GoOrAnswer(c, m, id,
                     FirstFailure(<< <<checkTenantActive(id, unreachable) = "ok", checkTenantActive(id, unreachable)>>,
                                     <<IsStream(m) \/ checkRequestedTenant(m, id) = "ok", "permission_denied">> >>),
                     "handler")
     /\ KeepData

-----------------------------------------------------------------------------
(* The handlers: the code each one answers before it calls a backend. *)

SignedIn(id) == <<id # NoIdentity, "unauthenticated">>
Admin(id) == <<IsAdmin(id), "permission_denied">>
Given(m) == <<m.arg # 0, "invalid_argument">>
Backed(names) == <<names \subseteq server.backends, "unavailable">>

ListCatalogs(id, m)   == FirstFailure(<<SignedIn(id), Backed({"catalog"})>>)
GetCatalog(id, m)     == FirstFailure(<<SignedIn(id), Given(m), Backed({"catalog"})>>)
SearchControls(id, m) == FirstFailure(<<SignedIn(id), Given(m), Backed({"catalog"})>>)
GetControl(id, m)     == FirstFailure(<<SignedIn(id), Given(m), Backed({"catalog"})>>)
SubmitVote(id, m)     == FirstFailure(<<SignedIn(id), Given(m), Backed({"feedback"})>>)
GetReviewQueue(id, m) == FirstFailure(<<SignedIn(id), Admin(id), Backed({"feedback"})>>)
QueryGraph(id, m)     == FirstFailure(<<SignedIn(id), Admin(id), Given(m), Backed({"graph"})>>)
FindSimilar(id, m)    == FirstFailure(<<SignedIn(id), Given(m), Backed({"graph"})>>)
Health(id, m)         == FirstFailure(<<Backed({"admin"})>>)
GetJob(id, m)         == FirstFailure(<<SignedIn(id), Given(m), Backed({"pipeline"})>>)
ListJobs(id, m)       == FirstFailure(<<SignedIn(id), Backed({"pipeline"})>>)
CancelJob(id, m)      == FirstFailure(<<SignedIn(id), Given(m), Backed({"pipeline"})>>)
RetryJob(id, m)       == FirstFailure(<<SignedIn(id), Given(m), Backed({"pipeline"})>>)
ListJobMappings(id, m) == FirstFailure(<<SignedIn(id), Given(m), Backed({"mappings"})>>)

\* Source and target are required; both ways only between two catalogs.
StartAnalysis(id, m) ==
  FirstFailure(<<SignedIn(id), Given(m), <<m.target # 0, "invalid_argument">>,
                 <<~(m.both /\ m.target = m.arg), "invalid_argument">>, Backed({"catalog", "pipeline"})>>)

\* A single page of the control's mappings, over every completed job.
GetControlMappings(id, m) ==
  FirstFailure(<<SignedIn(id), Given(m), <<m.size \in 0 .. MaxPageSize, "invalid_argument">>, Backed({"mappings"})>>)

\* The checks processDocument makes of a document before it is stored; a
\* document comes inline (1) or by its URI (2).
processDocument(m) ==
  FirstFailure(<<Backed({"ingestion", "catalog"}), <<m.arg = 2 \/ m.size > 0, "invalid_argument">> >>)

SubmitDocument(id, m) ==
  FirstFailure(<<SignedIn(id), Given(m), <<processDocument(m) = "ok", processDocument(m)>> >>)

\* A stream is its metadata, once and first, and then chunks up to the limit.
\* The first message that breaks this decides.
StreamCode(m) ==
  LET bad == {i \in DOMAIN m.stream :
                \/ m.stream[i] = "meta" /\ i > 1
                \/ m.stream[i] = "chunk" /\ (m.stream[1] # "meta" \/ i - 1 > MaxUpload)}
      first == Min(bad)
  IN CASE m.stream = <<>> -> "invalid_argument"
       [] m.stream # <<>> /\ bad = {} -> "ok"
       [] OTHER -> IF m.stream[first] = "chunk" /\ m.stream[1] = "meta" THEN "resource_exhausted"
                   ELSE "invalid_argument"

handleStreamedDocument(id, m) == processDocument([arg |-> 1, size |-> Len(m.stream) - 1])

StreamDocument(id, m) ==
  FirstFailure(<<SignedIn(id), <<StreamCode(m) = "ok", StreamCode(m)>>,
                 <<handleStreamedDocument(id, m) = "ok", handleStreamedDocument(id, m)>> >>)

\* requireAdmin and resolveTenant of the AdminService mounted beside the
\* gateway's: only an administrator, and only for their own tenant.
requireAdmin(id) == FirstFailure(<<SignedIn(id), Admin(id)>>)
resolveTenant(id, m) ==
  FirstFailure(<< <<m.tenant # NoTenant, "invalid_argument">>, <<m.tenant = id.tenant, "permission_denied">> >>)
AdminCall(id, m) ==
  FirstFailure(<< <<requireAdmin(id) = "ok", requireAdmin(id)>>, <<resolveTenant(id, m) = "ok", resolveTenant(id, m)>> >>)

Handler(id, m) ==
  CASE m.method = "ListCatalogs" -> ListCatalogs(id, m)
    [] m.method = "GetCatalog" -> GetCatalog(id, m)
    [] m.method = "SearchControls" -> SearchControls(id, m)
    [] m.method = "GetControl" -> GetControl(id, m)
    [] m.method = "SubmitVote" -> SubmitVote(id, m)
    [] m.method = "GetReviewQueue" -> GetReviewQueue(id, m)
    [] m.method = "QueryGraph" -> QueryGraph(id, m)
    [] m.method = "FindSimilar" -> FindSimilar(id, m)
    [] m.method = "Health" -> Health(id, m)
    [] m.method = "GetJob" -> GetJob(id, m)
    [] m.method = "ListJobs" -> ListJobs(id, m)
    [] m.method = "CancelJob" -> CancelJob(id, m)
    [] m.method = "RetryJob" -> RetryJob(id, m)
    [] m.method = "ListJobMappings" -> ListJobMappings(id, m)
    [] m.method = "GetControlMappings" -> GetControlMappings(id, m)
    [] m.method = "StartAnalysis" -> StartAnalysis(id, m)
    [] m.method = "SubmitDocument" -> SubmitDocument(id, m)
    [] m.method = "StreamDocument" -> StreamDocument(id, m)
    [] OTHER -> AdminCall(id, m)

\* Where a handler goes on to: jobs and mappings are modelled, the other
\* backends answer with any code.
BackendOf(m) ==
  CASE m.method \in {"CancelJob", "RetryJob", "GetJob"} -> "owner"
    [] m.method = "ListJobs" -> "list"
    [] m.method = "StartAnalysis" -> "catalogs"
    [] m.method \in {"ListJobMappings", "GetControlMappings"} -> "walk"
    [] OTHER -> "backend"

Handle(c) ==
  LET m == call[c].m
      id == call[c].id
  IN /\ call[c].at = "handler"
     /\ GoOrAnswer(c, m, id, Handler(id, m), BackendOf(m))
     /\ KeepData

-----------------------------------------------------------------------------
(* The backends. *)

\* What a client learns of a backend's error; a panic is recovered into an
\* internal error.
PublicCodes == {"invalid_argument", "not_found", "failed_precondition", "permission_denied",
                "unauthenticated", "resource_exhausted", "unimplemented",
                "unavailable", "deadline_exceeded", "aborted"}
publicError(code) == IF code \in PublicCodes THEN code ELSE "internal"
recovered(code) == IF code = "panic" THEN "internal" ELSE publicError(code)

BackendCodes == {"ok", "not_found", "unavailable", "unknown", "panic"}

\* Every backend works in transactions of the caller's tenant, which a
\* deleted tenant refuses.
Entered(id) == id.tenant \in Tenants /\ enter_tenant(id.tenant)

CallBackend(c) ==
  LET m == call[c].m
      id == call[c].id
  IN /\ call[c].at = "backend"
     /\ \E code \in BackendCodes :
          Answer(c, m, id, IF code = "ok" THEN "ok" ELSE recovered(code))
     /\ KeepData

\* The pipeline's GetJob: a job of another tenant is not found.
PipelineGetJob(id, j) ==
  FirstFailure(<< <<Entered(id), "unknown">>,
                  <<j \in DOMAIN jobs /\ (j \in DOMAIN jobs => jobs[j].tenant = id.tenant), "not_found">> >>)

Owns(id, j) == IsAdmin(id) \/ jobs[j].owner = id.subject

Act(m, id, j) == [method |-> m.method, id |-> id, job |-> j]

\* Mutant: only the tenant is checked.
authorizeJobTenant(c) ==
  LET m == call[c].m
      id == call[c].id
      read == PipelineGetJob(id, m.arg)
  IN /\ call[c].at = "owner"
     /\ GoOrAnswer(c, m, id, IF read = "ok" THEN "ok" ELSE publicError(read), "act")
     /\ KeepData

\* authorizeJobOwner, and the same check GetJob makes of the job it has read
\* without its summaries.
authorizeJobOwner(c) ==
  LET m == call[c].m
      id == call[c].id
      read == PipelineGetJob(id, m.arg)
      code == FirstFailure(<< <<read = "ok", publicError(read)>>,
                              <<read = "ok" => Owns(id, m.arg), "permission_denied">> >>)
  IN /\ call[c].at = "owner"
     /\ IF IsAdmin(id) /\ m.method # "GetJob" THEN Go(c, m, id, "act")
        ELSE GoOrAnswer(c, m, id, code, "act")
     /\ KeepData

\* GetJob answers, after a second read when summaries were asked for; CancelJob
\* and RetryJob reach the pipeline, which makes its own checks of the status.
ActOnJob(c) ==
  LET m == call[c].m
      id == call[c].id
      j == m.arg
      read == PipelineGetJob(id, j)
      fits == read = "ok" /\ CASE m.method = "CancelJob" -> jobs[j].status = "running"
                               [] m.method = "RetryJob" -> jobs[j].status = "failed"
                               [] OTHER -> TRUE
      becomes == [CancelJob |-> "cancelled", RetryJob |-> "running"]
  IN /\ call[c].at = "act"
     /\ IF read = "ok" /\ fits
        THEN /\ Answer(c, m, id, "ok")
             /\ acts' = acts \cup {Act(m, id, j)}
             /\ jobs' = IF m.method = "GetJob" THEN jobs ELSE [jobs EXCEPT ![j].status = becomes[m.method]]
        ELSE /\ Answer(c, m, id, IF read = "ok" THEN "failed_precondition" ELSE publicError(read))
             /\ UNCHANGED <<acts, jobs>>
     /\ UNCHANGED <<server, rows, matches>>

\* ListJobs shows the caller's own jobs of the tenant, an administrator all of them.
ShowJobs(c) ==
  LET m == call[c].m
      id == call[c].id
      page == {j \in DOMAIN jobs : jobs[j].tenant = id.tenant}
      filtered == IF IsAdmin(id) THEN page ELSE {j \in page : jobs[j].owner = id.subject}
  IN /\ call[c].at = "list"
     /\ IF Entered(id)
        THEN Answer(c, m, id, "ok") /\ acts' = acts \cup {Act(m, id, j) : j \in filtered}
        ELSE Answer(c, m, id, "internal") /\ UNCHANGED acts
     /\ UNCHANGED <<server, jobs, rows, matches>>

\* StartAnalysis looks up the source catalog, and the target when it is
\* another; either may be missing.
FindCatalogs(c) ==
  LET m == call[c].m
      id == call[c].id
  IN /\ call[c].at = "catalogs"
     /\ \E source, target \in BackendCodes :
          /\ m.arg = m.target => target = "ok"
          /\ GoOrAnswer(c, m, id, FirstFailure(<< <<source = "ok", recovered(source)>>,
                                                  <<target = "ok", recovered(target)>> >>), "create")
     /\ KeepData

\* The job belongs to the caller and their tenant.  No link the gateway
\* attests is kept.
CreateJob(c) ==
  LET m == call[c].m
      id == call[c].id
      j == Cardinality(DOMAIN jobs) + 1
  IN /\ call[c].at = "create"
     /\ IF Entered(id)
        THEN /\ j <= MaxJobs
             /\ jobs' = jobs @@ (j :> [tenant |-> id.tenant, owner |-> id.subject, status |-> "running"])
             /\ acts' = acts \cup {Act(m, id, j)}
             /\ Answer(c, m, id, "ok")
        ELSE Answer(c, m, id, "internal") /\ UNCHANGED <<jobs, acts>>
     /\ UNCHANGED <<server, rows, matches>>

\* One page of mappings.  The client of ListJobMappings asks for the next one
\* in a new request until a page names none.
ReadMappings(c) ==
  LET m == call[c].m
      id == call[c].id
      answer == IF Entered(id)
                THEN ListMappings(jobs, rows, matches, id.tenant, NoTenant, [m.walk.req EXCEPT !.tenant = id.tenant])
                ELSE [code |-> "internal", page |-> paginate(<<>>, 1)]
      walk == listAllMappings(m.walk, answer)
      next == [m EXCEPT !.walk = walk]
  IN /\ call[c].at = "walk"
     /\ IF walk.end # "" \/ m.method = "GetControlMappings"
        THEN Answer(c, next, id, IF answer.code = "ok" THEN "ok" ELSE publicError(answer.code))
        ELSE Go(c, next, NoIdentity, "arrived")
     /\ KeepData

\* A running job ends; completed, it has stored its mappings.
JobEnds(j) ==
  /\ jobs[j].status = "running"
  /\ \E status \in {"completed", "failed"} : jobs' = [jobs EXCEPT ![j].status = status]
  /\ UNCHANGED <<server, call, rows, matches, acts>>

GatewayInit ==
  /\ server \in {s \in Servers : \A i \in DOMAIN s.x509 : NewX509Authenticator(s.x509[i])}
  /\ call \in [Callers -> {[at |-> "idle"], [at |-> "off"]}]
  /\ acts = {}

GatewayNext ==
  \/ \E c \in Callers :
       \/ Arrive(c)
       \/ WrapUnary(c)
       \/ WrapStreamingHandler(c)
       \/ CheckTenant(c)
       \/ Handle(c)
       \/ CallBackend(c)
       \/ authorizeJobOwner(c)
       \/ ActOnJob(c)
       \/ ShowJobs(c)
       \/ FindCatalogs(c)
       \/ CreateJob(c)
       \/ ReadMappings(c)
  \/ \E j \in DOMAIN jobs : JobEnds(j)

-----------------------------------------------------------------------------
(* Properties. *)

\* Whatever a request shows of a job or does to one, the job belongs to the
\* tenant the caller's certificate stands for, and the caller created it or is
\* an administrator there, whichever handler served it and however many steps
\* lay between the checks and the act (WrapUnary, authorizeJobOwner and the
\* filter of ListJobs).
JobsServedToTheirOwners ==
  \A a \in acts :
    /\ jobs[a.job].tenant = a.id.tenant
    /\ jobs[a.job].owner = a.id.subject \/ "admin" \in a.id.roles

\* A walk over the pages of a job's mappings that ends without an error has
\* read every mapping the request asks for exactly once, in key order,
\* whatever the page size and wherever a page ends (synthesizedSQL,
\* listAnalyzer, paginate and listAllMappings); it never meets a token twice.
WalkReadsEveryMapping ==
  \A c \in Callers :
    (call[c].at = "answered" /\ call[c].m.method = "ListJobMappings") =>
      LET w == call[c].m.walk
          r == w.req
          types == IF r.types = {} THEN RelationshipTypes \ {NoRelationship} ELSE r.types
          stored == IF r.stage = "analyzer" THEN Range(matches) ELSE {m \in rows : r.nonViable \/ m.viab > 0}
          wanted == {m \in stored : /\ m.job = r.job /\ m.conf >= r.min /\ m.type \in types
                                    /\ r.control \in {0, m.src, m.tgt}}
      IN /\ w.end # "loop"
         /\ call[c].code = "ok" =>
              /\ Range(w.all) = wanted
              /\ \A i, j \in DOMAIN w.all : i < j => Before(KeyOf(w.all[i]), KeyOf(w.all[j]))

=============================================================================
