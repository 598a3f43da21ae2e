------------------------------ MODULE NatsBus ------------------------------
(* pkg/natsbus: subjects, what a subscription matches, the provenance every *)
(* message carries and the checks a subscriber makes before its handler     *)
(* runs.  A subject is the sequence of its tokens.                          *)
EXTENDS Naturals, Sequences

\* validateToken and validateTenant: a token is neither empty nor a wildcard.
validateToken(t) == t \notin {"", "*", ">"}

\* buildSubject: no subject from an invalid token.
NoSubject == << >>
buildSubject(token, parts) ==
  IF validateToken(parts[2]) /\ validateToken(token) THEN <<"crosscodex">> \o parts ELSE NoSubject

PipelineStageSubject(tenant, job, stage) == buildSubject(job, <<"pipeline", tenant, job, "stage", stage>>)
CatalogParsedSubject(tenant, catalog) == buildSubject(catalog, <<"catalog", tenant, catalog, "parsed">>)

\* A subscription's filter: "*" stands for one token, a final ">" for the rest.
SubjectMatches(filter, subject) ==
  /\ \A i \in DOMAIN filter : /\ i <= Len(subject)
                              /\ filter[i] \in {"*", ">", subject[i]}
  /\ Len(subject) > Len(filter) => filter # << >> /\ filter[Len(filter)] = ">"

\* The digest of a payload: a wrapper stands for the hash, so that equal
\* digests mean equal payloads.
contentHash(data) == [sha256 |-> data]

\* injectProvenance, then mergeHeaders: the provenance wins over headers the
\* caller passes.
injectProvenance(tenant, data) == [tenant |-> tenant, hash |-> contentHash(data)]
mergeHeaders(user, provenance) ==
  [k \in DOMAIN user \cup DOMAIN provenance |-> IF k \in DOMAIN provenance THEN provenance[k] ELSE user[k]]
PublishWithHeaders(subject, tenant, data, user) ==
  [subject |-> subject, data |-> data, headers |-> mergeHeaders(user, injectProvenance(tenant, data))]
NoHeaders == [k \in {} |-> ""]

\* extractProvenance and the hash check of wrapHandler: a message that fails
\* either never reaches the handler.
extractProvenance(msg) == {"tenant", "hash"} \subseteq DOMAIN msg.headers /\ msg.headers.tenant # ""
wrapHandler(msg) == extractProvenance(msg) /\ msg.headers.hash = contentHash(msg.data)
=============================================================================
