----------------------------- MODULE Attestation -----------------------------
(***************************************************************************)
(* Signed records of a job (pkg/attestation, internal/pipeline/attestors.go*)
(* and the executor's helpers).  An envelope is [key, payload, intact]:    *)
(* whose signature it carries, what it says, and whether the signature     *)
(* still matches what it says.  A link's materials and products are        *)
(* functions from URI to digest; digests are the values they are of.       *)
(***************************************************************************)
EXTENDS Naturals, Sequences, SequencesExt, FiniteSets, TLC

OutputURI(a) == <<a, "output">>
CacheManifestURI(a) == <<a, "cache_manifest">>
JobURI(job) == <<"job", job>>

\* The job is a material of every link, with the digest of its config.
JobSubject(job, config) == [uri |-> JobURI(job), digest |-> config]
-----------------------------------------------------------------------------
(* Keys: a pair is [private, public, fips], each half naming a key or "".  *)

\* LoadFileKeys: both halves read, of one pair, of an approved curve.
LoadFileKeys(pair, fips) ==
    CASE pair.private = "" \/ pair.public = "" -> "not_found"
      [] fips /\ ~pair.fips -> "non_fips"
      [] pair.private # pair.public -> "mismatch"
      [] OTHER -> ""

-----------------------------------------------------------------------------
(* Layouts and links *)

Sign(key, payload) == [key |-> key, payload |-> payload, intact |-> TRUE]

Step(name, materials, products) == [name |-> name, materials |-> materials, products |-> products]

\* Converter.Convert: a step per analyzer, in the order of the graph.
Convert(order, edges) ==
    [i \in 1..Len(order) |-> Step(order[i], {OutputURI(d) : d \in edges[order[i]]}, {OutputURI(order[i])})]

\* createLayout: the analyzers' steps with their cache manifests, then the
\* pipeline's own, all naming the job.
LayoutSteps(order, edges, job) ==
    LET analyzers == [i \in 1..Len(order) |->
            LET s == Convert(order, edges)[i]
            IN [s EXCEPT !.materials = @ \cup {CacheManifestURI(s.name)}]]
        pipeline == <<Step("synthesis", {OutputURI(order[i]) : i \in 1..Len(order)}, {OutputURI("synthesis")}),
                      Step("graph", {OutputURI("synthesis")}, {})>>
        all == analyzers \o pipeline
    IN [i \in 1..Len(all) |-> [all[i] EXCEPT !.materials = @ \cup {JobURI(job)}]]

CreateLayout(key, steps, expires) == Sign(key, [kind |-> "layout", steps |-> steps, expires |-> expires])

CreateLink(key, step, subject, materials, products) ==
    Sign(key, [kind |-> "link", step |-> step,
               materials |-> materials @@ (subject.uri :> subject.digest), products |-> products])

\* attestAnalyzers: the link of analyzer a over the stored results.
AnalyzerLink(key, subject, edges, a, digest, manifest) ==
    CreateLink(key, a, subject,
               [u \in {OutputURI(d) : d \in edges[a]} \cup {CacheManifestURI(a)} |->
                  IF u = CacheManifestURI(a) THEN manifest[a] ELSE digest[u[1]]],
               OutputURI(a) :> digest[a])

\* attestSynthesis: every analyzer's product is a material.
SynthesisLink(key, subject, order, links, output) ==
    LET products == {l.payload.products : l \in {x \in ToSet(links) : x.payload.step \in ToSet(order)}}
        uris == UNION {DOMAIN p : p \in products}
    IN CreateLink(key, "synthesis", subject,
                  [u \in uris |-> (CHOOSE p \in products : u \in DOMAIN p)[u]],
                  OutputURI("synthesis") :> output)

\* runGraph: its material is the product of the synthesis link at hand.
GraphLink(key, subject, links) ==
    LET at == SelectLastInSeq(links, LAMBDA l : l.payload.step = "synthesis")
    IN CreateLink(key, "graph", subject, IF at = 0 THEN <<>> ELSE links[at].payload.products, <<>>)
-----------------------------------------------------------------------------
(* Verification *)

Verify(trusted, env) ==
    CASE env.key # trusted -> "untrusted_key"
      [] ~env.intact -> "verification_failed"
      [] env.payload.kind # "link" -> "verification_failed"
      [] OTHER -> ""

VerifyLayout(trusted, env, now) ==
    CASE env.key # trusted \/ ~env.intact \/ env.payload.kind # "layout" -> "verification_failed"
      [] now > env.payload.expires -> "expired"
      [] OTHER -> ""

\* loadStoredLinks: a link read back must verify, be for this step and this job.
VerifyStoredLink(trusted, env, step, subject) ==
    /\ Verify(trusted, env) = ""
    /\ env.payload.step = step
    /\ subject.uri \in DOMAIN env.payload.materials
    /\ env.payload.materials[subject.uri] = subject.digest

LinkOf(links, step) == links[SelectInSeq(links, LAMBDA l : l.payload.step = step)].payload

\* One link per declared step, each recording the run and everything the
\* layout expects of it, and no two steps disagreeing about a shared digest.
VerifyChain(trusted, now, layout, links, subject) ==
    LET steps == layout.payload.steps
        names == {steps[i].name : i \in 1..Len(steps)}
        link(i) == LinkOf(links, steps[i].name)
        \* The first declared step that produces u.
        producer(u) == SelectInSeq(steps, LAMBDA s : u \in DOMAIN LinkOf(links, s.name).products)
    IN CASE VerifyLayout(trusted, layout, now) # "" -> VerifyLayout(trusted, layout, now)
         [] \E i \in 1..Len(links) : Verify(trusted, links[i]) # "" -> "verification_failed"
         [] \E i \in 1..Len(links) : links[i].payload.step \notin names -> "unexpected_link"
         [] \E i, j \in 1..Len(links) : i # j /\ links[i].payload.step = links[j].payload.step -> "unexpected_link"
         [] \E i \in 1..Len(steps) : steps[i].name \notin {links[j].payload.step : j \in 1..Len(links)} -> "missing_link"
         [] \E i \in 1..Len(steps) : \/ subject.uri \notin steps[i].materials
                                     \/ subject.uri \notin DOMAIN link(i).materials
                                     \/ link(i).materials[subject.uri] # subject.digest -> "subject_mismatch"
         [] \E i \in 1..Len(steps) : \/ ~(steps[i].materials \subseteq DOMAIN link(i).materials)
                                     \/ ~(steps[i].products \subseteq DOMAIN link(i).products) -> "chain_broken"
         [] \E i \in 1..Len(steps) : \E u \in DOMAIN link(i).materials :
                /\ producer(u) \notin {0, i}
                /\ link(producer(u)).products[u] # link(i).materials[u] -> "chain_broken"
         [] OTHER -> ""

\* A bundle is refused without a layout or links.
MarshalBundle(layout, links) == [layout |-> layout, links |-> links]
=============================================================================
