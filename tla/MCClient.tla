------------------------------ MODULE MCClient ------------------------------
(***************************************************************************)
(* Instances of the client's configuration editors and of the certificate  *)
(* directory's users.  The two share no state: a behaviour is one or the   *)
(* other.                                                                  *)
(***************************************************************************)
EXTENDS ConfigEdit, TestCerts

VARIABLE part

Doc(nodes) == nodes @@ [p \in UNION {Prefixes(q) : q \in DOMAIN nodes} |-> Map]
User(nodes) == Document(Doc(nodes))

NoDisk == [system |-> Missing, systemDropIns |-> <<>>, user |-> Missing, userDropIns |-> <<>>, profiles |-> <<>>, link |-> "none"]
NoOptions == [configPath |-> Missing, userConfigContent |-> Missing, profile |-> "", project |-> Missing, env |-> <<>>,
              overrides |-> <<>>]

\* Paths the documents use.
level == <<"logging", "level">>
format == <<"logging", "format">>
output == <<"cli", "output">>
timeout == <<"pipeline", "stage_timeout">>
typo == <<"pipeline", "stage_timout">>
weight(k) == <<"analysis", "relationship", "confidence_weights", k>>
objects(k) == <<"storage", "objects", k>>
tenant(t) == <<"llm", "tenant_overrides", t>>
retries(t) == tenant(t) \o <<"max_retries">>
synthesis(t) == <<"synthesis", "tenant_overrides", t>>
factor(t, k) == synthesis(t) \o <<"viability", k>>
factors(t) == factor(t, "type_mismatch_factor") :> Leaf(80) @@ factor(t, "skip_level_factor") :> Leaf(70)
              @@ factor(t, "integral_to_factor") :> Leaf(110)

\* A start: the files, the options, the edits each editor may be given, how
\* many, the values that may repair the file, and the faults.
Start(user, edits, n) ==
  [disk |-> [NoDisk EXCEPT !.user = user], options |-> NoOptions, edits |-> edits, n |-> n, repairs |-> {}, faults |-> 0]

\* Two editors of a file that loads, and a fault; some of their edits would
\* break the file.
Shared ==
  [Start(User(output :> Leaf("json") @@ level :> Leaf("info")),
        [e1 |-> {setting(level, Leaf("loud")), setting(timeout, Leaf(60)), setting(typo, Leaf(60))},
         e2 |-> {setting(timeout, Wrong), unsetting(<<"logging">>), setting(<<"tls", "mode">>, Leaf("mutual"))}], 2)
   EXCEPT !.faults = 1]

\* One editor at work on a file that does not load.
Broken(nodes) ==
  LET doc == Doc(nodes)
  IN Start(Document(doc), [e1 |-> {unsetting(p) : p \in DOMAIN doc \ {<<>>}}, e2 |-> {}], 2)

ThreeProblems == [Broken(level :> Leaf("loud") @@ timeout :> Leaf(0) @@ typo :> Leaf(60)) EXCEPT !.faults = 1]
MaskedOrder == Broken(weight("high") :> Leaf(0) @@ weight("medium") :> Leaf(80) @@ weight("low") :> Leaf(90))
NotASection == Broken(<<"analysis">> :> Wrong @@ level :> Leaf("loud"))
BadTenant == Broken(retries("ACME") :> Leaf(1) @@ factor("acme", "skip_level_factor") :> Leaf(70) @@ retries("acme") :> Leaf(-1))
Blamed == Broken(<<"backup", "destination", "backend">> :> Leaf("s3") @@ level :> Leaf("loud"))
Generators ==
  Broken(<<"analysis", "candidates", "generators">> :>
           Leaf(<<[name |-> "semantic", enabled |-> TRUE, weight |-> 200, config |-> <<>>],
                  [name |-> "semantics", enabled |-> FALSE, weight |-> 50, config |-> <<>>],
                  [name |-> "lexical", enabled |-> TRUE, weight |-> 50, config |-> [top_k |-> <<"number", 0>>]]>>)
         @@ <<"analysis", "candidates", "max_per_source">> :> Leaf(5)
         @@ <<"analysis", "requires", "enabled">> :> Leaf(TRUE)
         @@ <<"retention", "defaults", "catalogs">> :> Leaf(<<293, "y">>))

\* Unsetting either section does not help; another value does.
Overlap ==
  LET start == Broken(objects("backend") :> Leaf("s4") @@ <<"backup", "destination", "backend">> :> Leaf("local")
                      @@ <<"backup", "destination", "local", "path">> :> Leaf("/a/b") @@ <<"backup", "dsn">> :> Leaf("postgres"))
  IN [start EXCEPT !.disk.system = User(objects("base_path") :> Leaf("/a")),
                   !.edits.e1 = @ \union {setting(objects("backend"), Leaf("s3"))},
                   !.repairs = {setting(objects("backend"), Leaf("s3"))}]

\* Another layer is at fault too, or the file cannot be parsed or reached.
OtherLayers ==
  LET start == Broken(level :> Leaf("loud") @@ timeout :> Leaf(0))
  IN {[start EXCEPT !.options.env = <<[path |-> format, node |-> Leaf("xml")]>>],
      [start EXCEPT !.options.profile = "absent"],
      [start EXCEPT !.options.profile = "mine", !.disk.profiles = [mine |-> User(level :> Leaf("warn"))]],
      [start EXCEPT !.options.overrides = <<[path |-> typo, node |-> Leaf(1)], [path |-> level, node |-> Leaf("warn")]>>],
      [start EXCEPT !.disk.userDropIns = <<[yaml |-> TRUE, content |-> User(level :> Leaf("debug"))],
                                           [yaml |-> FALSE, content |-> Garbled]>>],
      [start EXCEPT !.disk.systemDropIns = <<[yaml |-> TRUE, content |-> Garbled]>>],
      [start EXCEPT !.disk.user = Garbled],
      [start EXCEPT !.disk.link = "dangling", !.disk.user = Missing]}

\* A file whose tenants share settings through an anchor.
Anchored(more) ==
  Start(User(retries("acme") :> Leaf(2) @@ more),
        [e1 |-> {setting(retries("acme"), Leaf(1)), unsetting(tenant("acme")), unsetting(<<"llm">>),
                 setting(tenant("globex") \o <<"timeout">>, Leaf(9)), setting(retries("globex"), Leaf(0)), unsetting(tenant("globex")),
                 setting(factor("globex", "skip_level_factor"), Leaf(60)), unsetting(synthesis("globex"))}, e2 |-> {}], 2)

Anchors ==
  {Anchored(tenant("globex") :> Alias(tenant("acme"))),
   Anchored(retries("globex") :> Alias(retries("acme"))),
   Anchored(tenant("globex") :> Merging(<<tenant("acme")>>)),
   Anchored(factors("acme") @@ synthesis("globex") :> Merging(<<synthesis("acme")>>))}

Starts == {Shared, ThreeProblems, MaskedOrder, NotASection, BadTenant, Blamed, Generators, Overlap} \union OtherLayers \union Anchors

Repairs1 == UNION {s.repairs : s \in Starts}

NoEdits ==
  /\ disk = NoDisk /\ durable = {} /\ options = NoOptions
  /\ editor = [e \in Editors |-> Idle] /\ todo = [e \in Editors |-> [edits |-> {}, left |-> 0]] /\ faults = 0

EditInit ==
  \E s \in Starts :
    /\ disk = s.disk /\ durable = {s.disk.user} /\ options = s.options
    /\ editor = [e \in Editors |-> Idle]
    /\ todo = [e \in Editors |-> [edits |-> s.edits[e], left |-> IF s.edits[e] = {} THEN 0 ELSE s.n]]
    /\ faults = s.faults

Whole(g) == Holding([f \in Range(FileOrder) |-> IF f = "fingerprint" THEN [h \in Range(certFiles) |-> g] ELSE g])
Supplied(d) == Holding([f \in Range(certFiles) |-> d.files[f]])
Mixed == [Whole(0) EXCEPT !.files["server"] = Foreign]

NoCerts ==
  /\ dir = Gone /\ leftovers = [n \in {} |-> Gone] /\ lock = {}
  /\ run = [r \in Runs |-> [pc |-> "idle", generation |-> 0]] /\ expired = {} /\ keepUnmanaged = FALSE /\ kills = 0

CertInit ==
  /\ dir \in {Gone, Holding(<<>>), Whole(0), Mixed, Supplied(Whole(Foreign)), Supplied(Mixed)}
  /\ leftovers = [n \in Runs \X {"new", "old"} |-> Gone] /\ lock = {}
  /\ run = [r \in Runs |-> [pc |-> "idle", generation |-> 0]]
  /\ expired \in {{}, {0}} /\ keepUnmanaged \in BOOLEAN /\ kills = 1

Init == \/ part = "edit" /\ EditInit /\ NoCerts
        \/ part = "certs" /\ CertInit /\ NoEdits

Next == \/ part = "edit" /\ EditNext /\ UNCHANGED <<certVars, part>>
        \/ part = "certs" /\ CertNext /\ UNCHANGED <<editVars, part>>

Spec == Init /\ [][Next]_<<editVars, certVars, part>>

\* See Repairable in ConfigEdit; the value that repairs the overlapping
\* directories is the one given.
FileIsRepairable == (part = "edit" /\ \A e \in Editors : editor[e].pc = "idle") => Repairable(Repairs1)

=============================================================================
