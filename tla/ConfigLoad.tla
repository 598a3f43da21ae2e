----------------------------- MODULE ConfigLoad -----------------------------
(***************************************************************************)
(* pkg/config's loader: layers of YAML files, environment variables and    *)
(* flags merged over the compiled defaults, checked layer by layer for     *)
(* unknown keys and wrong types, and as a whole against ConfigRules.       *)
(*                                                                         *)
(* A document is a function from paths to nodes; <<>> is its root.  A node *)
(* is a map (with the anchors its merge key names, in order), a leaf with  *)
(* a value, an alias of the node at another path, or a value of the wrong  *)
(* type for its setting.  A file's content is a document, nothing, or      *)
(* text that does not parse.                                               *)
(***************************************************************************)
EXTENDS ConfigRules

Map == [kind |-> "map", merge |-> <<>>]
Merging(anchors) == [kind |-> "map", merge |-> anchors]
Leaf(v) == [kind |-> "leaf", value |-> v]
Alias(path) == [kind |-> "alias", of |-> path]
Wrong == [kind |-> "wrong"]

Missing == [kind |-> "missing", doc |-> <<>>]
Garbled == [kind |-> "garbled", doc |-> <<>>]
Document(doc) == [kind |-> "document", doc |-> doc]

\* A value that an operator uses several times, evaluated once.
Once(v, Op(_)) == CHOOSE r \in {Op(x) : x \in {v}} : TRUE

\* What a value's source is called.
SourceDefaults == "compiled defaults"
UserFile == "user config"

\* The document that sets a path, with the sections on its way.
buildNodeSimple(path, node) == [q \in Prefixes(path) |-> IF q = path THEN node ELSE Map]

-----------------------------------------------------------------------------
(* The settings the Config type declares.  A map field takes any key.       *)

MapField(at, below) == [at |-> at, below |-> below]

MapFields ==
  {MapField(<<"tls", "targets">>, {<<"mode">>}),
   MapField(<<"llm", "model_revisions">>, {<<>>}),
   MapField(<<"llm", "tenant_overrides">>, {<<"max_retries">>, <<"timeout">>}),
   MapField(<<"attestation", "tenant_overrides">>,
            {<<"expiry_duration">>, <<"private_key_path">>, <<"public_key_path">>}),
   MapField(<<"analysis", "result_cache", "tenant_overrides">>, {<<"lookup_batch_size">>}),
   MapField(<<"prompt", "tenant_overrides">>, {<<"capture_content">>, <<"allow_commands">>}),
   MapField(<<"retention", "tenants">>, {<<k>> : k \in Tiers}),
   MapField(<<"synthesis", "tenant_overrides">>,
            {<<"confidence_threshold">>, <<"max_mappings_per_control">>}
            \union {<<"viability", k>> : k \in {"type_mismatch_factor", "skip_level_factor", "integral_to_factor"}}
            \union {<<"assessment", k>> : k \in {"iqr_good", "iqr_poor", "no_rel_high", "no_rel_low", "contested_warn",
                                                 "actionable_warn"}})}

\* What follows the map's key in a path below the map.
Rest(m, p) == SubSeq(p, Len(m.at) + 2, Len(p))

\* The Go type a node at path p is decoded as: a field's, which tells two
\* uses of one anchor apart, a section's, or none at all.
TypeOf(p) ==
  CASE p \in DOMAIN Flags -> "bool"
    [] p \in DOMAIN Numbers -> "number"
    [] p \in DOMAIN Words -> "string"
    [] p \in DOMAIN Lists \/ \E m \in MapFields : IsStrictPrefix(m.at, p) /\ Rest(m, p) \in m.below -> ToString(p)
    [] \/ \E q \in DOMAIN Fields : IsStrictPrefix(p, q)
       \/ \E m \in MapFields : \/ IsPrefix(p, m.at)
                               \/ IsStrictPrefix(m.at, p) /\ \E b \in m.below : IsStrictPrefix(Rest(m, p), b) -> "section"
    [] OTHER -> "unknown"

-----------------------------------------------------------------------------
(* Anchors, aliases and merge keys. *)

KeysAt(doc, p) == {q[Len(p) + 1] : q \in {r \in DOMAIN doc : IsStrictPrefix(p, r)}}

\* A node moved below the key k.
Below1(k, nodes) == [p \in {<<k>> \o q : q \in DOMAIN nodes} |-> nodes[Tail(p)]]
Together(parts) == FoldSet(LAMBDA a, b : a @@ b, <<>>, parts)

RECURSIVE resolveNode(_, _), mergedPairs(_, _, _)
\* The nodes below path p of a document, aliases replaced by what they name.
resolveNode(doc, p) ==
  CASE doc[p].kind = "alias" -> resolveNode(doc, doc[p].of)
    [] doc[p].kind = "map" -> (<<>> :> Map) @@ mergedPairs(doc, p, {})
    [] OTHER -> (<<>> :> doc[p])

\* A mapping's own keys win over those of its merge key's sources, and an
\* earlier source over a later one; set holds the keys already taken.
mergedPairs(doc, p, set) ==
  LET own == KeysAt(doc, p) \ set
      pairs == Together({Below1(k, resolveNode(doc, Append(p, k))) : k \in own})
  IN FoldLeft(LAMBDA acc, src : acc @@ mergedPairs(doc, src, set \union {q[1] : q \in DOMAIN acc}),
              pairs, doc[p].merge)

resolveReferences(doc) == resolveNode(doc, <<>>)

RECURSIVE walk(_, _, _)
\* The settings the check of a layer meets: the path as the Config type knows
\* it, and where the node stands in the document.  What is below an unknown
\* key is not looked at; keys that merging hides are.
walk(doc, path, at) ==
  IF doc[at].kind = "alias" THEN walk(doc, path, doc[at].of)
  ELSE UNION {
    {[path |-> path, at |-> at, type |-> t]}
    \union IF doc[at].kind # "map" \/ t # "section" THEN {}
           ELSE UNION {walk(doc, Append(path, k), Append(at, k)) : k \in KeysAt(doc, at)}
                \union UNION {walk(doc, path, src) : src \in Range(doc[at].merge)} : t \in {TypeOf(path)}}

Problem(path, rule, source) == [path |-> path, rule |-> rule, blame |-> path, source |-> source]

reportUnknown(met, source) == {Problem(w.path, "unknown", source) : w \in {v \in met : v.type = "unknown"}}

\* A node is checked once per type it is used as, at its own place if it is
\* used there as that type.
checkType(doc, met, source) ==
  LET bad == {w \in met : w.type # "unknown" /\ doc[w.at].kind # IF w.type = "section" THEN "map" ELSE "leaf"}
      same(w) == {v \in bad : v.at = w.at /\ v.type = w.type}
      first(w) == IF \E v \in same(w) : v.path = v.at THEN CHOOSE v \in same(w) : v.path = v.at
                  ELSE CHOOSE v \in same(w) : TRUE
  IN {Problem(first(w).path, "type", source) : w \in bad}

checkLayer(doc, source) ==
  Once(walk(doc, <<>>, <<>>), LAMBDA met :
    [keys |-> reportUnknown(met, source), types |-> checkType(doc, met, source)])

-----------------------------------------------------------------------------
(* Merging the layers. *)

\* A map merges with a map key by key; anything else replaces what it covers.
deepMerge(base, overlay) ==
  LET replaced(p) == \E q \in DOMAIN overlay : IsPrefix(q, p) /\ overlay[q].kind # "map"
  IN overlay @@ [p \in {q \in DOMAIN base : ~replaced(q)} |-> base[p]]

\* The source of every value, in the layer that set it last.  The entries
\* below a section a later layer replaced stay.
track(sources, nodes, source) ==
  [p \in {q \in DOMAIN nodes : nodes[q].kind # "map"} |-> source] @@ sources

sourceOf(sources, path) == Get(sources, path, SourceDefaults)

\* A list is tracked as one value.
trackerKey(path) ==
  IF \E l \in DOMAIN Lists : IsPrefix(l, path) THEN CHOOSE l \in DOMAIN Lists : IsPrefix(l, path) ELSE path

sourceOfSetting(sources, path) ==
  LET key == trackerKey(path)
      below == {sources[p] : p \in {q \in DOMAIN sources : IsStrictPrefix(key, q)}}
  IN CASE key \in DOMAIN sources -> sources[key]
       [] Cardinality(below) = 1 -> CHOOSE s \in below : TRUE
       [] OTHER -> ""

addProblems(s, keys, types) ==
  [s EXCEPT !.problems = @ \union keys \union types, !.typePaths = @ \union {t.path : t \in types}]

mergeLayer(s, doc, source) ==
  Once([found |-> checkLayer(doc, source), nodes |-> resolveReferences(doc)], LAMBDA layer :
    [addProblems(s, layer.found.keys, layer.found.types)
     EXCEPT !.sources = track(@, layer.nodes, source), !.merged = deepMerge(@, layer.nodes)])

\* An error without a path ends the load.
mergeFile(stack, content, source) ==
  Once(stack, LAMBDA s :
    CASE s.failed \/ content.kind = "missing" -> s
      [] content.kind = "garbled" -> [s EXCEPT !.failed = TRUE]
      [] OTHER -> mergeLayer(s, content.doc, source))

\* The YAML files of a drop-in directory, in the order of their names.
discoverDropIns(dir) == SelectSeq(dir, LAMBDA f : f.yaml)
DropIns(dir, source) == [i \in DOMAIN discoverDropIns(dir) |-> [content |-> discoverDropIns(dir)[i].content, source |-> source]]

\* A profile that does not exist ends the load like one that does not parse.
Profile(disk, name) ==
  IF name = "" THEN Missing ELSE IF name \in DOMAIN disk.profiles THEN disk.profiles[name] ELSE Garbled

\* The content of the user config: the one given, or the file's.
UserContent(disk, o) == IF o.userConfigContent.kind = "missing" THEN disk.user ELSE o.userConfigContent

FileLayers(disk, o) ==
  IF o.configPath.kind # "missing" THEN <<[content |-> o.configPath, source |-> "config path"]>>
  ELSE <<[content |-> disk.system, source |-> "system config"]>> \o DropIns(disk.systemDropIns, "system drop-in")
       \o <<[content |-> UserContent(disk, o), source |-> UserFile]>> \o DropIns(disk.userDropIns, "user drop-in")
       \o <<[content |-> Profile(disk, o.profile), source |-> "profile"], [content |-> o.project, source |-> "project config"]>>

mergeFiles(s, disk, o) == FoldLeft(LAMBDA t, l : mergeFile(t, l.content, l.source), s, FileLayers(disk, o))

\* A variable sets the setting its name spells; unknown ones are ignored.
buildEnvOverlay(s, vars) ==
  FoldLeft(LAMBDA acc, v :
             Once([acc |-> acc, node |-> buildNodeSimple(v.path, v.node)], LAMBDA x :
               [stack |-> [addProblems(x.acc.stack, {}, checkLayer(x.node, "environment").types)
                           EXCEPT !.sources = track(@, x.node, "environment")],
                overlay |-> deepMerge(x.acc.overlay, x.node)]),
           [stack |-> s, overlay |-> <<>> :> Map], vars)

\* A flag with a problem is left out.
buildOverrideOverlay(s, overrides) ==
  FoldLeft(LAMBDA acc, v :
             LET node == buildNodeSimple(v.path, v.node)
             IN Once([acc |-> acc, found |-> checkLayer(node, "flag")], LAMBDA x :
                  IF x.found.keys \union x.found.types # {}
                  THEN [x.acc EXCEPT !.stack.problems = @ \union x.found.keys \union x.found.types]
                  ELSE [stack |-> [x.acc.stack EXCEPT !.sources = track(@, node, "flag")],
                        overlay |-> deepMerge(x.acc.overlay, node)]),
           [stack |-> s, overlay |-> <<>> :> Map], overrides)

applyOverlays(stack, o) ==
  Once(stack, LAMBDA s :
    IF s.failed THEN s
    ELSE Once(buildEnvOverlay(s, o.env), LAMBDA env :
           Once(buildOverrideOverlay(env.stack, o.overrides), LAMBDA flags :
             [flags.stack EXCEPT !.merged = deepMerge(deepMerge(@, env.overlay), flags.overlay)])))

defaultLayer ==
  [p \in UNION {Prefixes(q) : q \in DOMAIN defaultNode} |-> IF p \in DOMAIN defaultNode THEN Leaf(defaultNode[p]) ELSE Map]

resolve(disk, o) ==
  Once(defaultLayer, LAMBDA defaults :
    applyOverlays(mergeFiles([merged |-> defaults, sources |-> track(<<>>, defaults, SourceDefaults), problems |-> {},
                              typePaths |-> {}, failed |-> FALSE], disk, o), o))

-----------------------------------------------------------------------------
(* Decoding, validating and the result of a load. *)

ZeroOf(p) ==
  CASE p \in DOMAIN Flags -> FALSE [] p \in DOMAIN Numbers -> 0 [] p \in DOMAIN Words -> "" [] OTHER -> <<>>

\* A value of the wrong type leaves its field at zero, or absent from a map.
decode(merged) ==
  LET inMaps == {p \in DOMAIN merged : /\ \E m \in MapFields : IsStrictPrefix(m.at, p)
                                       /\ TypeOf(p) \in IF merged[p].kind = "map" THEN {"section"} ELSE {ToString(p)}
                                       /\ merged[p].kind \in {"map", "leaf"}}
  IN [p \in inMaps |-> IF merged[p].kind = "leaf" THEN merged[p].value ELSE "section"]
     @@ [p \in DOMAIN Fields |-> IF p \in DOMAIN merged /\ merged[p].kind = "leaf" THEN merged[p].value ELSE ZeroOf(p)]

\* A value of the wrong type is reported once, not again by the rules that
\* see its zero value.
withoutPaths(problems, paths) == {v \in problems : ~\E p \in paths : p # <<>> /\ IsPrefix(p, v.path)}

Validated(s, c) ==
  LET source(v) == IF v.blame # v.path THEN sourceOf(s.sources, v.blame) ELSE sourceOfSetting(s.sources, v.path)
  IN withoutPaths({[path |-> v.path, rule |-> v.rule, blame |-> v.blame, source |-> source(v)] : v \in validate(c)}, s.typePaths)

Load(disk, o) ==
  Once(resolve(disk, o), LAMBDA s :
    IF s.failed THEN [ok |-> FALSE, problems |-> s.problems, complete |-> FALSE, cfg |-> <<>>]
    ELSE Once(decode(s.merged), LAMBDA c :
           Once(s.problems \union Validated(s, c), LAMBDA problems :
             [ok |-> problems = {}, problems |-> problems, complete |-> problems # {},
              cfg |-> IF problems = {} THEN normalised(c) ELSE <<>>])))

=============================================================================
