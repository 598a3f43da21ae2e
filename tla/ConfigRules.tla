---------------------------- MODULE ConfigRules ----------------------------
(***************************************************************************)
(* The configuration's compiled defaults and the rules pkg/config checks   *)
(* a merged configuration against.  A configuration is a function from     *)
(* setting paths (sequences of keys) to values: durations in seconds,      *)
(* fractions in hundredths, texts as one of the classes the rules tell     *)
(* apart.  Not-a-number is refused wherever a negative number is, and      *)
(* satisfies no comparison, so -1 stands for both.  Only the settings some *)
(* rule reads are here, and cli.output and cli.endpoint, which none does.  *)
(***************************************************************************)
EXTENDS Integers, FiniteSets, Sequences, TLC, FiniteSetsExt, SequencesExt

CONSTANTS TenantIDs,    \* the tenant IDs ValidateTenantID accepts
          DayLimit      \* the number of days that no longer fits a time.Duration

ASSUME DayLimitAssumption == DayLimit \in Nat \ {0}

Under(sec, keys) == [p \in {Append(sec, k) : k \in DOMAIN keys} |-> keys[Last(p)]]

Flags ==
  Under(<<"llm">>, [gateway_mode |-> FALSE]) @@
  Under(<<"analysis", "classification">>, [enabled |-> TRUE]) @@
  Under(<<"analysis", "embedding">>, [enabled |-> TRUE]) @@
  Under(<<"analysis", "relationship">>, [enabled |-> FALSE]) @@
  Under(<<"analysis", "requires">>, [enabled |-> FALSE, allow_even_samples |-> FALSE]) @@
  Under(<<"analysis", "artifacts">>, [enabled |-> FALSE]) @@
  Under(<<"analysis", "artifact_adjudication">>, [enabled |-> FALSE, allow_even_samples |-> FALSE])

Numbers ==
  Under(<<"llm">>, [timeout |-> 30, probe_timeout |-> 0, max_retries |-> 3]) @@
  Under(<<"catalog", "structuring">>,
        [min_decompose_words |-> 40, chunk_chars |-> 3000, max_validation_chars |-> 800, max_heading_repeats |-> 3]) @@
  Under(<<"attestation">>, [expiry_duration |-> 31536000, storage_retries |-> 3, storage_retry_delay |-> 2]) @@
  Under(<<"analysis", "engine">>, [task_timeout |-> 300, max_retries |-> 3, retry_backoff |-> 1]) @@
  Under(<<"analysis", "classification">>, [max_text_length |-> 2000, temperature |-> 0, max_tokens |-> 20]) @@
  Under(<<"analysis", "embedding">>, [max_chars |-> 1500, batch_size |-> 50]) @@
  Under(<<"analysis", "relationship">>,
        [max_source_chars |-> 1500, max_target_chars |-> 800, max_tokens |-> 300, samples_per_model |-> 1,
         sampling_temperature |-> 30]) @@
  Under(<<"analysis", "relationship", "confidence_weights">>, [high |-> 100, medium |-> 67, low |-> 33]) @@
  Under(<<"analysis", "requires">>,
        [samples_per_model |-> 1, sampling_temperature |-> 30, max_tokens |-> 300, consensus_threshold |-> 66,
         max_error_rate |-> 34, max_source_chars |-> 1500, max_target_chars |-> 800]) @@
  Under(<<"analysis", "artifacts">>,
        [samples_per_model |-> 0, max_tokens |-> 0, max_text_chars |-> 0, sampling_temperature |-> 0, fuzzy_threshold |-> 0]) @@
  Under(<<"analysis", "candidates">>, [min_embedding_coverage |-> 80, max_per_source |-> 10]) @@
  Under(<<"analysis", "artifact_adjudication">>,
        [samples_per_model |-> 3, sampling_temperature |-> 30, max_tokens |-> 200, consensus_threshold |-> 66,
         max_error_rate |-> 34, max_attempts |-> 5, lease_duration |-> 900, lease_batch |-> 10,
         panel_concurrency |-> 4, retry_base_delay |-> 60, retry_max_delay |-> 86400]) @@
  Under(<<"analysis", "result_cache">>, [lookup_batch_size |-> 1000]) @@
  Under(<<"worker">>, [max_abandoned_collections |-> 10000, max_in_flight |-> 1]) @@
  Under(<<"synthesis">>, [confidence_threshold |-> 50, max_mappings_per_control |-> 10]) @@
  Under(<<"synthesis", "viability">>, [type_mismatch_factor |-> 80, skip_level_factor |-> 70, integral_to_factor |-> 110]) @@
  Under(<<"synthesis", "assessment">>,
        [iqr_good |-> 2000, iqr_poor |-> 1000, no_rel_high |-> 97, no_rel_low |-> 80, contested_warn |-> 20,
         actionable_warn |-> 30]) @@
  Under(<<"pipeline">>, [max_concurrent_jobs |-> 10, stage_timeout |-> 86400]) @@
  Under(<<"graph">>, [max_bulk_edges |-> 1000]) @@
  Under(<<"backup", "max_age">>, [postgres |-> 93600, objects |-> 93600, nats |-> 93600])

Words ==
  Under(<<"cli">>, [output |-> "table", endpoint |-> ""]) @@
  Under(<<"tls">>, [mode |-> "off", ca |-> "", cert |-> "", key |-> ""]) @@
  Under(<<"storage", "objects">>, [backend |-> "local", base_path |-> ""]) @@
  Under(<<"logging">>, [level |-> "warn", format |-> "text"]) @@
  Under(<<"llm">>, [gateway_url |-> ""]) @@
  Under(<<"catalog", "structuring">>, [section_pattern |-> ""]) @@
  Under(<<"attestation">>, [private_key_path |-> "", public_key_path |-> ""]) @@
  Under(<<"analysis", "candidates">>, [embed_model |-> "arctic"]) @@
  Under(<<"worker">>, [queue_group |-> "llm-workers"]) @@
  Under(<<"tenants">>, [default_tenant |-> ""]) @@
  Under(<<"retention", "archive">>, [backend |-> ""]) @@
  Under(<<"backup">>, [dsn |-> ""]) @@
  Under(<<"backup", "destination">>, [backend |-> ""]) @@
  Under(<<"backup", "destination", "local">>, [path |-> ""]) @@
  Under(<<"backup", "destination", "s3">>, [bucket |-> ""]) @@
  (<<"role">> :> "all")

\* A retention tier is <<number, unit>>, <<>> when empty.
Tiers == {"attestation", "job_results", "catalogs", "embeddings", "audit_decisions", "audit_llm", "audit_events"}

Lists ==
  Under(<<"prompt", "layers">>, [order |-> <<>>]) @@
  Under(<<"prompt">>, [layer_paths |-> <<>>]) @@
  Under(<<"analysis", "embedding">>, [models |-> <<"arctic">>]) @@
  Under(<<"analysis", "relationship">>,
        [models |-> <<>>, actionable_types |-> <<"EQUIVALENT", "SUPERSET_OF", "SUBSET_OF", "CONTRIBUTES_TO",
                                                 "COMPLEMENTS", "CONFLICTS_WITH">>]) @@
  Under(<<"analysis", "requires">>, [models |-> <<>>]) @@
  Under(<<"analysis", "artifacts">>, [models |-> <<>>]) @@
  Under(<<"analysis", "artifact_adjudication">>, [models |-> <<>>]) @@
  Under(<<"analysis", "candidates">>, [generators |-> <<>>]) @@
  Under(<<"retention", "defaults">>,
        [attestation |-> <<7, "y">>, job_results |-> <<90, "d">>, catalogs |-> <<0, "indefinite">>,
         embeddings |-> <<90, "d">>, audit_decisions |-> <<0, "indefinite">>, audit_llm |-> <<90, "d">>,
         audit_events |-> <<30, "d">>])

Fields == Flags @@ Numbers @@ Words @@ Lists

\* analysis.artifacts has no compiled default: its fields start from zero.
defaultNode == [p \in {q \in DOMAIN Fields : ~IsPrefix(<<"analysis", "artifacts">>, q)} |-> Fields[p]]

-----------------------------------------------------------------------------
(* Problems: the path each is reported under, the rule, and, where the rule *)
(* names it, the setting whose layer is to blame instead of the path's own. *)

Blaming(path, rule, cond, setting) == IF cond THEN {[path |-> path, rule |-> rule, blame |-> setting]} ELSE {}
Bad(path, rule, cond) == Blaming(path, rule, cond, path)

NotOneOf(c, sec, key, S) == Bad(Append(sec, key), "one of", c[Append(sec, key)] \notin S)
Outside(c, sec, key, lo, hi) == Bad(Append(sec, key), "range", c[Append(sec, key)] \notin lo .. hi)
Below(c, sec, key, lo) == Bad(Append(sec, key), "range", c[Append(sec, key)] < lo)
EachOf(keys, Rule(_)) == UNION {Rule(k) : k \in keys}

\* A field of a section that is present in an override takes its zero value
\* when the override does not set it.
Get(c, path, zero) == IF path \in DOMAIN c THEN c[path] ELSE zero
Has(c, sec) == \E p \in DOMAIN c : IsPrefix(sec, p)
KeysOf(c, sec) == {p[Len(sec) + 1] : p \in {q \in DOMAIN c : IsStrictPrefix(sec, q)}}

\* What the rules of a tenant_overrides section share: the key is a tenant ID.
EachTenant(c, sec, Rule(_)) ==
  LET at == Append(sec, "tenant_overrides")
  IN EachOf(KeysOf(c, at), LAMBDA t :
       IF t \in TenantIDs THEN Rule(Append(at, t)) ELSE Bad(Append(at, t), "tenant ID", TRUE))

validateTLS(c) ==
  LET set(k) == c[<<"tls", k>>] # ""
      mode == c[<<"tls", "mode">>]
      needs == CASE mode = "mutual" -> {"cert", "key", "ca"} [] mode = "server-only" -> {"cert", "key"} [] OTHER -> {}
      targets == <<"tls", "targets">>
      modes == {"", "off", "server-only", "mutual"}
  IN NotOneOf(c, <<"tls">>, "mode", modes)
     \union Bad(<<"tls", "mode">>, "requires", \E k \in needs : ~set(k))
     \union EachOf(KeysOf(c, targets), LAMBDA n :
              Bad(targets \o <<n, "mode">>, "one of", Get(c, targets \o <<n, "mode">>, "") \notin modes))

validateStorage(c) == NotOneOf(c, <<"storage", "objects">>, "backend", {"", "local", "s3"})

validateLogging(c) ==
  NotOneOf(c, <<"logging">>, "level", {"", "debug", "info", "warn", "error"})
  \union NotOneOf(c, <<"logging">>, "format", {"", "text", "json"})

validateLLM(c) ==
  LET revisions == <<"llm", "model_revisions">>
  IN EachOf({"timeout", "probe_timeout", "max_retries"}, LAMBDA k : Below(c, <<"llm">>, k, 0))
     \union Bad(<<"llm", "gateway_url">>, "requires", c[<<"llm", "gateway_mode">>] /\ c[<<"llm", "gateway_url">>] = "")
     \union EachTenant(c, <<"llm">>, LAMBDA at :
              EachOf({"max_retries", "timeout"}, LAMBDA k : Bad(Append(at, k), "range", Get(c, Append(at, k), 0) < 0)))
     \union EachOf(KeysOf(c, revisions), LAMBDA alias :
              Bad(Append(revisions, alias), "revision",
                  alias = "" \/ c[Append(revisions, alias)] \in {"", "too long", "not printable"}))

validateAttestation(c) ==
  LET at == <<"attestation">>
      half(sec) == LET private == Get(c, Append(sec, "private_key_path"), "") # ""
                       public == Get(c, Append(sec, "public_key_path"), "") # ""
                   IN [one |-> private # public, private |-> private]
  IN Below(c, at, "expiry_duration", 1)
     \union Outside(c, at, "storage_retries", 0, 10)
     \union Outside(c, at, "storage_retry_delay", 0, 60)
     \union Bad(Append(at, IF half(at).private THEN "private_key_path" ELSE "public_key_path"), "both", half(at).one)
     \union EachTenant(c, at, LAMBDA t :
              Bad(Append(t, "expiry_duration"), "range", Get(c, Append(t, "expiry_duration"), 1) <= 0)
              \union Bad(Append(t, IF half(t).private THEN "private_key_path" ELSE "public_key_path"), "both", half(t).one))

validateCatalog(c) ==
  LET at == <<"catalog", "structuring">>
  IN EachOf({"min_decompose_words", "chunk_chars", "max_validation_chars", "max_heading_repeats"},
            LAMBDA k : Below(c, at, k, 0))
     \union Bad(Append(at, "section_pattern"), "regexp", c[Append(at, "section_pattern")] = "not a regexp")

\* A layer of the prompt's order is a record of an id, a merge mode and a
\* slice strategy.
validatePrompt(c) ==
  LET order == c[<<"prompt", "layers", "order">>]
      known == {"embedded", "user", "project", "cli"} \union Range(c[<<"prompt", "layer_paths">>])
      at(i, k) == <<"prompt", "layers", "order", ToString(i), k>>
  IN EachOf(DOMAIN order, LAMBDA i :
       Bad(at(i, "id"), "one of", order[i].id \notin known)
       \union Bad(at(i, "id"), "duplicate", order[i].id \in known /\ \E j \in 1 .. i - 1 : order[j].id = order[i].id)
       \union Bad(at(i, "merge"), "one of", order[i].merge \notin {"", "merge", "replace"})
       \union Bad(at(i, "slice_strategy"), "one of", order[i].slice \notin {"", "replace", "append", "deep_copy"}))
     \union EachTenant(c, <<"prompt">>, LAMBDA at_t : {})

-----------------------------------------------------------------------------
(* The analysis section. *)

EngineConfig_validate(c) ==
  LET at == <<"analysis", "engine">>
  IN Outside(c, at, "task_timeout", 1, 1800)
     \union Outside(c, at, "max_retries", 0, 10)
     \union Outside(c, at, "retry_backoff", 0, 300)

\* What the panels of requires, artifacts and artifact_adjudication share.
PanelRules(c, at) ==
  Bad(Append(at, "models"), "empty", c[Append(at, "models")] = <<>>)
  \union Below(c, at, "samples_per_model", 1)
  \union Below(c, at, "max_tokens", 1)
  \union Outside(c, at, "sampling_temperature", 0, 200)

VotingRules(c, at) ==
  Bad(Append(at, "samples_per_model"), "odd",
      /\ c[Append(at, "samples_per_model")] > 0
      /\ ~c[Append(at, "allow_even_samples")] /\ c[Append(at, "samples_per_model")] % 2 = 0)
  \union Outside(c, at, "consensus_threshold", 50, 100)
  \union Outside(c, at, "max_error_rate", 0, 100)

RequiresConfig_validate(c) ==
  LET at == <<"analysis", "requires">>
  IN IF ~c[Append(at, "enabled")] THEN {}
     ELSE PanelRules(c, at) \union VotingRules(c, at)
          \union Below(c, at, "max_source_chars", 1) \union Below(c, at, "max_target_chars", 1)

ArtifactsConfig_validate(c) ==
  LET at == <<"analysis", "artifacts">>
  IN IF ~c[Append(at, "enabled")] THEN {}
     ELSE PanelRules(c, at) \union Below(c, at, "max_text_chars", 1) \union Outside(c, at, "fuzzy_threshold", 1, 100)

\* The retry cap is compared only with a valid base delay.
ArtifactAdjudicationConfig_validate(c) ==
  LET at == <<"analysis", "artifact_adjudication">>
      base == c[Append(at, "retry_base_delay")]
  IN Below(c, at, "lease_duration", 1)
     \union IF ~c[Append(at, "enabled")] THEN {}
            ELSE PanelRules(c, at) \union VotingRules(c, at)
                 \union EachOf({"max_attempts", "lease_batch", "panel_concurrency", "retry_base_delay"},
                               LAMBDA k : Below(c, at, k, 1))
                 \union Bad(Append(at, "retry_max_delay"), "range",
                            base > 0 /\ c[Append(at, "retry_max_delay")] < base)

\* A generator is a record of its name, whether it is enabled, its weight and
\* its settings, each <<kind, value>> as YAML decodes it.
GeneratorAt(i) == <<"analysis", "candidates", "generators", ToString(i)>>

isPositiveInteger(v) == v[1] = "number" /\ v[2] > 0
isSimilarityThreshold(v) == v[1] = "number" /\ v[2] \in 0 .. 100
isNonEmptyStringList(v) == v[1] = "texts" /\ v[2] > 0

candidateGeneratorSettings ==
  [keyword |-> {"keywords"}, level |-> {}, lexical |-> {"top_k"}, semantic |-> {"top_k", "min_similarity"}]

SettingIsValid(key, v) ==
  CASE key = "keywords" -> isNonEmptyStringList(v)
    [] key = "top_k" -> isPositiveInteger(v)
    [] OTHER -> isSimilarityThreshold(v)

validateCandidateGenerators(c) ==
  LET gens == c[<<"analysis", "candidates", "generators">>]
  IN EachOf(DOMAIN gens, LAMBDA i :
       LET g == gens[i]
           at == GeneratorAt(i)
           known == g.name \in DOMAIN candidateGeneratorSettings
       IN Bad(Append(at, "weight"), "range", g.weight \notin 0 .. 100)
          \union Bad(Append(at, "name"), "one of", ~known)
          \union IF ~known THEN {}
                 ELSE EachOf(DOMAIN g.config, LAMBDA k :
                        Bad(at \o <<"config", k>>, "setting",
                            k \notin candidateGeneratorSettings[g.name] \/ ~SettingIsValid(k, g.config[k]))))

\* An enabled generator that ranks targets may not keep more of them than
\* max_per_source; without a top_k of its own it keeps ten.
CandidateConfig_validate(c) ==
  LET at == <<"analysis", "candidates">>
      gens == c[Append(at, "generators")]
      max == c[Append(at, "max_per_source")]
      topK(i) == Get(gens[i].config, "top_k", <<"default", 10>>)
  IN Outside(c, at, "min_embedding_coverage", 0, 100)
     \union Bad(Append(at, "embed_model"), "empty", c[Append(at, "embed_model")] = "")
     \union Below(c, at, "max_per_source", 1)
     \union EachOf({i \in DOMAIN gens : max >= 1 /\ gens[i].enabled /\ gens[i].name \in {"lexical", "semantic"}},
              LAMBDA i : IF topK(i)[1] = "default" THEN Bad(GeneratorAt(i), "top_k", 10 > max)
                         ELSE Bad(GeneratorAt(i) \o <<"config", "top_k">>, "max_per_source",
                                  isPositiveInteger(topK(i)) /\ topK(i)[2] > max))

\* The order of the weights is judged only when each is in range.
validateConfidenceWeights(c) ==
  LET at == <<"analysis", "relationship", "confidence_weights">>
      w(k) == c[Append(at, k)]
      alone == EachOf({"high", "medium", "low"}, LAMBDA k : Outside(c, at, k, 1, 100))
  IN IF alone # {} THEN alone
     ELSE Bad(Append(at, "medium"), "order", w("medium") > w("high"))
          \union Bad(Append(at, "low"), "order", w("low") > w("medium"))

validateAnalyzerDependencies(c) ==
  LET on(a) == c[<<"analysis", a, "enabled">>]
      gens == c[<<"analysis", "candidates", "generators">>]
  IN Bad(<<"analysis", "embedding", "enabled">>, "after classification", on("embedding") /\ ~on("classification"))
     \union EachOf({"relationship", "requires"}, LAMBDA a :
              Bad(<<"analysis", a, "enabled">>, "after embedding", on(a) /\ ~on("embedding"))
              \union Bad(<<"analysis", a, "enabled">>, "generator", on(a) /\ \A i \in DOMAIN gens : ~gens[i].enabled))

RelationshipTypes == {"EQUIVALENT", "SUPERSET_OF", "SUBSET_OF", "CONTRIBUTES_TO", "COMPLEMENTS", "PARTIAL",
                      "CONFLICTS_WITH", "NO_RELATIONSHIP"}

validateAnalysis(c) ==
  LET in(k) == <<"analysis", k>>
      models(k) == c[<<"analysis", k, "models">>]
      on(k) == c[<<"analysis", k, "enabled">>]
      types == c[<<"analysis", "relationship", "actionable_types">>]
      model == c[<<"analysis", "candidates", "embed_model">>]
  IN Below(c, in("classification"), "max_text_length", 1)
     \union Below(c, in("classification"), "max_tokens", 1)
     \union Outside(c, in("classification"), "temperature", 0, 200)
     \union Below(c, in("embedding"), "max_chars", 0)
     \union Below(c, in("embedding"), "batch_size", 1)
     \union EachOf({"max_source_chars", "max_target_chars", "max_tokens", "samples_per_model"},
                   LAMBDA k : Below(c, in("relationship"), k, 1))
     \union Outside(c, in("relationship"), "sampling_temperature", 0, 200)
     \union EachOf({"embedding", "relationship"}, LAMBDA a :
              Bad(<<"analysis", a, "models">>, "empty", on(a) /\ models(a) = <<>>))
     \union validateConfidenceWeights(c)
     \union EachOf(DOMAIN types, LAMBDA i :
              Bad(<<"analysis", "relationship", "actionable_types">>, ToString(i), types[i] \notin RelationshipTypes))
     \union EngineConfig_validate(c)
     \union RequiresConfig_validate(c)
     \union ArtifactsConfig_validate(c)
     \union ArtifactAdjudicationConfig_validate(c)
     \union CandidateConfig_validate(c)
     \union validateCandidateGenerators(c)
     \union validateAnalyzerDependencies(c)
     \union Bad(<<"analysis", "candidates", "embed_model">>, "one of models",
                on("embedding") /\ model # "" /\ models("embedding") # <<>> /\ model \notin Range(models("embedding")))
     \union Outside(c, in("result_cache"), "lookup_batch_size", 1, 10000)
     \union EachTenant(c, in("result_cache"), LAMBDA t :
              Bad(Append(t, "lookup_batch_size"), "range", Get(c, Append(t, "lookup_batch_size"), 1) \notin 1 .. 10000))

-----------------------------------------------------------------------------
(* The other sections. *)

WorkerConfig_validate(c) ==
  Bad(<<"worker", "queue_group">>, "blank", c[<<"worker", "queue_group">>] = "blank")
  \union Outside(c, <<"worker">>, "max_abandoned_collections", 1, 100000)
  \union Outside(c, <<"worker">>, "max_in_flight", 1, 256)

PipelineConfig_validate(c) ==
  Outside(c, <<"pipeline">>, "max_concurrent_jobs", 0, 100)
  \union Outside(c, <<"pipeline">>, "stage_timeout", 1, 604800)

Viability(v, at) ==
  EachOf({"type_mismatch_factor", "skip_level_factor", "integral_to_factor"},
         LAMBDA k : Bad(Append(at, k), "range", v[k] \notin 1 .. 200))

Assessment(a, at) ==
  EachOf({"iqr_good", "iqr_poor"}, LAMBDA k : Bad(Append(at, k), "range", a[k] <= 0))
  \union Bad(Append(at, "iqr_good"), "order", a.iqr_good > 0 /\ a.iqr_poor > 0 /\ a.iqr_good <= a.iqr_poor)
  \union EachOf({"no_rel_high", "no_rel_low", "contested_warn", "actionable_warn"},
                LAMBDA k : Bad(Append(at, k), "range", a[k] \notin 0 .. 100))
  \union Bad(Append(at, "no_rel_high"), "order",
             a.no_rel_high \in 0 .. 100 /\ a.no_rel_low \in 0 .. 100 /\ a.no_rel_high <= a.no_rel_low)

\* The section at a path, as a record of the fields named.
Section(c, at, fields) == [k \in fields |-> Get(c, Append(at, k), 0)]
ViabilityOf(c, at) == Section(c, at, {"type_mismatch_factor", "skip_level_factor", "integral_to_factor"})
AssessmentOf(c, at) ==
  Section(c, at, {"iqr_good", "iqr_poor", "no_rel_high", "no_rel_low", "contested_warn", "actionable_warn"})

validateSynthesis(c) ==
  LET at == <<"synthesis">>
  IN Viability(ViabilityOf(c, Append(at, "viability")), Append(at, "viability"))
     \union Assessment(AssessmentOf(c, Append(at, "assessment")), Append(at, "assessment"))
     \union Outside(c, at, "confidence_threshold", 0, 100)
     \union Below(c, at, "max_mappings_per_control", 1)
     \union EachTenant(c, at, LAMBDA t :
              LET v == Append(t, "viability")
                  a == Append(t, "assessment")
              IN Bad(Append(t, "confidence_threshold"), "range", Get(c, Append(t, "confidence_threshold"), 0) \notin 0 .. 100)
                 \union Bad(Append(t, "max_mappings_per_control"), "range",
                            Get(c, Append(t, "max_mappings_per_control"), 1) <= 0)
                 \union (IF Has(c, v) THEN Viability(ViabilityOf(c, v), v) ELSE {})
                 \union (IF Has(c, a) THEN Assessment(AssessmentOf(c, a), a) ELSE {}))

\* A number of years or days becomes a time.Duration, whose 64 bits of
\* nanoseconds wrap around after DayLimit days; a Go duration is parsed with
\* an overflow check.
ParseRetention(tier) ==
  LET fits(days) == days % (2 * DayLimit) < DayLimit
  IN CASE tier[2] = "indefinite" -> TRUE
       [] tier[2] = "y" -> fits(365 * tier[1])
       [] tier[2] = "d" -> fits(tier[1])
       [] tier[2] = "go" -> tier[1] >= 0
       [] OTHER -> FALSE

validateRetentionTiers(c, at) ==
  EachOf(Tiers, LAMBDA k : LET tier == Get(c, Append(at, k), <<>>)
                           IN Bad(Append(at, k), "duration", tier # <<>> /\ ~ParseRetention(tier)))

\* The keys of retention.tenants are not checked to be tenant IDs.
RetentionConfig_validate(c) ==
  NotOneOf(c, <<"retention", "archive">>, "backend", {"", "local", "s3"})
  \union validateRetentionTiers(c, <<"retention", "defaults">>)
  \union EachOf(KeysOf(c, <<"retention", "tenants">>), LAMBDA t : validateRetentionTiers(c, <<"retention", "tenants", t>>))

\* Directories are "", a "relative" one, or an absolute "/", "/a", "/a/b", "/c".
pathsOverlap(a, b) ==
  \/ "/" \in {a, b}
  \/ a = b
  \/ {a, b} = {"/a", "/a/b"}

validateBackup(c) ==
  LET at == <<"backup", "destination">>
      backend == c[Append(at, "backend")]
      path == c[at \o <<"local", "path">>]
      objects == c[<<"storage", "objects", "base_path">>]
  IN NotOneOf(c, at, "backend", {"", "local", "s3"})
     \union EachOf({"postgres", "objects", "nats"}, LAMBDA k : Below(c, <<"backup", "max_age">>, k, 1))
     \union Bad(<<"backup", "dsn">>, "postgres URL", c[<<"backup", "dsn">>] \notin {"", "postgres"})
     \union Blaming(<<"backup", "dsn">>, "requires", backend \in {"local", "s3"} /\ c[<<"backup", "dsn">>] = "",
                    Append(at, "backend"))
     \union Bad(at \o <<"local", "path">>, "absolute", backend = "local" /\ path \in {"", "relative"})
     \union Bad(at \o <<"local", "path">>, "overlap",
                /\ backend = "local" /\ path \notin {"", "relative"}
                /\ c[<<"storage", "objects", "backend">>] = "local" /\ objects # "" /\ pathsOverlap(path, objects))
     \union Blaming(at \o <<"s3", "bucket">>, "requires", backend = "s3" /\ c[at \o <<"s3", "bucket">>] = "",
                    Append(at, "backend"))

validateGraph(c) == Outside(c, <<"graph">>, "max_bulk_edges", 1, 10000)

validateTenants(c) ==
  Bad(<<"tenants", "default_tenant">>, "tenant ID", c[<<"tenants", "default_tenant">>] \notin TenantIDs \union {""})

ResolveRole(role) ==
  CASE role \in {"all", "gateway", "pipeline", "worker", "graph"} -> role
    [] role \in {"analysis", "synthesis"} -> "pipeline"
    [] OTHER -> "unknown"

validateRole(c) == Bad(<<"role">>, "one of", c[<<"role">>] # "" /\ ResolveRole(c[<<"role">>]) = "unknown")

validate(c) ==
  UNION {validateTLS(c), validateStorage(c), validateLogging(c), validateLLM(c), validateCatalog(c),
         validateAttestation(c), validatePrompt(c), validateAnalysis(c), WorkerConfig_validate(c),
         PipelineConfig_validate(c), validateSynthesis(c), RetentionConfig_validate(c), validateBackup(c),
         validateGraph(c), validateTenants(c), validateRole(c)}

\* What validating changes in the configuration it accepts: behind a gateway
\* the client does not retry, and a role's alias becomes the role.
normalised(c) ==
  [c EXCEPT ![<<"llm", "max_retries">>] = IF c[<<"llm", "gateway_mode">>] THEN 0 ELSE @,
            ![<<"role">>] = IF @ = "" THEN "" ELSE ResolveRole(@)]

=============================================================================
