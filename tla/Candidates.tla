------------------------------ MODULE Candidates ------------------------------
(***************************************************************************)
(* Candidate generation (pkg/analyzer/candidate and its builtin            *)
(* generators, internal/pipeline/candidate_*.go): which pairs of controls  *)
(* the pair analyzers are asked about.                                     *)
(*                                                                         *)
(* A candidate is [source, target, score, weight, generator]; scores are   *)
(* fractions.  The semantic generator leaves ties to the order of a map    *)
(* and of an unstable sort, so generators return the SET of lists they may *)
(* produce.  The text of a control is what the generators can tell apart:  *)
(* whether it has a keyword, and its BM25 score against another control.   *)
(***************************************************************************)
EXTENDS Analyzers

CONSTANTS
    Generator,      \* generator name -> [weight, topK, minSimilarity]
    Cosine,         \* <<control, control>> -> similarity of their vectors, in percent
    Bm25,           \* <<source, target>> -> score; 0 when no term is shared
    Foundational,   \* the controls whose text contains a keyword
    MaxPerSource,   \* analysis.candidates.max_per_source
    MinCoverage,    \* analysis.candidates.min_embedding_coverage, a fraction
    IDOrder         \* the control IDs in string order

ASSUME CandidateAssumption ==
    /\ MaxPerSource \in Nat \ {0}
    /\ \A g \in DOMAIN Generator : Generator[g].topK \in Nat \ {0} /\ Generator[g].weight \in Nat

Before(c, d) == SelectInSeq(IDOrder, LAMBDA x : x = c) < SelectInSeq(IDOrder, LAMBDA x : x = d)

\* BuildCandidateRegistry: an entry with no weight weighs one (100 here).
WeightOf(g) == IF Generator[g].weight = 0 THEN 100 ELSE Generator[g].weight

Cand(g, s, t, score) ==
    [source |-> s, target |-> t, score |-> score, weight |-> WeightOf(g), generator |-> g]
-----------------------------------------------------------------------------
(* Readers *)

\* The controls of a catalog that may be compared, with the classification
\* the classify stage stored.
ControlData(catalog, classified) ==
    LET ids == {c \in DOMAIN Control : Control[c].catalog = catalog /\ ~Skipped(c)}
    IN [c \in ids |-> ClassOf(classified, c)]

ControlsWithText(catalog, classified) ==
    LET all == ControlData(catalog, classified)
    IN [c \in {x \in DOMAIN all : HasText(x)} |-> all[c]]

\* The controls with a row in the similarity matrix: a vector counts only
\* under its control's present catalog.
MatrixIDs(embeddings, catalogs, model) ==
    {e.control : e \in {x \in embeddings : /\ x.model = model
                                           /\ x.catalog \in catalogs
                                           /\ x.control \in DOMAIN Control
                                           /\ Control[x.control].catalog = x.catalog}}

MatrixSimilarity(ids, s, t) == IF s \in ids /\ t \in ids THEN Cosine[<<s, t>>] ELSE 0

Covered(controls, ids) ==
    \/ DOMAIN controls = {}
    \/ AtLeast(Frac(Cardinality(DOMAIN controls \cap ids), Cardinality(DOMAIN controls)), MinCoverage)
-----------------------------------------------------------------------------
(* The builtin generators *)

\* The sets of at most k elements of S that sorting may leave in front: no
\* element left out is better than one taken (the pairs of `better`).
TopSets(S, k, better) ==
    {T \in SUBSET S : /\ Cardinality(T) = Min({k, Cardinality(S)})
                      /\ \A t \in T, u \in S \ T : <<u, t>> \notin better}

\* One choice per source, joined.
PerSource(sources, choices(_)) ==
    {UNION {f[s] : s \in sources} : f \in {g \in [sources -> UNION {choices(s) : s \in sources}] :
                                              \A s \in sources : g[s] \in choices(s)}}

SemanticGenerate(source, target, ids) ==
    LET near(s) == {t \in (DOMAIN target \cap ids) \ {s} :
                        Cosine[<<s, t>>] >= Generator["semantic"].minSimilarity}
        top(s) == TopSets(near(s), Generator["semantic"].topK,
                          {<<t, u>> \in near(s) \X near(s) : Cosine[<<s, t>>] > Cosine[<<s, u>>]})
        cand(s, t) == Cand("semantic", s, t, Frac(Cosine[<<s, t>>], 100))
    IN PerSource(DOMAIN source \cap ids, LAMBDA s : {{cand(s, t) : t \in T} : T \in top(s)})

LexicalGenerate(source, target) ==
    LET hits(s) == {t \in DOMAIN target \ {s} : Bm25[<<s, t>>] > 0}
        best(s) == Max({Bm25[<<s, t>>] : t \in hits(s)})
        top(s) == TopSets(hits(s), Generator["lexical"].topK,
                          {<<t, u>> \in hits(s) \X hits(s) :
                              \/ Bm25[<<s, t>>] > Bm25[<<s, u>>]
                              \/ Bm25[<<s, t>>] = Bm25[<<s, u>>] /\ Before(t, u)})
        cand(s, t) == Cand("lexical", s, t, Frac(Bm25[<<s, t>>], best(s)))
    IN PerSource(DOMAIN source, LAMBDA s : {{cand(s, t) : t \in T} : T \in top(s)})

KeywordGenerate(source, target) ==
    {{Cand("keyword", s, t, Frac(1, 1)) : <<s, t>> \in
        {p \in (DOMAIN source) \X (DOMAIN target \cap Foundational) : p[1] # p[2]}}}

Levels == <<"Strategic", "Tactical", "Operational">>
LevelIndex(controls, c) == SelectInSeq(Levels, LAMBDA l : l = controls[c].level)

LevelGenerate(source, target) ==
    LET levelled(controls) == {c \in DOMAIN controls : LevelIndex(controls, c) > 0}
    IN {{Cand("level", p[1], p[2], Frac(1, 1)) :
            p \in {q \in levelled(source) \X levelled(target) :
                        LevelIndex(target, q[2]) < LevelIndex(source, q[1])}}}

Generate(g, source, target, ids) ==
    CASE g = "semantic" -> SemanticGenerate(source, target, ids)
      [] g = "lexical" -> LexicalGenerate(source, target)
      [] g = "keyword" -> KeywordGenerate(source, target)
      [] g = "level" -> LevelGenerate(source, target)
-----------------------------------------------------------------------------
(* Rank fusion.  Ranks are doubled so that the mean of a tie is an integer. *)

\* Twice the mean of the positions that the candidates scored like c share.
FractionalRank(group, c) ==
    LET above == Cardinality({d \in group : Exceeds(d.score, c.score)})
        tied == Cardinality({d \in group : ~Exceeds(d.score, c.score) /\ ~Exceeds(c.score, d.score)})
    IN (above + 1) + (above + tied)

\* The group of a list that c was ranked in.
SourceGroup(list, s) == {c \in list : c.source = s}

FracSum(S, val(_)) ==
    FoldSet(LAMBDA x, sum : Frac(sum.n * val(x).d + val(x).n * sum.d, sum.d * val(x).d), Frac(0, 1), S)

\* weight / (60 + rank), summed over the generators that propose the pair.
FusedScore(lists, p) ==
    LET contributions == UNION {{c \in list : c.source = p[1] /\ c.target = p[2]} : list \in lists}
        listOf(c) == CHOOSE list \in lists : c \in list
        rank(c) == FractionalRank(SourceGroup(listOf(c), p[1]), c)
    IN FracSum(contributions, LAMBDA c : Frac(2 * c.weight, 120 + rank(c)))

\* The fused pairs, the best MaxPerSource of each source; ties go to the
\* smaller target ID.
AggregateRankFusion(lists) ==
    LET pairs == UNION {{<<c.source, c.target>> : c \in list} : list \in lists}
        score == [p \in pairs |-> FusedScore(lists, p)]
        better(p, q) == \/ Exceeds(score[p], score[q])
                        \/ ~Exceeds(score[q], score[p]) /\ Before(p[2], q[2])
        kept == {p \in pairs :
                    Cardinality({q \in pairs : q[1] = p[1] /\ q # p /\ better(q, p)}) < MaxPerSource}
    IN [p \in kept |-> score[p]]

\* What the registry may return for one request: every generator is called,
\* in the order of a map, and fused.
RegistryGenerate(gens, source, target, ids) ==
    LET outputs(g) == Generate(g, source, target, ids)
        choices == {f \in [gens -> UNION {outputs(g) : g \in gens}] : \A g \in gens : f[g] \in outputs(g)}
    IN {AggregateRankFusion({f[g] : g \in gens}) : f \in choices}
-----------------------------------------------------------------------------
(* Candidate generation for a job: cats = [source, target, bidirectional]  *)

InsufficientCoverage(cats, classified, embeddings, model) ==
    \E catalog \in {cats.source, cats.target} :
        ~Covered(ControlsWithText(catalog, classified), MatrixIDs(embeddings, {cats.source, cats.target}, model))

\* The sets of pairs generation may choose, each with its fused score: one
\* request, or one per direction.
GenerateCandidates(gens, cats, classified, embeddings, model) ==
    LET source == ControlsWithText(cats.source, classified)
        target == ControlsWithText(cats.target, classified)
        ids == MatrixIDs(embeddings, {cats.source, cats.target}, model)
        forward == RegistryGenerate(gens, source, target, ids)
        back == RegistryGenerate(gens, target, source, ids)
    IN IF ~cats.bidirectional THEN forward ELSE {b @@ f : f \in forward, b \in back}

\* The rows for the two candidate tables.
RequiresRows(candidates) == candidates
RelationshipRows(candidates, ids) ==
    [p \in DOMAIN candidates |-> MatrixSimilarity(ids, p[1], p[2])]

\* INSERT ... ON CONFLICT DO UPDATE: rows of an earlier attempt stay.
WriteRequiresCandidates(table, rows) == rows @@ table
WriteRelationshipCandidates(table, rows) == rows @@ table
=============================================================================
