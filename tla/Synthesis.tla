------------------------------- MODULE Synthesis -------------------------------
(***************************************************************************)
(* Synthesis (internal/synthesis, internal/pipeline/synthesis_inputs.go    *)
(* and vote_summaries.go): the stored results of the pair analyzers become *)
(* ranked rows, a quality report, and the viability column of              *)
(* vote_summaries.  Similarities are percentages, viabilities hundredths   *)
(* of a percent, factors hundredths.                                       *)
(***************************************************************************)
EXTENDS Candidates

CONSTANTS
    Viability,           \* [typeMismatch, skipLevel, integralTo], in hundredths
    ConfidenceThreshold, \* synthesis.confidence_threshold, a fraction
    MaxMappings,         \* synthesis.max_mappings_per_control, 0 for no cap
    Assessment,          \* [iqrGood, iqrPoor, noRelHigh, noRelLow, contestedWarn, actionableWarn]
    ActionableTypes      \* analysis.relationship.actionable_types

ConsensusRequires == "requires"
-----------------------------------------------------------------------------
(* vote_summaries: <<source, target, analyzer>> -> [consensus, confidence, viability] *)

BuildVoteSummaryPairs(requires, relationship) ==
    {[key |-> <<r.source, r.target, "requires">>, consensus |-> ConsensusRequires,
      confidence |-> r.confidence] : r \in requires}
    \cup {[key |-> <<r.source, r.target, "relationship">>, consensus |-> r.relationship,
           confidence |-> r.confidence] : r \in relationship}

\* A pair listed twice by one analyzer is a corrupt result, and nothing is written.
CorruptPairs(pairs) == \E p, q \in pairs : p # q /\ p.key = q.key

\* INSERT ... ON CONFLICT DO NOTHING: a row that is there stays as it is.
WriteVoteSummaries(table, pairs) ==
    table @@ [k \in {p.key : p \in pairs} |->
                LET p == CHOOSE q \in pairs : q.key = k
                IN [consensus |-> p.consensus, confidence |-> p.confidence, viability |-> 0]]
-----------------------------------------------------------------------------
(* Inputs *)

\* The similarities of a pair, one per model whose matrix has both controls.
SimilarityStats(matrices, s, t) ==
    LET models == {m \in DOMAIN matrices : s \in matrices[m] /\ t \in matrices[m]}
    IN [sum |-> Cardinality(models) * Cosine[<<s, t>>], count |-> Cardinality(models)]

Input(r, analyzer, consensus, contribution, matrices) ==
    [source |-> r.source, target |-> r.target, similarity |-> SimilarityStats(matrices, r.source, r.target),
     consensus |-> consensus, analyzer |-> analyzer, contribution |-> contribution,
     confidence |-> r.confidence, unanimous |-> r.unanimous]

PairBefore(r, q) ==
    Before(r.source, q.source) \/ (r.source = q.source /\ Before(r.target, q.target))

\* Requires results first, then relationship results, each in the order of
\* the stored, sorted list.
BuildSynthesisInputs(requires, relationship, matrices) ==
    LET reqs == SortedList(requires, PairBefore)
        rels == SortedList(relationship, PairBefore)
    IN [i \in 1..Len(reqs) |-> Input(reqs[i], "requires", ConsensusRequires, "", matrices)]
       \o [i \in 1..Len(rels) |->
             Input(rels[i], "relationship", rels[i].relationship, rels[i].contribution, matrices)]

ValidateInputs(inputs) ==
    \A i \in 1..Len(inputs) : inputs[i].similarity.sum >= 0
-----------------------------------------------------------------------------
(* Ranking *)

GetType(class) == IF class.type = "" THEN "Unknown" ELSE class.type
GetLevel(class) == IF class.level = "" THEN "Tactical" ELSE class.level

AbstractionIndex(level) == IF level = "Strategic" THEN 0 ELSE IF level = "Operational" THEN 2 ELSE 1

TypeFactor(s, t) ==
    IF s = t \/ "Both" \in {s, t} THEN 100
    ELSE IF {s, t} \cap {"Unknown", "None"} # {} THEN 90
    ELSE Viability.typeMismatch

LevelFactor(s, t) ==
    IF AbstractionIndex(s) - AbstractionIndex(t) \in -1..1 THEN 100 ELSE Viability.skipLevel

\* Rounded to two decimals once before and once after the contribution factor.
ComputeViability(similarity, src, tgt) ==
    IF similarity.count = 0 THEN 0
    ELSE RoundDiv(similarity.sum * TypeFactor(GetType(src), GetType(tgt))
                                 * LevelFactor(GetLevel(src), GetLevel(tgt)),
                  100 * similarity.count)

ComputeViabilityWeight(input, src, tgt) ==
    LET v == ComputeViability(input.similarity, src, tgt)
    IN RoundDiv(v * (IF input.contribution = "INTEGRAL_TO" THEN Viability.integralTo ELSE 100), 100)

Rank(inputs, classified) ==
    [i \in 1..Len(inputs) |->
       [input |-> inputs[i],
        viability |-> ComputeViabilityWeight(inputs[i], ClassOf(classified, inputs[i].source),
                                             ClassOf(classified, inputs[i].target))]]

FilterByConfidence(rows) ==
    IF ConfidenceThreshold.n = 0 THEN rows
    ELSE SelectSeq(rows, LAMBDA r : AtLeast(r.input.confidence, ConfidenceThreshold))

\* The most viable MaxMappings rows of each source; the sort keeps the order
\* of equal rows for the group sizes of these instances.
CapMappingsPerSource(rows) ==
    LET ahead(i, j) == /\ rows[i].input.source = rows[j].input.source
                       /\ \/ rows[i].viability > rows[j].viability
                          \/ rows[i].viability = rows[j].viability /\ i < j
        kept == {j \in 1..Len(rows) : Cardinality({i \in 1..Len(rows) : ahead(i, j)}) < MaxMappings}
    IN IF MaxMappings = 0 THEN {rows[i] : i \in 1..Len(rows)} ELSE {rows[j] : j \in kept}

ExecuteRows(inputs, classified) == CapMappingsPerSource(FilterByConfidence(Rank(inputs, classified)))

\* UPDATE ... RETURNING: fewer rows than expected rolls the transaction back.
RowKey(r) == <<r.input.source, r.input.target, r.input.analyzer>>
RowsFound(table, rows) == \A r \in rows : RowKey(r) \in DOMAIN table

\* Mutant: the update matches a pair, whichever analyzer the row is of.
PersistViabilityByPair(table, rows) ==
    LET ofPair(k) == {r \in rows : r.input.source = k[1] /\ r.input.target = k[2]}
    IN [k \in DOMAIN table |->
          IF ofPair(k) # {} THEN [table[k] EXCEPT !.viability = (CHOOSE r \in ofPair(k) : TRUE).viability]
          ELSE table[k]]

PersistViability(table, rows) ==
    [k \in DOMAIN table |->
       IF \E r \in rows : RowKey(r) = k
       THEN [table[k] EXCEPT !.viability = (CHOOSE r \in rows : RowKey(r) = k).viability]
       ELSE table[k]]
-----------------------------------------------------------------------------
(* Quality report *)

\* Means in twelfths of a percent, so that up to four models divide exactly.
MeanTwelfths(similarity) ==
    IF similarity.count = 0 THEN 0 ELSE (12 * similarity.sum) \div similarity.count

\* Four times the q/4 quantile of a sorted sequence, interpolated.
Percentile(sorted, q) ==
    LET at == q * (Len(sorted) - 1)
        lo == at \div 4
        hi == Min({lo + 1, Len(sorted) - 1})
    IN 4 * sorted[lo + 1] + (at % 4) * (sorted[hi + 1] - sorted[lo + 1])

DiagnoseIQR(rows) ==
    LET sorted == SortSeq(Listed({<<r, MeanTwelfths(r.input.similarity)>> : r \in rows}),
                          LAMBDA a, b : a[2] < b[2])
        means == [i \in 1..Len(sorted) |-> sorted[i][2]]
        iqr == Frac(Percentile(means, 3) - Percentile(means, 1), 48)
    IN IF Cardinality(rows) < 4 THEN "WARN"
       ELSE IF AtLeast(iqr, Assessment.iqrGood) THEN "GOOD"
       ELSE IF Exceeds(Assessment.iqrPoor, iqr) THEN "POOR" ELSE "WARN"

DiagnoseNoRelRate(rows) ==
    LET rate == Frac(Cardinality({r \in rows : r.input.consensus = NoRelationship}), Cardinality(rows))
    IN IF Exceeds(rate, Assessment.noRelHigh) THEN "POOR"
       ELSE IF Exceeds(Assessment.noRelLow, rate) THEN "WARN" ELSE "GOOD"

DiagnoseContested(rows) ==
    IF Exceeds(Frac(Cardinality({r \in rows : ~r.input.unanimous}), Cardinality(rows)),
               Assessment.contestedWarn) THEN "WARN" ELSE "GOOD"

\* A source is covered by an actionable row that is viable; a requires row
\* is always actionable.
DiagnoseActionableCoverage(rows) ==
    LET actionable == {r \in rows : /\ r.input.consensus \in ActionableTypes \cup {ConsensusRequires}
                                    /\ r.viability > 0}
        sources(S) == {r.input.source : r \in S}
    IN IF Exceeds(Assessment.actionableWarn,
                  Frac(Cardinality(sources(actionable)), Cardinality(sources(rows))))
       THEN "WARN" ELSE "GOOD"

Assess(rows) ==
    IF rows = {} THEN [total |-> 0, viable |-> 0, diagnostics |-> <<>>]
    ELSE [total |-> Cardinality(rows),
          viable |-> Cardinality({r \in rows : r.viability > 0}),
          diagnostics |-> <<DiagnoseIQR(rows), DiagnoseNoRelRate(rows), DiagnoseContested(rows),
                            DiagnoseActionableCoverage(rows)>>]

\* The digest of the report covers the trace it was computed in.
ComputeContentHash(report, trace) == <<"synthesis", report, trace>>
=============================================================================
