---------------------------- MODULE MCAnalysisJob ----------------------------
(***************************************************************************)
(* A small instance of AnalysisJob: catalog "src" with one control, catalog*)
(* "tgt" with two and a withdrawn one, two voters.  Each scenario varies   *)
(* one thing: the answers of one analyzer, or the mishaps.                 *)
(***************************************************************************)
EXTENDS AnalysisJob

AC1 == <<"ac", "1">>
IA2 == <<"ia", "2">>
IA3 == <<"ia", "3">>
IA9 == <<"ia", "9">>
MCModels == <<<<"llama", "3">>, <<"qwen">>>>
MCEmbedModels == <<<<"arctic", "2">>>>
MCNameOrder == <<"artifacts", "classify", "embedding", "relationship", "requires">>
MCRegistry == [artifacts |-> {}, classify |-> {}, embedding |-> {"classify"},
               relationship |-> {"embedding"}, requires |-> {"embedding"}]
MCIDOrder == <<AC1, IA2, IA3, IA9>>
MCControl ==
    [c \in {AC1, IA2, IA3, IA9} |->
       [catalog |-> IF c = AC1 THEN "src" ELSE "tgt", section |-> FALSE, withdrawn |-> c = IA9,
        statement |-> "text"]]
Pairs == {<<c, d>> : c, d \in {AC1, IA2, IA3, IA9}}
MCCosine == [p \in Pairs |-> IF p[1] = p[2] THEN 100 ELSE 80]
MCBm25 == [p \in Pairs |-> IF IA3 \in {p[1], p[2]} THEN 4 ELSE 2]
MCFoundational == {IA3}
MCGenerator ==
    [semantic |-> [weight |-> 100, topK |-> 1, minSimilarity |-> 50],
     lexical |-> [weight |-> 50, topK |-> 2, minSimilarity |-> 0],
     keyword |-> [weight |-> 0, topK |-> 1, minSimilarity |-> 0],
     level |-> [weight |-> 100, topK |-> 1, minSimilarity |-> 0]]
MCThreshold == Frac(66, 100)
MCErrorRate == Frac(34, 100)
MCWeights == [HIGH |-> 1000, MEDIUM |-> 700, LOW |-> 400]
MCFuzzy == Frac(60, 100)
MCCoverage == Frac(80, 100)
MCViability == [typeMismatch |-> 70, skipLevel |-> 50, integralTo |-> 120]
MCConfidence == Frac(0, 1)
MCAssessment == [iqrGood |-> Frac(15, 1), iqrPoor |-> Frac(5, 1), noRelHigh |-> Frac(80, 100),
                 noRelLow |-> Frac(5, 100), contestedWarn |-> Frac(30, 100), actionableWarn |-> Frac(50, 100)]
MCActionable == {"EQUIVALENT", "SUPERSET_OF", "SUBSET_OF", "CONTRIBUTES_TO"}

Err == [kind |-> "error"]
Req(v) == [kind |-> "text", requires |-> v]
Rel(r, c, l) == [kind |-> "text", relationship |-> r, contribution |-> c, confidence |-> l]
Cls(t, l) == [kind |-> "text", empty |-> t = {}, type |-> t, level |-> l]
Art(bs, none) == [kind |-> "text", blocks |-> bs, none |-> none]
Log == [name |-> <<"audit", "log">>, type |-> "RECORD"]
Plan == [name |-> <<"the", "access", "plan">>, type |-> "PLAN"]

Fixed == [artifacts |-> {Art(<<Plan>>, FALSE)},
          classify |-> {Cls({"Technical"}, {"Tactical"})},
          embedding |-> {[kind |-> "text", vectors |-> 1]},
          relationship |-> {Rel("EQUIVALENT", "", "HIGH")},
          requires |-> {Req("YES")}]
InOrder == [a \in DOMAIN Fixed |-> "fixed"]

Scenario(answers, orders, gens, both, attested, n) ==
    [answers |-> answers, orders |-> orders, gens |-> gens, attested |-> attested, mishaps |-> n,
     cats |-> [source |-> "src", target |-> "tgt", bidirectional |-> both]]

\* Prerequisite votes.
RequiresVaries ==
    Scenario([Fixed EXCEPT !.requires = {Req("YES"), Req("NO"), Req("MAYBE"), Err}],
             [InOrder EXCEPT !.requires = "reversible"], {"lexical"}, FALSE, FALSE, 0)
\* Relationship votes, over the pairs of both directions.
RelationshipVaries ==
    Scenario([Fixed EXCEPT !.relationship = {Rel("EQUIVALENT", "", "HIGH"), Rel("CONTRIBUTES_TO", "INTEGRAL_TO", "MEDIUM"),
                                             Rel(NoRelationship, "", "LOW"), Rel("SAME", "", ""), Err}],
             [InOrder EXCEPT !.relationship = "reversible"], {"keyword", "lexical"}, FALSE, FALSE, 0)
\* Classifications, which choose the pairs and their viability.
ClassifyVaries ==
    Scenario([Fixed EXCEPT !.classify = {Cls({"Technical"}, {"Strategic"}), Cls({"Procedural"}, {"Operational"}),
                                         Cls({}, {}), Err}],
             [InOrder EXCEPT !.classify = "reversible"], {"level", "lexical"}, TRUE, FALSE, 0)
\* Artifacts of two voters, named alike or not.
ArtifactsVary ==
    Scenario([Fixed EXCEPT !.artifacts = {Art(<<Plan>>, FALSE), Art(<<[Plan EXCEPT !.name = Tail(@)], Log>>, FALSE),
                                          Art(<<>>, FALSE)}],
             InOrder, {"lexical"}, FALSE, TRUE, 0)
\* Embeddings that fail, and with them the coverage.
EmbeddingVaries ==
    Scenario([Fixed EXCEPT !.embedding = {[kind |-> "text", vectors |-> 1], [kind |-> "text", vectors |-> 0], Err}],
             InOrder, {"semantic"}, FALSE, TRUE, 0)
\* Mishaps: semantic ties and prerequisite answers may differ between runs.
MishapsVary(attested) ==
    Scenario([Fixed EXCEPT !.requires = {Req("YES"), Req("NO")}], InOrder, {"semantic"}, FALSE, attested, 2)

MCScenarios ==
    {RequiresVaries, ArtifactsVary, RelationshipVaries, ClassifyVaries, EmbeddingVaries, MishapsVary(TRUE)}
=============================================================================
