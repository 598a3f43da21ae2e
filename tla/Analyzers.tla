------------------------------ MODULE Analyzers ------------------------------
(***************************************************************************)
(* The five analyzers of a job (internal/analyzer/*, pkg/analyzer): the    *)
(* work each generates, how a worker's raw answer is parsed, and how the   *)
(* results of a stage, in whatever order they arrived, are aggregated.     *)
(*                                                                         *)
(* Control and model IDs are sequences of dash-free segments, because the  *)
(* analyzers join IDs with "-" into a task ID and take them apart again    *)
(* when the result comes back: "requires-ac-1--ia-2-llama-3-s0" is         *)
(* <<"requires","ac","1","","ia","2","llama","3","s0">> ("--" encloses an  *)
(* empty segment).  A raw answer is the record of the fields the parsers'  *)
(* expressions can find in it.  An aggregate that the code sorts by key is *)
(* a set; one it leaves in arrival order is a sequence.                    *)
(***************************************************************************)
EXTENDS Integers, Sequences, SequencesExt, FiniteSets, FiniteSetsExt

CONSTANTS
    Models,             \* analysis.*.models, in configured order
    EmbedModels,        \* analysis.embedding.models, in configured order
    SamplesPerModel,    \* votes per model
    ConsensusThreshold, \* analysis.requires.consensus_threshold, a fraction
    MaxErrorRate,       \* analysis.requires.max_error_rate, a fraction
    ConfidenceWeight,   \* analysis.relationship.confidence_weights, in thousandths
    FuzzyThreshold,     \* analysis.artifacts.fuzzy_threshold, a fraction
    Control             \* control ID -> [catalog, section, withdrawn, statement, ...]

ASSUME PanelAssumption ==
    /\ Models \in Seq(Seq(STRING)) /\ EmbedModels \in Seq(Seq(STRING))
    /\ SamplesPerModel \in 1..2

\* A set as a sequence, in some order and in the order of `before`.
Listed(S) == FoldSet(LAMBDA x, list : Append(list, x), <<>>, S)
SortedList(S, before(_, _)) == SortSeq(Listed(S), before)

Frac(n, d) == [n |-> n, d |-> d]
AtLeast(a, b) == a.n * b.d >= b.n * a.d
Exceeds(a, b) == a.n * b.d > b.n * a.d

\* math.Round(n/d) for a non-negative fraction.
RoundDiv(n, d) == (2 * n + d) \div (2 * d)
-----------------------------------------------------------------------------
(* Text preparation *)

\* strings.TrimSpace(statement) # "": what decides that a control has text.
HasText(c) == Control[c].statement # "blank"

\* What is left of a statement once whitespace AND format characters are
\* removed; "invisible" is a statement of format characters only.
PromptText(c) == IF Control[c].statement = "text" THEN "text" ELSE ""

\* A section or a withdrawn control is not analysed.
Skipped(c) == Control[c].section \/ Control[c].withdrawn
-----------------------------------------------------------------------------
(* Task IDs *)

SampleSegment == <<"s0", "s1">>

StripTaskIDPrefix(id, name) ==
    IF Len(id) > 1 /\ Head(id) = name THEN Tail(id) ELSE <<>>

\* The last segment as a sample number, or -1: the "-s<digits>$" expression.
SampleOf(rest) ==
    IF Len(rest) > 1 /\ \E i \in 1..Len(SampleSegment) : SampleSegment[i] = Last(rest)
    THEN (CHOOSE i \in 1..Len(SampleSegment) : SampleSegment[i] = Last(rest)) - 1
    ELSE -1

\* The index of the first configured model that ends `rest`, or 0.
TrailingModel(rest, models) ==
    SelectInSeq(models, LAMBDA m : IsStrictSuffix(m, rest))

DropTail(s, n) == SubSeq(s, 1, Len(s) - n)

NotParsed == [ok |-> FALSE]

\* Mutant: the model is cut off at the last dash.
ParsePairTaskIDLastDash(id, name, models) ==
    LET rest == StripTaskIDPrefix(id, name)
        cut == SelectInSeq(rest, LAMBDA s : s = "")
        tail == SubSeq(rest, cut + 1, Len(rest))
    IN IF rest = <<>> \/ cut <= 1 \/ Len(tail) < 3 THEN NotParsed
       ELSE [ok |-> TRUE, source |-> SubSeq(rest, 1, cut - 1), target |-> DropTail(tail, 2),
             model |-> <<tail[Len(tail) - 1]>>, sample |-> SampleOf(tail)]

ParsePairTaskID(id, name, models) ==
    LET rest == StripTaskIDPrefix(id, name)
        cut == SelectInSeq(rest, LAMBDA s : s = "")
        tail == SubSeq(rest, cut + 1, Len(rest))
        targetModel == Front(tail)
        m == TrailingModel(targetModel, models)
    IN IF rest = <<>> \/ cut <= 1 THEN NotParsed
       ELSE IF tail = <<>> THEN NotParsed
       ELSE IF SampleOf(tail) < 0 THEN NotParsed
       ELSE IF m = 0 THEN NotParsed
       ELSE [ok |-> TRUE, source |-> SubSeq(rest, 1, cut - 1),
             target |-> DropTail(targetModel, Len(models[m])),
             model |-> models[m], sample |-> SampleOf(tail)]

ParseControlTaskID(id, name, models) ==
    LET rest == StripTaskIDPrefix(id, name)
        controlModel == Front(rest)
        m == TrailingModel(controlModel, models)
    IN IF rest = <<>> THEN NotParsed
       ELSE IF Len(rest) > 1 /\ Last(rest) = "skip"
            THEN [ok |-> TRUE, skipped |-> TRUE, control |-> Front(rest)]
       ELSE IF SampleOf(rest) < 0 THEN NotParsed
       ELSE IF m = 0 THEN NotParsed
       ELSE [ok |-> TRUE, skipped |-> FALSE,
             control |-> DropTail(controlModel, Len(models[m])),
             model |-> models[m], sample |-> SampleOf(rest)]
-----------------------------------------------------------------------------
(* Work.  A task records what it is about (`of`), which only the reference *)
(* definitions below look at: the code gets back the ID and nothing else.  *)

Task(id, of, model, sample) ==
    [id |-> id, of |-> of, model |-> model, sample |-> sample, prebuilt |-> FALSE]
PreBuilt(id, of) ==
    [id |-> id, of |-> of, model |-> <<>>, sample |-> 0, prebuilt |-> TRUE]

\* Model x sample, the panel of voters of one question.
Panel == {<<Models[m], s>> : m \in 1..Len(Models), s \in 0..(SamplesPerModel - 1)}

ClassifyWork(c) ==
    IF Skipped(c) THEN {PreBuilt(<<"classify">> \o c, c)}
    ELSE {Task(<<"classify">> \o c, c, Models[1], 0)}

EmbeddingWork(c) ==
    IF Skipped(c) \/ ~HasText(c) THEN {PreBuilt(<<"embedding">> \o c, c)}
    ELSE {Task(<<"embedding">> \o c \o EmbedModels[m], c, EmbedModels[m], 0)
            : m \in 1..Len(EmbedModels)}

ArtifactsWork(c) ==
    IF Skipped(c) THEN {PreBuilt(<<"artifacts">> \o c \o <<"skip">>, c)}
    ELSE {Task(<<"artifacts">> \o c \o v[1] \o <<SampleSegment[v[2] + 1]>>, c, v[1], v[2])
            : v \in Panel}

\* The tasks of one candidate pair <<source, target>>.
PairTasks(name, p) ==
    {Task(<<name>> \o p[1] \o <<"">> \o p[2] \o v[1] \o <<SampleSegment[v[2] + 1]>>,
          p, v[1], v[2]) : v \in Panel}

\* A pair analyzer refuses the whole stage when one control of one pair has
\* no text left to put in a prompt (ErrMissingControlText).
MissingText(pairs) ==
    \E p \in pairs : PromptText(p[1]) = "" \/ PromptText(p[2]) = ""

RequiresWork(pairs) == UNION {PairTasks("requires", p) : p \in pairs}
RelationshipWork(pairs) == UNION {PairTasks("relationship", p) : p \in pairs}
-----------------------------------------------------------------------------
(* Answers.  A collected result is [task, error, text]: `text` is the raw  *)
(* answer, or NoText when the result carries none.                         *)

NoText == [kind |-> "none"]

ExtractResponseText(r) == r.text # NoText

\* A task ID as the Aggregate of a panel's stage reads it back.
ParseTaskID(stage, id) ==
    IF stage = "artifacts" THEN ParseControlTaskID(id, stage, Models)
                           ELSE ParsePairTaskID(id, stage, Models)

\* The results such an Aggregate looks at.
Usable(results, stage) ==
    SelectSeq(results, LAMBDA r : ~r.error /\ ParseTaskID(stage, r.task.id).ok /\ ExtractResponseText(r))
-----------------------------------------------------------------------------
(* Binary panels: pkg/analyzer/consensus and the requires analyzer *)

\* The vote an answer is: "yes", "no", or "nil" for one that does not parse.
RequiresParse(text) ==
    CASE text.requires = "YES" -> "yes"
      [] text.requires = "NO" -> "no"
      [] OTHER -> "nil"

Count(votes, v) == Len(SelectSeq(votes, LAMBDA x : x = v))

\* consensus.Computer.Compute: unparsable votes count against the error rate,
\* a tie is "no", the confidence is the majority's share of the valid votes.
Compute(votes) ==
    LET yes == Count(votes, "yes")
        no == Count(votes, "no")
        valid == yes + no
        failed == Len(votes) - valid
    IN IF MaxErrorRate.n > 0 /\ failed > 0 /\ Exceeds(Frac(failed, Len(votes)), MaxErrorRate)
       THEN [insufficient |-> TRUE]
       ELSE [insufficient |-> FALSE, decision |-> yes > no, valid |-> valid,
             confidence |-> IF valid = 0 THEN Frac(0, 1)
                            ELSE Frac(IF yes > no THEN yes ELSE no, valid),
             unanimous |-> valid > 0 /\ (yes = valid \/ no = valid)]

MeetsThreshold(res) == AtLeast(res.confidence, ConsensusThreshold)

\* The votes of one "source--target" key, in arrival order.
GroupOf(usable, stage, key) ==
    SelectSeq(usable, LAMBDA r : LET p == ParseTaskID(stage, r.task.id)
                                 IN p.source \o <<"">> \o p.target = key)

RequiresAggregate(results) ==
    LET parse(id) == ParseTaskID("requires", id)
        usable == Usable(results, "requires")
        votesOf(k) == GroupOf(usable, "requires", k)
        keyOf(r) == parse(r.task.id).source \o <<"">> \o parse(r.task.id).target
        firstOf(k) == parse(votesOf(k)[1].task.id)
        verdict(k) == Compute([i \in 1..Len(votesOf(k))
                                 |-> RequiresParse(votesOf(k)[i].text)])
        kept(k) == /\ ~verdict(k).insufficient
                   /\ verdict(k).decision
                   /\ MeetsThreshold(verdict(k))
    IN {[source |-> firstOf(k).source, target |-> firstOf(k).target,
         confidence |-> verdict(k).confidence, unanimous |-> verdict(k).unanimous,
         models |-> {parse(r.task.id).model : r \in ToSet(votesOf(k))}]
          : k \in {x \in {keyOf(r) : r \in ToSet(usable)} : kept(x)}}
-----------------------------------------------------------------------------
(* Typed panels: the relationship analyzer *)

NoRelationship == "NO_RELATIONSHIP"
RelationshipPriority ==
    <<"EQUIVALENT", "SUPERSET_OF", "SUBSET_OF", "CONTRIBUTES_TO", "COMPLEMENTS",
      "PARTIAL", "CONFLICTS_WITH", NoRelationship>>

ParseContributionType(s) == IF s \in {"INTEGRAL_TO", "EXAMPLE_OF"} THEN s ELSE ""
ParseConfidenceLevel(s) == IF s \in {"HIGH", "MEDIUM"} THEN s ELSE "LOW"

RelationshipParse(text) ==
    [ok |-> text.relationship \in ToSet(RelationshipPriority),
     relationship |-> text.relationship,
     contribution |-> ParseContributionType(text.contribution),
     confidence |-> ParseConfidenceLevel(text.confidence)]

\* The plurality among the votes that parse; a tie goes to the stronger
\* relationship.  The confidence is the agreement times the mean weight of
\* the winning votes, in thousandths.
RelationshipConsensus(votes) ==
    LET valid == SelectSeq(votes, LAMBDA v : v.ok)
        count(t) == Len(SelectSeq(valid, LAMBDA v : v.relationship = t))
        most == Max({count(t) : t \in ToSet(RelationshipPriority)})
        winner == RelationshipPriority[SelectInSeq(RelationshipPriority, LAMBDA t : count(t) = most)]
        winning == SelectSeq(valid, LAMBDA v : v.relationship = winner)
        weight == FoldLeft(LAMBDA sum, v : sum + ConfidenceWeight[v.confidence], 0, winning)
        contributing(c) == Len(SelectSeq(winning, LAMBDA v : v.contribution = c))
    IN IF valid = <<>> THEN [relationship |-> NoRelationship]
       ELSE [relationship |-> winner,
             confidence |-> Frac(RoundDiv(weight, Len(valid)), 1000),
             unanimous |-> most = Len(valid),
             contribution |->
                IF winner # "CONTRIBUTES_TO" THEN ""
                ELSE IF /\ contributing("INTEGRAL_TO") >= contributing("EXAMPLE_OF")
                        /\ contributing("INTEGRAL_TO") > 0 THEN "INTEGRAL_TO"
                ELSE IF contributing("EXAMPLE_OF") > 0 THEN "EXAMPLE_OF" ELSE ""]

RelationshipAggregate(results) ==
    LET parse(id) == ParseTaskID("relationship", id)
        usable == Usable(results, "relationship")
        votesOf(k) == GroupOf(usable, "relationship", k)
        keyOf(r) == parse(r.task.id).source \o <<"">> \o parse(r.task.id).target
        firstOf(k) == parse(votesOf(k)[1].task.id)
        verdict(k) == RelationshipConsensus([i \in 1..Len(votesOf(k))
                        |-> RelationshipParse(votesOf(k)[i].text)])
    IN {[source |-> firstOf(k).source, target |-> firstOf(k).target,
         relationship |-> verdict(k).relationship, confidence |-> verdict(k).confidence,
         contribution |-> verdict(k).contribution, unanimous |-> verdict(k).unanimous]
          : k \in {x \in {keyOf(r) : r \in ToSet(usable)} :
                      verdict(x).relationship # NoRelationship}}
-----------------------------------------------------------------------------
(* Classification *)

\* The type and level words are matched by containment, in this order.
FirstContained(words, order, default) ==
    LET i == SelectInSeq(order, LAMBDA w : w \in words)
    IN IF i = 0 THEN default ELSE order[i]

NormalizeType(words) == FirstContained(words, <<"Technical", "Procedural", "Both">>, "None")
NormalizeLevel(words) ==
    FirstContained(words, <<"Strategic", "Operational", "Tactical", "None">>, "Tactical")

\* "<type> | <level>"; the level defaults to Tactical, and a control of no
\* type has no level.
ParseClassification(text) ==
    LET type == NormalizeType(text.type)
    IN [type |-> type, level |-> IF type = "None" THEN "None" ELSE NormalizeLevel(text.level)]

\* In arrival order; an answer that does not parse is left out.
ClassifyAggregate(results) ==
    LET kept == SelectSeq(results, LAMBDA r :
                    /\ ~r.error /\ StripTaskIDPrefix(r.task.id, "classify") # <<>>
                    /\ r.task.prebuilt \/ (ExtractResponseText(r) /\ ~r.text.empty))
        class(r) == IF r.task.prebuilt THEN [type |-> "None", level |-> "None"]
                    ELSE ParseClassification(r.text)
    IN [i \in 1..Len(kept) |->
          [control |-> StripTaskIDPrefix(kept[i].task.id, "classify"),
           type |-> class(kept[i]).type, level |-> class(kept[i]).level]]

\* The classification a map built from the results gives a control.
ClassOf(classified, c) ==
    LET i == SelectLastInSeq(classified, LAMBDA r : r.control = c)
    IN IF i = 0 THEN [type |-> "", level |-> ""]
       ELSE [type |-> classified[i].type, level |-> classified[i].level]
-----------------------------------------------------------------------------
(* Embeddings *)

\* The control and model an embedding result is about; a prebuilt result's
\* ID names no model.
EmbeddedControl(id) ==
    LET rest == StripTaskIDPrefix(id, "embedding")
        m == TrailingModel(rest, EmbedModels)
    IN IF m = 0 THEN [control |-> rest, model |-> <<>>]
       ELSE [control |-> DropTail(rest, Len(EmbedModels[m])), model |-> EmbedModels[m]]

\* The vectors to store, each under its own control's catalog.  One vector
\* whose control is not among the run's controls stores nothing (ok FALSE).
EmbeddingAggregate(results) ==
    LET good == {r \in ToSet(results) : ~r.error /\ StripTaskIDPrefix(r.task.id, "embedding") # <<>>}
        vectors == {r \in good : /\ EmbeddedControl(r.task.id).model # <<>>
                                 /\ ~r.task.prebuilt
                                 /\ r.text # NoText /\ r.text.vectors > 0}
        known == \A r \in vectors : EmbeddedControl(r.task.id).control \in DOMAIN Control
    IN [ok |-> known,
        listed |-> {EmbeddedControl(r.task.id).control : r \in good},
        batch |-> IF ~known THEN {}
                  ELSE {[catalog |-> Control[EmbeddedControl(r.task.id).control].catalog,
                         control |-> EmbeddedControl(r.task.id).control,
                         model |-> EmbeddedControl(r.task.id).model] : r \in vectors}]
-----------------------------------------------------------------------------
(* Artifacts *)

Articles == {"the", "a", "an"}

\* An artifact name is a sequence of lower-case words.
NormalizeArtifactName(name) ==
    LET rest == IF name # <<>> /\ Head(name) \in Articles THEN Tail(name) ELSE name
    IN IF Len(rest) = 1 /\ Head(rest) \in Articles THEN <<>> ELSE rest

TokenOverlap(a, b) ==
    Frac(Cardinality(ToSet(a) \cap ToSet(b)), Min({Cardinality(ToSet(a)), Cardinality(ToSet(b))}))

ArtifactNamesMatch(a, b) ==
    a # <<>> /\ b # <<>> /\ AtLeast(TokenOverlap(a, b), FuzzyThreshold)

AllArtifactTypes ==
    <<"POLICY", "PROCEDURE", "PLAN", "REPORT", "RECORD", "CONFIGURATION", "MECHANISM", "ROLE",
      "PROCESS">>

\* A block is an artifact when it has a name and a known type.
ParseBlock(block) == block.name # <<>> /\ block.type \in ToSet(AllArtifactTypes)

ArtifactsParse(text) ==
    LET blocks == SelectSeq(text.blocks, ParseBlock)
    IN [status |-> IF blocks # <<>> THEN "ok" ELSE IF text.none THEN "none" ELSE "fail",
        artifacts |-> blocks]

\* Each artifact joins the first group whose first member's name matches.
GroupArtifacts(tagged) ==
    FoldLeft(LAMBDA groups, item :
                LET i == SelectInSeq(groups, LAMBDA g :
                            ArtifactNamesMatch(NormalizeArtifactName(item.artifact.name),
                                               NormalizeArtifactName(g[1].artifact.name)))
                IN IF i = 0 THEN Append(groups, <<item>>)
                   ELSE [groups EXCEPT ![i] = Append(@, item)],
             <<>>, tagged)

\* One consensus artifact per group: named by its first member, typed by
\* plurality (ties to the earlier type), confident by distinct voters.
BuildConsensusFromGroup(group, totalVoters) ==
    LET voters == {item.voter : item \in ToSet(group)}
        count(t) == Len(SelectSeq(group, LAMBDA item : item.artifact.type = t))
        most == Max({count(t) : t \in ToSet(AllArtifactTypes)})
    IN [name |-> group[1].artifact.name,
        type |-> AllArtifactTypes[SelectInSeq(AllArtifactTypes, LAMBDA t : count(t) = most)],
        confidence |-> RoundDiv(1000 * Cardinality(voters), totalVoters)]

\* Voters in the order of their vote keys: the instances configure the models
\* in string order.
VoterRank(task) ==
    SamplesPerModel * SelectInSeq(Models, LAMBDA m : m = task.model) + task.sample

ArtifactsConsensus(votes) ==
    LET ordered == SortedList(votes, LAMBDA a, b : VoterRank(a.task) < VoterRank(b.task))
        tagged == FlattenSeq([i \in 1..Len(ordered) |->
                      LET parsed == ArtifactsParse(ordered[i].text)
                      IN [j \in 1..Len(parsed.artifacts) |->
                            [voter |-> ordered[i].task.id, artifact |-> parsed.artifacts[j]]]])
        groups == GroupArtifacts(tagged)
    IN {BuildConsensusFromGroup(groups[i], Cardinality(Panel)) : i \in 1..Len(groups)}

ArtifactsAggregate(results) ==
    LET parse(id) == ParseTaskID("artifacts", id)
        votes == {r \in ToSet(Usable(results, "artifacts")) : ~parse(r.task.id).skipped}
        votesOf(c) == {r \in votes : parse(r.task.id).control = c}
    IN {[control |-> c, artifacts |-> ArtifactsConsensus(votesOf(c))]
          : c \in {x \in {parse(r.task.id).control : r \in votes} : ArtifactsConsensus(votesOf(x)) # {}}}
-----------------------------------------------------------------------------
(* What a panel should conclude, from the tasks themselves *)

\* The answers to pair p that came back without an error, by voter.
AnswersOn(results, p) ==
    {r \in ToSet(results) : r.task.of = p /\ ~r.error /\ r.text # NoText}

\* Pair p is a prerequisite: more of its own voters say yes than no, few
\* enough answers were unusable, and the majority clears the threshold.
PrerequisiteBy(results, p) ==
    LET answers == AnswersOn(results, p)
        yes == Cardinality({r \in answers : r.text.requires = "YES"})
        no == Cardinality({r \in answers : r.text.requires = "NO"})
        unusable == Cardinality(answers) - yes - no
    IN /\ yes > no
       /\ MaxErrorRate.n > 0 => unusable * MaxErrorRate.d <= MaxErrorRate.n * Cardinality(answers)
       /\ yes * ConsensusThreshold.d >= ConsensusThreshold.n * (yes + no)

\* The relationship of pair p: no other has more of p's own voters, and none
\* stronger has as many.
RelationshipBy(results, p, t) ==
    LET votes(x) == Cardinality({r \in AnswersOn(results, p) : r.text.relationship = x})
        rank(x) == SelectInSeq(RelationshipPriority, LAMBDA y : y = x)
    IN /\ votes(t) > 0
       /\ \A x \in ToSet(RelationshipPriority) \ {t} :
             votes(x) < votes(t) \/ (votes(x) = votes(t) /\ rank(t) < rank(x))
=============================================================================
