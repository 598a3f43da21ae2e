----------------------------- MODULE AnalyzerDag -----------------------------
(***************************************************************************)
(* The analyzer registry and its dependency graph (pkg/analyzer).  A       *)
(* registry is a function from the registered names to the set of names    *)
(* each depends on.                                                        *)
(***************************************************************************)
EXTENDS Naturals, Sequences, SequencesExt, FiniteSets, FiniteSetsExt

CONSTANT NameOrder      \* analyzer names in string order

SortNames(S) == SelectSeq(NameOrder, LAMBDA a : a \in S)

\* A name that is taken is refused.
Register(registry, name, deps) ==
    IF name \in DOMAIN registry THEN [err |-> "already_registered", registry |-> registry]
    ELSE [err |-> "", registry |-> [a \in DOMAIN registry \cup {name} |->
                                      IF a = name THEN deps ELSE registry[a]]]
-----------------------------------------------------------------------------
\* The nodes whose in-degree has reached zero after n rounds.
Placed(edges) ==
    LET placed[n \in 0..Cardinality(DOMAIN edges)] ==
            IF n = 0 THEN {} ELSE placed[n - 1] \cup {a \in DOMAIN edges : edges[a] \subseteq placed[n - 1]}
    IN placed

\* Kahn's algorithm by levels, each level sorted by name.
KahnSort(edges) ==
    LET placed == Placed(edges)
        rounds == Cardinality(DOMAIN edges)
    IN SelectSeq([n \in 1..rounds |-> SortNames(placed[n] \ placed[n - 1])], LAMBDA l : l # <<>>)

OrderOf(levels) == FlattenSeq(levels)

\* The walk that names a cycle: from the first node left over, always to the
\* first dependency that is left over too, until one repeats.
FindCycle(edges, visited) ==
    LET left == DOMAIN edges \ visited
        next(a) == Head(SortNames(edges[a] \cap left))
        walk[n \in 0..Cardinality(left)] ==
            IF n = 0 THEN <<Head(SortNames(left))>>
            ELSE IF \E i \in 1..(Len(walk[n - 1]) - 1) : walk[n - 1][i] = Last(walk[n - 1])
                 THEN walk[n - 1]
            ELSE Append(walk[n - 1], next(Last(walk[n - 1])))
        path == walk[Cardinality(left)]
        from == SelectInSeq(path, LAMBDA a : a = Last(path))
    IN SubSeq(path, from, Len(path))

\* The dependency graph of everything registered, or why there is none.
BuildDAG(registry) ==
    LET levels == KahnSort(registry)
        order == OrderOf(levels)
    IN IF \E a \in DOMAIN registry : ~(registry[a] \subseteq DOMAIN registry)
       THEN [err |-> "missing_dependency"]
       ELSE IF Len(order) # Cardinality(DOMAIN registry)
       THEN [err |-> "cycle", cycle |-> FindCycle(registry, ToSet(order))]
       ELSE [err |-> "", levels |-> levels, order |-> order, edges |-> registry]

\* The names and everything they depend on.
Needed(edges, names) ==
    LET closure[n \in 0..Cardinality(DOMAIN edges)] ==
            IF n = 0 THEN names ELSE closure[n - 1] \cup UNION {edges[a] : a \in closure[n - 1]}
    IN closure[Cardinality(DOMAIN edges)]

Subset(dag, names) ==
    IF ~(names \subseteq DOMAIN dag.edges) THEN [err |-> "not_found"]
    ELSE LET needed == Needed(dag.edges, names)
             edges == [a \in needed |-> dag.edges[a] \cap needed]
         IN [err |-> "", levels |-> KahnSort(edges), order |-> OrderOf(KahnSort(edges)), edges |-> edges]
-----------------------------------------------------------------------------
(* Stages of a job over a graph (internal/pipeline/stages.go) *)

CandidateDependent == {"requires", "relationship"}

\* candidate_generation goes before the first analyzer that reads candidates.
BuildStageNames(order) ==
    LET at == SelectInSeq(order, LAMBDA a : a \in CandidateDependent)
        analyzers == IF at = 0 THEN order ELSE InsertAt(order, at, "candidate_generation")
    IN analyzers \o <<"synthesis", "graph">>

IsAnalyzerStage(name) == name \notin {"candidate_generation", "synthesis", "graph"}

\* A job runs only with the analyzers it was created with.
CheckJobAnalyzers(stageNames, order) ==
    {s \in ToSet(stageNames) : IsAnalyzerStage(s)} = ToSet(order)
=============================================================================
