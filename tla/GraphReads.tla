----------------------------- MODULE GraphReads -----------------------------
(* The reads of the two GraphDB drivers over one committed graph: as the    *)
(* in-memory driver computes them, and as the Cypher queries of the AGE     *)
(* driver select them.                                                      *)
EXTENDS AgeGraph

CONSTANT MaxTraversed  \* bound: edges of the graphs whose paths are compared

-----------------------------------------------------------------------------
(* memdriver. *)

\* Path.ValidAt for one fact: valid from its start until just before its end.
ValidAt(f, t) == f.from <= t /\ (f.to # NoTime => t < f.to)

\* The edges of QueryAsOf.
relationshipsAsOf(t) == {i \in DOMAIN edges : ValidAt(edges[i], t)}

\* Where edge e leads from a node, in a direction.
neighborForward(e, from, direction) ==
  IF direction = "inbound" THEN (IF e.target = from THEN e.source ELSE NoID)
                           ELSE (IF e.source = from THEN e.target ELSE NoID)
neighbor(e, from, direction) ==
  CASE direction = "inbound" -> IF e.target = from THEN e.source ELSE NoID
    [] direction = "both" -> IF e.source = from THEN e.target
                             ELSE IF e.target = from THEN e.source ELSE NoID
    [] OTHER -> IF e.source = from THEN e.target ELSE NoID

\* walk: every one-edge extension of the path, and what it extends to; depth 0
\* means no limit, and a path never reuses an edge.
RECURSIVE walk(_, _, _, _)
walk(direction, depth, path, visited) ==
  IF depth > 0 /\ Len(path) >= depth THEN {}
  ELSE UNION {LET next == neighbor(edges[i], visited[Len(visited)], direction)
              IN IF next = NoID THEN {}
                 ELSE {[path |-> Append(path, i), visited |-> Append(visited, next)]}
                      \cup walk(direction, depth, Append(path, i), Append(visited, next))
              : i \in DOMAIN edges \ {path[j] : j \in DOMAIN path}}

Traverse(start, direction, depth) ==
  IF G!NodesWith(nodes, start) = {} THEN {} ELSE walk(direction, depth, << >>, <<start>>)

-----------------------------------------------------------------------------
(* agedriver. *)

\* Characters by their codes, and FormatTime: a fixed number of digits after
\* the point, so that the strings AGE compares sort as the instants do.
Digit(n) == 48 + n
Dot == 46
Zulu == 90
FormatTimeTrimmed(t) == IF t % 10 = 0 THEN <<Digit(t \div 10), Zulu>>
                        ELSE <<Digit(t \div 10), Dot, Digit(t % 10), Zulu>>
FormatTime(t) == <<Digit(t \div 10), Dot, Digit(t % 10), Zulu>>
LexLeq(a, b) == \/ a = b
                \/ \E k \in 1..(Len(a) + 1) :
                     /\ \A j \in 1..(k - 1) : j <= Len(b) /\ a[j] = b[j]
                     /\ \/ k = Len(a) + 1 /\ Len(b) >= k
                        \/ k <= Len(a) /\ k <= Len(b) /\ a[k] < b[k]

\* queryRelationshipsInternal with asOf: e.valid_from <= ts and
\* e.valid_to > ts, on the stored strings.
queryAsOf(t) == {i \in DOMAIN edges :
                   /\ LexLeq(FormatTime(edges[i].from), FormatTime(t))
                   /\ edges[i].to # NoTime => ~LexLeq(FormatTime(edges[i].to), FormatTime(t))}

\* The pattern of Traverse, (s)-[e*1..depth]->(t), as openCypher reads it: all
\* sequences of distinct edges that join up from the start.
Joins(e, from, to, direction) ==
  \/ direction # "inbound" /\ e.source = from /\ e.target = to
  \/ direction # "outbound" /\ e.target = from /\ e.source = to
matchPattern(start, direction, depth) ==
  LET longest == IF depth = 0 \/ depth > Len(edges) THEN Len(edges) ELSE depth
      Stored == {nodes[i].id : i \in DOMAIN nodes}
  IN UNION {{[path |-> path, visited |-> visited] :
               path \in {q \in [1..n -> DOMAIN edges] : \A i, j \in 1..n : i # j => q[i] # q[j]},
               visited \in {v \in [1..(n + 1) -> Stored] : v[1] = start}} : n \in 1..longest}
Matches(start, direction, depth) ==
  {m \in matchPattern(start, direction, depth) :
     \A i \in DOMAIN m.path : Joins(edges[m.path[i]], m.visited[i], m.visited[i + 1], direction)}

-----------------------------------------------------------------------------
(* Properties. *)

\* Reading the graph as of an instant by comparing the stored strings, as the
\* Cypher query does, selects the edges valid at that instant.
AsOfReadsAgree == \A t \in Times : queryAsOf(t) = relationshipsAsOf(t)

\* The recursive walk of the in-memory driver finds exactly the paths the
\* Cypher pattern of the AGE driver matches, in each direction and at each depth.
TraversalFindsEveryPath ==
  Len(edges) <= MaxTraversed => \A start \in IDs, direction \in {"outbound", "inbound", "both"}, depth \in 0..2 :
    Traverse(start, direction, depth) = Matches(start, direction, depth)

\* The two drivers read the same graph alike, as of an instant and along paths.
DriversReadAlike == AsOfReadsAgree /\ TraversalFindsEveryPath
=============================================================================
