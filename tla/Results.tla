------------------------------ MODULE Results ------------------------------
(***************************************************************************)
(* The mappings of a job and how they are read: the checks ListMappings    *)
(* makes of a request, the rows it selects, and its pages, which a client  *)
(* walks by the token each page ends with.                                 *)
(*                                                                         *)
(* IDs that are ordered (jobs, controls) are numbers, 0 the empty string;  *)
(* confidence and viability are percentages.                               *)
(***************************************************************************)
EXTENDS Integers, FiniteSets, Sequences, SequencesExt, FiniteSetsExt

CONSTANTS
  RelationshipTypes,   \* the named relationship types, NO_RELATIONSHIP among them
  NoRelationship,      \* NO_RELATIONSHIP
  DefaultPageSize,     \* page size of a request that names none
  MaxPageSize          \* largest page size accepted

\* The code of the first check that fails, "ok" when none does.
FirstFailure(checks) ==
  LET failed == {i \in DOMAIN checks : ~checks[i][1]}
  IN IF failed = {} THEN "ok" ELSE checks[Min(failed)][2]

-----------------------------------------------------------------------------
(* Keys and cursors. *)

KeyOf(m) == <<m.job, m.src, m.tgt>>

\* compareKey: job, then source, then target.
Before(a, b) ==
  \/ a[1] < b[1]
  \/ a[1] = b[1] /\ a[2] < b[2]
  \/ a[1] = b[1] /\ a[2] = b[2] /\ a[3] < b[3]

InKeyOrder(rows) ==
  [i \in 1 .. Cardinality(rows) |->
     CHOOSE m \in rows : Cardinality({n \in rows : ~Before(KeyOf(m), KeyOf(n))}) = i]

\* A page token is the key it encodes; the empty one is no cursor.
NoToken == <<>>
EncodeCursor(key) == key

\* A token that does not decode to three strings is refused.
DecodeCursor(token) == [ok |-> Len(token) \in {0, 3}, after |-> token]

-----------------------------------------------------------------------------
(* The request. *)

\* No type asked for means every type but NO_RELATIONSHIP.
relationshipNames(requested) ==
  IF requested = {} THEN RelationshipTypes \ {NoRelationship} ELSE requested

StageOf(stage) == IF stage = "unspecified" THEN "synthesized" ELSE stage

\* The checks of buildFilter, in their order, for a caller whose context
\* carries a tenant.
buildFilter(ctxTenant, noTenant, req) ==
  LET stage == StageOf(req.stage)
      cursor == DecodeCursor(req.token)
      code == FirstFailure(<<
        <<req.tenant # noTenant, "invalid_argument">>,
        <<req.tenant = ctxTenant, "permission_denied">>,
        <<stage \in {"synthesized", "analyzer"}, "invalid_argument">>,
        <<req.job # 0 \/ (stage = "synthesized" /\ req.control # 0), "invalid_argument">>,
        <<req.min \in 0 .. 100, "invalid_argument">>,
        <<~(req.nonViable /\ stage = "analyzer"), "invalid_argument">>,
        <<req.types \subseteq RelationshipTypes, "invalid_argument">>,
        <<req.size \in 0 .. MaxPageSize, "invalid_argument">>,
        <<cursor.ok, "invalid_argument">>,
        <<Len(cursor.after) # 3 \/ req.job = 0 \/ cursor.after[1] = req.job, "invalid_argument">> >>)
  IN [code |-> code,
      filter |-> [tenant |-> req.tenant, job |-> req.job, stage |-> stage, control |-> req.control,
                  min |-> req.min, nonViable |-> req.nonViable, types |-> relationshipNames(req.types),
                  size |-> IF req.size = 0 THEN DefaultPageSize ELSE req.size,
                  after |-> cursor.after]]

-----------------------------------------------------------------------------
(* The rows. *)

\* requireCompleted, as the code readError gives it.
requireCompleted(jobs, f) ==
  FirstFailure(<< <<\E j \in DOMAIN jobs : j = f.job /\ jobs[j].tenant = f.tenant, "not_found">>,
                  <<f.job \in DOMAIN jobs => jobs[f.job].status = "completed", "failed_precondition">> >>)

MatchesFilter(m, f) ==
  /\ f.control = 0 \/ f.control \in {m.src, m.tgt}
  /\ m.conf >= f.min
  /\ m.type \in f.types

PastCursor(m, f) == Len(f.after) = 0 \/ Before(f.after, KeyOf(m))

Limit(s, n) == SubSeq(s, 1, Min({n, Len(s)}))

\* synthesizedSQL: one row more than the page, so that paginate can tell
\* whether there is a next page.
listSynthesized(jobs, rows, f) ==
  LET found == {m \in rows :
        /\ jobs[m.job].tenant = f.tenant
        /\ IF f.job = 0 THEN jobs[m.job].status = "completed" ELSE m.job = f.job
        /\ MatchesFilter(m, f)
        /\ f.nonViable \/ m.viab > 0
        /\ PastCursor(m, f)}
  IN Limit(InKeyOrder(found), f.size + 1)

\* listAnalyzer reads the analyzer's stored list, which is corrupt when it
\* names a pair twice.
listAnalyzer(matches, f) ==
  LET mine == SelectSeq(matches, LAMBDA m : m.job = f.job /\ MatchesFilter(m, f))
      corrupt == \E i, j \in DOMAIN mine : i < j /\ KeyOf(mine[i]) = KeyOf(mine[j])
      found == {m \in Range(mine) : PastCursor(m, f)}
  IN [code |-> IF corrupt THEN "internal" ELSE "ok",
      rows |-> IF corrupt THEN <<>> ELSE Limit(InKeyOrder(found), f.size + 1)]

\* Mutant: the cursor is the first row of the next page.
paginateFromNext(rows, size) ==
  IF Len(rows) <= size
  THEN [rows |-> rows, next |-> NoToken]
  ELSE [rows |-> SubSeq(rows, 1, size), next |-> EncodeCursor(KeyOf(rows[size + 1]))]

paginate(rows, size) ==
  IF Len(rows) <= size
  THEN [rows |-> rows, next |-> NoToken]
  ELSE [rows |-> SubSeq(rows, 1, size), next |-> EncodeCursor(KeyOf(rows[size]))]

\* PGStore.ListMappings, one transaction.
StoreListMappings(jobs, rows, matches, f) ==
  LET job == IF f.job = 0 THEN "ok" ELSE requireCompleted(jobs, f)
      analyzer == listAnalyzer(matches, f)
      read == IF f.stage = "synthesized" THEN [code |-> "ok", rows |-> listSynthesized(jobs, rows, f)]
              ELSE analyzer
      code == IF job # "ok" THEN job ELSE read.code
  IN [code |-> code, page |-> IF code = "ok" THEN paginate(read.rows, f.size) ELSE paginate(<<>>, 1)]

\* Service.ListMappings.
ListMappings(jobs, rows, matches, ctxTenant, noTenant, req) ==
  LET b == buildFilter(ctxTenant, noTenant, req)
  IN IF b.code = "ok" THEN StoreListMappings(jobs, rows, matches, b.filter)
     ELSE [code |-> b.code, page |-> paginate(<<>>, 1)]

-----------------------------------------------------------------------------
(* The CLI's walk over every page. *)

\* mappingRequestFromFlags: the flags it refuses before any call.
mappingRequestFromFlags(req) ==
  /\ req.stage \in {"synthesized", "analyzer"}
  /\ req.min \in 0 .. 100
  /\ req.nonViable => req.stage = "synthesized"
  /\ req.types \subseteq RelationshipTypes

\* listAllMappings: what one more answer makes of a walk.  A token seen
\* before would never end and is an error.
listAllMappings(walk, answer) ==
  LET seen == walk.seen \cup {walk.req.token}
      next == answer.page.next
      all == walk.all \o answer.page.rows
  IN CASE answer.code # "ok" -> [walk EXCEPT !.end = answer.code]
       [] answer.code = "ok" /\ next = NoToken -> [walk EXCEPT !.all = all, !.end = "ok"]
       [] answer.code = "ok" /\ next # NoToken /\ next \in seen -> [walk EXCEPT !.end = "loop"]
       [] OTHER -> [walk EXCEPT !.all = all, !.seen = seen, !.req.token = next]

=============================================================================
