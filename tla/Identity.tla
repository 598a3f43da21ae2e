------------------------------ MODULE Identity ------------------------------
(***************************************************************************)
(* Tenants, reviewers and the identity audit log: the functions of the     *)
(* database schema that change them, called by the commands of             *)
(* `crosscodexd admin` through db.TenantAdmin, and the transactions of the *)
(* application that depend on them.                                        *)
(*                                                                         *)
(* A session is one transaction.  Its statements are separate steps, and   *)
(* the rows it locks (FOR UPDATE, FOR SHARE, an uncommitted INSERT) follow *)
(* from how far it has come.  What it writes becomes visible when it       *)
(* commits; it may also end at any step with nothing written (a crash, a   *)
(* lost connection, a lock wait the database breaks as a deadlock).        *)
(*                                                                         *)
(* Data is abstracted: a name is a model value and Text gives the one fact *)
(* about its spelling the checks look at; who asks and why is left out,    *)
(* and so is what a command prints.                                        *)
(***************************************************************************)
EXTENDS Naturals, FiniteSets, Sequences, FiniteSetsExt, SequencesExt

CONSTANTS
  Tenants,        \* tenant IDs
  Reviewers,      \* reviewer IDs an operator may type
  Text,           \* the spelling of each ID
  Sessions,       \* database sessions
  NoOne,          \* no reviewer, no session
  Leftover,       \* a partial export file whose writer died
  PageSize,       \* identityExportPageSize
  MaxVerdicts     \* bound: verdicts recorded for one reviewer

VARIABLES
  tenants,        \* public.tenants
  reviewers,      \* public.reviewers
  events,         \* public.identity_events, in the order they were committed
  nextEvent,      \* the sequence behind identity_events.event_id
  verdicts,       \* human verdicts committed, by reviewer
  session,        \* the transaction each session has open
  partial,        \* <out>.partial: absent, left over, or being written by a session
  out,            \* the export file: its events in file order, if it exists
  allow           \* bound: the sessions, exporters, tenants, operations, verbs and events of a behaviour

identityVars == <<tenants, reviewers, events, nextEvent, verdicts, session, partial, out, allow>>

Keys == Tenants \X Reviewers

Row(status) == [status |-> status, hidden |-> FALSE, pseudonym |-> FALSE]
NoRow == Row("none")

Idle == [op |-> "idle"]
NoFile == [exists |-> FALSE]

-----------------------------------------------------------------------------
(* Validation of what an operator types. *)

\* textRule.check: empty or too long text, control characters and, under a
\* rule that asks for it, surrounding spaces.
textRuleCheck(name, trimmed) ==
  Text[name] \notin {"blank", "long", "control"} \cup (IF trimmed THEN {"padded"} ELSE {})

ValidateReviewerID(name) == textRuleCheck(name, TRUE)

\* tenant.ValidateTenantID accepts lower-case names only; a reserved name is one.
ValidateTenantID(name) == Text[name] \in {"plain", "reserved"}

\* The names starting with hidden- are the pseudonyms' own.
IsReserved(name) == Text[name] = "reserved"

-----------------------------------------------------------------------------
(* What each function of the schema does to the row it has locked: the row *)
(* it writes, or a refusal that changes nothing.                           *)

Refused == [ok |-> FALSE]
Becomes(row) == [ok |-> TRUE, row |-> row]
Only(cond, row) == IF cond THEN Becomes(row) ELSE Refused

delete_tenant(row) == Only(row.status \notin {"none", "deleted"}, [row EXCEPT !.status = "deleted"])

restore_tenant(row) == Only(row.status = "deleted" /\ ~row.hidden, [row EXCEPT !.status = "suspended"])

\* A pseudonym is generated once and kept: hiding again shows the same one.
hide_tenant(row) ==
  Only(row.status = "deleted" /\ ~row.hidden, [row EXCEPT !.hidden = TRUE, !.pseudonym = TRUE])

unhide_tenant(row) == Only(row.status # "none" /\ row.hidden, [row EXCEPT !.hidden = FALSE])

delete_reviewer(row) == Only(row.status \notin {"none", "deleted"}, [row EXCEPT !.status = "deleted"])

restore_reviewer(row) == Only(row.status = "deleted" /\ ~row.hidden, [row EXCEPT !.status = "active"])

hide_reviewer(row) ==
  Only(row.status = "deleted" /\ ~row.hidden, [row EXCEPT !.hidden = TRUE, !.pseudonym = TRUE])

unhide_reviewer(row) == Only(row.status # "none" /\ row.hidden, [row EXCEPT !.hidden = FALSE])

\* INSERT ... ON CONFLICT DO NOTHING, after the check that the reviewer the
\* SELECT ... FOR UPDATE found, if it found one, is not deleted.
add_reviewer(found) == found.status # "deleted"
InsertReviewer(row) == IF row.status = "none" THEN Row("active") ELSE row

\* Mutant: a deleted tenant may be resumed.
set_tenant_status_of_any(row, status) == Only(row.status # "none", [row EXCEPT !.status = status])

\* set_tenant_status moves between active and suspended only.
set_tenant_status(row, status) ==
  Only(row.status \notin {"none", "deleted"}, [row EXCEPT !.status = status])

(* The methods of TenantAdmin: each validates its arguments and calls one  *)
(* function.  The operator gives the row the function leaves.              *)
validateReviewerCall(t, r) == ValidateTenantID(t) /\ ValidateReviewerID(r)
validateIdentityCall(t) == ValidateTenantID(t)

DeleteTenant(t, row) == IF validateIdentityCall(t) THEN delete_tenant(row) ELSE Refused
RestoreTenant(t, row) == IF validateIdentityCall(t) THEN restore_tenant(row) ELSE Refused
HideTenant(t, row) == IF validateIdentityCall(t) THEN hide_tenant(row) ELSE Refused
UnhideTenant(t, row) == IF validateIdentityCall(t) THEN unhide_tenant(row) ELSE Refused
AddReviewer(t, r, row) ==
  IF validateReviewerCall(t, r) /\ ~IsReserved(r) /\ add_reviewer(row) THEN Becomes(row) ELSE Refused
DeleteReviewer(t, r, row) == IF validateReviewerCall(t, r) THEN delete_reviewer(row) ELSE Refused
RestoreReviewer(t, r, row) == IF validateReviewerCall(t, r) THEN restore_reviewer(row) ELSE Refused
HideReviewer(t, r, row) == IF validateReviewerCall(t, r) THEN hide_reviewer(row) ELSE Refused
UnhideReviewer(t, r, row) == IF validateReviewerCall(t, r) THEN unhide_reviewer(row) ELSE Refused

\* The pairs of kind and action daemonIdentityAction knows.
daemonIdentityAction(s, row) ==
  CASE s.kind = "tenant" /\ s.verb = "delete"    -> DeleteTenant(s.t, row)
    [] s.kind = "tenant" /\ s.verb = "restore"   -> RestoreTenant(s.t, row)
    [] s.kind = "tenant" /\ s.verb = "hide"      -> HideTenant(s.t, row)
    [] s.kind = "tenant" /\ s.verb = "unhide"    -> UnhideTenant(s.t, row)
    [] s.kind = "reviewer" /\ s.verb = "add"     -> AddReviewer(s.t, s.r, row)
    [] s.kind = "reviewer" /\ s.verb = "delete"  -> DeleteReviewer(s.t, s.r, row)
    [] s.kind = "reviewer" /\ s.verb = "restore" -> RestoreReviewer(s.t, s.r, row)
    [] s.kind = "reviewer" /\ s.verb = "hide"    -> HideReviewer(s.t, s.r, row)
    [] s.kind = "reviewer" /\ s.verb = "unhide"  -> UnhideReviewer(s.t, s.r, row)
    [] OTHER -> Refused

Requests ==
  [kind : {"tenant"}, verb : {"delete", "restore", "hide", "unhide"}, t : Tenants, r : {NoOne}]
    \cup
  [kind : {"reviewer"}, verb : {"add", "delete", "restore", "hide", "unhide"}, t : Tenants, r : Reviewers]

-----------------------------------------------------------------------------
(* Row locks. *)

\* SELECT ... FOR UPDATE, an UPDATE or an INSERT of tenant t by session p.
TenantLocked(p, t) ==
  LET s == session[p]
  IN \/ s.op = "signed" /\ s.kind = "tenant" /\ s.t = t /\ s.at \in {"locked", "recorded"}
     \/ s.op = "status" /\ s.t = t /\ s.at = "locked"
     \/ s.op = "provision" /\ t \in s.done

\* SELECT ... FOR SHARE of tenant t: the step after which add_reviewer and
\* restore_reviewer know the tenant is not deleted.
TenantShared(p, t) ==
  LET s == session[p]
  IN /\ s.op = "signed" /\ s.kind = "reviewer" /\ s.t = t
     /\ s.verb \in {"add", "restore"}
     /\ s.at \in {"tenant", "locked", "recorded"}

\* FOR UPDATE of a reviewer.  add_reviewer locks a row only if there is one,
\* and holds the key from its INSERT on.
ReviewerLocked(p, k) ==
  LET s == session[p]
  IN /\ s.op = "signed" /\ s.kind = "reviewer" /\ <<s.t, s.r>> = k
     /\ CASE s.verb = "add"     -> \/ s.at = "locked" /\ s.row.status # "none"
                                   \/ s.at = "recorded"
          [] s.verb = "restore" -> s.at \in {"row", "tenant", "locked", "recorded"}
          [] OTHER              -> s.at \in {"locked", "recorded"}

\* Mutant: the row is read without a lock.
ReviewerNotShared(p, k) == FALSE

\* require_active_reviewer's FOR SHARE, held until the verdict commits.
ReviewerShared(p, k) ==
  LET s == session[p]
  IN s.op = "verdict" /\ s.k = k /\ s.at = "reviewer"

Others(p) == Sessions \ {p}
MayLockTenant(p, t)   == \A q \in Others(p) : ~TenantLocked(q, t) /\ ~TenantShared(q, t)
MayShareTenant(p, t)  == \A q \in Others(p) : ~TenantLocked(q, t)
MayLockReviewer(p, k) == \A q \in Others(p) : ~ReviewerLocked(q, k) /\ ~ReviewerShared(q, k)
MayShareReviewer(p, k) == \A q \in Others(p) : ~ReviewerLocked(q, k)

-----------------------------------------------------------------------------
(* Sessions. *)

May(p, op) == p \in allow.sessions /\ op \in allow.ops

BeginSession(p, s) ==
  /\ session[p] = Idle
  /\ session' = [session EXCEPT ![p] = s]
  /\ UNCHANGED <<tenants, reviewers, events, nextEvent, verdicts, partial, out, allow>>

Step(p, s) == session' = [session EXCEPT ![p] = s]
Rollback(p) == Step(p, Idle)

EndSession(p) == Rollback(p) /\ UNCHANGED <<nextEvent, allow>>

\* A statement that reads, and leaves the session further on or rolled back.
Statement(p, ok, s) ==
  /\ IF ok THEN Step(p, s) ELSE Rollback(p)
  /\ UNCHANGED <<tenants, reviewers, events, nextEvent, verdicts, partial, out, allow>>

-----------------------------------------------------------------------------
(* Signed changes of tenants and reviewers. *)

\* runSigned: a request reaches the database only signed.
runSigned(p, req) == BeginSession(p, req @@ [op |-> "signed", at |-> "begin"])

identityActionCmd(p) ==
  /\ \E req \in Requests :
       /\ May(p, req.kind) /\ req.verb \in allow.verbs
       /\ req.t \in allow.tenants /\ ValidateTenantID(req.t)
       /\ req.kind = "reviewer" => ValidateReviewerID(req.r)
       /\ runSigned(p, req)

\* The first statement of the functions on tenants, and of the functions on
\* reviewers that look at the tenant last or not at all.
LockRow(p) ==
  LET s == session[p]
      k == <<s.t, s.r>>
  IN /\ s.op = "signed" /\ s.at = "begin" /\ s.verb # "add"
     /\ IF s.kind = "tenant"
        THEN /\ MayLockTenant(p, s.t)
             /\ LET c == daemonIdentityAction(s, tenants[s.t])
                IN Statement(p, c.ok, [s EXCEPT !.at = "locked"])
        ELSE /\ MayLockReviewer(p, k)
             /\ IF s.verb = "restore"
                THEN Statement(p, reviewers[k].status # "none", [s EXCEPT !.at = "row"])
                ELSE LET c == daemonIdentityAction(s, reviewers[k])
                     IN Statement(p, c.ok, [s EXCEPT !.at = "locked"])

\* add_reviewer starts with the tenant, restore_reviewer goes on to it.
ShareTenant(p) ==
  LET s == session[p]
      live == tenants[s.t].status \notin {"none", "deleted"}
      k == <<s.t, s.r>>
  IN /\ s.op = "signed"
     /\ s.kind = "reviewer"
     /\ \/ s.verb = "add" /\ s.at = "begin"
        \/ s.verb = "restore" /\ s.at = "row"
     /\ MayShareTenant(p, s.t)
     /\ IF s.verb = "add"
        THEN Statement(p, live /\ ~IsReserved(s.r), [s EXCEPT !.at = "tenant"])
        ELSE Statement(p, live /\ daemonIdentityAction(s, reviewers[k]).ok, [s EXCEPT !.at = "locked"])

\* add_reviewer's SELECT ... FOR UPDATE, which locks nothing when it finds nothing.
FindReviewer(p) ==
  LET s == session[p]
      k == <<s.t, s.r>>
  IN /\ s.op = "signed" /\ s.verb = "add" /\ s.at = "tenant"
     /\ MayLockReviewer(p, k)
     /\ Statement(p, daemonIdentityAction(s, reviewers[k]).ok,
                  [s EXCEPT !.at = "locked"] @@ [row |-> reviewers[k]])

\* record_identity_event: the signed request must name this change, and the
\* event takes the next event_id.  An INSERT of add_reviewer goes with it,
\* and waits for another session's INSERT of the same key.
record_identity_event(p, signed) ==
  LET s == session[p]
      req == [kind |-> s.kind, verb |-> s.verb, t |-> s.t, r |-> s.r]
  IN /\ s.op = "signed" /\ s.at = "locked"
     /\ s.verb = "add" => MayLockReviewer(p, <<s.t, s.r>>)
     /\ nextEvent <= allow.events
     /\ IF signed = req
        THEN Step(p, [s EXCEPT !.at = "recorded"] @@ [id |-> nextEvent]) /\ nextEvent' = nextEvent + 1
        ELSE Rollback(p) /\ UNCHANGED nextEvent
     /\ UNCHANGED <<tenants, reviewers, events, verdicts, partial, out, allow>>

\* The request a command signs is the one it sends; a caller may send
\* another, such as one signed earlier.
RecordEvent(p) ==
  \E other \in {"delete", "hide"} :
    LET s == session[p]
    IN /\ s.op = "signed"
       /\ \/ record_identity_event(p, [kind |-> s.kind, verb |-> s.verb, t |-> s.t, r |-> s.r])
          \/ record_identity_event(p, [kind |-> s.kind, verb |-> other, t |-> s.t, r |-> s.r])

EventOf(s) == [id |-> s.id, verb |-> s.verb, kind |-> s.kind, t |-> s.t, r |-> s.r]

\* The COMMIT: the row and its event become visible together.
CommitSigned(p) ==
  LET s == session[p]
      k == <<s.t, s.r>>
  IN /\ s.op = "signed" /\ s.at = "recorded"
     /\ EndSession(p)
     /\ events' = Append(events, EventOf(s))
     /\ \/ /\ s.kind = "tenant"
           /\ tenants' = [tenants EXCEPT ![s.t] = daemonIdentityAction(s, @).row]
           /\ UNCHANGED reviewers
        \/ /\ s.kind = "reviewer" /\ s.verb = "add"
           /\ reviewers' = [reviewers EXCEPT ![k] = InsertReviewer(@)]
           /\ UNCHANGED tenants
        \/ /\ s.kind = "reviewer" /\ s.verb # "add"
           /\ reviewers' = [reviewers EXCEPT ![k] = daemonIdentityAction(s, @).row]
           /\ UNCHANGED tenants
     /\ UNCHANGED <<verdicts, partial, out>>

\* trace_pseudonym: reads and records in one statement each, locks nothing.
\* A pseudonym stands for the identity it was generated for.
trace_pseudonym(kind, t, r) ==
  IF kind = "tenant" THEN tenants[t].pseudonym ELSE reviewers[<<t, r>>].pseudonym

Trace(p, kind, t, r) ==
  /\ nextEvent <= allow.events
  /\ trace_pseudonym(kind, t, r)
  /\ nextEvent' = nextEvent + 1
  /\ session[p] = Idle
  /\ Step(p, [op |-> "trace", kind |-> kind, verb |-> "trace", t |-> t, r |-> r, id |-> nextEvent])
  /\ UNCHANGED <<tenants, reviewers, events, verdicts, partial, out, allow>>

identityTraceCmd(p) ==
  /\ May(p, "trace")
  /\ \/ \E t \in Tenants : Trace(p, "tenant", t, NoOne)
     \/ \E t \in Tenants, r \in Reviewers : Trace(p, "reviewer", t, r)

CommitTrace(p) ==
  /\ session[p].op = "trace"
  /\ EndSession(p)
  /\ events' = Append(events, EventOf(session[p]))
  /\ UNCHANGED <<tenants, reviewers, verdicts, partial, out>>

-----------------------------------------------------------------------------
(* Changes of a tenant that are not identity events. *)

SetStatus(p, t, status) == BeginSession(p, [op |-> "status", t |-> t, status |-> status, at |-> "begin"])

\* admin tenant suspend and admin tenant resume.
tenantSetStatusCmd(p) ==
  /\ May(p, "status")
  /\ \E t \in allow.tenants, status \in {"active", "suspended"} :
       ValidateTenantID(t) /\ SetStatus(p, t, status)

LockStatus(p) ==
  LET s == session[p]
  IN /\ s.op = "status" /\ s.at = "begin"
     /\ MayLockTenant(p, s.t)
     /\ Statement(p, set_tenant_status(tenants[s.t], s.status).ok, [s EXCEPT !.at = "locked"])

CommitStatus(p) ==
  LET s == session[p]
  IN /\ s.op = "status" /\ s.at = "locked"
     /\ EndSession(p)
     /\ tenants' = [tenants EXCEPT ![s.t] = set_tenant_status(@, s.status).row]
     /\ UNCHANGED <<reviewers, events, verdicts, partial, out>>

\* A provisioning transaction: the tenants still to do, and those inserted or
\* renamed, whose rows it holds until it commits.
Provisioning(specs) == [op |-> "provision", todo |-> specs, at |-> "check", done |-> {}]

ValidateTenantSpec(t) == ValidateTenantID(t)

\* An import names no tenant twice.
ValidateTenantSpecs(specs) ==
  /\ Len(specs) > 0
  /\ \A i \in DOMAIN specs : ValidateTenantSpec(specs[i])
  /\ IsInjective(specs)

Provision(p, t) == BeginSession(p, Provisioning(<<t>>))
Import(p, specs) == ValidateTenantSpecs(specs) /\ BeginSession(p, Provisioning(specs))

tenantCreateCmd(p) == May(p, "provision") /\ \E t \in allow.tenants : ValidateTenantSpec(t) /\ Provision(p, t)

tenantImportCmd(p) ==
  /\ May(p, "provision")
  /\ \E specs \in UNION {[1 .. n -> allow.tenants] : n \in 0 .. 2} : Import(p, specs)

\* provision_tenant, one statement at a time: the check, which locks
\* nothing; the INSERT, which waits only for another INSERT of the name; and
\* the UPDATE, which waits for the row and finds it only if not deleted.
provision_tenant(p) ==
  LET s == session[p]
      t == Head(s.todo)
      Next == [s EXCEPT !.todo = Tail(@), !.at = "check", !.done = @ \cup {t}]
  IN /\ s.op = "provision" /\ s.todo # <<>>
     /\ \/ /\ s.at = "check"
           /\ Statement(p, ~IsReserved(t) /\ tenants[t].status # "deleted", [s EXCEPT !.at = "insert"])
        \/ /\ s.at = "insert" /\ tenants[t].status = "none"
           /\ MayLockTenant(p, t)
           /\ Statement(p, TRUE, Next)
        \/ /\ s.at = "insert" /\ tenants[t].status # "none"
           /\ Statement(p, TRUE, [s EXCEPT !.at = "rename"])
        \/ /\ s.at = "rename"
           /\ MayLockTenant(p, t)
           /\ Statement(p, tenants[t].status # "deleted", Next)

\* An import commits all its tenants at once.
CommitProvision(p) ==
  LET s == session[p]
  IN /\ s.op = "provision" /\ s.todo = <<>>
     /\ EndSession(p)
     /\ tenants' = [t \in Tenants |-> IF t \in s.done /\ tenants[t].status = "none"
                                      THEN Row("active") ELSE tenants[t]]
     /\ UNCHANGED <<reviewers, events, verdicts, partial, out>>

-----------------------------------------------------------------------------
(* A transaction of the application that records a human verdict. *)

\* tenantPool.Begin enters the tenant; enter_tenant refuses a deleted one and
\* takes no lock.
enter_tenant(t) == tenants[t].status # "deleted"

TenantBegin(p) ==
  /\ May(p, "verdict")
  /\ \E k \in allow.tenants \X Reviewers :
       /\ enter_tenant(k[1])
       /\ BeginSession(p, [op |-> "verdict", k |-> k, at |-> "entered"])

\* require_active_reviewer: the tenant once more, then the reviewer FOR SHARE.
require_active_reviewer(p) ==
  LET s == session[p]
  IN /\ s.op = "verdict"
     /\ \/ /\ s.at = "entered"
           /\ Statement(p, tenants[s.k[1]].status # "deleted", [s EXCEPT !.at = "tenant"])
        \/ /\ s.at = "tenant"
           /\ MayShareReviewer(p, s.k)
           /\ Statement(p, reviewers[s.k].status \notin {"none", "deleted"}, [s EXCEPT !.at = "reviewer"])

CommitVerdict(p) ==
  LET s == session[p]
  IN /\ s.op = "verdict" /\ s.at = "reviewer"
     /\ verdicts[s.k] < MaxVerdicts
     /\ verdicts' = [verdicts EXCEPT ![s.k] = @ + 1]
     /\ EndSession(p)
     /\ UNCHANGED <<tenants, reviewers, events, partial, out>>

-----------------------------------------------------------------------------
(* The export of the audit log to a file. *)

ById(a, b) == a.id < b.id

\* export_identity_events: the next page after an event_id.
export_identity_events(log, after) ==
  LET rest == {e \in Range(log) : e.id > after}
      page == {e \in rest : Cardinality({d \in rest : d.id <= e.id}) <= PageSize}
  IN [i \in 1 .. Cardinality(page) |->
        CHOOSE e \in page : Cardinality({d \in page : d.id <= e.id}) = i]

identityExportCmd(p) ==
  /\ p \in allow.exporters
  /\ out = NoFile
  /\ BeginSession(p, [op |-> "export", at |-> "create"])

\* O_EXCL: an existing partial file, whoever left it, ends the export.
CreatePartial(p) ==
  /\ session[p].op = "export" /\ session[p].at = "create"
  /\ IF partial = NoOne
     THEN /\ partial' = p
          /\ Step(p, [op |-> "export", at |-> "snapshot", begun |-> Len(events)])
     ELSE Rollback(p) /\ UNCHANGED partial
  /\ UNCHANGED <<tenants, reviewers, events, nextEvent, verdicts, out, allow>>

\* REPEATABLE READ: every page is read from the events of one moment.
exportIdentityEvents(p) ==
  LET s == session[p]
  IN /\ s.op = "export" /\ s.at = "snapshot"
     /\ Statement(p, TRUE, [op |-> "export", at |-> "pages", begun |-> s.begun, log |-> events,
                            after |-> 0, lines |-> <<>>])

\* Mutant: every page reads the events committed by then.
exportCommittedPage(p) ==
  LET s == session[p]
      page == export_identity_events(events, s.after)
      next == [s EXCEPT !.lines = @ \o page]
  IN /\ s.op = "export" /\ s.at = "pages"
     /\ Statement(p, TRUE, IF Len(page) < PageSize
                           THEN [next EXCEPT !.at = "link"]
                           ELSE [next EXCEPT !.after = Last(page).id])

exportIdentityPage(p) ==
  LET s == session[p]
      page == export_identity_events(s.log, s.after)
      next == [s EXCEPT !.lines = @ \o page]
  IN /\ s.op = "export" /\ s.at = "pages"
     /\ Statement(p, TRUE, IF Len(page) < PageSize
                           THEN [next EXCEPT !.at = "link"]
                           ELSE [next EXCEPT !.after = Last(page).id])

\* The end of writeIdentityExport: link fails rather than replace a file, the
\* partial file goes away whether or not it succeeds.
LinkExport(p) ==
  LET s == session[p]
  IN /\ s.op = "export" /\ s.at = "link"
     /\ IF out = NoFile
        THEN /\ out' = [exists |-> TRUE, lines |-> s.lines, begun |-> s.begun]
             /\ Step(p, [op |-> "export", at |-> "remove"])
             /\ UNCHANGED partial
        ELSE Rollback(p) /\ partial' = NoOne /\ UNCHANGED out
     /\ UNCHANGED <<tenants, reviewers, events, nextEvent, verdicts, allow>>

\* A failed write, and the last step of a good one, remove the partial file.
RemovePartial(p) ==
  /\ session[p].op = "export" /\ session[p].at \in {"pages", "remove"}
  /\ partial' = NoOne
  /\ Rollback(p)
  /\ UNCHANGED <<tenants, reviewers, events, nextEvent, verdicts, out, allow>>

\* What the refusal of an existing partial file asks the operator to do, once
\* no export is running.
RemoveLeftover ==
  /\ partial = Leftover
  /\ partial' = NoOne
  /\ UNCHANGED <<tenants, reviewers, events, nextEvent, verdicts, session, out, allow>>

-----------------------------------------------------------------------------
\* The process behind a session dies, or the database ends its transaction.
Crash(p) ==
  /\ session[p] # Idle
  /\ Rollback(p)
  /\ partial' = IF partial = p THEN Leftover ELSE partial
  /\ UNCHANGED <<tenants, reviewers, events, nextEvent, verdicts, out, allow>>

IdentityInit ==
  /\ reviewers = [k \in Keys |-> NoRow]
  /\ events = <<>>
  /\ nextEvent = 1
  /\ verdicts = [k \in Keys |-> 0]
  /\ session = [p \in Sessions |-> Idle]
  /\ partial = NoOne
  /\ out = NoFile

IdentityNext ==
  \/ \E p \in Sessions :
       \/ identityActionCmd(p)
       \/ LockRow(p)
       \/ ShareTenant(p)
       \/ FindReviewer(p)
       \/ RecordEvent(p)
       \/ CommitSigned(p)
       \/ identityTraceCmd(p)
       \/ CommitTrace(p)
       \/ tenantSetStatusCmd(p)
       \/ LockStatus(p)
       \/ CommitStatus(p)
       \/ tenantCreateCmd(p)
       \/ tenantImportCmd(p)
       \/ provision_tenant(p)
       \/ CommitProvision(p)
       \/ TenantBegin(p)
       \/ require_active_reviewer(p)
       \/ CommitVerdict(p)
       \/ identityExportCmd(p)
       \/ CreatePartial(p)
       \/ exportIdentityEvents(p)
       \/ exportIdentityPage(p)
       \/ LinkExport(p)
       \/ RemovePartial(p)
       \/ Crash(p)
  \/ RemoveLeftover

-----------------------------------------------------------------------------
(* Properties. *)

\* The events of one identity, oldest event_id first.
History(kind, t, r, verbs) ==
  LET mine == {e \in Range(events) : e.kind = kind /\ e.t = t /\ e.r = r /\ e.verb \in verbs}
  IN [i \in 1 .. Cardinality(mine) |-> CHOOSE e \in mine : Cardinality({d \in mine : d.id <= e.id}) = i]

\* A history that alternates between two verbs, and says of a row whether the
\* first of them holds.
Paired(h, first, second, holds) ==
  /\ \A i \in DOMAIN h : h[i].verb = IF i % 2 = 1 THEN first ELSE second
  /\ holds <=> Len(h) % 2 = 1

\* The audit log alone tells the state of every tenant and reviewer: in
\* event_id order the delete and restore events of an identity are paired, so
\* are its hide and unhide events, an identity is deleted or hidden exactly
\* when the last event of the pair says so, hidden only while deleted, and a
\* reviewer exists exactly when an add was recorded (the functions of the
\* schema draw the event_id while they hold the row's lock).
LogTellsTheState ==
  /\ \A t \in Tenants :
       /\ Paired(History("tenant", t, NoOne, {"delete", "restore"}), "delete", "restore", tenants[t].status = "deleted")
       /\ Paired(History("tenant", t, NoOne, {"hide", "unhide"}), "hide", "unhide", tenants[t].hidden)
       /\ tenants[t].hidden => tenants[t].status = "deleted"
  /\ \A k \in Keys :
       LET t == k[1]  r == k[2]
       IN /\ Paired(History("reviewer", t, r, {"delete", "restore"}), "delete", "restore", reviewers[k].status = "deleted")
          /\ Paired(History("reviewer", t, r, {"hide", "unhide"}), "hide", "unhide", reviewers[k].hidden)
          /\ reviewers[k].hidden => reviewers[k].status = "deleted"
          /\ reviewers[k].status # "none" <=> History("reviewer", t, r, {"add"}) # <<>>

\* A verdict is committed only while its reviewer is active, however
\* delete_reviewer interleaves with the transaction that records it, and a
\* reviewer becomes active only while their tenant is not deleted (the FOR
\* SHARE locks of require_active_reviewer, add_reviewer and restore_reviewer).
ActiveWhenUsed ==
  [][/\ \A k \in Keys : verdicts'[k] # verdicts[k] => reviewers[k].status = "active"
     /\ \A k \in Keys : (reviewers[k].status # "active" /\ reviewers'[k].status = "active")
                          => tenants[k[1]].status # "deleted"]_identityVars

\* A file at the --out path is always a whole export: its lines, in event_id
\* order, are exactly the events of a moment at or after the export began,
\* none skipped between two pages, whatever commits meanwhile, and once there
\* the file never changes (writeIdentityExport, exportIdentityEvents).
ExportIsWhole ==
  [][/\ out' # NoFile =>
          /\ \E n \in out'.begun .. Len(events') : Range(out'.lines) = {events'[i] : i \in 1 .. n}
          /\ \A i, j \in DOMAIN out'.lines : i < j => ById(out'.lines[i], out'.lines[j])
     /\ out # NoFile => out' = out]_identityVars

=============================================================================
