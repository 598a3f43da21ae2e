-------------------------- MODULE VerdictAuthority --------------------------
(***************************************************************************)
(* What the SAME_AS verdict store promises, without leases, claims, runs   *)
(* or a graph (the rules on the VerdictStore interface, verdicts.go): a    *)
(* queued pair is decided at most once by automation, a person may decide  *)
(* it at any time and again later, and from the first human verdict on     *)
(* only a person changes it.                                               *)
(***************************************************************************)
CONSTANT Pairs

VARIABLE verdict        \* per pair: its status and the authority behind it

Closed == {"confirmed", "rejected"}

NotQueued == [status |-> "absent", by |-> "token_overlap"]

Init == verdict = [p \in Pairs |-> NotQueued]

\* One reconcile queues every pair it found.
Queue(found) ==
    /\ \A p \in found : verdict[p] = NotQueued
    /\ verdict' = [p \in Pairs |-> IF p \in found THEN [status |-> "pending", by |-> "token_overlap"]
                                                  ELSE verdict[p]]

PanelDecides(p, s) ==
    /\ verdict[p].status = "pending"
    /\ verdict[p].by # "human"
    /\ verdict' = [verdict EXCEPT ![p] = [status |-> s, by |-> "llm_panel"]]

GiveUp(p) ==
    /\ verdict[p].status = "pending"
    /\ verdict[p].by # "human"
    /\ verdict' = [verdict EXCEPT ![p].status = "abandoned"]

PersonDecides(p, s) ==
    /\ verdict[p].status # "absent"
    /\ verdict' = [verdict EXCEPT ![p] = [status |-> s, by |-> "human"]]

Next ==
    \/ \E found \in SUBSET Pairs : Queue(found)
    \/ \E p \in Pairs :
        \/ \E s \in Closed \union {"undecided"} : PanelDecides(p, s)
        \/ GiveUp(p)
        \/ \E s \in Closed : PersonDecides(p, s)

Spec == Init /\ [][Next]_verdict
=============================================================================
