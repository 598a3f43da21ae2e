----------------------------- MODULE MCCustody -----------------------------
(* Instances of Custody: a job, a catalog and an attestation object of one  *)
(* tenant, and an uploaded document of another.                             *)
EXTENDS Custody, TLC

CONSTANTS t1, t2, j1, c1, o1, o2

MCTenantOf == (j1 :> t1) @@ (c1 :> t1) @@ (o1 :> t1) @@ (o2 :> t2)
MCPrefix   == (o1 :> "attestation/") @@ (o2 :> "documents/")
MCPolicy   == (ClassJobResults :> 0) @@ (ClassCatalogs :> Indefinite)
                @@ (ClassAttestation :> 0)
MCPolicies == {[MCPolicy EXCEPT ![ClassCatalogs] = 0]}
MCScopes   == {[tenant |-> t1, id |-> Unset, before |-> 1],
               [tenant |-> Unset, id |-> j1, before |-> Unset]}

NoEvents == [writes |-> 0, runLosses |-> 0, scanLosses |-> 0, holds |-> 0, scans |-> 0,
             scanFaults |-> 0, runs |-> 0, faults |-> 0, damage |-> 0, restores |-> 0, disasters |-> 0]

\* Overlapping scans with faults and a scan whose lock session drops; a scan
\* with a hold; a scan against a run, where the session of either drops; runs
\* and restores with faults; a scan after a disaster.
MCBudgets ==
    {[NoEvents EXCEPT !.scans = 2, !.scanFaults = 1, !.scanLosses = 1],
     [NoEvents EXCEPT !.scans = 1, !.holds = 1, !.writes = 1],
     [NoEvents EXCEPT !.scans = 1, !.runs = 1, !.runLosses = 1, !.writes = 1],
     [NoEvents EXCEPT !.scans = 1, !.runs = 1, !.scanLosses = 1],
     [NoEvents EXCEPT !.runs = 2, !.faults = 1, !.damage = 1, !.restores = 2,
                      !.disasters = 2, !.writes = 1],
     [NoEvents EXCEPT !.scans = 1, !.disasters = 1]}

=============================================================================
