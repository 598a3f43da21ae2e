--------------------------- MODULE MCCatalogGraph ---------------------------
(* Two catalogs, one of them with a child listed ahead of its parent, and a *)
(* document that is refused; two jobs over both catalogs, one of which      *)
(* found a control that no catalog has.                                     *)
EXTENDS CatalogGraph, TLC

MCItems == [c \in {"a", "b"} |-> IF c = "a" THEN <<[id |-> "c1", parent |-> "c2"], [id |-> "c2", parent |-> ""]>>
                                           ELSE <<[id |-> "c1", parent |-> ""]>>]
MCReads == "j1" :> {"a"} @@ "j2" :> {"a", "b"}
MCMatches == "j1" :> <<<<<<"a", "c1">>, <<"a", "c9">>>>, <<<<"a", "c1">>, <<"a", "c2">>>>>>
             @@ "j2" :> <<<<<<"a", "c1">>, <<"b", "c1">>>>, <<<<"a", "c1">>, <<"a", "c2">>>>>>
MCRequires == "j1" :> <<<<<<"a", "c1">>, <<"a", "c2">>>>>> @@ "j2" :> << >>
MCArtifacts == "j1" :> <<[control |-> <<"a", "c1">>, types |-> <<"policy">>]>>
               @@ "j2" :> <<[control |-> <<"a", "c1">>, types |-> <<"log">>]>>

\* Failing imports; one daemon's failing projection; two daemons of which one
\* crashes, or is stopped; two stages; a stage while a GraphDB call fails or the
\* daemon crashes.
Budget(faults, starts, stops, crashes, stages, analyzers) ==
  [faults |-> faults, starts |-> starts, stops |-> stops, crashes |-> crashes, stages |-> stages, analyzers |-> analyzers]
MCBudgets == {Budget(2, 0, 0, 0, 0, {}), Budget(1, 1, 0, 0, 0, {}), Budget(0, 2, 0, 1, 0, {}), Budget(0, 2, 1, 0, 0, {}),
              Budget(0, 1, 0, 0, 2, {"relationship"}), Budget(0, 1, 0, 0, 1, Analyzers \ {"relationship"}),
              Budget(1, 1, 0, 0, 1, {"requires"}), Budget(0, 1, 0, 1, 1, {"artifacts"})}
=============================================================================
