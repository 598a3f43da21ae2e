------------------------------- MODULE Access -------------------------------
(***************************************************************************)
(* Operators, reviewers and clients together: the gateway serves requests  *)
(* while `crosscodexd admin` suspends, deletes and restores their tenants. *)
(***************************************************************************)
EXTENDS Gateway

vars == <<identityVars, gatewayVars>>

Next ==
  \/ IdentityNext /\ UNCHANGED gatewayVars
  \/ GatewayNext /\ UNCHANGED identityVars

=============================================================================
