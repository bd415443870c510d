-------------------------- MODULE MCCanonicalApply ---------------------------
(***************************************************************************)
(* CanonicalApply between two providers.                                   *)
(***************************************************************************)
EXTENDS CanonicalApply, TLC

CONSTANTS sf, hs

\* Salesforce's policy has the smaller priority number.
MCPriority == (sf :> 1) @@ (hs :> 2)

=============================================================================
