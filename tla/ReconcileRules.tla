---------------------------- MODULE ReconcileRules ---------------------------
(***************************************************************************)
(* The pure decisions of reconciliation: what kind of divergence a record  *)
(* is, which side repairs it, and whether auto mode may act.               *)
(***************************************************************************)
EXTENDS Sequences

Kinds          == {"drift", "missed", "deleted", "missing"}
Directions     == {"push_canonical", "adopt_provider", "delete"}
DeletePolicies == {"propagate", "tombstone_only", "ignore"}

\* Mutated form of classify: tombstones are not looked at.
classifyWithoutTombstone(known, tombstone, same) ==
    CASE ~known          -> "missed"
      [] known /\ ~same  -> "drift"
      [] OTHER           -> ""

\* The kind of a live provider record, "" when it is in sync.
classify(known, tombstone, same) ==
    CASE ~known                         -> "missed"
      [] known /\ tombstone             -> "deleted"
      [] known /\ ~tombstone /\ ~same   -> "drift"
      [] OTHER                          -> ""

\* Mutated form of reconcileDirection: the provider wins a drift.
adoptDrift(kind) ==
    CASE kind = "deleted" -> "delete"
      [] kind \in {"missed", "drift"} -> "adopt_provider"
      [] OTHER -> "push_canonical"

\* The default repair of a kind.
reconcileDirection(kind) ==
    CASE kind = "deleted" -> "delete"
      [] kind = "missed"  -> "adopt_provider"
      [] OTHER            -> "push_canonical"

\* Mutated form of shouldRecreateMissing: without the policy.
recreateAlways(policy) == TRUE

shouldRecreateMissing(policy) == policy \in {"tombstone_only", "ignore"}

repairable(kind, policy) ==
    CASE kind = "deleted" -> policy = "propagate"
      [] kind = "missing" -> shouldRecreateMissing(policy)
      [] OTHER            -> TRUE

\* The first policy with the provider as source, else as destination, decides.
deletePolicyFor(policies, provider) ==
    LET AsSource(p)      == p.source = provider
        AsDestination(p) == p.destination = provider
        mentioning == SelectSeq(policies, AsSource) \o SelectSeq(policies, AsDestination)
    IN IF mentioning = <<>> THEN "propagate" ELSE Head(mentioning).deletePolicy

=============================================================================
