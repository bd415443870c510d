-------------------------- MODULE MCReconcileSweep ---------------------------
\* The policies of the ReconcileSweep models.
EXTENDS ReconcileSweep

Propagate == <<[source |-> "hubspot", destination |-> "salesforce", deletePolicy |-> "ignore"],
               [source |-> "salesforce", destination |-> "hubspot", deletePolicy |-> "propagate"]>>
Ignore    == <<[source |-> "hubspot", destination |-> "salesforce", deletePolicy |-> "ignore"]>>

PropagateOnly == {Propagate}
IgnoreOnly    == {Ignore}
Both          == {Propagate, Ignore}

=============================================================================
