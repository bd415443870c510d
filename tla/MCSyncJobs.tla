----------------------------- MODULE MCSyncJobs ------------------------------
\* The job lists of the SyncJobs models.
EXTENDS SyncJobs

OneInitial   == <<"initial">>
SweepSecond  == <<"initial", "reconcile">>
SweepFirst   == <<"reconcile", "initial">>

=============================================================================
