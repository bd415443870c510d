--------------------------- MODULE MCEventPipeline ---------------------------
(***************************************************************************)
(* EventPipeline on small instances; the constants are in the .cfg files.  *)
(***************************************************************************)
EXTENDS EventPipeline, TLC

ReplicaSymmetry == Permutations(Replicas)

\* An accepted event settles however its attempts fail (Process, dispatchFailure,
\* processRetry); the specification treats all events alike, so one stands for all.
EventuallySettled == Settles(CHOOSE e \in Events : TRUE)

=============================================================================
