-------------------------- MODULE FindingLifecycle ---------------------------
(***************************************************************************)
(* One reconciliation finding, from the row a sweep inserts to its repair. *)
(* The sweep of an auto run repairs inline; an operator's apply goes       *)
(* through the retry queue. Both run the event "reconcile:<finding>"       *)
(* through Process and applyReconcileFinding.                              *)
(***************************************************************************)
EXTENDS Naturals, ReconcileRules

CONSTANTS Operators,        \* operators with the findings page open
          Engines,          \* retry engines
          Sweep,            \* the reconcile sweep's goroutine
          Modes,            \* "auto" and "manual" runs
          DeletePolicy,     \* what the source's policy does with deletes
          MaxRequests,      \* bound: operator requests
          MaxSweeps,        \* bound: times the divergence is detected
          MaxProviderFaults, MaxStoreFaults, \* bounds: failed calls
          MaxCrashes        \* bound: crashes and status updates that fail unnoticed

ASSUME FindingAssumption ==
    /\ Sweep \notin Engines
    /\ Modes \subseteq {"auto", "manual"} /\ DeletePolicy \in DeletePolicies
    /\ {MaxRequests, MaxSweeps, MaxProviderFaults, MaxStoreFaults, MaxCrashes} \subseteq Nat

Threads    == Engines \cup {Sweep}
Terminal   == {"applied", "dismissed", "skipped", "failed"}

VARIABLES mode,      \* reconciliation_runs.mode
          kind,      \* what the sweep found
          status,    \* reconciliation_findings.status, "none" before the insert
          direction, \* reconciliation_findings.direction
          row,       \* a retry_queue row for reconcile:<finding>
          claimed,   \* processed_events has the event
          parked,    \* dead_letter has the event
          repairs,   \* provider mutations made for this finding
          request,   \* per operator: the request that has read a pending finding
          pc, todo,  \* per thread: control point, direction read from the finding
          requests, sweeps, providerFaults, storeFaults, crashes

tables == <<mode, kind, status, direction, row, claimed, parked, repairs>>
counts == <<requests, sweeps, providerFaults, storeFaults, crashes>>
vars   == <<tables, request, pc, todo, counts>>

PCs == {"idle", "claim", "load", "call", "persist", "mark", "fail", "release", "again", "done"}

TypeOK ==
    /\ mode \in Modes /\ kind \in Kinds
    /\ status \in Terminal \cup {"none", "pending"}
    /\ direction \in Directions
    /\ {row, claimed, parked} \subseteq BOOLEAN
    /\ repairs \in Nat
    /\ request \in [Operators -> Directions \cup {"none", "apply", "dismiss"}]
    /\ pc \in [Threads -> PCs]
    /\ todo \in [Threads -> Directions]
    /\ requests \in 0 .. MaxRequests /\ sweeps \in 0 .. MaxSweeps
    /\ providerFaults \in 0 .. MaxProviderFaults
    /\ storeFaults \in 0 .. MaxStoreFaults /\ crashes \in 0 .. MaxCrashes

Init ==
    /\ mode \in Modes /\ kind \in Kinds
    /\ status = "none" /\ direction = reconcileDirection(kind)
    /\ row = FALSE /\ claimed = FALSE /\ parked = FALSE /\ repairs = 0
    /\ request = [o \in Operators |-> "none"]
    /\ pc = [t \in Threads |-> "idle"] /\ todo = [t \in Threads |-> reconcileDirection(kind)]
    /\ requests = 0 /\ sweeps = 0 /\ providerFaults = 0 /\ storeFaults = 0 /\ crashes = 0

Goto(t, p) == pc' = [pc EXCEPT ![t] = p]

\* Only a pending finding changes its status, or a failed one that is reopened.
SetReconciliationFindingStatus(s) ==
    status' = IF status = "pending" \/ (status = "failed" /\ s = "pending") THEN s ELSE status

-----------------------------------------------------------------------------
\* record: insert, or find the row of an earlier detection; an auto run then
\* repairs a pending finding, or parks it as skipped.
InsertFinding ==
    LET now == IF status = "none" THEN "pending" ELSE status IN
    /\ pc[Sweep] = "idle"
    /\ sweeps < MaxSweeps
    /\ sweeps' = sweeps + 1
    /\ \/ mode = "auto" /\ now = "pending" /\ repairable(kind, DeletePolicy) /\ status' = now /\ Goto(Sweep, "claim")
       \/ mode = "auto" /\ now = "pending" /\ ~repairable(kind, DeletePolicy) /\ status' = "skipped" /\ UNCHANGED pc
       \/ (mode = "manual" \/ now # "pending") /\ status' = now /\ UNCHANGED pc
    /\ UNCHANGED <<mode, kind, direction, row, claimed, parked, repairs, request, todo,
                   requests, providerFaults, storeFaults, crashes>>

\* handleApplyFinding and handleDismissFinding load a pending finding first.
GetPendingFinding(o, what) ==
    /\ request[o] = "none"
    /\ requests < MaxRequests
    /\ status = "pending"
    /\ request' = [request EXCEPT ![o] = what]
    /\ requests' = requests + 1
    /\ UNCHANGED <<tables, pc, todo, sweeps, providerFaults, storeFaults, crashes>>

\* An override is stored whatever the status is by now.
SetDirection(o) ==
    /\ request[o] \in Directions
    /\ direction' = request[o]
    /\ request' = [request EXCEPT ![o] = "apply"]
    /\ UNCHANGED <<mode, kind, status, row, claimed, parked, repairs, pc, todo, counts>>

EnqueueRepair(o) ==
    /\ request[o] = "apply"
    /\ row' = TRUE
    /\ request' = [request EXCEPT ![o] = "none"]
    /\ UNCHANGED <<mode, kind, status, direction, claimed, parked, repairs, pc, todo, counts>>

HandleDismissFinding(o) ==
    /\ request[o] = "dismiss"
    /\ SetReconciliationFindingStatus("dismissed")
    /\ request' = [request EXCEPT ![o] = "none"]
    /\ UNCHANGED <<mode, kind, direction, row, claimed, parked, repairs, pc, todo, counts>>

-----------------------------------------------------------------------------
ClaimDueRetry(e) ==
    /\ pc[e] = "idle"
    /\ row
    /\ Goto(e, "claim")
    /\ UNCHANGED <<tables, request, todo, counts>>

\* Mutated form of ClaimProcessedEvent: a claimed event is processed again.
ClaimAnyway(t) ==
    /\ pc[t] = "claim"
    /\ claimed' = TRUE
    /\ Goto(t, "load")
    /\ UNCHANGED <<mode, kind, status, direction, row, parked, repairs, request, todo, counts>>

\* An event claimed already is a duplicate and counts as handled.
ClaimProcessedEvent(t) ==
    /\ pc[t] = "claim"
    /\ claimed' = TRUE
    /\ Goto(t, IF claimed THEN "done" ELSE "load")
    /\ UNCHANGED <<mode, kind, status, direction, row, parked, repairs, request, todo, counts>>

\* applyReconcileFinding: a terminal finding is left alone, and a push is skipped
\* when the finding has no canonical record.
GetFinding(t) ==
    LET gone == direction = "push_canonical" /\ kind = "missed" IN
    /\ pc[t] = "load"
    /\ todo' = [todo EXCEPT ![t] = direction]
    /\ \/ status # "pending" /\ Goto(t, "done") /\ UNCHANGED status
       \/ status = "pending" /\ ~gone /\ Goto(t, "call") /\ UNCHANGED status
       \/ status = "pending" /\ gone /\ Goto(t, "done") /\ SetReconciliationFindingStatus("skipped")
    /\ UNCHANGED <<mode, kind, direction, row, claimed, parked, repairs, request, counts>>

\* The provider mutation of the direction: a delete the provider answers with
\* NOT_FOUND, and the propagation of an adopted value, count as it.
CallProvider(t) ==
    /\ pc[t] = "call"
    /\ repairs' = repairs + 1
    /\ Goto(t, IF todo[t] = "delete" THEN "mark" ELSE "persist")
    /\ UNCHANGED <<mode, kind, status, direction, row, claimed, parked, request, todo, counts>>

\* Mutated form of CallFails: every error is taken for NOT_FOUND.
CallFailureIgnored(t) ==
    /\ pc[t] = "call"
    /\ providerFaults < MaxProviderFaults
    /\ providerFaults' = providerFaults + 1
    /\ Goto(t, "mark")
    /\ UNCHANGED <<tables, request, todo, requests, sweeps, storeFaults, crashes>>

\* A provider error fails the finding, except while adopting the provider's
\* record, where only the event fails.
CallFails(t) ==
    /\ pc[t] = "call"
    /\ providerFaults < MaxProviderFaults
    /\ providerFaults' = providerFaults + 1
    /\ Goto(t, IF todo[t] = "adopt_provider" THEN "release" ELSE "fail")
    /\ UNCHANGED <<tables, request, todo, requests, sweeps, storeFaults, crashes>>

ReconcileFail(t) ==
    /\ pc[t] = "fail"
    /\ SetReconciliationFindingStatus("failed")
    /\ Goto(t, "release")
    /\ UNCHANGED <<mode, kind, direction, row, claimed, parked, repairs, request, todo, counts>>

\* The canonical record and the outbound fingerprint.
PersistRepair(t) ==
    /\ pc[t] = "persist"
    /\ \/ Goto(t, "mark") /\ UNCHANGED storeFaults
       \/ /\ storeFaults < MaxStoreFaults
          /\ storeFaults' = storeFaults + 1
          /\ Goto(t, "release")
    /\ UNCHANGED <<tables, request, todo, requests, sweeps, providerFaults, crashes>>

ReconcileApplied(t) ==
    /\ pc[t] = "mark"
    /\ SetReconciliationFindingStatus("applied")
    /\ Goto(t, "done")
    /\ UNCHANGED <<mode, kind, direction, row, claimed, parked, repairs, request, todo, counts>>

\* Mutated form of ReleaseProcessedEvent: the claim is kept after a failure.
KeepProcessedEvent(t) ==
    /\ pc[t] = "release"
    /\ Goto(t, IF t = Sweep THEN "idle" ELSE "again")
    /\ UNCHANGED <<tables, request, todo, counts>>

ReleaseProcessedEvent(t) ==
    /\ pc[t] = "release"
    /\ claimed' = FALSE
    /\ Goto(t, IF t = Sweep THEN "idle" ELSE "again")
    /\ UNCHANGED <<mode, kind, status, direction, row, parked, repairs, request, todo, counts>>

\* processRetry after an error: another attempt, or the dead-letter queue.
RetryOrPark(e) ==
    /\ pc[e] = "again"
    /\ \/ row' = TRUE /\ UNCHANGED parked
       \/ row' = FALSE /\ parked' = TRUE
    /\ Goto(e, "idle")
    /\ UNCHANGED <<mode, kind, status, direction, claimed, repairs, request, todo, counts>>

\* Process returned nil: an engine removes its row, the sweep goes on.
FinishRepair(t) ==
    /\ pc[t] = "done"
    /\ row' = (row /\ t = Sweep)
    /\ Goto(t, "idle")
    /\ UNCHANGED <<mode, kind, status, direction, claimed, parked, repairs, request, todo, counts>>

\* The process dies; or reconcileApplied or reconcileFail cannot store the status,
\* logs it and goes on.
Crash(t) ==
    /\ pc[t] # "idle"
    /\ crashes < MaxCrashes
    /\ crashes' = crashes + 1
    /\ \/ Goto(t, "idle")
       \/ pc[t] = "mark" /\ Goto(t, "done")
       \/ pc[t] = "fail" /\ Goto(t, "release")
    /\ UNCHANGED <<tables, request, todo, requests, sweeps, providerFaults, storeFaults>>

ThreadStep(t) ==
    \/ ClaimProcessedEvent(t) \/ GetFinding(t) \/ CallProvider(t)
    \/ ReconcileFail(t) \/ PersistRepair(t) \/ ReconcileApplied(t) \/ ReleaseProcessedEvent(t)
    \/ FinishRepair(t)
    \/ t \in Engines /\ (ClaimDueRetry(t) \/ RetryOrPark(t))

OperatorStep(o) ==
    \/ \E what \in Directions \cup {"apply", "dismiss"} : GetPendingFinding(o, what)
    \/ SetDirection(o) \/ EnqueueRepair(o) \/ HandleDismissFinding(o)

Next ==
    \/ InsertFinding
    \/ \E o \in Operators : OperatorStep(o)
    \/ \E t \in Threads : ThreadStep(t) \/ CallFails(t) \/ Crash(t)

Spec == Init /\ [][Next]_vars

\* Engines keep polling, and every call returns.
FairSpec == Spec /\ \A t \in Threads : WF_vars(ThreadStep(t))

-----------------------------------------------------------------------------
\* A finding is reported applied only when a provider mutation was made for it.
AppliedMeansRepaired == status = "applied" => repairs > 0

\* The idempotency claim lets sweep, engines and operator repair once: every
\* further provider mutation is paid for by a failed persist.
RepairsBounded == repairs <= 1 + storeFaults

\* A queued repair does not just disappear from the retry queue: the finding gets
\* a final status, failed only after a failed provider call, or the event is
\* parked. The exceptions: a crash left the claim behind, or the engine met the
\* claim of an automatic sweep whose own attempt then failed
\* (processRetry, applyReconcileFinding).
QueuedRepairEnds ==
    row ~> \/ status \in Terminal \ {"failed"}
           \/ status = "failed" /\ providerFaults > 0
           \/ parked
           \/ crashes > 0
           \/ mode = "auto" /\ providerFaults + storeFaults > 0

\* worker.go:727-728 and api/reconcile.go:131-133: a queued repair is carried
\* through, also after a failed call or a crash, or parked for an operator.
RepairCompletes == row ~> (status \in Terminal \ {"failed"} \/ parked)

=============================================================================
