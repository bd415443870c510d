-------------------------- MODULE ConflictLifecycle --------------------------
(***************************************************************************)
(* One manual conflict, from the row the worker parks to the operator's    *)
(* decision and its application. Resolving enqueues the event              *)
(* "resolve:<id>" of the chosen side's source on the retry queue; retry    *)
(* engines run it through Process and applyResolution. Every store call is *)
(* a transaction of its own.                                               *)
(***************************************************************************)
EXTENDS Naturals, Sequences

CONSTANTS Operators, Engines,
          Routings,     \* sets of sides whose sources have a sync policy
          MaxRequests,  \* bound: operator requests
          MaxFaults,    \* bound: failing calls during an apply
          MaxCrashes    \* bound: engine crashes

Sides  == {"a", "b"}
None   == "none"

ASSUME LifecycleAssumption ==
    /\ Routings \subseteq SUBSET Sides
    /\ MaxRequests \in Nat /\ MaxFaults \in Nat /\ MaxCrashes \in Nat

VARIABLES routed,   \* sides whose source has a sync policy
          status,   \* conflicts.status
          row,      \* side queued in retry_queue under resolve:<id>
          claims,   \* processed_events: sides whose (source, event id) is claimed
          applied,  \* sides committed to the canonical record, in order
          parked,   \* the resolution is in the dead-letter queue
          request,  \* what each operator request has read and is about to do
          eng,      \* the retry engines
          requests, faults, crashes

vars == <<routed, status, row, claims, applied, parked, request, eng, requests, faults, crashes>>

Idle == [pc |-> "idle", side |-> None]
PCs  == {"idle", "claim", "policies", "write", "commit", "status", "delete", "release", "again"}

TypeOK ==
    /\ routed \in Routings
    /\ status \in {None, "pending", "resolved", "dismissed"}
    /\ row \in Sides \cup {None}
    /\ claims \subseteq Sides
    /\ applied \in Seq(Sides)
    /\ parked \in BOOLEAN
    /\ request \in [Operators -> Sides \cup {None, "dismiss"}]
    /\ eng \in [Engines -> [pc : PCs, side : Sides \cup {None}]]
    /\ requests \in 0 .. MaxRequests
    /\ faults \in 0 .. MaxFaults
    /\ crashes \in 0 .. MaxCrashes

Init ==
    /\ routed \in Routings
    /\ status = None /\ row = None /\ claims = {} /\ applied = <<>> /\ parked = FALSE
    /\ request = [o \in Operators |-> None]
    /\ eng = [e \in Engines |-> Idle]
    /\ requests = 0 /\ faults = 0 /\ crashes = 0

Goto(e, pc) == eng' = [eng EXCEPT ![e].pc = pc]

-----------------------------------------------------------------------------
\* The worker parks the conflict; the same pair detected again changes nothing.
InsertConflict ==
    /\ status = None
    /\ status' = "pending"
    /\ UNCHANGED <<routed, row, claims, applied, parked, request, eng, requests, faults, crashes>>

\* The handlers read the row first and refuse one that is not pending.
GetPendingConflict(o, what) ==
    /\ request[o] = None
    /\ requests < MaxRequests
    /\ status = "pending"
    /\ request' = [request EXCEPT ![o] = what]
    /\ requests' = requests + 1
    /\ UNCHANGED <<routed, status, row, claims, applied, parked, eng, faults, crashes>>

\* handleResolveConflict: the queued state is overwritten by the later request.
EnqueueResolution(o) ==
    /\ request[o] \in Sides
    /\ row' = request[o]
    /\ request' = [request EXCEPT ![o] = None]
    /\ UNCHANGED <<routed, status, claims, applied, parked, eng, requests, faults, crashes>>

\* Every status but dismissed may be overwritten.
SetConflictStatus(s) == status' = IF status = "dismissed" THEN status ELSE s

\* handleDismissConflict.
Dismiss(o) ==
    /\ request[o] = "dismiss"
    /\ SetConflictStatus("dismissed")
    /\ request' = [request EXCEPT ![o] = None]
    /\ UNCHANGED <<routed, row, claims, applied, parked, eng, requests, faults, crashes>>

-----------------------------------------------------------------------------
\* The row is read and stays visible to the other engines.
ClaimDueRetry(e) ==
    /\ eng[e] = Idle
    /\ row # None
    /\ eng' = [eng EXCEPT ![e] = [pc |-> "claim", side |-> row]]
    /\ UNCHANGED <<routed, status, row, claims, applied, parked, request, requests, faults, crashes>>

\* Mutated form of ClaimProcessedEvent: a claimed event is processed again.
ClaimAnyway(e) ==
    /\ eng[e].pc = "claim"
    /\ claims' = claims \cup {eng[e].side}
    /\ Goto(e, "policies")
    /\ UNCHANGED <<routed, status, row, applied, parked, request, requests, faults, crashes>>

\* Claimed already: a duplicate, reported as success.
ClaimProcessedEvent(e) ==
    /\ eng[e].pc = "claim"
    /\ claims' = claims \cup {eng[e].side}
    /\ Goto(e, IF eng[e].side \in claims THEN "delete" ELSE "policies")
    /\ UNCHANGED <<routed, status, row, applied, parked, request, requests, faults, crashes>>

\* Without a policy for the winning source the claim is released and the event
\* counts as handled.
SelectTargets(e) ==
    /\ eng[e].pc = "policies"
    /\ \/ eng[e].side \in routed /\ Goto(e, "write") /\ UNCHANGED claims
       \/ /\ eng[e].side \notin routed
          /\ claims' = claims \ {eng[e].side}
          /\ Goto(e, "delete")
    /\ UNCHANGED <<routed, status, row, applied, parked, request, requests, faults, crashes>>

\* Mutated form of WriteDestinations: the canonical record is left out.
WriteThenMark(e) ==
    /\ eng[e].pc = "write"
    /\ Goto(e, "status")
    /\ UNCHANGED <<routed, status, row, claims, applied, parked, request, requests, faults, crashes>>

\* Destination writes, then the canonical record; the conflict row is not read.
WriteDestinations(e) ==
    /\ eng[e].pc = "write"
    /\ Goto(e, "commit")
    /\ UNCHANGED <<routed, status, row, claims, applied, parked, request, requests, faults, crashes>>

UpsertCanonical(e) ==
    /\ eng[e].pc = "commit"
    /\ applied' = Append(applied, eng[e].side)
    /\ Goto(e, "status")
    /\ UNCHANGED <<routed, status, row, claims, parked, request, requests, faults, crashes>>

MarkResolved(e) ==
    /\ eng[e].pc = "status"
    /\ SetConflictStatus("resolved")
    /\ Goto(e, "delete")
    /\ UNCHANGED <<routed, row, claims, applied, parked, request, requests, faults, crashes>>

\* Mutated form of DeleteRetry: the row is not removed after a success.
KeepRetry(e) ==
    /\ eng[e].pc = "delete"
    /\ eng' = [eng EXCEPT ![e] = Idle]
    /\ UNCHANGED <<routed, status, row, claims, applied, parked, request, requests, faults, crashes>>

\* Success deletes the row of the event id, whatever it holds by now.
DeleteRetry(e) ==
    /\ eng[e].pc = "delete"
    /\ row' = None
    /\ parked' = FALSE
    /\ eng' = [eng EXCEPT ![e] = Idle]
    /\ UNCHANGED <<routed, status, claims, applied, request, requests, faults, crashes>>

\* A destination or store call fails. A failed status update is only logged.
FailCall(e) ==
    /\ eng[e].pc \in {"write", "commit", "status"}
    /\ faults < MaxFaults
    /\ faults' = faults + 1
    /\ Goto(e, IF eng[e].pc = "status" THEN "delete" ELSE "release")
    /\ UNCHANGED <<routed, status, row, claims, applied, parked, request, requests, crashes>>

ReleaseProcessedEvent(e) ==
    /\ eng[e].pc = "release"
    /\ claims' = claims \ {eng[e].side}
    /\ Goto(e, "again")
    /\ UNCHANGED <<routed, status, row, applied, parked, request, requests, faults, crashes>>

\* Attempts left: the row gets this engine's state. Otherwise it is parked.
RetryOrPark(e) ==
    /\ eng[e].pc = "again"
    /\ \/ row' = eng[e].side /\ UNCHANGED parked
       \/ row' = None /\ parked' = TRUE
    /\ eng' = [eng EXCEPT ![e] = Idle]
    /\ UNCHANGED <<routed, status, claims, applied, request, requests, faults, crashes>>

CrashEngine(e) ==
    /\ eng[e] # Idle
    /\ crashes < MaxCrashes
    /\ crashes' = crashes + 1
    /\ eng' = [eng EXCEPT ![e] = Idle]
    /\ UNCHANGED <<routed, status, row, claims, applied, parked, request, requests, faults>>

EngineStep(e) ==
    \/ ClaimDueRetry(e) \/ ClaimProcessedEvent(e) \/ SelectTargets(e)
    \/ WriteDestinations(e) \/ UpsertCanonical(e) \/ MarkResolved(e)
    \/ DeleteRetry(e) \/ ReleaseProcessedEvent(e) \/ RetryOrPark(e)

OperatorStep(o) ==
    \/ \E what \in Sides \cup {"dismiss"} : GetPendingConflict(o, what)
    \/ EnqueueResolution(o)
    \/ Dismiss(o)

Next ==
    \/ InsertConflict
    \/ \E o \in Operators : OperatorStep(o)
    \/ \E e \in Engines : EngineStep(e) \/ FailCall(e) \/ CrashEngine(e)

Spec == Init /\ [][Next]_vars

\* Each engine keeps polling and each call returns.
FairSpec == Spec /\ \A e \in Engines : WF_vars(EngineStep(e))

-----------------------------------------------------------------------------
\* A conflict is reported resolved only when a side has been committed
\* (applyResolution marks it after the canonical record).
ResolvedMeansApplied == status = "resolved" => applied # <<>>

\* No side is applied a second time, across retries, engines that read the row
\* twice, failing calls and crashes (ClaimProcessedEvent on resolve:<id>).
SideAppliedOnce == \A i, j \in DOMAIN applied : applied[i] = applied[j] => i = j

\* docs/conflict-resolution.md:40-42: a resolution is applied exactly once,
\* across retries, engines and crashes.
AppliedOnce == Len(applied) <= 1

\* The retry queue gets rid of a queued resolution: applied, parked or found to
\* be a duplicate (processRetry).
QueueDrains == row # None ~> row = None

=============================================================================
