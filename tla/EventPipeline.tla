---------------------------- MODULE EventPipeline ----------------------------
(***************************************************************************)
(* The durable path of an event: webhook gateway -> source_events ->       *)
(* ingestion processor -> bus -> sync worker -> destination, with the      *)
(* retry engine, the dead-letter queue and its operator.  Every engine     *)
(* replica (cmd/engine/main.go) runs one ingestion loop, one bus consumer  *)
(* and one retry loop; the last two call syncworker.Worker.Process.        *)
(*                                                                         *)
(* One action is one store or provider call: each is a transaction of its  *)
(* own, other threads interleave between two of them, and a replica may    *)
(* die there.  What Process decides from the event's data (no policy,      *)
(* stale, echo, parked conflict, write) is a nondeterministic choice; the  *)
(* data path is module CanonicalApply.  The events here are the providers';*)
(* operator resolutions (ConflictLifecycle) and repairs (FindingLifecycle) *)
(* take the same road without the version check.                           *)
(***************************************************************************)
EXTENDS Naturals, Sequences, SyncStore, RedpandaBus

CONSTANTS NoEvent,         \* the event of an idle thread
          MaxAttempts,     \* RetryMaxAttempts
          MaxFaults,       \* bound: failed provider, schema or broker calls
          MaxDbErrors,     \* bound: failed store calls
          MaxDisruptions,  \* bound: replica crashes and group rebalances
          MaxReplays       \* bound: operator replays from the DLQ

ASSUME PipelineAssumption ==
    /\ NoEvent \notin Events
    /\ MaxAttempts \in Nat \ {0}
    /\ MaxTopic \in Nat /\ MaxFaults \in Nat /\ MaxDbErrors \in Nat
    /\ MaxDisruptions \in Nat /\ MaxReplays \in Nat

VARIABLES
    sourceEvents,  \* source_events.status
    processed,     \* processed_events: the claimed events
    retryQueue,    \* retry_queue: attempt counter, 0 without a row
    deadLetter,    \* dead_letter.status
    effects,       \* how often the event mutated its destination
    outcome,       \* what became of the event: "applied" once PersistApplyState
                   \* committed, "dropped" once Process decided not to apply it
    ingest,        \* the ingestion loop of each replica
    th,            \* the bus consumer and the retry loop of each replica
    replay,        \* the event of a half-done operator replay
    nacked,        \* history: records whose handler returned an error or died, and at
                   \* offset 0 the events the retry engine gave up without an outcome
    faults, dbErrors, disruptions, replays

tables == <<sourceEvents, processed, retryQueue, deadLetter>>
world  == <<effects, outcome>>
bounds == <<faults, dbErrors, disruptions, replays>>
vars   == <<busVars, tables, world, ingest, th, replay, nacked, bounds>>

Threads == [replica : Replicas, role : {"bus", "retry"}]

PCs == {"idle", "claim", "apply", "write", "persist", "processed", "release",
        "failed", "handoff", "dlqmark", "delete", "resolve", "discard"}

\* connectors.Classify and ShouldRetry, reduced to the branch they select.
Kinds == {"transient", "permanent"}

ThreadState == [pc : PCs, ev : Events \cup {NoEvent}, att : Nat, off : Nat,
                kind : Kinds]

IdleThread == [pc |-> "idle", ev |-> NoEvent, att |-> 0, off |-> 0,
               kind |-> "transient"]

IdleIngest == [pc |-> "idle", ev |-> NoEvent]

TablesOK ==
    /\ sourceEvents \in [Events -> SourceStatus]
    /\ processed \subseteq Events
    /\ retryQueue \in [Events -> Nat]
    /\ deadLetter \in [Events -> DeadLetterStatus]

WorldOK ==
    /\ effects \in [Events -> Nat]
    /\ outcome \in [Events -> {"pending", "applied", "dropped"}]

IngestOK ==
    /\ ingest \in [Replicas -> [pc : {"idle", "publish", "mark"},
                                ev : Events \cup {NoEvent}]]
    /\ \A r \in Replicas : ingest[r].pc # "idle" => ingest[r].ev \in Events

ThreadsOK ==
    /\ th \in [Threads -> ThreadState]
    /\ \A w \in Threads : th[w].pc # "idle" => th[w].ev \in Events

\* The type invariant; a loop that is not idle has an event in hand.
TypeOK ==
    /\ BusTypeOK /\ TablesOK /\ WorldOK /\ IngestOK /\ ThreadsOK
    /\ replay \in Events \cup {NoEvent}
    /\ nacked \subseteq Nat \X Events
    /\ faults \in Nat /\ dbErrors \in Nat
    /\ disruptions \in Nat /\ replays \in Nat

Init ==
    /\ BusInit
    /\ sourceEvents = [e \in Events |-> "none"]
    /\ processed = {}
    /\ retryQueue = [e \in Events |-> 0]
    /\ deadLetter = [e \in Events |-> "none"]
    /\ effects = [e \in Events |-> 0]
    /\ outcome = [e \in Events |-> "pending"]
    /\ ingest = [r \in Replicas |-> IdleIngest]
    /\ th = [w \in Threads |-> IdleThread]
    /\ replay = NoEvent
    /\ nacked = {}
    /\ faults = 0 /\ dbErrors = 0 /\ disruptions = 0 /\ replays = 0

-----------------------------------------------------------------------------
\* Failures.  A store call that fails may or may not have committed; a caller
\* that ignores the error proceeds as if nothing had happened.

CallOk == UNCHANGED <<faults, dbErrors, disruptions, replays>>

StoreError ==
    /\ dbErrors < MaxDbErrors
    /\ dbErrors' = dbErrors + 1
    /\ UNCHANGED <<faults, disruptions, replays>>

Fault ==
    /\ faults < MaxFaults
    /\ faults' = faults + 1
    /\ UNCHANGED <<dbErrors, disruptions, replays>>

Goto(w, l) == th' = [th EXCEPT ![w].pc = l]

FailWith(w, k, l) == th' = [th EXCEPT ![w].pc = l, ![w].kind = k]

Rest(w) == th' = [th EXCEPT ![w] = IdleThread]

-----------------------------------------------------------------------------
\* Webhook gateway and ingestion processor

\* A repeated delivery of the same event id is answered "duplicate" and changes
\* nothing, which is a stuttering step.
HandleWebhook(e) ==
    /\ sourceEvents[e] = "none"
    /\ sourceEvents' = InsertSourceEvent(sourceEvents, e)
    /\ CallOk
    /\ UNCHANGED <<busVars, processed, retryQueue, deadLetter, world, ingest, th,
                   replay, nacked>>

\* Mutated form of PendingSourceEvents: every row that is not processed is pending.
PendingUnprocessed(r) ==
    /\ ingest[r].pc = "idle"
    /\ \E e \in Events :
          /\ sourceEvents[e] \notin {"none", "processed"}
          /\ ingest' = [ingest EXCEPT ![r] = [pc |-> "publish", ev |-> e]]
    /\ CallOk
    /\ UNCHANGED <<busVars, tables, world, th, replay, nacked>>

\* PendingSourceEvents: FOR UPDATE SKIP LOCKED outside a transaction, so the row
\* locks are gone when the rows are returned.
PendingSourceEvents(r) ==
    /\ ingest[r].pc = "idle"
    /\ \E e \in Events :
          /\ sourceEvents[e] = "received"
          /\ ingest' = [ingest EXCEPT ![r] = [pc |-> "publish", ev |-> e]]
    /\ CallOk
    /\ UNCHANGED <<busVars, tables, world, th, replay, nacked>>

\* A failed publish leaves the event 'received' for the next scan.
PublishPending(r) ==
    /\ ingest[r].pc = "publish"
    /\ \/ /\ Publish(ingest[r].ev)
          /\ ingest' = [ingest EXCEPT ![r].pc = "mark"]
          /\ CallOk
       \/ /\ Fault
          /\ ingest' = [ingest EXCEPT ![r] = IdleIngest]
          /\ UNCHANGED busVars
    /\ UNCHANGED <<tables, world, th, replay, nacked>>

MarkValidated(r) ==
    /\ ingest[r].pc = "mark"
    /\ \/ /\ sourceEvents' = SetSourceEventStatus(sourceEvents, ingest[r].ev,
                                                  "received", "validated")
          /\ CallOk
       \/ StoreError /\ UNCHANGED sourceEvents
    /\ ingest' = [ingest EXCEPT ![r] = IdleIngest]
    /\ UNCHANGED <<busVars, processed, retryQueue, deadLetter, world, th, replay,
                   nacked>>

-----------------------------------------------------------------------------
\* The two callers of Process

\* The consumer takes its next record and calls Worker.Handle on it.
DeliverRecord(r) ==
    LET w == [replica |-> r, role |-> "bus"] IN
    /\ th[w].pc = "idle"
    /\ FetchRecord(r)
    /\ th' = [th EXCEPT ![w] = [IdleThread EXCEPT !.pc = "claim",
                                                  !.ev = topic[position + 1],
                                                  !.off = position + 1]]
    /\ CallOk
    /\ UNCHANGED <<tables, world, ingest, replay, nacked>>

CommitOffsets(r) ==
    /\ th[[replica |-> r, role |-> "bus"]].pc = "idle"
    /\ CommitUncommittedOffsets(r)
    /\ CallOk
    /\ UNCHANGED <<tables, world, ingest, th, replay, nacked>>

\* Mutated form of ClaimDueRetries: a row is due from its second attempt on.
ClaimRepeatedRetries(r) ==
    LET w == [replica |-> r, role |-> "retry"] IN
    /\ th[w].pc = "idle"
    /\ \E e \in Events :
          /\ retryQueue[e] > 1
          /\ th' = [th EXCEPT ![w] = [IdleThread EXCEPT !.pc = "claim", !.ev = e,
                                                        !.att = retryQueue[e]]]
    /\ CallOk
    /\ UNCHANGED <<busVars, tables, world, ingest, replay, nacked>>

\* ClaimDueRetries returns the row and its lock ends with the query; the loop
\* then works from the copy it read.  Delays are finite, so any row may be due.
ClaimDueRetries(r) ==
    LET w == [replica |-> r, role |-> "retry"] IN
    /\ th[w].pc = "idle"
    /\ \E e \in Events :
          /\ retryQueue[e] > 0
          /\ th' = [th EXCEPT ![w] = [IdleThread EXCEPT !.pc = "claim", !.ev = e,
                                                        !.att = retryQueue[e]]]
    /\ CallOk
    /\ UNCHANGED <<busVars, tables, world, ingest, replay, nacked>>

\* Process returned nil: the consumer marks the record, the retry loop goes on
\* to delete the row.
ReturnNil(w) ==
    \/ /\ w.role = "bus"
       /\ Rest(w)
       /\ MarkCommitRecords(w.replica, th[w].off)
       /\ nacked' = nacked \ {<<th[w].off, th[w].ev>>}
    \/ /\ w.role = "retry"
       /\ Goto(w, "delete")
       /\ UNCHANGED <<busVars, nacked>>

\* Handle returned an error: the record loop logs it and continues.
ReturnError(w) ==
    /\ Rest(w)
    /\ nacked' = nacked \cup {<<th[w].off, th[w].ev>>}
    /\ UNCHANGED busVars

-----------------------------------------------------------------------------
\* Worker.Process

\* Mutated form of ClaimProcessedEvent: ON CONFLICT DO UPDATE instead of DO NOTHING.
ClaimAnyway(w) ==
    LET e == th[w].ev IN
    /\ th[w].pc = "claim"
    /\ \/ /\ processed' = processed \cup {e}
          /\ Goto(w, "apply")
          /\ CallOk
       \/ /\ StoreError
          /\ processed' \in {processed, processed \cup {e}}
          /\ FailWith(w, "transient", "handoff")
    /\ UNCHANGED <<busVars, sourceEvents, retryQueue, deadLetter, world, ingest, replay, nacked>>

\* Mutated form of ClaimProcessedEvent: a duplicate is marked processed.
ClaimOrMark(w) ==
    LET e == th[w].ev IN
    /\ th[w].pc = "claim"
    /\ \/ processed' = processed \cup {e} /\ Goto(w, IF e \in processed THEN "processed" ELSE "apply") /\ CallOk
       \/ /\ StoreError
          /\ processed' \in {processed, processed \cup {e}}
          /\ FailWith(w, "transient", "handoff")
    /\ UNCHANGED <<busVars, sourceEvents, retryQueue, deadLetter, world, ingest, replay, nacked>>

\* Where Process holds the claim it inserted.
Holding == {"apply", "write", "persist", "release"}

Busy(e, pcs) == \E w \in Threads : th[w].ev = e /\ th[w].pc \in pcs

\* The claim is a running attempt's, or a failed call or a crash may have left it.
ClaimOfOther(e) == Busy(e, Holding) \/ dbErrors + disruptions > 0

\* The INSERT into processed_events.  An error here returns before fail().
ClaimProcessedEvent(w) ==
    LET e == th[w].ev IN
    /\ th[w].pc = "claim"
    /\ \/ /\ e \notin processed
          /\ processed' = processed \cup {e}
          /\ Goto(w, "apply")
          /\ CallOk /\ UNCHANGED <<busVars, nacked>>
       \/ /\ e \in processed
          /\ \/ w.role = "bus" /\ ReturnNil(w)
             \/ /\ w.role = "retry"
                /\ Goto(w, "delete")
                /\ nacked' = IF ClaimOfOther(e) THEN nacked \cup {<<0, e>>} ELSE nacked
                /\ UNCHANGED busVars
          /\ CallOk /\ UNCHANGED processed
       \/ /\ StoreError
          /\ processed' \in {processed, processed \cup {e}}
          /\ FailWith(w, "transient", "handoff")
          /\ UNCHANGED <<busVars, nacked>>
    /\ UNCHANGED <<sourceEvents, retryQueue, deadLetter, world, ingest, replay>>

\* Policies, connections and the canonical record are read.  Without a policy the
\* claim is released; an event whose version is already recorded (certainly once
\* it was applied), that is our own echo or that parks a conflict is dropped with
\* the claim kept; otherwise the destination is written.
ApplyEvent(w) ==
    LET e == th[w].ev
        drop == [outcome EXCEPT ![e] = IF @ = "pending" THEN "dropped" ELSE @]
    IN
    /\ th[w].pc = "apply"
    /\ \/ /\ processed' = processed \ {e}
          /\ outcome' = drop
          /\ Goto(w, "processed")
          /\ CallOk
       \/ /\ outcome' = drop
          /\ Goto(w, "processed")
          /\ CallOk /\ UNCHANGED processed
       \/ /\ outcome[e] # "applied"
          /\ Goto(w, "write")
          /\ CallOk /\ UNCHANGED <<processed, outcome>>
       \/ /\ \/ Fault /\ FailWith(w, "permanent", "release")
             \/ StoreError /\ FailWith(w, "transient", "release")
          /\ UNCHANGED <<processed, outcome>>
    /\ UNCHANGED <<busVars, sourceEvents, retryQueue, deadLetter, effects, ingest,
                   replay, nacked>>

\* Mutated form of WriteDestination: a failed call is repeated in place.
WriteRepeating(w) ==
    LET e == th[w].ev IN
    /\ th[w].pc = "write"
    /\ \/ Goto(w, "persist") /\ CallOk
       \/ Fault /\ UNCHANGED th
    /\ effects' = [effects EXCEPT ![e] = @ + 1]
    /\ UNCHANGED <<busVars, tables, outcome, ingest, replay, nacked>>

\* The destination call.  A failed call may have reached the provider (timeout,
\* undecodable response) or not.
WriteDestination(w) ==
    LET e == th[w].ev IN
    /\ th[w].pc = "write"
    /\ \/ /\ effects' = [effects EXCEPT ![e] = @ + 1]
          /\ Goto(w, "persist")
          /\ CallOk
       \/ /\ Fault
          /\ \E n \in {0, 1} : effects' = [effects EXCEPT ![e] = @ + n]
          /\ \E k \in Kinds : FailWith(w, k, "release")
    /\ UNCHANGED <<busVars, tables, outcome, ingest, replay, nacked>>

\* PersistApplyState: canonical record, outbound write and ledger, one commit.
PersistApplyState(w) ==
    LET e == th[w].ev
        applied == [outcome EXCEPT ![e] = "applied"]
    IN
    /\ th[w].pc = "persist"
    /\ \/ /\ outcome' = applied
          /\ Goto(w, "processed")
          /\ CallOk
       \/ /\ StoreError
          /\ outcome' \in {outcome, applied}
          /\ FailWith(w, "transient", "release")
    /\ UNCHANGED <<busVars, tables, effects, ingest, replay, nacked>>

MarkProcessed(w) ==
    /\ th[w].pc = "processed"
    /\ \/ /\ sourceEvents' = SetSourceEventStatus(sourceEvents, th[w].ev,
                                                  "validated", "processed")
          /\ CallOk
       \/ StoreError /\ UNCHANGED sourceEvents
    /\ ReturnNil(w)
    /\ UNCHANGED <<processed, retryQueue, deadLetter, world, ingest, replay>>

\* Mutated form of ReleaseProcessedEvent: fail() does not delete the claim.
KeepProcessedEvent(w) ==
    /\ th[w].pc = "release"
    /\ Goto(w, "failed")
    /\ CallOk
    /\ UNCHANGED <<busVars, tables, world, ingest, replay, nacked>>

\* fail(), first half; the error of the DELETE is ignored.
ReleaseProcessedEvent(w) ==
    LET released == processed \ {th[w].ev} IN
    /\ th[w].pc = "release"
    /\ \/ processed' = released /\ CallOk
       \/ StoreError /\ processed' \in {processed, released}
    /\ Goto(w, "failed")
    /\ UNCHANGED <<busVars, sourceEvents, retryQueue, deadLetter, world, ingest,
                   replay, nacked>>

\* fail(), second half.
MarkFailed(w) ==
    /\ th[w].pc = "failed"
    /\ \/ /\ sourceEvents' = SetSourceEventStatus(sourceEvents, th[w].ev,
                                                  "validated", "failed")
          /\ CallOk
       \/ StoreError /\ UNCHANGED sourceEvents
    /\ Goto(w, "handoff")
    /\ UNCHANGED <<busVars, processed, retryQueue, deadLetter, world, ingest, replay,
                   nacked>>

-----------------------------------------------------------------------------
\* What the callers do with a failure

\* The event leaves the retry machinery for the dead-letter queue.
Park(w) ==
    \/ th[w].kind = "permanent"
    \/ w.role = "retry" /\ th[w].att + 1 >= MaxAttempts

\* dispatchFailure (bus) and the tail of processRetry (retry), retryable case.
ScheduleRetry(w) ==
    LET queued == EnqueueRetry(retryQueue, th[w].ev) IN
    /\ th[w].pc = "handoff"
    /\ ~Park(w)
    /\ \/ /\ retryQueue' = queued
          /\ CallOk
          /\ \/ /\ w.role = "bus"
                /\ ReturnNil(w)
             \/ /\ w.role = "retry"
                /\ Rest(w)
                /\ UNCHANGED <<busVars, nacked>>
       \/ /\ StoreError
          /\ retryQueue' \in {retryQueue, queued}
          /\ \/ w.role = "bus" /\ ReturnError(w)
             \/ w.role = "retry" /\ Rest(w) /\ UNCHANGED <<busVars, nacked>>
    /\ UNCHANGED <<sourceEvents, processed, deadLetter, world, ingest, replay>>

\* deadLetter of the worker and of the retry engine.  When the INSERT fails the
\* worker returns the error, the retry engine only logs it and still discards.
InsertDead(w) ==
    LET parked == InsertDeadLetter(deadLetter, th[w].ev) IN
    /\ th[w].pc = "handoff"
    /\ Park(w)
    /\ \/ /\ deadLetter' = parked
          /\ Goto(w, "dlqmark")
          /\ CallOk /\ UNCHANGED <<busVars, nacked>>
       \/ /\ StoreError
          /\ deadLetter' \in {deadLetter, parked}
          /\ \/ w.role = "bus" /\ ReturnError(w)
             \/ /\ w.role = "retry"
                /\ Goto(w, "discard")
                /\ nacked' = nacked \cup {<<0, th[w].ev>>}
                /\ UNCHANGED busVars
    /\ UNCHANGED <<sourceEvents, processed, retryQueue, world, ingest, replay>>

MarkDlq(w) ==
    /\ th[w].pc = "dlqmark"
    /\ \/ sourceEvents' = SetSourceEventStatusTo(sourceEvents, th[w].ev, "dlq") /\ CallOk
       \/ StoreError /\ UNCHANGED sourceEvents
    /\ \/ w.role = "bus" /\ ReturnNil(w)
       \/ w.role = "retry" /\ Goto(w, "discard") /\ UNCHANGED <<busVars, nacked>>
    /\ UNCHANGED <<processed, retryQueue, deadLetter, world, ingest, replay>>

\* processRetry: the row goes, after a success ("delete") or after parking
\* ("discard"); an error is only logged.
DeleteRow(w) ==
    /\ th[w].pc \in {"delete", "discard"}
    /\ \/ retryQueue' = DeleteRetry(retryQueue, th[w].ev) /\ CallOk
       \/ StoreError /\ UNCHANGED retryQueue
    /\ \/ th[w].pc = "delete" /\ Goto(w, "resolve")
       \/ th[w].pc = "discard" /\ Rest(w)
    /\ UNCHANGED <<busVars, sourceEvents, processed, deadLetter, world, ingest, replay,
                   nacked>>

ResolveDeadLetter(w) ==
    /\ th[w].pc = "resolve"
    /\ \/ deadLetter' = ResolveDeadLetterForEvent(deadLetter, th[w].ev) /\ CallOk
       \/ StoreError /\ UNCHANGED deadLetter
    /\ Rest(w)
    /\ UNCHANGED <<busVars, sourceEvents, processed, retryQueue, world, ingest, replay,
                   nacked>>

-----------------------------------------------------------------------------
\* The dead-letter operator

\* POST /dlq/{id}/retry, first call; the handler does not look at the status.
HandleDLQRetry(e) ==
    /\ replay = NoEvent
    /\ deadLetter[e] # "none"
    /\ replays < MaxReplays
    /\ replays' = replays + 1
    /\ deadLetter' = SetDeadLetterStatus(deadLetter, e, "retrying")
    /\ replay' = e
    /\ UNCHANGED <<busVars, sourceEvents, processed, retryQueue, world, ingest, th,
                   nacked, faults, dbErrors, disruptions>>

\* POST /dlq/{id}/retry, second call.
EnqueueReplay ==
    /\ replay # NoEvent
    /\ \/ retryQueue' = EnqueueRetry(retryQueue, replay) /\ CallOk
       \/ StoreError /\ UNCHANGED retryQueue
    /\ replay' = NoEvent
    /\ UNCHANGED <<busVars, sourceEvents, processed, deadLetter, world, ingest, th,
                   nacked>>

\* POST /dlq/{id}/discard
HandleDLQDiscard(e) ==
    /\ deadLetter[e] \notin {"none", "discarded"}
    /\ deadLetter' = SetDeadLetterStatus(deadLetter, e, "discarded")
    /\ CallOk
    /\ UNCHANGED <<busVars, sourceEvents, processed, retryQueue, world, ingest, th,
                   replay, nacked>>

-----------------------------------------------------------------------------
\* Disruptions

Disrupt ==
    /\ disruptions < MaxDisruptions
    /\ disruptions' = disruptions + 1
    /\ UNCHANGED <<faults, dbErrors, replays>>

\* The replica dies with everything it had in memory; if it owned the partition
\* the group assigns it to some replica (itself after a restart).
CrashReplica(r) ==
    /\ Disrupt
    /\ ingest' = [ingest EXCEPT ![r] = IdleIngest]
    /\ th' = [w \in Threads |-> IF w.replica = r THEN IdleThread ELSE th[w]]
    /\ LET w == [replica |-> r, role |-> "bus"]
       IN  nacked' = IF th[w].pc = "idle" THEN nacked ELSE nacked \cup {<<th[w].off, th[w].ev>>}
    /\ \/ owner = r /\ \E s \in Replicas : AssignPartition(s)
       \/ owner # r /\ UNCHANGED busVars
    /\ UNCHANGED <<tables, world, replay>>

\* The partition moves to r while the previous owner may be inside its handler.
Rebalance(r) ==
    /\ Disrupt
    /\ owner # r
    /\ AssignPartition(r)
    /\ UNCHANGED <<tables, world, ingest, th, replay, nacked>>

-----------------------------------------------------------------------------
ThreadStep(w) ==
    \/ ClaimProcessedEvent(w) \/ ApplyEvent(w) \/ WriteDestination(w)
    \/ PersistApplyState(w) \/ MarkProcessed(w) \/ ReleaseProcessedEvent(w)
    \/ MarkFailed(w) \/ ScheduleRetry(w) \/ InsertDead(w) \/ MarkDlq(w)
    \/ DeleteRow(w) \/ ResolveDeadLetter(w)

IngestStep(r) == PendingSourceEvents(r) \/ PublishPending(r) \/ MarkValidated(r)

Next ==
    \/ \E e \in Events : HandleWebhook(e)
    \/ \E r \in Replicas : IngestStep(r)
    \/ \E r \in Replicas : DeliverRecord(r)
    \/ \E r \in Replicas : CommitOffsets(r)
    \/ \E r \in Replicas : ClaimDueRetries(r)
    \/ \E w \in Threads : ThreadStep(w)
    \/ \E e \in Events : HandleDLQRetry(e)
    \/ EnqueueReplay
    \/ \E e \in Events : HandleDLQDiscard(e)
    \/ \E r \in Replicas : CrashReplica(r)
    \/ \E r \in Replicas : Rebalance(r)

Spec == Init /\ [][Next]_vars

\* Every loop of a live replica keeps running (tickers and a blocking poll), so
\* each of its steps is weakly fair; webhooks, operators, faults and crashes are
\* not.
FairSpec ==
    /\ Spec
    /\ \A r \in Replicas : WF_vars(IngestStep(r)) /\ WF_vars(DeliverRecord(r))
                           /\ WF_vars(ClaimDueRetries(r))
    /\ \A w \in Threads : WF_vars(ThreadStep(w))
    /\ WF_vars(EnqueueReplay)

-----------------------------------------------------------------------------
\* Properties

\* The idempotency claim is a lock: two threads, of whatever replica and however
\* they came by the event (redelivery, retry row read twice, operator replay),
\* are never both between the claim and its release (worker.go Process, fail).
ApplyExclusive ==
    \A w, u \in Threads :
        (w # u /\ th[w].pc \in Holding /\ th[u].pc \in Holding)
            => th[w].ev # th[u].ev

\* Failed calls, each of which may have cost an extra mutation.
Failures == faults + dbErrors

\* Every destination mutation beyond the first is paid for by a provider or
\* store call that failed: redeliveries, duplicate publications, replays and
\* crashes alone never mutate a destination twice for one event.
EffectsBounded == \A e \in Events : effects[e] <= 1 + Failures

\* Some durable or running part of the system still answers for the event.
Custody(e) ==
    \/ sourceEvents[e] = "received"
    \/ \E o \in committed + 1 .. Len(topic) : topic[o] = e
    \/ Busy(e, {"apply", "write", "persist", "release", "failed", "handoff"})
    \/ retryQueue[e] > 0
    \/ deadLetter[e] \in {"open", "retrying", "discarded"}
    \/ outcome[e] # "pending"

\* An accepted event is never lost: until it is applied, dropped or given to the
\* operator, a table row, an uncommitted record or a running attempt holds it
\* (webhook 202 to the hand-offs of dispatchFailure and processRetry).
NoLoss == \A e \in Events : sourceEvents[e] # "none" => Custody(e)

\* A claim that a crash or a failed store call has left without an attempt.
Orphaned(e) == e \in processed /\ ~Busy(e, Holding) /\ dbErrors + disruptions > 0

\* The ways in which an event is given up: an orphaned claim; a record whose
\* handler failed or died and whose offset is committed nevertheless; a retry row
\* deleted because another attempt had the claim, or without a dead letter.
Abandoned(e) == Orphaned(e) \/ \E n \in nacked : n[2] = e /\ n[1] <= committed

\* An accepted event is lost in the ways of Abandoned only (record loop of
\* redpanda.go, Process and fail, processRetry).
LossExplained == \A e \in Events : sourceEvents[e] # "none" => Custody(e) \/ Abandoned(e)

\* What operators are shown is true: a processed event was decided, and a dead
\* one has its entry (MarkProcessed after Process, deadLetter).
StatusTruthful ==
    \A e \in Events :
        /\ sourceEvents[e] = "processed" => outcome[e] # "pending"
        /\ sourceEvents[e] = "dlq" => deadLetter[e] # "none"

\* Nothing in the engine will take the event up again.
Resting(e) ==
    /\ sourceEvents[e] # "received" /\ retryQueue[e] = 0
    /\ ~Busy(e, PCs) /\ \A r \in Replicas : ingest[r].ev # e
    /\ \A o \in DOMAIN topic : o > committed \/ o > position => topic[o] # e

\* An event at rest, a discarded dead letter among others, is taken up again by
\* an operator's retry only (HandleDLQRetry).
RestIsFinal ==
    [][\A e \in Events : Resting(e) /\ sourceEvents[e] # "none" => Resting(e)' \/ replay = e]_vars

\* An accepted event is eventually applied, dropped or in the operator's hands,
\* provider failures notwithstanding; where the store failed it may also end as an
\* orphaned claim, or as a record that waits for the next assignment of the
\* partition (dispatchFailure's error leaves the offset unmarked).
Settles(e) ==
    sourceEvents[e] # "none" ~>
        \/ outcome[e] # "pending"
        \/ deadLetter[e] \in {"open", "retrying", "discarded"}
        \/ Orphaned(e) \/ \E n \in nacked : n[2] = e

\* api/dlq.go:89-90: a discarded event is one the "operator decided ... should
\* never be applied".
DiscardStands ==
    [][\A e \in Events :
          deadLetter[e] = "discarded" /\ outcome[e] = "pending"
              => outcome'[e] # "applied"]_vars

\* docs/failure-recovery.md:80: "retrying" means "replay in-flight (a retry row
\* exists)", so the replay comes to an end and leaves that status.
ReplayRuns ==
    \A e \in Events : deadLetter[e] = "retrying" ~> deadLetter[e] # "retrying"

\* The refinement mapping to ApplyContract.
Phase ==
    [e \in Events |->
        IF outcome[e] = "applied" THEN "applied"
        ELSE IF Busy(e, {"persist"}) THEN "mutated"
        ELSE IF Busy(e, {"release"}) THEN "failed"
        ELSE IF Busy(e, {"apply", "write"}) THEN "claimed"
        ELSE IF e \in processed THEN "closed" ELSE "free"]

Contract == INSTANCE ApplyContract WITH phase <- Phase

\* The pipeline implements the contract of Process (worker.go Process: "claiming
\* the event in processed_events before doing work means duplicate deliveries
\* are no-ops").
ImplementsContract == Contract!ContractSpec

=============================================================================
