------------------------- MODULE EventPipelineProofs -------------------------
(***************************************************************************)
(* Proofs about EventPipeline for every set of events and replicas and     *)
(* every bound on attempts, faults, store errors, crashes and replays: its *)
(* types, one apply at a time, the refinement of ApplyContract, rest, and  *)
(* the completeness of the list of ways to lose an event.                  *)
(***************************************************************************)
EXTENDS EventPipeline, TLAPS

\* Most leaves are first-order reasoning and left to Zenon; those that count, or that
\* take a record apart, name SMT.
USE ZenonT(15), SMTT(60)

-----------------------------------------------------------------------------
\* Updates of one thread

\* A thread moved to a well-typed state leaves all threads well typed.
LEMMA ThreadUpdate ==
    ASSUME ThreadsOK, NEW w \in Threads, NEW v \in ThreadState,
           v.pc # "idle" => v.ev \in Events,
           th' = [th EXCEPT ![w] = v]
    PROVE  ThreadsOK'
BY DEF ThreadsOK

\* Rest, Goto and FailWith of a busy thread keep the threads well typed.
LEMMA RestOK ==
    ASSUME ThreadsOK, NEW w \in Threads, Rest(w)
    PROVE  ThreadsOK'
<1>1. IdleThread \in ThreadState /\ IdleThread.pc = "idle"
  BY DEF IdleThread, ThreadState, PCs, Kinds
<1>2. QED
  BY <1>1, ThreadUpdate DEF Rest

\* The same for Goto.
LEMMA GotoOK ==
    ASSUME ThreadsOK, NEW w \in Threads, th[w].pc # "idle", NEW l \in PCs, Goto(w, l)
    PROVE  ThreadsOK'
<1> DEFINE v == [th[w] EXCEPT !.pc = l]
<1>1. v \in ThreadState /\ v.ev \in Events
  BY DEF ThreadsOK, ThreadState
<1>2. th' = [th EXCEPT ![w] = v]
  BY DEF Goto, ThreadsOK
<1>3. QED
  BY <1>1, <1>2, ThreadUpdate

\* The same for FailWith.
LEMMA FailWithOK ==
    ASSUME ThreadsOK, NEW w \in Threads, th[w].pc # "idle", NEW k \in Kinds,
           NEW l \in PCs, FailWith(w, k, l)
    PROVE  ThreadsOK'
<1> DEFINE v == [th[w] EXCEPT !.pc = l, !.kind = k]
<1>1. v \in ThreadState /\ v.ev \in Events
  BY DEF ThreadsOK, ThreadState
<1>2. th' = [th EXCEPT ![w] = v]
  BY DEF FailWith, ThreadsOK
<1>3. QED
  BY <1>1, <1>2, ThreadUpdate

\* What returning from Process or Handle does to the bus and the threads.
LEMMA ReturnNilOK ==
    ASSUME TypeOK, NEW w \in Threads, th[w].pc # "idle", ReturnNil(w)
    PROVE  ThreadsOK' /\ BusTypeOK' /\ nacked' \subseteq Nat \X Events
<1>1. th[w].off \in Nat /\ th[w].ev \in Events
  BY DEF TypeOK, ThreadsOK, ThreadState
<1>2. CASE Rest(w) /\ MarkCommitRecords(w.replica, th[w].off)
           /\ nacked' = nacked \ {<<th[w].off, th[w].ev>>}
  BY <1>1, <1>2, RestOK DEF TypeOK, BusTypeOK, MarkCommitRecords
<1>3. CASE Goto(w, "delete") /\ UNCHANGED <<busVars, nacked>>
  <2>1. "delete" \in PCs
    BY DEF PCs
  <2>2. QED
    BY <1>3, <2>1, GotoOK DEF TypeOK, BusTypeOK, busVars
<1>4. QED
  BY <1>2, <1>3 DEF ReturnNil

\* The same for an error returned to the bus or to the retry engine.
LEMMA ReturnErrorOK ==
    ASSUME TypeOK, NEW w \in Threads, th[w].pc # "idle", ReturnError(w)
    PROVE  ThreadsOK' /\ BusTypeOK' /\ nacked' \subseteq Nat \X Events
<1>1. th[w].off \in Nat /\ th[w].ev \in Events
  BY DEF TypeOK, ThreadsOK, ThreadState
<1>2. QED
  BY SMTT(30), <1>1, RestOK DEF TypeOK, BusTypeOK, ReturnError, busVars

-----------------------------------------------------------------------------
\* Type correctness

\* Every step keeps the state well typed.
LEMMA TypeStep == TypeOK /\ [Next]_vars => TypeOK'
<1> SUFFICES ASSUME TypeOK, [Next]_vars PROVE TypeOK'
  OBVIOUS
<1> USE DEF tables, world, CallOk, StoreError, Fault
<1>t. \A w \in Threads : th[w] \in ThreadState
  BY DEF TypeOK, ThreadsOK
<1>e. \A w \in Threads : th[w].pc # "idle" => th[w].ev \in Events
  BY DEF TypeOK, ThreadsOK
<1>p. PCs = {"idle", "claim", "apply", "write", "persist", "processed", "release",
             "failed", "handoff", "dlqmark", "delete", "resolve", "discard"}
      /\ Kinds = {"transient", "permanent"}
  BY DEF PCs, Kinds
<1>r. \A r \in Replicas, x \in {"bus", "retry"} : [replica |-> r, role |-> x] \in Threads
  BY DEF Threads
<1>1. ASSUME NEW e \in Events, HandleWebhook(e) PROVE TypeOK'
  BY <1>1 DEF HandleWebhook, InsertSourceEvent, TypeOK, TablesOK, SourceStatus, BusTypeOK,
              WorldOK, IngestOK, ThreadsOK, busVars
<1>2. ASSUME NEW r \in Replicas, PendingSourceEvents(r) PROVE TypeOK'
  BY SMTT(30), <1>2 DEF PendingSourceEvents, TypeOK, TablesOK, BusTypeOK, WorldOK, IngestOK,
              ThreadsOK, busVars
<1>3. ASSUME NEW r \in Replicas, PublishPending(r) PROVE TypeOK'
  <2>1. ingest[r].ev \in Events
    BY <1>3 DEF PublishPending, TypeOK, IngestOK
  <2>2. BusTypeOK'
    <3>1. topic \in Seq(Events) => Append(topic, ingest[r].ev) \in Seq(Events)
      BY SMTT(30), <2>1
    <3>2. CASE Publish(ingest[r].ev)
      BY <3>1, <3>2 DEF Publish, TypeOK, BusTypeOK
    <3>3. CASE UNCHANGED busVars
      BY <3>3 DEF TypeOK, BusTypeOK, busVars
    <3>4. QED
      BY <1>3, <3>2, <3>3 DEF PublishPending
  <2>3. IngestOK'
    BY SMTT(30), <1>3 DEF PublishPending, IdleIngest, TypeOK, IngestOK
  <2>4. QED
    BY SMTT(30), <1>3, <2>2, <2>3 DEF PublishPending, TypeOK, TablesOK, WorldOK, ThreadsOK
<1>4. ASSUME NEW r \in Replicas, MarkValidated(r) PROVE TypeOK'
  <2>1. IngestOK'
    BY <1>4 DEF MarkValidated, IdleIngest, TypeOK, IngestOK
  <2>2. TablesOK'
    BY <1>4 DEF MarkValidated, SetSourceEventStatus, TypeOK, TablesOK, SourceStatus
  <2>3. QED
    BY SMTT(30), <1>4, <2>1, <2>2 DEF MarkValidated, TypeOK, BusTypeOK, WorldOK, ThreadsOK, busVars
<1>5. ASSUME NEW r \in Replicas, DeliverRecord(r) PROVE TypeOK'
  <2> DEFINE w == [replica |-> r, role |-> "bus"]
             v == [IdleThread EXCEPT !.pc = "claim", !.ev = topic[position + 1],
                                     !.off = position + 1]
  <2>1. topic[position + 1] \in Events /\ position + 1 \in Nat
    BY SMTT(30), <1>5 DEF DeliverRecord, FetchRecord, TypeOK, BusTypeOK
  <2>2. v \in ThreadState /\ v.ev \in Events
    BY <2>1, <1>p DEF IdleThread, ThreadState
  <2>3. ThreadsOK'
    BY <1>5, <1>r, <2>2, ThreadUpdate DEF DeliverRecord, TypeOK
  <2>4. QED
    <3>1. BusTypeOK'
      BY SMTT(30), <1>5 DEF DeliverRecord, FetchRecord, TypeOK, BusTypeOK
    <3>2. QED
      BY <1>5, <2>3, <3>1 DEF DeliverRecord, TypeOK, TablesOK, WorldOK, IngestOK
<1>6. ASSUME NEW r \in Replicas, CommitOffsets(r) PROVE TypeOK'
  BY <1>6 DEF CommitOffsets, CommitUncommittedOffsets, TypeOK, TablesOK, BusTypeOK,
              WorldOK, IngestOK, ThreadsOK
<1>7. ASSUME NEW r \in Replicas, ClaimDueRetries(r) PROVE TypeOK'
  <2> DEFINE w == [replica |-> r, role |-> "retry"]
             v(e) == [IdleThread EXCEPT !.pc = "claim", !.ev = e, !.att = retryQueue[e]]
  <2>1. PICK e \in Events : th' = [th EXCEPT ![w] = v(e)]
    BY <1>7 DEF ClaimDueRetries
  <2>2. v(e) \in ThreadState /\ v(e).ev \in Events
    BY <1>p DEF IdleThread, ThreadState, TypeOK, TablesOK
  <2>3. ThreadsOK'
    BY <1>r, <2>1, <2>2, ThreadUpdate DEF TypeOK
  <2>4. QED
    BY <1>7, <2>3 DEF ClaimDueRetries, TypeOK, BusTypeOK, TablesOK, WorldOK, IngestOK,
                      busVars
<1>8. ASSUME NEW w \in Threads, ClaimProcessedEvent(w) PROVE TypeOK'
  <2>1. ThreadsOK' /\ BusTypeOK' /\ nacked' \subseteq Nat \X Events
    BY SMTT(30), <1>8, <1>e, <1>p, GotoOK, FailWithOK, ReturnNilOK
       DEF ClaimProcessedEvent, TypeOK, BusTypeOK, busVars
  <2>2. QED
    BY SMTT(30), <1>8, <1>e, <2>1 DEF ClaimProcessedEvent, TypeOK, TablesOK, WorldOK, IngestOK
<1>9. ASSUME NEW w \in Threads, ApplyEvent(w) PROVE TypeOK'
  <2>1. ThreadsOK'
    BY <1>9, <1>p, GotoOK, FailWithOK DEF ApplyEvent, TypeOK
  <2>2. th[w].ev \in Events
    BY <1>9, <1>e DEF ApplyEvent
  <2>3. BusTypeOK'
    BY <1>9 DEF ApplyEvent, TypeOK, BusTypeOK, busVars
  <2>4. TablesOK'
    BY <1>9, <2>2 DEF ApplyEvent, TypeOK, TablesOK
  <2>5. WorldOK'
    BY <1>9, <2>2 DEF ApplyEvent, TypeOK, WorldOK
  <2>6. QED
    BY SMTT(30), <1>9, <2>1, <2>3, <2>4, <2>5 DEF ApplyEvent, TypeOK, IngestOK
<1>10. ASSUME NEW w \in Threads, WriteDestination(w) PROVE TypeOK'
  <2>1. ThreadsOK'
    BY <1>10, <1>p, GotoOK, FailWithOK DEF WriteDestination, TypeOK
  <2>2. th[w].ev \in Events
    BY <1>10, <1>e DEF WriteDestination
  <2>3. BusTypeOK'
    BY <1>10 DEF WriteDestination, TypeOK, BusTypeOK, busVars
  <2>4. TablesOK'
    BY <1>10, <2>2 DEF WriteDestination, TypeOK, TablesOK
  <2>5. WorldOK'
    BY SMTT(30), <1>10, <2>2 DEF WriteDestination, TypeOK, WorldOK
  <2>6. QED
    BY SMTT(30), <1>10, <2>1, <2>3, <2>4, <2>5 DEF WriteDestination, TypeOK, IngestOK
<1>11. ASSUME NEW w \in Threads, PersistApplyState(w) PROVE TypeOK'
  <2>1. ThreadsOK'
    BY <1>11, <1>p, GotoOK, FailWithOK DEF PersistApplyState, TypeOK
  <2>2. th[w].ev \in Events
    BY <1>11, <1>e DEF PersistApplyState
  <2>3. BusTypeOK'
    BY <1>11 DEF PersistApplyState, TypeOK, BusTypeOK, busVars
  <2>4. TablesOK'
    BY <1>11, <2>2 DEF PersistApplyState, TypeOK, TablesOK
  <2>5. WorldOK'
    BY <1>11, <2>2 DEF PersistApplyState, TypeOK, WorldOK
  <2>6. QED
    BY SMTT(30), <1>11, <2>1, <2>3, <2>4, <2>5 DEF PersistApplyState, TypeOK, IngestOK
<1>12. ASSUME NEW w \in Threads, MarkProcessed(w) PROVE TypeOK'
  <2>1. ThreadsOK' /\ BusTypeOK' /\ nacked' \subseteq Nat \X Events
    BY <1>12, ReturnNilOK DEF MarkProcessed
  <2>2. QED
    BY SMTT(30), <1>12, <1>e, <2>1 DEF MarkProcessed, SetSourceEventStatus, TypeOK, TablesOK,
                             SourceStatus, WorldOK, IngestOK
<1>13. ASSUME NEW w \in Threads, ReleaseProcessedEvent(w) PROVE TypeOK'
  <2>1. ThreadsOK'
    BY <1>13, <1>p, GotoOK DEF ReleaseProcessedEvent, TypeOK
  <2>2. BusTypeOK'
    BY <1>13 DEF ReleaseProcessedEvent, TypeOK, BusTypeOK, busVars
  <2>3. TablesOK' /\ WorldOK'
    BY <1>13 DEF ReleaseProcessedEvent, TypeOK, TablesOK, WorldOK
  <2>4. QED
    BY SMTT(30), <1>13, <2>1, <2>2, <2>3 DEF ReleaseProcessedEvent, TypeOK, IngestOK
<1>14. ASSUME NEW w \in Threads, MarkFailed(w) PROVE TypeOK'
  <2>1. ThreadsOK'
    BY <1>14, <1>p, GotoOK DEF MarkFailed, TypeOK
  <2>2. th[w].ev \in Events
    BY <1>14, <1>e DEF MarkFailed
  <2>3. BusTypeOK'
    BY <1>14 DEF MarkFailed, TypeOK, BusTypeOK, busVars
  <2>4. TablesOK'
    BY <1>14, <2>2 DEF MarkFailed, TypeOK, TablesOK, SetSourceEventStatus, SourceStatus
  <2>5. WorldOK'
    BY <1>14, <2>2 DEF MarkFailed, TypeOK, WorldOK
  <2>6. QED
    BY SMTT(30), <1>14, <2>1, <2>3, <2>4, <2>5 DEF MarkFailed, TypeOK, IngestOK
<1>15. ASSUME NEW w \in Threads, ScheduleRetry(w) PROVE TypeOK'
  <2>1. ThreadsOK' /\ BusTypeOK' /\ nacked' \subseteq Nat \X Events
    BY <1>15, RestOK, ReturnNilOK, ReturnErrorOK
       DEF ScheduleRetry, TypeOK, BusTypeOK, busVars
  <2>2. QED
    BY SMTT(30), <1>15, <1>e, <2>1 DEF ScheduleRetry, EnqueueRetry, TypeOK, TablesOK, WorldOK,
                             IngestOK
<1>16. ASSUME NEW w \in Threads, InsertDead(w) PROVE TypeOK'
  <2>1. ThreadsOK' /\ BusTypeOK' /\ nacked' \subseteq Nat \X Events
    BY SMTT(30), <1>16, <1>e, <1>p, GotoOK, ReturnErrorOK DEF InsertDead, TypeOK, BusTypeOK, busVars
  <2>2. QED
    BY SMTT(30), <1>16, <1>e, <2>1 DEF InsertDead, InsertDeadLetter, TypeOK, TablesOK,
                             DeadLetterStatus, WorldOK, IngestOK
<1>17. ASSUME NEW w \in Threads, MarkDlq(w) PROVE TypeOK'
  <2>1. ThreadsOK' /\ BusTypeOK' /\ nacked' \subseteq Nat \X Events
    BY <1>17, <1>p, GotoOK, ReturnNilOK DEF MarkDlq, TypeOK, BusTypeOK, busVars
  <2>2. QED
    BY SMTT(30), <1>17, <1>e, <2>1 DEF MarkDlq, SetSourceEventStatusTo, TypeOK, TablesOK,
                             SourceStatus, WorldOK, IngestOK
<1>18. ASSUME NEW w \in Threads, DeleteRow(w) PROVE TypeOK'
  <2>1. ThreadsOK'
    BY <1>18, <1>p, GotoOK, RestOK DEF DeleteRow, TypeOK
  <2>2. th[w].ev \in Events
    BY <1>18, <1>e DEF DeleteRow
  <2>3. BusTypeOK'
    BY <1>18 DEF DeleteRow, TypeOK, BusTypeOK, busVars
  <2>4. TablesOK'
    BY SMTT(30), <1>18, <2>2 DEF DeleteRow, TypeOK, TablesOK, DeleteRetry
  <2>5. WorldOK'
    BY <1>18, <2>2 DEF DeleteRow, TypeOK, WorldOK
  <2>6. QED
    BY SMTT(30), <1>18, <2>1, <2>3, <2>4, <2>5 DEF DeleteRow, TypeOK, IngestOK
<1>19. ASSUME NEW w \in Threads, ResolveDeadLetter(w) PROVE TypeOK'
  <2>1. ThreadsOK'
    BY <1>19, RestOK DEF ResolveDeadLetter, TypeOK
  <2>2. th[w].ev \in Events
    BY <1>19, <1>e DEF ResolveDeadLetter
  <2>3. BusTypeOK'
    BY <1>19 DEF ResolveDeadLetter, TypeOK, BusTypeOK, busVars
  <2>4. TablesOK'
    BY <1>19, <2>2 DEF ResolveDeadLetter, TypeOK, TablesOK, ResolveDeadLetterForEvent, DeadLetterStatus
  <2>5. WorldOK'
    BY <1>19, <2>2 DEF ResolveDeadLetter, TypeOK, WorldOK
  <2>6. QED
    BY SMTT(30), <1>19, <2>1, <2>3, <2>4, <2>5 DEF ResolveDeadLetter, TypeOK, IngestOK
<1>20. ASSUME NEW e \in Events, HandleDLQRetry(e) PROVE TypeOK'
  BY SMTT(30), <1>20 DEF HandleDLQRetry, SetDeadLetterStatus, TypeOK, TablesOK, DeadLetterStatus,
               BusTypeOK, WorldOK, IngestOK, ThreadsOK, busVars
<1>21. ASSUME EnqueueReplay PROVE TypeOK'
  <2>1. replay \in Events
    BY <1>21 DEF EnqueueReplay, TypeOK
  <2>2. TablesOK'
    BY SMTT(30), <1>21, <2>1 DEF EnqueueReplay, EnqueueRetry, TypeOK, TablesOK
  <2>3. QED
    BY SMTT(30), <1>21, <2>2 DEF EnqueueReplay, TypeOK, BusTypeOK, WorldOK, IngestOK, ThreadsOK,
                       busVars
<1>22. ASSUME NEW e \in Events, HandleDLQDiscard(e) PROVE TypeOK'
  BY <1>22 DEF HandleDLQDiscard, SetDeadLetterStatus, TypeOK, TablesOK, DeadLetterStatus,
               BusTypeOK, WorldOK, IngestOK, ThreadsOK, busVars
<1>23. ASSUME NEW r \in Replicas, CrashReplica(r) PROVE TypeOK'
  <2>1. IdleThread \in ThreadState /\ IdleThread.pc = "idle"
    BY <1>p DEF IdleThread, ThreadState
  <2>2. ThreadsOK'
    BY <1>23, <1>t, <1>e, <2>1 DEF CrashReplica, ThreadsOK
  <2>3. IngestOK'
    BY <1>23 DEF CrashReplica, IdleIngest, TypeOK, IngestOK
  <2>4. BusTypeOK'
    BY <1>23 DEF CrashReplica, AssignPartition, TypeOK, BusTypeOK, busVars
  <2>5. nacked' \subseteq Nat \X Events
    <3> DEFINE w == [replica |-> r, role |-> "bus"]
    <3>1. w \in Threads
      BY <1>r
    <3>2. th[w].pc # "idle" => th[w].off \in Nat /\ th[w].ev \in Events
      BY <3>1, <1>t, <1>e DEF ThreadState
    <3>3. nacked' = IF th[w].pc = "idle" THEN nacked ELSE nacked \cup {<<th[w].off, th[w].ev>>}
      BY <1>23 DEF CrashReplica
    <3> HIDE DEF w
    <3>4. QED
      BY SMTT(30), <3>2, <3>3 DEF TypeOK
  <2>6. QED
    BY SMTT(30), <1>23, <2>2, <2>3, <2>4, <2>5 DEF CrashReplica, Disrupt, TypeOK, TablesOK, WorldOK
<1>24. ASSUME NEW r \in Replicas, Rebalance(r) PROVE TypeOK'
  BY SMTT(30), <1>24 DEF Rebalance, Disrupt, AssignPartition, TypeOK, BusTypeOK, TablesOK, WorldOK,
               IngestOK, ThreadsOK
<1>25. CASE UNCHANGED vars
  BY <1>25 DEF vars, bounds, TypeOK, BusTypeOK, TablesOK, WorldOK, IngestOK, ThreadsOK,
               busVars
<1>26. QED
  BY <1>1, <1>2, <1>3, <1>4, <1>5, <1>6, <1>7, <1>8, <1>9, <1>10, <1>11, <1>12, <1>13,
     <1>14, <1>15, <1>16, <1>17, <1>18, <1>19, <1>20, <1>21, <1>22, <1>23, <1>24, <1>25
     DEF Next, IngestStep, ThreadStep

\* The initial state is well typed.
LEMMA TypeInit == Init => TypeOK
BY SMTT(30) DEF Init, BusInit, TypeOK, BusTypeOK, TablesOK, WorldOK, IngestOK, ThreadsOK,
       ThreadState, SourceStatus, DeadLetterStatus, IdleThread, IdleIngest, PCs, Kinds

\* Every reachable state is well typed (TypeOK).
THEOREM TypeCorrect == Spec => []TypeOK
BY TypeInit, TypeStep, PTL DEF Spec

-----------------------------------------------------------------------------
\* The inductive invariant behind ApplyExclusive and EffectsBounded

\* A thread inside the claim's section still has its claim.
ClaimHeld == \A w \in Threads : th[w].pc \in Holding => th[w].ev \in processed

\* Nobody writes for an event that is already applied.
WritesFresh ==
    \A w \in Threads : th[w].pc \in {"write", "persist"} => outcome[th[w].ev] # "applied"

\* Outside an attempt that has written and not yet failed, every mutation of an
\* unapplied event is already paid for.
Paid ==
    /\ \A e \in Events :
          (e \notin processed /\ outcome[e] # "applied") => effects[e] <= Failures
    /\ \A w \in Threads :
          (th[w].pc \in {"apply", "write", "release"} /\ outcome[th[w].ev] # "applied")
              => effects[th[w].ev] <= Failures

ClaimInv ==
    TypeOK /\ ClaimHeld /\ ApplyExclusive /\ WritesFresh /\ Paid /\ EffectsBounded

\* Threads that are in the section after the step were there before, at the same
\* place and with the same event.
NoEntry ==
    \A u \in Threads : th'[u].pc \in Holding => th'[u].pc = th[u].pc /\ th'[u].ev = th[u].ev

\* The count of failed calls is a number.
LEMMA FailuresNat ==
    ASSUME TypeOK, TypeOK' PROVE Failures \in Nat /\ Failures' \in Nat
<1>1. \A a, b \in Nat : a + b \in Nat
  BY SMTT(30)
<1>2. QED
  BY <1>1 DEF TypeOK, Failures

\* Rest, Goto, FailWith and ReturnNil take no thread into a claimed section.
LEMMA RestNoEntry ==
    ASSUME ThreadsOK, NEW w \in Threads, Rest(w) PROVE NoEntry
BY DEF ThreadsOK, Rest, IdleThread, NoEntry, Holding

\* The same for Goto.
LEMMA GotoNoEntry ==
    ASSUME ThreadsOK, NEW w \in Threads, NEW l \in PCs \ Holding, Goto(w, l) PROVE NoEntry
BY DEF ThreadsOK, ThreadState, Goto, NoEntry

\* The same for FailWith.
LEMMA FailWithNoEntry ==
    ASSUME ThreadsOK, NEW w \in Threads, NEW k, NEW l \in PCs \ Holding, FailWith(w, k, l)
    PROVE  NoEntry
BY DEF ThreadsOK, ThreadState, FailWith, NoEntry

\* The same for ReturnNil.
LEMMA ReturnNilNoEntry ==
    ASSUME ThreadsOK, NEW w \in Threads, ReturnNil(w) PROVE NoEntry
BY RestNoEntry, GotoNoEntry DEF ReturnNil, PCs, Holding

\* A step that enters no section, releases no claim, applies nothing and touches
\* no destination keeps the invariant.
LEMMA QuietStep ==
    ASSUME ClaimInv, TypeOK', NoEntry,
           processed \subseteq processed', effects' = effects,
           \A e \in Events : outcome'[e] = "applied" <=> outcome[e] = "applied",
           faults' >= faults, dbErrors' >= dbErrors
    PROVE  ClaimInv'
<1>1. \A w \in Threads : th'[w].pc \in {"apply", "write", "persist", "release"}
                            => th'[w].pc = th[w].pc /\ th'[w].ev = th[w].ev
  BY DEF NoEntry, Holding
<1>2. faults \in Nat /\ dbErrors \in Nat /\ faults' \in Nat /\ dbErrors' \in Nat
      /\ effects \in [Events -> Nat]
  BY DEF ClaimInv, TypeOK, WorldOK
<1>e. \A w \in Threads : th[w].pc \in Holding => th[w].ev \in Events
  BY DEF ClaimInv, TypeOK, ThreadsOK, Holding
<1>3. ClaimHeld' /\ WritesFresh'
  BY <1>1, <1>e DEF ClaimInv, ClaimHeld, WritesFresh, Holding
<1>4. ApplyExclusive'
  BY SMTT(30), <1>1 DEF ClaimInv, ApplyExclusive, Holding
<1>6. Failures' >= Failures /\ Failures \in Nat /\ Failures' \in Nat
  <2>1. ASSUME NEW a \in Nat, NEW b \in Nat, NEW c \in Nat, NEW d \in Nat, c >= a, d >= b
        PROVE  c + d >= a + b /\ a + b \in Nat /\ c + d \in Nat
    BY SMTT(30), <2>1
  <2>2. QED
    BY <1>2, <2>1 DEF Failures
<1>7. \A w \in Threads : th[w].pc \in {"apply", "write", "release"} => th[w].ev \in Events
  BY <1>e DEF Holding
<1>5. EffectsBounded'
  <2>1. ASSUME NEW e \in Events PROVE effects'[e] <= 1 + Failures'
    <3>1. effects[e] <= 1 + Failures /\ effects[e] \in Nat
      BY <1>2 DEF ClaimInv, EffectsBounded
    <3>2. QED
      BY SMTT(30), <3>1, <1>6
  <2>2. QED
    BY <2>1 DEF EffectsBounded
<1>8. Paid'
  <2>1. ASSUME NEW e \in Events, e \notin processed', outcome'[e] # "applied"
        PROVE  effects'[e] <= Failures'
    <3>1. effects[e] <= Failures
      BY <2>1 DEF ClaimInv, Paid
    <3>2. QED
      BY SMTT(30), <1>2, <1>6, <3>1
  <2>2. ASSUME NEW w \in Threads, th'[w].pc \in {"apply", "write", "release"},
               outcome'[th'[w].ev] # "applied"
        PROVE  effects'[th'[w].ev] <= Failures'
    <3>1. effects[th[w].ev] <= Failures /\ th[w].ev \in Events
      BY <1>1, <1>7, <2>2 DEF ClaimInv, Paid
    <3>2. QED
      BY SMTT(30), <1>1, <1>2, <1>6, <2>2, <3>1
  <2>3. QED
    BY <2>1, <2>2 DEF Paid
<1>9. QED
  BY <1>3, <1>4, <1>5, <1>8 DEF ClaimInv

\* What Goto and FailWith change: the place of one thread, never its event.
Moved(w, l) ==
    /\ th'[w].pc = l /\ th'[w].ev = th[w].ev
    /\ \A u \in Threads : u # w => th'[u] = th[u]

\* Goto and FailWith move one thread and leave its event and the others alone.
LEMMA GotoMoves ==
    ASSUME ThreadsOK, NEW w \in Threads, NEW l, Goto(w, l) PROVE Moved(w, l)
BY DEF ThreadsOK, ThreadState, Goto, Moved

\* The same for FailWith.
LEMMA FailWithMoves ==
    ASSUME ThreadsOK, NEW w \in Threads, NEW k, NEW l, FailWith(w, k, l) PROVE Moved(w, l)
BY DEF ThreadsOK, ThreadState, FailWith, Moved

\* The holder of a claim moves on within its section, mutating at most its own
\* event's destination and paying for it unless it goes on to persist.
LEMMA HolderStep ==
    ASSUME ClaimInv, TypeOK', processed' = processed,
           NEW w \in Threads, th[w].pc \in {"apply", "write", "persist"},
           NEW l \in Holding, Moved(w, l),
           NEW n \in {0, 1}, effects' = [effects EXCEPT ![th[w].ev] = @ + n],
           \A e \in Events : outcome'[e] = "applied" =>
               outcome[e] = "applied" \/ (e = th[w].ev /\ l = "release"),
           \A e \in Events : outcome[e] = "applied" => outcome'[e] = "applied",
           l \in {"write", "persist"} => outcome[th[w].ev] # "applied",
           l = "persist" => th[w].pc = "write" /\ Failures' = Failures,
           l \in {"apply", "write"} => n = 0 /\ th[w].pc = "apply" /\ Failures' = Failures,
           l = "release" => Failures' = Failures + 1 /\ (th[w].pc = "write" \/ n = 0)
    PROVE  ClaimInv'
<1> DEFINE f == th[w].ev
<1>n. /\ Failures \in Nat /\ Failures' \in Nat /\ Failures' >= Failures
      /\ effects \in [Events -> Nat] /\ f \in Events
      /\ faults \in Nat /\ dbErrors \in Nat
  <2>1. faults \in Nat /\ dbErrors \in Nat /\ faults' \in Nat /\ dbErrors' \in Nat
    BY DEF ClaimInv, TypeOK
  <2>2. Failures \in Nat /\ Failures' \in Nat
    BY FailuresNat DEF ClaimInv
  <2>3. Failures' >= Failures
    <3>1. Failures' = Failures \/ Failures' = Failures + 1
      BY DEF Holding
    <3>2. QED
      BY SMTT(30), <2>2, <3>1
  <2>4. effects \in [Events -> Nat] /\ f \in Events
    BY DEF ClaimInv, TypeOK, WorldOK, ThreadsOK
  <2>5. QED
    BY <2>1, <2>2, <2>3, <2>4
<1>o. \A u \in Threads : u # w /\ th[u].pc \in Holding => th[u].ev # f /\ th[u].ev \in Events
  BY DEF ClaimInv, ApplyExclusive, TypeOK, ThreadsOK, Holding
<1>a. \A e \in Events : e # f => effects'[e] = effects[e]
                              /\ (outcome'[e] = "applied" <=> outcome[e] = "applied")
  BY <1>n
<1>b. effects'[f] = effects[f] + n
  BY <1>n
<1>1. ClaimHeld'
  BY DEF ClaimInv, ClaimHeld, Moved, Holding
<1>2. ApplyExclusive'
  BY SMTT(30) DEF ClaimInv, ApplyExclusive, Moved, Holding
<1>3. WritesFresh'
  BY SMTT(30), <1>o, <1>a, <1>n DEF ClaimInv, WritesFresh, Moved, Holding
<1>c. /\ effects[f] <= 1 + Failures
      /\ th[w].pc \in {"apply", "write"} /\ outcome[f] # "applied" => effects[f] <= Failures
  BY <1>n DEF ClaimInv, EffectsBounded, Paid
<1>d. th[w].pc = "write" => effects[f] <= Failures
  BY <1>c DEF ClaimInv, WritesFresh
<1>e. effects'[f] <= 1 + Failures' /\ (l = "release" => effects'[f] <= Failures')
  <2>1. effects[f] \in Nat /\ n \in Nat /\ n <= 1
    BY SMTT(30), <1>n
  <2>2. CASE l = "persist"
    BY SMTT(30), <1>b, <1>d, <1>n, <2>1, <2>2
  <2>3. CASE l \in {"apply", "write"}
    BY SMTT(30), <1>b, <1>c, <1>n, <2>1, <2>3
  <2>4. CASE l = "release"
    BY SMTT(30), <1>b, <1>c, <1>d, <1>n, <2>1, <2>4
  <2>5. QED
    BY <2>2, <2>3, <2>4 DEF Holding
<1>4. EffectsBounded'
  <2>1. ASSUME NEW e \in Events PROVE effects'[e] <= 1 + Failures'
    <3>1. effects[e] \in Nat /\ effects[e] <= 1 + Failures
      BY <1>n DEF ClaimInv, EffectsBounded
    <3>2. QED
      BY SMTT(30), <3>1, <1>a, <1>e, <1>n
  <2>2. QED
    BY <2>1 DEF EffectsBounded
<1>5. Paid'
  <2>1. ASSUME NEW e \in Events, e \notin processed', outcome'[e] # "applied"
        PROVE  effects'[e] <= Failures'
    <3>1. e # f
      BY <2>1 DEF ClaimInv, ClaimHeld, Holding
    <3>2. effects[e] <= Failures /\ effects[e] \in Nat
      BY <2>1, <3>1, <1>a, <1>n DEF ClaimInv, Paid
    <3>3. QED
      BY SMTT(30), <3>1, <3>2, <1>a, <1>n
  <2>2. ASSUME NEW u \in Threads, th'[u].pc \in {"apply", "write", "release"},
               outcome'[th'[u].ev] # "applied"
        PROVE  effects'[th'[u].ev] <= Failures'
    <3>1. CASE u # w
      <4>1. th'[u] = th[u] /\ th[u].ev # f /\ th[u].ev \in Events
        BY <3>1, <2>2, <1>o DEF Moved, Holding
      <4>2. effects[th[u].ev] <= Failures /\ effects[th[u].ev] \in Nat
        BY <4>1, <2>2, <1>a, <1>n DEF ClaimInv, Paid
      <4>3. QED
        BY SMTT(30), <4>1, <4>2, <1>a, <1>n
    <3>2. CASE u = w
      <4>1. th'[u].ev = f /\ th'[u].pc = l
        BY <3>2 DEF Moved
      <4>2. CASE l \in {"apply", "write"}
        BY SMTT(30), <4>1, <4>2, <2>2, <1>b, <1>c, <1>n
      <4>3. CASE l = "release"
        BY <4>1, <4>3, <1>e
      <4>4. QED
        BY <4>1, <4>2, <4>3, <2>2
    <3>3. QED
      BY <3>1, <3>2
  <2>3. QED
    BY <2>1, <2>2 DEF Paid
<1>6. QED
  BY <1>1, <1>2, <1>3, <1>4, <1>5 DEF ClaimInv

\* Every step keeps the invariant; only the five calls between the claim and its
\* release do more than QuietStep covers.
LEMMA ClaimStep == ClaimInv /\ [Next]_vars => ClaimInv'
<1> SUFFICES ASSUME ClaimInv, [Next]_vars PROVE ClaimInv'
  OBVIOUS
<1>t. TypeOK /\ TypeOK' /\ ThreadsOK
  BY TypeStep DEF ClaimInv, TypeOK
<1>n. faults \in Nat /\ dbErrors \in Nat /\ Failures \in Nat /\ effects \in [Events -> Nat]
      /\ outcome \in [Events -> {"pending", "applied", "dropped"}]
  BY SMTT(30), <1>t DEF TypeOK, WorldOK, Failures
<1>p. PCs \ Holding = {"idle", "claim", "processed", "failed", "handoff", "dlqmark",
                       "delete", "resolve", "discard"}
  BY DEF PCs, Holding
<1>e. \A w \in Threads : th[w].pc # "idle" => th[w].ev \in Events
  BY <1>t DEF ThreadsOK
<1>q. ASSUME NoEntry, UNCHANGED <<processed, world>>, CallOk \/ StoreError \/ Fault \/ Disrupt
      PROVE  ClaimInv'
  BY SMTT(30), <1>q, <1>t, <1>n, QuietStep DEF world, CallOk, StoreError, Fault, Disrupt
<1>u. UNCHANGED th => NoEntry
  BY DEF NoEntry
<1>1. ASSUME NEW e \in Events, HandleWebhook(e) PROVE ClaimInv'
  BY <1>1, <1>q, <1>u DEF HandleWebhook
<1>2. ASSUME NEW r \in Replicas, IngestStep(r) PROVE ClaimInv'
  BY <1>2, <1>q, <1>u DEF IngestStep, PendingSourceEvents, PublishPending, MarkValidated,
                          tables
<1>3. ASSUME NEW r \in Replicas, DeliverRecord(r) PROVE ClaimInv'
  <2>1. NoEntry
    BY <1>3, <1>t DEF DeliverRecord, IdleThread, NoEntry, Holding, ThreadsOK, Threads
  <2>2. QED
    BY <1>3, <1>q, <2>1 DEF DeliverRecord, tables
<1>4. ASSUME NEW r \in Replicas, CommitOffsets(r) PROVE ClaimInv'
  BY <1>4, <1>q, <1>u DEF CommitOffsets, tables
<1>5. ASSUME NEW r \in Replicas, ClaimDueRetries(r) PROVE ClaimInv'
  <2>1. NoEntry
    BY SMTT(30), <1>5, <1>t DEF ClaimDueRetries, IdleThread, NoEntry, Holding, ThreadsOK, Threads
  <2>2. QED
    BY <1>5, <1>q, <2>1 DEF ClaimDueRetries, tables
<1>s. StoreError \/ Fault => Failures' = Failures + 1
  BY SMTT(30), <1>n DEF StoreError, Fault, Failures
<1>c. CallOk => Failures' = Failures
  BY DEF CallOk, Failures
<1>6. ASSUME NEW w \in Threads, ClaimProcessedEvent(w) PROVE ClaimInv'
  <2> DEFINE f == th[w].ev
  <2>0. f \in Events /\ outcome' = outcome /\ effects' = effects
    BY <1>6, <1>e DEF ClaimProcessedEvent, world
  <2>1. CASE (ReturnNil(w) \/ Goto(w, "delete")) /\ CallOk /\ UNCHANGED processed
    BY <2>0, <2>1, <1>p, <1>q, <1>t, ReturnNilNoEntry, GotoNoEntry DEF world
  <2>2. CASE StoreError /\ processed' \in {processed, processed \cup {f}}
             /\ FailWith(w, "transient", "handoff")
    <3>1. NoEntry
      BY <2>2, <1>t, <1>p, FailWithNoEntry
    <3>2. faults' >= faults /\ dbErrors' >= dbErrors
      BY SMTT(30), <2>2, <1>n DEF StoreError
    <3>3. QED
      BY <2>0, <2>2, <3>1, <3>2, <1>t, QuietStep
  <2>3. CASE f \notin processed /\ processed' = processed \cup {f} /\ Goto(w, "apply")
             /\ CallOk
    <3>1. Moved(w, "apply")
      BY <2>3, <1>t, GotoMoves
    <3>2. \A u \in Threads : u # w /\ th[u].pc \in Holding => th[u].ev # f
      BY <2>3 DEF ClaimInv, ClaimHeld
    <3>3. ClaimHeld' /\ ApplyExclusive'
      BY <2>3, <3>1, <3>2 DEF ClaimInv, ClaimHeld, ApplyExclusive, Moved
    <3>4. WritesFresh'
      BY <2>0, <3>1 DEF ClaimInv, WritesFresh, Moved
    <3>5. Failures' = Failures /\ EffectsBounded'
      BY <2>0, <2>3, <1>c DEF ClaimInv, EffectsBounded
    <3>6. outcome[f] # "applied" => effects[f] <= Failures
      BY <2>0, <2>3 DEF ClaimInv, Paid
    <3>7. Paid'
      BY <2>0, <2>3, <3>1, <3>5, <3>6 DEF ClaimInv, Paid, Moved
    <3>8. QED
      BY <1>t, <3>3, <3>4, <3>5, <3>7 DEF ClaimInv
  <2>4. QED
    BY <1>6, <2>1, <2>2, <2>3 DEF ClaimProcessedEvent
<1>7. ASSUME NEW w \in Threads, ApplyEvent(w) PROVE ClaimInv'
  <2> DEFINE f == th[w].ev
             drop == [outcome EXCEPT ![f] = IF @ = "pending" THEN "dropped" ELSE @]
  <2>0. f \in Events /\ effects' = effects
    BY <1>7, <1>e DEF ApplyEvent
  <2>d. outcome' \in {outcome, drop} =>
          \A e \in Events : outcome'[e] = "applied" <=> outcome[e] = "applied"
    BY <2>0, <1>n
  <2>z. effects' = [effects EXCEPT ![f] = @ + 0]
    BY SMTT(30), <2>0, <1>n
  <2>1. CASE processed' = processed \ {f} /\ outcome' = drop /\ Goto(w, "processed")
             /\ CallOk
    <3>1. Moved(w, "processed")
      BY <2>1, <1>t, GotoMoves
    <3>2. \A u \in Threads : u # w /\ th[u].pc \in Holding => th[u].ev # f
      BY <1>7 DEF ApplyEvent, ClaimInv, ApplyExclusive, Holding
    <3>3. ClaimHeld' /\ ApplyExclusive'
      BY <2>1, <3>1, <3>2 DEF ClaimInv, ClaimHeld, ApplyExclusive, Moved, Holding
    <3>4. WritesFresh'
      BY SMTT(30), <2>1, <2>d, <3>1, <1>e DEF ClaimInv, WritesFresh, Moved
    <3>5. Failures' = Failures /\ EffectsBounded'
      BY <2>0, <2>1, <1>c DEF ClaimInv, EffectsBounded
    <3>6. outcome[f] # "applied" => effects[f] <= Failures
      BY <1>7 DEF ApplyEvent, ClaimInv, Paid
    <3>7. Paid'
      BY <2>0, <2>1, <2>d, <3>1, <3>5, <3>6, <1>e DEF ClaimInv, Paid, Moved
    <3>8. QED
      BY <1>t, <3>3, <3>4, <3>5, <3>7 DEF ClaimInv
  <2>2. CASE outcome' = drop /\ Goto(w, "processed") /\ CallOk /\ UNCHANGED processed
    <3>1. NoEntry
      BY <2>2, <1>t, <1>p, GotoNoEntry
    <3>2. QED
      BY SMTT(30), <2>0, <2>2, <2>d, <3>1, <1>n, <1>t, QuietStep DEF CallOk
  <2>3. CASE outcome[f] # "applied" /\ Goto(w, "write") /\ CallOk
             /\ UNCHANGED <<processed, outcome>>
    <3>1. Moved(w, "write")
      BY <2>3, <1>t, GotoMoves
    <3>2. th[w].pc = "apply"
      BY <1>7 DEF ApplyEvent
    <3>3. QED
      BY <2>0, <2>3, <2>z, <3>1, <3>2, <1>t, <1>c, HolderStep DEF Holding
  <2>4. CASE /\ \/ Fault /\ FailWith(w, "permanent", "release")
                \/ StoreError /\ FailWith(w, "transient", "release")
             /\ UNCHANGED <<processed, outcome>>
    <3>1. Moved(w, "release")
      BY <2>4, <1>t, FailWithMoves
    <3>2. th[w].pc = "apply"
      BY <1>7 DEF ApplyEvent
    <3>3. QED
      BY <2>0, <2>4, <2>z, <3>1, <3>2, <1>t, <1>s, HolderStep DEF Holding
  <2>5. QED
    BY <1>7, <2>1, <2>2, <2>3, <2>4 DEF ApplyEvent
<1>8. ASSUME NEW w \in Threads, WriteDestination(w) PROVE ClaimInv'
  <2> DEFINE f == th[w].ev
  <2>0. /\ f \in Events /\ th[w].pc = "write" /\ outcome[f] # "applied"
        /\ UNCHANGED <<processed, outcome>>
    BY <1>8, <1>e DEF WriteDestination, ClaimInv, WritesFresh, tables
  <2>1. CASE effects' = [effects EXCEPT ![f] = @ + 1] /\ Goto(w, "persist") /\ CallOk
    <3>1. Moved(w, "persist")
      BY <2>1, <1>t, GotoMoves
    <3>2. QED
      <4> DEFINE n == 1
      <4>1. n \in {0, 1} /\ effects' = [effects EXCEPT ![f] = @ + n]
        BY <2>1
      <4>2. "persist" \in Holding
        BY DEF Holding
      <4> HIDE DEF n
      <4>3. QED
        BY <2>0, <2>1, <3>1, <4>1, <4>2, <1>t, <1>c, HolderStep
  <2>2. CASE /\ Fault
             /\ \E n \in {0, 1} : effects' = [effects EXCEPT ![f] = @ + n]
             /\ \E k \in Kinds : FailWith(w, k, "release")
    <3>1. Moved(w, "release")
      BY <2>2, <1>t, FailWithMoves
    <3>2. PICK n \in {0, 1} : effects' = [effects EXCEPT ![f] = @ + n]
      BY <2>2
    <3>3. QED
      BY <2>0, <2>2, <3>1, <3>2, <1>t, <1>s, HolderStep DEF Holding
  <2>3. QED
    BY <1>8, <2>1, <2>2 DEF WriteDestination
<1>9. ASSUME NEW w \in Threads, PersistApplyState(w) PROVE ClaimInv'
  <2> DEFINE f == th[w].ev
             applied == [outcome EXCEPT ![f] = "applied"]
  <2>0. f \in Events /\ th[w].pc = "persist" /\ UNCHANGED <<processed, effects>>
    BY <1>9, <1>e DEF PersistApplyState, tables
  <2>z. effects' = [effects EXCEPT ![f] = @ + 0]
    BY SMTT(30), <2>0, <1>n
  <2>1. CASE outcome' = applied /\ Goto(w, "processed") /\ CallOk
    <3>1. Moved(w, "processed")
      BY <2>1, <1>t, GotoMoves
    <3>2. \A u \in Threads : u # w /\ th[u].pc \in Holding => th[u].ev # f
      BY <2>0 DEF ClaimInv, ApplyExclusive, Holding
    <3>3. ClaimHeld' /\ ApplyExclusive'
      BY <2>0, <3>1 DEF ClaimInv, ClaimHeld, ApplyExclusive, Moved, Holding
    <3>4. WritesFresh'
      BY <2>1, <3>1, <3>2, <1>e, <1>n DEF ClaimInv, WritesFresh, Moved, Holding
    <3>5. Failures' = Failures /\ EffectsBounded'
      BY <2>0, <2>1, <1>c DEF ClaimInv, EffectsBounded
    <3>6. Paid'
      BY <2>0, <2>1, <3>1, <3>2, <3>5, <1>e, <1>n DEF ClaimInv, Paid, Moved, Holding
    <3>7. QED
      BY <1>t, <3>3, <3>4, <3>5, <3>6 DEF ClaimInv
  <2>2. CASE StoreError /\ outcome' \in {outcome, applied}
             /\ FailWith(w, "transient", "release")
    <3>1. Moved(w, "release")
      BY <2>2, <1>t, FailWithMoves
    <3>2. /\ \A e \in Events : outcome'[e] = "applied" => outcome[e] = "applied" \/ e = f
          /\ \A e \in Events : outcome[e] = "applied" => outcome'[e] = "applied"
      BY <2>0, <2>2, <1>n
    <3>3. QED
      BY <2>0, <2>2, <2>z, <3>1, <3>2, <1>t, <1>s, HolderStep DEF Holding
  <2>3. QED
    BY <1>9, <2>1, <2>2 DEF PersistApplyState
<1>10. ASSUME NEW w \in Threads, ReleaseProcessedEvent(w) PROVE ClaimInv'
  <2> DEFINE f == th[w].ev
  <2>0. /\ f \in Events /\ th[w].pc = "release" /\ UNCHANGED <<outcome, effects>>
        /\ processed' \in {processed, processed \ {f}}
    BY <1>10, <1>e DEF ReleaseProcessedEvent, world
  <2>1. Moved(w, "failed")
    BY <1>10, <1>t, GotoMoves DEF ReleaseProcessedEvent
  <2>2. \A u \in Threads : u # w /\ th[u].pc \in Holding => th[u].ev # f
    BY <2>0 DEF ClaimInv, ApplyExclusive, Holding
  <2>3. ClaimHeld' /\ ApplyExclusive'
    BY <2>0, <2>1, <2>2 DEF ClaimInv, ClaimHeld, ApplyExclusive, Moved, Holding
  <2>4. WritesFresh'
    BY <2>0, <2>1 DEF ClaimInv, WritesFresh, Moved
  <2>5. Failures' \in Nat /\ Failures' >= Failures
    <3>1. Failures' = Failures \/ Failures' = Failures + 1
      BY <1>10, <1>c, <1>s DEF ReleaseProcessedEvent
    <3>2. QED
      BY SMTT(30), <3>1, <1>n
  <2>6. \A e \in Events : effects'[e] = effects[e] /\ effects[e] \in Nat
    BY <2>0, <1>n
  <2>7. EffectsBounded'
    <3>1. \A e \in Events : effects[e] <= 1 + Failures
      BY DEF ClaimInv, EffectsBounded
    <3>2. QED
      BY SMTT(30), <3>1, <2>5, <2>6, <1>n DEF EffectsBounded
  <2>8. outcome[f] # "applied" => effects[f] <= Failures
    BY <2>0 DEF ClaimInv, Paid
  <2>9. \A e \in Events : effects[e] <= Failures => effects'[e] <= Failures'
    BY SMTT(30), <2>5, <2>6, <1>n
  <2>10. Paid'
    BY <2>0, <2>1, <2>8, <2>9, <1>e DEF ClaimInv, Paid, Moved
  <2>11. QED
    BY <1>t, <2>3, <2>4, <2>7, <2>10 DEF ClaimInv
<1>11. ASSUME NEW w \in Threads, MarkProcessed(w) PROVE ClaimInv'
  BY <1>11, <1>q, <1>t, ReturnNilNoEntry DEF MarkProcessed
<1>12. ASSUME NEW w \in Threads, MarkFailed(w) PROVE ClaimInv'
  BY <1>12, <1>q, <1>t, <1>p, GotoNoEntry DEF MarkFailed
<1>13. ASSUME NEW w \in Threads, ScheduleRetry(w) PROVE ClaimInv'
  BY <1>13, <1>q, <1>t, ReturnNilNoEntry, RestNoEntry DEF ScheduleRetry, ReturnError
<1>14. ASSUME NEW w \in Threads, InsertDead(w) PROVE ClaimInv'
  BY <1>14, <1>q, <1>t, <1>p, GotoNoEntry, RestNoEntry DEF InsertDead, ReturnError
<1>15. ASSUME NEW w \in Threads, MarkDlq(w) PROVE ClaimInv'
  BY <1>15, <1>q, <1>t, <1>p, GotoNoEntry, ReturnNilNoEntry DEF MarkDlq
<1>16. ASSUME NEW w \in Threads, DeleteRow(w) PROVE ClaimInv'
  BY <1>16, <1>q, <1>t, <1>p, GotoNoEntry, RestNoEntry DEF DeleteRow
<1>17. ASSUME NEW w \in Threads, ResolveDeadLetter(w) PROVE ClaimInv'
  BY <1>17, <1>q, <1>t, RestNoEntry DEF ResolveDeadLetter
<1>18. ASSUME NEW e \in Events, HandleDLQRetry(e) PROVE ClaimInv'
  BY SMTT(30), <1>18, <1>t, <1>n, <1>u, QuietStep DEF HandleDLQRetry, world
<1>19. ASSUME EnqueueReplay PROVE ClaimInv'
  BY <1>19, <1>q, <1>u DEF EnqueueReplay
<1>20. ASSUME NEW e \in Events, HandleDLQDiscard(e) PROVE ClaimInv'
  BY <1>20, <1>q, <1>u DEF HandleDLQDiscard
<1>21. ASSUME NEW r \in Replicas, CrashReplica(r) PROVE ClaimInv'
  <2>1. NoEntry
    BY <1>21 DEF CrashReplica, IdleThread, NoEntry, Holding
  <2>2. QED
    BY <1>21, <1>q, <2>1 DEF CrashReplica, tables
<1>22. ASSUME NEW r \in Replicas, Rebalance(r) PROVE ClaimInv'
  BY <1>22, <1>q, <1>u DEF Rebalance, tables
<1>23. CASE UNCHANGED vars
  BY <1>23, <1>q, <1>u DEF vars, bounds, tables, CallOk
<1>24. QED
  BY <1>1, <1>2, <1>3, <1>4, <1>5, <1>6, <1>7, <1>8, <1>9, <1>10, <1>11, <1>12, <1>13,
     <1>14, <1>15, <1>16, <1>17, <1>18, <1>19, <1>20, <1>21, <1>22, <1>23
     DEF Next, ThreadStep

\* The initial state satisfies the claim invariant.
LEMMA ClaimInit == Init => ClaimInv
BY SMTT(30), TypeInit DEF Init, ClaimInv, ClaimHeld, ApplyExclusive, WritesFresh, Paid, EffectsBounded,
   Failures, IdleThread, Holding, Threads

\* The claim invariant holds in every reachable state.
LEMMA ClaimInvariant == Spec => []ClaimInv
BY ClaimInit, ClaimStep, PTL DEF Spec

\* The claim is a lock on the event (ApplyExclusive), for any number of replicas,
\* redeliveries, store errors and crashes.
THEOREM Exclusive == Spec => []ApplyExclusive
BY ClaimInvariant, PTL DEF ClaimInv

\* Only failed calls can cost a second mutation of the destination
\* (EffectsBounded), for any number of deliveries, replays and crashes.
THEOREM MutationsPaidFor == Spec => []EffectsBounded
BY ClaimInvariant, PTL DEF ClaimInv

-----------------------------------------------------------------------------
\* Where a call leaves its thread

\* Goto and FailWith move one thread with its event and offset; Rest empties it.
Goes(w, l) ==
    /\ th'[w].pc = l /\ th'[w].ev = th[w].ev /\ th'[w].off = th[w].off
    /\ \A u \in Threads : u # w => th'[u] = th[u]

Rests(w) ==
    /\ th'[w].pc = "idle"
    /\ \A u \in Threads : u # w => th'[u] = th[u]

\* Goto goes where it says.
LEMMA GotoGoes ==
    ASSUME ThreadsOK, NEW w \in Threads, NEW l, Goto(w, l) PROVE Goes(w, l)
BY DEF ThreadsOK, ThreadState, Goto, Goes

\* So does FailWith.
LEMMA FailWithGoes ==
    ASSUME ThreadsOK, NEW w \in Threads, NEW k, NEW l, FailWith(w, k, l) PROVE Goes(w, l)
BY DEF ThreadsOK, ThreadState, FailWith, Goes

\* Rest leaves the thread idle.
LEMMA RestRests ==
    ASSUME ThreadsOK, NEW w \in Threads, Rest(w) PROVE Rests(w)
BY DEF ThreadsOK, Rest, IdleThread, Rests

\* ReturnNil rests a consumer, whose mark may move and whose record is no longer a
\* failed one, and sends the retry loop on.
LEMMA ReturnNilDoes ==
    ASSUME ThreadsOK, NEW w \in Threads, ReturnNil(w)
    PROVE  /\ UNCHANGED <<topic, position, owner, committed>>
           /\ \/ /\ w.role = "bus" /\ Rests(w)
                 /\ marked' = marked \/ marked' = th[w].off
                 /\ nacked' = nacked \ {<<th[w].off, th[w].ev>>}
              \/ /\ w.role = "retry" /\ Goes(w, "delete")
                 /\ marked' = marked /\ nacked' = nacked
BY GotoGoes, RestRests DEF ReturnNil, MarkCommitRecords, busVars

\* ReturnError rests the thread and notes its record.
LEMMA ReturnErrorDoes ==
    ASSUME ThreadsOK, NEW w \in Threads, ReturnError(w)
    PROVE  /\ UNCHANGED <<topic, position, owner, committed, marked>>
           /\ Rests(w)
           /\ nacked' = nacked \cup {<<th[w].off, th[w].ev>>}
BY RestRests DEF ReturnError, busVars

-----------------------------------------------------------------------------
\* The phase of an event

\* Nobody is between the event's claim and its release.
Unheld(e) == \A w \in Threads : th[w].ev = e => th[w].pc \notin Holding

\* An applied event is in its last phase.
LEMMA PhaseApplied ==
    ASSUME NEW e \in Events, outcome[e] = "applied" PROVE Phase[e] = "applied"
BY DEF Phase

\* Without an attempt behind it, the claim alone decides the phase.
LEMMA PhaseUnheld ==
    ASSUME NEW e \in Events, Unheld(e), outcome[e] # "applied"
    PROVE  Phase[e] = IF e \in processed THEN "closed" ELSE "free"
<1>1. ~Busy(e, {"persist"}) /\ ~Busy(e, {"release"}) /\ ~Busy(e, {"apply", "write"})
  BY DEF Unheld, Busy, Holding
<1>2. QED
  BY <1>1 DEF Phase

\* The attempt that holds the claim decides it otherwise.
LEMMA PhaseHeld ==
    ASSUME ClaimInv, NEW w \in Threads, NEW e \in Events, th[w].ev = e, th[w].pc \in Holding,
           outcome[e] # "applied"
    PROVE  /\ th[w].pc = "persist" => Phase[e] = "mutated"
           /\ th[w].pc = "release" => Phase[e] = "failed"
           /\ th[w].pc \in {"apply", "write"} => Phase[e] = "claimed"
<1>1. \A u \in Threads : th[u].ev = e /\ th[u].pc \in Holding => u = w
  BY DEF ClaimInv, ApplyExclusive
<1>2. /\ Busy(e, {"persist"}) <=> th[w].pc = "persist"
      /\ Busy(e, {"release"}) <=> th[w].pc = "release"
      /\ Busy(e, {"apply", "write"}) <=> th[w].pc \in {"apply", "write"}
  BY <1>1 DEF Busy, Holding
<1>3. QED
  BY <1>2 DEF Phase, Holding

\* The same facts after a step.
LEMMA PhaseAppliedNext ==
    ASSUME NEW e \in Events, outcome'[e] = "applied" PROVE Phase'[e] = "applied"
BY DEF Phase

\* The second fact after a step.
LEMMA PhaseUnheldNext ==
    ASSUME NEW e \in Events, Unheld(e)', outcome'[e] # "applied"
    PROVE  Phase'[e] = IF e \in processed' THEN "closed" ELSE "free"
<1>1. ~Busy(e, {"persist"})' /\ ~Busy(e, {"release"})' /\ ~Busy(e, {"apply", "write"})'
  BY DEF Unheld, Busy, Holding
<1>2. QED
  BY <1>1 DEF Phase

\* The third fact after a step.
LEMMA PhaseHeldNext ==
    ASSUME ClaimInv', NEW w \in Threads, NEW e \in Events, th'[w].ev = e, th'[w].pc \in Holding,
           outcome'[e] # "applied"
    PROVE  /\ th'[w].pc = "persist" => Phase'[e] = "mutated"
           /\ th'[w].pc = "release" => Phase'[e] = "failed"
           /\ th'[w].pc \in {"apply", "write"} => Phase'[e] = "claimed"
<1>1. \A u \in Threads : th'[u].ev = e /\ th'[u].pc \in Holding => u = w
  BY DEF ClaimInv, ApplyExclusive
<1>2. /\ Busy(e, {"persist"})' <=> th'[w].pc = "persist"
      /\ Busy(e, {"release"})' <=> th'[w].pc = "release"
      /\ Busy(e, {"apply", "write"})' <=> th'[w].pc \in {"apply", "write"}
  BY <1>1 DEF Busy, Holding
<1>3. QED
  BY <1>2 DEF Phase, Holding

-----------------------------------------------------------------------------
\* Steps

ContractStep == [Contract!ContractNext]_(Contract!contractVars)

\* Thread w works on f: other threads rest, and so do other events' claims and
\* outcomes.
Solo(w, f) ==
    /\ th[w].ev = f /\ f \in Events
    /\ \A u \in Threads : u # w => th'[u] = th[u]
    /\ th'[w].pc = "idle" \/ th'[w].ev = f
    /\ \A e \in Events : e # f => /\ outcome'[e] = outcome[e]
                                  /\ (e \in processed') <=> (e \in processed)

\* So other events keep their phase.
LEMMA SoloPhase ==
    ASSUME NEW w \in Threads, NEW f, Solo(w, f), NEW e \in Events, e # f
    PROVE  Phase'[e] = Phase[e]
<1>1. /\ Busy(e, {"persist"})' <=> Busy(e, {"persist"})
      /\ Busy(e, {"release"})' <=> Busy(e, {"release"})
      /\ Busy(e, {"apply", "write"})' <=> Busy(e, {"apply", "write"})
  BY DEF Busy, Solo
<1>2. QED
  BY <1>1 DEF Phase, Solo

\* A step that moves one event's phase as the contract allows is a contract step.
LEMMA SoloStep ==
    ASSUME NEW w \in Threads, NEW f, Solo(w, f), NEW to, Phase'[f] = to,
           \/ Phase[f] = to /\ UNCHANGED effects
           \/ Phase[f] = "free" /\ to = "claimed" /\ UNCHANGED effects
           \/ Phase[f] = "claimed" /\ to = "mutated" /\ effects' = [effects EXCEPT ![f] = @ + 1]
           \/ Phase[f] = "claimed" /\ to = "failed"
              /\ \E n \in {0, 1} : effects' = [effects EXCEPT ![f] = @ + n]
           \/ Phase[f] = "mutated" /\ to \in {"failed", "applied"} /\ UNCHANGED effects
           \/ Phase[f] \in {"claimed", "failed"} /\ to = "free" /\ UNCHANGED effects
           \/ Phase[f] \in {"free", "claimed", "mutated", "failed"} /\ to = "closed"
              /\ UNCHANGED effects
    PROVE  ContractStep
<1>f. f \in Events
  BY DEF Solo
<1>1. \A e \in Events : Phase'[e] = IF e = f THEN to ELSE Phase[e]
  BY SoloPhase
<1>p. Phase = [e \in Events |-> Phase[e]] /\ Phase' = [e \in Events |-> Phase'[e]]
  BY DEF Phase
<1>2. Phase' = [Phase EXCEPT ![f] = to]
  BY <1>1, <1>p
<1>3. Phase' = [e \in Events |-> IF e \in {f} THEN to ELSE Phase[e]]
  BY <1>1, <1>p
<1>4. CASE Phase[f] = to /\ UNCHANGED effects
  <2>1. Phase' = Phase
    BY <1>1, <1>p, <1>4
  <2>2. QED
    BY <1>4, <2>1 DEF ContractStep, Contract!contractVars
<1> USE DEF ContractStep, Contract!ContractNext, Contract!Move
<1>5. CASE Phase[f] = "free" /\ to = "claimed" /\ UNCHANGED effects
  BY <1>f, <1>2, <1>5 DEF Contract!Claim
<1>6. CASE Phase[f] = "claimed" /\ to = "mutated" /\ effects' = [effects EXCEPT ![f] = @ + 1]
  BY <1>f, <1>2, <1>6 DEF Contract!Mutate
<1>7. CASE Phase[f] = "claimed" /\ to = "failed"
           /\ \E n \in {0, 1} : effects' = [effects EXCEPT ![f] = @ + n]
  BY <1>f, <1>2, <1>7 DEF Contract!FailCall
<1>8. CASE Phase[f] = "mutated" /\ to \in {"failed", "applied"} /\ UNCHANGED effects
  BY <1>f, <1>2, <1>8 DEF Contract!FailCommit, Contract!Commit
<1>9. CASE Phase[f] \in {"claimed", "failed"} /\ to = "free" /\ UNCHANGED effects
  BY <1>f, <1>2, <1>9 DEF Contract!Release
<1>10. CASE Phase[f] \in {"free", "claimed", "mutated", "failed"} /\ to = "closed"
            /\ UNCHANGED effects
  <2>1. {f} \in SUBSET Events /\ \A e \in {f} : Phase[e] \in {"free", "claimed", "mutated", "failed"}
    BY <1>f, <1>10
  <2>2. Contract!Close({f})
    BY <1>3, <1>10, <2>1 DEF Contract!Close
  <2>3. QED
    BY <2>1, <2>2
<1>11. QED
  BY <1>4, <1>5, <1>6, <1>7, <1>8, <1>9, <1>10

\* A thread outside the section that stays outside and touches neither claim nor
\* outcome is invisible.
LEMMA SilentStep ==
    ASSUME NEW w \in Threads, NEW f, Solo(w, f), th[w].pc \notin Holding, th'[w].pc \notin Holding,
           UNCHANGED <<processed, outcome, effects>>
    PROVE  ContractStep
<1>1. /\ Busy(f, {"persist"})' <=> Busy(f, {"persist"})
      /\ Busy(f, {"release"})' <=> Busy(f, {"release"})
      /\ Busy(f, {"apply", "write"})' <=> Busy(f, {"apply", "write"})
  BY DEF Busy, Solo, Holding
<1>2. Phase'[f] = Phase[f]
  BY <1>1 DEF Phase, Solo
<1>3. QED
  BY <1>2, SoloStep

\* An event without a claim is unheld, and unheld it stays while its thread goes
\* elsewhere; the holder is alone.
LEMMA HeldFacts ==
    ASSUME ClaimInv, NEW w \in Threads, NEW f, Solo(w, f)
    PROVE  /\ f \notin processed => Unheld(f)
           /\ Unheld(f) /\ th'[w].pc \notin Holding => Unheld(f)'
           /\ th[w].pc \in Holding /\ th'[w].pc \notin Holding => Unheld(f)'
           /\ th[w].pc \in Holding => f \in processed
<1>1. f \notin processed => Unheld(f)
  BY DEF ClaimInv, ClaimHeld, Unheld
<1>2. Unheld(f) /\ th'[w].pc \notin Holding => Unheld(f)'
  BY DEF Unheld, Solo
<1>3. th[w].pc \in Holding /\ th'[w].pc \notin Holding => Unheld(f)'
  BY DEF ClaimInv, ApplyExclusive, Unheld, Solo
<1>4. QED
  BY <1>1, <1>2, <1>3 DEF ClaimInv, ClaimHeld, Solo

\* The claim is free until it is taken, and a failed insert may leave it closed.
LEMMA ClaimContract ==
    ASSUME ClaimInv, ClaimInv', NEW w \in Threads, ClaimProcessedEvent(w)
    PROVE  ContractStep
<1>t. ThreadsOK /\ th[w].pc = "claim" /\ th[w].pc \notin Holding /\ UNCHANGED <<outcome, effects>>
  BY DEF ClaimInv, TypeOK, ClaimProcessedEvent, Holding, world
<1>f. PICK f \in Events : f = th[w].ev
  BY <1>t DEF ThreadsOK
<1>1. CASE f \notin processed /\ processed' = processed \cup {f} /\ Goto(w, "apply")
  <2>1. Goes(w, "apply")
    BY <1>1, <1>t, GotoGoes
  <2>2. Solo(w, f)
    BY <1>1, <1>t, <1>f, <2>1 DEF Solo, Goes
  <2>3. CASE outcome[f] = "applied"
    BY <1>t, <2>2, <2>3, PhaseApplied, PhaseAppliedNext, SoloStep
  <2>4. CASE outcome[f] # "applied"
    <3>1. Phase[f] = "free"
      BY <1>1, <2>2, <2>4, HeldFacts, PhaseUnheld
    <3>2. Phase'[f] = "claimed"
      BY <1>t, <1>f, <2>1, <2>4, PhaseHeldNext DEF Goes, Holding
    <3>3. QED
      BY <1>t, <2>2, <3>1, <3>2, SoloStep
  <2>5. QED
    BY <2>3, <2>4
<1>2. CASE (ReturnNil(w) \/ Goto(w, "delete")) /\ UNCHANGED processed
  <2>1. Rests(w) \/ Goes(w, "delete")
    BY <1>2, <1>t, ReturnNilDoes, GotoGoes
  <2>2. Solo(w, f) /\ th'[w].pc \notin Holding
    BY <1>2, <1>t, <1>f, <2>1 DEF Solo, Goes, Rests, Holding
  <2>3. QED
    BY <1>2, <1>t, <2>2, SilentStep
<1>3. CASE processed' \in {processed, processed \cup {f}} /\ FailWith(w, "transient", "handoff")
  <2>1. Goes(w, "handoff")
    BY <1>3, <1>t, FailWithGoes
  <2>2. Solo(w, f) /\ th'[w].pc \notin Holding
    BY <1>3, <1>t, <1>f, <2>1 DEF Solo, Goes, Holding
  <2>3. CASE processed' = processed
    BY <1>t, <2>2, <2>3, SilentStep
  <2>4. CASE f \notin processed /\ f \in processed' /\ outcome[f] = "applied"
    BY <1>t, <2>2, <2>4, PhaseApplied, PhaseAppliedNext, SoloStep
  <2>5. CASE f \notin processed /\ f \in processed' /\ outcome[f] # "applied"
    <3>1. Phase[f] = "free"
      BY <2>2, <2>5, HeldFacts, PhaseUnheld
    <3>2. Phase'[f] = "closed"
      BY <1>t, <2>2, <2>5, HeldFacts, PhaseUnheldNext
    <3>3. QED
      BY <1>t, <2>2, <3>1, <3>2, SoloStep
  <2>6. QED
    BY <1>3, <2>3, <2>4, <2>5
<1>4. QED
  BY <1>f, <1>1, <1>2, <1>3 DEF ClaimProcessedEvent

\* The decision releases the claim, closes it, goes on or fails.
LEMMA ApplyContractStep ==
    ASSUME ClaimInv, ClaimInv', NEW w \in Threads, ApplyEvent(w)
    PROVE  ContractStep
<1>t. ThreadsOK /\ th[w].pc = "apply" /\ th[w].pc \in Holding /\ UNCHANGED effects
      /\ outcome \in [Events -> {"pending", "applied", "dropped"}] /\ effects \in [Events -> Nat]
  BY DEF ClaimInv, TypeOK, WorldOK, ApplyEvent, Holding
<1>f. PICK f \in Events : f = th[w].ev
  BY <1>t DEF ThreadsOK
<1> DEFINE drop == [outcome EXCEPT ![f] = IF @ = "pending" THEN "dropped" ELSE @]
<1>a. ASSUME Solo(w, f), outcome[f] = "applied", outcome'[f] = "applied" PROVE ContractStep
  BY <1>a, <1>f, <1>t, PhaseApplied, PhaseAppliedNext, SoloStep
<1>c. outcome[f] # "applied" => Phase[f] = "claimed"
  BY <1>f, <1>t, PhaseHeld
<1>1. CASE outcome' = drop /\ Goto(w, "processed") /\ processed' \in {processed, processed \ {f}}
  <2>1. Goes(w, "processed")
    BY <1>1, <1>t, GotoGoes
  <2>2. Solo(w, f) /\ th'[w].pc \notin Holding
    BY <1>1, <1>t, <1>f, <2>1 DEF Solo, Goes, Holding
  <2>3. outcome'[f] = "applied" <=> outcome[f] = "applied"
    BY <1>1, <1>t
  <2>4. outcome[f] # "applied" => Phase'[f] = IF f \in processed' THEN "closed" ELSE "free"
    BY <1>t, <2>2, <2>3, HeldFacts, PhaseUnheldNext
  <2>5. QED
    BY <1>a, <1>c, <1>t, <2>2, <2>3, <2>4, SoloStep
<1>2. CASE outcome[f] # "applied" /\ Goto(w, "write") /\ UNCHANGED <<processed, outcome>>
  <2>1. Goes(w, "write")
    BY <1>2, <1>t, GotoGoes
  <2>2. Solo(w, f)
    BY <1>2, <1>t, <1>f, <2>1 DEF Solo, Goes
  <2>3. Phase'[f] = "claimed"
    BY <1>2, <1>f, <2>1, PhaseHeldNext DEF Goes, Holding
  <2>4. QED
    BY <1>2, <1>c, <1>t, <2>2, <2>3, SoloStep
<1>3. CASE (\E k \in Kinds : FailWith(w, k, "release")) /\ UNCHANGED <<processed, outcome>>
  <2>1. Goes(w, "release")
    BY <1>3, <1>t, FailWithGoes
  <2>2. Solo(w, f)
    BY <1>3, <1>t, <1>f, <2>1 DEF Solo, Goes
  <2>3. outcome[f] # "applied" => Phase'[f] = "failed"
    BY <1>3, <1>f, <2>1, PhaseHeldNext DEF Goes, Holding
  <2>4. effects' = [effects EXCEPT ![f] = @ + 0]
    BY SMTT(30), <1>t
  <2>5. QED
    BY <1>3, <1>a, <1>c, <2>2, <2>3, <2>4, SoloStep
<1>4. QED
  BY <1>f, <1>1, <1>2, <1>3 DEF ApplyEvent, Kinds

\* The destination call mutates under the claim, or fails and may have mutated.
LEMMA WriteContract ==
    ASSUME ClaimInv, ClaimInv', NEW w \in Threads, WriteDestination(w)
    PROVE  ContractStep
<1>t. ThreadsOK /\ th[w].pc = "write" /\ th[w].pc \in Holding /\ UNCHANGED <<processed, outcome>>
  BY DEF ClaimInv, TypeOK, WriteDestination, Holding, tables
<1>f. PICK f \in Events : f = th[w].ev
  BY <1>t DEF ThreadsOK
<1>o. outcome[f] # "applied"
  BY <1>t, <1>f DEF ClaimInv, WritesFresh
<1>c. Phase[f] = "claimed"
  BY <1>f, <1>t, <1>o, PhaseHeld
<1>1. CASE effects' = [effects EXCEPT ![f] = @ + 1] /\ Goto(w, "persist")
  <2>1. Goes(w, "persist")
    BY <1>1, <1>t, GotoGoes
  <2>2. Solo(w, f)
    BY <1>t, <1>f, <2>1 DEF Solo, Goes
  <2>3. Phase'[f] = "mutated"
    BY <1>t, <1>f, <1>o, <2>1, PhaseHeldNext DEF Goes, Holding
  <2>4. QED
    BY <1>1, <1>c, <2>2, <2>3, SoloStep
<1>2. CASE /\ \E n \in {0, 1} : effects' = [effects EXCEPT ![f] = @ + n]
           /\ \E k \in Kinds : FailWith(w, k, "release")
  <2>1. Goes(w, "release")
    BY <1>2, <1>t, FailWithGoes
  <2>2. Solo(w, f)
    BY <1>t, <1>f, <2>1 DEF Solo, Goes
  <2>3. Phase'[f] = "failed"
    BY <1>t, <1>f, <1>o, <2>1, PhaseHeldNext DEF Goes, Holding
  <2>4. QED
    BY <1>2, <1>c, <2>2, <2>3, SoloStep
<1>3. QED
  BY <1>f, <1>1, <1>2 DEF WriteDestination

\* The persisting transaction applies the event, or fails and may have applied it.
LEMMA PersistContract ==
    ASSUME ClaimInv, ClaimInv', NEW w \in Threads, PersistApplyState(w)
    PROVE  ContractStep
<1>t. ThreadsOK /\ th[w].pc = "persist" /\ th[w].pc \in Holding /\ UNCHANGED <<processed, effects>>
      /\ outcome \in [Events -> {"pending", "applied", "dropped"}]
  BY DEF ClaimInv, TypeOK, WorldOK, PersistApplyState, Holding, tables
<1>f. PICK f \in Events : f = th[w].ev
  BY <1>t DEF ThreadsOK
<1>o. outcome[f] # "applied"
  BY <1>t, <1>f DEF ClaimInv, WritesFresh
<1>c. Phase[f] = "mutated"
  BY <1>f, <1>t, <1>o, PhaseHeld
<1>1. Goes(w, "processed") \/ Goes(w, "release")
  BY <1>t, GotoGoes, FailWithGoes DEF PersistApplyState
<1>2. CASE outcome' = [outcome EXCEPT ![f] = "applied"]
  <2>1. Solo(w, f) /\ outcome'[f] = "applied"
    BY <1>t, <1>f, <1>1, <1>2 DEF Solo, Goes
  <2>2. QED
    BY <1>c, <1>f, <1>t, <2>1, PhaseAppliedNext, SoloStep
<1>3. CASE outcome' = outcome /\ Goes(w, "release")
  <2>1. Solo(w, f)
    BY <1>t, <1>f, <1>3 DEF Solo, Goes
  <2>2. Phase'[f] = "failed"
    BY <1>f, <1>o, <1>3, PhaseHeldNext DEF Goes, Holding
  <2>3. QED
    BY <1>c, <1>t, <2>1, <2>2, SoloStep
<1>4. QED
  BY <1>f, <1>t, <1>2, <1>3, FailWithGoes DEF PersistApplyState

\* fail() frees the claim, or leaves it closed when the DELETE failed.
LEMMA ReleaseContract ==
    ASSUME ClaimInv, ClaimInv', NEW w \in Threads, ReleaseProcessedEvent(w)
    PROVE  ContractStep
<1>t. ThreadsOK /\ th[w].pc = "release" /\ th[w].pc \in Holding /\ UNCHANGED <<outcome, effects>>
  BY DEF ClaimInv, TypeOK, ReleaseProcessedEvent, Holding, world
<1>f. PICK f \in Events : f = th[w].ev
  BY <1>t DEF ThreadsOK
<1>1. Goes(w, "failed") /\ processed' \in {processed, processed \ {f}}
  BY <1>f, <1>t, GotoGoes DEF ReleaseProcessedEvent
<1>2. Solo(w, f) /\ th'[w].pc \notin Holding
  BY <1>f, <1>t, <1>1 DEF Solo, Goes, Holding
<1>3. CASE outcome[f] = "applied"
  BY <1>f, <1>t, <1>2, <1>3, PhaseApplied, PhaseAppliedNext, SoloStep
<1>4. CASE outcome[f] # "applied"
  <2>1. Phase[f] = "failed"
    BY <1>f, <1>t, <1>4, PhaseHeld
  <2>2. Phase'[f] = IF f \in processed' THEN "closed" ELSE "free"
    BY <1>f, <1>t, <1>2, <1>4, HeldFacts, PhaseUnheldNext
  <2>3. QED
    BY <1>t, <1>2, <2>1, <2>2, SoloStep
<1>5. QED
  BY <1>3, <1>4

\* What the callers do with the result is invisible.
LEMMA CallerContract ==
    ASSUME ClaimInv, NEW w \in Threads,
           \/ MarkProcessed(w) \/ MarkFailed(w) \/ ScheduleRetry(w) \/ InsertDead(w)
           \/ MarkDlq(w) \/ DeleteRow(w) \/ ResolveDeadLetter(w)
    PROVE  ContractStep
<1>t. ThreadsOK /\ th[w].pc # "idle" /\ th[w].pc \notin Holding
      /\ UNCHANGED <<processed, outcome, effects>>
  BY DEF ClaimInv, TypeOK, MarkProcessed, MarkFailed, ScheduleRetry, InsertDead, MarkDlq,
         DeleteRow, ResolveDeadLetter, Holding, world
<1>f. PICK f \in Events : f = th[w].ev
  BY <1>t DEF ThreadsOK
<1>1. \/ Rests(w) \/ Goes(w, "delete") \/ Goes(w, "handoff") \/ Goes(w, "dlqmark")
      \/ Goes(w, "discard") \/ Goes(w, "resolve")
  <2>1. CASE MarkProcessed(w) \/ MarkFailed(w) \/ MarkDlq(w)
    BY <1>t, <2>1, GotoGoes, ReturnNilDoes DEF MarkProcessed, MarkFailed, MarkDlq
  <2>2. CASE ScheduleRetry(w) \/ InsertDead(w)
    BY <1>t, <2>2, GotoGoes, RestRests, ReturnNilDoes, ReturnErrorDoes DEF ScheduleRetry, InsertDead
  <2>3. CASE DeleteRow(w) \/ ResolveDeadLetter(w)
    BY <1>t, <2>3, GotoGoes, RestRests DEF DeleteRow, ResolveDeadLetter
  <2>4. QED
    BY <2>1, <2>2, <2>3
<1>2. Solo(w, f) /\ th'[w].pc \notin Holding
  BY <1>f, <1>t, <1>1 DEF Solo, Goes, Rests, Holding
<1>3. QED
  BY <1>t, <1>2, SilentStep

\* A crash closes the claims its replica held.
LEMMA CrashContract ==
    ASSUME ClaimInv, ClaimInv', NEW r \in Replicas, CrashReplica(r)
    PROVE  ContractStep
<1> DEFINE s == {e \in Events : /\ outcome[e] # "applied"
                                /\ \E w \in Threads : /\ w.replica = r /\ th[w].ev = e
                                                      /\ th[w].pc \in Holding}
<1>1. /\ \A w \in Threads : IF w.replica = r THEN th'[w].pc = "idle" ELSE th'[w] = th[w]
      /\ UNCHANGED <<processed, outcome, effects>>
  BY DEF CrashReplica, IdleThread, tables, world
<1>2. ASSUME NEW e \in Events, e \in s
      PROVE  Phase[e] \in {"claimed", "mutated", "failed"} /\ Phase'[e] = "closed"
  <2>1. PICK w \in Threads : w.replica = r /\ th[w].ev = e /\ th[w].pc \in Holding
    BY <1>2
  <2>2. Phase[e] \in {"claimed", "mutated", "failed"}
    BY <1>2, <2>1, PhaseHeld DEF Holding
  <2>3. \A u \in Threads : th[u].ev = e /\ th[u].pc \in Holding => u = w
    BY <2>1 DEF ClaimInv, ApplyExclusive
  <2>4. Unheld(e)' /\ e \in processed'
    <3>1. e \in processed'
      BY <1>1, <2>1 DEF ClaimInv, ClaimHeld
    <3>2. Unheld(e)'
      BY <1>1, <2>1, <2>3 DEF Unheld, Holding
    <3>3. QED
      BY <3>1, <3>2
  <2>5. QED
    BY <1>1, <1>2, <2>2, <2>4, PhaseUnheldNext
<1>3. ASSUME NEW e \in Events, e \notin s PROVE Phase'[e] = Phase[e]
  <2>1. CASE outcome[e] = "applied"
    BY <1>1, <2>1, PhaseApplied, PhaseAppliedNext
  <2>2. CASE outcome[e] # "applied"
    <3>1. \A w \in Threads : th[w].ev = e /\ th[w].pc \in Holding => w.replica # r
      BY <1>3, <2>2
    <3>2. /\ Busy(e, {"persist"})' <=> Busy(e, {"persist"})
          /\ Busy(e, {"release"})' <=> Busy(e, {"release"})
          /\ Busy(e, {"apply", "write"})' <=> Busy(e, {"apply", "write"})
      BY <1>1, <3>1 DEF Busy, Holding
    <3>3. QED
      BY <1>1, <3>2 DEF Phase
  <2>3. QED
    BY <2>1, <2>2
<1>4. s \in SUBSET Events
  OBVIOUS
<1> HIDE DEF s
<1>5. Phase' = [e \in Events |-> IF e \in s THEN "closed" ELSE Phase[e]]
  <2>1. Phase' = [e \in Events |-> Phase'[e]]
    BY DEF Phase
  <2>2. QED
    BY <1>2, <1>3, <2>1
<1>6. Contract!Close(s)
  BY <1>1, <1>2, <1>4, <1>5 DEF Contract!Close
<1>7. QED
  BY <1>4, <1>6 DEF ContractStep, Contract!ContractNext

\* Everything else leaves claims, outcomes and attempts alone.
LEMMA OutsideContract ==
    ASSUME ClaimInv,
           \/ \E e \in Events : HandleWebhook(e) \/ HandleDLQRetry(e) \/ HandleDLQDiscard(e)
           \/ \E r \in Replicas : \/ IngestStep(r) \/ CommitOffsets(r) \/ Rebalance(r)
                                  \/ DeliverRecord(r) \/ ClaimDueRetries(r)
           \/ EnqueueReplay \/ UNCHANGED vars
    PROVE  ContractStep
<1>t. th \in [Threads -> ThreadState]
  BY DEF ClaimInv, TypeOK, ThreadsOK
<1>1. UNCHANGED <<processed, outcome, effects>>
  BY DEF HandleWebhook, HandleDLQRetry, HandleDLQDiscard, IngestStep, PendingSourceEvents,
         PublishPending, MarkValidated, CommitOffsets, Rebalance, DeliverRecord, ClaimDueRetries,
         EnqueueReplay, vars, tables, world
<1>2. \A w \in Threads : \/ th'[w] = th[w]
                         \/ th[w].pc = "idle" /\ th'[w].pc = "claim"
  <2>1. CASE th' = th
    BY <2>1
  <2>2. ASSUME NEW r \in Replicas, DeliverRecord(r) \/ ClaimDueRetries(r)
        PROVE  \A w \in Threads : \/ th'[w] = th[w]
                                  \/ th[w].pc = "idle" /\ th'[w].pc = "claim"
    <3>1. CASE DeliverRecord(r)
      BY <1>t, <3>1 DEF DeliverRecord, IdleThread
    <3>2. CASE ClaimDueRetries(r)
      BY <1>t, <3>2 DEF ClaimDueRetries, IdleThread
    <3>3. QED
      BY <2>2, <3>1, <3>2
  <2>3. QED
    BY <2>1, <2>2 DEF HandleWebhook, HandleDLQRetry, HandleDLQDiscard, IngestStep,
       PendingSourceEvents, PublishPending, MarkValidated, CommitOffsets, Rebalance,
       EnqueueReplay, vars
<1>3. ASSUME NEW e \in Events
      PROVE  /\ Busy(e, {"persist"})' <=> Busy(e, {"persist"})
             /\ Busy(e, {"release"})' <=> Busy(e, {"release"})
             /\ Busy(e, {"apply", "write"})' <=> Busy(e, {"apply", "write"})
  BY <1>2 DEF Busy
<1>4. Phase' = Phase
  BY <1>1, <1>3 DEF Phase
<1>5. QED
  BY <1>1, <1>4 DEF ContractStep, Contract!contractVars

-----------------------------------------------------------------------------
\* The pipeline implements the contract of Worker.Process (ImplementsContract):
\* however an event is delivered, retried, replayed or interrupted, its destination
\* is mutated under its claim only and at most once per claim.
THEOREM PipelineRefinesContract == Spec => ImplementsContract
<1>1. Init => Contract!ContractInit
  <2> SUFFICES ASSUME Init PROVE Contract!ContractInit
    OBVIOUS
  <2>1. \A e \in Events : Unheld(e) /\ outcome[e] # "applied" /\ e \notin processed
    BY DEF Init, Unheld, IdleThread, Holding
  <2>2. \A e \in Events : Phase[e] = "free"
    BY <2>1, PhaseUnheld
  <2>3. Phase = [e \in Events |-> Phase[e]]
    BY DEF Phase
  <2>4. Phase = [e \in Events |-> "free"]
    BY <2>2, <2>3
  <2>5. QED
    BY <2>4 DEF Init, Contract!ContractInit
<1>2. ClaimInv /\ ClaimInv' /\ [Next]_vars => [Contract!ContractNext]_(Contract!contractVars)
  <2> SUFFICES ASSUME ClaimInv, ClaimInv', [Next]_vars PROVE ContractStep
    BY DEF ContractStep
  <2>1. ASSUME NEW w \in Threads, ThreadStep(w) PROVE ContractStep
    BY <2>1, ClaimContract, ApplyContractStep, WriteContract, PersistContract, ReleaseContract,
       CallerContract DEF ThreadStep
  <2>2. ASSUME NEW r \in Replicas, CrashReplica(r) PROVE ContractStep
    BY <2>2, CrashContract
  <2>3. QED
    BY <2>1, <2>2, OutsideContract DEF Next
<1>3. QED
  BY <1>1, <1>2, ClaimInvariant, PTL DEF Spec, ImplementsContract, Contract!ContractSpec

-----------------------------------------------------------------------------
\* RestIsFinal

\* Nobody takes up another event.
Hands == \A u \in Threads : th'[u].ev = th[u].ev \/ th'[u].ev = NoEvent

\* A thread that moves or rests takes up no event.
LEMMA MovesKeepHands ==
    ASSUME ThreadsOK, NEW w \in Threads
    PROVE  /\ \A l : Goto(w, l) => Hands
           /\ \A k, l : FailWith(w, k, l) => Hands
           /\ Rest(w) => Hands
           /\ ReturnNil(w) \/ ReturnError(w) => Hands
<1>1. \A l : Goto(w, l) => Hands
  BY DEF ThreadsOK, ThreadState, Goto, Hands
<1>2. \A k, l : FailWith(w, k, l) => Hands
  BY SMTT(30) DEF ThreadsOK, ThreadState, FailWith, Hands
<1>3. Rest(w) => Hands
  BY SMTT(30) DEF ThreadsOK, Rest, IdleThread, Hands
<1>4. ReturnNil(w) \/ ReturnError(w) => Hands
  BY <1>1, <1>3 DEF ReturnNil, ReturnError
<1> QED
  BY <1>1, <1>2, <1>3, <1>4

\* A call of a thread takes up no event, touches the rows of its own event only
\* and moves neither the log nor what is left to consume of it.
LEMMA ThreadStepRests ==
    ASSUME TypeOK, NEW w \in Threads, ThreadStep(w)
    PROVE  /\ Hands /\ UNCHANGED <<ingest, topic, position, committed>>
           /\ \A e \in Events : e # th[w].ev =>
                 sourceEvents'[e] = sourceEvents[e] /\ retryQueue'[e] = retryQueue[e]
<1>t. /\ ThreadsOK /\ sourceEvents \in [Events -> SourceStatus] /\ retryQueue \in [Events -> Nat]
      /\ th[w].pc # "idle" => th[w].ev \in Events
  BY DEF TypeOK, TablesOK, ThreadsOK
<1>1. Hands
  BY <1>t, MovesKeepHands DEF ThreadStep, ClaimProcessedEvent, ApplyEvent, WriteDestination,
     PersistApplyState, MarkProcessed, ReleaseProcessedEvent, MarkFailed, ScheduleRetry, InsertDead,
     MarkDlq, DeleteRow, ResolveDeadLetter
<1>2. UNCHANGED <<topic, position, committed>>
  <2>1. ReturnNil(w) \/ ReturnError(w) => UNCHANGED <<topic, position, committed>>
    BY <1>t, ReturnNilDoes, ReturnErrorDoes
  <2> QED
    BY <2>1 DEF ThreadStep, ClaimProcessedEvent, ApplyEvent, WriteDestination, PersistApplyState,
       MarkProcessed, ReleaseProcessedEvent, MarkFailed, ScheduleRetry, InsertDead, MarkDlq,
       DeleteRow, ResolveDeadLetter, busVars
<1>3. ingest' = ingest
  BY DEF ThreadStep, ClaimProcessedEvent, ApplyEvent, WriteDestination, PersistApplyState,
     MarkProcessed, ReleaseProcessedEvent, MarkFailed, ScheduleRetry, InsertDead, MarkDlq,
     DeleteRow, ResolveDeadLetter
<1>4. \A e \in Events : e # th[w].ev => sourceEvents'[e] = sourceEvents[e]
  <2>1. CASE MarkProcessed(w) \/ MarkFailed(w) \/ MarkDlq(w)
    BY <1>t, <2>1 DEF MarkProcessed, MarkFailed, MarkDlq, SetSourceEventStatus, SetSourceEventStatusTo
  <2>2. CASE ~(MarkProcessed(w) \/ MarkFailed(w) \/ MarkDlq(w))
    BY <2>2 DEF ThreadStep, ClaimProcessedEvent, ApplyEvent, WriteDestination, PersistApplyState,
       ReleaseProcessedEvent, ScheduleRetry, InsertDead, DeleteRow, ResolveDeadLetter, tables
  <2> QED
    BY <2>1, <2>2
<1>5. \A e \in Events : e # th[w].ev => retryQueue'[e] = retryQueue[e]
  <2>1. CASE ScheduleRetry(w) \/ DeleteRow(w)
    BY <1>t, <2>1 DEF ScheduleRetry, DeleteRow, EnqueueRetry, DeleteRetry
  <2>2. CASE ~(ScheduleRetry(w) \/ DeleteRow(w))
    BY <2>2 DEF ThreadStep, ClaimProcessedEvent, ApplyEvent, WriteDestination, PersistApplyState,
       MarkProcessed, ReleaseProcessedEvent, MarkFailed, InsertDead, MarkDlq, ResolveDeadLetter, tables
  <2> QED
    BY <2>1, <2>2
<1> QED
  BY <1>1, <1>2, <1>3, <1>4, <1>5

\* An event at rest stays at rest if nothing takes it up.
LEMMA StaysAtRest ==
    ASSUME NEW CONSTANT e \in Events, Resting(e), TypeOK, TypeOK',
           sourceEvents'[e] # "received", retryQueue'[e] = 0,
           \A w \in Threads : th'[w].ev # e,
           \A r \in Replicas : ingest'[r].ev # e,
           \A o \in DOMAIN topic' : o > committed' \/ o > position' => topic'[o] # e
    PROVE  Resting(e)'
BY DEF Resting, Busy

\* In hand, queued or ahead of the consumers: nobody holds an event at rest.
LEMMA AtRest ==
    ASSUME NEW CONSTANT e \in Events, Resting(e), TypeOK
    PROVE  /\ sourceEvents[e] # "received" /\ retryQueue[e] = 0
           /\ \A w \in Threads : th[w].ev # e
           /\ \A r \in Replicas : ingest[r].ev # e
           /\ \A o \in DOMAIN topic : o > committed \/ o > position => topic[o] # e
           /\ NoEvent # e
BY PipelineAssumption DEF Resting, Busy, TypeOK, ThreadsOK, ThreadState

\* No step but a half-done replay takes up an event at rest.
LEMMA RestStep ==
    ASSUME TypeOK, [Next]_vars, NEW CONSTANT e \in Events, Resting(e), sourceEvents[e] # "none", replay # e
    PROVE  Resting(e)'
<1>a. /\ sourceEvents[e] # "received" /\ retryQueue[e] = 0
      /\ \A w \in Threads : th[w].ev # e
      /\ \A r \in Replicas : ingest[r].ev # e
      /\ \A o \in DOMAIN topic : o > committed \/ o > position => topic[o] # e
      /\ NoEvent # e
  BY AtRest
<1>t. TypeOK' /\ ThreadsOK
  BY TypeStep DEF TypeOK
<1>y. /\ sourceEvents \in [Events -> SourceStatus] /\ retryQueue \in [Events -> Nat]
      /\ topic \in Seq(Events) /\ position \in Nat /\ committed \in Nat /\ marked \in Nat
      /\ th \in [Threads -> ThreadState]
      /\ ingest \in [Replicas -> [pc : {"idle", "publish", "mark"}, ev : Events \cup {NoEvent}]]
  BY DEF TypeOK, TablesOK, BusTypeOK, ThreadsOK, IngestOK
<1>i. /\ ingest \in [Replicas -> [pc : {"idle", "publish", "mark"}, ev : Events \cup {NoEvent}]]
      /\ \A q \in Replicas : ingest[q].ev # e
      /\ NoEvent # e
  BY <1>a, <1>y
<1>l. /\ topic \in Seq(Events) /\ position \in Nat /\ committed \in Nat
      /\ \A o \in DOMAIN topic : o > committed \/ o > position => topic[o] # e
  BY <1>a, <1>y
<1> DEFINE Log == \A o \in DOMAIN topic' : o > committed' \/ o > position' => topic'[o] # e
<1>1. ASSUME NEW w \in Threads, ThreadStep(w) PROVE Resting(e)'
  BY <1>a, <1>t, <1>1, ThreadStepRests, StaysAtRest DEF Hands
<1>2. ASSUME UNCHANGED <<th, ingest, topic, position, committed>>, sourceEvents'[e] # "received", retryQueue'[e] = 0
      PROVE  Resting(e)'
  BY <1>a, <1>t, <1>2, StaysAtRest
<1>3. ASSUME \/ \E f \in Events : HandleWebhook(f) \/ HandleDLQRetry(f) \/ HandleDLQDiscard(f)
             \/ EnqueueReplay \/ UNCHANGED vars
      PROVE  Resting(e)'
  <2>1. UNCHANGED <<th, ingest, topic, position, committed>>
    BY <1>3 DEF HandleWebhook, HandleDLQRetry, HandleDLQDiscard, EnqueueReplay, vars, busVars
  <2>2. sourceEvents'[e] = sourceEvents[e]
    BY <1>3, <1>y DEF HandleWebhook, HandleDLQRetry, HandleDLQDiscard, EnqueueReplay, vars, tables, InsertSourceEvent
  <2>3. retryQueue'[e] = retryQueue[e]
    BY <1>3, <1>y DEF HandleWebhook, HandleDLQRetry, HandleDLQDiscard, EnqueueReplay, vars, tables, EnqueueRetry, TypeOK
  <2> QED
    BY <1>2, <1>a, <2>1, <2>2, <2>3
<1>4. ASSUME NEW r \in Replicas, IngestStep(r) PROVE Resting(e)'
  <2>1. th' = th /\ retryQueue' = retryQueue
    BY <1>4 DEF IngestStep, PendingSourceEvents, PublishPending, MarkValidated, tables
  <2>2. sourceEvents'[e] # "received"
    BY <1>4, <1>a, <1>y DEF IngestStep, PendingSourceEvents, PublishPending, MarkValidated, tables, SetSourceEventStatus
  <2>3. \A q \in Replicas : ingest'[q].ev # e
    <3>1. \/ ingest' = [ingest EXCEPT ![r] = IdleIngest]
          \/ ingest' = [ingest EXCEPT ![r].pc = "mark"]
          \/ \E f \in Events : f # e /\ ingest' = [ingest EXCEPT ![r] = [pc |-> "publish", ev |-> f]]
      BY <1>4, <1>a DEF IngestStep, PendingSourceEvents, PublishPending, MarkValidated
    <3>2. CASE ingest' = [ingest EXCEPT ![r].pc = "mark"]
      BY <3>2, <1>i
    <3>3. CASE ingest' = [ingest EXCEPT ![r] = IdleIngest]
      BY <3>3, <1>i DEF IdleIngest
    <3>4. CASE \E f \in Events : f # e /\ ingest' = [ingest EXCEPT ![r] = [pc |-> "publish", ev |-> f]]
      <4>1. PICK f \in Events : f # e /\ ingest' = [ingest EXCEPT ![r] = [pc |-> "publish", ev |-> f]]
        BY <3>4
      <4> QED
        BY <4>1, <1>i
    <3> QED
      BY <3>1, <3>2, <3>3, <3>4
  <2>4. CASE UNCHANGED <<topic, position, committed>>
    BY <1>a, <1>t, <2>1, <2>2, <2>3, <2>4, StaysAtRest
  <2>5. CASE Publish(ingest[r].ev)
    <3>1. /\ topic' = Append(topic, ingest[r].ev) /\ UNCHANGED <<position, committed>>
      BY <2>5 DEF Publish
    <3>2. ingest[r].ev \in Events
      BY SMTT(30), <1>4, <2>5, <1>t, <3>1
         DEF TypeOK, IngestOK, IngestStep, PendingSourceEvents, PublishPending, MarkValidated, Publish, busVars
    <3>3. \A o \in DOMAIN topic' : \/ o \in DOMAIN topic /\ topic'[o] = topic[o]
                                  \/ topic'[o] = ingest[r].ev
      BY SMTT(30), <1>l, <3>1, <3>2
    <3>4. Log
      BY <1>a, <3>1, <3>3
    <3> QED
      BY <1>a, <1>t, <2>1, <2>2, <2>3, <3>4, StaysAtRest
  <2> QED
    BY <1>4, <2>4, <2>5 DEF IngestStep, PendingSourceEvents, PublishPending, MarkValidated, busVars
<1>5. ASSUME NEW r \in Replicas, DeliverRecord(r) PROVE Resting(e)'
  <2>1. UNCHANGED <<tables, ingest, topic, committed>> /\ position' = position + 1 /\ position + 1 \in DOMAIN topic
    BY SMTT(30), <1>5, <1>y DEF DeliverRecord, FetchRecord
  <2>2. topic[position + 1] # e
    <3>1. position + 1 > position
      BY SMTT(30), <1>l
    <3> QED
      BY <1>l, <2>1, <3>1
  <2>3. \A u \in Threads : th'[u].ev # e
    BY <1>5, <1>a, <1>y, <2>2 DEF DeliverRecord, IdleThread
  <2>4. Log
    BY SMTT(30), <1>a, <1>y, <2>1
  <2> QED
    BY <1>a, <1>t, <2>1, <2>3, <2>4, StaysAtRest DEF tables
<1>6. ASSUME NEW r \in Replicas, ClaimDueRetries(r) PROVE Resting(e)'
  <2>1. UNCHANGED <<tables, ingest, topic, committed, position>>
    BY <1>6 DEF ClaimDueRetries, busVars
  <2>2. \A u \in Threads : th'[u].ev # e
    BY SMTT(30), <1>6, <1>a, <1>y DEF ClaimDueRetries, IdleThread
  <2> QED
    BY <1>a, <1>t, <2>1, <2>2, StaysAtRest DEF tables
<1>7. ASSUME NEW r \in Replicas, CommitOffsets(r) \/ Rebalance(r) \/ CrashReplica(r) PROVE Resting(e)'
  <2>1. UNCHANGED <<tables, topic>>
    BY <1>7 DEF CommitOffsets, Rebalance, CrashReplica, CommitUncommittedOffsets, AssignPartition, busVars
  <2>2. \/ position' = position /\ committed' >= committed
        \/ position' = committed /\ committed' = committed
    BY SMTT(30), <1>7, <1>y
       DEF CommitOffsets, Rebalance, CrashReplica, CommitUncommittedOffsets, AssignPartition, busVars
  <2>3. \A u \in Threads : th'[u].ev # e
    <3>1. \/ th' = th
          \/ \E q \in Replicas : th' = [w \in Threads |-> IF w.replica = q THEN IdleThread ELSE th[w]]
      BY <1>7 DEF CommitOffsets, Rebalance, CrashReplica
    <3>2. IdleThread.ev # e
      BY <1>i DEF IdleThread
    <3> QED
      BY <1>a, <3>1, <3>2
  <2>4. \A q \in Replicas : ingest'[q].ev # e
    <3>1. ingest' = ingest \/ \E q \in Replicas : ingest' = [ingest EXCEPT ![q] = IdleIngest]
      BY <1>7 DEF CommitOffsets, Rebalance, CrashReplica
    <3>2. IdleIngest.ev # e
      BY <1>i DEF IdleIngest
    <3> QED
      BY <1>i, <3>1, <3>2
  <2>5. Log
    <3>1. DOMAIN topic \subseteq Nat /\ committed' \in Nat
      BY SMTT(30), <1>t, <1>y DEF TypeOK, BusTypeOK
    <3>2. \A o \in Nat : o > committed' => o > committed
      BY SMTT(30), <1>l, <2>2, <3>1
    <3> QED
      BY <1>l, <2>1, <2>2, <3>1, <3>2
  <2> QED
    BY <1>a, <1>t, <2>1, <2>3, <2>4, <2>5, StaysAtRest DEF tables
<1> QED
  BY <1>1, <1>3, <1>4, <1>5, <1>6, <1>7 DEF Next

\* An event at rest is taken up again by an operator's retry only (RestIsFinal),
\* for any number of replicas, crashes, rebalances and late duplicates.
THEOREM RestStands == Spec => RestIsFinal
<1>1. TypeOK /\ [Next]_vars =>
          [\A e \in Events : Resting(e) /\ sourceEvents[e] # "none" => Resting(e)' \/ replay = e]_vars
  BY RestStep
<1> QED
  BY <1>1, TypeCorrect, PTL DEF Spec, RestIsFinal

-----------------------------------------------------------------------------
\* The inductive invariant behind LossExplained

\* The places of an attempt after its claim; a failure is handed on at the last.
Attempt == {"apply", "write", "persist", "release", "failed", "handoff"}

\* The event was decided, or the retry engine gave it up.
Done(e) == outcome[e] # "pending" \/ <<0, e>> \in nacked

\* The event needs no retry row any more.
Kept(e) == Done(e) \/ deadLetter[e] \in {"open", "retrying", "discarded"}

\* A handler failed on a record of the event, and none has succeeded on it since.
Nacked(e) == \E n \in nacked : n[2] = e

\* The event no longer depends on a record of the topic, or is Abandoned once the
\* failed record's offset is committed.
Safe(e) == Busy(e, Attempt) \/ retryQueue[e] > 0 \/ Kept(e) \/ Orphaned(e) \/ Nacked(e)

Published(e) == \E o \in DOMAIN topic : topic[o] = e

\* Offsets in use are offsets of the log.
OffsetsOK ==
    /\ position <= Len(topic) /\ marked <= Len(topic) /\ committed <= Len(topic)
    /\ \A w \in Threads :
          th[w].pc # "idle" /\ w.role = "bus" =>
              th[w].off \in DOMAIN topic /\ topic[th[w].off] = th[w].ev
    /\ \A n \in nacked : n[1] # 0 => n[1] \in DOMAIN topic /\ topic[n[1]] = n[2]

\* Whatever has moved past ingestion has been published.
WasPublished ==
    /\ \A e \in Events : sourceEvents[e] \notin {"none", "received"} => Published(e)
    /\ \A e \in Events : retryQueue[e] > 0 \/ deadLetter[e] # "none" => Published(e)
    /\ \A r \in Replicas : ingest[r].pc = "mark" => Published(ingest[r].ev)
    /\ \A w \in Threads : th[w].pc # "idle" => Published(th[w].ev)
    /\ replay # NoEvent => Published(replay)

\* Records the group will not see again, or sees again only after an assignment,
\* carry safe events, but for the one the owner's handler has in hand.
PassedSafe ==
    /\ \A o \in DOMAIN topic : o <= marked \/ o <= committed => Safe(topic[o])
    /\ \A w \in Threads, o \in DOMAIN topic :
          th[w].pc # "idle" /\ w.role = "bus" /\ o < th[w].off => Safe(topic[o])
    /\ \A o \in DOMAIN topic :
          o <= position =>
              \/ Safe(topic[o])
              \/ \E w \in Threads : /\ w.replica = owner /\ w.role = "bus"
                                    /\ th[w].pc # "idle" /\ th[w].off = o

\* What a thread's place says of its event.
PlaceOK ==
    \A w \in Threads :
        /\ th[w].pc = "processed" => outcome[th[w].ev] # "pending"
        /\ th[w].pc \in {"delete", "resolve"} => Done(th[w].ev)
        /\ th[w].pc \in {"dlqmark", "discard"} => Kept(th[w].ev)
        /\ th[w].pc # "idle" /\ w.role = "retry" => retryQueue[th[w].ev] > 0 \/ Kept(th[w].ev)
        /\ w.role = "bus" => th[w].pc \notin {"delete", "resolve", "discard"}

\* A claim belongs to a running attempt, or is final, or a call failed or a
\* replica died.
ClaimExplained ==
    \A e \in processed :
        Busy(e, Holding) \/ outcome[e] # "pending" \/ dbErrors + disruptions > 0

LossInv ==
    ClaimInv /\ OffsetsOK /\ WasPublished /\ PassedSafe /\ PlaceOK /\ ClaimExplained

\* The invariant implies the property: a published event whose records are all
\* committed is safe, and what is safe is in custody or abandoned.
LEMMA LossInvImplies == LossInv => LossExplained
<1> SUFFICES ASSUME LossInv, NEW e \in Events, sourceEvents[e] # "none",
                    sourceEvents[e] # "received"
             PROVE  Custody(e) \/ Abandoned(e)
  BY DEF LossExplained, Custody
<1>t. topic \in Seq(Events) /\ committed \in Nat /\ nacked \subseteq Nat \X Events
  BY DEF LossInv, ClaimInv, TypeOK, BusTypeOK
<1>1. PICK o \in DOMAIN topic : topic[o] = e
  BY DEF LossInv, WasPublished, Published
<1>2. CASE o > committed
  BY SMTT(30), <1>t, <1>1, <1>2 DEF Custody
<1>3. CASE o <= committed
  <2>1. Safe(e)
    BY <1>1, <1>3 DEF LossInv, PassedSafe
  <2>2. CASE Busy(e, Attempt) \/ retryQueue[e] > 0 \/ outcome[e] # "pending"
             \/ deadLetter[e] \in {"open", "retrying", "discarded"}
    BY <2>2 DEF Custody, Attempt
  <2>3. CASE Orphaned(e)
    BY <2>3 DEF Abandoned
  <2>4. CASE Nacked(e)
    <3>1. PICK n \in nacked : n[2] = e
      BY <2>4 DEF Nacked
    <3>2. n[1] \in Nat
      BY <1>t, <3>1
    <3>3. CASE n[1] <= committed
      BY <3>1, <3>3 DEF Abandoned
    <3>4. CASE n[1] > committed
      <4>1. n[1] \in DOMAIN topic /\ topic[n[1]] = e
        BY SMTT(30), <1>t, <3>1, <3>2, <3>4 DEF LossInv, OffsetsOK
      <4>2. n[1] \in committed + 1 .. Len(topic)
        BY SMTT(30), <1>t, <3>4, <4>1
      <4>3. QED
        BY <4>1, <4>2 DEF Custody
    <3>5. QED
      BY SMTT(30), <1>t, <3>2, <3>3, <3>4
  <2>5. CASE <<0, e>> \in nacked
    <3>1. Nacked(e)
      BY <2>5 DEF Nacked
    <3>2. QED
      BY <2>4, <3>1
  <2>6. QED
    BY <2>1, <2>2, <2>3, <2>4, <2>5 DEF Safe, Kept, Done
<1>4. QED
  BY SMTT(30), <1>t, <1>2, <1>3

-----------------------------------------------------------------------------
\* Steps of one thread

\* A call of thread w: it moves or rests, touches the rows of its own event only,
\* and records about the log at most that its own record succeeded or failed.
Local(w) ==
    LET f == th[w].ev IN
    /\ th[w].pc # "idle"
    /\ \A u \in Threads : u # w => th'[u] = th[u]
    /\ th'[w].pc = "idle" \/ (th'[w].ev = f /\ th'[w].off = th[w].off)
    /\ \A e \in Events : e # f =>
          /\ sourceEvents'[e] = sourceEvents[e] /\ retryQueue'[e] = retryQueue[e]
          /\ deadLetter'[e] = deadLetter[e] /\ outcome'[e] = outcome[e]
          /\ (e \in processed') <=> (e \in processed)
    /\ UNCHANGED <<topic, position, owner, committed, ingest, replay>>
    /\ marked' = marked \/ (w.role = "bus" /\ th'[w].pc = "idle" /\ marked' = th[w].off)
    /\ \A n \in nacked' : n \in nacked \/ n = <<0, f>> \/ (w.role = "bus" /\ n = <<th[w].off, f>>)
    /\ \A n \in nacked : n \in nacked' \/ (w.role = "bus" /\ n = <<th[w].off, f>>)
    /\ dbErrors' + disruptions' >= dbErrors + disruptions
    /\ outcome[f] # "pending" => outcome'[f] # "pending"

\* The count of store errors and disruptions is a number.
LEMMA ErrorsNat ==
    ASSUME TypeOK PROVE dbErrors + disruptions \in Nat
<1>1. \A a, b \in Nat : a + b \in Nat
  BY SMTT(30)
<1>2. QED
  BY <1>1 DEF TypeOK

\* The same after a step.
LEMMA ErrorsNatNext ==
    ASSUME TypeOK' PROVE dbErrors' + disruptions' \in Nat
<1>1. \A a, b \in Nat : a + b \in Nat
  BY SMTT(30)
<1>2. QED
  BY <1>1 DEF TypeOK

\* Events the thread does not work on stay as safe as they were.
LEMMA OthersKept ==
    ASSUME LossInv, TypeOK', NEW w \in Threads, Local(w),
           NEW e \in Events, e # th[w].ev
    PROVE  /\ Done(e) => Done(e)'
           /\ Kept(e) => Kept(e)'
           /\ Safe(e) => Safe(e)'
<1>t. TypeOK /\ th[w].ev \in Events
  BY DEF LossInv, ClaimInv, TypeOK, ThreadsOK, Local
<1>n. dbErrors + disruptions \in Nat /\ dbErrors' + disruptions' \in Nat
  BY <1>t, ErrorsNat, ErrorsNatNext
<1>g. dbErrors' + disruptions' >= dbErrors + disruptions
  BY DEF Local
<1>1. \A n : n[2] = e /\ n \in nacked => n \in nacked'
  <2>1. \A n \in nacked : n \in nacked' \/ n = <<th[w].off, th[w].ev>>
    BY DEF Local
  <2>2. QED
    BY SMTT(30), <2>1
<1>2. Done(e) => Done(e)'
  BY <1>1 DEF Done, Local
<1>3. Kept(e) => Kept(e)'
  BY <1>2 DEF Kept, Local
<1>4. Nacked(e) => Nacked(e)'
  BY <1>1 DEF Nacked
<1>5. Busy(e, Attempt) => Busy(e, Attempt)'
  BY DEF Busy, Local, Attempt
<1>6. Busy(e, Holding)' => Busy(e, Holding)
  BY DEF Busy, Local, Holding
<1>7. Orphaned(e) => Orphaned(e)'
  <2>1. (e \in processed') <=> (e \in processed)
    BY DEF Local
  <2>2. dbErrors + disruptions > 0 => dbErrors' + disruptions' > 0
    BY SMTT(30), <1>n, <1>g
  <2>3. QED
    BY <1>6, <2>1, <2>2 DEF Orphaned
<1>8. QED
  BY <1>2, <1>3, <1>4, <1>5, <1>7 DEF Safe, Local

\* What remains to be shown of the thread's own event.
OwnOK(w, f) ==
    /\ Kept(f) => Kept(f)'
    /\ Safe(f) => Safe(f)'
    /\ w.role = "bus" /\ th'[w].pc = "idle" => Safe(f)'
    /\ retryQueue[f] > 0 => retryQueue'[f] > 0 \/ Kept(f)'
    /\ th'[w].pc = "processed" => outcome'[f] # "pending"
    /\ th'[w].pc \in {"delete", "resolve"} => Done(f)'
    /\ th'[w].pc \in {"dlqmark", "discard"} => Kept(f)'
    /\ w.role = "bus" => th'[w].pc \notin {"delete", "resolve", "discard"}
    /\ f \in processed' => \/ Busy(f, Holding)'
                           \/ outcome'[f] # "pending"
                           \/ dbErrors' + disruptions' > 0

\* A thread's call keeps the invariant if it does so for the thread's own event.
LEMMA LocalStep ==
    ASSUME LossInv, ClaimInv', NEW w \in Threads, NEW f, f = th[w].ev, Local(w), OwnOK(w, f)
    PROVE  LossInv'
<1>t. TypeOK /\ TypeOK' /\ f \in Events
  BY DEF LossInv, ClaimInv, TypeOK, ThreadsOK, Local
<1>n. dbErrors + disruptions \in Nat /\ dbErrors' + disruptions' \in Nat
  BY <1>t, ErrorsNat, ErrorsNatNext
<1>g. dbErrors' + disruptions' >= dbErrors + disruptions
  BY DEF Local
<1>e. \A u \in Threads : th[u].pc # "idle" => th[u].ev \in Events
  BY <1>t DEF TypeOK, ThreadsOK
<1>1. \A e \in Events : /\ e # f => (Done(e) => Done(e)')
                        /\ Kept(e) => Kept(e)'
                        /\ Safe(e) => Safe(e)'
  BY <1>t, OthersKept DEF OwnOK
<1>z. w.role = "bus" => th[w].off \in DOMAIN topic /\ topic[th[w].off] = f
  BY DEF LossInv, OffsetsOK, Local
<1>d. \A e : <<0, e>> \in nacked => <<0, e>> \in nacked'
  <2>1. w.role = "bus" => th[w].off # 0
    <3>1. topic \in Seq(Events)
      BY <1>t DEF TypeOK, BusTypeOK
    <3>2. 0 \notin DOMAIN topic
      BY SMTT(30), <3>1
    <3>3. QED
      BY <1>z, <3>2
  <2>2. \A e : <<0, e>> = <<th[w].off, f>> => th[w].off = 0
    OBVIOUS
  <2>3. QED
    BY <2>1, <2>2 DEF Local
<1>2. \A e \in Events : Done(e) => Done(e)'
  BY <1>1, <1>d DEF Done, Local
<1>3. OffsetsOK'
  <2>1. position' <= Len(topic') /\ marked' <= Len(topic') /\ committed' <= Len(topic')
    <3>1. position <= Len(topic) /\ marked <= Len(topic) /\ committed <= Len(topic)
      BY DEF LossInv, OffsetsOK
    <3>2. topic' = topic /\ position' = position /\ committed' = committed
      BY DEF Local
    <3>3. marked' = marked \/ (w.role = "bus" /\ marked' = th[w].off)
      BY DEF Local
    <3>4. topic \in Seq(Events)
      BY <1>t DEF TypeOK, BusTypeOK
    <3>5. \A o \in DOMAIN topic : o <= Len(topic)
      BY SMTT(30), <3>4
    <3>6. marked' <= Len(topic)
      BY <1>z, <3>1, <3>3, <3>5
    <3>7. QED
      BY <3>1, <3>2, <3>6
  <2>2. \A u \in Threads : th'[u].pc # "idle" /\ u.role = "bus" =>
            th'[u].off \in DOMAIN topic' /\ topic'[th'[u].off] = th'[u].ev
    <3>1. \A u \in Threads : th[u].pc # "idle" /\ u.role = "bus" =>
              th[u].off \in DOMAIN topic /\ topic[th[u].off] = th[u].ev
      BY DEF LossInv, OffsetsOK
    <3>2. topic' = topic /\ \A u \in Threads : u # w => th'[u] = th[u]
      BY DEF Local
    <3>3. th'[w].pc # "idle" => th'[w].ev = f /\ th'[w].off = th[w].off
      BY DEF Local
    <3>4. QED
      BY <1>z, <3>1, <3>2, <3>3
  <2>3. ASSUME NEW n \in nacked', n[1] # 0 PROVE n[1] \in DOMAIN topic' /\ topic'[n[1]] = n[2]
    <3>1. CASE n \in nacked
      BY <2>3, <3>1 DEF LossInv, OffsetsOK, Local
    <3>2. CASE w.role = "bus" /\ n = <<th[w].off, f>>
      BY <1>z, <3>2 DEF Local
    <3>3. n # <<0, f>>
      BY SMTT(30), <2>3
    <3>4. QED
      BY <2>3, <3>1, <3>2, <3>3 DEF Local
  <2>4. QED
    BY <2>1, <2>2, <2>3 DEF OffsetsOK
<1>4. WasPublished'
  <2>1. \A e : Published(e)' <=> Published(e)
    BY DEF Published, Local
  <2>2. Published(f)
    BY DEF LossInv, WasPublished, Local
  <2>3. /\ \A e \in Events : sourceEvents'[e] \notin {"none", "received"} => Published(e)
        /\ \A e \in Events : retryQueue'[e] > 0 \/ deadLetter'[e] # "none" => Published(e)
    BY <2>2 DEF LossInv, WasPublished, Local
  <2>4. \A r \in Replicas : ingest'[r].pc = "mark" => Published(ingest'[r].ev)
    BY DEF LossInv, WasPublished, Local
  <2>5. \A u \in Threads : th'[u].pc # "idle" => Published(th'[u].ev)
    BY <2>2 DEF LossInv, WasPublished, Local
  <2>6. replay' # NoEvent => Published(replay')
    BY DEF LossInv, WasPublished, Local
  <2>7. QED
    BY <2>1, <2>3, <2>4, <2>5, <2>6 DEF WasPublished
<1>5. PassedSafe'
  <2>0. topic \in Seq(Events)
    BY <1>t DEF TypeOK, BusTypeOK
  <2>1. \A o \in DOMAIN topic : topic[o] \in Events /\ o \in Nat
    BY SMTT(30), <2>0
  <2>2. \A o \in DOMAIN topic : Safe(topic[o]) => Safe(topic[o])'
    <3>1. topic' = topic
      BY DEF Local
    <3>2. QED
      BY <1>1, <2>1, <3>1
  <2>3. ASSUME NEW o \in DOMAIN topic, o <= marked' \/ o <= committed' PROVE Safe(topic[o])'
    <3>1. CASE o <= marked \/ o <= committed
      BY <2>2, <3>1 DEF LossInv, PassedSafe
    <3>2. CASE w.role = "bus" /\ th'[w].pc = "idle" /\ o <= th[w].off
      <4>1. CASE o < th[w].off
        <5>1. th[w].pc # "idle"
          BY DEF Local
        <5>2. th[w].pc # "idle" /\ w.role = "bus" /\ o < th[w].off => Safe(topic[o])
          BY DEF LossInv, PassedSafe
        <5>3. QED
          BY <2>2, <3>2, <4>1, <5>1, <5>2
      <4>2. CASE o = th[w].off
        BY <1>z, <3>2, <4>2 DEF OwnOK, Local
      <4>3. QED
        BY SMTT(30), <1>z, <2>1, <3>2, <4>1, <4>2
    <3>3. QED
      BY <2>3, <3>1, <3>2 DEF Local
  <2>4. ASSUME NEW u \in Threads, NEW o \in DOMAIN topic, th'[u].pc # "idle", u.role = "bus",
               o < th'[u].off
        PROVE  Safe(topic[o])'
    <3>1. th[u].pc # "idle" /\ th'[u].off = th[u].off
      BY <2>4 DEF Local
    <3>2. th[u].pc # "idle" /\ u.role = "bus" /\ o < th[u].off => Safe(topic[o])
      BY DEF LossInv, PassedSafe
    <3>3. QED
      BY <2>2, <2>4, <3>1, <3>2
  <2>5. ASSUME NEW o \in DOMAIN topic, o <= position, ~Safe(topic[o])'
        PROVE  \E u \in Threads : /\ u.replica = owner' /\ u.role = "bus"
                                   /\ th'[u].pc # "idle" /\ th'[u].off = o
    <3>1. PICK u \in Threads : u.replica = owner /\ u.role = "bus" /\ th[u].pc # "idle"
                               /\ th[u].off = o
      BY <2>2, <2>5 DEF LossInv, PassedSafe
    <3>2. u = w => th'[w].pc # "idle"
      BY <1>z, <2>5, <3>1 DEF OwnOK, Local
    <3>3. QED
      BY <3>1, <3>2 DEF Local
  <2>6. QED
    BY <2>3, <2>4, <2>5 DEF PassedSafe, Local
<1>6. PlaceOK'
  <2>1. ASSUME NEW u \in Threads, u # w, th[u].pc # "idle", NEW g, g = th[u].ev
        PROVE  /\ th'[u].ev = g
               /\ th'[u].pc = "processed" => outcome'[g] # "pending"
               /\ th'[u].pc \in {"delete", "resolve"} => Done(g)'
               /\ th'[u].pc \in {"dlqmark", "discard"} => Kept(g)'
               /\ u.role = "retry" => retryQueue'[g] > 0 \/ Kept(g)'
               /\ u.role = "bus" => th'[u].pc \notin {"delete", "resolve", "discard"}
    <3>1. g \in Events /\ th'[u] = th[u]
      BY <1>e, <2>1 DEF Local
    <3>2. outcome[g] # "pending" => outcome'[g] # "pending"
      BY <3>1 DEF Local
    <3>3. (Done(g) => Done(g)') /\ (Kept(g) => Kept(g)')
      BY <1>1, <1>2, <3>1
    <3>4. retryQueue[g] > 0 => retryQueue'[g] > 0 \/ Kept(g)'
      BY <3>1 DEF OwnOK, Local
    <3>5. QED
      BY <2>1, <3>1, <3>2, <3>3, <3>4 DEF LossInv, PlaceOK
  <2>2. w.role = "retry" => retryQueue'[f] > 0 \/ Kept(f)'
    BY <1>1, <1>t DEF LossInv, PlaceOK, OwnOK, Local
  <2>3. ASSUME NEW u \in Threads, th'[u].pc # "idle", NEW g, g = th'[u].ev
        PROVE  /\ th'[u].pc = "processed" => outcome'[g] # "pending"
               /\ th'[u].pc \in {"delete", "resolve"} => Done(g)'
               /\ th'[u].pc \in {"dlqmark", "discard"} => Kept(g)'
               /\ u.role = "retry" => retryQueue'[g] > 0 \/ Kept(g)'
               /\ u.role = "bus" => th'[u].pc \notin {"delete", "resolve", "discard"}
    <3>1. CASE u = w
      <4>1. g = f
        BY <2>3, <3>1 DEF Local
      <4>2. QED
        BY <2>2, <3>1, <4>1 DEF OwnOK
    <3>2. CASE u # w
      <4>1. th[u].pc # "idle" /\ g = th[u].ev
        BY <2>3, <3>2 DEF Local
      <4>2. QED
        BY <2>1, <3>2, <4>1
    <3>3. QED
      BY <3>1, <3>2
  <2>4. QED
    BY <2>3 DEF PlaceOK, Done, Kept
<1>7. ClaimExplained'
  <2>1. ASSUME NEW e \in processed', e # f
        PROVE  Busy(e, Holding)' \/ outcome'[e] # "pending" \/ dbErrors' + disruptions' > 0
    <3>1. e \in Events /\ e \in processed /\ outcome'[e] = outcome[e]
      BY <1>t, <2>1 DEF TypeOK, TablesOK, Local
    <3>2. Busy(e, Holding) => Busy(e, Holding)'
      BY <2>1 DEF Busy, Local, Holding
    <3>3. dbErrors + disruptions > 0 => dbErrors' + disruptions' > 0
      BY SMTT(30), <1>n, <1>g
    <3>4. QED
      BY <3>1, <3>2, <3>3 DEF LossInv, ClaimExplained
  <2>2. QED
    BY <2>1 DEF ClaimExplained, OwnOK
<1>8. QED
  BY <1>3, <1>4, <1>5, <1>6, <1>7 DEF LossInv

\* The claim of the thread's event stays explained while the thread is outside the
\* section and the claim is not new.
LEMMA ClaimStays ==
    ASSUME LossInv, TypeOK', NEW w \in Threads, NEW f, f = th[w].ev, Local(w),
           th[w].pc \notin Holding, f \in processed
    PROVE  \/ Busy(f, Holding)'
           \/ outcome'[f] # "pending"
           \/ dbErrors' + disruptions' > 0
<1>1. Busy(f, Holding) => Busy(f, Holding)'
  BY DEF Busy, Local
<1>2. dbErrors + disruptions \in Nat /\ dbErrors' + disruptions' \in Nat
  BY ErrorsNat, ErrorsNatNext DEF LossInv, ClaimInv
<1>g. dbErrors' + disruptions' >= dbErrors + disruptions
  BY DEF Local
<1>3. dbErrors + disruptions > 0 => dbErrors' + disruptions' > 0
  BY SMTT(30), <1>2, <1>g
<1>4. QED
  BY <1>1, <1>3 DEF LossInv, ClaimExplained, Local

\* A consumer's thread is at an offset of the log, so resting it withdraws no
\* event the retry engine gave up.
LEMMA NotZero ==
    ASSUME LossInv, NEW w \in Threads, th[w].pc # "idle", w.role = "bus", NEW e
    PROVE  <<0, e>> # <<th[w].off, th[w].ev>>
<1>1. th[w].off \in DOMAIN topic /\ topic \in Seq(Events)
  BY DEF LossInv, OffsetsOK, ClaimInv, TypeOK, BusTypeOK
<1>2. th[w].off # 0
  BY SMTT(30), <1>1
<1>3. QED
  BY <1>2

\* Store errors are only counted up.
LEMMA ErrorsGrow ==
    ASSUME TypeOK, CallOk \/ StoreError \/ Fault
    PROVE  /\ dbErrors' + disruptions' >= dbErrors + disruptions
           /\ StoreError => dbErrors' + disruptions' > 0
<1>1. dbErrors \in Nat /\ disruptions \in Nat
  BY DEF TypeOK
<1>2. disruptions' = disruptions /\ (dbErrors' = dbErrors \/ dbErrors' = dbErrors + 1)
  BY DEF CallOk, StoreError, Fault
<1>3. StoreError => dbErrors' = dbErrors + 1
  BY DEF StoreError
<1>4. QED
  BY SMTT(30), <1>1, <1>2, <1>3

\* The claim: a new one makes the event busy, one that is met is explained or
\* noted, and one that failed goes to the hand-off.
LEMMA ClaimLoss ==
    ASSUME LossInv, ClaimInv', NEW w \in Threads, ClaimProcessedEvent(w)
    PROVE  LossInv'
<1>t. TypeOK /\ TypeOK' /\ ThreadsOK /\ th[w].pc = "claim"
  BY DEF LossInv, ClaimInv, TypeOK, ClaimProcessedEvent
<1>f. PICK f \in Events : f = th[w].ev
  BY <1>t DEF ThreadsOK
<1>g. dbErrors' + disruptions' >= dbErrors + disruptions
  BY <1>t, ErrorsGrow DEF ClaimProcessedEvent
<1>u. UNCHANGED <<sourceEvents, retryQueue, deadLetter, outcome, ingest, replay>>
  BY DEF ClaimProcessedEvent, world
<1>1. CASE /\ f \notin processed /\ processed' = processed \cup {f}
           /\ Goto(w, "apply") /\ UNCHANGED <<busVars, nacked>>
  <2>1. Goes(w, "apply")
    BY <1>1, <1>t, GotoGoes
  <2>2. Local(w)
    BY <1>1, <1>t, <1>f, <1>g, <1>u, <2>1 DEF Local, Goes, busVars
  <2>3. Busy(f, Holding)' /\ Busy(f, Attempt)'
    BY <1>f, <2>1 DEF Busy, Goes, Holding, Attempt
  <2>4. OwnOK(w, f)
    BY <1>1, <1>u, <2>1, <2>3 DEF OwnOK, Safe, Kept, Done, Goes
  <2>5. QED
    BY <1>f, <2>2, <2>4, LocalStep
<1>2. CASE f \in processed /\ w.role = "bus" /\ ReturnNil(w) /\ UNCHANGED processed
  <2>1. /\ Rests(w) /\ (marked' = marked \/ marked' = th[w].off)
        /\ nacked' = nacked \ {<<th[w].off, f>>}
        /\ UNCHANGED <<topic, position, owner, committed>>
    BY <1>2, <1>t, <1>f, ReturnNilDoes
  <2>2. Local(w)
    BY <1>2, <1>t, <1>f, <1>g, <1>u, <2>1 DEF Local, Rests
  <2>3. Kept(f) => Kept(f)'
    BY <1>2, <1>t, <1>f, <1>u, <2>1, NotZero DEF Kept, Done
  <2>4. Busy(f, Holding)' \/ outcome'[f] # "pending" \/ dbErrors' + disruptions' > 0
    BY <1>2, <1>t, <1>f, <2>2, ClaimStays DEF Holding
  <2>5. Safe(f)'
    <3>1. CASE Busy(f, Holding)'
      BY <3>1 DEF Safe, Busy, Holding, Attempt
    <3>2. CASE ~Busy(f, Holding)' /\ dbErrors' + disruptions' > 0
      BY <1>2, <3>2 DEF Safe, Orphaned
    <3>3. QED
      BY <2>4, <3>1, <3>2 DEF Safe, Kept, Done
  <2>6. OwnOK(w, f)
    BY <1>2, <1>u, <2>1, <2>3, <2>4, <2>5 DEF OwnOK, Rests
  <2>7. QED
    BY <1>f, <2>2, <2>6, LocalStep
<1>3. CASE /\ f \in processed /\ w.role = "retry" /\ Goto(w, "delete")
           /\ nacked' = (IF ClaimOfOther(f) THEN nacked \cup {<<0, f>>} ELSE nacked)
           /\ UNCHANGED <<busVars, processed>>
  <2>1. Goes(w, "delete")
    BY <1>3, <1>t, GotoGoes
  <2>2. Local(w)
    BY <1>3, <1>t, <1>f, <1>g, <1>u, <2>1 DEF Local, Goes, busVars
  <2>3. Done(f)' /\ Kept(f)' /\ Safe(f)'
    <3>1. ClaimOfOther(f) \/ outcome'[f] # "pending"
      BY <1>3, <1>u DEF LossInv, ClaimExplained, ClaimOfOther
    <3>2. QED
      BY <1>3, <3>1 DEF Done, Kept, Safe
  <2>4. Busy(f, Holding)' \/ outcome'[f] # "pending" \/ dbErrors' + disruptions' > 0
    BY <1>3, <1>t, <1>f, <2>2, ClaimStays DEF Holding
  <2>5. OwnOK(w, f)
    BY <1>3, <1>u, <2>1, <2>3, <2>4 DEF OwnOK, Goes
  <2>6. QED
    BY <1>f, <2>2, <2>5, LocalStep
<1>4. CASE /\ StoreError /\ processed' \in {processed, processed \cup {f}}
           /\ FailWith(w, "transient", "handoff") /\ UNCHANGED <<busVars, nacked>>
  <2>1. Goes(w, "handoff")
    BY <1>4, <1>t, FailWithGoes
  <2>2. Local(w)
    BY <1>4, <1>t, <1>f, <1>g, <1>u, <2>1 DEF Local, Goes, busVars
  <2>3. Busy(f, Attempt)'
    BY <1>f, <2>1 DEF Busy, Goes, Attempt
  <2>4. dbErrors' + disruptions' > 0
    BY <1>4, <1>t, ErrorsGrow
  <2>5. OwnOK(w, f)
    BY <1>4, <1>u, <2>1, <2>3, <2>4 DEF OwnOK, Safe, Kept, Done, Goes
  <2>6. QED
    BY <1>f, <2>2, <2>5, LocalStep
<1>5. QED
  BY <1>f, <1>1, <1>2, <1>3, <1>4 DEF ClaimProcessedEvent

\* An attempt that goes on inside its section keeps its event busy; one that
\* decides the event is done with it.
LEMMA HolderLoss ==
    ASSUME LossInv, ClaimInv', NEW w \in Threads, NEW f \in Events, f = th[w].ev, Local(w),
           UNCHANGED <<retryQueue, deadLetter, nacked>>,
           NEW l \in Holding \cup {"processed"}, Goes(w, l),
           l = "processed" => outcome'[f] # "pending"
    PROVE  LossInv'
<1>1. Kept(f) => Kept(f)'
  BY DEF Kept, Done, Local
<1>2. CASE l \in Holding
  <2>1. Busy(f, Holding)' /\ Busy(f, Attempt)'
    BY <1>2 DEF Busy, Goes, Holding, Attempt
  <2>2. OwnOK(w, f)
    BY <1>1, <1>2, <2>1 DEF OwnOK, Safe, Goes, Holding
  <2>3. QED
    BY <2>2, LocalStep
<1>3. CASE l = "processed"
  <2>1. Done(f)' /\ Kept(f)' /\ Safe(f)' /\ outcome'[f] # "pending"
    BY <1>3 DEF Done, Kept, Safe
  <2>2. OwnOK(w, f)
    BY <1>3, <2>1 DEF OwnOK, Goes
  <2>3. QED
    BY <2>2, LocalStep
<1>4. QED
  BY <1>2, <1>3

\* The decision: the event is dropped, or its destination is written, or the
\* attempt fails and goes to release its claim.
LEMMA ApplyLoss ==
    ASSUME LossInv, ClaimInv', NEW w \in Threads, ApplyEvent(w)
    PROVE  LossInv'
<1>t. TypeOK /\ TypeOK' /\ ThreadsOK /\ th[w].pc = "apply"
  BY DEF LossInv, ClaimInv, TypeOK, ApplyEvent
<1>f. PICK f \in Events : f = th[w].ev
  BY <1>t DEF ThreadsOK
<1>g. dbErrors' + disruptions' >= dbErrors + disruptions
  BY <1>t, ErrorsGrow DEF ApplyEvent
<1>u. UNCHANGED <<busVars, sourceEvents, retryQueue, deadLetter, ingest, replay, nacked>>
  BY DEF ApplyEvent
<1> DEFINE drop == [outcome EXCEPT ![f] = IF @ = "pending" THEN "dropped" ELSE @]
<1>o. outcome \in [Events -> {"pending", "applied", "dropped"}]
  BY <1>t DEF TypeOK, WorldOK
<1>1. CASE outcome' = drop /\ Goto(w, "processed") /\ processed' \in {processed, processed \ {f}}
  <2>1. Goes(w, "processed")
    BY <1>1, <1>t, GotoGoes
  <2>2. outcome'[f] # "pending"
    BY <1>1, <1>o
  <2>3. Local(w)
    BY <1>1, <1>t, <1>f, <1>g, <1>u, <1>o, <2>1, <2>2 DEF Local, Goes, busVars
  <2>4. QED
    BY <1>f, <1>u, <2>1, <2>2, <2>3, HolderLoss
<1>2. CASE Goto(w, "write") /\ UNCHANGED <<processed, outcome>>
  <2>1. Goes(w, "write") /\ "write" \in Holding
    BY <1>2, <1>t, GotoGoes DEF Holding
  <2>2. Local(w)
    BY <1>2, <1>t, <1>f, <1>g, <1>u, <2>1 DEF Local, Goes, busVars
  <2>3. QED
    BY <1>f, <1>u, <2>1, <2>2, HolderLoss
<1>3. CASE (\E k \in Kinds : FailWith(w, k, "release")) /\ UNCHANGED <<processed, outcome>>
  <2>1. Goes(w, "release") /\ "release" \in Holding
    BY <1>3, <1>t, FailWithGoes DEF Holding
  <2>2. Local(w)
    BY <1>3, <1>t, <1>f, <1>g, <1>u, <2>1 DEF Local, Goes, busVars
  <2>3. QED
    BY <1>f, <1>u, <2>1, <2>2, HolderLoss
<1>4. QED
  BY <1>f, <1>1, <1>2, <1>3 DEF ApplyEvent, Kinds

\* The destination call and the persisting transaction.
LEMMA WriteLoss ==
    ASSUME LossInv, ClaimInv', NEW w \in Threads, WriteDestination(w) \/ PersistApplyState(w)
    PROVE  LossInv'
<1>t. TypeOK /\ TypeOK' /\ ThreadsOK /\ th[w].pc \in {"write", "persist"}
  BY DEF LossInv, ClaimInv, TypeOK, WriteDestination, PersistApplyState
<1>f. PICK f \in Events : f = th[w].ev
  BY <1>t DEF ThreadsOK
<1>g. dbErrors' + disruptions' >= dbErrors + disruptions
  BY <1>t, ErrorsGrow DEF WriteDestination, PersistApplyState
<1>u. UNCHANGED <<busVars, tables, ingest, replay, nacked>>
  BY DEF WriteDestination, PersistApplyState
<1>o. outcome \in [Events -> {"pending", "applied", "dropped"}]
  BY <1>t DEF TypeOK, WorldOK
<1>1. /\ \/ outcome' = outcome
         \/ outcome' = [outcome EXCEPT ![f] = "applied"]
      /\ \/ Goes(w, "persist") \/ Goes(w, "release")
         \/ Goes(w, "processed") /\ outcome' = [outcome EXCEPT ![f] = "applied"]
  BY <1>t, <1>f, GotoGoes, FailWithGoes DEF WriteDestination, PersistApplyState
<1>2. Local(w)
  BY <1>1, <1>t, <1>f, <1>g, <1>u, <1>o DEF Local, Goes, busVars, tables
<1>3. PICK l \in {"persist", "release", "processed"} :
          Goes(w, l) /\ (l = "processed" => outcome'[f] # "pending")
  BY <1>1, <1>o
<1>4. l \in Holding \cup {"processed"}
  BY DEF Holding
<1>5. QED
  BY <1>f, <1>u, <1>2, <1>3, <1>4, HolderLoss DEF tables

\* MarkProcessed: the event is decided.
LEMMA MarkProcessedLoss ==
    ASSUME LossInv, ClaimInv', NEW w \in Threads, MarkProcessed(w)
    PROVE  LossInv'
<1>t. TypeOK /\ TypeOK' /\ ThreadsOK /\ th[w].pc = "processed"
  BY DEF LossInv, ClaimInv, TypeOK, MarkProcessed
<1>f. PICK f \in Events : f = th[w].ev
  BY <1>t DEF ThreadsOK
<1>g. dbErrors' + disruptions' >= dbErrors + disruptions
  BY <1>t, ErrorsGrow DEF MarkProcessed
<1>u. /\ UNCHANGED <<processed, retryQueue, deadLetter, outcome, ingest, replay>>
      /\ ReturnNil(w)
  BY DEF MarkProcessed, world
<1>s. \A e \in Events : e # f => sourceEvents'[e] = sourceEvents[e]
  BY <1>f, <1>t DEF MarkProcessed, SetSourceEventStatus, TypeOK, TablesOK
<1>1. outcome'[f] # "pending"
  BY <1>f, <1>t, <1>u DEF LossInv, PlaceOK
<1>2. Local(w)
  BY <1>t, <1>f, <1>g, <1>u, <1>s, ReturnNilDoes DEF Local, Goes, Rests
<1>3. Done(f)' /\ Kept(f)' /\ Safe(f)'
  BY <1>1 DEF Done, Kept, Safe
<1>4. th'[w].pc \in {"idle", "delete"} /\ (w.role = "bus" => th'[w].pc = "idle")
  BY <1>t, <1>u, ReturnNilDoes DEF Goes, Rests
<1>5. OwnOK(w, f)
  BY <1>1, <1>3, <1>4 DEF OwnOK
<1>6. QED
  BY <1>f, <1>2, <1>5, LocalStep

\* fail(): the attempt still has the event in hand.
LEMMA FailLoss ==
    ASSUME LossInv, ClaimInv', NEW w \in Threads, ReleaseProcessedEvent(w) \/ MarkFailed(w)
    PROVE  LossInv'
<1>t. TypeOK /\ TypeOK' /\ ThreadsOK /\ th[w].pc \in {"release", "failed"}
  BY DEF LossInv, ClaimInv, TypeOK, ReleaseProcessedEvent, MarkFailed
<1>f. PICK f \in Events : f = th[w].ev
  BY <1>t DEF ThreadsOK
<1>g. dbErrors' + disruptions' >= dbErrors + disruptions
  BY <1>t, ErrorsGrow DEF ReleaseProcessedEvent, MarkFailed
<1>u. UNCHANGED <<busVars, retryQueue, deadLetter, outcome, ingest, replay, nacked>>
  BY DEF ReleaseProcessedEvent, MarkFailed, world
<1>s. \A e \in Events : e # f => sourceEvents'[e] = sourceEvents[e]
                                /\ (e \in processed' <=> e \in processed)
  BY <1>f, <1>t DEF ReleaseProcessedEvent, MarkFailed, SetSourceEventStatus, TypeOK, TablesOK
<1>1. PICK l \in {"failed", "handoff"} : Goes(w, l)
  BY <1>t, GotoGoes DEF ReleaseProcessedEvent, MarkFailed
<1>2. Local(w)
  BY <1>t, <1>f, <1>g, <1>u, <1>s, <1>1 DEF Local, Goes, busVars
<1>3. Busy(f, Attempt)'
  BY <1>f, <1>1 DEF Busy, Goes, Attempt
<1>4. ASSUME f \in processed'
      PROVE  Busy(f, Holding)' \/ outcome'[f] # "pending" \/ dbErrors' + disruptions' > 0
  <2>1. CASE ReleaseProcessedEvent(w)
    <3>1. StoreError
      BY <1>4, <1>f, <2>1 DEF ReleaseProcessedEvent
    <3>2. QED
      BY <1>t, <3>1, ErrorsGrow
  <2>2. CASE MarkFailed(w)
    <3>1. f \in processed /\ th[w].pc \notin Holding
      BY <1>4, <2>2 DEF MarkFailed, Holding
    <3>2. QED
      BY <1>t, <1>f, <1>2, <3>1, ClaimStays
  <2>3. QED
    BY <2>1, <2>2
<1>5. OwnOK(w, f)
  BY <1>u, <1>1, <1>3, <1>4 DEF OwnOK, Safe, Kept, Done, Goes
<1>6. QED
  BY <1>f, <1>2, <1>5, LocalStep

\* The retry row is written, or the record counts as failed, or the row the retry
\* loop worked from is still there.
LEMMA ScheduleLoss ==
    ASSUME LossInv, ClaimInv', NEW w \in Threads, ScheduleRetry(w)
    PROVE  LossInv'
<1>t. TypeOK /\ TypeOK' /\ ThreadsOK /\ th[w].pc = "handoff" /\ th[w].pc \notin Holding
  BY DEF LossInv, ClaimInv, TypeOK, ScheduleRetry, Holding
<1>f. PICK f \in Events : f = th[w].ev
  BY <1>t DEF ThreadsOK
<1>g. dbErrors' + disruptions' >= dbErrors + disruptions
  BY <1>t, ErrorsGrow DEF ScheduleRetry
<1>u. UNCHANGED <<sourceEvents, processed, deadLetter, outcome, ingest, replay>>
  BY DEF ScheduleRetry, world
<1>q. retryQueue \in [Events -> Nat]
  BY <1>t DEF TypeOK, TablesOK
<1>r. /\ \A e \in Events : e # f => retryQueue'[e] = retryQueue[e]
      /\ retryQueue[f] > 0 => retryQueue'[f] > 0
  <2>1. retryQueue' = retryQueue \/ retryQueue' = EnqueueRetry(retryQueue, f)
    BY <1>f DEF ScheduleRetry
  <2>2. QED
    BY SMTT(30), <1>f, <1>q, <2>1 DEF EnqueueRetry
<1>1. CASE retryQueue' = EnqueueRetry(retryQueue, f) /\ w.role = "bus" /\ ReturnNil(w)
  <2>1. /\ Rests(w) /\ (marked' = marked \/ marked' = th[w].off)
        /\ nacked' = nacked \ {<<th[w].off, f>>}
        /\ UNCHANGED <<topic, position, owner, committed>>
    BY <1>1, <1>t, <1>f, ReturnNilDoes
  <2>2. Local(w)
    BY <1>1, <1>t, <1>f, <1>g, <1>u, <1>r, <2>1 DEF Local, Rests
  <2>3. retryQueue'[f] > 0
    BY SMTT(30), <1>1, <1>q DEF EnqueueRetry
  <2>4. Kept(f) => Kept(f)'
    BY <1>1, <1>t, <1>f, <1>u, <2>1, NotZero DEF Kept, Done
  <2>5. f \in processed' => Busy(f, Holding)' \/ outcome'[f] # "pending"
                            \/ dbErrors' + disruptions' > 0
    BY <1>t, <1>f, <1>u, <2>2, ClaimStays
  <2>6. OwnOK(w, f)
    BY <2>1, <2>3, <2>4, <2>5 DEF OwnOK, Safe, Rests
  <2>7. QED
    BY <1>f, <2>2, <2>6, LocalStep
<1>2. CASE w.role = "bus" /\ ReturnError(w)
  <2>1. /\ Rests(w) /\ nacked' = nacked \cup {<<th[w].off, f>>}
        /\ UNCHANGED <<topic, position, owner, committed, marked>>
    BY <1>2, <1>t, <1>f, ReturnErrorDoes
  <2>2. Local(w)
    BY <1>2, <1>t, <1>f, <1>g, <1>u, <1>r, <2>1 DEF Local, Rests
  <2>3. Nacked(f)'
    <3>1. <<th[w].off, f>> \in nacked' /\ <<th[w].off, f>>[2] = f
      BY <2>1
    <3>2. QED
      BY <3>1 DEF Nacked
  <2>4. Kept(f) => Kept(f)'
    BY <1>u, <2>1 DEF Kept, Done
  <2>5. f \in processed' => Busy(f, Holding)' \/ outcome'[f] # "pending"
                            \/ dbErrors' + disruptions' > 0
    BY <1>t, <1>f, <1>u, <2>2, ClaimStays
  <2>6. OwnOK(w, f)
    BY <1>r, <2>1, <2>3, <2>4, <2>5 DEF OwnOK, Safe, Rests
  <2>7. QED
    BY <1>f, <2>2, <2>6, LocalStep
<1>3. CASE w.role = "retry" /\ Rest(w) /\ UNCHANGED <<busVars, nacked>>
  <2>1. Rests(w)
    BY <1>3, <1>t, RestRests
  <2>2. Local(w)
    BY <1>3, <1>t, <1>f, <1>g, <1>u, <1>r, <2>1 DEF Local, Rests, busVars
  <2>3. Kept(f) => Kept(f)'
    BY <1>3, <1>u DEF Kept, Done
  <2>4. retryQueue[f] > 0 \/ Kept(f)
    BY <1>3, <1>t, <1>f DEF LossInv, PlaceOK
  <2>5. f \in processed' => Busy(f, Holding)' \/ outcome'[f] # "pending"
                            \/ dbErrors' + disruptions' > 0
    BY <1>t, <1>f, <1>u, <2>2, ClaimStays
  <2>6. OwnOK(w, f)
    BY <1>3, <1>r, <2>1, <2>3, <2>4, <2>5 DEF OwnOK, Safe, Rests
  <2>7. QED
    BY <1>f, <2>2, <2>6, LocalStep
<1>4. QED
  BY <1>f, <1>1, <1>2, <1>3 DEF ScheduleRetry

\* The dead letter is written, or the record counts as failed, or the retry loop
\* gives the event up, which is noted.
LEMMA DeadLoss ==
    ASSUME LossInv, ClaimInv', NEW w \in Threads, InsertDead(w)
    PROVE  LossInv'
<1>t. TypeOK /\ TypeOK' /\ ThreadsOK /\ th[w].pc = "handoff" /\ th[w].pc \notin Holding
  BY DEF LossInv, ClaimInv, TypeOK, InsertDead, Holding
<1>f. PICK f \in Events : f = th[w].ev
  BY <1>t DEF ThreadsOK
<1>g. dbErrors' + disruptions' >= dbErrors + disruptions
  BY <1>t, ErrorsGrow DEF InsertDead
<1>u. UNCHANGED <<sourceEvents, processed, retryQueue, outcome, ingest, replay>>
  BY DEF InsertDead, world
<1>r. /\ deadLetter' = deadLetter \/ deadLetter' = InsertDeadLetter(deadLetter, f)
      /\ \A e \in Events : e # f => deadLetter'[e] = deadLetter[e]
      /\ deadLetter' # deadLetter => deadLetter'[f] = "open"
  BY <1>f, <1>t DEF InsertDead, InsertDeadLetter, TypeOK, TablesOK
<1>c. Local(w) => (f \in processed' => \/ Busy(f, Holding)' \/ outcome'[f] # "pending"
                                       \/ dbErrors' + disruptions' > 0)
  BY <1>t, <1>f, <1>u, ClaimStays
<1>1. CASE /\ deadLetter' = InsertDeadLetter(deadLetter, f)
           /\ Goto(w, "dlqmark") /\ UNCHANGED <<busVars, nacked>>
  <2>1. Goes(w, "dlqmark")
    BY <1>1, <1>t, GotoGoes
  <2>2. Local(w)
    BY <1>1, <1>t, <1>f, <1>g, <1>u, <1>r, <2>1 DEF Local, Goes, busVars
  <2>3. deadLetter'[f] = "open"
    BY <1>1, <1>t DEF InsertDeadLetter, TypeOK, TablesOK
  <2>4. Kept(f)' /\ Safe(f)'
    BY <2>3 DEF Kept, Safe
  <2>5. OwnOK(w, f)
    BY <1>u, <1>c, <2>1, <2>2, <2>4 DEF OwnOK, Goes
  <2>6. QED
    BY <1>f, <2>2, <2>5, LocalStep
<1>2. CASE w.role = "bus" /\ ReturnError(w)
  <2>1. /\ Rests(w) /\ nacked' = nacked \cup {<<th[w].off, f>>}
        /\ UNCHANGED <<topic, position, owner, committed, marked>>
    BY <1>2, <1>t, <1>f, ReturnErrorDoes
  <2>2. Local(w)
    BY <1>2, <1>t, <1>f, <1>g, <1>u, <1>r, <2>1 DEF Local, Rests
  <2>3. Nacked(f)'
    <3>1. <<th[w].off, f>> \in nacked' /\ <<th[w].off, f>>[2] = f
      BY <2>1
    <3>2. QED
      BY <3>1 DEF Nacked
  <2>4. Kept(f) => Kept(f)'
    BY <1>u, <1>r, <2>1 DEF Kept, Done
  <2>5. OwnOK(w, f)
    BY <1>u, <1>c, <2>1, <2>2, <2>3, <2>4 DEF OwnOK, Safe, Rests
  <2>6. QED
    BY <1>f, <2>2, <2>5, LocalStep
<1>3. CASE /\ w.role = "retry" /\ Goto(w, "discard")
           /\ nacked' = nacked \cup {<<0, f>>} /\ UNCHANGED busVars
  <2>1. Goes(w, "discard")
    BY <1>3, <1>t, GotoGoes
  <2>2. Local(w)
    BY <1>3, <1>t, <1>f, <1>g, <1>u, <1>r, <2>1 DEF Local, Goes, busVars
  <2>3. Kept(f)' /\ Safe(f)'
    BY <1>3 DEF Kept, Done, Safe
  <2>4. OwnOK(w, f)
    BY <1>3, <1>u, <1>c, <2>1, <2>2, <2>3 DEF OwnOK, Goes
  <2>5. QED
    BY <1>f, <2>2, <2>4, LocalStep
<1>4. QED
  BY <1>f, <1>1, <1>2, <1>3 DEF InsertDead

\* MarkDlq: the event is kept by its dead letter, or was done with by another thread.
LEMMA MarkDlqLoss ==
    ASSUME LossInv, ClaimInv', NEW w \in Threads, MarkDlq(w)
    PROVE  LossInv'
<1>t. TypeOK /\ TypeOK' /\ ThreadsOK /\ th[w].pc = "dlqmark" /\ th[w].pc \notin Holding
  BY DEF LossInv, ClaimInv, TypeOK, MarkDlq, Holding
<1>f. PICK f \in Events : f = th[w].ev
  BY <1>t DEF ThreadsOK
<1>g. dbErrors' + disruptions' >= dbErrors + disruptions
  BY <1>t, ErrorsGrow DEF MarkDlq
<1>u. UNCHANGED <<processed, retryQueue, deadLetter, outcome, ingest, replay>>
  BY DEF MarkDlq, world
<1>s. \A e \in Events : e # f => sourceEvents'[e] = sourceEvents[e]
  BY <1>f, <1>t DEF MarkDlq, SetSourceEventStatusTo, TypeOK, TablesOK
<1>k. Kept(f)
  BY <1>f, <1>t DEF LossInv, PlaceOK
<1>1. CASE w.role = "bus" /\ ReturnNil(w)
  <2>1. /\ Rests(w) /\ (marked' = marked \/ marked' = th[w].off)
        /\ nacked' = nacked \ {<<th[w].off, f>>}
        /\ UNCHANGED <<topic, position, owner, committed>>
    BY <1>1, <1>t, <1>f, ReturnNilDoes
  <2>2. Local(w)
    BY <1>1, <1>t, <1>f, <1>g, <1>u, <1>s, <2>1 DEF Local, Rests
  <2>3. Kept(f)' /\ Safe(f)'
    BY <1>1, <1>k, <1>t, <1>f, <1>u, <2>1, NotZero DEF Kept, Done, Safe
  <2>4. OwnOK(w, f)
    BY <1>t, <1>f, <1>u, <2>1, <2>2, <2>3, ClaimStays DEF OwnOK, Rests
  <2>5. QED
    BY <1>f, <2>2, <2>4, LocalStep
<1>2. CASE w.role = "retry" /\ Goto(w, "discard") /\ UNCHANGED <<busVars, nacked>>
  <2>1. Goes(w, "discard")
    BY <1>2, <1>t, GotoGoes
  <2>2. Local(w)
    BY <1>2, <1>t, <1>f, <1>g, <1>u, <1>s, <2>1 DEF Local, Goes, busVars
  <2>3. Kept(f)' /\ Safe(f)'
    BY <1>2, <1>k, <1>u DEF Kept, Done, Safe
  <2>4. OwnOK(w, f)
    BY <1>2, <1>t, <1>f, <1>u, <2>1, <2>2, <2>3, ClaimStays DEF OwnOK, Goes
  <2>5. QED
    BY <1>f, <2>2, <2>4, LocalStep
<1>3. QED
  BY <1>1, <1>2 DEF MarkDlq

\* The row is deleted only for an event that needs it no more, and the dead letter
\* is resolved only for one that is done.
LEMMA DeleteLoss ==
    ASSUME LossInv, ClaimInv', NEW w \in Threads, DeleteRow(w) \/ ResolveDeadLetter(w)
    PROVE  LossInv'
<1>t. /\ TypeOK /\ TypeOK' /\ ThreadsOK /\ th[w].pc \in {"delete", "discard", "resolve"}
      /\ th[w].pc \notin Holding /\ w.role # "bus"
  BY DEF LossInv, ClaimInv, TypeOK, DeleteRow, ResolveDeadLetter, Holding, PlaceOK
<1>f. PICK f \in Events : f = th[w].ev
  BY <1>t DEF ThreadsOK
<1>g. dbErrors' + disruptions' >= dbErrors + disruptions
  BY <1>t, ErrorsGrow DEF DeleteRow, ResolveDeadLetter
<1>u. UNCHANGED <<busVars, sourceEvents, processed, outcome, ingest, replay, nacked>>
  BY DEF DeleteRow, ResolveDeadLetter, world
<1>s. \A e \in Events : e # f => retryQueue'[e] = retryQueue[e] /\ deadLetter'[e] = deadLetter[e]
  BY <1>f, <1>t DEF DeleteRow, ResolveDeadLetter, DeleteRetry, ResolveDeadLetterForEvent,
                    TypeOK, TablesOK
<1>1. Rests(w) \/ (th[w].pc = "delete" /\ Goes(w, "resolve"))
  BY <1>t, GotoGoes, RestRests DEF DeleteRow, ResolveDeadLetter
<1>2. Local(w)
  BY <1>t, <1>f, <1>g, <1>u, <1>s, <1>1 DEF Local, Goes, Rests, busVars
<1>3. /\ th[w].pc \in {"delete", "resolve"} => Done(f) /\ Done(f)'
      /\ Kept(f)
  BY <1>t, <1>f, <1>u DEF LossInv, PlaceOK, Kept, Done
<1>4. Kept(f)' /\ Safe(f)'
  <2>1. CASE th[w].pc \in {"delete", "resolve"}
    BY <1>3, <2>1 DEF Kept, Safe
  <2>2. CASE th[w].pc = "discard"
    <3>1. deadLetter' = deadLetter
      BY <2>2 DEF DeleteRow, ResolveDeadLetter
    <3>2. QED
      BY <1>3, <1>u, <3>1 DEF Kept, Done, Safe
  <2>3. QED
    BY <1>t, <2>1, <2>2
<1>5. OwnOK(w, f)
  BY <1>t, <1>f, <1>u, <1>1, <1>2, <1>3, <1>4, ClaimStays DEF OwnOK, Goes, Rests
<1>6. QED
  BY <1>f, <1>2, <1>5, LocalStep

-----------------------------------------------------------------------------
\* Steps outside the threads

\* The step leaves threads, claims, outcomes and failures alone and takes no retry
\* row and no dead letter away.
Calm ==
    /\ UNCHANGED <<th, nacked, outcome, processed>>
    /\ dbErrors' + disruptions' >= dbErrors + disruptions
    /\ \A e \in Events : retryQueue[e] > 0 => retryQueue'[e] > 0
    /\ \A e \in Events : deadLetter[e] \in {"open", "retrying", "discarded"}
                             => deadLetter'[e] \in {"open", "retrying", "discarded"}

\* Such a step keeps safe events safe.
LEMMA CalmSafe ==
    ASSUME LossInv, TypeOK', Calm
    PROVE  /\ \A e \in Events : (Kept(e) => Kept(e)') /\ (Safe(e) => Safe(e)')
           /\ PlaceOK' /\ ClaimExplained'
<1>n. dbErrors + disruptions \in Nat /\ dbErrors' + disruptions' \in Nat
  BY ErrorsNat, ErrorsNatNext DEF LossInv, ClaimInv
<1>p. dbErrors + disruptions > 0 => dbErrors' + disruptions' > 0
  BY SMTT(30), <1>n DEF Calm
<1>1. ASSUME NEW e \in Events
      PROVE  (Kept(e) => Kept(e)') /\ (Safe(e) => Safe(e)') /\ (Done(e) => Done(e)')
  <2>1. (Kept(e) => Kept(e)') /\ (Done(e) => Done(e)') /\ (Nacked(e) => Nacked(e)')
    BY DEF Kept, Done, Nacked, Calm
  <2>2. Orphaned(e) => Orphaned(e)'
    <3>1. Busy(e, Holding)' <=> Busy(e, Holding)
      BY DEF Busy, Calm, Holding
    <3>2. QED
      BY <1>p, <3>1 DEF Orphaned, Calm
  <2>3. Busy(e, Attempt) => Busy(e, Attempt)'
    BY DEF Busy, Calm, Attempt
  <2>4. QED
    BY <2>1, <2>2, <2>3 DEF Safe, Calm
<1>2. PlaceOK'
  <2>1. ASSUME NEW u \in Threads, th[u].pc # "idle", NEW g, g = th[u].ev
        PROVE  /\ th'[u] = th[u]
               /\ th[u].pc = "processed" => outcome'[g] # "pending"
               /\ th[u].pc \in {"delete", "resolve"} => Done(g)'
               /\ th[u].pc \in {"dlqmark", "discard"} => Kept(g)'
               /\ u.role = "retry" => retryQueue'[g] > 0 \/ Kept(g)'
               /\ u.role = "bus" => th[u].pc \notin {"delete", "resolve", "discard"}
    <3>1. g \in Events /\ th'[u] = th[u] /\ outcome' = outcome
      BY <2>1 DEF LossInv, ClaimInv, TypeOK, ThreadsOK, Calm
    <3>2. QED
      BY <1>1, <2>1, <3>1 DEF LossInv, PlaceOK, Calm
  <2>2. \A u \in Threads : th'[u] = th[u]
    BY DEF Calm
  <2>3. QED
    BY <2>1, <2>2 DEF PlaceOK, Done, Kept
<1>3. ClaimExplained'
  <2>1. ASSUME NEW e \in processed PROVE Busy(e, Holding)' <=> Busy(e, Holding)
    BY DEF Busy, Calm, Holding
  <2>2. QED
    BY <1>p, <2>1 DEF LossInv, ClaimExplained, Calm
<1>4. QED
  BY <1>1, <1>2, <1>3

\* Nor does it disturb what is said of the log, if the log and the consumer's
\* positions stay as they are.
LEMMA CalmLog ==
    ASSUME LossInv, TypeOK', Calm, UNCHANGED busVars
    PROVE  OffsetsOK' /\ PassedSafe' /\ \A e : Published(e)' <=> Published(e)
<1>t. topic \in Seq(Events)
  BY DEF LossInv, ClaimInv, TypeOK, BusTypeOK
<1>1. \A o \in DOMAIN topic : Safe(topic[o]) => Safe(topic[o])'
  <2>1. \A o \in DOMAIN topic : topic[o] \in Events
    BY SMTT(30), <1>t
  <2>2. QED
    BY <2>1, CalmSafe DEF busVars
<1>2. OffsetsOK'
  BY DEF LossInv, OffsetsOK, Calm, busVars
<1>3. PassedSafe'
  BY <1>1 DEF LossInv, PassedSafe, Calm, busVars
<1>4. \A e : Published(e)' <=> Published(e)
  BY DEF Published, busVars
<1>5. QED
  BY <1>2, <1>3, <1>4

\* The gateway, the ingestion scan and its mark, and the dead-letter operator.
LEMMA QuietLoss ==
    ASSUME LossInv, ClaimInv',
           \/ \E e \in Events : HandleWebhook(e) \/ HandleDLQRetry(e) \/ HandleDLQDiscard(e)
           \/ \E r \in Replicas : PendingSourceEvents(r) \/ MarkValidated(r)
           \/ EnqueueReplay
           \/ UNCHANGED vars
    PROVE  LossInv'
<1>t. TypeOK /\ TypeOK'
  BY DEF LossInv, ClaimInv
<1>n. dbErrors \in Nat /\ disruptions \in Nat
  BY <1>t DEF TypeOK
<1>g. dbErrors' + disruptions' >= dbErrors + disruptions
  <2>1. CallOk \/ StoreError \/ UNCHANGED <<dbErrors, disruptions>>
    BY DEF HandleWebhook, HandleDLQRetry, HandleDLQDiscard, PendingSourceEvents, MarkValidated,
           EnqueueReplay, vars, bounds
  <2>2. QED
    BY SMTT(30), <1>t, <1>n, <2>1, ErrorsGrow
<1>u. UNCHANGED <<busVars, th, nacked, outcome, processed>>
  BY DEF HandleWebhook, HandleDLQRetry, HandleDLQDiscard, PendingSourceEvents, MarkValidated,
         EnqueueReplay, vars, tables, world
<1>q. \A e \in Events : retryQueue[e] > 0 => retryQueue'[e] > 0
  <2>1. retryQueue' = retryQueue \/ retryQueue' = EnqueueRetry(retryQueue, replay)
    BY DEF HandleWebhook, HandleDLQRetry, HandleDLQDiscard, PendingSourceEvents, MarkValidated,
           EnqueueReplay, vars, tables
  <2>2. retryQueue \in [Events -> Nat]
    BY <1>t DEF TypeOK, TablesOK
  <2>3. QED
    BY SMTT(30), <2>1, <2>2 DEF EnqueueRetry
<1>d. \A e \in Events : deadLetter[e] \in {"open", "retrying", "discarded"}
                             => deadLetter'[e] \in {"open", "retrying", "discarded"}
  BY <1>t DEF HandleWebhook, HandleDLQRetry, HandleDLQDiscard, PendingSourceEvents, MarkValidated,
         EnqueueReplay, SetDeadLetterStatus, vars, tables, TypeOK, TablesOK
<1>1. Calm
  BY <1>g, <1>u, <1>q, <1>d DEF Calm
<1>2. OffsetsOK' /\ PassedSafe' /\ PlaceOK' /\ ClaimExplained'
      /\ \A e : Published(e)' <=> Published(e)
  BY <1>t, <1>u, <1>1, CalmSafe, CalmLog
<1>3. WasPublished'
  <2>1. \A e \in Events : sourceEvents'[e] \notin {"none", "received"} => Published(e)
    <3>1. \/ sourceEvents' = sourceEvents
          \/ \E e \in Events : sourceEvents' = InsertSourceEvent(sourceEvents, e)
          \/ \E r \in Replicas : /\ ingest[r].pc = "mark"
                                  /\ sourceEvents' = SetSourceEventStatus(sourceEvents, ingest[r].ev,
                                                                          "received", "validated")
      BY DEF HandleWebhook, HandleDLQRetry, HandleDLQDiscard, PendingSourceEvents, MarkValidated,
             EnqueueReplay, vars, tables
    <3>2. DOMAIN sourceEvents = Events
      BY <1>t DEF TypeOK, TablesOK
    <3>3. /\ \A e \in Events : sourceEvents[e] \notin {"none", "received"} => Published(e)
          /\ \A r \in Replicas : ingest[r].pc = "mark" => Published(ingest[r].ev)
      BY DEF LossInv, WasPublished
    <3>4. QED
      BY <3>1, <3>2, <3>3 DEF InsertSourceEvent, SetSourceEventStatus
  <2>2. \A e \in Events : retryQueue'[e] > 0 => Published(e)
    BY <1>t DEF LossInv, WasPublished, HandleWebhook, HandleDLQRetry, HandleDLQDiscard,
        PendingSourceEvents, MarkValidated, EnqueueReplay, EnqueueRetry, vars, tables, TypeOK,
        TablesOK
  <2>3. \A e \in Events : deadLetter'[e] # "none" => Published(e)
    BY <1>t DEF LossInv, WasPublished, HandleWebhook, HandleDLQRetry, HandleDLQDiscard,
        PendingSourceEvents, MarkValidated, EnqueueReplay, SetDeadLetterStatus, vars, tables,
        TypeOK, TablesOK
  <2>4. \A r \in Replicas : ingest'[r].pc = "mark" => Published(ingest'[r].ev)
    <3>1. ASSUME \E r \in Replicas : PendingSourceEvents(r) \/ MarkValidated(r)
          PROVE \A q \in Replicas : ingest'[q] = ingest[q] \/ ingest'[q].pc # "mark"
      <4>1. PICK r \in Replicas : PendingSourceEvents(r) \/ MarkValidated(r)
        BY <3>1
      <4>2. \E x : ingest' = [ingest EXCEPT ![r] = x] /\ x.pc # "mark"
        <5>1. \A e : [pc |-> "publish", ev |-> e].pc # "mark"
          OBVIOUS
        <5>2. IdleIngest.pc # "mark"
          BY DEF IdleIngest
        <5> QED BY <4>1, <5>1, <5>2 DEF PendingSourceEvents, MarkValidated
      <4>3. DOMAIN ingest = Replicas
        BY <1>t DEF TypeOK, IngestOK
      <4> QED BY <4>1, <4>2, <4>3
    <3>2. ASSUME ~\E r \in Replicas : PendingSourceEvents(r) \/ MarkValidated(r) PROVE ingest' = ingest
      BY <3>2 DEF HandleWebhook, HandleDLQRetry, HandleDLQDiscard, EnqueueReplay, vars
    <3>3. \A r \in Replicas : ingest'[r] = ingest[r] \/ ingest'[r].pc # "mark"
      BY <3>1, <3>2
    <3> QED
      BY <3>3 DEF LossInv, WasPublished
  <2>5. \A u \in Threads : th'[u].pc # "idle" => Published(th'[u].ev)
    BY <1>u DEF LossInv, WasPublished
  <2>6. replay' # NoEvent => Published(replay')
    BY DEF LossInv, WasPublished, HandleWebhook, HandleDLQRetry, HandleDLQDiscard,
        PendingSourceEvents, MarkValidated, EnqueueReplay, vars
  <2>7. QED
    BY <1>2, <2>1, <2>2, <2>3, <2>4, <2>5, <2>6 DEF WasPublished
<1>4. QED
  BY <1>2, <1>3 DEF LossInv

\* Publishing appends a record no position has reached; a failed publish leaves
\* the log alone.
LEMMA PublishLoss ==
    ASSUME LossInv, ClaimInv', NEW r \in Replicas, PublishPending(r)
    PROVE  LossInv'
<1>t. TypeOK /\ TypeOK' /\ topic \in Seq(Events)
  BY DEF LossInv, ClaimInv, TypeOK, BusTypeOK
<1>g. dbErrors' + disruptions' >= dbErrors + disruptions
  BY <1>t, ErrorsGrow DEF PublishPending
<1>1. Calm
  BY <1>g DEF PublishPending, tables, world, Calm
<1>2. PlaceOK' /\ ClaimExplained'
  BY <1>t, <1>1, CalmSafe
<1>3. CASE UNCHANGED busVars /\ ingest' = [ingest EXCEPT ![r] = IdleIngest]
  <2>1. OffsetsOK' /\ PassedSafe' /\ \A e : Published(e)' <=> Published(e)
    BY <1>t, <1>1, <1>3, CalmLog
  <2>2. \A s \in Replicas : ingest'[s].pc = "mark" => Published(ingest'[s].ev)
    BY <1>t, <1>3 DEF LossInv, WasPublished, IdleIngest, TypeOK, IngestOK
  <2>3. WasPublished'
    BY <2>1, <2>2 DEF LossInv, WasPublished, PublishPending, tables
  <2>4. QED
    BY <1>2, <2>1, <2>3 DEF LossInv
<1>4. CASE Publish(ingest[r].ev) /\ ingest' = [ingest EXCEPT ![r].pc = "mark"]
  <2> DEFINE f == ingest[r].ev
  <2>0. f \in Events
    BY <1>t DEF PublishPending, TypeOK, IngestOK
  <2>1. /\ topic' = Append(topic, f) /\ Len(topic') = Len(topic) + 1
        /\ \A o \in DOMAIN topic : o \in DOMAIN topic' /\ topic'[o] = topic[o]
        /\ \A o \in DOMAIN topic' : o \in DOMAIN topic \/ o = Len(topic) + 1
        /\ Len(topic) + 1 \in DOMAIN topic' /\ topic'[Len(topic) + 1] = f
        /\ Len(topic) \in Nat
        /\ UNCHANGED <<owner, position, marked, committed, th, nacked>>
    BY SMTT(30), <1>t, <1>4, <2>0 DEF Publish, PublishPending
  <2>n. /\ position \in Nat /\ marked \in Nat /\ committed \in Nat
        /\ position <= Len(topic) /\ marked <= Len(topic) /\ committed <= Len(topic)
    BY <1>t DEF TypeOK, BusTypeOK, LossInv, OffsetsOK
  <2>2. \A e \in Events : Published(e) => Published(e)'
    BY <2>1 DEF Published
  <2>4. OffsetsOK'
    <3>1. position' <= Len(topic') /\ marked' <= Len(topic') /\ committed' <= Len(topic')
      BY SMTT(30), <2>1, <2>n
    <3>2. QED
      BY <2>1, <3>1 DEF LossInv, OffsetsOK
  <2>5. \A o \in DOMAIN topic : topic[o] \in Events
    BY SMTT(30), <1>t
  <2>6. ASSUME NEW o \in DOMAIN topic, NEW e, e = topic[o], Safe(e) PROVE Safe(e)'
    BY <1>t, <1>1, <2>5, <2>6, CalmSafe
  <2>7. PassedSafe'
    <3>1. ASSUME NEW o \in DOMAIN topic', o <= marked' \/ o <= committed', NEW e, e = topic'[o]
          PROVE  Safe(e)'
      <4>1. o \in DOMAIN topic /\ topic[o] = e
        BY SMTT(30), <2>1, <2>n, <3>1
      <4>2. QED
        BY <2>1, <2>6, <3>1, <4>1 DEF LossInv, PassedSafe
    <3>2. ASSUME NEW w \in Threads, NEW o \in DOMAIN topic', NEW e, e = topic'[o],
                 th'[w].pc # "idle", w.role = "bus", o < th'[w].off
          PROVE  Safe(e)'
      <4>1. th[w].off \in DOMAIN topic
        BY <2>1, <3>2 DEF LossInv, OffsetsOK
      <4>2. o \in DOMAIN topic /\ topic[o] = e
        BY SMTT(30), <1>t, <2>1, <3>2, <4>1
      <4>3. QED
        BY <2>1, <2>6, <3>2, <4>2 DEF LossInv, PassedSafe
    <3>3. ASSUME NEW o \in DOMAIN topic', NEW e, e = topic'[o], o <= position', ~Safe(e)'
          PROVE  \E w \in Threads : /\ w.replica = owner' /\ w.role = "bus"
                                    /\ th'[w].pc # "idle" /\ th'[w].off = o
      <4>1. o \in DOMAIN topic /\ topic[o] = e
        BY SMTT(30), <2>1, <2>n, <3>3
      <4>2. QED
        BY <2>1, <2>6, <3>3, <4>1 DEF LossInv, PassedSafe
    <3>4. QED
      BY <3>1, <3>2, <3>3 DEF PassedSafe
  <2>8. WasPublished'
    <3>1. /\ \A e \in Events : sourceEvents'[e] \notin {"none", "received"} => Published(e)'
          /\ \A e \in Events : retryQueue'[e] > 0 \/ deadLetter'[e] # "none" => Published(e)'
      BY <2>2 DEF LossInv, WasPublished, PublishPending, tables
    <3>2. ASSUME NEW s \in Replicas, ingest'[s].pc = "mark", NEW g, g = ingest'[s].ev
          PROVE  Published(g)'
      <4>1. CASE s = r
        <5>1. g = f
          BY <1>t, <1>4, <3>2, <4>1 DEF TypeOK, IngestOK
        <5>2. QED
          BY <2>1, <5>1 DEF Published
      <4>2. CASE s # r
        <5>1. g = ingest[s].ev /\ ingest[s].pc = "mark" /\ g \in Events
          BY <1>t, <1>4, <3>2, <4>2 DEF TypeOK, IngestOK
        <5>2. QED
          BY <2>2, <5>1 DEF LossInv, WasPublished
      <4>3. QED
        BY <4>1, <4>2
    <3>3. ASSUME NEW u \in Threads, th'[u].pc # "idle", NEW g, g = th'[u].ev
          PROVE  Published(g)'
      <4>1. g = th[u].ev /\ th[u].pc # "idle" /\ g \in Events
        BY <1>t, <2>1, <3>3 DEF TypeOK, ThreadsOK
      <4>2. QED
        BY <2>2, <4>1 DEF LossInv, WasPublished
    <3>4. ASSUME NEW g, g = replay', g # NoEvent PROVE Published(g)'
      <4>1. g = replay /\ g \in Events
        BY <1>t, <3>4 DEF PublishPending, TypeOK
      <4>2. QED
        BY <2>2, <3>4, <4>1 DEF LossInv, WasPublished
    <3>5. QED
      BY <3>1, <3>2, <3>3, <3>4 DEF WasPublished, Published
  <2>9. QED
    BY <1>2, <2>4, <2>7, <2>8 DEF LossInv
<1>5. QED
  BY <1>3, <1>4 DEF PublishPending

\* A commit moves the committed offset over records that are safe already; an
\* assignment moves the new owner back to it.
LEMMA PositionLoss ==
    ASSUME LossInv, ClaimInv', NEW r \in Replicas, CommitOffsets(r) \/ Rebalance(r)
    PROVE  LossInv'
<1>t. TypeOK /\ TypeOK' /\ topic \in Seq(Events)
  BY DEF LossInv, ClaimInv, TypeOK, BusTypeOK
<1>n. dbErrors \in Nat /\ disruptions \in Nat /\ position \in Nat /\ marked \in Nat
      /\ committed \in Nat
  BY <1>t DEF TypeOK, BusTypeOK
<1>g. dbErrors' + disruptions' >= dbErrors + disruptions
  <2>1. dbErrors' = dbErrors /\ (disruptions' = disruptions \/ disruptions' = disruptions + 1)
    BY DEF CommitOffsets, Rebalance, CallOk, Disrupt
  <2>2. QED
    BY SMTT(30), <1>n, <2>1
<1>u. UNCHANGED <<tables, world, ingest, th, replay, nacked, topic>>
  BY DEF CommitOffsets, Rebalance, CommitUncommittedOffsets, AssignPartition
<1>1. Calm
  BY <1>g, <1>u DEF tables, world, Calm
<1>2. PlaceOK' /\ ClaimExplained'
  BY <1>t, <1>1, CalmSafe
<1>3. \A o \in DOMAIN topic : Safe(topic[o]) => Safe(topic[o])'
  <2>1. \A o \in DOMAIN topic : topic[o] \in Events
    BY SMTT(30), <1>t
  <2>2. QED
    BY <1>t, <1>1, <1>u, <2>1, CalmSafe
<1>4. /\ committed' \in {committed, marked} /\ marked' \in {committed, marked}
      /\ \/ position' = committed
         \/ position' = position /\ owner' = owner
  BY DEF CommitOffsets, Rebalance, CommitUncommittedOffsets, AssignPartition
<1>5. OffsetsOK'
  BY <1>u, <1>4 DEF LossInv, OffsetsOK
<1>6. WasPublished'
  BY <1>u DEF LossInv, WasPublished, Published, tables
<1>7. PassedSafe'
  <2>1. \A o \in DOMAIN topic : o <= marked' \/ o <= committed' => Safe(topic[o])'
    BY <1>3, <1>4 DEF LossInv, PassedSafe
  <2>2. \A w \in Threads, o \in DOMAIN topic :
            th[w].pc # "idle" /\ w.role = "bus" /\ o < th[w].off => Safe(topic[o])'
    <3>1. \A w \in Threads, o \in DOMAIN topic :
              th[w].pc # "idle" /\ w.role = "bus" /\ o < th[w].off => Safe(topic[o])
      BY DEF LossInv, PassedSafe
    <3>2. QED
      BY <1>3, <3>1
  <2>3. \A o \in DOMAIN topic : o <= position' =>
              \/ Safe(topic[o])'
              \/ \E w \in Threads : /\ w.replica = owner' /\ w.role = "bus"
                                    /\ th[w].pc # "idle" /\ th[w].off = o
    BY <1>3, <1>4 DEF LossInv, PassedSafe
  <2>4. QED
    BY <1>u, <2>1, <2>2, <2>3 DEF PassedSafe
<1>8. QED
  BY <1>2, <1>5, <1>6, <1>7 DEF LossInv

\* A thread that takes an event up changes nothing about the safety of any event.
LEMMA TakeSafe ==
    ASSUME LossInv, TypeOK', UNCHANGED <<tables, world, nacked, dbErrors, disruptions>>,
           NEW w \in Threads, th[w].pc = "idle", th'[w].pc = "claim",
           \A u \in Threads : u # w => th'[u] = th[u]
    PROVE  /\ \A e \in Events : (Safe(e) => Safe(e)') /\ (Kept(e) => Kept(e)')
           /\ ClaimExplained'
           /\ (w.role = "retry" => \A g : g = th'[w].ev => retryQueue[g] > 0) => PlaceOK'
<1>1. ASSUME NEW e
      PROVE  /\ Busy(e, Holding)' <=> Busy(e, Holding)
             /\ Busy(e, Attempt)' <=> Busy(e, Attempt)
  BY DEF Busy, Holding, Attempt
<1>2. ASSUME NEW e \in Events
      PROVE  (Safe(e) => Safe(e)') /\ (Kept(e) => Kept(e)') /\ (Done(e) => Done(e)')
  <2>1. (Kept(e) => Kept(e)') /\ (Done(e) => Done(e)') /\ (Nacked(e) => Nacked(e)')
    BY DEF Kept, Done, Nacked, tables, world
  <2>2. Orphaned(e) => Orphaned(e)'
    BY <1>1 DEF Orphaned, tables
  <2>3. QED
    BY <1>1, <2>1, <2>2 DEF Safe, tables
<1>3. ClaimExplained'
  BY <1>1 DEF LossInv, ClaimExplained, tables, world
<1>4. ASSUME w.role = "retry" => \A g : g = th'[w].ev => retryQueue[g] > 0
      PROVE  PlaceOK'
  <2>1. ASSUME NEW u \in Threads, th'[u].pc # "idle", NEW g, g = th'[u].ev
        PROVE  /\ th'[u].pc = "processed" => outcome'[g] # "pending"
               /\ th'[u].pc \in {"delete", "resolve"} => Done(g)'
               /\ th'[u].pc \in {"dlqmark", "discard"} => Kept(g)'
               /\ u.role = "retry" => retryQueue'[g] > 0 \/ Kept(g)'
               /\ u.role = "bus" => th'[u].pc \notin {"delete", "resolve", "discard"}
    <3>1. CASE u = w
      BY <1>4, <2>1, <3>1 DEF tables
    <3>2. CASE u # w
      <4>1. th'[u] = th[u] /\ g = th[u].ev /\ g \in Events
        BY <2>1, <3>2 DEF LossInv, ClaimInv, TypeOK, ThreadsOK
      <4>2. QED
        BY <1>2, <2>1, <4>1 DEF LossInv, PlaceOK, tables, world
    <3>3. QED
      BY <3>1, <3>2
  <2>2. QED
    BY <2>1 DEF PlaceOK, Done, Kept
<1>5. QED
  BY <1>2, <1>3, <1>4

\* The consumer takes its next record: all before it are safe, and it is the one
\* in hand.
LEMMA DeliverLoss ==
    ASSUME LossInv, ClaimInv', NEW r \in Replicas, DeliverRecord(r)
    PROVE  LossInv'
<1> DEFINE w == [replica |-> r, role |-> "bus"]
<1>t. TypeOK /\ TypeOK' /\ ThreadsOK /\ topic \in Seq(Events)
  BY DEF LossInv, ClaimInv, TypeOK, BusTypeOK
<1>w. w \in Threads /\ w.role = "bus" /\ w.replica = r
  BY DEF Threads
<1>1. /\ th[w].pc = "idle" /\ owner = r /\ position < Len(topic) /\ position' = position + 1
      /\ UNCHANGED <<topic, owner, marked, committed, ingest, replay, nacked, tables, world,
                     dbErrors, disruptions>>
  BY DEF DeliverRecord, FetchRecord, CallOk
<1>2. /\ th'[w].pc = "claim" /\ th'[w].ev = topic[position + 1] /\ th'[w].off = position + 1
      /\ \A u \in Threads : u # w => th'[u] = th[u]
  BY <1>t, <1>w DEF DeliverRecord, IdleThread, ThreadsOK
<1>only. \A u \in Threads : u.role = "bus" /\ u.replica = r => u = w
  BY SMTT(30) DEF Threads
<1> HIDE DEF w
<1>n. position \in Nat /\ position + 1 \in DOMAIN topic /\ topic[position + 1] \in Events
      /\ \A o \in DOMAIN topic : o \in Nat
  <2>1. position \in Nat /\ position < Len(topic)
    BY <1>t, <1>1 DEF TypeOK, BusTypeOK
  <2>2. QED
    BY SMTT(30), <1>t, <2>1
<1>3. /\ \A e \in Events : Safe(e) => Safe(e)'
      /\ ClaimExplained' /\ PlaceOK'
  BY <1>t, <1>w, <1>1, <1>2, TakeSafe
<1>4. \A o \in DOMAIN topic : Safe(topic[o]) => Safe(topic[o])'
  <2>1. \A o \in DOMAIN topic : topic[o] \in Events
    BY SMTT(30), <1>t
  <2>2. QED
    BY <1>1, <1>3, <2>1
<1>5. OffsetsOK'
  <2>0. marked <= Len(topic) /\ committed <= Len(topic)
    BY DEF LossInv, OffsetsOK
  <2>1. position' <= Len(topic') /\ marked' <= Len(topic') /\ committed' <= Len(topic')
    <3>1. position + 1 <= Len(topic)
      BY SMTT(30), <1>t, <1>n
    <3>2. QED
      BY <1>1, <2>0, <3>1
  <2>2. QED
    BY <1>1, <1>2, <1>n, <2>1 DEF LossInv, OffsetsOK
<1>6. WasPublished'
  <2>1. \A e : Published(e)' <=> Published(e)
    BY <1>1 DEF Published
  <2>2. Published(topic[position + 1])
    BY <1>n DEF Published
  <2>3. \A u \in Threads : th'[u].pc # "idle" => Published(th'[u].ev)
    BY <1>2, <2>2 DEF LossInv, WasPublished
  <2>4. UNCHANGED <<sourceEvents, retryQueue, deadLetter, ingest, replay>>
    BY <1>1 DEF tables
  <2>5. QED
    BY <2>1, <2>3, <2>4 DEF LossInv, WasPublished
<1>7. \A o \in DOMAIN topic : o <= position => Safe(topic[o])'
  BY <1>only, <1>1, <1>4 DEF LossInv, PassedSafe
<1>8. PassedSafe'
  <2>1. \A o \in DOMAIN topic : o <= marked \/ o <= committed => Safe(topic[o])'
    BY <1>4 DEF LossInv, PassedSafe
  <2>2. ASSUME NEW u \in Threads, NEW o \in DOMAIN topic, th'[u].pc # "idle", u.role = "bus",
               o < th'[u].off
        PROVE  Safe(topic[o])'
    <3>1. CASE u = w
      <4>1. o \in Nat /\ o < position + 1
        BY <1>2, <1>n, <2>2, <3>1
      <4>2. o <= position
        BY SMTT(30), <1>n, <4>1
      <4>3. QED
        BY <1>7, <4>2
    <3>2. CASE u # w
      <4>1. th'[u] = th[u]
        BY <1>2, <3>2
      <4>2. th[u].pc # "idle" /\ u.role = "bus" /\ o < th[u].off => Safe(topic[o])
        BY DEF LossInv, PassedSafe
      <4>3. QED
        BY SMTT(30), <1>4, <2>2, <4>1, <4>2
    <3>3. QED
      BY <3>1, <3>2
  <2>3. ASSUME NEW o \in DOMAIN topic, o <= position', ~Safe(topic[o])'
        PROVE  \E u \in Threads : /\ u.replica = owner' /\ u.role = "bus"
                                  /\ th'[u].pc # "idle" /\ th'[u].off = o
    <3>1. o = position + 1
      BY SMTT(30), <1>1, <1>7, <1>n, <2>3
    <3>2. QED
      BY <1>w, <1>1, <1>2, <3>1
  <2>4. QED
    BY <1>1, <2>1, <2>2, <2>3 DEF PassedSafe
<1>9. QED
  BY <1>3, <1>5, <1>6, <1>8 DEF LossInv

\* The retry loop takes a row up.
LEMMA TakeRowLoss ==
    ASSUME LossInv, ClaimInv', NEW r \in Replicas, ClaimDueRetries(r)
    PROVE  LossInv'
<1> DEFINE w == [replica |-> r, role |-> "retry"]
<1>t. TypeOK /\ TypeOK' /\ ThreadsOK /\ topic \in Seq(Events)
  BY DEF LossInv, ClaimInv, TypeOK, BusTypeOK
<1>w. w \in Threads /\ w.role = "retry"
  BY DEF Threads
<1>1. /\ th[w].pc = "idle"
      /\ UNCHANGED <<busVars, ingest, replay, nacked, tables, world, dbErrors, disruptions>>
  BY DEF ClaimDueRetries, CallOk
<1>2. PICK f \in Events :
        /\ retryQueue[f] > 0 /\ th'[w].pc = "claim" /\ th'[w].ev = f
        /\ \A u \in Threads : u # w => th'[u] = th[u]
  BY <1>t, <1>w DEF ClaimDueRetries, IdleThread, ThreadsOK
<1> HIDE DEF w
<1>3. /\ \A e \in Events : Safe(e) => Safe(e)'
      /\ ClaimExplained' /\ PlaceOK'
  BY <1>t, <1>w, <1>1, <1>2, TakeSafe
<1>4. \A o \in DOMAIN topic : Safe(topic[o]) => Safe(topic[o])'
  <2>1. \A o \in DOMAIN topic : topic[o] \in Events
    BY SMTT(30), <1>t
  <2>2. QED
    BY <1>1, <1>3, <2>1 DEF busVars
<1>b. \A u \in Threads : u.role = "bus" => th'[u] = th[u]
  BY <1>w, <1>2
<1>5. OffsetsOK'
  BY <1>1, <1>b DEF LossInv, OffsetsOK, busVars
<1>6. WasPublished'
  <2>1. \A e : Published(e)' <=> Published(e)
    BY <1>1 DEF Published, busVars
  <2>2. Published(f)
    BY <1>2 DEF LossInv, WasPublished
  <2>3. \A u \in Threads : th'[u].pc # "idle" => Published(th'[u].ev)
    BY <1>2, <2>2 DEF LossInv, WasPublished
  <2>4. UNCHANGED <<sourceEvents, retryQueue, deadLetter, ingest, replay>>
    BY <1>1 DEF tables
  <2>5. QED
    BY <2>1, <2>3, <2>4 DEF LossInv, WasPublished
<1>7. PassedSafe'
  <2>1. UNCHANGED <<topic, owner, position, marked, committed>>
    BY <1>1 DEF busVars
  <2>2. \A u \in Threads, o \in DOMAIN topic :
            th'[u].pc # "idle" /\ u.role = "bus" /\ o < th'[u].off => Safe(topic[o])'
    <3>1. \A u \in Threads, o \in DOMAIN topic :
              th[u].pc # "idle" /\ u.role = "bus" /\ o < th[u].off => Safe(topic[o])
      BY DEF LossInv, PassedSafe
    <3>2. QED
      BY <1>b, <1>4, <3>1
  <2>3. ASSUME NEW o \in DOMAIN topic, o <= position, ~Safe(topic[o])'
        PROVE  \E u \in Threads : /\ u.replica = owner /\ u.role = "bus"
                                  /\ th'[u].pc # "idle" /\ th'[u].off = o
    <3>1. PICK u \in Threads : u.replica = owner /\ u.role = "bus" /\ th[u].pc # "idle"
                               /\ th[u].off = o
      BY <1>4, <2>3 DEF LossInv, PassedSafe
    <3>2. QED
      BY <1>b, <3>1
  <2>4. QED
    BY <1>4, <2>1, <2>2, <2>3 DEF LossInv, PassedSafe
<1>8. QED
  BY <1>3, <1>5, <1>6, <1>7 DEF LossInv

\* A crash: what the consumer had in hand is noted, what the retry loop had in hand
\* is still in its row, and the next owner resumes at the committed offset.
LEMMA CrashLoss ==
    ASSUME LossInv, ClaimInv', NEW r \in Replicas, CrashReplica(r)
    PROVE  LossInv'
<1> DEFINE b == [replica |-> r, role |-> "bus"]
<1>t. TypeOK /\ TypeOK' /\ topic \in Seq(Events)
  BY DEF LossInv, ClaimInv, TypeOK, BusTypeOK
<1>e. \A u \in Threads : th[u].pc # "idle" => th[u].ev \in Events
  BY <1>t DEF TypeOK, ThreadsOK
<1>n. dbErrors' + disruptions' > 0
  <2>1. dbErrors \in Nat /\ disruptions \in Nat
    BY <1>t DEF TypeOK
  <2>2. dbErrors' = dbErrors /\ disruptions' = disruptions + 1
    BY DEF CrashReplica, Disrupt
  <2>3. QED
    BY SMTT(30), <2>1, <2>2
<1>b. b \in Threads /\ b.role = "bus" /\ \A u \in Threads : u.replica = r => u = b \/ u.role = "retry"
  BY SMTT(30) DEF Threads
<1>1. /\ \A u \in Threads : IF u.replica = r THEN th'[u].pc = "idle" ELSE th'[u] = th[u]
      /\ nacked' = IF th[b].pc = "idle" THEN nacked ELSE nacked \cup {<<th[b].off, th[b].ev>>}
      /\ ingest' = [ingest EXCEPT ![r] = IdleIngest]
      /\ UNCHANGED <<tables, world, replay, topic, committed>>
  BY DEF CrashReplica, IdleThread, AssignPartition, busVars
<1>2. \/ position' = committed /\ marked' = committed
      \/ owner # r /\ UNCHANGED <<owner, position, marked>>
  BY DEF CrashReplica, AssignPartition, busVars
<1>w. b.replica = r
  OBVIOUS
<1> HIDE DEF b
<1>3. ASSUME NEW e \in Events
      PROVE  (Kept(e) => Kept(e)') /\ (Done(e) => Done(e)') /\ (Safe(e) => Safe(e)')
  <2>1. (Kept(e) => Kept(e)') /\ (Done(e) => Done(e)') /\ (Nacked(e) => Nacked(e)')
    BY <1>1 DEF Kept, Done, Nacked, tables, world
  <2>2. Busy(e, Holding)' => Busy(e, Holding)
    BY <1>1 DEF Busy, Holding
  <2>3. Orphaned(e) => Orphaned(e)'
    BY <1>1, <1>n, <2>2 DEF Orphaned, tables
  <2>4. ASSUME Busy(e, Attempt) PROVE Safe(e)'
    <3>1. PICK u \in Threads : th[u].ev = e /\ th[u].pc \in Attempt
      BY <2>4 DEF Busy
    <3>2. th[u].pc # "idle"
      BY <3>1 DEF Attempt
    <3>3. CASE u.replica # r
      <4>1. Busy(e, Attempt)'
        BY <1>1, <3>1, <3>3 DEF Busy, Attempt
      <4>2. QED
        BY <4>1 DEF Safe
    <3>4. CASE u = b
      <4>1. <<th[b].off, e>> \in nacked' /\ <<th[b].off, e>>[2] = e
        BY <1>1, <3>1, <3>2, <3>4
      <4>2. QED
        BY <4>1 DEF Safe, Nacked
    <3>5. CASE u.role = "retry"
      <4>1. retryQueue[e] > 0 \/ Kept(e)
        BY <3>1, <3>2, <3>5 DEF LossInv, PlaceOK
      <4>2. QED
        BY <1>1, <2>1, <4>1 DEF Safe, tables
    <3>6. QED
      BY <1>b, <3>3, <3>4, <3>5
  <2>5. QED
    BY <1>1, <2>1, <2>3, <2>4 DEF Safe, tables
<1>4. ClaimExplained'
  BY <1>n DEF ClaimExplained
<1>5. PlaceOK'
  <2>1. ASSUME NEW u \in Threads, th'[u].pc # "idle", NEW g, g = th'[u].ev
        PROVE  /\ th'[u].pc = "processed" => outcome'[g] # "pending"
               /\ th'[u].pc \in {"delete", "resolve"} => Done(g)'
               /\ th'[u].pc \in {"dlqmark", "discard"} => Kept(g)'
               /\ u.role = "retry" => retryQueue'[g] > 0 \/ Kept(g)'
               /\ u.role = "bus" => th'[u].pc \notin {"delete", "resolve", "discard"}
    <3>1. th'[u] = th[u] /\ g = th[u].ev /\ g \in Events
      BY <1>1, <1>e, <2>1
    <3>2. QED
      BY <1>1, <1>3, <2>1, <3>1 DEF LossInv, PlaceOK, tables, world
  <2>2. QED
    BY <2>1 DEF PlaceOK, Done, Kept
<1>6. OffsetsOK'
  <2>1. \A n \in nacked' : n[1] # 0 => n[1] \in DOMAIN topic /\ topic[n[1]] = n[2]
    <3>1. th[b].pc # "idle" => th[b].off \in DOMAIN topic /\ topic[th[b].off] = th[b].ev
      BY <1>b DEF LossInv, OffsetsOK
    <3>2. \A n \in nacked : n[1] # 0 => n[1] \in DOMAIN topic /\ topic[n[1]] = n[2]
      BY DEF LossInv, OffsetsOK
    <3>3. nacked' = nacked \/ (th[b].pc # "idle" /\ nacked' = nacked \cup {<<th[b].off, th[b].ev>>})
      BY <1>1
    <3>4. QED
      BY SMTT(30), <3>1, <3>2, <3>3
  <2>2. position' <= Len(topic') /\ marked' <= Len(topic') /\ committed' <= Len(topic')
    BY <1>1, <1>2 DEF LossInv, OffsetsOK
  <2>3. \A u \in Threads : th'[u].pc # "idle" /\ u.role = "bus" =>
            th'[u].off \in DOMAIN topic /\ topic[th'[u].off] = th'[u].ev
    BY <1>1 DEF LossInv, OffsetsOK
  <2>4. QED
    BY <1>1, <2>1, <2>2, <2>3 DEF OffsetsOK
<1>7. WasPublished'
  <2>1. \A s \in Replicas : ingest'[s].pc = "mark" => Published(ingest'[s].ev)
    BY <1>t, <1>1 DEF LossInv, WasPublished, IdleIngest, TypeOK, IngestOK
  <2>2. \A u \in Threads : th'[u].pc # "idle" => Published(th'[u].ev)
    BY <1>1 DEF LossInv, WasPublished
  <2>3. QED
    BY <1>1, <2>1, <2>2 DEF LossInv, WasPublished, Published, tables
<1>8. PassedSafe'
  <2>1. \A o \in DOMAIN topic : Safe(topic[o]) => Safe(topic[o])'
    <3>1. \A o \in DOMAIN topic : topic[o] \in Events
      BY SMTT(30), <1>t
    <3>2. QED
      BY <1>1, <1>3, <3>1
  <2>2. \A o \in DOMAIN topic : o <= marked' \/ o <= committed' => Safe(topic[o])'
    BY <1>1, <1>2, <2>1 DEF LossInv, PassedSafe
  <2>3. ASSUME NEW u \in Threads, NEW o \in DOMAIN topic, th'[u].pc # "idle", u.role = "bus",
               o < th'[u].off
        PROVE  Safe(topic[o])'
    <3>1. th[u].pc # "idle" /\ th'[u].off = th[u].off
      BY <1>1, <2>3
    <3>2. th[u].pc # "idle" /\ u.role = "bus" /\ o < th[u].off => Safe(topic[o])
      BY DEF LossInv, PassedSafe
    <3>3. QED
      BY <2>1, <2>3, <3>1, <3>2
  <2>4. ASSUME NEW o \in DOMAIN topic, o <= position', ~Safe(topic[o])'
        PROVE  \E u \in Threads : /\ u.replica = owner' /\ u.role = "bus"
                                  /\ th'[u].pc # "idle" /\ th'[u].off = o
    <3>1. CASE position' = committed
      BY <2>1, <2>4, <3>1 DEF LossInv, PassedSafe
    <3>2. CASE owner # r /\ UNCHANGED <<owner, position>>
      <4>1. PICK u \in Threads : u.replica = owner /\ u.role = "bus" /\ th[u].pc # "idle"
                                 /\ th[u].off = o
        BY <2>1, <2>4, <3>2 DEF LossInv, PassedSafe
      <4>2. th'[u] = th[u]
        BY <1>1, <3>2, <4>1
      <4>3. QED
        BY <3>2, <4>1, <4>2
    <3>3. QED
      BY <1>2, <3>1, <3>2
  <2>5. QED
    BY <1>1, <2>2, <2>3, <2>4 DEF PassedSafe
<1>9. QED
  BY <1>4, <1>5, <1>6, <1>7, <1>8 DEF LossInv

-----------------------------------------------------------------------------
\* Every step keeps the invariant.
LEMMA LossStep == LossInv /\ [Next]_vars => LossInv'
<1> SUFFICES ASSUME LossInv, [Next]_vars PROVE LossInv'
  OBVIOUS
<1>c. ClaimInv'
  BY ClaimStep DEF LossInv
<1>1. ASSUME NEW w \in Threads, ThreadStep(w) PROVE LossInv'
  BY <1>1, <1>c, ClaimLoss, ApplyLoss, WriteLoss, MarkProcessedLoss, FailLoss, ScheduleLoss,
     DeadLoss, MarkDlqLoss, DeleteLoss DEF ThreadStep
<1>2. ASSUME NEW r \in Replicas, IngestStep(r) PROVE LossInv'
  BY <1>2, <1>c, QuietLoss, PublishLoss DEF IngestStep
<1>3. ASSUME NEW r \in Replicas,
             \/ DeliverRecord(r) \/ CommitOffsets(r) \/ ClaimDueRetries(r)
             \/ CrashReplica(r) \/ Rebalance(r)
      PROVE  LossInv'
  BY <1>3, <1>c, DeliverLoss, PositionLoss, TakeRowLoss, CrashLoss
<1>4. ASSUME \/ \E e \in Events : HandleWebhook(e) \/ HandleDLQRetry(e) \/ HandleDLQDiscard(e)
             \/ EnqueueReplay \/ UNCHANGED vars
      PROVE  LossInv'
  BY <1>4, <1>c, QuietLoss
<1>5. QED
  BY <1>1, <1>2, <1>3, <1>4 DEF Next

\* The initial state satisfies it: nothing is published and nothing is in hand.
LEMMA LossInit == Init => LossInv
<1> SUFFICES ASSUME Init PROVE LossInv
  OBVIOUS
<1>1. ClaimInv
  BY ClaimInit
<1>2. /\ topic = <<>> /\ Len(topic) = 0 /\ DOMAIN topic = {} /\ nacked = {} /\ processed = {}
      /\ position = 0 /\ marked = 0 /\ committed = 0 /\ replay = NoEvent
      /\ \A w \in Threads : th[w].pc = "idle"
      /\ \A r \in Replicas : ingest[r].pc = "idle"
      /\ \A e \in Events : sourceEvents[e] = "none" /\ retryQueue[e] = 0 /\ deadLetter[e] = "none"
  BY SMTT(30) DEF Init, BusInit, IdleThread, IdleIngest
<1>3. OffsetsOK /\ WasPublished /\ PassedSafe /\ PlaceOK /\ ClaimExplained
  <2>1. OffsetsOK
    <3>1. 0 <= 0
      BY SMTT(30)
    <3>2. QED
      BY <1>2, <3>1 DEF OffsetsOK
  <2>2. WasPublished
    <3>1. ~(0 > 0)
      BY SMTT(30)
    <3>2. QED
      BY <1>2, <3>1 DEF WasPublished
  <2>3. PassedSafe /\ PlaceOK /\ ClaimExplained
    BY <1>2 DEF PassedSafe, PlaceOK, ClaimExplained
  <2>4. QED
    BY <2>1, <2>2, <2>3
<1>4. QED
  BY <1>1, <1>3 DEF LossInv

\* An accepted event is lost in the listed ways only (LossExplained), for any
\* number of events, replicas, faults, store errors, crashes and replays.
THEOREM LossesExplained == Spec => []LossExplained
<1>1. Spec => []LossInv
  BY LossInit, LossStep, PTL DEF Spec
<1>2. QED
  BY <1>1, LossInvImplies, PTL

-----------------------------------------------------------------------------
\* StatusTruthful

\* A thread about to mark its event dead has written the dead letter.
StatusInv ==
    /\ LossInv /\ StatusTruthful
    /\ \A w \in Threads : th[w].pc = "dlqmark" => deadLetter[th[w].ev] # "none"

\* A status is set by a thread that is at the place for it, outcomes stand and dead
\* letters stay.
StatusStep ==
    /\ \A e \in Events : outcome[e] # "pending" => outcome'[e] # "pending"
    /\ \A e \in Events : deadLetter[e] # "none" => deadLetter'[e] # "none"
    /\ \A e \in Events : sourceEvents'[e] = "processed" =>
          sourceEvents[e] = "processed" \/ Busy(e, {"processed"})
    /\ \A e \in Events : sourceEvents'[e] = "dlq" =>
          sourceEvents[e] = "dlq" \/ Busy(e, {"dlqmark"})
    /\ \A w \in Threads : th'[w].pc = "dlqmark" =>
          \/ th'[w] = th[w]
          \/ deadLetter'[th'[w].ev] # "none"

\* Such a step keeps the statuses truthful.
LEMMA StatusKept ==
    ASSUME StatusInv, LossInv', StatusStep
    PROVE  StatusInv'
<1>1. \A e \in Events : Busy(e, {"processed"}) => outcome[e] # "pending"
  BY DEF StatusInv, LossInv, PlaceOK, Busy
<1>2. \A e \in Events : Busy(e, {"dlqmark"}) => deadLetter[e] # "none"
  BY DEF StatusInv, Busy
<1>3. StatusTruthful'
  BY <1>1, <1>2 DEF StatusInv, StatusTruthful, StatusStep
<1>4. \A w \in Threads : th'[w].pc = "dlqmark" => deadLetter'[th'[w].ev] # "none"
  <2>1. \A w \in Threads : th[w].pc = "dlqmark" => th[w].ev \in Events
    BY DEF StatusInv, LossInv, ClaimInv, TypeOK, ThreadsOK
  <2>2. QED
    BY <2>1 DEF StatusInv, StatusStep
<1>5. QED
  BY <1>3, <1>4 DEF StatusInv

\* Every step is one.
LEMMA StatusNext ==
    ASSUME StatusInv, [Next]_vars PROVE StatusStep
<1>t. TypeOK /\ ThreadsOK
  BY DEF StatusInv, LossInv, ClaimInv, TypeOK
<1>y. /\ sourceEvents \in [Events -> SourceStatus] /\ deadLetter \in [Events -> DeadLetterStatus]
      /\ outcome \in [Events -> {"pending", "applied", "dropped"}]
      /\ th \in [Threads -> ThreadState]
      /\ \A w \in Threads : th[w].pc # "idle" => th[w].ev \in Events
  BY <1>t DEF TypeOK, TablesOK, WorldOK, ThreadsOK
<1>1. ASSUME NEW w \in Threads,
             \/ ClaimProcessedEvent(w) \/ ApplyEvent(w) \/ WriteDestination(w)
             \/ PersistApplyState(w) \/ ReleaseProcessedEvent(w) \/ ScheduleRetry(w)
             \/ DeleteRow(w) \/ ResolveDeadLetter(w)
      PROVE  StatusStep
  <2>1. sourceEvents' = sourceEvents
    BY <1>1 DEF ClaimProcessedEvent, ApplyEvent, WriteDestination, PersistApplyState,
                ReleaseProcessedEvent, ScheduleRetry, DeleteRow, ResolveDeadLetter, tables
  <2>2. \A e \in Events : outcome[e] # "pending" => outcome'[e] # "pending"
    BY <1>1, <1>y DEF ClaimProcessedEvent, ApplyEvent, WriteDestination, PersistApplyState,
                ReleaseProcessedEvent, ScheduleRetry, DeleteRow, ResolveDeadLetter, world
  <2>3. \A e \in Events : deadLetter[e] # "none" => deadLetter'[e] # "none"
    BY <1>1, <1>y DEF ClaimProcessedEvent, ApplyEvent, WriteDestination, PersistApplyState,
                ReleaseProcessedEvent, ScheduleRetry, DeleteRow, ResolveDeadLetter,
                ResolveDeadLetterForEvent, tables
  <2>4. Rests(w) \/ \E l \in PCs \ {"dlqmark"} : Goes(w, l)
    <3>1. PCs = {"idle", "claim", "apply", "write", "persist", "processed", "release",
                 "failed", "handoff", "dlqmark", "delete", "resolve", "discard"}
      BY DEF PCs
    <3>2. CASE ClaimProcessedEvent(w) \/ ScheduleRetry(w)
      BY <1>t, <3>1, <3>2, GotoGoes, FailWithGoes, RestRests, ReturnNilDoes, ReturnErrorDoes
         DEF ClaimProcessedEvent, ScheduleRetry
    <3>3. CASE ApplyEvent(w) \/ WriteDestination(w) \/ PersistApplyState(w)
      BY <1>t, <3>1, <3>3, GotoGoes, FailWithGoes DEF ApplyEvent, WriteDestination,
         PersistApplyState
    <3>4. CASE ReleaseProcessedEvent(w) \/ DeleteRow(w) \/ ResolveDeadLetter(w)
      BY <1>t, <3>1, <3>4, GotoGoes, RestRests DEF ReleaseProcessedEvent, DeleteRow,
         ResolveDeadLetter
    <3>5. QED
      BY <1>1, <3>2, <3>3, <3>4
  <2>5. \A u \in Threads : th'[u].pc = "dlqmark" => th'[u] = th[u]
    BY <2>4 DEF Goes, Rests
  <2>6. QED
    BY <2>1, <2>2, <2>3, <2>5 DEF StatusStep
<1>2. ASSUME NEW w \in Threads, MarkProcessed(w) \/ MarkFailed(w) \/ MarkDlq(w)
      PROVE  StatusStep
  <2>1. outcome' = outcome /\ deadLetter' = deadLetter
    BY <1>2 DEF MarkProcessed, MarkFailed, MarkDlq, world
  <2>2. Rests(w) \/ Goes(w, "delete") \/ Goes(w, "handoff") \/ Goes(w, "discard")
    BY <1>2, <1>t, GotoGoes, ReturnNilDoes DEF MarkProcessed, MarkFailed, MarkDlq
  <2>3. \A e \in Events : sourceEvents'[e] = "processed" =>
            sourceEvents[e] = "processed" \/ Busy(e, {"processed"})
    BY <1>2, <1>y DEF MarkProcessed, MarkFailed, MarkDlq, SetSourceEventStatus,
                      SetSourceEventStatusTo, Busy
  <2>4. \A e \in Events : sourceEvents'[e] = "dlq" =>
            sourceEvents[e] = "dlq" \/ Busy(e, {"dlqmark"})
    BY <1>2, <1>y DEF MarkProcessed, MarkFailed, MarkDlq, SetSourceEventStatus,
                      SetSourceEventStatusTo, Busy
  <2>5. \A u \in Threads : th'[u].pc = "dlqmark" => th'[u] = th[u]
    BY <2>2 DEF Goes, Rests
  <2>6. QED
    BY <2>1, <2>3, <2>4, <2>5 DEF StatusStep
<1>3. ASSUME NEW w \in Threads, InsertDead(w) PROVE StatusStep
  <2>1. sourceEvents' = sourceEvents /\ outcome' = outcome
    BY <1>3 DEF InsertDead, world
  <2>2. \A e \in Events : deadLetter[e] # "none" => deadLetter'[e] # "none"
    BY <1>3, <1>y DEF InsertDead, InsertDeadLetter
  <2>3. CASE Rests(w) \/ Goes(w, "discard")
    BY <2>1, <2>2, <2>3 DEF StatusStep, Goes, Rests
  <2>4. CASE Goes(w, "dlqmark") /\ deadLetter' = InsertDeadLetter(deadLetter, th[w].ev)
    <3>1. th[w].ev \in Events
      BY <1>3, <1>y DEF InsertDead
    <3>2. deadLetter'[th'[w].ev] # "none"
      BY <1>y, <2>4, <3>1 DEF InsertDeadLetter, Goes
    <3>3. QED
      BY <2>1, <2>2, <2>4, <3>2 DEF StatusStep, Goes
  <2>5. QED
    BY <1>3, <1>t, <2>3, <2>4, GotoGoes, ReturnErrorDoes DEF InsertDead
<1>4. ASSUME \/ \E e \in Events : HandleWebhook(e) \/ HandleDLQRetry(e) \/ HandleDLQDiscard(e)
             \/ \E r \in Replicas : IngestStep(r) \/ CommitOffsets(r) \/ Rebalance(r)
             \/ EnqueueReplay \/ UNCHANGED vars
      PROVE  StatusStep
  <2>1. outcome' = outcome /\ th' = th
    BY <1>4 DEF HandleWebhook, HandleDLQRetry, HandleDLQDiscard, IngestStep, PendingSourceEvents,
        PublishPending, MarkValidated, CommitOffsets, Rebalance, EnqueueReplay, vars, world
  <2>2. \A e \in Events : deadLetter[e] # "none" => deadLetter'[e] # "none"
    BY <1>4, <1>y DEF HandleWebhook, HandleDLQRetry, HandleDLQDiscard, IngestStep,
        PendingSourceEvents, PublishPending, MarkValidated, CommitOffsets, Rebalance,
        EnqueueReplay, SetDeadLetterStatus, vars, tables
  <2>3. \A e \in Events : sourceEvents'[e] \in {"processed", "dlq"} =>
                              sourceEvents'[e] = sourceEvents[e]
    BY <1>4, <1>y DEF HandleWebhook, HandleDLQRetry, HandleDLQDiscard, IngestStep,
        PendingSourceEvents, PublishPending, MarkValidated, CommitOffsets, Rebalance,
        EnqueueReplay, InsertSourceEvent, SetSourceEventStatus, vars, tables
  <2>4. QED
    BY <2>1, <2>2, <2>3 DEF StatusStep
<1>5. ASSUME NEW r \in Replicas, DeliverRecord(r) \/ ClaimDueRetries(r) \/ CrashReplica(r)
      PROVE  StatusStep
  <2>1. UNCHANGED <<tables, world>>
    BY <1>5 DEF DeliverRecord, ClaimDueRetries, CrashReplica
  <2>2. \A w \in Threads : th'[w].pc = "dlqmark" => th'[w] = th[w]
    <3>1. CASE DeliverRecord(r)
      BY <1>y, <3>1 DEF DeliverRecord, IdleThread
    <3>2. CASE ClaimDueRetries(r)
      BY <1>y, <3>2 DEF ClaimDueRetries, IdleThread
    <3>3. CASE CrashReplica(r)
      BY <3>3 DEF CrashReplica, IdleThread
    <3>4. QED
      BY <1>5, <3>1, <3>2, <3>3
  <2>3. QED
    BY <2>1, <2>2 DEF StatusStep, tables, world
<1>6. QED
  BY <1>1, <1>2, <1>3, <1>4, <1>5 DEF Next, ThreadStep

\* What operators are shown of an event is true (StatusTruthful), whichever of the
\* calls that report it failed and whichever replica made them.
THEOREM StatusesTruthful == Spec => []StatusTruthful
<1>1. Init => StatusInv
  BY SMTT(30), LossInit DEF Init, StatusInv, StatusTruthful, IdleThread
<1>2. StatusInv /\ [Next]_vars => StatusInv'
  BY LossStep, StatusNext, StatusKept DEF StatusInv
<1>3. QED
  BY <1>1, <1>2, PTL DEF Spec, StatusInv

=============================================================================
