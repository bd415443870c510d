----------------------- MODULE FindingLifecycleProofs ------------------------
(***************************************************************************)
(* Proofs about FindingLifecycle, for any number of operators, engines,    *)
(* sweeps, failing calls and crashes: the provider is mutated at most once *)
(* more often than persisting failed, and a finding reported applied was   *)
(* repaired.                                                               *)
(***************************************************************************)
EXTENDS FindingLifecycle, TLAPS

\* Most leaves are first-order reasoning and left to Zenon; those that count, or that
\* take a record apart, name SMT.
USE ZenonT(15), SMTT(60)

\* Where a thread works under the event's claim.
Holding(t) == pc[t] \in {"load", "call", "persist", "mark", "fail", "release"}

\* The claim has at most one holder.
OneHolder == \A t \in Threads : Holding(t) => claimed /\ \A u \in Threads \ {t} : ~Holding(u)

\* A claim that may still mutate the provider finds every earlier mutation paid for.
PaidFor ==
    /\ ~claimed => repairs <= storeFaults
    /\ \A t \in Threads : pc[t] \in {"load", "call", "fail", "release"} => repairs <= storeFaults

FindingInv ==
    /\ pc \in [Threads -> PCs] /\ repairs \in Nat /\ storeFaults \in Nat
    /\ OneHolder /\ PaidFor /\ RepairsBounded /\ AppliedMeansRepaired
    /\ \A t \in Threads : pc[t] \in {"persist", "mark"} => repairs > 0

-----------------------------------------------------------------------------
\* The invariant holds before the sweep records its finding.
LEMMA InitInv == Init => FindingInv
BY SMTT(30) DEF Init, FindingInv, OneHolder, PaidFor, Holding, RepairsBounded, AppliedMeansRepaired, PCs

\* A step that leaves claim and counters alone, and moves thread t only to where
\* it needs no more than where it was.
LEMMA QuietStep ==
    ASSUME FindingInv, NEW t \in Threads, NEW p \in PCs, pc' = [pc EXCEPT ![t] = p],
           claimed' = claimed, repairs' = repairs, storeFaults' = storeFaults,
           status' = "applied" => repairs > 0,
           p \in {"load", "call", "persist", "mark", "fail", "release"} => Holding(t),
           p \in {"load", "call", "fail", "release"} => pc[t] \in {"load", "call", "fail", "release"},
           p \in {"persist", "mark"} => pc[t] \in {"persist", "mark"}
    PROVE  FindingInv'
<1>1. pc'[t] = p /\ \A u \in Threads \ {t} : pc'[u] = pc[u]
  BY DEF FindingInv
<1>2. pc' \in [Threads -> PCs]
  BY DEF FindingInv
<1>3. OneHolder'
  BY <1>1 DEF FindingInv, OneHolder, Holding
<1>4. PaidFor'
  BY <1>1 DEF FindingInv, PaidFor
<1>5. \A u \in Threads : pc'[u] \in {"persist", "mark"} => repairs' > 0
  BY <1>1 DEF FindingInv
<1> QED
  BY <1>2, <1>3, <1>4, <1>5 DEF FindingInv, RepairsBounded, AppliedMeansRepaired

\* Every step of the sweep, an operator, an engine or a crash keeps the invariant.
LEMMA StepInv == FindingInv /\ [Next]_vars => FindingInv'
<1> SUFFICES ASSUME FindingInv, [Next]_vars PROVE FindingInv'
  OBVIOUS
<1>0. pc \in [Threads -> PCs] /\ Sweep \in Threads /\ Engines \subseteq Threads
  BY DEF FindingInv, Threads
<1>a. status = "applied" => repairs > 0
  BY DEF FindingInv, AppliedMeansRepaired
<1>1. ASSUME pc' = pc, claimed' = claimed, repairs' = repairs, storeFaults' = storeFaults,
             status' = "applied" => status = "applied"
      PROVE  FindingInv'
  BY <1>1 DEF FindingInv, OneHolder, Holding, PaidFor, RepairsBounded, AppliedMeansRepaired
<1>2. CASE InsertFinding
  <2>1. claimed' = claimed /\ repairs' = repairs /\ storeFaults' = storeFaults
    BY <1>2 DEF InsertFinding
  <2>2. status' = "applied" => status = "applied"
    BY <1>2 DEF InsertFinding
  <2>3. CASE pc' = pc
    BY <1>1, <2>1, <2>2, <2>3
  <2>4. CASE pc' = [pc EXCEPT ![Sweep] = "claim"]
    BY <1>0, <1>a, <2>1, <2>2, <2>4, QuietStep DEF PCs
  <2> QED
    BY <1>2, <2>3, <2>4 DEF InsertFinding, Goto
<1>3. ASSUME NEW o \in Operators, NEW what \in Directions \cup {"apply", "dismiss"}, GetPendingFinding(o, what)
      PROVE  FindingInv'
  BY <1>1, <1>3 DEF GetPendingFinding, tables
<1>4. ASSUME NEW o \in Operators, SetDirection(o) \/ EnqueueRepair(o) \/ HandleDismissFinding(o)
      PROVE  FindingInv'
  BY <1>1, <1>4 DEF SetDirection, EnqueueRepair, HandleDismissFinding, SetReconciliationFindingStatus, counts
<1>5. ASSUME NEW t \in Threads, ClaimProcessedEvent(t) PROVE FindingInv'
  <2>1. repairs' = repairs /\ storeFaults' = storeFaults /\ status' = status
    BY <1>5 DEF ClaimProcessedEvent, counts
  <2>2. CASE claimed
    <3>1. claimed' = TRUE /\ pc' = [pc EXCEPT ![t] = "done"]
      BY <1>5, <2>2 DEF ClaimProcessedEvent, Goto
    <3>2. FindingInv'
      <4>1. pc'[t] = "done" /\ \A u \in Threads \ {t} : pc'[u] = pc[u]
        BY <1>0, <3>1
      <4>2. pc' \in [Threads -> PCs]
        BY <1>0, <3>1 DEF PCs
      <4>3. OneHolder' /\ PaidFor'
        BY <2>1, <3>1, <4>1 DEF FindingInv, OneHolder, Holding, PaidFor
      <4> QED
        BY <2>1, <4>1, <4>2, <4>3 DEF FindingInv, RepairsBounded, AppliedMeansRepaired
    <3> QED
      BY <3>2
  <2>3. CASE ~claimed
    <3>1. claimed' = TRUE /\ pc'[t] = "load" /\ \A u \in Threads \ {t} : pc'[u] = pc[u]
      BY <1>0, <1>5, <2>3 DEF ClaimProcessedEvent, Goto
    <3>2. pc' \in [Threads -> PCs]
      BY <1>0, <1>5, <2>3 DEF ClaimProcessedEvent, Goto, PCs
    <3>3. OneHolder' /\ PaidFor'
      BY <2>1, <2>3, <3>1 DEF FindingInv, OneHolder, Holding, PaidFor
    <3> QED
      BY <2>1, <3>1, <3>2, <3>3 DEF FindingInv, RepairsBounded, AppliedMeansRepaired
  <2> QED
    BY <2>2, <2>3
<1>6. ASSUME NEW t \in Threads, GetFinding(t) PROVE FindingInv'
  <2>1. /\ pc[t] = "load" /\ claimed' = claimed /\ repairs' = repairs /\ storeFaults' = storeFaults
        /\ status' = "applied" => status = "applied"
    BY <1>6 DEF GetFinding, SetReconciliationFindingStatus, counts
  <2>2. PICK p \in {"done", "call"} : pc' = [pc EXCEPT ![t] = p]
    BY <1>6 DEF GetFinding, Goto
  <2> QED
    BY <1>a, <2>1, <2>2, QuietStep DEF PCs, Holding
<1>7. ASSUME NEW t \in Threads, CallProvider(t) PROVE FindingInv'
  <2>1. /\ pc[t] = "call" /\ repairs' = repairs + 1 /\ pc'[t] \in {"mark", "persist"}
        /\ \A u \in Threads \ {t} : pc'[u] = pc[u]
    BY <1>0, <1>7 DEF CallProvider, Goto
  <2>2. claimed' = claimed /\ storeFaults' = storeFaults /\ status' = status
    BY <1>7 DEF CallProvider, counts
  <2>3. claimed /\ repairs <= storeFaults /\ repairs \in Nat /\ \A u \in Threads \ {t} : ~Holding(u)
    BY <2>1 DEF FindingInv, OneHolder, PaidFor, Holding
  <2>4. pc' \in [Threads -> PCs]
    BY <1>0, <1>7 DEF CallProvider, Goto, PCs
  <2>5. OneHolder'
    BY <2>1, <2>2, <2>3 DEF OneHolder, Holding
  <2>6. PaidFor'
    BY <2>1, <2>2, <2>3 DEF PaidFor, Holding
  <2>7. repairs' > 0 /\ repairs' <= 1 + storeFaults /\ repairs' \in Nat
    BY SMTT(30), <2>1, <2>3 DEF FindingInv
  <2> QED
    BY <2>2, <2>4, <2>5, <2>6, <2>7 DEF FindingInv, RepairsBounded, AppliedMeansRepaired
<1>8. ASSUME NEW t \in Threads, CallFails(t) \/ ReconcileFail(t) PROVE FindingInv'
  <2>1. /\ pc[t] \in {"call", "fail"} /\ claimed' = claimed /\ repairs' = repairs /\ storeFaults' = storeFaults
        /\ status' = "applied" => status = "applied"
    BY <1>8 DEF CallFails, ReconcileFail, SetReconciliationFindingStatus, tables, counts
  <2>2. PICK p \in {"release", "fail"} : pc' = [pc EXCEPT ![t] = p]
    BY <1>8 DEF CallFails, ReconcileFail, Goto
  <2> QED
    BY <1>a, <2>1, <2>2, QuietStep DEF PCs, Holding
<1>9. ASSUME NEW t \in Threads, PersistRepair(t) PROVE FindingInv'
  <2>1. pc[t] = "persist" /\ claimed' = claimed /\ repairs' = repairs /\ status' = status
    BY <1>9 DEF PersistRepair, tables
  <2>2. CASE pc' = [pc EXCEPT ![t] = "mark"] /\ storeFaults' = storeFaults
    BY <1>a, <2>1, <2>2, QuietStep DEF PCs, Holding
  <2>3. CASE pc' = [pc EXCEPT ![t] = "release"] /\ storeFaults' = storeFaults + 1
    <3>1. pc'[t] = "release" /\ \A u \in Threads \ {t} : pc'[u] = pc[u]
      BY <1>0, <2>3
    <3>2. pc' \in [Threads -> PCs] /\ storeFaults' \in Nat /\ repairs <= storeFaults'
      BY SMTT(30), <1>0, <2>3 DEF FindingInv, RepairsBounded, PCs
    <3>3. OneHolder'
      BY <2>1, <3>1 DEF FindingInv, OneHolder, Holding
    <3>4. RepairsBounded' /\ PaidFor'
      BY SMTT(30), <2>1, <2>3, <3>2 DEF FindingInv, RepairsBounded, PaidFor
    <3> QED
      BY <1>a, <2>1, <3>1, <3>2, <3>3, <3>4 DEF FindingInv, AppliedMeansRepaired
  <2> QED
    BY <1>9, <2>2, <2>3 DEF PersistRepair, Goto
<1>10. ASSUME NEW t \in Threads, ReconcileApplied(t) PROVE FindingInv'
  <2>1. /\ pc[t] = "mark" /\ pc' = [pc EXCEPT ![t] = "done"]
        /\ claimed' = claimed /\ repairs' = repairs /\ storeFaults' = storeFaults
    BY <1>10 DEF ReconcileApplied, Goto, counts
  <2>2. repairs > 0
    BY <2>1 DEF FindingInv
  <2> QED
    BY <2>1, <2>2, QuietStep DEF PCs, Holding
<1>11. ASSUME NEW t \in Threads, ReleaseProcessedEvent(t) PROVE FindingInv'
  <2>1. /\ pc[t] = "release" /\ claimed' = FALSE /\ repairs' = repairs /\ storeFaults' = storeFaults
        /\ status' = status
    BY <1>11 DEF ReleaseProcessedEvent, counts
  <2>2. pc'[t] \in {"idle", "again"} /\ \A u \in Threads \ {t} : pc'[u] = pc[u]
    BY <1>0, <1>11 DEF ReleaseProcessedEvent, Goto
  <2>3. repairs <= storeFaults /\ \A u \in Threads \ {t} : ~Holding(u)
    BY <2>1 DEF FindingInv, PaidFor, OneHolder, Holding
  <2>4. pc' \in [Threads -> PCs]
    BY <1>0, <1>11 DEF ReleaseProcessedEvent, Goto, PCs
  <2>5. OneHolder' /\ PaidFor'
    BY <2>1, <2>2, <2>3 DEF OneHolder, PaidFor, Holding
  <2>6. \A u \in Threads : pc'[u] \notin {"persist", "mark"}
    BY <2>2, <2>3 DEF Holding
  <2> QED
    BY <2>1, <2>4, <2>5, <2>6 DEF FindingInv, RepairsBounded, AppliedMeansRepaired
<1>12. ASSUME NEW t \in Threads, FinishRepair(t) \/ RetryOrPark(t) \/ ClaimDueRetry(t) PROVE FindingInv'
  <2>1. claimed' = claimed /\ repairs' = repairs /\ storeFaults' = storeFaults /\ status' = status
    BY <1>12 DEF FinishRepair, RetryOrPark, ClaimDueRetry, tables, counts
  <2>2. PICK p \in {"idle", "claim"} : pc' = [pc EXCEPT ![t] = p]
    BY <1>12 DEF FinishRepair, RetryOrPark, ClaimDueRetry, Goto
  <2> QED
    BY <1>a, <2>1, <2>2, QuietStep DEF PCs
<1>13. ASSUME NEW t \in Threads, Crash(t) PROVE FindingInv'
  <2>1. claimed' = claimed /\ repairs' = repairs /\ storeFaults' = storeFaults /\ status' = status
    BY <1>13 DEF Crash, tables
  <2>2. PICK p \in {"idle", "done", "release"} :
          pc' = [pc EXCEPT ![t] = p] /\ (p = "release" => pc[t] = "fail")
    BY <1>13 DEF Crash, Goto
  <2> QED
    BY <1>a, <2>1, <2>2, QuietStep DEF PCs, Holding
<1>14. CASE UNCHANGED vars
  BY <1>1, <1>14 DEF vars, tables, counts
<1> QED
  BY <1>0, <1>2, <1>3, <1>4, <1>5, <1>6, <1>7, <1>8, <1>9, <1>10, <1>11, <1>12, <1>13, <1>14
     DEF Next, OperatorStep, ThreadStep

\* The invariant holds throughout.
LEMMA FindingInvariant == Spec => []FindingInv
BY InitInv, StepInv, PTL DEF Spec

\* Sweep, engines and operators together mutate the provider once for a finding,
\* and once more for each repair that could not be stored.
THEOREM RepairsPaidFor == Spec => []RepairsBounded
<1>1. FindingInv => RepairsBounded
  BY DEF FindingInv
<1> QED
  BY <1>1, FindingInvariant, PTL

\* A finding reported applied had its provider mutation.
THEOREM AppliedWasRepaired == Spec => []AppliedMeansRepaired
<1>1. FindingInv => AppliedMeansRepaired
  BY DEF FindingInv
<1> QED
  BY <1>1, FindingInvariant, PTL

=============================================================================
