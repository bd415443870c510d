------------------------------ MODULE JobsProofs -----------------------------
(***************************************************************************)
(* Proofs about SyncJobs, for any number of runners, jobs, records, page   *)
(* sizes, faults, crashes and reruns: a record is applied at most once per *)
(* job, and a crash costs at most one record.                              *)
(***************************************************************************)
EXTENDS SyncJobs, FiniteSetTheorems, TLAPS

\* Most leaves are first-order reasoning and left to Zenon; those that count, or that
\* take a record apart, name SMT.
USE ZenonT(15), SMTT(60)

\* A record some runner has passed: skipped as deleted, parked, logged or claimed.
Passed(j, k) == k \in Deleted \/ <<j, k>> \in dlq \cup refused \cup claims

\* Claims without an apply, and without a runner that is about to make it.
Orphans == {jr \in claims : applied[jr] = 0 /\ ~InFlight(jr[1], jr[2])}

\* A runner between claim and apply holds its record alone.
ClaimsHeld ==
    \A r \in Runners : runner[r].pc = "apply" =>
        /\ runner[r].next \in Records
        /\ <<runner[r].job, runner[r].next>> \in claims
        /\ applied[<<runner[r].job, runner[r].next>>] = 0
        /\ \A s \in Runners \ {r} :
              ~(runner[s].pc = "apply" /\ runner[s].job = runner[r].job /\ runner[s].next = runner[r].next)

AppliedClaimed == \A jr \in Jobs \X Records : applied[jr] \in {0, 1} /\ (applied[jr] = 1 => jr \in claims)

\* What a full sync has behind its checkpoint, and what a runner has behind it.
RowsPassed ==
    \A j \in Jobs : JobType[j] = "initial" =>
        \A k \in Records : k <= row[j].cursor \/ row[j].status = "completed" => Passed(j, k)

RunnersPassed ==
    \A r \in Runners : runner[r].pc # "idle" =>
        /\ runner[r].job \in Jobs
        /\ JobType[runner[r].job] = "initial" =>
              /\ runner[r].pc \in {"mark", "page", "apply", "finish", "abort"}
              /\ runner[r].pc \in {"mark", "page", "apply"} =>
                    \A k \in Records : k < runner[r].next => Passed(runner[r].job, k)
              /\ runner[r].pc = "finish" => \A k \in Records : Passed(runner[r].job, k)

OrphansPaidFor == IsFiniteSet(Orphans) /\ Cardinality(Orphans) <= crashes

JobsInv == TypeOK /\ ClaimsHeld /\ AppliedClaimed /\ RowsPassed /\ RunnersPassed /\ OrphansPaidFor
-----------------------------------------------------------------------------
\* The invariant holds before any job exists.
LEMMA InitInv == Init => JobsInv
<1> SUFFICES ASSUME Init PROVE JobsInv
  OBVIOUS
<1>1. TypeOK
  BY SMTT(30), JobsAssumption DEF Init, TypeOK, Idle, RowState, RunnerState, Jobs, Records
<1>2. ClaimsHeld /\ AppliedClaimed /\ RunnersPassed
  BY SMTT(30) DEF Init, ClaimsHeld, AppliedClaimed, RunnersPassed, Idle
<1>3. RowsPassed
  BY SMTT(30) DEF Init, RowsPassed, Records
<1>4. Orphans = {}
  BY DEF Init, Orphans
<1>5. OrphansPaidFor
  BY SMTT(30), <1>4, FS_EmptySet DEF OrphansPaidFor, Init
<1> QED
  BY <1>1, <1>2, <1>3, <1>5 DEF JobsInv

\* The constants are numbers.
LEMMA NumbersNat ==
    /\ NumRecords \in Nat /\ BatchSize \in Nat \ {0}
    /\ MaxFaults \in Nat /\ MaxCrashes \in Nat /\ MaxReruns \in Nat
BY JobsAssumption

\* A capped counter is a number.
LEMMA CountNat == \A n \in Nat : Count(n) \in Nat
BY SMTT(30), JobsAssumption DEF Count

\* A page ends inside the list of records.
LEMMA PageEndRange == \A c \in 0 .. NumRecords : PageEnd(c) \in 0 .. NumRecords
BY SMTT(30), JobsAssumption DEF PageEnd

\* A row of a job has the fields of a row.
LEMMA RowTyped == \A j \in Jobs : TypeOK => row[j] \in RowState
BY DEF TypeOK

\* Writing one row keeps the table typed.
LEMMA RowUpdate ==
    ASSUME TypeOK, NEW j \in Jobs, NEW v \in RowState, row' = [row EXCEPT ![j] = v]
    PROVE  row' \in [Jobs -> RowState]
BY DEF TypeOK

\* A step of one runner keeps the runners typed.
LEMMA RunnerUpdate ==
    ASSUME TypeOK, NEW r \in Runners, NEW v \in RunnerState, runner' = [runner EXCEPT ![r] = v]
    PROVE  runner' \in [Runners -> RunnerState]
BY DEF TypeOK

\* A busy runner has a job.
LEMMA BusyJob == \A r \in Runners : JobsInv /\ runner[r].pc # "idle" => runner[r].job \in Jobs
BY DEF JobsInv, RunnersPassed

\* Type correctness, action by action.
LEMMA RowStatus ==
    /\ \A x \in RowState, t \in {"pending", "running", "completed", "failed"} : [x EXCEPT !.status = t] \in RowState
    /\ \A x \in RowState : [x EXCEPT !.started = "long ago"] \in RowState
BY DEF RowState

LEMMA StepTyped == JobsInv /\ [Next]_vars => TypeOK'
<1> SUFFICES ASSUME JobsInv, [Next]_vars PROVE TypeOK'
  OBVIOUS
<1> USE NumbersNat DEF JobsInv, Records
<1>1. ASSUME NEW j \in Jobs, CreateSyncJob(j) PROVE TypeOK'
  <2>1. row' \in [Jobs -> RowState]
    BY <1>1, RowStatus DEF CreateSyncJob, TypeOK
  <2> QED
    BY <1>1, <2>1 DEF CreateSyncJob, TypeOK
<1>2. ASSUME NEW j \in Jobs, CreateReconciliationRun(j) PROVE TypeOK'
  BY SMTT(30), <1>2 DEF CreateReconciliationRun, TypeOK
<1>3. ASSUME NEW j \in Jobs, Age(j) PROVE TypeOK'
  <2>1. row' \in [Jobs -> RowState]
    BY <1>3, RowStatus DEF Age, TypeOK
  <2> QED
    BY <1>3, <2>1 DEF Age, TypeOK
<1>4. ASSUME NEW j \in Jobs, GetJobForRerun(j) PROVE TypeOK'
  BY SMTT(30), <1>4 DEF GetJobForRerun, TypeOK
<1>5. ASSUME NEW j \in Jobs, ReopenJob(j) PROVE TypeOK'
  <2>1. row' \in [Jobs -> RowState]
    <3>1. [row[j] EXCEPT !.status = "pending"] \in RowState
      BY RowTyped DEF RowState
    <3> QED
      BY <1>5, <3>1, RowUpdate DEF ReopenJob
  <2> QED
    BY <1>5, <2>1 DEF ReopenJob, TypeOK
<1>6. ASSUME NEW r \in Runners, SelectJob(r) PROVE TypeOK'
  <2>1. runner' \in [Runners -> RunnerState]
    <3>1. PICK j \in Jobs : runner' = [runner EXCEPT ![r] =
            [pc |-> "mark", job |-> j, cursor |-> row[j].cursor, next |-> row[j].cursor + 1,
             processed |-> row[j].processed, failed |-> row[j].failed]]
      BY <1>6 DEF SelectJob
    <3>2. row[j].cursor \in 0 .. NumRecords /\ row[j].processed \in Nat /\ row[j].failed \in Nat
      BY RowTyped DEF RowState
    <3>3. [pc |-> "mark", job |-> j, cursor |-> row[j].cursor, next |-> row[j].cursor + 1,
             processed |-> row[j].processed, failed |-> row[j].failed] \in RunnerState
      BY SMTT(30), <3>2 DEF RunnerState
    <3> QED
      BY <3>1, <3>3, RunnerUpdate
  <2> QED
    BY <1>6, <2>1 DEF SelectJob, TypeOK
<1>7. ASSUME NEW r \in Runners, MarkRunning(r) PROVE TypeOK'
  <2>1. row' \in [Jobs -> RowState]
    <3> DEFINE j == runner[r].job
    <3>1. j \in Jobs
      BY <1>7, BusyJob DEF MarkRunning
    <3>2. [row[j] EXCEPT !.status = "running",
              !.started = IF @ = "never" THEN "recently" ELSE @] \in RowState
      BY <3>1, RowTyped DEF RowState
    <3>3. row' = [row EXCEPT ![j] = [row[j] EXCEPT !.status = "running",
              !.started = IF @ = "never" THEN "recently" ELSE @]]
      BY <1>7 DEF MarkRunning, TypeOK
    <3> HIDE DEF j
    <3> QED
      BY <3>1, <3>2, <3>3, RowUpdate
  <2>2. runner' \in [Runners -> RunnerState]
    BY SMTT(30), <1>7 DEF MarkRunning, TypeOK, RunnerState
  <2> QED
    BY <1>7, <2>1, <2>2 DEF MarkRunning, TypeOK
<1>8. ASSUME NEW r \in Runners, ClaimRecord(r) PROVE TypeOK'
  <2>1. <<runner[r].job, runner[r].next>> \in Jobs \X Records
    <3>1. runner[r].job \in Jobs
      BY <1>8 DEF ClaimRecord, RunnersPassed
    <3>2. runner[r].cursor \in 0 .. NumRecords /\ runner[r].next \in 1 .. NumRecords + 1
      BY DEF TypeOK, RunnerState
    <3> QED
      BY SMTT(30), <1>8, <3>1, <3>2, PageEndRange DEF ClaimRecord
  <2>2. runner' \in [Runners -> RunnerState]
    <3>1. runner[r].next + 1 \in 1 .. NumRecords + 1
      BY SMTT(30), <2>1
    <3>2. /\ [runner[r] EXCEPT !.next = @ + 1] \in RunnerState
          /\ [runner[r] EXCEPT !.next = @ + 1, !.failed = Count(@)] \in RunnerState
          /\ [runner[r] EXCEPT !.next = @ + 1, !.processed = Count(@)] \in RunnerState
          /\ [runner[r] EXCEPT !.pc = "apply"] \in RunnerState
      BY <3>1, CountNat DEF TypeOK, RunnerState
    <3>3. \/ runner' = [runner EXCEPT ![r] = [runner[r] EXCEPT !.next = @ + 1]]
          \/ runner' = [runner EXCEPT ![r] = [runner[r] EXCEPT !.next = @ + 1, !.failed = Count(@)]]
          \/ runner' = [runner EXCEPT ![r] = [runner[r] EXCEPT !.next = @ + 1, !.processed = Count(@)]]
          \/ runner' = [runner EXCEPT ![r] = [runner[r] EXCEPT !.pc = "apply"]]
      BY <1>8 DEF ClaimRecord, TypeOK
    <3> QED
      BY <3>2, <3>3, RunnerUpdate
  <2> QED
    BY SMTT(30), <1>8, <2>2, <2>1 DEF ClaimRecord, TypeOK
<1>9. ASSUME NEW r \in Runners, ApplyRecord(r) PROVE TypeOK'
  <2>1. <<runner[r].job, runner[r].next>> \in Jobs \X Records
    BY <1>9 DEF ApplyRecord, ClaimsHeld, TypeOK
  <2>2. runner' \in [Runners -> RunnerState]
    BY SMTT(30), <1>9, <2>1, CountNat DEF ApplyRecord, TypeOK, RunnerState
  <2> QED
    BY SMTT(30), <1>9, <2>2, <2>1 DEF ApplyRecord, TypeOK
<1>10. ASSUME NEW r \in Runners, RefuseRecord(r) PROVE TypeOK'
  <2>1. <<runner[r].job, runner[r].next>> \in Jobs \X Records
    BY <1>10 DEF RefuseRecord, ClaimsHeld, TypeOK
  <2>2. runner' \in [Runners -> RunnerState]
    BY SMTT(30), <1>10, <2>1, CountNat DEF RefuseRecord, TypeOK, RunnerState
  <2> QED
    BY SMTT(30), <1>10, <2>2, <2>1 DEF RefuseRecord, TypeOK
<1>11. ASSUME NEW r \in Runners, UpdateSyncJobProgress(r) PROVE TypeOK'
  <2> DEFINE n == IF HasMore(runner[r].cursor) THEN PageEnd(runner[r].cursor) ELSE 0
             j == runner[r].job
             q == runner[r].processed
             f == runner[r].failed
  <2>0. n \in 0 .. NumRecords /\ j \in Jobs /\ q \in Nat /\ f \in Nat
    <3>1. runner[r] \in RunnerState /\ runner[r].pc # "idle"
      BY <1>11 DEF UpdateSyncJobProgress, TypeOK
    <3>2. runner[r].cursor \in 0 .. NumRecords /\ q \in Nat /\ f \in Nat
      BY <3>1 DEF RunnerState
    <3>3. j \in Jobs
      BY <3>1, BusyJob
    <3>4. 0 \in 0 .. NumRecords
      BY SMTT(30), NumbersNat
    <3> QED
      BY <3>2, <3>3, <3>4, PageEndRange
  <2>1. row' \in [Jobs -> RowState]
    <3>1. row' = [row EXCEPT ![j] = [row[j] EXCEPT !.cursor = n, !.processed = q, !.failed = f]]
      BY <1>11 DEF UpdateSyncJobProgress, TypeOK
    <3> HIDE DEF n, j, q, f
    <3>2. [row[j] EXCEPT !.cursor = n, !.processed = q, !.failed = f] \in RowState
      BY <2>0, RowTyped DEF RowState
    <3> QED
      BY <2>0, <3>1, <3>2, RowUpdate
  <2>2. runner' \in [Runners -> RunnerState]
    <3> DEFINE p == IF HasMore(runner[r].cursor) THEN "page" ELSE "finish"
    <3>0. p \in {"page", "finish"}
      OBVIOUS
    <3>1. runner' = [runner EXCEPT ![r] = [runner[r] EXCEPT !.pc = p, !.cursor = n, !.next = n + 1]]
      BY <1>11 DEF UpdateSyncJobProgress, TypeOK
    <3>a. n + 1 \in 1 .. NumRecords + 1 /\ runner[r] \in RunnerState
      BY SMTT(30), <2>0 DEF TypeOK
    <3> HIDE DEF n, p
    <3>2. [runner[r] EXCEPT !.pc = p, !.cursor = n, !.next = n + 1] \in RunnerState
      BY <2>0, <3>0, <3>a DEF RunnerState
    <3> QED
      BY <3>1, <3>2, RunnerUpdate
  <2> QED
    BY <1>11, <2>1, <2>2 DEF UpdateSyncJobProgress, TypeOK
<1>12. ASSUME NEW r \in Runners, CallFails(r) PROVE TypeOK'
  <2>1. runner' \in [Runners -> RunnerState]
    BY SMTT(30), <1>12 DEF CallFails, TypeOK, RunnerState
  <2> QED
    BY SMTT(30), <1>12, <2>1 DEF CallFails, TypeOK
<1>13. ASSUME NEW r \in Runners, CloseRun(r) PROVE TypeOK'
  <2>1. runner' \in [Runners -> RunnerState]
    BY SMTT(30), <1>13 DEF CloseRun, TypeOK, RunnerState
  <2> QED
    BY <1>13, <2>1 DEF CloseRun, TypeOK
<1>14. ASSUME NEW r \in Runners, FinishReconciliationRun(r) PROVE TypeOK'
  <2>1. runner' \in [Runners -> RunnerState]
    BY SMTT(30), <1>14 DEF FinishReconciliationRun, TypeOK, RunnerState
  <2> QED
    BY <1>14, <2>1 DEF FinishReconciliationRun, TypeOK
<1>15. ASSUME NEW r \in Runners, AbortJob(r) PROVE TypeOK'
  <2>1. row' \in [Jobs -> RowState]
    <3> DEFINE j == runner[r].job
    <3>1. j \in Jobs
      BY <1>15, BusyJob DEF AbortJob
    <3>2. [row[j] EXCEPT !.status = "failed"] \in RowState
      BY <3>1, RowTyped DEF RowState
    <3>3. row' = [row EXCEPT ![j] = [row[j] EXCEPT !.status = "failed"]]
      BY <1>15 DEF AbortJob, TypeOK
    <3> HIDE DEF j
    <3> QED
      BY <3>1, <3>2, <3>3, RowUpdate
  <2>2. runner' \in [Runners -> RunnerState]
    BY SMTT(30), <1>15 DEF AbortJob, TypeOK, RunnerState, Idle
  <2> QED
    BY <1>15, <2>1, <2>2 DEF AbortJob, TypeOK
<1>16. ASSUME NEW r \in Runners, FinishSyncJob(r) PROVE TypeOK'
  <2>1. row' \in [Jobs -> RowState]
    <3> DEFINE j == runner[r].job
    <3>1. j \in Jobs
      BY <1>16, BusyJob DEF FinishSyncJob
    <3>2. [row[j] EXCEPT !.status = "completed"] \in RowState
      BY <3>1, RowTyped DEF RowState
    <3>3. row' = [row EXCEPT ![j] = [row[j] EXCEPT !.status = "completed"]]
      BY <1>16 DEF FinishSyncJob, TypeOK
    <3> HIDE DEF j
    <3> QED
      BY <3>1, <3>2, <3>3, RowUpdate
  <2>2. runner' \in [Runners -> RunnerState]
    BY SMTT(30), <1>16 DEF FinishSyncJob, TypeOK, RunnerState, Idle
  <2> QED
    BY <1>16, <2>1, <2>2 DEF FinishSyncJob, TypeOK
<1>17. ASSUME NEW r \in Runners, CrashRunner(r) PROVE TypeOK'
  <2>1. runner' \in [Runners -> RunnerState]
    BY SMTT(30), <1>17 DEF CrashRunner, TypeOK, RunnerState, Idle
  <2> QED
    BY SMTT(30), <1>17, <2>1 DEF CrashRunner, TypeOK
<1>18. ASSUME NEW r \in Runners, GetReconciliationRunByJobID(r) PROVE TypeOK'
  <2>1. runner' \in [Runners -> RunnerState]
    BY SMTT(30), <1>18 DEF GetReconciliationRunByJobID, TypeOK, RunnerState, Idle
  <2> QED
    BY <1>18, <2>1 DEF GetReconciliationRunByJobID, TypeOK
<1>19. CASE UNCHANGED vars
  BY <1>19 DEF vars, TypeOK
<1> QED
  BY <1>1, <1>2, <1>3, <1>4, <1>5, <1>6, <1>7, <1>8, <1>9, <1>10, <1>11, <1>12, <1>13, <1>14,
     <1>15, <1>16, <1>17, <1>18, <1>19 DEF Next, RunnerStep
-----------------------------------------------------------------------------
\* The claims

\* The steps that neither claim, apply, release nor abandon a record.
Quiet ==
    /\ claims' = claims /\ applied' = applied /\ crashes' \in {crashes, crashes + 1}
    /\ \A r \in Runners : /\ (runner'[r].pc = "apply") <=> (runner[r].pc = "apply")
                          /\ runner[r].pc = "apply" => runner'[r] = runner[r]

ClaimStep(r) ==
    LET jr == <<runner[r].job, runner[r].next>> IN
    /\ runner[r].pc = "page" /\ jr \in Jobs \X Records /\ jr \notin claims
    /\ claims' = claims \cup {jr} /\ applied' = applied /\ crashes' = crashes
    /\ runner' = [runner EXCEPT ![r].pc = "apply"]

CrashAtApply(r) == CrashRunner(r) /\ runner[r].pc = "apply"

\* All a step can do to the claims and applies: nothing, or one of four things.
LEMMA StepKinds ==
    JobsInv /\ [Next]_vars =>
        \/ Quiet
        \/ \E r \in Runners : ClaimStep(r) \/ ApplyRecord(r) \/ RefuseRecord(r) \/ CrashAtApply(r)
<1> SUFFICES ASSUME JobsInv, [Next]_vars
             PROVE  \/ Quiet
                    \/ \E r \in Runners : ClaimStep(r) \/ ApplyRecord(r) \/ RefuseRecord(r) \/ CrashAtApply(r)
  OBVIOUS
<1>0. runner \in [Runners -> RunnerState] /\ crashes \in Nat
  BY SMTT(30), NumbersNat DEF JobsInv, TypeOK
<1>1. ASSUME NEW j \in Jobs,
             CreateSyncJob(j) \/ CreateReconciliationRun(j) \/ Age(j) \/ GetJobForRerun(j) \/ ReopenJob(j)
      PROVE  Quiet
  BY <1>1 DEF CreateSyncJob, CreateReconciliationRun, Age, GetJobForRerun, ReopenJob, Quiet
<1>2. ASSUME NEW r \in Runners, SelectJob(r) PROVE Quiet
  BY SMTT(30), <1>0, <1>2 DEF SelectJob, Quiet
<1>3. ASSUME NEW r \in Runners, MarkRunning(r) PROVE Quiet
  BY <1>0, <1>3 DEF MarkRunning, Quiet, RunnerState
<1>4. ASSUME NEW r \in Runners, ClaimRecord(r) PROVE Quiet \/ ClaimStep(r)
  <2>1. <<runner[r].job, runner[r].next>> \in Jobs \X Records
    <3>1. runner[r].cursor \in 0 .. NumRecords /\ runner[r].next \in 1 .. NumRecords + 1
      BY <1>0 DEF RunnerState
    <3> QED
      BY SMTT(30), <1>4, <3>1, BusyJob, PageEndRange, NumbersNat DEF ClaimRecord, Records
  <2>2. CASE claims' = claims
    BY SMTT(30), <1>0, <1>4, <2>1, <2>2 DEF ClaimRecord, Quiet, RunnerState
  <2>3. CASE claims' # claims
    BY <1>0, <1>4, <2>1, <2>3 DEF ClaimRecord, ClaimStep
  <2> QED
    BY <2>2, <2>3
<1>5. ASSUME NEW r \in Runners, UpdateSyncJobProgress(r) PROVE Quiet
  BY <1>0, <1>5 DEF UpdateSyncJobProgress, Quiet, RunnerState
<1>6. ASSUME NEW r \in Runners, CallFails(r) PROVE Quiet
  BY <1>0, <1>6 DEF CallFails, Quiet, RunnerState
<1>7. ASSUME NEW r \in Runners, CloseRun(r) \/ FinishReconciliationRun(r) PROVE Quiet
  BY <1>0, <1>7 DEF CloseRun, FinishReconciliationRun, Quiet, RunnerState
<1>8. ASSUME NEW r \in Runners, AbortJob(r) \/ FinishSyncJob(r) PROVE Quiet
  BY SMTT(30), <1>0, <1>8 DEF AbortJob, FinishSyncJob, Quiet, RunnerState, Idle
<1>9. ASSUME NEW r \in Runners, GetReconciliationRunByJobID(r) PROVE Quiet
  BY <1>0, <1>9 DEF GetReconciliationRunByJobID, Quiet, RunnerState, Idle
<1>10. ASSUME NEW r \in Runners, CrashRunner(r) PROVE Quiet \/ CrashAtApply(r)
  BY <1>0, <1>10 DEF CrashRunner, CrashAtApply, Quiet, RunnerState, Idle
<1>11. CASE UNCHANGED vars
  BY <1>11 DEF vars, Quiet
<1> QED
  BY <1>1, <1>2, <1>3, <1>4, <1>5, <1>6, <1>7, <1>8, <1>9, <1>10, <1>11 DEF Next, RunnerStep

\* A claim has one holder, and every applied record was claimed.
LEMMA StepHeld == JobsInv /\ [Next]_vars => ClaimsHeld' /\ AppliedClaimed'
<1> SUFFICES ASSUME JobsInv, [Next]_vars PROVE ClaimsHeld' /\ AppliedClaimed'
  OBVIOUS
<1>0. runner \in [Runners -> RunnerState] /\ applied \in [Jobs \X Records -> Nat] /\ claims \subseteq Jobs \X Records
  BY DEF JobsInv, TypeOK
<1> USE <1>0 DEF JobsInv
<1>1. CASE Quiet
  BY SMTT(30), <1>1 DEF Quiet, ClaimsHeld, AppliedClaimed
<1>2. ASSUME NEW r \in Runners, ClaimStep(r) PROVE ClaimsHeld' /\ AppliedClaimed'
  <2> DEFINE jr == <<runner[r].job, runner[r].next>>
  <2>1. /\ runner'[r].pc = "apply" /\ runner'[r].job = runner[r].job /\ runner'[r].next = runner[r].next
        /\ \A s \in Runners \ {r} : runner'[s] = runner[s]
    BY <1>2 DEF ClaimStep, RunnerState
  <2>2. runner[r].next \in Records /\ applied[jr] = 0
    BY <1>2 DEF ClaimStep, AppliedClaimed
  <2>3. ClaimsHeld'
    BY SMTT(30), <1>2, <2>1, <2>2 DEF ClaimStep, ClaimsHeld
  <2>4. AppliedClaimed'
    BY <1>2 DEF ClaimStep, AppliedClaimed
  <2> QED
    BY <2>3, <2>4
<1>3. ASSUME NEW r \in Runners, ApplyRecord(r) PROVE ClaimsHeld' /\ AppliedClaimed'
  <2> DEFINE jr == <<runner[r].job, runner[r].next>>
  <2>1. runner'[r].pc = "page" /\ \A s \in Runners \ {r} : runner'[s] = runner[s]
    BY <1>3 DEF ApplyRecord, RunnerState
  <2>2. jr \in claims /\ applied[jr] = 0
    BY <1>3 DEF ApplyRecord, ClaimsHeld
  <2>3. applied'[jr] = 1 /\ \A x \in Jobs \X Records : x # jr => applied'[x] = applied[x]
    BY SMTT(30), <1>3, <2>2 DEF ApplyRecord
  <2>4. claims' = claims
    BY <1>3 DEF ApplyRecord
  <2>5. AppliedClaimed'
    BY <2>2, <2>3, <2>4 DEF AppliedClaimed
  <2>6. ASSUME NEW s \in Runners, runner'[s].pc = "apply"
        PROVE  /\ s # r /\ runner'[s] = runner[s] /\ <<runner[s].job, runner[s].next>> # jr
    BY <1>3, <2>1, <2>6 DEF ClaimsHeld, ApplyRecord
  <2>7. ClaimsHeld'
    BY SMTT(30), <2>1, <2>3, <2>4, <2>6 DEF ClaimsHeld
  <2> QED
    BY <2>5, <2>7
<1>4. ASSUME NEW r \in Runners, RefuseRecord(r) PROVE ClaimsHeld' /\ AppliedClaimed'
  <2> DEFINE jr == <<runner[r].job, runner[r].next>>
  <2>1. runner'[r].pc = "page" /\ \A s \in Runners \ {r} : runner'[s] = runner[s]
    BY <1>4 DEF RefuseRecord, RunnerState
  <2>2. jr \in claims /\ applied[jr] = 0
    BY <1>4 DEF RefuseRecord, ClaimsHeld
  <2>3. applied' = applied /\ claims' = claims \ {jr}
    BY <1>4 DEF RefuseRecord
  <2>4. AppliedClaimed'
    BY SMTT(30), <2>2, <2>3 DEF AppliedClaimed
  <2>5. ASSUME NEW s \in Runners, runner'[s].pc = "apply"
        PROVE  /\ s # r /\ runner'[s] = runner[s] /\ <<runner[s].job, runner[s].next>> # jr
    BY <1>4, <2>1, <2>5 DEF ClaimsHeld, RefuseRecord
  <2>6. ClaimsHeld'
    BY SMTT(30), <2>1, <2>3, <2>5 DEF ClaimsHeld
  <2> QED
    BY <2>4, <2>6
<1>5. ASSUME NEW r \in Runners, CrashAtApply(r) PROVE ClaimsHeld' /\ AppliedClaimed'
  BY <1>5 DEF CrashAtApply, CrashRunner, Idle, ClaimsHeld, AppliedClaimed
<1> QED
  BY <1>1, <1>2, <1>3, <1>4, <1>5, StepKinds

\* A step that orphans no claim keeps the count of orphans paid for.
LEMMA OrphansKept ==
    ASSUME OrphansPaidFor, crashes \in Nat, Orphans' \subseteq Orphans, crashes' \in {crashes, crashes + 1}
    PROVE  OrphansPaidFor'
<1>1. IsFiniteSet(Orphans') /\ Cardinality(Orphans') <= Cardinality(Orphans)
  BY FS_Subset DEF OrphansPaidFor
<1>2. Cardinality(Orphans) \in Nat /\ Cardinality(Orphans') \in Nat
  BY <1>1, FS_CardinalityType DEF OrphansPaidFor
<1> QED
  BY SMTT(30), <1>1, <1>2 DEF OrphansPaidFor

\* A crash pays for the one claim it orphans.
LEMMA OrphanAdded ==
    ASSUME OrphansPaidFor, crashes \in Nat, NEW x, Orphans' \subseteq Orphans \cup {x}, crashes' = crashes + 1
    PROVE  OrphansPaidFor'
<1>1. /\ IsFiniteSet(Orphans \cup {x})
      /\ Cardinality(Orphans \cup {x}) \in {Cardinality(Orphans), Cardinality(Orphans) + 1}
  BY FS_AddElement DEF OrphansPaidFor
<1>2. IsFiniteSet(Orphans') /\ Cardinality(Orphans') <= Cardinality(Orphans \cup {x})
  BY <1>1, FS_Subset
<1>3. Cardinality(Orphans) \in Nat /\ Cardinality(Orphans') \in Nat
  BY <1>2, FS_CardinalityType DEF OrphansPaidFor
<1> QED
  BY SMTT(30), <1>1, <1>2, <1>3 DEF OrphansPaidFor

\* Each crash leaves at most one claim behind.
LEMMA StepOrphans == JobsInv /\ [Next]_vars => OrphansPaidFor'
<1> SUFFICES ASSUME JobsInv, [Next]_vars PROVE OrphansPaidFor'
  OBVIOUS
<1>0. /\ runner \in [Runners -> RunnerState] /\ applied \in [Jobs \X Records -> Nat]
      /\ claims \subseteq Jobs \X Records /\ crashes \in Nat
  BY SMTT(30), NumbersNat DEF JobsInv, TypeOK
<1> USE <1>0 DEF JobsInv
<1>1. CASE Quiet
  <2>1. Orphans' \subseteq Orphans
    BY <1>1 DEF Quiet, Orphans, InFlight
  <2> QED
    BY <1>1, <2>1, OrphansKept DEF Quiet
<1>2. ASSUME NEW r \in Runners, ClaimStep(r) PROVE OrphansPaidFor'
  <2>1. /\ runner'[r].pc = "apply" /\ runner'[r].job = runner[r].job /\ runner'[r].next = runner[r].next
        /\ \A s \in Runners \ {r} : runner'[s] = runner[s]
    BY <1>2 DEF ClaimStep, RunnerState
  <2>2. ASSUME NEW x \in Orphans' PROVE x \in Orphans
    <3>1. x # <<runner[r].job, runner[r].next>>
      BY SMTT(30), <2>1, <2>2 DEF Orphans, InFlight
    <3> QED
      BY <1>2, <2>1, <2>2, <3>1 DEF ClaimStep, Orphans, InFlight
  <2> QED
    BY <1>2, <2>2, OrphansKept DEF ClaimStep
<1>3. ASSUME NEW r \in Runners, ApplyRecord(r) \/ RefuseRecord(r) PROVE OrphansPaidFor'
  <2> DEFINE jr == <<runner[r].job, runner[r].next>>
  <2>1. runner[r].pc = "apply" /\ runner'[r].pc = "page" /\ \A s \in Runners \ {r} : runner'[s] = runner[s]
    BY SMTT(30), <1>3 DEF ApplyRecord, RefuseRecord, RunnerState
  <2>2. jr \in claims /\ applied[jr] = 0
    BY <2>1 DEF ClaimsHeld
  <2>3. /\ jr \notin Orphans' /\ claims' \subseteq claims
        /\ \A x \in Jobs \X Records : x # jr => applied'[x] = applied[x]
    BY SMTT(30), <1>3, <2>2 DEF ApplyRecord, RefuseRecord, Orphans
  <2>4. ASSUME NEW x \in Orphans' PROVE x \in Orphans
    <3>1. x # jr /\ x \in claims /\ x \in Jobs \X Records /\ x = <<x[1], x[2]>>
      BY SMTT(30), <2>3, <2>4 DEF Orphans
    <3> QED
      BY SMTT(30), <2>1, <2>3, <2>4, <3>1 DEF Orphans, InFlight
  <2>5. crashes' = crashes
    BY <1>3 DEF ApplyRecord, RefuseRecord
  <2> QED
    BY <2>4, <2>5, OrphansKept
<1>4. ASSUME NEW r \in Runners, CrashAtApply(r) PROVE OrphansPaidFor'
  <2> DEFINE jr == <<runner[r].job, runner[r].next>>
  <2>1. \A s \in Runners \ {r} : runner'[s] = runner[s]
    BY <1>4 DEF CrashAtApply, CrashRunner
  <2>2. claims' = claims /\ applied' = applied /\ crashes' = crashes + 1
    BY <1>4 DEF CrashAtApply, CrashRunner
  <2>3. ASSUME NEW x \in Orphans' PROVE x \in Orphans \cup {jr}
    <3>1. x = <<x[1], x[2]>>
      BY SMTT(30), <2>2, <2>3 DEF Orphans
    <3> QED
      BY <2>1, <2>2, <2>3, <3>1 DEF Orphans, InFlight
  <2> QED
    BY <2>2, <2>3, OrphanAdded
<1> QED
  BY <1>1, <1>2, <1>3, <1>4, StepKinds
-----------------------------------------------------------------------------
\* The checkpoints

\* A record once passed stays passed: a released claim is logged as refused.
LEMMA PassedStays ==
    JobsInv /\ [Next]_vars => \A j \in Jobs, k \in Records : Passed(j, k) => Passed(j, k)'
<1> SUFFICES ASSUME JobsInv, [Next]_vars
             PROVE  dlq \cup refused \cup claims \subseteq dlq' \cup refused' \cup claims'
  BY DEF Passed
<1>1. ASSUME NEW j \in Jobs,
             CreateSyncJob(j) \/ CreateReconciliationRun(j) \/ Age(j) \/ GetJobForRerun(j) \/ ReopenJob(j)
      PROVE  dlq' = dlq /\ refused' = refused /\ claims' = claims
  BY <1>1 DEF CreateSyncJob, CreateReconciliationRun, Age, GetJobForRerun, ReopenJob
<1>2. ASSUME NEW r \in Runners,
             \/ SelectJob(r) \/ MarkRunning(r) \/ ApplyRecord(r) \/ UpdateSyncJobProgress(r)
             \/ CallFails(r) \/ CloseRun(r) \/ AbortJob(r) \/ FinishSyncJob(r)
             \/ GetReconciliationRunByJobID(r) \/ FinishReconciliationRun(r) \/ CrashRunner(r)
      PROVE  dlq' = dlq /\ refused' = refused /\ claims' = claims
  BY <1>2 DEF SelectJob, MarkRunning, ApplyRecord, UpdateSyncJobProgress, CallFails, CloseRun,
              AbortJob, FinishSyncJob, GetReconciliationRunByJobID, FinishReconciliationRun, CrashRunner
<1>3. ASSUME NEW r \in Runners, ClaimRecord(r)
      PROVE  dlq \subseteq dlq' /\ refused \subseteq refused' /\ claims \subseteq claims'
  BY <1>3 DEF ClaimRecord
<1>4. ASSUME NEW r \in Runners, RefuseRecord(r)
      PROVE  dlq \cup refused \cup claims \subseteq dlq' \cup refused' \cup claims'
  BY <1>4 DEF RefuseRecord
<1>5. CASE UNCHANGED vars
  BY <1>5 DEF vars
<1> QED
  BY <1>1, <1>2, <1>3, <1>4, <1>5 DEF Next, RunnerStep

\* The last page ends with the last record.
LEMMA LastPage == \A c \in 0 .. NumRecords : ~HasMore(c) => PageEnd(c) = NumRecords
BY NumbersNat DEF HasMore, PageEnd

\* No row gets a cursor or a completion but from the two actions that check for it.
LEMMA StepRows == JobsInv /\ [Next]_vars => RowsPassed'
<1> SUFFICES ASSUME JobsInv, [Next]_vars PROVE RowsPassed'
  OBVIOUS
<1>0. row \in [Jobs -> RowState] /\ runner \in [Runners -> RunnerState]
  BY DEF JobsInv, TypeOK
<1> USE <1>0 DEF JobsInv
<1>a. ASSUME \A j \in Jobs : /\ row'[j].cursor = row[j].cursor
                             /\ row'[j].status = "completed" => row[j].status = "completed"
      PROVE  RowsPassed'
  BY <1>a, PassedStays DEF RowsPassed
<1>1. ASSUME NEW j \in Jobs, CreateSyncJob(j) \/ Age(j) \/ ReopenJob(j) PROVE RowsPassed'
  <2>1. /\ row'[j].cursor = row[j].cursor /\ row'[j].status \in {"pending", row[j].status}
        /\ \A i \in Jobs \ {j} : row'[i] = row[i]
    <3>1. CASE CreateSyncJob(j)
      BY <3>1 DEF CreateSyncJob, RowState
    <3>2. CASE Age(j)
      BY <3>2 DEF Age, RowState
    <3>3. CASE ReopenJob(j)
      BY <3>3 DEF ReopenJob, RowState
    <3> QED
      BY <1>1, <3>1, <3>2, <3>3
  <2> QED
    BY <1>a, <2>1
<1>2. ASSUME NEW r \in Runners, MarkRunning(r) PROVE RowsPassed'
  <2> DEFINE i == runner[r].job
  <2>1. i \in Jobs /\ row[i] \in RowState
    BY <1>2, BusyJob DEF MarkRunning
  <2>2. /\ row'[i].cursor = row[i].cursor /\ row'[i].status # "completed"
        /\ \A j \in Jobs \ {i} : row'[j] = row[j]
    BY <1>2, <2>1 DEF MarkRunning, RowState
  <2> HIDE DEF i
  <2> QED
    BY <1>a, <2>2
<1>3. ASSUME NEW r \in Runners, AbortJob(r) PROVE RowsPassed'
  <2> DEFINE i == runner[r].job
  <2>1. i \in Jobs /\ row[i] \in RowState
    BY <1>3, BusyJob DEF AbortJob
  <2>2. /\ row'[i].cursor = row[i].cursor /\ row'[i].status # "completed"
        /\ \A j \in Jobs \ {i} : row'[j] = row[j]
    BY <1>3, <2>1 DEF AbortJob, RowState
  <2> HIDE DEF i
  <2> QED
    BY <1>a, <2>2
<1>4. ASSUME NEW r \in Runners, UpdateSyncJobProgress(r) PROVE RowsPassed'
  <2> DEFINE c == runner[r].cursor
             i == runner[r].job
  <2>1. i \in Jobs /\ c \in 0 .. NumRecords /\ runner[r].next \in Nat
    BY SMTT(30), <1>4, BusyJob, NumbersNat DEF UpdateSyncJobProgress, RunnerState
  <2>2. /\ row'[i].status = row[i].status
        /\ row'[i].cursor = IF HasMore(c) THEN PageEnd(c) ELSE 0
        /\ \A j \in Jobs \ {i} : row'[j] = row[j]
    <3>1. PICK n : n = IF HasMore(c) THEN PageEnd(c) ELSE 0
      OBVIOUS
    <3>2. row' = [row EXCEPT ![i].cursor = n, ![i].processed = runner[r].processed,
                             ![i].failed = runner[r].failed]
      BY <1>4, <3>1 DEF UpdateSyncJobProgress
    <3>3. row \in [Jobs -> RowState]
      BY DEF TypeOK
    <3> HIDE DEF i, c
    <3>4. row'[i].status = row[i].status /\ row'[i].cursor = n
      BY <2>1, <3>2, <3>3 DEF RowState
    <3>5. \A j \in Jobs \ {i} : row'[j] = row[j]
      BY <3>2, <3>3
    <3> QED
      BY <3>1, <3>4, <3>5
  <2>3. \A k \in Records : k <= row'[i].cursor => k < runner[r].next
    <3>0. runner[r].next > PageEnd(c)
      BY <1>4 DEF UpdateSyncJobProgress
    <3>n. \A n \in 0 .. NumRecords : n \in Nat
      BY SMTT(30), NumbersNat
    <3>1. PageEnd(c) \in Nat /\ runner[r].next > PageEnd(c)
      BY <2>1, <3>0, <3>n, PageEndRange
    <3>2. \A k \in Records : k \in Nat /\ k > 0
      BY SMTT(30), NumbersNat DEF Records
    <3>3. row'[i].cursor = PageEnd(c) \/ row'[i].cursor = 0
      BY <2>2
    <3> HIDE DEF i, c
    <3> QED
      BY SMTT(30), <2>1, <3>1, <3>2, <3>3
  <2>4. JobType[i] = "initial" => \A k \in Records : k < runner[r].next => Passed(i, k)
    BY <1>4 DEF UpdateSyncJobProgress, RunnersPassed
  <2> HIDE DEF i, c
  <2>5. ASSUME NEW j \in Jobs, JobType[j] = "initial", NEW k \in Records,
               k <= row'[j].cursor \/ row'[j].status = "completed"
        PROVE  Passed(j, k)
    <3>1. CASE j = i
      BY <2>2, <2>3, <2>4, <2>5, <3>1 DEF RowsPassed
    <3>2. CASE j # i
      BY <2>2, <2>5, <3>2 DEF RowsPassed
    <3> QED
      BY <3>1, <3>2
  <2> QED
    BY <2>5, PassedStays DEF RowsPassed
<1>5. ASSUME NEW r \in Runners, FinishSyncJob(r) PROVE RowsPassed'
  <2> DEFINE i == runner[r].job
  <2>1. i \in Jobs /\ (JobType[i] = "initial" => \A k \in Records : Passed(i, k))
    BY <1>5, BusyJob DEF FinishSyncJob, RunnersPassed
  <2>2. \A j \in Jobs \ {i} : row'[j] = row[j]
    BY <1>5 DEF FinishSyncJob
  <2> HIDE DEF i
  <2> QED
    BY <2>1, <2>2, PassedStays DEF RowsPassed
<1>6. CASE row' = row
  BY <1>6, <1>a
<1>7. ASSUME NEW j \in Jobs, CreateReconciliationRun(j) \/ GetJobForRerun(j) PROVE row' = row
  BY <1>7 DEF CreateReconciliationRun, GetJobForRerun
<1>8. ASSUME NEW r \in Runners,
             \/ SelectJob(r) \/ ClaimRecord(r) \/ ApplyRecord(r) \/ RefuseRecord(r) \/ CallFails(r)
             \/ CloseRun(r) \/ GetReconciliationRunByJobID(r) \/ FinishReconciliationRun(r) \/ CrashRunner(r)
      PROVE  row' = row
  BY <1>8 DEF SelectJob, ClaimRecord, ApplyRecord, RefuseRecord, CallFails, CloseRun,
              GetReconciliationRunByJobID, FinishReconciliationRun, CrashRunner
<1>9. CASE UNCHANGED vars
  BY <1>6, <1>9 DEF vars
<1> QED
  BY <1>1, <1>2, <1>3, <1>4, <1>5, <1>6, <1>7, <1>8, <1>9 DEF Next, RunnerStep

\* What one runner has behind it; RunnersPassed is this for every runner.
RunnerPassed(r) ==
    runner[r].pc # "idle" =>
        /\ runner[r].job \in Jobs
        /\ JobType[runner[r].job] = "initial" =>
              /\ runner[r].pc \in {"mark", "page", "apply", "finish", "abort"}
              /\ runner[r].pc \in {"mark", "page", "apply"} =>
                    \A k \in Records : k < runner[r].next => Passed(runner[r].job, k)
              /\ runner[r].pc = "finish" => \A k \in Records : Passed(runner[r].job, k)

\* A runner that does not move keeps what it has passed.
LEMMA OthersPassed ==
    ASSUME JobsInv, [Next]_vars, NEW r \in Runners, runner'[r] = runner[r]
    PROVE  RunnerPassed(r)'
<1>1. RunnerPassed(r)
  BY DEF JobsInv, RunnersPassed, RunnerPassed
<1>2. \A j \in Jobs, k \in Records : Passed(j, k) => Passed(j, k)'
  BY PassedStays
<1> QED
  BY <1>1, <1>2 DEF RunnerPassed

\* No runner moves past a record it has not claimed, parked, logged or skipped.
LEMMA StepRunners == JobsInv /\ [Next]_vars => RunnersPassed'
<1> SUFFICES ASSUME JobsInv, [Next]_vars PROVE \A s \in Runners : RunnerPassed(s)'
  BY DEF RunnersPassed, RunnerPassed
<1>0. row \in [Jobs -> RowState] /\ runner \in [Runners -> RunnerState]
  BY DEF JobsInv, TypeOK
<1>k. \A j \in Jobs, k \in Records : Passed(j, k) => Passed(j, k)'
  BY PassedStays
<1>j. JobType \in [Jobs -> {"initial", "reconcile"}]
  BY SMTT(30), JobsAssumption DEF Jobs
<1>p. \A s \in Runners : RunnerPassed(s)
  BY DEF JobsInv, RunnersPassed, RunnerPassed
<1>1. CASE runner' = runner
  BY <1>1, OthersPassed
<1>2. ASSUME NEW r \in Runners, RunnerPassed(r)', \A s \in Runners \ {r} : runner'[s] = runner[s]
      PROVE  \A s \in Runners : RunnerPassed(s)'
  BY <1>2, OthersPassed
<1>3. ASSUME NEW r \in Runners, SelectJob(r) PROVE \A s \in Runners : RunnerPassed(s)'
  <2>1. PICK j \in Jobs : runner' = [runner EXCEPT ![r] =
            [pc |-> "mark", job |-> j, cursor |-> row[j].cursor, next |-> row[j].cursor + 1,
             processed |-> row[j].processed, failed |-> row[j].failed]]
    BY <1>3 DEF SelectJob
  <2>2. /\ runner'[r].pc = "mark" /\ runner'[r].job = j /\ runner'[r].next = row[j].cursor + 1
        /\ \A s \in Runners \ {r} : runner'[s] = runner[s]
    BY <1>0, <2>1
  <2>3. row[j].cursor \in 0 .. NumRecords
    BY <1>0 DEF RowState
  <2>4. \A k \in Records : k < row[j].cursor + 1 => k <= row[j].cursor
    BY SMTT(30), <2>3, NumbersNat DEF Records
  <2>5. JobType[j] = "initial" => \A k \in Records : k <= row[j].cursor => Passed(j, k)
    BY DEF JobsInv, RowsPassed
  <2>6. RunnerPassed(r)'
    BY <1>k, <2>2, <2>4, <2>5 DEF RunnerPassed
  <2> QED
    BY <1>2, <2>2, <2>6
<1>4. ASSUME NEW r \in Runners, MarkRunning(r) PROVE \A s \in Runners : RunnerPassed(s)'
  <2>1. /\ runner[r].pc = "mark" /\ runner'[r].job = runner[r].job /\ runner'[r].next = runner[r].next
        /\ runner'[r].pc = IF JobType[runner[r].job] = "reconcile" THEN "sweep" ELSE "page"
        /\ \A s \in Runners \ {r} : runner'[s] = runner[s]
    BY <1>0, <1>4 DEF MarkRunning, RunnerState
  <2>2. RunnerPassed(r)'
    BY <1>j, <1>k, <1>p, <2>1 DEF RunnerPassed
  <2> QED
    BY <1>2, <2>1, <2>2
<1>5. ASSUME NEW r \in Runners, ClaimRecord(r) \/ ApplyRecord(r) \/ RefuseRecord(r)
      PROVE  \A s \in Runners : RunnerPassed(s)'
  <2>0. PICK j \in Jobs, n \in Nat :
          j = runner[r].job /\ n = runner[r].next /\ runner[r].pc \in {"page", "apply"}
    <3>1. runner[r].pc \in {"page", "apply"}
      BY <1>5 DEF ClaimRecord, ApplyRecord, RefuseRecord
    <3>2. runner[r].job \in Jobs
      BY <3>1, BusyJob
    <3>3. runner[r].next \in 1 .. NumRecords + 1
      BY <1>0 DEF RunnerState
    <3>4. \A n \in 1 .. NumRecords + 1 : n \in Nat
      BY SMTT(30), NumbersNat
    <3> QED
      BY <3>1, <3>2, <3>3, <3>4
  <2>1. \A s \in Runners \ {r} : runner'[s] = runner[s]
    BY <1>0, <1>5 DEF ClaimRecord, ApplyRecord, RefuseRecord
  <2>2. runner'[r].job = j /\ runner'[r].pc \in {"page", "apply"} /\ runner'[r].next \in {n, n + 1}
    <3>1. CASE ClaimRecord(r)
      BY SMTT(30), <1>0, <2>0, <3>1 DEF ClaimRecord, RunnerState
    <3>2. CASE ApplyRecord(r) \/ RefuseRecord(r)
      BY SMTT(30), <1>0, <2>0, <3>2 DEF ApplyRecord, RefuseRecord, RunnerState
    <3> QED
      BY <1>5, <3>1, <3>2
  <2>3. runner'[r].next = n + 1 => Passed(j, n)'
    <3>1. CASE ClaimRecord(r)
      BY <1>0, <2>0, <3>1 DEF ClaimRecord, RunnerState, Passed
    <3>2. CASE ApplyRecord(r)
      BY <2>0, <3>2 DEF ApplyRecord, JobsInv, ClaimsHeld, Passed
    <3>3. CASE RefuseRecord(r)
      BY <2>0, <3>3 DEF RefuseRecord, Passed
    <3> QED
      BY <1>5, <3>1, <3>2, <3>3
  <2>4. JobType[j] = "initial" => \A k \in Records : k < n => Passed(j, k)'
    BY <1>k, <1>p, <2>0 DEF RunnerPassed
  <2>5. \A k \in Records : k < n + 1 => k < n \/ k = n
    BY SMTT(30), <2>0, NumbersNat DEF Records
  <2>6. RunnerPassed(r)'
    BY <2>0, <2>2, <2>3, <2>4, <2>5 DEF RunnerPassed
  <2> QED
    BY <1>2, <2>1, <2>6
<1>6. ASSUME NEW r \in Runners, UpdateSyncJobProgress(r) PROVE \A s \in Runners : RunnerPassed(s)'
  <2>0. PICK j \in Jobs, c \in 0 .. NumRecords, n \in Nat :
          /\ j = runner[r].job /\ c = runner[r].cursor /\ n = runner[r].next
          /\ runner[r].pc = "page" /\ n > PageEnd(c)
    BY SMTT(30), <1>0, <1>6, BusyJob, NumbersNat DEF UpdateSyncJobProgress, RunnerState
  <2> DEFINE m == IF HasMore(c) THEN PageEnd(c) ELSE 0
  <2>1. /\ runner'[r].job = j /\ runner'[r].next = m + 1
        /\ runner'[r].pc = IF HasMore(c) THEN "page" ELSE "finish"
        /\ \A s \in Runners \ {r} : runner'[s] = runner[s]
    BY <1>0, <1>6, <2>0 DEF UpdateSyncJobProgress, RunnerState
  <2>2. JobType[j] = "initial" => \A k \in Records : k < n => Passed(j, k)'
    BY <1>k, <1>p, <2>0 DEF RunnerPassed
  <2>3. /\ \A k \in Records : k < m + 1 => k < n
        /\ ~HasMore(c) => \A k \in Records : k < n
    BY SMTT(30), <2>0, PageEndRange, LastPage, NumbersNat DEF Records
  <2> HIDE DEF m
  <2>4. RunnerPassed(r)'
    BY <2>0, <2>1, <2>2, <2>3 DEF RunnerPassed
  <2> QED
    BY <1>2, <2>1, <2>4
<1>7. ASSUME NEW r \in Runners, CallFails(r) \/ CloseRun(r) \/ FinishReconciliationRun(r)
      PROVE  \A s \in Runners : RunnerPassed(s)'
  <2>1. /\ runner[r].pc \in {"page", "walk", "close"} /\ runner'[r].job = runner[r].job
        /\ runner[r].pc = "page" => runner'[r].pc = "abort"
        /\ runner'[r].pc \in {"close", "abort", "finish"}
        /\ \A s \in Runners \ {r} : runner'[s] = runner[s]
    BY SMTT(30), <1>0, <1>7 DEF CallFails, CloseRun, FinishReconciliationRun, RunnerState
  <2>2. RunnerPassed(r)'
    BY <1>k, <1>p, <2>1 DEF RunnerPassed
  <2> QED
    BY <1>2, <2>1, <2>2
<1>8. ASSUME NEW r \in Runners, AbortJob(r) \/ FinishSyncJob(r) \/ CrashRunner(r)
      PROVE  \A s \in Runners : RunnerPassed(s)'
  <2>1. runner'[r].pc = "idle" /\ \A s \in Runners \ {r} : runner'[s] = runner[s]
    BY SMTT(30), <1>0, <1>8 DEF AbortJob, FinishSyncJob, CrashRunner, Idle
  <2> QED
    BY <1>2, <2>1 DEF RunnerPassed
<1>9. ASSUME NEW r \in Runners, GetReconciliationRunByJobID(r) PROVE \A s \in Runners : RunnerPassed(s)'
  <2>1. /\ runner[r].pc = "sweep"
        /\ runner'[r].pc = "idle" \/ runner'[r].job = runner[r].job
        /\ \A s \in Runners \ {r} : runner'[s] = runner[s]
    BY <1>0, <1>9 DEF GetReconciliationRunByJobID, RunnerState, Idle
  <2>2. RunnerPassed(r)'
    BY <1>p, <2>1 DEF RunnerPassed
  <2> QED
    BY <1>2, <2>1, <2>2
<1>10. ASSUME NEW j \in Jobs,
              CreateSyncJob(j) \/ CreateReconciliationRun(j) \/ Age(j) \/ GetJobForRerun(j) \/ ReopenJob(j)
       PROVE  runner' = runner
  BY <1>10 DEF CreateSyncJob, CreateReconciliationRun, Age, GetJobForRerun, ReopenJob
<1>11. CASE UNCHANGED vars
  BY <1>1, <1>11 DEF vars
<1> QED
  BY <1>1, <1>3, <1>4, <1>5, <1>6, <1>7, <1>8, <1>9, <1>10, <1>11 DEF Next, RunnerStep
-----------------------------------------------------------------------------
\* The theorems

\* The invariant holds throughout.
LEMMA JobsInvariant == Spec => []JobsInv
<1>1. JobsInv /\ [Next]_vars => JobsInv'
  BY StepTyped, StepHeld, StepRows, StepRunners, StepOrphans DEF JobsInv
<1> QED
  BY <1>1, InitInv, PTL DEF Spec

\* A record is applied at most once per job, whichever runners crash, adopt the
\* job or repeat a page: Process is reached through ClaimRecord only, and no step
\* releases the claim of an applied record.
THEOREM RecordsAppliedOnce == Spec => []AppliedOnce
<1>1. JobsInv => AppliedOnce
  BY SMTT(30) DEF JobsInv, AppliedClaimed, AppliedOnce
<1> QED
  BY <1>1, JobsInvariant, PTL

\* The records a checkpoint or a completed job has left behind unhandled are at
\* most as many as the crashes: everything behind a checkpoint was passed, and
\* what was passed without an outcome is a claim some crash has orphaned.
THEOREM CrashesSkipOneEach == Spec => []CrashSkipsOne
<1>1. ASSUME JobsInv PROVE Skipped \subseteq Orphans
  <2>1. ASSUME NEW x \in Skipped PROVE x \in Orphans
    <3>1. PICK j \in Jobs, k \in Records : x = <<j, k>>
      BY SMTT(30) DEF Skipped
    <3>2. /\ JobType[j] = "initial" /\ ~InFlight(j, k) /\ ~Accounted(j, k)
          /\ k <= row[j].cursor \/ row[j].status = "completed"
      BY <3>1 DEF Skipped
    <3>3. Passed(j, k)
      BY <1>1, <3>2 DEF JobsInv, RowsPassed
    <3>4. x \in claims /\ applied[x] = 0
      BY <1>1, <3>1, <3>2, <3>3 DEF Passed, Accounted, JobsInv, AppliedClaimed
    <3> QED
      BY <3>1, <3>2, <3>4 DEF Orphans
  <2> QED
    BY <2>1
<1>2. ASSUME JobsInv PROVE CrashSkipsOne
  <2>1. IsFiniteSet(Skipped) /\ Cardinality(Skipped) <= Cardinality(Orphans)
    BY <1>1, <1>2, FS_Subset DEF JobsInv, OrphansPaidFor
  <2>2. Cardinality(Skipped) \in Nat /\ Cardinality(Orphans) \in Nat /\ crashes \in Nat
    BY SMTT(30), <1>2, <2>1, FS_CardinalityType, NumbersNat DEF JobsInv, OrphansPaidFor, TypeOK
  <2> QED
    BY SMTT(30), <1>2, <2>1, <2>2 DEF JobsInv, OrphansPaidFor, CrashSkipsOne
<1> QED
  BY <1>2, JobsInvariant, PTL

=============================================================================
