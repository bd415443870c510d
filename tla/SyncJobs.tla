------------------------------ MODULE SyncJobs -------------------------------
(***************************************************************************)
(* The job runners (syncjob.Runner) and the sync_jobs table: claiming a    *)
(* job, walking the provider page by page through Process, the checkpoint  *)
(* after each page, abort, crash and adoption, and the operator's rerun.   *)
(* A reconcile job comes with a reconciliation_runs row; the walk of its   *)
(* sweep is one step here, ReconcileSweep has its steps.                   *)
(***************************************************************************)
EXTENDS Naturals, Sequences, FiniteSets

CONSTANTS Runners,
          JobType,       \* <<type of job 1, type of job 2, ...>>, oldest first
          NumRecords,    \* records at the provider, in id order
          Malformed,     \* records that fail Validate
          Deleted,       \* records the provider has soft-deleted
          BatchSize,
          Aging,         \* whether a job may run for more than 60 seconds
          MaxFaults,     \* bound: failed calls
          MaxCrashes,    \* bound: runner crashes
          MaxReruns,     \* bound: operator reruns
          MaxCount       \* bound: the job's counters

Jobs    == DOMAIN JobType
Records == 1 .. NumRecords

ASSUME JobsAssumption ==
    /\ JobType \in Seq({"initial", "reconcile"})
    /\ NumRecords \in Nat /\ BatchSize \in Nat \ {0}
    /\ Malformed \subseteq Records /\ Deleted \subseteq Records
    /\ Aging \in BOOLEAN
    /\ {MaxFaults, MaxCrashes, MaxReruns, MaxCount} \subseteq Nat

VARIABLES row,       \* sync_jobs, per job; cursor 0 is NULL
          run,       \* reconciliation_runs.status, per reconcile job
          starting,  \* jobs whose run row the API is about to insert
          claims,    \* processed_events: the <<job, record>> of jobsync:<job>:<record>
          applied,   \* <<job, record>> -> times Process applied it
          refused,   \* <<job, record>> counted as failed and only logged
          dlq,       \* <<job, record>> in dead_letter
          runner,    \* per runner: control point, job, and execute's locals
          reopening, \* jobs an operator's rerun has read as not running
          faults, crashes, reruns

vars == <<row, run, starting, claims, applied, refused, dlq, runner, reopening, faults, crashes, reruns>>

Idle == [pc |-> "idle", job |-> 0, cursor |-> 0, next |-> 1, processed |-> 0, failed |-> 0]

RowState ==
    [status : {"none", "pending", "running", "completed", "failed"},
     started : {"never", "recently", "long ago"},
     cursor : 0 .. NumRecords, processed : Nat, failed : Nat]

RunnerState ==
    [pc : {"idle", "mark", "page", "apply", "finish", "sweep", "walk", "close", "abort"},
     job : Jobs \cup {0}, cursor : 0 .. NumRecords, next : 1 .. NumRecords + 1,
     processed : Nat, failed : Nat]

TypeOK ==
    /\ row \in [Jobs -> RowState]
    /\ run \in [Jobs -> {"none", "running", "finished"}]
    /\ starting \subseteq Jobs
    /\ claims \subseteq Jobs \X Records /\ refused \subseteq Jobs \X Records /\ dlq \subseteq Jobs \X Records
    /\ applied \in [Jobs \X Records -> Nat]
    /\ runner \in [Runners -> RunnerState]
    /\ reopening \subseteq Jobs
    /\ faults \in 0 .. MaxFaults /\ crashes \in 0 .. MaxCrashes /\ reruns \in 0 .. MaxReruns

Init ==
    /\ row = [j \in Jobs |-> [status |-> "none", started |-> "never", cursor |-> 0,
                              processed |-> 0, failed |-> 0]]
    /\ run = [j \in Jobs |-> "none"] /\ starting = {} /\ claims = {} /\ refused = {} /\ dlq = {}
    /\ applied = [jr \in Jobs \X Records |-> 0]
    /\ runner = [r \in Runners |-> Idle]
    /\ reopening = {}
    /\ faults = 0 /\ crashes = 0 /\ reruns = 0

-----------------------------------------------------------------------------

\* The provider's page after a cursor. A full page reports more, also when it is
\* the last.
PageEnd(c) == IF c + BatchSize <= NumRecords THEN c + BatchSize ELSE NumRecords
HasMore(c) == c + BatchSize <= NumRecords

\* Bound: the processed and failed counters stop here; nothing but ProgressHonest
\* reads them.
Count(n) == IF n < MaxCount THEN n + 1 ELSE n

\* handleCreateSyncJob, and the first insert of handleCreateReconciliation.
CreateSyncJob(j) ==
    /\ row[j].status = "none"
    /\ \A k \in Jobs : k < j => row[k].status # "none"
    /\ row' = [row EXCEPT ![j].status = "pending"]
    /\ starting' = IF JobType[j] = "reconcile" THEN starting \cup {j} ELSE starting
    /\ UNCHANGED <<run, claims, applied, refused, dlq, runner, reopening, faults, crashes, reruns>>

\* The run row comes after the job, or not at all.
CreateReconciliationRun(j) ==
    /\ j \in starting
    /\ starting' = starting \ {j}
    /\ \/ run' = [run EXCEPT ![j] = "running"] /\ UNCHANGED faults
       \/ faults < MaxFaults /\ faults' = faults + 1 /\ UNCHANGED run
    /\ UNCHANGED <<row, claims, applied, refused, dlq, runner, reopening, crashes, reruns>>

\* A running job comes to have started more than 60 seconds ago.
Age(j) ==
    /\ Aging
    /\ row[j].started = "recently"
    /\ row' = [row EXCEPT ![j].started = "long ago"]
    /\ UNCHANGED <<run, starting, claims, applied, refused, dlq, runner, reopening, faults, crashes, reruns>>

\* handleRerunSyncJob refuses a running job, then reopens it, cursor and
\* counters kept.
GetJobForRerun(j) ==
    /\ row[j].status \notin {"none", "running"}
    /\ reruns < MaxReruns
    /\ reruns' = reruns + 1
    /\ reopening' = reopening \cup {j}
    /\ UNCHANGED <<row, run, starting, claims, applied, refused, dlq, runner, faults, crashes>>

ReopenJob(j) ==
    /\ j \in reopening
    /\ reopening' = reopening \ {j}
    /\ row' = [row EXCEPT ![j].status = "pending"]
    /\ UNCHANGED <<run, starting, claims, applied, refused, dlq, runner, faults, crashes, reruns>>

-----------------------------------------------------------------------------

\* Mutated form of Runnable: a stale running job is not adopted.
RunnablePending(j) == row[j].status = "pending"

\* What the claim query selects; it names a status 'paused' too, which no code sets.
Runnable(j) ==
    \/ row[j].status = "pending"
    \/ row[j].status = "running" /\ row[j].started = "long ago"

\* ClaimNextSyncJob selects the oldest runnable job; the row lock ends with the
\* select, and a second statement marks the job running.
SelectJob(r) ==
    /\ runner[r].pc = "idle"
    /\ \E j \in Jobs :
          /\ Runnable(j) /\ \A k \in Jobs : k < j => ~Runnable(k)
          /\ runner' = [runner EXCEPT ![r] =
                [pc |-> "mark", job |-> j, cursor |-> row[j].cursor, next |-> row[j].cursor + 1,
                 processed |-> row[j].processed, failed |-> row[j].failed]]
    /\ UNCHANGED <<row, run, starting, claims, applied, refused, dlq, reopening, faults, crashes, reruns>>

\* started_at is set once and never refreshed.
MarkRunning(r) ==
    LET j == runner[r].job IN
    /\ runner[r].pc = "mark"
    /\ row' = [row EXCEPT ![j].status = "running",
                          ![j].started = IF @ = "never" THEN "recently" ELSE @]
    /\ runner' = [runner EXCEPT ![r].pc = IF JobType[j] = "reconcile" THEN "sweep" ELSE "page"]
    /\ UNCHANGED <<run, starting, claims, applied, refused, dlq, reopening, faults, crashes, reruns>>

\* The loop over a page: skip deleted, dead-letter malformed (a failing insert is
\* only logged), and claim the record's event; one claimed before is done already.
ClaimRecord(r) ==
    LET jr == <<runner[r].job, runner[r].next>> IN
    /\ runner[r].pc = "page"
    /\ runner[r].next <= PageEnd(runner[r].cursor)
    /\ \/ /\ runner[r].next \in Deleted
          /\ runner' = [runner EXCEPT ![r].next = @ + 1]
          /\ UNCHANGED <<claims, dlq, refused, faults>>
       \/ /\ runner[r].next \in Malformed \ Deleted
          /\ \/ dlq' = dlq \cup {jr} /\ UNCHANGED <<refused, faults>>
             \/ /\ faults < MaxFaults /\ faults' = faults + 1
                /\ refused' = refused \cup {jr} /\ UNCHANGED dlq
          /\ runner' = [runner EXCEPT ![r].next = @ + 1, ![r].failed = Count(@)]
          /\ UNCHANGED claims
       \/ /\ runner[r].next \notin Malformed \cup Deleted /\ jr \in claims
          /\ runner' = [runner EXCEPT ![r].next = @ + 1, ![r].processed = Count(@)]
          /\ UNCHANGED <<claims, dlq, refused, faults>>
       \/ /\ runner[r].next \notin Malformed \cup Deleted /\ jr \notin claims
          /\ claims' = claims \cup {jr}
          /\ runner' = [runner EXCEPT ![r].pc = "apply"]
          /\ UNCHANGED <<dlq, refused, faults>>
    /\ UNCHANGED <<row, run, starting, applied, reopening, crashes, reruns>>

\* Mutated form of ApplyRecord: the claim is released after success as well.
ApplyAndRelease(r) ==
    LET jr == <<runner[r].job, runner[r].next>> IN
    /\ runner[r].pc = "apply"
    /\ applied' = [applied EXCEPT ![jr] = @ + 1]
    /\ claims' = claims \ {jr}
    /\ runner' = [runner EXCEPT ![r].pc = "page", ![r].next = @ + 1, ![r].processed = Count(@)]
    /\ UNCHANGED <<row, run, starting, refused, dlq, reopening, faults, crashes, reruns>>

ApplyRecord(r) ==
    LET jr == <<runner[r].job, runner[r].next>> IN
    /\ runner[r].pc = "apply"
    /\ applied' = [applied EXCEPT ![jr] = @ + 1]
    /\ runner' = [runner EXCEPT ![r].pc = "page", ![r].next = @ + 1, ![r].processed = Count(@)]
    /\ UNCHANGED <<row, run, starting, claims, refused, dlq, reopening, faults, crashes, reruns>>

\* Process failed: the claim is released, the record counted and passed by.
RefuseRecord(r) ==
    LET jr == <<runner[r].job, runner[r].next>> IN
    /\ runner[r].pc = "apply"
    /\ faults < MaxFaults
    /\ faults' = faults + 1
    /\ claims' = claims \ {jr}
    /\ refused' = refused \cup {jr}
    /\ runner' = [runner EXCEPT ![r].pc = "page", ![r].next = @ + 1, ![r].failed = Count(@)]
    /\ UNCHANGED <<row, run, starting, applied, dlq, reopening, crashes, reruns>>

\* Mutated form of UpdateSyncJobProgress: the cursor moves before the page is done.
CheckpointEarly(r) ==
    LET c == runner[r].cursor
        n == IF HasMore(c) THEN PageEnd(c) ELSE 0 IN
    /\ runner[r].pc = "page"
    /\ row' = [row EXCEPT ![runner[r].job].cursor = n,
                          ![runner[r].job].processed = runner[r].processed,
                          ![runner[r].job].failed = runner[r].failed]
    /\ runner' = [runner EXCEPT ![r].pc = IF HasMore(c) THEN "page" ELSE "finish",
                                ![r].cursor = n, ![r].next = n + 1]
    /\ UNCHANGED <<run, starting, claims, applied, refused, dlq, reopening, faults, crashes, reruns>>

\* The checkpoint after a page; the last page clears the cursor.
UpdateSyncJobProgress(r) ==
    LET c == runner[r].cursor
        n == IF HasMore(c) THEN PageEnd(c) ELSE 0 IN
    /\ runner[r].pc = "page"
    /\ runner[r].next > PageEnd(c)
    /\ row' = [row EXCEPT ![runner[r].job].cursor = n,
                          ![runner[r].job].processed = runner[r].processed,
                          ![runner[r].job].failed = runner[r].failed]
    /\ runner' = [runner EXCEPT ![r].pc = IF HasMore(c) THEN "page" ELSE "finish",
                                ![r].cursor = n, ![r].next = n + 1]
    /\ UNCHANGED <<run, starting, claims, applied, refused, dlq, reopening, faults, crashes, reruns>>

\* List or the checkpoint failed; for a reconcile job, any step of its walk.
CallFails(r) ==
    /\ \/ runner[r].pc = "page" /\ runner[r].next = runner[r].cursor + 1
       \/ runner[r].pc = "page" /\ runner[r].next > PageEnd(runner[r].cursor)
       \/ runner[r].pc = "walk"
    /\ faults < MaxFaults
    /\ faults' = faults + 1
    /\ runner' = [runner EXCEPT ![r].pc = IF @ = "walk" THEN "close" ELSE "abort"]
    /\ UNCHANGED <<row, run, starting, claims, applied, refused, dlq, reopening, crashes, reruns>>

\* The reconcile engine's abort closes the run first, if it finds one.
CloseRun(r) ==
    LET j == runner[r].job IN
    /\ runner[r].pc = "close"
    /\ run' = [run EXCEPT ![j] = IF @ = "none" THEN @ ELSE "finished"]
    /\ runner' = [runner EXCEPT ![r].pc = "abort"]
    /\ UNCHANGED <<row, starting, claims, applied, refused, dlq, reopening, faults, crashes, reruns>>

AbortJob(r) ==
    /\ runner[r].pc = "abort"
    /\ row' = [row EXCEPT ![runner[r].job].status = "failed"]
    /\ runner' = [runner EXCEPT ![r] = Idle]
    /\ UNCHANGED <<run, starting, claims, applied, refused, dlq, reopening, faults, crashes, reruns>>

FinishSyncJob(r) ==
    /\ runner[r].pc = "finish"
    /\ row' = [row EXCEPT ![runner[r].job].status = "completed"]
    /\ runner' = [runner EXCEPT ![r] = Idle]
    /\ UNCHANGED <<run, starting, claims, applied, refused, dlq, reopening, faults, crashes, reruns>>

\* Engine.Run looks its run up: a job without one is aborted, a finished one is
\* skipped and the job left as it is.
GetReconciliationRunByJobID(r) ==
    LET status == run[runner[r].job] IN
    /\ runner[r].pc = "sweep"
    /\ runner' = [runner EXCEPT ![r] = IF status = "finished" THEN Idle
                                       ELSE [@ EXCEPT !.pc = IF status = "none" THEN "close" ELSE "walk"]]
    /\ UNCHANGED <<row, run, starting, claims, applied, refused, dlq, reopening, faults, crashes, reruns>>

\* The end of the walk: the run is finished before the job.
FinishReconciliationRun(r) ==
    /\ runner[r].pc = "walk"
    /\ run' = [run EXCEPT ![runner[r].job] = "finished"]
    /\ runner' = [runner EXCEPT ![r].pc = "finish"]
    /\ UNCHANGED <<row, starting, claims, applied, refused, dlq, reopening, faults, crashes, reruns>>

\* The process dies, or a statement fails where the runner just returns: marking
\* the job running, the lookup of the run, closing the job.
CrashRunner(r) ==
    /\ runner[r].pc # "idle"
    /\ crashes < MaxCrashes
    /\ crashes' = crashes + 1
    /\ runner' = [runner EXCEPT ![r] = Idle]
    /\ UNCHANGED <<row, run, starting, claims, applied, refused, dlq, reopening, faults, reruns>>

RunnerStep(r) ==
    \/ SelectJob(r) \/ MarkRunning(r) \/ ClaimRecord(r) \/ ApplyRecord(r)
    \/ UpdateSyncJobProgress(r) \/ AbortJob(r) \/ FinishSyncJob(r)
    \/ GetReconciliationRunByJobID(r) \/ FinishReconciliationRun(r) \/ CloseRun(r)

Next ==
    \/ \E j \in Jobs : \/ CreateSyncJob(j) \/ CreateReconciliationRun(j)
                      \/ Age(j) \/ GetJobForRerun(j) \/ ReopenJob(j)
    \/ \E r \in Runners : RunnerStep(r) \/ RefuseRecord(r) \/ CallFails(r) \/ CrashRunner(r)

Spec == Init /\ [][Next]_vars

\* Runners keep polling, their calls return, and time passes.
FairSpec ==
    /\ Spec
    /\ \A r \in Runners : WF_vars(RunnerStep(r))
    /\ \A j \in Jobs : WF_vars(Age(j))

-----------------------------------------------------------------------------
\* failure-recovery.md:103-104: the deterministic event id and the worker's claim
\* let a record through once per job, whichever runners crash, adopt the job
\* from one another or repeat a page, and however often it is rerun.
AppliedOnce == \A jr \in Jobs \X Records : applied[jr] <= 1

InFlight(j, k) == \E r \in Runners : runner[r].pc = "apply" /\ runner[r].job = j /\ runner[r].next = k

Accounted(j, k) ==
    \/ k \in Deleted
    \/ <<j, k>> \in dlq \cup refused
    \/ applied[<<j, k>>] = 1

\* A record behind the checkpoint, or of a completed job, that nobody has handled
\* or is handling: resuming will skip it.
Skipped ==
    {jr \in Jobs \X Records :
        /\ JobType[jr[1]] = "initial"
        /\ jr[2] <= row[jr[1]].cursor \/ row[jr[1]].status = "completed"
        /\ ~Accounted(jr[1], jr[2]) /\ ~InFlight(jr[1], jr[2])}

\* The checkpoint moves past a record nobody handled only where a crash left the
\* record's claim behind, so each crash costs at most one record, with any number
\* of runners on the job (runner.go, Process before UpdateSyncJobProgress).
CrashSkipsOne == Cardinality(Skipped) <= crashes

\* README.md:171-173: a crashed job resumes from its checkpoint and skips nothing.
CheckpointCovers == Skipped = {}

\* The job counters never report more records than the provider has
\* (runner.go:110-111, the progress bar's total).
ProgressHonest == \A j \in Jobs : row[j].processed + row[j].failed <= NumRecords

\* A reconcile job that never ends: its run is finished, so that every runner that
\* takes the job puts it back.
Stuck(j) ==
    /\ run[j] = "finished"
    /\ row[j].status \in {"pending", "running"}
    /\ \A r \in Runners : runner[r].job = j => runner[r].pc \in {"mark", "sweep"}

Settled(j) == row[j].status \in {"completed", "failed"}

\* A runner that selected a job before another runner ended it is about to mark it
\* running again.
Reopened(j) == Settled(j) /\ \E r \in Runners : runner[r].pc = "mark" /\ runner[r].job = j

\* The job has ended, and its reconciliation run has too or the job says failed.
Ended(j) == Settled(j) /\ (run[j] = "running" => row[j].status = "failed")

\* Again and again there is a moment when every job has ended together with its
\* reconciliation run, whatever runners crash, fail or take jobs from one another.
\* Only a stuck job, or an older one that two runners take from one another, keeps
\* the runners from a job (ClaimNextSyncJob, abort, Engine.Run).
JobsSettle ==
    []<>\A j \in Jobs :
           row[j].status # "none" =>
               Ended(j) \/ Stuck(j) \/ \E k \in 1 .. j - 1 : Stuck(k) \/ Reopened(k)

\* api/syncjobs.go:18-19: the runner picks up every job that is created, and
\* brings it to an end.
JobSettles ==
    \A j \in Jobs : row[j].status = "pending" ~> row[j].status \in {"completed", "failed"}

=============================================================================
