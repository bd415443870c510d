--------------------------- MODULE ReconcileSweep ----------------------------
(***************************************************************************)
(* One reconciliation run: reconcile.Engine walks the provider page by     *)
(* page, classifies each record against the canonical model, records the   *)
(* divergences and in auto mode repairs them, then looks for canonical     *)
(* records it never saw. Users edit meanwhile and the pipeline ingests.    *)
(* A repair is one step here; FindingLifecycle has its steps. A run that   *)
(* aborts is SyncJobs' business. Left out: invalid records, and the        *)
(* webhooks of the engine's own writes, echoes that CanonicalApply has.    *)
(* A re-created record keeps its place in the listing.                     *)
(***************************************************************************)
EXTENDS Integers, ReconcileRules

CONSTANTS NumRecords,    \* entities, at the provider in id order
          Values,        \* field values; 0 is "no record"
          BatchSize,
          Modes,         \* modes a run may have, "auto" and "manual"
          PolicySets,    \* sync policies a tenant may have, in ListPolicies order
          Source,        \* the provider swept
          MaxEdits,      \* bound: user edits
          MaxLost,       \* bound: events lost to a crash after their claim
          MaxFaults,     \* bound: records or repairs that fail
          MaxCrashes     \* bound: crashes of the engine

Ids == 1 .. NumRecords

ASSUME SweepAssumption ==
    /\ NumRecords \in Nat /\ BatchSize \in Nat \ {0}
    /\ Values \subseteq Nat \ {0}
    /\ Modes \subseteq {"auto", "manual"}
    /\ \A p \in PolicySets : \A k \in DOMAIN p : p[k].deletePolicy \in DeletePolicies
    /\ {MaxEdits, MaxLost, MaxFaults, MaxCrashes} \subseteq Nat

VARIABLES mode, policies, \* of the run and its tenant
          provider,   \* id -> value the provider serves, 0 when absent or deleted
          version,    \* id -> the provider's version of the record
          copies,     \* id -> live provider records made of this entity
          canonical,  \* id -> canonical value, 0 when there is no row
          known,      \* id -> source_versions[Source] of the canonical row
          tombstone,  \* ids whose canonical row is tombstoned
          inflight,   \* id -> value of the webhook event on its way, 0 if none
          carried,    \* id -> provider version that event carries
          edited,     \* id -> the last value a user gave it, 0 if none
          ingested,   \* ids whose last edit the pipeline has applied
          cursor,     \* sync_jobs.cursor
          findings,   \* <<kind, id>> in reconciliation_findings
          broken,     \* ids whose record or repair failed
          pc, page, listed, pos, seen, todo,   \* Run's locals; listed: versions of the page
          edits, lost, faults, crashes

data   == <<mode, policies, provider, version, copies, canonical, known, tombstone>>
users  == <<inflight, carried, edited, ingested>>
locals == <<pc, page, listed, pos, seen, todo>>
counts == <<edits, lost, faults, crashes>>
vars   == <<data, users, cursor, findings, broken, locals, counts>>

Cells == [Ids -> Values \cup {0}]

TypeOK ==
    /\ mode \in Modes /\ policies \in PolicySets
    /\ {provider, canonical, inflight, edited, page} \subseteq Cells
    /\ {version, copies, known, carried, listed} \subseteq [Ids -> Nat]
    /\ {tombstone, ingested, seen, todo, broken} \subseteq SUBSET Ids
    /\ cursor \in 0 .. NumRecords /\ pos \in 1 .. NumRecords + 1
    /\ findings \subseteq Kinds \X Ids
    /\ pc \in {"list", "walk", "missing", "done"}
    /\ edits \in 0 .. MaxEdits /\ lost \in 0 .. MaxLost
    /\ faults \in 0 .. MaxFaults /\ crashes \in 0 .. MaxCrashes

Init ==
    /\ mode \in Modes /\ policies \in PolicySets
    /\ provider \in Cells /\ canonical \in Cells
    /\ tombstone \in SUBSET {i \in Ids : canonical[i] # 0}
    /\ copies = [i \in Ids |-> IF provider[i] = 0 THEN 0 ELSE 1]
    /\ version = [i \in Ids |-> 1] /\ known = [i \in Ids |-> 0]
    /\ inflight = [i \in Ids |-> 0] /\ carried = [i \in Ids |-> 0]
    /\ edited = [i \in Ids |-> 0] /\ ingested = {}
    /\ cursor = 0 /\ findings = {} /\ broken = {}
    /\ pc = "list" /\ page = [i \in Ids |-> 0] /\ listed = page
    /\ pos = 1 /\ seen = {} /\ todo = {}
    /\ edits = 0 /\ lost = 0 /\ faults = 0 /\ crashes = 0

-----------------------------------------------------------------------------
\* Environment: a user edits a live record, and the provider sends a webhook.
UserEdit(i, v) ==
    /\ edits < MaxEdits
    /\ provider[i] \notin {0, v}
    /\ provider' = [provider EXCEPT ![i] = v]
    /\ version' = [version EXCEPT ![i] = @ + 1]
    /\ inflight' = [inflight EXCEPT ![i] = v]
    /\ carried' = [carried EXCEPT ![i] = version[i] + 1]
    /\ edited' = [edited EXCEPT ![i] = v]
    /\ ingested' = ingested \ {i}
    /\ edits' = edits + 1
    /\ UNCHANGED <<mode, policies, copies, canonical, known, tombstone, cursor, findings, broken, locals, lost, faults, crashes>>

\* The worker applies the event, or drops it as stale.
Ingest(i) ==
    /\ inflight[i] # 0
    /\ inflight' = [inflight EXCEPT ![i] = 0]
    /\ \/ /\ carried[i] > known[i]
          /\ canonical' = [canonical EXCEPT ![i] = inflight[i]]
          /\ known' = [known EXCEPT ![i] = carried[i]]
          /\ tombstone' = tombstone \ {i}
          /\ ingested' = ingested \cup {i}
       \/ /\ carried[i] <= known[i]
          /\ UNCHANGED <<canonical, known, tombstone, ingested>>
    /\ UNCHANGED <<mode, policies, provider, version, copies, carried, edited, cursor, findings, broken, locals, counts>>

\* A worker claims the event and crashes: every redelivery is a duplicate.
LoseEvent(i) ==
    /\ inflight[i] # 0
    /\ lost < MaxLost
    /\ lost' = lost + 1
    /\ inflight' = [inflight EXCEPT ![i] = 0]
    /\ UNCHANGED <<data, carried, edited, ingested, cursor, findings, broken, locals, edits, faults, crashes>>

-----------------------------------------------------------------------------
PageEnd == IF cursor + BatchSize <= NumRecords THEN cursor + BatchSize ELSE NumRecords
HasMore == cursor + BatchSize <= NumRecords

Policy == deletePolicyFor(policies, Source)

\* The Update or, for a missing record, the Create of a push.
PushCanonical(kind, i) ==
    /\ UNCHANGED <<mode, policies>>
    /\ provider' = [provider EXCEPT ![i] = canonical[i]]
    /\ version' = [version EXCEPT ![i] = IF kind = "missing" THEN 1 ELSE @ + 1]
    /\ copies' = [copies EXCEPT ![i] = IF kind = "missing" THEN @ + 1 ELSE @]

\* applyReconcileFinding, as one step.
Repair(kind, i) ==
    CASE reconcileDirection(kind) = "delete" ->
            /\ provider' = [provider EXCEPT ![i] = 0]
            /\ version' = [version EXCEPT ![i] = @ + 1]
            /\ copies' = [copies EXCEPT ![i] = @ - 1]
            /\ UNCHANGED <<mode, policies, canonical, known, tombstone>>
      [] reconcileDirection(kind) = "adopt_provider" ->
            /\ canonical' = [canonical EXCEPT ![i] = page[i]]
            /\ known' = [known EXCEPT ![i] = listed[i]]
            /\ tombstone' = tombstone \ {i}
            /\ UNCHANGED <<mode, policies, provider, version, copies>>
      [] OTHER ->
            /\ PushCanonical(kind, i)
            /\ known' = [known EXCEPT ![i] = version'[i]]
            /\ tombstone' = tombstone \ {i}
            /\ UNCHANGED canonical

\* record: an auto run repairs what it finds if the policy allows it. The row of
\* an earlier detection is left alone, unless its repair failed and it is still
\* pending. The insert or the repair may fail, the latter also after the
\* provider was written, and the sweep goes on.
Record(kind, i) ==
    LET auto == mode = "auto" /\ repairable(kind, Policy)
        new  == <<kind, i>> \notin findings
    IN
    \/ /\ findings' = findings \cup {<<kind, i>>}
       /\ \/ auto /\ (new \/ i \in broken) /\ Repair(kind, i)
          \/ ~(auto /\ new) /\ UNCHANGED data
       /\ UNCHANGED <<broken, faults>>
    \/ /\ faults < MaxFaults
       /\ faults' = faults + 1
       /\ broken' = broken \cup {i}
       /\ \/ findings' \in {findings, findings \cup {<<kind, i>>}} /\ UNCHANGED data
          \/ /\ auto /\ (new \/ i \in broken) /\ reconcileDirection(kind) = "push_canonical"
             /\ findings' = findings \cup {<<kind, i>>}
             /\ PushCanonical(kind, i)
             /\ UNCHANGED <<canonical, known, tombstone>>

\* Mutated form of ListPage: the walk starts one record late.
ListPageAfter ==
    /\ pc = "list"
    /\ page' = provider /\ listed' = version
    /\ pos' = cursor + 2
    /\ pc' = "walk"
    /\ UNCHANGED <<data, users, cursor, findings, broken, seen, todo, counts>>

ListPage ==
    /\ pc = "list"
    /\ page' = provider /\ listed' = version
    /\ pos' = cursor + 1
    /\ pc' = "walk"
    /\ UNCHANGED <<data, users, cursor, findings, broken, seen, todo, counts>>

WalkRecord ==
    LET kind == classify(canonical[pos] # 0, pos \in tombstone, canonical[pos] = page[pos]) IN
    /\ pc = "walk"
    /\ pos <= PageEnd
    /\ pos' = pos + 1
    /\ \/ page[pos] = 0 /\ UNCHANGED <<data, findings, broken, seen, faults>>
       \/ page[pos] # 0 /\ kind = "" /\ seen' = seen \cup {pos}
          /\ UNCHANGED <<data, findings, broken, faults>>
       \/ page[pos] # 0 /\ kind # "" /\ seen' = seen \cup {pos} /\ Record(kind, pos)
    /\ UNCHANGED <<users, cursor, pc, page, listed, todo, edits, lost, crashes>>

\* Mutated form of Checkpoint: the cursor does not move.
CheckpointInPlace ==
    /\ pc = "walk"
    /\ pos > PageEnd
    /\ pc' = IF HasMore THEN "list" ELSE "missing"
    /\ todo' = IF HasMore THEN {}
               ELSE {i \in Ids : canonical[i] # 0 /\ i \notin tombstone \cup seen}
    /\ UNCHANGED <<data, users, cursor, findings, broken, page, listed, pos, seen, counts>>

\* Mutated form of Checkpoint: nothing is looked for after the last page.
CheckpointOnly ==
    /\ pc = "walk"
    /\ pos > PageEnd
    /\ cursor' = IF HasMore THEN PageEnd ELSE 0
    /\ pc' = IF HasMore THEN "list" ELSE "missing"
    /\ todo' = {}
    /\ UNCHANGED <<data, users, findings, broken, page, listed, pos, seen, counts>>

\* The checkpoint; after the last page, the canonical records never seen.
Checkpoint ==
    /\ pc = "walk"
    /\ pos > PageEnd
    /\ cursor' = IF HasMore THEN PageEnd ELSE 0
    /\ pc' = IF HasMore THEN "list" ELSE "missing"
    /\ todo' = IF HasMore THEN {}
               ELSE {i \in Ids : canonical[i] # 0 /\ i \notin tombstone \cup seen}
    /\ UNCHANGED <<data, users, findings, broken, page, listed, pos, seen, counts>>

RecordMissing(i) ==
    /\ pc = "missing"
    /\ i \in todo
    /\ todo' = todo \ {i}
    /\ Record("missing", i)
    /\ UNCHANGED <<users, cursor, pc, page, listed, pos, seen, edits, lost, crashes>>

FinishRun ==
    /\ pc = "missing"
    /\ todo = {}
    /\ pc' = "done"
    /\ UNCHANGED <<data, users, cursor, findings, broken, page, listed, pos, seen, todo, counts>>

\* The engine dies; a runner adopts the job and resumes from the cursor.
CrashAndResume ==
    /\ pc # "done"
    /\ crashes < MaxCrashes
    /\ crashes' = crashes + 1
    /\ pc' = "list" /\ seen' = {} /\ todo' = {} /\ pos' = 1 /\ page' = [i \in Ids |-> 0] /\ listed' = page'
    /\ UNCHANGED <<data, users, cursor, findings, broken, edits, lost, faults>>

EngineStep ==
    \/ ListPage \/ WalkRecord \/ Checkpoint \/ FinishRun
    \/ \E i \in Ids : RecordMissing(i)

Next ==
    \/ EngineStep
    \/ CrashAndResume
    \/ \E i \in Ids : Ingest(i) \/ LoseEvent(i) \/ \E v \in Values : UserEdit(i, v)

Spec == Init /\ [][Next]_vars

\* The engine's calls return, and a crashed run is adopted.
FairSpec == Spec /\ WF_vars(EngineStep)

-----------------------------------------------------------------------------
\* The divergences by definition: the value a record has on each side, tombstones
\* counted as absent.
Diverging(kind, i) ==
    CASE kind = "missed"  -> provider[i] # 0 /\ canonical[i] = 0
      [] kind = "deleted" -> provider[i] # 0 /\ i \in tombstone
      [] kind = "drift"   -> provider[i] # 0 /\ i \notin tombstone /\ canonical[i] \notin {0, provider[i]}
      [] kind = "missing" -> provider[i] = 0 /\ canonical[i] # 0 /\ i \notin tombstone

\* A manual sweep over quiet data reports every divergence, also when it is
\* crashed and resumed at any point (engine.go:22-24).
SweepComplete ==
    (pc = "done" /\ mode = "manual" /\ edits = 0) =>
        \A kind \in Kinds, i \in Ids :
            Diverging(kind, i) => <<kind, i>> \in findings \/ i \in broken

\* engine.go:164-166: what a manual sweep over quiet data reports is a divergence.
SweepSound == \A f \in findings : Diverging(f[1], f[2])

\* What a manual sweep over quiet data reports is a divergence; a crash adds at
\* most false reports of missing records, of those on the pages before it
\* (engine.go:87, the seen ids are the run's locals).
FalseReportsExplained ==
    (mode = "manual" /\ edits = 0) =>
        \A f \in findings : Diverging(f[1], f[2]) \/ (crashes > 0 /\ f[1] = "missing")

\* After an auto sweep over quiet data the two sides agree on every record,
\* except where the delete policy forbids the repair or the repair failed.
SweepConverges ==
    (pc = "done" /\ mode = "auto" /\ edits = 0) =>
        \A kind \in Kinds, i \in Ids :
            Diverging(kind, i) => ~repairable(kind, Policy) \/ i \in broken

\* Repairing creates no second provider record for an entity (architecture.md:195,
\* "All repairs run through the worker with deterministic event ids (exactly-once)").
NoDuplicates == \A i \in Ids : copies[i] <= 1

\* A sweep among user edits and failing calls creates no second provider record
\* for an entity, unless it is resumed after a crash under a policy that creates
\* missing records again (engine.go:176, shouldRecreateMissing).
DuplicatesNeedCrash == (crashes = 0 \/ Policy = "propagate") => NoDuplicates

\* The sweep overwrites on neither side the value of an edit the pipeline has
\* applied, also when it listed the page before the edit (engine.go:120 and
\* worker.go:777 read the canonical record when they get to it).
IngestedEditKept ==
    [][EngineStep => \A i \in ingested :
           /\ provider[i] = edited[i] => provider'[i] = edited[i]
           /\ canonical[i] = edited[i] => canonical'[i] = edited[i]]_vars

\* A started run finishes, whatever crashes it meets on the way.
SweepFinishes == <>(pc = "done")

=============================================================================
