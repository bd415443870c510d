--------------------------- MODULE CanonicalApply ----------------------------
(***************************************************************************)
(* What applying an event does to the data: the sync worker's applyUpsert  *)
(* and applyDelete between provider records that echo every write back as  *)
(* a webhook, the canonical rows, and the fingerprints of outbound writes. *)
(* All provider records are of one person and share one e-mail, so the     *)
(* identity fallback by e-mail always matches. Webhooks arrive in any      *)
(* order. Delivery, claims and attempts are EventPipeline's business: here *)
(* an event is applied until it succeeds.                                  *)
(***************************************************************************)
EXTENDS Naturals, Sequences, FiniteSets, ConflictRules

CONSTANTS Sources,       \* providers; each one syncs to all the others
          Priority,      \* source_priority of each source's policy
          Strategy,      \* conflict_strategy of every policy
          Values,        \* what the customer's field may hold
          Workers,       \* concurrent calls of Worker.Process
          MaxRecords,    \* bound: records per provider
          MaxEdits,      \* bound: what the providers' users do
          MaxFaults,     \* bound: calls that fail, and events taken while another
                         \* worker is at work
          Starts,        \* start "empty", or "linked": a synchronised record per provider
          MaxHasty,      \* bound: edits that do not wait for the one before
          Reverting,     \* users may set a value that was used before
          Deleting,      \* users may delete records
          Editors        \* sources whose records users change

ASSUME ApplyAssumption ==
    /\ MaxRecords \in Nat /\ MaxEdits \in Nat /\ MaxFaults \in Nat /\ MaxHasty \in Nat
    /\ Workers \subseteq Nat
    /\ Priority \in [Sources -> Nat]
    /\ Values \subseteq Nat /\ 0 \notin Values
    /\ {Reverting, Deleting} \subseteq BOOLEAN
    /\ Editors \subseteq Sources /\ Starts \subseteq {"empty", "linked"}

VARIABLES records,   \* per provider, the records by id
          inbox,     \* webhooks on their way to the worker
          canonical, \* canonical_records by entity id
          outbound,  \* outbound_writes: value last written, by entity and target
          job,       \* what each worker is applying
          clock,     \* number of provider mutations: the providers' clock
          edits,     \* number of user edits so far
          used,      \* values users have set
          hasty,     \* number of edits that did not wait for the one before to
                     \* settle, or that set a value used before
          overlaps,  \* number of events taken while another worker was at work
          faults     \* injected failures so far

vars == <<records, inbox, canonical, outbound, job, clock, edits, used, hasty, overlaps, faults>>

Ids     == 1 .. MaxRecords
\* entity_id is the id of the first provider record seen.
Keys    == Sources \X Ids
NoRow   == [version |-> 0]
Idle    == [pc |-> "idle"]
NoFields == [f \in {} |-> 0]

\* A webhook. The single field stands for the customer's. hops counts the
\* SyncForge writes between a user's edit and this event.
Event(s, id, rec, deleted, hops) ==
    [source |-> s, id |-> id, version |-> rec.version, at |-> clock + 1, prio |-> Priority[s],
     fields |-> [f \in {"phone"} |-> rec.value], deleted |-> deleted, hops |-> hops]

Row(key, fields, fp, sv, version, tombstone, ids) ==
    [key |-> key, fields |-> fields, fp |-> fp, sv |-> sv, version |-> version,
     tombstone |-> tombstone, ids |-> ids]

NewRow(ev) ==
    Row(<<ev.source, ev.id>>, NoFields, NoFields, [s \in Sources |-> 0], 0, FALSE,
        [s \in Sources |-> IF s = ev.source THEN ev.id ELSE 0])

Quiet == inbox = {} /\ \A w \in Workers : job[w] = Idle

TypeOK ==
    /\ \A s \in Sources : \A i \in DOMAIN records[s] :
          records[s][i].value \in Values /\ records[s][i].version \in Nat \ {0}
    /\ \A k \in Keys : canonical[k] # NoRow =>
          canonical[k].key = k /\ canonical[k].ids \in [Sources -> {0} \cup Ids]
    /\ outbound \in [Keys -> [Sources -> Values \cup {0}]]
    /\ \A w \in Workers : job[w].pc \in {"idle", "link", "echo", "upsert", "delete"}
    /\ clock \in Nat /\ edits \in 0 .. MaxEdits /\ faults \in 0 .. MaxFaults /\ used \subseteq Values
    /\ hasty \in 0 .. MaxEdits /\ overlaps \in 0 .. MaxFaults

\* A person known everywhere, synchronised from its first source.
LinkedRow(first, v) ==
    [Row(<<first, 1>>, [f \in {"phone"} |-> v],
         [f \in {"phone"} |-> [source |-> first, version |-> 1, at |-> 0,
                               prio |-> Priority[first]]],
         [s \in Sources |-> IF s = first THEN 1 ELSE 0], 1, FALSE,
         [s \in Sources |-> 1]) EXCEPT !.version = 1]

Init ==
    /\ clock = 0 /\ edits = 0 /\ faults = 0 /\ inbox = {} /\ hasty = 0 /\ overlaps = 0
    /\ job = [w \in Workers |-> Idle]
    /\ \/ /\ "empty" \in Starts
          /\ records = [s \in Sources |-> <<>>]
          /\ canonical = [k \in Keys |-> NoRow]
          /\ outbound = [k \in Keys |-> [s \in Sources |-> 0]]
          /\ used = {}
       \/ /\ "linked" \in Starts
          /\ \E first \in Sources, v \in Values :
                /\ records = [s \in Sources |-> <<[value |-> v, version |-> 1, deleted |-> FALSE]>>]
                /\ canonical = [k \in Keys |-> IF k = <<first, 1>> THEN LinkedRow(first, v) ELSE NoRow]
                /\ outbound = [k \in Keys |-> [s \in Sources |->
                                  IF k = <<first, 1>> /\ s # first THEN v ELSE 0]]
                /\ used = {v}

-----------------------------------------------------------------------------
(* The providers: every mutation bumps the version and emits a webhook. *)

Insert(s, v, hops) ==
    LET rec == [value |-> v, version |-> 1, deleted |-> FALSE] IN
    /\ Len(records[s]) < MaxRecords
    /\ records' = [records EXCEPT ![s] = Append(@, rec)]
    /\ inbox' = inbox \cup {Event(s, Len(records[s]) + 1, rec, FALSE, hops)}
    /\ clock' = clock + 1

\* A soft-deleted record can still be written and stays deleted.
Update(s, id, v, hops) ==
    LET rec == [records[s][id] EXCEPT !.value = v, !.version = @ + 1] IN
    /\ records' = [records EXCEPT ![s][id] = rec]
    /\ inbox' = inbox \cup {Event(s, id, rec, FALSE, hops)}
    /\ clock' = clock + 1

SoftDelete(s, id, hops) ==
    LET rec == [records[s][id] EXCEPT !.deleted = TRUE, !.version = @ + 1] IN
    /\ records' = [records EXCEPT ![s][id] = rec]
    /\ inbox' = inbox \cup {Event(s, id, rec, TRUE, hops)}
    /\ clock' = clock + 1

\* A user of a provider creates, edits or deletes a record. The event carries
\* the time of the edit.
UserEdit(s) ==
    /\ edits < MaxEdits
    /\ Quiet \/ hasty < MaxHasty
    /\ edits' = edits + 1
    /\ \/ \E v \in Values :
             /\ Reverting \/ v \notin used
             /\ used' = used \cup {v}
             /\ hasty' = hasty + (IF Quiet /\ v \notin used THEN 0 ELSE 1)
             /\ \/ records[s] = <<>> /\ Insert(s, v, 0)
                \/ \E id \in DOMAIN records[s] :
                      v # records[s][id].value /\ Update(s, id, v, 0)
       \/ \E id \in DOMAIN records[s] :
             /\ Deleting /\ ~records[s][id].deleted
             /\ SoftDelete(s, id, 0)
             /\ hasty' = hasty + (IF Quiet THEN 0 ELSE 1)
             /\ UNCHANGED used
    /\ UNCHANGED <<canonical, outbound, job, overlaps, faults>>

-----------------------------------------------------------------------------
(* The worker. *)

ByProvider(ev) == {k \in Keys : canonical[k] # NoRow /\ canonical[k].ids[ev.source] = ev.id}
ByEmail        == {k \in Keys : canonical[k] # NoRow /\ ~canonical[k].tombstone}

\* Mutated form of Resolved: the record's own id is looked up, its row is not used.
ResolvedAsNew(ev) == {NewRow(ev)}

\* resolveCanonical: the row of this provider record, else the live row of the
\* same e-mail (which is then linked in the store), else a new one.
Resolved(ev) ==
    IF ByProvider(ev) # {} THEN {canonical[k] : k \in ByProvider(ev)}
    ELSE IF ByEmail # {} THEN {[canonical[k] EXCEPT !.ids[ev.source] = ev.id] : k \in ByEmail}
    ELSE {NewRow(ev)}

Unlinked(ev) == ByProvider(ev) = {} /\ ByEmail # {}

\* Mutated form of isStale: no ordering check.
isStaleNever(row, ev) == FALSE

isStale(row, ev) == ev.version <= row.sv[ev.source]

\* Mutated form of isEcho: no loop check.
isEchoNever(row, ev) == FALSE

isEcho(row, ev) == outbound[row.key][ev.source] = ev.fields["phone"]

\* Nothing to apply: out of order, an echo, or parked for an operator.
Dropped(row, ev) ==
    isStale(row, ev) \/ isEcho(row, ev) \/ Parks(Strategy, row.fields, row.fp, ev)

\* Mutated form of MergedRow: an existing row keeps its fields.
MergedRowOldFields(row, ev) ==
    [row EXCEPT !.fields = IF @ = <<>> THEN MergeFields(Strategy, row.fields, row.fp, ev) ELSE @,
                !.fp     = MergeProvenance(Strategy, row.fields, row.fp, ev)]

MergedRow(row, ev) ==
    [row EXCEPT !.fields = MergeFields(Strategy, row.fields, row.fp, ev),
                !.fp     = MergeProvenance(Strategy, row.fields, row.fp, ev)]

\* Worker w takes an event off the inbox, and has it to itself from then on. The
\* workers are alike: of the idle ones it is the first.
Take(w, ev) ==
    LET others == \E q \in Workers \ {w} : job[q] # Idle IN
    /\ job[w] = Idle
    /\ \A q \in Workers : q < w => job[q] # Idle
    /\ inbox' = inbox \ {ev}
    /\ others => faults + overlaps < MaxFaults
    /\ overlaps' = IF others THEN overlaps + 1 ELSE overlaps

\* crossed: another worker has committed the row since this one read it.
Start(w, pc, ev, row, todo) ==
    job' = [job EXCEPT ![w] = [pc |-> pc, ev |-> ev, row |-> row, todo |-> todo, crossed |-> FALSE]]

\* Mutated form of BeginUpsert: a dropped event counts as failed and comes back.
BeginUpsertRefusing(w) ==
    /\ \E ev \in inbox : \E row \in Resolved(ev) :
          /\ ~ev.deleted
          /\ ~Dropped(row, ev)
          /\ Take(w, ev)
          /\ Start(w, IF Unlinked(ev) THEN "link" ELSE "echo", ev, row, Sources \ {ev.source})
    /\ UNCHANGED <<records, canonical, outbound, clock, edits, used, hasty, faults>>

\* applyUpsert reads the row it will work on.
BeginUpsert(w) ==
    /\ \E ev \in inbox : \E row \in Resolved(ev) :
          /\ ~ev.deleted
          /\ Take(w, ev)
          /\ Start(w, IF Unlinked(ev) THEN "link" ELSE "echo", ev, row, Sources \ {ev.source})
    /\ UNCHANGED <<records, canonical, outbound, clock, edits, used, hasty, faults>>

AddProviderID(w) ==
    LET j == job[w] IN
    /\ j.pc = "link"
    /\ canonical' = [canonical EXCEPT ![j.row.key].ids[j.ev.source] = j.ev.id]
    /\ job' = [job EXCEPT ![w].pc = "echo"]
    /\ UNCHANGED <<records, inbox, outbound, clock, edits, used, hasty, overlaps, faults>>

\* The checks, with the fingerprint as it is now, and the merge.
MergeEvent(w) ==
    LET j == job[w] IN
    /\ j.pc = "echo"
    /\ job' = [job EXCEPT ![w] = IF Dropped(j.row, j.ev) THEN Idle
                                ELSE [j EXCEPT !.pc = "upsert", !.row = MergedRow(j.row, j.ev)]]
    /\ UNCHANGED <<records, inbox, canonical, outbound, clock, edits, used, hasty, overlaps, faults>>

\* Mutated form of BeginDelete: no destination is told.
BeginDeleteLocally(w) ==
    /\ \E ev \in inbox :
          /\ ev.deleted
          /\ Take(w, ev)
          /\ \/ /\ \A k \in ByProvider(ev) : canonical[k].tombstone
                /\ UNCHANGED job
             \/ \E k \in ByProvider(ev) :
                  ~canonical[k].tombstone /\ Start(w, "delete", ev, canonical[k], {})
    /\ UNCHANGED <<records, canonical, outbound, clock, edits, used, hasty, faults>>

\* applyDelete: unknown and tombstoned entities are left alone.
BeginDelete(w) ==
    /\ \E ev \in inbox :
          /\ ev.deleted
          /\ Take(w, ev)
          /\ \/ ByProvider(ev) = {} /\ UNCHANGED job
             \/ \E k \in ByProvider(ev) :
                  \/ canonical[k].tombstone /\ UNCHANGED job
                  \/ /\ ~canonical[k].tombstone
                     /\ Start(w, "delete", ev, canonical[k],
                              {d \in Sources \ {ev.source} : canonical[k].ids[d] # 0})
    /\ UNCHANGED <<records, canonical, outbound, clock, edits, used, hasty, faults>>

\* The adapter call that writes one destination: Create when the canonical row
\* knows no record there.
WriteDestination(w) ==
    /\ job[w].pc = "upsert"
    /\ \E d \in job[w].todo :
          LET id == job[w].row.ids[d]
              v  == job[w].row.fields["phone"]
              hops == job[w].ev.hops + 1
          IN
          /\ IF id = 0 THEN Insert(d, v, hops) ELSE Update(d, id, v, hops)
          /\ job' = [job EXCEPT ![w].todo = @ \ {d},
                                ![w].row.ids[d] = IF id = 0 THEN Len(records[d]) + 1 ELSE @]
    /\ UNCHANGED <<canonical, outbound, edits, used, hasty, overlaps, faults>>

DeleteDestination(w) ==
    /\ job[w].pc = "delete"
    /\ \E d \in job[w].todo :
          /\ SoftDelete(d, job[w].row.ids[d], job[w].ev.hops + 1)
          /\ job' = [job EXCEPT ![w].todo = @ \ {d}]
    /\ UNCHANGED <<canonical, outbound, edits, used, hasty, overlaps, faults>>

Applied(row, ev, tombstone) ==
    [row EXCEPT !.sv[ev.source] = ev.version, !.version = @ + 1, !.tombstone = tombstone]

\* PersistApplyState (upsert) and UpsertCanonical (delete) overwrite the row
\* with the worker's copy; an upsert records what it wrote to each target.
PersistApplyState(w) ==
    LET j == job[w] IN
    /\ j.pc \in {"upsert", "delete"}
    /\ j.todo = {}
    /\ canonical' = [canonical EXCEPT ![j.row.key] = Applied(j.row, j.ev, j.pc = "delete")]
    /\ outbound' = [outbound EXCEPT ![j.row.key] =
          [d \in Sources |-> IF j.pc = "upsert" /\ d # j.ev.source
                             THEN j.row.fields["phone"] ELSE @[d]]]
    /\ job' = [q \in Workers |-> IF q = w THEN Idle
                                ELSE IF job[q] # Idle /\ job[q].row.key = j.row.key
                                THEN [job[q] EXCEPT !.crossed = TRUE] ELSE job[q]]
    /\ UNCHANGED <<records, inbox, clock, edits, used, hasty, overlaps, faults>>

\* Any of the calls fails: the apply returns the error and the event is tried
\* again. What was written to the providers stays.
FailApply(w) ==
    /\ job[w].pc # "idle"
    /\ faults + overlaps < MaxFaults
    /\ faults' = faults + 1
    /\ inbox' = inbox \cup {job[w].ev}
    /\ job' = [job EXCEPT ![w] = Idle]
    /\ UNCHANGED <<records, canonical, outbound, clock, edits, used, hasty, overlaps>>

WorkerStep(w) ==
    BeginUpsert(w) \/ AddProviderID(w) \/ MergeEvent(w) \/ BeginDelete(w) \/ WriteDestination(w)
    \/ DeleteDestination(w) \/ PersistApplyState(w)

Next ==
    \/ \E s \in Editors : UserEdit(s)
    \/ \E w \in Workers : WorkerStep(w) \/ FailApply(w)

Spec == Init /\ [][Next]_vars

\* The engine keeps draining: every worker that can go on does.
FairSpec == Spec /\ \A w \in Workers : WF_vars(WorkerStep(w))

-----------------------------------------------------------------------------
\* consistency-model.md:44-46: the applied version of a source never goes back,
\* so an old event never overwrites a newer one (worker.go, ordering check).
VersionsNeverBack ==
    [][\A k \in Keys : (canonical[k] # NoRow /\ canonical'[k] # NoRow) =>
          \A s \in Sources : canonical[k].sv[s] <= canonical'[k].sv[s]]_vars

\* The applied version of a source goes back, however its webhooks are reordered
\* and retried, only by a delete, which has no ordering check, or by an apply
\* whose row another one has committed since it was read (worker.go, ordering
\* check and the whole-row commit).
UpsertsKeepOrder ==
    [][\A k \in Keys, s \in Sources :
          (canonical[k] # NoRow /\ canonical[k].sv[s] > canonical'[k].sv[s]) =>
              \E w \in Workers : /\ job[w] # Idle /\ job'[w] = Idle
                                 /\ job[w].pc = "delete" \/ job[w].crossed]_vars

Agree ==
    \A k \in Keys, s \in Sources :
        (canonical[k] # NoRow /\ canonical[k].ids[s] # 0) =>
            records[s][canonical[k].ids[s]].value = canonical[k].fields["phone"]

\* docs/architecture.md:34: one person is one record per provider, retries
\* included.
NoDuplicateRecords == \A s \in Sources : Len(records[s]) <= 1

\* After edits and applies that do not overlap, and once every webhook is handled, all
\* providers hold the value of the canonical row they are linked to, also when
\* provider calls and commits failed on the way, unless that left a duplicate
\* (applyUpsert's propagation).
ProvidersAgree == (Quiet /\ hasty = 0 /\ overlaps = 0 /\ NoDuplicateRecords) => Agree

\* docs/conflict-resolution.md:27 and consistency-model.md:13-14: whatever users
\* do, the merged result reaches both sides and every edit is applied.
ProvidersAlwaysAgree == Quiet => Agree

\* One person is one record per provider: a second record needs a call that
\* failed after a create, or two providers' users who create the person before
\* either webhook is handled (applyUpsert, Create against ProviderIDs).
DuplicatesExplained == (faults = 0 /\ hasty = 0 /\ overlaps = 0) => NoDuplicateRecords

\* consistency-model.md:51-54: a webhook caused by SyncForge's own write is
\* dropped, never applied, while edits and applies do not overlap and no call fails between
\* the write and the commit of its fingerprint (worker.go isEcho).
OwnEchoDropped ==
    (hasty = 0 /\ overlaps = 0 /\ faults = 0) => \A w \in Workers : job[w].pc = "upsert" => job[w].ev.hops = 0

\* consistency-model.md:51-54: no A -> B -> A -> B oscillation: what a user did
\* at A may come back to A once, but never travels on to B a second time.
NoOscillation == \A ev \in inbox : ev.hops <= 2

\* A tombstoned entity has no live record left behind where it was linked and
\* the delete propagated, while applies do not overlap (applyDelete).
TombstonePropagates ==
    (Quiet /\ overlaps = 0) => \A k \in Keys, s \in Sources :
        (canonical[k] # NoRow /\ canonical[k].tombstone /\ canonical[k].ids[s] # 0)
            => records[s][canonical[k].ids[s]].deleted

\* Echoes die out: after any number of edits, of which one meets an echo on its
\* way, and with one call that fails or one apply that overlaps another, the
\* system does not keep writing to itself for ever (worker.go isEcho, isStale).
\* More of either can keep it going: two overlapping applies of a new person make
\* two canonical rows, and each takes the other's writes for users' edits.
Settles == [](hasty <= 1 /\ faults + overlaps <= 1) => []<>Quiet

=============================================================================
