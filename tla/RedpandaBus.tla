----------------------------- MODULE RedpandaBus -----------------------------
(***************************************************************************)
(* One partition of the sync-events topic as internal/eventbus/redpanda.go *)
(* uses it: a log, the replica that owns the partition in the consumer     *)
(* group, that replica's fetch position and highest marked offset (both in *)
(* its memory), and the group's committed offset (kept by the broker).     *)
(* The partition key is tenant:entity_type:entity_id, so partitions carry  *)
(* disjoint entities and one partition is enough.  The broker and the      *)
(* client library are external: they are modelled from the calls the code  *)
(* makes, taking the loop at its word that marked offsets are what a       *)
(* commit commits (redpanda.go:82).                                        *)
(***************************************************************************)
EXTENDS Naturals, Sequences

CONSTANTS Events,      \* messages: the events of this partition
          Replicas,    \* engine processes, each with one group member
          MaxTopic     \* bound on the length of the log

VARIABLES topic,       \* the log, a sequence of events
          owner,       \* the replica the partition is assigned to
          position,    \* offset of the last record the owner fetched
          marked,      \* highest offset the owner passed to MarkCommitRecords
          committed    \* highest offset the group has committed

busVars == <<topic, owner, position, marked, committed>>

BusTypeOK ==
    /\ topic \in Seq(Events)
    /\ owner \in Replicas
    /\ position \in Nat /\ marked \in Nat /\ committed \in Nat

BusInit ==
    /\ topic = <<>>
    /\ owner \in Replicas
    /\ position = 0 /\ marked = 0 /\ committed = 0

\* ProduceSync returned without an error: the record is in the log.
Publish(e) ==
    /\ Len(topic) < MaxTopic
    /\ topic' = Append(topic, e)
    /\ UNCHANGED <<owner, position, marked, committed>>

\* The record loop takes the next record of the fetched batch.
FetchRecord(r) ==
    /\ owner = r
    /\ position < Len(topic)
    /\ position' = position + 1
    /\ UNCHANGED <<topic, owner, marked, committed>>

\* The handler of the record at offset o returned nil in replica r:
\* MarkCommitRecords, which never moves a mark backwards.  A replica that lost
\* the partition meanwhile marks nothing the group would commit.
MarkCommitRecords(r, o) ==
    /\ marked' = IF owner = r /\ o > marked THEN o ELSE marked
    /\ UNCHANGED <<topic, owner, position, committed>>

\* After a batch: everything up to the highest mark is committed, records whose
\* handler failed in between included.
CommitUncommittedOffsets(r) ==
    /\ owner = r
    /\ marked > committed
    /\ committed' = marked
    /\ UNCHANGED <<topic, owner, position, marked>>

\* The group assigns the partition to r, which resumes at the committed offset.
AssignPartition(r) ==
    /\ owner' = r
    /\ position' = committed
    /\ marked' = committed
    /\ UNCHANGED <<topic, committed>>

=============================================================================
