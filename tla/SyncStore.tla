------------------------------ MODULE SyncStore ------------------------------
(***************************************************************************)
(* The PostgreSQL tables the event pipeline shares (internal/store), one   *)
(* operator per statement.  A table is a function from event ids to what   *)
(* the pipeline reads of the row; every operator returns the table after   *)
(* the statement's transaction committed.                                  *)
(***************************************************************************)
EXTENDS Naturals

\* source_events.status, restricted to the values the code writes; "none" is
\* the absence of a row.
SourceStatus == {"none", "received", "validated", "processed", "failed", "dlq"}

\* dead_letter.status; "none" is the absence of a row.
DeadLetterStatus == {"none", "open", "retrying", "resolved", "discarded"}

\* INSERT ... ON CONFLICT DO NOTHING: a second delivery of the id is ErrDuplicate
\* and leaves the row as it is.
InsertSourceEvent(rows, e) ==
    IF rows[e] = "none" THEN [rows EXCEPT ![e] = "received"] ELSE rows

\* UPDATE ... WHERE status = from: no row, or a row that moved on, is a no-op.
SetSourceEventStatus(rows, e, from, to) ==
    IF rows[e] = from THEN [rows EXCEPT ![e] = to] ELSE rows

\* The unguarded UPDATE used when an event is dead-lettered.
SetSourceEventStatusTo(rows, e, to) ==
    IF rows[e] = "none" THEN rows ELSE [rows EXCEPT ![e] = to]

\* retry_queue maps an event to its attempt counter, 0 being the absence of a
\* row: INSERT starts at 1, ON CONFLICT adds 1.
EnqueueRetry(rows, e) == [rows EXCEPT ![e] = @ + 1]

DeleteRetry(rows, e) == [rows EXCEPT ![e] = 0]

\* Upsert that (re)opens the entry whatever its status was.
InsertDeadLetter(rows, e) == [rows EXCEPT ![e] = "open"]

\* Unguarded: the operator's handler has only checked that the entry exists.
SetDeadLetterStatus(rows, e, to) == [rows EXCEPT ![e] = to]

\* After a successful replay; a discarded entry stays discarded.
ResolveDeadLetterForEvent(rows, e) ==
    IF rows[e] \in {"none", "discarded"} THEN rows
    ELSE [rows EXCEPT ![e] = "resolved"]

=============================================================================
