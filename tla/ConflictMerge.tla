---------------------------- MODULE ConflictMerge ----------------------------
(***************************************************************************)
(* What internal/conflict makes of a canonical record when the events of   *)
(* several sources are merged into it one after the other, each source's   *)
(* own events in version order.                                            *)
(***************************************************************************)
EXTENDS Naturals, Sequences, ConflictRules

CONSTANTS Fields, Sources, Values,
          Times,            \* occurred_at stamps
          Priorities,       \* sync_policies.source_priority, lower wins
          EventsPerSource   \* bound: events each source contributes

ASSUME MergeAssumption ==
    /\ Times \subseteq Nat
    /\ Priorities \subseteq Nat
    /\ EventsPerSource \in Nat

Strategies == {"last_write_wins", "source_priority", "field_merge", "manual",
               "unset"}

\* An incoming event carries a value for every field (Customer.Fields).
EventSet == [source : Sources, version : Nat, at : Times, prio : Priorities,
             fields : [Fields -> Values]]

Claims == [source : Sources, version : Nat, at : Times, prio : Priorities]

-----------------------------------------------------------------------------
VARIABLES strategy,  \* the policy's conflict_strategy
          prio,      \* source_priority of each source's policy
          merged,    \* the events merged so far, per source in version order
          fields,    \* canonical fields, empty before the first event
          fp         \* field_provenance

mergeVars == <<strategy, prio, merged, fields, fp>>

TypeOK ==
    /\ strategy \in Strategies
    /\ prio \in [Sources -> Priorities]
    /\ merged \in [Sources -> Seq(EventSet)]
    /\ fields \in [Fields -> Values] \cup {<<>>}
    /\ fp \in [Fields -> Claims] \cup {<<>>}

Init ==
    /\ strategy \in Strategies
    /\ prio \in [Sources -> Priorities]
    /\ merged = [s \in Sources |-> <<>>]
    /\ fields = <<>>
    /\ fp = <<>>

\* One call of Merge. A source's versions count its edits and its clock does
\* not go back. A parked event changes nothing.
Merge(s, t, v) ==
    LET n  == Len(merged[s])
        ev == [source |-> s, version |-> n + 1, at |-> t, prio |-> prio[s], fields |-> v]
    IN
    /\ n < EventsPerSource
    /\ n > 0 => merged[s][n].at <= t
    /\ merged' = [merged EXCEPT ![s] = Append(@, ev)]
    /\ \/ /\ Parks(strategy, fields, fp, ev)
          /\ UNCHANGED <<fields, fp>>
       \/ /\ ~Parks(strategy, fields, fp, ev)
          /\ fields' = MergeFields(strategy, fields, fp, ev)
          /\ fp' = MergeProvenance(strategy, fields, fp, ev)
    /\ UNCHANGED <<strategy, prio>>

Next == \E s \in Sources, t \in Times, v \in [Fields -> Values] : Merge(s, t, v)

Spec == Init /\ [][Next]_mergeVars

-----------------------------------------------------------------------------
\* Provenance is truthful: the writer recorded on a field is an event that was
\* merged and that carried exactly the stored value (conflict.go Merge).
ProvenanceTruthful ==
    /\ DOMAIN fp = DOMAIN fields
    /\ \A f \in DOMAIN fp : \E s \in Sources : \E i \in 1 .. Len(merged[s]) :
          Claim(merged[s][i]) = fp[f] /\ merged[s][i].fields[f] = fields[f]

\* No two sources ever sent the same value for the field.
NeverAgreed(f) ==
    \A s, o \in Sources : s # o =>
        \A i \in DOMAIN merged[s], j \in DOMAIN merged[o] :
            merged[s][i].fields[f] # merged[o][j].fields[f]

BeatsOwner(s, f) ==
    LET last == merged[s][Len(merged[s])] IN
    /\ s # fp[f].source
    /\ last.fields[f] # fields[f]
    /\ IncomingWins(normalizeStrategy(strategy), fp[f], last)

\* docs/conflict-resolution.md:25-27: the newer occurred_at (or the smaller
\* priority) wins. As long as the sources have not agreed on the field, no
\* source's latest event beats the writer that owns it (conflict.go Resolve and
\* Merge); an older event that agrees takes the field over.
BestWriterOwns ==
    strategy # "manual" =>
        \A f \in DOMAIN fp : NeverAgreed(f) =>
            \A s \in Sources : merged[s] # <<>> => ~BeatsOwner(s, f)

\* The same without the premise, as the document says it.
LatestWriterOwns ==
    strategy # "manual" =>
        \A f \in DOMAIN fp, s \in Sources : merged[s] # <<>> => ~BeatsOwner(s, f)

=============================================================================
