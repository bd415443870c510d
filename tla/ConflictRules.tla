---------------------------- MODULE ConflictRules ----------------------------
(***************************************************************************)
(* internal/conflict: detection and resolution of concurrent field edits.  *)
(* An event carries source, version, at (occurred_at), prio (the policy's  *)
(* source_priority, lower wins) and a value per field; a stored record is  *)
(* its fields and the owner (field_provenance) of each.                    *)
(***************************************************************************)
EXTENDS Naturals

\* The provenance entry an event leaves on a field it wins.
Claim(ev) == [source |-> ev.source, version |-> ev.version, at |-> ev.at,
              prio |-> ev.prio]

\* A field conflicts when another source wrote its stored value last and the
\* incoming value differs.
Detect(stored, owners, ev) ==
    {f \in DOMAIN ev.fields :
        f \in DOMAIN owners /\ owners[f].source # ev.source /\ stored[f] # ev.fields[f]}

\* An unknown strategy name is read as last_write_wins.
normalizeStrategy(how) ==
    IF how \in {"last_write_wins", "source_priority", "field_merge", "manual"}
    THEN how ELSE "last_write_wins"

\* Mutated form of IncomingWins: an equal timestamp is enough.
IncomingWinsTies(how, a, b) ==
    CASE how \in {"last_write_wins", "field_merge"} -> b.at >= a.at
      [] how = "source_priority" ->
            b.prio < a.prio \/ (b.prio = a.prio /\ b.at > a.at)
      [] OTHER -> FALSE

\* Resolve: side b, the incoming event, wins over the stored writer a.
IncomingWins(how, a, b) ==
    CASE how \in {"last_write_wins", "field_merge"} ->
            b.at > a.at \/ (b.at = a.at /\ b.prio < a.prio)
      [] how = "source_priority" ->
            b.prio < a.prio \/ (b.prio = a.prio /\ b.at > a.at)
      [] OTHER -> FALSE

\* Fields the merge leaves to their stored writer.
Kept(how, stored, owners, ev) ==
    {f \in Detect(stored, owners, ev) : ~IncomingWins(normalizeStrategy(how), owners[f], ev)}

\* Under "manual" any conflict parks the whole event.
Parks(how, stored, owners, ev) ==
    normalizeStrategy(how) = "manual" /\ Detect(stored, owners, ev) # {}

MergeFields(how, stored, owners, ev) ==
    [f \in DOMAIN stored \cup DOMAIN ev.fields |->
        IF f \in DOMAIN ev.fields \ Kept(how, stored, owners, ev)
        THEN ev.fields[f] ELSE stored[f]]

\* Mutated form of MergeProvenance: the event owns the fields it lost as well.
MergeProvenanceOfAll(how, stored, owners, ev) ==
    [f \in DOMAIN owners \cup DOMAIN ev.fields |->
        IF f \in DOMAIN ev.fields THEN Claim(ev) ELSE owners[f]]

MergeProvenance(how, stored, owners, ev) ==
    [f \in DOMAIN owners \cup DOMAIN ev.fields |->
        IF f \in DOMAIN ev.fields \ Kept(how, stored, owners, ev)
        THEN Claim(ev) ELSE owners[f]]

=============================================================================
