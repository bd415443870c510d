----------------------------- MODULE SweepProofs -----------------------------
(***************************************************************************)
(* Proofs about ReconcileSweep for every number of records, page size,     *)
(* tenant's policies and bound on edits, lost events, faults and crashes.  *)
(***************************************************************************)
EXTENDS ReconcileSweep, TLAPS

\* Most leaves are first-order reasoning and left to Zenon; those that count, or that
\* take a record apart, name SMT.
USE ZenonT(15), SMTT(60)

-----------------------------------------------------------------------------
\* The inductive invariant

\* The records of the pages before and of this page before the walk's position.
Through == CASE pc = "list" -> cursor [] pc = "walk" -> pos - 1 [] OTHER -> NumRecords

\* Rows once there stay there and tombstones are not added: what the missing pass
\* looked up holds when it comes to the record, and only known rows are tombstoned.
RowsStay ==
    /\ \A i \in tombstone : canonical[i] # 0
    /\ \A i \in todo : canonical[i] # 0 /\ i \notin tombstone
    /\ pc = "done" => todo = {}

\* The walk is past the cursor; records ahead of it are served as they were listed, or were edited since.
AheadListed ==
    pc = "walk" =>
        /\ cursor < pos
        /\ \A i \in pos .. NumRecords :
              /\ page[i] = 0 <=> provider[i] = 0
              /\ edits = 0 => page[i] = provider[i]

\* No webhook is under way before the first edit; the last edit is the one under
\* way, and the one a canonical row holds that the pipeline has brought up to date.
EditsTracked ==
    /\ edits = 0 => \A i \in Ids : inflight[i] = 0
    /\ \A i \in Ids : inflight[i] # 0 => inflight[i] = edited[i]
    /\ \A i \in ingested : edited[i] # 0 /\ canonical[i] = edited[i] /\ i \notin tombstone

\* Without a crash, what the missing pass looks for is not at the provider.
SeenIsServed ==
    /\ edits = 0 => \A i \in seen : provider[i] = 0 => i \in tombstone
    /\ crashes = 0 /\ pc \in {"list", "walk"} =>
          \A i \in Ids : i <= Through /\ provider[i] # 0 => i \in seen
    /\ crashes = 0 => \A i \in todo : provider[i] = 0

\* A provider that serves the record has a copy of it, and one only unless a
\* resumed run created it again.
CopiesCounted ==
    /\ \A i \in Ids : provider[i] # 0 => copies[i] >= 1
    /\ crashes = 0 \/ Policy = "propagate" =>
          \A i \in Ids : copies[i] = IF provider[i] = 0 THEN 0 ELSE 1

\* A divergence the run is through with: reported, repaired, left to the policy,
\* or its record failed.
Handled(kind, i) ==
    \/ i \in broken
    \/ mode = "manual" /\ <<kind, i>> \in findings
    \/ mode = "auto" /\ ~repairable(kind, Policy)

\* What the walk has passed is handled, and so is what the missing pass has left.
WalkHandled ==
    edits = 0 =>
        /\ \A i \in Ids, kind \in Kinds \ {"missing"} :
              i <= Through /\ Diverging(kind, i) => Handled(kind, i)
        /\ pc \in {"missing", "done"} =>
              \A i \in Ids : Diverging("missing", i) => i \in todo \/ Handled("missing", i)

Agree(i) == \A kind \in Kinds : ~Diverging(kind, i)

\* A repaired record agrees, so that a resumed run need not repair it again.
RepairedAgree ==
    edits = 0 /\ mode = "auto" =>
        \A f \in findings : repairable(f[1], Policy) /\ f[2] \notin broken => Agree(f[2])

SweepInv ==
    /\ TypeOK /\ RowsStay /\ AheadListed /\ EditsTracked /\ SeenIsServed
    /\ CopiesCounted /\ WalkHandled /\ RepairedAgree /\ FalseReportsExplained

-----------------------------------------------------------------------------
\* Pages and records

\* A page ends inside the listing, and the last one at its end.
LEMMA Pages ==
    ASSUME TypeOK
    PROVE  /\ NumRecords \in Nat /\ cursor \in Nat /\ pos \in Nat /\ cursor <= NumRecords
           /\ PageEnd \in Nat /\ cursor <= PageEnd /\ PageEnd <= NumRecords
           /\ ~HasMore => PageEnd = NumRecords
BY SMTT(30), SweepAssumption DEF TypeOK, PageEnd, HasMore

\* The type invariant, variable by variable.
LEMMA Typed ==
    ASSUME TypeOK
    PROVE  /\ provider \in Cells /\ canonical \in Cells /\ inflight \in Cells
           /\ edited \in Cells /\ page \in Cells
           /\ version \in [Ids -> Nat] /\ copies \in [Ids -> Nat] /\ known \in [Ids -> Nat]
           /\ carried \in [Ids -> Nat] /\ listed \in [Ids -> Nat]
           /\ tombstone \subseteq Ids /\ ingested \subseteq Ids /\ seen \subseteq Ids
           /\ todo \subseteq Ids /\ broken \subseteq Ids
BY DEF TypeOK

\* An auto run acts on a finding of this kind.
AutoRepairs(kind) == mode = "auto" /\ repairable(kind, Policy)

\* What record may leave of the record itself.
Untouched(kind, i) ==
    /\ UNCHANGED data
    /\ i \in broken' \/ ~AutoRepairs(kind) \/ <<kind, i>> \in findings

Deleted(kind, i) ==
    /\ AutoRepairs(kind) /\ kind = "deleted"
    /\ provider'[i] = 0 /\ copies'[i] = copies[i] - 1
    /\ canonical' = canonical /\ tombstone' = tombstone

Adopted(kind, i) ==
    /\ AutoRepairs(kind) /\ kind = "missed"
    /\ canonical'[i] = page[i] /\ i \notin tombstone'
    /\ provider' = provider /\ copies' = copies

Pushed(kind, i) ==
    /\ AutoRepairs(kind) /\ kind \in {"drift", "missing"}
    /\ provider'[i] = canonical[i] /\ canonical' = canonical
    /\ copies'[i] = IF kind = "missing" THEN copies[i] + 1 ELSE copies[i]
    /\ i \in broken' \/ i \notin tombstone'

\* What record leaves of everything else.
OnlyAt(i) ==
    /\ mode' = mode /\ policies' = policies
    /\ \A j \in Ids \ {i} :
          /\ provider'[j] = provider[j] /\ canonical'[j] = canonical[j] /\ copies'[j] = copies[j]
          /\ j \in tombstone' <=> j \in tombstone
    /\ tombstone' \subseteq tombstone

\* record reports the finding or counts the record as failed, and touches no
\* other record.
LEMMA RecordDoes ==
    ASSUME TypeOK, NEW kind \in Kinds, NEW i \in Ids, Record(kind, i)
    PROVE  /\ OnlyAt(i)
           /\ Untouched(kind, i) \/ Deleted(kind, i) \/ Adopted(kind, i) \/ Pushed(kind, i)
           /\ findings \subseteq findings' /\ findings' \subseteq findings \cup {<<kind, i>>}
           /\ broken \subseteq broken' /\ broken' \subseteq broken \cup {i}
           /\ <<kind, i>> \in findings' \/ i \in broken'
<1>1. /\ findings \subseteq findings' /\ findings' \subseteq findings \cup {<<kind, i>>}
      /\ broken \subseteq broken' /\ broken' \subseteq broken \cup {i}
      /\ <<kind, i>> \in findings' \/ i \in broken'
  BY DEF Record
<1>2. \/ Untouched(kind, i)
      \/ AutoRepairs(kind) /\ Repair(kind, i)
      \/ /\ AutoRepairs(kind) /\ reconcileDirection(kind) = "push_canonical" /\ i \in broken'
         /\ PushCanonical(kind, i) /\ UNCHANGED <<canonical, known, tombstone>>
  BY DEF Record, AutoRepairs, Untouched
<1>t. provider \in Cells /\ canonical \in Cells /\ page \in Cells /\ copies \in [Ids -> Nat]
  BY Typed
<1>3. CASE Untouched(kind, i)
  BY <1>1, <1>3 DEF OnlyAt, Untouched, data
<1>4. CASE /\ AutoRepairs(kind) /\ PushCanonical(kind, i) /\ reconcileDirection(kind) = "push_canonical"
           /\ i \in broken' /\ UNCHANGED <<canonical, known, tombstone>>
  <2>1. kind \in {"drift", "missing"}
    BY <1>4 DEF reconcileDirection, Kinds
  <2>2. OnlyAt(i) /\ Pushed(kind, i)
    BY <1>t, <1>4, <2>1 DEF OnlyAt, Pushed, PushCanonical, Cells
  <2> QED
    BY <1>1, <2>2
<1>5. CASE AutoRepairs(kind) /\ Repair(kind, i)
  <2>1. CASE kind = "deleted"
    <3>1. OnlyAt(i) /\ Deleted(kind, i)
      BY <1>t, <1>5, <2>1 DEF OnlyAt, Deleted, Repair, reconcileDirection, Cells
    <3> QED
      BY <1>1, <3>1
  <2>2. CASE kind = "missed"
    <3>1. OnlyAt(i) /\ Adopted(kind, i)
      BY <1>t, <1>5, <2>2 DEF OnlyAt, Adopted, Repair, reconcileDirection, Cells
    <3> QED
      BY <1>1, <3>1
  <2>3. CASE kind \in {"drift", "missing"}
    <3>1. /\ PushCanonical(kind, i) /\ reconcileDirection(kind) = "push_canonical"
          /\ tombstone' = tombstone \ {i} /\ canonical' = canonical
      BY <1>5, <2>3 DEF Repair, reconcileDirection
    <3>2. OnlyAt(i) /\ Pushed(kind, i)
      BY <1>t, <1>5, <2>3, <3>1 DEF OnlyAt, Pushed, PushCanonical, Cells
    <3> QED
      BY <1>1, <3>2
  <2> QED
    BY <2>1, <2>2, <2>3 DEF Kinds
<1> QED
  BY <1>2, <1>3, <1>4, <1>5

\* record writes values of the record's type.
LEMMA RecordTyped ==
    ASSUME TypeOK, NEW kind \in Kinds, NEW i \in Ids, Record(kind, i), copies[i] >= 1 \/ kind # "deleted"
    PROVE  /\ mode' \in Modes /\ policies' \in PolicySets
           /\ provider' \in Cells /\ canonical' \in Cells
           /\ version' \in [Ids -> Nat] /\ copies' \in [Ids -> Nat] /\ known' \in [Ids -> Nat]
           /\ tombstone' \subseteq Ids /\ broken' \subseteq Ids
           /\ findings' \subseteq Kinds \X Ids /\ faults' \in 0 .. MaxFaults
<1>1. \/ UNCHANGED data
      \/ Repair(kind, i)
      \/ PushCanonical(kind, i) /\ UNCHANGED <<canonical, known, tombstone>>
  BY DEF Record
<1>2. findings' \subseteq Kinds \X Ids /\ broken' \subseteq Ids
  <2>1. findings \subseteq Kinds \X Ids /\ broken \subseteq Ids /\ <<kind, i>> \in Kinds \X Ids
    BY DEF TypeOK
  <2> QED
    BY <2>1, RecordDoes
<1>3. faults' \in 0 .. MaxFaults
  BY SMTT(30), SweepAssumption DEF Record, TypeOK
<1>t. /\ provider \in Cells /\ canonical \in Cells /\ page \in Cells /\ tombstone \subseteq Ids
      /\ version \in [Ids -> Nat] /\ copies \in [Ids -> Nat] /\ known \in [Ids -> Nat] /\ listed \in [Ids -> Nat]
      /\ mode \in Modes /\ policies \in PolicySets
  BY Typed DEF TypeOK
<1>4. CASE UNCHANGED data
  BY <1>2, <1>3, <1>4, <1>t DEF data
<1>5. ASSUME PushCanonical(kind, i)
      PROVE  /\ provider' \in Cells /\ version' \in [Ids -> Nat] /\ copies' \in [Ids -> Nat]
             /\ mode' \in Modes /\ policies' \in PolicySets
  BY SMTT(30), <1>5, <1>t DEF PushCanonical, Cells
<1>6. CASE PushCanonical(kind, i) /\ UNCHANGED <<canonical, known, tombstone>>
  BY <1>2, <1>3, <1>5, <1>6, <1>t
<1>7. CASE Repair(kind, i)
  <2>1. CASE kind = "deleted"
    BY SMTT(30), <1>2, <1>3, <1>7, <1>t, <2>1 DEF Repair, reconcileDirection, Cells
  <2>2. CASE kind = "missed"
    BY SMTT(30), <1>2, <1>3, <1>7, <1>t, <2>2 DEF Repair, reconcileDirection, Cells
  <2>3. CASE kind \in {"drift", "missing"}
    <3>1. PushCanonical(kind, i) /\ known' = [known EXCEPT ![i] = version'[i]]
          /\ tombstone' = tombstone \ {i} /\ canonical' = canonical
      BY <1>7, <2>3 DEF Repair, reconcileDirection
    <3> QED
      BY <1>2, <1>3, <1>5, <1>t, <3>1
  <2> QED
    BY <2>1, <2>2, <2>3 DEF Kinds
<1> QED
  BY <1>1, <1>4, <1>6, <1>7

\* A kind is a divergence of its own: which ones a record has.
LEMMA Divergences ==
    ASSUME NEW i
    PROVE  /\ Diverging("missed", i) <=> provider[i] # 0 /\ canonical[i] = 0
           /\ Diverging("deleted", i) <=> provider[i] # 0 /\ i \in tombstone
           /\ Diverging("drift", i) <=>
                 provider[i] # 0 /\ i \notin tombstone /\ canonical[i] \notin {0, provider[i]}
           /\ Diverging("missing", i) <=> provider[i] = 0 /\ canonical[i] # 0 /\ i \notin tombstone
BY DEF Diverging

\* The same after a step.
LEMMA DivergencesNext ==
    ASSUME NEW CONSTANT i
    PROVE  /\ Diverging("missed", i)' <=> provider'[i] # 0 /\ canonical'[i] = 0
           /\ Diverging("deleted", i)' <=> provider'[i] # 0 /\ i \in tombstone'
           /\ Diverging("drift", i)' <=>
                 provider'[i] # 0 /\ i \notin tombstone' /\ canonical'[i] \notin {0, provider'[i]}
           /\ Diverging("missing", i)' <=> provider'[i] = 0 /\ canonical'[i] # 0 /\ i \notin tombstone'
BY DEF Diverging

\* A record the step does not touch diverges as before.
LEMMA DivergesAsBefore ==
    ASSUME NEW CONSTANT i, NEW CONSTANT kind \in Kinds, provider'[i] = provider[i], canonical'[i] = canonical[i],
           i \in tombstone' <=> i \in tombstone
    PROVE  Diverging(kind, i)' <=> Diverging(kind, i)
BY Divergences, DivergencesNext DEF Kinds

\* The kind the walk gives the record it has come to.
KindHere == classify(canonical[pos] # 0, pos \in tombstone, canonical[pos] = page[pos])

\* What the walk classifies is there; over quiet data its kind is its divergence.
LEMMA Classified ==
    ASSUME SweepInv, pc = "walk", pos <= PageEnd, page[pos] # 0,
           NEW kind, kind = KindHere
    PROVE  /\ provider[pos] # 0
           /\ \/ kind = "missed" /\ canonical[pos] = 0
              \/ kind = "deleted" /\ canonical[pos] # 0 /\ pos \in tombstone
              \/ kind = "drift" /\ canonical[pos] \notin {0, page[pos]} /\ pos \notin tombstone
              \/ kind \notin Kinds /\ canonical[pos] = page[pos] /\ pos \notin tombstone
           /\ edits = 0 => page[pos] = provider[pos]
           /\ edits = 0 => \A k \in Kinds : Diverging(k, pos) <=> k = kind
<1>1. pos \in pos .. NumRecords
  BY SMTT(30), Pages DEF SweepInv
<1>2. provider[pos] # 0 /\ (edits = 0 => page[pos] = provider[pos])
  BY <1>1 DEF SweepInv, AheadListed
<1>3. \/ kind = "missed" /\ canonical[pos] = 0
      \/ kind = "deleted" /\ canonical[pos] # 0 /\ pos \in tombstone
      \/ kind = "drift" /\ canonical[pos] \notin {0, page[pos]} /\ pos \notin tombstone
      \/ kind \notin Kinds /\ canonical[pos] = page[pos] /\ pos \notin tombstone
  BY Zenon DEF KindHere, classify, Kinds
<1>4. canonical[pos] = 0 => pos \notin tombstone
  BY DEF SweepInv, RowsStay
<1>5. edits = 0 => \A k \in Kinds : Diverging(k, pos) <=> k = kind
  BY <1>2, <1>3, <1>4, Divergences DEF Kinds
<1> QED
  BY <1>2, <1>3, <1>5

\* In words: no divergence at all.
LEMMA AgreeIs ==
    ASSUME NEW CONSTANT i
    PROVE  /\ Agree(i) <=> IF provider[i] = 0 THEN canonical[i] = 0 \/ i \in tombstone
                           ELSE canonical[i] = provider[i] /\ i \notin tombstone
           /\ Agree(i)' <=> IF provider'[i] = 0 THEN canonical'[i] = 0 \/ i \in tombstone'
                            ELSE canonical'[i] = provider'[i] /\ i \notin tombstone'
BY Divergences, DivergencesNext DEF Agree, Kinds

-----------------------------------------------------------------------------
\* The walk

\* What a step of the walk does besides the record it has come to.
LEMMA WalkMoves ==
    ASSUME WalkRecord
    PROVE  /\ pc = "walk" /\ pos <= PageEnd
           /\ pc' = "walk" /\ pos' = pos + 1
           /\ UNCHANGED <<inflight, carried, edited, ingested, cursor, page, listed, todo, edits, lost, crashes>>
BY Zenon DEF WalkRecord, users

\* A step of the walk passes the record, or records what it finds.
LEMMA WalkCases ==
    ASSUME WalkRecord
    PROVE  \/ page[pos] = 0 /\ UNCHANGED <<data, findings, broken, seen, faults>>
           \/ /\ page[pos] # 0 /\ KindHere \notin Kinds /\ seen' = seen \cup {pos}
              /\ UNCHANGED <<data, findings, broken, faults>>
           \/ page[pos] # 0 /\ KindHere \in Kinds /\ seen' = seen \cup {pos} /\ Record(KindHere, pos)
<1>1. KindHere = "" \/ KindHere \in Kinds
  BY Zenon DEF KindHere, classify, Kinds
<1>2. "" \notin Kinds
  BY Zenon DEF Kinds
<1> QED
  BY <1>1, <1>2, Zenon DEF WalkRecord, KindHere

\* The walk is at a record of the listing.
LEMMA WalkAt ==
    ASSUME TypeOK, pc = "walk", pos <= PageEnd
    PROVE  /\ NumRecords \in Nat /\ cursor \in Nat /\ pos \in Nat /\ cursor <= NumRecords
           /\ pos <= NumRecords /\ pos \in Ids /\ pos \in pos .. NumRecords
<1>1. pos >= 1
  BY SMTT(30), Pages DEF TypeOK
<1> QED
  BY SMTT(30), <1>1, Pages DEF Ids

\* The walk passes a record it has nothing to report of.
LEMMA WalkPasses ==
    ASSUME SweepInv, WalkRecord, UNCHANGED <<data, findings, broken, faults>>,
           \/ page[pos] = 0 /\ seen' = seen
           \/ page[pos] # 0 /\ seen' = seen \cup {pos} /\ KindHere \notin Kinds
    PROVE  SweepInv'
<1>p. /\ NumRecords \in Nat /\ cursor \in Nat /\ pos \in Nat /\ cursor <= NumRecords
      /\ pos <= NumRecords /\ pos \in Ids /\ pos \in pos .. NumRecords
  BY WalkAt, WalkMoves DEF SweepInv
<1>u. /\ pc = "walk" /\ pc' = "walk" /\ pos' = pos + 1
      /\ UNCHANGED <<mode, policies, provider, version, copies, canonical, known, tombstone>>
      /\ UNCHANGED <<inflight, carried, edited, ingested, cursor, findings, broken, page, listed, todo>>
      /\ UNCHANGED <<edits, lost, faults, crashes>>
  BY WalkMoves DEF data
<1>d. \A kind \in Kinds, i \in Ids : Diverging(kind, i)' <=> Diverging(kind, i)
  BY <1>u, DivergesAsBefore
<1>h. \A kind, i : Handled(kind, i)' <=> Handled(kind, i)
  BY <1>u DEF Handled, Policy
<1>n. edits = 0 => \A kind \in Kinds \ {"missing"} : ~Diverging(kind, pos)
  <2>1. CASE page[pos] = 0
    BY <1>p, <1>u, <2>1, Divergences DEF SweepInv, AheadListed, Kinds
  <2>2. CASE page[pos] # 0
    BY <2>2, Classified, WalkMoves
  <2> QED
    BY <2>1, <2>2
<1>1. TypeOK'
  BY SMTT(30), <1>p, <1>u DEF SweepInv, TypeOK
<1>2. RowsStay' /\ EditsTracked' /\ CopiesCounted'
  BY <1>u DEF SweepInv, RowsStay, EditsTracked, CopiesCounted, Policy
<1>3. AheadListed'
  BY SMTT(30), <1>p, <1>u DEF SweepInv, AheadListed
<1>4. SeenIsServed'
  <2>1. edits = 0 => \A i \in seen' : provider[i] = 0 => i \in tombstone
    BY <1>p, <1>u DEF SweepInv, SeenIsServed, AheadListed
  <2>2. crashes = 0 => \A i \in Ids : i <= pos /\ provider[i] # 0 => i \in seen'
    <3> SUFFICES ASSUME crashes = 0, NEW i \in Ids, i <= pos, provider[i] # 0 PROVE i \in seen'
      OBVIOUS
    <3>1. CASE i <= pos - 1
      BY <1>u, <3>1 DEF SweepInv, SeenIsServed, Through
    <3>2. CASE i = pos
      BY <1>p, <1>u, <3>2 DEF SweepInv, AheadListed
    <3> QED
      BY SMTT(30), <1>p, <3>1, <3>2 DEF Ids
  <2>3. Through' = pos
    BY SMTT(30), <1>p, <1>u DEF Through
  <2> QED
    BY <1>u, <2>1, <2>2, <2>3 DEF SweepInv, SeenIsServed
<1>5. WalkHandled'
  <2>1. Through' = pos /\ Through = pos - 1
    BY SMTT(30), <1>p, <1>u DEF Through
  <2>2. \A i \in Ids : i <= pos => i <= pos - 1 \/ i = pos
    BY SMTT(30), <1>p DEF Ids
  <2> QED
    BY <1>d, <1>h, <1>n, <1>u, <2>1, <2>2 DEF SweepInv, WalkHandled
<1>6. RepairedAgree' /\ FalseReportsExplained'
  <2>1. \A f \in findings : f[1] \in Kinds /\ f[2] \in Ids
    BY DEF SweepInv, TypeOK
  <2>2. \A f \in findings : (Diverging(f[1], f[2])' <=> Diverging(f[1], f[2])) /\ (Agree(f[2])' <=> Agree(f[2]))
    BY <1>d, <2>1 DEF Agree
  <2> QED
    BY <1>u, <2>2 DEF SweepInv, RepairedAgree, FalseReportsExplained, Policy
<1> QED
  BY <1>1, <1>2, <1>3, <1>4, <1>5, <1>6 DEF SweepInv

\* What is handled stays handled while the findings and the failed records grow.
LEMMA HandledStays ==
    ASSUME NEW CONSTANT kind, NEW CONSTANT i, Handled(kind, i), mode' = mode, policies' = policies,
           findings \subseteq findings', broken \subseteq broken'
    PROVE  Handled(kind, i)'
BY DEF Handled, Policy

\* The walk records a divergence.
LEMMA WalkReports ==
    ASSUME SweepInv, WalkRecord, page[pos] # 0, seen' = seen \cup {pos},
           NEW CONSTANT kind \in Kinds, kind = KindHere, Record(kind, pos)
    PROVE  SweepInv'
<1>m. /\ pc = "walk" /\ pos <= PageEnd /\ pc' = "walk" /\ pos' = pos + 1
      /\ UNCHANGED <<inflight, carried, edited, ingested, cursor, page, listed, todo, edits, lost, crashes>>
  BY WalkMoves
<1>i. PICK i \in Ids : i = pos
  BY <1>m, WalkAt DEF SweepInv
<1>p. /\ NumRecords \in Nat /\ cursor \in Nat /\ pos \in Nat /\ cursor <= NumRecords
      /\ pos <= NumRecords /\ i \in Ids /\ i \in pos .. NumRecords
  BY <1>m, <1>i, WalkAt DEF SweepInv
<1>t. /\ provider \in Cells /\ canonical \in Cells /\ copies \in [Ids -> Nat]
      /\ tombstone \subseteq Ids /\ seen \subseteq Ids /\ todo \subseteq Ids /\ ingested \subseteq Ids
      /\ TypeOK
  BY Typed DEF SweepInv
<1>k. /\ provider[i] # 0
      /\ \/ kind = "missed" /\ canonical[i] = 0
         \/ kind = "deleted" /\ canonical[i] # 0 /\ i \in tombstone
         \/ kind = "drift" /\ canonical[i] \notin {0, page[i]} /\ i \notin tombstone
      /\ edits = 0 => page[i] = provider[i]
      /\ edits = 0 => \A k \in Kinds : Diverging(k, i) <=> k = kind
  BY <1>m, <1>i, Classified
<1>r. /\ OnlyAt(i)
      /\ Untouched(kind, i) \/ Deleted(kind, i) \/ Adopted(kind, i) \/ Pushed(kind, i)
      /\ findings \subseteq findings' /\ findings' \subseteq findings \cup {<<kind, i>>}
      /\ broken \subseteq broken' /\ broken' \subseteq broken \cup {i}
      /\ <<kind, i>> \in findings' \/ i \in broken'
  BY <1>i, <1>t, RecordDoes
<1>o. /\ mode' = mode /\ policies' = policies /\ tombstone' \subseteq tombstone
      /\ \A j \in Ids \ {i} :
            /\ provider'[j] = provider[j] /\ canonical'[j] = canonical[j] /\ copies'[j] = copies[j]
            /\ j \in tombstone' <=> j \in tombstone
  BY <1>r DEF OnlyAt
<1>e. \/ /\ i \in broken' \/ ~AutoRepairs(kind) \/ <<kind, i>> \in findings
         /\ provider'[i] = provider[i] /\ canonical'[i] = canonical[i] /\ copies'[i] = copies[i]
         /\ i \in tombstone' <=> i \in tombstone
      \/ /\ AutoRepairs(kind) /\ kind = "deleted" /\ i \in tombstone'
         /\ provider'[i] = 0 /\ canonical'[i] = canonical[i] /\ copies'[i] = copies[i] - 1
      \/ /\ AutoRepairs(kind) /\ kind = "missed" /\ i \notin tombstone'
         /\ provider'[i] = provider[i] /\ canonical'[i] = page[i] /\ copies'[i] = copies[i]
      \/ /\ AutoRepairs(kind) /\ kind = "drift" /\ i \notin tombstone'
         /\ provider'[i] = canonical[i] /\ canonical'[i] = canonical[i] /\ copies'[i] = copies[i]
  BY <1>k, <1>r, <1>o DEF Untouched, Deleted, Adopted, Pushed, data
<1>c. page[i] # 0 /\ (copies[i] >= 1)
  BY <1>i, <1>k DEF SweepInv, CopiesCounted
<1>1. TypeOK'
  <2>1. seen' \subseteq Ids
    BY <1>i, <1>t
  <2>2. /\ mode' \in Modes /\ policies' \in PolicySets
        /\ provider' \in Cells /\ canonical' \in Cells
        /\ version' \in [Ids -> Nat] /\ copies' \in [Ids -> Nat] /\ known' \in [Ids -> Nat]
        /\ tombstone' \subseteq Ids /\ broken' \subseteq Ids
        /\ findings' \subseteq Kinds \X Ids /\ faults' \in 0 .. MaxFaults
    BY <1>c, <1>i, <1>t, RecordTyped
  <2> QED
    BY SMTT(30), <1>m, <1>p, <2>1, <2>2 DEF SweepInv, TypeOK
<1>2. RowsStay'
  BY <1>c, <1>e, <1>m, <1>o, <1>t DEF SweepInv, RowsStay
<1>3. AheadListed'
  <2>1. \A j \in pos + 1 .. NumRecords : j \in Ids \ {i} /\ j \in pos .. NumRecords
    BY SMTT(30), <1>i, <1>p DEF Ids
  <2> QED
    BY SMTT(30), <1>m, <1>o, <1>p, <2>1 DEF SweepInv, AheadListed
<1>4. EditsTracked'
  BY SMTT(30), <1>e, <1>k, <1>m, <1>o, <1>t DEF SweepInv, EditsTracked
<1>5. SeenIsServed'
  <2>1. edits = 0 => \A j \in seen' : provider'[j] = 0 => j \in tombstone'
    BY <1>e, <1>i, <1>k, <1>o, <1>t DEF SweepInv, SeenIsServed
  <2>2. crashes = 0 => \A j \in Ids : j <= pos /\ provider'[j] # 0 => j \in seen'
    <3> SUFFICES ASSUME crashes = 0, NEW j \in Ids, j <= pos, j # i, provider'[j] # 0 PROVE j \in seen'
      BY <1>i
    <3>1. j <= pos - 1
      BY SMTT(30), <1>i, <1>p DEF Ids
    <3> QED
      BY <1>m, <1>o, <3>1 DEF SweepInv, SeenIsServed, Through
  <2>3. Through' = pos
    BY SMTT(30), <1>m, <1>p DEF Through
  <2>4. crashes = 0 => \A j \in todo : provider'[j] = 0
    BY <1>k, <1>o, <1>t DEF SweepInv, SeenIsServed
  <2> QED
    BY <1>m, <2>1, <2>2, <2>3, <2>4 DEF SeenIsServed
<1>6. CopiesCounted'
  <2>1. provider'[i] # 0 => copies'[i] >= 1
    BY <1>c, <1>e, <1>k, <1>t
  <2>2. crashes = 0 \/ Policy = "propagate" => copies'[i] = IF provider'[i] = 0 THEN 0 ELSE 1
    BY SMTT(30), <1>c, <1>e, <1>k, <1>t DEF SweepInv, CopiesCounted
  <2> QED
    BY <1>m, <1>o, <2>1, <2>2 DEF SweepInv, CopiesCounted, Policy
<1>a. edits = 0 /\ i \notin broken' /\ AutoRepairs(kind) => Agree(i)' /\ <<kind, i>> \notin findings
  <2> SUFFICES ASSUME edits = 0, i \notin broken', AutoRepairs(kind) PROVE Agree(i)' /\ <<kind, i>> \notin findings
    OBVIOUS
  <2>1. <<kind, i>> \notin findings
    <3>1. ~Agree(i) /\ i \notin broken
      BY <1>k, <1>r DEF Agree
    <3>2. <<kind, i>>[1] = kind /\ <<kind, i>>[2] = i
      OBVIOUS
    <3> QED
      BY <3>1, <3>2 DEF SweepInv, RepairedAgree, AutoRepairs
  <2>2. Agree(i)'
    BY <1>e, <1>k, <2>1, AgreeIs
  <2> QED
    BY <2>1, <2>2
<1>7. WalkHandled'
  <2> SUFFICES ASSUME edits = 0, NEW j \in Ids, NEW k \in Kinds \ {"missing"}, j <= pos, Diverging(k, j)'
               PROVE  Handled(k, j)'
    <3>1. Through' = pos
      BY SMTT(30), <1>m, <1>p DEF Through
    <3> QED
      BY <1>m, <3>1 DEF WalkHandled
  <2>1. CASE j # i
    <3>1. j <= pos - 1 /\ Through = pos - 1
      BY SMTT(30), <1>i, <1>m, <1>p, <2>1 DEF Ids, Through
    <3>2. Diverging(k, j)
      BY <1>o, <2>1, DivergesAsBefore
    <3>3. Handled(k, j)
      BY <3>1, <3>2 DEF SweepInv, WalkHandled
    <3> QED
      BY <1>o, <1>r, <3>3, HandledStays
  <2>2. CASE j = i /\ i \notin broken'
    <3>1. ~AutoRepairs(kind)
      BY <1>a, <2>2 DEF Agree
    <3>2. Diverging(k, i)
      BY <1>e, <2>2, <3>1, DivergesAsBefore
    <3>3. k = kind
      BY <1>k, <3>2
    <3>4. mode \in {"auto", "manual"}
      BY <1>t, SweepAssumption DEF TypeOK
    <3> QED
      BY <1>o, <1>r, <2>2, <3>1, <3>3, <3>4 DEF Handled, AutoRepairs, Policy
  <2>3. CASE i \in broken' /\ j = i
    BY <2>3 DEF Handled
  <2> QED
    BY <2>1, <2>2, <2>3
<1>8. RepairedAgree'
  <2> SUFFICES ASSUME edits = 0, mode = "auto", NEW f \in findings', repairable(f[1], Policy), f[2] \notin broken'
               PROVE  Agree(f[2])'
    BY <1>m, <1>o DEF RepairedAgree, Policy
  <2>1. f \in findings => f[1] \in Kinds /\ f[2] \in Ids /\ Agree(f[2])
    BY <1>r, <1>t DEF SweepInv, RepairedAgree, TypeOK
  <2>2. CASE f \in findings
    <3>1. f[2] # i
      BY <1>k, <2>1, <2>2 DEF Agree
    <3>2. PICK j \in Ids : j = f[2]
      BY <2>1, <2>2
    <3>3. Agree(j)'
      BY <1>o, <2>1, <2>2, <3>1, <3>2, DivergesAsBefore DEF Agree
    <3> QED
      BY <3>2, <3>3
  <2>3. CASE f = <<kind, i>>
    BY <1>a, <2>3 DEF AutoRepairs
  <2> QED
    BY <1>r, <2>2, <2>3
<1>9. FalseReportsExplained'
  <2> SUFFICES ASSUME edits = 0, mode = "manual", NEW f \in findings'
               PROVE  Diverging(f[1], f[2])' \/ (crashes > 0 /\ f[1] = "missing")
    BY <1>m, <1>o DEF FalseReportsExplained
  <2>1. \A k \in Kinds, j \in Ids : Diverging(k, j)' <=> Diverging(k, j)
    BY <1>e, <1>o, DivergesAsBefore DEF AutoRepairs
  <2>2. CASE f = <<kind, i>>
    <3>1. Diverging(kind, i)'
      BY <1>k, <2>1
    <3> QED
      BY <2>2, <3>1
  <2>3. CASE f \in findings
    <3>1. PICK k \in Kinds, j \in Ids : k = f[1] /\ j = f[2]
      BY <1>t, <2>3 DEF TypeOK
    <3>2. Diverging(k, j) \/ (crashes > 0 /\ f[1] = "missing")
      BY <2>3, <3>1 DEF SweepInv, FalseReportsExplained
    <3> QED
      BY <2>1, <3>1, <3>2
  <2> QED
    BY <1>r, <2>2, <2>3
<1> QED
  BY <1>1, <1>2, <1>3, <1>4, <1>5, <1>6, <1>7, <1>8, <1>9 DEF SweepInv

-----------------------------------------------------------------------------
\* The other steps

\* The missing pass records a row it has not seen at the provider.
LEMMA MissingReports ==
    ASSUME SweepInv, NEW CONSTANT i \in Ids, RecordMissing(i)
    PROVE  SweepInv'
<1>m. /\ pc = "missing" /\ pc' = "missing" /\ i \in todo /\ todo' = todo \ {i} /\ Record("missing", i)
      /\ UNCHANGED <<inflight, carried, edited, ingested, cursor, page, listed, pos, seen, edits, lost, crashes>>
  BY DEF RecordMissing, users
<1>t. /\ provider \in Cells /\ canonical \in Cells /\ copies \in [Ids -> Nat]
      /\ tombstone \subseteq Ids /\ seen \subseteq Ids /\ todo \subseteq Ids /\ ingested \subseteq Ids
      /\ TypeOK /\ "missing" \in Kinds
  BY Typed DEF SweepInv, Kinds
<1>k. canonical[i] # 0 /\ i \notin tombstone /\ (crashes = 0 => provider[i] = 0)
  BY <1>m DEF SweepInv, RowsStay, SeenIsServed
<1>r. /\ OnlyAt(i)
      /\ Untouched("missing", i) \/ Deleted("missing", i) \/ Adopted("missing", i) \/ Pushed("missing", i)
      /\ findings \subseteq findings' /\ findings' \subseteq findings \cup {<<"missing", i>>}
      /\ broken \subseteq broken' /\ broken' \subseteq broken \cup {i}
      /\ <<"missing", i>> \in findings' \/ i \in broken'
  BY <1>m, <1>t, RecordDoes
<1>o. /\ mode' = mode /\ policies' = policies /\ tombstone' \subseteq tombstone
      /\ \A j \in Ids \ {i} :
            /\ provider'[j] = provider[j] /\ canonical'[j] = canonical[j] /\ copies'[j] = copies[j]
            /\ j \in tombstone' <=> j \in tombstone
  BY <1>r DEF OnlyAt
<1>e. /\ canonical'[i] = canonical[i] /\ i \notin tombstone'
      /\ \/ /\ i \in broken' \/ ~AutoRepairs("missing") \/ <<"missing", i>> \in findings
            /\ provider'[i] = provider[i] /\ copies'[i] = copies[i]
         \/ AutoRepairs("missing") /\ provider'[i] = canonical[i] /\ copies'[i] = copies[i] + 1
  BY <1>k, <1>r, <1>o DEF Untouched, Deleted, Adopted, Pushed, data
<1>a. i \notin broken' /\ AutoRepairs("missing") /\ edits = 0 => Agree(i)'
  <2> SUFFICES ASSUME i \notin broken', AutoRepairs("missing"), edits = 0 PROVE Agree(i)'
    OBVIOUS
  <2>1. CASE provider'[i] = canonical[i]
    BY <1>e, <1>k, <2>1, AgreeIs
  <2>2. CASE <<"missing", i>> \in findings /\ provider'[i] = provider[i]
    <3>1. <<"missing", i>>[1] = "missing" /\ <<"missing", i>>[2] = i
      OBVIOUS
    <3>2. Agree(i)
      BY <1>r, <2>2, <3>1 DEF SweepInv, RepairedAgree, AutoRepairs
    <3> QED
      BY <1>e, <1>k, <2>2, <3>2, AgreeIs
  <2> QED
    BY <1>e, <2>1, <2>2
<1>1. TypeOK'
  <2>1. /\ mode' \in Modes /\ policies' \in PolicySets
        /\ provider' \in Cells /\ canonical' \in Cells
        /\ version' \in [Ids -> Nat] /\ copies' \in [Ids -> Nat] /\ known' \in [Ids -> Nat]
        /\ tombstone' \subseteq Ids /\ broken' \subseteq Ids
        /\ findings' \subseteq Kinds \X Ids /\ faults' \in 0 .. MaxFaults
    BY <1>m, <1>t, RecordTyped
  <2> QED
    BY <1>m, <1>t, <2>1 DEF TypeOK
<1>2. RowsStay' /\ AheadListed' /\ EditsTracked'
  BY SMTT(30), <1>e, <1>m, <1>o, <1>t DEF SweepInv, RowsStay, AheadListed, EditsTracked
<1>3. SeenIsServed'
  BY <1>e, <1>k, <1>m, <1>o, <1>t DEF SweepInv, SeenIsServed
<1>4. CopiesCounted'
  <2>1. provider'[i] # 0 => copies'[i] >= 1
    BY SMTT(30), <1>e, <1>t DEF SweepInv, CopiesCounted
  <2>2. AutoRepairs("missing") => Policy # "propagate"
    BY DEF AutoRepairs, repairable, shouldRecreateMissing
  <2>3. crashes = 0 \/ Policy = "propagate" => copies'[i] = IF provider'[i] = 0 THEN 0 ELSE 1
    BY SMTT(30), <1>e, <1>k, <1>t, <2>2 DEF SweepInv, CopiesCounted
  <2> QED
    BY <1>m, <1>o, <2>1, <2>3 DEF SweepInv, CopiesCounted, Policy
<1>5. WalkHandled'
  <2> SUFFICES ASSUME edits = 0, NEW j \in Ids, NEW k \in Kinds, Diverging(k, j)',
                      k = "missing" => j \notin todo'
               PROVE  Handled(k, j)'
    BY <1>m DEF WalkHandled, Kinds
  <2>0. Through = NumRecords /\ j <= NumRecords
    BY SMTT(30), <1>m, SweepAssumption DEF Through, Ids
  <2>1. CASE j # i
    <3>1. Diverging(k, j) /\ (k = "missing" => j \notin todo)
      BY <1>m, <1>o, <2>1, DivergesAsBefore
    <3>2. Handled(k, j)
      BY <1>m, <2>0, <3>1 DEF SweepInv, WalkHandled
    <3> QED
      BY <1>o, <1>r, <3>2, HandledStays
  <2>2. CASE j = i /\ i \notin broken'
    <3>1. ~AutoRepairs("missing")
      BY <1>a, <2>2 DEF Agree
    <3>2. Diverging(k, i)
      BY <1>e, <1>k, <2>2, <3>1, DivergesAsBefore
    <3>3. CASE k = "missing"
      <4>1. mode \in {"auto", "manual"}
        BY <1>t, SweepAssumption DEF TypeOK
      <4> QED
        BY <1>o, <1>r, <2>2, <3>1, <3>3, <4>1 DEF Handled, AutoRepairs, Policy
    <3>4. CASE k # "missing"
      <4>1. Handled(k, i)
        BY <2>0, <2>2, <3>2, <3>4 DEF SweepInv, WalkHandled
      <4> QED
        BY <1>o, <1>r, <2>2, <4>1, HandledStays
    <3> QED
      BY <3>3, <3>4
  <2>3. CASE i \in broken' /\ j = i
    BY <2>3 DEF Handled
  <2> QED
    BY <2>1, <2>2, <2>3
<1>6. RepairedAgree'
  <2> SUFFICES ASSUME edits = 0, mode = "auto", NEW f \in findings', repairable(f[1], Policy), f[2] \notin broken'
               PROVE  Agree(f[2])'
    BY <1>m, <1>o DEF RepairedAgree, Policy
  <2>1. CASE f \in findings
    <3>1. PICK j \in Ids : j = f[2]
      BY <1>t, <2>1 DEF TypeOK
    <3>2. Agree(j)
      BY <1>r, <2>1, <3>1 DEF SweepInv, RepairedAgree
    <3>3. j # i => Agree(j)'
      BY <1>o, <3>2, DivergesAsBefore DEF Agree
    <3>4. j = i => Agree(j)'
      BY <1>e, <1>k, <3>1, <3>2, AgreeIs
    <3> QED
      BY <3>1, <3>3, <3>4
  <2>2. CASE f = <<"missing", i>>
    BY <1>a, <2>2 DEF AutoRepairs
  <2> QED
    BY <1>r, <2>1, <2>2
<1>7. FalseReportsExplained'
  <2> SUFFICES ASSUME edits = 0, mode = "manual", NEW f \in findings'
               PROVE  Diverging(f[1], f[2])' \/ (crashes > 0 /\ f[1] = "missing")
    BY <1>m, <1>o DEF FalseReportsExplained
  <2>1. \A k \in Kinds, j \in Ids : Diverging(k, j)' <=> Diverging(k, j)
    BY <1>e, <1>k, <1>o, DivergesAsBefore DEF AutoRepairs
  <2>2. CASE f = <<"missing", i>>
    <3>1. crashes = 0 => Diverging("missing", i)'
      BY <1>k, <1>t, <2>1, Divergences
    <3>2. crashes \in Nat
      BY SMTT(30), <1>t DEF TypeOK
    <3> QED
      BY SMTT(30), <2>2, <3>1, <3>2
  <2>3. CASE f \in findings
    <3>1. PICK k \in Kinds, j \in Ids : k = f[1] /\ j = f[2]
      BY <1>t, <2>3 DEF TypeOK
    <3>2. Diverging(k, j) \/ (crashes > 0 /\ f[1] = "missing")
      BY <2>3, <3>1 DEF SweepInv, FalseReportsExplained
    <3> QED
      BY <2>1, <3>1, <3>2
  <2> QED
    BY <1>r, <2>2, <2>3
<1> QED
  BY <1>1, <1>2, <1>3, <1>4, <1>5, <1>6, <1>7 DEF SweepInv

\* A step that touches neither side nor the report: what it keeps.
Frame == UNCHANGED <<mode, policies, provider, canonical, tombstone, copies, findings, broken,
                     inflight, edited, ingested, edits>>

\* It keeps all divergences and what was made of them.
LEMMA FrameKeeps ==
    ASSUME SweepInv, Frame, crashes' \in Nat, crashes' = 0 => crashes = 0
    PROVE  /\ \A kind \in Kinds, i \in Ids : Diverging(kind, i)' <=> Diverging(kind, i)
           /\ \A kind, i : Handled(kind, i)' <=> Handled(kind, i)
           /\ EditsTracked' /\ CopiesCounted' /\ RepairedAgree' /\ FalseReportsExplained'
<1>1. \A kind \in Kinds, i \in Ids : Diverging(kind, i)' <=> Diverging(kind, i)
  BY DivergesAsBefore DEF Frame
<1>2. \A kind, i : Handled(kind, i)' <=> Handled(kind, i)
  BY DEF Frame, Handled, Policy
<1>3. EditsTracked' /\ CopiesCounted'
  BY DEF Frame, SweepInv, EditsTracked, CopiesCounted, Policy
<1>4. \A f \in findings : f[1] \in Kinds /\ f[2] \in Ids
  BY DEF SweepInv, TypeOK
<1>5. \A f \in findings : (Diverging(f[1], f[2])' <=> Diverging(f[1], f[2])) /\ (Agree(f[2])' <=> Agree(f[2]))
  BY <1>1, <1>4 DEF Agree
<1>6. RepairedAgree'
  BY <1>5 DEF Frame, SweepInv, RepairedAgree, Policy
<1>7. crashes > 0 => crashes' > 0
  BY SMTT(30) DEF SweepInv, TypeOK
<1>8. FalseReportsExplained'
  BY <1>5, <1>7 DEF Frame, SweepInv, FalseReportsExplained
<1> QED
  BY <1>1, <1>2, <1>3, <1>6, <1>8

\* Listing a page.
LEMMA ListStep == ASSUME SweepInv, ListPage PROVE SweepInv'
<1>u. /\ pc = "list" /\ pc' = "walk" /\ pos' = cursor + 1 /\ page' = provider /\ listed' = version /\ Frame
      /\ UNCHANGED <<version, known, carried, cursor, seen, todo, lost, faults, crashes>>
  BY DEF ListPage, Frame, data, users, counts
<1>p. NumRecords \in Nat /\ cursor \in Nat /\ cursor <= NumRecords /\ crashes \in Nat /\ TypeOK
  BY SMTT(30), Pages DEF SweepInv, TypeOK
<1>1. Through' = Through
  BY SMTT(30), <1>p, <1>u DEF Through
<1>2. TypeOK'
  <2>1. page' \in Cells /\ listed' \in [Ids -> Nat] /\ pos' \in 1 .. NumRecords + 1
    BY SMTT(30), <1>p, <1>u, Typed
  <2> QED
    BY <1>u, <1>p, <2>1 DEF TypeOK, Frame
<1>3. RowsStay' /\ AheadListed' /\ SeenIsServed'
  BY SMTT(30), <1>1, <1>p, <1>u DEF Frame, SweepInv, RowsStay, AheadListed, SeenIsServed
<1>4. WalkHandled'
  BY <1>1, <1>p, <1>u, FrameKeeps DEF Frame, SweepInv, WalkHandled
<1> QED
  BY <1>2, <1>3, <1>4, <1>p, <1>u, FrameKeeps DEF SweepInv

\* The checkpoint.
LEMMA CheckpointStep == ASSUME SweepInv, Checkpoint PROVE SweepInv'
<1>u. /\ pc = "walk" /\ pos > PageEnd /\ Frame
      /\ UNCHANGED <<version, known, carried, page, listed, pos, seen, lost, faults, crashes>>
  BY DEF Checkpoint, Frame, data, users, counts
<1>n. \/ HasMore /\ pc' = "list" /\ cursor' = PageEnd /\ todo' = {}
      \/ /\ ~HasMore /\ pc' = "missing" /\ cursor' = 0
         /\ todo' = {i \in Ids : canonical[i] # 0 /\ i \notin tombstone \cup seen}
  BY DEF Checkpoint
<1>p. /\ NumRecords \in Nat /\ PageEnd \in Nat /\ PageEnd <= NumRecords /\ pos \in Nat
      /\ ~HasMore => PageEnd = NumRecords
      /\ crashes \in Nat /\ TypeOK
  BY SMTT(30), Pages DEF SweepInv, TypeOK
<1>1. \A i \in Ids : i <= Through' => i <= Through
  <2>1. Through = pos - 1 /\ Through' = PageEnd
    BY <1>n, <1>p, <1>u DEF Through
  <2> QED
    BY SMTT(30), <1>p, <1>u, <2>1 DEF Ids
<1>2. TypeOK'
  <2>1. cursor' \in 0 .. NumRecords /\ todo' \subseteq Ids /\ pc' \in {"list", "missing"}
    BY SMTT(30), <1>n, <1>p
  <2> QED
    BY <1>u, <1>p, <2>1 DEF TypeOK, Frame
<1>3. RowsStay' /\ AheadListed'
  BY <1>n, <1>u DEF Frame, SweepInv, RowsStay, AheadListed
<1>4. ~HasMore => \A i \in Ids : i <= Through
  BY SMTT(30), <1>p, <1>u DEF Through, Ids
<1>5. SeenIsServed'
  <2>1. crashes = 0 => \A i \in Ids : i <= Through /\ provider[i] # 0 => i \in seen
    BY <1>u DEF SweepInv, SeenIsServed
  <2>2. crashes = 0 => \A i \in todo' : provider[i] = 0
    BY <1>n, <1>4, <2>1
  <2> QED
    BY <1>1, <1>u, <2>1, <2>2 DEF Frame, SweepInv, SeenIsServed
<1>6. WalkHandled'
  <2>1. edits = 0 /\ ~HasMore => \A i \in Ids : Diverging("missing", i) => i \in todo'
    BY <1>n, Divergences DEF SweepInv, SeenIsServed
  <2>2. "missing" \in Kinds
    BY DEF Kinds
  <2> QED
    BY <1>1, <1>n, <1>p, <1>u, <2>1, <2>2, FrameKeeps DEF Frame, SweepInv, WalkHandled
<1> QED
  BY <1>2, <1>3, <1>5, <1>6, <1>p, <1>u, FrameKeeps DEF SweepInv

\* The end of the run.
LEMMA FinishStep == ASSUME SweepInv, FinishRun PROVE SweepInv'
<1>u. /\ pc = "missing" /\ todo = {} /\ pc' = "done" /\ Frame
      /\ UNCHANGED <<version, known, carried, cursor, page, listed, pos, seen, todo, lost, faults, crashes>>
  BY DEF FinishRun, Frame, data, users, counts
<1>p. crashes \in Nat /\ TypeOK
  BY SMTT(30) DEF SweepInv, TypeOK
<1>1. Through' = Through
  BY <1>u DEF Through
<1>2. TypeOK' /\ RowsStay' /\ AheadListed' /\ SeenIsServed'
  BY <1>1, <1>u DEF Frame, SweepInv, TypeOK, RowsStay, AheadListed, SeenIsServed
<1>3. WalkHandled'
  BY <1>1, <1>u, <1>p, FrameKeeps DEF Frame, SweepInv, WalkHandled, Kinds
<1> QED
  BY <1>2, <1>3, <1>p, <1>u, FrameKeeps DEF SweepInv

\* A crash forgets what was seen and goes back to the cursor.
LEMMA CrashStep == ASSUME SweepInv, CrashAndResume PROVE SweepInv'
<1>u. /\ pc # "done" /\ pc' = "list" /\ seen' = {} /\ todo' = {} /\ pos' = 1 /\ Frame
      /\ page' = [i \in Ids |-> 0] /\ listed' = [i \in Ids |-> 0]
      /\ crashes < MaxCrashes /\ crashes' = crashes + 1
      /\ UNCHANGED <<version, known, carried, cursor, lost, faults>>
  BY DEF CrashAndResume, Frame, data, users, counts
<1>p. /\ NumRecords \in Nat /\ cursor \in Nat /\ cursor <= NumRecords /\ pos \in Nat
      /\ crashes \in Nat /\ MaxCrashes \in Nat /\ TypeOK
  BY SMTT(30), Pages, SweepAssumption DEF SweepInv, TypeOK
<1>1. \A i \in Ids : i <= Through' => i <= Through
  <2>1. Through' = cursor
    BY <1>u DEF Through
  <2>2. pc = "walk" => cursor < pos
    BY DEF SweepInv, AheadListed
  <2>3. cursor <= Through /\ Through \in Int
    BY SMTT(30), <1>p, <2>2 DEF Through
  <2> QED
    BY SMTT(30), <1>p, <2>1, <2>3 DEF Ids
<1>2. TypeOK'
  <2>1. page' \in Cells /\ listed' \in [Ids -> Nat] /\ pos' \in 1 .. NumRecords + 1 /\ crashes' \in 0 .. MaxCrashes
    BY SMTT(30), <1>p, <1>u DEF Cells
  <2> QED
    BY <1>u, <1>p, <2>1 DEF TypeOK, Frame
<1>3. RowsStay' /\ AheadListed' /\ SeenIsServed'
  BY SMTT(30), <1>p, <1>u DEF Frame, SweepInv, RowsStay, AheadListed, SeenIsServed
<1>4. WalkHandled'
  BY SMTT(30), <1>1, <1>p, <1>u, FrameKeeps DEF Frame, SweepInv, WalkHandled
<1> QED
  BY SMTT(30), <1>2, <1>3, <1>4, <1>p, <1>u, FrameKeeps DEF SweepInv

\* Users and the pipeline leave the engine and the report alone.
Outside ==
    UNCHANGED <<mode, policies, copies, cursor, findings, broken, pc, page, listed, pos, seen, todo, faults, crashes>>

\* Once there are edits, what the invariant says of quiet data does not matter.
LEMMA NotQuiet ==
    ASSUME edits' # 0
    PROVE  WalkHandled' /\ RepairedAgree' /\ FalseReportsExplained'
BY DEF WalkHandled, RepairedAgree, FalseReportsExplained

\* A user's edit.
LEMMA EditStep ==
    ASSUME SweepInv, NEW CONSTANT i \in Ids, NEW CONSTANT v \in Values, UserEdit(i, v)
    PROVE  SweepInv'
<1>u. /\ edits < MaxEdits /\ provider[i] # 0 /\ edits' = edits + 1 /\ Outside
      /\ provider' = [provider EXCEPT ![i] = v]
      /\ version' = [version EXCEPT ![i] = @ + 1]
      /\ inflight' = [inflight EXCEPT ![i] = v]
      /\ carried' = [carried EXCEPT ![i] = version[i] + 1]
      /\ edited' = [edited EXCEPT ![i] = v]
      /\ ingested' = ingested \ {i}
      /\ UNCHANGED <<canonical, known, tombstone, lost>>
  BY DEF UserEdit, Outside, locals
<1>t. /\ provider \in Cells /\ canonical \in Cells /\ inflight \in Cells /\ edited \in Cells
      /\ version \in [Ids -> Nat] /\ carried \in [Ids -> Nat] /\ ingested \subseteq Ids
      /\ todo \subseteq Ids /\ seen \subseteq Ids
      /\ edits \in Nat /\ MaxEdits \in Nat /\ v # 0 /\ v \in Values /\ TypeOK
  BY SMTT(30), Typed, SweepAssumption DEF SweepInv, TypeOK
<1>p. NumRecords \in Nat /\ pos \in Nat /\ pos >= 1
  BY SMTT(30), <1>t, Pages DEF TypeOK
<1>z. \A j \in Ids : provider'[j] = 0 <=> provider[j] = 0
  BY <1>t, <1>u DEF Cells
<1>1. TypeOK'
  <2>1. /\ provider' \in Cells /\ inflight' \in Cells /\ edited' \in Cells
        /\ version' \in [Ids -> Nat] /\ carried' \in [Ids -> Nat] /\ ingested' \subseteq Ids
        /\ edits' \in 0 .. MaxEdits
    BY SMTT(30), <1>t, <1>u DEF Cells
  <2> QED
    BY SMTT(30), <1>t, <1>u, <2>1 DEF TypeOK, Outside
<1>2. RowsStay'
  BY <1>u DEF SweepInv, RowsStay, Outside
<1>3. AheadListed'
  <2>1. \A j \in pos .. NumRecords : j \in Ids
    BY SMTT(30), <1>p DEF Ids
  <2> QED
    BY SMTT(30), <1>t, <1>u, <1>z, <2>1 DEF SweepInv, AheadListed, Outside
<1>4. EditsTracked'
  BY SMTT(30), <1>t, <1>u DEF SweepInv, EditsTracked, Cells
<1>5. SeenIsServed'
  <2>1. Through' = Through
    BY <1>u DEF Through, Outside
  <2> QED
    BY SMTT(30), <1>t, <1>u, <1>z, <2>1 DEF SweepInv, SeenIsServed, Outside
<1>6. CopiesCounted'
  BY <1>u, <1>z DEF SweepInv, CopiesCounted, Outside, Policy
<1> QED
  BY SMTT(30), <1>1, <1>2, <1>3, <1>4, <1>5, <1>6, <1>t, <1>u, NotQuiet DEF SweepInv

\* The pipeline takes the event off the way, and may bring the row up to date.
LEMMA EventStep ==
    ASSUME SweepInv, NEW CONSTANT i \in Ids, Ingest(i) \/ LoseEvent(i)
    PROVE  SweepInv'
<1>t. /\ canonical \in Cells /\ inflight \in Cells /\ known \in [Ids -> Nat] /\ carried \in [Ids -> Nat]
      /\ ingested \subseteq Ids /\ todo \subseteq Ids /\ tombstone \subseteq Ids
      /\ lost \in Nat /\ MaxLost \in Nat /\ TypeOK
  BY SMTT(30), Typed, SweepAssumption DEF SweepInv, TypeOK
<1>u. /\ inflight[i] # 0 /\ inflight' = [inflight EXCEPT ![i] = 0] /\ Outside
      /\ lost' \in 0 .. MaxLost
      /\ UNCHANGED <<provider, version, carried, edited, edits>>
      /\ \/ UNCHANGED <<canonical, known, tombstone, ingested>>
         \/ /\ canonical' = [canonical EXCEPT ![i] = inflight[i]]
            /\ known' = [known EXCEPT ![i] = carried[i]]
            /\ tombstone' = tombstone \ {i} /\ ingested' = ingested \cup {i}
  <2>1. CASE Ingest(i)
    BY <1>t, <2>1 DEF Ingest, Outside, locals, counts, TypeOK
  <2>2. CASE LoseEvent(i)
    BY SMTT(30), <1>t, <2>2 DEF LoseEvent, Outside, locals, data
  <2> QED
    BY <2>1, <2>2
<1>q. edits' # 0
  BY <1>u DEF SweepInv, EditsTracked
<1>c. /\ \A j \in Ids : canonical[j] # 0 => canonical'[j] # 0
      /\ tombstone' \subseteq tombstone
  BY <1>t, <1>u DEF Cells
<1>1. TypeOK'
  <2>1. /\ inflight' \in Cells /\ canonical' \in Cells /\ known' \in [Ids -> Nat]
        /\ tombstone' \subseteq Ids /\ ingested' \subseteq Ids
    BY SMTT(30), <1>t, <1>u DEF Cells
  <2> QED
    BY SMTT(30), <1>t, <1>u, <2>1 DEF TypeOK, Outside
<1>2. RowsStay'
  BY <1>c, <1>t, <1>u DEF SweepInv, RowsStay, Outside
<1>3. AheadListed' /\ CopiesCounted'
  BY <1>u DEF SweepInv, AheadListed, CopiesCounted, Outside, Policy
<1>4. EditsTracked'
  BY SMTT(30), <1>q, <1>t, <1>u DEF SweepInv, EditsTracked, Cells
<1>5. SeenIsServed'
  <2>1. Through' = Through
    BY <1>u DEF Through, Outside
  <2> QED
    BY <1>q, <1>u, <2>1 DEF SweepInv, SeenIsServed, Outside
<1> QED
  BY <1>1, <1>2, <1>3, <1>4, <1>5, <1>q, NotQuiet DEF SweepInv

-----------------------------------------------------------------------------
\* The theorems

\* A run starts in the invariant.
LEMMA SweepInit == Init => SweepInv
<1> SUFFICES ASSUME Init PROVE SweepInv
  OBVIOUS
<1>n. NumRecords \in Nat /\ {MaxEdits, MaxLost, MaxFaults, MaxCrashes} \subseteq Nat
  BY SweepAssumption
<1>1. TypeOK
  <2>1. /\ copies \in [Ids -> Nat] /\ page \in Cells /\ inflight \in Cells /\ edited \in Cells
        /\ version \in [Ids -> Nat] /\ known \in [Ids -> Nat] /\ carried \in [Ids -> Nat] /\ listed \in [Ids -> Nat]
    BY DEF Init, Cells
  <2>2. cursor \in 0 .. NumRecords /\ pos \in 1 .. NumRecords + 1
    BY SMTT(30), <1>n DEF Init
  <2> QED
    BY SMTT(30), <1>n, <2>1, <2>2 DEF Init, TypeOK
<1>2. RowsStay /\ AheadListed /\ EditsTracked
  BY DEF Init, RowsStay, AheadListed, EditsTracked
<1>3. \A i \in Ids : ~(i <= Through)
  BY SMTT(30), <1>n DEF Init, Through, Ids
<1>4. SeenIsServed /\ WalkHandled /\ RepairedAgree /\ FalseReportsExplained
  BY <1>3 DEF Init, SeenIsServed, WalkHandled, RepairedAgree, FalseReportsExplained
<1>5. CopiesCounted
  BY SMTT(30) DEF Init, CopiesCounted
<1> QED
  BY <1>1, <1>2, <1>4, <1>5 DEF SweepInv

\* Every step keeps the invariant.
LEMMA SweepNext == SweepInv /\ [Next]_vars => SweepInv'
<1> SUFFICES ASSUME SweepInv, [Next]_vars PROVE SweepInv'
  OBVIOUS
<1>1. CASE WalkRecord
  <2>1. CASE page[pos] = 0 /\ UNCHANGED <<data, findings, broken, seen, faults>>
    BY <1>1, <2>1, WalkPasses
  <2>2. CASE /\ page[pos] # 0 /\ KindHere \notin Kinds /\ seen' = seen \cup {pos}
             /\ UNCHANGED <<data, findings, broken, faults>>
    BY <1>1, <2>2, WalkPasses
  <2>3. CASE page[pos] # 0 /\ KindHere \in Kinds /\ seen' = seen \cup {pos} /\ Record(KindHere, pos)
    <3>1. PICK kind \in Kinds : kind = KindHere
      BY <2>3
    <3> QED
      BY <1>1, <2>3, <3>1, WalkReports
  <2> QED
    BY <1>1, <2>1, <2>2, <2>3, WalkCases
<1>2. CASE UNCHANGED vars
  <2>1. /\ Frame /\ UNCHANGED <<version, known, carried, cursor, locals, lost, faults, crashes>>
    BY <1>2 DEF vars, data, users, counts, Frame
  <2>2. crashes \in Nat
    BY SMTT(30) DEF SweepInv, TypeOK
  <2>3. TypeOK' /\ RowsStay' /\ AheadListed' /\ SeenIsServed'
    BY <2>1 DEF Frame, locals, SweepInv, TypeOK, RowsStay, AheadListed, SeenIsServed, Through
  <2>4. Through' = Through
    BY <2>1 DEF locals, Through
  <2>5. WalkHandled'
    BY <2>1, <2>2, <2>4, FrameKeeps DEF Frame, locals, SweepInv, WalkHandled, Kinds
  <2> QED
    BY <2>1, <2>2, <2>3, <2>5, FrameKeeps DEF SweepInv
<1> QED
  BY <1>1, <1>2, ListStep, CheckpointStep, FinishStep, CrashStep, MissingReports, EditStep, EventStep
     DEF Next, EngineStep

\* The invariant holds throughout every run.
LEMMA SweepInvariant == Spec => []SweepInv
BY SweepInit, SweepNext, PTL DEF Spec

\* A manual sweep over quiet data reports every divergence, however many records,
\* pages, crashes and failed records there are (reconcile/engine.go Run).
THEOREM Complete == Spec => []SweepComplete
<1>1. SweepInv => SweepComplete
  <2> SUFFICES ASSUME SweepInv, pc = "done", mode = "manual", edits = 0, NEW kind \in Kinds, NEW i \in Ids,
                      Diverging(kind, i)
               PROVE  <<kind, i>> \in findings \/ i \in broken
    BY DEF SweepComplete
  <2>1. i <= Through /\ i \notin todo
    BY SMTT(30), SweepAssumption DEF Through, Ids, SweepInv, RowsStay
  <2>2. Handled(kind, i)
    BY <2>1 DEF SweepInv, WalkHandled
  <2> QED
    BY <2>2 DEF Handled
<1> QED
  BY <1>1, SweepInvariant, PTL

\* What a manual sweep over quiet data reports is a divergence; only a crash can
\* add reports, of records that are not missing (reconcile/engine.go:87).
THEOREM NoFalseReports == Spec => []FalseReportsExplained
BY SweepInvariant, PTL DEF SweepInv

\* After an auto sweep over quiet data the sides agree but for what the policy
\* forbids and what failed, crashed and resumed or not (reconcile/engine.go
\* record, worker.go applyReconcileFinding).
THEOREM Converges == Spec => []SweepConverges
<1>1. SweepInv => SweepConverges
  <2> SUFFICES ASSUME SweepInv, pc = "done", mode = "auto", edits = 0, NEW kind \in Kinds, NEW i \in Ids,
                      Diverging(kind, i)
               PROVE  ~repairable(kind, Policy) \/ i \in broken
    BY DEF SweepConverges
  <2>1. i <= Through /\ i \notin todo
    BY SMTT(30), SweepAssumption DEF Through, Ids, SweepInv, RowsStay
  <2>2. Handled(kind, i)
    BY <2>1 DEF SweepInv, WalkHandled
  <2> QED
    BY <2>2 DEF Handled
<1> QED
  BY <1>1, SweepInvariant, PTL

\* Without a crash, or under a policy that does not create missing records again,
\* no sweep makes a second provider record of an entity, whatever users do
\* meanwhile (reconcile/engine.go:176).
THEOREM OneCopy == Spec => []DuplicatesNeedCrash
<1>1. SweepInv => DuplicatesNeedCrash
  BY SMTT(30) DEF SweepInv, CopiesCounted, DuplicatesNeedCrash, NoDuplicates
<1> QED
  BY <1>1, SweepInvariant, PTL

\* record takes neither side back behind an edit the pipeline has applied: the row
\* that holds it is known, not tombstoned, and what is pushed.
LEMMA RecordKeepsEdits ==
    ASSUME SweepInv, NEW CONSTANT kind \in Kinds, NEW CONSTANT i \in Ids, Record(kind, i),
           kind = "missed" => canonical[i] = 0,
           kind = "deleted" => i \in tombstone
    PROVE  \A j \in ingested : /\ provider[j] = edited[j] => provider'[j] = edited[j]
                               /\ canonical[j] = edited[j] => canonical'[j] = edited[j]
<1>1. /\ OnlyAt(i)
      /\ Untouched(kind, i) \/ Deleted(kind, i) \/ Adopted(kind, i) \/ Pushed(kind, i)
  BY RecordDoes DEF SweepInv
<1>2. \A j \in ingested : j \in Ids /\ edited[j] # 0 /\ canonical[j] = edited[j] /\ j \notin tombstone
  BY Typed DEF SweepInv, EditsTracked
<1>3. \A j \in ingested : j # i => provider'[j] = provider[j] /\ canonical'[j] = canonical[j]
  BY <1>1, <1>2 DEF OnlyAt
<1>4. i \in ingested => /\ canonical'[i] = canonical[i]
                        /\ provider'[i] = provider[i] \/ provider'[i] = canonical[i]
  BY <1>1, <1>2 DEF Untouched, Deleted, Adopted, Pushed, data
<1> QED
  BY <1>2, <1>3, <1>4

\* The sweep overwrites on neither side the value of an edit the pipeline has
\* applied, for any number of records, edits, lost events, faults and crashes
\* (reconcile/engine.go:120, worker.go:777).
THEOREM EditsKept == Spec => IngestedEditKept
<1>1. SweepInv /\ [Next]_vars =>
          [EngineStep => \A i \in ingested : /\ provider[i] = edited[i] => provider'[i] = edited[i]
                                             /\ canonical[i] = edited[i] => canonical'[i] = edited[i]]_vars
  <2> SUFFICES ASSUME SweepInv, EngineStep
               PROVE  \A i \in ingested : /\ provider[i] = edited[i] => provider'[i] = edited[i]
                                          /\ canonical[i] = edited[i] => canonical'[i] = edited[i]
    OBVIOUS
  <2>1. CASE UNCHANGED data
    BY <2>1 DEF data
  <2>2. ASSUME NEW i \in Ids, RecordMissing(i)
        PROVE  \A j \in ingested : /\ provider[j] = edited[j] => provider'[j] = edited[j]
                                   /\ canonical[j] = edited[j] => canonical'[j] = edited[j]
    <3>1. Record("missing", i) /\ "missing" \in Kinds
      BY <2>2 DEF RecordMissing, Kinds
    <3> QED
      BY <3>1, RecordKeepsEdits
  <2>3. CASE WalkRecord /\ page[pos] # 0 /\ KindHere \in Kinds /\ Record(KindHere, pos)
    <3>1. PICK kind \in Kinds : kind = KindHere
      BY <2>3
    <3>2. PICK i \in Ids : i = pos
      BY <2>3, WalkMoves, WalkAt DEF SweepInv
    <3>3. (kind = "missed" => canonical[i] = 0) /\ (kind = "deleted" => i \in tombstone)
      BY <2>3, <3>1, <3>2, WalkMoves, Classified
    <3> QED
      BY <2>3, <3>1, <3>2, <3>3, RecordKeepsEdits
  <2>4. ListPage \/ Checkpoint \/ FinishRun => UNCHANGED data
    BY DEF ListPage, Checkpoint, FinishRun
  <2>5. WalkRecord => UNCHANGED data \/ (page[pos] # 0 /\ KindHere \in Kinds /\ Record(KindHere, pos))
    BY WalkCases
  <2> QED
    BY <2>1, <2>2, <2>3, <2>4, <2>5 DEF EngineStep
<1> QED
  BY <1>1, SweepInvariant, PTL DEF Spec, IngestedEditKept

=============================================================================
