------------------------- MODULE ConflictMergeProofs -------------------------
(***************************************************************************)
(* Proofs about ConflictMerge, for any fields, sources, values, times,     *)
(* priorities and any number of events: the recorded writer of a field     *)
(* carried the stored value, and on a field the sources never agreed on no *)
(* source's latest event beats the owner.                                  *)
(***************************************************************************)
EXTENDS ConflictMerge, TLAPS

\* Most leaves are first-order reasoning and left to Zenon; those that count, or that
\* take a record apart, name SMT.
USE ZenonT(15), SMTT(60)

\* The latest event of a source, whose events are q.
End(q) == q[Len(q)]

\* Events carry their source and its priority.
EventsSigned ==
    \A s \in Sources : \A i \in 1 .. Len(merged[s]) :
        merged[s][i].source = s /\ merged[s][i].prio = prio[s]

\* Fields and their owners are recorded together.
Together ==
    \/ fields = <<>> /\ fp = <<>>
    \/ fields \in [Fields -> Values] /\ fp \in [Fields -> Claims]

\* Unless events are parked, the first one leaves a record, and the owner of a
\* field is the latest event of its source.
OwnerIsLatest ==
    strategy # "manual" =>
        /\ \A s \in Sources : merged[s] # <<>> => fp \in [Fields -> Claims] /\ fields \in [Fields -> Values]
        /\ \A f \in DOMAIN fp :
              /\ merged[fp[f].source] # <<>>
              /\ fp[f] = Claim(End(merged[fp[f].source]))
              /\ fields[f] = End(merged[fp[f].source]).fields[f]

MergeInv == TypeOK /\ EventsSigned /\ Together /\ ProvenanceTruthful /\ OwnerIsLatest /\ BestWriterOwns

-----------------------------------------------------------------------------
\* The order behind Resolve

\* Resolve is a strict order: who beats the winner beats the loser.
LEMMA WinsOrder ==
    ASSUME NEW how, NEW a, NEW b, NEW c, {a.at, b.at, c.at, a.prio, b.prio, c.prio} \subseteq Nat
    PROVE  /\ IncomingWins(how, a, b) => ~IncomingWins(how, b, a)
           /\ IncomingWins(how, a, b) /\ IncomingWins(how, b, c) => IncomingWins(how, a, c)
           /\ IncomingWins(how, b, c) /\ b.prio = a.prio /\ a.at <= b.at => IncomingWins(how, a, c)
<1>1. CASE how \in {"last_write_wins", "field_merge"}
  BY SMTT(30), <1>1 DEF IncomingWins
<1>2. CASE how = "source_priority"
  BY SMTT(30), <1>2 DEF IncomingWins
<1>3. CASE how \notin {"last_write_wins", "field_merge", "source_priority"}
  BY <1>3 DEF IncomingWins
<1> QED
  BY <1>1, <1>2, <1>3

-----------------------------------------------------------------------------
\* One event

\* The event that Merge(s, t, v) merges.
Incoming(s, t, v) ==
    [source |-> s, version |-> Len(merged[s]) + 1, at |-> t, prio |-> prio[s], fields |-> v]

\* An empty record has no fields.
LEMMA EmptyRecord == DOMAIN <<>> = {}
BY SMTT(30)

\* What a merge leaves: a kept field as it was, every other one to the event.
LEMMA MergeResult ==
    ASSUME Together, NEW ev \in EventSet
    PROVE  /\ MergeFields(strategy, fields, fp, ev) \in [Fields -> Values]
           /\ MergeProvenance(strategy, fields, fp, ev) \in [Fields -> Claims]
           /\ \A f \in Fields :
                 \/ /\ f \in Kept(strategy, fields, fp, ev)
                    /\ f \in DOMAIN fp /\ f \in DOMAIN fields
                    /\ MergeFields(strategy, fields, fp, ev)[f] = fields[f]
                    /\ MergeProvenance(strategy, fields, fp, ev)[f] = fp[f]
                 \/ /\ f \notin Kept(strategy, fields, fp, ev)
                    /\ MergeFields(strategy, fields, fp, ev)[f] = ev.fields[f]
                    /\ MergeProvenance(strategy, fields, fp, ev)[f] = Claim(ev)
<1>1. ev.fields \in [Fields -> Values] /\ Claim(ev) \in Claims
  BY DEF EventSet, Claims, Claim
<1>2. DOMAIN fields \subseteq Fields /\ DOMAIN fp = DOMAIN fields
  BY EmptyRecord DEF Together
<1>3. \A f \in Kept(strategy, fields, fp, ev) : f \in DOMAIN fp
  BY DEF Kept, Detect
<1>4. \A f \in DOMAIN fp : fields[f] \in Values /\ fp[f] \in Claims
  BY EmptyRecord DEF Together
<1>5. MergeFields(strategy, fields, fp, ev) \in [Fields -> Values]
  BY <1>1, <1>2, <1>3, <1>4 DEF MergeFields
<1>6. MergeProvenance(strategy, fields, fp, ev) \in [Fields -> Claims]
  BY <1>1, <1>2, <1>3, <1>4 DEF MergeProvenance
<1>7. ASSUME NEW f \in Fields, f \in Kept(strategy, fields, fp, ev)
      PROVE  /\ MergeFields(strategy, fields, fp, ev)[f] = fields[f]
             /\ MergeProvenance(strategy, fields, fp, ev)[f] = fp[f]
  BY <1>1, <1>2, <1>3, <1>7 DEF MergeFields, MergeProvenance
<1>8. ASSUME NEW f \in Fields, f \notin Kept(strategy, fields, fp, ev)
      PROVE  /\ MergeFields(strategy, fields, fp, ev)[f] = ev.fields[f]
             /\ MergeProvenance(strategy, fields, fp, ev)[f] = Claim(ev)
  BY <1>1, <1>2, <1>8 DEF MergeFields, MergeProvenance
<1> QED
  BY <1>2, <1>3, <1>5, <1>6, <1>7, <1>8

\* What a step does to the sequences of events.
LEMMA MergedNext ==
    ASSUME TypeOK, EventsSigned, NEW s \in Sources, NEW t \in Times, NEW v \in [Fields -> Values], Merge(s, t, v)
    PROVE  /\ Incoming(s, t, v) \in EventSet
           /\ merged' \in [Sources -> Seq(EventSet)]
           /\ \A o \in Sources \ {s} : merged'[o] = merged[o]
           /\ Len(merged'[s]) = Len(merged[s]) + 1 /\ Len(merged[s]) \in Nat
           /\ \A i \in 1 .. Len(merged[s]) : merged'[s][i] = merged[s][i]
           /\ merged'[s][Len(merged[s]) + 1] = Incoming(s, t, v)
           /\ merged'[s] # <<>>
<1>1. Incoming(s, t, v) \in EventSet
  BY SMTT(30) DEF Incoming, EventSet, TypeOK
<1>2. merged[s] \in Seq(EventSet)
  BY DEF TypeOK
<1>3. merged' = [merged EXCEPT ![s] = Append(@, Incoming(s, t, v))]
  BY DEF Merge, Incoming
<1>4. merged'[s] = Append(merged[s], Incoming(s, t, v)) /\ \A o \in Sources \ {s} : merged'[o] = merged[o]
  BY <1>3 DEF TypeOK
<1>5. merged'[s] \in Seq(EventSet)
  BY SMTT(30), <1>1, <1>2, <1>4
<1>6. merged' \in [Sources -> Seq(EventSet)]
  BY <1>3, <1>4, <1>5 DEF TypeOK
<1>7. /\ Len(merged'[s]) = Len(merged[s]) + 1 /\ Len(merged[s]) \in Nat
      /\ \A i \in 1 .. Len(merged[s]) : merged'[s][i] = merged[s][i]
      /\ merged'[s][Len(merged[s]) + 1] = Incoming(s, t, v)
  BY SMTT(30), <1>1, <1>2, <1>4
<1>8. merged'[s] # <<>>
  BY SMTT(30), <1>7
<1> QED
  BY <1>1, <1>4, <1>6, <1>7, <1>8

-----------------------------------------------------------------------------
\* The inductive invariant, conjunct by conjunct

\* The two outcomes of a step: the event is parked, or merged.
LEMMA Outcomes ==
    ASSUME NEW s \in Sources, NEW t \in Times, NEW v \in [Fields -> Values], Merge(s, t, v)
    PROVE  \/ /\ Parks(strategy, fields, fp, Incoming(s, t, v))
              /\ fields' = fields /\ fp' = fp
           \/ /\ ~Parks(strategy, fields, fp, Incoming(s, t, v))
              /\ fields' = MergeFields(strategy, fields, fp, Incoming(s, t, v))
              /\ fp' = MergeProvenance(strategy, fields, fp, Incoming(s, t, v))
BY DEF Merge, Incoming

\* Types, signatures and the shape of the record.
LEMMA StepTyped ==
    ASSUME TypeOK, EventsSigned, Together,
           NEW s \in Sources, NEW t \in Times, NEW v \in [Fields -> Values], Merge(s, t, v)
    PROVE  TypeOK' /\ EventsSigned' /\ Together'
<1> DEFINE ev == Incoming(s, t, v)
<1>1. strategy' = strategy /\ prio' = prio
  BY DEF Merge
<1>2. Together'
  BY SMTT(30), MergedNext, MergeResult, Outcomes DEF Together
<1>3. TypeOK'
  BY <1>1, <1>2, MergedNext DEF TypeOK, Together
<1>4. ev.source = s /\ ev.prio = prio[s]
  BY DEF Incoming
<1>5. EventsSigned'
  <2> SUFFICES ASSUME NEW o \in Sources, NEW i \in 1 .. Len(merged'[o])
               PROVE  merged'[o][i].source = o /\ merged'[o][i].prio = prio[o]
    BY <1>1 DEF EventsSigned
  <2>1. CASE o # s
    BY SMTT(30), <2>1, MergedNext DEF EventsSigned
  <2>2. CASE o = s /\ i \in 1 .. Len(merged[s])
    BY SMTT(30), <2>2, MergedNext DEF EventsSigned
  <2>3. CASE o = s /\ i = Len(merged[s]) + 1
    BY <2>3, <1>4, MergedNext
  <2> QED
    BY SMTT(30), <2>1, <2>2, <2>3, MergedNext
<1> QED
  BY <1>2, <1>3, <1>5

\* An event that was merged stays merged.
LEMMA WitnessKept ==
    ASSUME TypeOK, EventsSigned, NEW s \in Sources, NEW t \in Times, NEW v \in [Fields -> Values], Merge(s, t, v),
           NEW o \in Sources, NEW i \in 1 .. Len(merged[o])
    PROVE  i \in 1 .. Len(merged'[o]) /\ merged'[o][i] = merged[o][i]
<1>1. CASE o = s
  BY SMTT(30), <1>1, MergedNext
<1>2. CASE o # s
  BY <1>2, MergedNext
<1> QED
  BY <1>1, <1>2

\* The recorded writer is a merged event with the stored value.
LEMMA StepTruthful ==
    ASSUME TypeOK, EventsSigned, Together, ProvenanceTruthful,
           NEW s \in Sources, NEW t \in Times, NEW v \in [Fields -> Values], Merge(s, t, v)
    PROVE  ProvenanceTruthful'
<1> DEFINE ev == Incoming(s, t, v)
<1>1. DOMAIN fp' = DOMAIN fields' /\ DOMAIN fp' \subseteq Fields
  BY StepTyped, EmptyRecord DEF Together
<1>2. ASSUME NEW f \in DOMAIN fp, fp'[f] = fp[f], fields'[f] = fields[f]
      PROVE  \E o \in Sources : \E i \in 1 .. Len(merged'[o]) :
                Claim(merged'[o][i]) = fp'[f] /\ merged'[o][i].fields[f] = fields'[f]
  <2>1. PICK o \in Sources : \E i \in 1 .. Len(merged[o]) :
            Claim(merged[o][i]) = fp[f] /\ merged[o][i].fields[f] = fields[f]
    BY DEF ProvenanceTruthful
  <2>2. PICK i \in 1 .. Len(merged[o]) : Claim(merged[o][i]) = fp[f] /\ merged[o][i].fields[f] = fields[f]
    BY <2>1
  <2>3. i \in 1 .. Len(merged'[o]) /\ merged'[o][i] = merged[o][i]
    BY WitnessKept
  <2> QED
    BY <1>2, <2>2, <2>3
<1>3. ASSUME NEW f \in Fields, fp'[f] = Claim(ev), fields'[f] = ev.fields[f]
      PROVE  \E o \in Sources : \E i \in 1 .. Len(merged'[o]) :
                Claim(merged'[o][i]) = fp'[f] /\ merged'[o][i].fields[f] = fields'[f]
  <2>1. Len(merged[s]) + 1 \in 1 .. Len(merged'[s])
    BY SMTT(30), MergedNext
  <2> QED
    BY SMTT(30), <1>3, <2>1, MergedNext
<1>4. CASE fields' = fields /\ fp' = fp
  BY <1>1, <1>2, <1>4 DEF ProvenanceTruthful
<1>5. CASE fields' = MergeFields(strategy, fields, fp, ev) /\ fp' = MergeProvenance(strategy, fields, fp, ev)
  BY SMTT(30), <1>1, <1>2, <1>3, <1>5, MergedNext, MergeResult DEF ProvenanceTruthful
<1> QED
  BY <1>4, <1>5, Outcomes

\* The latest events after the step.
LEMMA LastNext ==
    ASSUME TypeOK, EventsSigned, NEW s \in Sources, NEW t \in Times, NEW v \in [Fields -> Values], Merge(s, t, v)
    PROVE  /\ End(merged'[s]) = Incoming(s, t, v)
           /\ \A o \in Sources \ {s} : End(merged'[o]) = End(merged[o])
BY SMTT(30), MergedNext DEF End

\* Only the manual strategy parks an event.
LEMMA MergesUnlessManual ==
    ASSUME strategy # "manual", NEW s \in Sources, NEW t \in Times, NEW v \in [Fields -> Values], Merge(s, t, v)
    PROVE  /\ fields' = MergeFields(strategy, fields, fp, Incoming(s, t, v))
           /\ fp' = MergeProvenance(strategy, fields, fp, Incoming(s, t, v))
BY Outcomes DEF Parks, normalizeStrategy

\* A field is kept from an event of another source than its owner's only.
LEMMA StepOwner ==
    ASSUME TypeOK, EventsSigned, Together, OwnerIsLatest,
           NEW s \in Sources, NEW t \in Times, NEW v \in [Fields -> Values], Merge(s, t, v)
    PROVE  OwnerIsLatest'
<1> DEFINE ev == Incoming(s, t, v)
<1>1. strategy' = strategy
  BY DEF Merge
<1> SUFFICES ASSUME strategy # "manual" PROVE OwnerIsLatest'
  BY <1>1 DEF OwnerIsLatest
<1>2. fp' \in [Fields -> Claims] /\ fields' \in [Fields -> Values]
  BY SMTT(30), MergedNext, MergeResult, MergesUnlessManual
<1>3. ev.source = s /\ Claim(ev).source = s
  BY DEF Incoming, Claim
<1>4. ASSUME NEW f \in Fields
      PROVE  /\ merged'[fp'[f].source] # <<>>
             /\ fp'[f] = Claim(End(merged'[fp'[f].source]))
             /\ fields'[f] = End(merged'[fp'[f].source]).fields[f]
  <2>1. CASE f \notin Kept(strategy, fields, fp, ev)
    <3>1. fp'[f] = Claim(ev) /\ fields'[f] = ev.fields[f]
      BY SMTT(30), <2>1, MergedNext, MergeResult, MergesUnlessManual
    <3> QED
      BY SMTT(30), <3>1, <1>3, MergedNext, LastNext
  <2>2. CASE f \in Kept(strategy, fields, fp, ev)
    <3>1. f \in DOMAIN fp /\ fp'[f] = fp[f] /\ fields'[f] = fields[f]
      BY SMTT(30), <2>2, MergedNext, MergeResult, MergesUnlessManual
    <3>2. fp[f].source # s
      BY <2>2, <1>3 DEF Kept, Detect
    <3>3. fp[f].source \in Sources
      BY <3>1, EmptyRecord DEF Together, Claims
    <3>4. merged'[fp[f].source] = merged[fp[f].source] /\ End(merged'[fp[f].source]) = End(merged[fp[f].source])
      BY <3>2, <3>3, MergedNext, LastNext
    <3> QED
      BY <3>1, <3>4 DEF OwnerIsLatest
  <2> QED
    BY <2>1, <2>2
<1> QED
  BY <1>2, <1>4 DEF OwnerIsLatest

\* Times and priorities are numbers.
LEMMA StampsNat ==
    ASSUME TypeOK
    PROVE  /\ \A o \in Sources : merged[o] # <<>> =>
                 End(merged[o]) \in EventSet /\ Len(merged[o]) \in 1 .. Len(merged[o])
           /\ \A ev \in EventSet : ev.at \in Nat /\ ev.prio \in Nat
           /\ \A c \in Claims : c.at \in Nat /\ c.prio \in Nat /\ c.source \in Sources
<1>1. ASSUME NEW o \in Sources, merged[o] # <<>>
      PROVE  End(merged[o]) \in EventSet /\ Len(merged[o]) \in 1 .. Len(merged[o])
  <2>1. merged[o] \in Seq(EventSet)
    BY DEF TypeOK
  <2> QED
    BY SMTT(30), <1>1, <2>1 DEF End
<1> QED
  BY <1>1, MergeAssumption DEF EventSet, Claims

\* Claims are compared as the events that made them.
LEMMA ClaimStamps ==
    ASSUME NEW how, NEW ev, NEW b
    PROVE  /\ IncomingWins(how, Claim(ev), b) <=> IncomingWins(how, ev, b)
           /\ Claim(ev).at = ev.at /\ Claim(ev).prio = ev.prio /\ Claim(ev).source = ev.source
BY DEF IncomingWins, Claim

\* Fewer events agree on no more fields.
LEMMA AgreedStays ==
    ASSUME TypeOK, EventsSigned, NEW s \in Sources, NEW t \in Times, NEW v \in [Fields -> Values], Merge(s, t, v),
           NEW f, NeverAgreed(f)'
    PROVE  NeverAgreed(f)
<1>1. \A o \in Sources : merged[o] \in Seq(EventSet) /\ merged'[o] \in Seq(EventSet)
  BY MergedNext DEF TypeOK
<1>2. \A o \in Sources : DOMAIN merged[o] = 1 .. Len(merged[o]) /\ DOMAIN merged'[o] = 1 .. Len(merged'[o])
  BY SMTT(30), <1>1
<1>3. \A o \in Sources : \A i \in DOMAIN merged[o] : i \in DOMAIN merged'[o] /\ merged'[o][i] = merged[o][i]
  BY <1>2, WitnessKept
<1> QED
  BY SMTT(30), <1>3 DEF NeverAgreed

\* On a field the sources never agreed on, the latest events of two sources differ.
LEMMA LatestDiffer ==
    ASSUME TypeOK, NEW f, NeverAgreed(f), NEW s \in Sources, NEW o \in Sources, s # o,
           merged[s] # <<>>, merged[o] # <<>>
    PROVE  End(merged[s]).fields[f] # End(merged[o]).fields[f]
<1>1. merged[s] \in Seq(EventSet) /\ merged[o] \in Seq(EventSet)
  BY DEF TypeOK
<1>2. Len(merged[s]) \in DOMAIN merged[s] /\ Len(merged[o]) \in DOMAIN merged[o]
  BY SMTT(30), <1>1
<1> QED
  BY <1>2 DEF NeverAgreed, End

\* After the event took the field, no other source's latest event beats it.
LEMMA TakerIsBest ==
    ASSUME MergeInv, strategy # "manual",
           NEW s \in Sources, NEW t \in Times, NEW v \in [Fields -> Values], Merge(s, t, v),
           NEW f \in Fields, NeverAgreed(f)', f \notin Kept(strategy, fields, fp, Incoming(s, t, v)),
           NEW o \in Sources \ {s}, merged[o] # <<>>
    PROVE  ~IncomingWins(normalizeStrategy(strategy), Incoming(s, t, v), End(merged[o]))
<1> DEFINE how == normalizeStrategy(strategy)
           ev  == Incoming(s, t, v)
           c   == End(merged[o])
<1> SUFFICES ASSUME IncomingWins(how, ev, c) PROVE FALSE
  OBVIOUS
<1>1. TypeOK /\ EventsSigned /\ OwnerIsLatest /\ NeverAgreed(f) /\ TypeOK'
  BY AgreedStays, StepTyped DEF MergeInv
<1>2. fp \in [Fields -> Claims] /\ f \in DOMAIN fp
  BY <1>1 DEF OwnerIsLatest
<1>3. PICK q \in Sources : q = fp[f].source
  BY <1>2 DEF Claims
<1>4. merged[q] # <<>> /\ fp[f] = Claim(End(merged[q])) /\ fields[f] = End(merged[q]).fields[f]
  BY <1>1, <1>2, <1>3 DEF OwnerIsLatest
<1>5. {ev.at, c.at, fp[f].at, ev.prio, c.prio, fp[f].prio, End(merged[q]).at, End(merged[q]).prio} \subseteq Nat
  BY SMTT(30), <1>1, <1>2, <1>4, StampsNat, MergedNext
<1>6. o # q => ~IncomingWins(how, fp[f], c)
  <2>1. o # q => c.fields[f] # fields[f]
    BY <1>1, <1>4, LatestDiffer
  <2> QED
    BY <1>1, <1>2, <1>3, <2>1 DEF MergeInv, BestWriterOwns, BeatsOwner, End
<1>7. CASE q = s
  <2>1. fp[f].at <= ev.at
    <3>1. Len(merged[s]) > 0
      BY SMTT(30), <1>1, <1>4, <1>7, StampsNat
    <3> QED
      BY <1>4, <1>7, <3>1, ClaimStamps DEF Merge, End, Incoming
  <2>2. fp[f].prio = ev.prio
    <3>1. End(merged[s]).prio = prio[s]
      BY <1>1, <1>4, <1>7, StampsNat DEF EventsSigned, End
    <3>2. ev.prio = prio[s]
      BY DEF Incoming
    <3> QED
      BY <1>4, <1>7, <3>1, <3>2, ClaimStamps
  <2>3. IncomingWins(how, fp[f], c)
    <3>1. {fp[f].at, ev.at, c.at, fp[f].prio, ev.prio, c.prio} \subseteq Nat
      BY <1>5
    <3> HIDE DEF ev, c, how
    <3>2. IncomingWins(how, ev, c) /\ ev.prio = fp[f].prio /\ fp[f].at <= ev.at => IncomingWins(how, fp[f], c)
      BY <3>1, WinsOrder
    <3> QED
      BY <2>1, <2>2, <3>2
  <2> QED
    BY <1>6, <1>7, <2>3
<1>8. CASE q # s
  <2>1. End(merged'[s]) = ev /\ End(merged'[q]) = End(merged[q]) /\ merged'[s] # <<>> /\ merged'[q] # <<>>
    BY <1>1, <1>4, <1>8, LastNext, MergedNext
  <2>2. ev.fields[f] # fields[f]
    <3>1. \A x, y \in Sources : x # y /\ merged'[x] # <<>> /\ merged'[y] # <<>> =>
              End(merged'[x]).fields[f] # End(merged'[y]).fields[f]
      <4> TAKE x, y \in Sources
      <4> HAVE x # y /\ merged'[x] # <<>> /\ merged'[y] # <<>>
      <4>1. merged'[x] \in Seq(EventSet) /\ merged'[y] \in Seq(EventSet)
        BY <1>1, MergedNext
      <4>2. Len(merged'[x]) \in DOMAIN merged'[x] /\ Len(merged'[y]) \in DOMAIN merged'[y]
        BY SMTT(30), <4>1
      <4> QED
        BY <4>2 DEF NeverAgreed, End
    <3> QED
      BY <1>4, <1>8, <2>1, <3>1
  <2>3. f \in Detect(fields, fp, ev)
    BY <1>2, <1>3, <1>8, <2>2, MergedNext, <1>1 DEF Detect, Incoming, EventSet
  <2>4. IncomingWins(how, fp[f], ev)
    BY <2>3 DEF Kept
  <2>5. CASE o = q
    BY SMTT(30), <1>4, <1>5, <2>4, <2>5, ClaimStamps, WinsOrder
  <2>6. CASE o # q
    BY SMTT(30), <1>5, <1>6, <2>4, <2>6, WinsOrder
  <2> QED
    BY <2>5, <2>6
<1> QED
  BY <1>7, <1>8

\* A field changes hands to the better writer only.
LEMMA StepBest ==
    ASSUME MergeInv, NEW s \in Sources, NEW t \in Times, NEW v \in [Fields -> Values], Merge(s, t, v)
    PROVE  BestWriterOwns'
<1> DEFINE how == normalizeStrategy(strategy)
           ev  == Incoming(s, t, v)
<1>1. strategy' = strategy /\ TypeOK /\ EventsSigned /\ Together
  BY DEF Merge, MergeInv
<1> SUFFICES ASSUME strategy # "manual", NEW f \in DOMAIN fp', NeverAgreed(f)',
                    NEW o \in Sources, merged'[o] # <<>>,
                    o # fp'[f].source, End(merged'[o]).fields[f] # fields'[f],
                    IncomingWins(how, fp'[f], End(merged'[o]))
             PROVE  FALSE
  BY <1>1 DEF BestWriterOwns, BeatsOwner, End
<1>2. f \in Fields
  BY SMTT(30), <1>1, MergedNext, MergeResult, MergesUnlessManual
<1>3. NeverAgreed(f)
  BY <1>1, AgreedStays
<1>4. CASE f \in Kept(strategy, fields, fp, ev)
  <2>1. f \in DOMAIN fp /\ fp'[f] = fp[f] /\ fields'[f] = fields[f]
    BY SMTT(30), <1>1, <1>2, <1>4, MergedNext, MergeResult, MergesUnlessManual
  <2>2. CASE o = s
    BY <1>1, <1>4, <2>1, <2>2, LastNext DEF Kept
  <2>3. CASE o # s
    <3>1. merged'[o] = merged[o]
      BY <1>1, <2>3, MergedNext
    <3> QED
      BY <1>3, <2>1, <3>1 DEF MergeInv, BestWriterOwns, BeatsOwner, End
  <2> QED
    BY <2>2, <2>3
<1>5. CASE f \notin Kept(strategy, fields, fp, ev)
  <2>1. fp'[f] = Claim(ev)
    BY SMTT(30), <1>1, <1>2, <1>5, MergedNext, MergeResult, MergesUnlessManual
  <2>2. o # s
    BY <2>1, ClaimStamps DEF Incoming
  <2>3. merged'[o] = merged[o]
    BY <1>1, <2>2, MergedNext
  <2> QED
    BY SMTT(30), <1>2, <1>5, <2>1, <2>2, <2>3, ClaimStamps, TakerIsBest
<1> QED
  BY <1>4, <1>5

-----------------------------------------------------------------------------
\* The inductive invariant holds of every reachable state.
LEMMA MergeInvariant == Spec => []MergeInv
<1>1. Init => MergeInv
  <2> SUFFICES ASSUME Init PROVE MergeInv
    OBVIOUS
  <2>1. TypeOK
    BY SMTT(30) DEF Init, TypeOK
  <2>2. EventsSigned /\ Together /\ ProvenanceTruthful /\ OwnerIsLatest /\ BestWriterOwns
    BY SMTT(30), EmptyRecord DEF Init, EventsSigned, Together, ProvenanceTruthful, OwnerIsLatest, BestWriterOwns
  <2> QED
    BY <2>1, <2>2 DEF MergeInv
<1>2. MergeInv /\ [Next]_mergeVars => MergeInv'
  <2> SUFFICES ASSUME MergeInv, [Next]_mergeVars PROVE MergeInv'
    OBVIOUS
  <2>1. CASE UNCHANGED mergeVars
    <3>1. UNCHANGED <<strategy, prio, merged, fields, fp>>
      BY <2>1 DEF mergeVars
    <3>2. TypeOK' /\ EventsSigned' /\ Together'
      BY <3>1 DEF MergeInv, TypeOK, EventsSigned, Together
    <3>3. ProvenanceTruthful' /\ OwnerIsLatest'
      BY <3>1 DEF MergeInv, ProvenanceTruthful, OwnerIsLatest
    <3>4. BestWriterOwns'
      BY SMTT(30), <3>1 DEF MergeInv, BestWriterOwns, NeverAgreed, BeatsOwner
    <3> QED
      BY <3>2, <3>3, <3>4 DEF MergeInv
  <2>2. CASE Next
    <3>1. PICK s \in Sources, t \in Times, v \in [Fields -> Values] : Merge(s, t, v)
      BY <2>2 DEF Next
    <3> QED
      BY <3>1, StepTyped, StepTruthful, StepOwner, StepBest DEF MergeInv
  <2> QED
    BY <2>1, <2>2
<1> QED
  BY <1>1, <1>2, PTL DEF Spec

\* The recorded writer of every field is a merged event that carried the stored
\* value (conflict.go Merge), whatever the events and the strategy.
THEOREM WritersAreTrue == Spec => []ProvenanceTruthful
<1>1. MergeInv => ProvenanceTruthful
  BY DEF MergeInv
<1> QED
  BY <1>1, MergeInvariant, PTL

\* On a field the sources never agreed on, no source's latest event beats the
\* owner (conflict.go Resolve and Merge), however many sources and events.
THEOREM BestWriterStays == Spec => []BestWriterOwns
<1>1. MergeInv => BestWriterOwns
  BY DEF MergeInv
<1> QED
  BY <1>1, MergeInvariant, PTL

=============================================================================
