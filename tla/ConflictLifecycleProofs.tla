----------------------- MODULE ConflictLifecycleProofs -----------------------
(***************************************************************************)
(* Proofs about ConflictLifecycle, for any number of operators, engines,   *)
(* requests, failing calls and crashes: no side of a conflict is applied   *)
(* twice, and a conflict reported resolved has a side applied.             *)
(***************************************************************************)
EXTENDS ConflictLifecycle, TLAPS

\* Most leaves are first-order reasoning and left to Zenon; those that count, or that
\* take a record apart, name SMT.
USE ZenonT(15), SMTT(60)

\* Where an engine holds a claim it has not yet used.
Holding(e) == eng[e].pc \in {"policies", "write", "commit", "release"}

IsApplied(s) == \E i \in DOMAIN applied : applied[i] = s

\* An unused claim has one holder, and its side is not applied.
ClaimsHeld ==
    \A e \in Engines : Holding(e) =>
        /\ eng[e].side \in claims /\ ~IsApplied(eng[e].side)
        /\ \A f \in Engines \ {e} : Holding(f) => eng[f].side # eng[e].side

\* A busy engine works for a side.
EngineHasSide == \A e \in Engines : eng[e].pc # "idle" => eng[e].side \in Sides

ConflictInv ==
    /\ TypeOK /\ EngineHasSide /\ ClaimsHeld /\ SideAppliedOnce /\ ResolvedMeansApplied
    /\ \A i \in DOMAIN applied : applied[i] \in claims
    /\ \A e \in Engines : eng[e].pc = "status" => applied # <<>>
-----------------------------------------------------------------------------
\* The invariant holds of a conflict that is not there yet.
LEMMA InitInv == Init => ConflictInv
<1> SUFFICES ASSUME Init PROVE ConflictInv
  OBVIOUS
<1>1. TypeOK
  <2>1. eng \in [Engines -> [pc : PCs, side : Sides \cup {None}]]
    BY DEF Init, Idle, PCs
  <2>2. applied \in Seq(Sides) /\ request \in [Operators -> Sides \cup {None, "dismiss"}]
    BY SMTT(30) DEF Init
  <2>3. requests \in 0 .. MaxRequests /\ faults \in 0 .. MaxFaults /\ crashes \in 0 .. MaxCrashes
    BY SMTT(30), LifecycleAssumption DEF Init
  <2>4. routed \in Routings /\ claims \subseteq Sides /\ parked \in BOOLEAN
    BY DEF Init
  <2> QED
    BY <2>1, <2>2, <2>3, <2>4 DEF Init, TypeOK
<1>2. DOMAIN applied = {} /\ status # "resolved"
  BY SMTT(30) DEF Init, None
<1>3. \A e \in Engines : eng[e].pc = "idle"
  BY DEF Init, Idle
<1> QED
  BY <1>1, <1>2, <1>3
     DEF ConflictInv, EngineHasSide, ClaimsHeld, Holding, SideAppliedOnce, ResolvedMeansApplied

\* Steps that change no claim and apply nothing, and end with the engine e at a
\* point where it holds no claim it did not hold before.
LEMMA QuietStep ==
    ASSUME ConflictInv, TypeOK', NEW e \in Engines,
           claims' = claims, applied' = applied,
           status' = "resolved" => status = "resolved" \/ applied # <<>>,
           \A f \in Engines \ {e} : eng'[f] = eng[f],
           Holding(e)' => Holding(e) /\ eng'[e].side = eng[e].side,
           eng'[e].pc = "status" => eng[e].pc = "status",
           eng'[e].pc # "idle" => eng'[e].side \in Sides
    PROVE  ConflictInv'
<1>1. ClaimsHeld'
  BY SMTT(30) DEF ConflictInv, ClaimsHeld, Holding, IsApplied
<1>2. EngineHasSide'
  BY DEF ConflictInv, EngineHasSide
<1> QED
  BY <1>1, <1>2 DEF ConflictInv, SideAppliedOnce, ResolvedMeansApplied

\* Type correctness, action by action.
LEMMA StepTyped == ConflictInv /\ [Next]_vars => TypeOK'
<1> SUFFICES ASSUME ConflictInv, [Next]_vars PROVE TypeOK'
  OBVIOUS
<1> USE LifecycleAssumption DEF ConflictInv
<1>1. CASE InsertConflict
  BY <1>1 DEF InsertConflict, TypeOK
<1>2. ASSUME NEW o \in Operators, NEW what \in Sides \cup {"dismiss"}, GetPendingConflict(o, what) PROVE TypeOK'
  BY SMTT(30), <1>2 DEF GetPendingConflict, TypeOK
<1>3. ASSUME NEW o \in Operators, EnqueueResolution(o) PROVE TypeOK'
  BY <1>3 DEF EnqueueResolution, TypeOK
<1>4. ASSUME NEW o \in Operators, Dismiss(o) PROVE TypeOK'
  BY <1>4 DEF Dismiss, SetConflictStatus, TypeOK
<1>5. ASSUME NEW e \in Engines, ClaimDueRetry(e) PROVE TypeOK'
  BY <1>5 DEF ClaimDueRetry, TypeOK, PCs
<1>6. ASSUME NEW e \in Engines, ClaimProcessedEvent(e) PROVE TypeOK'
  <2>1. eng[e].side \in Sides
    BY <1>6 DEF ClaimProcessedEvent, EngineHasSide
  <2>2. eng' \in [Engines -> [pc : PCs, side : Sides \cup {None}]]
    BY SMTT(30), <1>6 DEF ClaimProcessedEvent, Goto, TypeOK, PCs
  <2> QED
    BY <1>6, <2>1, <2>2 DEF ClaimProcessedEvent, TypeOK
<1>7. ASSUME NEW e \in Engines, SelectTargets(e) PROVE TypeOK'
  BY SMTT(30), <1>7 DEF SelectTargets, Goto, TypeOK, PCs
<1>8. ASSUME NEW e \in Engines, WriteDestinations(e) PROVE TypeOK'
  BY SMTT(30), <1>8 DEF WriteDestinations, Goto, TypeOK, PCs
<1>9. ASSUME NEW e \in Engines, UpsertCanonical(e) PROVE TypeOK'
  <2>1. eng[e].side \in Sides
    BY <1>9 DEF UpsertCanonical, EngineHasSide
  <2>2. eng' \in [Engines -> [pc : PCs, side : Sides \cup {None}]]
    BY SMTT(30), <1>9 DEF UpsertCanonical, Goto, TypeOK, PCs
  <2>3. applied' \in Seq(Sides)
    BY SMTT(30), <1>9, <2>1 DEF UpsertCanonical, TypeOK
  <2> QED
    BY <1>9, <2>2, <2>3 DEF UpsertCanonical, TypeOK
<1>10. ASSUME NEW e \in Engines, MarkResolved(e) PROVE TypeOK'
  <2>1. eng' \in [Engines -> [pc : PCs, side : Sides \cup {None}]]
    BY SMTT(30), <1>10 DEF MarkResolved, Goto, TypeOK, PCs
  <2> QED
    BY <1>10, <2>1 DEF MarkResolved, SetConflictStatus, TypeOK
<1>11. ASSUME NEW e \in Engines, DeleteRetry(e) PROVE TypeOK'
  BY <1>11 DEF DeleteRetry, TypeOK, PCs, Idle
<1>12. ASSUME NEW e \in Engines, FailCall(e) PROVE TypeOK'
  BY SMTT(30), <1>12 DEF FailCall, Goto, TypeOK, PCs
<1>13. ASSUME NEW e \in Engines, ReleaseProcessedEvent(e) PROVE TypeOK'
  BY SMTT(30), <1>13 DEF ReleaseProcessedEvent, Goto, TypeOK, PCs
<1>14. ASSUME NEW e \in Engines, RetryOrPark(e) PROVE TypeOK'
  <2>1. eng' \in [Engines -> [pc : PCs, side : Sides \cup {None}]]
    BY <1>14 DEF RetryOrPark, TypeOK, PCs, Idle
  <2>2. eng[e].side \in Sides \cup {None}
    BY DEF TypeOK
  <2> QED
    BY <1>14, <2>1, <2>2 DEF RetryOrPark, TypeOK
<1>15. ASSUME NEW e \in Engines, CrashEngine(e) PROVE TypeOK'
  BY SMTT(30), <1>15 DEF CrashEngine, TypeOK, PCs, Idle
<1>16. CASE UNCHANGED vars
  BY <1>16 DEF vars, TypeOK
<1> QED
  BY <1>1, <1>2, <1>3, <1>4, <1>5, <1>6, <1>7, <1>8, <1>9, <1>10, <1>11, <1>12, <1>13, <1>14,
     <1>15, <1>16 DEF Next, OperatorStep, EngineStep

\* Every step of an operator, an engine or a crash keeps the invariant.
LEMMA StepInv == ConflictInv /\ [Next]_vars => ConflictInv'
<1> SUFFICES ASSUME ConflictInv, [Next]_vars PROVE ConflictInv'
  OBVIOUS
<1>t. TypeOK'
  BY StepTyped
<1>0. eng \in [Engines -> [pc : PCs, side : Sides \cup {None}]]
  BY DEF ConflictInv, TypeOK
<1>1. ASSUME eng' = eng, claims' = claims, applied' = applied, status' = "resolved" => status = "resolved"
      PROVE  ConflictInv'
  BY <1>t, <1>1 DEF ConflictInv, EngineHasSide, ClaimsHeld, Holding, IsApplied, SideAppliedOnce, ResolvedMeansApplied
<1>2. CASE InsertConflict
  BY <1>1, <1>2 DEF InsertConflict
<1>3. ASSUME NEW o \in Operators, NEW what \in Sides \cup {"dismiss"}, GetPendingConflict(o, what)
      PROVE  ConflictInv'
  BY <1>1, <1>3 DEF GetPendingConflict
<1>4. ASSUME NEW o \in Operators, EnqueueResolution(o) \/ Dismiss(o) PROVE ConflictInv'
  BY <1>1, <1>4 DEF EnqueueResolution, Dismiss, SetConflictStatus
<1>5. ASSUME NEW e \in Engines, ClaimDueRetry(e) PROVE ConflictInv'
  <2>1. /\ eng'[e].pc = "claim" /\ eng'[e].side = row /\ row \in Sides
        /\ \A f \in Engines \ {e} : eng'[f] = eng[f]
    BY <1>0, <1>5 DEF ClaimDueRetry, ConflictInv, TypeOK
  <2> QED
    BY <1>t, <1>5, <2>1, QuietStep DEF ClaimDueRetry, Holding
<1>6. ASSUME NEW e \in Engines, ClaimProcessedEvent(e) PROVE ConflictInv'
  <2>1. /\ eng'[e].side = eng[e].side /\ \A f \in Engines \ {e} : eng'[f] = eng[f]
        /\ eng'[e].pc = IF eng[e].side \in claims THEN "delete" ELSE "policies"
        /\ eng[e].side \in Sides /\ claims' = claims \cup {eng[e].side}
        /\ applied' = applied /\ status' = status
    BY <1>0, <1>6 DEF ClaimProcessedEvent, Goto, ConflictInv, EngineHasSide
  <2>2. CASE eng[e].side \in claims
    BY <1>t, <2>1, <2>2, QuietStep DEF Holding
  <2>3. CASE eng[e].side \notin claims
    <3>1. ~IsApplied(eng[e].side)
      BY <2>3 DEF ConflictInv, IsApplied
    <3>2. ClaimsHeld'
      BY SMTT(30), <2>1, <2>3, <3>1 DEF ConflictInv, ClaimsHeld, Holding, IsApplied
    <3> QED
      BY <1>t, <2>1, <3>2 DEF ConflictInv, EngineHasSide, SideAppliedOnce, ResolvedMeansApplied
  <2> QED
    BY <2>2, <2>3
<1>7. ASSUME NEW e \in Engines, Holding(e), claims' = claims \ {eng[e].side}, applied' = applied,
             status' = status, \A f \in Engines \ {e} : eng'[f] = eng[f],
             eng'[e].pc \in {"delete", "again"}, eng'[e].side = eng[e].side
      PROVE  ConflictInv'
  <2>1. eng[e].side \in Sides /\ \A i \in DOMAIN applied : applied[i] # eng[e].side
    BY <1>7 DEF ConflictInv, EngineHasSide, ClaimsHeld, Holding, IsApplied
  <2>2. ClaimsHeld'
    BY SMTT(30), <1>7 DEF ConflictInv, ClaimsHeld, Holding, IsApplied
  <2> QED
    BY <1>t, <1>7, <2>1, <2>2 DEF ConflictInv, EngineHasSide, SideAppliedOnce, ResolvedMeansApplied
<1>8. ASSUME NEW e \in Engines, SelectTargets(e) PROVE ConflictInv'
  <2>1. /\ eng'[e].side = eng[e].side /\ \A f \in Engines \ {e} : eng'[f] = eng[f]
        /\ Holding(e) /\ eng[e].side \in Sides /\ applied' = applied /\ status' = status
    BY <1>0, <1>8 DEF SelectTargets, Goto, Holding, ConflictInv, EngineHasSide
  <2>2. CASE eng[e].side \in routed
    <3>1. eng'[e].pc = "write" /\ claims' = claims
      BY <1>0, <1>8, <2>2 DEF SelectTargets, Goto
    <3> QED
      BY <1>t, <2>1, <3>1, QuietStep DEF Holding
  <2>3. CASE eng[e].side \notin routed
    BY <1>0, <1>7, <1>8, <2>1, <2>3 DEF SelectTargets, Goto
  <2> QED
    BY <2>2, <2>3
<1>9. ASSUME NEW e \in Engines, WriteDestinations(e) PROVE ConflictInv'
  <2>1. /\ eng'[e].side = eng[e].side /\ \A f \in Engines \ {e} : eng'[f] = eng[f]
        /\ eng[e].pc = "write" /\ eng'[e].pc = "commit" /\ eng[e].side \in Sides
    BY <1>0, <1>9 DEF WriteDestinations, Goto, ConflictInv, EngineHasSide
  <2> QED
    BY <1>t, <1>9, <2>1, QuietStep DEF WriteDestinations, Holding
<1>10. ASSUME NEW e \in Engines, UpsertCanonical(e) PROVE ConflictInv'
  <2>1. /\ eng'[e].side = eng[e].side /\ \A f \in Engines \ {e} : eng'[f] = eng[f]
        /\ eng[e].pc = "commit" /\ eng'[e].pc = "status" /\ eng[e].side \in Sides
        /\ claims' = claims /\ status' = status
    BY <1>0, <1>10 DEF UpsertCanonical, Goto, ConflictInv, EngineHasSide
  <2>2. eng[e].side \in claims /\ ~IsApplied(eng[e].side)
    BY <2>1 DEF ConflictInv, ClaimsHeld, Holding
  <2>3. /\ Len(applied) \in Nat /\ DOMAIN applied = 1 .. Len(applied)
        /\ DOMAIN applied' = 1 .. Len(applied) + 1
        /\ \A i \in 1 .. Len(applied) : applied'[i] = applied[i]
        /\ applied'[Len(applied) + 1] = eng[e].side
    BY SMTT(30), <1>10, <2>1 DEF UpsertCanonical, ConflictInv, TypeOK
  <2>4. applied' # <<>>
    BY SMTT(30), <1>t, <2>3 DEF TypeOK
  <2>5. \A i \in DOMAIN applied' : i \in DOMAIN applied \/ i = Len(applied) + 1
    BY SMTT(30), <2>3
  <2>6. SideAppliedOnce'
    BY <2>2, <2>3, <2>5 DEF SideAppliedOnce, ConflictInv, IsApplied
  <2>7. \A i \in DOMAIN applied' : applied'[i] \in claims'
    BY <2>1, <2>2, <2>3, <2>5 DEF ConflictInv
  <2>8. ClaimsHeld'
    <3> SUFFICES ASSUME NEW f \in Engines, Holding(f)'
                 PROVE  /\ eng'[f].side \in claims' /\ (\A i \in DOMAIN applied' : applied'[i] # eng'[f].side)
                        /\ \A g \in Engines \ {f} : Holding(g)' => eng'[g].side # eng'[f].side
      BY DEF ClaimsHeld, IsApplied
    <3>1. f # e /\ eng'[f] = eng[f] /\ Holding(f) /\ eng[f].side # eng[e].side
      BY <2>1 DEF Holding, ConflictInv, ClaimsHeld
    <3>2. eng[f].side \in claims /\ ~IsApplied(eng[f].side)
      BY <3>1 DEF ConflictInv, ClaimsHeld
    <3>3. \A g \in Engines \ {f} : Holding(g)' => eng'[g].side # eng'[f].side
      BY <2>1, <3>1 DEF Holding, ConflictInv, ClaimsHeld
    <3> QED
      BY <2>1, <2>3, <2>5, <3>1, <3>2, <3>3 DEF IsApplied
  <2> QED
    BY <1>t, <2>1, <2>4, <2>6, <2>7, <2>8 DEF ConflictInv, EngineHasSide, ResolvedMeansApplied
<1>11. ASSUME NEW e \in Engines, MarkResolved(e) PROVE ConflictInv'
  <2>1. /\ eng'[e].side = eng[e].side /\ \A f \in Engines \ {e} : eng'[f] = eng[f]
        /\ eng[e].pc = "status" /\ eng'[e].pc = "delete" /\ eng[e].side \in Sides
    BY <1>0, <1>11 DEF MarkResolved, Goto, ConflictInv, EngineHasSide
  <2>2. applied # <<>>
    BY <2>1 DEF ConflictInv
  <2> QED
    BY <1>t, <1>11, <2>1, <2>2, QuietStep DEF MarkResolved, Holding
<1>12. ASSUME NEW e \in Engines, DeleteRetry(e) \/ RetryOrPark(e) \/ CrashEngine(e) PROVE ConflictInv'
  <2>1. eng'[e].pc = "idle" /\ \A f \in Engines \ {e} : eng'[f] = eng[f]
    BY SMTT(30), <1>0, <1>12 DEF DeleteRetry, RetryOrPark, CrashEngine, Idle
  <2>2. claims' = claims /\ applied' = applied /\ status' = status
    BY <1>12 DEF DeleteRetry, RetryOrPark, CrashEngine
  <2> QED
    BY <1>t, <2>1, <2>2, QuietStep DEF Holding
<1>13. ASSUME NEW e \in Engines, FailCall(e) PROVE ConflictInv'
  <2>1. /\ eng'[e].side = eng[e].side /\ \A f \in Engines \ {e} : eng'[f] = eng[f]
        /\ eng[e].side \in Sides
        /\ eng'[e].pc = IF eng[e].pc = "status" THEN "delete" ELSE "release"
        /\ eng[e].pc \in {"write", "commit", "status"}
    BY <1>0, <1>13 DEF FailCall, Goto, ConflictInv, EngineHasSide
  <2> QED
    BY <1>t, <1>13, <2>1, QuietStep DEF FailCall, Holding
<1>14. ASSUME NEW e \in Engines, ReleaseProcessedEvent(e) PROVE ConflictInv'
  BY <1>0, <1>7, <1>14 DEF ReleaseProcessedEvent, Goto, Holding
<1>15. CASE UNCHANGED vars
  BY <1>1, <1>15 DEF vars
<1> QED
  BY <1>2, <1>3, <1>4, <1>5, <1>6, <1>8, <1>9, <1>10, <1>11, <1>12, <1>13, <1>14, <1>15
     DEF Next, OperatorStep, EngineStep

\* The invariant holds throughout.
LEMMA ConflictInvariant == Spec => []ConflictInv
BY InitInv, StepInv, PTL DEF Spec

\* No side of a conflict is applied a second time, whatever engines read the row
\* twice, fail or crash: the claim of an applied side is never released.
THEOREM SidesAppliedOnce == Spec => []SideAppliedOnce
<1>1. ConflictInv => SideAppliedOnce
  BY DEF ConflictInv
<1> QED
  BY <1>1, ConflictInvariant, PTL

\* A conflict reported resolved has a side committed to the canonical record.
THEOREM ResolvedWasApplied == Spec => []ResolvedMeansApplied
<1>1. ConflictInv => ResolvedMeansApplied
  BY DEF ConflictInv
<1> QED
  BY <1>1, ConflictInvariant, PTL

=============================================================================
