---------------------------- MODULE ApplyContract ----------------------------
(***************************************************************************)
(* What Worker.Process promises about one event, whoever delivers it and   *)
(* however often: its destination is mutated only under the event's claim, *)
(* at most once per claim, and never again once the event is applied or    *)
(* its claim was left behind.                                              *)
(***************************************************************************)
EXTENDS Naturals

CONSTANT Events

VARIABLES
    phase,    \* "free"; "claimed"; "mutated": the destination accepted the
              \* write; "failed": the attempt is being undone; "applied";
              \* "closed": the claim stays without an attempt behind it
    effects   \* destination mutations made for the event

contractVars == <<phase, effects>>

ContractInit ==
    /\ phase = [e \in Events |-> "free"]
    /\ effects = [e \in Events |-> 0]

Move(e, from, to) ==
    /\ phase[e] \in from
    /\ phase' = [phase EXCEPT ![e] = to]

Claim(e) == Move(e, {"free"}, "claimed") /\ UNCHANGED effects

Mutate(e) ==
    /\ Move(e, {"claimed"}, "mutated")
    /\ effects' = [effects EXCEPT ![e] = @ + 1]

\* A failed call may still have reached the destination.
FailCall(e) ==
    /\ Move(e, {"claimed"}, "failed")
    /\ \E n \in {0, 1} : effects' = [effects EXCEPT ![e] = @ + n]

FailCommit(e) == Move(e, {"mutated"}, "failed") /\ UNCHANGED effects

Commit(e) == Move(e, {"mutated"}, "applied") /\ UNCHANGED effects

Release(e) == Move(e, {"claimed", "failed"}, "free") /\ UNCHANGED effects

\* An event is dropped with its claim kept, or claims are orphaned by a store error
\* or by the crash of the replica that held them.
Close(s) ==
    /\ \A e \in s : phase[e] \in {"free", "claimed", "mutated", "failed"}
    /\ phase' = [e \in Events |-> IF e \in s THEN "closed" ELSE phase[e]]
    /\ UNCHANGED effects

ContractNext ==
    \/ \E e \in Events :
          \/ Claim(e) \/ Mutate(e) \/ FailCall(e) \/ FailCommit(e)
          \/ Commit(e) \/ Release(e)
    \/ \E s \in SUBSET Events : Close(s)

ContractSpec == ContractInit /\ [][ContractNext]_contractVars

=============================================================================
