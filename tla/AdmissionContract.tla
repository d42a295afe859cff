-------------------------- MODULE AdmissionContract --------------------------
(***************************************************************************)
(* What a stage of the voice pipeline is promised by its admission queue   *)
(* (the comment of BoundedQueue in orchestration/admission.go): a call     *)
(* holds one of MaxInflight slots from the moment Acquire grants it until  *)
(* it releases it; it is refused only when no slot is free and it gives up *)
(* only when its context is done.  How callers queue is left open.         *)
(***************************************************************************)
EXTENDS Integers, FiniteSets

CONSTANTS
    Calls,          \* calls of Acquire, each made once
    MaxInflight     \* slots

VARIABLES
    outcome,    \* what each call has been told
    ctxDone     \* the calls whose context is done

vars == <<outcome, ctxDone>>

Outcomes == {"idle", "asking", "holding", "refused", "canceled", "released"}

Holders == {c \in Calls : outcome[c] = "holding"}

SlotFree == Cardinality(Holders) < MaxInflight

Becomes(c, from, to) ==
    /\ outcome[c] \in from
    /\ outcome' = [outcome EXCEPT ![c] = to]
    /\ UNCHANGED ctxDone

Ask(c) == Becomes(c, {"idle"}, "asking")

Grant(c) == SlotFree /\ Becomes(c, {"idle", "asking"}, "holding")

Refuse(c) == ~SlotFree /\ Becomes(c, {"idle", "asking"}, "refused")

GiveUp(c) == c \in ctxDone /\ Becomes(c, {"idle", "asking"}, "canceled")

Release(c) == Becomes(c, {"holding"}, "released")

ContextDone(c) ==
    /\ c \notin ctxDone
    /\ ctxDone' = ctxDone \cup {c}
    /\ UNCHANGED outcome

Init ==
    /\ outcome = [c \in Calls |-> "idle"]
    /\ ctxDone = {}

Next == \E c \in Calls :
    Ask(c) \/ Grant(c) \/ Refuse(c) \/ GiveUp(c) \/ Release(c) \/ ContextDone(c)

Spec == Init /\ [][Next]_vars
=============================================================================
