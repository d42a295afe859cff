---------------------------- MODULE BoundedQueue ----------------------------
(***************************************************************************)
(* BoundedQueue of backend/internal/orchestration/admission.go.            *)
(*                                                                         *)
(* A call of Acquire is a process.  What it does under the mutex is one    *)
(* step; its look at ctx.Done between two locks is a step of its own.      *)
(* Each queued call has a watcher goroutine that waits for ctx.Done or for *)
(* the end of Acquire.  A goroutine blocked in select runs the branch of   *)
(* the channel that is closed first; one that only reaches its select when *)
(* both channels are closed runs either of them.                           *)
(* The metric counters are left out.                                       *)
(***************************************************************************)
EXTENDS Integers, FiniteSets

CONSTANTS
    QueueCalls,          \* calls of Acquire, each made once
    QueueSlots,    \* slots (max)
    QueueDepth      \* places in the queue (queueMax)

ASSUME QueueAssumption == /\ QueueSlots \in Nat \ {0}
                          /\ QueueDepth \in Nat
                          /\ IsFiniteSet(QueueCalls)

VARIABLES
    inFlight,       \* slots in use
    waiters,        \* the counter of queued calls
    currentWaiters, \* the calls in the map of the same name
    pc,             \* where each call is
    watcher,        \* where each call's watcher goroutine is
    ctxDone         \* the calls whose context is done

queueVars == <<inFlight, waiters, currentWaiters, pc, watcher, ctxDone>>

\* "check" looks at ctx.Done, "lock" is about to take the mutex, "parked" is in cond.Wait.
Queued == {"check", "lock", "parked"}

Returned == {"holding", "refused", "canceled", "released"}
-----------------------------------------------------------------------------

\* Acquire up to its loop: canceled, granted, refused, or queued with a watcher.
Acquire(c) ==
    /\ pc[c] = "idle"
    /\ \/ /\ c \in ctxDone
          /\ pc' = [pc EXCEPT ![c] = "canceled"]
          /\ UNCHANGED <<inFlight, waiters, currentWaiters, watcher>>
       \/ /\ c \notin ctxDone /\ inFlight < QueueSlots
          /\ pc' = [pc EXCEPT ![c] = "holding"]
          /\ inFlight' = inFlight + 1
          /\ UNCHANGED <<waiters, currentWaiters, watcher>>
       \/ /\ c \notin ctxDone /\ inFlight >= QueueSlots /\ waiters >= QueueDepth
          /\ pc' = [pc EXCEPT ![c] = "refused"]
          /\ UNCHANGED <<inFlight, waiters, currentWaiters, watcher>>
       \/ /\ c \notin ctxDone /\ inFlight >= QueueSlots /\ waiters < QueueDepth
          /\ pc' = [pc EXCEPT ![c] = "check"]
          /\ waiters' = waiters + 1
          /\ currentWaiters' = currentWaiters \cup {c}
          /\ watcher' = [watcher EXCEPT ![c] = "starting"]
          /\ UNCHANGED inFlight
    /\ UNCHANGED ctxDone

\* Acquire returns and closes stopWatcher: a watcher blocked in its select ends.
Stopped(c) == [watcher EXCEPT ![c] = IF @ = "selecting" THEN "ended" ELSE @]

\* The removal from currentWaiters that the watcher and the loop share.
Unregister(c) ==
    /\ currentWaiters' = currentWaiters \ {c}
    /\ waiters' = IF c \in currentWaiters /\ waiters > 0 THEN waiters - 1 ELSE waiters

\* The top of the loop: a call whose context is done returns at once.
CheckContext(c) ==
    /\ pc[c] = "check"
    /\ IF c \in ctxDone
       THEN pc' = [pc EXCEPT ![c] = "canceled"] /\ watcher' = Stopped(c)
       ELSE pc' = [pc EXCEPT ![c] = "lock"] /\ UNCHANGED watcher
    /\ UNCHANGED <<inFlight, waiters, currentWaiters, ctxDone>>

\* Mutation: a woken call takes a slot without looking whether one is free.
RecheckTakes(c) ==
    /\ pc[c] = "lock"
    /\ IF c \notin currentWaiters
       THEN /\ pc' = [pc EXCEPT ![c] = "canceled"]
            /\ watcher' = Stopped(c)
            /\ UNCHANGED <<inFlight, waiters, currentWaiters>>
       ELSE /\ pc' = [pc EXCEPT ![c] = "holding"]
            /\ watcher' = Stopped(c)
            /\ inFlight' = inFlight + 1
            /\ Unregister(c)
    /\ UNCHANGED ctxDone

\* The body of the loop under the mutex: the watcher removed the call, or a slot is
\* free, or the queue has outgrown its depth, or the call parks on the condition.
Recheck(c) ==
    /\ pc[c] = "lock"
    /\ IF c \notin currentWaiters
       THEN /\ pc' = [pc EXCEPT ![c] = "canceled"]
            /\ watcher' = Stopped(c)
            /\ UNCHANGED <<inFlight, waiters, currentWaiters>>
       ELSE IF inFlight < QueueSlots \/ waiters > QueueDepth
       THEN /\ pc' = [pc EXCEPT ![c] = IF inFlight < QueueSlots THEN "holding" ELSE "refused"]
            /\ inFlight' = IF inFlight < QueueSlots THEN inFlight + 1 ELSE inFlight
            /\ watcher' = Stopped(c)
            /\ Unregister(c)
       ELSE /\ pc' = [pc EXCEPT ![c] = "parked"]
            /\ UNCHANGED <<inFlight, waiters, currentWaiters, watcher>>
    /\ UNCHANGED ctxDone

\* The watcher goroutine reaches its select.
WatcherStarts(c) ==
    /\ watcher[c] = "starting"
    /\ watcher' \in {[watcher EXCEPT ![c] = s] : s \in
            (IF c \in ctxDone THEN {"fired"} ELSE {})
                \cup (IF pc[c] \in Returned THEN {"ended"} ELSE {})
                \cup (IF c \notin ctxDone /\ pc[c] \notin Returned THEN {"selecting"} ELSE {})}
    /\ UNCHANGED <<inFlight, waiters, currentWaiters, pc, ctxDone>>

\* Mutation: the watcher removes the call but wakes nobody.
WatcherFiresSilently(c) ==
    /\ watcher[c] = "fired"
    /\ Unregister(c)
    /\ watcher' = [watcher EXCEPT ![c] = "ended"]
    /\ UNCHANGED <<inFlight, pc, ctxDone>>

\* The ctx.Done branch: the call is removed and every parked call is woken.
WatcherFires(c) ==
    /\ watcher[c] = "fired"
    /\ Unregister(c)
    /\ watcher' = [watcher EXCEPT ![c] = "ended"]
    /\ pc' = [d \in QueueCalls |-> IF pc[d] = "parked" THEN "check" ELSE pc[d]]
    /\ UNCHANGED <<inFlight, ctxDone>>

\* The function makeRelease returns: the slot is freed and one parked call, if any, woken.
Release(c) ==
    /\ pc[c] = "holding"
    /\ inFlight' = IF inFlight > 0 THEN inFlight - 1 ELSE inFlight
    /\ \/ /\ \A d \in QueueCalls : pc[d] # "parked"
          /\ pc' = [pc EXCEPT ![c] = "released"]
       \/ \E d \in QueueCalls : /\ pc[d] = "parked"
                           /\ pc' = [pc EXCEPT ![c] = "released", ![d] = "check"]
    /\ UNCHANGED <<waiters, currentWaiters, watcher, ctxDone>>

\* The caller's deadline passes or its client goes away.
ContextDone(c) ==
    /\ c \notin ctxDone
    /\ ctxDone' = ctxDone \cup {c}
    /\ watcher' = [watcher EXCEPT ![c] = IF @ = "selecting" THEN "fired" ELSE @]
    /\ UNCHANGED <<inFlight, waiters, currentWaiters, pc>>

-----------------------------------------------------------------------------
QueueInit ==
    /\ inFlight = 0 /\ waiters = 0 /\ currentWaiters = {} /\ ctxDone = {}
    /\ pc = [c \in QueueCalls |-> "idle"]
    /\ watcher = [c \in QueueCalls |-> "none"]

Run(c) == CheckContext(c) \/ Recheck(c) \/ WatcherStarts(c) \/ WatcherFires(c)

QueueNext == \E c \in QueueCalls : Acquire(c) \/ Run(c) \/ Release(c) \/ ContextDone(c)

QueueSpec == QueueInit /\ [][QueueNext]_queueVars

\* Goroutines run, and every context ends: each stage calls Acquire under a deadline
\* (Orchestrator.stageASR, stageMiddle, stageTTS).
QueueFairness == \A c \in QueueCalls : WF_queueVars(Run(c)) /\ WF_queueVars(ContextDone(c))

LiveQueueSpec == QueueSpec /\ QueueFairness

-----------------------------------------------------------------------------
\* The values the queue and its calls take.
QueueTypeOK ==
    /\ inFlight \in Nat /\ waiters \in Nat
    /\ currentWaiters \subseteq QueueCalls /\ ctxDone \subseteq QueueCalls
    /\ pc \in [QueueCalls -> {"idle"} \cup Queued \cup Returned]
    /\ watcher \in [QueueCalls -> {"none", "starting", "selecting", "fired", "ended"}]

Holding == {c \in QueueCalls : pc[c] = "holding"}

\* Acquire returns: with a slot, a refusal, or the error of its context.
EveryAcquireReturns == \A c \in QueueCalls : pc[c] \in Queued ~> pc[c] \in Returned

-----------------------------------------------------------------------------
\* What a caller sees of the queue.
Outcome == [c \in QueueCalls |-> IF pc[c] \in Queued THEN "asking" ELSE pc[c]]

Contract == INSTANCE AdmissionContract WITH Calls <- QueueCalls, MaxInflight <- QueueSlots,
                                         outcome <- Outcome, ctxDone <- ctxDone

\* The queue implements the contract its callers rely on.
ImplementsContract == Contract!Spec
=============================================================================
