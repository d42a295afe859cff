---------------------------- MODULE VoiceSideProofs ----------------------------
(***************************************************************************)
(* Proofs about the voice service, for any number of requests, calls,      *)
(* slots and goroutines: the admission queue counts its slots exactly and  *)
(* implements the contract of AdmissionContract, step by step; a worker    *)
(* pool that reports itself drained has answered what it admitted; the     *)
(* pipeline answers only on what was current after inference; the          *)
(* dispatcher gives a call its own answer or an error, and forgets none;   *)
(* and the breaker's probe flag always has a call that will clear it.      *)
(***************************************************************************)
EXTENDS VoicePipeline, BoundedQueue, WorkerPool, AdapterIpc, CircuitBreaker, FiniteSetTheorems,
        SequenceTheorems, TLAPS

-----------------------------------------------------------------------------
(***************************************************************************)
(* BoundedQueue.                                                           *)
(***************************************************************************)
\* The counter is the number of calls that hold a slot, never more than there are.
SlotsExact == inFlight = Cardinality(Holding) /\ inFlight <= QueueSlots

\* A queued call leaves the map only through its watcher, which acts only when the
\* context is done.
OnlyDoneUnregistered ==
    \A c \in QueueCalls :
        /\ watcher[c] = "fired" => c \in ctxDone
        /\ pc[c] \in Queued => c \in currentWaiters \/ c \in ctxDone

\* The inductive invariant.
QInv == QueueTypeOK /\ SlotsExact /\ OnlyDoneUnregistered

-----------------------------------------------------------------------------
\* The calls that hold a slot are finitely many.
LEMMA HoldingFinite == IsFiniteSet(Holding) /\ Cardinality(Holding) \in Nat
<1>1. Holding \in SUBSET QueueCalls
  BY DEF Holding
<1>2. IsFiniteSet(Holding)
  BY <1>1, FS_Subset, QueueAssumption
<1> QED
  BY <1>2, FS_CardinalityType

\* The contract counts the calls that hold a slot as the queue does.
LEMMA ContractCounts == Contract!Cardinality(Contract!Holders) = Cardinality(Holding)
<1>1. Contract!Holders = Holding
  BY DEF Contract!Holders, Outcome, Holding, Queued
<1>2. Contract!Cardinality(Holding) = Cardinality(Holding)
  BY DEF Contract!Cardinality, Cardinality, Contract!IsFiniteSet, IsFiniteSet
<1> QED
  BY <1>1, <1>2

\* A step in which nobody starts or ends holding keeps the count.
LEMMA HoldingSame ==
    ASSUME \A d \in QueueCalls : pc'[d] = "holding" <=> pc[d] = "holding"
    PROVE  Holding' = Holding
BY DEF Holding

\* A step in which one call starts holding adds one.
LEMMA HoldingMore ==
    ASSUME NEW c \in QueueCalls, pc[c] # "holding", pc'[c] = "holding",
           \A d \in QueueCalls \ {c} : pc'[d] = "holding" <=> pc[d] = "holding"
    PROVE  Cardinality(Holding') = Cardinality(Holding) + 1
<1>1. Holding' = Holding \cup {c} /\ c \notin Holding
  BY DEF Holding
<1> QED
  BY <1>1, HoldingFinite, FS_AddElement

\* A step in which one call stops holding takes one away.
LEMMA HoldingFewer ==
    ASSUME NEW c \in QueueCalls, pc[c] = "holding", pc'[c] # "holding",
           \A d \in QueueCalls \ {c} : pc'[d] = "holding" <=> pc[d] = "holding"
    PROVE  Cardinality(Holding') = Cardinality(Holding) - 1
<1>1. Holding' = Holding \ {c} /\ c \in Holding
  BY DEF Holding
<1> QED
  BY <1>1, HoldingFinite, FS_RemoveElement

-----------------------------------------------------------------------------
\* Acquire up to its loop preserves the invariant and is a step of the contract.
LEMMA AcquireStep ==
    ASSUME QInv, NEW c \in QueueCalls, Acquire(c)
    PROVE  QInv' /\ (Contract!Ask(c) \/ Contract!Grant(c) \/ Contract!Refuse(c) \/ Contract!GiveUp(c))
<1> USE QueueAssumption
<1>1. pc[c] = "idle" /\ pc \in [QueueCalls -> {"idle"} \cup Queued \cup Returned]
  BY DEF Acquire, QInv, QueueTypeOK
<1>2. Contract!Cardinality(Contract!Holders) = Cardinality(Holding)
  BY ContractCounts
<1> DEFINE to(x) == pc' = [pc EXCEPT ![c] = x]
<1>3. ASSUME NEW x \in {"canceled", "holding", "refused"}, to(x)
      PROVE  Outcome[c] = "idle" /\ Outcome' = [Outcome EXCEPT ![c] = x]
  BY <1>1, <1>3 DEF Outcome, Queued
<1>4. CASE c \in ctxDone /\ to("canceled") /\ UNCHANGED <<inFlight, waiters, currentWaiters, watcher, ctxDone>>
  <2>1. Holding' = Holding
    BY <1>1, <1>4, HoldingSame
  <2>2. QueueTypeOK' /\ OnlyDoneUnregistered'
    BY <1>1, <1>4 DEF QInv, QueueTypeOK, OnlyDoneUnregistered, Queued, Returned
  <2>3. Contract!GiveUp(c)
    BY <1>3, <1>4 DEF Contract!GiveUp, Contract!Becomes
  <2> QED
    BY <1>4, <2>1, <2>2, <2>3 DEF QInv, SlotsExact
<1>5. CASE /\ inFlight < QueueSlots /\ to("holding") /\ inFlight' = inFlight + 1
           /\ UNCHANGED <<waiters, currentWaiters, watcher, ctxDone>>
  <2>1. Cardinality(Holding') = Cardinality(Holding) + 1
    BY <1>1, <1>5, HoldingMore
  <2>2. QueueTypeOK' /\ OnlyDoneUnregistered'
    BY <1>1, <1>5 DEF QInv, QueueTypeOK, OnlyDoneUnregistered, Queued, Returned
  <2>3. Contract!Grant(c)
    BY <1>2, <1>3, <1>5 DEF Contract!Grant, Contract!SlotFree, Contract!Becomes, QInv, SlotsExact
  <2> QED
    BY <1>5, <2>1, <2>2, <2>3 DEF QInv, SlotsExact, QueueTypeOK
<1>6. CASE /\ inFlight >= QueueSlots /\ to("refused")
           /\ UNCHANGED <<inFlight, waiters, currentWaiters, watcher, ctxDone>>
  <2>1. Holding' = Holding
    BY <1>1, <1>6, HoldingSame
  <2>2. QueueTypeOK' /\ OnlyDoneUnregistered'
    BY <1>1, <1>6 DEF QInv, QueueTypeOK, OnlyDoneUnregistered, Queued, Returned
  <2>3. Contract!Refuse(c)
    BY <1>2, <1>3, <1>6 DEF Contract!Refuse, Contract!SlotFree, Contract!Becomes, QInv, SlotsExact, QueueTypeOK
  <2> QED
    BY <1>6, <2>1, <2>2, <2>3 DEF QInv, SlotsExact
<1>7. CASE /\ to("check") /\ waiters' = waiters + 1 /\ currentWaiters' = currentWaiters \cup {c}
           /\ watcher' = [watcher EXCEPT ![c] = "starting"] /\ UNCHANGED <<inFlight, ctxDone>>
  <2>1. Holding' = Holding
    BY <1>1, <1>7, HoldingSame
  <2>2. QueueTypeOK' /\ OnlyDoneUnregistered'
    BY <1>1, <1>7 DEF QInv, QueueTypeOK, OnlyDoneUnregistered, Queued, Returned
  <2>3. Contract!Ask(c)
    BY <1>1, <1>7 DEF Contract!Ask, Contract!Becomes, Outcome, Queued
  <2> QED
    BY <1>7, <2>1, <2>2, <2>3 DEF QInv, SlotsExact
<1> QED
  BY <1>4, <1>5, <1>6, <1>7 DEF Acquire

\* A step that moves queued calls among the queued states is invisible to callers.
LEMMA QueuedInvisible ==
    ASSUME QInv, UNCHANGED <<inFlight, ctxDone>>,
           pc' \in [QueueCalls -> {"idle"} \cup Queued \cup Returned],
           \A d \in QueueCalls : pc'[d] = pc[d] \/ (pc[d] \in Queued /\ pc'[d] \in Queued)
    PROVE  SlotsExact' /\ UNCHANGED Contract!vars
<1>1. Holding' = Holding
  BY HoldingSame DEF Queued
<1>2. Outcome' = Outcome
  BY DEF Outcome
<1> QED
  BY <1>1, <1>2 DEF SlotsExact, QInv, Contract!vars

\* The top of the loop: a stutter, or the call gives up because its context is done.
LEMMA CheckContextStep ==
    ASSUME QInv, NEW c \in QueueCalls, CheckContext(c)
    PROVE  QInv' /\ (Contract!GiveUp(c) \/ UNCHANGED Contract!vars)
<1>1. pc[c] = "check" /\ pc \in [QueueCalls -> {"idle"} \cup Queued \cup Returned]
  BY DEF CheckContext, QInv, QueueTypeOK
<1>2. QueueTypeOK' /\ OnlyDoneUnregistered'
  BY <1>1 DEF CheckContext, Stopped, QInv, QueueTypeOK, OnlyDoneUnregistered, Queued, Returned
<1>3. CASE c \in ctxDone
  <2>1. Holding' = Holding
    BY <1>1, <1>3, HoldingSame DEF CheckContext
  <2>2. Contract!GiveUp(c)
    BY <1>1, <1>3 DEF CheckContext, Contract!GiveUp, Contract!Becomes, Outcome, Queued
  <2> QED
    BY <1>2, <2>1, <2>2 DEF CheckContext, QInv, SlotsExact
<1>4. CASE c \notin ctxDone
  <2>1. SlotsExact' /\ UNCHANGED Contract!vars
    BY <1>1, <1>2, <1>4, QueuedInvisible DEF CheckContext, Queued, QueueTypeOK
  <2> QED
    BY <1>2, <2>1 DEF QInv
<1> QED
  BY <1>3, <1>4

\* The body of the loop: a call the watcher removed gives up, a call that sees a free
\* slot is granted it, one that finds the queue too long is refused while no slot is
\* free, and parking is a stutter.
LEMMA RecheckStep ==
    ASSUME QInv, NEW c \in QueueCalls, Recheck(c)
    PROVE  QInv' /\ (\/ Contract!Grant(c) \/ Contract!Refuse(c) \/ Contract!GiveUp(c)
                     \/ UNCHANGED Contract!vars)
<1> USE QueueAssumption
<1>1. pc[c] = "lock" /\ pc \in [QueueCalls -> {"idle"} \cup Queued \cup Returned]
  BY DEF Recheck, QInv, QueueTypeOK
<1>2. Contract!Cardinality(Contract!Holders) = Cardinality(Holding)
  BY ContractCounts
<1>3. QueueTypeOK'
  BY <1>1 DEF Recheck, Unregister, Stopped, QInv, QueueTypeOK, Queued, Returned
<1>4. OnlyDoneUnregistered'
  BY <1>1 DEF Recheck, Unregister, Stopped, QInv, QueueTypeOK, OnlyDoneUnregistered, Queued, Returned
<1>5. ASSUME NEW x \in {"canceled", "holding", "refused"}, pc' = [pc EXCEPT ![c] = x]
      PROVE  Outcome[c] = "asking" /\ Outcome' = [Outcome EXCEPT ![c] = x]
  BY <1>1, <1>5 DEF Outcome, Queued
<1>6. CASE c \notin currentWaiters
  <2>1. /\ pc' = [pc EXCEPT ![c] = "canceled"] /\ UNCHANGED <<inFlight, ctxDone>>
        /\ c \in ctxDone
    BY <1>1, <1>6 DEF Recheck, QInv, OnlyDoneUnregistered, Queued
  <2>2. Holding' = Holding
    BY <1>1, <2>1, HoldingSame
  <2>3. Contract!GiveUp(c)
    BY <1>5, <2>1 DEF Contract!GiveUp, Contract!Becomes
  <2> QED
    BY <1>3, <1>4, <2>1, <2>2, <2>3 DEF QInv, SlotsExact
<1>7. CASE c \in currentWaiters /\ inFlight < QueueSlots
  <2>1. /\ pc' = [pc EXCEPT ![c] = "holding"] /\ UNCHANGED ctxDone
        /\ inFlight' = inFlight + 1
    BY <1>7 DEF Recheck
  <2>2. Cardinality(Holding') = Cardinality(Holding) + 1
    BY <1>1, <2>1, HoldingMore
  <2>3. Contract!Grant(c)
    BY <1>2, <1>5, <1>7, <2>1 DEF Contract!Grant, Contract!SlotFree, Contract!Becomes, QInv, SlotsExact
  <2> QED
    BY <1>3, <1>4, <1>7, <2>1, <2>2, <2>3 DEF QInv, SlotsExact, QueueTypeOK
<1>8. CASE c \in currentWaiters /\ ~(inFlight < QueueSlots) /\ waiters > QueueDepth
  <2>1. pc' = [pc EXCEPT ![c] = "refused"] /\ UNCHANGED <<inFlight, ctxDone>>
    BY <1>8 DEF Recheck
  <2>2. Holding' = Holding
    BY <1>1, <2>1, HoldingSame
  <2>3. Contract!Refuse(c)
    BY <1>2, <1>5, <1>8, <2>1 DEF Contract!Refuse, Contract!SlotFree, Contract!Becomes, QInv, SlotsExact
  <2> QED
    BY <1>3, <1>4, <2>1, <2>2, <2>3 DEF QInv, SlotsExact
<1>9. CASE c \in currentWaiters /\ ~(inFlight < QueueSlots) /\ ~(waiters > QueueDepth)
  <2>1. pc' = [pc EXCEPT ![c] = "parked"] /\ UNCHANGED <<inFlight, ctxDone>>
    BY <1>9 DEF Recheck
  <2>2. SlotsExact' /\ UNCHANGED Contract!vars
    BY <1>1, <1>3, <2>1, QueuedInvisible DEF Queued, QueueTypeOK
  <2> QED
    BY <1>3, <1>4, <2>2 DEF QInv
<1> QED
  BY <1>6, <1>7, <1>8, <1>9

\* The watcher goroutine is invisible to callers, also when it removes a call.
LEMMA WatcherStep ==
    ASSUME QInv, NEW c \in QueueCalls, WatcherStarts(c) \/ WatcherFires(c)
    PROVE  QInv' /\ UNCHANGED Contract!vars
<1>1. pc \in [QueueCalls -> {"idle"} \cup Queued \cup Returned]
  BY DEF QInv, QueueTypeOK
<1>2. CASE WatcherStarts(c)
  <2>1. QueueTypeOK' /\ OnlyDoneUnregistered'
    BY <1>2 DEF WatcherStarts, QInv, QueueTypeOK, OnlyDoneUnregistered
  <2>2. SlotsExact' /\ UNCHANGED Contract!vars
    BY <1>1, <1>2, QueuedInvisible DEF WatcherStarts
  <2> QED
    BY <2>1, <2>2 DEF QInv
<1>3. CASE WatcherFires(c)
  <2>1. QueueTypeOK'
    BY <1>3, QueueAssumption DEF WatcherFires, Unregister, QInv, QueueTypeOK, Queued
  <2>2. OnlyDoneUnregistered'
    BY <1>3 DEF WatcherFires, Unregister, QInv, QueueTypeOK, OnlyDoneUnregistered, Queued
  <2>3. \A d \in QueueCalls : pc'[d] = pc[d] \/ (pc[d] \in Queued /\ pc'[d] \in Queued)
    BY <1>3 DEF WatcherFires, Queued
  <2>4. SlotsExact' /\ UNCHANGED Contract!vars
    BY <1>3, <2>1, <2>3, QueuedInvisible DEF WatcherFires, QueueTypeOK
  <2> QED
    BY <2>1, <2>2, <2>4 DEF QInv
<1> QED
  BY <1>2, <1>3

\* A release frees exactly the caller's slot; the call it wakes stays queued.
LEMMA ReleaseStep ==
    ASSUME QInv, NEW c \in QueueCalls, Release(c)
    PROVE  QInv' /\ Contract!Release(c)
<1>1. pc[c] = "holding" /\ pc \in [QueueCalls -> {"idle"} \cup Queued \cup Returned]
  BY DEF Release, QInv, QueueTypeOK
<1>2. /\ pc'[c] = "released" /\ UNCHANGED <<waiters, currentWaiters, watcher, ctxDone>>
      /\ pc' \in [QueueCalls -> {"idle"} \cup Queued \cup Returned]
      /\ \A d \in QueueCalls \ {c} : pc'[d] = pc[d] \/ (pc[d] = "parked" /\ pc'[d] = "check")
  BY <1>1 DEF Release, Queued, Returned
<1>3. Cardinality(Holding') = Cardinality(Holding) - 1
  BY <1>1, <1>2, HoldingFewer
<1>4. Cardinality(Holding) > 0
  <2>1. Holding # {}
    BY <1>1 DEF Holding
  <2> QED
    BY <2>1, HoldingFinite, FS_EmptySet
<1>5. SlotsExact' /\ inFlight' \in Nat
  BY <1>3, <1>4, QueueAssumption DEF Release, QInv, SlotsExact, QueueTypeOK
<1>6. QueueTypeOK' /\ OnlyDoneUnregistered'
  BY <1>1, <1>2, <1>5 DEF QInv, QueueTypeOK, OnlyDoneUnregistered, Queued
<1>7. Outcome[c] = "holding" /\ Outcome' = [Outcome EXCEPT ![c] = "released"]
  BY <1>1, <1>2 DEF Outcome, Queued
<1> QED
  BY <1>2, <1>5, <1>6, <1>7 DEF QInv, Contract!Release, Contract!Becomes

\* A context that ends does so for the contract too.
LEMMA ContextDoneStep ==
    ASSUME QInv, NEW c \in QueueCalls, ContextDone(c)
    PROVE  QInv' /\ Contract!ContextDone(c)
<1>1. QueueTypeOK' /\ OnlyDoneUnregistered'
  BY DEF ContextDone, QInv, QueueTypeOK, OnlyDoneUnregistered
<1>2. Holding' = Holding /\ Outcome' = Outcome
  BY DEF ContextDone, Holding, Outcome
<1> QED
  BY <1>1, <1>2 DEF ContextDone, QInv, SlotsExact, Contract!ContextDone

-----------------------------------------------------------------------------
\* Every step preserves the invariant and is a step or a stutter of the contract.
LEMMA NextQInv ==
    ASSUME QInv, [QueueNext]_queueVars
    PROVE  QInv' /\ [Contract!Next]_Contract!vars
<1>1. ASSUME NEW c \in QueueCalls, Acquire(c) \/ Run(c) \/ Release(c) \/ ContextDone(c)
      PROVE  QInv' /\ [Contract!Next]_Contract!vars
  <2>1. CASE Acquire(c)
    BY <2>1, AcquireStep DEF Contract!Next
  <2>2. CASE CheckContext(c)
    BY <2>2, CheckContextStep DEF Contract!Next
  <2>3. CASE Recheck(c)
    BY <2>3, RecheckStep DEF Contract!Next
  <2>4. CASE WatcherStarts(c) \/ WatcherFires(c)
    BY <2>4, WatcherStep
  <2>5. CASE Release(c)
    BY <2>5, ReleaseStep DEF Contract!Next
  <2>6. CASE ContextDone(c)
    BY <2>6, ContextDoneStep DEF Contract!Next
  <2> QED
    BY <1>1, <2>1, <2>2, <2>3, <2>4, <2>5, <2>6 DEF Run
<1>2. ASSUME UNCHANGED queueVars
      PROVE  QInv' /\ UNCHANGED Contract!vars
  <2>1. QueueTypeOK' /\ OnlyDoneUnregistered' /\ Holding' = Holding /\ Outcome' = Outcome
    BY <1>2 DEF queueVars, QInv, QueueTypeOK, OnlyDoneUnregistered, Holding, Outcome
  <2> QED
    BY <1>2, <2>1 DEF queueVars, QInv, SlotsExact, Contract!vars
<1> QED
  BY <1>1, <1>2 DEF QueueNext

\* The empty queue satisfies the invariant and looks like the contract's beginning.
LEMMA InitQInv == QueueInit => QInv /\ Contract!Init
<1> SUFFICES ASSUME QueueInit PROVE QInv /\ Contract!Init
  OBVIOUS
<1>1. Holding = {} /\ Cardinality(Holding) = 0
  <2>1. Holding = {}
    BY DEF QueueInit, Holding
  <2> QED
    BY <2>1, FS_EmptySet
<1>2. QueueTypeOK /\ OnlyDoneUnregistered
  BY DEF QueueInit, QueueTypeOK, OnlyDoneUnregistered, Queued
<1>3. Contract!Init
  BY DEF QueueInit, Contract!Init, Outcome, Queued
<1> QED
  BY <1>1, <1>2, <1>3, QueueAssumption DEF QInv, SlotsExact, QueueInit

\* The invariant holds in every reachable state: the slot counter is exact.
THEOREM QueueInductive == QueueSpec => []QInv
<1>1. QInv /\ [QueueNext]_queueVars => QInv'
  BY NextQInv
<1> QED
  BY InitQInv, <1>1, PTL DEF QueueSpec

\* At most QueueSlots calls hold a slot, and the counter Acquire decides with says how
\* many, however calls, watchers and releases interleave.
THEOREM SlotsBounded == QueueSpec => []SlotsExact
<1>1. QInv => SlotsExact
  BY DEF QInv
<1> QED
  BY QueueInductive, <1>1, PTL

\* The queue implements the contract its callers rely on.
THEOREM QueueRefines == QueueSpec => ImplementsContract
<1>1. QInv /\ [QueueNext]_queueVars => [Contract!Next]_Contract!vars
  BY NextQInv
<1> QED
  BY QueueInductive, InitQInv, <1>1, PTL DEF QueueSpec, ImplementsContract, Contract!Spec

-----------------------------------------------------------------------------
(***************************************************************************)
(* WorkerPool.  A call that waits without an answer is in the channel or   *)
(* in a goroutine's hands; a goroutine leaves only when the channel is     *)
(* closed and empty, and the pool of a middle worker that was never loaded *)
(* has no calls at all.                                                    *)
(***************************************************************************)
InJobs(c) == \E i \in 1..Len(jobs) : jobs[i] = c

\* What the pool's state consists of, as far as the proof needs it.
PoolTypes ==
  /\ kind \in {"asr", "tts", "middle"}
  /\ jobs \in Seq(PoolCalls)
  /\ DOMAIN pool = PoolWorkers /\ DOMAIN dispatch = PoolCalls /\ DOMAIN answer = PoolCalls
  /\ shutStep \in Nat
  /\ chanOpen \in BOOLEAN

\* No admitted call is forgotten.
WaitingHeld ==
  \A c \in PoolCalls : dispatch[c] = "waiting" /\ answer[c] = "none" =>
    InJobs(c) \/ \E w \in PoolWorkers : pool[w] = c

\* A goroutine that has left found the channel closed and empty.
LeftEmpty == \A w \in PoolWorkers : pool[w] = "exited" => ~chanOpen /\ jobs = << >>

\* Before LoadAndVerify the middle worker has no goroutine and admits nothing.
NoCalls == jobs = << >> /\ \A c \in PoolCalls : dispatch[c] \in {"idle", "returned"}
NotStarted ==
  /\ \A w \in PoolWorkers : pool[w] = "start" => kind = "middle" /\ ~ready /\ NoCalls
  /\ kind = "middle" /\ ~ready /\ shutStep = 0 =>
       NoCalls /\ \A w \in PoolWorkers : pool[w] = "start"

\* What the shutdown steps that are done have established.
ShutSteps ==
  \A i \in 1..shutStep :
    /\ Steps[i] = "close" => ~chanOpen
    /\ Steps[i] = "drain" => ~chanOpen /\ PoolDrained

\* The inductive invariant.
PoolInv == PoolTypes /\ WaitingHeld /\ LeftEmpty /\ NotStarted /\ ShutSteps

\* Every worker closes its channel before it waits for its goroutines.
LEMMA ClosedBeforeDrain ==
  ASSUME kind \in {"asr", "tts", "middle"}, NEW i \in Nat, i < Len(Steps), Steps[i + 1] = "drain"
  PROVE  \E j \in 1..i : Steps[j] = "close"
<1>1. CASE kind = "tts"
  <2>1. Steps = << "flag", "close", "drain", "model", "unready" >>
    BY <1>1 DEF Steps, TtsShutdown
  <2>2. i \in {0, 1, 2, 3, 4}
    BY <2>1
  <2>3. i = 2 /\ Steps[2] = "close"
    BY <2>1, <2>2
  <2> QED
    BY <2>3
<1>2. CASE kind = "asr"
  <2>1. Steps = << "close", "model", "unready", "drain" >>
    BY <1>2 DEF Steps, AsrShutdown
  <2>2. i \in {0, 1, 2, 3}
    BY <2>1
  <2>3. i = 3 /\ Steps[1] = "close"
    BY <2>1, <2>2
  <2> QED
    BY <2>3
<1>3. CASE kind = "middle"
  <2>1. Steps = << "unready", "close", "drain" >>
    BY <1>3 DEF Steps, MiddleShutdown
  <2>2. i \in {0, 1, 2}
    BY <2>1
  <2>3. i = 2 /\ Steps[2] = "close"
    BY <2>1, <2>2
  <2> QED
    BY <2>3
<1> QED
  BY <1>1, <1>2, <1>3

\* A drained pool: nothing queued, nothing in a goroutine's hands.
LEMMA DrainedMeans ==
  ASSUME PoolInv, PoolDrained
  PROVE  jobs = << >> /\ \A c \in PoolCalls : dispatch[c] = "waiting" => answer[c] # "none"
<1>1. PICK w \in PoolWorkers : TRUE
  <2>1. PoolWorkers # {}
    BY PoolAssumption
  <2> QED
    BY <2>1
<1>2. jobs = << >>
  BY <1>1 DEF PoolInv, LeftEmpty, NotStarted, NoCalls, PoolDrained
<1>3. ASSUME NEW c \in PoolCalls, dispatch[c] = "waiting", answer[c] = "none" PROVE FALSE
  <2>1. ~InJobs(c)
    BY <1>2 DEF InJobs
  <2>2. PICK x \in PoolWorkers : pool[x] = c
    BY <1>3, <2>1 DEF PoolInv, WaitingHeld
  <2> QED
    BY <2>2, PoolAssumption DEF PoolDrained
<1> QED
  BY <1>2, <1>3

\* A call ends, or passes the gate: the queue and the goroutines stand still.
LEMMA CallStep ==
  ASSUME PoolInv, NEW c \in PoolCalls, UNCHANGED <<kind, ready, chanOpen, jobs, pool, answer, shutStep>>,
         \/ UNCHANGED dispatch
         \/ dispatch' = [dispatch EXCEPT ![c] = "returned"]
         \/ ready /\ dispatch' = [dispatch EXCEPT ![c] = "gated"]
         \/ kind # "middle" /\ dispatch' = [dispatch EXCEPT ![c] = "gated"]
  PROVE  PoolInv'
<1>1. PoolTypes'
  BY DEF PoolInv, PoolTypes
<1>2. WaitingHeld'
  BY DEF PoolInv, PoolTypes, WaitingHeld, InJobs
<1>3. LeftEmpty'
  BY DEF PoolInv, LeftEmpty
<1>4. NotStarted'
  BY DEF PoolInv, PoolTypes, NotStarted, NoCalls
<1>5. ShutSteps'
  BY DEF PoolInv, ShutSteps, Steps, PoolDrained
<1> QED
  BY <1>1, <1>2, <1>3, <1>4, <1>5 DEF PoolInv

\* A call is put on the channel.
LEMMA EnqueueStep ==
  ASSUME PoolInv, NEW c \in PoolCalls, Enqueue(c)
  PROVE  PoolInv'
<1>1. CASE dispatch' = [dispatch EXCEPT ![c] = "returned"] /\ jobs' = jobs
  BY <1>1, CallStep DEF Enqueue
<1>2. CASE /\ dispatch[c] = "gated" /\ chanOpen /\ jobs' = Append(jobs, c)
           /\ dispatch' = [dispatch EXCEPT ![c] = "waiting"]
           /\ UNCHANGED <<kind, ready, chanOpen, pool, answer, shutStep>>
  <2>1. jobs \in Seq(PoolCalls) /\ DOMAIN dispatch = PoolCalls
    BY DEF PoolInv, PoolTypes
  <2>2. /\ jobs' \in Seq(PoolCalls) /\ Len(jobs') = Len(jobs) + 1 /\ Len(jobs) \in Nat
        /\ \A i \in 1..Len(jobs) : jobs'[i] = jobs[i]
        /\ jobs'[Len(jobs) + 1] = c
    BY <1>2, <2>1, AppendProperties, LenProperties
  <2>3. PoolTypes'
    BY <1>2, <2>1, <2>2 DEF PoolInv, PoolTypes
  <2>4. WaitingHeld'
    <3>1. ASSUME NEW d \in PoolCalls, InJobs(d) PROVE InJobs(d)'
      BY <2>2, <3>1 DEF InJobs
    <3>2. InJobs(c)'
      BY <2>2 DEF InJobs
    <3> QED
      BY <1>2, <2>1, <3>1, <3>2 DEF PoolInv, WaitingHeld
  <2>5. LeftEmpty'
    BY <1>2 DEF PoolInv, LeftEmpty
  <2>6. NotStarted'
    <3>1. ~NoCalls
      BY <1>2 DEF NoCalls
    <3> QED
      BY <1>2, <3>1 DEF PoolInv, NotStarted
  <2>7. ShutSteps'
    BY <1>2 DEF PoolInv, ShutSteps, Steps, PoolDrained
  <2> QED
    BY <2>3, <2>4, <2>5, <2>6, <2>7 DEF PoolInv
<1> QED
  BY <1>1, <1>2 DEF Enqueue, PoolReturn

\* A goroutine takes a job, answers it, or leaves.
LEMMA GoroutineStep ==
  ASSUME PoolInv, NEW w \in PoolWorkers, Take(w) \/ Handle(w) \/ Exit(w)
  PROVE  PoolInv'
<1>1. /\ UNCHANGED <<kind, ready, chanOpen, dispatch, shutStep>> /\ DOMAIN pool = PoolWorkers
      /\ jobs \in Seq(PoolCalls)
  BY DEF Take, Handle, Exit, PoolInv, PoolTypes
<1>2. CASE Take(w)
  <2>1. pool[w] = "idle" /\ jobs # << >> /\ pool' = [pool EXCEPT ![w] = Head(jobs)] /\ jobs' = Tail(jobs)
        /\ UNCHANGED answer
    BY <1>2 DEF Take
  <2>2. /\ Head(jobs) \in PoolCalls /\ Head(jobs) = jobs[1] /\ jobs' \in Seq(PoolCalls)
        /\ Len(jobs') = Len(jobs) - 1 /\ Len(jobs) \in Nat /\ Len(jobs) > 0
        /\ \A i \in 1..Len(jobs') : jobs'[i] = jobs[i + 1]
    BY <1>1, <2>1, HeadTailProperties, LenProperties, EmptySeq
  <2>3. PoolTypes'
    BY <1>1, <2>1, <2>2 DEF PoolInv, PoolTypes
  <2>4. WaitingHeld'
    <3>1. ASSUME NEW d \in PoolCalls, InJobs(d), d # jobs[1] PROVE InJobs(d)'
      <4>1. PICK i \in 1..Len(jobs) : jobs[i] = d
        BY <3>1 DEF InJobs
      <4>2. i # 1 /\ i - 1 \in 1..Len(jobs') /\ (i - 1) + 1 = i
        BY <2>2, <3>1, <4>1
      <4>3. jobs'[i - 1] = d
        BY <2>2, <4>1, <4>2
      <4> QED
        BY <4>2, <4>3 DEF InJobs
    <3>2. ASSUME NEW d \in PoolCalls, NEW x \in PoolWorkers, pool[x] = d PROVE pool'[x] = d
      BY <1>1, <2>1, <3>2, PoolAssumption
    <3>3. pool'[w] = jobs[1]
      BY <1>1, <2>1, <2>2
    <3> QED
      BY <1>1, <2>1, <3>1, <3>2, <3>3 DEF PoolInv, WaitingHeld
  <2>5. LeftEmpty'
    BY <1>1, <2>1, <2>2, PoolAssumption DEF PoolInv, LeftEmpty
  <2>6. NotStarted'
    BY <1>1, <2>1, <2>2, PoolAssumption DEF PoolInv, NotStarted, NoCalls
  <2>7. ShutSteps'
    BY <1>1, <2>1 DEF PoolInv, ShutSteps, Steps, PoolDrained
  <2> QED
    BY <2>3, <2>4, <2>5, <2>6, <2>7 DEF PoolInv
<1>3. CASE Handle(w)
  <2>1. PICK v \in {"ok", "error", "interrupted"} : answer' = [answer EXCEPT ![pool[w]] = v]
    BY <1>3 DEF Handle, Verdicts, AsrVerdicts, TtsVerdicts, MiddleVerdicts, PoolInv, PoolTypes
  <2>2. pool[w] \in PoolCalls /\ pool' = [pool EXCEPT ![w] = "idle"] /\ jobs' = jobs
        /\ pool[w] \notin {"start", "idle", "exited"}
    BY <1>3, PoolAssumption DEF Handle
  <2>3. PoolTypes'
    BY <1>1, <2>1, <2>2 DEF PoolInv, PoolTypes
  <2>4. WaitingHeld'
    <3>1. answer'[pool[w]] # "none" /\ \A d \in PoolCalls : d # pool[w] => answer'[d] = answer[d]
      BY <2>1, <2>2 DEF PoolInv, PoolTypes
    <3>2. \A x \in PoolWorkers : x # w => pool'[x] = pool[x]
      BY <1>1, <2>2
    <3> QED
      BY <1>1, <2>2, <3>1, <3>2 DEF PoolInv, WaitingHeld, InJobs
  <2>5. LeftEmpty'
    BY <1>1, <2>2 DEF PoolInv, LeftEmpty
  <2>6. NotStarted'
    BY <1>1, <2>2 DEF PoolInv, NotStarted, NoCalls
  <2>7. ShutSteps'
    BY <1>1, <2>2 DEF PoolInv, ShutSteps, Steps, PoolDrained
  <2> QED
    BY <2>3, <2>4, <2>5, <2>6, <2>7 DEF PoolInv
<1>4. CASE Exit(w)
  <2>1. /\ pool[w] = "idle" /\ ~chanOpen /\ jobs = << >> /\ pool' = [pool EXCEPT ![w] = "exited"]
        /\ UNCHANGED <<jobs, answer>>
    BY <1>4 DEF Exit
  <2>2. PoolTypes'
    BY <1>1, <2>1 DEF PoolInv, PoolTypes
  <2>3. WaitingHeld'
    <3>1. ASSUME NEW d \in PoolCalls, NEW x \in PoolWorkers, pool[x] = d PROVE pool'[x] = d
      BY <1>1, <2>1, <3>1, PoolAssumption
    <3> QED
      BY <1>1, <2>1, <3>1 DEF PoolInv, WaitingHeld, InJobs
  <2>4. LeftEmpty'
    BY <1>1, <2>1 DEF PoolInv, LeftEmpty
  <2>5. NotStarted'
    BY <1>1, <2>1 DEF PoolInv, NotStarted, NoCalls
  <2>6. ShutSteps'
    BY <1>1, <2>1 DEF PoolInv, ShutSteps, Steps, PoolDrained
  <2> QED
    BY <2>2, <2>3, <2>4, <2>5, <2>6 DEF PoolInv
<1> QED
  BY <1>2, <1>3, <1>4

\* The worker is loaded.
LEMMA LoadStep ==
  ASSUME PoolInv, LoadAndVerify
  PROVE  PoolInv'
<1>1. /\ ~ready /\ shutStep = 0 /\ ready' = TRUE
      /\ UNCHANGED <<kind, chanOpen, jobs, dispatch, answer, shutStep>>
      /\ \/ kind = "asr" /\ UNCHANGED pool
         \/ kind = "middle" /\ pool' = [w \in PoolWorkers |-> "idle"]
  BY DEF LoadAndVerify, AsrLoad, MiddleLoad
<1>2. PoolTypes'
  BY <1>1 DEF PoolInv, PoolTypes
<1>3. WaitingHeld'
  BY <1>1 DEF PoolInv, WaitingHeld, InJobs, NotStarted, NoCalls
<1>4. LeftEmpty' /\ NotStarted'
  BY <1>1 DEF PoolInv, LeftEmpty, NotStarted, NoCalls
<1>5. ShutSteps'
  BY <1>1 DEF ShutSteps
<1> QED
  BY <1>2, <1>3, <1>4, <1>5 DEF PoolInv

\* A step of the shutdown.
LEMMA ShutdownStep ==
  ASSUME PoolInv, Shutdown
  PROVE  PoolInv'
<1>1. PICK step : step = Steps[shutStep + 1]
  OBVIOUS
<1>2. /\ shutStep < Len(Steps) /\ (step = "drain" => PoolDrained) /\ shutStep' = shutStep + 1
      /\ chanOpen' = (chanOpen /\ step # "close") /\ ready' = (ready /\ step # "unready")
      /\ UNCHANGED <<kind, jobs, pool, dispatch, answer>> /\ shutStep \in Nat
  BY <1>1 DEF Shutdown, PoolInv, PoolTypes
<1>3. ~chanOpen => ~chanOpen'
  BY <1>2
<1>4. PoolTypes'
  BY <1>2 DEF PoolInv, PoolTypes
<1>5. WaitingHeld'
  BY <1>2 DEF PoolInv, WaitingHeld, InJobs
<1>6. LeftEmpty'
  BY <1>2, <1>3 DEF PoolInv, LeftEmpty
<1>7. NotStarted'
  <2>1. ~ready => ~ready'
    BY <1>2
  <2>2. shutStep' # 0
    BY <1>2
  <2>3. NoCalls => NoCalls'
    BY <1>2 DEF NoCalls
  <2> QED
    BY <1>2, <2>1, <2>2, <2>3, Zenon DEF PoolInv, NotStarted
<1>8. ShutSteps'
  <2>1. step = "drain" => ~chanOpen
    <3>1. step = "drain" => \E j \in 1..shutStep : Steps[j] = "close"
      BY <1>1, <1>2, ClosedBeforeDrain DEF PoolInv, PoolTypes
    <3> QED
      BY <3>1 DEF PoolInv, ShutSteps
  <2>2. Steps' = Steps /\ PoolDrained' = PoolDrained
    BY <1>2 DEF Steps, PoolDrained
  <2>3. ASSUME NEW i \in 1..shutStep'
        PROVE  /\ Steps[i] = "close" => ~chanOpen'
               /\ Steps[i] = "drain" => ~chanOpen' /\ PoolDrained
    <3>1. CASE i = shutStep + 1
      BY <1>1, <1>2, <1>3, <2>1, <3>1
    <3>2. CASE i # shutStep + 1
      <4>1. i \in 1..shutStep
        BY <1>2, <3>2
      <4> QED
        BY <1>3, <4>1 DEF PoolInv, ShutSteps
    <3> QED
      BY <3>1, <3>2
  <2> QED
    BY <2>2, <2>3 DEF ShutSteps
<1> QED
  BY <1>4, <1>5, <1>6, <1>7, <1>8 DEF PoolInv

\* A shutdown reports the pool drained only when every admitted job has its answer, for any number
\* of goroutines and calls and in the order of each worker's steps (Shutdown, runWorker).
THEOREM DrainAnswersAll == PoolSpec => []DrainedIsAnswered
<1>1. PoolInit => PoolInv
  <2> SUFFICES ASSUME PoolInit PROVE PoolInv
    OBVIOUS
  <2>1. PoolTypes /\ WaitingHeld
    BY DEF PoolInit, PoolTypes, WaitingHeld
  <2>2. LeftEmpty /\ NotStarted
    BY DEF PoolInit, LeftEmpty, NotStarted, NoCalls
  <2>3. ShutSteps
    BY DEF PoolInit, ShutSteps
  <2> QED
    BY <2>1, <2>2, <2>3 DEF PoolInv
<1>2. PoolInv /\ [PoolNext]_poolVars => PoolInv'
  <2> SUFFICES ASSUME PoolInv, [PoolNext]_poolVars PROVE PoolInv'
    OBVIOUS
  <2>1. ASSUME NEW c \in PoolCalls, HandlerRefuses(c) \/ AnswerArrives(c) \/ Abandon(c) \/ ContextEnds(c)
        PROVE  PoolInv'
    BY <2>1, CallStep DEF HandlerRefuses, AnswerArrives, Abandon, ContextEnds, PoolReturn
  <2>2. ASSUME NEW c \in PoolCalls, PassGate(c) PROVE PoolInv'
    <3>1. kind = "middle" /\ Gate(c) = "ok" => ready
      BY DEF Gate, MiddleGate
    <3> QED
      BY <2>2, <3>1, CallStep DEF PassGate, PoolReturn
  <2>3. CASE UNCHANGED poolVars
    BY <2>3 DEF poolVars, PoolInv, PoolTypes, WaitingHeld, InJobs, LeftEmpty, NotStarted, NoCalls,
                ShutSteps, Steps, PoolDrained
  <2> QED
    BY <2>1, <2>2, <2>3, EnqueueStep, GoroutineStep, LoadStep, ShutdownStep DEF PoolNext
<1>3. PoolInv => DrainedIsAnswered
  BY DrainedMeans DEF PoolInv, ShutSteps, DrainedIsAnswered
<1> QED
  BY <1>1, <1>2, <1>3, PTL DEF PoolSpec

-----------------------------------------------------------------------------
(***************************************************************************)
(* VoicePipeline.  A language that was revoked is never approved again, so *)
(* a request whose approvals are all active at its last query had them all *)
(* at its first, when its package was the live one.                        *)
(***************************************************************************)
Fields == {"kind", "ver", "langs", "gen", "proposal", "audio", "stage"}
Calling == {"ask", "claim", "mark", "call"}
Checking == {"checkRevoked", "checkActive"}

\* What a request at place p carries: its package, and approvals the store once had for it.
JobFits(j, p) ==
  /\ Fields \subseteq DOMAIN j
  /\ p \in {"package", "approvals", "checkPackage"} \cup Calling \cup Checking
  /\ j.kind = "transcribe" => j.stage = "asr" /\ p \in Calling
  /\ j.kind # "transcribe" /\ p # "package" => j.ver \in Versions
  /\ j.kind # "transcribe" /\ p \notin {"package", "approvals"} =>
       j.langs \subseteq active[j.ver] \cup revoked[j.ver]

\* A request between its first and its last query.
FreshFits(r) == at[r] \in Checking /\ job[r].langs \subseteq active[job[r].ver] => fresh[r]

RequestInv(r) ==
  /\ at[r] \notin {"new", "done"} => JobFits(job[r], at[r])
  /\ FreshFits(r)
  /\ out[r] = "answer" => at[r] = "done" /\ fresh[r]

\* The store: what is revoked is not active.
StoreInv ==
  /\ live \in 0..MaxVersion
  /\ DOMAIN active = Versions /\ DOMAIN revoked = Versions
  /\ \A v \in Versions : active[v] \cap revoked[v] = {}

\* The inductive invariant.
VoiceInv ==
  /\ StoreInv
  /\ DOMAIN at = Requests /\ DOMAIN job = Requests /\ DOMAIN out = Requests
  /\ \A r \in Requests : RequestInv(r)

\* What a new job carries.
LEMMA NewJobFits ==
  ASSUME NEW k \in Kinds
  PROVE  /\ Fields \subseteq DOMAIN NewJob(k) /\ NewJob(k).kind = k.kind
         /\ k.kind # "speech" => NewJob(k).stage = "asr"
<1>1. /\ "kind" \in DOMAIN k
      /\ "ver" \notin DOMAIN k /\ "langs" \notin DOMAIN k /\ "stage" \notin DOMAIN k
  BY DEF Kinds
<1>2. PICK d : d = [ver |-> 0, langs |-> {}, gen |-> 0, proposal |-> "none", audio |-> FALSE,
                    stage |-> IF k.kind = "speech" THEN "tts" ELSE "asr"]
  OBVIOUS
<1>3. DOMAIN d = {"ver", "langs", "gen", "proposal", "audio", "stage"}
  BY <1>2
<1>4. NewJob(k) = [x \in (DOMAIN k) \cup (DOMAIN d) |-> IF x \in DOMAIN k THEN k[x] ELSE d[x]]
  BY <1>2 DEF NewJob
<1>5. d.stage = IF k.kind = "speech" THEN "tts" ELSE "asr"
  BY <1>2
<1>6. "kind" \in DOMAIN NewJob(k) /\ "stage" \in DOMAIN NewJob(k)
  BY <1>1, <1>3, <1>4
<1>7. NewJob(k)["kind"] = k["kind"]
  BY <1>1, <1>4
<1>8. NewJob(k)["stage"] = d["stage"]
  BY <1>1, <1>3, <1>4
<1>9. Fields \subseteq DOMAIN NewJob(k)
  BY <1>1, <1>3, <1>4 DEF Fields
<1> QED
  BY <1>5, <1>7, <1>8, <1>9

\* A step of one request has to be checked for that request alone.
LEMMA OneRequest ==
  ASSUME VoiceInv, NEW r \in Requests, UNCHANGED <<live, active, revoked>>, Remember,
         DOMAIN at' = Requests, DOMAIN job' = Requests, DOMAIN out' = Requests,
         \A x \in Requests \ {r} : at'[x] = at[x] /\ job'[x] = job[x] /\ out'[x] = out[x],
         RequestInv(r)'
  PROVE  VoiceInv'
<1>1. ASSUME NEW x \in Requests \ {r} PROVE RequestInv(x)'
  <2>1. RequestInv(x) /\ at'[x] = at[x] /\ job'[x] = job[x] /\ out'[x] = out[x]
    BY DEF VoiceInv
  <2>2. at'[x] = "done" => fresh'[x] = fresh[x]
    BY DEF Remember
  <2>3. at'[x] \in Checking /\ fresh[x] => fresh'[x]
    BY DEF Remember, Checking
  <2> QED
    BY <2>1, <2>2, <2>3 DEF RequestInv, FreshFits, JobFits, Versions
<1>2. StoreInv'
  BY DEF VoiceInv, StoreInv, Versions
<1> QED
  BY <1>1, <1>2 DEF VoiceInv

\* The request is answered.
LEMMA EndsKeeps ==
  ASSUME VoiceInv, NEW r \in Requests, NEW a, Ends(r, a), UNCHANGED <<live, active, revoked>>, Remember,
         a = "answer" => fresh[r]
  PROVE  VoiceInv'
<1>1. /\ at' = [at EXCEPT ![r] = "done"] /\ out' = [out EXCEPT ![r] = a]
      /\ job' = [job EXCEPT ![r] = NoJob]
  BY DEF Ends
<1>2. at'[r] = "done" /\ out'[r] = a
  BY <1>1 DEF VoiceInv
<1>3. fresh'[r] = fresh[r]
  BY <1>2 DEF Remember
<1>4. RequestInv(r)'
  BY <1>2, <1>3 DEF RequestInv, FreshFits, Checking
<1>5. /\ DOMAIN at' = Requests /\ DOMAIN job' = Requests /\ DOMAIN out' = Requests
      /\ \A x \in Requests \ {r} : at'[x] = at[x] /\ job'[x] = job[x] /\ out'[x] = out[x]
  BY <1>1 DEF VoiceInv
<1> QED
  BY <1>4, <1>5, OneRequest

\* The request goes on to another place.
LEMMA MovesKeeps ==
  ASSUME VoiceInv, NEW r \in Requests, NEW p, NEW j, UNCHANGED <<live, active, revoked, out>>, Remember,
         at' = [at EXCEPT ![r] = p], at[r] # "done",
         job' = [job EXCEPT ![r] = j] \/ (job' = job /\ j = job[r]),
         JobFits(j, p),
         p \in Checking /\ j.langs \subseteq active[j.ver] => fresh[r] \/ (live # 0 /\ live = j.ver)
  PROVE  VoiceInv'
<1>1. /\ DOMAIN at' = Requests /\ DOMAIN job' = Requests /\ DOMAIN out' = Requests
      /\ \A x \in Requests \ {r} : at'[x] = at[x] /\ job'[x] = job[x] /\ out'[x] = out[x]
      /\ at'[r] = p /\ job'[r] = j /\ out'[r] = out[r]
  BY DEF VoiceInv
<1>2. JobFits(job[r], at[r])'
  BY <1>1 DEF JobFits, Versions
<1>3. FreshFits(r)'
  BY <1>1 DEF FreshFits, Remember, Checking
<1>4. out[r] # "answer" /\ p # "done"
  BY DEF VoiceInv, RequestInv, JobFits, Calling, Checking
<1>5. RequestInv(r)'
  BY <1>1, <1>2, <1>3, <1>4 DEF RequestInv
<1> QED
  BY <1>1, <1>5, OneRequest

\* The same as a call of Goes or Leaves.
LEMMA GoesKeeps ==
  ASSUME VoiceInv, NEW r \in Requests, NEW p, NEW j, UNCHANGED <<live, active, revoked>>, Remember,
         Goes(r, p, j) \/ Leaves(r, p, j), at[r] # "done", JobFits(j, p),
         p \in Checking /\ j.langs \subseteq active[j.ver] => fresh[r] \/ (live # 0 /\ live = j.ver)
  PROVE  VoiceInv'
<1>1. at' = [at EXCEPT ![r] = p] /\ job' = [job EXCEPT ![r] = j] /\ UNCHANGED out
  BY DEF Goes, Leaves
<1> QED
  BY <1>1, MovesKeeps

\* A job keeps its package and approvals.
LEMMA JobKept ==
  ASSUME NEW j, NEW k, NEW p, NEW q, JobFits(j, p), Fields \subseteq DOMAIN k,
         k.kind = j.kind, k.ver = j.ver, k.langs = j.langs,
         p \notin {"package", "approvals"},
         \/ j.kind # "transcribe" /\ q \in {"checkPackage"} \cup Calling \cup Checking
         \/ k.stage = j.stage /\ q \in Calling
  PROVE  JobFits(k, q)
BY DEF JobFits, Calling, Checking

\* What the invariant says of a request under way.
LEMMA UnderWay ==
  ASSUME VoiceInv, NEW r \in Requests, at[r] \notin {"new", "done"}
  PROVE  JobFits(job[r], at[r]) /\ FreshFits(r)
BY DEF VoiceInv, RequestInv

\* A stage fails.
LEMMA StageFailsKeeps ==
  ASSUME VoiceInv, NEW r \in Requests, NEW a, a # "answer", StageFails(r, a),
         at[r] \in Calling, UNCHANGED <<live, active, revoked>>, Remember
  PROVE  VoiceInv'
<1>1. JobFits(job[r], at[r]) /\ at[r] # "done"
  BY UnderWay DEF Calling
<1>2. CASE Ends(r, a)
  BY <1>2, EndsKeeps
<1>3. CASE job[r].kind = "process" /\ Leaves(r, "checkPackage", job[r])
  <2>1. JobFits(job[r], "checkPackage")
    BY <1>1, <1>3 DEF JobFits, Calling, Checking
  <2> QED
    BY <1>1, <1>3, <2>1, GoesKeeps DEF Checking
<1> QED
  BY <1>2, <1>3 DEF StageFails

\* The handlers.
LEMMA ArriveKeeps ==
  ASSUME VoiceInv, NEW r \in Requests, Arrive(r), Remember
  PROVE  VoiceInv'
<1>1. at[r] = "new" /\ UNCHANGED <<live, active, revoked>> /\ Asked[r] \subseteq Kinds
  BY VoiceAssumption DEF Arrive, store
<1>2. CASE Malformed(r)
  BY <1>1, <1>2, EndsKeeps DEF Malformed
<1>3. CASE HandleTranscriptions(r)
  <2>1. PICK k \in Kinds : k.kind = "transcribe" /\ Goes(r, "ask", NewJob(k))
    BY <1>1, <1>3 DEF HandleTranscriptions
  <2>2. JobFits(NewJob(k), "ask")
    BY <2>1, NewJobFits DEF JobFits, Calling
  <2> QED
    BY <1>1, <2>1, <2>2, GoesKeeps DEF Checking
<1>4. CASE HandleProcess(r) \/ HandleSpeech(r)
  <2>1. PICK k \in Kinds : k.kind # "transcribe" /\ Goes(r, "package", NewJob(k))
    BY <1>1, <1>4 DEF HandleProcess, HandleSpeech
  <2>2. JobFits(NewJob(k), "package")
    BY <2>1, NewJobFits DEF JobFits
  <2> QED
    BY <1>1, <2>1, <2>2, GoesKeeps DEF Checking
<1> QED
  BY <1>2, <1>3, <1>4 DEF Arrive

\* The resolver.
LEMMA ResolvePackageKeeps ==
  ASSUME VoiceInv, NEW r \in Requests, ResolvePackage(r), Remember
  PROVE  VoiceInv'
<1>1. at[r] = "package" /\ UNCHANGED <<live, active, revoked>>
  BY DEF ResolvePackage, store
<1>2. CASE Ends(r, "unavailable")
  BY <1>1, <1>2, EndsKeeps
<1>3. CASE live # 0 /\ Goes(r, "approvals", [job[r] EXCEPT !.ver = live])
  <2>1. JobFits(job[r], "package") /\ live \in Versions
    BY <1>1, <1>3, UnderWay, VoiceAssumption DEF VoiceInv, StoreInv, Versions
  <2>2. JobFits([job[r] EXCEPT !.ver = live], "approvals")
    BY <2>1 DEF JobFits, Fields, Calling, Checking
  <2> QED
    BY <1>1, <1>3, <2>2, GoesKeeps DEF Checking
<1> QED
  BY <1>2, <1>3 DEF ResolvePackage

LEMMA ResolveApprovalsKeeps ==
  ASSUME VoiceInv, NEW r \in Requests, ResolveApprovals(r), Remember
  PROVE  VoiceInv'
<1>1. at[r] = "approvals" /\ UNCHANGED <<live, active, revoked>>
  BY DEF ResolveApprovals, store
<1>2. PICK f : f = [job[r] EXCEPT !.langs = active[job[r].ver]]
  OBVIOUS
<1>3. JobFits(job[r], "approvals")
  BY <1>1, UnderWay
<1>4. ASSUME NEW p \in {"ask", "claim", "checkPackage"} PROVE JobFits(f, p)
  BY <1>2, <1>3 DEF JobFits, Fields, Calling, Checking
<1>5. CASE \E a \in {"unavailable", "unsupported", "stale"} : Ends(r, a)
  BY <1>1, <1>5, EndsKeeps
<1>6. CASE \E p \in {"ask", "claim", "checkPackage"} : Goes(r, p, f)
  BY <1>1, <1>4, <1>6, GoesKeeps DEF Checking
<1>7. CASE r \in expired /\ Ends(r, "unavailable")
  BY <1>5, <1>7
<1>8. CASE ContextForProcess(r, f)
  BY <1>5, <1>6, <1>8 DEF ContextForProcess
<1>9. CASE ContextForSpeech(r, f)
  BY <1>5, <1>6, <1>9 DEF ContextForSpeech
<1> QED
  BY <1>2, <1>7, <1>8, <1>9 DEF ResolveApprovals

\* The steps before the call of a worker.
LEMMA GrantedKeeps ==
  ASSUME VoiceInv, NEW r \in Requests, Granted(r), Remember
  PROVE  VoiceInv'
<1>1. /\ at[r] = "ask" /\ UNCHANGED <<live, active, revoked, out>>
      /\ at' = [at EXCEPT ![r] = "claim"] /\ job' = job
  BY DEF Granted, store
<1>2. JobFits(job[r], "claim")
  <2>1. JobFits(job[r], "ask")
    BY <1>1, UnderWay
  <2> QED
    BY <2>1 DEF JobFits, Calling, Checking
<1> QED
  BY <1>1, <1>2, MovesKeeps DEF Checking

LEMMA FailureKeeps ==
  ASSUME VoiceInv, NEW r \in Requests, NotGranted(r) \/ NotReady(r) \/ WorkerFails(r), Remember
  PROVE  VoiceInv'
<1>1. at[r] \in Calling /\ UNCHANGED <<live, active, revoked>>
  BY DEF NotGranted, NotReady, WorkerFails, Calling, store
<1>2. StageFails(r, "unavailable") \/ StageFails(r, "canceled")
  BY DEF NotGranted, NotReady, WorkerFails
<1> QED
  BY <1>1, <1>2, StageFailsKeeps

LEMMA ClaimKeeps ==
  ASSUME VoiceInv, NEW r \in Requests, Claim(r), Remember
  PROVE  VoiceInv'
<1>1. at[r] = "claim" /\ UNCHANGED <<live, active, revoked>>
  BY DEF Claim, store
<1>2. PICK j : /\ j = [job[r] EXCEPT !.gen = entries[job[r].id][job[r].stage] + 1]
               /\ Goes(r, "mark", j)
  BY DEF Claim
<1>3. JobFits(job[r], "claim")
  BY <1>1, UnderWay
<1>4. JobFits(j, "mark")
  BY <1>2, <1>3 DEF JobFits, Fields, Calling, Checking
<1> QED
  BY <1>1, <1>2, <1>4, GoesKeeps DEF Checking

LEMMA MarkInflightKeeps ==
  ASSUME VoiceInv, NEW r \in Requests, MarkInflight(r), Remember
  PROVE  VoiceInv'
<1>1. at[r] = "mark" /\ at[r] \in Calling /\ UNCHANGED <<live, active, revoked>>
  BY DEF MarkInflight, store, Calling
<1>2. CASE StageFails(r, "unsupported")
  BY <1>1, <1>2, StageFailsKeeps
<1>3. CASE Goes(r, "call", job[r])
  <2>1. JobFits(job[r], "mark")
    BY <1>1, UnderWay
  <2>2. JobFits(job[r], "call")
    BY <2>1 DEF JobFits, Calling, Checking
  <2> QED
    BY <1>1, <1>3, <2>2, GoesKeeps DEF Checking
<1> QED
  BY <1>2, <1>3 DEF MarkInflight

\* A worker answers.
LEMMA ReplyKeeps ==
  ASSUME VoiceInv, NEW r \in Requests, Reply(r), Remember
  PROVE  VoiceInv'
<1>1. at[r] = "call" /\ at[r] \in Calling /\ UNCHANGED <<live, active, revoked>>
  BY DEF Reply, store, Calling
<1>2. JobFits(job[r], "call")
  BY <1>1, UnderWay
<1>3. ASSUME NEW j, Leaves(r, "checkPackage", j), job[r].kind # "transcribe", Fields \subseteq DOMAIN j,
             j.kind = job[r].kind, j.ver = job[r].ver, j.langs = job[r].langs
      PROVE  VoiceInv'
  <2>1. JobFits(j, "checkPackage")
    BY <1>2, <1>3 DEF JobFits, Calling, Checking
  <2> QED
    BY <1>1, <1>3, <2>1, GoesKeeps DEF Checking
<1>4. CASE \E a \in {"unavailable", "canceled"} : StageFails(r, a)
  BY <1>1, <1>4, StageFailsKeeps
<1>5. CASE \E a \in {"transcript", "clarify", "rejected"} : Ends(r, a)
  BY <1>1, <1>5, EndsKeeps
<1>6. CASE job[r].kind = "process" /\ Leaves(r, "ask", [job[r] EXCEPT !.stage = "middle"])
  <2>1. PICK j : j = [job[r] EXCEPT !.stage = "middle"]
    OBVIOUS
  <2>2. JobFits(j, "ask")
    BY <1>2, <1>6, <2>1 DEF JobFits, Fields, Calling, Checking
  <2> QED
    BY <1>1, <1>6, <2>1, <2>2, GoesKeeps DEF Checking
<1>7. CASE AfterASR(r)
  BY <1>4, <1>5, <1>6, <1>7 DEF AfterASR, Transcribed, Recognised
<1>8. CASE job[r].stage = "middle" /\ AfterMiddle(r)
  <2>1. PICK p : Ends(r, "rejected") \/ Leaves(r, "checkPackage", [job[r] EXCEPT !.proposal = p])
    BY <1>8 DEF AfterMiddle
  <2>2. PICK j : j = [job[r] EXCEPT !.proposal = p]
    OBVIOUS
  <2>3. /\ job[r].kind # "transcribe" /\ Fields \subseteq DOMAIN j
        /\ j.kind = job[r].kind /\ j.ver = job[r].ver /\ j.langs = job[r].langs
    BY <1>2, <1>8, <2>2 DEF JobFits, Fields
  <2> QED
    BY <1>3, <1>5, <2>1, <2>2, <2>3
<1>9. CASE job[r].stage = "tts" /\ AfterTTS(r)
  <2>1. PICK j : j = [job[r] EXCEPT !.audio = TRUE]
    OBVIOUS
  <2>2. /\ job[r].kind # "transcribe" /\ Fields \subseteq DOMAIN j
        /\ j.kind = job[r].kind /\ j.ver = job[r].ver /\ j.langs = job[r].langs
    BY <1>2, <1>9, <2>1 DEF JobFits, Fields
  <2> QED
    BY <1>3, <1>4, <1>9, <2>1, <2>2 DEF AfterTTS, AudioRefused
<1> QED
  BY <1>4, <1>7, <1>8, <1>9 DEF Reply

\* The three queries of SnapshotRevalidate.
LEMMA CheckPackageKeeps ==
  ASSUME VoiceInv, NEW r \in Requests, CheckPackage(r), Remember
  PROVE  VoiceInv'
<1>1. at[r] = "checkPackage" /\ UNCHANGED <<live, active, revoked>>
  BY DEF CheckPackage, store
<1>2. CASE Ends(r, "stale")
  BY <1>1, <1>2, EndsKeeps
<1>3. CASE live = job[r].ver /\ Goes(r, "checkRevoked", job[r])
  <2>1. JobFits(job[r], "checkPackage")
    BY <1>1, UnderWay
  <2>2. JobFits(job[r], "checkRevoked") /\ job[r].ver \in Versions
    BY <2>1 DEF JobFits, Calling, Checking
  <2>3. live # 0
    BY <1>3, <2>2, VoiceAssumption DEF Versions
  <2> QED
    BY <1>1, <1>3, <2>2, <2>3, GoesKeeps
<1> QED
  BY <1>2, <1>3 DEF CheckPackage

LEMMA CheckRevokedKeeps ==
  ASSUME VoiceInv, NEW r \in Requests, CheckRevoked(r), Remember
  PROVE  VoiceInv'
<1>1. at[r] = "checkRevoked" /\ UNCHANGED <<live, active, revoked>>
  BY DEF CheckRevoked, store
<1>2. CASE Ends(r, "stale")
  BY <1>1, <1>2, EndsKeeps
<1>3. CASE Goes(r, "checkActive", job[r])
  <2>1. JobFits(job[r], "checkRevoked") /\ FreshFits(r)
    BY <1>1, UnderWay
  <2>2. JobFits(job[r], "checkActive")
    BY <2>1 DEF JobFits, Calling, Checking
  <2>3. job[r].langs \subseteq active[job[r].ver] => fresh[r]
    BY <1>1, <2>1 DEF FreshFits, Checking
  <2> QED
    BY <1>1, <1>3, <2>2, <2>3, GoesKeeps
<1> QED
  BY <1>2, <1>3 DEF CheckRevoked

LEMMA CheckActiveKeeps ==
  ASSUME VoiceInv, NEW r \in Requests, CheckActive(r), Remember
  PROVE  VoiceInv'
<1>1. at[r] = "checkActive" /\ UNCHANGED <<live, active, revoked>>
  BY DEF CheckActive, store
<1>2. CASE \E a \in {"stale", "unsupported"} : Ends(r, a)
  BY <1>1, <1>2, EndsKeeps
<1>3. CASE active[job[r].ver] = job[r].langs /\ Proceed(r)
  <2>1. JobFits(job[r], "checkActive") /\ FreshFits(r)
    BY <1>1, UnderWay
  <2>2. fresh[r]
    BY <1>1, <1>3, <2>1 DEF FreshFits, Checking
  <2>3. CASE Ends(r, "answer")
    BY <1>1, <2>2, <2>3, EndsKeeps
  <2>4. CASE \E j : /\ Goes(r, "ask", j) /\ Fields \subseteq DOMAIN j /\ j.kind = job[r].kind
                    /\ j.kind # "transcribe" /\ j.ver = job[r].ver /\ j.langs = job[r].langs
    <3>1. PICK j : /\ Goes(r, "ask", j) /\ Fields \subseteq DOMAIN j /\ j.kind = job[r].kind
                   /\ j.kind # "transcribe" /\ j.ver = job[r].ver /\ j.langs = job[r].langs
      BY <2>4
    <3>2. JobFits(j, "ask")
      BY <2>1, <3>1 DEF JobFits, Calling, Checking
    <3> QED
      BY <1>1, <3>1, <3>2, GoesKeeps DEF Checking
  <2>5. Fields \subseteq DOMAIN job[r]
    BY <2>1 DEF JobFits
  <2>6. CASE job[r].kind = "process" /\ ProceedProcess(r)
    <3>1. PICK j : j = [job[r] EXCEPT !.stage = "tts"]
      OBVIOUS
    <3>2. Ends(r, "answer") \/ Goes(r, "ask", j)
      BY <2>6, <3>1 DEF ProceedProcess, ArgumentsMisfit
    <3>3. Fields \subseteq DOMAIN j /\ j.kind = job[r].kind /\ j.ver = job[r].ver /\ j.langs = job[r].langs
      BY <2>5, <3>1 DEF Fields
    <3> QED
      BY <2>3, <2>4, <2>6, <3>2, <3>3
  <2>7. CASE job[r].kind = "speech" /\ RenderSpeech(r)
    <3>1. Ends(r, "unsupported") \/ Goes(r, "ask", job[r])
      BY <2>7 DEF RenderSpeech, SpeechArgsMisfit
    <3> QED
      BY <1>2, <2>4, <2>5, <2>7, <3>1
  <2> QED
    BY <1>3, <2>3, <2>6, <2>7 DEF Proceed, DeliverSpeech
<1> QED
  BY <1>2, <1>3 DEF CheckActive

\* The request's context is done.
LEMMA DeadlineKeeps ==
  ASSUME VoiceInv, NEW r \in Requests, Deadline(r), Remember
  PROVE  VoiceInv'
<1>1. UNCHANGED <<live, active, revoked, at, job, out>>
  BY DEF Deadline, store
<1>2. RequestInv(r)'
  BY <1>1 DEF VoiceInv, RequestInv, JobFits, FreshFits, Remember, Checking, Versions
<1>3. DOMAIN at' = Requests /\ DOMAIN job' = Requests /\ DOMAIN out' = Requests
  BY <1>1 DEF VoiceInv
<1> QED
  BY <1>1, <1>2, <1>3, OneRequest

\* The store changes: no approval a request carries comes back.
LEMMA StoreKeeps ==
  ASSUME VoiceInv, UNCHANGED <<at, job, out>>, Remember, StoreInv',
         \A v \in Versions : active[v] \cup revoked[v] \subseteq active'[v] \cup revoked'[v],
         \A v \in Versions : (active'[v] \ active[v]) \cap (active[v] \cup revoked[v]) = {}
  PROVE  VoiceInv'
<1>1. ASSUME NEW r \in Requests PROVE RequestInv(r)'
  <2>1. RequestInv(r) /\ at'[r] = at[r] /\ job'[r] = job[r] /\ out'[r] = out[r]
    BY DEF VoiceInv
  <2>2. at[r] \notin {"new", "done"} => JobFits(job[r], at[r])'
    <3>1. SUFFICES ASSUME JobFits(job[r], at[r]) PROVE JobFits(job[r], at[r])'
      BY <2>1 DEF RequestInv
    <3>2. ASSUME job[r].ver \in Versions, job[r].langs \subseteq active[job[r].ver] \cup revoked[job[r].ver]
          PROVE  job[r].langs \subseteq active'[job[r].ver] \cup revoked'[job[r].ver]
      BY <3>2
    <3>3. job[r].kind # "transcribe" /\ at[r] \notin {"package", "approvals"} =>
            job[r].langs \subseteq active'[job[r].ver] \cup revoked'[job[r].ver]
      BY <3>1, <3>2 DEF JobFits
    <3> QED
      BY <2>1, <3>1, <3>3 DEF JobFits, Versions
  <2>3. at[r] \in Checking /\ fresh[r] => fresh'[r]
    BY <2>1 DEF Remember, Checking
  <2>4. FreshFits(r)'
    <3>1. SUFFICES ASSUME at[r] \in Checking, job[r].langs \subseteq active'[job[r].ver] PROVE fresh'[r]
      BY <2>1 DEF FreshFits, Checking
    <3>2. /\ job[r].ver \in Versions
          /\ job[r].langs \subseteq active[job[r].ver] \cup revoked[job[r].ver]
      BY <2>1, <3>1 DEF RequestInv, JobFits, Checking, Calling
    <3>3. job[r].langs \subseteq active[job[r].ver]
      BY <3>1, <3>2
    <3> QED
      BY <2>1, <2>3, <3>1, <3>3 DEF RequestInv, FreshFits
  <2>5. at[r] = "done" => fresh'[r] = fresh[r]
    BY <2>1 DEF Remember
  <2> QED
    BY <2>1, <2>2, <2>4, <2>5 DEF RequestInv
<1> QED
  BY <1>1 DEF VoiceInv

LEMMA PackageChangesKeeps ==
  ASSUME VoiceInv, PackageChanges, Remember
  PROVE  VoiceInv'
<1>1. live' \in 0..MaxVersion /\ UNCHANGED <<active, revoked, at, job, out>>
  BY DEF PackageChanges, Changes
<1>2. StoreInv'
  BY <1>1 DEF VoiceInv, StoreInv, Versions
<1> QED
  BY <1>1, <1>2, StoreKeeps

LEMMA ApproveKeeps ==
  ASSUME VoiceInv, NEW v \in Versions, NEW l \in Languages, Approve(v, l), Remember
  PROVE  VoiceInv'
<1>1. /\ l \notin active[v] \cup revoked[v] /\ active' = [active EXCEPT ![v] = @ \cup {l}]
      /\ UNCHANGED <<live, revoked, at, job, out>>
  BY DEF Approve, Changes
<1>2. \A u \in Versions : active'[u] = IF u = v THEN active[u] \cup {l} ELSE active[u]
  BY <1>1 DEF VoiceInv, StoreInv
<1>3. StoreInv'
  BY <1>1, <1>2 DEF VoiceInv, StoreInv, Versions
<1>4. \A u \in Versions : active[u] \cup revoked[u] \subseteq active'[u] \cup revoked'[u]
  BY <1>1, <1>2
<1>5. \A u \in Versions : (active'[u] \ active[u]) \cap (active[u] \cup revoked[u]) = {}
  BY <1>1, <1>2
<1> QED
  BY <1>1, <1>3, <1>4, <1>5, StoreKeeps

LEMMA RevokeKeeps ==
  ASSUME VoiceInv, NEW v \in Versions, NEW l \in Languages, Revoke(v, l), Remember
  PROVE  VoiceInv'
<1>1. /\ active' = [active EXCEPT ![v] = @ \ {l}] /\ revoked' = [revoked EXCEPT ![v] = @ \cup {l}]
      /\ UNCHANGED <<live, at, job, out>>
  BY DEF Revoke, Changes
<1>2. \A u \in Versions :
        /\ active'[u] = IF u = v THEN active[u] \ {l} ELSE active[u]
        /\ revoked'[u] = IF u = v THEN revoked[u] \cup {l} ELSE revoked[u]
  BY <1>1 DEF VoiceInv, StoreInv
<1>3. StoreInv'
  BY <1>1, <1>2 DEF VoiceInv, StoreInv, Versions
<1>4. \A u \in Versions : active[u] \cup revoked[u] \subseteq active'[u] \cup revoked'[u]
  BY <1>2
<1>5. \A u \in Versions : (active'[u] \ active[u]) \cap (active[u] \cup revoked[u]) = {}
  BY <1>2
<1> QED
  BY <1>1, <1>3, <1>4, <1>5, StoreKeeps

\* An answer is given only on what was current after inference, for any number of
\* requests, package versions, languages and changes of the store (SnapshotRevalidate).
THEOREM AnswersAreCurrent == VoiceSpec => []DeliveredIsCurrent
<1>1. VoiceInit => VoiceInv
  <2>1. SUFFICES ASSUME VoiceInit PROVE VoiceInv
    OBVIOUS
  <2>2. StoreInv
    BY <2>1, VoiceAssumption DEF VoiceInit, StoreInv, Versions
  <2>3. ASSUME NEW r \in Requests PROVE RequestInv(r)
    BY <2>1 DEF VoiceInit, RequestInv, FreshFits, Checking
  <2> QED
    BY <2>1, <2>2, <2>3 DEF VoiceInit, VoiceInv
<1>2. VoiceInv /\ [VoiceNext]_voiceVars => VoiceInv'
  <2>1. SUFFICES ASSUME VoiceInv, [VoiceNext]_voiceVars PROVE VoiceInv'
    OBVIOUS
  <2>2. CASE UNCHANGED voiceVars
    <3>1. UNCHANGED <<live, active, revoked, at, job, out, fresh>>
      BY <2>2 DEF voiceVars
    <3>2. StoreInv'
      BY <2>1, <3>1 DEF VoiceInv, StoreInv, Versions
    <3>3. ASSUME NEW r \in Requests PROVE RequestInv(r)'
      BY <2>1, <3>1 DEF VoiceInv, RequestInv, JobFits, FreshFits, Versions
    <3> QED
      BY <2>1, <3>1, <3>2, <3>3 DEF VoiceInv
  <2>3. CASE VoiceNext
    <3>1. Remember
      BY <2>3 DEF VoiceNext
    <3>2. ASSUME NEW r \in Requests,
                 \/ Arrive(r) \/ ResolvePackage(r) \/ ResolveApprovals(r) \/ Deadline(r)
                 \/ Granted(r) \/ Claim(r) \/ MarkInflight(r)
          PROVE  VoiceInv'
      BY <2>1, <3>1, <3>2, ArriveKeeps, ResolvePackageKeeps, ResolveApprovalsKeeps, DeadlineKeeps,
         GrantedKeeps, ClaimKeeps, MarkInflightKeeps
    <3>3. ASSUME NEW r \in Requests,
                 \/ NotGranted(r) \/ NotReady(r) \/ WorkerFails(r) \/ Reply(r)
                 \/ CheckPackage(r) \/ CheckRevoked(r) \/ CheckActive(r)
          PROVE  VoiceInv'
      BY <2>1, <3>1, <3>3, FailureKeeps, ReplyKeeps, CheckPackageKeeps, CheckRevokedKeeps,
         CheckActiveKeeps
    <3>4. CASE PackageChanges
      BY <2>1, <3>1, <3>4, PackageChangesKeeps
    <3>5. ASSUME NEW v \in Versions, NEW l \in Languages, Approve(v, l) \/ Revoke(v, l)
          PROVE  VoiceInv'
      BY <2>1, <3>1, <3>5, ApproveKeeps, RevokeKeeps
    <3> QED
      BY <2>3, <3>2, <3>3, <3>4, <3>5 DEF VoiceNext, Serve
  <2> QED
    BY <2>1, <2>2, <2>3
<1>3. VoiceInv => DeliveredIsCurrent
  BY DEF VoiceInv, RequestInv, DeliveredIsCurrent
<1> QED
  BY <1>1, <1>2, <1>3, PTL DEF VoiceSpec

-----------------------------------------------------------------------------
(***************************************************************************)
(* AdapterIpc.  An entry is its caller's, who waits with an empty channel, *)
(* so that whoever takes the entry has one to fill.  Calls may share an    *)
(* id; then an entry can be lost to the other call of that id, and to no   *)
(* other cause.                                                            *)
(***************************************************************************)
\* Where a call may still be answered.
Waits(s) == caller[s] \in {"registered", "writing", "waiting"}

\* Another call has been made under the id of s.
Namesake(s) == \E t \in Sender : t # s /\ Key(t) = Key(s) /\ caller[t] # "idle"

\* The lines of the child that carry the id of s.
LinesFor(s) == {t \in received : Key(t) = Key(s)}

\* A call that waits has something in its channel, or is registered with a reader that runs,
\* or another call has been made under its id.
NobodyForgotten ==
  \A s \in Sender : Waits(s) =>
    \/ inbox[s] # NoLine
    \/ Key(s) \in DOMAIN pending /\ pending[Key(s)] = s /\ reader = "running" /\ ~demuxErr
    \/ Namesake(s)

\* A call gets an error or the answer to a line under its id that the child has read: to its
\* own, unless another call has been made under that id.
OwnAnswer ==
  \A s \in Sender :
    /\ result[s] \in {NoLine, ErrorLine} \cup LinesFor(s)
    /\ result[s] \in LinesFor(s) /\ ~Namesake(s) => result[s] = s

\* A call that has returned is not registered any more, whoever shares its id.
NoEntryLeft == \A id \in DOMAIN pending : caller[pending[id]] # "done"

\* An entry is that of a call which waits for its answer; a call that waits has its entry
\* unless another call has been made under its id.
EntriesExact ==
  /\ \A id \in DOMAIN pending :
       Key(pending[id]) = id /\ Waits(pending[id]) /\ inbox[pending[id]] = NoLine
  /\ \A s \in Sender : Waits(s) /\ inbox[s] = NoLine /\ ~Namesake(s) => Key(s) \in DOMAIN pending

\* No call before the startup probe is answered; a failed reader has no entries.
ReaderStands ==
  /\ caller[Loader] # "done" => \A c \in IpcCalls : caller[c] = "idle"
  /\ caller[Loader] = "idle" <=> reader = "none"
  /\ caller[Loader] = "idle" => ~demuxErr
  /\ reader = "exited" => demuxErr
  /\ demuxErr => DOMAIN pending = {}

\* What is in a channel and what is returned.
LinesOwned ==
  \A s \in Sender :
    /\ caller[s] = "idle" => inbox[s] = NoLine
    /\ inbox[s] \in {NoLine, ErrorLine} \cup LinesFor(s)
    /\ result[s] \in {NoLine, ErrorLine} \cup LinesFor(s)

\* The child has read the lines of calls that were made.
LinesMade == \A s \in Sender : (s \in received \/ writer[s] # "none") => caller[s] # "idle"

\* The inductive invariant.
IpcInv == IpcTypeOK /\ EntriesExact /\ ReaderStands /\ LinesOwned /\ LinesMade

\* The senders and the keys of their entries.
LEMMA Keys ==
  /\ Loader \in Sender /\ Closer \notin Sender /\ IpcCalls \subseteq Sender
  /\ Loader \notin IpcCalls /\ NoLine \notin Sender /\ ErrorLine \notin Sender /\ NoLine # ErrorLine
  /\ \A s \in Sender : Key(s) \in IpcIds \cup {Startup}
  /\ \A c \in IpcCalls : Key(c) = IdOf[c] /\ Key(c) # Startup
  /\ Key(Loader) = Startup
BY IpcAssumption DEF Sender, Loader, Closer, NoLine, ErrorLine, Key, Startup

\* The initial states.
LEMMA InitIpc == IpcInit => IpcInv
<1> SUFFICES ASSUME IpcInit PROVE IpcInv
  OBVIOUS
<1>1. IpcTypeOK
  <2>1. DOMAIN pending = {}
    BY DEF IpcInit
  <2>2. /\ caller = [s \in Sender \cup {Closer} |-> "idle"]
        /\ inbox = [s \in Sender |-> NoLine] /\ result = [s \in Sender |-> NoLine]
        /\ writer = [s \in Sender |-> "none"]
    BY DEF IpcInit
  <2>3. /\ inbox \in [Sender -> Sender \cup {NoLine, ErrorLine}]
        /\ result \in [Sender -> Sender \cup {NoLine, ErrorLine}]
    BY <2>2
  <2>4. writer \in [Sender -> {"none", "writing", "written", "failed"}]
    BY <2>2
  <2>5. caller \in [Sender \cup {Closer} -> {"idle", "registered", "writing", "unwinding", "waiting",
                                            "killing", "draining", "done"}]
    BY <2>2
  <2> QED
    BY <2>1, <2>3, <2>4, <2>5 DEF IpcInit, IpcTypeOK
<1>2. EntriesExact
  BY Keys DEF IpcInit, EntriesExact, Waits
<1>3. ReaderStands
  BY Keys DEF IpcInit, ReaderStands
<1>4. LinesOwned
  BY Keys DEF IpcInit, LinesOwned
<1>5. LinesMade
  BY DEF IpcInit, LinesMade
<1> QED
  BY <1>1, <1>2, <1>3, <1>4, <1>5 DEF IpcInv

\* A call that was made stays made.
LEMMA NamesakeKept ==
  ASSUME \A t \in Sender : caller[t] # "idle" => caller'[t] # "idle"
  PROVE  \A s \in Sender : Namesake(s) => Namesake(s)'
BY DEF Namesake

\* What a step may put into channels, results and the child's input.
LEMMA LinesKept ==
  ASSUME IpcInv, received \subseteq received',
         \A s \in Sender : caller[s] # "idle" => caller'[s] # "idle",
         \A s \in Sender : \/ inbox'[s] = inbox[s]
                           \/ caller'[s] # "idle" /\ inbox'[s] \in {ErrorLine} \cup LinesFor(s),
         \A s \in Sender : result'[s] \in {result[s], inbox[s], ErrorLine},
         \A s \in Sender : (s \in received' \/ writer'[s] # "none") =>
                            (s \in received \/ writer[s] # "none" \/ caller'[s] # "idle")
  PROVE  LinesOwned' /\ LinesMade'
<1>1. LinesOwned /\ LinesMade
  BY DEF IpcInv
<1>2. \A s \in Sender : LinesFor(s) \subseteq LinesFor(s)'
  BY DEF LinesFor, Key
<1>3. ASSUME NEW s \in Sender
      PROVE  /\ caller'[s] = "idle" => inbox'[s] = NoLine
             /\ inbox'[s] \in {NoLine, ErrorLine} \cup LinesFor(s)'
             /\ result'[s] \in {NoLine, ErrorLine} \cup LinesFor(s)'
  BY <1>1, <1>2 DEF LinesOwned
<1>4. LinesOwned'
  BY <1>3 DEF LinesOwned
<1>5. LinesMade'
  BY <1>1 DEF LinesMade
<1> QED
  BY <1>4, <1>5

\* Starting the child, and registering the probe.
LEMMA LoadKeeps == ASSUME IpcInv, LoadRuntime PROVE IpcInv'
<1>1. /\ caller[Loader] = "idle" /\ \A c \in IpcCalls : caller[c] = "idle"
      /\ \A s \in Sender : caller[s] = "idle" /\ inbox[s] = NoLine
      /\ ~demuxErr
  BY DEF IpcInv, ReaderStands, LinesOwned, LoadRuntime, Sender
<1>2. /\ caller' = [caller EXCEPT ![Loader] = "registered"]
      /\ caller'[Loader] = "registered" /\ \A s \in Sender : s # Loader => caller'[s] = "idle"
  BY <1>1, Keys DEF IpcInv, IpcTypeOK, LoadRuntime
<1>3. DOMAIN pending' = {Startup} /\ pending'[Startup] = Loader
  BY DEF LoadRuntime
<1>4. IpcTypeOK'
  BY <1>2, <1>3, Keys DEF IpcInv, IpcTypeOK, LoadRuntime
<1>5. EntriesExact'
  BY <1>1, <1>2, <1>3, Keys DEF EntriesExact, LoadRuntime, Waits
<1>6. ReaderStands'
  BY <1>1, <1>2, <1>3, Keys DEF ReaderStands, LoadRuntime
<1>7. LinesOwned' /\ LinesMade'
  <2>1. UNCHANGED << inbox, writer, received, result >>
    BY DEF LoadRuntime
  <2> QED
    BY <1>1, <1>2, <2>1, LinesKept
<1> QED
  BY <1>4, <1>5, <1>6, <1>7 DEF IpcInv

\* The entry under the key of a call whose id nobody else used is its own.
LEMMA EntryOwned ==
  ASSUME IpcInv
  PROVE  \A s \in Sender : Key(s) \in DOMAIN pending => pending[Key(s)] = s \/ Namesake(s)
<1>1. SUFFICES ASSUME NEW s \in Sender, Key(s) \in DOMAIN pending, pending[Key(s)] # s
               PROVE  Namesake(s)
  OBVIOUS
<1>2. /\ pending[Key(s)] \in Sender /\ Key(pending[Key(s)]) = Key(s)
      /\ caller[pending[Key(s)]] # "idle"
  BY <1>1, Keys DEF IpcInv, IpcTypeOK, EntriesExact, Waits
<1> QED
  BY <1>1, <1>2 DEF Namesake

\* A request is refused, or registered.
LEMMA SendKeeps == ASSUME IpcInv, NEW c \in IpcCalls, SendRequest(c) PROVE IpcInv'
<1>1. /\ c \in Sender /\ c # Loader /\ caller[c] = "idle" /\ caller[Loader] = "done"
      /\ inbox[c] = NoLine /\ Key(c) = IdOf[c] /\ IdOf[c] \in IpcIds /\ reader # "none"
  BY Keys, IpcAssumption DEF IpcInv, LinesOwned, ReaderStands, SendRequest
<1>2. CASE closed \/ demuxErr
  <2>1. /\ caller' = [caller EXCEPT ![c] = "done"] /\ result' = [result EXCEPT ![c] = ErrorLine]
        /\ UNCHANGED << pending, child, reader, inbox, demuxErr, closed, writer, received >>
    BY <1>2 DEF SendRequest, Returns
  <2>2. /\ caller'[c] = "done" /\ result'[c] = ErrorLine
        /\ \A s \in Sender : s # c => caller'[s] = caller[s] /\ result'[s] = result[s]
    BY <1>1, <2>1 DEF IpcInv, IpcTypeOK
  <2>3. IpcTypeOK'
    BY <1>1, <2>1 DEF IpcInv, IpcTypeOK
  <2>4. EntriesExact'
    <3>1. ASSUME NEW id \in DOMAIN pending PROVE caller'[pending[id]] \in {"registered", "writing", "waiting"}
      <4>1. pending[id] \in Sender /\ Waits(pending[id])
        BY DEF IpcInv, IpcTypeOK, EntriesExact
      <4> QED
        BY <1>1, <2>2, <4>1 DEF Waits
    <3>2. \A s \in Sender : (Waits(s)' => Waits(s)) /\ (Namesake(s) => Namesake(s)')
      BY <1>1, <2>2, NamesakeKept DEF Waits
    <3> QED
      BY <2>1, <3>1, <3>2 DEF IpcInv, EntriesExact, Key, Waits
  <2>5. ReaderStands'
    BY <1>1, <2>1, <2>2, Keys DEF IpcInv, ReaderStands
  <2>6. LinesOwned' /\ LinesMade'
    BY <1>1, <2>1, <2>2, LinesKept
  <2> QED
    BY <2>3, <2>4, <2>5, <2>6 DEF IpcInv
<1>3. CASE ~(closed \/ demuxErr)
  <2>1. /\ caller' = [caller EXCEPT ![c] = "registered"]
        /\ pending' = [id \in DOMAIN pending \cup {IdOf[c]} |-> IF id = IdOf[c] THEN c ELSE pending[id]]
        /\ UNCHANGED << result, child, reader, inbox, demuxErr, closed, writer, received >>
    BY <1>3 DEF SendRequest
  <2>2. caller'[c] = "registered" /\ \A s \in Sender : s # c => caller'[s] = caller[s]
    BY <1>1, <2>1 DEF IpcInv, IpcTypeOK
  <2>3. /\ DOMAIN pending' = DOMAIN pending \cup {Key(c)} /\ pending'[Key(c)] = c
        /\ \A id \in DOMAIN pending : id # Key(c) => pending'[id] = pending[id]
    BY <1>1, <2>1
  <2>4. IpcTypeOK'
    BY <1>1, <2>1, <2>3 DEF IpcInv, IpcTypeOK
  <2>5. EntriesExact'
    <3>1. ASSUME NEW id \in DOMAIN pending'
          PROVE  Key(pending'[id]) = id /\ caller'[pending'[id]] \in {"registered", "writing", "waiting"} /\ inbox'[pending'[id]] = NoLine
      <4>1. CASE id = Key(c)
        BY <1>1, <2>1, <2>2, <2>3, <4>1 DEF Waits
      <4>2. CASE id # Key(c)
        <5>1. /\ id \in DOMAIN pending /\ pending'[id] = pending[id] /\ pending[id] \in Sender
              /\ Key(pending[id]) = id /\ Waits(pending[id]) /\ inbox[pending[id]] = NoLine
          BY <2>3, <4>2 DEF IpcInv, IpcTypeOK, EntriesExact
        <5> QED
          BY <1>1, <2>1, <2>2, <5>1 DEF Waits
      <4> QED
        BY <4>1, <4>2
    <3>2. ASSUME NEW s \in Sender, Waits(s)', inbox'[s] = NoLine, ~Namesake(s)'
          PROVE  Key(s) \in DOMAIN pending'
      <4>1. CASE s = c
        BY <2>3, <4>1
      <4>2. CASE s # c
        <5>1. Waits(s) /\ inbox[s] = NoLine /\ ~Namesake(s)
          BY <1>1, <2>1, <2>2, <3>2, <4>2, NamesakeKept DEF Waits
        <5> QED
          BY <2>3, <5>1 DEF IpcInv, EntriesExact
      <4> QED
        BY <4>1, <4>2
    <3> QED
      BY <3>1, <3>2 DEF EntriesExact, Key, Waits
  <2>6. ReaderStands'
    BY <1>1, <1>3, <2>1, <2>2, Keys DEF IpcInv, ReaderStands
  <2>7. LinesOwned' /\ LinesMade'
    BY <1>1, <2>1, <2>2, LinesKept
  <2> QED
    BY <2>4, <2>5, <2>6, <2>7 DEF IpcInv
<1> QED
  BY <1>2, <1>3

\* Draining releases everyone who is registered.
LEMMA DrainReleases ==
  ASSUME IpcInv
  PROVE  /\ Drained \in [Sender -> Sender \cup {NoLine, ErrorLine}]
         /\ \A s \in Sender :
              \/ Drained[s] = inbox[s] /\ (Waits(s) /\ inbox[s] = NoLine => Namesake(s))
              \/ Drained[s] = ErrorLine /\ Waits(s)
<1>1. Drained \in [Sender -> Sender \cup {NoLine, ErrorLine}]
  BY DEF Drained, IpcInv, IpcTypeOK
<1>2. ASSUME NEW s \in Sender
      PROVE  \/ Drained[s] = inbox[s] /\ (Waits(s) /\ inbox[s] = NoLine => Namesake(s))
             \/ Drained[s] = ErrorLine /\ Waits(s)
  <2>1. CASE \E id \in DOMAIN pending : pending[id] = s
    BY <2>1 DEF Drained, IpcInv, EntriesExact
  <2>2. CASE ~\E id \in DOMAIN pending : pending[id] = s
    <3>1. Drained[s] = inbox[s]
      BY <2>2 DEF Drained
    <3>2. ASSUME Waits(s), inbox[s] = NoLine PROVE Namesake(s)
      <4>1. Key(s) \in DOMAIN pending => pending[Key(s)] # s
        BY <2>2
      <4> QED
        BY <3>2, <4>1, EntryOwned DEF IpcInv, EntriesExact
    <3> QED
      BY <3>1, <3>2
  <2> QED
    BY <2>1, <2>2
<1> QED
  BY <1>1, <1>2

\* Failing everyone: no entry is left, and no call waits for nothing.
LEMMA DrainKeeps ==
  ASSUME IpcInv,
         pending' = << >>, inbox' = Drained, demuxErr' = TRUE, caller[Loader] # "idle",
         child' \in {"alive", "dead", child}, reader' \in {reader, "exited"},
         UNCHANGED << closed, writer, received >>,
         caller' \in [Sender \cup {Closer} -> {"idle", "registered", "writing", "unwinding", "waiting",
                                             "killing", "draining", "done"}],
         result' \in [Sender -> Sender \cup {NoLine, ErrorLine}],
         \A s \in Sender : \/ caller'[s] = caller[s] /\ result'[s] = result[s]
                           \/ /\ caller'[s] \in {"done", "unwinding"} /\ caller[s] \notin {"idle", "done"}
                              /\ result'[s] \in {result[s], ErrorLine}
  PROVE  IpcInv'
<1>1. DOMAIN pending' = {}
  OBVIOUS
<1>2. \A s \in Sender :
        \/ inbox'[s] = inbox[s] /\ (Waits(s) /\ inbox[s] = NoLine => Namesake(s))
        \/ inbox'[s] = ErrorLine /\ Waits(s)
  BY DrainReleases
<1>3. \A s \in Sender : caller'[s] = "idle" <=> caller[s] = "idle"
  OBVIOUS
<1>4. IpcTypeOK'
  BY <1>1, DrainReleases DEF IpcInv, IpcTypeOK
<1>5. EntriesExact'
  <2>1. \A s \in Sender : Waits(s)' => Waits(s)
    BY DEF Waits
  <2>2. \A s \in Sender : Namesake(s) => Namesake(s)'
    BY <1>3, NamesakeKept
  <2>3. \A s \in Sender : Waits(s)' /\ inbox'[s] = NoLine => Namesake(s)'
    BY <1>2, <2>1, <2>2, Keys
  <2> QED
    BY <1>1, <2>3 DEF EntriesExact
<1>6. ReaderStands'
  <2>1. caller[Loader] = "done" => caller'[Loader] = "done"
    BY Keys
  <2> QED
    BY <1>1, <1>3, <2>1, Keys DEF IpcInv, ReaderStands
<1>7. LinesOwned' /\ LinesMade'
  <2>1. \A s \in Sender : inbox'[s] = inbox[s] \/ (caller'[s] # "idle" /\ inbox'[s] = ErrorLine)
    BY <1>2, <1>3 DEF Waits
  <2> QED
    BY <1>3, <2>1, LinesKept
<1> QED
  BY <1>4, <1>5, <1>6, <1>7 DEF IpcInv

\* A call that returns, with what its channel holds or with an error, leaves no entry: it
\* deletes whatever is registered under its id, also that of another call.
LEMMA ReturnKeeps ==
  ASSUME IpcInv, NEW s \in Sender, NEW x \in {ErrorLine, inbox[s]}, caller[s] # "idle", Returns(s, x),
         \/ pending' = Without(pending, Key(s))
         \/ pending' = pending /\ inbox[s] # NoLine,
         UNCHANGED << child, reader, inbox, demuxErr, closed, writer, received >>
  PROVE  IpcInv'
<1>1. /\ caller'[s] = "done" /\ result'[s] = x
      /\ \A t \in Sender : t # s => caller'[t] = caller[t] /\ result'[t] = result[t]
      /\ \A t \in Sender : caller'[t] = "idle" <=> caller[t] = "idle"
  BY Keys DEF IpcInv, IpcTypeOK, Returns
<1>2. /\ DOMAIN pending \ {Key(s)} \subseteq DOMAIN pending' /\ DOMAIN pending' \subseteq DOMAIN pending
      /\ \A id \in DOMAIN pending' : pending'[id] = pending[id]
  BY DEF Without
<1>3. IpcTypeOK'
  BY <1>2, Keys DEF IpcInv, IpcTypeOK, Returns
<1>4. EntriesExact'
  <2>1. ASSUME NEW id \in DOMAIN pending'
        PROVE  Key(pending'[id]) = id /\ caller'[pending'[id]] \in {"registered", "writing", "waiting"} /\ inbox'[pending'[id]] = NoLine
    <3>1. /\ pending'[id] = pending[id] /\ Key(pending[id]) = id /\ Waits(pending[id])
          /\ inbox[pending[id]] = NoLine /\ pending[id] \in Sender
      BY <1>2 DEF IpcInv, IpcTypeOK, EntriesExact
    <3>2. pending[id] # s
      BY <2>1, <3>1 DEF Without
    <3> QED
      BY <1>1, <3>1, <3>2 DEF Waits
  <2>2. ASSUME NEW t \in Sender, Waits(t)', inbox'[t] = NoLine, ~Namesake(t)'
        PROVE  Key(t) \in DOMAIN pending'
    <3>1. t # s
      BY <1>1, <2>2 DEF Waits
    <3>2. Waits(t) /\ inbox[t] = NoLine /\ ~Namesake(t)
      BY <1>1, <2>2, <3>1, NamesakeKept DEF Waits
    <3>3. Key(t) # Key(s)
      BY <3>1, <3>2 DEF Namesake
    <3>4. Key(t) \in DOMAIN pending
      BY <3>2 DEF IpcInv, EntriesExact
    <3> QED
      BY <1>2, <3>3, <3>4
  <2> QED
    BY <2>1, <2>2 DEF EntriesExact, Key, Waits
<1>5. ReaderStands'
  BY <1>1, <1>2, Keys DEF IpcInv, ReaderStands
<1>6. LinesOwned' /\ LinesMade'
  BY <1>1, LinesKept
<1> QED
  BY <1>3, <1>4, <1>5, <1>6 DEF IpcInv

\* A call that goes on keeps its entry.
LEMMA MoveKeeps ==
  ASSUME IpcInv, NEW s \in Sender, NEW v \in {"writing", "waiting"}, Waits(s),
         caller' = [caller EXCEPT ![s] = v],
         writer' \in [Sender -> {"none", "writing", "written", "failed"}],
         \A t \in Sender : t # s => writer'[t] = writer[t],
         UNCHANGED << child, reader, pending, inbox, demuxErr, closed, received, result >>
  PROVE  IpcInv'
<1>1. /\ caller'[s] = v /\ \A t \in Sender : t # s => caller'[t] = caller[t]
      /\ \A t \in Sender : caller'[t] = "idle" <=> caller[t] = "idle"
      /\ \A t \in Sender : Waits(t)' <=> Waits(t)
  BY Keys DEF IpcInv, IpcTypeOK, Waits
<1>2. IpcTypeOK'
  BY DEF IpcInv, IpcTypeOK
<1>3. EntriesExact'
  <2>1. \A t \in Sender : Namesake(t) => Namesake(t)'
    BY <1>1, NamesakeKept
  <2>2. \A id \in DOMAIN pending : pending[id] \in Sender
    BY DEF IpcInv, IpcTypeOK
  <2> QED
    BY <1>1, <2>1, <2>2 DEF IpcInv, EntriesExact, Key
<1>4. ReaderStands'
  <2>1. caller'[Loader] = "done" <=> caller[Loader] = "done"
    BY <1>1, Keys DEF Waits
  <2> QED
    BY <1>1, <2>1, Keys DEF IpcInv, ReaderStands
<1>5. LinesOwned' /\ LinesMade'
  <2>1. caller'[s] # "idle" /\ \A t \in Sender : result'[t] = result[t] /\ inbox'[t] = inbox[t]
    BY <1>1
  <2> QED
    BY <1>1, <2>1, LinesKept
<1> QED
  BY <1>2, <1>3, <1>4, <1>5 DEF IpcInv

\* What happens to the child, to the write goroutines and to Close leaves the calls alone.
LEMMA AsideKeeps ==
  ASSUME IpcInv, UNCHANGED << reader, pending, inbox, demuxErr, result >>,
         child' \in {"none", "alive", "dead"}, closed' \in BOOLEAN,
         writer' \in [Sender -> {"none", "writing", "written", "failed"}],
         received' \subseteq Sender, received \subseteq received',
         \A s \in Sender : (s \in received' \/ writer'[s] # "none") => (s \in received \/ writer[s] # "none"),
         caller' \in [Sender \cup {Closer} -> {"idle", "registered", "writing", "unwinding", "waiting",
                                             "killing", "draining", "done"}],
         \A s \in Sender : caller'[s] = caller[s]
  PROVE  IpcInv'
<1>1. IpcTypeOK'
  BY DEF IpcInv, IpcTypeOK
<1>2. EntriesExact'
  <2>1. \A s \in Sender : (Namesake(s) => Namesake(s)') /\ (Waits(s) <=> Waits(s)')
    BY NamesakeKept DEF Waits
  <2>2. \A id \in DOMAIN pending : pending[id] \in Sender
    BY DEF IpcInv, IpcTypeOK
  <2> QED
    BY <2>1, <2>2 DEF IpcInv, EntriesExact, Key
<1>3. ReaderStands'
  BY Keys DEF IpcInv, ReaderStands
<1>4. LinesOwned' /\ LinesMade'
  BY LinesKept
<1> QED
  BY <1>1, <1>2, <1>3, <1>4 DEF IpcInv

\* The reader hands an answer to the call registered under the id the line carries.
LEMMA AnswerKeeps == ASSUME IpcInv, NEW s \in Sender, ReadAnswer(s) PROVE IpcInv'
<1>1. PICK to : to = pending[Key(s)]
  OBVIOUS
<1>2. /\ Key(s) \in DOMAIN pending /\ to \in Sender /\ Key(to) = Key(s) /\ Waits(to) /\ inbox[to] = NoLine
      /\ s \in received
  BY <1>1 DEF IpcInv, IpcTypeOK, EntriesExact, ReadAnswer
<1>3. /\ inbox' = [inbox EXCEPT ![to] = s] /\ pending' = Without(pending, Key(s))
      /\ UNCHANGED << child, reader, demuxErr, closed, writer, received, caller, result >>
  BY <1>1, <1>2 DEF ReadAnswer
<1>4. inbox'[to] = s /\ s # NoLine /\ \A t \in Sender : t # to => inbox'[t] = inbox[t]
  BY <1>2, <1>3, Keys DEF IpcInv, IpcTypeOK
<1>5. /\ DOMAIN pending' = DOMAIN pending \ {Key(s)}
      /\ \A id \in DOMAIN pending' : pending'[id] = pending[id]
  BY <1>3 DEF Without
<1>6. IpcTypeOK'
  BY <1>3, <1>5 DEF IpcInv, IpcTypeOK
<1>7. EntriesExact'
  <2>1. \A t \in Sender : (Waits(t)' <=> Waits(t)) /\ (Namesake(t)' <=> Namesake(t))
    BY <1>3 DEF Waits, Namesake, Key
  <2>2. ASSUME NEW id \in DOMAIN pending'
        PROVE  Key(pending'[id]) = id /\ caller'[pending'[id]] \in {"registered", "writing", "waiting"} /\ inbox'[pending'[id]] = NoLine
    <3>1. /\ pending'[id] = pending[id] /\ Key(pending[id]) = id /\ Waits(pending[id])
          /\ inbox[pending[id]] = NoLine /\ pending[id] \in Sender
      BY <1>5 DEF IpcInv, IpcTypeOK, EntriesExact
    <3>2. pending[id] # to
      BY <1>2, <1>5, <2>2, <3>1
    <3> QED
      BY <1>3, <1>4, <3>1, <3>2 DEF Waits
  <2>3. ASSUME NEW t \in Sender, Waits(t)', inbox'[t] = NoLine, ~Namesake(t)'
        PROVE  Key(t) \in DOMAIN pending'
    <3>1. t # to /\ Waits(t) /\ inbox[t] = NoLine /\ ~Namesake(t)
      BY <1>4, <2>1, <2>3
    <3>2. Key(t) # Key(to)
      BY <1>2, <3>1 DEF Namesake, Waits
    <3>3. Key(t) \in DOMAIN pending
      BY <3>1 DEF IpcInv, EntriesExact
    <3> QED
      BY <1>2, <1>5, <3>2, <3>3
  <2> QED
    BY <2>2, <2>3 DEF EntriesExact, Key, Waits
<1>8. ReaderStands'
  BY <1>3, <1>5 DEF IpcInv, ReaderStands
<1>9. LinesOwned' /\ LinesMade'
  <2>1. s \in LinesFor(to) /\ caller'[to] # "idle"
    BY <1>2, <1>3 DEF IpcInv, IpcTypeOK, LinesFor, Waits
  <2> QED
    BY <1>3, <1>4, <2>1, LinesKept
<1> QED
  BY <1>6, <1>7, <1>8, <1>9 DEF IpcInv

\* A call that fails writing fails everyone.
LEMMA FailKeeps ==
  ASSUME IpcInv, NEW s \in Sender, caller[s] = "writing", MarkUncertain,
         UNCHANGED << reader, closed, writer, received >>,
         \/ Returns(s, ErrorLine)
         \/ caller' = [caller EXCEPT ![s] = "unwinding"] /\ UNCHANGED result
  PROVE  IpcInv'
<1>1. /\ caller' \in [Sender \cup {Closer} -> {"idle", "registered", "writing", "unwinding", "waiting",
                                             "killing", "draining", "done"}]
      /\ result' \in [Sender -> Sender \cup {NoLine, ErrorLine}]
  BY DEF IpcInv, IpcTypeOK, Returns
<1>2. /\ caller'[s] \in {"done", "unwinding"} /\ result'[s] \in {result[s], ErrorLine}
      /\ \A t \in Sender : t # s => caller'[t] = caller[t] /\ result'[t] = result[t]
  BY DEF IpcInv, IpcTypeOK, Returns
<1>3. caller[Loader] # "idle"
  BY DEF IpcInv, ReaderStands, Sender
<1>4. /\ pending' = << >> /\ inbox' = Drained /\ demuxErr' = TRUE /\ child' = "dead"
  BY DEF MarkUncertain
<1>5. \A t \in Sender : \/ caller'[t] = caller[t] /\ result'[t] = result[t]
                        \/ /\ caller'[t] \in {"done", "unwinding"} /\ caller[t] \notin {"idle", "done"}
                           /\ result'[t] \in {result[t], ErrorLine}
  BY <1>2
<1> QED
  BY <1>1, <1>3, <1>4, <1>5, DrainKeeps

\* The steps of a call, after it is registered.
LEMMA CallKeeps ==
  ASSUME IpcInv, NEW s \in Sender,
         WriteStdin(s) \/ WriteReturns(s) \/ WriteDeadline(s) \/ Unwound(s) \/ Answered(s) \/ GivesUp(s)
  PROVE  IpcInv'
<1>1. CASE WriteStdin(s)
  <2>1. CASE closed
    <3>1. /\ Returns(s, ErrorLine) /\ pending' = Without(pending, Key(s)) /\ caller[s] # "idle"
          /\ UNCHANGED << child, reader, inbox, demuxErr, closed, writer, received >>
      BY <1>1, <2>1 DEF WriteStdin
    <3> QED
      BY <3>1, ReturnKeeps
  <2>2. CASE ~closed
    <3>1. /\ Waits(s) /\ caller' = [caller EXCEPT ![s] = "writing"]
          /\ writer' = [writer EXCEPT ![s] = "writing"]
          /\ UNCHANGED << child, reader, pending, inbox, demuxErr, closed, received, result >>
      BY <1>1, <2>2 DEF WriteStdin, Waits
    <3>2. /\ writer' \in [Sender -> {"none", "writing", "written", "failed"}]
          /\ \A t \in Sender : t # s => writer'[t] = writer[t]
      BY <3>1 DEF IpcInv, IpcTypeOK
    <3> QED
      BY <3>1, <3>2, MoveKeeps
  <2> QED
    BY <2>1, <2>2
<1>2. CASE WriteReturns(s)
  <2>1. CASE writer[s] = "written"
    <3>1. /\ Waits(s) /\ caller' = [caller EXCEPT ![s] = "waiting"]
          /\ UNCHANGED << writer, child, reader, pending, inbox, demuxErr, closed, received, result >>
      BY <1>2, <2>1 DEF WriteReturns, Waits
    <3>2. /\ writer' \in [Sender -> {"none", "writing", "written", "failed"}]
          /\ \A t \in Sender : t # s => writer'[t] = writer[t]
      BY <3>1 DEF IpcInv, IpcTypeOK
    <3> QED
      BY <3>1, <3>2, MoveKeeps
  <2>2. CASE writer[s] = "failed"
    <3>1. /\ caller[s] = "writing" /\ MarkUncertain /\ Returns(s, ErrorLine)
          /\ UNCHANGED << reader, closed, writer, received >>
      BY <1>2, <2>2 DEF WriteReturns
    <3> QED
      BY <3>1, FailKeeps
  <2> QED
    BY <1>2, <2>1, <2>2 DEF WriteReturns
<1>3. CASE WriteDeadline(s)
  <2>1. /\ caller[s] = "writing" /\ MarkUncertain /\ UNCHANGED << reader, closed, writer, received, result >>
        /\ caller' = [caller EXCEPT ![s] = "unwinding"]
    BY <1>3 DEF WriteDeadline
  <2> QED
    BY <2>1, FailKeeps
<1>4. CASE Unwound(s)
  BY <1>4, ReturnKeeps DEF Unwound
<1>5. CASE Answered(s)
  <2>1. /\ caller[s] # "idle" /\ Returns(s, inbox[s]) /\ inbox[s] # NoLine
        /\ UNCHANGED << child, reader, pending, inbox, demuxErr, closed, writer, received >>
    BY <1>5 DEF Answered
  <2> QED
    BY <2>1, ReturnKeeps
<1>6. CASE GivesUp(s)
  BY <1>6, ReturnKeeps DEF GivesUp
<1> QED
  BY <1>1, <1>2, <1>3, <1>4, <1>5, <1>6

\* The steps of the child, of the reader when it fails, and of Close.
LEMMA OthersKeep ==
  ASSUME IpcInv,
         \/ \E s \in Sender : ChildReads(s) \/ WriteFails(s)
         \/ ReadGarbage \/ ReadEnds \/ ChildDies \/ Close \/ CloseKills \/ CloseReturns
  PROVE  IpcInv'
<1> DEFINE Stands == {"idle", "registered", "writing", "unwinding", "waiting", "killing", "draining", "done"}
<1>1. ASSUME NEW s \in Sender, ChildReads(s) \/ WriteFails(s) PROVE IpcInv'
  <2>1. /\ writer' \in [Sender -> {"none", "writing", "written", "failed"}]
        /\ received' \subseteq Sender /\ received \subseteq received'
        /\ \A t \in Sender : (t \in received' \/ writer'[t] # "none") => (t \in received \/ writer[t] # "none")
        /\ UNCHANGED << child, reader, pending, inbox, demuxErr, closed, caller, result >>
    BY <1>1 DEF ChildReads, WriteFails, IpcInv, IpcTypeOK
  <2>2. child' \in {"none", "alive", "dead"} /\ closed' \in BOOLEAN /\ caller' \in [Sender \cup {Closer} -> Stands]
    BY <2>1 DEF IpcInv, IpcTypeOK
  <2> QED
    BY <2>1, <2>2, AsideKeeps
<1>2. CASE ReadGarbage \/ ReadEnds
  <2>1. /\ demuxErr' = TRUE /\ inbox' = Drained /\ pending' = << >>
        /\ child' \in {"alive", "dead", child} /\ reader' = "exited" /\ reader = "running"
        /\ UNCHANGED << closed, writer, received, caller, result >>
    BY <1>2 DEF ReadGarbage, ReadEnds, MarkUncertain
  <2>2. caller[Loader] # "idle"
    BY <2>1 DEF IpcInv, ReaderStands
  <2>3. caller' \in [Sender \cup {Closer} -> Stands] /\ result' \in [Sender -> Sender \cup {NoLine, ErrorLine}]
    BY <2>1 DEF IpcInv, IpcTypeOK
  <2> QED
    BY <2>1, <2>2, <2>3, DrainKeeps
<1>3. CASE ChildDies \/ Close \/ CloseKills \/ CloseReturns
  <2>1. /\ child' \in {"none", "alive", "dead"} /\ closed' \in BOOLEAN
        /\ UNCHANGED << reader, pending, inbox, demuxErr, writer, received, result >>
        /\ caller' = caller \/ \E v \in {"killing", "draining", "done"} : caller' = [caller EXCEPT ![Closer] = v]
    BY <1>3 DEF ChildDies, Close, CloseKills, CloseReturns, IpcInv, IpcTypeOK
  <2>2. caller' \in [Sender \cup {Closer} -> Stands] /\ \A s \in Sender : caller'[s] = caller[s]
    BY <2>1, Keys DEF IpcInv, IpcTypeOK
  <2>3. writer' \in [Sender -> {"none", "writing", "written", "failed"}] /\ received' \subseteq Sender
        /\ received \subseteq received'
    BY <2>1 DEF IpcInv, IpcTypeOK
  <2> QED
    BY <2>1, <2>2, <2>3, AsideKeeps
<1> QED
  BY <1>1, <1>2, <1>3

\* The invariant holds, whatever the child does.
LEMMA IpcInductive == IpcSpec => []IpcInv
<1>1. ASSUME IpcInv, [IpcNext]_ipcVars PROVE IpcInv'
  <2>1. CASE IpcNext
    <3>1. CASE LoadRuntime
      BY <1>1, <3>1, LoadKeeps
    <3>2. CASE \E c \in IpcCalls : SendRequest(c)
      BY <1>1, <3>2, SendKeeps
    <3>3. CASE \E s \in Sender : \/ WriteStdin(s) \/ WriteReturns(s) \/ WriteDeadline(s)
                                 \/ Unwound(s) \/ Answered(s) \/ GivesUp(s)
      BY <1>1, <3>3, CallKeeps
    <3>4. CASE \E s \in Sender : ReadAnswer(s)
      BY <1>1, <3>4, AnswerKeeps
    <3>5. CASE \/ \E s \in Sender : ChildReads(s) \/ WriteFails(s)
               \/ ReadGarbage \/ ReadEnds \/ ChildDies \/ Close \/ CloseKills \/ CloseReturns
      BY <1>1, <3>5, OthersKeep
    <3> QED
      BY <2>1, <3>1, <3>2, <3>3, <3>4, <3>5 DEF IpcNext
  <2>2. CASE UNCHANGED ipcVars
    <3>1. IpcTypeOK' /\ EntriesExact' /\ ReaderStands' /\ LinesOwned' /\ LinesMade'
      BY <1>1, <2>2 DEF ipcVars, IpcInv, IpcTypeOK, EntriesExact, ReaderStands, LinesOwned, Waits,
                        LinesMade, LinesFor, Namesake, Key
    <3> QED
      BY <3>1 DEF IpcInv
  <2> QED
    BY <1>1, <2>1, <2>2
<1> QED
  BY <1>1, InitIpc, PTL DEF IpcSpec

\* However late, often or wrongly the child answers, a call returns an error or the answer to a
\* line under its own id: its own answer, unless another call was made under that id
\* (SendRequest and runDemux; nothing keeps two requests from having one id).
THEOREM AnswersAreOwn == IpcSpec => []OwnAnswer
<1>1. ASSUME IpcInv PROVE OwnAnswer
  <2>1. SUFFICES ASSUME NEW s \in Sender, result[s] \in LinesFor(s), ~Namesake(s) PROVE result[s] = s
    BY <1>1 DEF IpcInv, LinesOwned, OwnAnswer
  <2>2. result[s] \in Sender /\ Key(result[s]) = Key(s) /\ caller[result[s]] # "idle"
    BY <1>1, <2>1 DEF LinesFor, IpcInv, IpcTypeOK, LinesMade
  <2> QED
    BY <2>1, <2>2 DEF Namesake
<1> QED
  BY <1>1, IpcInductive, PTL

\* No call is forgotten by the dispatcher, whatever ids the others have: while one waits, its
\* channel holds a line, or a running reader knows it, or another call was made under its id;
\* and none that has returned is left registered.
THEOREM CallsNotForgotten == IpcSpec => [](NobodyForgotten /\ NoEntryLeft)
<1>1. ASSUME IpcInv PROVE NobodyForgotten /\ NoEntryLeft
  <2>1. ASSUME NEW s \in Sender, Waits(s), inbox[s] = NoLine, ~Namesake(s)
        PROVE  Key(s) \in DOMAIN pending /\ pending[Key(s)] = s /\ reader = "running" /\ ~demuxErr
    <3>1. Key(s) \in DOMAIN pending /\ pending[Key(s)] = s
      BY <1>1, <2>1, EntryOwned DEF IpcInv, EntriesExact
    <3>2. ~demuxErr /\ reader # "exited"
      BY <1>1, <3>1 DEF IpcInv, ReaderStands
    <3>3. caller[Loader] # "idle"
      BY <1>1, <2>1 DEF IpcInv, ReaderStands, Waits, Sender
    <3>4. reader = "running"
      BY <1>1, <3>2, <3>3 DEF IpcInv, ReaderStands, IpcTypeOK
    <3> QED
      BY <3>1, <3>2, <3>4
  <2>2. NoEntryLeft
    BY <1>1 DEF IpcInv, EntriesExact, NoEntryLeft, Waits
  <2> QED
    BY <2>1, <2>2 DEF NobodyForgotten
<1> QED
  BY <1>1, IpcInductive, PTL

-----------------------------------------------------------------------------
(***************************************************************************)
(* CircuitBreaker.                                                         *)
(***************************************************************************)
\* The flag that refuses every other call stands only while the breaker is half-open and some
\* call is inside the upstream, whose return clears it.
ProbeFlagOwned == breaker.probing => breaker.state = "HALF_OPEN" /\ calling # {}

\* The inductive invariant.
BreakerInv ==
  /\ breaker \in [state : States, failures : Nat, successes : Nat, probing : BOOLEAN]
  /\ ProbeFlagOwned

\* The gate keeps the record and sets no flag.
LEMMA GateKeeps ==
  ASSUME BreakerInv
  PROVE  /\ BreakerGate \in [state : States, failures : Nat, successes : Nat, probing : BOOLEAN]
         /\ BreakerGate.probing => breaker.probing /\ BreakerGate.state = "HALF_OPEN"
BY DEF BreakerInv, ProbeFlagOwned, BreakerGate, States

\* The return of a call leaves no flag.
LEMMA ReturnClears ==
  ASSUME BreakerInv, NEW ok \in BOOLEAN
  PROVE  /\ AfterCall(ok) \in [state : States, failures : Nat, successes : Nat, probing : BOOLEAN]
         /\ AfterCall(ok).probing = FALSE
<1>1. breaker \in [state : States, failures : Nat, successes : Nat, probing : BOOLEAN]
      /\ (breaker.state # "HALF_OPEN" => breaker.probing = FALSE)
  BY DEF BreakerInv, ProbeFlagOwned
<1>2. FailureThreshold \in Nat /\ Capped(breaker.failures + 1, FailureThreshold) \in Nat
  BY <1>1, BreakerAssumption DEF Capped
<1>3. CASE breaker.state = "HALF_OPEN"
  <2>1. CASE ~ok
    <3>1. AfterCall(ok) = [breaker EXCEPT !.state = "OPEN", !.failures = Capped(@ + 1, FailureThreshold),
                                          !.successes = 0, !.probing = FALSE]
      BY <1>3, <2>1 DEF AfterCall
    <3>2. AfterCall(ok) = [state |-> "OPEN", failures |-> Capped(breaker.failures + 1, FailureThreshold),
                           successes |-> 0, probing |-> FALSE]
      BY <1>1, <3>1
    <3> QED
      BY <1>2, <3>2 DEF States
  <2>2. CASE ok /\ breaker.successes + 1 >= SuccessThreshold
    <3>1. AfterCall(ok) = [state |-> "CLOSED", failures |-> 0, successes |-> 0, probing |-> FALSE]
      BY <1>3, <2>2 DEF AfterCall
    <3> QED
      BY <3>1 DEF States
  <2>3. CASE ok /\ ~(breaker.successes + 1 >= SuccessThreshold)
    <3>1. AfterCall(ok) = [breaker EXCEPT !.successes = @ + 1, !.probing = FALSE]
      BY <1>3, <2>3 DEF AfterCall
    <3>2. AfterCall(ok) = [state |-> breaker.state, failures |-> breaker.failures,
                           successes |-> breaker.successes + 1, probing |-> FALSE]
      BY <1>1, <3>1
    <3> QED
      BY <1>1, <3>2
  <2> QED
    BY <2>1, <2>2, <2>3
<1>4. CASE breaker.state = "CLOSED"
  BY <1>1, <1>2, <1>4 DEF AfterCall, States
<1>5. CASE breaker.state = "OPEN"
  BY <1>1, <1>5 DEF AfterCall
<1> QED
  BY <1>1, <1>3, <1>4, <1>5 DEF States

\* Calls admitted in one state of the breaker and answered in another never leave the probe flag
\* behind: no state refuses every call with nobody in the upstream to change it but time.
THEOREM ProbeNotAbandoned == BreakerSpec => []ProbeFlagOwned
<1>1. BreakerInit => BreakerInv
  BY DEF BreakerInit, BreakerInv, ProbeFlagOwned, States
<1>2. ASSUME BreakerInv, [BreakerNext]_breakerVars PROVE BreakerInv'
  <2>1. ASSUME NEW c \in Callers, Execute(c) PROVE BreakerInv'
    <3>1. CASE BreakerGate.state = "HALF_OPEN"
      <4>1. breaker' = [BreakerGate EXCEPT !.probing = TRUE]
        BY <2>1, <3>1 DEF Execute
      <4>2. breaker'.state = "HALF_OPEN"
            /\ breaker' \in [state : States, failures : Nat, successes : Nat, probing : BOOLEAN]
        BY <1>2, <3>1, <4>1, GateKeeps
      <4>3. calling' # {}
        <5>1. CASE BreakerGate.probing
          BY <1>2, <2>1, <5>1, GateKeeps DEF Execute, BreakerInv, ProbeFlagOwned
        <5>2. CASE ~BreakerGate.probing
          BY <2>1, <3>1, <5>2 DEF Execute
        <5> QED
          BY <5>1, <5>2
      <4> QED
        BY <4>2, <4>3 DEF BreakerInv, ProbeFlagOwned
    <3>2. CASE BreakerGate.state # "HALF_OPEN"
      <4>1. breaker' = BreakerGate
        BY <2>1, <3>2 DEF Execute
      <4> QED
        BY <1>2, <3>2, <4>1, GateKeeps DEF BreakerInv, ProbeFlagOwned
    <3> QED
      BY <3>1, <3>2
  <2>2. ASSUME NEW c \in Callers, CallAnswered(c) PROVE BreakerInv'
    <3>1. PICK ok \in BOOLEAN : breaker' = AfterCall(ok)
      BY <2>2 DEF CallAnswered, CallReturns
    <3> QED
      BY <1>2, <3>1, ReturnClears DEF BreakerInv, ProbeFlagOwned
  <2>3. CASE Reset
    BY <2>3 DEF Reset, BreakerInv, ProbeFlagOwned, States
  <2>4. CASE BreakerTick \/ UpstreamRecovers \/ UNCHANGED breakerVars
    <3>1. breaker' = breaker /\ calling' = calling
      BY <2>4 DEF BreakerTick, UpstreamRecovers, breakerVars
    <3> QED
      BY <1>2, <3>1 DEF BreakerInv, ProbeFlagOwned
  <2> QED
    BY <1>2, <2>1, <2>2, <2>3, <2>4 DEF BreakerNext
<1>3. BreakerInv => ProbeFlagOwned
  BY DEF BreakerInv
<1> QED
  BY <1>1, <1>2, <1>3, PTL DEF BreakerSpec
=============================================================================
