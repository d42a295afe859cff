------------------------- MODULE DeliveryCacheProofs -------------------------
(***************************************************************************)
(* Proofs about DeliveryCache for any keys, revisions, callers, fetches,   *)
(* lifetimes and delays: nothing is delivered later than StalenessBound    *)
(* after it ended, though no observer is relied on, and concurrent misses  *)
(* of a key share one fetch.                                               *)
(***************************************************************************)
EXTENDS DeliveryCache, FiniteSetTheorems, TLAPS

CallIds == 1..MaxCalls

\* The fetches and the callers.
Early   == [pc : {"check", "read"}, key : Keys, ctx : BOOLEAN]
Fetched == [pc : {"put", "done"}, key : Keys, ctx : BOOLEAN, val : -1..MaxRevision, age : 0..MaxDelay]
Joining == [pc : {"join"}, key : Keys]
Waiting == [pc : {"wait"}, key : Keys, call : CallIds, leads : BOOLEAN]

StoreTypes ==
    /\ up \in [Keys -> 0..MaxRevision] /\ top \in [Keys -> 0..MaxRevision]
    /\ gone \in [Keys \X Revs -> NotGone..MaxAge]

CacheTypes == cache \in [Keys -> [rev : 0..MaxRevision, left : -1..TTL]]

CallTypes == calls \in [CallIds -> {NoCall} \cup Early \cup Fetched]

CallerTypes ==
    /\ callers \in [Callers -> {NoCaller} \cup Joining \cup Waiting]
    /\ slot \in [Keys -> 0..MaxCalls]

\* The record a key has, and the revisions still to come, have not ended.
UpFresh ==
    \A k \in Keys :
        /\ up[k] <= top[k]
        /\ \A r \in Revs : r > top[k] \/ r = up[k] => gone[<<k, r>>] = NotGone

\* An entry that can be hit ended no longer ago than it was under way and then cached.
CachedFresh ==
    \A k \in Keys : Hit(k) => gone[<<k, cache[k].rev>>] <= MaxDelay + TTL - cache[k].left

\* A record read upstream ended after it was read; one that a finished fetch holds was read
\* then or found in the cache.
FreshCall(x) ==
    /\ x.pc = "put" => x.val \in Revs /\ gone[<<x.key, x.val>>] <= x.age
    /\ x.pc = "done" /\ x.val \in Revs => gone[<<x.key, x.val>>] <= MaxDelay + TTL + x.age

CallsFresh == \A i \in CallIds : FreshCall(calls[i])

\* A caller waits for a fetch of its own key that has not been collected.
WaitsForIts ==
    \A c \in Callers :
        callers[c].pc = "wait" =>
            /\ calls[callers[c].call].pc # "unused"
            /\ calls[callers[c].call].key = callers[c].key

\* The slot of a key is the call of its only leader, or free.
SlotsLed ==
    \A k \in Keys :
        /\ slot[k] # 0 => \E c \in Callers : c \in Led(k)
        /\ \A c \in Callers : c \in Led(k) => slot[k] = callers[c].call
        /\ \A c, d \in Callers : c \in Led(k) /\ d \in Led(k) => c = d

\* The inductive invariant.
CInv ==
    /\ StoreTypes /\ CacheTypes /\ CallTypes /\ CallerTypes
    /\ UpFresh /\ CachedFresh /\ CallsFresh /\ WaitsForIts /\ SlotsLed /\ BoundedStaleness

-----------------------------------------------------------------------------
\* The bounds are natural numbers and every age is an integer.
LEMMA Numbers ==
    /\ MaxCard \in Nat /\ MaxRevision \in Nat /\ MaxCalls \in Nat /\ TTL \in Nat /\ MaxDelay \in Nat
    /\ MaxDelay > 0 /\ TTL > 0
    /\ StalenessBound = TTL + 2 * MaxDelay /\ MaxAge = StalenessBound + 1 /\ NotGone = -1
    /\ StalenessBound \in Nat /\ MaxAge \in Nat
BY CacheAssumption DEF StalenessBound, MaxAge, NotGone

\* The shapes of one call and one caller.
LEMMA Shapes ==
    ASSUME CallTypes, CallerTypes
    PROVE  /\ \A i \in CallIds :
                  /\ calls[i] \in {NoCall} \cup Early \cup Fetched
                  /\ calls[i].pc = "unused" => calls[i] = NoCall
                  /\ calls[i].pc \in {"check", "read"} => calls[i] \in Early
                  /\ calls[i].pc \in {"put", "done"} => calls[i] \in Fetched
                  /\ calls[i].pc # "unused" => calls[i].key \in Keys /\ calls[i].ctx \in BOOLEAN
           /\ \A c \in Callers :
                  /\ callers[c] \in {NoCaller} \cup Joining \cup Waiting
                  /\ callers[c].pc = "join" => callers[c] \in Joining
                  /\ callers[c].pc = "wait" => callers[c] \in Waiting
<1>1. \A i \in CallIds : calls[i] \in {NoCall} \cup Early \cup Fetched
  BY DEF CallTypes
<1>2. \A c \in Callers : callers[c] \in {NoCaller} \cup Joining \cup Waiting
  BY DEF CallerTypes
<1>3. \A x \in {NoCall} \cup Early \cup Fetched :
          /\ x.pc = "unused" => x = NoCall
          /\ x.pc \in {"check", "read"} => x \in Early
          /\ x.pc \in {"put", "done"} => x \in Fetched
          /\ x.pc # "unused" => x.key \in Keys /\ x.ctx \in BOOLEAN
  BY DEF NoCall, Early, Fetched
<1>4. \A x \in {NoCaller} \cup Joining \cup Waiting :
          /\ x.pc = "join" => x \in Joining
          /\ x.pc = "wait" => x \in Waiting
  BY DEF NoCaller, Joining, Waiting
<1> QED
  BY <1>1, <1>2, <1>3, <1>4

\* A step that returns nothing.
LEMMA QuietKeeps ==
    ASSUME Quiet
    PROVE  BoundedStaleness'
BY Numbers DEF Quiet, NoResult, BoundedStaleness

\* A step that leaves the calls and the callers alone.
LEMMA CallersSame ==
    ASSUME CInv, UNCHANGED callVars
    PROVE  CallTypes' /\ CallerTypes' /\ WaitsForIts' /\ SlotsLed'
BY DEF CInv, callVars, CallTypes, CallerTypes, WaitsForIts, SlotsLed, Led

\* Records end or begin, and no age grows: what is cached and under way stays as fresh.
LEMMA NoOlder ==
    ASSUME CInv, gone' \in [Keys \X Revs -> NotGone..MaxAge],
           \A k \in Keys, r \in Revs : gone'[<<k, r>>] = gone[<<k, r>>] \/ gone'[<<k, r>>] = 0,
           UNCHANGED <<cache, callVars>>
    PROVE  CachedFresh' /\ CallsFresh'
<1>1. ASSUME NEW k \in Keys, Hit(k)
      PROVE  gone'[<<k, cache[k].rev>>] <= MaxDelay + TTL - cache[k].left
  <2>1. cache[k].rev \in Revs /\ cache[k].left \in -1..TTL
    BY <1>1, Numbers DEF CInv, CacheTypes, Hit, Revs
  <2>2. gone[<<k, cache[k].rev>>] <= MaxDelay + TTL - cache[k].left
    BY <1>1 DEF CInv, CachedFresh
  <2> QED
    BY <2>1, <2>2, Numbers
<1>2. CachedFresh'
  BY <1>1 DEF CachedFresh, Hit
<1>3. ASSUME NEW i \in CallIds, calls[i].pc \in {"put", "done"}, calls[i].val \in Revs
      PROVE  /\ calls[i].pc = "put" => gone'[<<calls[i].key, calls[i].val>>] <= calls[i].age
             /\ calls[i].pc = "done" =>
                    gone'[<<calls[i].key, calls[i].val>>] <= MaxDelay + TTL + calls[i].age
  <2>1. calls[i] \in Fetched
    BY <1>3, Shapes DEF CInv
  <2>2. calls[i].key \in Keys /\ calls[i].age \in 0..MaxDelay
    BY <2>1 DEF Fetched
  <2>3. /\ calls[i].pc = "put" => gone[<<calls[i].key, calls[i].val>>] <= calls[i].age
        /\ calls[i].pc = "done" =>
               gone[<<calls[i].key, calls[i].val>>] <= MaxDelay + TTL + calls[i].age
    BY <1>3 DEF CInv, CallsFresh, FreshCall
  <2> QED
    BY <1>3, <2>2, <2>3, Numbers
<1>4. \A i \in CallIds : calls[i].pc = "put" => calls[i].val \in Revs
  BY DEF CInv, CallsFresh, FreshCall
<1>5. CallsFresh'
  BY <1>3, <1>4 DEF CallsFresh, FreshCall, callVars
<1> QED
  BY <1>2, <1>5

\* The change of some records.
LEMMA ChangeKeeps ==
    ASSUME CInv, NEW dead \in SUBSET Keys, NEW k \in Keys, NEW r \in 0..MaxRevision,
           Change(dead, k, r), top' \in [Keys -> 0..MaxRevision],
           \A q \in Keys : q # k => top'[q] = top[q],
           top'[k] >= top[k], r <= top'[k], r = 0 \/ r > top[k],
           Quiet, UNCHANGED <<cache, callVars>>
    PROVE  CInv'
<1>1. /\ up \in [Keys -> 0..MaxRevision] /\ top \in [Keys -> 0..MaxRevision]
      /\ gone \in [Keys \X Revs -> NotGone..MaxAge]
  BY DEF CInv, StoreTypes
<1>2. /\ up' = [q \in Keys |-> IF q = k THEN r ELSE IF q \in dead THEN 0 ELSE up[q]]
      /\ gone' = [x \in Keys \X Revs |->
             IF x[1] \in dead \cup {k} /\ up[x[1]] = x[2] THEN 0 ELSE gone[x]]
  BY DEF Change
<1>3. up' \in [Keys -> 0..MaxRevision]
  BY <1>1, <1>2, Numbers
<1>4. gone' \in [Keys \X Revs -> NotGone..MaxAge]
  BY <1>1, <1>2, Numbers
<1>5. \A q \in Keys, v \in Revs :
          gone'[<<q, v>>] = IF q \in dead \cup {k} /\ up[q] = v THEN 0 ELSE gone[<<q, v>>]
  BY <1>2
<1>6. StoreTypes'
  BY <1>3, <1>4 DEF StoreTypes
<1>7. ASSUME NEW q \in Keys
      PROVE  /\ up'[q] <= top'[q]
             /\ \A v \in Revs : v > top'[q] \/ v = up'[q] => gone'[<<q, v>>] = NotGone
  <2>1. /\ up[q] <= top[q] /\ up[q] \in 0..MaxRevision /\ top[q] \in 0..MaxRevision
        /\ \A v \in Revs : v > top[q] \/ v = up[q] => gone[<<q, v>>] = NotGone
    BY <1>1 DEF CInv, UpFresh
  <2>2. up'[q] = IF q = k THEN r ELSE IF q \in dead THEN 0 ELSE up[q]
    BY <1>2
  <2>3. CASE q = k
    <3>1. up'[q] <= top'[q]
      BY <2>2, <2>3
    <3>2. ASSUME NEW v \in Revs, v > top'[q] \/ v = up'[q] PROVE gone'[<<q, v>>] = NotGone
      <4>1. v > top[q] /\ v # up[q]
        BY <1>1, <2>1, <2>2, <2>3, <3>2, Numbers DEF Revs
      <4> QED
        BY <1>5, <2>1, <4>1
    <3> QED
      BY <3>1, <3>2
  <2>4. CASE q # k
    <3>1. up'[q] <= top'[q]
      BY <2>1, <2>2, <2>4
    <3>2. ASSUME NEW v \in Revs, v > top'[q] \/ v = up'[q] PROVE gone'[<<q, v>>] = NotGone
      <4>1. (v > top[q] \/ v = up[q]) /\ ~(q \in dead \cup {k} /\ up[q] = v)
        BY <1>1, <2>1, <2>2, <2>4, <3>2, Numbers DEF Revs
      <4> QED
        BY <1>5, <2>1, <4>1
    <3> QED
      BY <3>1, <3>2
  <2> QED
    BY <2>3, <2>4
<1>8. UpFresh'
  BY <1>7 DEF UpFresh
<1>9. CachedFresh' /\ CallsFresh'
  BY <1>4, <1>5, NoOlder
<1>10. CacheTypes'
  BY DEF CInv, CacheTypes
<1> QED
  BY <1>6, <1>8, <1>9, <1>10, QuietKeeps, CallersSame DEF CInv

\* A change of the store commits, or an observer is called.
LEMMA LifecycleStep ==
    ASSUME CInv, Lifecycle
    PROVE  CInv'
<1>1. top \in [Keys -> 0..MaxRevision] /\ up \in [Keys -> 0..MaxRevision]
  BY DEF CInv, StoreTypes
<1>2. ASSUME NEW k \in Jurisdictions, PromoteManifestWithObserver(k) PROVE CInv'
  <2>1. /\ k \in Keys /\ top[k] < MaxRevision /\ Change({}, k, top[k] + 1)
        /\ top' = [top EXCEPT ![k] = @ + 1] /\ Quiet /\ UNCHANGED <<cache, callVars>>
    BY <1>2 DEF PromoteManifestWithObserver, Keys
  <2>2. /\ top[k] + 1 \in 0..MaxRevision /\ top' \in [Keys -> 0..MaxRevision]
        /\ top'[k] = top[k] + 1 /\ \A q \in Keys : q # k => top'[q] = top[q]
    BY <1>1, <2>1, Numbers
  <2>3. top'[k] >= top[k] /\ top[k] + 1 <= top'[k] /\ top[k] + 1 > top[k]
    BY <1>1, <2>1, <2>2, Numbers
  <2> QED
    BY <2>1, <2>2, <2>3, ChangeKeeps
<1>3. ASSUME NEW k \in Cards, PromoteCardWithObserver(k) PROVE CInv'
  <2> DEFINE dead == {w \in Cards : w < k}
  <2>1. /\ k \in Keys /\ top[k] = 0 /\ Change(dead, k, 1)
        /\ top' = [top EXCEPT ![k] = 1] /\ Quiet /\ UNCHANGED <<cache, callVars>>
    BY <1>3 DEF PromoteCardWithObserver, Keys
  <2>2. dead \in SUBSET Keys
    BY DEF Keys
  <2>3. /\ 1 \in 0..MaxRevision /\ top' \in [Keys -> 0..MaxRevision]
        /\ top'[k] = 1 /\ \A q \in Keys : q # k => top'[q] = top[q]
    BY <1>1, <2>1, CacheAssumption
  <2> HIDE DEF dead
  <2> QED
    BY <2>1, <2>2, <2>3, ChangeKeeps
<1>4. ASSUME NEW k \in Keys, WithdrawAndInvalidate(k) \/ QuarantineAndInvalidate(k) PROVE CInv'
  <2>1. Change({}, k, 0) /\ UNCHANGED top /\ Quiet /\ UNCHANGED <<cache, callVars>>
    BY <1>4 DEF WithdrawAndInvalidate, QuarantineAndInvalidate
  <2>2. 0 \in 0..MaxRevision /\ top'[k] >= top[k] /\ 0 <= top'[k]
    BY <1>1, <2>1, Numbers
  <2> QED
    BY <1>1, <2>1, <2>2, ChangeKeeps
<1>5. ASSUME NEW n \in notices, Notify(n) PROVE CInv'
  <2>1. /\ cache' = [k \in Keys |-> IF k \in Dropped(n) THEN NoEntry ELSE cache[k]]
        /\ Quiet /\ UNCHANGED <<up, top, gone, callVars>>
    BY <1>5 DEF Notify
  <2>2. NoEntry \in [rev : 0..MaxRevision, left : -1..TTL] /\ NoEntry.rev = 0
    BY Numbers DEF NoEntry
  <2>3. CacheTypes'
    BY <2>1, <2>2 DEF CInv, CacheTypes
  <2>4. \A k \in Keys : cache'[k] = cache[k] \/ cache'[k] = NoEntry
    BY <2>1
  <2>5. CachedFresh'
    BY <2>1, <2>2, <2>4 DEF CInv, CachedFresh, Hit
  <2>6. StoreTypes' /\ UpFresh' /\ CallsFresh'
    BY <2>1 DEF CInv, StoreTypes, UpFresh, CallsFresh, FreshCall, callVars
  <2> QED
    BY <2>1, <2>3, <2>5, <2>6, QuietKeeps, CallersSame DEF CInv
<1> QED
  BY <1>2, <1>3, <1>4, <1>5 DEF Lifecycle

\* Collecting finished calls keeps every call that somebody waits for.
LEMMA CollectedKeeps ==
    ASSUME NEW T \in [CallIds -> {NoCall} \cup Early \cup Fetched], NEW W, NEW U,
           U = Collected(T, W)
    PROVE  /\ U \in [CallIds -> {NoCall} \cup Early \cup Fetched]
           /\ \A i \in CallIds : U[i] = T[i] \/ U[i] = NoCall
           /\ \A c \in Callers : W[c].pc = "wait" /\ W[c].call \in CallIds =>
                                     U[W[c].call] = T[W[c].call]
<1>1. U = [i \in CallIds |-> IF T[i].pc = "done" /\ Waiters(i, W) = {} THEN NoCall ELSE T[i]]
  BY DEF Collected, CallIds
<1>2. \A c \in Callers : W[c].pc = "wait" => c \in Waiters(W[c].call, W)
  BY DEF Waiters
<1> QED
  BY <1>1, <1>2

\* What a step that moves one call, and may collect others, has to show.
LEMMA CallWritten ==
    ASSUME CInv, NEW i \in CallIds, NEW x \in Early \cup Fetched, calls[i].pc # "unused",
           x.key = calls[i].key, FreshCall(x),
           \/ calls' = [calls EXCEPT ![i] = x]
           \/ calls' = Collected([calls EXCEPT ![i] = x], callers),
           UNCHANGED <<upVars, slot, callers>>
    PROVE  StoreTypes' /\ UpFresh' /\ CallTypes' /\ CallerTypes' /\ CallsFresh' /\ WaitsForIts'
           /\ SlotsLed'
<1> DEFINE T == [calls EXCEPT ![i] = x]
<1>1. /\ T \in [CallIds -> {NoCall} \cup Early \cup Fetched] /\ T[i] = x
      /\ \A j \in CallIds : j # i => T[j] = calls[j]
  BY DEF CInv, CallTypes
<1>2. calls' = T \/ calls' = Collected(T, callers)
  OBVIOUS
<1> HIDE DEF T
<1>3. \A c \in Callers : callers[c].pc = "wait" => callers[c].call \in CallIds
  BY Shapes DEF CInv, Waiting
<1>4. /\ calls' \in [CallIds -> {NoCall} \cup Early \cup Fetched]
      /\ \A j \in CallIds : calls'[j] = T[j] \/ calls'[j] = NoCall
      /\ \A c \in Callers : callers[c].pc = "wait" => calls'[callers[c].call] = T[callers[c].call]
  BY <1>1, <1>2, <1>3, CollectedKeeps
<1>5. UNCHANGED gone
  BY DEF upVars
<1>6. CallTypes'
  BY <1>4 DEF CallTypes
<1>7. \A j \in CallIds : FreshCall(T[j]) /\ FreshCall(NoCall)
  BY <1>1 DEF CInv, CallsFresh, FreshCall, NoCall
<1>8. CallsFresh'
  BY <1>4, <1>5, <1>7 DEF CallsFresh, FreshCall
<1>9. x.pc # "unused"
  BY DEF Early, Fetched
<1>10. WaitsForIts'
  BY <1>1, <1>3, <1>4, <1>9 DEF CInv, WaitsForIts
<1>11. StoreTypes' /\ UpFresh' /\ CallerTypes' /\ SlotsLed'
  BY DEF CInv, StoreTypes, UpFresh, CallerTypes, SlotsLed, Led, upVars
<1> QED
  BY <1>6, <1>8, <1>10, <1>11

\* A fetch ends with a value.
LEMMA DoneKeeps ==
    ASSUME CInv, NEW i \in CallIds, NEW val \in -1..MaxRevision, calls[i].pc # "unused", Done(i, val),
           val \in Revs => gone[<<calls[i].key, val>>] <= MaxDelay + TTL,
           Quiet, UNCHANGED <<upVars, cache, slot, callers>>
    PROVE  CInv'
<1> DEFINE x == [pc |-> "done", key |-> calls[i].key, ctx |-> calls[i].ctx, val |-> val, age |-> 0]
<1>1. calls' = Collected([calls EXCEPT ![i] = x], callers)
  BY DEF Done, CInv, CallTypes
<1>2. calls[i].key \in Keys /\ calls[i].ctx \in BOOLEAN
  BY Shapes DEF CInv
<1>3. /\ x \in Fetched /\ x.key = calls[i].key /\ x.pc = "done" /\ x.val = val /\ x.age = 0
  BY <1>2, Numbers DEF Fetched
<1> HIDE DEF x
<1>4. FreshCall(x)
  <2>1. ASSUME val \in Revs PROVE gone[<<calls[i].key, val>>] <= MaxDelay + TTL + 0
    <3>1. gone[<<calls[i].key, val>>] \in NotGone..MaxAge
      BY <1>2, <2>1 DEF CInv, StoreTypes
    <3> QED
      BY <2>1, <3>1, Numbers
  <2> QED
    BY <1>3, <2>1 DEF FreshCall
<1>5. StoreTypes' /\ UpFresh' /\ CallTypes' /\ CallerTypes' /\ CallsFresh' /\ WaitsForIts' /\ SlotsLed'
  BY <1>1, <1>3, <1>4, CallWritten
<1>6. CacheTypes' /\ CachedFresh'
  BY DEF CInv, CacheTypes, CachedFresh, Hit, upVars
<1> QED
  BY <1>5, <1>6, QuietKeeps DEF CInv

\* A hit is fresh enough to be handed on.
LEMMA HitFresh ==
    ASSUME CInv, NEW k \in Keys, Hit(k)
    PROVE  cache[k].rev \in Revs /\ gone[<<k, cache[k].rev>>] <= MaxDelay + TTL
<1>1. cache[k].rev \in Revs /\ cache[k].left \in 0..TTL
  BY Numbers DEF CInv, CacheTypes, Hit, Revs
<1>2. gone[<<k, cache[k].rev>>] <= MaxDelay + TTL - cache[k].left
  BY DEF CInv, CachedFresh
<1>3. gone[<<k, cache[k].rev>>] \in NotGone..MaxAge
  BY <1>1 DEF CInv, StoreTypes
<1> QED
  BY <1>1, <1>2, <1>3, Numbers

\* The fetch looks at the cache again.
LEMMA FetchCheckStep ==
    ASSUME CInv, NEW i \in CallIds, FetchCheck(i)
    PROVE  CInv'
<1>1. /\ calls[i].pc = "check" /\ Quiet /\ UNCHANGED <<upVars, cache, slot, callers>>
      /\ \/ Hit(calls[i].key) /\ Done(i, cache[calls[i].key].rev)
         \/ calls' = [calls EXCEPT ![i] = [calls[i] EXCEPT !.pc = "read"]]
  BY DEF FetchCheck
<1>2. calls[i] \in Early /\ calls[i].key \in Keys
  BY <1>1, Shapes DEF CInv
<1>3. CASE Hit(calls[i].key) /\ Done(i, cache[calls[i].key].rev)
  <2>1. /\ cache[calls[i].key].rev \in Revs
        /\ gone[<<calls[i].key, cache[calls[i].key].rev>>] <= MaxDelay + TTL
    BY <1>2, <1>3, HitFresh
  <2>2. cache[calls[i].key].rev \in -1..MaxRevision
    BY <2>1, Numbers DEF Revs
  <2> QED
    BY <1>1, <1>3, <2>1, <2>2, DoneKeeps
<1>4. CASE calls' = [calls EXCEPT ![i] = [calls[i] EXCEPT !.pc = "read"]]
  <2> DEFINE x == [calls[i] EXCEPT !.pc = "read"]
  <2>1. x \in Early /\ x.key = calls[i].key /\ x.pc = "read" /\ calls' = [calls EXCEPT ![i] = x]
    BY <1>2, <1>4 DEF Early
  <2> HIDE DEF x
  <2>2. FreshCall(x)
    BY <2>1 DEF FreshCall
  <2>3. StoreTypes' /\ UpFresh' /\ CallTypes' /\ CallerTypes' /\ CallsFresh' /\ WaitsForIts' /\ SlotsLed'
    BY <1>1, <2>1, <2>2, CallWritten
  <2>4. CacheTypes' /\ CachedFresh'
    BY <1>1 DEF CInv, CacheTypes, CachedFresh, Hit, upVars
  <2> QED
    BY <1>1, <2>3, <2>4, QuietKeeps DEF CInv
<1> QED
  BY <1>1, <1>3, <1>4

\* The fetch reads the source, finds nothing, or finds its context cancelled.
LEMMA FetchReadStep ==
    ASSUME CInv, NEW i \in CallIds, FetchRead(i)
    PROVE  CInv'
<1> DEFINE k == calls[i].key
           x == [pc |-> "put", key |-> k, ctx |-> calls[i].ctx, val |-> up[k], age |-> 0]
<1>1. /\ calls[i].pc = "read" /\ Quiet /\ UNCHANGED <<upVars, cache, slot, callers>>
      /\ \/ Done(i, Cancelled)
         \/ Done(i, 0)
         \/ up[k] # 0 /\ calls' = [calls EXCEPT ![i] = x]
  BY DEF FetchRead, CInv, CallTypes
<1>2. k \in Keys /\ calls[i].ctx \in BOOLEAN
  BY <1>1, Shapes DEF CInv
<1>3. CASE Done(i, Cancelled) \/ Done(i, 0)
  <2>1. -1 \in -1..MaxRevision /\ -1 \notin Revs /\ 0 \in -1..MaxRevision /\ 0 \notin Revs
    BY Numbers DEF Revs
  <2> QED
    BY <1>1, <1>3, <2>1, DoneKeeps DEF Cancelled
<1>4. CASE up[k] # 0 /\ calls' = [calls EXCEPT ![i] = x]
  <2>1. up[k] \in Revs /\ gone[<<k, up[k]>>] = NotGone
    BY <1>2, <1>4, Numbers DEF CInv, StoreTypes, UpFresh, Revs
  <2>2. x \in Fetched /\ x.key = k /\ x.pc = "put" /\ x.val = up[k] /\ x.age = 0
    BY <1>2, <2>1, Numbers DEF Fetched, Revs
  <2> HIDE DEF x
  <2>3. FreshCall(x)
    BY <2>1, <2>2, Numbers DEF FreshCall
  <2>4. StoreTypes' /\ UpFresh' /\ CallTypes' /\ CallerTypes' /\ CallsFresh' /\ WaitsForIts' /\ SlotsLed'
    BY <1>1, <1>4, <2>2, <2>3, CallWritten
  <2>5. CacheTypes' /\ CachedFresh'
    BY <1>1 DEF CInv, CacheTypes, CachedFresh, Hit, upVars
  <2> QED
    BY <1>1, <2>4, <2>5, QuietKeeps DEF CInv
<1> QED
  BY <1>1, <1>3, <1>4

\* The fetch puts what it read into the cache.
LEMMA FetchPutStep ==
    ASSUME CInv, NEW i \in CallIds, FetchPut(i)
    PROVE  CInv'
<1> DEFINE k == calls[i].key
           x == [calls[i] EXCEPT !.pc = "done"]
           e == [rev |-> calls[i].val, left |-> TTL]
<1>1. /\ calls[i].pc = "put" /\ Quiet /\ UNCHANGED <<upVars, slot, callers>>
      /\ calls' = Collected([calls EXCEPT ![i] = x], callers)
  BY DEF FetchPut
<1>2. PICK evicted \in SUBSET (Keys \ {k}) :
          cache' = [q \in Keys |-> IF q = k THEN e ELSE IF q \in evicted THEN NoEntry ELSE cache[q]]
  BY DEF FetchPut
<1>3. calls[i] \in Fetched
  BY <1>1, Shapes DEF CInv
<1>4. /\ k \in Keys /\ calls[i].val \in Revs /\ calls[i].age \in 0..MaxDelay
      /\ gone[<<k, calls[i].val>>] <= calls[i].age
  BY <1>1, <1>3 DEF Fetched, CInv, CallsFresh, FreshCall
<1>5. gone[<<k, calls[i].val>>] \in NotGone..MaxAge
  BY <1>4 DEF CInv, StoreTypes
<1>6. /\ x \in Fetched /\ x.key = k /\ x.pc = "done" /\ x.val = calls[i].val /\ x.age = calls[i].age
  BY <1>3 DEF Fetched
<1>7. /\ e \in [rev : 0..MaxRevision, left : -1..TTL] /\ e.rev = calls[i].val /\ e.left = TTL
  BY <1>4, Numbers DEF Revs
<1>8. NoEntry \in [rev : 0..MaxRevision, left : -1..TTL] /\ NoEntry.rev = 0
  BY Numbers DEF NoEntry
<1> HIDE DEF x, e
<1>9. FreshCall(x)
  BY <1>4, <1>5, <1>6, Numbers DEF FreshCall
<1>10. StoreTypes' /\ UpFresh' /\ CallTypes' /\ CallerTypes' /\ CallsFresh' /\ WaitsForIts' /\ SlotsLed'
  BY <1>1, <1>3, <1>6, <1>9, CallWritten
<1>11. CacheTypes'
  BY <1>2, <1>7, <1>8 DEF CInv, CacheTypes
<1>12. UNCHANGED gone
  BY <1>1 DEF upVars
<1>13. ASSUME NEW q \in Keys, cache'[q].rev # 0, cache'[q].left >= 0
       PROVE  gone[<<q, cache'[q].rev>>] <= MaxDelay + TTL - cache'[q].left
  <2>1. cache'[q] = IF q = k THEN e ELSE IF q \in evicted THEN NoEntry ELSE cache[q]
    BY <1>2
  <2>2. CASE q = k
    BY <1>4, <1>5, <1>7, <2>1, <2>2, Numbers
  <2>3. CASE q # k
    BY <1>8, <1>13, <2>1, <2>3 DEF CInv, CachedFresh, Hit
  <2> QED
    BY <2>2, <2>3
<1>14. CachedFresh'
  BY <1>12, <1>13 DEF CachedFresh, Hit
<1> QED
  BY <1>1, <1>10, <1>11, <1>14, QuietKeeps DEF CInv

\* What a step that neither starts nor ends a wait of its caller has to show.
LEMMA CallerIdles ==
    ASSUME CInv, NEW c \in Callers, NEW y \in {NoCaller} \cup Joining, callers[c].pc # "wait",
           callers' = [callers EXCEPT ![c] = y], UNCHANGED <<upVars, cache, calls, slot>>,
           BoundedStaleness'
    PROVE  CInv'
<1>1. /\ callers' \in [Callers -> {NoCaller} \cup Joining \cup Waiting] /\ callers'[c] = y
      /\ \A d \in Callers : d # c => callers'[d] = callers[d]
  BY DEF CInv, CallerTypes
<1>2. y.pc # "wait"
  BY DEF NoCaller, Joining
<1>3. CallerTypes'
  BY <1>1 DEF CInv, CallerTypes
<1>4. WaitsForIts'
  BY <1>1, <1>2 DEF CInv, WaitsForIts
<1>5. \A k \in Keys : Led(k)' = Led(k)
  BY <1>1, <1>2 DEF Led
<1>6. \A k \in Keys, d \in Callers : d \in Led(k) => callers'[d] = callers[d]
  BY <1>1 DEF Led
<1>7. SlotsLed'
  BY <1>5, <1>6 DEF CInv, SlotsLed
<1>8. StoreTypes' /\ CacheTypes' /\ CallTypes' /\ UpFresh' /\ CachedFresh' /\ CallsFresh'
  BY DEF CInv, StoreTypes, CacheTypes, CallTypes, UpFresh, CachedFresh, Hit, CallsFresh,
         FreshCall, upVars
<1> QED
  BY <1>3, <1>4, <1>7, <1>8 DEF CInv

\* What is handed to a caller ended no longer ago than the bound allows.
LEMMA ReturnKeeps ==
    ASSUME CInv, NEW c \in Callers, NEW k \in Keys, NEW rev \in -1..MaxRevision, Return(c, k, rev),
           rev \in Revs => gone[<<k, rev>>] <= StalenessBound
    PROVE  BoundedStaleness'
<1>1. last' = [rev |-> rev, age |-> IF rev > 0 THEN gone[<<k, rev>>] ELSE NotGone]
  BY DEF Return
<1>2. rev > 0 => rev \in Revs
  BY Numbers DEF Revs
<1> QED
  BY <1>1, <1>2, Numbers DEF BoundedStaleness

\* A download looks at the cache.
LEMMA LookupStep ==
    ASSUME CInv, NEW c \in Callers, NEW k \in Keys, Lookup(c, k)
    PROVE  CInv'
<1>1. /\ callers[c] = NoCaller /\ UNCHANGED <<upVars, cache, calls, slot>>
      /\ \/ Hit(k) /\ Return(c, k, cache[k].rev)
         \/ callers' = [callers EXCEPT ![c] = [pc |-> "join", key |-> k]] /\ Quiet
  BY DEF Lookup
<1>2. callers[c].pc # "wait"
  BY <1>1 DEF NoCaller
<1>3. CASE Hit(k) /\ Return(c, k, cache[k].rev)
  <2>1. cache[k].rev \in Revs /\ gone[<<k, cache[k].rev>>] <= MaxDelay + TTL
    BY <1>3, HitFresh
  <2>2. cache[k].rev \in -1..MaxRevision /\ gone[<<k, cache[k].rev>>] \in NotGone..MaxAge
    BY <2>1, Numbers DEF Revs, CInv, StoreTypes
  <2>3. gone[<<k, cache[k].rev>>] <= StalenessBound
    BY <2>1, <2>2, Numbers
  <2>4. BoundedStaleness'
    BY <1>3, <2>2, <2>3, ReturnKeeps
  <2>5. callers' = [callers EXCEPT ![c] = NoCaller]
    BY <1>3 DEF Return
  <2> QED
    BY <1>1, <1>2, <2>4, <2>5, CallerIdles
<1>4. CASE callers' = [callers EXCEPT ![c] = [pc |-> "join", key |-> k]] /\ Quiet
  <2> DEFINE y == [pc |-> "join", key |-> k]
  <2>1. y \in Joining
    BY DEF Joining
  <2> HIDE DEF y
  <2>2. callers' = [callers EXCEPT ![c] = y]
    BY <1>4 DEF y
  <2> QED
    BY <1>1, <1>2, <1>4, <2>1, <2>2, QuietKeeps, CallerIdles
<1> QED
  BY <1>1, <1>3, <1>4

\* A miss attaches to the call of its key, or starts one and leads it.
LEMMA JoinStep ==
    ASSUME CInv, NEW c \in Callers, Join(c)
    PROVE  CInv'
<1> DEFINE k == callers[c].key
<1>1. callers[c].pc = "join" /\ Quiet /\ UNCHANGED <<upVars, cache>>
  BY DEF Join
<1>2. /\ k \in Keys /\ callers \in [Callers -> {NoCaller} \cup Joining \cup Waiting]
      /\ slot \in [Keys -> 0..MaxCalls] /\ calls \in [CallIds -> {NoCall} \cup Early \cup Fetched]
  BY <1>1, Shapes DEF CInv, Joining, CallerTypes, CallTypes
<1>3. StoreTypes' /\ CacheTypes' /\ UpFresh' /\ CachedFresh'
  BY <1>1 DEF CInv, StoreTypes, CacheTypes, UpFresh, CachedFresh, Hit, upVars
<1>4. ASSUME NEW q \in Keys, slot[q] # 0
      PROVE  slot[q] \in CallIds /\ calls[slot[q]].pc # "unused" /\ calls[slot[q]].key = q
  <2>1. PICK d \in Callers : d \in Led(q)
    BY <1>4 DEF CInv, SlotsLed
  <2>2. callers[d].pc = "wait" /\ callers[d].key = q /\ slot[q] = callers[d].call
    BY <2>1 DEF CInv, SlotsLed, Led
  <2>3. callers[d].call \in CallIds
    BY <2>2, Shapes DEF CInv, Waiting
  <2> QED
    BY <2>2, <2>3 DEF CInv, WaitsForIts
<1>5. CASE /\ slot[k] # 0 /\ UNCHANGED <<calls, slot>>
           /\ callers' = [callers EXCEPT ![c] =
                  [pc |-> "wait", key |-> k, call |-> slot[k], leads |-> FALSE]]
  <2> DEFINE y == [pc |-> "wait", key |-> k, call |-> slot[k], leads |-> FALSE]
  <2>1. /\ y \in Waiting /\ y.pc = "wait" /\ y.key = k /\ y.call = slot[k] /\ y.leads = FALSE
    BY <1>2, <1>4, <1>5 DEF Waiting
  <2>2. callers' = [callers EXCEPT ![c] = y]
    BY <1>5
  <2> HIDE DEF y
  <2>3. /\ callers' \in [Callers -> {NoCaller} \cup Joining \cup Waiting] /\ callers'[c] = y
        /\ \A d \in Callers : d # c => callers'[d] = callers[d]
    BY <1>2, <2>1, <2>2
  <2>4. CallerTypes' /\ CallTypes' /\ CallsFresh'
    BY <1>1, <1>5, <2>3 DEF CInv, CallerTypes, CallTypes, CallsFresh, FreshCall, upVars
  <2>5. WaitsForIts'
    BY <1>2, <1>4, <1>5, <2>1, <2>3 DEF CInv, WaitsForIts
  <2>6. \A q \in Keys : Led(q)' = Led(q)
    BY <1>1, <2>1, <2>3 DEF Led
  <2>7. \A q \in Keys, d \in Callers : d \in Led(q) => callers'[d] = callers[d]
    BY <1>1, <2>3 DEF Led
  <2>8. SlotsLed'
    BY <1>5, <2>6, <2>7 DEF CInv, SlotsLed
  <2> QED
    BY <1>1, <1>3, <2>4, <2>5, <2>8, QuietKeeps DEF CInv
<1>6. ASSUME NEW i \in Unused, slot[k] = 0,
             calls' = [calls EXCEPT ![i] = [pc |-> "check", key |-> k, ctx |-> TRUE]],
             slot' = [slot EXCEPT ![k] = i],
             callers' = [callers EXCEPT ![c] =
                 [pc |-> "wait", key |-> k, call |-> i, leads |-> TRUE]]
      PROVE  CInv'
  <2> DEFINE y == [pc |-> "wait", key |-> k, call |-> i, leads |-> TRUE]
             x == [pc |-> "check", key |-> k, ctx |-> TRUE]
  <2>1. i \in CallIds /\ calls[i].pc = "unused" /\ i # 0 /\ i \in 0..MaxCalls
    BY <1>6, Numbers DEF Unused, CallIds
  <2>2. /\ y \in Waiting /\ y.pc = "wait" /\ y.key = k /\ y.call = i /\ y.leads = TRUE
        /\ x \in Early /\ x.pc = "check" /\ x.key = k
    BY <1>2, <2>1 DEF Waiting, Early
  <2>3. callers' = [callers EXCEPT ![c] = y] /\ calls' = [calls EXCEPT ![i] = x]
    BY <1>6
  <2> HIDE DEF x, y
  <2>4. /\ callers' \in [Callers -> {NoCaller} \cup Joining \cup Waiting] /\ callers'[c] = y
        /\ \A d \in Callers : d # c => callers'[d] = callers[d]
    BY <1>2, <2>2, <2>3
  <2>5. /\ calls' \in [CallIds -> {NoCall} \cup Early \cup Fetched] /\ calls'[i] = x
        /\ \A j \in CallIds : j # i => calls'[j] = calls[j]
    BY <1>2, <2>1, <2>2, <2>3
  <2>6. /\ slot' \in [Keys -> 0..MaxCalls] /\ slot'[k] = i
        /\ \A q \in Keys : q # k => slot'[q] = slot[q]
    BY <1>2, <1>6, <2>1
  <2>7. CallerTypes' /\ CallTypes'
    BY <2>4, <2>5, <2>6 DEF CallerTypes, CallTypes
  <2>8. CallsFresh'
    BY <1>1, <2>2, <2>5 DEF CInv, CallsFresh, FreshCall, upVars
  <2>9. WaitsForIts'
    <3>1. ASSUME NEW d \in Callers, callers'[d].pc = "wait"
          PROVE  /\ calls'[callers'[d].call].pc # "unused"
                 /\ calls'[callers'[d].call].key = callers'[d].key
      <4>1. CASE d = c
        BY <2>2, <2>4, <2>5, <4>1
      <4>2. CASE d # c
        <5>1. callers'[d] = callers[d] /\ callers[d].pc = "wait"
          BY <2>4, <3>1, <4>2
        <5>2. callers[d].call \in CallIds
          BY <5>1, Shapes DEF CInv, Waiting
        <5>3. /\ calls[callers[d].call].pc # "unused"
              /\ calls[callers[d].call].key = callers[d].key
          BY <5>1 DEF CInv, WaitsForIts
        <5> QED
          BY <2>1, <2>5, <5>1, <5>2, <5>3
      <4> QED
        BY <4>1, <4>2
    <3> QED
      BY <3>1 DEF WaitsForIts
  <2>10. \A d \in Callers : d \notin Led(k)
    <3>1. ASSUME NEW d \in Callers, d \in Led(k) PROVE FALSE
      <4>1. callers[d].pc = "wait" /\ callers[d].call = 0
        BY <1>2, <1>6, <3>1 DEF CInv, SlotsLed, Led
      <4>2. callers[d].call \in CallIds
        BY <4>1, Shapes DEF CInv, Waiting
      <4> QED
        BY <4>1, <4>2, Numbers DEF CallIds
    <3> QED
      BY <3>1
  <2>11. \A d \in Callers : d \in Led(k)' <=> d = c
    BY <2>2, <2>4, <2>10 DEF Led
  <2>12. \A q \in Keys, d \in Callers : q # k => (d \in Led(q)' <=> d \in Led(q))
    BY <1>1, <2>2, <2>4 DEF Led
  <2>13. SlotsLed'
    <3>1. ASSUME NEW q \in Keys
          PROVE  /\ slot'[q] # 0 => \E d \in Callers : d \in Led(q)'
                 /\ \A d \in Callers : d \in Led(q)' => slot'[q] = callers'[d].call
                 /\ \A d, f \in Callers : d \in Led(q)' /\ f \in Led(q)' => d = f
      <4>1. CASE q = k
        BY <2>2, <2>4, <2>6, <2>11, <4>1
      <4>2. CASE q # k
        <5>1. \A d \in Callers : d \in Led(q) => callers'[d] = callers[d]
          BY <1>1, <2>4 DEF Led
        <5> QED
          BY <2>6, <2>12, <4>2, <5>1 DEF CInv, SlotsLed
      <4> QED
        BY <4>1, <4>2
    <3> QED
      BY <3>1 DEF SlotsLed
  <2> QED
    BY <1>1, <1>3, <2>7, <2>8, <2>9, <2>13, QuietKeeps DEF CInv
<1> QED
  BY <1>5, <1>6 DEF Join

\* A caller leaves its call: what finished and is awaited by nobody is collected, and a
\* leader frees the slot.
LEMMA Leave ==
    ASSUME CInv, NEW c \in Callers, callers[c].pc = "wait",
           callers' = [callers EXCEPT ![c] = NoCaller], Free(c),
           NEW T \in [CallIds -> {NoCall} \cup Early \cup Fetched],
           \A i \in CallIds : T[i].pc = calls[i].pc,
           \A i \in CallIds : calls[i].pc # "unused" => T[i].key = calls[i].key,
           \A i \in CallIds : FreshCall(T[i]),
           calls' = Collected(T, callers'), UNCHANGED <<upVars, cache>>, BoundedStaleness'
    PROVE  CInv'
<1>1. /\ callers \in [Callers -> {NoCaller} \cup Joining \cup Waiting]
      /\ slot \in [Keys -> 0..MaxCalls]
  BY DEF CInv, CallerTypes
<1>2. /\ callers' \in [Callers -> {NoCaller} \cup Joining \cup Waiting] /\ callers'[c] = NoCaller
      /\ \A d \in Callers : d # c => callers'[d] = callers[d]
  BY <1>1
<1>3. NoCaller.pc = "idle"
  BY DEF NoCaller
<1>4. callers[c].key \in Keys /\ callers[c].leads \in BOOLEAN
  BY Shapes DEF CInv, Waiting
<1>5. /\ slot' \in [Keys -> 0..MaxCalls]
      /\ callers[c].leads => slot'[callers[c].key] = 0
      /\ \A q \in Keys : q # callers[c].key \/ ~callers[c].leads => slot'[q] = slot[q]
  BY <1>1, <1>4, Numbers DEF Free
<1>6. \A d \in Callers : callers'[d].pc = "wait" => callers'[d].call \in CallIds /\ d # c
  BY <1>2, <1>3, Shapes DEF CInv, Waiting
<1>7. /\ calls' \in [CallIds -> {NoCall} \cup Early \cup Fetched]
      /\ \A i \in CallIds : calls'[i] = T[i] \/ calls'[i] = NoCall
      /\ \A d \in Callers : callers'[d].pc = "wait" => calls'[callers'[d].call] = T[callers'[d].call]
  <2>1. PICK W, U : W = callers' /\ U = calls'
    OBVIOUS
  <2>2. U = Collected(T, W)
    BY <2>1
  <2>3. /\ U \in [CallIds -> {NoCall} \cup Early \cup Fetched]
        /\ \A i \in CallIds : U[i] = T[i] \/ U[i] = NoCall
        /\ \A d \in Callers : W[d].pc = "wait" /\ W[d].call \in CallIds =>
                                  U[W[d].call] = T[W[d].call]
    BY <2>2, CollectedKeeps
  <2> QED
    BY <1>6, <2>1, <2>3
<1>8. CallerTypes' /\ CallTypes'
  BY <1>2, <1>5, <1>7 DEF CallerTypes, CallTypes
<1>9. FreshCall(NoCall) /\ UNCHANGED gone
  BY DEF FreshCall, NoCall, upVars
<1>10. CallsFresh'
  BY <1>7, <1>9 DEF CallsFresh, FreshCall
<1>11. WaitsForIts'
  <2>1. ASSUME NEW d \in Callers, callers'[d].pc = "wait"
        PROVE  /\ calls'[callers'[d].call].pc # "unused"
               /\ calls'[callers'[d].call].key = callers'[d].key
    <3>1. callers'[d] = callers[d] /\ callers[d].call \in CallIds
      BY <1>2, <1>6, <2>1
    <3>2. /\ calls[callers[d].call].pc # "unused"
          /\ calls[callers[d].call].key = callers[d].key
      BY <2>1, <3>1 DEF CInv, WaitsForIts
    <3>3. calls'[callers[d].call] = T[callers[d].call]
      BY <1>7, <2>1, <3>1
    <3> QED
      BY <3>1, <3>2, <3>3
  <2> QED
    BY <2>1 DEF WaitsForIts
<1>12. \A q \in Keys, d \in Callers : d \in Led(q)' <=> d \in Led(q) /\ d # c
  BY <1>2, <1>3 DEF Led
<1>13. SlotsLed'
  <2>1. ASSUME NEW q \in Keys
        PROVE  /\ slot'[q] # 0 => \E d \in Callers : d \in Led(q)'
               /\ \A d \in Callers : d \in Led(q)' => slot'[q] = callers'[d].call
               /\ \A d, f \in Callers : d \in Led(q)' /\ f \in Led(q)' => d = f
    <3>1. CASE c \in Led(q)
      <4>1. q = callers[c].key /\ callers[c].leads
        BY <3>1 DEF Led
      <4>2. \A d \in Callers : d \notin Led(q)'
        BY <1>12, <3>1 DEF CInv, SlotsLed
      <4> QED
        BY <1>5, <4>1, <4>2
    <3>2. CASE c \notin Led(q)
      <4>1. q # callers[c].key \/ ~callers[c].leads
        BY <3>2 DEF Led
      <4>2. slot'[q] = slot[q]
        BY <1>5, <4>1
      <4>3. \A d \in Callers : d \in Led(q)' <=> d \in Led(q)
        BY <1>12, <3>2
      <4>4. \A d \in Callers : d \in Led(q) => callers'[d] = callers[d]
        BY <1>2, <3>2
      <4> QED
        BY <4>2, <4>3, <4>4 DEF CInv, SlotsLed
    <3> QED
      BY <3>1, <3>2
  <2> QED
    BY <2>1 DEF SlotsLed
<1>14. StoreTypes' /\ CacheTypes' /\ UpFresh' /\ CachedFresh'
  BY DEF CInv, StoreTypes, CacheTypes, UpFresh, CachedFresh, Hit, upVars
<1> QED
  BY <1>8, <1>10, <1>11, <1>13, <1>14 DEF CInv

\* A finished fetch wakes a caller.
LEMMA DeliverStep ==
    ASSUME CInv, NEW c \in Callers, Deliver(c)
    PROVE  CInv'
<1>1. /\ callers[c].pc = "wait" /\ calls[callers[c].call].pc = "done"
      /\ Return(c, callers[c].key, calls[callers[c].call].val)
      /\ Free(c) /\ calls' = Collected(calls, callers') /\ UNCHANGED <<upVars, cache>>
  BY DEF Deliver
<1>2. PICK k, i, rev : k = callers[c].key /\ i = callers[c].call /\ rev = calls[i].val
  OBVIOUS
<1>3. k \in Keys /\ i \in CallIds
  BY <1>1, <1>2, Shapes DEF CInv, Waiting
<1>4. calls[i] \in Fetched
  BY <1>1, <1>2, <1>3, Shapes DEF CInv
<1>5. rev \in -1..MaxRevision /\ calls[i].age \in 0..MaxDelay /\ calls[i].key = k
  BY <1>1, <1>2, <1>4 DEF Fetched, CInv, WaitsForIts
<1>6. ASSUME rev \in Revs PROVE gone[<<k, rev>>] <= StalenessBound
  <2>1. gone[<<k, rev>>] <= MaxDelay + TTL + calls[i].age
    BY <1>1, <1>2, <1>3, <1>5, <1>6 DEF CInv, CallsFresh, FreshCall
  <2>2. gone[<<k, rev>>] \in NotGone..MaxAge
    BY <1>3, <1>6 DEF CInv, StoreTypes
  <2> QED
    BY <1>5, <2>1, <2>2, Numbers
<1>7. Return(c, k, rev)
  BY <1>1, <1>2
<1>8. BoundedStaleness'
  BY <1>3, <1>5, <1>6, <1>7, ReturnKeeps
<1>9. callers' = [callers EXCEPT ![c] = NoCaller]
  BY <1>7 DEF Return
<1>10. /\ calls \in [CallIds -> {NoCall} \cup Early \cup Fetched]
       /\ \A j \in CallIds : FreshCall(calls[j])
  BY DEF CInv, CallTypes, CallsFresh
<1> QED
  BY <1>1, <1>8, <1>9, <1>10, Leave

\* A caller gives up; a fetch it leads loses its context.
LEMMA CancelStep ==
    ASSUME CInv, NEW c \in Callers, Cancel(c)
    PROVE  CInv'
<1> DEFINE i == callers[c].call
           x == [calls[i] EXCEPT !.ctx = FALSE]
<1>1. /\ callers[c].pc = "wait" /\ Return(c, callers[c].key, Cancelled)
      /\ Free(c) /\ UNCHANGED <<upVars, cache>>
      /\ calls' = Collected(IF callers[c].leads THEN [calls EXCEPT ![i] = x] ELSE calls, callers')
  BY DEF Cancel
<1>2. callers[c].key \in Keys /\ i \in CallIds
  BY <1>1, Shapes DEF CInv, Waiting
<1>3. BoundedStaleness' /\ callers' = [callers EXCEPT ![c] = NoCaller]
  BY <1>1, Numbers DEF Return, Cancelled, BoundedStaleness
<1>4. /\ calls \in [CallIds -> {NoCall} \cup Early \cup Fetched]
      /\ \A j \in CallIds : FreshCall(calls[j])
  BY DEF CInv, CallTypes, CallsFresh
<1>5. CASE ~callers[c].leads
  BY <1>1, <1>3, <1>4, <1>5, Leave
<1>6. CASE callers[c].leads
  <2>1. calls[i].pc # "unused" /\ calls[i] \in Early \cup Fetched
    BY <1>1, <1>2, <1>4 DEF CInv, WaitsForIts, NoCall
  <2>2. x \in Early \cup Fetched /\ x.pc = calls[i].pc /\ x.key = calls[i].key
    BY <2>1 DEF Early, Fetched
  <2>3. calls[i] \in Fetched => x.val = calls[i].val /\ x.age = calls[i].age
    BY DEF Fetched
  <2>4. calls[i] \in Early => x.pc # "put" /\ x.pc # "done"
    BY DEF Early
  <2> HIDE DEF x
  <2>5. FreshCall(x)
    BY <1>2, <1>4, <2>1, <2>2, <2>3, <2>4 DEF FreshCall
  <2>6. PICK T : T = [calls EXCEPT ![i] = x]
    OBVIOUS
  <2>7. /\ T \in [CallIds -> {NoCall} \cup Early \cup Fetched]
        /\ \A j \in CallIds : T[j].pc = calls[j].pc
        /\ \A j \in CallIds : T[j].key = calls[j].key
        /\ \A j \in CallIds : T[j] = x \/ T[j] = calls[j]
    BY <1>2, <1>4, <2>2, <2>6
  <2>8. \A j \in CallIds : FreshCall(T[j])
    BY <1>4, <2>5, <2>7
  <2>9. calls' = Collected(T, callers')
    BY <1>1, <1>6, <2>6
  <2> QED
    BY <1>1, <1>3, <2>7, <2>8, <2>9, Leave
<1> QED
  BY <1>5, <1>6

\* Time passes: what ended ages no faster than its entry or its fetch.
LEMMA TickStep ==
    ASSUME CInv, Tick
    PROVE  CInv'
<1>1. /\ \A i \in CallIds : calls[i].pc \in {"put", "done"} => calls[i].age < MaxDelay
      /\ gone' = [x \in Keys \X Revs |->
             IF gone[x] \in {NotGone, MaxAge} THEN gone[x] ELSE gone[x] + 1]
      /\ cache' = [k \in Keys |-> IF Hit(k) THEN [cache[k] EXCEPT !.left = @ - 1] ELSE cache[k]]
      /\ calls' = [i \in CallIds |-> IF calls[i].pc \in {"put", "done"}
                                     THEN [calls[i] EXCEPT !.age = @ + 1] ELSE calls[i]]
      /\ Quiet /\ UNCHANGED <<up, top, notices, slot, callers>>
  BY DEF Tick, CallIds
<1>2. gone \in [Keys \X Revs -> NotGone..MaxAge]
  BY DEF CInv, StoreTypes
<1>3. ASSUME NEW x \in Keys \X Revs
      PROVE  /\ gone'[x] \in NotGone..MaxAge /\ gone[x] \in NotGone..MaxAge
             /\ gone'[x] <= gone[x] + 1
             /\ gone[x] = NotGone => gone'[x] = NotGone
  <2>1. gone[x] \in NotGone..MaxAge
    BY <1>2
  <2>2. gone'[x] = IF gone[x] \in {NotGone, MaxAge} THEN gone[x] ELSE gone[x] + 1
    BY <1>1
  <2>3. PICK a, b : a = gone[x] /\ b = gone'[x]
    OBVIOUS
  <2>4. b \in NotGone..MaxAge /\ b <= a + 1 /\ (a = NotGone => b = NotGone)
    BY <2>1, <2>2, <2>3, Numbers
  <2> QED
    BY <2>1, <2>3, <2>4
<1>4. gone' \in [Keys \X Revs -> NotGone..MaxAge]
  BY <1>1, <1>3
<1>5. StoreTypes' /\ UpFresh'
  <2>1. StoreTypes'
    BY <1>1, <1>4 DEF CInv, StoreTypes
  <2>2. UpFresh'
    BY <1>1, <1>3 DEF CInv, UpFresh
  <2> QED
    BY <2>1, <2>2
<1>6. ASSUME NEW k \in Keys
      PROVE  /\ cache'[k] \in [rev : 0..MaxRevision, left : -1..TTL]
             /\ cache'[k].rev = cache[k].rev
             /\ Hit(k) => cache'[k].left = cache[k].left - 1
             /\ ~Hit(k) => cache'[k] = cache[k]
  <2>1. cache[k] \in [rev : 0..MaxRevision, left : -1..TTL]
    BY DEF CInv, CacheTypes
  <2>2. cache'[k] = IF Hit(k) THEN [cache[k] EXCEPT !.left = @ - 1] ELSE cache[k]
    BY <1>1
  <2> QED
    BY <2>1, <2>2, Numbers DEF Hit
<1>7. CacheTypes'
  BY <1>1, <1>6 DEF CacheTypes
<1>8. CachedFresh'
  <2>1. ASSUME NEW k \in Keys, cache'[k].rev # 0, cache'[k].left >= 0
        PROVE  gone'[<<k, cache'[k].rev>>] <= MaxDelay + TTL - cache'[k].left
    <3>1. Hit(k)
      BY <1>6, <2>1 DEF Hit
    <3>2. cache[k].rev \in Revs /\ cache[k].left \in -1..TTL
      BY <3>1, Numbers DEF Hit, CInv, CacheTypes, Revs
    <3>3. gone[<<k, cache[k].rev>>] <= MaxDelay + TTL - cache[k].left
      BY <3>1 DEF CInv, CachedFresh
    <3>4. cache'[k].rev = cache[k].rev /\ cache'[k].left = cache[k].left - 1
      BY <1>6, <3>1
    <3>5. PICK v : v = cache[k].rev
      OBVIOUS
    <3>6. gone'[<<k, v>>] <= gone[<<k, v>>] + 1 /\ gone'[<<k, v>>] \in NotGone..MaxAge
          /\ gone[<<k, v>>] \in NotGone..MaxAge
      BY <1>3, <3>2, <3>5
    <3> QED
      BY <3>2, <3>3, <3>4, <3>5, <3>6, Numbers
  <2> QED
    BY <2>1 DEF CachedFresh, Hit
<1>9. ASSUME NEW i \in CallIds
      PROVE  /\ calls'[i] \in {NoCall} \cup Early \cup Fetched
             /\ calls'[i].pc = calls[i].pc
             /\ calls[i].pc # "unused" => calls'[i].key = calls[i].key
             /\ calls[i].pc \in {"put", "done"} =>
                    /\ calls'[i].val = calls[i].val /\ calls'[i].age = calls[i].age + 1
                    /\ calls[i] \in Fetched
  <2>1. calls'[i] = IF calls[i].pc \in {"put", "done"} THEN [calls[i] EXCEPT !.age = @ + 1]
                                                       ELSE calls[i]
    BY <1>1
  <2>2. CASE calls[i].pc \in {"put", "done"}
    <3>1. calls[i] \in Fetched /\ calls[i].age < MaxDelay
      BY <1>1, <2>2, Shapes DEF CInv
    <3>2. calls[i].age \in 0..MaxDelay /\ calls[i].age + 1 \in 0..MaxDelay
      BY <3>1, Numbers DEF Fetched
    <3>3. calls'[i] = [calls[i] EXCEPT !.age = calls[i].age + 1]
      BY <2>1, <2>2, <3>1 DEF Fetched
    <3> QED
      BY <2>2, <3>1, <3>2, <3>3 DEF Fetched
  <2>3. CASE calls[i].pc \notin {"put", "done"}
    BY <2>1, <2>3 DEF CInv, CallTypes
  <2> QED
    BY <2>2, <2>3
<1>10. CallTypes'
  BY <1>1, <1>9 DEF CallTypes
<1>11. CallsFresh'
  <2>1. ASSUME NEW i \in CallIds, calls[i].pc \in {"put", "done"}, calls[i].val \in Revs
        PROVE  /\ calls[i].pc = "put" =>
                      gone'[<<calls'[i].key, calls'[i].val>>] <= calls'[i].age
               /\ calls[i].pc = "done" =>
                      gone'[<<calls'[i].key, calls'[i].val>>] <= MaxDelay + TTL + calls'[i].age
    <3>1. PICK k, v, a : k = calls[i].key /\ v = calls[i].val /\ a = calls[i].age
      OBVIOUS
    <3>2. k \in Keys /\ v \in Revs /\ a \in 0..MaxDelay
      BY <1>9, <2>1, <3>1 DEF Fetched
    <3>3. calls'[i].key = k /\ calls'[i].val = v /\ calls'[i].age = a + 1
      BY <1>9, <2>1, <3>1
    <3>4. /\ calls[i].pc = "put" => gone[<<k, v>>] <= a
          /\ calls[i].pc = "done" => gone[<<k, v>>] <= MaxDelay + TTL + a
      BY <2>1, <3>1 DEF CInv, CallsFresh, FreshCall
    <3>5. gone'[<<k, v>>] <= gone[<<k, v>>] + 1 /\ gone'[<<k, v>>] \in NotGone..MaxAge
          /\ gone[<<k, v>>] \in NotGone..MaxAge
      BY <1>3, <3>2
    <3> QED
      BY <3>2, <3>3, <3>4, <3>5, Numbers
  <2>2. \A i \in CallIds : calls[i].pc = "put" => calls[i].val \in Revs
    BY DEF CInv, CallsFresh, FreshCall
  <2> QED
    BY <1>9, <2>1, <2>2 DEF CallsFresh, FreshCall
<1>12. WaitsForIts'
  <2>1. \A c \in Callers : callers[c].pc = "wait" => callers[c].call \in CallIds
    BY Shapes DEF CInv, Waiting
  <2> QED
    BY <1>1, <1>9, <2>1 DEF CInv, WaitsForIts
<1>13. CallerTypes' /\ SlotsLed'
  BY <1>1 DEF CInv, CallerTypes, SlotsLed, Led
<1> QED
  BY <1>1, <1>5, <1>7, <1>8, <1>10, <1>11, <1>12, <1>13, QuietKeeps DEF CInv

-----------------------------------------------------------------------------
\* The invariant holds of an empty cache.
LEMMA CInit ==
    ASSUME Init
    PROVE  CInv
<1>1. /\ NoEntry \in [rev : 0..MaxRevision, left : -1..TTL] /\ NoEntry.rev = 0
      /\ NoCall.pc = "unused" /\ NoCaller.pc = "idle" /\ NoResult.age = NotGone
      /\ NotGone \in NotGone..MaxAge /\ 0 \in 0..MaxRevision /\ 0 \in 0..MaxCalls
  BY Numbers DEF NoEntry, NoCall, NoCaller, NoResult
<1>2. StoreTypes /\ CacheTypes /\ CallTypes /\ CallerTypes
  BY <1>1 DEF Init, StoreTypes, CacheTypes, CallTypes, CallerTypes, CallIds
<1>3. UpFresh /\ CachedFresh
  <2>1. UpFresh
    BY Numbers DEF Init, UpFresh
  <2>2. CachedFresh
    BY <1>1 DEF Init, CachedFresh, Hit
  <2> QED
    BY <2>1, <2>2
<1>4. CallsFresh /\ WaitsForIts
  BY <1>1 DEF Init, CallsFresh, FreshCall, WaitsForIts, CallIds
<1>5. SlotsLed
  BY <1>1 DEF Init, SlotsLed, Led
<1>6. BoundedStaleness
  BY <1>1, Numbers DEF Init, BoundedStaleness
<1> QED
  BY <1>2, <1>3, <1>4, <1>5, <1>6 DEF CInv

\* Every step keeps it.
LEMMA CNext ==
    ASSUME CInv, [Next]_vars
    PROVE  CInv'
<1>1. ASSUME NEW i \in CallIds, Fetch(i) PROVE CInv'
  BY <1>1, FetchCheckStep, FetchReadStep, FetchPutStep DEF Fetch
<1>2. ASSUME NEW c \in Callers, Download(c) PROVE CInv'
  BY <1>2, LookupStep, JoinStep, DeliverStep, CancelStep DEF Download
<1>3. CASE UNCHANGED vars
  BY <1>3 DEF vars, CInv, StoreTypes, CacheTypes, CallTypes, CallerTypes, UpFresh, CachedFresh,
              Hit, CallsFresh, FreshCall, WaitsForIts, SlotsLed, Led, BoundedStaleness
<1> QED
  BY <1>1, <1>2, <1>3, LifecycleStep, TickStep DEF Next, CallIds

\* The inductive invariant: an entry is no older than its life so far and its delivery to the
\* cache, a fetch is of the key its waiters asked for, and a slot is its only leader's
\* (cache.go GetManifest, GetCard, callGroup.DoCtx; publication.go's observers).
THEOREM CacheInductive == Spec => []CInv
<1>1. Init => CInv
  BY CInit
<1>2. CInv /\ [Next]_vars => CInv'
  BY CNext
<1> QED
  BY <1>1, <1>2, PTL DEF Spec

\* What a caller gets was the published record at most StalenessBound ago, whatever the
\* observers, the evictions and the overlapping fetches do (cache.go GetManifest, GetCard).
THEOREM StalenessBounded == Spec => []BoundedStaleness
<1>1. CInv => BoundedStaleness
  BY DEF CInv
<1> QED
  BY <1>1, CacheInductive, PTL

\* Concurrent misses of a key share one fetch, whose leader owns the slot (callGroup.DoCtx).
THEOREM MissesCoalesced == Spec => []Coalesced
<1>1. ASSUME CInv PROVE Coalesced
  <2>1. ASSUME NEW k \in Keys PROVE Cardinality(Led(k)) <= 1
    <3>1. CASE Led(k) = {}
      BY <3>1, FS_EmptySet
    <3>2. CASE Led(k) # {}
      <4>1. PICK c \in Callers : c \in Led(k)
        BY <3>2 DEF Led
      <4>2. Led(k) = {c}
        BY <1>1, <2>1, <4>1 DEF CInv, SlotsLed, Led
      <4> QED
        BY <4>2, FS_Singleton
    <3> QED
      BY <3>1, <3>2
  <2>2. ASSUME NEW k \in Keys
        PROVE  /\ \A c \in Led(k) : slot[k] = callers[c].call
               /\ slot[k] # 0 => Led(k) # {}
    BY <1>1, <2>2 DEF CInv, SlotsLed, Led
  <2> QED
    BY <2>1, <2>2 DEF Coalesced
<1> QED
  BY <1>1, CacheInductive, PTL

=============================================================================
