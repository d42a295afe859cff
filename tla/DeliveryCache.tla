---------------------------- MODULE DeliveryCache ----------------------------
(***************************************************************************)
(* The cache in front of the published manifests and cards                 *)
(* (backend/internal/offlinedelivery/cache.go, CachedSource), the          *)
(* coalescing of concurrent misses (callGroup) and the observers through   *)
(* which backend/internal/store/publication.go purges the cache after a    *)
(* change has committed.                                                   *)
(*                                                                         *)
(* A key is a jurisdiction (manifests) or a version of one package         *)
(* (cards).  A record is its revision; 0 is what the source answers for a  *)
(* record that does not exist or is withdrawn, superseded or quarantined.  *)
(* The eviction that bounds the cache may remove any other entry before a  *)
(* Put.  Time is kept as ages and remaining lives, so no clock bounds a    *)
(* behaviour.                                                              *)
(*                                                                         *)
(* A definition introduced as a mutation is a plausible wrong version of   *)
(* the one that follows it.  No specification uses it; a property of this  *)
(* module fails when it takes the place of the right one.                  *)
(***************************************************************************)
EXTENDS Integers, FiniteSets

CONSTANTS
    Jurisdictions,  \* keys of manifests
    MaxCard,        \* bound on card versions
    MaxRevision,    \* bound on the revisions published under one jurisdiction
    Callers,        \* concurrent download requests
    MaxCalls,       \* bound on upstream fetches
    TTL,            \* Config.ManifestCacheTTL, CardCacheTTL
    MaxDelay        \* how long a record read upstream takes to be cached and delivered

ASSUME CacheAssumption ==
    /\ MaxCard \in Nat /\ MaxRevision \in Nat \ {0} /\ MaxCalls \in Nat
    /\ TTL \in Nat \ {0} /\ MaxDelay \in Nat \ {0}

VARIABLES
    up,         \* the record the PublicationSource answers with, by key
    top,        \* the highest revision published under a key
    gone,       \* ticks since <<key, revision>> stopped being the record
    notices,    \* observer callbacks that follow a committed change
    cache,      \* MemoryCache
    calls,      \* the fetches, by number
    slot,       \* callGroup.m: the call a miss attaches to, 0 if none
    callers,    \* what each caller is doing
    last        \* history: what the last step returned to a caller, or NoResult

vars == <<up, top, gone, notices, cache, calls, slot, callers, last>>

Cards == 1..MaxCard
Keys  == Jurisdictions \cup Cards
Revs  == 1..MaxRevision

NotGone   == -1
Cancelled == -1         \* the error of a cancelled context

\* The longest a record may be delivered after it ended: one life in the cache
\* and two deliveries.  Ages are counted one tick further.
StalenessBound == TTL + 2 * MaxDelay
MaxAge         == StalenessBound + 1

NoEntry  == [rev |-> 0, left |-> 0]
NoCall   == [pc |-> "unused"]
NoCaller == [pc |-> "idle"]
NoResult == [rev |-> 0, age |-> NotGone]

upVars   == <<up, top, gone, notices>>
callVars == <<calls, slot, callers>>

Quiet == last' = NoResult

-----------------------------------------------------------------------------
(***************************************************************************)
(* The lifecycle operations of the store.  Each commits first and calls    *)
(* the observer afterwards, outside the transaction.                       *)
(***************************************************************************)
\* The records of the keys in dead end now; key k gets revision r.
Change(dead, k, r) ==
    /\ up' = [q \in Keys |-> IF q = k THEN r ELSE IF q \in dead THEN 0 ELSE up[q]]
    /\ gone' = [x \in Keys \X Revs |->
           IF x[1] \in dead \cup {k} /\ up[x[1]] = x[2] THEN 0 ELSE gone[x]]

Announce(event, k) == notices' = notices \cup {[event |-> event, key |-> k, rev |-> up[k]]}

PromoteManifestWithObserver(k) ==
    /\ k \in Jurisdictions /\ top[k] < MaxRevision
    /\ Change({}, k, top[k] + 1)
    /\ top' = [top EXCEPT ![k] = @ + 1]
    /\ Announce("promoted", k)
    /\ Quiet
    /\ UNCHANGED <<cache, callVars>>

\* Lower versions of the package become SUPERSEDED.
PromoteCardWithObserver(v) ==
    /\ v \in Cards /\ top[v] = 0
    /\ Change({w \in Cards : w < v}, v, 1)
    /\ top' = [top EXCEPT ![v] = 1]
    /\ Announce("promoted", v)
    /\ Quiet
    /\ UNCHANGED <<cache, callVars>>

WithdrawAndInvalidate(k) ==
    /\ up[k] # 0
    /\ Change({}, k, 0)
    /\ Announce("withdrawn", k)
    /\ Quiet
    /\ UNCHANGED <<top, cache, callVars>>

QuarantineAndInvalidate(k) ==
    /\ up[k] # 0
    /\ Change({}, k, 0)
    /\ Announce("quarantined", k)
    /\ Quiet
    /\ UNCHANGED <<top, cache, callVars>>

\* What CachedSource drops: the key, but for a quarantine every manifest.
Dropped(n) == IF n.event = "quarantined" THEN Jurisdictions ELSE {n.key}

Notify(n) ==
    /\ n \in notices
    /\ notices' = notices \ {n}
    /\ cache' = [k \in Keys |-> IF k \in Dropped(n) THEN NoEntry ELSE cache[k]]
    /\ Quiet
    /\ UNCHANGED <<up, top, gone, callVars>>

-----------------------------------------------------------------------------
(***************************************************************************)
(* A download: GetManifest and GetCard.                                    *)
(***************************************************************************)
\* Mutation: the expiry of the entry is not looked at.
HitEver(k) == cache[k].rev # 0

Hit(k) == cache[k].rev # 0 /\ cache[k].left >= 0

Return(c, k, rev) ==
    /\ callers' = [callers EXCEPT ![c] = NoCaller]
    /\ last' = [rev |-> rev, age |-> IF rev > 0 THEN gone[<<k, rev>>] ELSE NotGone]

Lookup(c, k) ==
    /\ callers[c] = NoCaller
    /\ \/ Hit(k) /\ Return(c, k, cache[k].rev)
       \/ ~Hit(k) /\ callers' = [callers EXCEPT ![c] = [pc |-> "join", key |-> k]]
                  /\ Quiet
    /\ UNCHANGED <<upVars, cache, calls, slot>>

Unused == {i \in 1..MaxCalls : calls[i].pc = "unused"}

Waiters(i, who) == {c \in Callers : who[c].pc = "wait" /\ who[c].call = i}

\* A finished call that nobody waits for is garbage.
Collected(table, who) ==
    [i \in 1..MaxCalls |-> IF table[i].pc = "done" /\ Waiters(i, who) = {}
                           THEN NoCall ELSE table[i]]

\* Mutation: a miss always starts a fetch of its own.
JoinAlone(c) ==
    LET k == callers[c].key IN
    /\ callers[c].pc = "join"
    /\ \E i \in Unused : \A j \in Unused :
           /\ i <= j
           /\ calls' = [calls EXCEPT ![i] = [pc |-> "check", key |-> k, ctx |-> TRUE]]
           /\ slot' = [slot EXCEPT ![k] = i]
           /\ callers' = [callers EXCEPT ![c] = [pc |-> "wait", key |-> k, call |-> i, leads |-> TRUE]]
    /\ Quiet
    /\ UNCHANGED <<upVars, cache>>

Join(c) ==
    LET k == callers[c].key IN
    /\ callers[c].pc = "join"
    /\ \/ /\ slot[k] # 0
          /\ callers' = [callers EXCEPT ![c] =
                 [pc |-> "wait", key |-> k, call |-> slot[k], leads |-> FALSE]]
          /\ UNCHANGED <<calls, slot>>
       \/ /\ slot[k] = 0
          /\ \E i \in Unused : \A j \in Unused :
                 /\ i <= j
                 /\ calls' = [calls EXCEPT ![i] = [pc |-> "check", key |-> k, ctx |-> TRUE]]
                 /\ slot' = [slot EXCEPT ![k] = i]
                 /\ callers' = [callers EXCEPT ![c] =
                        [pc |-> "wait", key |-> k, call |-> i, leads |-> TRUE]]
    /\ Quiet
    /\ UNCHANGED <<upVars, cache>>

Done(i, val) == calls' = Collected([calls EXCEPT ![i] =
    [pc |-> "done", key |-> @.key, ctx |-> @.ctx, val |-> val, age |-> 0]], callers)

\* The fetch looks at the cache again.
FetchCheck(i) ==
    /\ calls[i].pc = "check"
    /\ \/ Hit(calls[i].key) /\ Done(i, cache[calls[i].key].rev)
       \/ ~Hit(calls[i].key) /\ calls' = [calls EXCEPT ![i].pc = "read"]
    /\ Quiet
    /\ UNCHANGED <<upVars, cache, slot, callers>>

\* The fetch uses the context of the caller that started it.
FetchRead(i) ==
    /\ calls[i].pc = "read"
    /\ \/ ~calls[i].ctx /\ Done(i, Cancelled)
       \/ up[calls[i].key] = 0 /\ Done(i, 0)
       \/ /\ up[calls[i].key] # 0
          /\ calls' = [calls EXCEPT ![i] = [pc |-> "put", key |-> @.key, ctx |-> @.ctx,
                                            val |-> up[@.key], age |-> 0]]
    /\ Quiet
    /\ UNCHANGED <<upVars, cache, slot, callers>>

FetchPut(i) ==
    LET k == calls[i].key IN
    /\ calls[i].pc = "put"
    /\ \E evicted \in SUBSET (Keys \ {k}) :
           cache' = [q \in Keys |->
               IF q = k THEN [rev |-> calls[i].val, left |-> TTL]
               ELSE IF q \in evicted THEN NoEntry ELSE cache[q]]
    /\ calls' = Collected([calls EXCEPT ![i].pc = "done"], callers)
    /\ Quiet
    /\ UNCHANGED <<upVars, slot, callers>>

\* The leader frees the slot.
Free(c) == slot' = IF callers[c].leads THEN [slot EXCEPT ![callers[c].key] = 0] ELSE slot

Deliver(c) ==
    /\ callers[c].pc = "wait"
    /\ calls[callers[c].call].pc = "done"
    /\ Return(c, callers[c].key, calls[callers[c].call].val)
    /\ Free(c)
    /\ calls' = Collected(calls, callers')
    /\ UNCHANGED <<upVars, cache>>

\* Mutation: the cancelled leader takes its fetch with it.
CancelKills(c) ==
    /\ callers[c].pc = "wait"
    /\ Return(c, callers[c].key, Cancelled)
    /\ Free(c)
    /\ calls' = IF callers[c].leads /\ calls[callers[c].call].pc # "done"
                THEN [calls EXCEPT ![callers[c].call] = [pc |-> "killed"]]
                ELSE Collected(calls, callers')
    /\ UNCHANGED <<upVars, cache>>

\* The caller's context ends; a fetch it started goes on without it.
Cancel(c) ==
    /\ callers[c].pc = "wait"
    /\ Return(c, callers[c].key, Cancelled)
    /\ Free(c)
    /\ calls' = Collected(IF callers[c].leads
                          THEN [calls EXCEPT ![callers[c].call].ctx = FALSE]
                          ELSE calls, callers')
    /\ UNCHANGED <<upVars, cache>>

-----------------------------------------------------------------------------
\* Time passes while no record that was read is on its way for too long.
Tick ==
    /\ \A i \in 1..MaxCalls : calls[i].pc \in {"put", "done"} => calls[i].age < MaxDelay
    /\ gone' = [x \in Keys \X Revs |->
           IF gone[x] \in {NotGone, MaxAge} THEN gone[x] ELSE gone[x] + 1]
    /\ cache' = [k \in Keys |-> IF Hit(k) THEN [cache[k] EXCEPT !.left = @ - 1] ELSE cache[k]]
    /\ calls' = [i \in 1..MaxCalls |-> IF calls[i].pc \in {"put", "done"}
                                       THEN [calls[i] EXCEPT !.age = @ + 1] ELSE calls[i]]
    /\ Quiet
    /\ UNCHANGED <<up, top, notices, slot, callers>>

Init ==
    /\ up = [k \in Keys |-> 0]
    /\ top = [k \in Keys |-> 0]
    /\ gone = [x \in Keys \X Revs |-> NotGone]
    /\ notices = {}
    /\ cache = [k \in Keys |-> NoEntry]
    /\ calls = [i \in 1..MaxCalls |-> NoCall]
    /\ slot = [k \in Keys |-> 0]
    /\ callers = [c \in Callers |-> NoCaller]
    /\ last = NoResult

Lifecycle ==
    \/ \E k \in Jurisdictions : PromoteManifestWithObserver(k)
    \/ \E v \in Cards : PromoteCardWithObserver(v)
    \/ \E k \in Keys : WithdrawAndInvalidate(k) \/ QuarantineAndInvalidate(k)
    \/ \E n \in notices : Notify(n)

Fetch(i) == FetchCheck(i) \/ FetchRead(i) \/ FetchPut(i)

Download(c) == (\E k \in Keys : Lookup(c, k)) \/ Join(c) \/ Deliver(c) \/ Cancel(c)

Next ==
    \/ Lifecycle
    \/ \E i \in 1..MaxCalls : Fetch(i)
    \/ \E c \in Callers : Download(c)
    \/ Tick

Spec == Init /\ [][Next]_vars

\* A fetch that was started goes on and a finished one wakes its waiters; no
\* caller needs its own deadline to return.
Fairness ==
    /\ \A i \in 1..MaxCalls : WF_vars(Fetch(i))
    /\ \A c \in Callers : WF_vars(Deliver(c))

LiveSpec == Spec /\ Fairness

-----------------------------------------------------------------------------
\* The values of the cache, the fetches and the callers.
TypeOK ==
    /\ up \in [Keys -> 0..MaxRevision] /\ top \in [Keys -> 0..MaxRevision]
    /\ gone \in [Keys \X Revs -> NotGone..MaxAge]
    /\ cache \in [Keys -> [rev : 0..MaxRevision, left : -1..TTL]]
    /\ \A i \in 1..MaxCalls :
           /\ calls[i].pc \in {"unused", "check", "read", "put", "done"}
           /\ calls[i].pc \in {"put", "done"} =>
                  calls[i].val \in -1..MaxRevision /\ calls[i].age \in 0..MaxDelay
    /\ slot \in [Keys -> 0..MaxCalls]
    /\ \A c \in Callers :
           /\ callers[c].pc \in {"idle", "join", "wait"}
           /\ callers[c].pc = "wait" => calls[callers[c].call] # NoCall
    /\ last \in [rev : -1..MaxRevision, age : NotGone..MaxAge]

\* What a caller gets was the published record at most StalenessBound ago,
\* although observers may be late or absent and fetches overlap changes
\* (cache.go GetManifest, GetCard and the fetches they start).
BoundedStaleness == last.age <= StalenessBound

\* The fetches whose leader still waits for them.
Led(k) == {c \in Callers : /\ callers[c].pc = "wait" /\ callers[c].key = k /\ callers[c].leads}

\* Concurrent misses of a key share one fetch: never two leaders, and the slot
\* is the leader's (callGroup.DoCtx).
Coalesced ==
    \A k \in Keys :
        /\ Cardinality(Led(k)) <= 1
        /\ \A c \in Led(k) : slot[k] = callers[c].call
        /\ slot[k] # 0 => Led(k) # {}

\* Every caller that waits gets an answer, also when the caller whose fetch it
\* joined is cancelled (callGroup.DoCtx).
EveryWaiterAnswered == \A c \in Callers : callers[c].pc = "wait" ~> callers[c].pc = "idle"

\* A record that ended is not in the cache once its observer callback is done
\* (PutManifest: not even from a fetch that was in flight).
WithdrawnStaysOut ==
    \A k \in Keys :
        (cache[k].rev # 0 /\ gone[<<k, cache[k].rev>>] # NotGone) =>
            \E n \in notices : n.key = k /\ n.rev = cache[k].rev
=============================================================================
