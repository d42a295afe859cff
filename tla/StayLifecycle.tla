---------------------------- MODULE StayLifecycle ----------------------------
(***************************************************************************)
(* The stays and the facility/date inventory of the backend                *)
(* (backend/internal/store/stay.go) with the expiry workers that run       *)
(* beside the request handlers (backend/internal/store/expiry.go).         *)
(*                                                                         *)
(* Every method of StayStore runs in one database transaction that locks   *)
(* the stay row and the inventory rows it changes, so each method is one   *)
(* action here; a method that returns an error rolls back and is a         *)
(* stuttering step.                                                        *)
(*                                                                         *)
(* Time is an abstract clock.  A handler reads the clock before its        *)
(* transaction waits for locks, and backend instances have their own       *)
(* clocks, so the "now" of a transaction is any instant of the last MaxLag *)
(* ticks.  An expiry worker keeps the "now" of its tick for the whole      *)
(* batch.                                                                  *)
(*                                                                         *)
(* A definition introduced as a mutation is a plausible wrong version of   *)
(* the one that follows it.  No specification uses it; a property of this  *)
(* module fails when it takes the place of the right one.                  *)
(***************************************************************************)
EXTENDS Integers, FiniteSets

CONSTANTS
    Facilities,     \* facility_id
    NumDays,        \* bound: service dates are 1..NumDays
    Capacity,       \* capacity of every (facility, date) inventory row
    StayIds,        \* bound: the stay_ids newID can return (ordered like text)
    MaxParty,       \* bound on the party size of a request
    HoldTTL,        \* StayPolicy.ReservationExpirySeconds
    MaxTime,        \* bound on the clock
    MaxLag,         \* how far a transaction's "now" may be behind the clock
    Workers,        \* the expiry workers, one per backend instance
    BatchSize,      \* ExpiryWorker.BatchSize
    MaxCrashes,     \* bound on worker crashes
    NoStay          \* the NULL of transferred_from

Days == 1..NumDays

\* A counter per inventory row (facility_id, service_date).
Buckets == [Facilities -> [Days -> Nat]]

ASSUME StayAssumption ==
    /\ Facilities # {}
    /\ NumDays \in Nat \ {0}
    /\ Capacity \in Buckets
    /\ IsFiniteSet(StayIds) /\ StayIds \subseteq Nat
    /\ MaxParty \in Nat \ {0}
    /\ HoldTTL \in Nat \ {0}
    /\ MaxTime \in Nat /\ MaxLag \in Nat /\ MaxCrashes \in Nat
    /\ BatchSize \in Nat \ {0}
    /\ NoStay \notin StayIds

VARIABLES
    stays,      \* the stays table, by stay_id
    held,       \* facility_inventory.held
    occupied,   \* facility_inventory.occupied
    clock,
    batch,      \* per worker: the ids of Tick still to be expired
    tickNow,    \* per worker: the "now" Tick read
    crashes     \* worker crashes so far

vars == <<stays, held, occupied, clock, batch, tickNow, crashes>>

StayStates == {"ABSENT", "RESERVED", "ARRIVED", "DEPARTED", "CANCELLED", "EXPIRED"}
Live       == {"RESERVED", "ARRIVED"}
Terminal   == {"DEPARTED", "CANCELLED", "EXPIRED"}

Stay == [state     : StayStates,
         facility  : Facilities,
         party     : 0..MaxParty,
         start     : Int,
         end       : Int,
         expiresAt : Int,
         from      : StayIds \cup {NoStay}]

\* A stay_id with no row.
Absent == [state |-> "ABSENT", facility |-> CHOOSE f \in Facilities : TRUE,
           party |-> 0, start |-> 1, end |-> 1, expiresAt |-> 0, from |-> NoStay]

-----------------------------------------------------------------------------
(***************************************************************************)
(* Inventory.  A dateRange is half-open; adjustInventory is applied to     *)
(* every date of the range, and one refusal fails the transaction.         *)
(***************************************************************************)
DateRange(start, end) == {d \in Days : start <= d /\ d < end}

\* Mutation: the capacity check forgets the places already occupied.
AdjustOKHeldOnly(h, o, f, dates, heldDelta, occupiedDelta) ==
    \A d \in dates :
        /\ h[f][d] + heldDelta >= 0
        /\ o[f][d] + occupiedDelta >= 0
        /\ h[f][d] + heldDelta <= Capacity[f][d]

AdjustOK(h, o, f, dates, heldDelta, occupiedDelta) ==
    \A d \in dates :
        /\ h[f][d] + heldDelta >= 0
        /\ o[f][d] + occupiedDelta >= 0
        /\ h[f][d] + heldDelta + o[f][d] + occupiedDelta <= Capacity[f][d]

Adjusted(bucket, f, dates, delta) ==
    [bucket EXCEPT ![f] = [d \in Days |-> IF d \in dates THEN @[d] + delta ELSE @[d]]]

AdjustInventory(f, dates, heldDelta, occupiedDelta) ==
    /\ AdjustOK(held, occupied, f, dates, heldDelta, occupiedDelta)
    /\ held' = Adjusted(held, f, dates, heldDelta)
    /\ occupied' = Adjusted(occupied, f, dates, occupiedDelta)

StayDates(st) == DateRange(st.start, st.end)

\* The delta of each bucket when n places of a live stay are added or released.
HeldPart(state, n)     == IF state = "ARRIVED" THEN 0 ELSE n
OccupiedPart(state, n) == IF state = "ARRIVED" THEN n ELSE 0

SetState(s, target) == stays' = [stays EXCEPT ![s].state = target]

\* The "now" a transaction may work with.
Nows == {t \in 0..clock : clock - t <= MaxLag}

HoldExpiry(now) == now + HoldTTL

-----------------------------------------------------------------------------
(***************************************************************************)
(* The operations of StayStore.                                            *)
(***************************************************************************)
workerVars == <<batch, tickNow, crashes>>

Reserve(s, f, p, start, end, now) ==
    /\ stays[s].state = "ABSENT"
    /\ start < end
    /\ AdjustInventory(f, DateRange(start, end), p, 0)
    /\ stays' = [stays EXCEPT ![s] =
           [state |-> "RESERVED", facility |-> f, party |-> p, start |-> start,
            end |-> end, expiresAt |-> HoldExpiry(now), from |-> NoStay]]
    /\ UNCHANGED <<clock, workerVars>>

\* Mutation: the places become occupied and stay held.
ArriveKeepsHeld(s, now) ==
    LET st == stays[s] IN
    /\ st.state = "RESERVED"
    /\ now < st.expiresAt
    /\ AdjustInventory(st.facility, StayDates(st), 0, st.party)
    /\ SetState(s, "ARRIVED")
    /\ UNCHANGED <<clock, workerVars>>

Arrive(s, now) ==
    LET st == stays[s] IN
    /\ st.state = "RESERVED"
    /\ now < st.expiresAt
    /\ AdjustInventory(st.facility, StayDates(st), -st.party, st.party)
    /\ SetState(s, "ARRIVED")
    /\ UNCHANGED <<clock, workerVars>>

Cancel(s) ==
    LET st == stays[s] IN
    /\ st.state = "RESERVED"
    /\ AdjustInventory(st.facility, StayDates(st), -st.party, 0)
    /\ SetState(s, "CANCELLED")
    /\ UNCHANGED <<clock, workerVars>>

Depart(s) ==
    LET st == stays[s] IN
    /\ st.state = "ARRIVED"
    /\ AdjustInventory(st.facility, StayDates(st), 0, -st.party)
    /\ SetState(s, "DEPARTED")
    /\ UNCHANGED <<clock, workerVars>>

\* Mutation: the added dates of an arrived party are held, not occupied.
ExtendHolds(s, newEnd) ==
    LET st == stays[s] IN
    /\ st.state \in Live
    /\ newEnd > st.end
    /\ AdjustInventory(st.facility, DateRange(st.end, newEnd), st.party, 0)
    /\ stays' = [stays EXCEPT ![s].end = newEnd]
    /\ UNCHANGED <<clock, workerVars>>

\* Mutation: the new end is not compared with the old one.
ExtendAnyEnd(s, newEnd) ==
    LET st == stays[s] IN
    /\ st.state \in Live
    /\ AdjustInventory(st.facility, DateRange(st.end, newEnd),
                       HeldPart(st.state, st.party), OccupiedPart(st.state, st.party))
    /\ stays' = [stays EXCEPT ![s].end = newEnd]
    /\ UNCHANGED <<clock, workerVars>>

\* Only the added dates are allocated; the hold deadline is not looked at.
Extend(s, newEnd) ==
    LET st == stays[s] IN
    /\ st.state \in Live
    /\ newEnd > st.end
    /\ AdjustInventory(st.facility, DateRange(st.end, newEnd),
                       HeldPart(st.state, st.party), OccupiedPart(st.state, st.party))
    /\ stays' = [stays EXCEPT ![s].end = newEnd]
    /\ UNCHANGED <<clock, workerVars>>

\* Mutation: the origin is not closed and keeps its places.
TransferKeepsOrigin(s, t, newF, now) ==
    LET st == stays[s] IN
    /\ st.state \in Live
    /\ stays[t].state = "ABSENT"
    /\ AdjustInventory(newF, StayDates(st), st.party, 0)
    /\ stays' = [stays EXCEPT
           ![t] = [st EXCEPT !.state = "RESERVED", !.facility = newF,
                             !.expiresAt = HoldExpiry(now), !.from = s]]
    /\ UNCHANGED <<clock, workerVars>>

\* The new facility is held first, then the old one released: when both are the
\* same facility the party needs room for itself twice.
Transfer(s, t, newF, now) ==
    LET st       == stays[s]
        dates    == StayDates(st)
        heldNew  == Adjusted(held, newF, dates, st.party)
        heldOut  == HeldPart(st.state, -st.party)
        occOut   == OccupiedPart(st.state, -st.party)
    IN
    /\ st.state \in Live
    /\ stays[t].state = "ABSENT"
    /\ AdjustOK(held, occupied, newF, dates, st.party, 0)
    /\ AdjustOK(heldNew, occupied, st.facility, dates, heldOut, occOut)
    /\ held' = Adjusted(heldNew, st.facility, dates, heldOut)
    /\ occupied' = Adjusted(occupied, st.facility, dates, occOut)
    /\ stays' = [stays EXCEPT
           ![s].state = "DEPARTED",
           ![t] = [state |-> "RESERVED", facility |-> newF, party |-> st.party,
                   start |-> st.start, end |-> st.end,
                   expiresAt |-> HoldExpiry(now), from |-> s]]
    /\ UNCHANGED <<clock, workerVars>>

\* An operator may only shrink the party of a live stay.
Correct(s, newParty) ==
    LET st    == stays[s]
        delta == st.party - newParty
    IN
    /\ st.state \in Live
    /\ newParty >= 1
    /\ newParty < st.party
    /\ AdjustInventory(st.facility, StayDates(st),
                       HeldPart(st.state, -delta), OccupiedPart(st.state, -delta))
    /\ stays' = [stays EXCEPT ![s].party = newParty]
    /\ UNCHANGED <<clock, workerVars>>

-----------------------------------------------------------------------------
(***************************************************************************)
(* The expiry worker.  Tick reads a batch of due ids outside any           *)
(* transaction; each id is then expired in a transaction of its own, which *)
(* re-reads the locked stay.  A crash forgets the rest of the batch.       *)
(***************************************************************************)
\* Mutation: rows that already left RESERVED are picked again and again.
DueInAnyState(now) ==
    {s \in StayIds : stays[s].state # "ABSENT" /\ stays[s].expiresAt <= now}

DueAt(now) == {s \in StayIds : stays[s].state = "RESERVED" /\ stays[s].expiresAt <= now}

\* ORDER BY stay_id LIMIT BatchSize
FirstIds(S) == {s \in S : Cardinality({t \in S : t < s}) < BatchSize}

\* Mutation: holds that fall due by the next tick are taken now.
TickAhead(w, now) ==
    /\ batch[w] = {}
    /\ FirstIds(DueAt(now + 1)) # {}
    /\ batch' = [batch EXCEPT ![w] = FirstIds(DueAt(now + 1))]
    /\ tickNow' = [tickNow EXCEPT ![w] = now + 1]
    /\ UNCHANGED <<stays, held, occupied, clock, crashes>>

\* A tick that finds nothing due changes nothing and is left out.
Tick(w, now) ==
    /\ batch[w] = {}
    /\ FirstIds(DueAt(now)) # {}
    /\ batch' = [batch EXCEPT ![w] = FirstIds(DueAt(now))]
    /\ tickNow' = [tickNow EXCEPT ![w] = now]
    /\ UNCHANGED <<stays, held, occupied, clock, crashes>>

ExpireRefused(s, now) ==
    LET st == stays[s] IN
    \/ st.state # "RESERVED"
    \/ now < st.expiresAt
    \/ ~AdjustOK(held, occupied, st.facility, StayDates(st), -st.party, 0)

Expire(w, s) ==
    LET st == stays[s] IN
    /\ s \in batch[w]
    /\ \A t \in batch[w] : s <= t
    /\ batch' = [batch EXCEPT ![w] = @ \ {s}]
    /\ \/ /\ ExpireRefused(s, tickNow[w])
          /\ UNCHANGED <<stays, held, occupied>>
       \/ /\ st.state = "RESERVED"
          /\ tickNow[w] >= st.expiresAt
          /\ AdjustInventory(st.facility, StayDates(st), -st.party, 0)
          /\ SetState(s, "EXPIRED")
    /\ UNCHANGED <<clock, tickNow, crashes>>

WorkerCrash(w) ==
    /\ crashes < MaxCrashes
    /\ batch[w] # {}
    /\ crashes' = crashes + 1
    /\ batch' = [batch EXCEPT ![w] = {}]
    /\ UNCHANGED <<stays, held, occupied, clock, tickNow>>

Advance ==
    /\ clock < MaxTime
    /\ clock' = clock + 1
    /\ UNCHANGED <<stays, held, occupied, workerVars>>

-----------------------------------------------------------------------------
Init ==
    /\ stays = [s \in StayIds |-> Absent]
    /\ held = [f \in Facilities |-> [d \in Days |-> 0]]
    /\ occupied = [f \in Facilities |-> [d \in Days |-> 0]]
    /\ clock = 0
    /\ batch = [w \in Workers |-> {}]
    /\ tickNow = [w \in Workers |-> 0]
    /\ crashes = 0

Request(s) ==
    \/ \E f \in Facilities, p \in 1..MaxParty, start \in Days, now \in Nows :
           \E end \in 1..(NumDays + 1) : Reserve(s, f, p, start, end, now)
    \/ \E now \in Nows : Arrive(s, now)
    \/ Cancel(s)
    \/ Depart(s)
    \/ \E newEnd \in 1..(NumDays + 1) : Extend(s, newEnd)
    \/ \E t \in StayIds \ {s}, newF \in Facilities, now \in Nows : Transfer(s, t, newF, now)
    \/ \E p \in 1..MaxParty : Correct(s, p)

Work(w) == (\E now \in Nows : Tick(w, now)) \/ \E s \in StayIds : Expire(w, s)

Next ==
    \/ \E s \in StayIds : Request(s)
    \/ \E w \in Workers : Work(w) \/ WorkerCrash(w)
    \/ Advance

Spec == Init /\ [][Next]_vars

\* The worker goroutine keeps ticking, and a lock it waits for is released.
Fairness == \A w \in Workers : WF_vars(Work(w))

LiveSpec == Spec /\ Fairness

-----------------------------------------------------------------------------
(***************************************************************************)
(* The heads counted by the inventory: <<s, k>> is person k of stay s.     *)
(***************************************************************************)
Covers(st, f, d, state) ==
    st.state = state /\ st.facility = f /\ st.start <= d /\ d < st.end

Heads(table, f, d, state) ==
    {h \in StayIds \X (1..MaxParty) :
        Covers(table[h[1]], f, d, state) /\ h[2] <= table[h[1]].party}

\* The values the tables and the workers can hold: no counter is negative.
TypeOK ==
    /\ stays \in [StayIds -> Stay]
    /\ held \in Buckets
    /\ occupied \in Buckets
    /\ clock \in 0..MaxTime
    /\ batch \in [Workers -> SUBSET StayIds]
    /\ tickNow \in [Workers -> 0..MaxTime]
    /\ crashes \in 0..MaxCrashes

\* Conservation: the counters of every inventory row agree with the stays that
\* cover it, through arrivals, partial expiry batches, extensions, transfers and
\* corrections (stay.go adjusts them only by deltas and never recomputes them).
Conservation ==
    \A f \in Facilities, d \in Days :
        /\ held[f][d] = Cardinality(Heads(stays, f, d, "RESERVED"))
        /\ occupied[f][d] = Cardinality(Heads(stays, f, d, "ARRIVED"))

\* No facility ever has more people reserved or present on a date than capacity.
NoOverbooking ==
    \A f \in Facilities, d \in Days :
        Cardinality(Heads(stays, f, d, "RESERVED")) +
        Cardinality(Heads(stays, f, d, "ARRIVED")) <= Capacity[f][d]

\* A live stay can always give its places back: the guard of adjustInventory
\* never refuses the release that cancel, expire, depart and correct perform.
Releasable ==
    \A s \in StayIds :
        LET st == stays[s] IN
        st.state \in Live =>
            AdjustOK(held, occupied, st.facility, StayDates(st),
                     HeldPart(st.state, -st.party), OccupiedPart(st.state, -st.party))

\* A hold is expired only after its own deadline, although the worker decides
\* with the instant and the batch of an earlier tick.
NeverExpiredEarly ==
    \A s \in StayIds : stays[s].state = "EXPIRED" => stays[s].expiresAt <= clock

\* A transfer leaves exactly one stay to continue the party's commitment: the
\* origin has departed and nothing else continues from it.
SingleSuccessor ==
    \A t \in StayIds :
        stays[t].from # NoStay =>
            /\ stays[stays[t].from].state = "DEPARTED"
            /\ \A u \in StayIds : stays[u].from = stays[t].from => u = t

\* What a step may do to a row: terminal rows never change again, a live stay
\* keeps its facility and first date and never loses a date or gains a person,
\* and a hold departs without arriving only when the same step re-creates it
\* elsewhere for the same people and dates.
RowStep(s) ==
    LET old == stays[s]
        new == stays'[s]
    IN
    /\ old.state \in Terminal => new = old
    /\ old.state \in Live =>
           /\ new.state # "ABSENT"
           /\ new.facility = old.facility /\ new.start = old.start
           /\ new.end >= old.end /\ new.party <= old.party
           /\ new.expiresAt = old.expiresAt
           /\ old.state = "ARRIVED" => new.state \in {"ARRIVED", "DEPARTED"}
    /\ (old.state = "RESERVED" /\ new.state = "DEPARTED") =>
           \E t \in StayIds :
               /\ stays[t].state = "ABSENT" /\ stays'[t].state = "RESERVED"
               /\ stays'[t].from = s /\ stays'[t].party = old.party
               /\ stays'[t].start = old.start /\ stays'[t].end = old.end

RowDiscipline == [][\A s \in StayIds : RowStep(s)]_vars

\* Every hold that is due is eventually resolved, although ticks take bounded
\* batches, other workers race for the same ids and a worker may crash.
DueHoldsResolved ==
    \A s \in StayIds :
        (stays[s].state = "RESERVED" /\ stays[s].expiresAt <= clock)
            ~> stays[s].state # "RESERVED"
=============================================================================
