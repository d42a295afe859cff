------------------------- MODULE StayLifecycleProofs -------------------------
(***************************************************************************)
(* Proofs about StayLifecycle for every value of its constants: the types, *)
(* the conservation of places, the absence of overbooking, that a release  *)
(* is never refused, and what may happen to a row over its life: which     *)
(* steps change it, when it expires and which stay continues it.           *)
(***************************************************************************)
EXTENDS StayLifecycle, FiniteSetTheorems, TLAPS

\* What one stay adds to the count of a row.
Weight(st, f, d, state) == IF Covers(st, f, d, state) THEN st.party ELSE 0

\* The heads of every stay but s.
Rest(table, s, f, d, state) == {h \in Heads(table, f, d, state) : h[1] # s}

\* The counters agree with the table, and respect the capacity.
Agree(h, o, table) ==
    \A f \in Facilities, d \in Days :
        /\ h[f][d] = Cardinality(Heads(table, f, d, "RESERVED"))
        /\ o[f][d] = Cardinality(Heads(table, f, d, "ARRIVED"))

Bounded(h, o) ==
    \A f \in Facilities, d \in Days : h[f][d] + o[f][d] <= Capacity[f][d]

\* Extend allocates [end, newEnd) only, which is the whole change of the stay's
\* dates because its interval is not reversed (a CHECK of the stays table).
Ordered(table) == \A s \in StayIds : table[s].start <= table[s].end

\* The inductive invariant.
IInv ==
    /\ TypeOK
    /\ Agree(held, occupied, stays)
    /\ Bounded(held, occupied)
    /\ Ordered(stays)

-----------------------------------------------------------------------------
\* The heads of a row are finitely many, whatever the table holds.
LEMMA HeadsFinite ==
    ASSUME NEW table, NEW f, NEW d, NEW state
    PROVE  IsFiniteSet(Heads(table, f, d, state))
<1>1. IsFiniteSet(1..MaxParty)
  BY FS_Interval, StayAssumption
<1>2. IsFiniteSet(StayIds \X (1..MaxParty))
  BY <1>1, FS_Product, StayAssumption
<1>3. Heads(table, f, d, state) \in SUBSET (StayIds \X (1..MaxParty))
  BY DEF Heads
<1> QED
  BY <1>2, <1>3, FS_Subset

\* The people of a party, numbered from one, are as many as its size.
LEMMA PartyCount ==
    ASSUME NEW n \in Nat
    PROVE  IsFiniteSet(1..n) /\ Cardinality(1..n) = n
<1>1. 1 \in Int /\ n \in Int
  OBVIOUS
<1>2. IsFiniteSet(1..n) /\ Cardinality(1..n) = IF 1 > n THEN 0 ELSE n - 1 + 1
  BY ONLY <1>1, FS_Interval, Zenon
<1>3. (IF 1 > n THEN 0 ELSE n - 1 + 1) = n
  OBVIOUS
<1> QED
  BY <1>2, <1>3

\* The count of a row is the weight of one stay plus the heads of the others.
LEMMA HeadSplit ==
    ASSUME NEW table \in [StayIds -> Stay], NEW s \in StayIds, NEW f, NEW d, NEW state
    PROVE  /\ Cardinality(Rest(table, s, f, d, state)) \in Nat
           /\ Cardinality(Heads(table, f, d, state)) =
                 Cardinality(Rest(table, s, f, d, state)) + Weight(table[s], f, d, state)
<1> DEFINE H == Heads(table, f, d, state)
           R == Rest(table, s, f, d, state)
           M == {h \in H : h[1] = s}
           p == table[s].party
<1>1. IsFiniteSet(H)
  BY HeadsFinite
<1>2. R \in SUBSET H /\ M \in SUBSET H /\ H = R \cup M /\ R \cap M = {}
  BY DEF Rest
<1>3. IsFiniteSet(R) /\ IsFiniteSet(M)
  BY <1>1, <1>2, FS_Subset
<1>4. Cardinality(R) \in Nat /\ Cardinality(M) \in Nat
  BY <1>3, FS_CardinalityType
<1>5. Cardinality(H) = Cardinality(R) + Cardinality(M)
  <2> HIDE DEF H, R, M
  <2>1. Cardinality(R \cap M) = 0
    BY <1>2, FS_EmptySet
  <2>2. Cardinality(R \cup M) = Cardinality(R) + Cardinality(M) - Cardinality(R \cap M)
    BY <1>3, FS_Union
  <2> QED
    BY <1>2, <1>4, <2>1, <2>2
<1>6. p \in 0..MaxParty /\ p \in Nat
  BY StayAssumption DEF Stay
<1>7. Cardinality(M) = Weight(table[s], f, d, state)
  <2>1. CASE Covers(table[s], f, d, state)
    <3>1. M = {s} \X (1..p)
      BY <2>1, <1>6, StayAssumption DEF Heads
    <3>2. IsFiniteSet(1..p) /\ Cardinality(1..p) = p
      <4> HIDE DEF p
      <4> QED
        BY <1>6, PartyCount
    <3>3. IsFiniteSet({s}) /\ Cardinality({s}) = 1
      BY FS_Singleton
    <3>4. Cardinality({s} \X (1..p)) = Cardinality({s}) * Cardinality(1..p)
      BY <3>2, <3>3, FS_Product, Zenon
    <3>5. Weight(table[s], f, d, state) = p
      BY <2>1 DEF Weight
    <3> HIDE DEF M, p
    <3> QED
      BY <3>1, <3>2, <3>3, <3>4, <3>5, <1>6
  <2>2. CASE ~Covers(table[s], f, d, state)
    <3>1. M = {}
      BY <2>2 DEF Heads
    <3> QED
      BY <3>1, <2>2, FS_EmptySet DEF Weight
  <2> QED
    BY <2>1, <2>2
<1> QED
  BY <1>4, <1>5, <1>7

\* Changing one row of the table changes the count by the change of its weight.
LEMMA HeadUpdate ==
    ASSUME NEW table \in [StayIds -> Stay], NEW new \in [StayIds -> Stay],
           NEW s \in StayIds, \A u \in StayIds \ {s} : new[u] = table[u],
           NEW f, NEW d, NEW state
    PROVE  /\ Cardinality(Heads(table, f, d, state)) \in Nat
           /\ Cardinality(Heads(new, f, d, state)) =
                 Cardinality(Heads(table, f, d, state))
                 - Weight(table[s], f, d, state) + Weight(new[s], f, d, state)
<1>1. Rest(new, s, f, d, state) = Rest(table, s, f, d, state)
  BY DEF Rest, Heads
<1>2. Weight(table[s], f, d, state) \in Nat /\ Weight(new[s], f, d, state) \in Nat
  BY StayAssumption DEF Weight, Stay
<1> QED
  BY <1>1, <1>2, HeadSplit

\* adjustInventory keeps the counters in agreement with the table when one stay
\* changes and its weight changes, on the adjusted dates only, by the deltas.
LEMMA AdjustConserves ==
    ASSUME NEW table \in [StayIds -> Stay], NEW new \in [StayIds -> Stay],
           NEW s \in StayIds, \A u \in StayIds \ {s} : new[u] = table[u],
           NEW h \in Buckets, NEW o \in Buckets,
           Agree(h, o, table), Bounded(h, o),
           NEW f \in Facilities, NEW dates \in SUBSET Days,
           NEW dh \in Int, NEW do \in Int,
           AdjustOK(h, o, f, dates, dh, do),
           \A g \in Facilities, d \in Days :
               /\ Weight(new[s], g, d, "RESERVED") - Weight(table[s], g, d, "RESERVED")
                    = IF g = f /\ d \in dates THEN dh ELSE 0
               /\ Weight(new[s], g, d, "ARRIVED") - Weight(table[s], g, d, "ARRIVED")
                    = IF g = f /\ d \in dates THEN do ELSE 0
    PROVE  /\ Adjusted(h, f, dates, dh) \in Buckets
           /\ Adjusted(o, f, dates, do) \in Buckets
           /\ Agree(Adjusted(h, f, dates, dh), Adjusted(o, f, dates, do), new)
           /\ Bounded(Adjusted(h, f, dates, dh), Adjusted(o, f, dates, do))
<1> DEFINE h2 == Adjusted(h, f, dates, dh)
           o2 == Adjusted(o, f, dates, do)
<1>1. \A g \in Facilities, d \in Days :
             /\ h2[g][d] = IF g = f /\ d \in dates THEN h[g][d] + dh ELSE h[g][d]
             /\ o2[g][d] = IF g = f /\ d \in dates THEN o[g][d] + do ELSE o[g][d]
             /\ h[g][d] \in Nat /\ o[g][d] \in Nat /\ Capacity[g][d] \in Nat
  BY StayAssumption DEF Adjusted, Buckets
<1>2. h2 \in [Facilities -> [Days -> Int]] /\ o2 \in [Facilities -> [Days -> Int]]
  BY DEF Adjusted, Buckets
<1> HIDE DEF h2, o2
<1>3. \A g \in Facilities, d \in Days : h2[g][d] \in Nat /\ o2[g][d] \in Nat
  BY <1>1 DEF AdjustOK
<1>4. h2 \in Buckets /\ o2 \in Buckets
  BY <1>2, <1>3 DEF Buckets
<1>5. ASSUME NEW g \in Facilities, NEW d \in Days
      PROVE  h2[g][d] + o2[g][d] <= Capacity[g][d]
  BY <1>1 DEF AdjustOK, Bounded
<1>6. ASSUME NEW g \in Facilities, NEW d \in Days
      PROVE  /\ h2[g][d] = Cardinality(Heads(new, g, d, "RESERVED"))
             /\ o2[g][d] = Cardinality(Heads(new, g, d, "ARRIVED"))
  <2>1. /\ h[g][d] = Cardinality(Heads(table, g, d, "RESERVED"))
        /\ o[g][d] = Cardinality(Heads(table, g, d, "ARRIVED"))
    BY DEF Agree
  <2>2. Cardinality(Heads(new, g, d, "RESERVED")) =
            Cardinality(Heads(table, g, d, "RESERVED"))
            - Weight(table[s], g, d, "RESERVED") + Weight(new[s], g, d, "RESERVED")
    BY HeadUpdate
  <2>3. Cardinality(Heads(new, g, d, "ARRIVED")) =
            Cardinality(Heads(table, g, d, "ARRIVED"))
            - Weight(table[s], g, d, "ARRIVED") + Weight(new[s], g, d, "ARRIVED")
    BY HeadUpdate
  <2>4. /\ Weight(table[s], g, d, "RESERVED") \in Nat /\ Weight(new[s], g, d, "RESERVED") \in Nat
        /\ Weight(table[s], g, d, "ARRIVED") \in Nat /\ Weight(new[s], g, d, "ARRIVED") \in Nat
    BY StayAssumption DEF Weight, Stay
  <2> QED
    BY <2>1, <2>2, <2>3, <2>4, <1>1
<1>7. Agree(h2, o2, new)
  BY <1>6 DEF Agree
<1>8. Bounded(h2, o2)
  BY <1>5 DEF Bounded
<1> QED
  BY <1>4, <1>7, <1>8 DEF h2, o2

-----------------------------------------------------------------------------
\* What is needed of an action that rewrites one stay and adjusts one range.
LEMMA OneRowStep ==
    ASSUME IInv,
           NEW s \in StayIds, stays' \in [StayIds -> Stay],
           \A u \in StayIds \ {s} : stays'[u] = stays[u],
           stays'[s].start <= stays'[s].end,
           NEW f \in Facilities, NEW dates \in SUBSET Days,
           NEW dh \in Int, NEW do \in Int,
           AdjustInventory(f, dates, dh, do),
           \A g \in Facilities, d \in Days :
               /\ Weight(stays'[s], g, d, "RESERVED") - Weight(stays[s], g, d, "RESERVED")
                    = IF g = f /\ d \in dates THEN dh ELSE 0
               /\ Weight(stays'[s], g, d, "ARRIVED") - Weight(stays[s], g, d, "ARRIVED")
                    = IF g = f /\ d \in dates THEN do ELSE 0,
           clock' \in 0..MaxTime, batch' \in [Workers -> SUBSET StayIds],
           tickNow' \in [Workers -> 0..MaxTime], crashes' \in 0..MaxCrashes
    PROVE  IInv'
<1>1. /\ held' = Adjusted(held, f, dates, dh)
      /\ occupied' = Adjusted(occupied, f, dates, do)
      /\ AdjustOK(held, occupied, f, dates, dh, do)
  BY DEF AdjustInventory
<1>2. /\ stays \in [StayIds -> Stay] /\ held \in Buckets /\ occupied \in Buckets
      /\ Agree(held, occupied, stays) /\ Bounded(held, occupied)
  BY DEF IInv, TypeOK
<1>3. /\ Adjusted(held, f, dates, dh) \in Buckets
      /\ Adjusted(occupied, f, dates, do) \in Buckets
      /\ Agree(Adjusted(held, f, dates, dh), Adjusted(occupied, f, dates, do), stays')
      /\ Bounded(Adjusted(held, f, dates, dh), Adjusted(occupied, f, dates, do))
  BY <1>1, <1>2, AdjustConserves
<1>4. Ordered(stays')
  BY <1>2 DEF IInv, Ordered
<1> QED
  BY <1>1, <1>3, <1>4 DEF IInv, TypeOK

\* Reserve converts free places to held ones and keeps the invariant.
LEMMA ReserveStep ==
    ASSUME IInv, NEW s \in StayIds, NEW f \in Facilities, NEW p \in 1..MaxParty,
           NEW start \in Days, NEW end \in 1..(NumDays + 1), NEW now \in Nows,
           Reserve(s, f, p, start, end, now)
    PROVE  IInv'
<1>1. stays \in [StayIds -> Stay] /\ now \in Int /\ p \in Nat
  BY StayAssumption DEF IInv, TypeOK, Nows
<1>2. stays' \in [StayIds -> Stay]
  BY <1>1, StayAssumption DEF Reserve, Stay, StayStates, HoldExpiry, Days
<1>3. \A g \in Facilities, d \in Days :
         /\ Weight(stays'[s], g, d, "RESERVED") - Weight(stays[s], g, d, "RESERVED")
              = IF g = f /\ d \in DateRange(start, end) THEN p ELSE 0
         /\ Weight(stays'[s], g, d, "ARRIVED") - Weight(stays[s], g, d, "ARRIVED")
              = IF g = f /\ d \in DateRange(start, end) THEN 0 ELSE 0
  BY <1>1 DEF Reserve, Weight, Covers, DateRange
<1>4. \A u \in StayIds \ {s} : stays'[u] = stays[u]
  BY <1>1 DEF Reserve
<1>5. stays'[s].start <= stays'[s].end
  BY <1>1 DEF Reserve, Days
<1>6. DateRange(start, end) \in SUBSET Days /\ AdjustInventory(f, DateRange(start, end), p, 0)
  BY DEF Reserve, DateRange
<1>7. /\ clock' \in 0..MaxTime /\ batch' \in [Workers -> SUBSET StayIds]
      /\ tickNow' \in [Workers -> 0..MaxTime] /\ crashes' \in 0..MaxCrashes
  BY DEF Reserve, IInv, TypeOK, workerVars
<1> QED
  BY <1>1, <1>2, <1>3, <1>4, <1>5, <1>6, <1>7, OneRowStep

\* Arrive moves the same places from held to occupied.
LEMMA ArriveStep ==
    ASSUME IInv, NEW s \in StayIds, NEW now \in Nows,
           Arrive(s, now)
    PROVE  IInv'
<1> DEFINE st == stays[s]
<1>1. /\ stays \in [StayIds -> Stay] /\ st \in Stay /\ st.party \in Nat
      /\ st.facility \in Facilities
  BY StayAssumption DEF IInv, TypeOK, Stay
<1>2. stays' \in [StayIds -> Stay]
  BY <1>1, StayAssumption DEF Arrive, SetState, Stay, StayStates
<1>3. \A g \in Facilities, d \in Days :
         /\ Weight(stays'[s], g, d, "RESERVED") - Weight(stays[s], g, d, "RESERVED")
              = IF g = st.facility /\ d \in StayDates(st) THEN -st.party ELSE 0
         /\ Weight(stays'[s], g, d, "ARRIVED") - Weight(stays[s], g, d, "ARRIVED")
              = IF g = st.facility /\ d \in StayDates(st) THEN st.party ELSE 0
  BY <1>1 DEF Arrive, SetState, Weight, Covers, StayDates, DateRange, Stay, Live, HeldPart, OccupiedPart, Days
<1>4. \A u \in StayIds \ {s} : stays'[u] = stays[u]
  BY <1>1 DEF Arrive, SetState
<1>5. st.start <= st.end /\ stays'[s].start <= stays'[s].end
  BY <1>1 DEF Arrive, SetState, IInv, Ordered, Stay
<1>6. /\ StayDates(st) \in SUBSET Days
      /\ AdjustInventory(st.facility, StayDates(st), -st.party, st.party)
  BY DEF Arrive, StayDates, DateRange
<1>7. /\ clock' \in 0..MaxTime /\ batch' \in [Workers -> SUBSET StayIds]
      /\ tickNow' \in [Workers -> 0..MaxTime] /\ crashes' \in 0..MaxCrashes
  BY DEF Arrive, IInv, TypeOK, workerVars
<1>8. -st.party \in Int /\ st.party \in Int
  BY <1>1, StayAssumption DEF HeldPart, OccupiedPart
<1> HIDE DEF st
<1> QED
  BY <1>1, <1>2, <1>3, <1>4, <1>5, <1>6, <1>7, <1>8, OneRowStep

\* Cancel gives held places back.
LEMMA CancelStep ==
    ASSUME IInv, NEW s \in StayIds,
           Cancel(s)
    PROVE  IInv'
<1> DEFINE st == stays[s]
<1>1. /\ stays \in [StayIds -> Stay] /\ st \in Stay /\ st.party \in Nat
      /\ st.facility \in Facilities
  BY StayAssumption DEF IInv, TypeOK, Stay
<1>2. stays' \in [StayIds -> Stay]
  BY <1>1, StayAssumption DEF Cancel, SetState, Stay, StayStates
<1>3. \A g \in Facilities, d \in Days :
         /\ Weight(stays'[s], g, d, "RESERVED") - Weight(stays[s], g, d, "RESERVED")
              = IF g = st.facility /\ d \in StayDates(st) THEN -st.party ELSE 0
         /\ Weight(stays'[s], g, d, "ARRIVED") - Weight(stays[s], g, d, "ARRIVED")
              = IF g = st.facility /\ d \in StayDates(st) THEN 0 ELSE 0
  BY <1>1 DEF Cancel, SetState, Weight, Covers, StayDates, DateRange, Stay, Live, HeldPart, OccupiedPart, Days
<1>4. \A u \in StayIds \ {s} : stays'[u] = stays[u]
  BY <1>1 DEF Cancel, SetState
<1>5. st.start <= st.end /\ stays'[s].start <= stays'[s].end
  BY <1>1 DEF Cancel, SetState, IInv, Ordered, Stay
<1>6. /\ StayDates(st) \in SUBSET Days
      /\ AdjustInventory(st.facility, StayDates(st), -st.party, 0)
  BY DEF Cancel, StayDates, DateRange
<1>7. /\ clock' \in 0..MaxTime /\ batch' \in [Workers -> SUBSET StayIds]
      /\ tickNow' \in [Workers -> 0..MaxTime] /\ crashes' \in 0..MaxCrashes
  BY DEF Cancel, IInv, TypeOK, workerVars
<1>8. -st.party \in Int /\ 0 \in Int
  BY <1>1, StayAssumption DEF HeldPart, OccupiedPart
<1> HIDE DEF st
<1> QED
  BY <1>1, <1>2, <1>3, <1>4, <1>5, <1>6, <1>7, <1>8, OneRowStep

\* Depart gives occupied places back.
LEMMA DepartStep ==
    ASSUME IInv, NEW s \in StayIds,
           Depart(s)
    PROVE  IInv'
<1> DEFINE st == stays[s]
<1>1. /\ stays \in [StayIds -> Stay] /\ st \in Stay /\ st.party \in Nat
      /\ st.facility \in Facilities
  BY StayAssumption DEF IInv, TypeOK, Stay
<1>2. stays' \in [StayIds -> Stay]
  BY <1>1, StayAssumption DEF Depart, SetState, Stay, StayStates
<1>3. \A g \in Facilities, d \in Days :
         /\ Weight(stays'[s], g, d, "RESERVED") - Weight(stays[s], g, d, "RESERVED")
              = IF g = st.facility /\ d \in StayDates(st) THEN 0 ELSE 0
         /\ Weight(stays'[s], g, d, "ARRIVED") - Weight(stays[s], g, d, "ARRIVED")
              = IF g = st.facility /\ d \in StayDates(st) THEN -st.party ELSE 0
  BY <1>1 DEF Depart, SetState, Weight, Covers, StayDates, DateRange, Stay, Live, HeldPart, OccupiedPart, Days
<1>4. \A u \in StayIds \ {s} : stays'[u] = stays[u]
  BY <1>1 DEF Depart, SetState
<1>5. st.start <= st.end /\ stays'[s].start <= stays'[s].end
  BY <1>1 DEF Depart, SetState, IInv, Ordered, Stay
<1>6. /\ StayDates(st) \in SUBSET Days
      /\ AdjustInventory(st.facility, StayDates(st), 0, -st.party)
  BY DEF Depart, StayDates, DateRange
<1>7. /\ clock' \in 0..MaxTime /\ batch' \in [Workers -> SUBSET StayIds]
      /\ tickNow' \in [Workers -> 0..MaxTime] /\ crashes' \in 0..MaxCrashes
  BY DEF Depart, IInv, TypeOK, workerVars
<1>8. 0 \in Int /\ -st.party \in Int
  BY <1>1, StayAssumption DEF HeldPart, OccupiedPart
<1> HIDE DEF st
<1> QED
  BY <1>1, <1>2, <1>3, <1>4, <1>5, <1>6, <1>7, <1>8, OneRowStep

\* Extend allocates the added dates in the bucket of the state of the stay.
LEMMA ExtendStep ==
    ASSUME IInv, NEW s \in StayIds, NEW newEnd \in 1..(NumDays + 1),
           Extend(s, newEnd)
    PROVE  IInv'
<1> DEFINE st == stays[s]
<1>1. /\ stays \in [StayIds -> Stay] /\ st \in Stay /\ st.party \in Nat
      /\ st.facility \in Facilities
  BY StayAssumption DEF IInv, TypeOK, Stay
<1>2. stays' \in [StayIds -> Stay]
  BY <1>1, StayAssumption DEF Extend, SetState, Stay, StayStates
<1>3. st.start <= st.end /\ stays'[s].start <= stays'[s].end
  BY <1>1 DEF Extend, SetState, IInv, Ordered, Stay
<1>4. \A g \in Facilities, d \in Days :
         /\ Weight(stays'[s], g, d, "RESERVED") - Weight(stays[s], g, d, "RESERVED")
              = IF g = st.facility /\ d \in DateRange(st.end, newEnd) THEN HeldPart(st.state, st.party) ELSE 0
         /\ Weight(stays'[s], g, d, "ARRIVED") - Weight(stays[s], g, d, "ARRIVED")
              = IF g = st.facility /\ d \in DateRange(st.end, newEnd) THEN OccupiedPart(st.state, st.party) ELSE 0
  BY <1>1, <1>3 DEF Extend, SetState, Weight, Covers, StayDates, DateRange, Stay, Live, HeldPart, OccupiedPart, Days
<1>5. \A u \in StayIds \ {s} : stays'[u] = stays[u]
  BY <1>1 DEF Extend, SetState
<1>6. /\ DateRange(st.end, newEnd) \in SUBSET Days
      /\ AdjustInventory(st.facility, DateRange(st.end, newEnd), HeldPart(st.state, st.party), OccupiedPart(st.state, st.party))
  BY DEF Extend, StayDates, DateRange
<1>7. /\ clock' \in 0..MaxTime /\ batch' \in [Workers -> SUBSET StayIds]
      /\ tickNow' \in [Workers -> 0..MaxTime] /\ crashes' \in 0..MaxCrashes
  BY DEF Extend, IInv, TypeOK, workerVars
<1>8. HeldPart(st.state, st.party) \in Int /\ OccupiedPart(st.state, st.party) \in Int
  BY <1>1, StayAssumption DEF HeldPart, OccupiedPart
<1> HIDE DEF st
<1> QED
  BY <1>1, <1>2, <1>4, <1>5, <1>6, <1>7, <1>8, <1>3, OneRowStep

\* Correct gives back the places of the people removed from the party.
LEMMA CorrectStep ==
    ASSUME IInv, NEW s \in StayIds, NEW newParty \in 1..MaxParty,
           Correct(s, newParty)
    PROVE  IInv'
<1> DEFINE st == stays[s]
<1>1. /\ stays \in [StayIds -> Stay] /\ st \in Stay /\ st.party \in Nat
      /\ st.facility \in Facilities
  BY StayAssumption DEF IInv, TypeOK, Stay
<1>2. stays' \in [StayIds -> Stay]
  BY <1>1, StayAssumption DEF Correct, SetState, Stay, StayStates
<1>3. \A g \in Facilities, d \in Days :
         /\ Weight(stays'[s], g, d, "RESERVED") - Weight(stays[s], g, d, "RESERVED")
              = IF g = st.facility /\ d \in StayDates(st) THEN HeldPart(st.state, -(st.party - newParty)) ELSE 0
         /\ Weight(stays'[s], g, d, "ARRIVED") - Weight(stays[s], g, d, "ARRIVED")
              = IF g = st.facility /\ d \in StayDates(st) THEN OccupiedPart(st.state, -(st.party - newParty)) ELSE 0
  BY <1>1 DEF Correct, SetState, Weight, Covers, StayDates, DateRange, Stay, Live, HeldPart, OccupiedPart, Days
<1>4. \A u \in StayIds \ {s} : stays'[u] = stays[u]
  BY <1>1 DEF Correct, SetState
<1>5. st.start <= st.end /\ stays'[s].start <= stays'[s].end
  BY <1>1 DEF Correct, SetState, IInv, Ordered, Stay
<1>6. /\ StayDates(st) \in SUBSET Days
      /\ AdjustInventory(st.facility, StayDates(st), HeldPart(st.state, -(st.party - newParty)), OccupiedPart(st.state, -(st.party - newParty)))
  BY DEF Correct, StayDates, DateRange
<1>7. /\ clock' \in 0..MaxTime /\ batch' \in [Workers -> SUBSET StayIds]
      /\ tickNow' \in [Workers -> 0..MaxTime] /\ crashes' \in 0..MaxCrashes
  BY DEF Correct, IInv, TypeOK, workerVars
<1>8. HeldPart(st.state, -(st.party - newParty)) \in Int /\ OccupiedPart(st.state, -(st.party - newParty)) \in Int
  BY <1>1, StayAssumption DEF HeldPart, OccupiedPart
<1> HIDE DEF st
<1> QED
  BY <1>1, <1>2, <1>3, <1>4, <1>5, <1>6, <1>7, <1>8, OneRowStep

\* An expiry transaction releases the hold or, refused, leaves it as it is.
LEMMA ExpireStep ==
    ASSUME IInv, NEW w \in Workers, NEW s \in StayIds, Expire(w, s)
    PROVE  IInv'
<1> DEFINE st == stays[s]
<1>1. /\ stays \in [StayIds -> Stay] /\ st \in Stay /\ st.party \in Nat
      /\ st.facility \in Facilities
  BY StayAssumption DEF IInv, TypeOK, Stay
<1>2. /\ clock' \in 0..MaxTime /\ batch' \in [Workers -> SUBSET StayIds]
      /\ tickNow' \in [Workers -> 0..MaxTime] /\ crashes' \in 0..MaxCrashes
  BY DEF Expire, IInv, TypeOK
<1>3. CASE UNCHANGED <<stays, held, occupied>>
  BY <1>2, <1>3 DEF IInv, TypeOK
<1>4. CASE /\ st.state = "RESERVED"
           /\ AdjustInventory(st.facility, StayDates(st), -st.party, 0)
           /\ SetState(s, "EXPIRED")
  <2>1. stays' \in [StayIds -> Stay]
    BY <1>1, <1>4 DEF SetState, Stay, StayStates
  <2>2. \A u \in StayIds \ {s} : stays'[u] = stays[u]
    BY <1>1, <1>4 DEF SetState
  <2>3. stays'[s].start <= stays'[s].end
    BY <1>1, <1>4 DEF SetState, IInv, Ordered, Stay
  <2>4. \A g \in Facilities, d \in Days :
           /\ Weight(stays'[s], g, d, "RESERVED") - Weight(stays[s], g, d, "RESERVED")
                = IF g = st.facility /\ d \in StayDates(st) THEN -st.party ELSE 0
           /\ Weight(stays'[s], g, d, "ARRIVED") - Weight(stays[s], g, d, "ARRIVED")
                = IF g = st.facility /\ d \in StayDates(st) THEN 0 ELSE 0
    BY <1>1, <1>4 DEF SetState, Weight, Covers, StayDates, DateRange, Stay
  <2>5. StayDates(st) \in SUBSET Days /\ -st.party \in Int
    BY <1>1 DEF StayDates, DateRange
  <2> HIDE DEF st
  <2> QED
    BY <1>1, <1>2, <1>4, <2>1, <2>2, <2>3, <2>4, <2>5, OneRowStep
<1> QED
  BY <1>3, <1>4 DEF Expire

\* Transfer holds the destination for the new stay, then releases the origin of
\* the old one: two single-row changes, the second on the result of the first.
LEMMA TransferStep ==
    ASSUME IInv, NEW s \in StayIds, NEW t \in StayIds \ {s}, NEW newF \in Facilities,
           NEW now \in Nows, Transfer(s, t, newF, now)
    PROVE  IInv'
<1> DEFINE st    == stays[s]
           dates == StayDates(st)
           dh    == HeldPart(st.state, -st.party)
           do    == OccupiedPart(st.state, -st.party)
           new   == [state |-> "RESERVED", facility |-> newF, party |-> st.party,
                     start |-> st.start, end |-> st.end,
                     expiresAt |-> HoldExpiry(now), from |-> s]
           mid   == [stays EXCEPT ![t] = new]
           h1    == Adjusted(held, newF, dates, st.party)
           o1    == Adjusted(occupied, newF, dates, 0)
<1>1. /\ stays \in [StayIds -> Stay] /\ st \in Stay /\ st.party \in Nat
      /\ st.facility \in Facilities /\ now \in Int /\ dates \in SUBSET Days
      /\ held \in Buckets /\ occupied \in Buckets
  BY StayAssumption DEF IInv, TypeOK, Stay, Nows, StayDates, DateRange
<1>2. /\ st.state \in Live /\ stays[t].state = "ABSENT"
      /\ AdjustOK(held, occupied, newF, dates, st.party, 0)
      /\ AdjustOK(h1, occupied, st.facility, dates, dh, do)
      /\ held' = Adjusted(h1, st.facility, dates, dh)
      /\ occupied' = Adjusted(occupied, st.facility, dates, do)
      /\ stays' = [stays EXCEPT ![s].state = "DEPARTED", ![t] = new]
      /\ UNCHANGED <<clock, workerVars>>
  BY DEF Transfer
<1>3. o1 = occupied
  BY <1>1 DEF Adjusted, Buckets
<1>4. new \in Stay
  BY <1>1, StayAssumption DEF Stay, StayStates, HoldExpiry
<1>5. mid \in [StayIds -> Stay] /\ \A u \in StayIds \ {t} : mid[u] = stays[u]
  BY <1>1, <1>4
<1>6. mid[t] = new /\ mid[s] = st /\ stays'[t] = new
      /\ stays' = [mid EXCEPT ![s].state = "DEPARTED"]
  BY <1>1, <1>2
<1>7. stays' \in [StayIds -> Stay] /\ \A u \in StayIds \ {s} : stays'[u] = mid[u]
  BY <1>5, <1>6 DEF Stay, StayStates
<1>8. \A g \in Facilities, d \in Days :
         /\ Weight(mid[t], g, d, "RESERVED") - Weight(stays[t], g, d, "RESERVED")
              = IF g = newF /\ d \in dates THEN st.party ELSE 0
         /\ Weight(mid[t], g, d, "ARRIVED") - Weight(stays[t], g, d, "ARRIVED")
              = IF g = newF /\ d \in dates THEN 0 ELSE 0
  BY <1>1, <1>2, <1>6 DEF Weight, Covers, StayDates, DateRange
<1>9. stays'[s] = [st EXCEPT !.state = "DEPARTED"]
  BY <1>1, <1>2
<1>10. \A g \in Facilities, d \in Days :
         /\ Weight(stays'[s], g, d, "RESERVED") - Weight(mid[s], g, d, "RESERVED")
              = IF g = st.facility /\ d \in dates THEN dh ELSE 0
         /\ Weight(stays'[s], g, d, "ARRIVED") - Weight(mid[s], g, d, "ARRIVED")
              = IF g = st.facility /\ d \in dates THEN do ELSE 0
  <2> HIDE DEF mid, new
  <2> QED
    BY <1>1, <1>2, <1>6, <1>9
    DEF Weight, Covers, StayDates, DateRange, HeldPart, OccupiedPart, Live, Stay
<1>11. dh \in Int /\ do \in Int
  BY <1>1 DEF HeldPart, OccupiedPart
<1>12. Ordered(stays')
  BY <1>1, <1>2, <1>6, <1>9 DEF IInv, Ordered, Stay
<1>13. Agree(held, occupied, stays) /\ Bounded(held, occupied)
  BY DEF IInv
<1> HIDE DEF st, dates, dh, do, new, mid, h1, o1
<1>14. h1 \in Buckets /\ o1 \in Buckets /\ Agree(h1, o1, mid) /\ Bounded(h1, o1)
  <2>1. t \in StayIds /\ st.party \in Int /\ 0 \in Int
    BY <1>1
  <2>2. /\ Adjusted(held, newF, dates, st.party) \in Buckets
        /\ Adjusted(occupied, newF, dates, 0) \in Buckets
        /\ Agree(Adjusted(held, newF, dates, st.party), Adjusted(occupied, newF, dates, 0), mid)
        /\ Bounded(Adjusted(held, newF, dates, st.party), Adjusted(occupied, newF, dates, 0))
    <3>1. AdjustOK(held, occupied, newF, dates, st.party, 0)
      BY <1>2
    <3>2. \A g \in Facilities, d \in Days :
             /\ Weight(mid[t], g, d, "RESERVED") - Weight(stays[t], g, d, "RESERVED")
                  = IF g = newF /\ d \in dates THEN st.party ELSE 0
             /\ Weight(mid[t], g, d, "ARRIVED") - Weight(stays[t], g, d, "ARRIVED")
                  = IF g = newF /\ d \in dates THEN 0 ELSE 0
      BY <1>8
    <3> QED
      BY <1>1, <1>5, <1>13, <2>1, <3>1, <3>2, AdjustConserves
  <2> QED
    BY <2>2 DEF h1, o1
<1>15. /\ held' \in Buckets /\ occupied' \in Buckets
       /\ Agree(held', occupied', stays') /\ Bounded(held', occupied')
  <2>1. AdjustOK(h1, o1, st.facility, dates, dh, do)
    BY <1>2, <1>3
  <2>2. /\ Adjusted(h1, st.facility, dates, dh) \in Buckets
        /\ Adjusted(o1, st.facility, dates, do) \in Buckets
        /\ Agree(Adjusted(h1, st.facility, dates, dh), Adjusted(o1, st.facility, dates, do), stays')
        /\ Bounded(Adjusted(h1, st.facility, dates, dh), Adjusted(o1, st.facility, dates, do))
    BY <1>1, <1>5, <1>7, <1>10, <1>11, <1>14, <2>1, AdjustConserves
  <2> QED
    BY <1>2, <1>3, <2>2
<1>16. /\ clock' \in 0..MaxTime /\ batch' \in [Workers -> SUBSET StayIds]
       /\ tickNow' \in [Workers -> 0..MaxTime] /\ crashes' \in 0..MaxCrashes
  BY <1>2 DEF IInv, TypeOK, workerVars
<1> QED
  BY <1>7, <1>12, <1>15, <1>16 DEF IInv, TypeOK

\* The steps that leave the stays and the inventory alone.
LEMMA QuietStep ==
    ASSUME IInv, UNCHANGED <<stays, held, occupied>>,
           clock' \in 0..MaxTime, batch' \in [Workers -> SUBSET StayIds],
           tickNow' \in [Workers -> 0..MaxTime], crashes' \in 0..MaxCrashes
    PROVE  IInv'
BY DEF IInv, TypeOK

-----------------------------------------------------------------------------
\* The empty tables satisfy the invariant.
LEMMA InitIInv == Init => IInv
<1> SUFFICES ASSUME Init PROVE IInv
  OBVIOUS
<1>1. Absent \in Stay
  BY StayAssumption DEF Absent, Stay, StayStates
<1>2. TypeOK
  BY <1>1, StayAssumption DEF Init, TypeOK, Buckets
<1>3. \A f \in Facilities, d \in Days, state \in Live :
          Cardinality(Heads(stays, f, d, state)) = 0
  <2>1. \A f \in Facilities, d \in Days, state \in Live : Heads(stays, f, d, state) = {}
    BY DEF Init, Heads, Covers, Absent, Live
  <2> QED
    BY <2>1, FS_EmptySet
<1>4. Agree(held, occupied, stays)
  BY <1>3 DEF Agree, Init, Live
<1>5. Bounded(held, occupied)
  BY StayAssumption DEF Bounded, Init, Buckets
<1>6. Ordered(stays)
  BY DEF Ordered, Init, Absent
<1> QED
  BY <1>2, <1>4, <1>5, <1>6 DEF IInv

\* Every step of the specification preserves the invariant.
LEMMA NextIInv == IInv /\ [Next]_vars => IInv'
<1> SUFFICES ASSUME IInv, [Next]_vars PROVE IInv'
  OBVIOUS
<1>1. ASSUME NEW s \in StayIds, Request(s) PROVE IInv'
  BY <1>1, ReserveStep, ArriveStep, CancelStep, DepartStep, ExtendStep, TransferStep,
     CorrectStep DEF Request
<1>2. ASSUME NEW w \in Workers, NEW now \in Nows, Tick(w, now) PROVE IInv'
  BY <1>2, QuietStep, StayAssumption DEF Tick, Nows, FirstIds, DueAt, IInv, TypeOK
<1>3. ASSUME NEW w \in Workers, NEW s \in StayIds, Expire(w, s) PROVE IInv'
  BY <1>3, ExpireStep
<1>4. ASSUME NEW w \in Workers, WorkerCrash(w) PROVE IInv'
  BY <1>4, QuietStep, StayAssumption DEF WorkerCrash, IInv, TypeOK
<1>5. ASSUME Advance PROVE IInv'
  <2>1. clock' \in 0..MaxTime
    BY <1>5, StayAssumption DEF Advance, IInv, TypeOK
  <2> QED
    BY <1>5, <2>1, QuietStep DEF Advance, IInv, TypeOK, workerVars
<1>6. ASSUME UNCHANGED vars PROVE IInv'
  BY <1>6, QuietStep DEF vars, IInv, TypeOK
<1> QED
  BY <1>1, <1>2, <1>3, <1>4, <1>5, <1>6 DEF Next, Work

\* The inductive invariant holds in every reachable state.
THEOREM Inductive == Spec => []IInv
BY InitIInv, NextIInv, PTL DEF Spec

\* Every variable keeps its type: in particular no counter goes below zero.
THEOREM TypeCorrect == Spec => []TypeOK
<1>1. IInv => TypeOK
  BY DEF IInv
<1> QED
  BY Inductive, <1>1, PTL

\* The counters of every inventory row always equal the number of people whose
\* reserved or arrived stay covers the row.
THEOREM PlacesConserved == Spec => []Conservation
<1>1. IInv => Conservation
  BY DEF IInv, Agree, Conservation
<1> QED
  BY Inductive, <1>1, PTL

\* No facility is ever overbooked on any date.
THEOREM NeverOverbooked == Spec => []NoOverbooking
<1>1. IInv => NoOverbooking
  BY DEF IInv, Agree, Bounded, NoOverbooking
<1> QED
  BY Inductive, <1>1, PTL

\* A live stay can always release its places.
THEOREM AlwaysReleasable == Spec => []Releasable
<1>1. ASSUME IInv, NEW s \in StayIds, stays[s].state \in Live
      PROVE  AdjustOK(held, occupied, stays[s].facility, StayDates(stays[s]),
                      HeldPart(stays[s].state, -stays[s].party),
                      OccupiedPart(stays[s].state, -stays[s].party))
  <2> DEFINE st == stays[s]
  <2>1. /\ stays \in [StayIds -> Stay] /\ st.party \in Nat /\ st.facility \in Facilities
        /\ st.start \in Int /\ st.end \in Int
    BY <1>1, StayAssumption DEF IInv, TypeOK, Stay
  <2>2. ASSUME NEW d \in StayDates(st)
        PROVE  /\ held[st.facility][d] + HeldPart(st.state, -st.party) >= 0
               /\ occupied[st.facility][d] + OccupiedPart(st.state, -st.party) >= 0
               /\ held[st.facility][d] + HeldPart(st.state, -st.party)
                  + occupied[st.facility][d] + OccupiedPart(st.state, -st.party)
                  <= Capacity[st.facility][d]
    <3>1. d \in Days /\ Weight(st, st.facility, d, st.state) = st.party
      BY <2>1 DEF StayDates, DateRange, Weight, Covers
    <3>2. Cardinality(Heads(stays, st.facility, d, st.state)) >= st.party
      BY <2>1, <3>1, HeadSplit
    <3>3. /\ held[st.facility][d] = Cardinality(Heads(stays, st.facility, d, "RESERVED"))
          /\ occupied[st.facility][d] = Cardinality(Heads(stays, st.facility, d, "ARRIVED"))
          /\ held[st.facility][d] + occupied[st.facility][d] <= Capacity[st.facility][d]
          /\ held[st.facility][d] \in Nat /\ occupied[st.facility][d] \in Nat
          /\ Capacity[st.facility][d] \in Nat
      BY <1>1, <2>1, <3>1, StayAssumption DEF IInv, TypeOK, Buckets, Agree, Bounded
    <3> HIDE DEF st
    <3> QED
      BY <1>1, <2>1, <3>2, <3>3 DEF HeldPart, OccupiedPart, Live, st
  <2> QED
    BY <2>2 DEF AdjustOK
<1>2. IInv => Releasable
  BY <1>1 DEF Releasable
<1> QED
  BY Inductive, <1>2, PTL

-----------------------------------------------------------------------------
(***************************************************************************)
(* Rows and their history.                                                 *)
(***************************************************************************)
\* A row that does not change is disciplined.
LEMMA SameRow ==
    ASSUME IInv, NEW s \in StayIds, stays'[s] = stays[s]
    PROVE  RowStep(s)
BY StayAssumption DEF RowStep, IInv, TypeOK, Stay, Live, Terminal

\* Every step treats every row as RowStep says.
LEMMA NextRows ==
    ASSUME IInv, [Next]_vars
    PROVE  \A s \in StayIds : RowStep(s)
<1>1. stays \in [StayIds -> Stay]
  BY DEF IInv, TypeOK
<1>2. ASSUME NEW s \in StayIds, NEW f \in Facilities, NEW p \in 1..MaxParty, NEW start \in Days,
             NEW end, NEW now \in Nows, Reserve(s, f, p, start, end, now)
      PROVE  \A u \in StayIds : RowStep(u)
  BY <1>1, <1>2, SameRow DEF Reserve, RowStep, Live, Terminal
<1>3. ASSUME NEW s \in StayIds, NEW now \in Nows, Arrive(s, now)
      PROVE  \A u \in StayIds : RowStep(u)
  BY <1>1, <1>3, SameRow DEF Arrive, SetState, RowStep, Live, Terminal, Stay
<1>4. ASSUME NEW s \in StayIds, Cancel(s)
      PROVE  \A u \in StayIds : RowStep(u)
  BY <1>1, <1>4, SameRow DEF Cancel, SetState, RowStep, Live, Terminal, Stay
<1>5. ASSUME NEW s \in StayIds, Depart(s)
      PROVE  \A u \in StayIds : RowStep(u)
  BY <1>1, <1>5, SameRow DEF Depart, SetState, RowStep, Live, Terminal, Stay
<1>6. ASSUME NEW s \in StayIds, NEW newEnd \in 1..(NumDays + 1), Extend(s, newEnd)
      PROVE  \A u \in StayIds : RowStep(u)
  BY <1>1, <1>6, SameRow, StayAssumption DEF Extend, RowStep, Live, Terminal, Stay
<1>7. ASSUME NEW s \in StayIds, NEW t \in StayIds \ {s}, NEW newF \in Facilities,
             NEW now \in Nows, Transfer(s, t, newF, now)
      PROVE  \A u \in StayIds : RowStep(u)
  <2>1. /\ stays[s].state \in Live /\ stays[t].state = "ABSENT"
        /\ \A u \in StayIds \ {s, t} : stays'[u] = stays[u]
        /\ stays'[s] = [stays[s] EXCEPT !.state = "DEPARTED"]
        /\ stays'[t] = [state |-> "RESERVED", facility |-> newF, party |-> stays[s].party,
                        start |-> stays[s].start, end |-> stays[s].end,
                        expiresAt |-> HoldExpiry(now), from |-> s]
    BY <1>1, <1>7 DEF Transfer
  <2>2. RowStep(t)
    BY <2>1 DEF RowStep, Live, Terminal
  <2>3. RowStep(s)
    BY <1>1, <2>1 DEF RowStep, Live, Terminal, Stay
  <2> QED
    BY <2>1, <2>2, <2>3, SameRow
<1>8. ASSUME NEW s \in StayIds, NEW p \in 1..MaxParty, Correct(s, p)
      PROVE  \A u \in StayIds : RowStep(u)
  BY <1>1, <1>8, SameRow, StayAssumption DEF Correct, RowStep, Live, Terminal, Stay
<1>9. ASSUME NEW w \in Workers, NEW s \in StayIds, Expire(w, s)
      PROVE  \A u \in StayIds : RowStep(u)
  <2>1. CASE UNCHANGED stays
    BY <2>1, SameRow
  <2>2. CASE stays[s].state = "RESERVED" /\ SetState(s, "EXPIRED")
    BY <1>1, <2>2, SameRow DEF SetState, RowStep, Live, Terminal, Stay
  <2> QED
    BY <1>9, <2>1, <2>2 DEF Expire
<1>10. ASSUME UNCHANGED stays
       PROVE  \A u \in StayIds : RowStep(u)
  BY <1>10, SameRow
<1> QED
  BY <1>2, <1>3, <1>4, <1>5, <1>6, <1>7, <1>8, <1>9, <1>10
  DEF Next, Request, Work, Tick, WorkerCrash, Advance, vars

\* Terminal rows never change, live ones keep facility, first date and deadline and
\* never lose a date or gain a person, and a hold departs only by a transfer.
THEOREM RowsDisciplined == Spec => RowDiscipline
<1>1. IInv /\ [Next]_vars => [\A s \in StayIds : RowStep(s)]_vars
  BY NextRows
<1> QED
  BY Inductive, <1>1, PTL DEF Spec, RowDiscipline

-----------------------------------------------------------------------------
\* What expiry and succession rest on: a worker's instant is not in the future,
\* and a row that does not exist yet continues nothing.
History ==
    /\ \A w \in Workers : tickNow[w] <= clock
    /\ NeverExpiredEarly
    /\ \A s \in StayIds : stays[s].state = "ABSENT" => stays[s].from = NoStay
    /\ SingleSuccessor

\* A step that neither creates a row nor rewrites an origin keeps the history when
\* the rows it expires are due.
LEMMA HistoryKept ==
    ASSUME IInv, IInv', History,
           \A s \in StayIds :
               /\ stays'[s].from = stays[s].from
               /\ stays'[s].state = "ABSENT" => stays[s].state = "ABSENT"
               /\ stays[s].state = "DEPARTED" => stays'[s].state = "DEPARTED"
               /\ stays'[s].state = "EXPIRED" => stays'[s].expiresAt <= clock',
           \A w \in Workers : tickNow'[w] <= clock'
    PROVE  History'
<1>1. NeverExpiredEarly'
  BY DEF NeverExpiredEarly
<1>2. ASSUME NEW t \in StayIds, stays'[t].from # NoStay
      PROVE  /\ stays'[stays'[t].from].state = "DEPARTED"
             /\ \A u \in StayIds : stays'[u].from = stays'[t].from => u = t
  <2>1. stays[t].from = stays'[t].from /\ stays[t].from \in StayIds
    BY <1>2 DEF IInv, TypeOK, Stay
  <2> QED
    BY <1>2, <2>1 DEF History, SingleSuccessor
<1>3. SingleSuccessor'
  BY <1>2 DEF SingleSuccessor
<1> QED
  BY <1>1, <1>3 DEF History

\* A step that changes one existing row from a live state, keeping its origin.
LEMMA HistoryOneRow ==
    ASSUME IInv, IInv', History, NEW s \in StayIds, stays[s].state \in Live,
           \A u \in StayIds \ {s} : stays'[u] = stays[u],
           stays'[s].from = stays[s].from, stays'[s].state # "ABSENT",
           stays'[s].state = "EXPIRED" => stays'[s].expiresAt <= clock,
           UNCHANGED <<clock, tickNow>>
    PROVE  History'
<1>1. \A u \in StayIds :
          /\ stays'[u].from = stays[u].from
          /\ stays'[u].state = "ABSENT" => stays[u].state = "ABSENT"
          /\ stays[u].state = "DEPARTED" => stays'[u].state = "DEPARTED"
          /\ stays'[u].state = "EXPIRED" => stays'[u].expiresAt <= clock'
  BY DEF History, NeverExpiredEarly, Live
<1> QED
  BY <1>1, HistoryKept DEF History

\* Every step keeps the history.
LEMMA NextHistory ==
    ASSUME IInv, History, [Next]_vars
    PROVE  History'
<1>1. stays \in [StayIds -> Stay] /\ IInv'
  BY NextIInv DEF IInv, TypeOK
<1>2. ASSUME NEW s \in StayIds, NEW f \in Facilities, NEW p \in 1..MaxParty, NEW start \in Days,
             NEW end, NEW now \in Nows, Reserve(s, f, p, start, end, now)
      PROVE  History'
  <2>1. \A u \in StayIds :
            /\ stays'[u].from = stays[u].from
            /\ stays'[u].state = "ABSENT" => stays[u].state = "ABSENT"
            /\ stays[u].state = "DEPARTED" => stays'[u].state = "DEPARTED"
            /\ stays'[u].state = "EXPIRED" => stays'[u].expiresAt <= clock'
    BY <1>1, <1>2 DEF Reserve, History, NeverExpiredEarly
  <2> QED
    BY <1>1, <1>2, <2>1, HistoryKept DEF Reserve, History, workerVars
<1>3. ASSUME NEW s \in StayIds, NEW now \in Nows, Arrive(s, now)
      PROVE  History'
  BY <1>1, <1>3, HistoryOneRow DEF Arrive, SetState, Stay, Live, workerVars
<1>4. ASSUME NEW s \in StayIds, Cancel(s)
      PROVE  History'
  BY <1>1, <1>4, HistoryOneRow DEF Cancel, SetState, Stay, Live, workerVars
<1>5. ASSUME NEW s \in StayIds, Depart(s)
      PROVE  History'
  BY <1>1, <1>5, HistoryOneRow DEF Depart, SetState, Stay, Live, workerVars
<1>6. ASSUME NEW s \in StayIds, NEW newEnd \in 1..(NumDays + 1), Extend(s, newEnd)
      PROVE  History'
  BY <1>1, <1>6, HistoryOneRow DEF Extend, Stay, Live, workerVars
<1>7. ASSUME NEW s \in StayIds, NEW t \in StayIds \ {s}, NEW newF \in Facilities,
             NEW now \in Nows, Transfer(s, t, newF, now)
      PROVE  History'
  <2>1. /\ stays[s].state \in Live /\ stays[t].state = "ABSENT"
        /\ \A u \in StayIds \ {s, t} : stays'[u] = stays[u]
        /\ stays'[s].state = "DEPARTED" /\ stays'[s].from = stays[s].from
        /\ stays'[t].state = "RESERVED" /\ stays'[t].from = s
        /\ UNCHANGED <<clock, tickNow>>
    BY <1>1, <1>7 DEF Transfer, workerVars, Stay
  <2>2. NeverExpiredEarly'
    BY <2>1 DEF History, NeverExpiredEarly
  <2>3. \A u \in StayIds : stays'[u].state = "ABSENT" => stays'[u].from = NoStay
    BY <2>1 DEF History
  <2>4. \A u \in StayIds : stays[u].from # s
    \* The origin is still live, so nothing continues it yet.
    BY <2>1, StayAssumption DEF History, SingleSuccessor, Live
  <2>5. \A u \in StayIds \ {t} : stays'[u].from = stays[u].from
    BY <2>1
  <2>6. \A u \in StayIds : stays[u].state = "DEPARTED" => stays'[u].state = "DEPARTED"
    BY <2>1
  <2>7. ASSUME NEW x \in StayIds, stays'[x].from # NoStay
        PROVE  /\ stays'[stays'[x].from].state = "DEPARTED"
               /\ \A u \in StayIds : stays'[u].from = stays'[x].from => u = x
    <3>1. CASE x = t
      BY <3>1, <2>1, <2>4, <2>5
    <3>2. CASE x # t
      <4>1. /\ stays'[x].from = stays[x].from /\ stays[x].from \in StayIds
            /\ stays[x].from # s
        BY <1>1, <2>4, <2>5, <2>7, <3>2 DEF Stay
      <4> QED
        BY <4>1, <2>1, <2>5, <2>6, <2>7 DEF History, SingleSuccessor
    <3> QED
      BY <3>1, <3>2
  <2>8. SingleSuccessor'
    BY <2>7 DEF SingleSuccessor
  <2> QED
    BY <2>1, <2>2, <2>3, <2>8 DEF History
<1>8. ASSUME NEW s \in StayIds, NEW p \in 1..MaxParty, Correct(s, p)
      PROVE  History'
  BY <1>1, <1>8, HistoryOneRow DEF Correct, Stay, Live, workerVars
<1>9. ASSUME NEW w \in Workers, NEW s \in StayIds, Expire(w, s)
      PROVE  History'
  <2>1. UNCHANGED <<clock, tickNow>>
    BY <1>9 DEF Expire
  <2>2. CASE UNCHANGED stays
    BY <1>1, <2>1, <2>2, HistoryKept DEF History, NeverExpiredEarly
  <2>3. CASE /\ stays[s].state = "RESERVED" /\ tickNow[w] >= stays[s].expiresAt
             /\ SetState(s, "EXPIRED")
    <3>1. stays[s].expiresAt <= clock
      BY <1>1, <2>3, StayAssumption DEF History, IInv, TypeOK, Stay
    <3>2. /\ \A u \in StayIds \ {s} : stays'[u] = stays[u]
          /\ stays'[s].from = stays[s].from /\ stays'[s].state # "ABSENT"
          /\ stays'[s].expiresAt = stays[s].expiresAt
      BY <1>1, <2>3 DEF SetState, Stay
    <3> QED
      BY <1>1, <2>1, <2>3, <3>1, <3>2, HistoryOneRow DEF Live
  <2> QED
    BY <1>9, <2>2, <2>3 DEF Expire
<1>10. ASSUME UNCHANGED stays, clock' >= clock,
              \A w \in Workers : tickNow'[w] <= clock'
       PROVE  History'
  <2>1. \A u \in StayIds : stays[u].state = "EXPIRED" => stays[u].expiresAt <= clock'
    BY <1>1, <1>10, StayAssumption DEF History, NeverExpiredEarly, IInv, TypeOK, Stay
  <2> QED
    BY <1>1, <1>10, <2>1, HistoryKept
<1>11. ASSUME NEW w \in Workers, NEW now \in Nows, Tick(w, now)
       PROVE  History'
  BY <1>10, <1>11, StayAssumption DEF Tick, Nows, History, IInv, TypeOK
<1>12. ASSUME NEW w \in Workers, WorkerCrash(w)
       PROVE  History'
  BY <1>10, <1>12, StayAssumption DEF WorkerCrash, History, IInv, TypeOK
<1>13. ASSUME Advance PROVE History'
  BY <1>10, <1>13, StayAssumption DEF Advance, workerVars, History, IInv, TypeOK
<1>14. ASSUME UNCHANGED vars PROVE History'
  BY <1>10, <1>14, StayAssumption DEF vars, History, IInv, TypeOK
<1> QED
  BY <1>2, <1>3, <1>4, <1>5, <1>6, <1>7, <1>8, <1>9, <1>11, <1>12, <1>13, <1>14
  DEF Next, Request, Work

\* The history is kept in every reachable state.
THEOREM HistoryHolds == Spec => []History
<1>1. Init => History
  BY StayAssumption DEF Init, History, NeverExpiredEarly, SingleSuccessor, Absent
<1>2. IInv /\ History /\ [Next]_vars => History'
  BY NextHistory
<1> QED
  BY Inductive, <1>1, <1>2, PTL DEF Spec

\* A worker's stale instant and batch never expire a hold before its deadline.
THEOREM ExpiryIsDue == Spec => []NeverExpiredEarly
<1>1. History => NeverExpiredEarly
  BY DEF History
<1> QED
  BY HistoryHolds, <1>1, PTL

\* A transfer leaves exactly one stay to continue the commitment.
THEOREM OneSuccessor == Spec => []SingleSuccessor
<1>1. History => SingleSuccessor
  BY DEF History
<1> QED
  BY HistoryHolds, <1>1, PTL

=============================================================================
