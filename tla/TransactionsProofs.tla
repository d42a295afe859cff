-------------------------- MODULE TransactionsProofs --------------------------
(***************************************************************************)
(* Proofs about Transactions for any number of concurrent transactions,    *)
(* facilities, dates, manifests and cards: the only waits in a circle are  *)
(* for manifests of a source that is not locked, and the audit chain is    *)
(* unbroken.                                                               *)
(***************************************************************************)
EXTENDS Transactions, FiniteSetTheorems, TLAPS

\* The locks there are.
Kinds == {"key", "grant", "source", "package", "stay", "manifest", "card"}

LockIds == (Kinds \X Nat) \cup ({"inventory"} \X Nat \X Nat) \cup {Audit}

\* The order in which the statements of every transaction take their locks.
Class(l) ==
    CASE l[1] = "key" -> 0
      [] l[1] = "grant" -> 1
      [] l[1] = "source" -> 2
      [] l[1] = "package" -> 3
      [] l[1] = "stay" -> 4
      [] l[1] = "manifest" -> 5
      [] l[1] = "card" -> 6
      [] l[1] = "inventory" -> 7
      [] l[1] = "advisory" -> 8

Less(y, x) ==
    \/ Class(y) < Class(x)
    \/ /\ Class(y) = 7 /\ Class(x) = 7
       /\ y[2] < x[2] \/ (y[2] = x[2] /\ y[3] < x[3])

\* Manifests, and cards, are taken in any order among themselves.
AtMost(y, x) == Less(y, x) \/ (Class(y) = Class(x) /\ Class(x) \in {5, 6})

\* Whoever has a card has its source.
CardGuard(l) == <<"source", CardSource[l[2]]>>
Guarded(L) == \A l \in L : l[1] = "card" => CardGuard(l) \in L

\* A transaction that has taken the locks of seen may next ask for x: it has x
\* already, or x is not below any it has.
InOrder(seen, x) ==
    /\ x[1] = "card" => CardGuard(x) \in seen
    /\ x \in seen \/ \A y \in seen : AtMost(y, x)

Before(L, p, i) == L \cup {p[j] : j \in 1..(i - 1)}

\* The plan p, begun with the locks L, asks for every lock in order.
Ordered(L, p) == \A i \in 1..Len(p) : InOrder(Before(L, p, i), p[i])

Ran(p) == {p[j] : j \in 1..Len(p)}

-----------------------------------------------------------------------------
\* Every lock has a place in the order.
LEMMA ClassType == ASSUME NEW l \in LockIds PROVE Class(l) \in 0..8
BY DEF Class, LockIds, Kinds, Audit

\* The order of the locks is irreflexive.
LEMMA LessIrreflexive == ASSUME NEW l \in LockIds PROVE ~Less(l, l)
<1>1. Class(l) \in 0..8
  BY ClassType
<1>2. Class(l) = 7 => l[2] \in Nat /\ l[3] \in Nat
  BY DEF Class, LockIds, Kinds, Audit
<1> QED
  BY <1>1, <1>2 DEF Less

\* The order of the locks is transitive.
LEMMA LessTransitive ==
    ASSUME NEW x \in LockIds, NEW y \in LockIds, NEW z \in LockIds, Less(x, y), Less(y, z)
    PROVE  Less(x, z)
<1>1. Class(x) \in 0..8 /\ Class(y) \in 0..8 /\ Class(z) \in 0..8
  BY ClassType
<1>2. ASSUME NEW l \in LockIds, Class(l) = 7 PROVE l[2] \in Nat /\ l[3] \in Nat
  BY <1>2 DEF Class, LockIds, Kinds, Audit
<1> QED
  BY <1>1, <1>2 DEF Less

\* Taking the next lock of an ordered plan leaves an ordered plan.
LEMMA OrderedTail ==
    ASSUME NEW L, NEW p \in Seq(LockIds), p # <<>>, Ordered(L, p)
    PROVE  /\ InOrder(L, Head(p))
           /\ Ordered(L \cup {Head(p)}, Tail(p))
           /\ Ordered(L \cup {Head(p)}, p)
<1>1. Len(p) \in Nat /\ Len(p) >= 1 /\ Head(p) = p[1] /\ Tail(p) \in Seq(LockIds)
      /\ Len(Tail(p)) = Len(p) - 1 /\ \A i \in 1..(Len(p) - 1) : Tail(p)[i] = p[i + 1]
  OBVIOUS
<1>2. InOrder(L, Head(p))
  <2>1. Before(L, p, 1) = L
    BY DEF Before
  <2> QED
    BY <1>1, <2>1 DEF Ordered
<1>3. ASSUME NEW i \in 1..Len(Tail(p))
      PROVE  InOrder(Before(L \cup {Head(p)}, Tail(p), i), Tail(p)[i])
  <2>1. Before(L \cup {Head(p)}, Tail(p), i) = Before(L, p, i + 1)
    <3>1. ASSUME NEW j \in 1..(i - 1) PROVE Tail(p)[j] = p[j + 1] /\ j + 1 \in 1..i
      BY <1>1
    <3>2. ASSUME NEW j \in 1..i, j # 1 PROVE j - 1 \in 1..(i - 1) /\ Tail(p)[j - 1] = p[j]
      BY <1>1, <3>2
    <3> QED
      BY <1>1, <3>1, <3>2 DEF Before
  <2> QED
    BY <1>1, <2>1 DEF Ordered
<1>4. ASSUME NEW i \in 1..Len(p)
      PROVE  InOrder(Before(L \cup {Head(p)}, p, i), p[i])
  <2>1. CASE i = 1
    BY <1>1, <1>2, <2>1 DEF InOrder, Before
  <2>2. CASE i # 1
    <3>1. Before(L \cup {Head(p)}, p, i) = Before(L, p, i)
      BY <1>1, <2>2 DEF Before
    <3> QED
      BY <3>1 DEF Ordered
  <2> QED
    BY <2>1, <2>2
<1> QED
  BY <1>2, <1>3, <1>4 DEF Ordered

\* A plan may be laid out in two parts.
LEMMA OrderedConcat ==
    ASSUME NEW L, NEW p \in Seq(LockIds), NEW q \in Seq(LockIds),
           NEW M, M = L \cup Ran(p), Ordered(L, p), Ordered(M, q)
    PROVE  p \o q \in Seq(LockIds) /\ Ordered(L, p \o q) /\ Ran(p \o q) = Ran(p) \cup Ran(q)
<1> DEFINE n == Len(p)
           m == Len(q)
           r == p \o q
<1>1. /\ n \in Nat /\ m \in Nat /\ r \in Seq(LockIds) /\ Len(r) = n + m
      /\ \A i \in 1..n : r[i] = p[i]
      /\ \A i \in 1..m : r[n + i] = q[i]
  OBVIOUS
<1>2. \A i \in (n + 1)..(n + m) : i - n \in 1..m /\ r[i] = q[i - n]
  <2>1. ASSUME NEW i \in (n + 1)..(n + m) PROVE i - n \in 1..m /\ r[i] = q[i - n]
    <3>1. i - n \in 1..m /\ n + (i - n) = i
      BY <1>1
    <3> QED
      BY <1>1, <3>1
  <2> QED
    BY <2>1
<1>3. Ran(r) = Ran(p) \cup Ran(q)
  <2> HIDE DEF r, n, m
  <2>1. ASSUME NEW i \in 1..Len(r) PROVE r[i] \in Ran(p) \cup Ran(q)
    <3>1. CASE i \in 1..n
      BY <1>1, <3>1 DEF Ran, n
    <3>2. CASE i \notin 1..n
      <4>1. i \in (n + 1)..(n + m)
        BY <1>1, <3>2
      <4> QED
        BY <1>2, <4>1 DEF Ran, m
    <3> QED
      BY <3>1, <3>2
  <2>2. ASSUME NEW i \in 1..n PROVE p[i] \in Ran(r)
    BY <1>1 DEF Ran
  <2>3. ASSUME NEW i \in 1..m PROVE q[i] \in Ran(r)
    <3>1. n + i \in 1..Len(r) /\ r[n + i] = q[i]
      BY <1>1
    <3> QED
      BY <3>1 DEF Ran
  <2> QED
    BY <2>1, <2>2, <2>3 DEF Ran, n, m
<1>4. ASSUME NEW i \in 1..n PROVE InOrder(Before(L, r, i), r[i])
  <2> HIDE DEF r, n
  <2>1. ASSUME NEW j \in 1..(i - 1) PROVE r[j] = p[j]
    BY <1>1
  <2>2. Before(L, r, i) = Before(L, p, i)
    BY <2>1 DEF Before
  <2> QED
    BY <1>1, <2>2 DEF Ordered, n
<1>5. ASSUME NEW i \in (n + 1)..(n + m) PROVE InOrder(Before(L, r, i), r[i])
  <2> HIDE DEF r, n, m
  <2>1. i - n \in 1..m /\ r[i] = q[i - n] /\ i \in Nat
    BY <1>1, <1>2
  <2>2. Before(L, r, i) = Before(M, q, i - n)
    <3>1. ASSUME NEW j \in 1..(i - 1) PROVE r[j] \in Ran(p) \cup {q[k] : k \in 1..((i - n) - 1)}
      <4>1. CASE j \in 1..n
        BY <1>1, <4>1 DEF Ran, n
      <4>2. CASE j \notin 1..n
        <5>1. j \in (n + 1)..(n + m) /\ j - n \in 1..((i - n) - 1)
          BY <1>1, <2>1, <4>2
        <5> QED
          BY <5>1, <1>2
      <4> QED
        BY <4>1, <4>2
    <3>2. ASSUME NEW k \in 1..n PROVE k \in 1..(i - 1) /\ r[k] = p[k]
      BY <1>1, <2>1
    <3>3. ASSUME NEW k \in 1..((i - n) - 1) PROVE n + k \in 1..(i - 1) /\ r[n + k] = q[k]
      BY <1>1, <2>1
    <3>4. \A x : x \in Before(L, r, i) => x \in Before(M, q, i - n)
      BY <3>1 DEF Before
    <3>5. \A x \in Ran(p) : x \in Before(L, r, i)
      BY <3>2 DEF Before, Ran, n
    <3>6. \A k \in 1..((i - n) - 1) : q[k] \in Before(L, r, i)
      BY <3>3 DEF Before
    <3>7. \A x : x \in Before(M, q, i - n) => x \in Before(L, r, i)
      BY <3>5, <3>6 DEF Before
    <3> QED
      BY <3>4, <3>7
  <2> QED
    BY <2>1, <2>2 DEF Ordered, m
<1> HIDE DEF r, n, m
<1>6. ASSUME NEW i \in 1..Len(r) PROVE InOrder(Before(L, r, i), r[i])
  <2>1. i \in 1..n \/ i \in (n + 1)..(n + m)
    BY <1>1
  <2> QED
    BY <2>1, <1>4, <1>5
<1>7. Ordered(L, r)
  BY <1>6 DEF Ordered
<1> QED
  BY <1>1, <1>3, <1>7 DEF r
-----------------------------------------------------------------------------
(***************************************************************************)
(* Every plan is ordered.                                                  *)
(***************************************************************************)
\* A lock that may be asked for is an ordered plan of one lock.
LEMMA OrderedOne ==
    ASSUME NEW L, NEW x \in LockIds, InOrder(L, x)
    PROVE  <<x>> \in Seq(LockIds) /\ Ordered(L, <<x>>) /\ Ran(<<x>>) = {x}
<1>1. Len(<<x>>) = 1 /\ <<x>>[1] = x /\ Before(L, <<x>>, 1) = L
  BY DEF Before
<1> QED
  BY <1>1 DEF Ordered, Ran

\* An ordered plan extended by one lock.
LEMMA OrderedAndOne ==
    ASSUME NEW L, NEW p \in Seq(LockIds), Ordered(L, p), NEW x \in LockIds, InOrder(L \cup Ran(p), x)
    PROVE  /\ p \o <<x>> \in Seq(LockIds) /\ Ordered(L, p \o <<x>>)
           /\ Ran(p \o <<x>>) = Ran(p) \cup {x}
<1> DEFINE q == <<x>>
           M == L \cup Ran(p)
<1>1. q \in Seq(LockIds) /\ Ordered(M, q) /\ Ran(q) = {x}
  BY OrderedOne
<1> HIDE DEF q
<1>2. p \o q \in Seq(LockIds) /\ Ordered(L, p \o q) /\ Ran(p \o q) = Ran(p) \cup Ran(q)
  <2>1. M = L \cup Ran(p)
    OBVIOUS
  <2> HIDE DEF M
  <2> QED
    BY <1>1, <2>1, OrderedConcat
<1> QED
  BY <1>1, <1>2, Zenon DEF q

\* The rows of an interval, for a transaction whose locks are all below them.
LEMMA OrderedRows ==
    ASSUME NEW L, NEW f \in Nat, NEW from \in 1..2,
           \A y \in L, d \in from..NumDates : Less(y, <<"inventory", f, d>>)
    PROVE  /\ InventoryRows(f, from, NumDates) \in Seq(LockIds)
           /\ Ordered(L, InventoryRows(f, from, NumDates))
           /\ Ran(InventoryRows(f, from, NumDates)) = {<<"inventory", f, d>> : d \in from..NumDates}
<1> DEFINE p == InventoryRows(f, from, NumDates)
           n == NumDates - from + 1
<1> USE TransactionsAssumption
<1>1. p = [i \in 1..n |-> <<"inventory", f, from + i - 1>>] /\ n \in Int
  BY DEF InventoryRows
<1>2. \A i \in 1..n : p[i] = <<"inventory", f, from + i - 1>> /\ from + i - 1 \in from..NumDates
                      /\ p[i] \in LockIds
  BY <1>1 DEF LockIds
<1>3. p \in Seq(LockIds) /\ Len(p) = n
  <2>1. n \in Nat
    OBVIOUS
  <2> HIDE DEF n
  <2>2. p \in [1..n -> LockIds]
    BY <1>1, <1>2
  <2> HIDE DEF p
  <2> QED
    BY <2>1, <2>2
<1> HIDE DEF p
<1>5. ASSUME NEW i \in 1..n PROVE InOrder(Before(L, p, i), p[i])
  <2>1. p[i][1] # "card" /\ Class(p[i]) = 7
    BY <1>2 DEF Class
  <2>2. ASSUME NEW y \in L PROVE Less(y, p[i])
    BY <1>2
  <2>3. ASSUME NEW j \in 1..(i - 1) PROVE Less(p[j], p[i])
    <3>1. j \in 1..n /\ from + j - 1 < from + i - 1
      BY <1>1
    <3>2. p[j] = <<"inventory", f, from + j - 1>> /\ p[i] = <<"inventory", f, from + i - 1>>
      BY <1>2, <3>1
    <3>3. Class(p[j]) = 7
      BY <3>2 DEF Class
    <3> QED
      BY <2>1, <3>1, <3>2, <3>3 DEF Less
  <2> QED
    BY <2>1, <2>2, <2>3 DEF InOrder, AtMost, Before
<1>6. ASSUME NEW d \in from..NumDates PROVE d - from + 1 \in 1..n /\ p[d - from + 1] = <<"inventory", f, d>>
  <2>1. d - from + 1 \in 1..n /\ from + (d - from + 1) - 1 = d
    OBVIOUS
  <2> QED
    BY <1>2, <2>1
<1>7. Ran(p) = {<<"inventory", f, d>> : d \in from..NumDates}
  <2>1. ASSUME NEW i \in 1..Len(p) PROVE p[i] \in {<<"inventory", f, d>> : d \in from..NumDates}
    BY <1>2, <1>3
  <2>2. ASSUME NEW d \in from..NumDates PROVE <<"inventory", f, d>> \in Ran(p)
    BY <1>3, <1>6 DEF Ran
  <2> QED
    BY <2>1, <2>2 DEF Ran
<1>8. Ordered(L, p)
  BY <1>3, <1>5 DEF Ordered
<1> QED
  BY <1>3, <1>7, <1>8 DEF p

\* Rows that are all held already.
LEMMA OrderedHeldRows ==
    ASSUME NEW L, NEW p \in Seq(LockIds), Ran(p) \subseteq L, \A y \in Ran(p) : y[1] # "card"
    PROVE  Ordered(L, p)
BY DEF Ordered, Ran, InOrder, Before

\* Two locks in order.
LEMMA OrderedTwo ==
    ASSUME NEW L, NEW a \in LockIds, NEW b \in LockIds, InOrder(L, a), InOrder(L \cup {a}, b)
    PROVE  <<a, b>> \in Seq(LockIds) /\ Ordered(L, <<a, b>>) /\ Ran(<<a, b>>) = {a, b}
<1> DEFINE p == <<a, b>>
<1>1. p \in Seq(LockIds) /\ Len(p) = 2 /\ p[1] = a /\ p[2] = b
  OBVIOUS
<1> HIDE DEF p
<1>2. Before(L, p, 1) = L /\ Before(L, p, 2) = L \cup {a}
  BY <1>1 DEF Before
<1>3. Ordered(L, p)
  <2>1. InOrder(Before(L, p, 1), p[1]) /\ InOrder(Before(L, p, 2), p[2])
    BY <1>1, <1>2
  <2>2. 1..Len(p) = {1, 2}
    BY <1>1
  <2> QED
    BY <2>1, <2>2, Zenon DEF Ordered
<1>4. Ran(p) = {a, b}
  BY <1>1 DEF Ran
<1> QED
  BY <1>1, <1>3, <1>4 DEF p

\* Three locks in order.
LEMMA OrderedThree ==
    ASSUME NEW L, NEW a \in LockIds, NEW b \in LockIds, NEW c \in LockIds,
           InOrder(L, a), InOrder(L \cup {a}, b), InOrder(L \cup {a, b}, c)
    PROVE  <<a, b, c>> \in Seq(LockIds) /\ Ordered(L, <<a, b, c>>) /\ Ran(<<a, b, c>>) = {a, b, c}
<1> DEFINE p == <<a, b, c>>
<1>1. p \in Seq(LockIds) /\ Len(p) = 3 /\ p[1] = a /\ p[2] = b /\ p[3] = c
  OBVIOUS
<1> HIDE DEF p
<1>2. Before(L, p, 1) = L /\ Before(L, p, 2) = L \cup {a} /\ Before(L, p, 3) = L \cup {a, b}
  BY <1>1 DEF Before
<1>3. Ordered(L, p)
  <2>1. /\ InOrder(Before(L, p, 1), p[1]) /\ InOrder(Before(L, p, 2), p[2])
        /\ InOrder(Before(L, p, 3), p[3])
    BY <1>1, <1>2
  <2>2. 1..Len(p) = {1, 2, 3}
    BY <1>1
  <2> QED
    BY <2>1, <2>2, Zenon DEF Ordered
<1>4. Ran(p) = {a, b, c}
  BY <1>1 DEF Ran
<1> QED
  BY <1>1, <1>3, <1>4 DEF p

\* The common shape: some locks, the rows of an interval, the audit lock.
LEMMA OrderedInventoryPlan ==
    ASSUME NEW h \in Seq(LockIds), Ordered({}, h), \A y \in Ran(h) : Class(y) < 7,
           NEW f \in Nat, NEW from \in 1..2
    PROVE  /\ h \o InventoryRows(f, from, NumDates) \o <<Audit>> \in Seq(LockIds)
           /\ Ordered({}, h \o InventoryRows(f, from, NumDates) \o <<Audit>>)
<1> DEFINE rows == InventoryRows(f, from, NumDates)
           r == h \o rows
<1>1. \A y \in Ran(h), d \in from..NumDates : Less(y, <<"inventory", f, d>>)
  BY DEF Less, Class
<1>2. /\ rows \in Seq(LockIds) /\ Ordered({} \cup Ran(h), rows)
      /\ Ran(rows) = {<<"inventory", f, d>> : d \in from..NumDates}
  BY <1>1, OrderedRows
<1> HIDE DEF rows
<1>3. r \in Seq(LockIds) /\ Ordered({}, r) /\ Ran(r) = Ran(h) \cup Ran(rows)
  BY <1>2, OrderedConcat
<1>4. \A y \in Ran(r) : Less(y, Audit)
  <2>1. \A y \in Ran(rows) : Class(y) = 7
    BY <1>2 DEF Class
  <2>2. Class(Audit) = 8
    BY DEF Class, Audit
  <2>3. \A y \in Ran(h) : Class(y) < 8
    <3>1. \A y \in Ran(h) : y \in LockIds
      BY DEF Ran
    <3> QED
      BY <3>1, ClassType
  <2> QED
    BY <1>3, <2>1, <2>2, <2>3 DEF Less
<1>5. Audit \in LockIds /\ Audit[1] # "card"
  BY DEF LockIds, Audit
<1> HIDE DEF r
<1>6. InOrder({} \cup Ran(r), Audit)
  BY <1>4, <1>5 DEF InOrder, AtMost
<1>7. r \o <<Audit>> \in Seq(LockIds) /\ Ordered({}, r \o <<Audit>>)
  BY <1>3, <1>5, <1>6, OrderedAndOne
<1> QED
  BY <1>7 DEF r, rows

\* The key and the revalidated context come before the stay and its rows.
LEMMA OrderedContext ==
    ASSUME NEW k \in Nat
    PROVE  /\ <<<<"key", k>>>> \o Context \in Seq(LockIds)
           /\ Ordered({}, <<<<"key", k>>>> \o Context)
           /\ Ran(<<<<"key", k>>>> \o Context) = {<<"key", k>>, <<"source", 1>>, <<"package", 1>>}
<1> DEFINE a == <<"key", k>>
           b == <<"source", 1>>
           c == <<"package", 1>>
           p == <<a>>
           q == <<b, c>>
<1>1. a \in LockIds /\ b \in LockIds /\ c \in LockIds
  BY DEF LockIds, Kinds
<1>2. InOrder({}, a) /\ InOrder({} \cup {a}, b) /\ InOrder(({} \cup {a}) \cup {b}, c)
  BY DEF InOrder, AtMost, Less, Class
<1> HIDE DEF a, b, c
<1>3. p \in Seq(LockIds) /\ Ordered({}, p) /\ Ran(p) = {a}
  BY <1>1, <1>2, OrderedOne
<1>4. q \in Seq(LockIds) /\ Ordered({} \cup Ran(p), q) /\ Ran(q) = {b, c}
  <2>1. q \in Seq(LockIds) /\ Ordered({} \cup {a}, q) /\ Ran(q) = {b, c}
    BY <1>1, <1>2, OrderedTwo
  <2> HIDE DEF p, q
  <2> QED
    BY <1>3, <2>1
<1> HIDE DEF p, q
<1>5. p \o q \in Seq(LockIds) /\ Ordered({}, p \o q) /\ Ran(p \o q) = Ran(p) \cup Ran(q)
  BY <1>3, <1>4, OrderedConcat
<1>6. Ran(p \o q) = {a, b, c}
  BY <1>3, <1>4, <1>5
<1> QED
  BY <1>5, <1>6 DEF Context, Gate, a, b, c, p, q

\* The context, then the stay.
LEMMA OrderedContextStay ==
    ASSUME NEW k \in Nat, NEW f \in Nat
    PROVE  /\ <<<<"key", k>>>> \o Context \o <<StayRow(f)>> \in Seq(LockIds)
           /\ Ordered({}, <<<<"key", k>>>> \o Context \o <<StayRow(f)>>)
           /\ \A y \in Ran(<<<<"key", k>>>> \o Context \o <<StayRow(f)>>) : Class(y) < 7
<1> DEFINE h == <<<<"key", k>>>> \o Context
<1>1. /\ h \in Seq(LockIds) /\ Ordered({}, h)
      /\ Ran(h) = {<<"key", k>>, <<"source", 1>>, <<"package", 1>>}
  BY OrderedContext
<1> HIDE DEF h
<1>2. StayRow(f) \in LockIds
  BY DEF StayRow, LockIds, Kinds
<1>3. InOrder({} \cup Ran(h), StayRow(f))
  BY <1>1 DEF InOrder, AtMost, Less, Class, StayRow
<1>4. /\ h \o <<StayRow(f)>> \in Seq(LockIds) /\ Ordered({}, h \o <<StayRow(f)>>)
      /\ Ran(h \o <<StayRow(f)>>) = Ran(h) \cup {StayRow(f)}
  BY <1>1, <1>2, <1>3, OrderedAndOne
<1>5. \A y \in Ran(h \o <<StayRow(f)>>) : Class(y) < 7
  BY <1>1, <1>4, SMTT(30) DEF Class, StayRow
<1> QED
  BY <1>4, <1>5 DEF h

\* Transfer takes the rows of both facilities in the order of their ids; when both are
\* the same facility the second half asks for locks it holds.
LEMMA OrderedTransferRows ==
    ASSUME NEW h \in Seq(LockIds), Ordered({}, h), \A y \in Ran(h) : Class(y) < 7,
           NEW f \in Nat, NEW g \in Nat
    PROVE  /\ h \o TransferRows(f, g, NumDates) \in Seq(LockIds)
           /\ Ordered({}, h \o TransferRows(f, g, NumDates))
           /\ \A y \in Ran(h \o TransferRows(f, g, NumDates)) : Class(y) < 8
<1>1. ASSUME NEW a \in Nat, NEW b \in Nat, a <= b
      PROVE  LET rows == InventoryRows(a, 1, NumDates) \o InventoryRows(b, 1, NumDates)
             IN  /\ h \o rows \in Seq(LockIds) /\ Ordered({}, h \o rows)
                 /\ \A y \in Ran(h \o rows) : Class(y) < 8
  <2> DEFINE p == InventoryRows(a, 1, NumDates)
             q == InventoryRows(b, 1, NumDates)
             rows == p \o q
  <2>1. \A c \in Nat, d \in 1..NumDates : Class(<<"inventory", c, d>>) = 7
    BY DEF Class
  <2>2. \A y \in Ran(h), c \in Nat, d \in 1..NumDates : Less(y, <<"inventory", c, d>>)
    BY <2>1 DEF Less
  <2>3. 1 \in 1..2
    OBVIOUS
  <2>4. /\ p \in Seq(LockIds) /\ Ordered(Ran(h), p)
        /\ Ran(p) = {<<"inventory", a, d>> : d \in 1..NumDates}
    BY <2>2, <2>3, OrderedRows
  <2>5. /\ q \in Seq(LockIds) /\ Ordered(Ran(h) \cup Ran(p), q)
        /\ Ran(q) = {<<"inventory", b, d>> : d \in 1..NumDates}
    <3>1. CASE a < b
      <4>1. \A y \in Ran(p), d \in 1..NumDates : Less(y, <<"inventory", b, d>>)
        <5> HIDE DEF p
        <5>1. ASSUME NEW e \in 1..NumDates, NEW d \in 1..NumDates
              PROVE  Less(<<"inventory", a, e>>, <<"inventory", b, d>>)
          BY <2>1, <3>1 DEF Less
        <5> QED
          BY <2>4, <5>1
      <4>2. \A y \in Ran(h) \cup Ran(p), d \in 1..NumDates : Less(y, <<"inventory", b, d>>)
        BY <2>2, <4>1
      <4> QED
        BY <2>3, <4>2, OrderedRows
    <3>2. CASE a = b
      <4>1. \A y \in Ran(p) : y[1] # "card"
        BY <2>4
      <4> HIDE DEF p
      <4>2. p \in Seq(LockIds) /\ Ran(p) \subseteq Ran(h) \cup Ran(p)
        BY <2>4
      <4>3. Ordered(Ran(h) \cup Ran(p), p)
        BY <4>1, <4>2, OrderedHeldRows
      <4> QED
        BY <2>4, <4>3, <3>2 DEF p
    <3> QED
      BY <1>1, <3>1, <3>2
  <2> HIDE DEF p, q
  <2>6. rows \in Seq(LockIds) /\ Ordered(Ran(h), rows) /\ Ran(rows) = Ran(p) \cup Ran(q)
    BY <2>4, <2>5, OrderedConcat
  <2>7. \A y \in Ran(rows) : Class(y) = 7
    BY <1>1, <2>1, <2>4, <2>5, <2>6
  <2> HIDE DEF rows
  <2>8. Ordered({} \cup Ran(h), rows)
    BY <2>6
  <2>9. h \o rows \in Seq(LockIds) /\ Ordered({}, h \o rows) /\ Ran(h \o rows) = Ran(h) \cup Ran(rows)
    BY <2>6, <2>8, OrderedConcat
  <2>10. \A y \in Ran(h) : Class(y) < 8
    <3>1. \A y \in Ran(h) : y \in LockIds
      BY DEF Ran
    <3> QED
      BY <3>1, ClassType
  <2>11. \A y \in Ran(h \o rows) : Class(y) < 8
    BY <2>7, <2>9, <2>10
  <2> QED
    BY <2>9, <2>11 DEF rows, p, q
<1>2. CASE f < g
  BY <1>1, <1>2 DEF TransferRows
<1>3. CASE ~(f < g)
  BY <1>1, <1>3 DEF TransferRows
<1> QED
  BY <1>2, <1>3

\* A plan that ends by asking for the audit lock.
LEMMA OrderedThenAudit ==
    ASSUME NEW h \in Seq(LockIds), Ordered({}, h), \A y \in Ran(h) : Class(y) < 8
    PROVE  h \o <<Audit>> \in Seq(LockIds) /\ Ordered({}, h \o <<Audit>>)
<1>1. Audit \in LockIds /\ Audit[1] # "card" /\ Class(Audit) = 8
  BY DEF LockIds, Audit, Class
<1>2. InOrder(Ran(h), Audit)
  BY <1>1 DEF InOrder, AtMost, Less
<1>3. InOrder({} \cup Ran(h), Audit)
  BY <1>2
<1> QED
  BY <1>1, <1>3, OrderedAndOne

\* A plan that has nothing left is ordered.
LEMMA OrderedEmpty == \A L : Ordered(L, <<>>)
BY DEF Ordered

\* The rows of one UPDATE, in whatever order.
LEMMA OrderedUpdate ==
    ASSUME NEW L, NEW rows \in SUBSET LockIds, IsFiniteSet(rows), NEW c \in {5, 6},
           \A y \in rows : Class(y) = c, \A y \in L : Class(y) \in 0..c,
           \A y \in rows : y[1] = "card" => CardGuard(y) \in L,
           NEW q \in RowOrders(rows)
    PROVE  q \in Seq(LockIds) /\ Ordered(L, q) /\ Ran(q) \subseteq rows
<1>1. Cardinality(rows) \in Nat
  BY FS_CardinalityType
<1>2. q \in [1..Cardinality(rows) -> rows]
  BY DEF RowOrders, Injection
<1>3. q \in Seq(LockIds) /\ Len(q) = Cardinality(rows) /\ \A i \in 1..Len(q) : q[i] \in rows
  BY <1>1, <1>2
<1>4. Ran(q) \subseteq rows
  BY <1>3 DEF Ran
<1>5. ASSUME NEW i \in 1..Len(q) PROVE InOrder(Before(L, q, i), q[i])
  <2>1. q[i] \in rows /\ Class(q[i]) = c
    BY <1>3
  <2>2. ASSUME NEW y \in Before(L, q, i) PROVE AtMost(y, q[i])
    <3>1. CASE y \in L
      BY <2>1, <3>1 DEF AtMost, Less
    <3>2. CASE y \notin L
      <4>1. PICK j \in 1..(i - 1) : y = q[j]
        BY <2>2, <3>2 DEF Before
      <4>2. y \in rows
        BY <1>3, <4>1
      <4> QED
        BY <2>1, <4>2 DEF AtMost
    <3> QED
      BY <3>1, <3>2
  <2>3. q[i][1] = "card" => CardGuard(q[i]) \in Before(L, q, i)
    BY <2>1 DEF Before
  <2> QED
    BY <2>2, <2>3 DEF InOrder
<1> QED
  BY <1>3, <1>4, <1>5 DEF Ordered

\* The manifests and the cards of a source are finitely many locks.
LEMMA RowSets ==
    /\ ManifestRows \subseteq LockIds /\ IsFiniteSet(ManifestRows)
    /\ \A y \in ManifestRows : Class(y) = 5 /\ y[1] # "card"
    /\ \A s : /\ ManifestRowsOf(s) \subseteq ManifestRows /\ IsFiniteSet(ManifestRowsOf(s))
              /\ CardRowsOf(s) \subseteq LockIds /\ IsFiniteSet(CardRowsOf(s))
              /\ \A y \in CardRowsOf(s) : Class(y) = 6 /\ CardGuard(y) = <<"source", s>>
    /\ Sources \subseteq Nat
<1> USE TransactionsAssumption
<1> DEFINE cards == {<<"card", c>> : c \in DOMAIN CardSource}
<1>1. ManifestRows \subseteq LockIds /\ \A y \in ManifestRows : Class(y) = 5 /\ y[1] # "card"
  BY DEF ManifestRows, LockIds, Kinds, Class
<1>2. cards \subseteq LockIds /\ \A y \in cards : Class(y) = 6
  BY DEF LockIds, Kinds, Class
<1>3. IsFiniteSet(ManifestRows)
  <2> DEFINE f == [m \in DOMAIN ManifestSource |-> <<"manifest", m>>]
  <2>1. f \in Surjection(DOMAIN ManifestSource, ManifestRows)
    BY DEF Surjection, ManifestRows
  <2> QED
    BY <2>1, FS_Surjection
<1>4. IsFiniteSet(cards)
  <2> DEFINE f == [c \in DOMAIN CardSource |-> <<"card", c>>]
  <2>1. f \in Surjection(DOMAIN CardSource, cards)
    BY DEF Surjection
  <2> QED
    BY <2>1, FS_Surjection
<1>5. ASSUME NEW s
      PROVE  /\ ManifestRowsOf(s) \subseteq ManifestRows
             /\ CardRowsOf(s) \subseteq cards
             /\ \A y \in CardRowsOf(s) : CardGuard(y) = <<"source", s>>
  BY DEF ManifestRowsOf, CardRowsOf, CardGuard
<1> HIDE DEF cards
<1>6. ASSUME NEW s
      PROVE  IsFiniteSet(ManifestRowsOf(s)) /\ IsFiniteSet(CardRowsOf(s))
  BY <1>3, <1>4, <1>5, FS_Subset
<1>7. Sources \subseteq Nat
  BY DEF Sources
<1> QED
  BY <1>1, <1>2, <1>3, <1>5, <1>6, <1>7

\* Every plan of every kind of transaction asks for its locks in order.
LEMMA PlansOrdered == \A p \in Plans : p \in Seq(LockIds) /\ Ordered({}, p)
<1>0. Facilities \subseteq Nat
  BY TransactionsAssumption
<1> USE <1>0
<1> DEFINE Good(p) == p \in Seq(LockIds) /\ Ordered({}, p)
<1>k. ASSUME NEW c \in Kinds, NEW k \in Nat PROVE <<c, k>> \in LockIds
  BY DEF LockIds
<1>i. ASSUME NEW f \in Facilities, NEW h \in Seq(LockIds), Ordered({}, h),
             \A y \in Ran(h) : Class(y) < 7
      PROVE  /\ Good(h \o InventoryRows(f, 1, NumDates) \o <<Audit>>)
             /\ Good(h \o InventoryRows(f, 2, NumDates) \o <<Audit>>)
  <2>1. f \in Nat /\ 1 \in 1..2 /\ 2 \in 1..2
    OBVIOUS
  <2> QED
    BY <1>i, <2>1, OrderedInventoryPlan, Zenon
<1>1. ASSUME NEW f \in Facilities
      PROVE  Good(<<<<"key", 1>>>> \o Context \o InventoryRows(f, 1, NumDates) \o <<Audit>>)
  <2> DEFINE h == <<<<"key", 1>>>> \o Context
  <2>1. /\ h \in Seq(LockIds) /\ Ordered({}, h)
        /\ Ran(h) = {<<"key", 1>>, <<"source", 1>>, <<"package", 1>>}
    BY OrderedContext
  <2> HIDE DEF h
  <2>3. \A y \in Ran(h) : Class(y) < 7
    BY <2>1 DEF Class
  <2>2. Good(h \o InventoryRows(f, 1, NumDates) \o <<Audit>>)
    BY <2>1, <2>3, <1>i, Zenon
  <2> QED
    BY <2>2 DEF h
<1>2. ASSUME NEW f \in Facilities
      PROVE  Good(<<<<"key", 1>>, StayRow(f)>> \o InventoryRows(f, 1, NumDates) \o <<Audit>>)
  <2> DEFINE h == <<<<"key", 1>>, StayRow(f)>>
  <2>1. <<"key", 1>> \in LockIds /\ StayRow(f) \in LockIds
    BY <1>k DEF Kinds, StayRow
  <2>2. InOrder({}, <<"key", 1>>) /\ InOrder({} \cup {<<"key", 1>>}, StayRow(f))
    BY DEF InOrder, AtMost, Less, Class, StayRow
  <2>3. h \in Seq(LockIds) /\ Ordered({}, h) /\ Ran(h) = {<<"key", 1>>, StayRow(f)}
    BY <2>1, <2>2, OrderedTwo
  <2> HIDE DEF h
  <2>4. \A y \in Ran(h) : Class(y) < 7
    BY <2>3 DEF Class, StayRow
  <2>5. Good(h \o InventoryRows(f, 1, NumDates) \o <<Audit>>)
    BY <2>3, <2>4, <1>i, Zenon
  <2> QED
    BY <2>5 DEF h
<1>3. ASSUME NEW f \in Facilities
      PROVE  Good(<<StayRow(f)>> \o InventoryRows(f, 1, NumDates) \o <<Audit>>)
  <2> DEFINE h == <<StayRow(f)>>
  <2>1. StayRow(f) \in LockIds
    BY <1>k DEF Kinds, StayRow
  <2>2. InOrder({}, StayRow(f))
    BY DEF InOrder, StayRow
  <2>3. h \in Seq(LockIds) /\ Ordered({}, h) /\ Ran(h) = {StayRow(f)}
    BY <2>1, <2>2, OrderedOne
  <2> HIDE DEF h
  <2>4. \A y \in Ran(h) : Class(y) < 7
    BY <2>3 DEF Class, StayRow
  <2>5. Good(h \o InventoryRows(f, 1, NumDates) \o <<Audit>>)
    BY <2>3, <2>4, <1>i, Zenon
  <2> QED
    BY <2>5 DEF h
<1>4. ASSUME NEW f \in Facilities
      PROVE  Good(<<<<"key", 1>>>> \o Context \o <<StayRow(f)>> \o InventoryRows(f, 2, NumDates) \o <<Audit>>)
  <2> DEFINE h == <<<<"key", 1>>>> \o Context \o <<StayRow(f)>>
  <2>1. h \in Seq(LockIds) /\ Ordered({}, h) /\ \A y \in Ran(h) : Class(y) < 7
    BY OrderedContextStay
  <2> HIDE DEF h
  <2>2. Good(h \o InventoryRows(f, 2, NumDates) \o <<Audit>>)
    BY <2>1, <1>i, Zenon
  <2> QED
    BY <2>2 DEF h
<1>5. ASSUME NEW f \in Facilities, NEW g \in Facilities
      PROVE  Good(<<<<"key", f>>>> \o Context \o <<StayRow(f)>> \o TransferRows(f, g, NumDates) \o <<Audit, Audit>>)
  <2> DEFINE h == <<<<"key", f>>>> \o Context \o <<StayRow(f)>>
             r == h \o TransferRows(f, g, NumDates)
             q == <<Audit, Audit>>
  <2>1. h \in Seq(LockIds) /\ Ordered({}, h) /\ \A y \in Ran(h) : Class(y) < 7
    BY OrderedContextStay
  <2> HIDE DEF h
  <2>2. r \in Seq(LockIds) /\ Ordered({}, r) /\ \A y \in Ran(r) : Class(y) < 8
    BY <2>1, OrderedTransferRows
  <2> HIDE DEF r
  <2>3. Audit \in LockIds /\ Audit[1] # "card" /\ Class(Audit) = 8
    BY DEF LockIds, Audit, Class
  <2>4. InOrder(Ran(r), Audit) /\ InOrder(Ran(r) \cup {Audit}, Audit)
    BY <2>2, <2>3 DEF InOrder, AtMost, Less
  <2>5. q \in Seq(LockIds) /\ Ordered(Ran(r), q)
    BY <2>3, <2>4, OrderedTwo
  <2> HIDE DEF q
  <2>6. Good(r \o q)
    BY <2>2, <2>5, OrderedConcat
  <2> QED
    BY <2>6 DEF h, r, q
<1>6. ASSUME NEW f \in Facilities
      PROVE  Good(<<<<"key", 1>>, <<"grant", 1>>, StayRow(f)>> \o InventoryRows(f, 1, NumDates) \o <<Audit>>)
  <2> DEFINE a == <<"key", 1>>
             b == <<"grant", 1>>
             h == <<a, b, StayRow(f)>>
  <2>1. a \in LockIds /\ b \in LockIds /\ StayRow(f) \in LockIds
    BY <1>k DEF Kinds, StayRow
  <2>2. InOrder({}, a) /\ InOrder({} \cup {a}, b) /\ InOrder({} \cup {a, b}, StayRow(f))
    BY DEF InOrder, AtMost, Less, Class, StayRow
  <2>3. h \in Seq(LockIds) /\ Ordered({}, h) /\ Ran(h) = {a, b, StayRow(f)}
    <3> HIDE DEF a, b
    <3> QED
      BY <2>1, <2>2, OrderedThree
  <2> HIDE DEF h
  <2>4. \A y \in Ran(h) : Class(y) < 7
    BY <2>3 DEF Class, StayRow
  <2>5. Good(h \o InventoryRows(f, 1, NumDates) \o <<Audit>>)
    BY <2>3, <2>4, <1>i, Zenon
  <2> QED
    BY <2>5 DEF h
<1>t. \A a \in LockIds, b \in LockIds, c \in LockIds :
          InOrder({}, a) /\ InOrder({} \cup {a}, b) /\ InOrder({} \cup {a, b}, c) =>
              <<a, b, c>> \in Seq(LockIds) /\ Ordered({}, <<a, b, c>>) /\ Ran(<<a, b, c>>) = {a, b, c}
  BY OrderedThree
<1>s. ASSUME NEW g \in Seq(LockIds), Ordered({}, g), NEW l \in LockIds, InOrder(Ran(g), l)
      PROVE  g \o <<l>> \in Seq(LockIds) /\ Ordered({}, g \o <<l>>) /\ Ran(g \o <<l>>) = Ran(g) \cup {l}
  <2> DEFINE L == {}
             r == g \o <<l>>
  <2>1. InOrder(L \cup Ran(g), l) /\ Ordered(L, g)
    BY <1>s
  <2>2. r \in Seq(LockIds) /\ Ordered(L, r) /\ Ran(r) = Ran(g) \cup {l}
    <3> HIDE DEF L
    <3> QED
      BY <1>s, <2>1, OrderedAndOne
  <2> QED
    BY <2>2
<1>7. ASSUME NEW s \in Sources, NEW ms \in {<<>>} \cup RowOrders(ManifestRowsOf(s)),
             NEW cs \in {<<>>} \cup RowOrders(CardRowsOf(s))
      PROVE  Good(TransitionPlan(s, ms, cs))
  <2> DEFINE a == <<"key", 2>>
             b == <<"grant", 1>>
             c == <<"source", s>>
             h == <<a, b, c>>
             r == h \o ms
             w == r \o cs
  <2>1. a \in LockIds /\ b \in LockIds /\ c \in LockIds
    BY <1>k, RowSets DEF Kinds
  <2>2. /\ InOrder({}, a) /\ InOrder({} \cup {a}, b) /\ InOrder({} \cup {a, b}, c)
    BY DEF InOrder, AtMost, Less, Class
  <2>c. Class(a) = 0 /\ Class(b) = 1 /\ Class(c) = 2
    BY DEF Class
  <2>3. h \in Seq(LockIds) /\ Ordered({}, h) /\ Ran(h) = {a, b, c}
    BY <2>1, <2>2, <1>t, Zenon
  <2> HIDE DEF h
  <2> HIDE DEF a, b, c
  <2>4. c \in Ran(h) /\ \A y \in Ran(h) : Class(y) \in 0..5
    BY <2>c, <2>3
  <2>13. /\ \A y \in ManifestRows : Class(y) = 5
         /\ \A y \in CardRowsOf(s) : Class(y) = 6 /\ CardGuard(y) = c
    BY RowSets DEF c
  <2>5. ms \in Seq(LockIds) /\ Ordered(Ran(h), ms) /\ Ran(ms) \subseteq ManifestRows
    <3>1. CASE ms = <<>>
      BY <3>1, OrderedEmpty DEF Ran
    <3>2. CASE ms \in RowOrders(ManifestRowsOf(s))
      <4>1. /\ ManifestRowsOf(s) \in SUBSET LockIds /\ IsFiniteSet(ManifestRowsOf(s))
            /\ \A y \in ManifestRowsOf(s) : Class(y) = 5 /\ y[1] # "card"
        BY RowSets
      <4>2. ms \in Seq(LockIds) /\ Ordered(Ran(h), ms) /\ Ran(ms) \subseteq ManifestRowsOf(s)
        BY <2>4, <3>2, <4>1, OrderedUpdate
      <4> QED
        BY <4>2, RowSets
    <3> QED
      BY <3>1, <3>2
  <2>6. /\ r \in Seq(LockIds) /\ Ordered({}, r)
        /\ Ran(r) = Ran(h) \cup Ran(ms)
    <3>1. Ordered({} \cup Ran(h), ms)
      BY <2>5
    <3> QED
      BY <2>3, <2>5, <3>1, OrderedConcat
  <2>7. c \in Ran(r) /\ \A y \in Ran(r) : Class(y) \in 0..6
    BY <2>4, <2>5, <2>6, <2>13
  <2> HIDE DEF r
  <2>8. cs \in Seq(LockIds) /\ Ordered(Ran(r), cs) /\ Ran(cs) \subseteq CardRowsOf(s)
    <3>1. CASE cs = <<>>
      BY <3>1, OrderedEmpty DEF Ran
    <3>2. CASE cs \in RowOrders(CardRowsOf(s))
      <4>1. /\ CardRowsOf(s) \in SUBSET LockIds /\ IsFiniteSet(CardRowsOf(s))
            /\ \A y \in CardRowsOf(s) : Class(y) = 6 /\ CardGuard(y) \in Ran(r)
        BY <2>7, <2>13, RowSets
      <4> QED
        BY <2>7, <3>2, <4>1, OrderedUpdate
    <3> QED
      BY <3>1, <3>2
  <2>9. /\ w \in Seq(LockIds) /\ Ordered({}, w)
        /\ Ran(w) = Ran(r) \cup Ran(cs)
    <3>1. Ordered({} \cup Ran(r), cs)
      BY <2>8
    <3> QED
      BY <2>6, <2>8, <3>1, OrderedConcat
  <2>10. \A y \in Ran(w) : Class(y) < 8
    BY <2>7, <2>8, <2>9, <2>13
  <2> HIDE DEF w
  <2>11. Good(w \o <<Audit>>)
    BY <2>9, <2>10, OrderedThenAudit
  <2> QED
    BY <2>11 DEF TransitionPlan, w, r, h, a, b, c
<1>8. ASSUME NEW s \in Sources, NEW u \in Sources
      PROVE  LET g == <<<<"source", s>>, <<"package", u>>>>
             IN  Good(g) /\ Ran(g) = {<<"source", s>>, <<"package", u>>}
  <2> DEFINE a == <<"source", s>>
             b == <<"package", u>>
  <2>1. a \in LockIds /\ b \in LockIds
    BY <1>k, RowSets DEF Kinds
  <2>2. InOrder({}, a) /\ InOrder({} \cup {a}, b)
    BY DEF InOrder, AtMost, Less, Class
  <2> HIDE DEF a, b
  <2>3. <<a, b>> \in Seq(LockIds) /\ Ordered({}, <<a, b>>) /\ Ran(<<a, b>>) = {a, b}
    BY <2>1, <2>2, OrderedTwo
  <2> QED
    BY <2>3 DEF a, b
\* The gate, a row of class c, then rows of that class.
<1>g. ASSUME NEW s \in Sources, NEW c \in {5, 6}, NEW rows \in SUBSET LockIds, IsFiniteSet(rows),
             \A y \in rows : Class(y) = c,
             \A y \in rows : y[1] = "card" => CardGuard(y) = <<"source", s>>,
             NEW l \in rows, NEW old \in SUBSET rows, NEW q \in RowOrders(old)
      PROVE  Good(Gate(s) \o <<l>>) /\ Good(Gate(s) \o <<l>> \o q)
  <2> DEFINE g == Gate(s)
             p == g \o <<l>>
  <2>1. g \in Seq(LockIds) /\ Ordered({}, g) /\ Ran(g) = {<<"source", s>>, <<"package", s>>}
    BY <1>8 DEF Gate
  <2> HIDE DEF g
  <2>2. \A y \in Ran(g) : Class(y) \in 2..3
    BY <2>1 DEF Class
  <2>3. InOrder(Ran(g), l)
    BY <1>g, <2>1, <2>2 DEF InOrder, AtMost, Less
  <2>4. l \in LockIds
    BY <1>g
  <2>5. p \in Seq(LockIds) /\ Ordered({}, p) /\ Ran(p) = Ran(g) \cup {l}
    BY <2>1, <2>3, <2>4, <1>s, Zenon
  <2> HIDE DEF p
  <2>6. /\ old \in SUBSET LockIds /\ IsFiniteSet(old) /\ \A y \in old : Class(y) = c
        /\ \A y \in Ran(p) : Class(y) \in 0..c
        /\ \A y \in old : y[1] = "card" => CardGuard(y) \in Ran(p)
    BY <1>g, <2>1, <2>2, <2>5, FS_Subset
  <2>7. q \in Seq(LockIds) /\ Ordered(Ran(p), q)
    BY <2>6, OrderedUpdate
  <2>8. Ordered({} \cup Ran(p), q)
    BY <2>7
  <2>9. p \o q \in Seq(LockIds) /\ Ordered({}, p \o q)
    BY <2>5, <2>7, <2>8, OrderedConcat
  <2> QED
    BY <2>5, <2>9 DEF p, g
<1>m. ASSUME NEW s \in Sources, NEW l \in ManifestRows, NEW old \in SUBSET ManifestRows,
             NEW q \in RowOrders(old)
      PROVE  Good(Gate(s) \o <<l>>) /\ Good(Gate(s) \o <<l>> \o q)
  <2>1. 5 \in {5, 6}
    OBVIOUS
  <2>2. /\ ManifestRows \in SUBSET LockIds /\ IsFiniteSet(ManifestRows)
        /\ \A y \in ManifestRows : Class(y) = 5
        /\ \A y \in ManifestRows : y[1] = "card" => CardGuard(y) = <<"source", s>>
    BY RowSets
  <2> HIDE DEF Good
  <2> QED
    BY <2>1, <2>2, <1>g
<1>c. ASSUME NEW s \in Sources, NEW l \in CardRowsOf(s), NEW old \in SUBSET CardRowsOf(s),
             NEW q \in RowOrders(old)
      PROVE  Good(Gate(s) \o <<l>>) /\ Good(Gate(s) \o <<l>> \o q)
  <2>1. 6 \in {5, 6}
    OBVIOUS
  <2>2. /\ CardRowsOf(s) \in SUBSET LockIds /\ IsFiniteSet(CardRowsOf(s))
        /\ \A y \in CardRowsOf(s) : Class(y) = 6
        /\ \A y \in CardRowsOf(s) : y[1] = "card" => CardGuard(y) = <<"source", s>>
    BY RowSets
  <2> HIDE DEF Good
  <2> QED
    BY <2>1, <2>2, <1>g
<1> HIDE DEF Good
<1>9. /\ \A p \in ReservePlans : Good(p)
      /\ \A p \in EventPlans : Good(p)
      /\ \A p \in ExpirePlans : Good(p)
      /\ \A p \in ExtendPlans : Good(p)
      /\ \A p \in CorrectPlans : Good(p)
  BY <1>1, <1>2, <1>3, <1>4, <1>6, Zenon
  DEF ReservePlans, EventPlans, ExpirePlans, ExtendPlans, CorrectPlans
<1>10. \A p \in TransferPlans : Good(p)
  <2>1. \A f \in Facilities, g \in Facilities : Good(TransferPlan(f, g))
    BY <1>5, Zenon DEF TransferPlan
  <2>2. ASSUME NEW p \in TransferPlans PROVE Good(p)
    <3>1. PICK f \in Facilities, g \in Facilities : p = TransferPlan(f, g)
      BY DEF TransferPlans
    <3> QED
      BY <2>1, <3>1
  <2> QED
    BY <2>2
<1>11. \A p \in TransitionPlans : Good(p)
  <2>1. ASSUME NEW p \in TransitionPlans
        PROVE  \E s \in Sources :
                   \E ms \in {<<>>} \cup RowOrders(ManifestRowsOf(s)),
                      cs \in {<<>>} \cup RowOrders(CardRowsOf(s)) : p = TransitionPlan(s, ms, cs)
    BY <2>1 DEF TransitionPlans
  <2> QED
    BY <2>1, <1>7
<1>e. \A s \in Sources, u \in Sources : Good(<<<<"source", s>>, <<"package", u>>>>)
  BY <1>8 DEF Good
<1>n. \A l : \E q \in RowOrders({}) : TRUE
  <2>1. Cardinality({}) = 0 /\ 1..0 = {}
    BY FS_EmptySet
  <2>2. [i \in {} |-> i] \in [{} -> {}] /\ IsInjective([i \in {} |-> i])
    BY DEF IsInjective
  <2> QED
    BY <2>1, <2>2 DEF RowOrders, Injection
<1>13. \A p \in PublishPlans : Good(p)
  <2>1. PICK q \in RowOrders({}) : TRUE
    BY <1>n
  <2>2. \A s \in Sources, l \in ManifestRows : Good(Gate(s) \o <<l>>)
    BY <1>m, <2>1
  <2>3. \A s \in Sources : \A l \in CardRowsOf(s) : Good(Gate(s) \o <<l>>)
    BY <1>c, <2>1
  <2>4. ASSUME NEW p \in PublishPlans
        PROVE  \E s \in Sources : \/ \E l \in ManifestRows \cup CardRowsOf(s) : p = Gate(s) \o <<l>>
                                  \/ \E u \in Sources : p = <<<<"source", s>>, <<"package", u>>>>
    BY <2>4 DEF PublishPlans
  <2>5. ASSUME NEW p \in PublishPlans PROVE Good(p)
    <3>1. PICK s \in Sources : \/ \E l \in ManifestRows \cup CardRowsOf(s) : p = Gate(s) \o <<l>>
                               \/ \E u \in Sources : p = <<<<"source", s>>, <<"package", u>>>>
      BY <2>4, <2>5
    <3>2. CASE \E l \in ManifestRows \cup CardRowsOf(s) : p = Gate(s) \o <<l>>
      BY <2>2, <2>3, <3>2
    <3>3. CASE \E u \in Sources : p = <<<<"source", s>>, <<"package", u>>>>
      BY <1>e, <3>3, Zenon
    <3> QED
      BY <3>1, <3>2, <3>3
  <2> QED
    BY <2>5
<1>14. \A p \in PromotePlans : Good(p)
  <2>1. ASSUME NEW s \in Sources, NEW l \in ManifestRowsOf(s), NEW p \in PromotePlansOf(s, l, ManifestRows)
        PROVE  Good(p)
    <3>1. PICK old \in SUBSET Lower(ManifestRows, l) :
               \E q \in RowOrders(old) : p = Gate(s) \o <<l>> \o q
      BY <2>1, Zenon DEF PromotePlansOf
    <3>2. old \in SUBSET ManifestRows /\ l \in ManifestRows
      BY <3>1 DEF Lower, ManifestRowsOf
    <3> QED
      BY <1>m, <3>1, <3>2
  <2>2. ASSUME NEW s \in Sources, NEW l \in CardRowsOf(s), NEW p \in PromotePlansOf(s, l, CardRowsOf(s))
        PROVE  Good(p)
    <3>1. PICK old \in SUBSET Lower(CardRowsOf(s), l) :
               \E q \in RowOrders(old) : p = Gate(s) \o <<l>> \o q
      BY <2>2, Zenon DEF PromotePlansOf
    <3>2. old \in SUBSET CardRowsOf(s)
      BY <3>1 DEF Lower
    <3> QED
      BY <1>c, <3>1, <3>2
  <2>3. ASSUME NEW p \in PromotePlans
        PROVE  \E s \in Sources :
                   \/ \E l \in ManifestRowsOf(s) : p \in PromotePlansOf(s, l, ManifestRows)
                   \/ \E l \in CardRowsOf(s) : p \in PromotePlansOf(s, l, CardRowsOf(s))
    <3> DEFINE ofManifests == UNION {UNION {PromotePlansOf(s, l, ManifestRows) : l \in ManifestRowsOf(s)} : s \in Sources}
               ofCards == UNION {UNION {PromotePlansOf(s, l, CardRowsOf(s)) : l \in CardRowsOf(s)} : s \in Sources}
    <3>1. p \in ofManifests => \E s \in Sources : \E l \in ManifestRowsOf(s) : p \in PromotePlansOf(s, l, ManifestRows)
      OBVIOUS
    <3>2. p \in ofCards => \E s \in Sources : \E l \in CardRowsOf(s) : p \in PromotePlansOf(s, l, CardRowsOf(s))
      OBVIOUS
    <3>3. p \in ofManifests \/ p \in ofCards
      BY <2>3 DEF PromotePlans
    <3> QED
      BY <3>1, <3>2, <3>3
  <2> QED
    BY <2>1, <2>2, <2>3
<1>12. \A p \in Plans : Good(p)
  BY <1>9, <1>10, <1>11, <1>13, <1>14, Zenon DEF Plans
<1> QED
  BY <1>12 DEF Good

-----------------------------------------------------------------------------
(***************************************************************************)
(* No deadlock.                                                            *)
(***************************************************************************)
Phases == {"new", "running", "recording", "ended"}

\* The inductive invariant: a lock has one holder, and what a transaction still has to
\* take is in order with what it holds.
LockInv ==
    /\ plan \in [Txs -> Seq(LockIds)]
    /\ locks \in [Txs -> SUBSET LockIds]
    /\ phase \in [Txs -> Phases]
    /\ \A t \in Txs :
           /\ Ordered(locks[t], plan[t])
           /\ Guarded(locks[t])
           /\ phase[t] = "new" => locks[t] = {}
           /\ phase[t] = "recording" =>
                  plan[t] # <<>> /\ Head(plan[t]) = Audit /\ Audit \in locks[t]
    /\ \A t \in Txs, u \in Txs : t # u => locks[t] \cap locks[u] = {}

\* Taking the next lock of the plan keeps locks exclusive and the exception guarded.
LEMMA TakeNext ==
    ASSUME LockInv, NEW t \in Txs, plan[t] # <<>>, MayTake(t, Head(plan[t])),
           locks' = [locks EXCEPT ![t] = @ \cup {Head(plan[t])}]
    PROVE  /\ locks' \in [Txs -> SUBSET LockIds]
           /\ locks'[t] = locks[t] \cup {Head(plan[t])}
           /\ \A u \in Txs \ {t} : locks'[u] = locks[u]
           /\ Guarded(locks'[t])
           /\ \A u \in Txs, v \in Txs : u # v => locks'[u] \cap locks'[v] = {}
           /\ Ordered(locks'[t], Tail(plan[t])) /\ Ordered(locks'[t], plan[t])
<1>1. plan[t] \in Seq(LockIds) /\ Ordered(locks[t], plan[t]) /\ locks \in [Txs -> SUBSET LockIds]
  BY DEF LockInv
<1>2. Head(plan[t]) \in LockIds
  BY <1>1
<1> DEFINE x == Head(plan[t])
<1>3. /\ locks'[t] = locks[t] \cup {x} /\ \A u \in Txs \ {t} : locks'[u] = locks[u]
      /\ locks' \in [Txs -> SUBSET LockIds]
  BY <1>1, <1>2
<1>4. InOrder(locks[t], x) /\ Ordered(locks[t] \cup {x}, Tail(plan[t])) /\ Ordered(locks[t] \cup {x}, plan[t])
  BY <1>1, OrderedTail
<1>5. Guarded(locks'[t])
  BY <1>3, <1>4 DEF InOrder, Guarded, LockInv
<1>6. \A u \in Txs \ {t} : x \notin locks[u]
  BY DEF MayTake, Free, LockInv
<1>7. \A u \in Txs, v \in Txs : u # v => locks'[u] \cap locks'[v] = {}
  <2> HIDE DEF x
  <2> QED
    BY <1>3, <1>6 DEF LockInv
<1> QED
  BY <1>3, <1>4, <1>5, <1>7

\* A step that changes one transaction only.
LEMMA OneMoves ==
    ASSUME LockInv, NEW t \in Txs,
           plan' \in [Txs -> Seq(LockIds)], locks' \in [Txs -> SUBSET LockIds],
           phase' \in [Txs -> Phases],
           \A u \in Txs \ {t} : plan'[u] = plan[u],
           \A u \in Txs \ {t} : locks'[u] = locks[u],
           \A u \in Txs \ {t} : phase'[u] = phase[u],
           Ordered(locks'[t], plan'[t]), Guarded(locks'[t]),
           phase'[t] = "new" => locks'[t] = {}, phase'[t] # "recording",
           locks'[t] \subseteq locks[t]
    PROVE  LockInv'
<1>1. ASSUME NEW u \in Txs
      PROVE  /\ Ordered(locks'[u], plan'[u])
             /\ Guarded(locks'[u])
             /\ phase'[u] = "new" => locks'[u] = {}
             /\ phase'[u] = "recording" =>
                    plan'[u] # <<>> /\ Head(plan'[u]) = Audit /\ Audit \in locks'[u]
  <2>1. CASE u = t
    BY <2>1
  <2>2. CASE u # t
    <3>1. plan'[u] = plan[u] /\ locks'[u] = locks[u] /\ phase'[u] = phase[u]
      BY <2>2
    <3> QED
      BY <3>1 DEF LockInv
  <2> QED
    BY <2>1, <2>2
<1>2. ASSUME NEW u \in Txs, NEW v \in Txs, u # v
      PROVE  locks'[u] \cap locks'[v] = {}
  <2>1. locks'[u] \subseteq locks[u] /\ locks'[v] \subseteq locks[v]
    <3>1. \A x \in Txs : locks'[x] \subseteq locks[x]
      OBVIOUS
    <3> QED
      BY <3>1
  <2>2. locks[u] \cap locks[v] = {}
    BY <1>2 DEF LockInv
  <2> QED
    BY <2>1, <2>2
<1> QED
  BY <1>1, <1>2 DEF LockInv

\* Every step preserves the invariant.
LEMMA NextLockInv ==
    ASSUME LockInv, [TxNext]_txVars
    PROVE  LockInv'
<1>1. ASSUME NEW t \in Txs, Begin(t) PROVE LockInv'
  <2>1. PICK p \in Plans : plan' = [plan EXCEPT ![t] = p]
    BY <1>1 DEF Begin
  <2>2. p \in Seq(LockIds) /\ Ordered({}, p)
    BY PlansOrdered
  <2>3. /\ phase[t] = "new" /\ phase' = [phase EXCEPT ![t] = "running"] /\ locks' = locks
        /\ locks[t] = {}
    BY <1>1 DEF Begin, LockInv
  <2>4. /\ plan' \in [Txs -> Seq(LockIds)] /\ plan'[t] = p
        /\ \A u \in Txs \ {t} : plan'[u] = plan[u]
    BY <2>1, <2>2 DEF LockInv
  <2>5. /\ phase' \in [Txs -> Phases] /\ phase'[t] = "running"
        /\ \A u \in Txs \ {t} : phase'[u] = phase[u]
    BY <2>3 DEF LockInv, Phases
  <2>6. /\ locks' \in [Txs -> SUBSET LockIds] /\ locks'[t] = {}
        /\ \A u \in Txs \ {t} : locks'[u] = locks[u]
    BY <2>3 DEF LockInv
  <2> QED
    BY <2>2, <2>4, <2>5, <2>6, OneMoves DEF Guarded
<1>2. ASSUME NEW t \in Txs, LockRow(t) PROVE LockInv'
  <2>1. /\ plan[t] # <<>> /\ MayTake(t, Head(plan[t]))
        /\ locks' = [locks EXCEPT ![t] = @ \cup {Head(plan[t])}]
        /\ plan' = [plan EXCEPT ![t] = Tail(@)] /\ phase' = phase /\ phase[t] = "running"
    BY <1>2 DEF LockRow
  <2>2. /\ locks' \in [Txs -> SUBSET LockIds]
        /\ \A u \in Txs \ {t} : locks'[u] = locks[u]
        /\ Guarded(locks'[t])
        /\ \A u \in Txs, v \in Txs : u # v => locks'[u] \cap locks'[v] = {}
        /\ Ordered(locks'[t], Tail(plan[t]))
    BY <2>1, TakeNext
  <2>3. /\ plan' \in [Txs -> Seq(LockIds)] /\ plan'[t] = Tail(plan[t])
        /\ \A u \in Txs \ {t} : plan'[u] = plan[u]
    BY <2>1 DEF LockInv
  <2> QED
    BY <2>1, <2>2, <2>3 DEF LockInv
<1>3. ASSUME NEW t \in Txs, LockChain(t) PROVE LockInv'
  <2>1. /\ plan[t] # <<>> /\ Head(plan[t]) = Audit /\ MayTake(t, Head(plan[t]))
        /\ locks' = [locks EXCEPT ![t] = @ \cup {Head(plan[t])}]
        /\ phase' = [phase EXCEPT ![t] = "recording"] /\ plan' = plan
    BY <1>3 DEF LockChain
  <2>2. /\ locks' \in [Txs -> SUBSET LockIds]
        /\ locks'[t] = locks[t] \cup {Head(plan[t])}
        /\ \A u \in Txs \ {t} : locks'[u] = locks[u]
        /\ Guarded(locks'[t])
        /\ \A u \in Txs, v \in Txs : u # v => locks'[u] \cap locks'[v] = {}
        /\ Ordered(locks'[t], plan[t])
    BY <2>1, TakeNext
  <2>3. /\ phase' \in [Txs -> Phases] /\ phase'[t] = "recording"
        /\ \A u \in Txs \ {t} : phase'[u] = phase[u]
    BY <2>1 DEF LockInv, Phases
  <2>4. Audit \in locks'[t]
    BY <2>1, <2>2
  <2> QED
    BY <2>1, <2>2, <2>3, <2>4 DEF LockInv
<1>4. ASSUME NEW t \in Txs, AppendEvent(t) PROVE LockInv'
  <2>1. /\ phase[t] = "recording" /\ plan' = [plan EXCEPT ![t] = Tail(@)]
        /\ phase' = [phase EXCEPT ![t] = "running"] /\ locks' = locks
    BY <1>4 DEF AppendEvent
  <2>2. /\ plan[t] \in Seq(LockIds) /\ plan[t] # <<>> /\ Head(plan[t]) \in locks[t]
        /\ Ordered(locks[t], plan[t])
    BY <2>1 DEF LockInv
  <2>3. locks[t] \cup {Head(plan[t])} = locks[t]
    BY <2>2
  <2>4. Ordered(locks[t], Tail(plan[t]))
    BY <2>2, <2>3, OrderedTail
  <2>5. /\ plan' \in [Txs -> Seq(LockIds)] /\ plan'[t] = Tail(plan[t])
        /\ \A u \in Txs \ {t} : plan'[u] = plan[u]
    BY <2>1, <2>2 DEF LockInv
  <2>6. /\ phase' \in [Txs -> Phases] /\ phase'[t] = "running"
        /\ \A u \in Txs \ {t} : phase'[u] = phase[u]
    BY <2>1 DEF LockInv, Phases
  <2>7. locks' \in [Txs -> SUBSET LockIds] /\ (Guarded(locks'[t]))
    BY <2>1 DEF LockInv
  <2> QED
    BY <2>1, <2>4, <2>5, <2>6, <2>7, OneMoves
<1>5. ASSUME NEW t \in Txs, NEW committed \in BOOLEAN, EndTx(t, committed) PROVE LockInv'
  <2>1. /\ plan' = [plan EXCEPT ![t] = <<>>] /\ locks' = [locks EXCEPT ![t] = {}]
        /\ phase' = [phase EXCEPT ![t] = "ended"]
    BY <1>5 DEF EndTx
  <2>2. /\ plan' \in [Txs -> Seq(LockIds)] /\ plan'[t] = <<>>
        /\ \A u \in Txs \ {t} : plan'[u] = plan[u]
    BY <2>1 DEF LockInv
  <2>3. /\ locks' \in [Txs -> SUBSET LockIds] /\ locks'[t] = {}
        /\ \A u \in Txs \ {t} : locks'[u] = locks[u]
    BY <2>1 DEF LockInv
  <2>4. /\ phase' \in [Txs -> Phases] /\ phase'[t] = "ended"
        /\ \A u \in Txs \ {t} : phase'[u] = phase[u]
    BY <2>1 DEF LockInv, Phases
  <2>5. Ordered(locks'[t], plan'[t])
    BY <2>2, OrderedEmpty
  <2> QED
    BY <2>2, <2>3, <2>4, <2>5, OneMoves DEF Guarded
<1>6. ASSUME UNCHANGED txVars PROVE LockInv'
  BY <1>6 DEF txVars, LockInv
<1> QED
  BY <1>1, <1>2, <1>3, <1>4, <1>5, <1>6 DEF TxNext

\* The invariant holds in every reachable state.
THEOREM LocksInductive == TxSpec => []LockInv
<1>1. TxInit => LockInv
  BY OrderedEmpty DEF TxInit, LockInv, Phases, Guarded
<1>2. LockInv /\ [TxNext]_txVars => LockInv'
  BY NextLockInv
<1> QED
  BY <1>1, <1>2, PTL DEF TxSpec

\* What the blocker waits for is not below what the blocked one waits for.
LEMMA WaitsAscend ==
    ASSUME LockInv, NEW t \in Txs, NEW u \in Txs, NEW v \in Txs, Blocks(u, t), Blocks(v, u)
    PROVE  AtMost(Head(plan[t]), Head(plan[u]))
<1>1. /\ plan[u] # <<>> /\ plan[u] \in Seq(LockIds) /\ Head(plan[u]) \notin locks[u]
      /\ Head(plan[t]) \in locks[u] /\ Ordered(locks[u], plan[u])
  BY DEF Blocks, LockInv
<1>2. InOrder(locks[u], Head(plan[u]))
  BY <1>1, OrderedTail
<1> QED
  BY <1>1, <1>2 DEF InOrder

\* Among finitely many locks there is one that none is above: in a smallest set without one,
\* those above a given member would be a smaller such set.
LEMMA NoAscent ==
    ASSUME NEW S \in SUBSET Txs, S # {}, NEW W \in [Txs -> LockIds]
    PROVE  \E t \in S : \A u \in S : ~Less(W[t], W[u])
<1> DEFINE Ascending(T) == T # {} /\ \A t \in T : \E u \in T : Less(W[t], W[u])
           All == {T \in SUBSET Txs : Ascending(T)}
           R == StrictSubsetOrdering(Txs)
<1> SUFFICES ASSUME S \in All PROVE FALSE
  OBVIOUS
<1>1. IsWellFoundedOn(R, FiniteSubsetsOf(Txs)) /\ FiniteSubsetsOf(Txs) = SUBSET Txs
  BY FS_StrictSubsetOrderingWellFounded, FS_FiniteSubsetsOfFinite, TransactionsAssumption
<1>2. All \subseteq FiniteSubsetsOf(Txs)
  BY <1>1
<1> HIDE DEF All, R
<1>3. PICK T \in All : \A U \in All : ~(<<U, T>> \in R)
  BY <1>1, <1>2, WFMin
<1>4. T \in SUBSET Txs /\ T # {} /\ \A t \in T : \E u \in T : Less(W[t], W[u])
  BY <1>3 DEF All
<1>5. PICK t0 \in T : TRUE
  BY <1>4
<1> DEFINE U == {t \in T : Less(W[t0], W[t])}
<1>6. t0 \notin U
  BY <1>4, LessIrreflexive
<1>7. ASSUME NEW t \in U PROVE \E u \in U : Less(W[t], W[u])
  <2>1. PICK u \in T : Less(W[t], W[u])
    BY <1>4
  <2>2. Less(W[t0], W[u])
    BY <1>4, <2>1, LessTransitive
  <2> QED
    BY <2>1, <2>2
<1>8. U # {}
  BY <1>4, <1>5
<1>9. U \in All
  BY <1>4, <1>7, <1>8 DEF All
<1>10. <<U, T>> \in R
  <2>1. U \subseteq T /\ U # T /\ U \in SUBSET Txs /\ T \in SUBSET Txs
    BY <1>4, <1>5, <1>6
  <2> HIDE DEF U
  <2> QED
    BY <2>1 DEF R, StrictSubsetOrdering
<1> QED
  BY <1>3, <1>9, <1>10

\* Transactions that wait for each other in a circle wait for manifests or cards: of the
\* locks waited for above these, one that none is above is not held by a waiting member; of
\* those below, no member waits for a lowest one.
LEMMA OnlyUpdatesCircle ==
    ASSUME LockInv, NEW S \in SUBSET Txs,
           \A t \in S : (\E u \in S : Blocks(u, t)) /\ (\E u \in S : Blocks(t, u)),
           NEW x \in S
    PROVE  Class(Head(plan[x])) \in {5, 6}
<1> DEFINE W == [t \in Txs |-> IF t \in S THEN Head(plan[t]) ELSE Audit]
<1>1. \A t \in S : W[t] = Head(plan[t])
  OBVIOUS
<1>2. W \in [Txs -> LockIds]
  <2>1. \A t \in S : plan[t] # <<>> /\ plan[t] \in Seq(LockIds)
    BY DEF Blocks, LockInv
  <2>2. Audit \in LockIds
    BY DEF LockIds
  <2> QED
    BY <2>1, <2>2
<1> HIDE DEF W
<1>3. \A t \in S, u \in S : Blocks(u, t) => AtMost(W[t], W[u])
  <2>1. ASSUME NEW t \in S, NEW u \in S, Blocks(u, t) PROVE AtMost(W[t], W[u])
    <3>1. PICK v \in S : Blocks(v, u)
      OBVIOUS
    <3> QED
      BY <1>1, <2>1, <3>1, WaitsAscend
  <2> QED
    BY <2>1
<1>4. \A t \in S : Class(W[t]) \in 0..8
  BY <1>2, ClassType
<1>5. \A t \in S : Class(W[t]) <= 6
  <2> DEFINE T == {t \in S : Class(W[t]) > 6}
  <2> SUFFICES ASSUME T # {} PROVE FALSE
    BY <1>4
  <2>1. PICK t \in T : \A u \in T : ~Less(W[t], W[u])
    BY <1>2, NoAscent
  <2>2. PICK u \in S : Blocks(u, t)
    OBVIOUS
  <2>3. AtMost(W[t], W[u]) /\ Class(W[t]) > 6
    BY <1>3, <2>1, <2>2
  <2>4. Less(W[t], W[u])
    BY <1>4, <2>3 DEF AtMost
  <2>5. u \in T
    BY <1>4, <2>3, <2>4 DEF Less
  <2> QED
    BY <2>1, <2>4, <2>5
<1>6. \A t \in S : Class(W[t]) >= 5
  <2> DEFINE T == {t \in S : Class(W[t]) < 5}
             C == {Class(W[t]) : t \in T}
  <2> SUFFICES ASSUME T # {} PROVE FALSE
    <3>1. ASSUME NEW t \in S, t \notin T PROVE Class(W[t]) >= 5
      <4> DEFINE c == Class(W[t])
      <4>1. c \in 0..8 /\ ~(c < 5)
        BY <1>4, <3>1
      <4> HIDE DEF c
      <4>2. c >= 5
        BY <4>1
      <4> QED
        BY <4>2 DEF c
    <3> QED
      BY <3>1
  <2>2. C \in SUBSET Nat /\ C # {}
    BY <1>4
  <2>3. PICK c \in C : \A d \in C : <<d, c>> \notin OpToRel(<, Nat)
    BY <2>2, NatLessThanWellFounded, WFMin
  <2>4. PICK t \in T : Class(W[t]) = c
    BY <2>3
  <2>5. PICK u \in S : Blocks(t, u)
    BY <2>4
  <2>6. AtMost(W[u], W[t])
    BY <1>3, <2>4, <2>5
  <2>7. Class(W[u]) < Class(W[t]) /\ u \in T
    BY <1>4, <2>4, <2>6 DEF AtMost, Less
  <2>8. Class(W[u]) \in C /\ Class(W[u]) \in Nat /\ c \in Nat /\ Class(W[u]) < c
    BY <1>4, <2>2, <2>4, <2>7
  <2>9. <<Class(W[u]), c>> \in OpToRel(<, Nat)
    <3> DEFINE d == Class(W[u])
    <3>1. d \in Nat /\ c \in Nat /\ d < c
      BY <2>8
    <3> HIDE DEF d
    <3>2. <<d, c>> \in OpToRel(<, Nat)
      BY <3>1 DEF OpToRel
    <3> QED
      BY <3>2 DEF d
  <2> QED
    BY <2>3, <2>8, <2>9
<1>7. Class(W[x]) \in 0..8 /\ Class(W[x]) <= 6 /\ Class(W[x]) >= 5 /\ W[x] = Head(plan[x])
  BY <1>1, <1>4, <1>5, <1>6
<1> QED
  BY <1>7

\* Whatever transactions wait in a circle, each waits for a manifest that it or its blocker
\* updates without the lock on the manifest's source: with that lock, as for cards, only one
\* transaction would be at the rows of the source.
THEOREM NoDeadlock == TxSpec => []NoWaitCycle
<1>1. ASSUME LockInv PROVE NoWaitCycle
  <2> SUFFICES ASSUME NEW S \in SUBSET Txs,
                      \A t \in S : (\E u \in S : Blocks(u, t)) /\ (\E u \in S : Blocks(t, u)),
                      NEW t \in S, NEW u \in S, Blocks(u, t)
               PROVE  \E w \in {t, u} : Unsourced(Head(plan[t]), w)
    BY DEF NoWaitCycle
  <2> DEFINE l == Head(plan[t])
  <2>a. t \in Txs /\ u \in Txs /\ t # u /\ plan[t] # <<>> /\ l \notin locks[t] /\ l \in locks[u]
    BY DEF Blocks
  <2>b. /\ plan[t] \in Seq(LockIds) /\ locks[u] \in SUBSET LockIds
        /\ Ordered(locks[t], plan[t]) /\ Guarded(locks[u]) /\ locks[t] \cap locks[u] = {}
    <3> HIDE DEF l
    <3> QED
      BY <1>1, <2>a, Zenon DEF LockInv
  <2>1. /\ t \in Txs /\ u \in Txs /\ t # u /\ plan[t] # <<>> /\ plan[t] \in Seq(LockIds)
        /\ l \notin locks[t] /\ l \in locks[u] /\ l \in LockIds
        /\ Ordered(locks[t], plan[t]) /\ Guarded(locks[u]) /\ locks[t] \cap locks[u] = {}
    BY <2>a, <2>b
  <2>2. InOrder(locks[t], l)
    BY <2>1, OrderedTail, Zenon
  <2>3. Class(l) \in {5, 6}
    BY <1>1, OnlyUpdatesCircle
  <2> HIDE DEF l
  <2>4. l[1] # "card"
    \* Both would hold the source of the card.
    BY <2>1, <2>2 DEF InOrder, Guarded
  <2>5. l[1] = "manifest"
    BY <2>1, <2>3, <2>4 DEF Class, LockIds, Kinds, Audit
  <2> QED
    BY <2>1, <2>5 DEF Unsourced, l
<1> QED
  BY <1>1, LocksInductive, PTL

-----------------------------------------------------------------------------
(***************************************************************************)
(* The audit chain.                                                        *)
(***************************************************************************)
Event == [seq : Nat, prev : Nat]

SeqsBefore(E, n) == {d.seq : d \in {x \in E : x.seq < n}}

\* ChainUnbroken for any set of events.
Chain(E) ==
    \A e \in E : IF SeqsBefore(E, e.seq) = {} THEN e.prev = Genesis
                 ELSE e.prev \in SeqsBefore(E, e.seq) /\ \A s \in SeqsBefore(E, e.seq) : s <= e.prev

\* What t sees of the log: the committed events and its own.
Seen(t) == auditLog \cup Inserted(t)

\* The inductive invariant: whoever appends holds the audit lock, numbers are handed out
\* upwards, and the log is a chain with the events of any transaction added.
ChainInv ==
    /\ nextSeq \in Nat
    /\ events \in [Txs -> Seq(Event)]
    /\ auditLog \subseteq Event
    /\ \A e \in auditLog : e.seq < nextSeq
    /\ Chain(auditLog)
    /\ \A t \in Txs :
           /\ Inserted(t) \subseteq Event
           /\ \A e \in Inserted(t) : e.seq < nextSeq
           /\ events[t] # <<>> \/ phase[t] = "recording" => Audit \in locks[t]
           /\ Chain(Seen(t))

\* The elements of a log with one event more.
LEMMA AppendedElements ==
    ASSUME NEW s \in Seq(Event), NEW e \in Event
    PROVE  {Append(s, e)[i] : i \in DOMAIN Append(s, e)} = {s[i] : i \in DOMAIN s} \cup {e}
<1>1. /\ Len(s) \in Nat /\ DOMAIN s = 1..Len(s) /\ DOMAIN Append(s, e) = 1..(Len(s) + 1)
      /\ \A i \in 1..Len(s) : Append(s, e)[i] = s[i]
      /\ Append(s, e)[Len(s) + 1] = e
  OBVIOUS
<1>2. ASSUME NEW i \in DOMAIN Append(s, e)
      PROVE  Append(s, e)[i] \in {s[j] : j \in DOMAIN s} \cup {e}
  <2>1. i \in 1..Len(s) \/ i = Len(s) + 1
    BY <1>1
  <2> QED
    BY <1>1, <2>1
<1>3. ASSUME NEW i \in DOMAIN s
      PROVE  i \in DOMAIN Append(s, e) /\ Append(s, e)[i] = s[i]
  BY <1>1
<1>4. Len(s) + 1 \in DOMAIN Append(s, e)
  BY <1>1
<1> QED
  BY <1>1, <1>2, <1>3, <1>4

\* A set of numbers below a bound has a greatest element.
LEMMA BoundedMax ==
    ASSUME NEW V \in SUBSET Nat, V # {}, NEW n \in Nat, \A v \in V : v < n
    PROVE  \E m \in V : \A v \in V : v <= m
<1> DEFINE T == {n - v : v \in V}
<1>1. T \subseteq Nat /\ T # {}
  <2>1. \A v \in V : n - v \in Nat
    OBVIOUS
  <2>2. PICK v \in V : TRUE
    OBVIOUS
  <2> QED
    BY <2>1, <2>2
<1> HIDE DEF T
<1>2. PICK k \in T : \A j \in T : ~(<<j, k>> \in OpToRel(<, Nat))
  BY <1>1, NatLessThanWellFounded, WFMin
<1>3. \A j \in T : ~(j < k)
  BY <1>1, <1>2 DEF OpToRel
<1>4. PICK m \in V : k = n - m
  BY DEF T
<1>5. ASSUME NEW v \in V PROVE v <= m
  <2>1. n - v \in T /\ n - v \in Nat
    BY <1>1 DEF T
  <2>2. ~(n - v < n - m)
    BY <1>3, <1>4, <2>1
  <2> QED
    BY <2>2
<1> QED
  BY <1>5

\* An event with a higher number than all others that names the newest one extends
\* the chain.
LEMMA ChainExtends ==
    ASSUME NEW E \in SUBSET Event, Chain(E), NEW n \in Nat, \A x \in E : x.seq < n,
           NEW h \in Nat,
           IF E = {} THEN h = Genesis ELSE \E x \in E : x.seq = h /\ \A y \in E : y.seq <= h
    PROVE  Chain(E \cup {[seq |-> n, prev |-> h]})
<1> DEFINE e == [seq |-> n, prev |-> h]
           F == E \cup {e}
<1>1. e.seq = n /\ e.prev = h
  OBVIOUS
<1>2. \A x \in E : x.seq \in Nat /\ x.seq < n
  BY DEF Event
<1> HIDE DEF e
<1>3. ASSUME NEW x \in E
      PROVE  IF SeqsBefore(F, x.seq) = {} THEN x.prev = Genesis
             ELSE x.prev \in SeqsBefore(F, x.seq) /\ \A s \in SeqsBefore(F, x.seq) : s <= x.prev
  <2>1. {y \in F : y.seq < x.seq} = {y \in E : y.seq < x.seq}
    BY <1>1, <1>2
  <2>2. SeqsBefore(F, x.seq) = SeqsBefore(E, x.seq)
    BY <2>1 DEF SeqsBefore
  <2> QED
    BY <2>2 DEF Chain
<1>4. SeqsBefore(F, n) = {x.seq : x \in E}
  <2>1. {y \in F : y.seq < n} = E
    BY <1>1, <1>2
  <2> QED
    BY <2>1 DEF SeqsBefore
<1>5. IF SeqsBefore(F, e.seq) = {} THEN e.prev = Genesis
      ELSE e.prev \in SeqsBefore(F, e.seq) /\ \A s \in SeqsBefore(F, e.seq) : s <= e.prev
  <2>1. CASE E = {}
    BY <1>1, <1>4, <2>1
  <2>2. CASE E # {}
    <3>1. PICK x \in E : x.seq = h /\ \A y \in E : y.seq <= h
      BY <2>2
    <3> QED
      BY <1>1, <1>4, <3>1
  <2> QED
    BY <2>1, <2>2
<1> QED
  BY <1>3, <1>5 DEF Chain, e

\* The head a transaction reads is the newest event it sees.
LEMMA HeadIsNewest ==
    ASSUME ChainInv, NEW t \in Txs
    PROVE  /\ ChainHead(t) \in Nat
           /\ IF Seen(t) = {} THEN ChainHead(t) = Genesis
              ELSE \E x \in Seen(t) : x.seq = ChainHead(t) /\ \A y \in Seen(t) : y.seq <= ChainHead(t)
<1> DEFINE V == {e.seq : e \in auditLog} \cup {e.seq : e \in Inserted(t)}
<1>1. V = {e.seq : e \in Seen(t)} /\ Seen(t) \subseteq Event
  BY DEF Seen, ChainInv
<1>2. V \in SUBSET Nat /\ nextSeq \in Nat /\ \A v \in V : v < nextSeq
  BY DEF ChainInv, Event
<1>3. ChainHead(t) = IF V = {} THEN Genesis ELSE CHOOSE s \in V : \A r \in V : r <= s
  BY DEF ChainHead
<1> HIDE DEF V
<1>4. CASE V = {}
  <2>1. Seen(t) = {}
    BY <1>1, <1>4
  <2> QED
    BY <1>3, <1>4, <2>1 DEF Genesis
<1>5. CASE V # {}
  <2>1. \E m \in V : \A v \in V : v <= m
    BY <1>2, <1>5, BoundedMax
  <2>2. ChainHead(t) \in V /\ \A r \in V : r <= ChainHead(t)
    BY <1>3, <1>5, <2>1
  <2>3. Seen(t) # {}
    BY <1>1, <1>5
  <2> QED
    BY <1>1, <1>2, <2>2, <2>3
<1> QED
  BY <1>4, <1>5

\* A step that adds no event keeps the chain, as long as who appends holds the lock.
LEMMA ChainKept ==
    ASSUME ChainInv, UNCHANGED <<events, auditLog, nextSeq>>,
           \A t \in Txs : events[t] # <<>> \/ phase'[t] = "recording" => Audit \in locks'[t]
    PROVE  ChainInv'
BY DEF ChainInv, Seen, Inserted

\* Every step preserves the invariant.
LEMMA NextChainInv ==
    ASSUME LockInv, ChainInv, [TxNext]_txVars
    PROVE  ChainInv'
<1> USE DEF Phases
<1>1. ASSUME NEW t \in Txs, Begin(t) PROVE ChainInv'
  BY <1>1, ChainKept DEF Begin, LockInv, ChainInv
<1>2. ASSUME NEW t \in Txs, LockRow(t) PROVE ChainInv'
  BY <1>2, ChainKept DEF LockRow, LockInv, ChainInv
<1>3. ASSUME NEW t \in Txs, LockChain(t) PROVE ChainInv'
  BY <1>3, ChainKept DEF LockChain, LockInv, ChainInv
<1>4. ASSUME NEW t \in Txs, AppendEvent(t) PROVE ChainInv'
  <2> DEFINE e == [seq |-> nextSeq, prev |-> ChainHead(t)]
  <2>1. /\ phase[t] = "recording" /\ events' = [events EXCEPT ![t] = Append(@, e)]
        /\ nextSeq' = nextSeq + 1 /\ auditLog' = auditLog /\ locks' = locks
        /\ phase' = [phase EXCEPT ![t] = "running"]
    BY <1>4 DEF AppendEvent
  <2>2. ChainHead(t) \in Nat /\ nextSeq \in Nat /\ e \in Event /\ e.seq = nextSeq
    BY HeadIsNewest DEF ChainInv, Event
  <2>3. Seen(t) \in SUBSET Event /\ Chain(Seen(t)) /\ \A x \in Seen(t) : x.seq < nextSeq
    BY DEF Seen, ChainInv
  <2>4. Chain(Seen(t) \cup {e})
    BY <2>2, <2>3, HeadIsNewest, ChainExtends
  <2> HIDE DEF e
  <2>5. /\ events' \in [Txs -> Seq(Event)] /\ events'[t] = Append(events[t], e)
        /\ \A u \in Txs \ {t} : events'[u] = events[u]
    BY <2>1, <2>2 DEF ChainInv
  <2>6. Inserted(t)' = Inserted(t) \cup {e}
    <3>1. events[t] \in Seq(Event)
      BY DEF ChainInv
    <3>2. {Append(events[t], e)[i] : i \in DOMAIN Append(events[t], e)}
            = {events[t][i] : i \in DOMAIN events[t]} \cup {e}
      BY <2>2, <3>1, AppendedElements, Zenon
    <3>3. Inserted(t)' = {events'[t][i] : i \in DOMAIN events'[t]}
      BY Zenon DEF Inserted
    <3>4. Inserted(t) = {events[t][i] : i \in DOMAIN events[t]}
      BY Zenon DEF Inserted
    <3>5. events'[t] = Append(events[t], e)
      BY <2>5
    <3> QED
      BY <3>2, <3>3, <3>4, <3>5, Zenon
  <2>7. \A u \in Txs \ {t} : Inserted(u)' = Inserted(u)
    BY <2>5 DEF Inserted
  <2>8. \A u \in Txs : Chain(Seen(u))'
    <3>1. Seen(t)' = Seen(t) \cup {e}
      BY <2>1, <2>6 DEF Seen
    <3>2. \A u \in Txs \ {t} : Seen(u)' = Seen(u)
      BY <2>1, <2>7 DEF Seen
    <3> QED
      BY <2>4, <3>1, <3>2 DEF ChainInv, Chain, SeqsBefore
  <2>9. Audit \in locks[t]
    BY <2>1 DEF ChainInv
  <2>10. Chain(auditLog)'
    BY <2>1 DEF ChainInv, Chain, SeqsBefore
  <2>11. /\ \A x \in auditLog : x.seq < nextSeq + 1
         /\ \A u \in Txs : \A x \in Inserted(u) : x.seq < nextSeq + 1
    <3>1. \A x \in Event : x.seq \in Nat
      BY DEF Event
    <3> QED
      BY <2>2, <3>1 DEF ChainInv
  <2>12. \A u \in Txs : /\ Inserted(u)' \subseteq Event
                         /\ \A x \in Inserted(u)' : x.seq < nextSeq'
    BY <2>1, <2>2, <2>6, <2>7, <2>11 DEF ChainInv
  <2>13. \A u \in Txs : events'[u] # <<>> \/ phase'[u] = "recording" => Audit \in locks'[u]
    BY <2>1, <2>5, <2>9 DEF ChainInv, LockInv
  <2> QED
    BY <2>1, <2>2, <2>5, <2>8, <2>10, <2>11, <2>12, <2>13 DEF ChainInv
<1>5. ASSUME NEW t \in Txs, NEW committed \in BOOLEAN, EndTx(t, committed) PROVE ChainInv'
  <2>1. /\ auditLog' = IF committed THEN auditLog \cup Inserted(t) ELSE auditLog
        /\ locks' = [locks EXCEPT ![t] = {}] /\ events' = [events EXCEPT ![t] = <<>>]
        /\ phase' = [phase EXCEPT ![t] = "ended"] /\ nextSeq' = nextSeq
    BY <1>5 DEF EndTx
  <2>2. /\ events' \in [Txs -> Seq(Event)] /\ events'[t] = <<>>
        /\ \A u \in Txs \ {t} : events'[u] = events[u]
    BY <2>1 DEF ChainInv
  <2>3. Inserted(t)' = {} /\ \A u \in Txs \ {t} : Inserted(u)' = Inserted(u)
    BY <2>2 DEF Inserted
  <2>4. auditLog' = auditLog \/ auditLog' = Seen(t)
    BY <2>1 DEF Seen
  <2>5. ASSUME NEW u \in Txs \ {t}, auditLog' # auditLog PROVE Inserted(u) = {}
    <3>1. Inserted(t) # {}
      BY <2>1, <2>5
    <3>2. events[t] # <<>>
      BY <3>1 DEF Inserted
    <3>3. Audit \in locks[t] /\ Audit \notin locks[u]
      BY <3>2 DEF ChainInv, LockInv
    <3>4. events[u] = <<>>
      BY <3>3 DEF ChainInv
    <3> QED
      BY <3>4 DEF Inserted
  <2>6. \A u \in Txs : Seen(u)' \in {auditLog, Seen(t), Seen(u)}
    <3>1. ASSUME NEW u \in Txs PROVE Seen(u)' \in {auditLog, Seen(t), Seen(u)}
      <4>1. Seen(u)' = auditLog' \cup Inserted(u)'
        BY DEF Seen
      <4>2. CASE u = t
        BY <2>3, <2>4, <4>1, <4>2
      <4>3. CASE u # t /\ auditLog' = auditLog
        BY <2>3, <4>1, <4>3 DEF Seen
      <4>4. CASE u # t /\ auditLog' # auditLog
        BY <2>3, <2>4, <2>5, <4>1, <4>4
      <4> QED
        BY <4>2, <4>3, <4>4
    <3> QED
      BY <3>1
  <2>7. auditLog' \in {auditLog, Seen(t)}
    BY <2>4
  <2>8. \A E \in {auditLog, Seen(t)} : Chain(E) /\ E \subseteq Event /\ \A x \in E : x.seq < nextSeq
    BY DEF ChainInv, Seen
  <2>9. Chain(auditLog') /\ auditLog' \subseteq Event /\ \A x \in auditLog' : x.seq < nextSeq
    BY <2>7, <2>8
  <2>10. \A u \in Txs : Chain(Seen(u)')
    BY <2>6, <2>8 DEF ChainInv
  <2>11. \A u \in Txs : Inserted(u)' \subseteq Event /\ \A x \in Inserted(u)' : x.seq < nextSeq
    BY <2>3 DEF ChainInv
  <2>12. \A u \in Txs : events'[u] # <<>> \/ phase'[u] = "recording" => Audit \in locks'[u]
    BY <2>1, <2>2 DEF ChainInv, LockInv
  <2>13. Chain(auditLog)' /\ \A u \in Txs : Chain(Seen(u))'
    BY <2>9, <2>10 DEF Chain, SeqsBefore
  <2> QED
    BY <2>1, <2>2, <2>9, <2>11, <2>12, <2>13 DEF ChainInv
<1>6. ASSUME UNCHANGED txVars PROVE ChainInv'
  BY <1>6, ChainKept DEF txVars, ChainInv
<1> QED
  BY <1>1, <1>2, <1>3, <1>4, <1>5, <1>6 DEF TxNext

\* The committed log is always a chain that VerifyChain accepts, although transactions
\* append concurrently, their numbers are handed out before they commit, and some roll
\* back.
THEOREM ChainNeverBroken == TxSpec => []ChainUnbroken
<1>1. TxInit => ChainInv
  BY DEF TxInit, ChainInv, Inserted, Seen, Chain
<1>2. LockInv /\ ChainInv /\ [TxNext]_txVars => ChainInv'
  BY NextChainInv
<1>3. ChainInv => ChainUnbroken
  BY DEF ChainInv, Chain, SeqsBefore, ChainUnbroken
<1> QED
  BY <1>1, <1>2, <1>3, LocksInductive, PTL DEF TxSpec
=============================================================================
