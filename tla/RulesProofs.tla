----------------------------- MODULE RulesProofs -----------------------------
(***************************************************************************)
(* Proofs about what the program accepts, for inputs of any size: the      *)
(* documents an authority assembles by hand (PackRules) and the actions a  *)
(* language model proposes (ProposalRules).                                *)
(***************************************************************************)
EXTENDS PackRules, ProposalRules, FiniteSetTheorems, NaturalsInduction, WellFoundedInduction,
        SequenceTheorems, TLAPS

\* A set of indices that has an element has a least one.
LEMMA LeastIndex ==
  ASSUME NEW T \in SUBSET Nat, T # {}
  PROVE  \E x \in T : \A y \in T : x <= y
<1>2. PICK x \in T : \A y \in T : <<y, x>> \notin OpToRel(<, Nat)
  BY NatLessThanWellFounded, WFMin
<1>3. ASSUME NEW y \in T PROVE x <= y
  <2>1. x \in Nat /\ y \in Nat
    OBVIOUS
  <2>2. ~(y < x)
    BY <1>2, <2>1 DEF OpToRel
  <2> QED
    BY <2>1, <2>2
<1> QED
  BY <1>3

\* Induction up to n, for a set of numbers in place of a predicate.
LEMMA UpTo ==
  ASSUME NEW n \in Nat, NEW T, 0 \in T, \A i \in 0..n : i \in T /\ i < n => i + 1 \in T
  PROVE  \A i \in 0..n : i \in T
<1> SUFFICES ASSUME \E i \in 0..n : i \notin T PROVE FALSE
  OBVIOUS
<1> DEFINE Bad == {i \in 0..n : i \notin T}
<1>1. PICK b \in Bad : \A y \in Bad : b <= y
  <2>1. Bad \in SUBSET Nat /\ Bad # {}
    OBVIOUS
  <2> HIDE DEF Bad
  <2> QED
    BY <2>1, LeastIndex
<1>2. b # 0 /\ b - 1 \in 0..n /\ b - 1 < n /\ b - 1 \notin Bad
  BY <1>1
<1>3. b - 1 \in T
  BY <1>2
<1>4. (b - 1) + 1 \in T
  BY <1>2, <1>3
<1> QED
  BY <1>1, <1>4

\* g, a function of a value in A and a step number up to n, stays in A.
StepsIn(g, n, A) == g \in [A \X (1..n) -> A]

\* f lists the values that g takes a through in n steps.
Iterates(f, n, A, a, g) == f \in [0..n -> A] /\ f[0] = a /\ \A i \in 1..n : f[i] = g[<<f[i - 1], i>>]

\* A function can be defined by such steps.
LEMMA Iterate ==
  ASSUME NEW n \in Nat, NEW A, NEW a \in A, NEW g, StepsIn(g, n, A)
  PROVE  \E f : Iterates(f, n, A, a, g)
<1> DEFINE T == {m \in 0..n : \E f : Iterates(f, m, A, a, g)}
<1>0. g \in [A \X (1..n) -> A]
  BY DEF StepsIn
<1>1. 0 \in T
  <2> DEFINE z == [i \in {0} |-> a]
  <2>1. 0..0 = {0} /\ 1..0 = {}
    OBVIOUS
  <2>2. z \in [0..0 -> A] /\ z[0] = a /\ \A i \in 1..0 : z[i] = g[<<z[i - 1], i>>]
    BY <2>1
  <2>3. Iterates(z, 0, A, a, g)
    BY <2>2 DEF Iterates
  <2> QED
    BY <2>3
<1>2. ASSUME NEW m \in 0..n, m \in T, m < n PROVE m + 1 \in T
  <2>1. PICK f : Iterates(f, m, A, a, g)
    BY <1>2
  <2> DEFINE h == [i \in 0..(m + 1) |-> IF i = m + 1 THEN g[<<f[m], m + 1>>] ELSE f[i]]
  <2>2. m \in Nat /\ m + 1 \in 1..n /\ m \in 0..m /\ m \in 0..(m + 1) /\ m + 1 \in 0..(m + 1) /\ f[m] \in A
    BY <1>2, <2>1 DEF Iterates
  <2>3. g[<<f[m], m + 1>>] \in A
    BY <1>0, <2>2
  <2>4. \A i \in 0..m : h[i] = f[i] /\ f[i] \in A
    BY <2>1, <2>2 DEF Iterates
  <2>5. h[m + 1] = g[<<h[m], m + 1>>]
    <3>1. h[m + 1] = g[<<f[m], m + 1>>]
      BY <2>2
    <3>2. h[m] = f[m]
      BY <2>2, <2>4
    <3> QED
      BY <3>1, <3>2
  <2>6. h \in [0..(m + 1) -> A]
    BY <2>1, <2>2, <2>3 DEF Iterates
  <2>7. ASSUME NEW i \in 1..(m + 1) PROVE h[i] = g[<<h[i - 1], i>>]
    <3>1. CASE i = m + 1
      <4>1. (m + 1) - 1 = m
        BY <2>2
      <4> QED
        BY <2>5, <3>1, <4>1
    <3>2. CASE i # m + 1
      <4>1. i \in 1..m /\ i \in 0..m /\ i - 1 \in 0..m
        BY <2>2, <3>2
      <4>2. h[i] = f[i] /\ h[i - 1] = f[i - 1]
        BY <2>4, <4>1
      <4>3. f[i] = g[<<f[i - 1], i>>]
        BY <2>1, <4>1 DEF Iterates
      <4> HIDE DEF h
      <4> QED
        BY <4>2, <4>3
    <3> QED
      BY <3>1, <3>2
  <2>8. h[0] = a
    BY <2>1, <2>2, <2>4 DEF Iterates
  <2>9. Iterates(h, m + 1, A, a, g)
    <3> HIDE DEF h
    <3> QED
      BY <2>6, <2>7, <2>8 DEF Iterates
  <2>10. \E x : Iterates(x, m + 1, A, a, g)
    BY <2>9
  <2>11. m + 1 \in 0..n
    BY <2>2
  <2> QED
    BY <2>10, <2>11
<1> HIDE DEF T
<1>3. n \in T
  BY <1>1, <1>2, UpTo
<1> QED
  BY <1>3 DEF T

\* Nothing else satisfies its equations.
LEMMA Determined ==
  ASSUME NEW n \in Nat, NEW A, NEW a \in A, NEW g, StepsIn(g, n, A),
         NEW C, C = [i \in 0..n |-> C[i]], C[0] = a,
         \A i \in 1..n : C[i - 1] \in A => C[i] = g[<<C[i - 1], i>>]
  PROVE  Iterates(C, n, A, a, g)
<1> DEFINE T == {i \in 0..n : C[i] \in A}
<1>1. 0 \in T
  OBVIOUS
<1>2. ASSUME NEW i \in 0..n, i \in T, i < n PROVE i + 1 \in T
  <2>1. i + 1 \in 1..n /\ i + 1 \in 0..n /\ (i + 1) - 1 = i /\ C[i] \in A
    BY <1>2
  <2>2. C[i + 1] = g[<<C[i], i + 1>>]
    BY <2>1
  <2>3. g[<<C[i], i + 1>>] \in A
    BY <2>1 DEF StepsIn
  <2> QED
    BY <2>1, <2>2, <2>3
<1>3. \A i \in 0..n : C[i] \in A
  <2>1. \A i \in 0..n : i \in T
    <3> HIDE DEF T
    <3> QED
      BY <1>1, <1>2, UpTo
  <2> QED
    BY <2>1
<1>4. \A i \in 1..n : C[i] = g[<<C[i - 1], i>>]
  <2> TAKE i \in 1..n
  <2>1. i - 1 \in 0..n
    OBVIOUS
  <2> QED
    BY <1>3, <2>1
<1>5. C \in [0..n -> A]
  BY <1>3
<1> QED
  BY <1>4, <1>5 DEF Iterates

(***************************************************************************)
(* PackRules.  What the audit accepts is stated without its tables and     *)
(* scans, in which the order of the entries decides; a reordering keeps    *)
(* it, and keeps the bytes by a bijection.                                 *)
(***************************************************************************)
\* What AuditRegionalPack accepts, without its tables and its scans: no entry decides which
\* of two others counts.
Acceptable(rs) ==
  /\ \A i \in DOMAIN rs : ValidateDescriptor(rs[i])
  /\ \A i, j \in DOMAIN rs : rs[i].id = rs[j].id => i = j
  /\ \A i, j \in DOMAIN rs : rs[i].uri = rs[j].uri => rs[i].sum = rs[j].sum /\ rs[i].type = rs[j].type

\* Every entry of an accepted pack agrees with the first one that has its address.
LEMMA FirstAgrees ==
  ASSUME NEW n \in Nat, NEW rs, DOMAIN rs = 1..n, DuplicateIDs(rs) = {}, Conflicts(rs) = {}
  PROVE  \A i, j \in 1..n : rs[i].uri = rs[j].uri =>
           rs[i].sum = rs[j].sum /\ rs[i].type = rs[j].type
<1>1. \A i, j \in 1..n : rs[i].id = rs[j].id => i = j
  <2>1. \A i, j \in 1..n : rs[i].id = rs[j].id => ~(j < i)
    <3> SUFFICES ASSUME NEW i \in 1..n, NEW j \in 1..n, rs[i].id = rs[j].id, j < i
                 PROVE  FALSE
      OBVIOUS
    <3>1. j \in 1..(i-1)
      OBVIOUS
    <3>2. rs[i].id \in DuplicateIDs(rs)
      BY <3>1 DEF DuplicateIDs
    <3> QED
      BY <3>2
  <2> QED
    BY <2>1
<1> SUFFICES ASSUME NEW i \in 1..n, NEW j \in 1..n, rs[i].uri = rs[j].uri
             PROVE  rs[i].sum = rs[j].sum /\ rs[i].type = rs[j].type
  OBVIOUS
<1> DEFINE T == {k \in 1..n : rs[k].uri = rs[i].uri}
<1>2. PICK f \in T : \A y \in T : f <= y
  <2>1. T \in SUBSET Nat /\ T # {}
    OBVIOUS
  <2> HIDE DEF T
  <2> QED
    BY <2>1, LeastIndex
<1>3. \A k \in T : rs[f].sum = rs[k].sum /\ rs[f].type = rs[k].type
  <2> SUFFICES ASSUME NEW k \in T, k # f
               PROVE  rs[f].sum = rs[k].sum /\ rs[f].type = rs[k].type
    OBVIOUS
  <2>1. f \in 1..(k-1)
    BY <1>2
  <2>2. rs[f].uri = rs[k].uri /\ \A m \in 1..(f-1) : rs[m].uri # rs[k].uri
    BY <1>2
  <2>3. rs[f].id # rs[k].id
    BY <1>1
  <2> QED
    BY <2>1, <2>2, <2>3 DEF Conflicts
<1> QED
  BY <1>3

\* The audit accepts exactly the acceptable packs.
LEMMA AuditAccepts ==
  ASSUME NEW n \in Nat, NEW rs, DOMAIN rs = 1..n
  PROVE  Acceptable(rs) <=> /\ \A i \in DOMAIN rs : ValidateDescriptor(rs[i])
                            /\ DuplicateIDs(rs) = {}
                            /\ Conflicts(rs) = {}
<1>1. ASSUME Acceptable(rs) PROVE DuplicateIDs(rs) = {} /\ Conflicts(rs) = {}
  <2>1. \A i \in 1..n : \A j \in 1..(i-1) : j \in 1..n /\ j # i
    OBVIOUS
  <2>2. DuplicateIDs(rs) = {}
    BY <1>1, <2>1 DEF Acceptable, DuplicateIDs
  <2>3. Conflicts(rs) = {}
    BY <1>1, <2>1 DEF Acceptable, Conflicts
  <2> QED
    BY <2>2, <2>3
<1>2. ASSUME DuplicateIDs(rs) = {} PROVE \A i, j \in DOMAIN rs : rs[i].id = rs[j].id => i = j
  <2>1. \A i, j \in 1..n : rs[i].id = rs[j].id => ~(j < i)
    <3> SUFFICES ASSUME NEW i \in 1..n, NEW j \in 1..n, rs[i].id = rs[j].id, j < i
                 PROVE  FALSE
      OBVIOUS
    <3>1. j \in 1..(i-1)
      OBVIOUS
    <3>2. rs[i].id \in DuplicateIDs(rs)
      BY <3>1 DEF DuplicateIDs
    <3> QED
      BY <1>2, <3>2
  <2> QED
    BY <2>1
<1> QED
  BY <1>1, <1>2, FirstAgrees DEF Acceptable

\* The entries that byID holds are all of them when no id is used twice.
LEMMA ByIDIsAll ==
  ASSUME NEW n \in Nat, NEW rs \in [1..n -> Descriptors], Acceptable(rs)
  PROVE  ByID(rs) = {rs[i] : i \in 1..n}
<1>1. Len(rs) = n
  OBVIOUS
<1>2. \A i \in 1..n : \A j \in (i+1)..n : rs[j].id # rs[i].id
  BY DEF Acceptable
<1>3. {i \in 1..n : \A j \in (i+1)..Len(rs) : rs[j].id # rs[i].id} = 1..n
  BY <1>1, <1>2
<1> QED
  BY <1>3 DEF ByID

\* The bytes of finitely many entries of known size are finitely many.
LEMMA BytesFinite ==
  ASSUME NEW n \in Nat, NEW rs, \A i \in 1..n : rs[i].size \in Int, NEW I \in SUBSET (1..n)
  PROVE  IsFiniteSet(BytesOf(rs, I))
<1> DEFINE U == {{i} \X (1..rs[i].size) : i \in I}
<1> DEFINE f == [i \in I |-> {i} \X (1..rs[i].size)]
<1>1. IsFiniteSet(I)
  <2>1. IsFiniteSet(1..n)
    BY FS_Interval
  <2> QED
    BY <2>1, FS_Subset
<1>2. f \in Surjection(I, U)
  BY DEF Surjection
<1>3. IsFiniteSet(U)
  BY <1>1, <1>2, FS_Surjection
<1>4. \A i \in I : IsFiniteSet({i} \X (1..rs[i].size))
  <2> SUFFICES ASSUME NEW i \in I PROVE IsFiniteSet({i} \X (1..rs[i].size))
    OBVIOUS
  <2>1. IsFiniteSet(1..rs[i].size)
    BY FS_Interval
  <2> QED
    BY <2>1, FS_Singleton, FS_Product
<1>5. \A T \in U : IsFiniteSet(T)
  BY <1>4
<1> HIDE DEF U
<1>6. IsFiniteSet(UNION U)
  BY <1>3, <1>5, FS_UNION
<1> QED
  BY <1>6 DEF U, BytesOf

\* The bytes of the entries, one by one.
LEMMA PairsIn ==
  \A rs, I, u : u \in BytesOf(rs, I) <=> \E i \in I : \E b \in 1..rs[i].size : u = <<i, b>>
<1> TAKE rs, I
<1> DEFINE B(i) == 1..rs[i].size
           P(i) == {i} \X B(i)
<1>1. \A i : \A u : u \in P(i) <=> \E b \in B(i) : u = <<i, b>>
  <2> HIDE DEF B
  <2> QED
    OBVIOUS
<1>2. BytesOf(rs, I) = UNION {P(i) : i \in I}
  BY DEF BytesOf
<1> HIDE DEF P
<1>3. \A u : u \in UNION {P(i) : i \in I} <=> \E i \in I : u \in P(i)
  OBVIOUS
<1>4. \A u : u \in BytesOf(rs, I) <=> \E i \in I : \E b \in B(i) : u = <<i, b>>
  BY <1>1, <1>2, <1>3
<1> QED
  BY <1>4

\* p takes the entries I of qs, one to one, to the equal entries J of rs.
Carries(p, qs, I, rs, J) ==
  /\ \A j : j \in J <=> \E i \in I : p[i] = j
  /\ \A i, j \in I : p[i] = p[j] => i = j
  /\ \A i \in I : qs[i] = rs[p[i]]

\* A permutation of the entries keeps the sum of their sizes.
LEMMA SizesKept ==
  ASSUME NEW p, NEW qs, NEW I, NEW rs, NEW J, Carries(p, qs, I, rs, J), IsFiniteSet(BytesOf(qs, I))
  PROVE  SizesOf(qs, I) = SizesOf(rs, J)
<1> USE DEF Carries
<1> DEFINE U == BytesOf(qs, I)
           V == BytesOf(rs, J)
<1>1. \A u : u \in U <=> \E i \in I : \E b \in 1..qs[i].size : u = <<i, b>>
  BY PairsIn
<1>2. \A v : v \in V <=> \E j \in J : \E b \in 1..rs[j].size : v = <<j, b>>
  BY PairsIn
<1> DEFINE f == [u \in U |-> <<p[u[1]], u[2]>>]
<1> HIDE DEF U, V
<1>3. f \in [U -> V]
  <2> SUFFICES ASSUME NEW u \in U PROVE <<p[u[1]], u[2]>> \in V
    OBVIOUS
  <2>1. PICK i \in I : \E b \in 1..qs[i].size : u = <<i, b>>
    BY <1>1
  <2>2. p[i] \in J /\ qs[i].size = rs[p[i]].size
    OBVIOUS
  <2>3. u[1] = i /\ u[2] \in 1..qs[i].size
    BY <2>1
  <2> QED
    BY <1>2, <2>2, <2>3
<1>4. \A a, b \in U : f[a] = f[b] => a = b
  <2> SUFFICES ASSUME NEW a \in U, NEW b \in U, f[a] = f[b] PROVE a = b
    OBVIOUS
  <2>1. PICK i \in I : \E x \in 1..qs[i].size : a = <<i, x>>
    BY <1>1
  <2>2. PICK k \in I : \E x \in 1..qs[k].size : b = <<k, x>>
    BY <1>1
  <2>3. a = <<i, a[2]>> /\ b = <<k, b[2]>>
    BY <2>1, <2>2
  <2>6. a[1] = i /\ b[1] = k
    BY <2>3
  <2>5. <<p[i], a[2]>> = <<p[k], b[2]>>
    BY <2>6
  <2>4. i = k /\ a[2] = b[2]
    BY <2>5
  <2> QED
    BY <2>3, <2>4
<1>5. \A v \in V : \E u \in U : f[u] = v
  <2> SUFFICES ASSUME NEW v \in V PROVE \E u \in U : f[u] = v
    OBVIOUS
  <2>1. PICK j \in J : \E b \in 1..rs[j].size : v = <<j, b>>
    BY <1>2
  <2>2. PICK b \in 1..rs[j].size : v = <<j, b>>
    BY <2>1
  <2>3. PICK i \in I : j = p[i]
    OBVIOUS
  <2>4. <<i, b>> \in U
    BY <1>1, <2>2, <2>3
  <2> QED
    BY <2>2, <2>3, <2>4
<1>6. f \in Bijection(U, V)
  BY <1>3, <1>4, <1>5 DEF Bijection, Injection, Surjection, IsInjective
<1>8. Cardinality(V) = Cardinality(U)
  <2>1. IsFiniteSet(U) /\ ExistsBijection(U, V)
    BY <1>6 DEF U, ExistsBijection
  <2> QED
    BY <2>1, FS_Bijection
<1> QED
  BY <1>8 DEF SizesOf, U, V

\* An injection of a finite interval into itself reaches every index.
LEMMA Permutes ==
  ASSUME NEW n \in Nat, NEW p \in [1..n -> 1..n], \A i, j \in 1..n : p[i] = p[j] => i = j
  PROVE  \A j \in 1..n : \E i \in 1..n : p[i] = j
<1>1. IsFiniteSet(1..n)
  BY FS_Interval
<1>2. p \in Injection(1..n, 1..n)
  BY DEF Injection, IsInjective
<1>3. p \in Surjection(1..n, 1..n)
  BY <1>1, <1>2, FS_Injection
<1> QED
  BY <1>3 DEF Surjection

\* One manifest listed in two orders.
Permuted(n, p, rs, qs) ==
  /\ rs \in [1..n -> Descriptors]
  /\ p \in [1..n -> 1..n]
  /\ \A i, j \in 1..n : p[i] = p[j] => i = j
  /\ qs = [i \in 1..n |-> rs[p[i]]]

\* Each entry of one is an entry of the other.
Matched(D, p, rs, qs) ==
  /\ rs \in [D -> Descriptors] /\ qs \in [D -> Descriptors]
  /\ \A i \in D : p[i] \in D /\ qs[i] = rs[p[i]]
  /\ \A i, j \in D : p[i] = p[j] => i = j
  /\ \A j \in D : \E i \in D : p[i] = j

\* A reordering loses no entry and repeats none.
LEMMA SameEntries ==
  ASSUME NEW n \in Nat, NEW p, NEW rs, NEW qs, Permuted(n, p, rs, qs)
  PROVE  Matched(1..n, p, rs, qs)
<1>1. /\ rs \in [1..n -> Descriptors] /\ p \in [1..n -> 1..n] /\ qs = [i \in 1..n |-> rs[p[i]]]
      /\ \A i, j \in 1..n : p[i] = p[j] => i = j
  BY DEF Permuted
<1>2. qs \in [1..n -> Descriptors] /\ \A i \in 1..n : p[i] \in 1..n /\ qs[i] = rs[p[i]]
  BY <1>1
<1>3. \A j \in 1..n : \E i \in 1..n : p[i] = j
  BY <1>1, Permutes
<1> QED
  BY <1>1, <1>2, <1>3 DEF Matched

\* One is acceptable when the other is.
LEMMA SameAcceptable ==
  ASSUME NEW D, NEW p, NEW rs, NEW qs, Matched(D, p, rs, qs)
  PROVE  Acceptable(qs) <=> Acceptable(rs)
<1>1. ASSUME Acceptable(rs) PROVE Acceptable(qs)
  <2>1. \A i \in D : p[i] \in D /\ qs[i] = rs[p[i]]
    BY DEF Matched
  <2>2. DOMAIN rs = D /\ DOMAIN qs = D
    BY DEF Matched
  <2>3. \A i \in D : ValidateDescriptor(qs[i])
    BY <1>1, <2>1, <2>2 DEF Acceptable
  <2>4. ASSUME NEW i \in D, NEW j \in D
        PROVE  /\ qs[i].id = qs[j].id => i = j
               /\ qs[i].uri = qs[j].uri => qs[i].sum = qs[j].sum /\ qs[i].type = qs[j].type
    BY <1>1, <2>1, <2>2 DEF Acceptable, Matched
  <2> QED
    BY <2>2, <2>3, <2>4 DEF Acceptable
<1>2. ASSUME Acceptable(qs) PROVE Acceptable(rs)
  <2>1. \A j \in D : ValidateDescriptor(rs[j])
    BY <1>2 DEF Acceptable, Matched
  <2>2. ASSUME NEW j \in D, NEW k \in D
        PROVE  /\ rs[j].id = rs[k].id => j = k
               /\ rs[j].uri = rs[k].uri => rs[j].sum = rs[k].sum /\ rs[j].type = rs[k].type
    <3>1. PICK a \in D : p[a] = j
      BY DEF Matched
    <3>2. PICK b \in D : p[b] = k
      BY DEF Matched
    <3> QED
      BY <1>2, <3>1, <3>2 DEF Acceptable, Matched
  <2> QED
    BY <2>1, <2>2 DEF Acceptable, Matched
<1> QED
  BY <1>1, <1>2

\* The entries of a list at the indices I, and their ids.
EntriesAt(s, I) == {s[i] : i \in I}
IdsAt(s, I) == {s[i].id : i \in I}

\* The lists have the same entries.
LEMMA SameContents ==
  ASSUME NEW D, NEW p, NEW rs, NEW qs, Matched(D, p, rs, qs)
  PROVE  EntriesAt(qs, D) = EntriesAt(rs, D)
<1>1. \A j \in D : \E i \in D : rs[j] = qs[i]
  BY DEF Matched
<1>2. \A i \in D : \E j \in D : qs[i] = rs[j]
  BY DEF Matched
<1> QED
  BY <1>1, <1>2 DEF EntriesAt

\* What marks an entry wherever it is listed marks the same entries in both.
LEMMA SameMarked ==
  ASSUME NEW D, NEW p, NEW rs, NEW qs, Matched(D, p, rs, qs),
         NEW I, NEW J, I \subseteq D, J \subseteq D, \A i \in D : i \in I <=> p[i] \in J
  PROVE  Carries(p, qs, I, rs, J) /\ IdsAt(qs, I) = IdsAt(rs, J)
<1>1. Carries(p, qs, I, rs, J)
  BY DEF Matched, Carries
<1>2. \A j \in J : \E i \in I : rs[j] = qs[i]
  BY <1>1 DEF Carries
<1>3. \A i \in I : \E j \in J : qs[i] = rs[j]
  BY <1>1 DEF Carries
<1> QED
  BY <1>1, <1>2, <1>3 DEF IdsAt

\* The references of the map are looked up in the same entries.
LEMMA SameReferences ==
  ASSUME NEW n \in Nat, NEW p, NEW rs, NEW qs, Matched(1..n, p, rs, qs), Acceptable(rs)
  PROVE  CheckStyleReferences(qs) = CheckStyleReferences(rs)
<1>1. rs \in [1..n -> Descriptors] /\ qs \in [1..n -> Descriptors]
  BY DEF Matched
<1>2. ByID(qs) = ByID(rs)
  <2>1. Acceptable(qs) /\ EntriesAt(qs, 1..n) = EntriesAt(rs, 1..n)
    BY SameAcceptable, SameContents
  <2>2. ByID(qs) = EntriesAt(qs, 1..n)
    BY <1>1, <2>1, ByIDIsAll DEF EntriesAt
  <2>3. ByID(rs) = EntriesAt(rs, 1..n)
    BY <1>1, ByIDIsAll DEF EntriesAt
  <2> QED
    BY <2>1, <2>2, <2>3
<1>3. /\ \A token : matchesAny(qs, token) = matchesAny(rs, token)
      /\ \A uri, type : matchesAnyPrefix(qs, uri, type) = matchesAnyPrefix(rs, uri, type)
  BY <1>2 DEF matchesAny, matchesAnyPrefix
<1> QED
  BY <1>3 DEF CheckStyleReferences

\* The sizes of corresponding entries add up to the same.
LEMMA SameSizes ==
  ASSUME NEW n \in Nat, NEW p, NEW rs, NEW qs, Matched(1..n, p, rs, qs),
         NEW I \in SUBSET (1..n), NEW J, Carries(p, qs, I, rs, J)
  PROVE  SizesOf(qs, I) = SizesOf(rs, J)
<1>1. qs \in [1..n -> Descriptors]
  BY DEF Matched
<1>2. \A i \in 1..n : qs[i].size \in Int
  BY <1>1, PackAssumption
<1>3. IsFiniteSet(BytesOf(qs, I))
  BY <1>2, BytesFinite
<1> QED
  BY <1>3, SizesKept

\* The entries of a list that are optional, and those whose license is not settled.
Optional(s) == {i \in DOMAIN s : ~s[i].required}
Unsettled(s) == {i \in DOMAIN s : LicenseStatus(s[i]) = "VERIFICATION_PENDING"}

\* They are the same entries in both lists.
LEMMA SameKinds ==
  ASSUME NEW D, NEW p, NEW rs, NEW qs, Matched(D, p, rs, qs)
  PROVE  /\ DOMAIN rs = D /\ DOMAIN qs = D
         /\ Optional(rs) \in SUBSET D /\ Optional(qs) \in SUBSET D
         /\ Carries(p, qs, D, rs, D)
         /\ Carries(p, qs, Optional(qs), rs, Optional(rs))
         /\ IdsAt(qs, Unsettled(qs)) = IdsAt(rs, Unsettled(rs))
<1>1. DOMAIN rs = D /\ DOMAIN qs = D
  BY DEF Matched
<1>2. /\ Optional(qs) \in SUBSET D /\ Optional(rs) \in SUBSET D
      /\ \A i \in D : i \in Optional(qs) <=> p[i] \in Optional(rs)
  BY <1>1 DEF Matched, Optional
<1>3. /\ Unsettled(qs) \in SUBSET D /\ Unsettled(rs) \in SUBSET D
      /\ \A i \in D : i \in Unsettled(qs) <=> p[i] \in Unsettled(rs)
  BY <1>1 DEF Matched, Unsettled
<1>4. D \subseteq D /\ \A i \in D : i \in D <=> p[i] \in D
  BY DEF Matched
<1>5. Carries(p, qs, D, rs, D)
  BY <1>4, SameMarked
<1>6. Carries(p, qs, Optional(qs), rs, Optional(rs))
  BY <1>2, SameMarked
<1>7. IdsAt(qs, Unsettled(qs)) = IdsAt(rs, Unsettled(rs))
  BY <1>3, SameMarked
<1> QED
  BY <1>1, <1>2, <1>5, <1>6, <1>7

\* So that the audit says the same of both.
LEMMA SameAudit ==
  ASSUME NEW n \in Nat, NEW p, NEW rs, NEW qs, Matched(1..n, p, rs, qs)
  PROVE  AuditRegionalPack(qs) = AuditRegionalPack(rs)
<1>1. rs \in [1..n -> Descriptors] /\ qs \in [1..n -> Descriptors]
  BY DEF Matched
<1>2. DOMAIN rs = 1..n /\ DOMAIN qs = 1..n /\ Len(rs) = n /\ Len(qs) = n
  BY <1>1
<1>3. Acceptable(qs) <=> Acceptable(rs)
  BY SameAcceptable
<1>4. CASE ~Acceptable(rs)
  BY <1>2, <1>3, <1>4, AuditAccepts DEF AuditRegionalPack
<1>5. CASE Acceptable(rs)
  <2> DEFINE Of(s) == [ok |-> TRUE, count |-> n, total |-> SizesOf(s, 1..n),
                       optional |-> SizesOf(s, Optional(s)), pending |-> IdsAt(s, Unsettled(s)),
                       exceeds |-> SizesOf(s, 1..n) > PackBudget]
  <2>1. SizesOf(qs, 1..n) = SizesOf(rs, 1..n)
    <3>1. Carries(p, qs, 1..n, rs, 1..n) /\ 1..n \in SUBSET (1..n)
      BY SameKinds
    <3> QED
      BY <3>1, SameSizes
  <2>2. SizesOf(qs, Optional(qs)) = SizesOf(rs, Optional(rs))
    <3>1. Carries(p, qs, Optional(qs), rs, Optional(rs)) /\ Optional(qs) \in SUBSET (1..n)
      BY SameKinds
    <3> QED
      BY <3>1, SameSizes
  <2>3. IdsAt(qs, Unsettled(qs)) = IdsAt(rs, Unsettled(rs))
    BY SameKinds
  <2>4. AuditRegionalPack(rs) = Of(rs)
    BY <1>2, <1>5, AuditAccepts DEF AuditRegionalPack, Optional, Unsettled, IdsAt
  <2>5. AuditRegionalPack(qs) = Of(qs)
    BY <1>2, <1>3, <1>5, AuditAccepts DEF AuditRegionalPack, Optional, Unsettled, IdsAt
  <2>6. Of(qs) = Of(rs)
    BY <2>1, <2>2, <2>3
  <2> QED
    BY <2>4, <2>5, <2>6
<1> QED
  BY <1>4, <1>5

\* The resource pack lists entries that a pack may have.
PackInv == resources \in Seq(Descriptors)

\* Every reordering of the pack is matched with it.
LEMMA OrderIgnored == PackInv => AuditIgnoresOrder
<1> SUFFICES ASSUME PackInv PROVE AuditIgnoresOrder
  OBVIOUS
<1>1. PICK n \in Nat : resources \in [1..n -> Descriptors]
  BY DEF PackInv
<1>2. DOMAIN resources = 1..n
  BY <1>1
<1>3. AuditRegionalPack(resources).ok => Acceptable(resources)
  BY <1>2, AuditAccepts DEF AuditRegionalPack, PackInvalid
<1>4. ASSUME NEW qs \in Reorderings(resources)
      PROVE  /\ AuditRegionalPack(qs) = AuditRegionalPack(resources)
             /\ AuditRegionalPack(qs).ok =>
                  ValidateMapStyle(qs, FALSE) = ValidateMapStyle(resources, FALSE)
  <2>1. PICK p \in [1..n -> 1..n] : /\ \A i, j \in 1..n : p[i] = p[j] => i = j
                                   /\ qs = [i \in 1..n |-> resources[p[i]]]
    BY <1>2 DEF Reorderings
  <2>2. Matched(1..n, p, resources, qs)
    BY <1>1, <2>1, SameEntries DEF Permuted
  <2>3. AuditRegionalPack(qs) = AuditRegionalPack(resources)
    BY <2>2, SameAudit
  <2>4. Acceptable(resources) => CheckStyleReferences(qs) = CheckStyleReferences(resources)
    BY <2>2, SameReferences
  <2>5. Acceptable(resources) =>
          ValidateMapStyle(qs, FALSE) = ValidateMapStyle(resources, FALSE)
    BY <2>4 DEF ValidateMapStyle
  <2> QED
    BY <1>3, <2>3, <2>5
<1>5. AuditRegionalPack(resources).ok =>
        \A i, j \in DOMAIN resources : resources[i].uri = resources[j].uri =>
          resources[i].sum = resources[j].sum /\ resources[i].type = resources[j].type
  BY <1>3 DEF Acceptable
<1> QED
  BY <1>4, <1>5 DEF AuditIgnoresOrder

\* An id that is used, and once, is one zone's.
LEMMA OneUse ==
  ASSUME NEW list, \A i, j \in DOMAIN list : list[i].id = list[j].id => i = j,
         NEW id \in IdSet(list)
  PROVE  Cardinality({i \in DOMAIN list : list[i].id = id}) = 1
<1>1. PICK k \in DOMAIN list : list[k].id = id
  BY DEF IdSet
<1>2. {i \in DOMAIN list : list[i].id = id} = {k}
  BY <1>1
<1> QED
  BY <1>2, FS_Singleton

\* Validation compares the order with the very list of ids, which are unique.
LEMMA Coherent == PackageIsCoherent
<1> SUFFICES ASSUME Validate(draft, sealed) PROVE PackageIsCoherent
  BY DEF PackageIsCoherent
<1>1. /\ \A i, j \in DOMAIN draft.red : draft.red[i].id = draft.red[j].id => i = j
      /\ \A i, j \in DOMAIN draft.safe : draft.safe[i].id = draft.safe[j].id => i = j
      /\ draft.order = Ids(draft.safe)
      /\ \A i \in DOMAIN draft.facilities : draft.facilities[i].zone \in IdSet(draft.safe)
      /\ \A i \in DOMAIN draft.routes :
           draft.routes[i].from \in IdSet(draft.red) /\ draft.routes[i].to \in IdSet(draft.safe)
  BY DEF Validate, ValidateZones, ValidateRoute, zoneIDs
<1>2. DOMAIN draft.order = DOMAIN draft.safe /\ \A i \in DOMAIN draft.safe : draft.order[i] = draft.safe[i].id
  BY <1>1 DEF Ids
<1>3. \A i \in DOMAIN draft.order : draft.order[i] \in IdSet(draft.safe)
  BY <1>2 DEF IdSet
<1>4. \A z \in IdSet(draft.safe) : Cardinality({i \in DOMAIN draft.order : draft.order[i] = z}) = 1
  <2> TAKE z \in IdSet(draft.safe)
  <2>1. {i \in DOMAIN draft.order : draft.order[i] = z} = {i \in DOMAIN draft.safe : draft.safe[i].id = z}
    BY <1>2
  <2> QED
    BY <1>1, <2>1, OneUse
<1> QED
  BY <1>1, <1>3, <1>4, OneUse DEF PackageIsCoherent

\* The pack lists descriptors, whatever is added.
THEOREM PackTypeCorrect == PackSpec => []PackInv
<1>1. PackInit => PackInv
  BY DEF PackInit, PackInv
<1>2. ASSUME PackInv, [PackNext]_packVars PROVE PackInv'
  <2>1. CASE AddResource
    BY <1>2, <2>1 DEF AddResource, Grow, PackInv
  <2>2. CASE EditDraft \/ Seal
    BY <1>2, <2>2 DEF EditDraft, Seal, PackInv
  <2>3. CASE UNCHANGED packVars
    BY <1>2, <2>3 DEF packVars, PackInv
  <2> QED
    BY <1>2, <2>1, <2>2, <2>3 DEF PackNext
<1> QED
  BY <1>1, <1>2, PTL DEF PackSpec

\* The verdict on a pack does not depend on the order of its entries, and a package that
\* validates is coherent, for documents of any length.
THEOREM RulesSound == PackSpec => []RulesAreSound
<1>1. PackInv => RulesAreSound
  BY OrderIgnored, Coherent DEF RulesAreSound
<1> QED
  BY <1>1, PackTypeCorrect, PTL

(***************************************************************************)
(* ProposalRules.  The lists that Kept, ZoneByZone and the walk of         *)
(* enforceChoiceOrder define step by step are determined by their steps    *)
(* (Determined), so that they can be reasoned about list by list           *)
(* (OverLists): guidance and the scope keep the same facilities, and the   *)
(* walk accepts exactly the selections.  The rest follows the checks       *)
(* variant by variant.                                                     *)
(***************************************************************************)
\* The lists of kept items that Kept goes through.
KeptBy(K, E, s, S) ==
  /\ K \in [0..Len(s) -> Seq(E)] /\ K[0] = <<>>
  /\ \A i \in 1..Len(s) : K[i] = IF s[i] \in S THEN Append(K[i - 1], s[i]) ELSE K[i - 1]

\* Kept is well-defined.
LEMMA KeptDefined ==
  ASSUME NEW E, NEW s \in Seq(E), NEW S
  PROVE  \E K : KeptBy(K, E, s, S) /\ Kept(s, S) = K[Len(s)]
<1> DEFINE n == Len(s)
           A == Seq(E)
           g == [x \in A \X (1..n) |-> IF s[x[2]] \in S THEN Append(x[1], s[x[2]]) ELSE x[1]]
           IsK(K) == K = [i \in 0..n |-> IF i = 0 THEN <<>> ELSE IF s[i] \in S THEN Append(K[i - 1], s[i]) ELSE K[i - 1]]
           C == CHOOSE K : IsK(K)
<1>1. n \in Nat /\ <<>> \in A /\ \A i \in 1..n : s[i] \in E
  OBVIOUS
<1>2. Kept(s, S) = C[n]
  BY DEF Kept
<1> HIDE DEF C
<1>3. StepsIn(g, n, A)
  <2> SUFFICES ASSUME NEW x \in A \X (1..n)
               PROVE  (IF s[x[2]] \in S THEN Append(x[1], s[x[2]]) ELSE x[1]) \in A
    BY DEF StepsIn
  <2>1. x[1] \in Seq(E) /\ s[x[2]] \in E
    BY <1>1
  <2> QED
    BY <2>1
<1>4. \A v \in A : \A i \in 1..n : g[<<v, i>>] = IF s[i] \in S THEN Append(v, s[i]) ELSE v
  <2> TAKE v \in A
  <2> TAKE i \in 1..n
  <2>1. <<v, i>> \in A \X (1..n) /\ <<v, i>>[1] = v /\ <<v, i>>[2] = i
    OBVIOUS
  <2> QED
    BY <2>1
<1> HIDE DEF g
<1>5. \E f : IsK(f)
  <2>1. PICK f : Iterates(f, n, A, <<>>, g)
    <3> HIDE DEF n, A
    <3> QED
      BY <1>1, <1>3, Iterate
  <2>2. f \in [0..n -> A] /\ f[0] = <<>> /\ \A i \in 1..n : f[i] = g[<<f[i - 1], i>>]
    BY <2>1 DEF Iterates
  <2>3. ASSUME NEW i \in 0..n
        PROVE  f[i] = IF i = 0 THEN <<>> ELSE IF s[i] \in S THEN Append(f[i - 1], s[i]) ELSE f[i - 1]
    <3>1. CASE i = 0
      BY <2>2, <3>1
    <3>2. CASE i # 0
      <4>1. i \in 1..n /\ i - 1 \in 0..n
        BY <1>1, <3>2
      <4>2. f[i - 1] \in A
        BY <2>2, <4>1
      <4> QED
        BY <1>4, <2>2, <3>2, <4>1, <4>2
    <3> QED
      BY <3>1, <3>2
  <2>4. IsK(f)
    BY <2>2, <2>3
  <2> QED
    BY <2>4
<1>6. IsK(C)
  <2> HIDE DEF IsK
  <2> QED
    BY <1>5 DEF C
<1>7. /\ C = [i \in 0..n |-> C[i]] /\ C[0] = <<>>
      /\ \A i \in 1..n : C[i] = IF s[i] \in S THEN Append(C[i - 1], s[i]) ELSE C[i - 1]
  <2>1. C = [i \in 0..n |-> C[i]] /\ 0 \in 0..n /\ \A i \in 1..n : i \in 0..n /\ i # 0
    BY <1>1, <1>6
  <2> QED
    BY <1>6, <2>1
<1>8. \A i \in 1..n : C[i - 1] \in A => C[i] = g[<<C[i - 1], i>>]
  BY <1>4, <1>7
<1>9. Iterates(C, n, A, <<>>, g)
  <2> HIDE DEF n, A
  <2> QED
    BY <1>1, <1>3, <1>7, <1>8, Determined
<1>10. KeptBy(C, E, s, S)
  BY <1>7, <1>9 DEF Iterates, KeptBy
<1> QED
  BY <1>2, <1>10

\* What is kept of a list is a list of the same kind.
LEMMA KeptType ==
  ASSUME NEW E, NEW s \in Seq(E), NEW S
  PROVE  Kept(s, S) \in Seq(E)
<1>1. PICK K : KeptBy(K, E, s, S) /\ Kept(s, S) = K[Len(s)]
  BY KeptDefined
<1>2. Len(s) \in Nat /\ K \in [0..Len(s) -> Seq(E)]
  BY <1>1, LenProperties DEF KeptBy
<1> QED
  BY <1>1, <1>2

\* Nothing is kept of the empty list.
LEMMA KeptEmpty ==
  ASSUME NEW S
  PROVE  Kept(<<>>, S) = <<>>
<1>1. <<>> \in Seq({}) /\ Len(<<>>) = 0
  OBVIOUS
<1>2. PICK K : KeptBy(K, {}, <<>>, S) /\ Kept(<<>>, S) = K[Len(<<>>)]
  BY <1>1, KeptDefined
<1> QED
  BY <1>1, <1>2 DEF KeptBy

\* Kept takes the items one by one.
LEMMA KeptAppend ==
  ASSUME NEW E, NEW s \in Seq(E), NEW e \in E, NEW S
  PROVE  /\ Kept(s, S) \in Seq(E)
         /\ Kept(Append(s, e), S) = IF e \in S THEN Append(Kept(s, S), e) ELSE Kept(s, S)
<1> DEFINE n == Len(s)
           t == Append(s, e)
<1>1. /\ n \in Nat /\ t \in Seq(E) /\ Len(t) = n + 1 /\ t[n + 1] = e
      /\ \A i \in 1..n : t[i] = s[i]
  BY AppendProperties, LenProperties
<1> HIDE DEF t, n
<1>2. PICK K : KeptBy(K, E, s, S) /\ Kept(s, S) = K[n]
  BY KeptDefined DEF n
<1>3. PICK J : KeptBy(J, E, t, S) /\ Kept(t, S) = J[n + 1]
  BY <1>1, KeptDefined
<1>4. K \in [0..n -> Seq(E)] /\ K[0] = <<>>
      /\ \A i \in 1..n : K[i] = IF s[i] \in S THEN Append(K[i - 1], s[i]) ELSE K[i - 1]
  BY <1>2 DEF KeptBy, n
<1>5. /\ J[0] = <<>>
      /\ \A i \in 1..(n + 1) : J[i] = IF t[i] \in S THEN Append(J[i - 1], t[i]) ELSE J[i - 1]
  BY <1>1, <1>3 DEF KeptBy
<1> DEFINE T == {i \in 0..n : J[i] = K[i]}
<1>6. 0 \in T
  BY <1>1, <1>4, <1>5
<1>7. ASSUME NEW i \in 0..n, i \in T, i < n PROVE i + 1 \in T
  <2>1. i + 1 \in 1..n /\ i + 1 \in 1..(n + 1) /\ i + 1 \in 0..n /\ (i + 1) - 1 = i
    BY <1>1, <1>7
  <2>2. J[i + 1] = IF t[i + 1] \in S THEN Append(J[i], t[i + 1]) ELSE J[i]
    BY <1>5, <2>1
  <2>3. K[i + 1] = IF s[i + 1] \in S THEN Append(K[i], s[i + 1]) ELSE K[i]
    BY <1>4, <2>1
  <2>4. t[i + 1] = s[i + 1] /\ J[i] = K[i]
    BY <1>1, <1>7, <2>1
  <2> QED
    BY <2>1, <2>2, <2>3, <2>4
<1>8. J[n] = K[n]
  <2>1. \A i \in 0..n : i \in T
    <3> HIDE DEF T
    <3> QED
      BY <1>1, <1>6, <1>7, UpTo
  <2> QED
    BY <1>1, <2>1
<1>9. J[n + 1] = IF e \in S THEN Append(K[n], e) ELSE K[n]
  <2>1. n + 1 \in 1..(n + 1) /\ (n + 1) - 1 = n
    BY <1>1
  <2> QED
    BY <1>1, <1>5, <1>8, <2>1
<1>10. Kept(s, S) \in Seq(E)
  BY <1>1, <1>2, <1>4
<1> QED
  BY <1>2, <1>3, <1>9, <1>10 DEF t

\* Induction over lists, for a set of lists in place of a predicate.
LEMMA OverLists ==
  ASSUME NEW E, NEW T, <<>> \in T, \A s \in Seq(E) : \A e \in E : s \in T => Append(s, e) \in T
  PROVE  \A s \in Seq(E) : s \in T
<1> SUFFICES ASSUME NEW z \in Seq(E) PROVE z \in T
  OBVIOUS
<1> DEFINE U == {m \in 0..Len(z) : \A s \in Seq(E) : Len(s) = m => s \in T}
<1>1. Len(z) \in Nat
  OBVIOUS
<1>2. 0 \in U
  <2>1. \A s \in Seq(E) : Len(s) = 0 => s = <<>>
    BY EmptySeq
  <2> QED
    BY <1>1, <2>1
<1>3. ASSUME NEW m \in 0..Len(z), m \in U, m < Len(z) PROVE m + 1 \in U
  <2>1. ASSUME NEW s \in Seq(E), Len(s) = m + 1 PROVE s \in T
    <3>1. s # <<>>
      BY <1>1, <2>1
    <3>2. PICK q \in Seq(E), e \in E : s = Append(q, e)
      BY <3>1, SequenceEmptyOrAppend
    <3>3. Len(q) = m
      BY <1>1, <2>1, <3>2, AppendProperties, LenProperties
    <3> QED
      BY <1>3, <3>2, <3>3
  <2> QED
    BY <1>1, <1>3, <2>1
<1>4. PICK n \in Nat : n = Len(z)
  BY <1>1
<1>5. Len(z) \in U
  <2>1. \A i \in 0..n : i \in U
    <3> HIDE DEF U
    <3> QED
      BY <1>2, <1>3, <1>4, UpTo
  <2> QED
    BY <1>4, <2>1
<1> QED
  BY <1>5

\* What is kept of two lists one after the other.
LEMMA KeptConcat ==
  ASSUME NEW E, NEW s \in Seq(E), NEW S
  PROVE  \A t \in Seq(E) : Kept(s \o t, S) = Kept(s, S) \o Kept(t, S)
<1> DEFINE T == {t \in Seq(E) : Kept(s \o t, S) = Kept(s, S) \o Kept(t, S)}
<1>1. <<>> \in T
  <2>1. s \o <<>> = s /\ Kept(s, S) \o <<>> = Kept(s, S)
    <3>1. Kept(s, S) \in Seq(E)
      BY KeptType
    <3> QED
      BY <3>1, ConcatEmptySeq
  <2>2. Kept(<<>>, S) = <<>> /\ <<>> \in Seq(E)
    BY KeptEmpty, EmptySeq
  <2> QED
    BY <2>1, <2>2
<1>2. ASSUME NEW t \in Seq(E), NEW e \in E, t \in T PROVE Append(t, e) \in T
  <2>1. Append(t, e) \in Seq(E) /\ s \o t \in Seq(E)
    OBVIOUS
  <2>2. s \o Append(t, e) = Append(s \o t, e)
    OBVIOUS
  <2>3. Kept(s, S) \in Seq(E) /\ Kept(t, S) \in Seq(E)
    BY KeptAppend
  <2>4. Kept(s, S) \o Append(Kept(t, S), e) = Append(Kept(s, S) \o Kept(t, S), e)
    BY <2>3
  <2>5. Kept(Append(t, e), S) = IF e \in S THEN Append(Kept(t, S), e) ELSE Kept(t, S)
    BY KeptAppend
  <2>6. Kept(Append(s \o t, e), S) = IF e \in S THEN Append(Kept(s \o t, S), e) ELSE Kept(s \o t, S)
    <3>1. PICK q \in Seq(E) : q = s \o t
      BY <2>1
    <3>2. Kept(Append(q, e), S) = IF e \in S THEN Append(Kept(q, S), e) ELSE Kept(q, S)
      BY KeptAppend, SMTT(30)
    <3> QED
      BY <3>1, <3>2
  <2>7. Kept(s \o t, S) = Kept(s, S) \o Kept(t, S)
    BY <1>2
  <2>8. Kept(Append(s \o t, e), S) = Kept(s, S) \o Kept(Append(t, e), S)
    <3>1. CASE e \in S
      BY <2>4, <2>5, <2>6, <2>7, <3>1
    <3>2. CASE e \notin S
      BY <2>5, <2>6, <2>7, <3>2
    <3> QED
      BY <3>1, <3>2
  <2> QED
    BY <2>1, <2>2, <2>8
<1>3. \A t \in Seq(E) : t \in T
  <2> HIDE DEF T
  <2> QED
    BY <1>1, <1>2, OverLists
<1> QED
  BY <1>3

\* Keeping twice keeps what both sets have.
LEMMA KeptTwice ==
  ASSUME NEW E, NEW S, NEW U, NEW W, \A x : x \in W <=> x \in S /\ x \in U
  PROVE  \A s \in Seq(E) : Kept(Kept(s, S), U) = Kept(s, W)
<1> DEFINE T == {s \in Seq(E) : Kept(Kept(s, S), U) = Kept(s, W)}
<1>1. <<>> \in T
  <2>1. Kept(<<>>, S) = <<>> /\ Kept(<<>>, U) = <<>> /\ Kept(<<>>, W) = <<>> /\ <<>> \in Seq(E)
    BY KeptEmpty, EmptySeq
  <2> QED
    BY <2>1
<1>2. ASSUME NEW s \in Seq(E), NEW e \in E, s \in T PROVE Append(s, e) \in T
  <2>1. Kept(s, S) \in Seq(E) /\ Append(s, e) \in Seq(E)
    BY KeptAppend, AppendProperties
  <2>2. Kept(Append(s, e), S) = IF e \in S THEN Append(Kept(s, S), e) ELSE Kept(s, S)
    BY KeptAppend
  <2>3. Kept(Append(s, e), W) = IF e \in W THEN Append(Kept(s, W), e) ELSE Kept(s, W)
    BY KeptAppend
  <2>4. Kept(Append(Kept(s, S), e), U)
          = IF e \in U THEN Append(Kept(Kept(s, S), U), e) ELSE Kept(Kept(s, S), U)
    <3>1. PICK q \in Seq(E) : q = Kept(s, S)
      BY <2>1
    <3>2. Kept(Append(q, e), U) = IF e \in U THEN Append(Kept(q, U), e) ELSE Kept(q, U)
      BY KeptAppend
    <3> QED
      BY <3>1, <3>2
  <2>5. Kept(Kept(s, S), U) = Kept(s, W)
    BY <1>2
  <2>6. Kept(Kept(Append(s, e), S), U) = Kept(Append(s, e), W)
    <3>1. CASE e \in S /\ e \in U
      BY <2>2, <2>3, <2>4, <2>5, <3>1
    <3>2. CASE e \in S /\ e \notin U
      BY <2>2, <2>3, <2>4, <2>5, <3>2
    <3>3. CASE e \notin S
      BY <2>2, <2>3, <2>5, <3>3
    <3> QED
      BY <3>1, <3>2, <3>3
  <2> QED
    BY <2>1, <2>6
<1>3. \A s \in Seq(E) : s \in T
  <2> HIDE DEF T
  <2> QED
    BY <1>1, <1>2, OverLists
<1> QED
  BY <1>3

\* Only the items of the list matter of the set.
LEMMA KeptSame ==
  ASSUME NEW E, NEW S, NEW U
  PROVE  \A s \in Seq(E) : (\A x \in ItemsOf(s) : x \in S <=> x \in U) => Kept(s, S) = Kept(s, U)
<1> DEFINE Agree(s) == \A x \in ItemsOf(s) : x \in S <=> x \in U
           T == {s \in Seq(E) : Agree(s) => Kept(s, S) = Kept(s, U)}
<1>1. <<>> \in T
  BY KeptEmpty
<1>2. ASSUME NEW s \in Seq(E), NEW e \in E, s \in T PROVE Append(s, e) \in T
  <2>1. Append(s, e) \in Seq(E) /\ ItemsOf(Append(s, e)) = ItemsOf(s) \cup {e}
    <3>1. /\ Append(s, e) \in Seq(E) /\ Len(s) \in Nat /\ Len(Append(s, e)) = Len(s) + 1
          /\ \A i \in 1..Len(s) : Append(s, e)[i] = s[i]
          /\ Append(s, e)[Len(s) + 1] = e
      BY AppendProperties, LenProperties
    <3>2. DOMAIN s = 1..Len(s) /\ DOMAIN Append(s, e) = 1..(Len(s) + 1)
      BY <3>1, LenProperties
    <3>3. 1..(Len(s) + 1) = 1..Len(s) \cup {Len(s) + 1}
      BY <3>1
    <3> QED
      BY <3>1, <3>2, <3>3 DEF ItemsOf
  <2>2. \A X : Kept(Append(s, e), X) = IF e \in X THEN Append(Kept(s, X), e) ELSE Kept(s, X)
    BY KeptAppend
  <2>3. Agree(Append(s, e)) => Agree(s) /\ (e \in S <=> e \in U)
    BY <2>1
  <2> QED
    BY <1>2, <2>1, <2>2, <2>3
<1>3. \A s \in Seq(E) : s \in T
  <2> HIDE DEF T
  <2> QED
    BY <1>1, <1>2, OverLists
<1> QED
  BY <1>3

\* The lists that ZoneByZone goes through.
ZonesBy(Z, o, S) ==
  /\ Z \in [0..Len(o) -> Seq(ScopedFacilities)] /\ Z[0] = <<>>
  /\ \A i \in 1..Len(o) : Z[i] = Z[i - 1] \o Kept(FacilityOrder, {f \in S : ZoneOf[f] = o[i]})

\* The facilities are those of the package.
LEMMA FacilitiesListed == FacilityOrder \in Seq(ScopedFacilities)
BY DEF FacilityOrder, ScopedFacilities, ZoneOf

\* ZoneByZone is well-defined.
LEMMA ZonesDefined ==
  ASSUME NEW E, NEW o \in Seq(E), NEW S
  PROVE  \E Z : ZonesBy(Z, o, S) /\ ZoneByZone(o, S) = Z[Len(o)]
<1> DEFINE n == Len(o)
           A == Seq(ScopedFacilities)
           In(i) == Kept(FacilityOrder, {f \in S : ZoneOf[f] = o[i]})
           g == [x \in A \X (1..n) |-> x[1] \o In(x[2])]
           IsZ(Z) == Z = [i \in 0..n |-> IF i = 0 THEN <<>> ELSE Z[i - 1] \o In(i)]
           C == CHOOSE Z : IsZ(Z)
<1>0. n \in Nat /\ <<>> \in A
  OBVIOUS
<1>1. \A i : In(i) \in A
  BY FacilitiesListed, KeptType
<1>2. ZoneByZone(o, S) = C[n]
  BY DEF ZoneByZone
<1> HIDE DEF C, In
<1>3. StepsIn(g, n, A)
  <2> SUFFICES ASSUME NEW x \in A \X (1..n) PROVE x[1] \o In(x[2]) \in A
    BY DEF StepsIn
  <2>1. x[1] \in A /\ In(x[2]) \in A
    BY <1>1
  <2> QED
    BY <2>1
<1>4. \A v \in A : \A i \in 1..n : g[<<v, i>>] = v \o In(i)
  <2> TAKE v \in A
  <2> TAKE i \in 1..n
  <2>1. <<v, i>> \in A \X (1..n) /\ <<v, i>>[1] = v /\ <<v, i>>[2] = i
    OBVIOUS
  <2> QED
    BY <2>1
<1> HIDE DEF g
<1>5. \E f : IsZ(f)
  <2>1. PICK f : Iterates(f, n, A, <<>>, g)
    <3> HIDE DEF n, A
    <3> QED
      BY <1>0, <1>3, Iterate
  <2>2. f \in [0..n -> A] /\ f[0] = <<>> /\ \A i \in 1..n : f[i] = g[<<f[i - 1], i>>]
    BY <2>1 DEF Iterates
  <2>3. ASSUME NEW i \in 0..n PROVE f[i] = IF i = 0 THEN <<>> ELSE f[i - 1] \o In(i)
    <3>1. CASE i = 0
      BY <2>2, <3>1
    <3>2. CASE i # 0
      <4>1. i \in 1..n /\ i - 1 \in 0..n
        BY <1>0, <3>2
      <4>2. f[i - 1] \in A
        BY <2>2, <4>1
      <4> QED
        BY <1>4, <2>2, <3>2, <4>1, <4>2
    <3> QED
      BY <3>1, <3>2
  <2>4. IsZ(f)
    BY <2>2, <2>3
  <2> QED
    BY <2>4
<1>6. IsZ(C)
  <2> HIDE DEF IsZ
  <2> QED
    BY <1>5 DEF C
<1>7. C = [i \in 0..n |-> C[i]] /\ C[0] = <<>> /\ \A i \in 1..n : C[i] = C[i - 1] \o In(i)
  <2>1. C = [i \in 0..n |-> C[i]] /\ 0 \in 0..n /\ \A i \in 1..n : i \in 0..n /\ i # 0
    BY <1>0, <1>6
  <2> QED
    BY <1>6, <2>1
<1>8. \A i \in 1..n : C[i - 1] \in A => C[i] = g[<<C[i - 1], i>>]
  BY <1>4, <1>7
<1>9. Iterates(C, n, A, <<>>, g)
  <2> HIDE DEF n, A
  <2> QED
    BY <1>0, <1>3, <1>7, <1>8, Determined
<1>10. ZonesBy(C, o, S)
  BY <1>7, <1>9 DEF Iterates, ZonesBy, In
<1> QED
  BY <1>2, <1>10

\* Without zones there are no facilities.
LEMMA ZonesEmpty ==
  ASSUME NEW S
  PROVE  ZoneByZone(<<>>, S) = <<>>
<1>1. <<>> \in Seq({}) /\ Len(<<>>) = 0
  OBVIOUS
<1>2. PICK Z : ZonesBy(Z, <<>>, S) /\ ZoneByZone(<<>>, S) = Z[Len(<<>>)]
  BY <1>1, ZonesDefined
<1> QED
  BY <1>1, <1>2 DEF ZonesBy

\* The facilities of a zone that are in S.
Of(z, S) == Kept(FacilityOrder, {f \in S : ZoneOf[f] = z})

\* ZoneByZone takes the zones one by one.
LEMMA ZonesAppend ==
  ASSUME NEW E, NEW s \in Seq(E), NEW e \in E, NEW S
  PROVE  /\ ZoneByZone(s, S) \in Seq(ScopedFacilities) /\ Of(e, S) \in Seq(ScopedFacilities)
         /\ ZoneByZone(Append(s, e), S) = ZoneByZone(s, S) \o Of(e, S)
<1> DEFINE n == Len(s)
           t == Append(s, e)
<1>1. /\ n \in Nat /\ t \in Seq(E) /\ Len(t) = n + 1 /\ t[n + 1] = e
      /\ \A i \in 1..n : t[i] = s[i]
  BY AppendProperties, LenProperties
<1> HIDE DEF t, n
<1>2. PICK K : ZonesBy(K, s, S) /\ ZoneByZone(s, S) = K[n]
  BY ZonesDefined DEF n
<1>3. PICK J : ZonesBy(J, t, S) /\ ZoneByZone(t, S) = J[n + 1]
  BY <1>1, ZonesDefined
<1>4. K \in [0..n -> Seq(ScopedFacilities)] /\ K[0] = <<>>
      /\ \A i \in 1..n : K[i] = K[i - 1] \o Of(s[i], S)
  BY <1>2 DEF ZonesBy, n, Of
<1>5. /\ J[0] = <<>>
      /\ \A i \in 1..(n + 1) : J[i] = J[i - 1] \o Of(t[i], S)
  BY <1>1, <1>3 DEF ZonesBy, Of
<1> DEFINE T == {i \in 0..n : J[i] = K[i]}
<1>6. 0 \in T
  <2>1. 0 \in 0..n /\ J[0] = K[0]
    BY <1>1, <1>4, <1>5
  <2> QED
    BY <2>1
<1>7. ASSUME NEW i \in 0..n, i \in T, i < n PROVE i + 1 \in T
  <2>1. i + 1 \in 1..n /\ i + 1 \in 1..(n + 1) /\ i + 1 \in 0..n /\ (i + 1) - 1 = i
    BY <1>1, <1>7
  <2>2. J[i + 1] = J[i] \o Of(t[i + 1], S)
    BY <1>5, <2>1
  <2>3. K[i + 1] = K[i] \o Of(s[i + 1], S)
    BY <1>4, <2>1
  <2>4. t[i + 1] = s[i + 1] /\ J[i] = K[i]
    BY <1>1, <1>7, <2>1
  <2> QED
    BY <2>1, <2>2, <2>3, <2>4
<1>8. J[n] = K[n]
  <2>1. \A i \in 0..n : i \in T
    <3> HIDE DEF T
    <3> QED
      BY <1>1, <1>6, <1>7, UpTo
  <2> QED
    BY <1>1, <2>1
<1>9. J[n + 1] = K[n] \o Of(e, S)
  <2>1. n + 1 \in 1..(n + 1) /\ (n + 1) - 1 = n
    BY <1>1
  <2> QED
    BY <1>1, <1>5, <1>8, <2>1
<1>10. ZoneByZone(s, S) \in Seq(ScopedFacilities)
  BY <1>1, <1>2, <1>4
<1>11. Of(e, S) \in Seq(ScopedFacilities)
  BY FacilitiesListed, KeptType DEF Of
<1> QED
  BY <1>2, <1>3, <1>9, <1>10, <1>11 DEF t

\* Keeping facilities of the whole list is keeping them in each zone.
LEMMA ZonesKept ==
  ASSUME NEW E, NEW S, NEW U, NEW W, \A x : x \in W <=> x \in S /\ x \in U
  PROVE  \A o \in Seq(E) : Kept(ZoneByZone(o, S), U) = ZoneByZone(o, W)
<1> DEFINE T == {o \in Seq(E) : Kept(ZoneByZone(o, S), U) = ZoneByZone(o, W)}
<1>1. <<>> \in T
  <2>1. Kept(<<>>, U) = <<>> /\ ZoneByZone(<<>>, S) = <<>> /\ ZoneByZone(<<>>, W) = <<>> /\ <<>> \in Seq(E)
    BY KeptEmpty, ZonesEmpty, EmptySeq
  <2> QED
    BY <2>1
<1>2. ASSUME NEW o \in Seq(E), NEW z \in E, o \in T PROVE Append(o, z) \in T
  <2>1. Append(o, z) \in Seq(E)
    BY AppendProperties
  <2>2. ZoneByZone(Append(o, z), S) = ZoneByZone(o, S) \o Of(z, S)
    BY ZonesAppend
  <2>3. ZoneByZone(Append(o, z), W) = ZoneByZone(o, W) \o Of(z, W)
    BY ZonesAppend
  <2>4. PICK a \in Seq(ScopedFacilities) : a = ZoneByZone(o, S)
    BY ZonesAppend
  <2>5. PICK b \in Seq(ScopedFacilities) : b = Of(z, S)
    BY ZonesAppend
  <2>6. Kept(a \o b, U) = Kept(a, U) \o Kept(b, U)
    BY KeptConcat
  <2>7. Kept(b, U) = Of(z, W)
    <3> DEFINE X == {f \in S : ZoneOf[f] = z}
               Y == {f \in W : ZoneOf[f] = z}
    <3>1. \A x : x \in Y <=> x \in X /\ x \in U
      OBVIOUS
    <3> HIDE DEF X, Y
    <3>2. Kept(Kept(FacilityOrder, X), U) = Kept(FacilityOrder, Y)
      BY <3>1, FacilitiesListed, KeptTwice
    <3> QED
      BY <2>5, <3>2 DEF Of, X, Y
  <2>8. Kept(ZoneByZone(o, S), U) = ZoneByZone(o, W)
    BY <1>2
  <2>9. Kept(ZoneByZone(Append(o, z), S), U) = ZoneByZone(Append(o, z), W)
    BY <2>2, <2>3, <2>4, <2>5, <2>6, <2>7, <2>8
  <2> QED
    BY <2>1, <2>9
<1>3. \A o \in Seq(E) : o \in T
  <2> HIDE DEF T
  <2> QED
    BY <1>1, <1>2, OverLists
<1> QED
  BY <1>3

\* A list of facilities, whatever the zones.
LEMMA ZonesType ==
  ASSUME NEW E, NEW o \in Seq(E), NEW S
  PROVE  ZoneByZone(o, S) \in Seq(ScopedFacilities)
<1>1. PICK Z : ZonesBy(Z, o, S) /\ ZoneByZone(o, S) = Z[Len(o)]
  BY ZonesDefined
<1>2. Len(o) \in Nat /\ Z \in [0..Len(o) -> Seq(ScopedFacilities)]
  BY <1>1, LenProperties DEF ZonesBy
<1> QED
  BY <1>1, <1>2

\* After points past the first place of x from w on, or past the end of the list.
LEMMA AfterFirst ==
  ASSUME NEW E, NEW list \in Seq(E), NEW w \in 1..(Len(list) + 2), NEW x
  PROVE  /\ After(list, w, x) \in 1..(Len(list) + 2)
         /\ After(list, w, x) <= Len(list) + 1
              => w < After(list, w, x) /\ list[After(list, w, x) - 1] = x
         /\ \A j \in w..Len(list) : list[j] = x => After(list, w, x) <= j + 1
<1>1. Len(list) \in Nat
  BY LenProperties
<1>2. CASE ~ \E j \in w..Len(list) : list[j] = x
  <2>1. After(list, w, x) = Len(list) + 2
    BY <1>2 DEF After
  <2> QED
    BY <1>1, <1>2, <2>1
<1>3. CASE \E j \in w..Len(list) : list[j] = x
  <2> DEFINE IsFirst(j) == list[j] = x /\ \A k \in w..(j - 1) : list[k] # x
             c == CHOOSE j \in w..Len(list) : IsFirst(j)
             T == {j \in w..Len(list) : list[j] = x}
  <2>1. PICK f \in T : \A j \in T : f <= j
    <3>1. T \in SUBSET Nat /\ T # {}
      BY <1>1, <1>3
    <3> HIDE DEF T
    <3> QED
      BY <3>1, LeastIndex
  <2>2. f \in w..Len(list) /\ IsFirst(f)
    BY <1>1, <2>1
  <2>3. c \in w..Len(list) /\ IsFirst(c)
    <3> HIDE DEF IsFirst
    <3> QED
      BY <2>2
  <2>4. After(list, w, x) = 1 + c
    BY <1>3 DEF After
  <2> HIDE DEF c
  <2>5. \A j \in w..Len(list) : list[j] = x => c <= j
    BY <1>1, <2>3
  <2>6. (1 + c) - 1 = c /\ 1 + c \in 1..(Len(list) + 2) /\ w < 1 + c
    BY <1>1, <2>3
  <2>7. \A j \in w..Len(list) : list[j] = x => 1 + c <= j + 1
    BY <1>1, <2>3, <2>5
  <2> QED
    BY <2>3, <2>4, <2>6, <2>7
<1> QED
  BY <1>2, <1>3

\* Where the walk of enforceChoiceOrder stands in the list before and after each id.
Walks(w, ids, list) ==
  /\ w \in [0..Len(ids) -> 1..(Len(list) + 2)] /\ w[0] = 1
  /\ \A i \in 1..Len(ids) : w[i] = After(list, w[i - 1], ids[i])

\* enforceChoiceOrder is well-defined: its walk exists.
LEMMA WalkDefined ==
  ASSUME NEW E, NEW ids \in Seq(E), NEW list \in Seq(E)
  PROVE  \E w : /\ Walks(w, ids, list)
                /\ enforceChoiceOrder(ids, list)
                     <=> list # <<>> /\ Len(ids) <= Len(list) /\ w[Len(ids)] <= Len(list) + 1
<1> DEFINE n == Len(ids)
           A == 1..(Len(list) + 2)
           g == [x \in A \X (1..n) |-> After(list, x[1], ids[x[2]])]
           IsW(W) == W = [i \in 0..n |-> IF i = 0 THEN 1 ELSE After(list, W[i - 1], ids[i])]
           C == CHOOSE W : IsW(W)
<1>1. n \in Nat /\ 1 \in A
  BY LenProperties
<1>2. enforceChoiceOrder(ids, list) <=> list # <<>> /\ n <= Len(list) /\ C[n] <= Len(list) + 1
  BY DEF enforceChoiceOrder
<1> HIDE DEF C
<1>3. StepsIn(g, n, A)
  <2> SUFFICES ASSUME NEW x \in A \X (1..n) PROVE After(list, x[1], ids[x[2]]) \in A
    BY DEF StepsIn
  <2>1. PICK v \in A : v = x[1]
    OBVIOUS
  <2>2. After(list, v, ids[x[2]]) \in A
    BY AfterFirst
  <2> QED
    BY <2>1, <2>2
<1>4. \A v \in A : \A i \in 1..n : g[<<v, i>>] = After(list, v, ids[i])
  <2> TAKE v \in A
  <2> TAKE i \in 1..n
  <2>1. <<v, i>> \in A \X (1..n) /\ <<v, i>>[1] = v /\ <<v, i>>[2] = i
    OBVIOUS
  <2> QED
    BY <2>1
<1> HIDE DEF g
<1>5. \E f : IsW(f)
  <2>1. PICK f : Iterates(f, n, A, 1, g)
    <3> HIDE DEF n, A
    <3> QED
      BY <1>1, <1>3, Iterate
  <2>2. f \in [0..n -> A] /\ f[0] = 1 /\ \A i \in 1..n : f[i] = g[<<f[i - 1], i>>]
    BY <2>1 DEF Iterates
  <2>3. ASSUME NEW i \in 0..n PROVE f[i] = IF i = 0 THEN 1 ELSE After(list, f[i - 1], ids[i])
    <3>1. CASE i = 0
      BY <2>2, <3>1
    <3>2. CASE i # 0
      <4>1. i \in 1..n /\ i - 1 \in 0..n
        BY <1>1, <3>2
      <4>2. f[i - 1] \in A
        BY <2>2, <4>1
      <4> QED
        BY <1>4, <2>2, <3>2, <4>1, <4>2
    <3> QED
      BY <3>1, <3>2
  <2>4. IsW(f)
    BY <2>2, <2>3
  <2> QED
    BY <2>4
<1>6. IsW(C)
  <2> HIDE DEF IsW
  <2> QED
    BY <1>5 DEF C
<1>7. C = [i \in 0..n |-> C[i]] /\ C[0] = 1 /\ \A i \in 1..n : C[i] = After(list, C[i - 1], ids[i])
  <2>1. C = [i \in 0..n |-> C[i]] /\ 0 \in 0..n /\ \A i \in 1..n : i \in 0..n /\ i # 0
    BY <1>1, <1>6
  <2> QED
    BY <1>6, <2>1
<1>8. \A i \in 1..n : C[i - 1] \in A => C[i] = g[<<C[i - 1], i>>]
  BY <1>4, <1>7
<1>9. Iterates(C, n, A, 1, g)
  <2> HIDE DEF n, A
  <2> QED
    BY <1>1, <1>3, <1>7, <1>8, Determined
<1>10. Walks(C, ids, list)
  BY <1>7, <1>9 DEF Iterates, Walks
<1> QED
  BY <1>2, <1>10

\* A walk that has not passed the end has moved on at every id, to the place after it.
LEMMA WalkMoves ==
  ASSUME NEW E, NEW ids \in Seq(E), NEW list \in Seq(E),
         NEW w, Walks(w, ids, list), w[Len(ids)] <= Len(list) + 1
  PROVE  /\ \A i \in 0..Len(ids) : w[i] <= Len(list) + 1
         /\ \A i \in 1..Len(ids) : w[i - 1] < w[i] /\ list[w[i] - 1] = ids[i]
<1> DEFINE n == Len(ids)
           L == Len(list)
<1>1. n \in Nat /\ L \in Nat
  BY LenProperties
<1>2. w \in [0..n -> 1..(L + 2)]
  BY DEF Walks
<1>3. ASSUME NEW i \in 1..n
      PROVE  w[i] <= L + 1 => w[i - 1] < w[i] /\ list[w[i] - 1] = ids[i]
  <2>0. i - 1 \in 0..n
    BY <1>1
  <2>1. PICK v \in 1..(L + 2) : v = w[i - 1]
    <3> HIDE DEF n, L
    <3> QED
      BY <1>2, <2>0
  <2>2. After(list, v, ids[i]) <= L + 1
          => v < After(list, v, ids[i]) /\ list[After(list, v, ids[i]) - 1] = ids[i]
    BY AfterFirst
  <2>3. w[i] = After(list, v, ids[i])
    BY <2>1 DEF Walks
  <2> QED
    BY <2>1, <2>2, <2>3
<1> DEFINE T == {i \in 0..n : w[n - i] <= L + 1}
<1>4. 0 \in T
  BY <1>1
<1>5. ASSUME NEW i \in 0..n, i \in T, i < n PROVE i + 1 \in T
  <2>1. n - i \in 1..n /\ n - (i + 1) = (n - i) - 1 /\ (n - i) - 1 \in 0..n /\ n - i \in 0..n /\ i + 1 \in 0..n
    BY <1>1, <1>5
  <2>2. w[(n - i) - 1] < w[n - i] /\ w[n - i] <= L + 1
    BY <1>3, <1>5, <2>1
  <2>3. w[(n - i) - 1] \in Int /\ w[n - i] \in Int
    <3>1. 1..(L + 2) \subseteq Int
      BY <1>1
    <3> HIDE DEF n, L
    <3> QED
      BY <1>2, <2>1, <3>1
  <2>4. w[n - (i + 1)] <= L + 1
    BY <1>1, <2>1, <2>2, <2>3
  <2> QED
    BY <2>1, <2>4
<1>6. \A i \in 0..n : w[i] <= L + 1
  <2>1. \A i \in 0..n : i \in T
    <3> HIDE DEF T, n
    <3> QED
      BY <1>1, <1>4, <1>5, UpTo
  <2> TAKE i \in 0..n
  <2>2. n - i \in 0..n /\ n - (n - i) = i
    BY <1>1
  <2>3. n - i \in T
    BY <2>1, <2>2
  <2> QED
    BY <2>2, <2>3
<1>7. \A i \in 1..n : i \in 0..n
  BY <1>1
<1> QED
  BY <1>3, <1>6, <1>7

\* What moves on at every step is in order.
LEMMA InOrder ==
  ASSUME NEW n \in Nat, NEW w, \A i \in 0..n : w[i] \in Int, \A i \in 1..n : w[i - 1] < w[i]
  PROVE  \A i, j \in 0..n : i < j => w[i] < w[j]
<1> DEFINE T == {j \in 0..n : \A i \in 0..n : i < j => w[i] < w[j]}
<1>1. 0 \in T
  OBVIOUS
<1>2. ASSUME NEW j \in 0..n, j \in T, j < n PROVE j + 1 \in T
  <2>1. j + 1 \in 1..n /\ j + 1 \in 0..n /\ (j + 1) - 1 = j
    BY <1>2
  <2>2. w[j] < w[j + 1]
    BY <2>1
  <2>3. ASSUME NEW i \in 0..n, i < j + 1 PROVE w[i] < w[j + 1]
    <3>1. w[i] \in Int /\ w[j] \in Int /\ w[j + 1] \in Int
      BY <2>1
    <3>2. CASE i = j
      BY <2>2, <3>2
    <3>3. CASE i < j
      BY <1>2, <2>2, <3>1, <3>3
    <3> QED
      BY <2>3, <3>2, <3>3
  <2> QED
    BY <2>1, <2>3
<1>3. \A j \in 0..n : j \in T
  <2> HIDE DEF T
  <2> QED
    BY <1>1, <1>2, UpTo
<1> QED
  BY <1>3

\* A choice whose walk does not pass the end is a selection.
LEMMA WalkSelects ==
  ASSUME NEW E, NEW ids \in Seq(E), NEW list \in Seq(E),
         NEW w, Walks(w, ids, list), w[Len(ids)] <= Len(list) + 1
  PROVE  Selects(ids, list)
<1>1. PICK n \in Nat : n = Len(ids) /\ DOMAIN ids = 1..n
  BY LenProperties
<1>2. PICK m \in Nat : m = Len(list) /\ DOMAIN list = 1..m
  BY LenProperties
<1>3. /\ \A i \in 0..n : w[i] \in 1..(m + 2) /\ w[i] <= m + 1
      /\ w[0] = 1
      /\ \A i \in 1..n : w[i - 1] < w[i] /\ list[w[i] - 1] = ids[i]
  <2>1. w \in [0..n -> 1..(m + 2)] /\ w[0] = 1
    BY <1>1, <1>2 DEF Walks
  <2>2. \A i \in 0..n : w[i] <= m + 1
    BY <1>1, <1>2, WalkMoves
  <2>3. \A i \in 1..n : w[i - 1] < w[i] /\ list[w[i] - 1] = ids[i]
    BY <1>1, <1>2, WalkMoves
  <2> QED
    BY <2>1, <2>2, <2>3
<1>4. \A i, j \in 0..n : i < j => w[i] < w[j]
  <2>1. \A i \in 0..n : w[i] \in Int
    BY <1>2, <1>3
  <2> QED
    BY <1>3, <2>1, InOrder
<1> DEFINE pick == [i \in 1..n |-> w[i] - 1]
<1>5. ASSUME NEW i \in 1..n PROVE pick[i] \in 1..m
  <2>1. i \in 0..n /\ 0 \in 0..n /\ 0 < i
    OBVIOUS
  <2>2. w[i] \in Int /\ w[i] <= m + 1 /\ w[0] < w[i] /\ w[0] = 1
    BY <1>3, <1>4, <2>1
  <2> QED
    BY <2>2
<1>6. pick \in [1..n -> 1..m]
  BY <1>5
<1>7. \A i \in 1..n : list[pick[i]] = ids[i]
  BY <1>3
<1>8. ASSUME NEW i \in 1..n, NEW j \in 1..n, i < j PROVE pick[i] < pick[j]
  <2>1. i \in 0..n /\ j \in 0..n
    OBVIOUS
  <2>2. w[i] < w[j] /\ w[i] \in Int /\ w[j] \in Int
    BY <1>3, <1>4, <1>8, <2>1
  <2> QED
    BY <2>2
<1> HIDE DEF pick
<1> QED
  BY <1>1, <1>2, <1>6, <1>7, <1>8 DEF Selects

\* The walk over a selection is never past the place after the one picked.
LEMMA SelectionWalks ==
  ASSUME NEW E, NEW ids \in Seq(E), NEW list \in Seq(E), NEW w, Walks(w, ids, list),
         ids # <<>>, Selects(ids, list)
  PROVE  list # <<>> /\ Len(ids) <= Len(list) /\ w[Len(ids)] <= Len(list) + 1
<1>1. PICK n \in Nat : n = Len(ids) /\ DOMAIN ids = 1..n
  BY LenProperties
<1>2. PICK m \in Nat : m = Len(list) /\ DOMAIN list = 1..m
  BY LenProperties
<1>3. n # 0
  BY <1>1, EmptySeq
<1>4. PICK pick \in [1..n -> 1..m] :
        /\ \A i \in 1..n : list[pick[i]] = ids[i]
        /\ \A i, j \in 1..n : i < j => pick[i] < pick[j]
  BY <1>1, <1>2 DEF Selects
<1>5. \A i \in 1..n : pick[i] \in Int /\ 1 <= pick[i] /\ pick[i] <= m
  <2> TAKE i \in 1..n
  <2>1. pick[i] \in 1..m
    BY <1>4
  <2> QED
    BY <2>1
<1> DEFINE T == {i \in 0..n : i \in 1..n => i <= pick[i] /\ w[i] <= pick[i] + 1}
<1>6. 0 \in T
  OBVIOUS
<1>7. ASSUME NEW i \in 0..n, i \in T, i < n PROVE i + 1 \in T
  <2>1. i + 1 \in 1..n /\ i + 1 \in 0..n /\ (i + 1) - 1 = i
    BY <1>7
  <2>2. PICK v \in 1..(m + 2) : v = w[i]
    BY <1>1, <1>2, <1>7 DEF Walks
  <2>3. w[i + 1] = After(list, v, ids[i + 1])
    BY <1>1, <2>1, <2>2 DEF Walks
  <2>4. PICK p \in 1..m : p = pick[i + 1] /\ list[p] = ids[i + 1]
    BY <1>4, <2>1
  <2>5. i + 1 <= p /\ v <= p
    <3>1. CASE i = 0
      <4>1. v = 1
        BY <2>2, <3>1 DEF Walks
      <4> QED
        BY <2>4, <3>1, <4>1
    <3>2. CASE i # 0
      <4>1. i \in 1..n /\ i < i + 1
        BY <1>7, <3>2
      <4>2. i <= pick[i] /\ w[i] <= pick[i] + 1 /\ pick[i] < p /\ pick[i] \in Int
        BY <1>4, <1>5, <1>7, <2>1, <2>4, <4>1
      <4>3. i \in Int /\ p \in Int /\ v \in Int /\ v = w[i]
        BY <1>2, <2>2
      <4> QED
        BY <4>2, <4>3
    <3> QED
      BY <3>1, <3>2
  <2>6. After(list, v, ids[i + 1]) <= p + 1
    <3>1. v \in 1..(Len(list) + 2) /\ p \in v..Len(list)
      BY <1>2, <2>4, <2>5
    <3> QED
      BY <2>4, <3>1, AfterFirst
  <2> QED
    BY <2>1, <2>3, <2>4, <2>5, <2>6
<1>8. n <= pick[n] /\ w[n] <= pick[n] + 1
  <2>1. \A i \in 0..n : i \in T
    <3> HIDE DEF T
    <3> QED
      BY <1>6, <1>7, UpTo
  <2>2. n \in 0..n /\ n \in 1..n
    BY <1>3
  <2> QED
    BY <2>1, <2>2
<1>9. pick[n] \in Int /\ pick[n] <= m /\ 1 <= pick[n]
  BY <1>3, <1>5
<1>10. w[n] \in Int
  <2>1. w \in [0..n -> 1..(m + 2)]
    BY <1>1, <1>2 DEF Walks
  <2>2. n \in 0..n
    OBVIOUS
  <2>3. w[n] \in 1..(m + 2)
    BY <2>1, <2>2
  <2> QED
    BY <2>3
<1>11. list # <<>>
  BY <1>2, <1>3, <1>8, <1>9, EmptySeq
<1> QED
  BY <1>1, <1>2, <1>8, <1>9, <1>10, <1>11

\* enforceChoiceOrder accepts the selections that keep the list's order, and nothing else.
THEOREM ChoiceOrder ==
  ASSUME NEW E, NEW ids \in Seq(E), NEW list \in Seq(E), ids # <<>>
  PROVE  enforceChoiceOrder(ids, list) <=> Selects(ids, list)
<1>1. PICK w : /\ Walks(w, ids, list)
               /\ enforceChoiceOrder(ids, list)
                    <=> list # <<>> /\ Len(ids) <= Len(list) /\ w[Len(ids)] <= Len(list) + 1
  BY WalkDefined
<1>2. enforceChoiceOrder(ids, list) => Selects(ids, list)
  BY <1>1, WalkSelects
<1>3. Selects(ids, list) => enforceChoiceOrder(ids, list)
  BY <1>1, SelectionWalks
<1> QED
  BY <1>2, <1>3

\* Guidance lists what may be spoken of: the facilities that EligibleWithStatus sizes are the
\* eligible ones that have places.
LEMMA ListedAgrees ==
  ASSUME NEW E, NEW b, b.order \in Seq(E), NEW gate \in BOOLEAN
  PROVE  LET list == EligibleWithStatus(b, gate)
             ids == [i \in DOMAIN list |-> list[i].id]
             sized == {list[i].id : i \in {i \in DOMAIN list : list[i].known}}
         IN /\ \A i \in DOMAIN list : list[i].route => isRouteVerified(b)
            /\ b.standing = "current" =>
                 IF ~classServed(b, gate) THEN list = <<>>
                 ELSE Kept(ids, sized) = Kept(Eligible(b), ScopedFacilities \ b.full)
<1> DEFINE list == EligibleWithStatus(b, gate)
           ids == [i \in DOMAIN list |-> list[i].id]
           sized == {list[i].id : i \in {i \in DOMAIN list : list[i].known}}
           fit == {f \in ScopedFacilities : facilityDestination(b, f)}
           facs == ZoneByZone(readPolicyOrder(b, gate), fit)
           Sized == {f \in ScopedFacilities : ZoneOf[f] # "zUnsized"}
           W == {f \in Usable : f \notin b.full}
<1>1. list = [i \in DOMAIN facs |-> [id |-> facs[i], known |-> ZoneOf[facs[i]] # "zUnsized",
                                     route |-> routeVerified(b, ZoneOf[facs[i]], gate)]]
  BY DEF EligibleWithStatus
<1> HIDE DEF list, fit, facs
<1>2. DOMAIN list = DOMAIN facs
      /\ \A i \in DOMAIN facs : /\ list[i].id = facs[i] /\ (list[i].known <=> ZoneOf[facs[i]] # "zUnsized")
                                /\ (list[i].route <=> routeVerified(b, ZoneOf[facs[i]], gate))
  BY <1>1
<1>3. \A i \in DOMAIN list : list[i].route => isRouteVerified(b)
  BY <1>2 DEF routeVerified, isRouteVerified
<1>4. ASSUME b.standing = "current", classServed(b, gate)
      PROVE  Kept(ids, sized) = Kept(Eligible(b), ScopedFacilities \ b.full)
  <2>1. readPolicyOrder(b, gate) = b.order
    BY <1>4 DEF readPolicyOrder
  <2>2. facs \in Seq(ScopedFacilities)
    BY <2>1, ZonesType DEF facs
  <2>3. ids = facs
    <3>1. facs = [i \in DOMAIN facs |-> facs[i]]
      BY <2>2
    <3> QED
      BY <1>2, <3>1
  <2>4. \A x \in ItemsOf(facs) : x \in sized <=> x \in Sized
    <3>1. \A x : x \in sized <=> \E i \in DOMAIN facs : ZoneOf[facs[i]] # "zUnsized" /\ x = facs[i]
      BY <1>2
    <3>2. \A i \in DOMAIN facs : facs[i] \in ScopedFacilities
      BY <2>2
    <3> QED
      BY <3>1, <3>2 DEF ItemsOf
  <2>5. Kept(facs, sized) = Kept(facs, Sized)
    <3> HIDE DEF sized, Sized
    <3> QED
      BY <2>2, <2>4, KeptSame
  <2>6. Kept(facs, Sized) = ZoneByZone(b.order, W)
    <3>1. \A x : x \in W <=> x \in fit /\ x \in Sized
      <4>1. \A x \in ScopedFacilities : ZoneOf[x] \in {"z1", "z2", "zClosed", "zUnsized"}
        BY DEF ScopedFacilities, ZoneOf
      <4> QED
        BY <4>1 DEF Usable, fit, facilityDestination, minFreeOverInterval, ScopedSafeZones
    <3> HIDE DEF W, Sized
    <3> QED
      BY <2>1, <3>1, ZonesKept DEF facs
  <2>7. Kept(Eligible(b), ScopedFacilities \ b.full) = ZoneByZone(b.order, W)
    <3> DEFINE U == ScopedFacilities \ b.full
    <3>1. \A x : x \in W <=> x \in Usable /\ x \in U
      BY DEF Usable
    <3> HIDE DEF W, U
    <3>2. Kept(ZoneByZone(b.order, Usable), U) = ZoneByZone(b.order, W)
      BY <3>1, ZonesKept
    <3> QED
      BY <3>2 DEF U, Eligible
  <2> QED
    BY <2>3, <2>5, <2>6, <2>7
<1>5. ASSUME ~classServed(b, gate) PROVE list = <<>>
  <2>1. facs = <<>>
    BY <1>5, ZonesEmpty DEF facs, readPolicyOrder
  <2>2. DOMAIN facs = {}
    BY <2>1
  <2> QED
    BY <1>1, <2>2
<1> DEFINE agree == Kept(ids, sized) = Kept(Eligible(b), ScopedFacilities \ b.full)
<1>7. b.standing = "current" => IF ~classServed(b, gate) THEN list = <<>> ELSE agree
  BY <1>4, <1>5
<1> QED
  BY <1>3, <1>7 DEF list

\* A list of Lists is a sequence.
LEMMA ListsType ==
  ASSUME NEW S, NEW n \in Nat
  PROVE  \A s \in Lists(S, n) : s \in Seq(S)
BY SeqDef DEF Lists

\* What an action may carry in its target ids.
Targets == ScopedFacilities \cup {"route"}

\* An action with all its fields, whose target ids are a list.
IsAction(a) ==
  /\ DOMAIN a = {"type", "target", "targets", "route", "panel", "move", "language", "layer"}
  /\ a.targets \in Seq(Targets)

\* Filling a field leaves an action an action.
LEMMA FilledActions ==
  ASSUME NEW A, \A a \in A : IsAction(a), NEW f \in DOMAIN Values
  PROVE  \A a \in Filled(A, f) : IsAction(a)
<1>1. MaxIds \in Nat
  BY ProposalAssumption
<1>2. \A v \in Values["targets"] : v \in Seq(Targets)
  <2>1. Values["targets"] = Lists({"f1", "f3", "route"}, MaxIds)
    BY DEF Values
  <2>2. \A s \in Seq({"f1", "f3", "route"}) : s \in Seq(Targets)
    <3>1. {"f1", "f3", "route"} \subseteq Targets
      BY DEF Targets, ScopedFacilities, ZoneOf
    <3> QED
      BY <3>1, SeqDef
  <2> QED
    BY <1>1, <2>1, <2>2, ListsType
<1>3. SUFFICES ASSUME NEW a \in A, NEW v \in Values[f]
               PROVE  IsAction([a EXCEPT ![f] = v])
  BY DEF Filled
<1>4. IsAction(a)
  OBVIOUS
<1>5. CASE f = "targets"
  BY <1>2, <1>4, <1>5 DEF IsAction
<1>6. CASE f # "targets"
  BY <1>4, <1>6 DEF IsAction
<1> QED
  BY <1>5, <1>6

\* The actions of the initial states are actions.
LEMMA ActionsAreActions == \A a \in Actions : IsAction(a)
<1> DEFINE bare == {[ShowChoices(<<>>) EXCEPT !.type = t] : t \in Types}
<1>1. \A a \in bare : IsAction(a)
  <2>1. <<>> \in Seq(Targets)
    OBVIOUS
  <2> QED
    BY <2>1 DEF IsAction, ShowChoices
<1> HIDE DEF bare
<1>2. ASSUME NEW f \in DOMAIN Values, NEW g \in DOMAIN Values
      PROVE  \A a \in Filled(Filled(bare, f), g) : IsAction(a)
  <2>1. \A a \in Filled(bare, f) : IsAction(a)
    BY <1>1, FilledActions
  <2> QED
    BY <2>1, FilledActions
<1>3. Actions = UNION {Filled(Filled(bare, f), g) : f \in DOMAIN Values, g \in DOMAIN Values}
  BY DEF Actions, bare
<1> QED
  BY <1>2, <1>3

\* The checks an action passes in turn.
Passes(f, a, b) ==
  /\ b.standing = "current"
  /\ decodeStrictProposal(f, a)
  /\ f.acts => validateActionRaw(a)
  /\ validateProposal(f, a)
  /\ EnforceScopedContext(f, a, b)

\* The proposal of a request is never changed, and its verdict is what its checks say.
ProposalInv ==
  /\ body.order \in Seq({"z1", "z2", "zClosed", "zUnsized", "zUnknown"})
  /\ IsAction(action)
  /\ frame.clarifies \in Seq({"place", "f1"})
  /\ ~frame.acts => action.target = None /\ action.targets = <<>> /\ action.route = None
  /\ action = ShowChoices(action.targets) => frame = Ok /\ body.standing = "current"
  /\ verdict \in {"none", "accepted", "rejected", "validated", "invalid", "listed"}
  /\ verdict = "accepted" => Passes(frame, action, body)
  /\ verdict = "rejected" => ~Passes(frame, action, body)
  /\ verdict = "validated" => ValidateModelOutput(frame, action)

\* The orders of the initial states are lists of zones.
LEMMA OrdersType == \A o \in Orders : o \in Seq({"z1", "z2", "zClosed", "zUnsized", "zUnknown"})
BY ProposalAssumption, ListsType DEF Orders

\* A proposal that is in force and carries an action.
LEMMA OkProposal == Ok.acts /\ Ok.clarifies \in Seq({"place", "f1"})
BY EmptySeq DEF Ok

\* The initial states.
LEMMA InitProposal == ProposalInit => ProposalInv
<1> SUFFICES ASSUME ProposalInit PROVE ProposalInv
  OBVIOUS
<1>1. verdict = "none"
  BY DEF ProposalInit
<1> DEFINE Zones == {"z1", "z2", "zClosed", "zUnsized", "zUnknown"}
<1>2. <<"z1", "z2">> \in Seq(Zones)
  OBVIOUS
<1>3. CASE /\ body \in Bodies /\ frame = Ok
           /\ action \in {a \in Actions : a.type \in {"SHOW_ROUTE", "OPEN_PANEL"} /\ a.targets = <<>>}
  <2>1. body.order \in Seq(Zones)
    BY <1>2, <1>3 DEF Bodies
  <2>2. IsAction(action) /\ action.type # "SHOW_CHOICES"
    BY <1>3, ActionsAreActions
  <2>3. action # ShowChoices(action.targets)
    BY <2>2 DEF ShowChoices
  <2> QED
    BY <1>1, <1>3, <2>1, <2>2, <2>3, OkProposal DEF ProposalInv
<1>4. CASE body = Operational(<<"z1", "z2">>) /\ frame = Ok /\ action \in Actions
  <2>1. body.order \in Seq(Zones) /\ body.standing = "current"
    BY <1>2, <1>4 DEF Operational
  <2>2. IsAction(action)
    BY <1>4, ActionsAreActions
  <2> QED
    BY <1>1, <1>4, <2>1, <2>2, OkProposal DEF ProposalInv
<1>5. CASE /\ body = Operational(<<"z1", "z2">>) /\ frame \in Frames
           /\ action = [ShowChoices(<<>>) EXCEPT !.type = "RECENTER"]
  <2>1. body.order \in Seq(Zones)
    BY <1>2, <1>5 DEF Operational
  <2>2. /\ action.type = "RECENTER" /\ action.target = None /\ action.targets = <<>>
        /\ action.route = None /\ IsAction(action)
    <3>1. <<>> \in Seq(Targets)
      OBVIOUS
    <3> QED
      BY <1>5, <3>1 DEF ShowChoices, IsAction
  <2>3. action # ShowChoices(action.targets)
    BY <2>2 DEF ShowChoices
  <2>4. frame.clarifies \in Seq({"place", "f1"})
    <3>1. frame.clarifies \in Lists({"place", "f1"}, 2) \cup {<<"place", "place", "place", "place">>}
      BY <1>5 DEF Frames
    <3>2. <<"place", "place", "place", "place">> \in Seq({"place", "f1"})
      OBVIOUS
    <3> QED
      BY <3>1, <3>2, ListsType
  <2> QED
    BY <1>1, <2>1, <2>2, <2>3, <2>4 DEF ProposalInv
<1>6. ASSUME body.order \in Orders, body.standing = "current", frame = Ok,
             NEW ids \in Seq(Targets), action = ShowChoices(ids)
      PROVE  ProposalInv
  <2>1. body.order \in Seq(Zones)
    BY <1>6, OrdersType
  <2>2. IsAction(action)
    BY <1>6 DEF IsAction, ShowChoices
  <2> QED
    BY <1>1, <1>6, <2>1, <2>2, OkProposal DEF ProposalInv
<1>7. CASE /\ \E o \in Orders, f \in {{}, {"f1"}, {"f2", "f3", "f5"}},
                 c \in {"AUTHORIZED_OPERATIONAL", "SYNTHETIC_DEMO"} :
                     body = [Operational(o) EXCEPT !.full = f, !.evidence = c]
           /\ frame = Ok /\ action = ShowChoices(<<>>)
  <2>1. <<>> \in Seq(Targets)
    OBVIOUS
  <2>2. PICK o \in Orders, f \in {{}, {"f1"}, {"f2", "f3", "f5"}},
             c \in {"AUTHORIZED_OPERATIONAL", "SYNTHETIC_DEMO"} :
                 body = [Operational(o) EXCEPT !.full = f, !.evidence = c]
    BY <1>7
  <2>3. body.order \in Orders /\ body.standing = "current"
    BY <2>2 DEF Operational
  <2> QED
    BY <1>6, <1>7, <2>1, <2>3
<1>8. CASE /\ body \in {Operational(o) : o \in Orders} /\ frame = Ok
           /\ action \in {ShowChoices(ids) : ids \in Lists(ScopedFacilities, MaxIds)
                                                  \cup {<<"f1", "f2", "f1", "f2">>}}
  <2>1. PICK ids \in Lists(ScopedFacilities, MaxIds) \cup {<<"f1", "f2", "f1", "f2">>} :
          action = ShowChoices(ids)
    BY <1>8
  <2>2. ids \in Seq(Targets)
    <3>1. \A s \in Seq(ScopedFacilities) : s \in Seq(Targets)
      BY SeqDef DEF Targets
    <3>2. <<"f1", "f2", "f1", "f2">> \in Seq(ScopedFacilities)
      BY DEF ScopedFacilities, ZoneOf
    <3> QED
      BY <3>1, <3>2, ProposalAssumption, ListsType
  <2>3. PICK o \in Orders : body = Operational(o)
    BY <1>8
  <2>4. body.order \in Orders /\ body.standing = "current"
    BY <2>3 DEF Operational
  <2> QED
    BY <1>6, <1>8, <2>1, <2>2, <2>4
<1> QED
  BY <1>3, <1>4, <1>5, <1>7, <1>8 DEF ProposalInit

\* A step decides the verdict, and nothing else.
LEMMA NextProposal == ProposalInv /\ [ProposalNext]_proposalVars => ProposalInv'
<1> SUFFICES ASSUME ProposalInv, [ProposalNext]_proposalVars PROVE ProposalInv'
  OBVIOUS
<1>1. CASE Judged
  <2>1. verdict' = (IF Passes(frame, action, body) THEN "accepted" ELSE "rejected")
        /\ body' = body /\ frame' = frame /\ action' = action
    BY <1>1 DEF Judged, Passes
  <2> QED
    BY <2>1 DEF ProposalInv
<1>2. CASE handleVoiceCommands
  <2>1. /\ verdict' \in {"invalid", "validated"}
        /\ verdict' = "validated" => ValidateModelOutput(frame, action)
        /\ body' = body /\ frame' = frame /\ action' = action
    BY <1>2 DEF handleVoiceCommands
  <2> QED
    BY <2>1 DEF ProposalInv
<1>3. CASE handleGuidanceQuery
  <2>1. verdict' = "listed" /\ body' = body /\ frame' = frame /\ action' = action
    BY <1>3 DEF handleGuidanceQuery
  <2> QED
    BY <2>1 DEF ProposalInv
<1>4. CASE UNCHANGED proposalVars
  BY <1>4 DEF ProposalInv, proposalVars
<1> QED
  BY <1>1, <1>2, <1>3, <1>4 DEF ProposalNext

\* An action with no field but its variant's.
LEMMA OnlyItsFields ==
  ASSUME NEW a, validateActionRaw(a)
  PROVE  /\ a.type \in {"FOCUS_FEATURE", "SHOW_CHOICES", "SHOW_ROUTE", "OPEN_PANEL", "ZOOM", "PAN",
                        "RECENTER", "SET_LANGUAGE"}
         /\ a.target # None => a.type \in {"FOCUS_FEATURE", "OPEN_PANEL"}
         /\ a.targets # <<>> => a.type = "SHOW_CHOICES"
         /\ a.route # None => a.type = "SHOW_ROUTE"
         /\ a.panel # None => a.type = "OPEN_PANEL"
<1>1. a.type \in DOMAIN Allowed /\ Set(a) \subseteq Allowed[a.type]
  BY DEF validateActionRaw
<1>2. a.type \in {"FOCUS_FEATURE", "SHOW_CHOICES", "SHOW_ROUTE", "OPEN_PANEL", "ZOOM", "PAN",
                  "RECENTER", "SET_LANGUAGE"}
  BY <1>1 DEF Allowed
<1>3. /\ "target" \in Allowed[a.type] => a.type \in {"FOCUS_FEATURE", "OPEN_PANEL"}
      /\ "targets" \in Allowed[a.type] => a.type = "SHOW_CHOICES"
      /\ "route" \in Allowed[a.type] => a.type = "SHOW_ROUTE"
      /\ "panel" \in Allowed[a.type] => a.type = "OPEN_PANEL"
  BY <1>2 DEF Allowed
<1>4. /\ a.target # None => "target" \in Set(a)
      /\ a.targets # <<>> => "targets" \in Set(a)
      /\ a.route # None => "route" \in Set(a)
      /\ a.panel # None => "panel" \in Set(a)
  BY DEF Set, Fields
<1> QED
  BY <1>1, <1>2, <1>3, <1>4

\* The ids of a variant's fields are all that it carries.
LEMMA CarriedIds ==
  ASSUME NEW a, validateActionRaw(a)
  PROVE  \A id \in Carried(a) :
           /\ id # None
           /\ \/ a.type \in {"FOCUS_FEATURE", "OPEN_PANEL"} /\ id = a.target
              \/ a.type = "SHOW_CHOICES" /\ id \in ItemsOf(a.targets)
              \/ a.type = "SHOW_ROUTE" /\ id = a.route
<1>1. ItemsOf(<<>>) = {}
  BY DEF ItemsOf
<1> QED
  BY <1>1, OnlyItsFields DEF Carried

\* What the scope requires of an action, case by case.
LEMMA InScope ==
  ASSUME NEW a, NEW b, enforceAction(a, b)
  PROVE  /\ a.type = "FOCUS_FEATURE" => a.target \notin ScopedRoutes /\ isSpatialFeature(a.target)
         /\ a.type = "SHOW_CHOICES" =>
              ItemsOf(a.targets) \subseteq ScopedFacilities /\ Len(a.targets) \in 1..MaxShowChoices
         /\ a.type = "SHOW_ROUTE" => a.route \in ScopedRoutes /\ isRouteVerified(b)
         /\ a.type = "OPEN_PANEL" =>
              \/ a.target = None /\ a.panel # None
              \/ a.panel = "DESTINATION_PREVIEW" /\ a.target \in ScopedFacilities
              \/ a.panel = "ROUTE_STEPS" /\ a.target \in ScopedRoutes /\ isRouteVerified(b)
              \/ a.panel = "CONFIRMATION" /\ isKnownAny(a.target)
BY DEF enforceAction

\* The places, the facilities and the route have different ids.
LEMMA Kinds ==
  /\ ScopedRoutes \cap ScopedFacilities = {} /\ ScopedFacilities \subseteq KnownIDs
  /\ ScopedRoutes \subseteq KnownIDs /\ None \notin Places
  /\ \A id : isKnownAny(id) => id \in Places \/ id \in KnownIDs
  /\ \A id : id \in ScopedFacilities \/ id \in ScopedRoutes \/ isSpatialFeature(id) => isKnownAny(id)
BY DEF ScopedRoutes, ScopedFacilities, ZoneOf, KnownIDs, Places, None, isKnownAny, isSpatialFeature,
       ScopedRedZones, ScopedSafeZones

\* Every id of an accepted action is known, and its route is valid.
LEMMA AcceptedKnown ==
  ASSUME NEW f, NEW a, NEW b, Passes(f, a, b), f.acts
  PROVE  /\ \A id \in Carried(a) : isKnownAny(id)
         /\ Carried(a) \cap ScopedRoutes # {} =>
              /\ a.type \in {"SHOW_ROUTE", "OPEN_PANEL"}
              /\ a.panel # "CONFIRMATION" => isRouteVerified(b)
<1>1. validateActionRaw(a) /\ enforceAction(a, b)
  BY DEF Passes, EnforceScopedContext
<1>2. ASSUME NEW id \in Carried(a)
      PROVE  /\ isKnownAny(id)
             /\ id \in ScopedRoutes => /\ a.type \in {"SHOW_ROUTE", "OPEN_PANEL"}
                                       /\ a.panel # "CONFIRMATION" => isRouteVerified(b)
  <2>1. CASE a.type = "FOCUS_FEATURE"
    BY <1>1, <2>1, CarriedIds, InScope, Kinds
  <2>2. CASE a.type = "OPEN_PANEL"
    BY <1>1, <2>2, CarriedIds, InScope, Kinds
  <2>3. CASE a.type = "SHOW_CHOICES"
    BY <1>1, <2>3, CarriedIds, InScope, Kinds
  <2>4. CASE a.type = "SHOW_ROUTE"
    BY <1>1, <2>4, CarriedIds, InScope, Kinds
  <2> QED
    BY <1>1, <2>1, <2>2, <2>3, <2>4, CarriedIds
<1> QED
  BY <1>2

\* What the pipeline accepts, the commands endpoint would validate, unless it names a place.
LEMMA AcceptedValidates ==
  ASSUME NEW f, NEW a, NEW b, Passes(f, a, b), f.clarifies \in Seq({"place", "f1"})
  PROVE  ValidateModelOutput(f, a) \/ (Carried(a) \cup ItemsOf(f.clarifies)) \cap Places # {}
<1> SUFFICES ASSUME (Carried(a) \cup ItemsOf(f.clarifies)) \cap Places = {}
             PROVE  ValidateModelOutput(f, a)
  OBVIOUS
<1>1. validateProposal(f, a) /\ ItemsOf(f.clarifies) \subseteq Places
  BY DEF Passes, EnforceScopedContext
<1>2. ItemsOf(f.clarifies) = {}
  BY <1>1
<1>3. ASSUME f.acts PROVE validateAction(a)
  <2>1. validateActionRaw(a) /\ enforceAction(a, b) /\ validateShape(a)
    BY <1>1, <1>3 DEF Passes, EnforceScopedContext, validateProposal
  <2>2. Required(a)
    BY <2>1 DEF validateShape, validateActionRaw
  <2>3. a.target # None => a.target \in Carried(a)
    BY DEF Carried
  <2>4. a.target # None => a.target \notin Places
    BY <2>3
  <2>5. CASE a.type = "FOCUS_FEATURE"
    <3>1. a.target # None
      BY <2>2, <2>5 DEF Required
    <3>2. a.target \in KnownIDs
      BY <2>1, <2>4, <2>5, <3>1, InScope, Kinds
    <3> QED
      BY <2>5, <3>2 DEF validateAction
  <2>6. CASE a.type = "SHOW_CHOICES"
    <3>1. Len(a.targets) \in 1..MaxShowChoices /\ ItemsOf(a.targets) \subseteq KnownIDs
      BY <2>1, <2>6, InScope, Kinds
    <3> QED
      BY <2>6, <3>1 DEF validateAction
  <2>7. CASE a.type = "SHOW_ROUTE"
    <3>1. a.route \in KnownIDs
      BY <2>1, <2>7, InScope, Kinds
    <3> QED
      BY <2>7, <3>1 DEF validateAction
  <2>8. CASE a.type = "OPEN_PANEL"
    <3>1. a.panel # None
      BY <2>2, <2>8 DEF Required, None
    <3>2. a.target \in KnownIDs \/ a.target = None
      BY <2>1, <2>4, <2>8, InScope, Kinds
    <3> QED
      BY <2>8, <3>1, <3>2 DEF validateAction
  <2>9. CASE a.type \in {"ZOOM", "PAN"}
    <3>1. a.move = "valid"
      BY <2>2, <2>9 DEF Required
    <3> QED
      BY <2>9, <3>1 DEF validateAction
  <2>10. CASE a.type = "RECENTER"
    BY <2>10 DEF validateAction
  <2>11. CASE a.type = "SET_LANGUAGE"
    <3>1. a.language # None
      BY <2>2, <2>11 DEF Required
    <3> QED
      BY <2>11, <3>1 DEF validateAction
  <2> QED
    BY <2>1, <2>5, <2>6, <2>7, <2>8, <2>9, <2>10, <2>11, OnlyItsFields
<1> QED
  BY <1>1, <1>2, <1>3 DEF ValidateModelOutput, validateProposal

\* A list of choices is accepted exactly when it keeps the server's order.
LEMMA ChoicesAccepted ==
  ASSUME NEW E, NEW b, b.order \in Seq(E), b.standing = "current",
         NEW ids \in Seq(Targets)
  PROVE  Passes(Ok, ShowChoices(ids), b)
           <=> Len(ids) \in 1..MaxShowChoices /\ Selects(ids, Eligible(b))
<1> DEFINE a == ShowChoices(ids)
<1>1. /\ a.type = "SHOW_CHOICES" /\ a.target = None /\ a.targets = ids /\ a.route = None
      /\ a.panel = None /\ a.move = None /\ a.language = None /\ a.layer = None
  BY DEF ShowChoices
<1>2. /\ Ok.status = "OK" /\ Ok.intent = "known" /\ Ok.clarifies = <<>> /\ Ok.acts
      /\ Len(Ok.clarifies) = 0 /\ ItemsOf(Ok.clarifies) = {}
  BY DEF Ok, ItemsOf
<1> HIDE DEF a
<1>3. Eligible(b) \in Seq(ScopedFacilities)
  BY ZonesType DEF Eligible
<1>4. PICK list \in Seq(Targets) : list = Eligible(b) /\ list \in Seq(ScopedFacilities)
  BY <1>3, SeqDef DEF Targets
<1>5. Set(a) \subseteq {"targets"}
  <2>1. \A f \in Fields \ {"targets"} : a[f] = None
    BY <1>1 DEF Fields
  <2> QED
    BY <2>1 DEF Set
<1>6. validateActionRaw(a)
  BY <1>1, <1>5 DEF validateActionRaw, Allowed
<1>7. validateShape(a) <=> Len(ids) \in 1..MaxShowChoices
  <2>1. a.type \in DOMAIN Allowed /\ Set(a) \ {"layer"} \subseteq Allowed[a.type]
    BY <1>1, <1>5 DEF Allowed
  <2>2. Required(a) <=> Len(ids) \in 1..MaxShowChoices
    BY <1>1 DEF Required
  <2> QED
    BY <2>1, <2>2 DEF validateShape
<1>8. enforceAction(a, b) <=> /\ ItemsOf(ids) \subseteq ScopedFacilities
                              /\ Len(ids) \in 1..MaxShowChoices
                              /\ enforceChoiceOrder(ids, Eligible(b))
  BY <1>1 DEF enforceAction
<1>9. Passes(Ok, a, b) <=> /\ ItemsOf(ids) \subseteq ScopedFacilities
                           /\ Len(ids) \in 1..MaxShowChoices
                           /\ enforceChoiceOrder(ids, Eligible(b))
  <2>1. validateProposal(Ok, a) <=> Len(ids) \in 1..MaxShowChoices
    BY <1>2, <1>7 DEF validateProposal, MaxClarificationIDs
  <2>2. EnforceScopedContext(Ok, a, b) <=> enforceAction(a, b)
    BY <1>2 DEF EnforceScopedContext
  <2> QED
    BY <1>1, <1>2, <1>6, <1>8, <2>1, <2>2 DEF Passes, decodeStrictProposal
<1>10. ASSUME Len(ids) \in 1..MaxShowChoices
       PROVE  enforceChoiceOrder(ids, Eligible(b)) <=> Selects(ids, Eligible(b))
  <2>1. ids # <<>>
    BY <1>10
  <2> QED
    BY <1>4, <2>1, ChoiceOrder
<1>11. Selects(ids, Eligible(b)) => ItemsOf(ids) \subseteq ScopedFacilities
  BY <1>4 DEF Selects, ItemsOf
<1> QED
  BY <1>9, <1>10, <1>11 DEF a

\* The checks together accept only what is meant.
LEMMA MeantFromChecks == ProposalInv => AcceptedActionsAreMeant
<1> SUFFICES ASSUME ProposalInv PROVE AcceptedActionsAreMeant
  OBVIOUS
<1>1. ASSUME NEW gate \in BOOLEAN
      PROVE  LET list == EligibleWithStatus(body, gate)
                 ids == [i \in DOMAIN list |-> list[i].id]
                 sized == {list[i].id : i \in {i \in DOMAIN list : list[i].known}}
             IN /\ \A i \in DOMAIN list : list[i].route => isRouteVerified(body)
                /\ body.standing = "current" =>
                     IF ~classServed(body, gate) THEN list = <<>>
                     ELSE Kept(ids, sized) = Kept(Eligible(body), ScopedFacilities \ body.full)
  BY ListedAgrees DEF ProposalInv
<1>2. ASSUME verdict = "accepted"
      PROVE  /\ \/ ValidateModelOutput(frame, action)
                \/ (Carried(action) \cup ItemsOf(frame.clarifies)) \cap Places # {}
             /\ frame.status # "OK" => ~frame.acts
             /\ ItemsOf(frame.clarifies) \subseteq Places
             /\ frame.acts => \A id \in Carried(action) : isKnownAny(id)
             /\ Carried(action) \cap ScopedRoutes # {} =>
                   /\ action.type \in {"SHOW_ROUTE", "OPEN_PANEL"}
                   /\ action.panel # "CONFIRMATION" => isRouteVerified(body)
             /\ frame.acts => action.layer = None
  <2>1. Passes(frame, action, body) /\ frame.clarifies \in Seq({"place", "f1"})
    BY <1>2 DEF ProposalInv
  <2>2. \/ ValidateModelOutput(frame, action)
        \/ (Carried(action) \cup ItemsOf(frame.clarifies)) \cap Places # {}
    BY <2>1, AcceptedValidates
  <2>3. /\ frame.status # "OK" => ~frame.acts
        /\ ItemsOf(frame.clarifies) \subseteq Places
        /\ frame.acts => action.layer = None
    BY <2>1 DEF Passes, validateProposal, EnforceScopedContext, decodeStrictProposal
  <2>4. /\ frame.acts => \A id \in Carried(action) : isKnownAny(id)
        /\ Carried(action) \cap ScopedRoutes # {} =>
              /\ action.type \in {"SHOW_ROUTE", "OPEN_PANEL"}
              /\ action.panel # "CONFIRMATION" => isRouteVerified(body)
    <3>1. CASE frame.acts
      BY <2>1, <3>1, AcceptedKnown
    <3>2. CASE ~frame.acts
      <4>1. Carried(action) = {}
        BY <3>2 DEF ProposalInv, Carried, ItemsOf
      <4> QED
        BY <3>2, <4>1
    <3> QED
      BY <3>1, <3>2
  <2> QED
    BY <2>2, <2>3, <2>4
<1>3. verdict = "validated" => (frame.acts => frame.status = "OK")
  BY DEF ProposalInv, ValidateModelOutput
<1>4. ASSUME action = ShowChoices(action.targets), verdict \in {"accepted", "rejected"}
      PROVE  verdict = "accepted" <=> /\ Len(action.targets) \in 1..MaxShowChoices
                                      /\ Selects(action.targets, Eligible(body))
  <2>1. PICK ids \in Seq(Targets) : ids = action.targets
    BY DEF ProposalInv, IsAction
  <2>2. frame = Ok /\ body.standing = "current" /\ action = ShowChoices(ids)
    BY <1>4, <2>1 DEF ProposalInv
  <2>3. verdict = "accepted" <=> Passes(Ok, ShowChoices(ids), body)
    BY <1>4, <2>2 DEF ProposalInv
  <2>4. Passes(Ok, ShowChoices(ids), body)
          <=> Len(ids) \in 1..MaxShowChoices /\ Selects(ids, Eligible(body))
    <3>1. PICK o \in Seq({"z1", "z2", "zClosed", "zUnsized", "zUnknown"}) : o = body.order
      BY DEF ProposalInv
    <3> QED
      BY <2>2, <3>1, ChoicesAccepted
  <2> QED
    BY <2>1, <2>3, <2>4
<1> QED
  BY <1>1, <1>2, <1>3, <1>4 DEF AcceptedActionsAreMeant

\* The checks of the pipeline, none of which checks an action alone, together accept only
\* actions whose ids are known and whose route is valid, and exactly the choices that keep the
\* server's order; the commands endpoint and guidance agree with them.
THEOREM AcceptedMeant == ProposalSpec => []AcceptedActionsAreMeant
<1>1. ProposalSpec => []ProposalInv
  BY InitProposal, NextProposal, PTL DEF ProposalSpec
<1> QED
  BY <1>1, MeantFromChecks, PTL
=============================================================================
