--------------------------- MODULE SliceBudgetProofs ---------------------------
(***************************************************************************)
(* What the cut of a slice keeps, for every slice and every cap.           *)
(***************************************************************************)
EXTENDS SliceBudget, FiniteSetTheorems, WellFoundedInduction, TLAPS

-----------------------------------------------------------------------------
(* Sets of places.                                                         *)

\* A set of numbers that holds 0 and the successor of each of its members holds
\* them all.
LEMMA EveryNumber ==
    ASSUME NEW S \in SUBSET Nat, 0 \in S, \A k \in S : k + 1 \in S
    PROVE  S = Nat
  <1> SUFFICES ASSUME Nat \ S # {} PROVE FALSE
    OBVIOUS
  <1>1. \E k \in Nat \ S : \A j \in Nat \ S : ~ (j < k)
    <2>1. PICK k \in Nat \ S : \A j \in Nat \ S : ~ (<<j, k>> \in OpToRel(<, Nat))
      BY WFMin, NatLessThanWellFounded, Zenon
    <2>2. \A j \in Nat \ S : <<j, k>> \in Nat \X Nat
      OBVIOUS
    <2>3. \A j \in Nat \ S : ~ (j < k)
      BY <2>1, <2>2 DEF OpToRel
    <2> QED
      BY <2>3
  <1>2. PICK k \in Nat \ S : \A j \in Nat \ S : ~ (j < k)
    BY <1>1
  <1>3. k # 0 /\ k - 1 \in Nat /\ k - 1 < k /\ (k - 1) + 1 = k
    OBVIOUS
  <1>4. k - 1 \in S
    BY <1>2, <1>3
  <1> QED
    BY <1>3, <1>4

LEMMA PlacesFinite ==
    ASSUME NEW n \in Nat, NEW S \in SUBSET (1..n)
    PROVE  /\ IsFiniteSet(S) /\ Cardinality(S) \in Nat /\ Cardinality(S) <= n
           /\ \A T \in SUBSET S : /\ IsFiniteSet(T) /\ Cardinality(T) \in Nat
                                  /\ Cardinality(T) <= Cardinality(S)
  <1>1. IsFiniteSet(1..n) /\ Cardinality(1..n) = n
    BY FS_Interval
  <1>2. IsFiniteSet(S) /\ Cardinality(S) <= n
    BY <1>1, FS_Subset
  <1> QED
    BY <1>2, FS_Subset, FS_CardinalityType

\* Some place of a set that is not empty comes last.
LEMMA LastPlace ==
    ASSUME NEW n \in Nat, NEW S \in SUBSET (1..n), S # {}
    PROVE  \E m \in S : \A i \in S : i <= m
  <1> DEFINE N == {k \in Nat : \A T \in SUBSET (1..k) : T # {} => \E m \in T : \A i \in T : i <= m}
  <1>1. 0 \in N
    <2>1. 1..0 = {}
      OBVIOUS
    <2> QED
      BY <2>1
  <1>2. ASSUME NEW k \in N PROVE k + 1 \in N
    <2> SUFFICES ASSUME NEW T \in SUBSET (1..(k + 1)), T # {}
                 PROVE  \E m \in T : \A i \in T : i <= m
      OBVIOUS
    <2>1. CASE k + 1 \in T
      BY <2>1
    <2>2. CASE k + 1 \notin T
      <3>1. T \in SUBSET (1..k)
        BY <2>2
      <3> QED
        BY <3>1
    <2> QED
      BY <2>1, <2>2
  <1>3. N = Nat
    <2> HIDE DEF N
    <2>1. N \in SUBSET Nat
      BY DEF N
    <2> QED
      BY <1>1, <1>2, <2>1, EveryNumber
  <1> QED
    BY <1>3

Increasing(s, S) ==
    s \in [1..Cardinality(S) -> S] /\ \A i, j \in DOMAIN s : i < j => s[i] < s[j]

\* Every set of places can be listed in order.
LEMMA OrderExists ==
    ASSUME NEW n \in Nat, NEW S \in SUBSET (1..n)
    PROVE  \E s : Increasing(s, S)
  <1> DEFINE N == {k \in Nat : \A T \in SUBSET (1..n) : Cardinality(T) = k =>
                                 \E s : Increasing(s, T)}
  <1>1. 0 \in N
    <2> SUFFICES ASSUME NEW T \in SUBSET (1..n), Cardinality(T) = 0 PROVE \E s : Increasing(s, T)
      OBVIOUS
    <2>1. [i \in 1..0 |-> 0] \in [1..0 -> T]
      OBVIOUS
    <2>2. Increasing([i \in 1..0 |-> 0], T)
      BY <2>1 DEF Increasing
    <2> QED
      BY <2>2
  <1>2. ASSUME NEW k \in N PROVE k + 1 \in N
    <2> SUFFICES ASSUME NEW T \in SUBSET (1..n), Cardinality(T) = k + 1
                 PROVE  \E s : Increasing(s, T)
      OBVIOUS
    <2>0. k \in Nat
      OBVIOUS
    <2>1. IsFiniteSet(T) /\ T # {}
      <3>1. IsFiniteSet(T)
        BY PlacesFinite
      <3>2. T = {} => Cardinality(T) = 0
        BY FS_EmptySet
      <3> QED
        BY <3>1, <3>2
    <2>2. PICK m \in T : \A i \in T : i <= m
      BY <2>1, LastPlace
    <2>3. PICK U : U = T \ {m}
      OBVIOUS
    <2>4. U \in SUBSET (1..n) /\ Cardinality(U) = k
      <3>1. Cardinality(T \ {m}) = Cardinality(T) - 1
        BY <2>1, FS_RemoveElement
      <3> QED
        BY <2>3, <3>1
    <2>5. PICK s : Increasing(s, U)
      BY <2>4
    <2>6. s \in [1..k -> U] /\ \A i, j \in 1..k : i < j => s[i] < s[j]
      BY <2>4, <2>5 DEF Increasing
    <2> DEFINE r == [i \in 1..(k + 1) |-> IF i = k + 1 THEN m ELSE s[i]]
    <2>7. r \in [1..(k + 1) -> T]
      BY <2>3, <2>6
    <2>8. \A i \in 1..k : r[i] = s[i] /\ s[i] \in Nat /\ s[i] < m
      <3> SUFFICES ASSUME NEW i \in 1..k PROVE r[i] = s[i] /\ s[i] \in Nat /\ s[i] < m
        OBVIOUS
      <3>1. s[i] \in T /\ s[i] # m
        BY <2>3, <2>6
      <3> QED
        <4>1. s[i] \in 1..n /\ m \in 1..n /\ s[i] <= m
          BY <2>2, <3>1
        <4>2. i # k + 1 /\ i \in 1..(k + 1)
          BY <2>0
        <4> QED
          BY <3>1, <4>1, <4>2
    <2>9. \A i, j \in 1..(k + 1) : i < j => r[i] < r[j]
      <3> SUFFICES ASSUME NEW i \in 1..(k + 1), NEW j \in 1..(k + 1), i < j PROVE r[i] < r[j]
        OBVIOUS
      <3>1. i \in 1..k /\ r[i] = s[i]
        BY <2>0, <2>8
      <3>2. CASE j \in 1..k
        <4>1. r[j] = s[j]
          BY <2>8, <3>2
        <4> QED
          BY <2>6, <3>1, <3>2, <4>1
      <3>3. CASE j = k + 1
        <4>1. r[j] = m
          BY <3>3
        <4> QED
          BY <2>8, <3>1, <4>1
      <3> QED
        BY <2>0, <3>2, <3>3
    <2>10. Increasing(r, T)
      <3> HIDE DEF r
      <3> QED
        BY <2>7, <2>9 DEF Increasing
    <2> QED
      BY <2>10
  <1>3. N = Nat
    <2> HIDE DEF N
    <2>1. N \in SUBSET Nat
      BY DEF N
    <2> QED
      BY <1>1, <1>2, <2>1, EveryNumber
  <1> QED
    BY <1>3, PlacesFinite

\* The list of the nodes at S has them all, each once, in order.
LEMMA InOrderFacts ==
    ASSUME NEW n \in Nat, NEW S \in SUBSET (1..n)
    PROVE  /\ InOrder(S) \in [1..Cardinality(S) -> S]
           /\ \A i, j \in 1..Cardinality(S) : i < j => InOrder(S)[i] < InOrder(S)[j]
           /\ \A p \in S : \E i \in 1..Cardinality(S) : InOrder(S)[i] = p
  <1> DEFINE s == InOrder(S)
             size == Cardinality(S)
  <1>1. size \in Nat /\ IsFiniteSet(S) /\ IsFiniteSet(1..size) /\ Cardinality(1..size) = size
    <2>1. size \in Nat /\ IsFiniteSet(S)
      BY PlacesFinite
    <2> HIDE DEF size
    <2> QED
      BY <2>1, FS_Interval
  <1>2. \E r \in [1..size -> S] : \A i, j \in DOMAIN r : i < j => r[i] < r[j]
    BY OrderExists DEF Increasing
  <1>3. s \in [1..size -> S] /\ \A i, j \in DOMAIN s : i < j => s[i] < s[j]
    <2> HIDE DEF size
    <2> QED
      BY <1>2 DEF InOrder, size
  <1> HIDE DEF s, size
  <1>4. \A i, j \in 1..size : s[i] = s[j] => i = j
    <2> SUFFICES ASSUME NEW i \in 1..size, NEW j \in 1..size, s[i] = s[j] PROVE i = j
      OBVIOUS
    <2>1. s[i] \in S /\ s[j] \in S /\ i \in DOMAIN s /\ j \in DOMAIN s
      BY <1>3
    <2>2. s[i] \in Nat /\ s[j] \in Nat /\ i \in Nat /\ j \in Nat
      <3>1. \A p \in S : p \in Nat
        OBVIOUS
      <3>2. \A p \in 1..size : p \in Nat
        BY <1>1
      <3> QED
        BY <2>1, <3>1, <3>2
    <2> QED
      BY <1>3, <2>1, <2>2
  <1>5. s \in Injection(1..size, S)
    BY <1>3, <1>4 DEF Injection, IsInjective
  <1>6. s \in Surjection(1..size, S)
    BY <1>1, <1>5, FS_Injection DEF size
  <1> QED
    BY <1>3, <1>6 DEF Surjection, s, size

\* The first m of the places S are m of them, or all, and come before the others.
LEMMA FirstFacts ==
    ASSUME NEW n \in Nat, NEW S \in SUBSET (1..n), NEW m \in Nat
    PROVE  /\ First(S, m) \in SUBSET S
           /\ Cardinality(First(S, m)) = IF m <= Cardinality(S) THEN m ELSE Cardinality(S)
           /\ \A i \in First(S, m), j \in S \ First(S, m) : i < j
  <1> DEFINE s == InOrder(S)
             size == Cardinality(S)
             least == IF m <= size THEN m ELSE size
             Upto(p) == {j \in S : j <= p}
  <1>1. size \in Nat /\ least \in 0..size /\ \A p \in S : p \in Nat
    BY PlacesFinite
  <1>2. /\ s \in [1..size -> S]
        /\ \A i, j \in 1..size : i < j => s[i] < s[j]
        /\ \A p \in S : \E i \in 1..size : s[i] = p
    BY InOrderFacts
  <1>3. First(S, m) = {p \in S : Cardinality(Upto(p)) <= m}
    BY DEF First
  <1> HIDE DEF s, size
  \* Its place in the list is the number of places up to it.
  <1>4. ASSUME NEW k \in 0..size
        PROVE  /\ Cardinality({s[i] : i \in 1..k}) = k
               /\ {s[i] : i \in 1..k} \in SUBSET S
    <2> DEFINE g == [i \in 1..k |-> s[i]]
               I == {s[i] : i \in 1..k}
    <2>1. I \in SUBSET S /\ g \in [1..k -> I]
      BY <1>1, <1>2
    <2>2. \A i, j \in 1..k : g[i] = g[j] => i = j
      <3> SUFFICES ASSUME NEW i \in 1..k, NEW j \in 1..k, s[i] = s[j] PROVE i = j
        OBVIOUS
      <3>1. i \in 1..size /\ j \in 1..size /\ i \in Nat /\ j \in Nat
        BY <1>1
      <3>2. s[i] \in Nat /\ s[j] \in Nat
        BY <1>1, <1>2, <3>1
      <3> QED
        BY <1>2, <3>1, <3>2
    <2>3. g \in Injection(1..k, I)
      BY <2>1, <2>2 DEF Injection, IsInjective
    <2>4. g \in Surjection(1..k, I)
      BY <2>1 DEF Surjection
    <2>5. ExistsBijection(1..k, I)
      BY <2>3, <2>4 DEF ExistsBijection, Bijection
    <2>6. IsFiniteSet(1..k) /\ Cardinality(1..k) = k
      BY <1>1, FS_Interval
    <2>7. Cardinality(I) = k
      <3> HIDE DEF I, g
      <3> QED
        BY <2>5, <2>6, FS_Bijection
    <2> QED
      BY <2>1, <2>7
  <1>5. ASSUME NEW k \in 1..size PROVE Cardinality(Upto(s[k])) = k
    <2>1. Upto(s[k]) = {s[i] : i \in 1..k}
      <3>1. ASSUME NEW i \in 1..k PROVE s[i] \in Upto(s[k])
        <4>1. i \in 1..size /\ s[i] \in S /\ s[k] \in S
          BY <1>1, <1>2
        <4>2. i = k \/ i < k
          BY <1>1
        <4>3. s[i] <= s[k]
          <5>1. s[i] \in Nat /\ s[k] \in Nat
            BY <1>1, <4>1
          <5>2. i < k => s[i] < s[k]
            BY <1>2, <4>1
          <5> QED
            BY <4>2, <5>1, <5>2
        <4> QED
          BY <4>1, <4>3
      <3>2. ASSUME NEW p \in Upto(s[k]) PROVE p \in {s[i] : i \in 1..k}
        <4>1. PICK i \in 1..size : s[i] = p
          BY <1>2
        <4>2. s[k] \in Nat /\ p \in Nat
          BY <1>1, <1>2
        <4>3. ~ (k < i)
          BY <1>2, <4>1, <4>2
        <4>4. i \in 1..k
          BY <1>1, <4>1, <4>3
        <4> QED
          BY <4>1, <4>4
      <3> HIDE DEF Upto
      <3> QED
        BY <3>1, <3>2 DEF Upto
    <2>2. k \in 0..size
      BY <1>1
    <2> HIDE DEF Upto
    <2> QED
      BY <1>4, <2>1, <2>2
  <1>6. First(S, m) = {s[i] : i \in 1..least}
    <2>1. ASSUME NEW p \in First(S, m) PROVE p \in {s[i] : i \in 1..least}
      <3>1. PICK k \in 1..size : s[k] = p
        BY <1>2, <1>3
      <3>2. k <= m
        BY <1>3, <1>5, <3>1
      <3>3. k \in 1..least
        BY <1>1, <3>2
      <3> QED
        BY <3>1, <3>3
    <2>2. ASSUME NEW i \in 1..least PROVE s[i] \in First(S, m)
      <3>1. i \in 1..size /\ i <= m
        BY <1>1
      <3>2. s[i] \in S /\ Cardinality(Upto(s[i])) <= m
        <4> HIDE DEF Upto
        <4> QED
          BY <1>2, <1>5, <3>1
      <3> QED
        BY <1>3, <3>2
    <2> QED
      BY <2>1, <2>2
  <1>7. First(S, m) \in SUBSET S
    BY <1>3
  <1>8. Cardinality(First(S, m)) = least
    <2> HIDE DEF least
    <2> QED
      BY <1>1, <1>4, <1>6
  <1>9. \A i \in First(S, m), j \in S \ First(S, m) : i < j
    <2> SUFFICES ASSUME NEW i \in First(S, m), NEW j \in S \ First(S, m) PROVE i < j
      OBVIOUS
    <2>1. PICK k \in 1..least : s[k] = i
      BY <1>6
    <2>2. PICK l \in 1..size : s[l] = j
      BY <1>2
    <2>3. l \notin 1..least
      BY <1>6, <2>2
    <2>4. k < l /\ k \in 1..size
      BY <1>1, <2>3
    <2> QED
      BY <1>2, <2>1, <2>2, <2>4
  <1> QED
    BY <1>7, <1>8, <1>9 DEF size

-----------------------------------------------------------------------------
(* The cut.                                                                *)

Slices == UNION {[1..n -> KeepReason \cup SupportReason] : n \in 0..MaxLength}

TypeOK ==
    /\ nodes \in Slices
    /\ cap \in Int
    /\ given \in Seq(Nat)
    /\ note \in Seq(Nat)

\* What Serialize returns, once it has.
Returned ==
    given # NotYet =>
        IF OverCap THEN given = Ordered /\ note = <<Len(Ordered), Len(nodes)>>
        ELSE given = Places /\ note = NoNote

IInv == TypeOK /\ Returned

LEMMA SliceFacts ==
    ASSUME nodes \in Slices
    PROVE  /\ Len(nodes) \in Nat /\ DOMAIN nodes = 1..Len(nodes)
           /\ Always \in SUBSET (1..Len(nodes)) /\ Fillable \in SUBSET (1..Len(nodes))
           /\ Always \cap Fillable = {} /\ Always \cup Fillable = DOMAIN nodes
           /\ Cardinality(Always) \in Nat /\ Cardinality(Fillable) \in Nat
           /\ Cardinality(Always) + Cardinality(Fillable) = Len(nodes)
  <1>1. PICK n \in 0..MaxLength : nodes \in [1..n -> KeepReason \cup SupportReason]
    BY DEF Slices
  <1>2. n \in Nat
    BY BudgetAssumption
  <1>3. Len(nodes) = n /\ DOMAIN nodes = 1..n
    BY <1>1, <1>2
  <1>4. /\ Always \in SUBSET (1..n) /\ Fillable \in SUBSET (1..n)
        /\ Always \cap Fillable = {} /\ Always \cup Fillable = 1..n
    BY <1>3 DEF Always, Fillable
  <1>5. /\ IsFiniteSet(Always) /\ IsFiniteSet(Fillable)
        /\ Cardinality(Always) \in Nat /\ Cardinality(Fillable) \in Nat
    BY <1>2, <1>4, PlacesFinite
  <1>6. Cardinality(1..n) = n
    BY <1>2, FS_Interval
  <1>7. Cardinality(Always \cup Fillable) = Cardinality(Always) + Cardinality(Fillable) - Cardinality({})
    BY <1>4, <1>5, FS_Union
  <1>8. Cardinality({}) = 0
    BY FS_EmptySet
  <1>9. Cardinality(Always) + Cardinality(Fillable) = n
    <2>1. Cardinality(Always \cup Fillable) = n
      BY <1>4, <1>6
    <2> QED
      BY <1>5, <1>7, <1>8, <2>1
  <1> QED
    BY <1>2, <1>3, <1>4, <1>5, <1>9

LEMMA KeptFacts ==
    ASSUME nodes \in Slices, cap \in Int
    PROVE  /\ Kept \in SUBSET (1..Len(nodes)) /\ Always \in SUBSET Kept
           /\ \A i \in Kept, j \in DOMAIN nodes \ Kept : IsGuard(i) \/ i < j
           /\ OverCap => Cardinality(Kept) =
                           IF Cardinality(Always) > cap THEN Cardinality(Always) ELSE cap
  <1> DEFINE room == cap - Cardinality(Always)
  <1>1. /\ Len(nodes) \in Nat /\ DOMAIN nodes = 1..Len(nodes)
        /\ Always \in SUBSET (1..Len(nodes)) /\ Fillable \in SUBSET (1..Len(nodes))
        /\ Always \cap Fillable = {} /\ Always \cup Fillable = DOMAIN nodes
        /\ Cardinality(Always) \in Nat /\ Cardinality(Fillable) \in Nat
        /\ Cardinality(Always) + Cardinality(Fillable) = Len(nodes)
    BY SliceFacts
  <1>2. \A i \in Always : IsGuard(i)
    BY DEF Always
  <1>3. CASE Cardinality(Always) >= cap
    <2>1. Kept = Always
      BY <1>3 DEF Kept
    <2>2. Cardinality(Kept) = IF Cardinality(Always) > cap THEN Cardinality(Always) ELSE cap
      BY <1>1, <1>3, <2>1
    <2> QED
      BY <1>1, <1>2, <2>1, <2>2
  <1>4. CASE ~(Cardinality(Always) >= cap)
    <2>1. room \in Nat
      BY <1>1, <1>4
    <2>2. Kept = Always \cup First(Fillable, room)
      BY <1>4 DEF Kept
    <2> HIDE DEF room
    <2>3. /\ First(Fillable, room) \in SUBSET Fillable
          /\ Cardinality(First(Fillable, room)) =
               IF room <= Cardinality(Fillable) THEN room ELSE Cardinality(Fillable)
          /\ \A i \in First(Fillable, room), j \in Fillable \ First(Fillable, room) : i < j
      BY <1>1, <2>1, FirstFacts
    <2>4. Kept \in SUBSET (1..Len(nodes)) /\ Always \in SUBSET Kept
      BY <1>1, <2>2, <2>3
    <2>5. ASSUME NEW i \in Kept, NEW j \in DOMAIN nodes \ Kept PROVE IsGuard(i) \/ i < j
      <3>1. j \in Fillable \ First(Fillable, room)
        BY <1>1, <2>2
      <3>2. i \in Always \/ i \in First(Fillable, room)
        BY <2>2
      <3> QED
        BY <1>2, <2>3, <3>1, <3>2
    <2>6. ASSUME OverCap
          PROVE  Cardinality(Kept) = IF Cardinality(Always) > cap THEN Cardinality(Always) ELSE cap
      <3>1. room <= Cardinality(Fillable)
        BY <1>1, <2>6 DEF OverCap, room
      <3>2. Cardinality(First(Fillable, room)) = room
        BY <2>3, <3>1
      <3>3. Always \cap First(Fillable, room) = {}
        BY <1>1, <2>3
      <3>4. IsFiniteSet(Always) /\ IsFiniteSet(First(Fillable, room))
        BY <1>1, <2>3, PlacesFinite
      <3>5. Cardinality(Kept) = Cardinality(Always) + Cardinality(First(Fillable, room))
                                  - Cardinality({})
        BY <2>2, <3>3, <3>4, FS_Union
      <3>6. Cardinality({}) = 0
        BY FS_EmptySet
      <3>7. Cardinality(Kept) = cap
        BY <1>1, <3>2, <3>5, <3>6 DEF room
      <3> QED
        BY <1>1, <1>4, <3>7
    <2> QED
      BY <2>4, <2>5, <2>6
  <1> QED
    BY <1>3, <1>4

LEMMA OrderedFacts ==
    ASSUME nodes \in Slices, cap \in Int
    PROVE  /\ Ordered \in Seq(Nat) /\ Len(Ordered) = Cardinality(Kept)
           /\ ToSet(Ordered) = Kept
           /\ \A i, j \in DOMAIN Ordered : i < j => Ordered[i] < Ordered[j]
  <1> DEFINE size == Cardinality(Kept)
             s == Ordered
  <1>1. Len(nodes) \in Nat /\ Kept \in SUBSET (1..Len(nodes))
    BY SliceFacts, KeptFacts
  <1>2. size \in Nat /\ \A p \in Kept : p \in Nat
    BY <1>1, PlacesFinite
  <1>3. /\ s \in [1..size -> Kept]
        /\ \A i, j \in 1..size : i < j => s[i] < s[j]
        /\ \A p \in Kept : \E i \in 1..size : s[i] = p
    BY <1>1, InOrderFacts DEF Ordered
  <1> HIDE DEF size, s
  <1>4. DOMAIN s = 1..size /\ s \in [1..size -> Nat]
    BY <1>2, <1>3
  <1>5. s \in Seq(Nat) /\ Len(s) = size
    BY <1>2, <1>4
  <1>6. ToSet(s) = Kept
    BY <1>3, <1>4 DEF ToSet
  <1> QED
    BY <1>3, <1>4, <1>5, <1>6 DEF size, s

LEMMA PlacesFacts ==
    ASSUME nodes \in Slices
    PROVE  /\ Places \in Seq(Nat) /\ Len(Places) = Len(nodes) /\ ToSet(Places) = DOMAIN nodes
           /\ DOMAIN Places = DOMAIN nodes /\ \A i \in DOMAIN Places : Places[i] = i
  <1>1. Len(nodes) \in Nat /\ DOMAIN nodes = 1..Len(nodes)
    BY SliceFacts
  <1>2. Places = [i \in 1..Len(nodes) |-> i]
    BY <1>1 DEF Places
  <1>3. Places \in [1..Len(nodes) -> Nat]
    BY <1>1, <1>2
  <1>4. Places \in Seq(Nat) /\ Len(Places) = Len(nodes)
    BY <1>1, <1>3
  <1> QED
    BY <1>1, <1>2, <1>4 DEF ToSet

LEMMA IInvInit == Init => IInv
  <1> SUFFICES ASSUME Init PROVE IInv
    OBVIOUS
  <1>1. nodes \in Slices /\ given = <<0>> /\ note = <<>> /\ given = NotYet
    BY DEF Init, Slices, NotYet, NoNote
  <1>2. cap \in Int
    BY BudgetAssumption DEF Init, NoCap
  <1>3. <<0>> \in Seq(Nat) /\ <<>> \in Seq(Nat)
    OBVIOUS
  <1> QED
    BY <1>1, <1>2, <1>3 DEF IInv, TypeOK, Returned

LEMMA IInvStep == IInv /\ [Next]_vars => IInv'
  <1> SUFFICES ASSUME IInv, [Next]_vars PROVE IInv'
    OBVIOUS
  <1>1. nodes \in Slices /\ cap \in Int
    BY DEF IInv, TypeOK
  <1>2. CASE Serialize
    <2>1. /\ nodes' = nodes /\ cap' = cap
          /\ IF OverCap THEN given' = Ordered /\ note' = <<Len(Ordered), Len(nodes)>>
             ELSE given' = Places /\ note' = NoNote
      BY <1>2 DEF Serialize
    <2>2. /\ Ordered \in Seq(Nat) /\ Len(Ordered) \in Nat /\ Len(nodes) \in Nat
          /\ Places \in Seq(Nat) /\ NoNote \in Seq(Nat)
      BY <1>1, OrderedFacts, PlacesFacts, SliceFacts DEF NoNote
    <2>3. <<Len(Ordered), Len(nodes)>> \in Seq(Nat)
      BY <2>2
    <2>4. TypeOK'
      BY <1>1, <2>1, <2>2, <2>3 DEF TypeOK
    <2>5. OverCap' = OverCap /\ Ordered' = Ordered /\ Places' = Places
      BY <2>1 DEF OverCap, Ordered, Places, Kept, Always, Fillable, IsGuard
    <2>6. Returned'
      BY <2>1, <2>5 DEF Returned
    <2> QED
      BY <2>4, <2>6 DEF IInv
  <1>3. CASE Serialized \/ UNCHANGED vars
    BY <1>3 DEF Serialized, vars, IInv, TypeOK, Returned, OverCap, Ordered, Places, Kept, Always,
                Fillable, IsGuard
  <1> QED
    BY <1>2, <1>3 DEF Next

LEMMA GuardsKept == IInv => GuardsKeptInOrder
  <1> SUFFICES ASSUME IInv, Done PROVE GuardsKeptInOrder
    BY DEF GuardsKeptInOrder
  <1>1. nodes \in Slices /\ cap \in Int /\ given # NotYet
    BY DEF IInv, TypeOK, Done
  <1>2. DOMAIN nodes = 1..Len(nodes) /\ \A i \in DOMAIN nodes : IsGuard(i) => i \in Always
    BY <1>1, SliceFacts DEF Always
  <1>3. CASE OverCap
    <2>1. given = Ordered
      BY <1>1, <1>3 DEF IInv, Returned
    <2>2. ToSet(given) = Kept /\ Kept \in SUBSET DOMAIN nodes /\ Always \in SUBSET Kept
      BY <1>1, <1>2, <2>1, OrderedFacts, KeptFacts
    <2>3. \A i, j \in DOMAIN given : i < j => given[i] < given[j]
      BY <1>1, <2>1, OrderedFacts
    <2> QED
      BY <1>2, <2>2, <2>3 DEF GuardsKeptInOrder
  <1>4. CASE ~OverCap
    <2>1. given = Places
      BY <1>1, <1>4 DEF IInv, Returned
    <2>2. ToSet(given) = DOMAIN nodes
      BY <1>1, <2>1, PlacesFacts
    <2>3. \A i, j \in DOMAIN given : i < j => given[i] < given[j]
      BY <1>1, <2>1, PlacesFacts
    <2> QED
      BY <2>2, <2>3 DEF GuardsKeptInOrder
  <1> QED
    BY <1>3, <1>4

LEMMA CapSpent == IInv => CapIsSpent
  <1> SUFFICES ASSUME IInv, Done PROVE CapIsSpent
    BY DEF CapIsSpent
  <1>1. nodes \in Slices /\ cap \in Int /\ given # NotYet
    BY DEF IInv, TypeOK, Done
  <1>2. CASE OverCap
    <2>1. given = Ordered /\ note = <<Len(Ordered), Len(nodes)>>
      BY <1>1, <1>2 DEF IInv, Returned
    <2>2. ToSet(given) = Kept /\ Len(given) = Cardinality(Kept)
      BY <1>1, <2>1, OrderedFacts
    <2>3. Len(given) = IF Cardinality(Always) > cap THEN Cardinality(Always) ELSE cap
      BY <1>1, <1>2, <2>2, KeptFacts
    <2>4. \A i \in ToSet(given), j \in DOMAIN nodes \ ToSet(given) : IsGuard(i) \/ i < j
      BY <1>1, <2>2, KeptFacts
    <2> QED
      BY <1>2, <2>1, <2>3, <2>4 DEF CapIsSpent
  <1>3. CASE ~OverCap
    <2>1. given = Places
      BY <1>1, <1>3 DEF IInv, Returned
    <2>2. ToSet(given) = DOMAIN nodes /\ Len(given) = Len(nodes) /\ Len(nodes) \in Nat
      BY <1>1, <2>1, PlacesFacts, SliceFacts
    <2>3. ~(Len(given) < Len(nodes))
      BY <2>2
    <2>4. DOMAIN nodes \ ToSet(given) = {}
      BY <2>2
    <2> QED
      BY <1>3, <2>1, <2>3, <2>4 DEF CapIsSpent
  <1> QED
    BY <1>2, <1>3

-----------------------------------------------------------------------------
\* For every slice and every cap, negative ones included: the guards are all
\* kept, and nothing is made up, repeated or moved.
THEOREM GuardsAlwaysKept == Spec => []GuardsKeptInOrder
  BY IInvInit, IInvStep, GuardsKept, PTL DEF Spec

\* For every slice and every cap: the cap is used up and exceeded by guards only,
\* the support that is kept is what comes first, and a cut is reported.
THEOREM CapAlwaysSpent == Spec => []CapIsSpent
  BY IInvInit, IInvStep, CapSpent, PTL DEF Spec
=============================================================================
