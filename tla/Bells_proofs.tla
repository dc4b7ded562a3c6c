---------------------------- MODULE Bells_proofs ----------------------------
(***************************************************************************)
(* Proofs about Bells, for every table of regimes: it has a listing, and   *)
(* ActiveFor picks the regime that began last.  The folds of the community *)
(* modules are recursive functions of sets of positions: what they compute *)
(* is proved by induction over a set of numbers, which rests on every set  *)
(* of naturals having a least member.                                      *)
(***************************************************************************)
EXTENDS Bells, FiniteSetTheorems, WellFoundedInduction, TLAPS

\* Every set of natural numbers has a least member.
LEMMA LeastNatural ==
  ASSUME NEW T \in SUBSET Nat, T # {}
  PROVE  \E m \in T : \A k \in T : m <= k
<1> DEFINE L == OpToRel(<, Nat)
<1>1. \E m \in T : \A k \in T : ~(<<k, m>> \in L)
  <2>1. IsWellFoundedOn(L, Nat)
    BY NatLessThanWellFounded
  <2> HIDE DEF L
  <2> QED BY <2>1, WFMin
<1>2. \A k, m \in Nat : k < m => <<k, m>> \in L
  BY DEF OpToRel
<1> HIDE DEF L
<1>3. PICK m \in T : \A k \in T : ~(<<k, m>> \in L)
  BY <1>1
<1>4. \A k \in T : ~(k < m)
  BY <1>2, <1>3
<1> QED BY <1>4

\* Induction, of the set of the numbers for which something holds.
LEMMA NaturalSteps ==
  ASSUME NEW S, 0 \in S, \A n \in Nat : n \in S => n + 1 \in S
  PROVE  Nat \subseteq S
<1> SUFFICES ASSUME Nat \ S # {} PROVE FALSE
  OBVIOUS
<1> DEFINE T == Nat \ S
<1>1. PICK m \in T : \A k \in T : m <= k
  <2>1. T \in SUBSET Nat /\ T # {}
    OBVIOUS
  <2> HIDE DEF T
  <2> QED BY <2>1, LeastNatural
<1>2. m - 1 \in Nat /\ m - 1 \in S
  BY <1>1
<1> QED BY <1>1, <1>2

\* What Max of module FiniteSetsExt is on the positions of a sequence.
LEMMA MaxOfPositions ==
  ASSUME NEW n \in Nat, NEW s \in SUBSET (1 .. n), s # {}
  PROVE  Max(s) \in s /\ \A y \in s : y <= Max(s)
<1> DEFINE T == {n - x : x \in s}
<1>1. T \in SUBSET Nat /\ T # {}
  <2>1. \A x \in s : n - x \in Nat
    OBVIOUS
  <2> QED BY <2>1
<1>2. PICK m \in T : \A k \in T : m <= k
  <2> HIDE DEF T
  <2> QED BY <1>1, LeastNatural
<1>3. PICK x \in s : m = n - x
  BY <1>2
<1>4. \A y \in s : x >= y
  <2> TAKE y \in s
  <2>1. n - y \in T
    OBVIOUS
  <2>2. n - x <= n - y
    BY <1>2, <1>3, <2>1
  <2> QED BY <2>2
<1>5. Max(s) \in s /\ \A y \in s : Max(s) >= y
  BY <1>3, <1>4 DEF Max
<1> QED BY <1>5

\* The largest of the first n positions is n, and taking it off leaves the first n - 1.
LEMMA MaxOfPrefix ==
  ASSUME NEW n \in Nat, NEW i \in 1 .. n
  PROVE  /\ 1 .. i \in SUBSET (1 .. n) /\ 1 .. i # {}
         /\ (1 .. i) \ {i} = 1 .. i - 1 /\ Max(1 .. i) = i
<1>1. i \in Nat /\ i \in 1 .. i /\ 1 .. i \in SUBSET (1 .. n) /\ (1 .. i) \ {i} = 1 .. i - 1
  OBVIOUS
<1>2. Max(1 .. i) \in 1 .. i /\ \A y \in 1 .. i : y <= Max(1 .. i)
  BY <1>1, MaxOfPositions
<1> QED BY <1>1, <1>2

\* A fold of a sequence as a recursive function of the sets of its positions: it
\* exists whatever step is folded.
IsFold(f, n, base, g) ==
  \A s \in SUBSET (1 .. n) : f[s] = IF s = {} THEN base ELSE g[<<Max(s), f[s \ {Max(s)}]>>]

\* The fold that FoldLeft chooses exists: it is built one position set at a time.
LEMMA FoldExists ==
  ASSUME NEW V, NEW base \in V, NEW N \in Nat, NEW g \in [(1 .. N) \X V -> V]
  PROVE  \E f \in [SUBSET (1 .. N) -> V] : IsFold(f, N, base, g)
<1> DEFINE Q(n) == \E f \in [SUBSET (1 .. n) -> V] : IsFold(f, n, base, g)
           S == {n \in Nat : n <= N => Q(n)}
<1> HIDE DEF Q
<1>1. 0 \in S
  <2> DEFINE f == [s \in SUBSET (1 .. 0) |-> base]
  <2>1. \A s \in SUBSET (1 .. 0) : s = {}
    OBVIOUS
  <2>2. f \in [SUBSET (1 .. 0) -> V] /\ \A s \in SUBSET (1 .. 0) : f[s] = base
    OBVIOUS
  <2>3. Q(0)
    <3> HIDE DEF f
    <3> QED BY <2>1, <2>2 DEF Q, IsFold
  <2> QED BY <2>3
<1>2. ASSUME NEW n \in Nat, n \in S PROVE n + 1 \in S
  <2> SUFFICES ASSUME n + 1 <= N PROVE Q(n + 1)
    OBVIOUS
  <2>1. PICK f \in [SUBSET (1 .. n) -> V] :
          \A s \in SUBSET (1 .. n) :
            f[s] = IF s = {} THEN base ELSE g[<<Max(s), f[s \ {Max(s)}]>>]
    <3>1. n <= N /\ Q(n)
      BY <1>2
    <3> QED BY <3>1 DEF Q, IsFold
  <2> DEFINE h == [s \in SUBSET (1 .. n + 1) |->
                     IF n + 1 \in s THEN g[<<n + 1, f[s \ {n + 1}]>>] ELSE f[s]]
  <2>2. ASSUME NEW s \in SUBSET (1 .. n + 1) PROVE s \ {n + 1} \in SUBSET (1 .. n)
    OBVIOUS
  <2>3. ASSUME NEW s \in SUBSET (1 .. n + 1)
        PROVE  h[s] \in V /\ h[s] = IF s = {} THEN base ELSE g[<<Max(s), h[s \ {Max(s)}]>>]
    <3>1. CASE n + 1 \in s
      <4>1. Max(s) = n + 1
        <5>1. \A y \in s : n + 1 >= y
          OBVIOUS
        <5>2. \A x \in s : x >= n + 1 => x = n + 1
          BY <5>1
        <5> QED BY <3>1, <5>1, <5>2 DEF Max
      <4>2. s \ {n + 1} \in SUBSET (1 .. n) /\ n + 1 \notin s \ {n + 1}
        BY <2>2
      <4>3. h[s \ {n + 1}] = f[s \ {n + 1}] /\ f[s \ {n + 1}] \in V
        BY <4>2
      <4>4. h[s] = g[<<n + 1, f[s \ {n + 1}]>>] /\ n + 1 \in 1 .. N
        BY <3>1
      <4> QED BY <3>1, <4>1, <4>3, <4>4
    <3>2. CASE n + 1 \notin s
      <4>1. s \in SUBSET (1 .. n) /\ h[s] = f[s] /\ f[s] \in V
        BY <2>2, <3>2
      <4>2. s \ {Max(s)} \in SUBSET (1 .. n) /\ n + 1 \notin s \ {Max(s)}
        BY <3>2, <4>1
      <4>3. h[s \ {Max(s)}] = f[s \ {Max(s)}]
        BY <4>2
      <4> QED BY <2>1, <4>1, <4>3
    <3> QED BY <3>1, <3>2
  <2>4. h \in [SUBSET (1 .. n + 1) -> V]
    <3>1. \A s \in SUBSET (1 .. n + 1) : h[s] \in V
      BY <2>3
    <3> QED BY <3>1
  <2> HIDE DEF h
  <2> QED BY <2>3, <2>4 DEF Q, IsFold
<1>3. N \in S
  <2> HIDE DEF S
  <2> QED BY <1>1, <1>2, NaturalSteps
<1>4. Q(N)
  BY <1>3
<1> QED BY <1>4 DEF Q

----------------------------------------------------------------------------

\* What a row of schedule_regimes holds.
LEMMA RegimeRows ==
  ASSUME NEW R, AreRegimes(R)
  PROVE  \A r \in R : r.start \in Int /\ 101 <= r.start /\ r.start <= 1231 /\ r.id \in Nat
<1>1. \A r \in [id : Nat, start : 101 .. 1231, periods : SUBSET Int] :
        r.start \in 101 .. 1231 /\ r.id \in Nat
  OBVIOUS
<1>2. \A r \in R : r.start \in 101 .. 1231 /\ r.id \in Nat
  BY <1>1 DEF AreRegimes
<1> QED BY <1>2, SMTT(60)

\* Of some regimes one comes before all others in the listing: the earliest start, then the lowest id.
LEMMA EarliestRegime ==
  ASSUME NEW R, AreRegimes(R), R # {}
  PROVE  \E e \in R : \A r \in R \ {e} : Before(e, r)
<1>1. \A r \in R : r.id \in Nat /\ r.start \in Nat
  BY DEF AreRegimes
<1> DEFINE Starts == {r.start : r \in R}
           Ids(s) == {r.id : r \in {x \in R : x.start = s}}
<1>2. PICK s \in Starts : \A k \in Starts : s <= k
  <2>1. Starts \in SUBSET Nat /\ Starts # {}
    BY <1>1
  <2> HIDE DEF Starts
  <2> QED BY <2>1, LeastNatural
<1>3. PICK k \in Ids(s) : \A j \in Ids(s) : k <= j
  <2>1. Ids(s) \in SUBSET Nat /\ Ids(s) # {}
    BY <1>1, <1>2
  <2> HIDE DEF Ids
  <2> QED BY <2>1, LeastNatural
<1>4. PICK e \in R : e.start = s /\ e.id = k
  BY <1>3
<1>5. ASSUME NEW r \in R, r # e PROVE Before(e, r)
  <2>1. r.id \in Nat /\ r.start \in Nat /\ e.id \in Nat /\ e.start \in Nat /\ e.start <= r.start
    BY <1>1, <1>2, <1>4
  <2>2. r.id # e.id
    BY <1>5 DEF AreRegimes
  <2>3. r.start = e.start => e.id <= r.id
    BY <1>3, <1>4
  <2> QED BY <2>1, <2>2, <2>3 DEF Before
<1> QED BY <1>5

\* Without its earliest regime a table has a listing too, and that one goes first.
LEMMA ListingExists ==
  ASSUME NEW R, AreRegimes(R)
  PROVE  /\ Cardinality(R) \in Nat
         /\ \E q \in [1 .. Cardinality(R) -> R] :
              \A i, j \in 1 .. Cardinality(R) : i < j => Before(q[i], q[j])
<1> DEFINE Q(n) == \A T : (AreRegimes(T) /\ Cardinality(T) = n) =>
                     \E q \in [1 .. n -> T] : \A i, j \in 1 .. n : i < j => Before(q[i], q[j])
           S == {n \in Nat : Q(n)}
<1> HIDE DEF Q
<1>1. 0 \in S
  <2>1. ASSUME NEW T, AreRegimes(T), Cardinality(T) = 0
        PROVE  \E q \in [1 .. 0 -> T] : \A i, j \in 1 .. 0 : i < j => Before(q[i], q[j])
    <3>1. <<>> \in [1 .. 0 -> T] /\ \A i \in 1 .. 0 : FALSE
      OBVIOUS
    <3> QED BY <3>1
  <2>2. Q(0)
    BY <2>1 DEF Q
  <2> QED BY <2>2
<1>2. ASSUME NEW n \in Nat, n \in S PROVE n + 1 \in S
  <2>1. ASSUME NEW T, AreRegimes(T), Cardinality(T) = n + 1
        PROVE  \E q \in [1 .. n + 1 -> T] :
                 \A i, j \in 1 .. n + 1 : i < j => Before(q[i], q[j])
    <3>1. T # {} /\ IsFiniteSet(T)
      BY <2>1, FS_EmptySet DEF AreRegimes
    <3>2. PICK e \in T : \A r \in T \ {e} : Before(e, r)
      BY <2>1, <3>1, EarliestRegime
    <3>3. AreRegimes(T \ {e})
      <4>1. IsFiniteSet(T \ {e})
        BY <3>1, FS_RemoveElement
      <4> QED BY <2>1, <4>1 DEF AreRegimes
    <3>4. Cardinality(T \ {e}) = n
      BY <2>1, <3>1, FS_RemoveElement
    <3>5. Q(n)
      BY <1>2
    <3>6. PICK p \in [1 .. n -> T \ {e}] : \A i, j \in 1 .. n : i < j => Before(p[i], p[j])
      BY <3>3, <3>4, <3>5 DEF Q
    <3> DEFINE q == [i \in 1 .. n + 1 |-> IF i = 1 THEN e ELSE p[i - 1]]
    <3>7. ASSUME NEW i \in 1 .. n + 1, i # 1
          PROVE  i - 1 \in 1 .. n /\ q[i] = p[i - 1] /\ q[i] \in T \ {e}
      <4>1. i - 1 \in 1 .. n
        BY <3>7
      <4> QED BY <3>6, <3>7, <4>1
    <3>8. 1 \in 1 .. n + 1 /\ q[1] = e
      OBVIOUS
    <3>9. q \in [1 .. n + 1 -> T]
      BY <3>7, <3>8
    <3>10. ASSUME NEW i \in 1 .. n + 1, NEW j \in 1 .. n + 1, i < j PROVE Before(q[i], q[j])
      <4>1. j # 1
        BY <3>10
      <4>2. CASE i = 1
        BY <3>2, <3>7, <3>8, <4>1, <4>2
      <4>3. CASE i # 1
        <5>1. i - 1 \in 1 .. n /\ j - 1 \in 1 .. n /\ i - 1 < j - 1 /\ q[i] = p[i - 1] /\ q[j] = p[j - 1]
          BY <3>7, <3>10, <4>1, <4>3
        <5> HIDE DEF q
        <5> QED BY <3>6, <5>1
      <4> QED BY <4>2, <4>3
    <3> HIDE DEF q
    <3> QED BY <3>9, <3>10
  <2>2. Q(n + 1)
    BY <2>1 DEF Q
  <2> QED BY <2>2
<1>3. Cardinality(R) \in Nat
  BY FS_CardinalityType DEF AreRegimes
<1>4. Cardinality(R) \in S
  <2>1. Nat \subseteq S
    <3> HIDE DEF S
    <3> QED BY <1>1, <1>2, NaturalSteps
  <2> QED BY <1>3, <2>1
<1>5. Q(Cardinality(R))
  BY <1>4
<1> QED BY <1>3, <1>5 DEF Q

\* A listing is a sequence of all the regimes, in order.
LEMMA ListedIsSorted ==
  ASSUME NEW R, AreRegimes(R)
  PROVE  /\ Cardinality(R) \in Nat
         /\ Listed(R) \in [1 .. Cardinality(R) -> R]
         /\ DOMAIN Listed(R) = 1 .. Cardinality(R)
         /\ \A r \in R : \E i \in DOMAIN Listed(R) : Listed(R)[i] = r
         /\ \A i, j \in DOMAIN Listed(R) : i < j => Before(Listed(R)[i], Listed(R)[j])
<1>1. PICK N \in Nat : N = Cardinality(R)
  BY ListingExists
<1>2. PICK q \in [1 .. N -> R] : \A i, j \in 1 .. N : i < j => Before(q[i], q[j])
  BY <1>1, ListingExists
<1>3. \A i, j \in 1 .. N : i # j => q[i] # q[j]
  <2> SUFFICES ASSUME NEW i \in 1 .. N, NEW j \in 1 .. N, i # j, q[i] = q[j] PROVE FALSE
    OBVIOUS
  <2>1. Before(q[i], q[j]) \/ Before(q[j], q[i])
    BY <1>2
  <2>2. \A r \in R : r.start \in Int /\ r.id \in Int
    BY RegimeRows
  <2>3. q[i].start \in Int /\ q[i].id \in Int /\ q[j] = q[i]
    BY <2>2
  <2> QED BY <2>1, <2>3 DEF Before
<1>4. q \in SetToSeqs(R)
  BY <1>1, <1>3 DEF SetToSeqs
<1>5. \A i, j \in DOMAIN q : i < j => Before(q[i], q[j])
  BY <1>2
<1>6. /\ Listed(R) \in SetToSeqs(R)
      /\ \A i, j \in DOMAIN Listed(R) : i < j => Before(Listed(R)[i], Listed(R)[j])
  BY <1>4, <1>5 DEF Listed
<1>7. Listed(R) \in [1 .. N -> R] /\ \A i, j \in 1 .. N : i # j => Listed(R)[i] # Listed(R)[j]
  BY <1>1, <1>6 DEF SetToSeqs
<1>8. \A r \in R : \E i \in 1 .. N : Listed(R)[i] = r
  <2>1. Listed(R) \in Injection(1 .. N, R)
    BY <1>7 DEF Injection, IsInjective
  <2>2. IsFiniteSet(R)
    BY DEF AreRegimes
  <2>3. Cardinality(1 .. N) = N
    BY FS_Interval
  <2>4. Listed(R) \in Surjection(1 .. N, R)
    BY <1>1, <2>1, <2>2, <2>3, FS_Injection
  <2> QED BY <2>4 DEF Surjection
<1> QED BY <1>1, <1>6, <1>7, <1>8

----------------------------------------------------------------------------

\* Folding Later over a list of regimes gives one that no other starts after, and
\* the first such.
LEMMA LaterFold ==
  ASSUME NEW R, AreRegimes(R), NEW n \in Nat \ {0}, NEW q \in [1 .. n -> R]
  PROVE  /\ FoldLeft(Later, NoneYet, q) \in R
         /\ \A i \in 1 .. n : q[i].start <= FoldLeft(Later, NoneYet, q).start
         /\ \E j \in 1 .. n : /\ FoldLeft(Later, NoneYet, q) = q[j]
                             /\ \A m \in 1 .. j - 1 : q[m].start < q[j].start
<1> DEFINE V == R \cup {NoneYet}
           g == [p \in (1 .. n) \X V |-> Later(p[2], q[p[1]])]
           Folded(f) == [s \in SUBSET (1 .. n) |->
                           IF s = {} THEN NoneYet ELSE Later(f[s \ {Max(s)}], q[Max(s)])]
           F == CHOOSE f : f = Folded(f)
<1>1. FoldLeft(Later, NoneYet, q) = F[1 .. n]
  BY DEF FoldLeft, MapThenFoldSet
<1>2. F = Folded(F)
  <2>1. g \in [(1 .. n) \X V -> V]
    <3>1. \A v \in V, i \in 1 .. n : Later(v, q[i]) \in V
      BY DEF Later
    <3> QED BY <3>1
  <2>2. PICK f \in [SUBSET (1 .. n) -> V] : IsFold(f, n, NoneYet, g)
    <3>1. NoneYet \in V /\ n \in Nat
      OBVIOUS
    <3> HIDE DEF g, V
    <3> QED BY <2>1, <3>1, FoldExists, Zenon
  <2>3. ASSUME NEW s \in SUBSET (1 .. n), s # {}
        PROVE  Max(s) \in 1 .. n /\ f[s \ {Max(s)}] \in V
    <3>1. Max(s) \in s
      BY <2>3, MaxOfPositions
    <3> QED BY <3>1
  <2>4. f = Folded(f)
    <3>1. \A s \in SUBSET (1 .. n) : f[s] = Folded(f)[s]
      BY <2>2, <2>3 DEF IsFold
    <3> QED BY <3>1
  <2> HIDE DEF Folded
  <2> QED BY <2>4
<1> DEFINE A(i) == F[1 .. i]
<1>3. A(0) = NoneYet
  <2>1. 1 .. 0 = {} /\ 1 .. 0 \in SUBSET (1 .. n)
    OBVIOUS
  <2> HIDE DEF F
  <2> QED BY <1>2, <2>1
<1>4. ASSUME NEW i \in 1 .. n PROVE A(i) = Later(A(i - 1), q[i])
  <2>1. 1 .. i \in SUBSET (1 .. n) /\ 1 .. i # {} /\ (1 .. i) \ {i} = 1 .. i - 1 /\ Max(1 .. i) = i
    BY MaxOfPrefix
  <2> HIDE DEF F
  <2> QED BY <1>2, <2>1
<1> HIDE DEF A
<1> DEFINE Good(i) == /\ A(i) \in IF i = 0 THEN {NoneYet} ELSE R
                      /\ \A j \in 1 .. i : q[j].start <= A(i).start
                      /\ i # 0 => \E j \in 1 .. i : /\ A(i) = q[j]
                                                   /\ \A m \in 1 .. j - 1 : q[m].start < q[j].start
           S == {i \in Nat : i <= n => Good(i)}
<1>5. 0 \in S
  BY <1>3
<1>6. ASSUME NEW i \in Nat, i \in S PROVE i + 1 \in S
  <2> SUFFICES ASSUME i + 1 <= n PROVE Good(i + 1)
    OBVIOUS
  <2>1. Good(i)
    BY <1>6
  <2>2. A(i + 1) = Later(A(i), q[i + 1]) /\ i + 1 \in 1 .. n
    BY <1>4
  <2>3. \A j \in 1 .. i + 1 : q[j] \in R /\ q[j].start \in Int /\ q[j].start > -1
    BY RegimeRows
  <2>4. A(i).start \in Int /\ i + 1 \in 1 .. i + 1 /\ (i = 0 => A(i).start = -1)
    BY <2>1, RegimeRows DEF NoneYet
  <2>5. CASE q[i + 1].start > A(i).start
    <3>1. A(i + 1) = q[i + 1]
      BY <2>2, <2>5 DEF Later
    <3>2. \A j \in 1 .. i + 1 : q[j].start <= A(i + 1).start
      BY <2>1, <2>3, <2>4, <2>5, <3>1
    <3>3. \A m \in 1 .. (i + 1) - 1 : q[m].start < q[i + 1].start
      <4> SUFFICES ASSUME NEW m \in 1 .. i PROVE q[m].start < q[i + 1].start
        OBVIOUS
      <4>1. m \in 1 .. i + 1 /\ i + 1 \in 1 .. i + 1
        OBVIOUS
      <4>2. q[m].start <= A(i).start /\ q[m].start \in Int /\ q[i + 1].start \in Int
        BY <2>1, <2>3, <4>1
      <4> QED BY <2>4, <2>5, <4>2
    <3> QED BY <2>3, <2>4, <3>1, <3>2, <3>3
  <2>6. CASE ~(q[i + 1].start > A(i).start)
    <3>1. A(i + 1) = A(i) /\ i # 0
      BY <2>2, <2>3, <2>4, <2>6 DEF Later
    <3>2. \A j \in 1 .. i + 1 : q[j].start <= A(i + 1).start
      BY <2>1, <2>3, <2>4, <2>6, <3>1
    <3> QED BY <2>1, <3>1, <3>2
  <2> QED BY <2>5, <2>6
<1>7. Good(n)
  <2>1. Nat \subseteq S
    <3> HIDE DEF S
    <3> QED BY <1>5, <1>6, NaturalSteps
  <2> QED BY <2>1
<1> QED BY <1>1, <1>7 DEF A

\* Since without %: a start later in the year is of the year before.
LEMMA SinceIs ==
  ASSUME NEW d \in Int, 101 <= d, d <= 1231,
         NEW r, r.start \in Int, 101 <= r.start, r.start <= 1231
  PROVE  Since(r, d) = IF r.start <= d THEN d - r.start ELSE d - r.start + 1300
<1>1. PICK s \in Int : s = r.start
  OBVIOUS
<1>2. (d - s) % 1300 = IF s <= d THEN d - s ELSE d - s + 1300
  BY <1>1
<1> QED BY <1>1, <1>2 DEF Since

\* Of the regimes that have begun by the date, or else of all, ActiveFor picks the
\* one that started last, and of several that start on one day the lowest id.
THEOREM ActiveForIs ==
  ASSUME NEW R, AreRegimes(R), R # {}, NEW date \in 101 .. 1231
  PROVE  /\ ActiveFor(R, date) \in Begun(R, date)
         /\ \A o \in Begun(R, date) \ {ActiveFor(R, date)} :
              o.start < ActiveFor(R, date).start
                \/ (o.start = ActiveFor(R, date).start /\ ActiveFor(R, date).id < o.id)
<1> DEFINE Among == Begun(R, date)
<1>1. AreRegimes(Among) /\ Among # {}
  <2>1. Among \subseteq R /\ Among # {}
    BY DEF Begun
  <2>2. IsFiniteSet(Among)
    BY <2>1, FS_Subset DEF AreRegimes
  <2> QED BY <2>1, <2>2 DEF AreRegimes
<1>2. PICK n \in Nat \ {0} : n = Cardinality(Among)
  <2> HIDE DEF Among
  <2>1. Cardinality(Among) \in Nat /\ Cardinality(Among) # 0
    BY <1>1, FS_EmptySet, ListedIsSorted DEF AreRegimes
  <2> QED BY <2>1
<1>3. PICK q \in [1 .. n -> Among] :
        /\ q = Listed(Among) /\ \A r \in Among : \E i \in 1 .. n : q[i] = r
        /\ \A i, j \in 1 .. n : i < j => Before(q[i], q[j])
  <2> HIDE DEF Among
  <2> QED BY <1>1, <1>2, ListedIsSorted
<1>4. PICK a : a = ActiveFor(R, date) /\ a = FoldLeft(Later, NoneYet, q)
  BY <1>3 DEF ActiveFor
<1> HIDE DEF Among
<1>5. a \in Among
  BY <1>1, <1>4, LaterFold
<1>6. PICK j \in 1 .. n : a = q[j] /\ \A m \in 1 .. j - 1 : q[m].start < q[j].start
  BY <1>1, <1>4, LaterFold
<1>7. ASSUME NEW o \in Among, o # a
      PROVE  o.start < a.start \/ (o.start = a.start /\ a.id < o.id)
  <2>1. PICK i \in 1 .. n : q[i] = o
    BY <1>3
  <2>2. CASE i < j
    <3>1. i \in 1 .. j - 1
      BY <2>2
    <3> QED BY <1>6, <2>1, <3>1
  <2>3. CASE j < i
    <3>1. Before(a, o)
      BY <1>3, <1>6, <2>1, <2>3
    <3>2. o.start <= a.start
      BY <1>1, <1>4, <2>1, LaterFold
    <3>3. o.start \in Int /\ a.start \in Int
      BY <1>1, <1>5, RegimeRows
    <3> QED BY <3>1, <3>2, <3>3 DEF Before
  <2>4. i # j
    BY <1>6, <1>7, <2>1
  <2> QED BY <2>2, <2>3, <2>4
<1> QED BY <1>4, <1>5, <1>7 DEF Among

\* So no other regime began fewer days ago, in the year before the date.
THEOREM ActiveForBeganLast ==
  ASSUME NEW R, AreRegimes(R), R # {}, NEW date \in 101 .. 1231
  PROVE  /\ ActiveFor(R, date) \in R
         /\ \A o \in R : Since(ActiveFor(R, date), date) <= Since(o, date)
<1> DEFINE Past == {r \in R : r.start <= date}
<1>1. PICK a : a = ActiveFor(R, date)
  OBVIOUS
<1>2. a \in Begun(R, date) /\ \A o \in Begun(R, date) : o.start <= a.start
  <2>1. \A r \in R : r.start \in Int
    BY RegimeRows
  <2>2. Begun(R, date) \subseteq R
    BY DEF Begun
  <2>3. /\ a \in Begun(R, date)
        /\ \A o \in Begun(R, date) \ {a} : o.start < a.start \/ (o.start = a.start /\ a.id < o.id)
    <3>1. /\ ActiveFor(R, date) \in Begun(R, date)
          /\ \A o \in Begun(R, date) \ {ActiveFor(R, date)} :
               o.start < ActiveFor(R, date).start
                 \/ (o.start = ActiveFor(R, date).start /\ ActiveFor(R, date).id < o.id)
      BY ActiveForIs, ZenonT(60)
    <3> QED BY <1>1, <3>1
  <2>4. ASSUME NEW o \in Begun(R, date) PROVE o.start <= a.start
    <3>1. o.start \in Int /\ a.start \in Int
      BY <2>1, <2>2, <2>3
    <3> QED BY <2>3, <3>1
  <2> QED BY <2>3, <2>4
<1>3. a \in R
  BY <1>2 DEF Begun
<1>4. ASSUME NEW o \in R PROVE Since(a, date) <= Since(o, date)
  <2>1. /\ a.start \in Int /\ 101 <= a.start /\ a.start <= 1231
        /\ o.start \in Int /\ 101 <= o.start /\ o.start <= 1231
        /\ date \in Int /\ 101 <= date /\ date <= 1231
    BY <1>3, RegimeRows
  <2>2. /\ Since(a, date) = IF a.start <= date THEN date - a.start ELSE date - a.start + 1300
        /\ Since(o, date) = IF o.start <= date THEN date - o.start ELSE date - o.start + 1300
    BY <2>1, SinceIs
  <2>3. CASE Past = {}
    <3>1. o.start <= a.start /\ ~(o.start <= date) /\ ~(a.start <= date)
      BY <1>2, <1>3, <2>3 DEF Begun
    <3> QED BY <2>1, <2>2, <3>1
  <2>4. CASE Past # {}
    <3>1. a.start <= date /\ (o.start <= date => o.start <= a.start)
      BY <1>2, <2>4 DEF Begun
    <3> QED BY <2>1, <2>2, <3>1
  <2> QED BY <2>3, <2>4
<1> QED BY <1>1, <1>3, <1>4
=============================================================================
