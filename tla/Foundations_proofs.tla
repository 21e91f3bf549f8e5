------------------------- MODULE Foundations_proofs -------------------------
(***************************************************************************)
(* What the proofs of several components rest on.                          *)
(*                                                                         *)
(* Induction enters through LeastExists: a set of numbers that has a       *)
(* member has a least one, so that whatever fails somewhere fails a first  *)
(* time.                                                                   *)
(***************************************************************************)
EXTENDS Grading, Calendar, FiniteSetTheorems, WellFoundedInduction, TLAPS

LEMMA LeastExists ==
    ASSUME NEW T \in SUBSET Nat, T # {}
    PROVE  \E x \in T : \A y \in T : x <= y
<1> DEFINE below == OpToRel(<, Nat)
<1>1. IsWellFoundedOn(below, Nat)
  BY NatLessThanWellFounded
<1>2. \A x, y \in Nat : x < y => <<x, y>> \in below
  BY DEF OpToRel
<1> HIDE DEF below
<1>3. PICK x \in T : \A y \in T : ~ (<<y, x>> \in below)
  BY <1>1, WFMin
<1>4. x \in Nat /\ \A y \in T : y \in Nat /\ ~ (y < x)
  BY <1>2, <1>3
<1>5. \A y \in T : x <= y
  BY <1>4
<1> QED
  BY <1>5

\* Positions are finite in number, and so is any part of them.
LEMMA PlacesFinite ==
    ASSUME NEW n \in Nat, NEW P \in SUBSET (1..n)
    PROVE  IsFiniteSet(P) /\ Cardinality(P) \in Nat
<1>1. IsFiniteSet(1..n)
  BY FS_Interval
<1>2. IsFiniteSet(P)
  BY <1>1, FS_Subset
<1> QED
  BY <1>2, FS_CardinalityType

\* A part of a finite set that leaves something out is smaller.
LEMMA SmallerPart ==
    ASSUME NEW S, IsFiniteSet(S), NEW P \in SUBSET S, NEW x \in S, x \notin P
    PROVE  /\ IsFiniteSet(P) /\ Cardinality(P) \in Nat /\ Cardinality(S) \in Nat
           /\ Cardinality(P) < Cardinality(S)
<1>1. IsFiniteSet(P) /\ Cardinality(P) \in Nat /\ Cardinality(S) \in Nat
  BY FS_Subset, FS_CardinalityType
<1>2. Cardinality(P) <= Cardinality(S) /\ (Cardinality(P) = Cardinality(S) => P = S)
  BY FS_Subset
<1> QED
  BY <1>1, <1>2

-----------------------------------------------------------------------------
\* The order of tuples is total.
LEMMA BeforeTotal ==
    ASSUME NEW n \in Nat, NEW s \in [1..n -> Int], NEW t \in [1..n -> Int], s # t
    PROVE  Before(s, t) \/ Before(t, s)
<1> DEFINE differ == {i \in 1..n : s[i] # t[i]}
<1>1. differ \in SUBSET Nat /\ differ # {}
  OBVIOUS
<1>2. PICK i \in differ : \A j \in differ : i <= j
  BY <1>1, LeastExists
<1>3. \A j \in 1..(i - 1) : s[j] = t[j] /\ t[j] = s[j]
  BY <1>2
<1>4. i \in DOMAIN s /\ i \in DOMAIN t /\ (s[i] < t[i] \/ t[i] < s[i])
  BY <1>2
<1> QED
  BY <1>3, <1>4 DEF Before

LEMMA BeforeTransitive ==
    ASSUME NEW n \in Nat, NEW s \in [1..n -> Int], NEW t \in [1..n -> Int],
           NEW u \in [1..n -> Int], Before(s, t), Before(t, u)
    PROVE  Before(s, u)
<1>1. PICK i \in 1..n : s[i] < t[i] /\ \A j \in 1..(i - 1) : s[j] = t[j]
  BY DEF Before
<1>2. PICK k \in 1..n : t[k] < u[k] /\ \A j \in 1..(k - 1) : t[j] = u[j]
  BY DEF Before
<1>3. CASE i <= k
  <2>1. s[i] < u[i]
    BY <1>1, <1>2, <1>3
  <2>2. \A j \in 1..(i - 1) : s[j] = u[j]
    BY <1>1, <1>2, <1>3
  <2> QED
    BY <2>1, <2>2 DEF Before
<1>4. CASE k < i
  <2>1. s[k] < u[k]
    BY <1>1, <1>2, <1>4
  <2>2. \A j \in 1..(k - 1) : s[j] = u[j]
    BY <1>1, <1>2, <1>4
  <2> QED
    BY <2>1, <2>2 DEF Before
<1> QED
  BY <1>3, <1>4

LEMMA BeforeIrreflexive ==
    ASSUME NEW n \in Nat, NEW s \in [1..n -> Int]
    PROVE  ~ Before(s, s)
BY DEF Before

LEMMA BeforeAsymmetric ==
    ASSUME NEW n \in Nat, NEW s \in [1..n -> Int], NEW t \in [1..n -> Int], Before(s, t)
    PROVE  ~ Before(t, s)
BY BeforeTransitive, BeforeIrreflexive

\* No two members have the same rank, and ranks are tuples of one length.
Ranked(rank, n) ==
    /\ IsFiniteSet(DOMAIN rank) /\ n \in Nat
    /\ \A x \in DOMAIN rank : rank[x] \in [1..n -> Int]
    /\ \A x, y \in DOMAIN rank : rank[x] = rank[y] => x = y

\* There are n numbers below n.
LEMMA CountFromZero ==
    ASSUME NEW n \in Nat
    PROVE  IsFiniteSet(0..(n - 1)) /\ Cardinality(0..(n - 1)) = n
<1>1. 0 \in Int /\ n - 1 \in Int
  BY ONLY n \in Nat
<1>2. /\ IsFiniteSet(0..(n - 1))
      /\ Cardinality(0..(n - 1)) = IF 0 > n - 1 THEN 0 ELSE (n - 1) - 0 + 1
  BY ONLY <1>1, FS_Interval
<1> QED
  BY ONLY <1>2, n \in Nat


(***************************************************************************)
(* ListedBy lists every member of the domain once, in the order of ranks.  *)
(***************************************************************************)
LEMMA ListedInOrder ==
    ASSUME NEW rank, NEW n, Ranked(rank, n)
    PROVE  LET list == ListedBy(rank)
               D == DOMAIN rank
           IN  /\ Cardinality(D) \in Nat
               /\ list \in [1..Cardinality(D) -> D]
               /\ \A x \in D : \E k \in 1..Cardinality(D) : list[k] = x
               /\ \A k, m \in 1..Cardinality(D) :
                    (k < m => Before(rank[list[k]], rank[list[m]])) /\ (list[k] = list[m] => k = m)
<1> DEFINE D == DOMAIN rank
           Ahead(x) == {y \in D : Before(rank[y], rank[x])}
           earlier == [x \in D |-> Cardinality(Ahead(x))]
           N == Cardinality(D)
           list == ListedBy(rank)
<1>1. /\ IsFiniteSet(D) /\ N \in Nat /\ n \in Nat
      /\ \A x \in D : rank[x] \in [1..n -> Int]
      /\ \A x, y \in D : rank[x] = rank[y] => x = y
  BY FS_CardinalityType DEF Ranked
<1>2. ASSUME NEW x \in D
      PROVE  /\ IsFiniteSet(Ahead(x)) /\ Cardinality(Ahead(x)) \in 0..(N - 1)
             /\ x \notin Ahead(x)
  <2>1. x \notin Ahead(x)
    BY <1>1, BeforeIrreflexive
  <2>2. Ahead(x) \in SUBSET D
    OBVIOUS
  <2> HIDE DEF Ahead, D
  <2>3. /\ IsFiniteSet(Ahead(x)) /\ Cardinality(Ahead(x)) \in Nat
        /\ Cardinality(Ahead(x)) < Cardinality(D)
    BY <1>1, <2>1, <2>2, SmallerPart
  <2> QED
    BY <1>1, <2>1, <2>3
<1>3. ASSUME NEW x \in D, NEW y \in D, Before(rank[x], rank[y])
      PROVE  Cardinality(Ahead(x)) < Cardinality(Ahead(y))
  <2>1. x \in Ahead(y) /\ x \notin Ahead(x)
    BY <1>2, <1>3
  <2>2. Ahead(x) \in SUBSET Ahead(y)
    BY <1>1, <1>3, BeforeTransitive
  <2> HIDE DEF Ahead, D
  <2> QED
    BY <1>2, <2>1, <2>2, SmallerPart
<1>4. ASSUME NEW x \in D, NEW y \in D, earlier[x] = earlier[y]
      PROVE  x = y
  <2>0. Cardinality(Ahead(x)) \in 0..(N - 1)
    BY <1>2
  <2>1. Cardinality(Ahead(x)) = Cardinality(Ahead(y)) /\ Cardinality(Ahead(x)) \in Int
    <3>1. earlier[x] = Cardinality(Ahead(x)) /\ earlier[y] = Cardinality(Ahead(y))
      OBVIOUS
    <3> HIDE DEF earlier, Ahead, N, D
    <3>2. Cardinality(Ahead(x)) = Cardinality(Ahead(y))
      BY <1>4, <3>1
    <3>3. Cardinality(Ahead(x)) \in Int
      BY <1>1, <2>0
    <3> QED
      BY <3>2, <3>3
  <2>2. ~ Before(rank[x], rank[y]) /\ ~ Before(rank[y], rank[x])
    BY <1>3, <2>1
  <2> QED
    BY <1>1, <2>2, BeforeTotal
<1>5. \A k \in 0..(N - 1) : \E x \in D : earlier[x] = k
  <2> DEFINE counts == {earlier[x] : x \in D}
  <2>1. counts \in SUBSET (0..(N - 1))
    BY <1>2
  <2>2. earlier \in Bijection(D, counts)
    <3>1. earlier \in [D -> counts]
      OBVIOUS
    <3>2. \A c \in counts : \E x \in D : earlier[x] = c
      OBVIOUS
    <3> HIDE DEF earlier, counts
    <3> QED
      BY <1>4, <3>1, <3>2 DEF Bijection, Injection, Surjection, IsInjective
  <2> HIDE DEF earlier, D
  <2>3. Cardinality(counts) = N
    <3> HIDE DEF counts
    <3> QED
      BY <1>1, <2>2, FS_Bijection DEF ExistsBijection
  <2>4. IsFiniteSet(0..(N - 1)) /\ Cardinality(0..(N - 1)) = N
    <3>1. N \in Nat
      BY <1>1
    <3> HIDE DEF N
    <3> QED
      BY ONLY <3>1, CountFromZero
  <2>5. counts = 0..(N - 1)
    <3> HIDE DEF counts, N
    <3> QED
      BY <2>1, <2>3, <2>4, FS_Subset
  <2> QED
    BY <2>5
<1>6. list = [k \in 1..N |-> CHOOSE x \in D : earlier[x] = k - 1]
  BY DEF ListedBy
<1>7. ASSUME NEW k \in 1..N
      PROVE  list[k] \in D /\ earlier[list[k]] = k - 1
  <2>1. list[k] = CHOOSE x \in D : earlier[x] = k - 1
    BY <1>6
  <2> HIDE DEF earlier, D, list
  <2>2. \E x \in D : earlier[x] = k - 1
    BY <1>1, <1>5
  <2> QED
    BY <2>1, <2>2
<1>8. ASSUME NEW x \in D PROVE \E k \in 1..N : list[k] = x
  <2>1. earlier[x] \in 0..(N - 1)
    BY <1>2
  <2>2. earlier[x] + 1 \in 1..N
    BY <1>1, <2>1
  <2> HIDE DEF earlier, D, list, N
  <2>3. list[earlier[x] + 1] \in D /\ earlier[list[earlier[x] + 1]] = earlier[x]
    BY <1>7, <2>1, <2>2
  <2> QED
    BY <1>4, <2>2, <2>3
<1>9. ASSUME NEW k \in 1..N, NEW m \in 1..N, k < m
      PROVE  Before(rank[list[k]], rank[list[m]])
  <2>1. earlier[list[k]] = k - 1 /\ earlier[list[m]] = m - 1 /\ list[k] \in D /\ list[m] \in D
    BY <1>7
  <2>2. Cardinality(Ahead(list[k])) < Cardinality(Ahead(list[m]))
    BY <1>1, <1>9, <2>1
  <2>3. list[k] # list[m]
    <3> HIDE DEF earlier, list, N
    <3> QED
      BY <1>1, <1>9, <2>1
  <2>4. ~ Before(rank[list[m]], rank[list[k]])
    <3> HIDE DEF list
    <3>1. ASSUME Before(rank[list[m]], rank[list[k]]) PROVE FALSE
      <4>1. Cardinality(Ahead(list[m])) < Cardinality(Ahead(list[k]))
        BY <1>3, <2>1, <3>1
      <4>2. Cardinality(Ahead(list[m])) \in Int /\ Cardinality(Ahead(list[k])) \in Int
        BY <1>2, <2>1
      <4> QED
        BY <2>2, <4>1, <4>2
    <3> QED
      BY <3>1
  <2> HIDE DEF list
  <2> QED
    BY <1>1, <2>1, <2>3, <2>4, BeforeTotal
<1>10. ASSUME NEW k \in 1..N, NEW m \in 1..N, list[k] = list[m] PROVE k = m
  <2>1. earlier[list[k]] = k - 1 /\ earlier[list[m]] = m - 1
    BY <1>7
  <2> HIDE DEF earlier, list, N
  <2> QED
    BY <1>1, <1>10, <2>1
<1>11. list \in [1..N -> D]
  <2> HIDE DEF D, earlier
  <2>1. DOMAIN list = 1..N /\ list = [k \in 1..N |-> list[k]]
    BY <1>6
  <2> HIDE DEF list
  <2> QED
    BY <1>7, <2>1
<1> HIDE DEF list, earlier, Ahead
<1> QED
  BY <1>1, <1>8, <1>9, <1>10, <1>11 DEF list

\* Places in turn: each once, from the first to the last.
LEMMA InTurnListed ==
    ASSUME NEW n \in Nat, NEW P \in SUBSET (1..n)
    PROVE  LET list == InTurn(P)
           IN  /\ Cardinality(P) \in Nat /\ list \in [1..Cardinality(P) -> P]
               /\ \A i \in P : \E k \in 1..Cardinality(P) : list[k] = i
               /\ \A k, m \in 1..Cardinality(P) :
                    (k < m => list[k] < list[m]) /\ (list[k] = list[m] => k = m)
<1> DEFINE rank == [i \in P |-> <<i>>]
           list == InTurn(P)
           N == Cardinality(P)
<1>1. IsFiniteSet(P)
  BY PlacesFinite
<1>2. DOMAIN rank = P /\ \A i \in P : rank[i] \in [1..1 -> Int] /\ rank[i][1] = i
  OBVIOUS
<1>3. list = ListedBy(rank)
  BY DEF InTurn
<1> HIDE DEF rank, list
<1>4. Ranked(rank, 1)
  BY <1>1, <1>2 DEF Ranked
<1>5. /\ N \in Nat /\ list \in [1..N -> P]
      /\ \A i \in P : \E k \in 1..N : list[k] = i
      /\ \A k, m \in 1..N :
            (k < m => Before(rank[list[k]], rank[list[m]])) /\ (list[k] = list[m] => k = m)
  BY <1>2, <1>3, <1>4, ListedInOrder
<1>6. ASSUME NEW i \in P, NEW j \in P, Before(rank[i], rank[j]) PROVE i < j
  <2>1. PICK l \in DOMAIN rank[i] : rank[i][l] < rank[j][l]
    BY <1>6 DEF Before
  <2>2. DOMAIN rank[i] = 1..1
    BY <1>2
  <2>3. l = 1
    BY <2>1, <2>2
  <2> QED
    BY <1>2, <2>1, <2>3
<1> QED
  BY <1>5, <1>6 DEF list

-----------------------------------------------------------------------------
\* How often x is in a list.
Occurrences(list, x) == {j \in DOMAIN list : list[j] = x}

\* The elements are never out of the order of their ranks.
InRankOrder(rank, list) ==
    \A i, j \in DOMAIN list : i < j => ~ Before(rank[list[j]], rank[list[i]])

\* Two lists in order that agree so far: the next element of the one cannot be
\* missing from the other, or come later in it.
LEMMA NoneAhead ==
    ASSUME NEW S, NEW rank, NEW n \in Nat, rank \in [S -> [1..n -> Int]],
           NEW u \in Seq(S), NEW v \in Seq(S), InRankOrder(rank, v),
           NEW k \in 1..Len(u), k - 1 <= Len(v), \A j \in 1..(k - 1) : u[j] = v[j],
           k <= Len(v) => Before(rank[u[k]], rank[v[k]])
    PROVE  Cardinality(Occurrences(v, u[k])) < Cardinality(Occurrences(u, u[k]))
<1> DEFINE x == u[k]
<1>1. /\ Len(u) \in Nat /\ DOMAIN u = 1..Len(u) /\ \A j \in 1..Len(u) : u[j] \in S
      /\ Len(v) \in Nat /\ DOMAIN v = 1..Len(v) /\ \A j \in 1..Len(v) : v[j] \in S
  OBVIOUS
<1>2. ASSUME NEW j \in 1..Len(v), v[j] = x
      PROVE  j \in 1..(k - 1) /\ u[j] = x
  <2>1. CASE j < k
    BY <1>1, <1>2, <2>1
  <2>2. CASE j >= k
    <3>1. k \in 1..Len(v) /\ Before(rank[x], rank[v[k]])
      BY <1>1, <2>2
    <3>2. x \in S /\ rank[x] \in [1..n -> Int]
      BY <1>1
    <3>3. CASE j = k
      BY <1>2, <3>1, <3>2, <3>3, BeforeIrreflexive
    <3>4. CASE j > k
      BY <1>1, <1>2, <3>1, <3>4 DEF InRankOrder
    <3> QED
      BY <2>2, <3>3, <3>4
  <2> QED
    BY <1>1, <2>1, <2>2
<1>3. Occurrences(v, x) \in SUBSET Occurrences(u, x)
  BY <1>1, <1>2 DEF Occurrences
<1>4. k \in Occurrences(u, x) /\ k \notin Occurrences(v, x)
  BY <1>1, <1>2 DEF Occurrences
<1>5. IsFiniteSet(Occurrences(u, x))
  BY <1>1, PlacesFinite DEF Occurrences
<1> HIDE DEF x
<1>6. Cardinality(Occurrences(v, x)) < Cardinality(Occurrences(u, x))
  BY <1>3, <1>4, <1>5, SmallerPart
<1> QED
  BY <1>6 DEF x

\* Every element of S has its own rank.
TellsApart(rank, S, n) ==
    /\ n \in Nat /\ rank \in [S -> [1..n -> Int]]
    /\ \A x, y \in S : rank[x] = rank[y] => x = y

(***************************************************************************)
(* A list in order is determined by what is in it, and how often.          *)
(***************************************************************************)
LEMMA SortedUnique ==
    ASSUME NEW S, NEW rank, NEW n, TellsApart(rank, S, n),
           NEW u \in Seq(S), NEW v \in Seq(S), InRankOrder(rank, u), InRankOrder(rank, v),
           \A x \in S : Cardinality(Occurrences(u, x)) = Cardinality(Occurrences(v, x))
    PROVE  u = v
<1> DEFINE differ == {k \in Nat : \/ k \in 1..Len(u) /\ k \notin 1..Len(v)
                                  \/ k \in 1..Len(v) /\ k \notin 1..Len(u)
                                  \/ k \in 1..Len(u) /\ k \in 1..Len(v) /\ u[k] # v[k]}
<1>c. /\ n \in Nat /\ rank \in [S -> [1..n -> Int]]
      /\ \A x, y \in S : rank[x] = rank[y] => x = y
  BY DEF TellsApart
<1>1. /\ Len(u) \in Nat /\ DOMAIN u = 1..Len(u) /\ \A j \in 1..Len(u) : u[j] \in S
      /\ Len(v) \in Nat /\ DOMAIN v = 1..Len(v) /\ \A j \in 1..Len(v) : v[j] \in S
  OBVIOUS
<1>0. Len(u) \in Nat /\ Len(v) \in Nat
  OBVIOUS
<1>a. differ \in SUBSET Nat
  OBVIOUS
<1>b. \A k \in Nat : k \in differ <=>
        \/ k \in 1..Len(u) /\ k \notin 1..Len(v)
        \/ k \in 1..Len(v) /\ k \notin 1..Len(u)
        \/ k \in 1..Len(u) /\ k \in 1..Len(v) /\ u[k] # v[k]
  OBVIOUS
<1> HIDE DEF differ
<1>2. CASE differ = {}
  <2>1. Len(u) = Len(v)
    <3>1. CASE Len(u) < Len(v)
      <4>1. Len(v) \in 1..Len(v) /\ Len(v) \notin 1..Len(u)
        BY <1>0, <3>1
      <4> QED
        BY <1>0, <1>2, <1>b, <4>1
    <3>2. CASE Len(v) < Len(u)
      <4>1. Len(u) \in 1..Len(u) /\ Len(u) \notin 1..Len(v)
        BY <1>0, <3>2
      <4> QED
        BY <1>0, <1>2, <1>b, <4>1
    <3> QED
      BY <1>0, <3>1, <3>2
  <2>2. ASSUME NEW k \in 1..Len(u) PROVE u[k] = v[k]
    <3>1. k \notin differ /\ k \in Nat
      BY <1>1, <1>2
    <3> QED
      BY <1>1, <1>b, <2>1, <3>1
  <2> QED
    BY <1>1, <2>1, <2>2
<1>3. CASE differ # {}
  <2>2. PICK k \in differ : \A j \in differ : k <= j
    BY <1>3, <1>a, LeastExists
  <2>3. \A j \in Nat : j < k => j \notin differ
    BY <1>a, <2>2
  <2>4. k \in Nat /\ k >= 1 /\ (k <= Len(u) \/ k <= Len(v))
    BY <1>1, <1>a, <1>b, <2>2
  <2>5. k - 1 <= Len(u) /\ k - 1 <= Len(v)
    <3>1. ASSUME k - 1 > Len(u) \/ k - 1 > Len(v) PROVE FALSE
      <4>1. /\ k - 1 \in Nat /\ k - 1 < k
            /\ \/ k - 1 \in 1..Len(u) /\ k - 1 \notin 1..Len(v)
               \/ k - 1 \in 1..Len(v) /\ k - 1 \notin 1..Len(u)
        BY <1>0, <2>4, <3>1
      <4> QED
        BY <1>b, <2>3, <4>1
    <3> QED
      BY <1>0, <2>4, <3>1
  <2>6. ASSUME NEW j \in 1..(k - 1) PROVE u[j] = v[j]
    <3>1. j \in Nat /\ j < k /\ j \notin differ /\ j \in 1..Len(u) /\ j \in 1..Len(v)
      BY <1>1, <2>3, <2>4, <2>5
    <3> QED
      BY <1>b, <3>1
  <2>7. \/ k <= Len(u) /\ (k <= Len(v) => Before(rank[u[k]], rank[v[k]]))
        \/ k <= Len(v) /\ (k <= Len(u) => Before(rank[v[k]], rank[u[k]]))
    <3>1. CASE k <= Len(u) /\ k <= Len(v)
      <4>1. u[k] \in S /\ v[k] \in S /\ u[k] # v[k]
        BY <1>1, <1>b, <2>2, <2>4, <3>1
      <4>2. rank[u[k]] # rank[v[k]] /\ rank[u[k]] \in [1..n -> Int] /\ rank[v[k]] \in [1..n -> Int]
        BY <1>c, <4>1
      <4> QED
        BY <1>c, <3>1, <4>2, BeforeTotal
    <3> QED
      BY <1>1, <2>4, <3>1
  <2>8. ASSUME k <= Len(u), k <= Len(v) => Before(rank[u[k]], rank[v[k]]) PROVE FALSE
    <3>1. k \in 1..Len(u)
      BY <1>1, <2>4, <2>8
    <3>2. Cardinality(Occurrences(v, u[k])) < Cardinality(Occurrences(u, u[k]))
      BY <2>5, <2>6, <2>8, <3>1, <1>c, NoneAhead
    <3>3. Cardinality(Occurrences(v, u[k])) = Cardinality(Occurrences(u, u[k]))
          /\ Cardinality(Occurrences(u, u[k])) \in Nat
      BY <1>1, <3>1, PlacesFinite DEF Occurrences
    <3> QED
      BY <3>2, <3>3
  <2>9. ASSUME k <= Len(v), k <= Len(u) => Before(rank[v[k]], rank[u[k]]) PROVE FALSE
    <3>1. k \in 1..Len(v) /\ \A j \in 1..(k - 1) : v[j] = u[j]
      BY <1>1, <2>4, <2>6, <2>9
    <3>2. Cardinality(Occurrences(u, v[k])) < Cardinality(Occurrences(v, v[k]))
      BY <2>5, <2>9, <3>1, <1>c, NoneAhead
    <3>3. Cardinality(Occurrences(u, v[k])) = Cardinality(Occurrences(v, v[k]))
          /\ Cardinality(Occurrences(v, v[k])) \in Nat
      BY <1>1, <3>1, PlacesFinite DEF Occurrences
    <3> QED
      BY <3>2, <3>3
  <2> QED
    BY <2>7, <2>8, <2>9
<1> QED
  BY <1>2, <1>3

-----------------------------------------------------------------------------
\* The fields of a claim, and what is kept of one.
LEMMA ClaimFields ==
    ASSUME NEW c \in Claim
    PROVE  GroupOf(c) \in Group /\ Provenanced(c) \in ProvenancedValue
BY DEF Claim, GroupOf, Provenanced, Group, ProvenancedValue

\* Every mechanism writes to one of the nine containers.
LEMMA ContainerType ==
    ASSUME NEW source \in SourceKind
    PROVE  Container(source) \in ArtifactContainer
BY DEF SourceKind, Container, ArtifactContainer

\* There are finitely many containers.
LEMMA ContainersFinite == IsFiniteSet(ArtifactContainer)
<1> DEFINE listed == <<"SystemHive", "SetupApiLog", "EventLog", "LnkFile", "KernelLog",
                       "SoftwareHive", "UserHive", "DeviceMedia", "MacosPlist">>
<1>1. listed \in [1..9 -> ArtifactContainer]
  BY DEF ArtifactContainer
<1>2. ASSUME NEW container \in ArtifactContainer
      PROVE  \E i \in 1..9 : listed[i] = container
  BY DEF ArtifactContainer
<1>3. listed \in Surjection(1..9, ArtifactContainer)
  BY <1>1, <1>2 DEF Surjection
<1>4. IsFiniteSet(1..9)
  <2>1. \A n \in Nat : IsFiniteSet(1..n)
    BY FS_Interval
  <2> QED
    BY <2>1
<1> QED
  BY <1>3, <1>4, FS_Surjection

\* The image of a finite set is finite.
LEMMA ImageFinite ==
    ASSUME NEW S, IsFiniteSet(S), NEW f, DOMAIN f = S, f = [x \in S |-> f[x]]
    PROVE  IsFiniteSet({f[x] : x \in S})
<1> DEFINE T == {f[x] : x \in S}
<1>1. f \in [S -> T]
  OBVIOUS
<1>2. \A t \in T : \E x \in S : f[x] = t
  OBVIOUS
<1> HIDE DEF T
<1>3. f \in Surjection(S, T)
  BY <1>1, <1>2 DEF Surjection
<1>4. IsFiniteSet(T)
  BY <1>3, FS_Surjection
<1> QED
  BY <1>4 DEF T

\* The elements of a list, and their number, are those of its positions.
LEMMA ListFinite ==
    ASSUME NEW values \in Seq(ProvenancedValue)
    PROVE  /\ IsFiniteSet(ReportedValues(values)) /\ IsFiniteSet(ContainersOf(values))
           /\ Cardinality(ReportedValues(values)) \in Nat
           /\ Cardinality(ContainersOf(values)) \in Nat
<1> DEFINE D == 1..Len(values)
           valueAt == [j \in D |-> values[j].value]
<1>1. Len(values) \in Nat /\ DOMAIN values = D /\ \A j \in D : values[j] \in ProvenancedValue
  OBVIOUS
<1>2. IsFiniteSet(D)
  BY <1>1, FS_Interval
<1>3. valueAt \in Surjection(D, ReportedValues(values))
  BY <1>1 DEF Surjection, ReportedValues, ToSet
<1>4. IsFiniteSet(ReportedValues(values))
  BY <1>2, <1>3, FS_Surjection
<1>5. ContainersOf(values) \in SUBSET ArtifactContainer
  <2>1. ASSUME NEW j \in D PROVE Container(values[j].source) \in ArtifactContainer
    BY <1>1, ContainerType DEF ProvenancedValue
  <2> QED
    BY <1>1, <2>1 DEF ContainersOf, ToSet
<1>6. IsFiniteSet(ContainersOf(values))
  BY <1>5, ContainersFinite, FS_Subset
<1> QED
  BY <1>4, <1>6, FS_CardinalityType

\* A finite set with none, with one, and with several members.
LEMMA Several ==
    ASSUME NEW S, IsFiniteSet(S)
    PROVE  /\ Cardinality(S) \in Nat
           /\ Cardinality(S) = 0 <=> S = {}
           /\ Cardinality(S) = 1 <=> \E x : S = {x}
           /\ Cardinality(S) >= 2 <=> \E x, y \in S : x # y
<1>1. Cardinality(S) \in Nat /\ (Cardinality(S) = 0 <=> S = {})
  BY FS_CardinalityType, FS_EmptySet
<1>2. Cardinality(S) = 1 <=> \E x : S = {x}
  BY FS_Singleton
<1>3. ASSUME S # {}, ~ \E x : S = {x}
      PROVE  \E x, y \in S : x # y
  BY <1>3
<1> QED
  BY <1>1, <1>2, <1>3

\* A grade is one of three.
LEMMA GradeType ==
    ASSUME NEW values
    PROVE  Grade(values) \in Consistency
BY DEF Grade, Consistency

\* A claim is its group and its provenanced value.
LEMMA ClaimIdentity ==
    ASSUME NEW c \in Claim, NEW d \in Claim
    PROVE  c = d <=> GroupOf(c) = GroupOf(d) /\ Provenanced(c) = Provenanced(d)
<1>1. ASSUME NEW e \in Claim
      PROVE  e = [device |-> GroupOf(e).device, attribute |-> GroupOf(e).attribute,
                  value |-> Provenanced(e).value, source |-> Provenanced(e).source,
                  locator |-> Provenanced(e).locator]
  BY DEF Claim, GroupOf, Provenanced
<1> QED
  BY <1>1

-----------------------------------------------------------------------------
\* A tuple is a list, and one after another a longer one.
LEMMA TupleIsSeq ==
    ASSUME NEW S, NEW n \in Nat, NEW s \in [1..n -> S]
    PROVE  s \in Seq(S) /\ Len(s) = n
<1>1. s \in Seq(S) /\ DOMAIN s = 1..n
  OBVIOUS
<1>2. Len(s) \in Nat /\ DOMAIN s = 1..Len(s)
  BY <1>1
<1>3. Len(s) = n
  <2>1. CASE Len(s) < n
    <3>1. n \in 1..n /\ n \notin 1..Len(s)
      BY <1>2, <2>1
    <3> QED
      BY <1>1, <1>2, <3>1
  <2>2. CASE n < Len(s)
    <3>1. Len(s) \in 1..Len(s) /\ Len(s) \notin 1..n
      BY <1>2, <2>2
    <3> QED
      BY <1>1, <1>2, <3>1
  <2> QED
    BY <1>2, <2>1, <2>2
<1> QED
  BY <1>1, <1>3

LEMMA Joined ==
    ASSUME NEW n \in Nat, NEW m \in Nat, NEW s \in [1..n -> Int], NEW t \in [1..m -> Int]
    PROVE  /\ s \o t \in [1..(n + m) -> Int]
           /\ \A i \in 1..n : (s \o t)[i] = s[i]
           /\ \A i \in 1..m : (s \o t)[n + i] = t[i]
<1>1. s \in Seq(Int) /\ Len(s) = n /\ t \in Seq(Int) /\ Len(t) = m
  BY TupleIsSeq
<1>2. s \o t \in Seq(Int) /\ Len(s \o t) = n + m
  BY <1>1
<1>3. \A i \in 1..n : (s \o t)[i] = s[i]
  BY <1>1
<1>4. ASSUME NEW i \in 1..m PROVE (s \o t)[n + i] = t[i]
  <2>1. n + i \in 1..(Len(s) + Len(t)) /\ ~ (n + i <= Len(s)) /\ n + i - Len(s) = i
    BY <1>1
  <2> QED
    BY <1>1, <2>1
<1>5. s \o t \in [1..(n + m) -> Int]
  <2>1. \A u \in Seq(Int) : u \in [1..Len(u) -> Int]
    OBVIOUS
  <2> QED
    BY <1>2, <2>1
<1> QED
  BY <1>3, <1>4, <1>5

\* Members of D stand for elements of S that have a rank; a tie that tells all
\* members apart refines it.
TieRefines(D, f, S, rank, n, tie, m) ==
    /\ IsFiniteSet(D) /\ n \in Nat /\ m \in Nat /\ n <= m
    /\ f \in [D -> S] /\ rank \in [S -> [1..n -> Int]] /\ tie \in [D -> [1..m -> Int]]
    /\ \A x, y \in D : tie[x] = tie[y] => x = y
    /\ \A x \in D : \A i \in 1..n : tie[x][i] = rank[f[x]][i]

\* What the members stand for, in the order of the tie.
SortedBy(tie, f) == [k \in DOMAIN ListedBy(tie) |-> f[ListedBy(tie)[k]]]

(***************************************************************************)
(* A stable sort: the list is in the order of rank and has each element as *)
(* often as members stand for it.                                          *)
(***************************************************************************)
LEMMA StableSort ==
    ASSUME NEW D, NEW f, NEW S, NEW rank, NEW n, NEW tie, NEW m,
           TieRefines(D, f, S, rank, n, tie, m)
    PROVE  LET list == SortedBy(tie, f)
           IN  /\ list \in Seq(S) /\ InRankOrder(rank, list)
               /\ \A e \in S : Cardinality(Occurrences(list, e)) = Cardinality({x \in D : f[x] = e})
               /\ \A k \in DOMAIN list : \E x \in D : list[k] = f[x]
               /\ \A x \in D : \E k \in DOMAIN list : list[k] = f[x]
<1> DEFINE order == ListedBy(tie)
           N == Cardinality(D)
           list == [k \in DOMAIN order |-> f[order[k]]]
<1>0. /\ IsFiniteSet(D) /\ n \in Nat /\ m \in Nat /\ n <= m
      /\ f \in [D -> S] /\ rank \in [S -> [1..n -> Int]] /\ tie \in [D -> [1..m -> Int]]
      /\ \A x, y \in D : tie[x] = tie[y] => x = y
      /\ \A x \in D : \A i \in 1..n : tie[x][i] = rank[f[x]][i]
  BY DEF TieRefines
<1>1. Ranked(tie, m) /\ DOMAIN tie = D
  BY <1>0 DEF Ranked
<1>2. /\ N \in Nat /\ order \in [1..N -> D]
      /\ \A x \in D : \E k \in 1..N : order[k] = x
      /\ \A k, l \in 1..N :
            (k < l => Before(tie[order[k]], tie[order[l]])) /\ (order[k] = order[l] => k = l)
  BY <1>1, ListedInOrder
<1> HIDE DEF order, N
<1>3. list \in [1..N -> S] /\ \A k \in 1..N : list[k] = f[order[k]] /\ order[k] \in D
  BY <1>0, <1>2
<1>4. list \in Seq(S) /\ DOMAIN list = 1..N
  <2>1. \A l \in Nat : \A s \in [1..l -> S] : s \in Seq(S)
    OBVIOUS
  <2> HIDE DEF list
  <2> QED
    BY <1>2, <1>3, <2>1
<1> HIDE DEF list
<1>5. InRankOrder(rank, list)
  <2> SUFFICES ASSUME NEW k \in 1..N, NEW l \in 1..N, k < l, Before(rank[list[l]], rank[list[k]])
               PROVE  FALSE
    BY <1>4 DEF InRankOrder
  <2>1. /\ order[k] \in D /\ order[l] \in D
        /\ list[k] = f[order[k]] /\ list[l] = f[order[l]]
        /\ rank[list[k]] \in [1..n -> Int] /\ rank[list[l]] \in [1..n -> Int]
        /\ tie[order[k]] \in [1..m -> Int] /\ tie[order[l]] \in [1..m -> Int]
    BY <1>0, <1>3
  <2>2. Before(tie[order[l]], tie[order[k]])
    <3>1. \A i \in 1..n : tie[order[l]][i] = rank[list[l]][i] /\ tie[order[k]][i] = rank[list[k]][i]
      BY <1>0, <2>1
    <3> DEFINE s == rank[list[l]]
               t == rank[list[k]]
               s2 == tie[order[l]]
               t2 == tie[order[k]]
    <3>2. /\ s \in [1..n -> Int] /\ t \in [1..n -> Int] /\ Before(s, t)
          /\ s2 \in [1..m -> Int] /\ t2 \in [1..m -> Int]
          /\ \A i \in 1..n : s2[i] = s[i] /\ t2[i] = t[i]
      BY <1>0, <2>1, <3>1
    <3> HIDE DEF s, t, s2, t2
    <3>3. PICK i \in 1..n : s[i] < t[i] /\ \A j \in 1..(i - 1) : s[j] = t[j]
      BY <3>2 DEF Before
    <3>4. i \in DOMAIN s2 /\ s2[i] < t2[i] /\ \A j \in 1..(i - 1) : s2[j] = t2[j]
      BY <1>0, <3>2, <3>3
    <3>5. Before(s2, t2)
      BY <3>4 DEF Before
    <3> QED
      BY <3>5 DEF s2, t2
  <2>3. Before(tie[order[k]], tie[order[l]])
    BY <1>2
  <2> QED
    BY <1>0, <2>1, <2>2, <2>3, BeforeAsymmetric
<1>6. ASSUME NEW e \in S
      PROVE  Cardinality(Occurrences(list, e)) = Cardinality({x \in D : f[x] = e})
  <2> DEFINE O == Occurrences(list, e)
             E == {x \in D : f[x] = e}
             g == [k \in O |-> order[k]]
  <2>1. O \in SUBSET (1..N) /\ \A k \in 1..N : k \in O <=> f[order[k]] = e
    BY <1>3, <1>4 DEF Occurrences
  <2>2. IsFiniteSet(O)
    BY <1>2, <2>1, PlacesFinite
  <2>3. \A x : x \in E <=> x \in D /\ f[x] = e
    OBVIOUS
  <2> HIDE DEF O, E
  <2>4. g \in [O -> E] /\ (\A x \in E : \E k \in O : g[k] = x)
        /\ (\A k, l \in O : g[k] = g[l] => k = l)
    BY <1>2, <2>1, <2>3
  <2>5. g \in Bijection(O, E)
    <3> HIDE DEF g
    <3> QED
      BY <2>4 DEF Bijection, Injection, Surjection, IsInjective
  <2>6. Cardinality(O) = Cardinality(E)
    <3> HIDE DEF g
    <3> QED
      BY <2>2, <2>5, FS_Bijection DEF ExistsBijection
  <2> QED
    BY <2>6 DEF O, E
<1>7. /\ \A k \in DOMAIN list : \E x \in D : list[k] = f[x]
      /\ \A x \in D : \E k \in DOMAIN list : list[k] = f[x]
  BY <1>2, <1>3, <1>4
<1> QED
  BY <1>4, <1>5, <1>6, <1>7 DEF list, order, SortedBy

-----------------------------------------------------------------------------
\* The place of a listed member tells which one it is.
LEMMA RankRight ==
    ASSUME NEW order, NEW x, \E i \in DOMAIN order : order[i] = x
    PROVE  Rank(order, x) \in DOMAIN order /\ order[Rank(order, x)] = x
BY DEF Rank

\* Names, locators, sources and attributes all have their place.
LEMMA RanksType ==
    /\ \A x \in Names : Rank(NameOrder, x) \in Int /\ NameOrder[Rank(NameOrder, x)] = x
    /\ \A x \in Locators : Rank(LocatorOrder, x) \in Int /\ LocatorOrder[Rank(LocatorOrder, x)] = x
    /\ \A x \in SourceKind : Rank(SourceOrder, x) \in Int /\ SourceOrder[Rank(SourceOrder, x)] = x
    /\ \A x \in Attribute :
          Rank(AttributeOrder, x) \in Int /\ AttributeOrder[Rank(AttributeOrder, x)] = x
<1>1. ASSUME NEW x \in Names
      PROVE  Rank(NameOrder, x) \in Int /\ NameOrder[Rank(NameOrder, x)] = x
  <2>1. DOMAIN NameOrder \in SUBSET Int /\ \E i \in DOMAIN NameOrder : NameOrder[i] = x
    BY OrderAssumption DEF ToSet
  <2> QED
    BY <2>1, RankRight
<1>2. ASSUME NEW x \in Locators
      PROVE  Rank(LocatorOrder, x) \in Int /\ LocatorOrder[Rank(LocatorOrder, x)] = x
  <2>1. DOMAIN LocatorOrder \in SUBSET Int /\ \E i \in DOMAIN LocatorOrder : LocatorOrder[i] = x
    BY OrderAssumption DEF ToSet
  <2> QED
    BY <2>1, RankRight
<1>3. ASSUME NEW x \in SourceKind
      PROVE  Rank(SourceOrder, x) \in Int /\ SourceOrder[Rank(SourceOrder, x)] = x
  <2>1. DOMAIN SourceOrder \in SUBSET Int
    BY DEF SourceOrder
  <2>2. \E i \in DOMAIN SourceOrder : SourceOrder[i] = x
    BY DEF SourceOrder, SourceKind
  <2> QED
    BY <2>1, <2>2, RankRight
<1>4. ASSUME NEW x \in Attribute
      PROVE  Rank(AttributeOrder, x) \in Int /\ AttributeOrder[Rank(AttributeOrder, x)] = x
  <2>1. DOMAIN AttributeOrder \in SUBSET Int
    BY DEF AttributeOrder
  <2>2. \E i \in DOMAIN AttributeOrder : AttributeOrder[i] = x
    BY DEF AttributeOrder, Attribute
  <2> QED
    BY <2>1, <2>2, RankRight
<1> QED
  BY <1>1, <1>2, <1>3, <1>4

\* The two orders of the report.
GroupRanks == [g \in Group |-> GroupRank(g)]
ProvenancedRanks == [pv \in ProvenancedValue |-> ProvenancedRank(pv)]

LEMMA GroupRanked ==
    /\ \A g \in Group : GroupRank(g) \in [1..2 -> Int]
    /\ \A g, h \in Group : GroupRank(g) = GroupRank(h) => g = h
    /\ TellsApart(GroupRanks, Group, 2)
<1>1. ASSUME NEW g \in Group
      PROVE  /\ GroupRank(g) = <<Rank(NameOrder, g.device), Rank(AttributeOrder, g.attribute)>>
             /\ GroupRank(g)[1] = Rank(NameOrder, g.device)
             /\ GroupRank(g)[2] = Rank(AttributeOrder, g.attribute)
             /\ GroupRank(g) \in [1..2 -> Int]
             /\ g.device \in Names /\ g.attribute \in Attribute
  <2>1. g.device \in Names /\ g.attribute \in Attribute
    BY DEF Group
  <2>2. Rank(NameOrder, g.device) \in Int /\ Rank(AttributeOrder, g.attribute) \in Int
    BY <2>1, RanksType
  <2> QED
    BY <2>1, <2>2 DEF GroupRank
<1>2. ASSUME NEW g \in Group, NEW h \in Group, GroupRank(g) = GroupRank(h)
      PROVE  g = h
  <2>1. /\ Rank(NameOrder, g.device) = Rank(NameOrder, h.device)
        /\ Rank(AttributeOrder, g.attribute) = Rank(AttributeOrder, h.attribute)
    BY <1>1, <1>2
  <2>2. g.device = h.device /\ g.attribute = h.attribute
    BY <1>1, <2>1, RanksType
  <2> QED
    BY <2>2 DEF Group
<1> QED
  BY <1>1, <1>2 DEF TellsApart, GroupRanks

LEMMA ValueRanked ==
    /\ \A v \in Value : ValueRank(v) \in [1..2 -> Int]
    /\ \A v, w \in Value : ValueRank(v) = ValueRank(w) => v = w
<1>1. ASSUME NEW v \in Value
      PROVE  \/ /\ IsText(v) /\ v.text \in Names /\ v = [kind |-> "Text", text |-> v.text]
                /\ ValueRank(v) = <<1, Rank(NameOrder, v.text)>>
                /\ Rank(NameOrder, v.text) \in Int /\ NameOrder[Rank(NameOrder, v.text)] = v.text
             \/ /\ ~ IsText(v) /\ v.at \in Int /\ v = [kind |-> "Timestamp", at |-> v.at]
                /\ ValueRank(v) = <<0, v.at>>
  <2>1. CASE v \in [kind : {"Text"}, text : Names]
    <3>1. IsText(v) /\ v.text \in Names /\ v = [kind |-> "Text", text |-> v.text]
      BY <2>1 DEF IsText
    <3> QED
      BY <3>1, RanksType DEF ValueRank
  <2>2. CASE v \in [kind : {"Timestamp"}, at : Int]
    <3>1. ~ IsText(v) /\ v.at \in Int /\ v = [kind |-> "Timestamp", at |-> v.at]
      BY <2>2 DEF IsText
    <3> QED
      BY <3>1 DEF ValueRank
  <2> QED
    BY <2>1, <2>2 DEF Value
<1>2. \A a, b, c, d : <<a, b>> = <<c, d>> => a = c /\ b = d
  OBVIOUS
<1>3. \A a, b \in Int : <<a, b>> \in [1..2 -> Int]
  OBVIOUS
<1>4. ASSUME NEW v \in Value PROVE ValueRank(v) \in [1..2 -> Int]
  BY <1>1, <1>3
<1>5. ASSUME NEW v \in Value, NEW w \in Value, ValueRank(v) = ValueRank(w)
      PROVE  v = w
  BY <1>1, <1>2, <1>5
<1> QED
  BY <1>4, <1>5

LEMMA ProvenancedRanked ==
    /\ \A pv \in ProvenancedValue : ProvenancedRank(pv) \in [1..4 -> Int]
    /\ \A pv, qv \in ProvenancedValue : ProvenancedRank(pv) = ProvenancedRank(qv) => pv = qv
    /\ TellsApart(ProvenancedRanks, ProvenancedValue, 4)
<1>1. ASSUME NEW pv \in ProvenancedValue
      PROVE  /\ pv.value \in Value /\ pv.source \in SourceKind /\ pv.locator \in Locators
             /\ ProvenancedRank(pv) \in [1..4 -> Int]
             /\ ProvenancedRank(pv)[1] = ValueRank(pv.value)[1]
             /\ ProvenancedRank(pv)[2] = ValueRank(pv.value)[2]
             /\ ProvenancedRank(pv)[3] = Rank(SourceOrder, pv.source)
             /\ ProvenancedRank(pv)[4] = Rank(LocatorOrder, pv.locator)
  <2>1. pv.value \in Value /\ pv.source \in SourceKind /\ pv.locator \in Locators
    BY DEF ProvenancedValue
  <2> DEFINE s == ValueRank(pv.value)
             a == Rank(SourceOrder, pv.source)
             b == Rank(LocatorOrder, pv.locator)
  <2>2. s \in [1..2 -> Int] /\ a \in Int /\ b \in Int
    BY <2>1, ValueRanked, RanksType
  <2>3. ProvenancedRank(pv) = s \o <<a, b>>
    BY DEF ProvenancedRank
  <2> HIDE DEF s, a, b
  <2>4. <<a, b>> \in [1..2 -> Int]
    BY <2>2
  <2>5. /\ s \o <<a, b>> \in [1..(2 + 2) -> Int]
        /\ \A i \in 1..2 : (s \o <<a, b>>)[i] = s[i]
        /\ \A i \in 1..2 : (s \o <<a, b>>)[2 + i] = <<a, b>>[i]
    <3> DEFINE t == <<a, b>>
    <3> HIDE DEF t
    <3>1. t \in [1..2 -> Int] /\ 2 \in Nat
      BY <2>4 DEF t
    <3> QED
      BY <2>2, <3>1, Joined DEF t
  <2>6. /\ s \o <<a, b>> \in [1..4 -> Int]
        /\ (s \o <<a, b>>)[1] = s[1] /\ (s \o <<a, b>>)[2] = s[2]
        /\ (s \o <<a, b>>)[3] = a /\ (s \o <<a, b>>)[4] = b
    BY <2>5
  <2> QED
    BY <2>1, <2>3, <2>6 DEF s, a, b
<1>2. ASSUME NEW pv \in ProvenancedValue, NEW qv \in ProvenancedValue,
             ProvenancedRank(pv) = ProvenancedRank(qv)
      PROVE  pv = qv
  <2>1. /\ ValueRank(pv.value)[1] = ValueRank(qv.value)[1]
        /\ ValueRank(pv.value)[2] = ValueRank(qv.value)[2]
        /\ Rank(SourceOrder, pv.source) = Rank(SourceOrder, qv.source)
        /\ Rank(LocatorOrder, pv.locator) = Rank(LocatorOrder, qv.locator)
    BY <1>1, <1>2
  <2>2. ValueRank(pv.value) = ValueRank(qv.value)
    <3>1. \A s, t \in [1..2 -> Int] : s[1] = t[1] /\ s[2] = t[2] => s = t
      <4> SUFFICES ASSUME NEW s \in [1..2 -> Int], NEW t \in [1..2 -> Int],
                          s[1] = t[1], s[2] = t[2]
                   PROVE  s = t
        OBVIOUS
      <4>1. \A i \in 1..2 : s[i] = t[i]
        OBVIOUS
      <4> QED
        BY <4>1
    <3> QED
      BY <1>1, <2>1, <3>1, ValueRanked
  <2>3. pv.value = qv.value
    BY <1>1, <2>2, ValueRanked
  <2>4. pv.source = qv.source /\ pv.locator = qv.locator
    BY <1>1, <2>1, RanksType
  <2> QED
    BY <2>3, <2>4 DEF ProvenancedValue
<1> QED
  BY <1>1, <1>2 DEF TellsApart, ProvenancedRanks

-----------------------------------------------------------------------------
\* The claims of a list, and their groups.
LEMMA ListedClaims ==
    ASSUME NEW cs \in Seq(Claim)
    PROVE  /\ Len(cs) \in Nat /\ DOMAIN cs = 1..Len(cs)
           /\ \A i \in 1..Len(cs) : /\ cs[i] \in Claim /\ cs[i] \in ToSet(cs)
                                    /\ GroupOf(cs[i]) \in Group
                                    /\ Provenanced(cs[i]) \in ProvenancedValue
           /\ \A c \in ToSet(cs) : c \in Claim /\ \E i \in 1..Len(cs) : cs[i] = c
<1>1. /\ Len(cs) \in Nat /\ DOMAIN cs = 1..Len(cs)
      /\ \A i \in 1..Len(cs) : cs[i] \in Claim
  OBVIOUS
<1> QED
  BY <1>1, ClaimFields DEF ToSet

\* The sort keys of a group's claims: by provenanced value, then by place.
LEMMA EvidenceTied ==
    ASSUME NEW cs \in Seq(Claim), NEW group
    PROVE  LET D == {j \in DOMAIN cs : GroupOf(cs[j]) = group}
               tie == [i \in D |-> ProvenancedRank(Provenanced(cs[i])) \o <<i>>]
           IN  /\ D \in SUBSET (1..Len(cs)) /\ IsFiniteSet(D)
               /\ tie \in [D -> [1..5 -> Int]]
               /\ \A i \in D : \A l \in 1..4 :
                        tie[i][l] = ProvenancedRanks[Provenanced(cs[i])][l]
               /\ \A i, j \in D : tie[i] = tie[j] => i = j
<1> DEFINE D == {j \in DOMAIN cs : GroupOf(cs[j]) = group}
           tie == [i \in D |-> ProvenancedRank(Provenanced(cs[i])) \o <<i>>]
<1>1. /\ Len(cs) \in Nat /\ D \in SUBSET (1..Len(cs))
      /\ \A i \in D : Provenanced(cs[i]) \in ProvenancedValue
  BY ListedClaims
<1> HIDE DEF D
<1>2. IsFiniteSet(D)
  BY <1>1, PlacesFinite
<1>3. ASSUME NEW i \in D
      PROVE  /\ tie[i] \in [1..5 -> Int] /\ tie[i][5] = i
             /\ \A l \in 1..4 : tie[i][l] = ProvenancedRanks[Provenanced(cs[i])][l]
  <2> DEFINE s == ProvenancedRank(Provenanced(cs[i]))
             t == <<i>>
  <2>1. s \in [1..4 -> Int] /\ t \in [1..1 -> Int] /\ t[1] = i
    BY <1>1, ProvenancedRanked
  <2>2. tie[i] = s \o t /\ ProvenancedRanks[Provenanced(cs[i])] = s
    BY <1>1 DEF ProvenancedRanks
  <2> HIDE DEF s, t, tie
  <2>3. /\ s \o t \in [1..(4 + 1) -> Int]
        /\ \A l \in 1..4 : (s \o t)[l] = s[l]
        /\ \A l \in 1..1 : (s \o t)[4 + l] = t[l]
    <3>1. 4 \in Nat /\ 1 \in Nat
      OBVIOUS
    <3> QED
      BY <2>1, <3>1, Joined
  <2>4. (s \o t)[5] = t[1] /\ s \o t \in [1..5 -> Int]
    BY <2>3
  <2> QED
    BY <2>1, <2>2, <2>3, <2>4
<1>4. tie \in [D -> [1..5 -> Int]] /\ \A i, j \in D : tie[i] = tie[j] => i = j
  <2>1. DOMAIN tie = D /\ tie = [i \in D |-> tie[i]]
    OBVIOUS
  <2> HIDE DEF tie
  <2> QED
    BY <1>3, <2>1
<1> HIDE DEF tie
<1> QED
  BY <1>1, <1>2, <1>3, <1>4 DEF D, tie

\* The evidence of a group, as sorted: the group's claims, each as often.
LEMMA EvidenceHeld ==
    ASSUME NEW cs \in Seq(Claim), NEW group \in Group
    PROVE  LET values == EvidenceFor(cs, group)
           IN  /\ values \in Seq(ProvenancedValue)
               /\ InOrder(values)
               /\ HoldsUpTo(cs, Len(cs), values, group)
               /\ \A i \in 1..Len(cs) : GroupOf(cs[i]) = group => values # <<>>
<1> DEFINE D == {j \in DOMAIN cs : GroupOf(cs[j]) = group}
           rank == [pv \in ProvenancedValue |-> ProvenancedRank(pv)]
           f == [i \in D |-> Provenanced(cs[i])]
           tie == [i \in D |-> ProvenancedRank(Provenanced(cs[i])) \o <<i>>]
           order == ListedBy(tie)
           list == SortedBy(tie, f)
           values == EvidenceFor(cs, group)
<1>1. /\ Len(cs) \in Nat /\ D \in SUBSET (1..Len(cs))
      /\ \A i \in 1..Len(cs) : i \in D <=> GroupOf(cs[i]) = group
      /\ \A i \in D : Provenanced(cs[i]) \in ProvenancedValue
  BY ListedClaims
<1> HIDE DEF D
<1>2. IsFiniteSet(D)
  BY <1>1, PlacesFinite
<1>3. rank \in [ProvenancedValue -> [1..4 -> Int]]
  BY ProvenancedRanked
<1>4. f \in [D -> ProvenancedValue]
  BY <1>1
<1>5. /\ tie \in [D -> [1..5 -> Int]] /\ \A i, j \in D : tie[i] = tie[j] => i = j
      /\ \A i \in D : \A l \in 1..4 : tie[i][l] = ProvenancedRanks[Provenanced(cs[i])][l]
  BY EvidenceTied DEF D
<1>6. \A i \in D : \A l \in 1..4 : tie[i][l] = rank[f[i]][l]
  <2>1. rank = ProvenancedRanks
    BY DEF ProvenancedRanks
  <2>2. \A i \in D : f[i] = Provenanced(cs[i])
    OBVIOUS
  <2> HIDE DEF rank, f, tie
  <2> QED
    BY <1>5, <2>1, <2>2
<1>7. DOMAIN order = 1..Cardinality(D) /\ \A k \in DOMAIN order : order[k] \in D
  <2> HIDE DEF tie
  <2>1. Ranked(tie, 5) /\ DOMAIN tie = D
    BY <1>2, <1>5 DEF Ranked
  <2> QED
    BY <2>1, ListedInOrder
<1>8. values = list
  <2>1. values = [k \in DOMAIN order |-> Provenanced(cs[order[k]])]
    BY DEF EvidenceFor, D
  <2>2. \A k \in DOMAIN order : f[order[k]] = Provenanced(cs[order[k]])
    <3> HIDE DEF order
    <3> QED
      BY <1>7
  <2>3. list = [k \in DOMAIN order |-> f[order[k]]]
    BY DEF SortedBy
  <2> HIDE DEF order, f, list, values
  <2> QED
    BY <2>1, <2>2, <2>3
<1>9. /\ list \in Seq(ProvenancedValue) /\ InRankOrder(rank, list)
      /\ \A e \in ProvenancedValue :
            Cardinality(Occurrences(list, e)) = Cardinality({x \in D : f[x] = e})
      /\ \A k \in DOMAIN list : \E x \in D : list[k] = f[x]
      /\ \A x \in D : \E k \in DOMAIN list : list[k] = f[x]
  <2> HIDE DEF f, tie, rank
  <2>1. TieRefines(D, f, ProvenancedValue, rank, 4, tie, 5)
    BY <1>2, <1>3, <1>4, <1>5, <1>6 DEF TieRefines
  <2> QED
    BY <2>1, StableSort
<1> HIDE DEF list, values, order, tie
<1>10. \A k \in DOMAIN values : values[k] \in ProvenancedValue
  BY <1>8, <1>9
<1>11. InOrder(values)
  BY <1>8, <1>9, <1>10 DEF InOrder, InRankOrder
<1>12. ASSUME NEW c \in ToSet(cs), GroupOf(c) = group
       PROVE  Cardinality(PlacesIn(values, c)) = Cardinality(ReadAs(cs, Len(cs), c))
  <2>1. c \in Claim /\ Provenanced(c) \in ProvenancedValue
    BY ListedClaims, ClaimFields
  <2>2. PlacesIn(values, c) = Occurrences(list, Provenanced(c))
    BY <1>8 DEF PlacesIn, Occurrences
  <2>3. {x \in D : f[x] = Provenanced(c)} = ReadAs(cs, Len(cs), c)
    <3>1. ASSUME NEW i \in 1..Len(cs)
          PROVE  cs[i] = c <=> i \in D /\ f[i] = Provenanced(c)
      BY <1>1, <1>12, <2>1, ListedClaims, ClaimIdentity
    <3> HIDE DEF f
    <3> QED
      BY <1>1, <3>1 DEF ReadAs
  <2> QED
    BY <1>9, <2>1, <2>2, <2>3
<1>13. ASSUME NEW j \in DOMAIN values
       PROVE  \E i \in 1..Len(cs) : GroupOf(cs[i]) = group /\ values[j] = Provenanced(cs[i])
  BY <1>1, <1>8, <1>9
<1>14. HoldsUpTo(cs, Len(cs), values, group)
  BY <1>12, <1>13 DEF HoldsUpTo
<1>15. ASSUME NEW i \in 1..Len(cs), GroupOf(cs[i]) = group PROVE values # <<>>
  BY <1>1, <1>8, <1>9, <1>15
<1> QED
  BY <1>8, <1>9, <1>11, <1>14, <1>15 DEF values

(***************************************************************************)
(* The report as computed in one step is one correlate may give.           *)
(***************************************************************************)
LEMMA CorrelatedIsReport ==
    ASSUME NEW cs \in Seq(Claim)
    PROVE  IsReportOf(cs, Correlated(cs))
<1> DEFINE G == {GroupOf(c) : c \in ToSet(cs)}
           rank == [group \in G |-> GroupRank(group)]
           groups == ListedBy(rank)
           N == Cardinality(G)
           hs == Correlated(cs)
<1>1. G \in SUBSET Group /\ IsFiniteSet(G)
  <2> DEFINE groupAt == [i \in 1..Len(cs) |-> GroupOf(cs[i])]
  <2>1. G \in SUBSET Group /\ groupAt \in Surjection(1..Len(cs), G)
    BY ListedClaims DEF Surjection
  <2>2. IsFiniteSet(1..Len(cs))
    BY ListedClaims, FS_Interval
  <2> QED
    BY <2>1, <2>2, FS_Surjection
<1>2. \A i \in 1..Len(cs) : GroupOf(cs[i]) \in G
  BY ListedClaims
<1>3. \A g \in G : \E i \in 1..Len(cs) : GroupOf(cs[i]) = g
  BY ListedClaims
<1> HIDE DEF G
<1>4. Ranked(rank, 2) /\ DOMAIN rank = G
  BY <1>1, GroupRanked DEF Ranked
<1>5. /\ N \in Nat /\ groups \in [1..N -> G]
      /\ \A g \in G : \E k \in 1..N : groups[k] = g
      /\ \A k, m \in 1..N : k < m => Before(rank[groups[k]], rank[groups[m]])
  <2> HIDE DEF rank
  <2> QED
    BY <1>4, ListedInOrder
<1>6. hs = [k \in DOMAIN groups |-> Entry(groups[k], EvidenceFor(cs, groups[k]))]
  BY DEF Correlated, G
<1> HIDE DEF groups, N, hs
<1>7. ASSUME NEW k \in 1..N
      PROVE  /\ groups[k] \in G /\ groups[k] \in Group
             /\ hs[k] \in HistoryEntry
             /\ GroupOf(hs[k]) = groups[k] /\ GroupRank(hs[k]) = rank[groups[k]]
             /\ hs[k].values # <<>> /\ InOrder(hs[k].values)
             /\ hs[k].consistency = Grade(hs[k].values)
             /\ HoldsUpTo(cs, Len(cs), hs[k].values, groups[k])
  <2> DEFINE g == groups[k]
             values == EvidenceFor(cs, g)
  <2>1. g \in G /\ g \in Group /\ hs[k] = Entry(g, values)
    BY <1>1, <1>5, <1>6
  <2>2. /\ values \in Seq(ProvenancedValue) /\ InOrder(values) /\ values # <<>>
        /\ HoldsUpTo(cs, Len(cs), values, g)
    BY <1>3, <2>1, EvidenceHeld
  <2> HIDE DEF g, values
  <2>3. /\ hs[k] \in HistoryEntry /\ hs[k].values = values
        /\ hs[k].consistency = Grade(values)
        /\ hs[k].device = g.device /\ hs[k].attribute = g.attribute
    BY <2>1, <2>2, GradeType DEF Entry, HistoryEntry, Group
  <2>4. GroupOf(hs[k]) = g /\ GroupRank(hs[k]) = rank[g]
    BY <2>1, <2>3 DEF GroupOf, GroupRank, Group
  <2> QED
    BY <2>1, <2>2, <2>3, <2>4 DEF g
<1>8. DOMAIN hs = 1..N
  BY <1>5, <1>6
<1>9. hs \in Seq(HistoryEntry)
  <2>1. hs = [k \in 1..N |-> hs[k]]
    BY <1>5, <1>6
  <2>2. hs \in [1..N -> HistoryEntry]
    BY <1>7, <2>1
  <2> QED
    BY <1>5, <2>2, TupleIsSeq
<1>10. ASSUME NEW k \in 1..N, NEW m \in 1..N, k < m
       PROVE  Before(GroupRank(hs[k]), GroupRank(hs[m]))
  BY <1>5, <1>7, <1>10
<1>11. ASSUME NEW i \in 1..Len(cs) PROVE \E k \in 1..N : GroupOf(hs[k]) = GroupOf(cs[i])
  <2>1. PICK k \in 1..N : groups[k] = GroupOf(cs[i])
    BY <1>2, <1>5
  <2> QED
    BY <1>7, <2>1
<1>12. DOMAIN cs = 1..Len(cs)
  BY ListedClaims
<1> HIDE DEF rank
<1>13. \A k \in DOMAIN hs :
        /\ hs[k].values # <<>> /\ InOrder(hs[k].values)
        /\ hs[k].consistency = Grade(hs[k].values)
        /\ HoldsUpTo(cs, Len(cs), hs[k].values, GroupOf(hs[k]))
  BY <1>7, <1>8
<1>14. IsReportOf(cs, hs)
  BY <1>8, <1>9, <1>10, <1>11, <1>12, <1>13 DEF IsReportOf
<1> QED
  BY <1>14 DEF hs

\* The same claims, in whatever order.
SameClaims(cs, ds) ==
    \A c \in Claim :
        Cardinality(ReadAs(cs, Len(cs), c)) = Cardinality(ReadAs(ds, Len(ds), c))

LEMMA SameGroups ==
    ASSUME NEW cs \in Seq(Claim), NEW ds \in Seq(Claim), SameClaims(cs, ds),
           NEW i \in 1..Len(cs)
    PROVE  \E j \in 1..Len(ds) : ds[j] = cs[i]
<1>1. cs[i] \in Claim /\ Len(cs) \in Nat /\ Len(ds) \in Nat
  BY ListedClaims
<1>2. IsFiniteSet(ReadAs(cs, Len(cs), cs[i])) /\ IsFiniteSet(ReadAs(ds, Len(ds), cs[i]))
  BY <1>1, PlacesFinite DEF ReadAs
<1>3. i \in ReadAs(cs, Len(cs), cs[i])
  BY DEF ReadAs
<1>4. Cardinality(ReadAs(ds, Len(ds), cs[i])) # 0
  BY <1>1, <1>2, <1>3, Several DEF SameClaims
<1>5. ReadAs(ds, Len(ds), cs[i]) # {}
  BY <1>2, <1>4, Several
<1> QED
  BY <1>5 DEF ReadAs

\* The entries of a report.
LEMMA ReportEntries ==
    ASSUME NEW cs \in Seq(Claim), NEW hs, IsReportOf(cs, hs)
    PROVE  /\ Len(hs) \in Nat /\ DOMAIN hs = 1..Len(hs)
           /\ \A k \in 1..Len(hs) :
                /\ hs[k] \in HistoryEntry /\ GroupOf(hs[k]) \in Group
                /\ GroupRank(hs[k]) = GroupRank(GroupOf(hs[k]))
                /\ hs[k].values \in Seq(ProvenancedValue)
                /\ \E i \in 1..Len(cs) : GroupOf(cs[i]) = GroupOf(hs[k])
<1>1. /\ Len(hs) \in Nat /\ DOMAIN hs = 1..Len(hs)
      /\ \A k \in 1..Len(hs) : hs[k] \in HistoryEntry
  BY DEF IsReportOf
<1>2. ASSUME NEW k \in 1..Len(hs)
      PROVE  /\ GroupOf(hs[k]) \in Group /\ GroupRank(hs[k]) = GroupRank(GroupOf(hs[k]))
             /\ hs[k].values \in Seq(ProvenancedValue)
    BY <1>1 DEF GroupOf, GroupRank, Group, HistoryEntry
<1>3. ASSUME NEW k \in 1..Len(hs)
      PROVE  \E i \in 1..Len(cs) : GroupOf(cs[i]) = GroupOf(hs[k])
  <2>1. 1 \in DOMAIN hs[k].values
    <3>1. hs[k].values \in Seq(ProvenancedValue) /\ hs[k].values # <<>>
      BY <1>1, <1>2 DEF IsReportOf
    <3> QED
      BY <3>1
  <2> QED
    BY <1>1, <2>1 DEF IsReportOf, HoldsUpTo
<1> QED
  BY <1>1, <1>2, <1>3

\* How often an entry has a value is said by the claims.
LEMMA EvidenceCounted ==
    ASSUME NEW cs \in Seq(Claim), NEW group \in Group, NEW pv \in ProvenancedValue,
           NEW values, HoldsUpTo(cs, Len(cs), values, group)
    PROVE  \E c \in Claim : /\ GroupOf(c) = group /\ Provenanced(c) = pv
                            /\ Cardinality(Occurrences(values, pv))
                                  = Cardinality(ReadAs(cs, Len(cs), c))
<1> DEFINE c == [device |-> group.device, attribute |-> group.attribute, value |-> pv.value,
                 source |-> pv.source, locator |-> pv.locator]
<1>1. c \in Claim /\ GroupOf(c) = group /\ Provenanced(c) = pv
  BY DEF Claim, Group, ProvenancedValue, GroupOf, Provenanced
<1> HIDE DEF c
<1>2. CASE c \in ToSet(cs)
  <2>1. PlacesIn(values, c) = Occurrences(values, pv)
    BY <1>1 DEF PlacesIn, Occurrences
  <2> QED
    BY <1>1, <1>2, <2>1 DEF HoldsUpTo
<1>3. CASE c \notin ToSet(cs)
  <2>1. ReadAs(cs, Len(cs), c) = {}
    BY <1>3, ListedClaims DEF ReadAs
  <2>2. ASSUME NEW j \in DOMAIN values, values[j] = pv PROVE FALSE
    <3>1. PICK i \in 1..Len(cs) : GroupOf(cs[i]) = group /\ pv = Provenanced(cs[i])
      BY <2>2 DEF HoldsUpTo
    <3>2. cs[i] = c
      BY <1>1, <3>1, ListedClaims, ClaimIdentity
    <3> QED
      BY <1>3, <3>2, ListedClaims
  <2>3. Occurrences(values, pv) = {}
    BY <2>2 DEF Occurrences
  <2> QED
    BY <1>1, <2>1, <2>3
<1> QED
  BY <1>2, <1>3

GroupsOf(hs) == [k \in DOMAIN hs |-> GroupOf(hs[k])]

\* A sorted report names each group of its claims once.
LEMMA GroupsCounted ==
    ASSUME NEW cs \in Seq(Claim), NEW hs, IsReportOf(cs, hs)
    PROVE  LET list == GroupsOf(hs)
           IN  /\ list \in Seq(Group) /\ InRankOrder(GroupRanks, list) /\ Len(list) = Len(hs)
               /\ \A g \in Group : Cardinality(Occurrences(list, g))
                      = IF \E i \in 1..Len(cs) : GroupOf(cs[i]) = g THEN 1 ELSE 0
<1> DEFINE list == [k \in DOMAIN hs |-> GroupOf(hs[k])]
           rank == [g \in Group |-> GroupRank(g)]
<1>1. /\ Len(hs) \in Nat /\ DOMAIN hs = 1..Len(hs)
      /\ \A k \in 1..Len(hs) : /\ GroupOf(hs[k]) \in Group
                               /\ GroupRank(hs[k]) = GroupRank(GroupOf(hs[k]))
                               /\ \E i \in 1..Len(cs) : GroupOf(cs[i]) = GroupOf(hs[k])
  BY ReportEntries
<1>2. list \in [1..Len(hs) -> Group]
  BY <1>1
<1>3. list \in Seq(Group) /\ Len(list) = Len(hs) /\ DOMAIN list = 1..Len(hs)
  <2> HIDE DEF list
  <2> QED
    BY <1>1, <1>2, TupleIsSeq
<1>4. ASSUME NEW k \in 1..Len(hs), NEW m \in 1..Len(hs), k < m
      PROVE  /\ Before(rank[list[k]], rank[list[m]])
             /\ rank[list[k]] \in [1..2 -> Int] /\ rank[list[m]] \in [1..2 -> Int]
  BY <1>1, <1>4, GroupRanked DEF IsReportOf
<1>5. InRankOrder(rank, list)
  <2> HIDE DEF list, rank
  <2> SUFFICES ASSUME NEW k \in 1..Len(hs), NEW m \in 1..Len(hs), k < m
               PROVE  ~ Before(rank[list[m]], rank[list[k]])
    BY <1>3 DEF InRankOrder
  <2>1. 2 \in Nat
    OBVIOUS
  <2> QED
    BY <1>4, <2>1, BeforeAsymmetric
<1>6. ASSUME NEW k \in 1..Len(hs), NEW m \in 1..Len(hs), list[k] = list[m] PROVE k = m
  <2> HIDE DEF list, rank
  <2>1. rank[list[k]] \in [1..2 -> Int] /\ 2 \in Nat /\ k \in Int /\ m \in Int
    BY <1>2, GroupRanked DEF rank
  <2>2. ~ Before(rank[list[k]], rank[list[m]]) /\ ~ Before(rank[list[m]], rank[list[k]])
    BY <1>6, <2>1, BeforeIrreflexive
  <2> QED
    BY <1>4, <2>1, <2>2
<1>7. ASSUME NEW g \in Group
      PROVE  Cardinality(Occurrences(list, g))
                 = IF \E i \in 1..Len(cs) : GroupOf(cs[i]) = g THEN 1 ELSE 0
  <2>1. CASE \E i \in 1..Len(cs) : GroupOf(cs[i]) = g
    <3>1. PICK k \in 1..Len(hs) : list[k] = g
      BY <1>1, <2>1, ListedClaims DEF IsReportOf
    <3> HIDE DEF list
    <3>2. Occurrences(list, g) = {k}
      BY <1>3, <1>6, <3>1 DEF Occurrences
    <3> QED
      BY <2>1, <3>2, FS_Singleton
  <2>2. CASE ~ \E i \in 1..Len(cs) : GroupOf(cs[i]) = g
    <3>1. Occurrences(list, g) = {}
      BY <1>1, <2>2 DEF Occurrences
    <3> QED
      BY <2>2, <3>1, FS_EmptySet
  <2> QED
    BY <2>1, <2>2
<1> QED
  BY <1>3, <1>5, <1>7 DEF GroupsOf, GroupRanks

\* What is in a group is determined by the claims, whatever their order.
LEMMA EvidenceUnique ==
    ASSUME NEW cs \in Seq(Claim), NEW ds \in Seq(Claim), SameClaims(cs, ds),
           NEW group \in Group,
           NEW a \in Seq(ProvenancedValue), InOrder(a), HoldsUpTo(cs, Len(cs), a, group),
           NEW b \in Seq(ProvenancedValue), InOrder(b), HoldsUpTo(ds, Len(ds), b, group)
    PROVE  a = b
<1>1. ASSUME NEW pv \in ProvenancedValue
      PROVE  Cardinality(Occurrences(a, pv)) = Cardinality(Occurrences(b, pv))
  <2>1. PICK c \in Claim : /\ GroupOf(c) = group /\ Provenanced(c) = pv
                           /\ Cardinality(Occurrences(a, pv)) = Cardinality(ReadAs(cs, Len(cs), c))
    BY EvidenceCounted
  <2>2. PICK d \in Claim : /\ GroupOf(d) = group /\ Provenanced(d) = pv
                           /\ Cardinality(Occurrences(b, pv)) = Cardinality(ReadAs(ds, Len(ds), d))
    BY EvidenceCounted
  <2>3. c = d
    BY <2>1, <2>2, ClaimIdentity
  <2> QED
    BY <2>1, <2>2, <2>3 DEF SameClaims
<1>2. InRankOrder(ProvenancedRanks, a) /\ InRankOrder(ProvenancedRanks, b)
  <2>1. ASSUME NEW list \in Seq(ProvenancedValue), InOrder(list)
        PROVE  InRankOrder(ProvenancedRanks, list)
    <3>1. \A i \in DOMAIN list : list[i] \in ProvenancedValue
      OBVIOUS
    <3> QED
      BY <2>1, <3>1 DEF InOrder, InRankOrder, ProvenancedRanks
  <2> QED
    BY <2>1
<1> QED
  BY <1>1, <1>2, ProvenancedRanked, SortedUnique

(***************************************************************************)
(* The report is determined by the claims, whatever their order.           *)
(***************************************************************************)
LEMMA ReportUnique ==
    ASSUME NEW cs \in Seq(Claim), NEW ds \in Seq(Claim), SameClaims(cs, ds),
           NEW hs, IsReportOf(cs, hs), NEW gs, IsReportOf(ds, gs)
    PROVE  hs = gs
<1> DEFINE u == GroupsOf(hs)
           v == GroupsOf(gs)
<1>1. SameClaims(ds, cs)
  BY DEF SameClaims
<1>2. \A g : (\E i \in 1..Len(cs) : GroupOf(cs[i]) = g) <=> (\E i \in 1..Len(ds) : GroupOf(ds[i]) = g)
  BY <1>1, SameGroups
<1>3. /\ u \in Seq(Group) /\ InRankOrder(GroupRanks, u) /\ Len(u) = Len(hs)
      /\ v \in Seq(Group) /\ InRankOrder(GroupRanks, v) /\ Len(v) = Len(gs)
      /\ \A g \in Group : Cardinality(Occurrences(u, g)) = Cardinality(Occurrences(v, g))
  <2>1. /\ u \in Seq(Group) /\ InRankOrder(GroupRanks, u) /\ Len(u) = Len(hs)
        /\ \A g \in Group : Cardinality(Occurrences(u, g))
                = IF \E i \in 1..Len(cs) : GroupOf(cs[i]) = g THEN 1 ELSE 0
    BY GroupsCounted
  <2>2. /\ v \in Seq(Group) /\ InRankOrder(GroupRanks, v) /\ Len(v) = Len(gs)
        /\ \A g \in Group : Cardinality(Occurrences(v, g))
                = IF \E i \in 1..Len(ds) : GroupOf(ds[i]) = g THEN 1 ELSE 0
    BY GroupsCounted
  <2> HIDE DEF u, v
  <2> QED
    BY <1>2, <2>1, <2>2
<1>4. u = v
  <2> HIDE DEF u, v
  <2> QED
    BY <1>3, GroupRanked, SortedUnique
<1>5. /\ Len(hs) \in Nat /\ Len(gs) = Len(hs)
      /\ DOMAIN hs = 1..Len(hs) /\ DOMAIN gs = 1..Len(hs)
      /\ \A k \in 1..Len(hs) : GroupOf(hs[k]) = GroupOf(gs[k])
  <2>1. Len(gs) = Len(hs) /\ Len(hs) \in Nat /\ DOMAIN hs = 1..Len(hs) /\ DOMAIN gs = 1..Len(gs)
    BY <1>3, <1>4, ReportEntries
  <2>2. ASSUME NEW k \in 1..Len(hs) PROVE GroupOf(hs[k]) = GroupOf(gs[k])
    <3>1. u[k] = GroupOf(hs[k]) /\ v[k] = GroupOf(gs[k])
      BY <2>1 DEF GroupsOf
    <3> QED
      BY <1>4, <3>1
  <2> QED
    BY <2>1, <2>2
<1>6. ASSUME NEW k \in 1..Len(hs) PROVE hs[k] = gs[k]
  <2> DEFINE a == hs[k].values
             b == gs[k].values
             group == GroupOf(hs[k])
  <2>1. /\ hs[k] \in HistoryEntry /\ gs[k] \in HistoryEntry /\ group \in Group
        /\ a \in Seq(ProvenancedValue) /\ b \in Seq(ProvenancedValue)
    BY <1>5, ReportEntries
  <2>2. /\ InOrder(a) /\ InOrder(b) /\ hs[k].consistency = Grade(a) /\ gs[k].consistency = Grade(b)
        /\ HoldsUpTo(cs, Len(cs), a, group) /\ HoldsUpTo(ds, Len(ds), b, group)
    BY <1>5 DEF IsReportOf
  <2> HIDE DEF a, b, group
  <2>3. a = b
    BY <2>1, <2>2, EvidenceUnique
  <2>4. hs[k].device = gs[k].device /\ hs[k].attribute = gs[k].attribute
    BY <1>5 DEF GroupOf
  <2>5. hs[k].consistency = gs[k].consistency /\ hs[k].values = gs[k].values
    BY <2>2, <2>3 DEF a, b
  <2>6. \A e \in HistoryEntry : e = [device |-> e.device, attribute |-> e.attribute,
                                     consistency |-> e.consistency, values |-> e.values]
    BY DEF HistoryEntry
  <2> QED
    BY <2>1, <2>4, <2>5, <2>6
<1>7. hs = [k \in 1..Len(hs) |-> hs[k]] /\ gs = [k \in 1..Len(hs) |-> gs[k]]
  BY <1>5 DEF IsReportOf
<1> QED
  BY <1>6, <1>7

\* Two entries of a report are of two groups.
LEMMA OneEntryEach ==
    ASSUME NEW cs \in Seq(Claim), NEW hs, IsReportOf(cs, hs),
           NEW k \in 1..Len(hs), NEW m \in 1..Len(hs), GroupOf(hs[k]) = GroupOf(hs[m])
    PROVE  k = m
<1>1. /\ Len(hs) \in Nat /\ DOMAIN hs = 1..Len(hs)
      /\ \A i \in 1..Len(hs) : /\ GroupOf(hs[i]) \in Group
                               /\ GroupRank(hs[i]) = GroupRank(GroupOf(hs[i]))
  BY ReportEntries
<1>2. GroupRank(hs[k]) = GroupRank(hs[m]) /\ GroupRank(hs[k]) \in [1..2 -> Int] /\ 2 \in Nat
  BY <1>1, GroupRanked
<1>3. ~ Before(GroupRank(hs[k]), GroupRank(hs[m])) /\ ~ Before(GroupRank(hs[m]), GroupRank(hs[k]))
  BY <1>2, BeforeIrreflexive
<1>4. ~ (k < m) /\ ~ (m < k)
  BY <1>1, <1>3 DEF IsReportOf
<1> QED
  BY <1>1, <1>4

\* An entry has each claim of its group as often as it was handed over.
LEMMA ClaimShown ==
    ASSUME NEW cs \in Seq(Claim), NEW hs, IsReportOf(cs, hs),
           NEW k \in 1..Len(hs), NEW c \in Claim, GroupOf(hs[k]) = GroupOf(c)
    PROVE  Cardinality(Occurrences(hs[k].values, Provenanced(c)))
               = Cardinality(ReadAs(cs, Len(cs), c))
<1>1. /\ DOMAIN hs = 1..Len(hs)
      /\ HoldsUpTo(cs, Len(cs), hs[k].values, GroupOf(c))
      /\ GroupOf(c) \in Group /\ Provenanced(c) \in ProvenancedValue
  BY ReportEntries, ClaimFields DEF IsReportOf
<1>2. PICK d \in Claim : /\ GroupOf(d) = GroupOf(c) /\ Provenanced(d) = Provenanced(c)
                         /\ Cardinality(Occurrences(hs[k].values, Provenanced(c)))
                                = Cardinality(ReadAs(cs, Len(cs), d))
  BY <1>1, EvidenceCounted
<1>3. d = c
  BY <1>2, ClaimIdentity
<1> QED
  BY <1>2, <1>3

InGroup(cs, group) == {i \in DOMAIN cs : GroupOf(cs[i]) = group}

\* The evidence of a group is its claims, rearranged.
LEMMA EvidencePlaced ==
    ASSUME NEW cs \in Seq(Claim), NEW group
    PROVE  LET values == EvidenceFor(cs, group)
           IN  \E order \in Bijection(DOMAIN values, InGroup(cs, group)) :
                /\ IsFiniteSet(DOMAIN values)
                /\ \A j \in DOMAIN values : values[j] = Provenanced(cs[order[j]])
<1> DEFINE D == {j \in DOMAIN cs : GroupOf(cs[j]) = group}
           tie == [i \in D |-> ProvenancedRank(Provenanced(cs[i])) \o <<i>>]
           order == ListedBy(tie)
           N == Cardinality(D)
           values == EvidenceFor(cs, group)
<1>1. /\ IsFiniteSet(D) /\ tie \in [D -> [1..5 -> Int]]
      /\ \A i, j \in D : tie[i] = tie[j] => i = j
  BY EvidenceTied
<1>2. values = [k \in DOMAIN order |-> Provenanced(cs[order[k]])] /\ D = InGroup(cs, group)
  BY DEF EvidenceFor, InGroup
<1> HIDE DEF D, tie, values
<1>3. Ranked(tie, 5) /\ DOMAIN tie = D
  BY <1>1 DEF Ranked
<1>4. /\ N \in Nat /\ order \in [1..N -> D]
      /\ \A x \in D : \E k \in 1..N : order[k] = x
      /\ \A k, m \in 1..N : order[k] = order[m] => k = m
  BY <1>3, ListedInOrder
<1> HIDE DEF order, N
<1>5. order \in Bijection(1..N, D)
  BY <1>4 DEF Bijection, Injection, Surjection, IsInjective
<1>6. DOMAIN values = 1..N /\ \A j \in 1..N : values[j] = Provenanced(cs[order[j]])
  BY <1>2, <1>4
<1>7. IsFiniteSet(1..N)
  BY <1>4, FS_Interval
<1> QED
  BY <1>2, <1>5, <1>6, <1>7 DEF values

\* The places of a list, among some of them, that have a value.
PlacesWith(list, places, v) == {i \in places : list[i].value = v}

\* How often a group has a value, whatever the source.
LEMMA ValuesCounted ==
    ASSUME NEW cs \in Seq(Claim), NEW group, NEW v
    PROVE  LET values == EvidenceFor(cs, group)
           IN  Cardinality(PlacesWith(values, DOMAIN values, v))
                   = Cardinality(PlacesWith(cs, InGroup(cs, group), v))
<1> DEFINE values == EvidenceFor(cs, group)
           A == PlacesWith(values, DOMAIN values, v)
           B == PlacesWith(cs, InGroup(cs, group), v)
<1>1. PICK order \in Bijection(DOMAIN values, InGroup(cs, group)) :
            /\ IsFiniteSet(DOMAIN values)
            /\ \A j \in DOMAIN values : values[j] = Provenanced(cs[order[j]])
  BY EvidencePlaced
<1> HIDE DEF values
<1>2. /\ order \in [DOMAIN values -> InGroup(cs, group)]
      /\ \A i \in InGroup(cs, group) : \E j \in DOMAIN values : order[j] = i
      /\ \A j, l \in DOMAIN values : order[j] = order[l] => j = l
  BY <1>1 DEF Bijection, Injection, Surjection, IsInjective
<1>3. \A j \in DOMAIN values : values[j].value = cs[order[j]].value
  BY <1>1 DEF Provenanced
<1> DEFINE f == [j \in A |-> order[j]]
<1>4. /\ f \in [A -> B]
      /\ \A i \in B : \E j \in A : f[j] = i
      /\ \A j, l \in A : f[j] = f[l] => j = l
  BY <1>2, <1>3 DEF PlacesWith
<1>5. IsFiniteSet(A)
  BY <1>1, FS_Subset DEF PlacesWith
<1> HIDE DEF f, A, B
<1>6. f \in Bijection(A, B)
  BY <1>4 DEF Bijection, Injection, Surjection, IsInjective
<1>7. Cardinality(A) = Cardinality(B)
  BY <1>5, <1>6, FS_Bijection DEF ExistsBijection
<1> QED
  BY <1>7 DEF A, B, values

\* An entry shows the evidence of its group, and its grade is that of the claims.
LEMMA EvidenceOfEntry ==
    ASSUME NEW cs \in Seq(Claim), NEW hs, IsReportOf(cs, hs), NEW k \in 1..Len(hs)
    PROVE  hs[k].values = EvidenceFor(cs, GroupOf(hs[k]))
<1>1. /\ GroupOf(hs[k]) \in Group /\ hs[k].values \in Seq(ProvenancedValue)
      /\ InOrder(hs[k].values) /\ HoldsUpTo(cs, Len(cs), hs[k].values, GroupOf(hs[k]))
  BY ReportEntries DEF IsReportOf
<1>2. SameClaims(cs, cs)
  BY DEF SameClaims
<1> DEFINE b == EvidenceFor(cs, GroupOf(hs[k]))
<1>3. b \in Seq(ProvenancedValue) /\ InOrder(b) /\ HoldsUpTo(cs, Len(cs), b, GroupOf(hs[k]))
  BY <1>1, EvidenceHeld
<1> HIDE DEF b
<1>4. hs[k].values = b
  BY <1>1, <1>2, <1>3, EvidenceUnique
<1> QED
  BY <1>4 DEF b

LEMMA GradeOfGroup ==
    ASSUME NEW cs \in Seq(Claim), NEW hs, IsReportOf(cs, hs), NEW k \in 1..Len(hs)
    PROVE  hs[k].consistency = Grade(Restrict(cs, InGroup(cs, GroupOf(hs[k]))))
<1> DEFINE values == hs[k].values
           own == InGroup(cs, GroupOf(hs[k]))
           list == Restrict(cs, own)
<1>1. values = EvidenceFor(cs, GroupOf(hs[k])) /\ hs[k].consistency = Grade(values)
  BY ReportEntries, EvidenceOfEntry DEF IsReportOf
<1>2. PICK order \in Bijection(DOMAIN values, own) :
            \A j \in DOMAIN values : values[j] = Provenanced(cs[order[j]])
  BY <1>1, EvidencePlaced
<1> HIDE DEF values, own
<1>3. /\ order \in [DOMAIN values -> own]
      /\ \A i \in own : \E j \in DOMAIN values : order[j] = i
  BY <1>2 DEF Bijection, Injection, Surjection
<1>4. \A j \in DOMAIN values : /\ values[j].value = cs[order[j]].value
                               /\ values[j].source = cs[order[j]].source
  BY <1>2 DEF Provenanced
<1>5. DOMAIN list = own /\ \A i \in own : list[i] = cs[i]
  BY DEF Restrict
<1> HIDE DEF list
<1>6. ReportedValues(values) = ReportedValues(list)
  BY <1>3, <1>4, <1>5 DEF ReportedValues, ToSet
<1>7. ContainersOf(values) = ContainersOf(list)
  BY <1>3, <1>4, <1>5 DEF ContainersOf, ToSet
<1>8. Grade(values) = Grade(list)
  BY <1>6, <1>7 DEF Grade
<1> QED
  BY <1>1, <1>8 DEF list, own

-----------------------------------------------------------------------------
\* The partial results of FlattenSeq: what it makes of the first k lists.
Flattens(flat, seqs, k) ==
    flat = [i \in 1..k |-> IF i = 1 THEN seqs[i] ELSE flat[i - 1] \o seqs[i]]

LEMMA FlattenExists ==
    ASSUME NEW seqs, NEW n \in Nat
    PROVE  \E flat : Flattens(flat, seqs, n)
<1> DEFINE T == {k \in Nat : ~ \E flat : Flattens(flat, seqs, k)}
<1>1. CASE T = {}
  BY <1>1
<1>2. CASE T # {}
  <2>1. T \in SUBSET Nat
    OBVIOUS
  <2>2. \A k \in Nat : k \in T <=> ~ \E flat : Flattens(flat, seqs, k)
    OBVIOUS
  <2> HIDE DEF T
  <2>3. PICK k \in T : \A l \in T : k <= l
    BY <1>2, <2>1, LeastExists
  <2>4. k \in Nat
    BY <2>1
  <2>5. CASE k = 0
    <3>1. Flattens([i \in 1..0 |-> 0], seqs, 0)
      BY DEF Flattens
    <3> QED
      BY <2>2, <2>4, <2>5, <3>1
  <2>6. CASE k # 0
    <3>1. k - 1 \in Nat /\ k - 1 \notin T
      BY <2>3, <2>4, <2>6
    <3>2. PICK g : Flattens(g, seqs, k - 1)
      BY <2>2, <3>1
    <3> DEFINE h == [i \in 1..k |-> IF i = 1 THEN seqs[i] ELSE g[i - 1] \o seqs[i]]
    <3>3. \A i \in 1..(k - 1) : g[i] = IF i = 1 THEN seqs[i] ELSE g[i - 1] \o seqs[i]
      BY <3>2 DEF Flattens
    <3>4. \A i \in 1..k : h[i] = IF i = 1 THEN seqs[i] ELSE g[i - 1] \o seqs[i]
      OBVIOUS
    <3>5. DOMAIN h = 1..k
      OBVIOUS
    <3>6. h = [i \in 1..k |-> h[i]]
      OBVIOUS
    <3> HIDE DEF h
    <3>7. ASSUME NEW i \in 1..k
          PROVE  h[i] = IF i = 1 THEN seqs[i] ELSE h[i - 1] \o seqs[i]
      <4>1. CASE i = 1
        BY <3>4, <4>1
      <4>2. CASE i # 1
        <5>1. i - 1 \in 1..k /\ i - 1 \in 1..(k - 1)
          BY <2>4, <4>2
        <5>2. h[i - 1] = g[i - 1]
          BY <3>3, <3>4, <5>1
        <5> QED
          BY <3>4, <4>2, <5>2
      <4> QED
        BY <4>1, <4>2
    <3>8. Flattens(h, seqs, k)
      BY <3>6, <3>7 DEF Flattens
    <3> QED
      BY <2>2, <2>4, <3>8, <2>3
  <2> QED
    BY <2>5, <2>6
<1> QED
  BY <1>1, <1>2

\* The members of a list put together are those of the one and of the other.
LEMMA JoinedMembers ==
    ASSUME NEW S, NEW s \in Seq(S), NEW t \in Seq(S)
    PROVE  s \o t \in Seq(S) /\ ToSet(s \o t) = ToSet(s) \cup ToSet(t)
<1>1. /\ s \o t \in Seq(S) /\ Len(s) \in Nat /\ Len(t) \in Nat
      /\ DOMAIN s = 1..Len(s) /\ DOMAIN t = 1..Len(t)
      /\ DOMAIN (s \o t) = 1..(Len(s) + Len(t))
      /\ \A i \in 1..Len(s) : (s \o t)[i] = s[i]
  OBVIOUS
<1>2. ASSUME NEW i \in 1..Len(t) PROVE (s \o t)[Len(s) + i] = t[i]
  <2>1. Len(s) + i \in 1..(Len(s) + Len(t)) /\ ~ (Len(s) + i <= Len(s)) /\ Len(s) + i - Len(s) = i
    BY <1>1
  <2> QED
    BY <1>1, <2>1
<1>3. ASSUME NEW i \in 1..(Len(s) + Len(t))
      PROVE  (s \o t)[i] \in ToSet(s) \cup ToSet(t)
  <2>1. CASE i <= Len(s)
    BY <1>1, <2>1 DEF ToSet
  <2>2. CASE i > Len(s)
    <3>1. i - Len(s) \in 1..Len(t) /\ Len(s) + (i - Len(s)) = i
      BY <1>1, <2>2
    <3>2. (s \o t)[i] = t[i - Len(s)]
      BY <1>2, <3>1
    <3> QED
      BY <1>1, <3>1, <3>2 DEF ToSet
  <2> QED
    BY <1>1, <2>1, <2>2
<1>4. \A i \in 1..Len(t) : Len(s) + i \in 1..(Len(s) + Len(t))
  BY <1>1
<1>5. \A i \in 1..Len(s) : i \in 1..(Len(s) + Len(t))
  BY <1>1
<1>6. ToSet(s \o t) \in SUBSET (ToSet(s) \cup ToSet(t))
  BY <1>1, <1>3 DEF ToSet
<1>7. ASSUME NEW x \in ToSet(s) PROVE x \in ToSet(s \o t)
  BY <1>1, <1>5 DEF ToSet
<1>8. ASSUME NEW x \in ToSet(t) PROVE x \in ToSet(s \o t)
  BY <1>1, <1>2, <1>4 DEF ToSet
<1> QED
  BY <1>1, <1>6, <1>7, <1>8

(***************************************************************************)
(* FlattenSeq has the members of the lists it is given, and no others.     *)
(***************************************************************************)
LEMMA FlattenMembers ==
    ASSUME NEW S, NEW seqs \in Seq(Seq(S))
    PROVE  /\ FlattenSeq(seqs) \in Seq(S)
           /\ \A x : x \in ToSet(FlattenSeq(seqs)) <=>
                     \E i \in 1..Len(seqs) : x \in ToSet(seqs[i])
<1> DEFINE n == Len(seqs)
<1>1. n \in Nat /\ \A i \in 1..n : seqs[i] \in Seq(S)
  OBVIOUS
<1>2. CASE n = 0
  <2>1. FlattenSeq(seqs) = seqs
    BY <1>2 DEF FlattenSeq
  <2>2. seqs = <<>>
    BY <1>2
  <2>3. ToSet(seqs) = {}
    BY <2>2 DEF ToSet
  <2> QED
    BY <1>2, <2>1, <2>2, <2>3
<1>3. CASE n # 0
  <2>1. \E flat : Flattens(flat, seqs, n) /\ FlattenSeq(seqs) = flat[n]
    <3> DEFINE flat == CHOOSE flat : Flattens(flat, seqs, n)
    <3>1. Flattens(flat, seqs, n)
      BY <1>1, FlattenExists
    <3>2. FlattenSeq(seqs) = flat[n]
      BY <1>3 DEF FlattenSeq, Flattens
    <3> QED
      BY <3>1, <3>2
  <2>2. PICK flat : Flattens(flat, seqs, n) /\ FlattenSeq(seqs) = flat[n]
    BY <2>1
  <2>3. \A i \in 1..n : flat[i] = IF i = 1 THEN seqs[i] ELSE flat[i - 1] \o seqs[i]
    BY <2>2 DEF Flattens
  <2> DEFINE Right(k) == /\ flat[k] \in Seq(S)
                         /\ \A x : x \in ToSet(flat[k]) <=> \E i \in 1..k : x \in ToSet(seqs[i])
             T == {k \in 1..n : ~ Right(k)}
  <2>4. CASE T = {}
    <3>1. n \in 1..n
      BY <1>1, <1>3
    <3>2. Right(n)
      BY <2>4, <3>1
    <3> QED
      BY <2>2, <3>2
  <2>5. CASE T # {}
    <3>1. T \in SUBSET Nat
      OBVIOUS
    <3>2. \A k \in 1..n : k \in T <=> ~ Right(k)
      OBVIOUS
    <3>3. T \in SUBSET (1..n)
      OBVIOUS
    <3> HIDE DEF T, Right
    <3>4. PICK k \in T : \A l \in T : k <= l
      BY <2>5, <3>1, LeastExists
    <3>5. k \in 1..n /\ ~ Right(k)
      BY <3>2, <3>3
    <3>6. CASE k = 1
      <4>1. flat[1] = seqs[1] /\ seqs[1] \in Seq(S)
        BY <1>1, <2>3, <3>5, <3>6
      <4>2. \A i \in 1..1 : i = 1
        OBVIOUS
      <4>3. Right(1)
        BY <4>1, <4>2 DEF Right
      <4> QED
        BY <3>5, <3>6, <4>3
    <3>7. CASE k # 1
      <4>1. k - 1 \in 1..n /\ k - 1 \notin T
        BY <1>1, <3>4, <3>5, <3>7
      <4>2. Right(k - 1)
        BY <3>2, <4>1
      <4>3. flat[k - 1] \in Seq(S) /\ seqs[k] \in Seq(S) /\ flat[k] = flat[k - 1] \o seqs[k]
        BY <1>1, <2>3, <3>5, <3>7, <4>2 DEF Right
      <4>4. flat[k] \in Seq(S) /\ ToSet(flat[k]) = ToSet(flat[k - 1]) \cup ToSet(seqs[k])
        BY <4>3, JoinedMembers
      <4>5. \A i : i \in 1..k <=> i \in 1..(k - 1) \/ i = k
        BY <1>1, <3>5
      <4>6. \A x : x \in ToSet(flat[k - 1]) <=> \E i \in 1..(k - 1) : x \in ToSet(seqs[i])
        BY <4>2 DEF Right
      <4>7. Right(k)
        BY <4>4, <4>5, <4>6 DEF Right
      <4> QED
        BY <3>5, <4>7
    <3> QED
      BY <3>6, <3>7
  <2> QED
    BY <2>4, <2>5
<1> QED
  BY <1>2, <1>3

\* In a list put together an element is as often as in the two parts.
LEMMA JoinedCounts ==
    ASSUME NEW S, NEW s \in Seq(S), NEW t \in Seq(S), NEW x
    PROVE  /\ Cardinality(Occurrences(s \o t, x)) \in Nat
           /\ Cardinality(Occurrences(s \o t, x))
                  = Cardinality(Occurrences(s, x)) + Cardinality(Occurrences(t, x))
<1> DEFINE A == Occurrences(s, x)
           B == Occurrences(t, x)
           C == {Len(s) + i : i \in B}
           shift == [i \in B |-> Len(s) + i]
<1>1. /\ s \o t \in Seq(S) /\ Len(s) \in Nat /\ Len(t) \in Nat
      /\ DOMAIN s = 1..Len(s) /\ DOMAIN t = 1..Len(t)
      /\ DOMAIN (s \o t) = 1..(Len(s) + Len(t))
      /\ \A i \in 1..Len(s) : (s \o t)[i] = s[i]
  OBVIOUS
<1>2. ASSUME NEW i \in 1..Len(t) PROVE (s \o t)[Len(s) + i] = t[i]
  <2>1. Len(s) + i \in 1..(Len(s) + Len(t)) /\ ~ (Len(s) + i <= Len(s)) /\ Len(s) + i - Len(s) = i
    BY <1>1
  <2> QED
    BY <1>1, <2>1
<1>3. /\ A \in SUBSET (1..Len(s)) /\ \A i \in 1..Len(s) : i \in A <=> s[i] = x
      /\ B \in SUBSET (1..Len(t)) /\ \A i \in 1..Len(t) : i \in B <=> t[i] = x
  BY <1>1 DEF Occurrences
<1>4. \A i : i \in C <=> \E j \in B : i = Len(s) + j
  OBVIOUS
<1> HIDE DEF A, B, C
<1>5. IsFiniteSet(A) /\ IsFiniteSet(B) /\ Cardinality(A) \in Nat /\ Cardinality(B) \in Nat
  BY <1>1, <1>3, PlacesFinite
<1>6. shift \in Bijection(B, C)
  <2>1. shift \in [B -> C]
    BY <1>4
  <2>2. \A j, l \in B : shift[j] = shift[l] => j = l
    BY <1>1, <1>3
  <2>3. \A i \in C : \E j \in B : shift[j] = i
    BY <1>4
  <2> HIDE DEF shift
  <2> QED
    BY <2>1, <2>2, <2>3 DEF Bijection, Injection, Surjection, IsInjective
<1>7. IsFiniteSet(C) /\ Cardinality(B) = Cardinality(C)
  <2> HIDE DEF shift
  <2> QED
    BY <1>5, <1>6, FS_Bijection DEF ExistsBijection
<1>8. ASSUME NEW i \in A, i \in C PROVE FALSE
  <2>1. PICK j \in B : i = Len(s) + j
    BY <1>4, <1>8
  <2>2. i \in 1..Len(s) /\ j \in 1..Len(t)
    BY <1>3
  <2> QED
    BY <1>1, <2>1, <2>2
<1>9. Occurrences(s \o t, x) = A \cup C
  <2>1. ASSUME NEW i \in Occurrences(s \o t, x) PROVE i \in A \cup C
    <3>1. i \in 1..(Len(s) + Len(t)) /\ (s \o t)[i] = x
      BY <1>1 DEF Occurrences
    <3>2. CASE i <= Len(s)
      BY <1>1, <1>3, <3>1, <3>2
    <3>3. CASE i > Len(s)
      <4>1. i - Len(s) \in 1..Len(t) /\ Len(s) + (i - Len(s)) = i
        BY <1>1, <3>1, <3>3
      <4>2. t[i - Len(s)] = x
        BY <1>2, <3>1, <4>1
      <4> QED
        BY <1>3, <1>4, <4>1, <4>2
    <3> QED
      BY <1>1, <3>1, <3>2, <3>3
  <2>2. ASSUME NEW i \in A PROVE i \in Occurrences(s \o t, x)
    <3>1. i \in 1..Len(s) /\ i \in 1..(Len(s) + Len(t)) /\ s[i] = x
      BY <1>1, <1>3
    <3> QED
      BY <1>1, <3>1 DEF Occurrences
  <2>3. ASSUME NEW i \in C PROVE i \in Occurrences(s \o t, x)
    <3>1. PICK j \in B : i = Len(s) + j
      BY <1>4
    <3>2. j \in 1..Len(t) /\ t[j] = x /\ i \in 1..(Len(s) + Len(t))
      BY <1>1, <1>3, <3>1
    <3> QED
      BY <1>1, <1>2, <3>1, <3>2 DEF Occurrences
  <2> QED
    BY <2>1, <2>2, <2>3
<1>10. A \cap C = {}
  BY <1>8
<1>11. /\ IsFiniteSet(A \cup C) /\ Cardinality({}) = 0
       /\ Cardinality(A \cup C) = Cardinality(A) + Cardinality(C) - Cardinality(A \cap C)
  BY <1>5, <1>7, FS_Union, FS_EmptySet
<1> HIDE DEF shift
<1>12. Cardinality(A \cap C) = 0
  BY ONLY <1>10, <1>11
<1>13. /\ Cardinality(A \cup C) = Cardinality(A) + Cardinality(B)
       /\ Cardinality(A) + Cardinality(B) \in Nat
  BY ONLY <1>5, <1>7, <1>11, <1>12
<1> QED
  BY <1>9, <1>13 DEF A, B

(***************************************************************************)
(* An element that only one of the lists has is as often in FlattenSeq as  *)
(* in that list.                                                           *)
(***************************************************************************)
LEMMA FlattenCounts ==
    ASSUME NEW S, NEW seqs \in Seq(Seq(S)), NEW m \in 1..Len(seqs), NEW x,
           \A i \in 1..Len(seqs) : x \in ToSet(seqs[i]) => i = m
    PROVE  Cardinality(Occurrences(FlattenSeq(seqs), x)) = Cardinality(Occurrences(seqs[m], x))
<1> DEFINE n == Len(seqs)
<1>1. n \in Nat /\ \A i \in 1..n : seqs[i] \in Seq(S)
  OBVIOUS
<1>2. m \in 1..n /\ n # 0
  OBVIOUS
<1>3. \E flat : Flattens(flat, seqs, n) /\ FlattenSeq(seqs) = flat[n]
  <2> DEFINE flat == CHOOSE flat : Flattens(flat, seqs, n)
  <2>1. Flattens(flat, seqs, n)
    BY <1>1, FlattenExists
  <2>2. FlattenSeq(seqs) = flat[n]
    BY <1>2 DEF FlattenSeq, Flattens
  <2> QED
    BY <2>1, <2>2
<1>4. PICK flat : Flattens(flat, seqs, n) /\ FlattenSeq(seqs) = flat[n]
  BY <1>3
<1>5. \A i \in 1..n : flat[i] = IF i = 1 THEN seqs[i] ELSE flat[i - 1] \o seqs[i]
  BY <1>4 DEF Flattens
<1> HIDE DEF n
<1> DEFINE Count(list) == Cardinality(Occurrences(list, x))
           Right(k) == flat[k] \in Seq(S) /\ Count(flat[k]) = IF k < m THEN 0 ELSE Count(seqs[m])
           T == {k \in 1..n : ~ Right(k)}
<1>6. ASSUME NEW i \in 1..n, i # m PROVE Count(seqs[i]) = 0
  <2>1. x \notin ToSet(seqs[i])
    BY <1>6 DEF n
  <2>2. Occurrences(seqs[i], x) = {}
    BY <2>1 DEF Occurrences, ToSet
  <2> QED
    BY <2>2, FS_EmptySet
<1>7. ASSUME NEW i \in 1..n PROVE Count(seqs[i]) \in Nat
  <2>1. seqs[i] \in Seq(S)
    BY <1>1
  <2>2. Len(seqs[i]) \in Nat /\ Occurrences(seqs[i], x) \in SUBSET (1..Len(seqs[i]))
    BY <2>1 DEF Occurrences
  <2> QED
    BY <2>2, PlacesFinite
<1>8. ASSUME NEW s \in Seq(S), NEW t \in Seq(S)
      PROVE  s \o t \in Seq(S) /\ Count(s \o t) = Count(s) + Count(t)
  BY JoinedCounts
<1>9. CASE T = {}
  <2>1. Right(n) /\ ~ (n < m)
    BY <1>1, <1>2, <1>9
  <2> QED
    BY <1>4, <2>1
<1>10. CASE T # {}
  <2>1. T \in SUBSET Nat /\ T \in SUBSET (1..n)
    OBVIOUS
  <2>2. \A k \in 1..n : k \in T <=> ~ Right(k)
    OBVIOUS
  <2> HIDE DEF T, Right
  <2>3. PICK k \in T : \A l \in T : k <= l
    BY <1>10, <2>1, LeastExists
  <2>4. k \in 1..n /\ ~ Right(k)
    BY <2>1, <2>2
  <2> HIDE DEF Count
  <2>5. CASE k = 1
    <3>1. flat[1] = seqs[1] /\ seqs[1] \in Seq(S) /\ 1 \in 1..n
      BY <1>1, <1>5, <2>4, <2>5
    <3>2. CASE m = 1
      BY <2>4, <2>5, <3>1, <3>2 DEF Right
    <3>3. CASE m # 1
      <4>1. Count(seqs[1]) = 0 /\ 1 < m
        BY <1>1, <1>2, <1>6, <3>1, <3>3
      <4> QED
        BY <2>4, <2>5, <3>1, <4>1 DEF Right
    <3> QED
      BY <3>2, <3>3
  <2>6. CASE k # 1
    <3>1. k - 1 \in 1..n /\ k - 1 \notin T
      BY <1>1, <2>3, <2>4, <2>6
    <3>2. /\ flat[k - 1] \in Seq(S)
          /\ Count(flat[k - 1]) = IF k - 1 < m THEN 0 ELSE Count(seqs[m])
      BY <2>2, <3>1 DEF Right
    <3>3. flat[k - 1] \in Seq(S) /\ seqs[k] \in Seq(S) /\ flat[k] = flat[k - 1] \o seqs[k]
      BY <1>1, <1>5, <2>4, <2>6, <3>2
    <3>4. flat[k] \in Seq(S) /\ Count(flat[k]) = Count(flat[k - 1]) + Count(seqs[k])
      BY <1>8, <3>3
    <3>5. CASE k < m
      <4>1. k - 1 < m /\ Count(seqs[k]) = 0
        BY <1>1, <1>2, <1>6, <2>4, <3>5
      <4>2. Right(k)
        BY <3>2, <3>4, <3>5, <4>1 DEF Right
      <4> QED
        BY <2>4, <4>2
    <3>6. CASE k = m
      <4>1. k - 1 < m /\ ~ (k < m) /\ Count(seqs[m]) \in Nat
        BY <1>1, <1>2, <1>7, <3>6
      <4>2. Right(k)
        BY <3>2, <3>4, <3>6, <4>1 DEF Right
      <4> QED
        BY <2>4, <4>2
    <3>7. CASE k > m
      <4>1. ~ (k - 1 < m) /\ ~ (k < m) /\ Count(seqs[m]) \in Nat /\ Count(seqs[k]) = 0
        BY <1>1, <1>2, <1>6, <1>7, <2>4, <3>7
      <4>2. Right(k)
        BY <3>2, <3>4, <4>1 DEF Right
      <4> QED
        BY <2>4, <4>2
    <3> QED
      BY <1>1, <1>2, <2>4, <3>5, <3>6, <3>7
  <2> QED
    BY <2>5, <2>6
<1> QED
  BY <1>9, <1>10

-----------------------------------------------------------------------------
\* The partial results of AsSeq: the lists of the sets D.
ListsOf(list, D) ==
    list = [s \in D |-> IF s = {} THEN <<>>
                        ELSE Append(list[s \ {CHOOSE x \in s : TRUE}], CHOOSE x \in s : TRUE)]

SmallParts(S, k) == {s \in SUBSET S : Cardinality(s) <= k}

LEMMA AsSeqExists ==
    ASSUME NEW S, IsFiniteSet(S), NEW n \in Nat
    PROVE  \E list : ListsOf(list, SmallParts(S, n))
<1> DEFINE T == {k \in Nat : ~ \E list : ListsOf(list, SmallParts(S, k))}
<1>0. ASSUME NEW s \in SUBSET S, s # {}
      PROVE  /\ s \ {CHOOSE x \in s : TRUE} \in SUBSET S
             /\ Cardinality(s) \in Nat /\ Cardinality(s) # 0
             /\ Cardinality(s \ {CHOOSE x \in s : TRUE}) = Cardinality(s) - 1
  <2>1. IsFiniteSet(s)
    BY FS_Subset
  <2>2. (CHOOSE x \in s : TRUE) \in s
    BY <1>0
  <2> QED
    BY <1>0, <2>1, <2>2, FS_RemoveElement, FS_CardinalityType, FS_EmptySet
<1>1. CASE T = {}
  BY <1>1
<1>2. CASE T # {}
  <2>1. T \in SUBSET Nat
    OBVIOUS
  <2>2. \A k \in Nat : k \in T <=> ~ \E list : ListsOf(list, SmallParts(S, k))
    OBVIOUS
  <2> HIDE DEF T
  <2>3. PICK k \in T : \A l \in T : k <= l
    BY <1>2, <2>1, LeastExists
  <2>4. k \in Nat
    BY <2>1
  <2>5. CASE k = 0
    <3>1. \A s \in SmallParts(S, 0) : s = {}
      <4> SUFFICES ASSUME NEW s \in SmallParts(S, 0) PROVE s = {}
        OBVIOUS
      <4>1. IsFiniteSet(s) /\ Cardinality(s) <= 0
        BY FS_Subset DEF SmallParts
      <4> QED
        BY <4>1, FS_CardinalityType, FS_EmptySet
    <3> DEFINE h == [s \in SmallParts(S, 0) |-> <<>>]
    <3>2. ListsOf(h, SmallParts(S, 0))
      BY <3>1 DEF ListsOf
    <3> QED
      BY <2>2, <2>3, <2>4, <2>5, <3>2
  <2>6. CASE k # 0
    <3>1. k - 1 \in Nat /\ k - 1 \notin T
      BY <2>3, <2>4, <2>6
    <3>2. PICK g : ListsOf(g, SmallParts(S, k - 1))
      BY <2>2, <3>1
    <3> DEFINE one(s) == CHOOSE x \in s : TRUE
               D == SmallParts(S, k)
               C == SmallParts(S, k - 1)
               h == [s \in D |-> IF s = {} THEN <<>> ELSE Append(g[s \ {one(s)}], one(s))]
    <3>3. \A s \in C : g[s] = IF s = {} THEN <<>> ELSE Append(g[s \ {one(s)}], one(s))
      BY <3>2 DEF ListsOf
    <3>4. \A s \in D : h[s] = IF s = {} THEN <<>> ELSE Append(g[s \ {one(s)}], one(s))
      OBVIOUS
    <3>5. h = [s \in D |-> h[s]]
      OBVIOUS
    <3>6. ASSUME NEW s \in D, s # {} PROVE s \ {one(s)} \in C /\ s \ {one(s)} \in D
      BY <1>0, <2>4, <3>6 DEF SmallParts
    <3> HIDE DEF h, D, C, one
    <3>7. \A s \in D : h[s] = IF s = {} THEN <<>> ELSE Append(h[s \ {one(s)}], one(s))
      BY <3>3, <3>4, <3>6
    <3>8. ListsOf(h, D)
      BY <3>5, <3>7 DEF ListsOf, one
    <3> QED
      BY <2>2, <2>3, <2>4, <3>8 DEF D
  <2> QED
    BY <2>5, <2>6
<1> QED
  BY <1>1, <1>2

(***************************************************************************)
(* AsSeq lists the members of a finite set.                                *)
(***************************************************************************)
LEMMA AsSeqMembers ==
    ASSUME NEW S, IsFiniteSet(S)
    PROVE  AsSeq(S) \in Seq(S) /\ ToSet(AsSeq(S)) = S
<1> DEFINE one(s) == CHOOSE x \in s : TRUE
<1>1. Cardinality(S) \in Nat
  BY FS_CardinalityType
<1>2. SmallParts(S, Cardinality(S)) = SUBSET S
  BY FS_Subset DEF SmallParts
<1>3. \E list : ListsOf(list, SUBSET S) /\ AsSeq(S) = list[S]
  <2> DEFINE list == CHOOSE list : ListsOf(list, SUBSET S)
  <2>1. ListsOf(list, SUBSET S)
    <3>1. \E l : ListsOf(l, SmallParts(S, Cardinality(S)))
      BY <1>1, AsSeqExists
    <3>2. \E l : ListsOf(l, SUBSET S)
      BY <1>2, <3>1
    <3> QED
      BY <3>2
  <2>2. AsSeq(S) = list[S]
    BY DEF AsSeq, FoldSet, MapThenFoldSet, ListsOf
  <2> QED
    BY <2>1, <2>2
<1>4. PICK list : ListsOf(list, SUBSET S) /\ AsSeq(S) = list[S]
  BY <1>3
<1>5. \A s \in SUBSET S : list[s] = IF s = {} THEN <<>> ELSE Append(list[s \ {one(s)}], one(s))
  BY <1>4 DEF ListsOf
<1> DEFINE Right(s) == list[s] \in Seq(S) /\ ToSet(list[s]) = s
           T == {k \in Nat : \E s \in SUBSET S : Cardinality(s) = k /\ ~ Right(s)}
<1>6. CASE T = {}
  <2>1. ASSUME NEW s \in SUBSET S PROVE Right(s)
    <3>1. Cardinality(s) \in Nat
      BY FS_Subset, FS_CardinalityType
    <3> QED
      BY <1>6, <3>1
  <2> QED
    BY <1>4, <2>1
<1>7. CASE T # {}
  <2>1. T \in SUBSET Nat
    OBVIOUS
  <2>2. \A k \in Nat : k \in T <=> \E s \in SUBSET S : Cardinality(s) = k /\ ~ Right(s)
    OBVIOUS
  <2> HIDE DEF T, Right
  <2>3. PICK k \in T : \A l \in T : k <= l
    BY <1>7, <2>1, LeastExists
  <2>4. PICK s \in SUBSET S : Cardinality(s) = k /\ ~ Right(s)
    BY <2>1, <2>2
  <2>5. CASE s = {}
    <3>1. list[s] = <<>>
      BY <1>5, <2>5
    <3>2. ToSet(<<>>) = {} /\ <<>> \in Seq(S)
      BY DEF ToSet
    <3> QED
      BY <2>4, <2>5, <3>1, <3>2 DEF Right
  <2>6. CASE s # {}
    <3> DEFINE x == one(s)
               t == s \ {x}
    <3>1. x \in s
      BY <2>6
    <3>2. list[s] = Append(list[t], x)
      BY <1>5, <2>6
    <3>3. t \in SUBSET S /\ x \in S /\ s = t \cup {x}
      BY <3>1
    <3>4. Cardinality(t) \in Nat /\ Cardinality(t) < k
      <4>1. IsFiniteSet(s)
        BY FS_Subset
      <4>2. Cardinality(t) = Cardinality(s) - 1 /\ IsFiniteSet(t)
        BY <3>1, <4>1, FS_RemoveElement
      <4>3. Cardinality(t) \in Nat /\ Cardinality(s) \in Nat
        BY <4>1, <4>2, FS_CardinalityType
      <4> HIDE DEF t
      <4> QED
        BY <2>4, <4>2, <4>3
    <3> HIDE DEF x, t
    <3>5. Right(t)
      BY <2>1, <2>2, <2>3, <3>3, <3>4
    <3>6. /\ list[t] \in Seq(S) /\ ToSet(list[t]) = t /\ Len(list[t]) \in Nat
          /\ DOMAIN list[t] = 1..Len(list[t])
      BY <3>5 DEF Right
    <3>7. /\ list[s] \in Seq(S) /\ DOMAIN list[s] = 1..(Len(list[t]) + 1)
          /\ \A i \in 1..Len(list[t]) : list[s][i] = list[t][i]
          /\ list[s][Len(list[t]) + 1] = x
      BY <3>2, <3>3, <3>6
    <3>8. \A i : i \in 1..(Len(list[t]) + 1) <=> i \in 1..Len(list[t]) \/ i = Len(list[t]) + 1
      BY <3>6
    <3>9. ToSet(list[s]) = t \cup {x}
      BY <3>6, <3>7, <3>8 DEF ToSet
    <3> QED
      BY <2>4, <3>3, <3>7, <3>9 DEF Right
  <2> QED
    BY <2>5, <2>6
<1> QED
  BY <1>6, <1>7

-----------------------------------------------------------------------------
\* A finite set of numbers that has a member has a greatest one.
LEMMA GreatestExists ==
    ASSUME NEW S \in SUBSET Int, IsFiniteSet(S), S # {}
    PROVE  /\ Max(S) \in S /\ \A x \in S : x <= Max(S)
           /\ Min(S) \in S /\ \A x \in S : Min(S) <= x
<1> DEFINE rank == [x \in S |-> <<x>>]
           N == Cardinality(S)
           list == ListedBy(rank)
<1>1. Ranked(rank, 1) /\ DOMAIN rank = S
  <2>1. \A x \in S : rank[x] \in [1..1 -> Int] /\ rank[x][1] = x
    OBVIOUS
  <2>2. \A x, y \in S : rank[x] = rank[y] => x = y
    BY <2>1
  <2>3. DOMAIN rank = S /\ 1 \in Nat
    OBVIOUS
  <2> HIDE DEF rank
  <2> QED
    BY <2>1, <2>2, <2>3 DEF Ranked
<1>2. \A x, y \in S : Before(rank[x], rank[y]) => x < y
  BY DEF Before
<1> HIDE DEF rank, N, list
<1>3. /\ N \in Nat /\ list \in [1..N -> S]
      /\ \A x \in S : \E k \in 1..N : list[k] = x
      /\ \A k, m \in 1..N : k < m => Before(rank[list[k]], rank[list[m]])
  BY <1>1, ListedInOrder DEF N, list
<1>4. \A k, m \in 1..N : k < m => list[k] < list[m]
  BY <1>2, <1>3
<1>5. N \in Nat /\ N # 0 /\ 1 \in 1..N /\ N \in 1..N
  <2>1. PICK x \in S : TRUE
    OBVIOUS
  <2>2. PICK k \in 1..N : list[k] = x
    BY <1>3
  <2>3. N \in Nat
    BY <1>3
  <2> QED
    BY ONLY <2>2, <2>3
<1>6. \A x \in S : list[1] <= x /\ x <= list[N]
  <2> SUFFICES ASSUME NEW x \in S PROVE list[1] <= x /\ x <= list[N]
    OBVIOUS
  <2>1. PICK k \in 1..N : list[k] = x
    BY <1>3
  <2>2. 1 \in 1..N /\ N \in 1..N /\ list[1] \in Int /\ list[N] \in Int /\ x \in Int
    <3>1. list[1] \in S /\ list[N] \in S
      BY <1>3, <1>5
    <3> QED
      BY <1>5, <3>1
  <2>3. (k = 1 \/ 1 < k) /\ (k = N \/ k < N)
    BY <1>3
  <2> QED
    BY <1>4, <2>1, <2>2, <2>3
<1>7. list[1] \in S /\ list[N] \in S
  BY <1>3, <1>5
<1>8. \A x \in S : list[N] >= x
  BY <1>6, <1>7
<1>9. Max(S) \in S /\ \A y \in S : Max(S) >= y
  BY <1>7, <1>8 DEF Max
<1>10. Min(S) \in S /\ \A y \in S : Min(S) <= y
  BY <1>6, <1>7 DEF Min
<1> QED
  BY <1>9, <1>10

-----------------------------------------------------------------------------
(***************************************************************************)
(* format_epoch is right for every number of seconds, before and after     *)
(* 1970 and without a bound.  The prover's arithmetic is linear: a         *)
(* quotient enters a proof as a number between two multiples (Quotients),  *)
(* and the counting itself is about such numbers: EraBounds and the next.  *)
(***************************************************************************)

LEMMA EraBounds ==
    ASSUME NEW doe \in Int, 0 <= doe, doe <= 146096, NEW a \in Int, NEW b \in Int, NEW e \in Int,
           NEW y \in Int, NEW y4 \in Int, NEW y100 \in Int,
           1460 * a <= doe, doe < 1460 * a + 1460,
           36524 * b <= doe, doe < 36524 * b + 36524,
           146096 * e <= doe, doe < 146096 * e + 146096,
           365 * y <= doe - a + b - e, doe - a + b - e < 365 * y + 365,
           4 * y4 <= y, y < 4 * y4 + 4,
           100 * y100 <= y, y < 100 * y100 + 100
    PROVE  /\ 0 <= y /\ y <= 399
           /\ 0 <= doe - (365 * y + y4 - y100)
           /\ doe - (365 * y + y4 - y100) <= 365
BY SMTT(60)

LEMMA LastDayOfFour ==
    ASSUME NEW doe \in Int, 0 <= doe, doe <= 146096, NEW a \in Int, NEW b \in Int, NEW e \in Int,
           NEW y \in Int, NEW y4 \in Int, NEW y100 \in Int,
           1460 * a <= doe, doe < 1460 * a + 1460,
           36524 * b <= doe, doe < 36524 * b + 36524,
           146096 * e <= doe, doe < 146096 * e + 146096,
           365 * y <= doe - a + b - e, doe - a + b - e < 365 * y + 365,
           4 * y4 <= y, y < 4 * y4 + 4,
           100 * y100 <= y, y < 100 * y100 + 100,
           doe = 365 * y + y4 - y100 + 365
    PROVE  y + 1 = 4 * y4 + 4
BY SMTT(60)

LEMMA LastDayOfHundred ==
    ASSUME NEW doe \in Int, 0 <= doe, doe <= 146096, NEW a \in Int, NEW b \in Int, NEW e \in Int,
           NEW y \in Int, NEW y4 \in Int, NEW y100 \in Int,
           1460 * a <= doe, doe < 1460 * a + 1460,
           36524 * b <= doe, doe < 36524 * b + 36524,
           146096 * e <= doe, doe < 146096 * e + 146096,
           365 * y <= doe - a + b - e, doe - a + b - e < 365 * y + 365,
           y + 1 = 4 * y4 + 4, y + 1 = 100 * y100 + 100,
           doe = 365 * y + y4 - y100 + 365
    PROVE  y = 399
BY SMTT(60)

LEMMA Quotients ==
    ASSUME NEW n \in Int
    PROVE  /\ n \div 1460 \in Int /\ 1460 * (n \div 1460) <= n /\ n < 1460 * (n \div 1460) + 1460
           /\ n \div 36524 \in Int /\ 36524 * (n \div 36524) <= n /\ n < 36524 * (n \div 36524) + 36524
           /\ n \div 146096 \in Int /\ 146096 * (n \div 146096) <= n /\ n < 146096 * (n \div 146096) + 146096
           /\ n \div 146097 \in Int /\ 146097 * (n \div 146097) <= n /\ n < 146097 * (n \div 146097) + 146097
BY SMT

LEMMA YearOfEraRight ==
    ASSUME NEW doe \in Int, 0 <= doe, doe <= 146096
    PROVE  /\ YearOfEra(doe) \in Int /\ 0 <= YearOfEra(doe) /\ YearOfEra(doe) <= 399
           /\ DayOfYear(doe, YearOfEra(doe)) \in Int
           /\ 0 <= DayOfYear(doe, YearOfEra(doe)) /\ DayOfYear(doe, YearOfEra(doe)) <= 365
           /\ DayOfYear(doe, YearOfEra(doe)) = 365 => IsLeap(YearOfEra(doe) + 1)
<1> SUFFICES ASSUME NEW y, y = YearOfEra(doe)
             PROVE  /\ y \in Int /\ 0 <= y /\ y <= 399
                    /\ DayOfYear(doe, y) \in Int /\ 0 <= DayOfYear(doe, y) /\ DayOfYear(doe, y) <= 365
                    /\ DayOfYear(doe, y) = 365 => IsLeap(y + 1)
    BY SMT
<1> DEFINE a == doe \div 1460
           b == doe \div 36524
           e == doe \div 146096
           y4 == y \div 4
           y100 == y \div 100
<1>1. /\ a \in Int /\ 1460 * a <= doe /\ doe < 1460 * a + 1460
      /\ b \in Int /\ 36524 * b <= doe /\ doe < 36524 * b + 36524
      /\ e \in Int /\ 146096 * e <= doe /\ doe < 146096 * e + 146096
    BY Quotients, SMT
<1>2. y \in Int /\ 365 * y <= doe - a + b - e /\ doe - a + b - e < 365 * y + 365
    <2> DEFINE n == doe - a + b - e
    <2>1. n \in Int BY <1>1, SMT
    <2>2. y = n \div 365 BY SMT DEF YearOfEra
    <2> HIDE DEF n
    <2>3. y \in Int /\ 365 * y <= n /\ n < 365 * y + 365 BY <2>1, <2>2, SMT
    <2> QED BY <2>3, SMT DEF n
<1> HIDE DEF a, b, e
<1>3. y4 \in Int /\ 4 * y4 <= y /\ y < 4 * y4 + 4 BY <1>2, SMT
<1>4. y100 \in Int /\ 100 * y100 <= y /\ y < 100 * y100 + 100 BY <1>2, SMT
<1>5. DayOfYear(doe, y) = doe - (365 * y + y4 - y100) BY SMT DEF DayOfYear
<1> HIDE DEF y4, y100
<1>6. /\ 0 <= y /\ y <= 399
      /\ 0 <= doe - (365 * y + y4 - y100)
      /\ doe - (365 * y + y4 - y100) <= 365
    BY <1>1, <1>2, <1>3, <1>4, EraBounds, SMT
<1>7. DayOfYear(doe, y) \in Int /\ 0 <= DayOfYear(doe, y) /\ DayOfYear(doe, y) <= 365
    BY <1>2, <1>3, <1>4, <1>5, <1>6, SMT
<1>8. ASSUME DayOfYear(doe, y) = 365 PROVE IsLeap(y + 1)
    <2>1. doe = 365 * y + y4 - y100 + 365 BY <1>2, <1>3, <1>4, <1>5, <1>8, SMT
    <2>2. y + 1 = 4 * y4 + 4
        BY <1>1, <1>2, <1>3, <1>4, <2>1, LastDayOfFour, SMT
    <2>3. (y + 1) % 4 = 0 BY <2>2, <1>3, SMT
    <2>4. ASSUME (y + 1) % 100 = 0 PROVE (y + 1) % 400 = 0
        <3>1. y + 1 = 100 * y100 + 100 BY <2>4, <1>2, <1>4, SMT
        <3>2. y = 399 BY <1>1, <1>2, <1>3, <1>4, <2>1, <2>2, <3>1, LastDayOfHundred, SMT
        <3> QED BY <3>2, SMT
    <2> QED BY <2>3, <2>4, SMT DEF IsLeap
<1> QED BY <1>2, <1>6, <1>7, <1>8, SMT

\* A year lasts 365 days, or 366 when it is a leap year.
LEMMA YearLength ==
    ASSUME NEW year \in Int
    PROVE  /\ DaysToYear(year) \in Int
           /\ DaysToYear(year + 1) = DaysToYear(year) + 365 + IF IsLeap(year) THEN 1 ELSE 0
<1>1. year \div 4 = (year - 1) \div 4 + IF year % 4 = 0 THEN 1 ELSE 0 BY SMT
<1>2. year \div 100 = (year - 1) \div 100 + IF year % 100 = 0 THEN 1 ELSE 0 BY SMT
<1>3. year \div 400 = (year - 1) \div 400 + IF year % 400 = 0 THEN 1 ELSE 0 BY SMT
<1>4. /\ year % 400 = 0 => year % 100 = 0
      /\ year % 100 = 0 => year % 4 = 0
    BY SMT
<1>5. /\ (year - 1) \div 4 \in Int /\ (year - 1) \div 100 \in Int /\ (year - 1) \div 400 \in Int
      /\ (year + 1) - 1 = year
    BY SMT
<1>6. DaysToYear(year) \in Int BY <1>5, SMT DEF DaysToYear
<1>7. DaysToYear(year + 1)
        = 365 * (year - 1969) + year \div 4 - year \div 100 + year \div 400 - 477
    BY <1>5, SMT DEF DaysToYear
<1>8. CASE IsLeap(year) BY <1>1, <1>2, <1>3, <1>4, <1>5, <1>6, <1>7, <1>8, SMT DEF IsLeap, DaysToYear
<1>9. CASE ~ IsLeap(year) BY <1>1, <1>2, <1>3, <1>4, <1>5, <1>6, <1>7, <1>9, SMT DEF IsLeap, DaysToYear
<1> QED BY <1>6, <1>8, <1>9, SMT

\* The year after y of the era is placed as its own number says.
Repeats(y, era, next) ==
    /\ DaysToYear(next) = 365 * y + y \div 4 - y \div 100 + 146097 * era - 719162
    /\ IsLeap(y + 1) => IsLeap(next)

\* The years of an era repeat in every other.
LEMMA EraRepeats ==
    ASSUME NEW y \in Int, 0 <= y, y <= 399, NEW era \in Int,
           NEW next, next = y + era * 400 + 1
    PROVE  Repeats(y, era, next)
<1>1. (y + era * 400) \div 4 = y \div 4 + 100 * era BY SMT
<1>2. (y + era * 400) \div 100 = y \div 100 + 4 * era BY SMT
<1>3. (y + era * 400) \div 400 = era BY SMT
<1>4. y \div 4 \in Int /\ y \div 100 \in Int /\ next - 1 = y + era * 400 BY SMT
<1>5. DaysToYear(next)
        = 365 * (next - 1970) + (y \div 4 + 100 * era)
            - (y \div 100 + 4 * era) + era - 477
    BY <1>1, <1>2, <1>3, <1>4, SMT DEF DaysToYear
<1>6. next % 4 = (y + 1) % 4 BY SMT
<1>7. next % 100 = (y + 1) % 100 BY SMT
<1>8. next % 400 = (y + 1) % 400 BY SMT
<1>9. DaysToYear(next)
        = 365 * y + y \div 4 - y \div 100 + 146097 * era - 719162
    BY <1>4, <1>5, SMT
<1> QED BY <1>6, <1>7, <1>8, <1>9, SMT DEF IsLeap, Repeats

LEMMA MonthRight ==
    ASSUME NEW doy \in Int, 0 <= doy, doy <= 365, NEW mp, mp = MonthFromMarch(doy),
           NEW start, start = (153 * mp + 2) \div 5
    PROVE  /\ mp \in Int /\ 0 <= mp /\ mp <= 11 /\ start \in Nat
           /\ doy - start + 1 \in 1..31
           /\ mp < 10 => \A year \in Int :
                /\ DaysBefore(year, mp + 3) = 59 + start + IF IsLeap(year) THEN 1 ELSE 0
                /\ doy - start + 1 \in 1..DaysIn(year, mp + 3)
           /\ mp = 10 => start = 306
           /\ mp = 11 => start = 337 /\ doy - start + 1 \in 1..29
<1>1. mp \in Int /\ 153 * mp <= 5 * doy + 2 /\ 5 * doy + 2 < 153 * mp + 153
    BY SMT DEF MonthFromMarch
<1>2. 0 <= mp /\ mp <= 11 BY <1>1, SMT
<1>3. CASE mp = 0 BY <1>1, <1>3, SMT DEF DaysBefore, DaysIn
<1>4. CASE mp = 1 BY <1>1, <1>4, SMT DEF DaysBefore, DaysIn
<1>5. CASE mp = 2 BY <1>1, <1>5, SMT DEF DaysBefore, DaysIn
<1>6. CASE mp = 3 BY <1>1, <1>6, SMT DEF DaysBefore, DaysIn
<1>7. CASE mp = 4 BY <1>1, <1>7, SMT DEF DaysBefore, DaysIn
<1>8. CASE mp = 5 BY <1>1, <1>8, SMT DEF DaysBefore, DaysIn
<1>9. CASE mp = 6 BY <1>1, <1>9, SMT DEF DaysBefore, DaysIn
<1>10. CASE mp = 7 BY <1>1, <1>10, SMT DEF DaysBefore, DaysIn
<1>11. CASE mp = 8 BY <1>1, <1>11, SMT DEF DaysBefore, DaysIn
<1>12. CASE mp = 9 BY <1>1, <1>12, SMT DEF DaysBefore, DaysIn
<1>13. CASE mp = 10 BY <1>1, <1>13, SMT DEF DaysBefore, DaysIn
<1>14. CASE mp = 11 BY <1>1, <1>14, SMT DEF DaysBefore, DaysIn
<1>15. \/ mp = 0 \/ mp = 1 \/ mp = 2 \/ mp = 3 \/ mp = 4 \/ mp = 5
       \/ mp = 6 \/ mp = 7 \/ mp = 8 \/ mp = 9 \/ mp = 10 \/ mp = 11
    BY <1>1, <1>2, SMT
<1> QED
    BY <1>3, <1>4, <1>5, <1>6, <1>7, <1>8, <1>9, <1>10, <1>11, <1>12, <1>13, <1>14, <1>15, Zenon

LEMMA CivilRight ==
    ASSUME NEW days \in Int
    PROVE  /\ IsDate(CivilFromDays(days))
           /\ DaysOf(CivilFromDays(days)) = days
<1> SUFFICES ASSUME NEW era, era = (days + 719468) \div 146097,
                    NEW doe, doe = days + 719468 - era * 146097,
                    NEW yoe, yoe = YearOfEra(doe),
                    NEW doy, doy = DayOfYear(doe, yoe),
                    NEW mp, mp = MonthFromMarch(doy),
                    NEW start, start = (153 * mp + 2) \div 5,
                    NEW y, y = yoe + era * 400, NEW next, next = y + 1
             PROVE  /\ IsDate(CivilFromDays(days))
                    /\ DaysOf(CivilFromDays(days)) = days
    BY SMT
<1> DEFINE date == CivilFromDays(days)
<1>1. era \in Int /\ doe \in Int /\ 0 <= doe /\ doe <= 146096 BY Quotients, SMT
<1>2. /\ yoe \in Int /\ 0 <= yoe /\ yoe <= 399
      /\ doy \in Int /\ 0 <= doy /\ doy <= 365
      /\ doy = 365 => IsLeap(yoe + 1)
    BY <1>1, YearOfEraRight, SMT
<1>3. /\ mp \in Int /\ 0 <= mp /\ mp <= 11 /\ start \in Nat
      /\ doy - start + 1 \in 1..31
      /\ mp < 10 => \A year \in Int :
           /\ DaysBefore(year, mp + 3) = 59 + start + IF IsLeap(year) THEN 1 ELSE 0
           /\ doy - start + 1 \in 1..DaysIn(year, mp + 3)
      /\ mp = 10 => start = 306
      /\ mp = 11 => start = 337 /\ doy - start + 1 \in 1..29
    BY <1>2, MonthRight, SMT
<1>4. date = [year |-> IF mp < 10 THEN y ELSE next,
              month |-> IF mp < 10 THEN mp + 3 ELSE mp - 9,
              day |-> doy - start + 1]
    <2>1. date = [year |-> IF (IF mp < 10 THEN mp + 3 ELSE mp - 9) <= 2 THEN next ELSE y,
                  month |-> IF mp < 10 THEN mp + 3 ELSE mp - 9,
                  day |-> doy - start + 1]
        BY SMT DEF CivilFromDays, EraDays
    <2> HIDE DEF date
    <2> QED BY <1>3, <2>1, SMT
<1>5. y \in Int /\ next \in Int BY <1>1, <1>2, SMT
<1>6. /\ DaysToYear(next) = 365 * yoe + yoe \div 4 - yoe \div 100 + 146097 * era - 719162
      /\ IsLeap(yoe + 1) => IsLeap(next)
    <2>1. next = yoe + era * 400 + 1 BY SMT
    <2>2. Repeats(yoe, era, next) BY <1>1, <1>2, <2>1, EraRepeats, SMT
    <2> QED BY <2>2, SMT DEF Repeats
<1>7. DaysToYear(next) - 306 + doy = days
    <2>1. doy = doe - (365 * yoe + yoe \div 4 - yoe \div 100) BY SMT DEF DayOfYear
    <2> QED BY <1>1, <1>2, <1>6, <2>1, SMT
<1> HIDE DEF date
<1>8. /\ DaysToYear(y) \in Int /\ DaysToYear(next) \in Int
      /\ DaysToYear(next) = DaysToYear(y) + 365 + IF IsLeap(y) THEN 1 ELSE 0
    BY <1>5, YearLength, SMT
<1>9. CASE mp < 10
    <2>1. date = [year |-> y, month |-> mp + 3, day |-> doy - start + 1] BY <1>4, <1>9, SMT
    <2>2. /\ DaysBefore(y, mp + 3) = 59 + start + IF IsLeap(y) THEN 1 ELSE 0
          /\ doy - start + 1 \in 1..DaysIn(y, mp + 3)
        BY <1>3, <1>5, <1>9, SMT
    <2>3. IsDate(date) BY <1>3, <1>9, <2>1, <2>2, SMT DEF IsDate
    <2>4. DaysOf(date) = DaysToYear(y) + (59 + start + IF IsLeap(y) THEN 1 ELSE 0) + (doy - start + 1) - 1
        BY <2>1, <2>2, SMT DEF DaysOf
    <2>5. DaysOf(date) = days BY <1>2, <1>3, <1>7, <1>8, <2>4, SMT
    <2> QED BY <2>3, <2>5, SMT DEF date
<1>10. CASE mp = 10
    <2>1. date = [year |-> next, month |-> 1, day |-> doy - 306 + 1] BY <1>3, <1>4, <1>10, SMT
    <2>2. IsDate(date) BY <1>3, <1>10, <2>1, SMT DEF IsDate, DaysIn
    <2>3. DaysBefore(next, 1) = 0 BY SMT DEF DaysBefore
    <2>4. DaysOf(date) = DaysToYear(next) + 0 + (doy - 306 + 1) - 1 BY <2>1, <2>3, SMT DEF DaysOf
    <2>5. DaysOf(date) = days BY <1>2, <1>7, <1>8, <2>4, SMT
    <2> QED BY <2>2, <2>5, SMT DEF date
<1>11. CASE mp = 11
    <2>1. date = [year |-> next, month |-> 2, day |-> doy - 337 + 1] BY <1>3, <1>4, <1>11, SMT
    <2>2. doy - 337 + 1 \in 1..DaysIn(next, 2)
        <3>1. CASE doy = 365 BY <1>2, <1>6, <3>1, SMT DEF DaysIn
        <3>2. CASE doy # 365 BY <1>2, <1>3, <1>11, <3>2, SMT DEF DaysIn
        <3> QED BY <3>1, <3>2, SMT
    <2>3. IsDate(date) BY <2>1, <2>2, SMT DEF IsDate
    <2>4. DaysBefore(next, 2) = 31 BY SMT DEF DaysBefore
    <2>5. DaysOf(date) = DaysToYear(next) + 31 + (doy - 337 + 1) - 1 BY <2>1, <2>4, SMT DEF DaysOf
    <2>6. DaysOf(date) = days BY <1>2, <1>7, <1>8, <2>5, SMT
    <2> QED BY <2>3, <2>6, SMT DEF date
<1> QED BY <1>3, <1>9, <1>10, <1>11, SMT

LEMMA HourSplit ==
    ASSUME NEW n \in Int
    PROVE  3600 * (n \div 3600) + 60 * ((n % 3600) \div 60) + (n % 60) = n
<1> SUFFICES ASSUME NEW h, h = n \div 3600, NEW r, r = n % 3600, NEW m, m = (n % 3600) \div 60,
                    NEW s, s = n % 60
             PROVE  3600 * h + 60 * m + s = n
    BY SMT
<1>1. h \in Int /\ r \in Int /\ n = 3600 * h + r BY SMT
<1>2. s = r % 60 BY SMT
<1>3. m \in Int /\ s \in Int /\ r = 60 * m + s BY <1>1, <1>2, SMT
<1> QED BY <1>1, <1>3, SMT

LEMMA TimeRight ==
    ASSUME NEW tod \in Int, 0 <= tod, tod < DaySeconds, NEW time, time = TimeOfDay(tod)
    PROVE  /\ IsTime(time)
           /\ time.hour \in Int /\ time.min \in Int /\ time.sec \in Int
           /\ 3600 * time.hour + 60 * time.min + time.sec = tod
<1>1. time.hour = tod \div 3600 /\ time.min = (tod % 3600) \div 60 /\ time.sec = tod % 60
    BY SMT DEF TimeOfDay
<1>2. IsTime(time) BY <1>1, SMT DEF IsTime, DaySeconds
<1>3. 3600 * (tod \div 3600) + 60 * ((tod % 3600) \div 60) + (tod % 60) = tod BY HourSplit, SMT
<1> QED BY <1>1, <1>2, <1>3, SMT

(***************************************************************************)
(* "Correct and branch-total for any i64" (render.rs:12): for any integer  *)
(* number of seconds, before 1970 too, the date printed exists in the      *)
(* Gregorian calendar, the time of day exists, and together they denote    *)
(* that very second.                                                       *)
(***************************************************************************)
THEOREM EveryEpochRendered ==
    \A secs \in Int : Denotes(FormatEpoch(secs), secs)
<1> SUFFICES ASSUME NEW secs \in Int
             PROVE  Denotes(FormatEpoch(secs), secs)
    BY SMT
<1> SUFFICES ASSUME NEW days, days = secs \div DaySeconds, NEW tod, tod = secs % DaySeconds,
                    NEW date, date = CivilFromDays(days), NEW time, time = TimeOfDay(tod)
             PROVE  Denotes(FormatEpoch(secs), secs)
    BY SMT
<1>1. /\ days \in Int /\ tod \in Int /\ 0 <= tod /\ tod < DaySeconds
      /\ secs = DaySeconds * days + tod
    BY SMT DEF DaySeconds
<1>2. FormatEpoch(secs) = [date |-> date, time |-> time] BY SMT DEF FormatEpoch
<1>3. IsDate(date) /\ DaysOf(date) = days BY <1>1, CivilRight, SMT
<1>4. /\ IsTime(time)
      /\ time.hour \in Int /\ time.min \in Int /\ time.sec \in Int
      /\ 3600 * time.hour + 60 * time.min + time.sec = tod
    BY <1>1, TimeRight, SMT
<1>5. SecondsOf(FormatEpoch(secs))
        = DaySeconds * days + 3600 * time.hour + 60 * time.min + time.sec
    BY <1>2, <1>3, SMT DEF SecondsOf
<1>6. SecondsOf(FormatEpoch(secs)) = secs BY <1>1, <1>4, <1>5, SMT DEF DaySeconds
<1> QED BY <1>2, <1>3, <1>4, <1>6, SMT DEF Denotes

-----------------------------------------------------------------------------
(***************************************************************************)
(* Lists of anything, laid out one after the other: where each of them     *)
(* begins in the whole, and that FlattenSeq lays them out so.              *)
(***************************************************************************)
\* A list, whatever it is of.
AList(s) == Len(s) \in Nat /\ s = [i \in 1..Len(s) |-> s[i]]

\* A list is a sequence of whatever its elements are of.
LEMMA ListIsSeq ==
    ASSUME NEW s, AList(s)
    PROVE  /\ Len(s) \in Nat /\ DOMAIN s = 1..Len(s)
           /\ \A S : (\A i \in 1..Len(s) : s[i] \in S) => s \in Seq(S)
<1>1. Len(s) \in Nat /\ s = [i \in 1..Len(s) |-> s[i]]
  BY DEF AList
<1>2. DOMAIN s = 1..Len(s)
  BY <1>1
<1>3. ASSUME NEW S, \A i \in 1..Len(s) : s[i] \in S PROVE s \in Seq(S)
  <2>1. s \in [1..Len(s) -> S]
    BY <1>1, <1>3
  <2> QED
    BY <1>1, <2>1, TupleIsSeq
<1> QED
  BY <1>1, <1>2, <1>3

\* A sequence is a list.
LEMMA SeqIsList ==
    ASSUME NEW S, NEW s \in Seq(S)
    PROVE  AList(s)
BY DEF AList

\* What is said place by place is a list.
LEMMA FunctionIsList ==
    ASSUME NEW n \in Nat, NEW s, s = [i \in 1..n |-> s[i]]
    PROVE  AList(s) /\ Len(s) = n
<1>1. s \in [1..n -> {s[i] : i \in 1..n}]
  OBVIOUS
<1>2. Len(s) = n
  BY <1>1, TupleIsSeq
<1> QED
  BY <1>2 DEF AList

\* Lists that agree at every place are the same.
LEMMA SameList ==
    ASSUME NEW s, NEW t, AList(s), AList(t), Len(s) = Len(t),
           \A i \in 1..Len(s) : s[i] = t[i]
    PROVE  s = t
BY DEF AList

\* One list after another.
LEMMA ListsJoined ==
    ASSUME NEW s, NEW t, AList(s), AList(t)
    PROVE  /\ AList(s \o t) /\ Len(s \o t) = Len(s) + Len(t)
           /\ \A i \in 1..Len(s) : (s \o t)[i] = s[i]
           /\ \A i \in 1..Len(t) : (s \o t)[Len(s) + i] = t[i]
<1> DEFINE S == {s[i] : i \in 1..Len(s)} \cup {t[i] : i \in 1..Len(t)}
<1>1. s \in Seq(S) /\ t \in Seq(S)
  BY ListIsSeq
<1> HIDE DEF S
<1>2. s \o t \in Seq(S) /\ Len(s \o t) = Len(s) + Len(t) /\ Len(s) \in Nat /\ Len(t) \in Nat
  BY <1>1
<1>3. \A i \in 1..Len(s) : (s \o t)[i] = s[i]
  BY <1>1, <1>2
<1>4. \A i \in 1..Len(t) : (s \o t)[Len(s) + i] = t[i]
  <2> TAKE i \in 1..Len(t)
  <2>1. /\ Len(s) + i \in 1..(Len(s) + Len(t)) /\ ~ (Len(s) + i <= Len(s))
        /\ Len(s) + i - Len(s) = i
    BY <1>2
  <2> QED
    BY <1>1, <2>1
<1>5. AList(s \o t)
  BY <1>2, SeqIsList
<1> QED
  BY <1>2, <1>3, <1>4, <1>5

-----------------------------------------------------------------------------
(***************************************************************************)
(* The first k lists one after the other: off says where each ends.        *)
(***************************************************************************)
Laid(flat, seqs, off, k) ==
    /\ off \in [0..k -> Nat] /\ off[0] = 0
    /\ \A i \in 1..k : off[i] = off[i - 1] + Len(seqs[i])
    /\ AList(flat) /\ Len(flat) = off[k]
    /\ \A i \in 1..k : \A j \in 1..Len(seqs[i]) : flat[off[i - 1] + j] = seqs[i][j]

EachAList(seqs, k) == \A i \in 1..k : AList(seqs[i])

\* Each list ends no earlier than the one before it.
LEMMA OffsetsRise ==
    ASSUME NEW k \in Nat, NEW off \in [0..k -> Nat], \A i \in 1..k : off[i - 1] <= off[i],
           NEW i \in 0..k, NEW j \in 0..k, i <= j
    PROVE  off[i] <= off[j]
<1> DEFINE T == {m \in i..k : off[m] < off[i]}
<1>1. CASE T = {}
  <2>1. j \in i..k /\ off[i] \in Nat /\ off[j] \in Nat
    OBVIOUS
  <2>2. j \notin T
    BY <1>1
  <2> QED
    BY <2>1, <2>2
<1>2. CASE T # {}
  <2>1. T \in SUBSET Nat
    OBVIOUS
  <2>2. PICK m \in T : \A l \in T : m <= l
    BY <1>2, <2>1, LeastExists
  <2>3. m \in i..k /\ off[m] < off[i] /\ m # i /\ m - 1 \in i..k /\ m - 1 \in 0..k /\ m \in 1..k
    OBVIOUS
  <2>4. m - 1 \notin T
    BY <2>2, <2>3
  <2>5. off[m - 1] >= off[i] /\ off[m - 1] <= off[m] /\ off[m] \in Nat /\ off[m - 1] \in Nat
        /\ off[i] \in Nat
    BY <2>3, <2>4
  <2> QED
    BY <2>3, <2>5
<1> QED
  BY <1>1, <1>2

\* Every place of the whole is one of a list.
LEMMA PlaceCovered ==
    ASSUME NEW k \in Nat, NEW off \in [0..k -> Nat], off[0] = 0,
           NEW p \in 1..off[k]
    PROVE  \E i \in 1..k : off[i - 1] < p /\ p <= off[i]
<1> DEFINE T == {m \in 0..k : p <= off[m]}
<1>1. T \in SUBSET Nat /\ k \in T
  OBVIOUS
<1>2. PICK m \in T : \A l \in T : m <= l
  BY <1>1, LeastExists
<1>3. m \in 0..k /\ p <= off[m] /\ m # 0
  OBVIOUS
<1>4. m \in 1..k /\ m - 1 \in 0..k
  BY <1>3
<1>5. m - 1 \notin T
  BY <1>2, <1>4
<1> QED
  BY <1>3, <1>4, <1>5

\* Where the lists lie in the whole.
LEMMA LaidPlaces ==
    ASSUME NEW flat, NEW seqs, NEW off, NEW k \in Nat, Laid(flat, seqs, off, k),
           EachAList(seqs, k)
    PROVE  /\ \A i \in 1..k : /\ off[i - 1] \in Nat /\ off[i] \in Nat /\ Len(seqs[i]) \in Nat
                              /\ off[i] = off[i - 1] + Len(seqs[i])
                              /\ off[i] <= Len(flat)
           /\ \A i \in 0..k : \A j \in 0..k : i <= j => off[i] <= off[j]
           /\ \A p \in 1..Len(flat) : \E i \in 1..k : \E j \in 1..Len(seqs[i]) :
                p = off[i - 1] + j /\ flat[p] = seqs[i][j]
<1>1. /\ off \in [0..k -> Nat] /\ off[0] = 0 /\ Len(flat) = off[k]
      /\ \A i \in 1..k : off[i] = off[i - 1] + Len(seqs[i])
      /\ \A i \in 1..k : \A j \in 1..Len(seqs[i]) : flat[off[i - 1] + j] = seqs[i][j]
      /\ \A i \in 1..k : Len(seqs[i]) \in Nat
  BY DEF Laid, EachAList, AList
<1>2. \A i \in 1..k : i - 1 \in 0..k /\ i \in 0..k
  OBVIOUS
<1>3. \A i \in 1..k : off[i - 1] \in Nat /\ off[i] \in Nat
  BY <1>1, <1>2
<1>4. ASSUME NEW i \in 1..k PROVE off[i - 1] <= off[i]
  <2>1. off[i] = off[i - 1] + Len(seqs[i]) /\ Len(seqs[i]) \in Nat /\ off[i - 1] \in Nat
    BY <1>1, <1>3
  <2> QED
    BY <2>1
<1>5. \A i \in 0..k : \A j \in 0..k : i <= j => off[i] <= off[j]
  BY <1>1, <1>4, OffsetsRise
<1>6. \A i \in 1..k : off[i] <= Len(flat)
  BY <1>1, <1>5
<1>7. ASSUME NEW p \in 1..Len(flat)
      PROVE  \E i \in 1..k : \E j \in 1..Len(seqs[i]) :
                p = off[i - 1] + j /\ flat[p] = seqs[i][j]
  <2>1. PICK i \in 1..k : off[i - 1] < p /\ p <= off[i]
    BY <1>1, PlaceCovered
  <2>2. p - off[i - 1] \in 1..Len(seqs[i]) /\ p = off[i - 1] + (p - off[i - 1])
    BY <1>1, <1>3, <2>1
  <2> QED
    BY <1>1, <2>2
<1> QED
  BY <1>1, <1>3, <1>5, <1>6, <1>7

\* A place is of one list.
LEMMA PlaceUnique ==
    ASSUME NEW k \in Nat, NEW off \in [0..k -> Nat],
           \A i \in 0..k : \A j \in 0..k : i <= j => off[i] <= off[j],
           NEW p \in Nat, NEW i \in 1..k, NEW j \in 1..k,
           off[i - 1] < p, p <= off[i], off[j - 1] < p, p <= off[j]
    PROVE  i = j
<1>1. i \in 0..k /\ j \in 0..k /\ i - 1 \in 0..k /\ j - 1 \in 0..k
  OBVIOUS
<1>2. off[i] \in Nat /\ off[j] \in Nat /\ off[i - 1] \in Nat /\ off[j - 1] \in Nat
  BY <1>1
<1>3. ~ (i <= j - 1)
  BY <1>1, <1>2
<1>4. ~ (j <= i - 1)
  BY <1>1, <1>2
<1> QED
  BY <1>3, <1>4

\* There is one way to lay the lists out.
LEMMA LaidUnique ==
    ASSUME NEW flat, NEW flat2, NEW seqs, NEW off, NEW off2, NEW k \in Nat, EachAList(seqs, k),
           Laid(flat, seqs, off, k), Laid(flat2, seqs, off2, k)
    PROVE  flat = flat2 /\ \A i \in 0..k : off[i] = off2[i]
<1> DEFINE T == {i \in 0..k : off[i] # off2[i]}
<1>1. /\ off \in [0..k -> Nat] /\ off[0] = 0 /\ Len(flat) = off[k] /\ AList(flat)
      /\ \A i \in 1..k : off[i] = off[i - 1] + Len(seqs[i])
      /\ \A i \in 1..k : \A j \in 1..Len(seqs[i]) : flat[off[i - 1] + j] = seqs[i][j]
      /\ off2 \in [0..k -> Nat] /\ off2[0] = 0 /\ Len(flat2) = off2[k] /\ AList(flat2)
      /\ \A i \in 1..k : off2[i] = off2[i - 1] + Len(seqs[i])
      /\ \A i \in 1..k : \A j \in 1..Len(seqs[i]) : flat2[off2[i - 1] + j] = seqs[i][j]
  BY DEF Laid
<1>2. T = {}
  <2> SUFFICES ASSUME T # {} PROVE FALSE
    OBVIOUS
  <2>1. T \in SUBSET Nat
    OBVIOUS
  <2>2. PICK m \in T : \A l \in T : m <= l
    BY <2>1, LeastExists
  <2>3. m \in 1..k /\ off[m] # off2[m] /\ m - 1 \in 0..k
    BY <1>1
  <2>4. m - 1 \notin T
    BY <2>2, <2>3
  <2>5. off[m - 1] = off2[m - 1]
    BY <2>3, <2>4
  <2> QED
    BY <1>1, <2>3, <2>5
<1>3. \A i \in 0..k : off[i] = off2[i]
  BY <1>2
<1>4. k \in 0..k /\ \A i \in 1..k : i - 1 \in 0..k
  OBVIOUS
<1>5. Len(flat) = Len(flat2)
  BY <1>1, <1>3, <1>4
<1>6. ASSUME NEW p \in 1..Len(flat) PROVE flat[p] = flat2[p]
  <2>1. PICK i \in 1..k : \E j \in 1..Len(seqs[i]) : p = off[i - 1] + j /\ flat[p] = seqs[i][j]
    BY LaidPlaces
  <2>2. PICK j \in 1..Len(seqs[i]) : p = off[i - 1] + j /\ flat[p] = seqs[i][j]
    BY <2>1
  <2>3. off[i - 1] = off2[i - 1] /\ flat2[off2[i - 1] + j] = seqs[i][j]
    BY <1>1, <1>3, <1>4
  <2> QED
    BY <2>2, <2>3
<1> QED
  BY <1>1, <1>3, <1>5, <1>6, SameList

\* One list more.
LEMMA LaidFurther ==
    ASSUME NEW flat, NEW seqs, NEW off, NEW k \in Nat, EachAList(seqs, k + 1),
           Laid(flat, seqs, off, k)
    PROVE  \E off2 : Laid(flat \o seqs[k + 1], seqs, off2, k + 1)
<1> DEFINE more == flat \o seqs[k + 1]
           off2 == [i \in 0..(k + 1) |-> IF i = k + 1 THEN off[k] + Len(seqs[k + 1]) ELSE off[i]]
<1>1. /\ off \in [0..k -> Nat] /\ off[0] = 0 /\ Len(flat) = off[k] /\ AList(flat)
      /\ \A i \in 1..k : off[i] = off[i - 1] + Len(seqs[i])
      /\ \A i \in 1..k : \A j \in 1..Len(seqs[i]) : flat[off[i - 1] + j] = seqs[i][j]
      /\ AList(seqs[k + 1]) /\ Len(seqs[k + 1]) \in Nat
  BY DEF Laid, EachAList, AList
<1>2. /\ AList(more) /\ Len(more) = Len(flat) + Len(seqs[k + 1])
      /\ \A i \in 1..Len(flat) : more[i] = flat[i]
      /\ \A i \in 1..Len(seqs[k + 1]) : more[Len(flat) + i] = seqs[k + 1][i]
  <2>1. AList(flat) /\ AList(seqs[k + 1])
    BY <1>1
  <2> QED
    BY ONLY <2>1, ListsJoined
<1>3. /\ off2 \in [0..(k + 1) -> Nat] /\ off2[0] = 0 /\ off2[k + 1] = off[k] + Len(seqs[k + 1])
      /\ \A i \in 0..k : off2[i] = off[i]
  BY <1>1
<1> HIDE DEF more, off2
<1>4. ASSUME NEW i \in 1..(k + 1)
      PROVE  off2[i] = off2[i - 1] + Len(seqs[i])
  <2>1. CASE i = k + 1
    BY <1>3, <2>1
  <2>2. CASE i # k + 1
    <3>1. i \in 1..k /\ i - 1 \in 0..k /\ i \in 0..k
      BY <2>2
    <3> QED
      BY <1>1, <1>3, <3>1
  <2> QED
    BY <2>1, <2>2
<1>5. ASSUME NEW i \in 1..(k + 1), NEW j \in 1..Len(seqs[i])
      PROVE  more[off2[i - 1] + j] = seqs[i][j]
  <2>1. CASE i = k + 1
    BY <1>1, <1>2, <1>3, <2>1
  <2>2. CASE i # k + 1
    <3>1. i \in 1..k /\ i - 1 \in 0..k /\ EachAList(seqs, k)
      BY <2>2 DEF EachAList
    <3>2. /\ off[i] <= Len(flat) /\ off[i] = off[i - 1] + Len(seqs[i])
          /\ off[i - 1] \in Nat /\ Len(seqs[i]) \in Nat /\ off[i] \in Nat
      BY <3>1, LaidPlaces
    <3>3. off[i - 1] + j \in 1..Len(flat)
      BY <1>1, <3>2
    <3>4. more[off[i - 1] + j] = flat[off[i - 1] + j]
      BY <1>2, <3>3
    <3>5. flat[off[i - 1] + j] = seqs[i][j]
      BY <1>1, <3>1
    <3> QED
      BY <1>3, <3>1, <3>4, <3>5
  <2> QED
    BY <2>1, <2>2
<1>6. Len(more) = off2[k + 1]
  BY <1>1, <1>2, <1>3
<1>7. Laid(more, seqs, off2, k + 1)
  BY <1>2, <1>3, <1>4, <1>5, <1>6 DEF Laid
<1> QED
  BY <1>7 DEF more

(***************************************************************************)
(* FlattenSeq lays the lists it is given one after the other.              *)
(***************************************************************************)
LEMMA FlattenLaid ==
    ASSUME NEW seqs, AList(seqs), EachAList(seqs, Len(seqs))
    PROVE  /\ AList(FlattenSeq(seqs))
           /\ \E off : Laid(FlattenSeq(seqs), seqs, off, Len(seqs))
<1> DEFINE n == Len(seqs)
<1>1. n \in Nat
  BY DEF AList
<1>2. Laid(<<>>, seqs, [i \in 0..0 |-> 0], 0)
  BY DEF Laid, AList
<1>3. CASE n = 0
  <2>1. FlattenSeq(seqs) = seqs
    BY <1>3 DEF FlattenSeq
  <2>2. seqs = <<>>
    BY <1>3 DEF AList
  <2>3. AList(<<>>)
    BY DEF AList
  <2> QED
    BY <1>2, <1>3, <2>1, <2>2, <2>3
<1>4. CASE n # 0
  <2>1. \E flat : Flattens(flat, seqs, n) /\ FlattenSeq(seqs) = flat[n]
    <3> DEFINE flat == CHOOSE flat : Flattens(flat, seqs, n)
    <3>1. Flattens(flat, seqs, n)
      BY <1>1, FlattenExists
    <3>2. FlattenSeq(seqs) = flat[n]
      BY <1>4 DEF FlattenSeq, Flattens
    <3> QED
      BY <3>1, <3>2
  <2>2. PICK flat : Flattens(flat, seqs, n) /\ FlattenSeq(seqs) = flat[n]
    BY <2>1
  <2>3. \A i \in 1..n : flat[i] = IF i = 1 THEN seqs[i] ELSE flat[i - 1] \o seqs[i]
    BY <2>2 DEF Flattens
  <2> DEFINE Good(m) == \E off : Laid(flat[m], seqs, off, m)
             T == {m \in 1..n : ~ Good(m)}
  <2>4. Good(1)
    <3>1. EachAList(seqs, 1)
      BY <1>1, <1>4 DEF EachAList
    <3>2. EachAList(seqs, 0 + 1)
      BY <3>1
    <3>3. \E off : Laid(<<>> \o seqs[0 + 1], seqs, off, 0 + 1)
      BY <1>2, <3>2, LaidFurther
    <3>4. <<>> \o seqs[1] = seqs[1]
      <4>1. AList(<<>>) /\ Len(<<>>) = 0 /\ AList(seqs[1]) /\ Len(seqs[1]) \in Nat
        BY <3>1 DEF AList, EachAList
      <4>2. AList(<<>> \o seqs[1]) /\ Len(<<>> \o seqs[1]) = 0 + Len(seqs[1])
            /\ \A i \in 1..Len(seqs[1]) : (<<>> \o seqs[1])[0 + i] = seqs[1][i]
        BY <4>1, ListsJoined
      <4> QED
        BY <4>1, <4>2, SameList
    <3>5. flat[1] = seqs[1]
      BY <1>1, <1>4, <2>3
    <3> QED
      BY <3>3, <3>4, <3>5
  <2>5. T = {}
    <3> SUFFICES ASSUME T # {} PROVE FALSE
      OBVIOUS
    <3>1. T \in SUBSET Nat
      OBVIOUS
    <3>2. \A m : m \in T <=> m \in 1..n /\ ~ Good(m)
      OBVIOUS
    <3> HIDE DEF T
    <3>3. PICK m \in T : \A l \in T : m <= l
      BY <3>1, LeastExists
    <3>4. m \in 1..n /\ m # 1
      BY <2>4, <3>2
    <3>5. m - 1 \in 1..n /\ m - 1 \in Nat /\ m = (m - 1) + 1
      BY <3>4
    <3>6. m - 1 \notin T
      BY <3>3, <3>5
    <3>7. PICK off : Laid(flat[m - 1], seqs, off, m - 1)
      BY <3>2, <3>5, <3>6
    <3>8. EachAList(seqs, (m - 1) + 1)
      BY <3>4, <3>5 DEF EachAList
    <3>9. \E off2 : Laid(flat[m - 1] \o seqs[(m - 1) + 1], seqs, off2, (m - 1) + 1)
      BY <3>5, <3>7, <3>8, LaidFurther
    <3>10. flat[m] = flat[m - 1] \o seqs[m]
      BY <2>3, <3>4
    <3>11. Good(m)
      BY <3>5, <3>9, <3>10
    <3> QED
      BY <3>2, <3>3, <3>11
  <2>6. Good(n)
    BY <1>1, <1>4, <2>5
  <2>7. \E off : Laid(FlattenSeq(seqs), seqs, off, n)
    BY <2>2, <2>6
  <2> QED
    BY <2>7 DEF Laid
<1> QED
  BY <1>3, <1>4

\* Whatever lays the lists out is what FlattenSeq makes of them.
LEMMA FlattenIs ==
    ASSUME NEW seqs, NEW flat, NEW off, AList(seqs), EachAList(seqs, Len(seqs)),
           Laid(flat, seqs, off, Len(seqs))
    PROVE  FlattenSeq(seqs) = flat
<1>1. PICK off2 : Laid(FlattenSeq(seqs), seqs, off2, Len(seqs))
  BY FlattenLaid
<1>2. Len(seqs) \in Nat
  BY DEF AList
<1> QED
  BY <1>1, <1>2, LaidUnique

\* Of no lists.
LEMMA FlattenNone == FlattenSeq(<<>>) = <<>>
BY DEF FlattenSeq

\* The lists of two lists are laid out one half after the other.
LEMMA FlattenJoined ==
    ASSUME NEW a, NEW b, AList(a), AList(b), EachAList(a, Len(a)), EachAList(b, Len(b))
    PROVE  /\ EachAList(a \o b, Len(a \o b))
           /\ FlattenSeq(a \o b) = FlattenSeq(a) \o FlattenSeq(b)
<1> DEFINE n == Len(a)
           m == Len(b)
<1>1. n \in Nat /\ m \in Nat
  BY DEF AList
<1>2. /\ AList(a \o b) /\ Len(a \o b) = n + m
      /\ \A i \in 1..n : (a \o b)[i] = a[i]
      /\ \A i \in 1..m : (a \o b)[n + i] = b[i]
  BY ListsJoined
<1>3. ASSUME NEW i \in 1..(n + m), i > n PROVE i - n \in 1..m /\ (a \o b)[i] = b[i - n]
  <2>1. i - n \in 1..m /\ n + (i - n) = i
    BY <1>1, <1>3
  <2> QED
    BY <1>2, <2>1
<1>4. PICK offA : Laid(FlattenSeq(a), a, offA, n)
  BY FlattenLaid
<1>5. PICK offB : Laid(FlattenSeq(b), b, offB, m)
  BY FlattenLaid
<1> DEFINE s == a \o b
           fa == FlattenSeq(a)
           fb == FlattenSeq(b)
           flat == fa \o fb
           off == [i \in 0..(n + m) |-> IF i <= n THEN offA[i] ELSE offA[n] + offB[i - n]]
<1>6. /\ AList(fa) /\ Len(fa) = offA[n] /\ offA \in [0..n -> Nat] /\ offA[0] = 0
      /\ \A i \in 1..n : offA[i] = offA[i - 1] + Len(a[i])
      /\ \A i \in 1..n : \A j \in 1..Len(a[i]) : fa[offA[i - 1] + j] = a[i][j]
  BY <1>4 DEF Laid
<1>7. /\ AList(fb) /\ Len(fb) = offB[m] /\ offB \in [0..m -> Nat] /\ offB[0] = 0
      /\ \A i \in 1..m : offB[i] = offB[i - 1] + Len(b[i])
      /\ \A i \in 1..m : \A j \in 1..Len(b[i]) : fb[offB[i - 1] + j] = b[i][j]
  BY <1>5 DEF Laid
<1>8. /\ AList(flat) /\ Len(flat) = offA[n] + offB[m]
      /\ \A p \in 1..Len(fa) : flat[p] = fa[p]
      /\ \A p \in 1..Len(fb) : flat[Len(fa) + p] = fb[p]
  <2>1. AList(fa) /\ AList(fb)
    BY <1>6, <1>7
  <2>2. /\ AList(fa \o fb) /\ Len(fa \o fb) = Len(fa) + Len(fb)
        /\ \A p \in 1..Len(fa) : (fa \o fb)[p] = fa[p]
        /\ \A p \in 1..Len(fb) : (fa \o fb)[Len(fa) + p] = fb[p]
    BY ONLY <2>1, ListsJoined
  <2> QED
    BY <1>6, <1>7, <2>2
<1>9. \A i \in 1..n : AList(a[i]) /\ Len(a[i]) \in Nat
  BY DEF EachAList, AList
<1>10. \A i \in 1..m : AList(b[i]) /\ Len(b[i]) \in Nat
  BY DEF EachAList, AList
<1>11. EachAList(s, Len(s))
  <2> SUFFICES ASSUME NEW i \in 1..(n + m) PROVE AList(s[i])
    BY <1>2 DEF EachAList
  <2>1. CASE i <= n
    BY <1>1, <1>2, <1>9, <2>1
  <2>2. CASE i > n
    BY <1>3, <1>10, <2>2
  <2> QED
    BY <1>1, <2>1, <2>2
<1>12. /\ \A i \in 0..n : off[i] = offA[i]
       /\ \A i \in 0..m : off[n + i] = offA[n] + offB[i]
       /\ off[0] = 0
  <2>1. \A i \in 0..n : i \in 0..(n + m) /\ i <= n
    BY <1>1
  <2>2. ASSUME NEW i \in 0..m PROVE off[n + i] = offA[n] + offB[i]
    <3>1. n + i \in 0..(n + m) /\ (n + i) - n = i /\ (n + i <= n <=> i = 0)
      BY <1>1
    <3>2. CASE i = 0
      BY <1>1, <1>6, <1>7, <3>1, <3>2
    <3>3. CASE i # 0
      BY <3>1, <3>3
    <3> QED
      BY <3>2, <3>3
  <2> QED
    BY <1>1, <1>6, <2>1, <2>2
<1>13. off \in [0..(n + m) -> Nat]
  <2>1. ASSUME NEW i \in 0..(n + m) PROVE off[i] \in Nat
    <3>1. CASE i <= n
      <4>1. i \in 0..n
        BY <1>1, <3>1
      <4>2. offA[i] \in Nat /\ off[i] = offA[i]
        BY <1>6, <1>12, <4>1
      <4> QED
        BY <4>2
    <3>2. CASE i > n
      <4>1. i - n \in 0..m /\ n + (i - n) = i /\ n \in 0..n
        BY <1>1, <3>2
      <4>2. offA[n] \in Nat /\ offB[i - n] \in Nat
        BY <1>6, <1>7, <4>1
      <4>3. off[i] = offA[n] + offB[i - n]
        BY <1>12, <4>1
      <4> QED
        BY <4>2, <4>3
    <3> QED
      BY <1>1, <3>1, <3>2
  <2> QED
    BY <2>1
<1> HIDE DEF off, flat, fa, fb, s
<1>14. ASSUME NEW i \in 1..(n + m)
       PROVE  /\ off[i] = off[i - 1] + Len(s[i])
              /\ \A j \in 1..Len(s[i]) : flat[off[i - 1] + j] = s[i][j]
  <2>1. CASE i <= n
    <3>1. i \in 1..n /\ i \in 0..n /\ i - 1 \in 0..n /\ s[i] = a[i]
      BY <1>1, <1>2, <2>1 DEF s
    <3>2. off[i] = offA[i] /\ off[i - 1] = offA[i - 1]
      BY <1>12, <3>1
    <3>3. offA[i - 1] \in Nat /\ offA[i] <= Len(fa) /\ offA[i] \in Nat
      BY <1>1, <1>4, <3>1, LaidPlaces DEF fa
    <3>4. \A j \in 1..Len(a[i]) : offA[i - 1] + j \in 1..Len(fa)
      BY <1>6, <1>9, <3>1, <3>3
    <3> QED
      BY <1>6, <1>8, <3>1, <3>2, <3>4
  <2>2. CASE i > n
    <3> DEFINE l == i - n
    <3>1. /\ l \in 1..m /\ l \in 0..m /\ l - 1 \in 0..m /\ s[i] = b[l]
          /\ i = n + l /\ i - 1 = n + (l - 1)
      BY <1>1, <1>3, <2>2 DEF s
    <3> HIDE DEF l
    <3>2. off[i] = offA[n] + offB[l] /\ off[i - 1] = offA[n] + offB[l - 1]
      BY <1>12, <3>1
    <3>3. /\ offB[l - 1] \in Nat /\ offB[l] <= Len(fb) /\ offB[l] \in Nat /\ offA[n] \in Nat
          /\ offB[l] = offB[l - 1] + Len(b[l])
      <4>1. n \in 0..n
        BY <1>1
      <4>2. offA[n] \in Nat /\ offB[l - 1] \in Nat /\ offB[l] \in Nat
        BY <1>6, <1>7, <3>1, <4>1
      <4>3. offB[l] <= Len(FlattenSeq(b))
        BY <1>1, <1>5, <3>1, LaidPlaces
      <4> QED
        BY <1>7, <3>1, <4>2, <4>3 DEF fb
    <3>4. off[i] = off[i - 1] + Len(s[i])
      BY <1>10, <3>1, <3>2, <3>3
    <3>5. ASSUME NEW j \in 1..Len(s[i]) PROVE flat[off[i - 1] + j] = s[i][j]
      <4>0. Len(b[l]) \in Nat /\ j \in 1..Len(b[l]) /\ Len(fb) \in Nat
        BY <1>7, <1>10, <3>1 DEF AList
      <4>1. offB[l - 1] + j \in 1..Len(fb)
        BY <3>3, <4>0
      <4>2. flat[Len(fa) + (offB[l - 1] + j)] = fb[offB[l - 1] + j]
        BY <1>8, <4>1
      <4>3. Len(fa) + (offB[l - 1] + j) = off[i - 1] + j /\ j \in 1..Len(b[l])
        BY <1>6, <1>10, <3>1, <3>2, <3>3
      <4> QED
        BY <1>7, <3>1, <4>2, <4>3
    <3> QED
      BY <3>4, <3>5
  <2> QED
    BY <1>1, <2>1, <2>2
<1>15. Len(flat) = off[n + m]
  <2>1. m \in 0..m
    BY <1>1
  <2> QED
    BY <1>8, <1>12, <2>1
<1>16. Laid(flat, s, off, Len(s))
  BY <1>2, <1>8, <1>12, <1>13, <1>14, <1>15 DEF Laid, s
<1>17. FlattenSeq(s) = flat
  BY <1>2, <1>11, <1>16, FlattenIs DEF s
<1> QED
  BY <1>11, <1>17 DEF s, flat, fa, fb

\* One list is laid out as it is.
LEMMA FlattenOne ==
    ASSUME NEW s, AList(s)
    PROVE  FlattenSeq(<<s>>) = s
<1> DEFINE off == [i \in 0..1 |-> IF i = 0 THEN 0 ELSE Len(s)]
<1>1. AList(<<s>>) /\ Len(<<s>>) = 1 /\ <<s>>[1] = s /\ Len(s) \in Nat
  BY DEF AList
<1>2. EachAList(<<s>>, Len(<<s>>))
  BY <1>1 DEF EachAList
<1>3. off \in [0..1 -> Nat] /\ off[0] = 0 /\ off[1] = Len(s)
  BY <1>1
<1> HIDE DEF off
<1>4. \A i \in 1..1 : i = 1 /\ i - 1 = 0
  OBVIOUS
<1>5. Laid(s, <<s>>, off, Len(<<s>>))
  BY <1>1, <1>3, <1>4 DEF Laid
<1> QED
  BY <1>1, <1>2, <1>5, FlattenIs

(***************************************************************************)
(* Lists of one element each at the places g, and none elsewhere: the      *)
(* elements, in turn.                                                      *)
(***************************************************************************)
Chosen(pieces, g, v) ==
    LET n == Len(pieces)
        m == Len(v)
    IN  /\ AList(pieces) /\ AList(v)
        /\ g \in [1..m -> 1..n]
        /\ \A k, l \in 1..m : k < l => g[k] < g[l]
        /\ \A k \in 1..m : pieces[g[k]] = <<v[k]>>
        /\ \A i \in 1..n : (\E k \in 1..m : i = g[k]) \/ pieces[i] = <<>>

\* Empty lists leave nothing in the whole.
LEMMA FlattenChosen ==
    ASSUME NEW pieces, NEW g, NEW v, Chosen(pieces, g, v)
    PROVE  FlattenSeq(pieces) = v
<1> DEFINE n == Len(pieces)
           m == Len(v)
<1>0. /\ n \in Nat /\ m \in Nat
      /\ AList(pieces) /\ AList(v)
      /\ g \in [1..m -> 1..n]
      /\ \A k, l \in 1..m : k < l => g[k] < g[l]
      /\ \A k \in 1..m : pieces[g[k]] = <<v[k]>>
      /\ \A i \in 1..n : (\E k \in 1..m : i = g[k]) \/ pieces[i] = <<>>
  BY DEF Chosen, AList
<1> HIDE DEF n, m
<1> USE <1>0
<1> DEFINE U(i) == {k \in 1..m : g[k] <= i}
           off == [i \in 0..n |-> Cardinality(U(i))]
<1>1. \A k \in 1..m : U(g[k]) = 1..k /\ U(g[k] - 1) = 1..(k - 1)
  <2> TAKE k \in 1..m
  <2>1. ASSUME NEW l \in 1..m PROVE (g[l] <= g[k] <=> l <= k) /\ (g[l] <= g[k] - 1 <=> l <= k - 1)
    <3>1. g[l] \in Nat /\ g[k] \in Nat
      OBVIOUS
    <3>2. CASE l < k
      BY <3>1, <3>2
    <3>3. CASE l = k
      BY <3>1, <3>3
    <3>4. CASE l > k
      BY <3>1, <3>4
    <3> QED
      BY <3>2, <3>3, <3>4
  <2>2. \A l \in 1..k : l \in 1..m
    OBVIOUS
  <2>3. \A l \in 1..(k - 1) : l \in 1..m
    OBVIOUS
  <2> QED
    BY <2>1, <2>2, <2>3
<1>2. U(0) = {} /\ U(n) = 1..m
  <2>1. \A k \in 1..m : g[k] \in Nat /\ g[k] >= 1 /\ g[k] <= n
    OBVIOUS
  <2> QED
    BY <2>1
<1>3. \A i \in 0..n : IsFiniteSet(U(i)) /\ Cardinality(U(i)) \in Nat
  <2> TAKE i \in 0..n
  <2>1. U(i) \in SUBSET (1..m)
    OBVIOUS
  <2> HIDE DEF U
  <2> QED
    BY <2>1, PlacesFinite
<1>4. ASSUME NEW k \in Nat PROVE Cardinality(1..k) = k
  BY FS_Interval
<1>5. \A i \in 0..n : off[i] = Cardinality(U(i))
  OBVIOUS
<1>6. off \in [0..n -> Nat]
  BY <1>3
<1> HIDE DEF off
<1>7. off[0] = 0 /\ off[n] = m
  <2>1. Cardinality({}) = 0
    BY FS_EmptySet
  <2> QED
    BY <1>2, <1>4, <1>5, <2>1
<1>8. \A k \in 1..m : off[g[k]] = k /\ off[g[k] - 1] = k - 1
  <2> TAKE k \in 1..m
  <2>1. g[k] \in 0..n /\ g[k] - 1 \in 0..n /\ k \in Nat /\ k - 1 \in Nat
    OBVIOUS
  <2> HIDE DEF U
  <2> QED
    BY <1>1, <1>4, <1>5, <2>1
<1>9. ASSUME NEW i \in 1..n, ~ \E k \in 1..m : i = g[k] PROVE off[i] = off[i - 1]
  <2>1. \A k \in 1..m : g[k] <= i <=> g[k] <= i - 1
    BY <1>9
  <2>2. U(i) = U(i - 1)
    BY <2>1
  <2>3. i \in 0..n /\ i - 1 \in 0..n
    OBVIOUS
  <2> HIDE DEF U
  <2> QED
    BY <1>5, <2>2, <2>3
<1> HIDE DEF U
<1>10. \A x : AList(<<x>>) /\ Len(<<x>>) = 1 /\ <<x>>[1] = x
  BY DEF AList
<1>11. AList(<<>>) /\ Len(<<>>) = 0
  BY DEF AList
<1>12. EachAList(pieces, n)
  <2> SUFFICES ASSUME NEW i \in 1..n PROVE AList(pieces[i])
    BY DEF EachAList
  <2>1. CASE \E k \in 1..m : i = g[k]
    <3>1. PICK k \in 1..m : i = g[k]
      BY <2>1
    <3>2. pieces[i] = <<v[k]>>
      BY <3>1
    <3> QED
      BY <1>10, <3>2
  <2>2. CASE ~ \E k \in 1..m : i = g[k]
    BY <1>11, <2>2
  <2> QED
    BY <2>1, <2>2
<1>13. ASSUME NEW i \in 1..n
       PROVE  /\ off[i] = off[i - 1] + Len(pieces[i])
              /\ \A j \in 1..Len(pieces[i]) : v[off[i - 1] + j] = pieces[i][j]
  <2>1. CASE \E k \in 1..m : i = g[k]
    <3>1. PICK k \in 1..m : i = g[k]
      BY <2>1
    <3>2. /\ off[i] = k /\ off[i - 1] = k - 1 /\ pieces[i] = <<v[k]>>
          /\ Len(pieces[i]) = 1 /\ pieces[i][1] = v[k]
      BY <1>8, <1>10, <3>1
    <3>3. k = (k - 1) + 1 /\ \A j \in 1..1 : j = 1
      OBVIOUS
    <3> QED
      BY <3>2, <3>3
  <2>2. CASE ~ \E k \in 1..m : i = g[k]
    <3>1. pieces[i] = <<>> /\ off[i] = off[i - 1] /\ off[i] \in Nat
      BY <1>6, <1>9, <2>2
    <3> QED
      BY <1>11, <3>1
  <2> QED
    BY <2>1, <2>2
<1>14. Laid(v, pieces, off, n)
  BY <1>6, <1>7, <1>13 DEF Laid, m
<1> QED
  BY <1>12, <1>14, FlattenIs DEF n

\* The first k lists, and the k-th after those before it.
FlattenTo(seqs, k) == FlattenSeq([i \in 1..k |-> seqs[i]])

\* The first k lists, and one more.
LEMMA FlattenMore ==
    ASSUME NEW n \in Nat, NEW seqs, EachAList(seqs, n), NEW k \in 1..n
    PROVE  /\ AList(FlattenTo(seqs, k)) /\ AList(FlattenTo(seqs, k - 1))
           /\ FlattenTo(seqs, k) = FlattenTo(seqs, k - 1) \o seqs[k]
<1> DEFINE before == [i \in 1..(k - 1) |-> seqs[i]]
           all == [i \in 1..k |-> seqs[i]]
           last == <<seqs[k]>>
<1>1. k \in Nat /\ k - 1 \in Nat
  OBVIOUS
<1>2. AList(before) /\ Len(before) = k - 1 /\ \A i \in 1..(k - 1) : before[i] = seqs[i]
  BY <1>1, FunctionIsList
<1>3. AList(all) /\ Len(all) = k /\ \A i \in 1..k : all[i] = seqs[i]
  BY <1>1, FunctionIsList
<1>4. AList(last) /\ Len(last) = 1 /\ last[1] = seqs[k]
  BY DEF AList
<1> HIDE DEF before, all, last
<1>5. EachAList(before, Len(before)) /\ EachAList(all, Len(all)) /\ EachAList(last, Len(last))
  BY <1>1, <1>2, <1>3, <1>4 DEF EachAList
<1>6. /\ AList(before \o last) /\ Len(before \o last) = k
      /\ \A i \in 1..(k - 1) : (before \o last)[i] = before[i]
      /\ (before \o last)[(k - 1) + 1] = last[1]
  <2>1. /\ AList(before \o last) /\ Len(before \o last) = Len(before) + Len(last)
        /\ \A i \in 1..Len(before) : (before \o last)[i] = before[i]
        /\ \A i \in 1..Len(last) : (before \o last)[Len(before) + i] = last[i]
    <3>1. AList(before) /\ AList(last)
      BY <1>2, <1>4
    <3> QED
      BY ONLY <3>1, ListsJoined
  <2> QED
    BY <1>1, <1>2, <1>4, <2>1
<1>7. before \o last = all
  <2>1. ASSUME NEW i \in 1..k PROVE (before \o last)[i] = all[i]
    <3>1. i \in 1..(k - 1) \/ (i = k /\ i = (k - 1) + 1)
      BY <1>1
    <3> QED
      BY <1>2, <1>3, <1>4, <1>6, <3>1
  <2> QED
    BY <1>3, <1>6, <2>1, SameList
<1>8. FlattenSeq(all) = FlattenSeq(before) \o FlattenSeq(last)
  BY <1>2, <1>4, <1>5, <1>7, FlattenJoined
<1>9. FlattenSeq(last) = seqs[k]
  BY FlattenOne DEF EachAList, last
<1>10. AList(FlattenSeq(all)) /\ AList(FlattenSeq(before))
  BY <1>2, <1>3, <1>5, FlattenLaid
<1> QED
  BY <1>8, <1>9, <1>10 DEF FlattenTo, all, before

\* All of the lists are the whole.
LEMMA FlattenWhole ==
    ASSUME NEW n \in Nat, NEW seqs, seqs = [i \in 1..n |-> seqs[i]]
    PROVE  FlattenSeq(seqs) = FlattenTo(seqs, n) /\ FlattenTo(seqs, 0) = <<>>
<1>1. [i \in 1..0 |-> seqs[i]] = <<>>
  OBVIOUS
<1> QED
  BY <1>1, FlattenNone DEF FlattenTo
=============================================================================
