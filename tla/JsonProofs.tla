----------------------------- MODULE JsonProofs -----------------------------
(***************************************************************************)
(* Proofs about values of JSON, in four parts.                             *)
(*                                                                         *)
(* The properties of an object are a map for whoever asks them for a name,  *)
(* whatever lists they become and however long they are.  Sorting and       *)
(* removing duplicates put the elements into places that numbers of         *)
(* elements give, so that every place is given once (Placed); the loops     *)
(* that swap are followed turn by turn.  In each case the first with a name *)
(* stays the first of what has it.                                         *)
(*                                                                         *)
(* The reader reads exactly the grammar: its nodes hang in a tree, its stack *)
(* is a branch of that tree, and what the whole text means is what the      *)
(* rest of it can still mean where the branch ends (Reading).              *)
(*                                                                         *)
(* What the writer has written is read as the value it was given: whatever  *)
(* follows, it means what the sources on the stack still have to write,     *)
(* each value as it is read (Writes).                                      *)
(*                                                                         *)
(* The writer's lines are indented by the number of lists they are in       *)
(* (Aligned), so that the whole text is what a round trip promises.        *)
(***************************************************************************)
EXTENDS JsonRoundTrip, ObjectProperties, FiniteSetTheorems, WellFoundedInduction, TLAPS

-----------------------------------------------------------------------------
(* Induction.                                                              *)

\* Every nonempty set of naturals has a least element.
LEMMA LeastNatural ==
  ASSUME NEW T \in SUBSET Nat, T # {}
  PROVE  \E x \in T : \A y \in T : x <= y
<1> DEFINE R == {p \in Nat \X Nat : p[1] < p[2]}
<1>1. IsWellFoundedOn(R, Nat)
  BY NatLessThanWellFounded DEF OpToRel
<1>2. PICK x \in T : \A y \in T : ~ (<<y, x>> \in R)
  BY <1>1, WFMin
<1>3. ASSUME NEW y \in T
      PROVE  x <= y
  <2>1. ~ (<<y, x>>[1] < <<y, x>>[2])
    BY <1>2
  <2> QED
    BY <2>1
<1> QED
  BY <1>3

\* A set with m has the numbers from m to n, if it has successors up to n.
LEMMA InductionFrom ==
  ASSUME NEW m \in Nat, NEW n \in Nat, NEW T,
         m \in T, \A k \in m .. n - 1 : k \in T => k + 1 \in T
  PROVE  \A k \in m .. n : k \in T
<1> DEFINE U == {k \in m .. n : k \notin T}
<1> SUFFICES ASSUME U # {}
             PROVE  FALSE
  OBVIOUS
<1>1. U \in SUBSET Nat
  OBVIOUS
<1>2. PICK x \in U : \A y \in U : x <= y
  BY <1>1, LeastNatural
<1>3. x \in m .. n /\ x # m
  OBVIOUS
<1>4. x - 1 \in m .. n - 1 /\ ~ (x <= x - 1)
  BY <1>3
<1>5. x - 1 \in T
  BY <1>2, <1>4
<1>6. x - 1 + 1 = x
  BY <1>3
<1> QED
  BY <1>4, <1>5, <1>6

-----------------------------------------------------------------------------
(* The first with a name.                                                  *)

FirstOf(l, n, i) ==
  /\ i \in 1 .. Len(l) /\ l[i].name = n
  /\ \A j \in 1 .. Len(l) : j < i => l[j].name # n

Absent(l, n) == \A i \in 1 .. Len(l) : l[i].name # n

\* FindByName finds it.
LEMMA FirstIsFound ==
  ASSUME NEW l, NEW n, NEW i, Len(l) \in Nat, FirstOf(l, n, i)
  PROVE  FindByName(l, n) = i /\ MeaningIn(l, n) = MeaningOf(l[i].value)
<1> DEFINE I == {j \in 1 .. Len(l) : l[j].name = n}
<1>1. i \in I /\ \A j \in I : i <= j
  BY DEF FirstOf
<1>2. \A j \in I : j \in Nat
  OBVIOUS
<1>3. FindByName(l, n) = Min(I)
  BY <1>1 DEF FindByName, SelectInSeq
<1> HIDE DEF I
<1>4. Min(I) \in I /\ \A j \in I : Min(I) <= j
  BY <1>1 DEF Min
<1>5. Min(I) = i
  BY <1>1, <1>2, <1>4
<1>6. i # 0
  BY DEF FirstOf
<1> QED
  BY <1>3, <1>5, <1>6 DEF MeaningIn

LEMMA AbsentIsNone ==
  ASSUME NEW l, NEW n, Absent(l, n)
  PROVE  FindByName(l, n) = 0 /\ MeaningIn(l, n) = None
<1>1. {j \in 1 .. Len(l) : l[j].name = n} = {}
  BY DEF Absent
<1>2. FindByName(l, n) = 0
  BY <1>1 DEF FindByName, SelectInSeq
<1> QED
  BY <1>2 DEF MeaningIn

LEMMA FirstOrAbsent ==
  ASSUME NEW l, NEW n, Len(l) \in Nat
  PROVE  Absent(l, n) \/ \E i : FirstOf(l, n, i)
<1> DEFINE I == {j \in 1 .. Len(l) : l[j].name = n}
<1>1. CASE I = {}
  BY <1>1 DEF Absent
<1>2. CASE I # {}
  <2>1. I \in SUBSET Nat
    OBVIOUS
  <2>2. PICK i \in I : \A j \in I : i <= j
    BY <1>2, <2>1, LeastNatural
  <2>3. i \in 1 .. Len(l) /\ l[i].name = n
    OBVIOUS
  <2>4. ASSUME NEW j \in 1 .. Len(l), j < i
        PROVE  l[j].name # n
    <3>1. j \notin I
      BY <2>2, <2>3, <2>4
    <3> QED
      BY <3>1
  <2> QED
    BY <2>3, <2>4 DEF FirstOf
<1> QED
  BY <1>1, <1>2

\* Each first of l is one of m, with the same meaning, and m has no other names.
SameFirst(l, m, n) ==
  /\ \A i : FirstOf(l, n, i) =>
       \E j : FirstOf(m, n, j) /\ MeaningOf(m[j].value) = MeaningOf(l[i].value)
  /\ Absent(l, n) => Absent(m, n)

LEMMA SameFirstMeansSame ==
  ASSUME NEW l, NEW m, NEW n, Len(l) \in Nat, Len(m) \in Nat, SameFirst(l, m, n)
  PROVE  MeaningIn(m, n) = MeaningIn(l, n)
<1>1. CASE Absent(l, n)
  BY <1>1, AbsentIsNone DEF SameFirst
<1>2. ASSUME NEW i, FirstOf(l, n, i)
      PROVE  MeaningIn(m, n) = MeaningIn(l, n)
  <2>1. PICK j : FirstOf(m, n, j) /\ MeaningOf(m[j].value) = MeaningOf(l[i].value)
    BY <1>2 DEF SameFirst
  <2> QED
    BY <1>2, <2>1, FirstIsFound
<1> QED
  BY <1>1, <1>2, FirstOrAbsent

-----------------------------------------------------------------------------
(* Places.                                                                 *)

\* R orders S.
Orders(R, S) ==
  /\ \A i, j \in S : <<i, j>> \in R \/ <<j, i>> \in R
  /\ \A i, j \in S : <<i, j>> \in R /\ <<j, i>> \in R => i = j
  /\ \A i, j, k \in S : <<i, j>> \in R /\ <<j, k>> \in R => <<i, k>> \in R

PlaceIn(R, S, i) == Cardinality({j \in S : <<j, i>> \in R})

\* The elements take the places from 1 on, in their order.
PlacesSo(R, S) ==
  /\ Cardinality(S) \in Nat
  /\ \A i \in S : PlaceIn(R, S, i) \in 1 .. Cardinality(S)
  /\ \A i, j \in S : <<j, i>> \in R /\ i # j => PlaceIn(R, S, j) < PlaceIn(R, S, i)
  /\ \A k \in 1 .. Cardinality(S) : \E i \in S : PlaceIn(R, S, i) = k

LEMMA PlacesAre ==
  ASSUME NEW n \in Nat, NEW S \in SUBSET (1 .. n), NEW R, Orders(R, S)
  PROVE  PlacesSo(R, S)
<1> DEFINE Down(i) == {j \in S : <<j, i>> \in R}
           N == Cardinality(S)
<1>1. IsFiniteSet(S)
  <2>1. IsFiniteSet(1 .. n)
    BY FS_Interval
  <2> QED
    BY <2>1, FS_Subset
<1>2. N \in Nat
  BY <1>1, FS_CardinalityType
<1>3. ASSUME NEW i \in S
      PROVE  IsFiniteSet(Down(i)) /\ Cardinality(Down(i)) \in 1 .. N
  <2>1. Down(i) \in SUBSET S /\ i \in Down(i)
    BY DEF Orders
  <2> HIDE DEF Down
  <2>2. IsFiniteSet(Down(i)) /\ Cardinality(Down(i)) <= N
    BY <1>1, <2>1, FS_Subset
  <2>3. Cardinality(Down(i)) \in Nat
    BY <2>2, FS_CardinalityType
  <2>4. Cardinality(Down(i)) # 0
    BY <2>1, <2>2, FS_EmptySet
  <2> QED
    BY <1>2, <2>2, <2>3, <2>4
<1>4. ASSUME NEW i \in S, NEW j \in S, <<j, i>> \in R, i # j
      PROVE  Cardinality(Down(j)) < Cardinality(Down(i))
  <2>1. Down(j) \in SUBSET Down(i) /\ i \in Down(i) /\ i \notin Down(j)
    BY <1>4 DEF Orders
  <2>2. IsFiniteSet(Down(i)) /\ Cardinality(Down(i)) \in Nat /\ Cardinality(Down(j)) \in Nat
    BY <1>2, <1>3
  <2> HIDE DEF Down
  <2>3. /\ Cardinality(Down(j)) <= Cardinality(Down(i))
        /\ Cardinality(Down(i)) # Cardinality(Down(j))
    BY <2>1, <2>2, FS_Subset
  <2> QED
    BY <2>2, <2>3
<1>5. ASSUME NEW k \in 1 .. N
      PROVE  \E i \in S : Cardinality(Down(i)) = k
  <2> DEFINE f == [i \in S |-> Cardinality(Down(i))]
  <2>1. f \in Injection(S, 1 .. N)
    <3>1. f \in [S -> 1 .. N]
      BY <1>3
    <3>2. ASSUME NEW i \in S, NEW j \in S, f[i] = f[j]
          PROVE  i = j
      <4>1. Cardinality(Down(i)) = Cardinality(Down(j)) /\ Cardinality(Down(i)) \in Int
        BY <1>2, <1>3, <3>2
      <4>2. <<i, j>> \in R \/ <<j, i>> \in R
        BY DEF Orders
      <4> HIDE DEF Down
      <4> QED
        BY <1>4, <4>1, <4>2
    <3> HIDE DEF f
    <3> QED
      BY <3>1, <3>2 DEF Injection, IsInjective
  <2>2. IsFiniteSet(1 .. N) /\ Cardinality(1 .. N) = N
    BY <1>2, FS_Interval
  <2>3. f \in Surjection(S, 1 .. N)
    <3> HIDE DEF f, N
    <3> QED
      BY <2>1, <2>2, FS_Injection DEF N
  <2>4. \E i \in S : f[i] = k
    <3> HIDE DEF f
    <3> QED
      BY <2>3 DEF Surjection
  <2> QED
    BY <2>4
<1> QED
  BY <1>2, <1>3, <1>4, <1>5 DEF PlaceIn, PlacesSo
\* The element at a place.
ElementAt(R, S, k) == CHOOSE i \in S : PlaceIn(R, S, i) = k

ElementsSo(R, S) ==
  /\ \A k \in 1 .. Cardinality(S) : ElementAt(R, S, k) \in S
  /\ \A i \in S : \E k \in 1 .. Cardinality(S) : ElementAt(R, S, k) = i
  /\ \A k, m \in 1 .. Cardinality(S) :
       k < m => /\ <<ElementAt(R, S, k), ElementAt(R, S, m)>> \in R
                /\ ElementAt(R, S, k) # ElementAt(R, S, m)

LEMMA ElementsAre ==
  ASSUME NEW n \in Nat, NEW S \in SUBSET (1 .. n), NEW R, Orders(R, S)
  PROVE  Cardinality(S) \in Nat /\ ElementsSo(R, S)
<1> DEFINE N == Cardinality(S)
           Place(i) == PlaceIn(R, S, i)
           From(k) == ElementAt(R, S, k)
<1>1. PlacesSo(R, S)
  BY PlacesAre
<1>2. /\ N \in Nat /\ \A i \in S : Place(i) \in 1 .. N
      /\ \A i, j \in S : <<j, i>> \in R /\ i # j => Place(j) < Place(i)
      /\ \A k \in 1 .. N : \E i \in S : Place(i) = k
  BY <1>1 DEF PlacesSo
<1>3. \A k \in 1 .. N : From(k) \in S /\ Place(From(k)) = k
  BY <1>2 DEF ElementAt
<1> HIDE DEF Place, From, N
<1>4. ASSUME NEW i \in S, NEW j \in S, Place(i) = Place(j)
      PROVE  i = j
  <2>1. <<i, j>> \in R \/ <<j, i>> \in R
    BY DEF Orders
  <2>2. Place(i) \in Int /\ Place(j) \in Int
    BY <1>2
  <2> QED
    BY <1>2, <1>4, <2>1, <2>2
<1>5. ASSUME NEW i \in S
      PROVE  \E k \in 1 .. N : From(k) = i
  <2>1. PICK k \in 1 .. N : k = Place(i)
    BY <1>2
  <2>2. From(k) \in S /\ Place(From(k)) = Place(i)
    BY <1>3, <2>1
  <2> QED
    BY <1>4, <2>2
<1>6. ASSUME NEW k \in 1 .. N, NEW m \in 1 .. N, k < m
      PROVE  <<From(k), From(m)>> \in R /\ From(k) # From(m)
  <2>1. From(k) \in S /\ From(m) \in S /\ Place(From(k)) = k /\ Place(From(m)) = m
    BY <1>3
  <2>2. k \in Int /\ m \in Int
    BY <1>2
  <2>3. From(k) # From(m) /\ ~ (m < k)
    BY <1>6, <2>1, <2>2
  <2>4. <<From(k), From(m)>> \in R \/ <<From(m), From(k)>> \in R
    BY <2>1 DEF Orders
  <2> QED
    BY <1>2, <2>1, <2>3, <2>4
<1> QED
  BY <1>2, <1>3, <1>5, <1>6 DEF ElementsSo, N, From

-----------------------------------------------------------------------------
(* Sorting.                                                                *)

NamedOf(V) == [name : DOMAIN Rank, value : V]

ListOf(V) == Seq(NamedOf(V))

LEMMA NamedOfIs ==
  ASSUME NEW V, NEW p \in NamedOf(V)
  PROVE  p.name \in DOMAIN Rank /\ Rank[p.name] \in Int /\ p.value \in V
<1>1. p.name \in DOMAIN Rank /\ p.value \in V
  BY DEF NamedOf
<1> QED
  BY <1>1, RankAssumption

LEMMA IsListOf ==
  ASSUME NEW V, NEW n \in Nat, NEW s \in [1 .. n -> NamedOf(V)]
  PROVE  s \in ListOf(V) /\ Len(s) = n
BY DEF ListOf

LEMMA ListOfIs ==
  ASSUME NEW V, NEW l \in ListOf(V)
  PROVE  /\ Len(l) \in Nat /\ DOMAIN l = 1 .. Len(l)
         /\ \A i \in 1 .. Len(l) :
              /\ l[i] \in NamedOf(V) /\ l[i].name \in DOMAIN Rank
              /\ Rank[l[i].name] \in Int /\ l[i].value \in V
<1>1. /\ Len(l) \in Nat /\ DOMAIN l = 1 .. Len(l)
      /\ \A i \in 1 .. Len(l) : l[i] \in NamedOf(V)
  BY DEF ListOf
<1> QED
  BY <1>1, NamedOfIs

\* The first of l with a name, if there is one, is the first of m.
KeepsFirst(l, m, n) ==
  /\ \A i : FirstOf(l, n, i) => \E j : FirstOf(m, n, j) /\ m[j] = l[i]
  /\ Absent(l, n) => Absent(m, n)

InOrder(l) == \A i, j \in 1 .. Len(l) : i < j => Rank[l[i].name] <= Rank[l[j].name]

LEMMA SortingOrderIs ==
  ASSUME NEW V, NEW l \in ListOf(V)
  PROVE  /\ Orders(SortingOrder(l), 1 .. Len(l))
         /\ \A i, j \in 1 .. Len(l) :
              <<j, i>> \in SortingOrder(l) <=>
                \/ Less(l[j].name, l[i].name)
                \/ l[j].name = l[i].name /\ j <= i
<1> DEFINE r(i) == Rank[l[i].name]
           Before(j, i) == r(j) < r(i) \/ (r(j) = r(i) /\ j <= i)
           S == 1 .. Len(l)
<1>1. Len(l) \in Nat /\ \A i \in S : l[i].name \in DOMAIN Rank
  BY ListOfIs
<1>2. \A i \in S : r(i) \in Int
  BY <1>1, RankAssumption
<1>3. \A i, j \in S : r(i) = r(j) <=> l[i].name = l[j].name
  BY <1>1, RankAssumption
<1>4. \A i, j \in S :
        <<j, i>> \in SortingOrder(l) <=>
          Less(l[j].name, l[i].name) \/ (l[j].name = l[i].name /\ j <= i)
  BY DEF SortingOrder
<1>5. \A i, j \in S : <<j, i>> \in SortingOrder(l) <=> Before(j, i)
  BY <1>3, <1>4 DEF Less
<1>6. S \in SUBSET Int
  BY <1>1
<1>7. \A i, j \in S : Before(i, j) \/ Before(j, i)
  <2> HIDE DEF r, S
  <2> QED
    BY <1>2, <1>6
<1>8. \A i, j \in S : Before(i, j) /\ Before(j, i) => i = j
  <2> HIDE DEF r, S
  <2> QED
    BY <1>2, <1>6
<1>9. \A i, j, k \in S : Before(i, j) /\ Before(j, k) => Before(i, k)
  <2> HIDE DEF r, S
  <2> QED
    BY <1>2, <1>6
<1>10. Orders(SortingOrder(l), S)
  <2> HIDE DEF Before, S
  <2> QED
    BY <1>5, <1>7, <1>8, <1>9 DEF Orders
<1> QED
  BY <1>4, <1>10

\* It sorts, and of one name the first stays the first.
LEMMA SortedIs ==
  ASSUME NEW V, NEW l \in ListOf(V)
  PROVE  /\ StableSorted(l) \in ListOf(V) /\ Len(StableSorted(l)) = Len(l)
         /\ InOrder(StableSorted(l))
         /\ \A n : KeepsFirst(l, StableSorted(l), n)
<1> DEFINE N == Len(l)
           S == 1 .. N
           R == SortingOrder(l)
           From(k) == ElementAt(R, S, k)
           s == [k \in S |-> l[From(k)]]
<1>1. N \in Nat /\ Orders(R, S) /\ S \in SUBSET (1 .. N)
  BY SortingOrderIs, ListOfIs
<1>2. Cardinality(S) = N
  <2>1. N \in Int /\ 1 \in Int /\ ~ (1 > N /\ N # 0) /\ N - 1 + 1 = N
    BY <1>1
  <2> HIDE DEF N
  <2> QED
    BY <2>1, FS_Interval
<1>3. /\ \A k \in S : From(k) \in S
      /\ \A i \in S : \E k \in S : From(k) = i
      /\ \A k, m \in S : k < m => <<From(k), From(m)>> \in R /\ From(k) # From(m)
  <2>1. ElementsSo(R, S)
    <3> HIDE DEF R, S, N
    <3> QED
      BY <1>1, ElementsAre
  <2>2. 1 .. Cardinality(S) = S
    BY <1>2
  <2> HIDE DEF R, S
  <2> QED
    BY <2>1, <2>2 DEF ElementsSo
<1>4. StableSorted(l) = s
  BY <1>2 DEF StableSorted, Arranged, ElementAt, PlaceIn
<1> HIDE DEF From
<1>5. s \in ListOf(V) /\ Len(s) = N /\ \A k \in S : s[k] = l[From(k)]
  <2>1. \A i \in S : l[i] \in NamedOf(V)
    BY ListOfIs
  <2>2. s \in [1 .. N -> NamedOf(V)]
    BY <1>3, <2>1
  <2> QED
    BY <1>1, <2>2, IsListOf
<1>6. \A i, j \in S :
        <<j, i>> \in R <=> Less(l[j].name, l[i].name) \/ (l[j].name = l[i].name /\ j <= i)
  BY SortingOrderIs
<1>7. InOrder(s)
  <2>1. ASSUME NEW k \in S, NEW m \in S, k < m
        PROVE  Rank[s[k].name] <= Rank[s[m].name]
    <3>1. <<From(k), From(m)>> \in R /\ From(k) \in S /\ From(m) \in S
      BY <1>3, <2>1
    <3>2. Less(l[From(k)].name, l[From(m)].name) \/ l[From(k)].name = l[From(m)].name
      BY <1>6, <3>1
    <3>3. Rank[l[From(k)].name] \in Int /\ Rank[l[From(m)].name] \in Int
      BY <3>1, ListOfIs
    <3> QED
      BY <1>5, <3>2, <3>3 DEF Less
  <2> HIDE DEF s
  <2> QED
    BY <1>5, <2>1 DEF InOrder
<1>8. ASSUME NEW n, NEW i, FirstOf(l, n, i)
       PROVE  \E k : FirstOf(s, n, k) /\ s[k] = l[i]
  <2>1. i \in S /\ l[i].name = n /\ \A j \in S : j < i => l[j].name # n
    BY <1>8 DEF FirstOf
  <2>2. PICK k \in S : From(k) = i
    BY <1>3, <2>1
  <2>3. s[k] = l[i]
    BY <1>5, <2>2
  <2>4. ASSUME NEW m \in S, m < k, s[m].name = n
        PROVE  FALSE
    <3>1. <<From(m), i>> \in R /\ From(m) \in S /\ From(m) # i
      BY <1>3, <2>2, <2>4
    <3>2. l[From(m)].name = n
      BY <1>5, <2>4
    <3>3. Less(n, n) \/ From(m) <= i
      BY <1>6, <2>1, <3>1, <3>2
    <3>4. ~ Less(n, n)
      <4>1. Rank[n] \in Int
        BY <2>1, ListOfIs
      <4> QED
        BY <4>1 DEF Less
    <3>5. From(m) \in Int /\ i \in Int
      BY <1>1, <2>1, <3>1
    <3> QED
      BY <2>1, <3>1, <3>2, <3>3, <3>4, <3>5
  <2> HIDE DEF s
  <2>5. FirstOf(s, n, k)
    BY <1>5, <2>1, <2>3, <2>4 DEF FirstOf
  <2> QED
    BY <2>3, <2>5
<1>9. ASSUME NEW n, Absent(l, n)
       PROVE  Absent(s, n)
  <2> HIDE DEF s
  <2> QED
    BY <1>3, <1>5, <1>9 DEF Absent
<1> HIDE DEF s
<1> QED
  BY <1>4, <1>5, <1>7, <1>8, <1>9 DEF KeepsFirst
-----------------------------------------------------------------------------
(* Removing duplicates.                                                    *)

\* What WithoutDuplicates leaves.
Heads(l) == {i \in 1 .. Len(l) : i = 1 \/ l[i - 1].name # l[i].name}

\* Of a sorted list, the first of each name.
LEMMA UniqueIs ==
  ASSUME NEW V, NEW l \in ListOf(V), InOrder(l)
  PROVE  /\ WithoutDuplicates(l) \in ListOf(V)
         /\ Len(WithoutDuplicates(l)) <= Len(l)
         /\ IsSortedAndUnique(WithoutDuplicates(l))
         /\ \A n : KeepsFirst(l, WithoutDuplicates(l), n)
<1> DEFINE N == Len(l)
           S == Heads(l)
           R == ByPosition(l)
           M == Cardinality(S)
           From(k) == ElementAt(R, S, k)
           u == [k \in 1 .. M |-> l[From(k)]]
<1>1. N \in Nat /\ S \in SUBSET (1 .. N)
  BY ListOfIs DEF Heads
<1>2. \A i, j \in 1 .. N : <<i, j>> \in R <=> i <= j
  BY DEF ByPosition
<1>3. Orders(R, S)
  <2>1. \A i, j \in S : <<i, j>> \in R <=> i <= j
    BY <1>1, <1>2
  <2>2. S \in SUBSET Int
    BY <1>1
  <2> HIDE DEF R, S
  <2> QED
    BY <2>1, <2>2 DEF Orders
<1>4. M \in Nat /\ ElementsSo(R, S) /\ M <= N
  <2>1. IsFiniteSet(1 .. N) /\ Cardinality(1 .. N) = N
    <3>1. N \in Int /\ 1 \in Int /\ ~ (1 > N /\ N # 0) /\ N - 1 + 1 = N
      BY <1>1
    <3> HIDE DEF N
    <3> QED
      BY <3>1, FS_Interval
  <2> HIDE DEF R, S, N
  <2>2. Cardinality(S) <= Cardinality(1 .. N)
    BY <1>1, <2>1, FS_Subset
  <2> QED
    BY <1>1, <1>3, <2>1, <2>2, ElementsAre
<1>5. /\ \A k \in 1 .. M : From(k) \in S
      /\ \A i \in S : \E k \in 1 .. M : From(k) = i
      /\ \A k, m \in 1 .. M : k < m => From(k) < From(m)
  <2>1. /\ \A k \in 1 .. M : From(k) \in S
        /\ \A i \in S : \E k \in 1 .. M : From(k) = i
        /\ \A k, m \in 1 .. M : k < m => <<From(k), From(m)>> \in R /\ From(k) # From(m)
    BY <1>4 DEF ElementsSo
  <2> HIDE DEF From, R, S, M
  <2>2. \A k \in 1 .. M : From(k) \in 1 .. N
    BY <1>1, <2>1
  <2>3. ASSUME NEW k \in 1 .. M, NEW m \in 1 .. M, k < m
        PROVE  From(k) < From(m)
    <3>1. From(k) \in 1 .. N /\ From(m) \in 1 .. N /\ From(k) # From(m)
      BY <2>1, <2>2, <2>3
    <3>2. From(k) <= From(m)
      BY <1>2, <2>1, <2>3, <3>1
    <3> QED
      BY <3>1, <3>2
  <2> QED
    BY <2>1, <2>3
<1>6. WithoutDuplicates(l) = u
  BY DEF WithoutDuplicates, Arranged, ElementAt, PlaceIn, Heads, ByPosition
<1> HIDE DEF From, M
<1>7. \A i \in S : /\ i \in 1 .. N /\ l[i] \in NamedOf(V)
                   /\ l[i].name \in DOMAIN Rank /\ Rank[l[i].name] \in Int
  BY <1>1, ListOfIs
<1>8. u \in ListOf(V) /\ Len(u) = M /\ \A k \in 1 .. M : u[k] = l[From(k)]
  <2>1. u \in [1 .. M -> NamedOf(V)]
    BY <1>5, <1>7
  <2> QED
    BY <1>4, <2>1, IsListOf
<1>9. ASSUME NEW k \in 1 .. M - 1
      PROVE  Less(u[k].name, u[k + 1].name)
  <2>1. k \in 1 .. M /\ k + 1 \in 1 .. M /\ k < k + 1
    BY <1>4
  <2>2. PICK a \in S, b \in S : a = From(k) /\ b = From(k + 1) /\ a < b
    BY <1>5, <2>1
  <2>3. a \in 1 .. N /\ b \in 1 .. N /\ b - 1 \in 1 .. N /\ (a = b - 1 \/ a < b - 1)
        /\ b - 1 < b
    BY <1>1, <2>2
  <2>4. l[b - 1].name # l[b].name
    BY <2>2, <2>3 DEF Heads
  <2>5. /\ Rank[l[a].name] \in Int /\ Rank[l[b - 1].name] \in Int /\ Rank[l[b].name] \in Int
        /\ l[b - 1].name \in DOMAIN Rank /\ l[b].name \in DOMAIN Rank
    BY <2>3, ListOfIs
  <2>6. Rank[l[a].name] <= Rank[l[b - 1].name] /\ Rank[l[b - 1].name] <= Rank[l[b].name]
    BY <2>3, <2>5 DEF InOrder
  <2>7. Rank[l[b - 1].name] # Rank[l[b].name]
    BY <2>4, <2>5, RankAssumption
  <2>8. Rank[l[a].name] < Rank[l[b].name]
    BY <2>5, <2>6, <2>7
  <2> QED
    BY <1>8, <2>1, <2>2, <2>8 DEF Less
<1>10. ASSUME NEW n, NEW i, FirstOf(l, n, i)
       PROVE  \E k : FirstOf(u, n, k) /\ u[k] = l[i]
  <2>1. i \in 1 .. N /\ l[i].name = n /\ \A j \in 1 .. N : j < i => l[j].name # n
    BY <1>10 DEF FirstOf
  <2>2. i \in S
    <3>1. CASE i = 1
      BY <2>1, <3>1 DEF Heads
    <3>2. CASE i # 1
      <4>1. i - 1 \in 1 .. N /\ i - 1 < i
        BY <1>1, <2>1, <3>2
      <4> QED
        BY <2>1, <4>1 DEF Heads
    <3> QED
      BY <3>1, <3>2
  <2>3. PICK k \in 1 .. M : From(k) = i
    BY <1>5, <2>2
  <2>4. u[k] = l[i]
    BY <1>8, <2>3
  <2>5. ASSUME NEW m \in 1 .. M, m < k
        PROVE  u[m].name # n
    <3>1. From(m) < i /\ From(m) \in S
      BY <1>5, <2>3, <2>5
    <3>2. From(m) \in 1 .. N
      BY <1>1, <3>1
    <3> QED
      BY <1>8, <2>1, <3>1, <3>2
  <2> HIDE DEF u
  <2>6. FirstOf(u, n, k)
    BY <1>8, <2>1, <2>4, <2>5 DEF FirstOf
  <2> QED
    BY <2>4, <2>6
<1>11. ASSUME NEW n, Absent(l, n)
       PROVE  Absent(u, n)
  <2>1. \A k \in 1 .. M : From(k) \in 1 .. N
    BY <1>1, <1>5
  <2> HIDE DEF u
  <2> QED
    BY <1>8, <1>11, <2>1 DEF Absent
<1> HIDE DEF u
<1> QED
  BY <1>4, <1>6, <1>8, <1>9, <1>10, <1>11 DEF KeepsFirst, IsSortedAndUnique

\* StableSortedAndUnique.
LEMMA UniqueAndSortedIs ==
  ASSUME NEW V, NEW l \in ListOf(V)
  PROVE  /\ StableSortedAndUnique(l) \in ListOf(V)
         /\ Len(StableSortedAndUnique(l)) <= Len(l)
         /\ IsSortedAndUnique(StableSortedAndUnique(l))
         /\ \A n : KeepsFirst(l, StableSortedAndUnique(l), n)
<1> DEFINE s == StableSorted(l)
           u == WithoutDuplicates(s)
<1>1. s \in ListOf(V) /\ Len(s) = Len(l) /\ InOrder(s) /\ \A n : KeepsFirst(l, s, n)
  BY SortedIs
<1> HIDE DEF s
<1>2. u \in ListOf(V) /\ Len(u) <= Len(s) /\ IsSortedAndUnique(u) /\ \A n : KeepsFirst(s, u, n)
  BY <1>1, UniqueIs
<1> HIDE DEF u
<1>3. ASSUME NEW n
      PROVE  KeepsFirst(l, u, n)
  <2>1. KeepsFirst(l, s, n) /\ KeepsFirst(s, u, n)
    BY <1>1, <1>2
  <2>2. ASSUME NEW i, FirstOf(l, n, i)
        PROVE  \E j : FirstOf(u, n, j) /\ u[j] = l[i]
    <3>1. PICK k : FirstOf(s, n, k) /\ s[k] = l[i]
      BY <2>1, <2>2 DEF KeepsFirst
    <3>2. PICK j : FirstOf(u, n, j) /\ u[j] = s[k]
      BY <2>1, <3>1 DEF KeepsFirst
    <3> QED
      BY <3>1, <3>2
  <2> QED
    BY <2>1, <2>2 DEF KeepsFirst
<1> QED
  BY <1>1, <1>2, <1>3 DEF StableSortedAndUnique, s, u

-----------------------------------------------------------------------------
(* Lists of properties with values of JSON.                                *)

Named == NamedOf(JsonValues)

Listed == ListOf(JsonValues)

LEMMA NamedIs ==
  ASSUME NEW p \in Named
  PROVE  p.name \in DOMAIN Rank /\ Rank[p.name] \in Int /\ p.value \in JsonValues
BY NamedOfIs DEF Named

LEMMA IsListed ==
  ASSUME NEW n \in Nat, NEW s \in [1 .. n -> Named]
  PROVE  s \in Listed /\ Len(s) = n
BY IsListOf DEF Listed, Named

LEMMA ListedIs ==
  ASSUME NEW l \in Listed
  PROVE  /\ Len(l) \in Nat /\ DOMAIN l = 1 .. Len(l)
         /\ \A i \in 1 .. Len(l) :
              /\ l[i] \in Named /\ l[i].name \in DOMAIN Rank
              /\ Rank[l[i].name] \in Int /\ l[i].value \in JsonValues
BY ListOfIs DEF Listed, Named

-----------------------------------------------------------------------------
(* Erasing.                                                                *)

\* The first n elements of e are those of l at the positions K, in their order.
Selects(e, n, l, K) ==
  \E f \in [1 .. n -> K] :
    /\ \A i, j \in 1 .. n : i < j => f[i] < f[j]
    /\ \A i \in K : \E j \in 1 .. n : f[j] = i
    /\ \A j \in 1 .. n : e[j] = l[f[j]]

\* One turn of Erased's loop, and its function, where it is defined by the turn before.
Turned(a, k, name) ==
  IF a.list[k].name = name THEN a
  ELSE [list |-> SwapElements(a.list, k, a.to), to |-> a.to + 1]

TurnAt(g, l, start, name, k) ==
  IF k = start - 1 THEN [list |-> l, to |-> start] ELSE Turned(g[k - 1], k, name)

TurnsTo(n, l, start, name) ==
  \E g : g = [k \in start - 1 .. n |-> TurnAt(g, l, start, name, k)]

LEMMA TurnsExist ==
  ASSUME NEW start \in Nat \ {0}, NEW n \in Nat, start - 1 <= n, NEW l, NEW name
  PROVE  TurnsTo(n, l, start, name)
<1> DEFINE m == start - 1
           T == {p \in Nat : \E g : g = [k \in m .. p |-> TurnAt(g, l, start, name, k)]}
<1>0. m \in Nat /\ m <= n
  OBVIOUS
<1>1. m \in T
  <2> DEFINE g == [k \in m .. m |-> [list |-> l, to |-> start]]
  <2>1. \A k \in m .. m : TurnAt(g, l, start, name, k) = [list |-> l, to |-> start]
    BY DEF TurnAt
  <2>2. g = [k \in m .. m |-> TurnAt(g, l, start, name, k)]
    <3> DEFINE h == [k \in m .. m |-> TurnAt(g, l, start, name, k)]
    <3>1. \A k \in m .. m : h[k] = g[k]
      BY <2>1
    <3> QED
      BY <3>1
  <2> QED
    BY <2>2
<1>2. ASSUME NEW p \in m .. n - 1, p \in T
      PROVE  p + 1 \in T
  <2>1. PICK g : g = [k \in m .. p |-> TurnAt(g, l, start, name, k)]
    BY <1>2
  <2> DEFINE h == [k \in m .. p + 1 |-> IF k <= p THEN g[k] ELSE Turned(g[p], p + 1, name)]
  <2>2. ASSUME NEW k \in m .. p + 1
        PROVE  h[k] = TurnAt(h, l, start, name, k)
    <3>1. CASE k <= p
      <4>1. k \in m .. p /\ h[k] = g[k] /\ g[k] = TurnAt(g, l, start, name, k)
        BY <2>1, <3>1
      <4>2. k # m => k - 1 \in m .. p + 1 /\ k - 1 <= p
        BY <3>1
      <4>3. k # m => h[k - 1] = g[k - 1]
        BY <4>2
      <4> HIDE DEF h
      <4> QED
        BY <4>1, <4>3 DEF TurnAt
    <3>2. CASE ~ (k <= p)
      <4>1. k = p + 1 /\ k # m /\ k - 1 = p /\ p \in m .. p + 1 /\ p <= p
        BY <3>2
      <4>2. h[k] = Turned(g[p], p + 1, name) /\ h[p] = g[p]
        BY <3>2, <4>1
      <4> HIDE DEF h
      <4> QED
        BY <4>1, <4>2 DEF TurnAt
    <3> QED
      BY <3>1, <3>2
  <2>3. h = [k \in m .. p + 1 |-> h[k]]
    OBVIOUS
  <2> HIDE DEF h
  <2>4. h = [k \in m .. p + 1 |-> TurnAt(h, l, start, name, k)]
    BY <2>2, <2>3
  <2>5. p + 1 \in Nat
    OBVIOUS
  <2> QED
    BY <2>4, <2>5
<1>3. n \in T
  <2> HIDE DEF T, m
  <2>1. \A k \in m .. n : k \in T
    BY <1>0, <1>1, <1>2, InductionFrom
  <2> QED
    BY <1>0, <2>1
<1> QED
  BY <1>3 DEF TurnsTo

LEMMA ErasedUnfolds ==
  ASSUME NEW l \in Listed, NEW start \in 1 .. Len(l) + 1, NEW name
  PROVE  \E g : /\ \A k \in start - 1 .. Len(l) : g[k] = TurnAt(g, l, start, name, k)
               /\ Erased(l, start, name) = SubSeq(g[Len(l)].list, 1, g[Len(l)].to - 1)
<1> DEFINE turn[from \in start - 1 .. Len(l)] ==
             IF from = start - 1 THEN [list |-> l, to |-> start]
             ELSE LET a == turn[from - 1]
                  IN  IF a.list[from].name = name THEN a
                      ELSE [list |-> SwapElements(a.list, from, a.to), to |-> a.to + 1]
<1>1. Erased(l, start, name) = SubSeq(turn[Len(l)].list, 1, turn[Len(l)].to - 1)
  BY DEF Erased
<1>2. start \in Nat \ {0} /\ Len(l) \in Nat /\ start - 1 <= Len(l)
  BY ListedIs
<1>3. PICK g : g = [k \in start - 1 .. Len(l) |-> TurnAt(g, l, start, name, k)]
  <2>1. TurnsTo(Len(l), l, start, name)
    BY <1>2, TurnsExist
  <2> QED
    BY <2>1 DEF TurnsTo
<1>4. g = [from \in start - 1 .. Len(l) |->
             IF from = start - 1 THEN [list |-> l, to |-> start]
             ELSE LET a == g[from - 1]
                  IN  IF a.list[from].name = name THEN a
                      ELSE [list |-> SwapElements(a.list, from, a.to), to |-> a.to + 1]]
  BY <1>2, <1>3, Zenon DEF TurnAt, Turned
<1>5. turn = [from \in start - 1 .. Len(l) |->
             IF from = start - 1 THEN [list |-> l, to |-> start]
             ELSE LET a == turn[from - 1]
                  IN  IF a.list[from].name = name THEN a
                      ELSE [list |-> SwapElements(a.list, from, a.to), to |-> a.to + 1]]
  BY <1>4, Zenon
<1> HIDE DEF turn
<1>6. \A k \in start - 1 .. Len(l) : turn[k] = TurnAt(turn, l, start, name, k)
  BY <1>2, <1>5, Zenon DEF TurnAt, Turned
<1> QED
  BY <1>1, <1>6

SwapSo(t, s, i, j) ==
  /\ Len(t) = Len(s)
  /\ \A k \in 1 .. Len(s) : t[k] = IF k = j THEN s[i] ELSE IF k = i THEN s[j] ELSE s[k]

LEMMA SwapIs ==
  ASSUME NEW V, NEW s \in Seq(V), NEW i \in 1 .. Len(s), NEW j \in 1 .. Len(s)
  PROVE  SwapElements(s, i, j) \in Seq(V) /\ SwapSo(SwapElements(s, i, j), s, i, j)
<1> DEFINE t == SwapElements(s, i, j)
<1>1. Len(s) \in Nat /\ DOMAIN s = 1 .. Len(s) /\ s \in [1 .. Len(s) -> V]
  OBVIOUS
<1>2. /\ DOMAIN t = 1 .. Len(s)
      /\ t = [k \in 1 .. Len(s) |-> IF k = j THEN s[i] ELSE IF k = i THEN s[j] ELSE s[k]]
  BY <1>1 DEF SwapElements
<1> HIDE DEF t
<1>3. t \in Seq(V) /\ Len(t) = Len(s)
  BY <1>1, <1>2
<1> QED
  BY <1>2, <1>3 DEF SwapSo, t

\* What a turn leaves: up to it, what was to be left; behind it, the list as it was.
Left(l, start, name, k) == {i \in 1 .. k : i < start \/ l[i].name # name}

TurnSo(a, k, l, start, name) ==
  /\ a.list \in Listed /\ Len(a.list) = Len(l) /\ a.to \in start .. k + 1
  /\ \A i \in 1 .. Len(l) : k < i => a.list[i] = l[i]
  /\ \A i \in 1 .. start - 1 : a.list[i] = l[i]
  /\ Selects(a.list, a.to - 1, l, Left(l, start, name, k))

LEMMA FirstTurn ==
  ASSUME NEW l \in Listed, NEW start \in 1 .. Len(l) + 1, NEW name
  PROVE  TurnSo([list |-> l, to |-> start], start - 1, l, start, name)
<1>1. start \in Nat /\ start - 1 \in Nat /\ start - 1 + 1 = start /\ Len(l) \in Nat
  BY ListedIs
<1>2. Left(l, start, name, start - 1) = 1 .. start - 1
  BY <1>1 DEF Left
<1>3. Selects(l, start - 1, l, 1 .. start - 1)
  <2> DEFINE f == [i \in 1 .. start - 1 |-> i]
  <2>1. f \in [1 .. start - 1 -> 1 .. start - 1] /\ \A i \in 1 .. start - 1 : f[i] = i
    OBVIOUS
  <2> HIDE DEF f
  <2> QED
    BY <1>1, <2>1 DEF Selects
<1> QED
  BY <1>1, <1>2, <1>3 DEF TurnSo

LEMMA NextTurn ==
  ASSUME NEW l \in Listed, NEW start \in 1 .. Len(l) + 1, NEW name,
         NEW k \in start - 1 .. Len(l) - 1, NEW a, TurnSo(a, k, l, start, name)
  PROVE  TurnSo(Turned(a, k + 1, name), k + 1, l, start, name)
<1> DEFINE N == Len(l)
           K == Left(l, start, name, k)
           L == Left(l, start, name, k + 1)
           to == a.to
<1>1. /\ N \in Nat /\ start \in Nat \ {0} /\ k \in Nat /\ k + 1 \in 1 .. N
      /\ start <= k + 1 /\ to \in Nat /\ start <= to /\ to <= k + 1 /\ to \in 1 .. N
  BY ListedIs DEF TurnSo
<1>2. /\ a.list \in Listed /\ Len(a.list) = N /\ a.list[k + 1] = l[k + 1]
      /\ \A i \in 1 .. N : k < i => a.list[i] = l[i]
      /\ \A i \in 1 .. start - 1 : a.list[i] = l[i]
  BY <1>1 DEF TurnSo
<1>3. PICK f \in [1 .. to - 1 -> K] :
        /\ \A i, j \in 1 .. to - 1 : i < j => f[i] < f[j]
        /\ \A i \in K : \E j \in 1 .. to - 1 : f[j] = i
        /\ \A j \in 1 .. to - 1 : a.list[j] = l[f[j]]
  BY DEF TurnSo, Selects
<1>4. CASE l[k + 1].name = name
  <2>1. Turned(a, k + 1, name) = a
    BY <1>2, <1>4 DEF Turned
  <2>2. L = K
    BY <1>1, <1>4 DEF Left
  <2>3. to \in start .. k + 1 + 1 /\ \A i \in 1 .. N : k + 1 < i => k < i
    BY <1>1
  <2>4. Selects(a.list, to - 1, l, L)
    BY <2>2 DEF TurnSo
  <2> HIDE DEF N, L, to
  <2> QED
    BY <1>2, <2>1, <2>3, <2>4 DEF TurnSo, N, L, to
<1>5. CASE l[k + 1].name # name
  <2> DEFINE t == SwapElements(a.list, k + 1, to)
             g == [j \in 1 .. to |-> IF j < to THEN f[j] ELSE k + 1]
  <2>1. Turned(a, k + 1, name) = [list |-> t, to |-> to + 1]
    BY <1>2, <1>5 DEF Turned
  <2>2. t \in Listed /\ SwapSo(t, a.list, k + 1, to)
    <3>1. a.list \in Seq(Named) /\ k + 1 \in 1 .. Len(a.list) /\ to \in 1 .. Len(a.list)
      BY <1>1, <1>2 DEF Listed, ListOf, Named, NamedOf
    <3> HIDE DEF to
    <3> QED
      BY <3>1, SwapIs DEF Listed, ListOf, Named, NamedOf
  <2> HIDE DEF t
  <2>3. /\ Len(t) = N /\ t[to] = l[k + 1]
        /\ \A i \in 1 .. N : i # to /\ i # k + 1 => t[i] = a.list[i]
    BY <1>1, <1>2, <2>2 DEF SwapSo
  <2>4. \A i \in 1 .. N : k + 1 < i => t[i] = l[i]
    BY <1>1, <1>2, <2>3
  <2>5. L = K \cup {k + 1} /\ K \in SUBSET (1 .. k)
    BY <1>1, <1>5 DEF Left
  <2>6. /\ \A j \in 1 .. to - 1 : j \in 1 .. to /\ j < to /\ j \in 1 .. N /\ j # k + 1 /\ j # to
        /\ \A j \in 1 .. to : j \in 1 .. to - 1 \/ j = to
        /\ to \in 1 .. to /\ ~ (to < to)
    BY <1>1
  <2>7. /\ \A j \in 1 .. to - 1 : g[j] = f[j]
        /\ g[to] = k + 1
    BY <2>6
  <2>8. g \in [1 .. to -> L]
    BY <2>5, <2>6
  <2> HIDE DEF g, K, L, N, to
  <2>9. \A j \in 1 .. to - 1 : f[j] \in K /\ f[j] \in 1 .. k
    BY <1>3, <2>5
  <2>10. ASSUME NEW i \in 1 .. to, NEW j \in 1 .. to, i < j
         PROVE  g[i] < g[j]
    <3>1. i \in 1 .. to - 1
      BY <1>1, <2>10
    <3>2. CASE j \in 1 .. to - 1
      BY <1>3, <2>7, <2>10, <3>1, <3>2
    <3>3. CASE j = to
      <4>1. g[i] \in 1 .. k /\ g[j] = k + 1
        BY <2>7, <2>9, <3>1, <3>3
      <4> QED
        BY <1>1, <4>1
    <3> QED
      BY <2>6, <3>2, <3>3
  <2>11. ASSUME NEW i \in L
         PROVE  \E j \in 1 .. to : g[j] = i
    <3>1. CASE i \in K
      BY <1>3, <2>6, <2>7, <3>1
    <3>2. CASE i = k + 1
      BY <2>6, <2>7, <3>2
    <3> QED
      BY <2>5, <3>1, <3>2
  <2>12. ASSUME NEW j \in 1 .. to
         PROVE  t[j] = l[g[j]]
    <3>1. CASE j \in 1 .. to - 1
      BY <1>3, <2>3, <2>6, <2>7, <3>1
    <3>2. CASE j = to
      BY <2>3, <2>7, <3>2
    <3> QED
      BY <2>6, <3>1, <3>2
  <2>13. Selects(t, to, l, L)
    BY <2>8, <2>10, <2>11, <2>12 DEF Selects
  <2>14. to + 1 \in start .. k + 1 + 1 /\ to + 1 - 1 = to
    BY <1>1
  <2>15. PICK r : r = [list |-> t, to |-> to + 1]
    OBVIOUS
  <2>16. r.list = t /\ r.to = to + 1
    BY <2>15
  <2>17. r.to \in start .. k + 1 + 1 /\ r.to - 1 = to
    <3>1. PICK next : next = to + 1
      OBVIOUS
    <3>2. r.to = next /\ next \in start .. k + 1 + 1
      BY <2>14, <2>16, <3>1
    <3>3. next - 1 = to
      BY <1>1, <3>1
    <3> QED
      BY <3>2, <3>3, Zenon
  <2>18. Selects(r.list, r.to - 1, l, L)
    BY <2>13, <2>16, <2>17
  <2>19. \A i \in 1 .. start - 1 : t[i] = l[i]
    <3>1. \A i \in 1 .. start - 1 : i \in 1 .. N /\ i # to /\ i # k + 1
      BY <1>1
    <3> QED
      BY <1>2, <2>3, <3>1
  <2>20. TurnSo(r, k + 1, l, start, name)
    BY <2>2, <2>3, <2>4, <2>16, <2>17, <2>18, <2>19 DEF TurnSo, L, N
  <2> QED
    BY <2>1, <2>15, <2>20
<1> QED
  BY <1>4, <1>5

\* What has another name, and all before start, is left, in its order, and what is
\* before start where it was.
LEMMA ErasedIs ==
  ASSUME NEW l \in Listed, NEW start \in 1 .. Len(l) + 1, NEW name
  PROVE  LET e == Erased(l, start, name)
         IN  /\ e \in Listed /\ Len(e) <= Len(l) /\ start - 1 <= Len(e)
             /\ \A i \in 1 .. start - 1 : e[i] = l[i]
             /\ Selects(e, Len(e), l, Left(l, start, name, Len(l)))
<1> DEFINE N == Len(l)
           m == start - 1
<1>1. PICK g : /\ \A k \in m .. N : g[k] = TurnAt(g, l, start, name, k)
               /\ Erased(l, start, name) = SubSeq(g[N].list, 1, g[N].to - 1)
  BY ErasedUnfolds
<1>2. N \in Nat /\ m \in Nat /\ m <= N
  BY ListedIs
<1> DEFINE T == {k \in Nat : TurnSo(g[k], k, l, start, name)}
<1>3. m \in T
  <2>1. m \in m .. N
    BY <1>2
  <2>2. g[m] = [list |-> l, to |-> start]
    BY <1>1, <2>1 DEF TurnAt
  <2> QED
    BY <1>2, <2>2, FirstTurn
<1>4. ASSUME NEW k \in m .. N - 1, k \in T
      PROVE  k + 1 \in T
  <2>1. k + 1 \in m .. N /\ k + 1 # m /\ k + 1 - 1 = k /\ k + 1 \in Nat
    BY <1>2
  <2>2. g[k + 1] = Turned(g[k], k + 1, name)
    BY <1>1, <2>1 DEF TurnAt
  <2>3. TurnSo(Turned(g[k], k + 1, name), k + 1, l, start, name)
    BY <1>4, NextTurn
  <2> QED
    BY <2>1, <2>2, <2>3
<1>5. TurnSo(g[N], N, l, start, name)
  <2> HIDE DEF T, N, m
  <2>1. \A k \in m .. N : k \in T
    BY <1>2, <1>3, <1>4, InductionFrom
  <2>2. N \in T
    BY <1>2, <2>1
  <2> QED
    BY <2>2 DEF T
<1> DEFINE a == g[N]
           e == SubSeq(a.list, 1, a.to - 1)
<1>6. /\ a.list \in Listed /\ Len(a.list) = N /\ a.to \in Nat
      /\ start <= a.to /\ a.to <= N + 1
      /\ \A i \in 1 .. start - 1 : a.list[i] = l[i]
      /\ Selects(a.list, a.to - 1, l, Left(l, start, name, N))
  BY <1>2, <1>5 DEF TurnSo
<1>7. PICK b, to : b = a.list /\ to = a.to
  OBVIOUS
<1>8. /\ b \in Seq(Named) /\ Len(b) = N /\ to \in Nat /\ start <= to /\ to <= N + 1
      /\ \A i \in 1 .. start - 1 : b[i] = l[i]
      /\ Selects(b, to - 1, l, Left(l, start, name, N)) /\ e = SubSeq(b, 1, to - 1)
  BY <1>6, <1>7 DEF Listed, ListOf, Named, NamedOf
<1> HIDE DEF a, e
<1>9. to - 1 \in 0 .. N
  BY <1>2, <1>8
<1>10. e \in Listed /\ Len(e) = to - 1 /\ \A j \in 1 .. to - 1 : e[j] = b[j]
  <2> HIDE DEF N
  <2> QED
    BY <1>2, <1>8, <1>9 DEF Listed, ListOf, Named
<1>11. Selects(e, to - 1, l, Left(l, start, name, N))
  <2> HIDE DEF N
  <2>1. PICK f \in [1 .. to - 1 -> Left(l, start, name, N)] :
          /\ \A i, j \in 1 .. to - 1 : i < j => f[i] < f[j]
          /\ \A i \in Left(l, start, name, N) : \E j \in 1 .. to - 1 : f[j] = i
          /\ \A j \in 1 .. to - 1 : b[j] = l[f[j]]
    BY <1>8 DEF Selects
  <2>2. \A j \in 1 .. to - 1 : e[j] = l[f[j]]
    BY <1>10, <2>1
  <2> QED
    BY <2>1, <2>2 DEF Selects
<1>12. Len(e) <= N /\ start - 1 <= Len(e)
  BY <1>2, <1>8, <1>10
<1>13. \A i \in 1 .. start - 1 : e[i] = l[i]
  <2>1. \A i \in 1 .. start - 1 : i \in 1 .. to - 1
    BY <1>2, <1>8
  <2> QED
    BY <1>8, <1>10, <2>1
<1> QED
  BY <1>1, <1>10, <1>11, <1>12, <1>13 DEF a, e

-----------------------------------------------------------------------------
(* The names of a list that something is done to.                          *)

LEMMA KeptIsSame ==
  ASSUME NEW l \in Listed, NEW m \in Listed, NEW n, KeepsFirst(l, m, n)
  PROVE  MeaningIn(m, n) = MeaningIn(l, n)
<1>1. Len(l) \in Nat /\ Len(m) \in Nat
  BY ListedIs
<1>2. SameFirst(l, m, n)
  BY DEF KeepsFirst, SameFirst
<1> QED
  BY <1>1, <1>2, SameFirstMeansSame

LEMMA SelectedKeepFirst ==
  ASSUME NEW l \in Listed, NEW e \in Listed, NEW K \in SUBSET (1 .. Len(l)), NEW n,
         Selects(e, Len(e), l, K), \A i : FirstOf(l, n, i) => i \in K
  PROVE  KeepsFirst(l, e, n)
<1> DEFINE N == Len(e)
<1>1. N \in Nat /\ Len(l) \in Nat
  BY ListedIs
<1>2. PICK f \in [1 .. N -> K] :
        /\ \A i, j \in 1 .. N : i < j => f[i] < f[j]
        /\ \A i \in K : \E j \in 1 .. N : f[j] = i
        /\ \A j \in 1 .. N : e[j] = l[f[j]]
  BY DEF Selects
<1>3. \A j \in 1 .. N : f[j] \in 1 .. Len(l)
  OBVIOUS
<1>4. ASSUME NEW i, FirstOf(l, n, i)
      PROVE  \E j : FirstOf(e, n, j) /\ e[j] = l[i]
  <2>1. i \in K /\ l[i].name = n /\ \A j \in 1 .. Len(l) : j < i => l[j].name # n
    BY <1>4 DEF FirstOf
  <2>2. PICK j \in 1 .. N : f[j] = i
    BY <1>2, <2>1
  <2>3. e[j] = l[i]
    BY <1>2, <2>2
  <2>4. ASSUME NEW m \in 1 .. N, m < j
        PROVE  e[m].name # n
    <3>1. f[m] < i /\ f[m] \in 1 .. Len(l)
      BY <1>2, <1>3, <2>2, <2>4
    <3> QED
      BY <1>2, <2>1, <3>1
  <2>5. FirstOf(e, n, j)
    BY <2>1, <2>3, <2>4 DEF FirstOf
  <2> QED
    BY <2>3, <2>5
<1>5. ASSUME Absent(l, n)
      PROVE  Absent(e, n)
  BY <1>2, <1>3, <1>5 DEF Absent
<1> QED
  BY <1>4, <1>5 DEF KeepsFirst

LEMMA LeftIs ==
  ASSUME NEW l, NEW start, NEW name
  PROVE  /\ Left(l, start, name, Len(l)) \in SUBSET (1 .. Len(l))
         /\ \A i \in 1 .. Len(l) :
              i \in Left(l, start, name, Len(l)) <=> i < start \/ l[i].name # name
BY DEF Left

\* ClearJsonProperty leaves none of the name, and the first of each other one.
LEMMA ClearedIs ==
  ASSUME NEW l \in Listed, NEW name
  PROVE  /\ Cleared(l, name) \in Listed
         /\ MeaningIn(Cleared(l, name), name) = None
         /\ \A n : n # name => MeaningIn(Cleared(l, name), n) = MeaningIn(l, n)
<1> DEFINE e == Erased(l, 1, name)
           K == Left(l, 1, name, Len(l))
<1>1. 1 \in 1 .. Len(l) + 1 /\ Len(l) \in Nat
  BY ListedIs
<1>2. e \in Listed /\ Selects(e, Len(e), l, K)
  BY <1>1, ErasedIs
<1>3. Cleared(l, name) = e
  BY DEF Cleared
<1>4. K \in SUBSET (1 .. Len(l)) /\ \A i \in 1 .. Len(l) : i \in K <=> l[i].name # name
  BY <1>1, LeftIs
<1> HIDE DEF e, K
<1>5. Absent(e, name)
  <2>1. PICK f \in [1 .. Len(e) -> K] : \A j \in 1 .. Len(e) : e[j] = l[f[j]]
    BY <1>2 DEF Selects
  <2> QED
    BY <1>4, <2>1 DEF Absent
<1>6. ASSUME NEW n, n # name
      PROVE  MeaningIn(e, n) = MeaningIn(l, n)
  <2>1. \A i : FirstOf(l, n, i) => i \in K
    BY <1>4, <1>6 DEF FirstOf
  <2>2. KeepsFirst(l, e, n)
    BY <1>2, <1>4, <2>1, SelectedKeepFirst
  <2> QED
    BY <1>2, <2>2, KeptIsSame
<1> QED
  BY <1>2, <1>3, <1>5, <1>6, AbsentIsNone

\* A property at the end is the first of its name only if there was none.
LEMMA AppendedIs ==
  ASSUME NEW l \in Listed, NEW p \in Named
  PROVE  /\ Append(l, p) \in Listed /\ Len(Append(l, p)) = Len(l) + 1
         /\ Append(l, p)[Len(l) + 1] = p
         /\ \A i \in 1 .. Len(l) : Append(l, p)[i] = l[i]
         /\ \A n : n # p.name \/ ~ Absent(l, n) => KeepsFirst(l, Append(l, p), n)
         /\ Absent(l, p.name) => FirstOf(Append(l, p), p.name, Len(l) + 1)
<1> DEFINE N == Len(l)
           a == Append(l, p)
<1>1. /\ a \in Listed /\ Len(a) = N + 1 /\ N \in Nat
      /\ a[N + 1] = p /\ \A i \in 1 .. N : a[i] = l[i]
  BY DEF Listed, ListOf, Named, NamedOf
<1>2. /\ \A i \in 1 .. N : i \in 1 .. N + 1 /\ i < N + 1
      /\ \A i \in 1 .. N + 1 : i \in 1 .. N \/ i = N + 1
      /\ N + 1 \in 1 .. N + 1
      /\ \A i \in 1 .. N : ~ (N + 1 < i)
      /\ ~ (N + 1 < N + 1)
  BY <1>1
<1> HIDE DEF a, N
<1>3. \A n, i : FirstOf(l, n, i) => FirstOf(a, n, i) /\ a[i] = l[i]
  BY <1>1, <1>2 DEF FirstOf, N
<1>4. \A n : n # p.name /\ Absent(l, n) => Absent(a, n)
  BY <1>1, <1>2 DEF Absent, N
<1>5. Absent(l, p.name) => FirstOf(a, p.name, N + 1)
  BY <1>1, <1>2 DEF FirstOf, Absent, N
<1>6. \A n : n # p.name \/ ~ Absent(l, n) => KeepsFirst(l, a, n)
  BY <1>3, <1>4 DEF KeepsFirst
<1> QED
  BY <1>1, <1>5, <1>6 DEF a, N

LEMMA KeptOf ==
  ASSUME NEW l, NEW n
  PROVE  KeepsFirst(l, l, n)
BY DEF KeepsFirst

\* What InsertName and the assignment do where the name is.
Assigned(l, name, match, value) ==
  [Erased(l, match + 1, name) EXCEPT ![match].value = value]

LEMMA AssignedIs ==
  ASSUME NEW l \in Listed, NEW name, NEW match, FirstOf(l, name, match),
         NEW value \in JsonValues
  PROVE  LET r == Assigned(l, name, match, value)
         IN  /\ r \in Listed
             /\ MeaningIn(r, name) = MeaningOf(value)
             /\ \A n : n # name => MeaningIn(r, n) = MeaningIn(l, n)
<1> DEFINE e == Erased(l, match + 1, name)
           K == Left(l, match + 1, name, Len(l))
           N == Len(e)
           p == [e[match] EXCEPT !.value = value]
           r == [e EXCEPT ![match].value = value]
<1>1. /\ match \in 1 .. Len(l) /\ l[match].name = name /\ Len(l) \in Nat
      /\ \A j \in 1 .. Len(l) : j < match => l[j].name # name
  BY ListedIs DEF FirstOf
<1>2. match + 1 \in 1 .. Len(l) + 1 /\ match + 1 - 1 = match
  BY <1>1
<1>3. /\ e \in Listed /\ Selects(e, N, l, K) /\ match <= N
      /\ \A i \in 1 .. match : e[i] = l[i]
  <2>1. PICK start : start = match + 1
    OBVIOUS
  <2>2. start \in 1 .. Len(l) + 1 /\ start - 1 = match
    BY <1>1, <1>2, <2>1
  <2>3. /\ e \in Listed /\ Selects(e, N, l, K) /\ start - 1 <= N
        /\ \A i \in 1 .. start - 1 : e[i] = l[i]
    BY <2>1, <2>2, ErasedIs
  <2> HIDE DEF e, K, N
  <2> QED
    BY <2>2, <2>3
<1>4. K \in SUBSET (1 .. Len(l)) /\ \A i \in 1 .. Len(l) : l[i].name # name => i \in K
  BY <1>1, LeftIs
<1> HIDE DEF e, K
<1>5. N \in Nat /\ DOMAIN e = 1 .. N /\ \A i \in 1 .. N : e[i] \in Named
  BY <1>3, ListedIs
<1>6. match \in 1 .. N /\ \A i \in 1 .. N : i < match => i \in 1 .. match /\ i \in 1 .. Len(l)
  BY <1>1, <1>3, <1>5
<1>7. match \in 1 .. match
  BY <1>1
<1>8. e[match] = l[match] /\ e[match] \in Named
  BY <1>3, <1>5, <1>6, <1>7
<1>9. p \in Named /\ p.name = name /\ p.value = value
  BY <1>1, <1>8 DEF Named, NamedOf
<1>10. /\ r = [i \in 1 .. N |-> IF i = match THEN p ELSE e[i]]
       /\ \A i \in 1 .. N : r[i] = IF i = match THEN p ELSE e[i]
  BY <1>5, <1>6
<1> HIDE DEF p, r
<1>11. r \in Listed /\ Len(r) = N
  <2>1. r \in [1 .. N -> Named]
    BY <1>5, <1>9, <1>10
  <2> HIDE DEF N
  <2> QED
    BY <1>5, <2>1, IsListed
<1>12. FirstOf(r, name, match)
  <2>1. ASSUME NEW j \in 1 .. N, j < match
        PROVE  r[j].name # name
    <3>1. j # match
      BY <1>1, <2>1
    <3>2. r[j] = l[j] /\ j \in 1 .. Len(l)
      BY <1>3, <1>6, <1>10, <2>1, <3>1
    <3> QED
      BY <1>1, <2>1, <3>2
  <2> QED
    BY <1>6, <1>9, <1>10, <1>11, <2>1 DEF FirstOf
<1>13. MeaningIn(r, name) = MeaningOf(value)
  <2>1. MeaningIn(r, name) = MeaningOf(r[match].value)
    BY <1>5, <1>11, <1>12, FirstIsFound
  <2> QED
    BY <1>6, <1>9, <1>10, <2>1
<1>14. ASSUME NEW n, n # name
       PROVE  MeaningIn(r, n) = MeaningIn(l, n)
  <2>1. \A i : FirstOf(l, n, i) => i \in K
    BY <1>4, <1>14 DEF FirstOf
  <2>2. KeepsFirst(l, e, n)
    BY <1>3, <1>4, <2>1, SelectedKeepFirst
  <2>3. \A i \in 1 .. N : r[i].name = e[i].name /\ (e[i].name = n => r[i] = e[i])
    BY <1>1, <1>8, <1>9, <1>10, <1>14
  <2>4. KeepsFirst(e, r, n)
    <3>1. \A i : FirstOf(e, n, i) => FirstOf(r, n, i) /\ r[i] = e[i]
      BY <1>11, <2>3 DEF FirstOf
    <3>2. Absent(e, n) => Absent(r, n)
      BY <1>11, <2>3 DEF Absent
    <3> QED
      BY <3>1, <3>2 DEF KeepsFirst
  <2> QED
    BY <1>3, <1>11, <2>2, <2>4, KeptIsSame
<1> QED
  BY <1>11, <1>13, <1>14 DEF e, r, Assigned

\* SetJsonProperty.
LEMMA InsertedIs ==
  ASSUME NEW l \in Listed, NEW p \in Named
  PROVE  /\ Inserted(l, p.name, p.value) \in Listed
         /\ MeaningIn(Inserted(l, p.name, p.value), p.name) = MeaningOf(p.value)
         /\ \A n : n # p.name =>
              MeaningIn(Inserted(l, p.name, p.value), n) = MeaningIn(l, n)
<1>1. /\ Len(l) \in Nat /\ p.name \in DOMAIN Rank /\ p.value \in JsonValues
      /\ Property(p.name, p.value) = p
  BY ListedIs, NamedIs DEF Named, NamedOf, Property
<1>2. CASE Absent(l, p.name)
  <2> DEFINE a == Append(l, p)
             r == Assigned(a, p.name, Len(a), p.value)
  <2>1. /\ a \in Listed /\ FirstOf(a, p.name, Len(a))
        /\ \A n : n # p.name => KeepsFirst(l, a, n)
    BY <1>2, AppendedIs
  <2>2. Inserted(l, p.name, p.value) = r
    <3>1. FindByName(l, p.name) = 0
      BY <1>2, AbsentIsNone
    <3>2. ~ (0 > 0)
      OBVIOUS
    <3> QED
      BY <1>1, <3>1, <3>2 DEF Inserted, Assigned
  <2> HIDE DEF a
  <2>3. /\ r \in Listed /\ MeaningIn(r, p.name) = MeaningOf(p.value)
        /\ \A n : n # p.name => MeaningIn(r, n) = MeaningIn(a, n)
    BY <1>1, <2>1, AssignedIs
  <2> HIDE DEF r
  <2>4. \A n : n # p.name => MeaningIn(a, n) = MeaningIn(l, n)
    BY <2>1, KeptIsSame
  <2> QED
    BY <2>2, <2>3, <2>4
<1>3. ASSUME NEW match, FirstOf(l, p.name, match)
      PROVE  /\ Inserted(l, p.name, p.value) \in Listed
             /\ MeaningIn(Inserted(l, p.name, p.value), p.name) = MeaningOf(p.value)
             /\ \A n : n # p.name =>
                  MeaningIn(Inserted(l, p.name, p.value), n) = MeaningIn(l, n)
  <2> DEFINE r == Assigned(l, p.name, match, p.value)
  <2>1. Inserted(l, p.name, p.value) = r
    <3>1. FindByName(l, p.name) = match
      BY <1>1, <1>3, FirstIsFound
    <3>2. match > 0
      BY <1>1, <1>3 DEF FirstOf
    <3> QED
      BY <3>1, <3>2 DEF Inserted, Assigned
  <2>2. /\ r \in Listed /\ MeaningIn(r, p.name) = MeaningOf(p.value)
        /\ \A n : n # p.name => MeaningIn(r, n) = MeaningIn(l, n)
    BY <1>1, <1>3, AssignedIs
  <2> QED
    BY <2>1, <2>2
<1> QED
  BY <1>1, <1>2, <1>3, FirstOrAbsent

\* add_object_properties.
LEMMA AddedIs ==
  ASSUME NEW l \in Listed, NEW p \in Named
  PROVE  /\ Append(l, p) \in Listed
         /\ MeaningIn(Append(l, p), p.name) =
              IF MeaningIn(l, p.name) = None THEN MeaningOf(p.value)
              ELSE MeaningIn(l, p.name)
         /\ \A n : n # p.name => MeaningIn(Append(l, p), n) = MeaningIn(l, n)
<1> DEFINE a == Append(l, p)
<1>1. /\ a \in Listed /\ Len(a) = Len(l) + 1 /\ a[Len(l) + 1] = p
      /\ \A n : n # p.name \/ ~ Absent(l, n) => KeepsFirst(l, a, n)
      /\ Absent(l, p.name) => FirstOf(a, p.name, Len(l) + 1)
  BY AppendedIs
<1> HIDE DEF a
<1>2. \A n : n # p.name => MeaningIn(a, n) = MeaningIn(l, n)
  BY <1>1, KeptIsSame
<1>3. Len(l) \in Nat /\ Len(a) \in Nat
  BY <1>1, ListedIs
<1>4. CASE Absent(l, p.name)
  <2>1. MeaningIn(l, p.name) = None
    BY <1>4, AbsentIsNone
  <2>2. MeaningIn(a, p.name) = MeaningOf(a[Len(l) + 1].value)
    BY <1>1, <1>3, <1>4, FirstIsFound
  <2> QED
    BY <1>1, <1>2, <2>1, <2>2 DEF a
<1>5. CASE ~ Absent(l, p.name)
  <2>1. PICK i : FirstOf(l, p.name, i)
    BY <1>3, <1>5, FirstOrAbsent
  <2>2. MeaningIn(l, p.name) = MeaningOf(l[i].value)
    BY <1>3, <2>1, FirstIsFound
  <2>3. l[i].value \in JsonValues
    BY <2>1, ListedIs DEF FirstOf
  <2>4. MeaningIn(l, p.name) # None
    BY <2>2, <2>3, ValuesAssumption
  <2>5. MeaningIn(a, p.name) = MeaningIn(l, p.name)
    BY <1>1, <1>5, KeptIsSame
  <2> QED
    BY <1>1, <1>2, <2>4, <2>5 DEF a
<1> QED
  BY <1>4, <1>5

\* NormalizeJsonProperties: a sorted list without duplicates, in which the first with a
\* name is the first that there was.
LEMMA SortedAndUniqueIs ==
  ASSUME NEW l \in Listed
  PROVE  /\ StableSortedAndUnique(l) \in Listed
         /\ Len(StableSortedAndUnique(l)) <= Len(l)
         /\ IsSortedAndUnique(StableSortedAndUnique(l))
         /\ \A n : MeaningIn(StableSortedAndUnique(l), n) = MeaningIn(l, n)
<1> DEFINE u == StableSortedAndUnique(l)
<1>1. /\ u \in Listed /\ Len(u) <= Len(l) /\ IsSortedAndUnique(u)
      /\ \A n : KeepsFirst(l, u, n)
  BY UniqueAndSortedIs DEF Listed
<1> HIDE DEF u
<1>2. \A n : MeaningIn(u, n) = MeaningIn(l, n)
  BY <1>1, KeptIsSame
<1> QED
  BY <1>1, <1>2 DEF u

\* Values that mean the same, under the same names.
LEMMA SameMeanings ==
  ASSUME NEW l \in Listed, NEW r \in [1 .. Len(l) -> Named],
         \A i \in 1 .. Len(l) : /\ r[i].name = l[i].name
                                /\ MeaningOf(r[i].value) = MeaningOf(l[i].value)
  PROVE  r \in Listed /\ Len(r) = Len(l) /\ \A n : MeaningIn(r, n) = MeaningIn(l, n)
<1>1. Len(l) \in Nat
  BY ListedIs
<1>2. r \in Listed /\ Len(r) = Len(l)
  BY <1>1, IsListed
<1>3. ASSUME NEW n
      PROVE  MeaningIn(r, n) = MeaningIn(l, n)
  <2>1. \A i : FirstOf(l, n, i) =>
          FirstOf(r, n, i) /\ MeaningOf(r[i].value) = MeaningOf(l[i].value)
    BY <1>2 DEF FirstOf
  <2>2. Absent(l, n) => Absent(r, n)
    BY <1>2 DEF Absent
  <2>3. SameFirst(l, r, n)
    BY <2>1, <2>2 DEF SameFirst
  <2> QED
    BY <1>1, <1>2, <2>3, SameFirstMeansSame
<1> QED
  BY <1>2, <1>3

\* Normalize and Rewrite.
LEMMA NormalizedIs ==
  ASSUME NEW l \in Listed
  PROVE  LET s == StableSortedAndUnique(l)
             r == [i \in 1 .. Len(s) |-> Property(s[i].name, NormalForm(s[i].value))]
         IN  r \in Listed /\ \A n : MeaningIn(r, n) = MeaningIn(l, n)
<1> DEFINE s == StableSortedAndUnique(l)
           r == [i \in 1 .. Len(s) |-> Property(s[i].name, NormalForm(s[i].value))]
<1>1. s \in Listed /\ \A n : MeaningIn(s, n) = MeaningIn(l, n)
  BY SortedAndUniqueIs
<1> HIDE DEF s
<1>2. /\ \A i \in 1 .. Len(s) : s[i].name \in DOMAIN Rank /\ s[i].value \in JsonValues
      /\ \A i \in 1 .. Len(s) : r[i] = Property(s[i].name, NormalForm(s[i].value))
  BY <1>1, ListedIs
<1>3. \A i \in 1 .. Len(s) : /\ r[i].name = s[i].name
                              /\ MeaningOf(r[i].value) = MeaningOf(s[i].value)
                              /\ r[i] \in Named
  BY <1>2, ValuesAssumption DEF Property, Named, NamedOf
<1>4. r \in [1 .. Len(s) -> Named]
  BY <1>3
<1> HIDE DEF r
<1>5. r \in Listed /\ \A n : MeaningIn(r, n) = MeaningIn(s, n)
  BY <1>1, <1>3, <1>4, SameMeanings
<1> QED
  BY <1>1, <1>5 DEF r, s

LEMMA RewrittenIs ==
  ASSUME NEW l \in Listed
  PROVE  LET r == [i \in 1 .. Len(l) |-> Property(l[i].name, Rewritten(l[i].value))]
         IN  /\ StableSortedAndUnique(r) \in Listed
             /\ \A n : MeaningIn(StableSortedAndUnique(r), n) = MeaningIn(l, n)
<1> DEFINE r == [i \in 1 .. Len(l) |-> Property(l[i].name, Rewritten(l[i].value))]
<1>1. /\ \A i \in 1 .. Len(l) : l[i].name \in DOMAIN Rank /\ l[i].value \in JsonValues
      /\ \A i \in 1 .. Len(l) : r[i] = Property(l[i].name, Rewritten(l[i].value))
  BY ListedIs
<1>2. \A i \in 1 .. Len(l) : /\ r[i].name = l[i].name
                              /\ MeaningOf(r[i].value) = MeaningOf(l[i].value)
                              /\ r[i] \in Named
  BY <1>1, ValuesAssumption DEF Property, Named, NamedOf
<1>3. r \in [1 .. Len(l) -> Named]
  BY <1>2
<1> HIDE DEF r
<1>4. r \in Listed /\ \A n : MeaningIn(r, n) = MeaningIn(l, n)
  BY <1>2, <1>3, SameMeanings
<1>5. /\ StableSortedAndUnique(r) \in Listed
      /\ \A n : MeaningIn(StableSortedAndUnique(r), n) = MeaningIn(r, n)
  BY <1>4, SortedAndUniqueIs
<1> QED
  BY <1>4, <1>5 DEF r

-----------------------------------------------------------------------------
(* Capturing.                                                              *)

\* One of Prepended's moves, where its function is defined by the move before.
RaisedAt(g, room, old, new, k) ==
  IF k = 0 THEN room
  ELSE SwapElements(g[k - 1], MovesUp(old, new)[k], MovesUp(old, new)[k] + new)

RaisesTo(n, room, old, new) ==
  \E g : g = [k \in 0 .. n |-> RaisedAt(g, room, old, new, k)]

LEMMA RaisesExist ==
  ASSUME NEW n \in Nat, NEW room, NEW old, NEW new
  PROVE  RaisesTo(n, room, old, new)
<1> DEFINE T == {p \in Nat : \E g : g = [k \in 0 .. p |-> RaisedAt(g, room, old, new, k)]}
<1>1. 0 \in T
  <2> DEFINE g == [k \in 0 .. 0 |-> room]
  <2>1. \A k \in 0 .. 0 : RaisedAt(g, room, old, new, k) = room
    BY DEF RaisedAt
  <2>2. g = [k \in 0 .. 0 |-> RaisedAt(g, room, old, new, k)]
    <3> DEFINE h == [k \in 0 .. 0 |-> RaisedAt(g, room, old, new, k)]
    <3>1. \A k \in 0 .. 0 : h[k] = g[k]
      BY <2>1
    <3> QED
      BY <3>1
  <2> QED
    BY <2>2
<1>2. ASSUME NEW p \in 0 .. n - 1, p \in T
      PROVE  p + 1 \in T
  <2>1. PICK g : g = [k \in 0 .. p |-> RaisedAt(g, room, old, new, k)]
    BY <1>2
  <2> DEFINE h == [k \in 0 .. p + 1 |->
                     IF k <= p THEN g[k]
                     ELSE SwapElements(g[p], MovesUp(old, new)[p + 1],
                                       MovesUp(old, new)[p + 1] + new)]
  <2>2. ASSUME NEW k \in 0 .. p + 1
        PROVE  h[k] = RaisedAt(h, room, old, new, k)
    <3>1. CASE k <= p
      <4>1. k \in 0 .. p /\ h[k] = g[k] /\ g[k] = RaisedAt(g, room, old, new, k)
        BY <2>1, <3>1
      <4>2. k # 0 => k - 1 \in 0 .. p + 1 /\ k - 1 <= p
        BY <3>1
      <4>3. k # 0 => h[k - 1] = g[k - 1]
        BY <4>2
      <4> HIDE DEF h
      <4> QED
        BY <4>1, <4>3 DEF RaisedAt
    <3>2. CASE ~ (k <= p)
      <4>1. k = p + 1 /\ k # 0 /\ k - 1 = p /\ p \in 0 .. p + 1 /\ p <= p
        BY <3>2
      <4>2. /\ h[k] = SwapElements(g[p], MovesUp(old, new)[p + 1],
                                   MovesUp(old, new)[p + 1] + new)
            /\ h[p] = g[p]
        BY <3>2, <4>1
      <4> HIDE DEF h
      <4> QED
        BY <4>1, <4>2 DEF RaisedAt
    <3> QED
      BY <3>1, <3>2
  <2>3. h = [k \in 0 .. p + 1 |-> h[k]]
    OBVIOUS
  <2> HIDE DEF h
  <2>4. h = [k \in 0 .. p + 1 |-> RaisedAt(h, room, old, new, k)]
    BY <2>2, <2>3
  <2>5. p + 1 \in Nat
    OBVIOUS
  <2> QED
    BY <2>4, <2>5
<1>3. n \in T
  <2> HIDE DEF T
  <2>1. \A k \in 0 .. n : k \in T
    BY <1>1, <1>2, InductionFrom
  <2> QED
    BY <2>1
<1> QED
  BY <1>3 DEF RaisesTo

\* The elements added last, until others take their places.
Room(l, new) == l \o [i \in 1 .. Len(new) |-> Property("", <<"null", 0>>)]

LEMMA PrependedUnfolds ==
  ASSUME NEW l \in Listed, NEW new \in Listed
  PROVE  \E g : /\ \A k \in 0 .. Len(l) : g[k] = RaisedAt(g, Room(l, new), Len(l), Len(new), k)
               /\ Prepended(l, new) = [i \in 1 .. Len(g[Len(l)]) |->
                                         IF i <= Len(new) THEN new[i] ELSE g[Len(l)][i]]
<1> DEFINE room  == l \o [i \in 1 .. Len(new) |-> Property("", <<"null", 0>>)]
           moves == MovesUp(Len(l), Len(new))
           raised[k \in 0 .. Len(l)] ==
             IF k = 0 THEN room
             ELSE LET so == raised[k - 1] IN SwapElements(so, moves[k], moves[k] + Len(new))
<1>1. Prepended(l, new) = [i \in 1 .. Len(raised[Len(l)]) |->
                             IF i <= Len(new) THEN new[i] ELSE raised[Len(l)][i]]
  BY DEF Prepended
<1>2. Len(l) \in Nat
  BY ListedIs
<1>3. PICK g : g = [k \in 0 .. Len(l) |-> RaisedAt(g, Room(l, new), Len(l), Len(new), k)]
  <2>1. RaisesTo(Len(l), Room(l, new), Len(l), Len(new))
    BY <1>2, RaisesExist
  <2> QED
    BY <2>1 DEF RaisesTo
<1>4. g = [k \in 0 .. Len(l) |->
             IF k = 0 THEN room
             ELSE LET so == g[k - 1] IN SwapElements(so, moves[k], moves[k] + Len(new))]
  BY <1>3, Zenon DEF RaisedAt, Room
<1>5. raised = [k \in 0 .. Len(l) |->
             IF k = 0 THEN room
             ELSE LET so == raised[k - 1] IN SwapElements(so, moves[k], moves[k] + Len(new))]
  BY <1>4, Zenon
<1> HIDE DEF raised
<1>6. \A k \in 0 .. Len(l) : raised[k] = RaisedAt(raised, Room(l, new), Len(l), Len(new), k)
  BY <1>5, Zenon DEF RaisedAt, Room
<1> QED
  BY <1>1, <1>6

\* After k moves the last k of the list are where they will be, the others where they were.
RaisedSo(s, l, M, k) ==
  /\ Len(s) = Len(l) + M
  /\ \A i \in 1 .. Len(l) - k : s[i] = l[i]
  /\ \A i \in 1 .. Len(l) : Len(l) - k < i => s[i + M] = l[i]

LEMMA NextMove ==
  ASSUME NEW V, NEW l, NEW N \in Nat, N = Len(l), NEW M \in Nat, NEW k \in 0 .. N - 1,
         NEW s \in Seq(V), RaisedSo(s, l, M, k)
  PROVE  LET t == SwapElements(s, N - k, N - k + M)
         IN  t \in Seq(V) /\ RaisedSo(t, l, M, k + 1)
<1>1. PICK i : i = N - k
  OBVIOUS
<1>2. /\ i \in 1 .. N /\ i + M \in 1 .. N + M /\ i \in 1 .. N + M
      /\ N - (k + 1) = i - 1 /\ N - k = i /\ Len(s) = N + M
  BY <1>1 DEF RaisedSo
<1> DEFINE t == SwapElements(s, i, i + M)
<1>3. t \in Seq(V) /\ SwapSo(t, s, i, i + M)
  BY <1>2, SwapIs
<1> HIDE DEF t
<1>4. /\ Len(t) = N + M
      /\ \A j \in 1 .. N + M :
           t[j] = IF j = i + M THEN s[i] ELSE IF j = i THEN s[i + M] ELSE s[j]
  BY <1>2, <1>3 DEF SwapSo
<1>5. /\ \A j \in 1 .. i : s[j] = l[j]
      /\ \A j \in 1 .. N : i < j => s[j + M] = l[j]
  BY <1>2 DEF RaisedSo
<1>6. ASSUME NEW j \in 1 .. i - 1
      PROVE  t[j] = l[j]
  <2>1. j \in 1 .. i /\ j \in 1 .. N + M /\ j # i /\ j # i + M
    BY <1>2
  <2> QED
    BY <1>4, <1>5, <2>1
<1>7. ASSUME NEW j \in 1 .. N, i - 1 < j
      PROVE  t[j + M] = l[j]
  <2>1. CASE j = i
    <3>1. i \in 1 .. i
      BY <1>2
    <3> QED
      BY <1>2, <1>4, <1>5, <2>1, <3>1
  <2>2. CASE i < j
    <3>1. j + M \in 1 .. N + M /\ j + M # i + M /\ j + M # i
      BY <1>2, <2>2
    <3>2. t[j + M] = s[j + M]
      BY <1>4, <3>1
    <3> QED
      BY <1>5, <2>2, <3>2
  <2> QED
    BY <1>2, <1>7, <2>1, <2>2
<1> QED
  BY <1>2, <1>3, <1>4, <1>6, <1>7 DEF RaisedSo, t

\* The new ones, and behind them the list.
LEMMA PrependedIs ==
  ASSUME NEW l \in Listed, NEW new \in Listed
  PROVE  LET r == Prepended(l, new)
         IN  /\ r \in Listed /\ Len(r) = Len(l) + Len(new)
             /\ \A i \in 1 .. Len(new) : r[i] = new[i]
             /\ \A i \in 1 .. Len(l) : r[i + Len(new)] = l[i]
<1> DEFINE N == Len(l)
           M == Len(new)
           null == Property("", <<"null", 0>>)
           V == Named \cup {null}
           room == Room(l, new)
           r == Prepended(l, new)
<1>1. N \in Nat /\ M \in Nat
  BY ListedIs
<1>2. PICK g : /\ \A k \in 0 .. N : g[k] = RaisedAt(g, room, N, M, k)
               /\ r = [i \in 1 .. Len(g[N]) |-> IF i <= M THEN new[i] ELSE g[N][i]]
  BY PrependedUnfolds
<1>3. room \in Seq(V) /\ RaisedSo(room, l, M, 0)
  <2>1. PICK nulls : nulls = [i \in 1 .. M |-> null]
    OBVIOUS
  <2>2. nulls \in Seq(V) /\ Len(nulls) = M
    <3> HIDE DEF null, M
    <3> QED
      BY <1>1, <2>1
  <2>3. l \in Seq(V)
    <3>1. l \in [1 .. N -> V]
      <4>1. \A i \in 1 .. N : l[i] \in V
        BY ListedIs
      <4>2. l = [i \in 1 .. N |-> l[i]]
        BY DEF Listed, ListOf, Named, NamedOf
      <4> HIDE DEF V
      <4> QED
        BY <4>1, <4>2
    <3> HIDE DEF V, N
    <3> QED
      BY <1>1, <3>1
  <2>4. room = l \o nulls
    BY <2>1 DEF Room
  <2> HIDE DEF room, V
  <2>5. /\ l \o nulls \in Seq(V) /\ Len(l \o nulls) = Len(l) + Len(nulls)
        /\ \A i \in 1 .. Len(l) : (l \o nulls)[i] = l[i]
    <3> HIDE DEF N, M
    <3> QED
      BY <2>2, <2>3
  <2>6. N - 0 = N /\ \A i \in 1 .. N : ~ (N - 0 < i)
    BY <1>1
  <2> QED
    BY <2>2, <2>4, <2>5, <2>6 DEF RaisedSo
<1> DEFINE T == {k \in Nat : g[k] \in Seq(V) /\ RaisedSo(g[k], l, M, k)}
<1> HIDE DEF V, room
<1>4. 0 \in T
  <2>1. g[0] = room
    BY <1>1, <1>2 DEF RaisedAt
  <2> QED
    BY <1>3, <2>1
<1>5. ASSUME NEW k \in 0 .. N - 1, k \in T
      PROVE  k + 1 \in T
  <2>1. k + 1 \in 1 .. N /\ k + 1 \in 0 .. N /\ k + 1 # 0 /\ k + 1 - 1 = k /\ k + 1 \in Nat
        /\ N - (k + 1) + 1 = N - k
    BY <1>1
  <2>2. MovesUp(N, M)[k + 1] = N - k
    BY <2>1 DEF MovesUp
  <2>3. g[k + 1] = SwapElements(g[k], N - k, N - k + M)
    <3>1. PICK next : next = k + 1
      OBVIOUS
    <3>2. next \in 0 .. N /\ next # 0 /\ next - 1 = k /\ MovesUp(N, M)[next] = N - k
      BY <2>1, <2>2, <3>1
    <3>3. g[next] = RaisedAt(g, room, N, M, next)
      BY <1>2, <3>2
    <3> HIDE DEF N, M
    <3>4. g[next] = SwapElements(g[k], N - k, N - k + M)
      BY <3>2, <3>3 DEF RaisedAt
    <3> QED
      BY <3>1, <3>4
  <2>4. g[k] \in Seq(V) /\ RaisedSo(g[k], l, M, k)
    BY <1>5
  <2>5. g[k + 1] \in Seq(V) /\ RaisedSo(g[k + 1], l, M, k + 1)
    <3> HIDE DEF N, M
    <3>1. N = Len(l)
      BY DEF N
    <3> QED
      BY <1>1, <2>3, <2>4, <3>1, NextMove
  <2> QED
    BY <2>1, <2>5
<1>6. RaisedSo(g[N], l, M, N)
  <2> HIDE DEF T, N
  <2>1. \A k \in 0 .. N : k \in T
    BY <1>1, <1>4, <1>5, InductionFrom
  <2>2. N \in T
    BY <1>1, <2>1
  <2> QED
    BY <2>2 DEF T
<1>7. Len(g[N]) = N + M /\ \A i \in 1 .. N : g[N][i + M] = l[i]
  <2>1. \A i \in 1 .. N : N - N < i
    BY <1>1
  <2> QED
    BY <1>6, <2>1 DEF RaisedSo
<1>8. r = [i \in 1 .. N + M |-> IF i <= M THEN new[i] ELSE g[N][i]]
  BY <1>2, <1>7
<1> HIDE DEF r
<1>9. /\ \A i \in 1 .. M : i \in 1 .. N + M /\ i <= M
      /\ \A i \in 1 .. N : i + M \in 1 .. N + M /\ ~ (i + M <= M)
  BY <1>1
<1>10. /\ \A i \in 1 .. M : r[i] = new[i]
       /\ \A i \in 1 .. N : r[i + M] = l[i]
  BY <1>7, <1>8, <1>9
<1>11. r \in Listed /\ Len(r) = N + M
  <2>1. ASSUME NEW i \in 1 .. N + M
        PROVE  r[i] \in Named
    <3>1. CASE i <= M
      <4>1. i \in 1 .. M
        BY <1>1, <3>1
      <4> QED
        BY <1>10, <4>1, ListedIs
    <3>2. CASE ~ (i <= M)
      <4>1. i - M \in 1 .. N /\ i - M + M = i
        BY <1>1, <3>2
      <4>2. r[i - M + M] = l[i - M] /\ l[i - M] \in Named
        BY <1>10, <4>1, ListedIs
      <4> QED
        BY <4>1, <4>2
    <3> QED
      BY <3>1, <3>2
  <2>2. r \in [1 .. N + M -> Named] /\ N + M \in Nat
    BY <1>1, <1>8, <2>1
  <2> HIDE DEF N, M
  <2> QED
    BY <2>2, IsListed
<1> QED
  BY <1>10, <1>11 DEF r

\* What is captured hides what has its names, and nothing else.
LEMMA CapturedIs ==
  ASSUME NEW l \in Listed, NEW new \in Listed
  PROVE  LET r == Prepended(l, new)
         IN  /\ r \in Listed
             /\ \A n \in NamesOf(new) : MeaningIn(r, n) = MeaningIn(new, n)
             /\ \A n : n \notin NamesOf(new) => MeaningIn(r, n) = MeaningIn(l, n)
<1> DEFINE N == Len(l)
           M == Len(new)
           r == Prepended(l, new)
<1>1. N \in Nat /\ M \in Nat
  BY ListedIs
<1>2. /\ r \in Listed /\ Len(r) = N + M
      /\ \A i \in 1 .. M : r[i] = new[i]
      /\ \A i \in 1 .. N : r[i + M] = l[i]
  BY PrependedIs
<1> HIDE DEF r
<1>3. ASSUME NEW n \in NamesOf(new)
      PROVE  MeaningIn(r, n) = MeaningIn(new, n)
  <2>1. ~ Absent(new, n)
    BY DEF Absent, NamesOf
  <2>2. PICK i : FirstOf(new, n, i)
    BY <1>1, <2>1, FirstOrAbsent
  <2>3. i \in 1 .. M /\ new[i].name = n /\ \A j \in 1 .. M : j < i => new[j].name # n
    BY <2>2 DEF FirstOf
  <2>4. i \in 1 .. N + M /\ \A j \in 1 .. N + M : j < i => j \in 1 .. M
    BY <1>1, <2>3
  <2>5. FirstOf(r, n, i)
    BY <1>2, <2>3, <2>4 DEF FirstOf
  <2>6. Len(r) \in Nat /\ r[i] = new[i]
    BY <1>1, <1>2, <2>3
  <2>7. MeaningIn(r, n) = MeaningOf(r[i].value) /\ MeaningIn(new, n) = MeaningOf(new[i].value)
    BY <1>1, <2>2, <2>5, <2>6, FirstIsFound
  <2> QED
    BY <2>6, <2>7
<1>4. ASSUME NEW n, n \notin NamesOf(new)
      PROVE  MeaningIn(r, n) = MeaningIn(l, n)
  <2>1. \A j \in 1 .. M : r[j].name # n
    BY <1>2, <1>4 DEF NamesOf
  <2>2. ASSUME NEW i, FirstOf(l, n, i)
        PROVE  \E k : FirstOf(r, n, k) /\ r[k] = l[i]
    <3>1. i \in 1 .. N /\ l[i].name = n /\ \A j \in 1 .. N : j < i => l[j].name # n
      BY <2>2 DEF FirstOf
    <3>2. PICK k : k = i + M
      OBVIOUS
    <3>3. k \in 1 .. N + M /\ r[k] = l[i]
      BY <1>1, <1>2, <3>1, <3>2
    <3>4. ASSUME NEW j \in 1 .. N + M, j < k
          PROVE  r[j].name # n
      <4>1. CASE j \in 1 .. M
        BY <2>1, <4>1
      <4>2. CASE j \notin 1 .. M
        <5>1. j - M \in 1 .. N /\ j - M < i /\ j - M + M = j
          BY <1>1, <3>1, <3>2, <3>4, <4>2
        <5>2. r[j - M + M] = l[j - M] /\ l[j - M].name # n
          BY <1>2, <3>1, <5>1
        <5> QED
          BY <5>1, <5>2
      <4> QED
        BY <4>1, <4>2
    <3>5. FirstOf(r, n, k)
      BY <1>2, <3>1, <3>3, <3>4 DEF FirstOf
    <3> QED
      BY <3>3, <3>5
  <2>3. ASSUME Absent(l, n)
        PROVE  Absent(r, n)
    <3>1. ASSUME NEW j \in 1 .. N + M
          PROVE  r[j].name # n
      <4>1. CASE j \in 1 .. M
        BY <2>1, <4>1
      <4>2. CASE j \notin 1 .. M
        <5>1. j - M \in 1 .. N /\ j - M + M = j
          BY <1>1, <4>2
        <5>2. r[j - M + M] = l[j - M] /\ l[j - M].name # n
          BY <1>2, <2>3, <5>1 DEF Absent
        <5> QED
          BY <5>1, <5>2
      <4> QED
        BY <4>1, <4>2
    <3> QED
      BY <1>2, <3>1 DEF Absent
  <2>4. KeepsFirst(l, r, n)
    BY <2>2, <2>3 DEF KeepsFirst
  <2> QED
    BY <1>2, <2>4, KeptIsSame
<1> QED
  BY <1>2, <1>3, <1>4 DEF r

-----------------------------------------------------------------------------
(* The object.                                                             *)

ListIsOK == pool \in Pools /\ list \in Listed

LEMMA PoolIs ==
  ASSUME ListIsOK
  PROVE  /\ pool.length \in Nat
         /\ \A p \in pool.properties : p \in Named
         /\ \A live \in LiveProperties : live \in Listed
<1>1. /\ pool.length \in Nat
      /\ \A q \in pool.properties \cup pool.live : q \in Named
  BY PoolsAssumption DEF ListIsOK, Named, NamedOf
<1>2. ASSUME NEW live \in LiveProperties
      PROVE  live \in Listed
  <2>1. PICK n \in 1 .. pool.length : live \in [1 .. n -> pool.live]
    BY DEF LiveProperties
  <2>2. n \in Nat
    BY <1>1
  <2>3. live \in [1 .. n -> Named]
    BY <1>1, <2>1
  <2> QED
    BY <2>2, <2>3, IsListed
<1> QED
  BY <1>1, <1>2

\* The list is one of properties from the pool, with an order among their names.
LEMMA ListStaysOK == PropertiesSpec => []ListIsOK
<1>1. PropertiesInit => ListIsOK
  BY DEF PropertiesInit, ListIsOK, Listed, ListOf, Named, NamedOf
<1>2. ListIsOK /\ [PropertiesNext]_propertyVars => ListIsOK'
  <2> SUFFICES ASSUME ListIsOK, [PropertiesNext]_propertyVars
               PROVE  ListIsOK'
    OBVIOUS
  <2>1. list \in Listed /\ \A p \in pool.properties : p \in Named
    BY PoolIs DEF ListIsOK
  <2>2. ASSUME NEW p \in pool.properties, SetProperty(p)
        PROVE  ListIsOK'
    BY <2>1, <2>2, InsertedIs DEF SetProperty, Becomes, ListIsOK
  <2>3. ASSUME NEW p \in pool.properties, AddProperty(p)
        PROVE  ListIsOK'
    BY <2>1, <2>3, AddedIs DEF AddProperty, Becomes, ListIsOK
  <2>4. ASSUME NEW n \in NamesGiven, ClearProperty(n)
        PROVE  ListIsOK'
    BY <2>1, <2>4, ClearedIs DEF ClearProperty, Becomes, ListIsOK
  <2>5. CASE Normalize
    BY <2>1, <2>5, NormalizedIs DEF Normalize, Becomes, ListIsOK
  <2>6. CASE Rewrite
    BY <2>1, <2>6, RewrittenIs DEF Rewrite, Becomes, ListIsOK
  <2>7. ASSUME NEW live \in LiveProperties, CaptureLive(live)
        PROVE  ListIsOK'
    BY <2>1, <2>7, PoolIs, CapturedIs DEF CaptureLive, Becomes, ListIsOK
  <2>8. CASE UNCHANGED propertyVars
    BY <2>8 DEF propertyVars, ListIsOK
  <2> QED
    BY <2>2, <2>3, <2>4, <2>5, <2>6, <2>7, <2>8 DEF PropertiesNext
<1> QED
  BY <1>1, <1>2, PTL DEF PropertiesSpec

\* What is done with the list is done to the map that GetJsonProperty sees: to set, to add
\* and to clear a property change what there is of its name and of no other, whatever
\* duplicates the list holds; to normalize, to write and to read change nothing, for the
\* stable sort and unique keep the first of a name; and what CaptureLiveJsonOut puts
\* before the list hides what has its names only.
THEOREM ObjectImplementsMap == PropertiesSpec => ImplementsMap
<1>1. ListIsOK /\ [PropertiesNext]_propertyVars => [ActsOnMap]_propertyVars
  <2> SUFFICES ASSUME ListIsOK
               PROVE  ActsOnMap
    OBVIOUS
  <2> DEFINE M(n) == MeaningIn(list, n)
  <2>1. /\ list \in Listed
        /\ \A p \in pool.properties : p \in Named
        /\ \A live \in LiveProperties : live \in Listed
    BY PoolIs DEF ListIsOK
  <2>2. ASSUME NEW l, Becomes(l)
        PROVE  list' = l /\ NamesGiven' = NamesGiven
    BY <2>2 DEF Becomes, NamesGiven
  <2>3. ASSUME NEW p \in pool.properties
        PROVE  p \in Named /\ p.name \in NamesGiven
    BY <2>1 DEF NamesGiven
  <2>4. ASSUME NEW p \in pool.properties, SetProperty(p)
        PROVE  Map!Set(p.name, MeaningOf(p.value))
    <3>1. list' = Inserted(list, p.name, p.value) /\ NamesGiven' = NamesGiven
      BY <2>2, <2>4 DEF SetProperty
    <3>2. /\ MeaningIn(list', p.name) = MeaningOf(p.value)
          /\ \A n : n # p.name => MeaningIn(list', n) = MeaningIn(list, n)
      BY <2>1, <2>3, <3>1, InsertedIs
    <3> QED
      BY <3>1, <3>2 DEF Map!Set
  <2>5. ASSUME NEW p \in pool.properties, AddProperty(p)
        PROVE  Map!AddIfAbsent(p.name, MeaningOf(p.value))
    <3>1. list' = Append(list, p) /\ NamesGiven' = NamesGiven
      BY <2>2, <2>5 DEF AddProperty
    <3>2. /\ MeaningIn(list', p.name) =
                IF MeaningIn(list, p.name) = None THEN MeaningOf(p.value)
                ELSE MeaningIn(list, p.name)
          /\ \A n : n # p.name => MeaningIn(list', n) = MeaningIn(list, n)
      BY <2>1, <2>3, <3>1, AddedIs
    <3> QED
      BY <3>1, <3>2 DEF Map!AddIfAbsent
  <2>6. ASSUME NEW n \in NamesGiven, ClearProperty(n)
        PROVE  Map!Remove(n)
    <3>1. list' = Cleared(list, n) /\ NamesGiven' = NamesGiven
      BY <2>2, <2>6 DEF ClearProperty
    <3>2. /\ MeaningIn(list', n) = None
          /\ \A m : m # n => MeaningIn(list', m) = MeaningIn(list, m)
      BY <2>1, <3>1, ClearedIs
    <3> QED
      BY <3>1, <3>2 DEF Map!Remove
  <2>7. ASSUME Normalize \/ Rewrite
        PROVE  Map!Keep
    <3>1. NamesGiven' = NamesGiven
      BY <2>2, <2>7 DEF Normalize, Rewrite
    <3>2. CASE Normalize
      <4>1. \A n : MeaningIn(list', n) = MeaningIn(list, n)
        BY <2>1, <3>2, NormalizedIs DEF Normalize, Becomes
      <4> QED
        BY <3>1, <4>1 DEF Map!Keep
    <3>3. CASE Rewrite
      <4>1. \A n : MeaningIn(list', n) = MeaningIn(list, n)
        BY <2>1, <3>3, RewrittenIs DEF Rewrite, Becomes
      <4> QED
        BY <3>1, <4>1 DEF Map!Keep
    <3> QED
      BY <2>7, <3>2, <3>3
  <2>8. ASSUME NEW live \in LiveProperties, CaptureLive(live)
        PROVE  Map!Override([n \in NamesOf(live) |-> MeaningIn(live, n)])
    <3>1. list' = Prepended(list, live) /\ NamesGiven' = NamesGiven
      BY <2>2, <2>8 DEF CaptureLive
    <3>2. /\ \A n \in NamesOf(live) : MeaningIn(list', n) = MeaningIn(live, n)
          /\ \A n : n \notin NamesOf(live) => MeaningIn(list', n) = MeaningIn(list, n)
      BY <2>1, <3>1, CapturedIs
    <3> QED
      BY <3>1, <3>2 DEF Map!Override
  <2> QED
    BY <2>4, <2>5, <2>6, <2>7, <2>8 DEF ActsOnMap
<1> QED
  BY <1>1, ListStaysOK, PTL DEF PropertiesSpec, ImplementsMap

-----------------------------------------------------------------------------
(* The grammar.                                                            *)

\* The function by which Parts is defined.
UpToAt(g, text0, trailing, asIs, k) ==
  IF k = 0 THEN <<>>
  ELSE Append(g[k - 1], PartsFrom(text0, trailing, asIs, g[k - 1], k))

UpToExists(n, text0, trailing, asIs) ==
  \E g : g = [k \in 0 .. n |-> UpToAt(g, text0, trailing, asIs, k)]

LEMMA PartsExist ==
  ASSUME NEW n \in Nat, NEW text0, NEW trailing, NEW asIs
  PROVE  UpToExists(n, text0, trailing, asIs)
<1> DEFINE T == {p \in Nat : \E g : g = [k \in 0 .. p |-> UpToAt(g, text0, trailing, asIs, k)]}
<1>1. 0 \in T
  <2> DEFINE g == [k \in 0 .. 0 |-> <<>>]
  <2>1. \A k \in 0 .. 0 : UpToAt(g, text0, trailing, asIs, k) = <<>>
    BY DEF UpToAt
  <2>2. g = [k \in 0 .. 0 |-> UpToAt(g, text0, trailing, asIs, k)]
    <3> DEFINE h == [k \in 0 .. 0 |-> UpToAt(g, text0, trailing, asIs, k)]
    <3>1. \A k \in 0 .. 0 : h[k] = g[k]
      BY <2>1
    <3> QED
      BY <3>1
  <2> QED
    BY <2>2
<1>2. ASSUME NEW p \in 0 .. n - 1, p \in T
      PROVE  p + 1 \in T
  <2>1. PICK g : g = [k \in 0 .. p |-> UpToAt(g, text0, trailing, asIs, k)]
    BY <1>2
  <2> DEFINE h == [k \in 0 .. p + 1 |->
                     IF k <= p THEN g[k]
                     ELSE Append(g[p], PartsFrom(text0, trailing, asIs, g[p], p + 1))]
  <2>2. ASSUME NEW k \in 0 .. p + 1
        PROVE  h[k] = UpToAt(h, text0, trailing, asIs, k)
    <3>1. CASE k <= p
      <4>1. k \in 0 .. p /\ h[k] = g[k] /\ g[k] = UpToAt(g, text0, trailing, asIs, k)
        BY <2>1, <3>1
      <4>2. k # 0 => k - 1 \in 0 .. p + 1 /\ k - 1 <= p
        BY <3>1
      <4>3. k # 0 => h[k - 1] = g[k - 1]
        BY <4>2
      <4> HIDE DEF h
      <4> QED
        BY <4>1, <4>3 DEF UpToAt
    <3>2. CASE ~ (k <= p)
      <4>1. k = p + 1 /\ k # 0 /\ k - 1 = p /\ p \in 0 .. p + 1 /\ p <= p
        BY <3>2
      <4>2. /\ h[k] = Append(g[p], PartsFrom(text0, trailing, asIs, g[p], p + 1))
            /\ h[p] = g[p]
        BY <3>2, <4>1
      <4> HIDE DEF h
      <4> QED
        BY <4>1, <4>2 DEF UpToAt
    <3> QED
      BY <3>1, <3>2
  <2>3. h = [k \in 0 .. p + 1 |-> h[k]]
    OBVIOUS
  <2> HIDE DEF h
  <2>4. h = [k \in 0 .. p + 1 |-> UpToAt(h, text0, trailing, asIs, k)]
    BY <2>2, <2>3
  <2>5. p + 1 \in Nat
    OBVIOUS
  <2> QED
    BY <2>4, <2>5
<1>3. n \in T
  <2> HIDE DEF T
  <2>1. \A k \in 0 .. n : k \in T
    BY <1>1, <1>2, InductionFrom
  <2> QED
    BY <2>1
<1> QED
  BY <1>3 DEF UpToExists

\* So each of them is.
PartsSo(P, text0, trailing, asIs) ==
  \E g : /\ \A k \in 0 .. Len(text0) : g[k] = UpToAt(g, text0, trailing, asIs, k)
         /\ P = g[Len(text0)]

LEMMA PartsUnfold ==
  ASSUME NEW text0, Len(text0) \in Nat, NEW trailing, NEW asIs
  PROVE  PartsSo(Parts(text0, trailing, asIs), text0, trailing, asIs)
<1> DEFINE upTo[k \in 0 .. Len(text0)] ==
             IF k = 0 THEN <<>>
             ELSE LET less == upTo[k - 1]
                  IN  Append(less, PartsFrom(text0, trailing, asIs, less, k))
<1>1. Parts(text0, trailing, asIs) = upTo[Len(text0)]
  BY DEF Parts
<1>2. PICK g : g = [k \in 0 .. Len(text0) |-> UpToAt(g, text0, trailing, asIs, k)]
  <2>1. UpToExists(Len(text0), text0, trailing, asIs)
    BY PartsExist
  <2> QED
    BY <2>1 DEF UpToExists
<1>3. g = [k \in 0 .. Len(text0) |->
             IF k = 0 THEN <<>>
             ELSE LET less == g[k - 1]
                  IN  Append(less, PartsFrom(text0, trailing, asIs, less, k))]
  BY <1>2, Zenon DEF UpToAt
<1>4. upTo = [k \in 0 .. Len(text0) |->
             IF k = 0 THEN <<>>
             ELSE LET less == upTo[k - 1]
                  IN  Append(less, PartsFrom(text0, trailing, asIs, less, k))]
  BY <1>3, Zenon
<1> HIDE DEF upTo
<1>5. \A k \in 0 .. Len(text0) : upTo[k] = UpToAt(upTo, text0, trailing, asIs, k)
  BY <1>4, Zenon DEF UpToAt
<1> QED
  BY <1>1, <1>5 DEF PartsSo

\* The parts of the last k tokens are those that the parts of fewer give.
PartAt(P, text0, trailing, asIs, k) ==
  \E less : /\ DOMAIN less = 1 .. k - 1
            /\ \A j \in 1 .. k - 1 : less[j] = P[j]
            /\ P[k] = PartsFrom(text0, trailing, asIs, less, k)

LEMMA PartsAre ==
  ASSUME NEW text0, Len(text0) \in Nat, NEW trailing, NEW asIs, NEW P,
         PartsSo(P, text0, trailing, asIs)
  PROVE  /\ DOMAIN P = 1 .. Len(text0)
         /\ \A k \in 1 .. Len(text0) : PartAt(P, text0, trailing, asIs, k)
<1> DEFINE N == Len(text0)
<1>1. PICK g : /\ \A k \in 0 .. N : g[k] = UpToAt(g, text0, trailing, asIs, k)
               /\ P = g[N]
  BY DEF PartsSo
<1> DEFINE New(k) == PartsFrom(text0, trailing, asIs, g[k - 1], k)
           X == {New(k) : k \in 1 .. N}
           So(k) == /\ g[k] \in Seq(X) /\ Len(g[k]) = k
                    /\ \A j \in 1 .. k : g[k][j] = New(j)
           U == {k \in 0 .. N : So(k)}
<1>2. 0 \in U
  <2>1. g[0] = <<>> /\ 0 \in 0 .. N
    BY <1>1 DEF UpToAt
  <2> HIDE DEF New, X
  <2>2. g[0] \in Seq(X) /\ Len(g[0]) = 0
    BY <2>1
  <2>3. \A j \in 1 .. 0 : g[0][j] = New(j)
    OBVIOUS
  <2> QED
    BY <2>1, <2>2, <2>3
<1>3. ASSUME NEW k \in 0 .. N - 1, k \in U
      PROVE  k + 1 \in U
  <2>1. PICK next \in 1 .. N : next = k + 1 /\ next # 0 /\ next - 1 = k /\ next \in 0 .. N
    OBVIOUS
  <2>2. New(next) \in X
    BY <2>1
  <2>3. g[next] = UpToAt(g, text0, trailing, asIs, next)
    BY <1>1, <2>1
  <2>4. g[next] = Append(g[k], New(next))
    BY <2>1, <2>3 DEF UpToAt
  <2>5. g[k] \in Seq(X) /\ Len(g[k]) = k /\ \A j \in 1 .. k : g[k][j] = New(j)
    BY <1>3
  <2> HIDE DEF New, X
  <2>6. g[next] \in Seq(X) /\ Len(g[next]) = next
    BY <2>1, <2>2, <2>4, <2>5
  <2>7. ASSUME NEW j \in 1 .. next
        PROVE  g[next][j] = New(j)
    BY <2>1, <2>2, <2>4, <2>5
  <2> QED
    BY <2>1, <2>6, <2>7
<1>4. ASSUME NEW k \in 0 .. N
      PROVE  So(k)
  <2> HIDE DEF U
  <2>1. k \in U
    BY <1>2, <1>3, InductionFrom
  <2> HIDE DEF So
  <2> QED
    BY <2>1 DEF U
<1> HIDE DEF X
<1>5. DOMAIN P = 1 .. N /\ \A j \in 1 .. N : P[j] = New(j)
  BY <1>1, <1>4
<1>6. ASSUME NEW k \in 1 .. N
      PROVE  PartAt(P, text0, trailing, asIs, k)
  <2>1. k - 1 \in 0 .. N /\ \A j \in 1 .. k - 1 : j \in 1 .. N
    OBVIOUS
  <2>2. DOMAIN g[k - 1] = 1 .. k - 1 /\ \A j \in 1 .. k - 1 : g[k - 1][j] = New(j)
    BY <1>4, <2>1
  <2>3. \A j \in 1 .. k - 1 : g[k - 1][j] = P[j]
    BY <1>5, <2>1, <2>2
  <2> QED
    BY <1>5, <2>2, <2>3 DEF PartAt
<1> QED
  BY <1>5, <1>6

\* A list that may be between brackets, and what may stand in one.
IsBetween(P, k, open, n, l) == <<n, l>> = <<k, <<>>>> \/ <<n, l>> \in ListsAt(P, k, open)

IsOne(P, text0, k, open, m, x) ==
  IF open = "[" THEN <<m, x>> \in ValuesAt(P, k)
  ELSE \E name \in Strings : \E v :
         /\ NextIs(text0, k, name) /\ NextIs(text0, k - 1, ":")
         /\ <<m, v>> \in ValuesAt(P, k - 2) /\ x = Property(name, v)

IsMore(P, text0, trailing, k, open, n, l) ==
  \/ n = k /\ l = <<>>
  \/ NextIs(text0, k, ",") /\ <<n, l>> \in ListsAt(P, k - 1, open)
  \/ NextIs(text0, k, ",") /\ trailing /\ n = k - 1 /\ l = <<>>

\* What the parts of a text are, each given by those after it.
ScalarAt(text0, k, m, v) ==
  \E t \in Strings \cup Scalars : NextIs(text0, k, t) /\ m = k - 1 /\ v = Scalar(t)

ContainerAt(P, text0, asIs, k, m, v) ==
  \E open \in Brackets : \E n, l :
    /\ NextIs(text0, k, open) /\ IsBetween(P, k - 1, open, n, l)
    /\ NextIs(text0, n, Closing(open))
    /\ m = n - 1 /\ v = Container(open, l, asIs)

ListAt(P, text0, trailing, k, open, n, l) ==
  \E m, x, r : /\ IsOne(P, text0, k, open, m, x)
               /\ IsMore(P, text0, trailing, m, open, n, r)
               /\ l = <<x>> \o r

IsList(l) == \E S : l \in Seq(S)

LEMMA OneBeforeIsList ==
  ASSUME NEW x, NEW r, IsList(r)
  PROVE  IsList(<<x>> \o r)
<1>1. PICK S : r \in Seq(S)
  BY DEF IsList
<1>2. r \in Seq(S \cup {x}) /\ <<x>> \in Seq(S \cup {x})
  BY <1>1
<1>3. <<x>> \o r \in Seq(S \cup {x})
  BY <1>2
<1> QED
  BY <1>3 DEF IsList

\* Parts are given by the numbers of tokens that are left after them, and what they mean.
ValuesOK(values, k) == \A q \in values : \E m \in 0 .. k - 1 : \E v : q = <<m, v>>

ListsOK(lists, k) == \A q \in lists : \E n \in 0 .. k - 1 : \E l : IsList(l) /\ q = <<n, l>>

PartsOK(P, k) ==
  \A j \in 1 .. k : /\ ValuesOK(ValuesAt(P, j), j)
                    /\ \A open \in Brackets : ListsOK(ListsAt(P, j, open), j)

LEMMA ValuesFromOK ==
  ASSUME NEW text0, NEW asIs, NEW less, NEW k \in Nat \ {0},
         DOMAIN less = 1 .. k - 1, PartsOK(less, k - 1)
  PROVE  ValuesOK(ValuesFrom(text0, asIs, less, k), k)
<1> SUFFICES ASSUME NEW q \in ValuesFrom(text0, asIs, less, k)
             PROVE  \E m \in 0 .. k - 1 : \E v : q = <<m, v>>
  BY DEF ValuesOK
<1>1. CASE \E t \in Strings \cup Scalars : q = <<k - 1, Scalar(t)>>
  BY <1>1
<1>2. ASSUME NEW open \in Brackets, q \in Enclosed(text0, asIs, less, k, open)
      PROVE  \E m \in 0 .. k - 1 : \E v : q = <<m, v>>
  <2>1. PICK l \in {<<k - 1, <<>>>>} \cup ListsAt(less, k - 1, open) :
               NextIs(text0, l[1], Closing(open)) /\ q = <<l[1] - 1, Container(open, l[2], asIs)>>
    BY <1>2 DEF Enclosed
  <2>2. l[1] \in 0 .. k - 1
    <3>1. CASE l = <<k - 1, <<>>>>
      BY <3>1
    <3>2. CASE l \in ListsAt(less, k - 1, open)
      <4>1. k - 1 \in DOMAIN less
        BY <3>2 DEF ListsAt
      <4>2. CASE k - 1 \in 1 .. k - 1
        <5>1. ListsOK(ListsAt(less, k - 1, open), k - 1)
          BY <4>2 DEF PartsOK
        <5> QED
          BY <3>2, <5>1 DEF ListsOK
      <4> QED
        BY <4>1, <4>2
    <3> QED
      BY <2>1, <3>1, <3>2
  <2>3. l[1] > 0
    BY <2>1 DEF NextIs
  <2>4. l[1] - 1 \in 0 .. k - 1
    BY <2>2, <2>3
  <2> QED
    BY <2>1, <2>4
<1> QED
  BY <1>1, <1>2 DEF ValuesFrom

LEMMA PartsBelowOK ==
  ASSUME NEW less, NEW k \in Nat \ {0}, DOMAIN less = 1 .. k - 1, PartsOK(less, k - 1),
         NEW j \in Int, j < k
  PROVE  /\ ValuesOK(ValuesAt(less, j), j)
         /\ \A open \in Brackets : ListsOK(ListsAt(less, j, open), j)
<1>1. CASE j \in 1 .. k - 1
  BY <1>1 DEF PartsOK
<1>2. CASE j \notin 1 .. k - 1
  BY <1>2 DEF ValuesAt, ListsAt, ValuesOK, ListsOK
<1> QED
  BY <1>1, <1>2

LEMMA OnesFromOK ==
  ASSUME NEW text0, NEW less, NEW k \in Nat \ {0}, NEW open, NEW values,
         DOMAIN less = 1 .. k - 1, PartsOK(less, k - 1), ValuesOK(values, k)
  PROVE  ValuesOK(OnesFrom(text0, less, k, open, values), k)
<1>1. CASE open = "["
  BY <1>1 DEF OnesFrom
<1>2. CASE open # "["
  <2>1. ASSUME NEW q \in OnesFrom(text0, less, k, open, values)
        PROVE  \E m \in 0 .. k - 1 : \E v : q = <<m, v>>
    <3>1. PICK n \in Strings : \E p \in ValuesAt(less, k - 2) : q = <<p[1], Property(n, p[2])>>
      BY <1>2, <2>1 DEF OnesFrom
    <3>2. PICK p \in ValuesAt(less, k - 2) : q = <<p[1], Property(n, p[2])>>
      BY <3>1
    <3>3. ValuesOK(ValuesAt(less, k - 2), k - 2)
      BY PartsBelowOK
    <3>4. p[1] \in 0 .. k - 1
      BY <3>3 DEF ValuesOK
    <3> QED
      BY <3>2, <3>4
  <2> QED
    BY <2>1 DEF ValuesOK
<1> QED
  BY <1>1, <1>2

LEMMA MoreOK ==
  ASSUME NEW text0, NEW trailing, NEW less, NEW k \in Nat \ {0}, NEW open \in Brackets,
         DOMAIN less = 1 .. k - 1, PartsOK(less, k - 1), NEW m \in 0 .. k - 1,
         NEW q \in More(text0, trailing, less, m, open)
  PROVE  \E n \in 0 .. m : \E l : IsList(l) /\ q = <<n, l>>
<1>1. IsList(<<>>)
  <2>1. <<>> \in Seq({})
    OBVIOUS
  <2> QED
    BY <2>1 DEF IsList
<1>2. CASE q = <<m, <<>>>>
  BY <1>1, <1>2
<1>3. CASE NextIs(text0, m, ",") /\ q \in ListsAt(less, m - 1, open)
  <2>1. ListsOK(ListsAt(less, m - 1, open), m - 1)
    BY PartsBelowOK
  <2>2. PICK n \in 0 .. m - 1 - 1 : \E l : IsList(l) /\ q = <<n, l>>
    BY <1>3, <2>1 DEF ListsOK
  <2>3. n \in 0 .. m
    OBVIOUS
  <2> QED
    BY <2>2, <2>3
<1>4. CASE NextIs(text0, m, ",") /\ q = <<m - 1, <<>>>>
  <2>1. m > 0 /\ m \in Nat
    <3>1. m \in Nat
      OBVIOUS
    <3>2. m > 0
      BY <1>4, Zenon DEF NextIs
    <3> QED
      BY <3>1, <3>2
  <2>2. m - 1 \in 0 .. m
    BY <2>1
  <2> QED
    BY <1>1, <1>4, <2>2
<1> QED
  BY <1>2, <1>3, <1>4 DEF More

LEMMA ListsFromOK ==
  ASSUME NEW text0, NEW trailing, NEW less, NEW k \in Nat \ {0}, NEW open \in Brackets, NEW ones,
         DOMAIN less = 1 .. k - 1, PartsOK(less, k - 1), ValuesOK(ones, k)
  PROVE  ListsOK(ListsFrom(text0, trailing, less, open, ones), k)
<1> SUFFICES ASSUME NEW q \in ListsFrom(text0, trailing, less, open, ones)
             PROVE  \E n \in 0 .. k - 1 : \E l : IsList(l) /\ q = <<n, l>>
  BY DEF ListsOK
<1>1. PICK p \in ones : \E r \in More(text0, trailing, less, p[1], open) :
                          q = <<r[1], <<p[2]>> \o r[2]>>
  BY DEF ListsFrom
<1>2. PICK r \in More(text0, trailing, less, p[1], open) : q = <<r[1], <<p[2]>> \o r[2]>>
  BY <1>1
<1>3. p[1] \in 0 .. k - 1
  BY DEF ValuesOK
<1>4. PICK n \in 0 .. p[1] : \E l : IsList(l) /\ r = <<n, l>>
  BY <1>3, MoreOK
<1>5. PICK l : IsList(l) /\ r = <<n, l>>
  BY <1>4
<1>6. IsList(<<p[2]>> \o l) /\ q = <<n, <<p[2]>> \o l>>
  BY <1>2, <1>5, OneBeforeIsList
<1>7. n \in 0 .. k - 1
  BY <1>3
<1> QED
  BY <1>6, <1>7

\* They are what they should be.
LEMMA PartsStayOK ==
  ASSUME NEW text0, Len(text0) \in Nat, NEW trailing, NEW asIs, NEW P,
         DOMAIN P = 1 .. Len(text0),
         \A k \in 1 .. Len(text0) : PartAt(P, text0, trailing, asIs, k)
  PROVE  PartsOK(P, Len(text0))
<1> DEFINE N == Len(text0)
           U == {k \in 0 .. N : PartsOK(P, k)}
<1>1. 0 \in U
  BY DEF PartsOK
<1>2. ASSUME NEW j \in 0 .. N - 1, j \in U
      PROVE  j + 1 \in U
  <2>1. PICK k \in 1 .. N : k = j + 1 /\ k - 1 = j /\ k \in Nat \ {0}
    OBVIOUS
  <2>2. PICK less : /\ DOMAIN less = 1 .. k - 1
                    /\ \A i \in 1 .. k - 1 : less[i] = P[i]
                    /\ P[k] = PartsFrom(text0, trailing, asIs, less, k)
    BY DEF PartAt
  <2>3. \A i \in 1 .. k - 1 : i \in DOMAIN P /\ i \in DOMAIN less
    BY <2>2
  <2>4. \A i \in 1 .. k - 1 : /\ ValuesAt(less, i) = ValuesAt(P, i)
                              /\ \A open : ListsAt(less, i, open) = ListsAt(P, i, open)
    BY <2>2, <2>3 DEF ValuesAt, ListsAt
  <2>5. PartsOK(P, k - 1)
    BY <1>2, <2>1
  <2>6. PartsOK(less, k - 1)
    BY <2>4, <2>5 DEF PartsOK
  <2> DEFINE values == ValuesFrom(text0, asIs, less, k)
             lists(open) == ListsFrom(text0, trailing, less, open,
                                      OnesFrom(text0, less, k, open, values))
  <2>7. ValuesAt(P, k) = values /\ \A open \in Brackets : ListsAt(P, k, open) = lists(open)
    BY <2>2 DEF ValuesAt, ListsAt, PartsFrom
  <2>8. ValuesOK(values, k)
    BY <2>2, <2>6, <2>1, ValuesFromOK
  <2> HIDE DEF values
  <2>9. \A open \in Brackets : ListsOK(lists(open), k)
    BY <2>1, <2>2, <2>6, <2>8, OnesFromOK, ListsFromOK
  <2>10. PartsOK(P, k)
    BY <2>1, <2>5, <2>7, <2>8, <2>9 DEF PartsOK
  <2> QED
    BY <2>1, <2>10
<1>3. N \in U
  <2> HIDE DEF U
  <2>1. \A k \in 0 .. N : k \in U
    BY <1>1, <1>2, InductionFrom
  <2> QED
    BY <2>1
<1> QED
  BY <1>3

Beyond(less, P, k) ==
  \A j \in Int : j < k => /\ ValuesAt(less, j) = ValuesAt(P, j)
                          /\ \A open \in Brackets : ListsAt(less, j, open) = ListsAt(P, j, open)

\* The parts of a text, each given by those after it.
Unfolds(P, text0, trailing, asIs) ==
  /\ PartsOK(P, Len(text0)) /\ DOMAIN P = 1 .. Len(text0)
  /\ \A k \in 1 .. Len(text0) :
       /\ \A m, v : <<m, v>> \in ValuesAt(P, k) <=>
                      ScalarAt(text0, k, m, v) \/ ContainerAt(P, text0, asIs, k, m, v)
       /\ \A open \in Brackets : \A n, l :
            <<n, l>> \in ListsAt(P, k, open) <=> ListAt(P, text0, trailing, k, open, n, l)

LEMMA ValueFromIs ==
  ASSUME NEW text0, NEW asIs, NEW less, NEW P, NEW k \in Nat \ {0}, DOMAIN less = 1 .. k - 1,
         PartsOK(less, k - 1), Beyond(less, P, k), NEW m, NEW v
  PROVE  <<m, v>> \in ValuesFrom(text0, asIs, less, k) <=>
           ScalarAt(text0, k, m, v) \/ ContainerAt(P, text0, asIs, k, m, v)
<1>1. ScalarAt(text0, k, m, v) <=>
        <<m, v>> \in {<<k - 1, Scalar(t)>> : t \in {u \in Strings \cup Scalars : NextIs(text0, k, u)}}
  BY DEF ScalarAt
<1>2. ASSUME NEW open \in Brackets
      PROVE  <<m, v>> \in Enclosed(text0, asIs, less, k, open) <=>
               \E n, l : /\ IsBetween(P, k - 1, open, n, l) /\ NextIs(text0, n, Closing(open))
                         /\ m = n - 1 /\ v = Container(open, l, asIs)
  <2>1. ListsAt(less, k - 1, open) = ListsAt(P, k - 1, open)
    BY DEF Beyond
  <2>2. ListsOK(ListsAt(P, k - 1, open), k - 1)
    BY <2>1, PartsBelowOK
  <2>3. ASSUME <<m, v>> \in Enclosed(text0, asIs, less, k, open)
        PROVE  \E n, l : /\ IsBetween(P, k - 1, open, n, l) /\ NextIs(text0, n, Closing(open))
                         /\ m = n - 1 /\ v = Container(open, l, asIs)
    <3>1. PICK q \in {<<k - 1, <<>>>>} \cup ListsAt(P, k - 1, open) :
                 /\ NextIs(text0, q[1], Closing(open))
                 /\ <<m, v>> = <<q[1] - 1, Container(open, q[2], asIs)>>
      BY <2>1, <2>3 DEF Enclosed
    <3>2. q = <<q[1], q[2]>>
      BY <2>2 DEF ListsOK
    <3>3. IsBetween(P, k - 1, open, q[1], q[2])
      BY <3>2 DEF IsBetween
    <3> QED
      BY <3>1, <3>3
  <2>4. ASSUME NEW n, NEW l, IsBetween(P, k - 1, open, n, l), NextIs(text0, n, Closing(open)),
               m = n - 1, v = Container(open, l, asIs)
        PROVE  <<m, v>> \in Enclosed(text0, asIs, less, k, open)
    <3>1. <<n, l>> \in {<<k - 1, <<>>>>} \cup ListsAt(less, k - 1, open)
      BY <2>1, <2>4 DEF IsBetween
    <3> QED
      BY <2>4, <3>1 DEF Enclosed
  <2> QED
    BY <2>3, <2>4
<1>3. ContainerAt(P, text0, asIs, k, m, v) <=>
        \E open \in Brackets : /\ NextIs(text0, k, open)
                               /\ <<m, v>> \in Enclosed(text0, asIs, less, k, open)
  BY <1>2, Zenon DEF ContainerAt
<1> QED
  BY <1>1, <1>3 DEF ValuesFrom

LEMMA ListFromIs ==
  ASSUME NEW text0, NEW trailing, NEW less, NEW P, NEW k \in Nat \ {0}, NEW open \in Brackets,
         NEW values, DOMAIN less = 1 .. k - 1, PartsOK(less, k - 1), ValuesOK(values, k),
         Beyond(less, P, k), values = ValuesAt(P, k), NEW n, NEW l
  PROVE  <<n, l>> \in ListsFrom(text0, trailing, less, open,
                                OnesFrom(text0, less, k, open, values)) <=>
           ListAt(P, text0, trailing, k, open, n, l)
<1> DEFINE ones == OnesFrom(text0, less, k, open, values)
<1>1. ASSUME NEW m, NEW x
      PROVE  <<m, x>> \in ones <=> IsOne(P, text0, k, open, m, x)
  <2>1. CASE open = "["
    BY <2>1 DEF OnesFrom, IsOne
  <2>2. CASE open # "["
    <3>1. ValuesAt(less, k - 2) = ValuesAt(P, k - 2)
      BY DEF Beyond
    <3>2. ValuesOK(ValuesAt(P, k - 2), k - 2)
      BY <3>1, PartsBelowOK
    <3>3. <<m, x>> \in ones <=>
            \E name \in Strings : /\ NextIs(text0, k, name) /\ NextIs(text0, k - 1, ":")
                                  /\ \E p \in ValuesAt(P, k - 2) :
                                       <<m, x>> = <<p[1], Property(name, p[2])>>
      BY <2>2, <3>1 DEF OnesFrom
    <3>4. \A p \in ValuesAt(P, k - 2) : p = <<p[1], p[2]>>
      BY <3>2 DEF ValuesOK
    <3> HIDE DEF ones
    <3> QED
      BY <2>2, <3>3, <3>4 DEF IsOne
  <2> QED
    BY <2>1, <2>2
<1>2. ValuesOK(ones, k)
  BY OnesFromOK
<1> HIDE DEF ones
<1>3. ASSUME NEW m \in 0 .. k - 1, NEW r
      PROVE  <<n, r>> \in More(text0, trailing, less, m, open) <=>
               IsMore(P, text0, trailing, m, open, n, r)
  <2>1. ListsAt(less, m - 1, open) = ListsAt(P, m - 1, open)
    BY DEF Beyond
  <2> QED
    BY <2>1 DEF More, IsMore
<1>4. ASSUME <<n, l>> \in ListsFrom(text0, trailing, less, open, ones)
      PROVE  ListAt(P, text0, trailing, k, open, n, l)
  <2>1. PICK p \in ones : \E r \in More(text0, trailing, less, p[1], open) :
                            <<n, l>> = <<r[1], <<p[2]>> \o r[2]>>
    BY <1>4 DEF ListsFrom
  <2>2. PICK r \in More(text0, trailing, less, p[1], open) :
               <<n, l>> = <<r[1], <<p[2]>> \o r[2]>>
    BY <2>1
  <2>3. p = <<p[1], p[2]>> /\ p[1] \in 0 .. k - 1
    BY <1>2 DEF ValuesOK
  <2>4. r = <<r[1], r[2]>>
    BY <2>3, MoreOK
  <2>5. r = <<n, r[2]>> /\ l = <<p[2]>> \o r[2]
    BY <2>2, <2>4
  <2>6. IsOne(P, text0, k, open, p[1], p[2])
    BY <1>1, <2>3
  <2>7. IsMore(P, text0, trailing, p[1], open, n, r[2])
    BY <1>3, <2>3, <2>5
  <2> QED
    BY <2>5, <2>6, <2>7, Zenon DEF ListAt
<1>5. ASSUME ListAt(P, text0, trailing, k, open, n, l)
      PROVE  <<n, l>> \in ListsFrom(text0, trailing, less, open, ones)
  <2>1. PICK m, x, r : /\ IsOne(P, text0, k, open, m, x)
                       /\ IsMore(P, text0, trailing, m, open, n, r)
                       /\ l = <<x>> \o r
    BY <1>5, Zenon DEF ListAt
  <2>2. <<m, x>> \in ones
    BY <1>1, <2>1
  <2>3. m \in 0 .. k - 1
    BY <1>2, <2>2 DEF ValuesOK
  <2>4. <<n, r>> \in More(text0, trailing, less, m, open)
    BY <1>3, <2>1, <2>3
  <2>5. PICK p \in ones : p = <<m, x>> /\ p[1] = m /\ p[2] = x
    BY <2>2
  <2>6. PICK q \in More(text0, trailing, less, p[1], open) : q = <<n, r>> /\ q[1] = n /\ q[2] = r
    BY <2>4, <2>5
  <2>7. <<n, l>> = <<q[1], <<p[2]>> \o q[2]>>
    BY <2>1, <2>5, <2>6
  <2>8. <<n, l>> \in {<<z[1], <<p[2]>> \o z[2]>> : z \in More(text0, trailing, less, p[1], open)}
    BY <2>7
  <2> QED
    BY <2>8, Zenon DEF ListsFrom
<1> QED
  BY <1>4, <1>5 DEF ones

LEMMA GrammarUnfolds ==
  ASSUME NEW text0, Len(text0) \in Nat, NEW trailing, NEW asIs
  PROVE  Unfolds(Parts(text0, trailing, asIs), text0, trailing, asIs)
<1> DEFINE N == Len(text0)
           P == Parts(text0, trailing, asIs)
<1>1. /\ DOMAIN P = 1 .. N
      /\ \A k \in 1 .. N : PartAt(P, text0, trailing, asIs, k)
  <2>1. PartsSo(P, text0, trailing, asIs)
    BY PartsUnfold
  <2> HIDE DEF P
  <2> QED
    BY <2>1, PartsAre
<1> HIDE DEF P
<1>2. PartsOK(P, N)
  BY <1>1, PartsStayOK
<1>3. ASSUME NEW k \in 1 .. N
      PROVE  /\ \A m, v : <<m, v>> \in ValuesAt(P, k) <=>
                            ScalarAt(text0, k, m, v) \/ ContainerAt(P, text0, asIs, k, m, v)
             /\ \A open \in Brackets : \A n, l :
                  <<n, l>> \in ListsAt(P, k, open) <=> ListAt(P, text0, trailing, k, open, n, l)
  <2>1. k \in Nat \ {0}
    OBVIOUS
  <2>2. PICK less : /\ DOMAIN less = 1 .. k - 1
                    /\ \A i \in 1 .. k - 1 : less[i] = P[i]
                    /\ P[k] = PartsFrom(text0, trailing, asIs, less, k)
    BY <1>1 DEF PartAt
  <2>3. Beyond(less, P, k)
    <3>1. ASSUME NEW j \in Int, j < k
          PROVE  /\ ValuesAt(less, j) = ValuesAt(P, j)
                 /\ \A open \in Brackets : ListsAt(less, j, open) = ListsAt(P, j, open)
      <4>1. CASE j \in 1 .. k - 1
        BY <1>1, <2>2, <4>1 DEF ValuesAt, ListsAt
      <4>2. CASE j \notin 1 .. k - 1
        <5>1. j \notin 1 .. N
          BY <3>1, <4>2
        <5> QED
          BY <1>1, <2>2, <4>2, <5>1 DEF ValuesAt, ListsAt
      <4> QED
        BY <4>1, <4>2
    <3> QED
      BY <3>1 DEF Beyond
  <2>4. PartsOK(less, k - 1)
    <3>1. \A j \in 1 .. k - 1 : j \in 1 .. N /\ j \in Int /\ j < k
      OBVIOUS
    <3> QED
      BY <1>2, <2>3, <3>1 DEF PartsOK, Beyond
  <2> DEFINE values == ValuesFrom(text0, asIs, less, k)
  <2>5. /\ ValuesAt(P, k) = values
        /\ \A open \in Brackets :
             ListsAt(P, k, open) = ListsFrom(text0, trailing, less, open,
                                             OnesFrom(text0, less, k, open, values))
    BY <1>1, <2>2 DEF ValuesAt, ListsAt, PartsFrom
  <2>6. \A m, v : <<m, v>> \in values <=>
                    ScalarAt(text0, k, m, v) \/ ContainerAt(P, text0, asIs, k, m, v)
    BY <2>1, <2>2, <2>3, <2>4, ValueFromIs
  <2>7. ValuesOK(values, k)
    BY <2>1, <2>2, <2>4, ValuesFromOK
  <2> HIDE DEF values
  <2>8. ASSUME NEW open \in Brackets, NEW n, NEW l
        PROVE  <<n, l>> \in ListsAt(P, k, open) <=> ListAt(P, text0, trailing, k, open, n, l)
    BY <2>1, <2>2, <2>3, <2>4, <2>5, <2>7, ListFromIs
  <2> QED
    BY <2>5, <2>6, <2>8
<1>4. Unfolds(P, text0, trailing, asIs)
  BY <1>1, <1>2, <1>3 DEF Unfolds
<1> QED
  BY <1>4 DEF P

-----------------------------------------------------------------------------
(* What a text can still mean.                                             *)

LEMMA ListsAppend ==
  ASSUME NEW d, NEW x, IsList(d)
  PROVE  /\ d \o <<>> = d /\ <<>> \o d = d
         /\ IsList(d \o <<x>>) /\ d \o <<x>> # <<>>
         /\ d \o <<x>> = Append(d, x)
<1>1. PICK S : d \in Seq(S)
  BY DEF IsList
<1>2. d \in Seq(S \cup {x}) /\ <<x>> \in Seq(S \cup {x})
  BY <1>1
<1>3. d \o <<>> = d /\ <<>> \o d = d
  BY <1>1
<1>4. d \o <<x>> \in Seq(S \cup {x})
  BY <1>2
<1>5. d \o <<x>> # <<>>
  BY <1>2
<1>6. d \o <<x>> = Append(d, x)
  BY <1>2
<1> QED
  BY <1>3, <1>4, <1>5, <1>6 DEF IsList

LEMMA ListsJoin ==
  ASSUME NEW d, NEW x, NEW l, IsList(d), IsList(l)
  PROVE  d \o (<<x>> \o l) = (d \o <<x>>) \o l
<1>1. PICK S : d \in Seq(S)
  BY DEF IsList
<1>2. PICK R : l \in Seq(R)
  BY DEF IsList
<1> DEFINE A == S \cup R \cup {x}
<1>3. d \in Seq(A) /\ l \in Seq(A) /\ <<x>> \in Seq(A)
  BY <1>1, <1>2
<1> HIDE DEF A
<1> QED
  BY <1>3

\* A text, what is allowed in it, and its parts.
Lawful(G) ==
  /\ Len(G.text) \in Nat
  /\ Unfolds(G.parts, G.text, G.trailing, G.asIs)

GrammarOf(text0, trailing, asIs) ==
  [text |-> text0, trailing |-> trailing, asIs |-> asIs, parts |-> Parts(text0, trailing, asIs)]

Next1(G, k, token) == NextIs(G.text, k, token)

Means(G, open, l) == Container(open, l, G.asIs)

\* A frame f is a list that is not complete: the bracket before it, what it already has,
\* and the name of the property whose value comes next, if it has names.
OneOf(f, v) == IF f.open = "[" THEN v ELSE Property(f.name, v)

\* When the value that comes next is q, the list can end as r.
Finishes(G, f, q, r) ==
  \E n, l : /\ IsMore(G.parts, G.text, G.trailing, q[1], f.open, n, l)
            /\ Next1(G, n, Closing(f.open))
            /\ r = <<n - 1, Means(G, f.open, f.done \o (<<OneOf(f, q[2])>> \o l))>>

Chain(G, fs, depth, c, v) ==
  c[1] = <<0, v>> /\ \A i \in 1 .. depth : Finishes(G, fs[i], c[i + 1], c[i])

\* When the value at this depth is q, the text can mean v.
Leads(G, fs, depth, q, v) == \E c : Chain(G, fs, depth, c, v) /\ c[depth + 1] = q

LEMMA LeadsAtTop ==
  ASSUME NEW G, NEW fs, NEW q, NEW v
  PROVE  Leads(G, fs, 0, q, v) <=> q = <<0, v>>
<1>1. ASSUME Leads(G, fs, 0, q, v)
      PROVE  q = <<0, v>>
  BY <1>1 DEF Leads, Chain
<1>2. ASSUME q = <<0, v>>
      PROVE  Leads(G, fs, 0, q, v)
  <2> DEFINE c == <<q>>
  <2>1. c[1] = <<0, v>> /\ c[0 + 1] = q
    BY <1>2
  <2>2. \A i \in 1 .. 0 : Finishes(G, fs[i], c[i + 1], c[i])
    OBVIOUS
  <2> HIDE DEF c
  <2> QED
    BY <2>1, <2>2 DEF Leads, Chain
<1> QED
  BY <1>1, <1>2

LEMMA LeadsDown ==
  ASSUME NEW G, NEW fs, NEW depth \in Nat, NEW q, NEW v
  PROVE  Leads(G, fs, depth + 1, q, v) <=>
           \E r : Finishes(G, fs[depth + 1], q, r) /\ Leads(G, fs, depth, r, v)
<1> DEFINE D == depth + 1
<1>1. ASSUME Leads(G, fs, D, q, v)
      PROVE  \E r : Finishes(G, fs[D], q, r) /\ Leads(G, fs, depth, r, v)
  <2>1. PICK c : Chain(G, fs, D, c, v) /\ c[D + 1] = q
    BY <1>1 DEF Leads
  <2>2. D \in 1 .. D /\ \A i \in 1 .. depth : i \in 1 .. D
    OBVIOUS
  <2> HIDE DEF D
  <2>3. Finishes(G, fs[D], q, c[D]) /\ Chain(G, fs, depth, c, v)
    BY <2>1, <2>2 DEF Chain
  <2>4. Leads(G, fs, depth, c[D], v)
    BY <2>3 DEF Leads, D
  <2> QED
    BY <2>3, <2>4
<1>2. ASSUME NEW r, Finishes(G, fs[D], q, r), Leads(G, fs, depth, r, v)
      PROVE  Leads(G, fs, D, q, v)
  <2>1. PICK c : Chain(G, fs, depth, c, v) /\ c[D] = r
    BY <1>2 DEF Leads
  <2> DEFINE b == [i \in 1 .. D + 1 |-> IF i <= D THEN c[i] ELSE q]
  <2>2. \A i \in 1 .. D : b[i] = c[i]
    OBVIOUS
  <2>3. b[D + 1] = q /\ 1 \in 1 .. D
    OBVIOUS
  <2>4. ASSUME NEW i \in 1 .. D
        PROVE  Finishes(G, fs[i], b[i + 1], b[i])
    <3>1. CASE i = D
      <4>1. b[i + 1] = q /\ b[i] = r
        BY <2>1, <2>2, <2>3, <3>1
      <4> HIDE DEF b
      <4> QED
        BY <1>2, <3>1, <4>1
    <3>2. CASE i # D
      <4>1. i \in 1 .. depth /\ i + 1 \in 1 .. D
        BY <3>2
      <4>2. b[i + 1] = c[i + 1] /\ b[i] = c[i]
        BY <2>2, <4>1
      <4> HIDE DEF b
      <4> QED
        BY <2>1, <4>1, <4>2 DEF Chain
    <3> QED
      BY <3>1, <3>2
  <2> HIDE DEF b, D
  <2>5. b[1] = <<0, v>>
    BY <2>1, <2>2, <2>3 DEF Chain
  <2> QED
    BY <2>3, <2>4, <2>5 DEF Leads, Chain
<1> QED
  BY <1>1, <1>2

LEMMA LeadsSame ==
  ASSUME NEW G, NEW fs, NEW gs, NEW depth \in Nat, \A i \in 1 .. depth : gs[i] = fs[i],
         NEW q, NEW v
  PROVE  Leads(G, gs, depth, q, v) <=> Leads(G, fs, depth, q, v)
BY DEF Leads, Chain

\* With k tokens left, a list that already has d may go on or end, and then the text can
\* mean v.
GoesOn(G, open, d, k, n, l) ==
  \/ <<n, l>> \in ListsAt(G.parts, k, open)
  \/ (d = <<>> \/ G.trailing) /\ n = k /\ l = <<>>

Opens(G, fs, depth, open, d, k, v) ==
  \E n, l : /\ GoesOn(G, open, d, k, n, l)
            /\ Next1(G, n, Closing(open))
            /\ Leads(G, fs, depth, <<n - 1, Means(G, open, d \o l)>>, v)

\* With k tokens left a value is next.
Takes(G, fs, depth, k, v) ==
  \E q : q \in ValuesAt(G.parts, k) /\ Leads(G, fs, depth, q, v)

\* So it is, or the end of an array.
InArray(fs, depth) == depth > 0 /\ fs[depth].open = "["

Ends(G, fs, depth, k, v) ==
  /\ InArray(fs, depth) /\ Next1(G, k, "]")
  /\ fs[depth].done = <<>> \/ G.trailing
  /\ Leads(G, fs, depth - 1, <<k - 1, Means(G, "[", fs[depth].done)>>, v)

Expects(G, fs, depth, k, v) == Takes(G, fs, depth, k, v) \/ Ends(G, fs, depth, k, v)

\* What is at k.
LEMMA UnfoldsAt ==
  ASSUME NEW G, Lawful(G), NEW k
  PROVE  /\ \A q \in ValuesAt(G.parts, k) : q = <<q[1], q[2]>>
         /\ \A m, v : <<m, v>> \in ValuesAt(G.parts, k) <=>
              /\ k \in 1 .. Len(G.text)
              /\ ScalarAt(G.text, k, m, v) \/ ContainerAt(G.parts, G.text, G.asIs, k, m, v)
         /\ \A open \in Brackets : \A n, l :
              /\ <<n, l>> \in ListsAt(G.parts, k, open) <=>
                   k \in 1 .. Len(G.text) /\ ListAt(G.parts, G.text, G.trailing, k, open, n, l)
              /\ <<n, l>> \in ListsAt(G.parts, k, open) => IsList(l)
<1>1. CASE k \in 1 .. Len(G.text)
  <2>1. ValuesOK(ValuesAt(G.parts, k), k)
    BY <1>1 DEF Lawful, Unfolds, PartsOK
  <2>2. \A open \in Brackets : ListsOK(ListsAt(G.parts, k, open), k)
    BY <1>1 DEF Lawful, Unfolds, PartsOK
  <2>3. \A q \in ValuesAt(G.parts, k) : q = <<q[1], q[2]>>
    BY <2>1 DEF ValuesOK
  <2>4. \A open \in Brackets : \A n, l : <<n, l>> \in ListsAt(G.parts, k, open) => IsList(l)
    BY <2>2 DEF ListsOK
  <2> QED
    BY <1>1, <2>3, <2>4 DEF Lawful, Unfolds
<1>2. CASE k \notin 1 .. Len(G.text)
  <2>1. \A open : ValuesAt(G.parts, k) = {} /\ ListsAt(G.parts, k, open) = {}
    BY <1>2 DEF Lawful, Unfolds, ValuesAt, ListsAt
  <2> QED
    BY <1>2, <2>1
<1> QED
  BY <1>1, <1>2

\* An array goes on with a value, or ends.
LEMMA ArrayGoesOn ==
  ASSUME NEW G, Lawful(G), NEW fs, NEW depth \in Nat, NEW d, IsList(d),
         fs[depth + 1].open = "[", fs[depth + 1].done = d, NEW k, NEW v
  PROVE  Opens(G, fs, depth, "[", d, k, v) <=> Expects(G, fs, depth + 1, k, v)
<1> DEFINE f == fs[depth + 1]
<1>0. /\ depth + 1 > 0 /\ depth + 1 - 1 = depth
      /\ "[" \in Brackets /\ Closing("[") = "]"
  BY DEF Brackets, Closing
<1>1. Ends(G, fs, depth + 1, k, v) <=>
        /\ Next1(G, k, "]") /\ (d = <<>> \/ G.trailing)
        /\ Leads(G, fs, depth, <<k - 1, Means(G, "[", d)>>, v)
  <2>1. PICK next : next = depth + 1 /\ next > 0 /\ next - 1 = depth
    OBVIOUS
  <2>2. fs[next].open = "[" /\ fs[next].done = d
    BY <2>1
  <2>3. Ends(G, fs, next, k, v) <=>
          /\ Next1(G, k, "]") /\ (d = <<>> \/ G.trailing)
          /\ Leads(G, fs, depth, <<k - 1, Means(G, "[", d)>>, v)
    BY <2>1, <2>2, Zenon DEF Ends, InArray
  <2> QED
    BY <2>1, <2>3
<1>2. ASSUME NEW n, NEW l, GoesOn(G, "[", d, k, n, l), Next1(G, n, "]"),
             Leads(G, fs, depth, <<n - 1, Means(G, "[", d \o l)>>, v)
      PROVE  Expects(G, fs, depth + 1, k, v)
  <2>1. CASE <<n, l>> \in ListsAt(G.parts, k, "[")
    <3>1. ListAt(G.parts, G.text, G.trailing, k, "[", n, l)
      BY <1>0, <2>1, UnfoldsAt
    <3>2. PICK m, x, r : /\ <<m, x>> \in ValuesAt(G.parts, k)
                         /\ IsMore(G.parts, G.text, G.trailing, m, "[", n, r)
                         /\ l = <<x>> \o r
      BY <3>1, Zenon DEF ListAt, IsOne
    <3> DEFINE q == <<m, x>>
    <3>3. q[1] = m /\ q[2] = x /\ OneOf(f, q[2]) = x
      BY DEF OneOf
    <3> HIDE DEF q
    <3>4. Finishes(G, f, q, <<n - 1, Means(G, "[", d \o l)>>)
      BY <1>0, <1>2, <3>2, <3>3, Zenon DEF Finishes
    <3>5. Leads(G, fs, depth + 1, q, v)
      BY <1>2, <3>4, LeadsDown
    <3>6. q \in ValuesAt(G.parts, k)
      BY <3>2 DEF q
    <3> QED
      BY <3>5, <3>6 DEF Expects, Takes
  <2>2. CASE (d = <<>> \/ G.trailing) /\ n = k /\ l = <<>>
    <3>1. d \o l = d
      BY <2>2, ListsAppend
    <3> QED
      BY <1>1, <1>2, <2>2, <3>1 DEF Expects
  <2> QED
    BY <1>2, <2>1, <2>2 DEF GoesOn
<1>3. ASSUME Ends(G, fs, depth + 1, k, v)
      PROVE  Opens(G, fs, depth, "[", d, k, v)
  <2>1. d \o <<>> = d
    BY ListsAppend
  <2>2. GoesOn(G, "[", d, k, k, <<>>)
    BY <1>1, <1>3 DEF GoesOn
  <2> QED
    BY <1>0, <1>1, <1>3, <2>1, <2>2, Zenon DEF Opens
<1>4. ASSUME NEW q \in ValuesAt(G.parts, k), Leads(G, fs, depth + 1, q, v)
      PROVE  Opens(G, fs, depth, "[", d, k, v)
  <2>1. PICK r : Finishes(G, f, q, r) /\ Leads(G, fs, depth, r, v)
    BY <1>4, LeadsDown
  <2>2. PICK n, l : /\ IsMore(G.parts, G.text, G.trailing, q[1], "[", n, l)
                    /\ Next1(G, n, "]")
                    /\ r = <<n - 1, Means(G, "[", d \o (<<q[2]>> \o l))>>
    BY <1>0, <2>1, Zenon DEF Finishes, OneOf
  <2>3. q = <<q[1], q[2]>>
    BY UnfoldsAt
  <2>4. ListAt(G.parts, G.text, G.trailing, k, "[", n, <<q[2]>> \o l)
    BY <1>4, <2>2, <2>3, Zenon DEF ListAt, IsOne
  <2>5. k \in 1 .. Len(G.text)
    BY <1>4, <2>3, UnfoldsAt
  <2>6. <<n, <<q[2]>> \o l>> \in ListsAt(G.parts, k, "[")
    BY <1>0, <2>4, <2>5, UnfoldsAt
  <2>7. GoesOn(G, "[", d, k, n, <<q[2]>> \o l)
    BY <2>6 DEF GoesOn
  <2> QED
    BY <1>0, <2>1, <2>2, <2>7, Zenon DEF Opens
<1>5. ASSUME Opens(G, fs, depth, "[", d, k, v)
      PROVE  Expects(G, fs, depth + 1, k, v)
  BY <1>0, <1>2, <1>5, Zenon DEF Opens
<1> QED
  BY <1>3, <1>4, <1>5 DEF Expects, Takes

\* One token is next, and is of one kind.
LEMMA OneIsNext ==
  ASSUME NEW G, NEW k, NEW t, NEW u, Next1(G, k, t), Next1(G, k, u)
  PROVE  t = u
BY DEF Next1, NextIs

LEMMA NextIsAt ==
  ASSUME NEW G, Lawful(G), NEW k \in 0 .. Len(G.text), NEW t, Next1(G, k, t)
  PROVE  k \in 1 .. Len(G.text)
<1>1. k > 0
  BY DEF Next1, NextIs
<1>2. Len(G.text) \in Nat
  BY DEF Lawful
<1> QED
  BY <1>1, <1>2

LEMMA ScalarsAreNoSigns ==
  ASSUME NEW t \in Strings \cup Scalars
  PROVE  /\ t \notin Brackets /\ t # "]" /\ t # "}" /\ t # "," /\ t # ":" /\ t # "#" /\ t # "?"
         /\ t # "[" /\ t # "{"
BY TokensAssumption DEF Signs, Brackets

LEMMA ScalarIsNext ==
  ASSUME NEW G, Lawful(G), NEW fs, NEW depth, NEW k \in 0 .. Len(G.text), NEW v,
         NEW t \in Strings \cup Scalars, Next1(G, k, t)
  PROVE  Expects(G, fs, depth, k, v) <=> Leads(G, fs, depth, <<k - 1, Scalar(t)>>, v)
<1>1. k \in 1 .. Len(G.text)
  BY NextIsAt
<1>2. \A m, x : <<m, x>> \in ValuesAt(G.parts, k) <=> m = k - 1 /\ x = Scalar(t)
  <2>1. ASSUME NEW m, NEW x
        PROVE  ~ ContainerAt(G.parts, G.text, G.asIs, k, m, x)
    BY OneIsNext, ScalarsAreNoSigns DEF ContainerAt, Next1
  <2>2. ASSUME NEW m, NEW x
        PROVE  ScalarAt(G.text, k, m, x) <=> m = k - 1 /\ x = Scalar(t)
    BY OneIsNext DEF ScalarAt, Next1
  <2> QED
    BY <1>1, <2>1, <2>2, UnfoldsAt
<1>3. ~ Ends(G, fs, depth, k, v)
  BY OneIsNext, ScalarsAreNoSigns DEF Ends
<1>4. ASSUME Takes(G, fs, depth, k, v)
      PROVE  Leads(G, fs, depth, <<k - 1, Scalar(t)>>, v)
  <2>1. PICK q \in ValuesAt(G.parts, k) : Leads(G, fs, depth, q, v)
    BY <1>4 DEF Takes
  <2>2. q = <<q[1], q[2]>>
    BY UnfoldsAt
  <2>3. q = <<k - 1, Scalar(t)>>
    BY <1>2, <2>2
  <2> QED
    BY <2>1, <2>3
<1>5. ASSUME Leads(G, fs, depth, <<k - 1, Scalar(t)>>, v)
      PROVE  Takes(G, fs, depth, k, v)
  BY <1>2, <1>5 DEF Takes
<1> QED
  BY <1>3, <1>4, <1>5 DEF Expects

LEMMA BracketIsNext ==
  ASSUME NEW G, Lawful(G), NEW fs, NEW depth, NEW k \in 0 .. Len(G.text), NEW v,
         NEW open \in Brackets, Next1(G, k, open)
  PROVE  Expects(G, fs, depth, k, v) <=> Opens(G, fs, depth, open, <<>>, k - 1, v)
<1>1. k \in 1 .. Len(G.text)
  BY NextIsAt
<1>2. \A m, x : ~ ScalarAt(G.text, k, m, x)
  BY OneIsNext, ScalarsAreNoSigns DEF ScalarAt, Next1
<1>3. ~ Ends(G, fs, depth, k, v)
  BY OneIsNext DEF Ends, Brackets
<1>4. ASSUME NEW n, NEW l, GoesOn(G, open, <<>>, k - 1, n, l)
      PROVE  IsBetween(G.parts, k - 1, open, n, l) /\ <<>> \o l = l
  <2>1. IsList(l)
    <3>1. IsList(<<>>)
      <4>1. <<>> \in Seq({})
        OBVIOUS
      <4> QED
        BY <4>1 DEF IsList
    <3>2. CASE <<n, l>> \in ListsAt(G.parts, k - 1, open)
      BY <3>2, UnfoldsAt
    <3>3. CASE l = <<>>
      BY <3>1, <3>3
    <3> QED
      BY <1>4, <3>2, <3>3 DEF GoesOn
  <2>2. <<>> \o l = l
    BY <2>1, ListsAppend
  <2> QED
    BY <1>4, <2>2 DEF GoesOn, IsBetween
<1>5. ASSUME NEW n, NEW l, IsBetween(G.parts, k - 1, open, n, l)
      PROVE  GoesOn(G, open, <<>>, k - 1, n, l)
  BY <1>5 DEF GoesOn, IsBetween
<1>6. ASSUME Takes(G, fs, depth, k, v)
      PROVE  Opens(G, fs, depth, open, <<>>, k - 1, v)
  <2>1. PICK q \in ValuesAt(G.parts, k) : Leads(G, fs, depth, q, v)
    BY <1>6 DEF Takes
  <2>2. q = <<q[1], q[2]>>
    BY UnfoldsAt
  <2>3. ContainerAt(G.parts, G.text, G.asIs, k, q[1], q[2])
    BY <1>2, <2>2, UnfoldsAt
  <2>4. PICK o \in Brackets : \E n, l :
          /\ NextIs(G.text, k, o) /\ IsBetween(G.parts, k - 1, o, n, l)
          /\ NextIs(G.text, n, Closing(o))
          /\ q[1] = n - 1 /\ q[2] = Container(o, l, G.asIs)
    BY <2>3 DEF ContainerAt
  <2>5. PICK n, l :
          /\ NextIs(G.text, k, o) /\ IsBetween(G.parts, k - 1, o, n, l)
          /\ NextIs(G.text, n, Closing(o))
          /\ q[1] = n - 1 /\ q[2] = Container(o, l, G.asIs)
    BY <2>4
  <2>6. o = open
    BY <2>5, OneIsNext DEF Next1
  <2>7. GoesOn(G, open, <<>>, k - 1, n, l) /\ <<>> \o l = l
    BY <1>4, <1>5, <2>5, <2>6
  <2>8. q = <<n - 1, Means(G, open, <<>> \o l)>>
    BY <2>2, <2>5, <2>6, <2>7 DEF Means
  <2> QED
    BY <2>1, <2>5, <2>6, <2>7, <2>8 DEF Opens, Next1
<1>7. ASSUME Opens(G, fs, depth, open, <<>>, k - 1, v)
      PROVE  Takes(G, fs, depth, k, v)
  <2>1. PICK n, l : /\ GoesOn(G, open, <<>>, k - 1, n, l)
                    /\ Next1(G, n, Closing(open))
                    /\ Leads(G, fs, depth, <<n - 1, Means(G, open, <<>> \o l)>>, v)
    BY <1>7, Zenon DEF Opens
  <2>2. IsBetween(G.parts, k - 1, open, n, l) /\ <<>> \o l = l
    BY <1>4, <2>1
  <2>3. ContainerAt(G.parts, G.text, G.asIs, k, n - 1, Means(G, open, l))
    BY <2>1, <2>2, Zenon DEF ContainerAt, Means, Next1
  <2>4. <<n - 1, Means(G, open, l)>> \in ValuesAt(G.parts, k)
    BY <1>1, <2>3, UnfoldsAt
  <2> QED
    BY <2>1, <2>2, <2>4 DEF Takes
<1> QED
  BY <1>3, <1>6, <1>7 DEF Expects

\* Without such a token there is no value.
LEMMA NoValueIsNext ==
  ASSUME NEW G, Lawful(G), NEW fs, NEW depth, NEW k, NEW v,
         \A t \in Strings \cup Scalars \cup Brackets : ~ Next1(G, k, t)
  PROVE  Expects(G, fs, depth, k, v) <=> Ends(G, fs, depth, k, v)
<1>1. ASSUME NEW q \in ValuesAt(G.parts, k)
      PROVE  FALSE
  <2>1. q = <<q[1], q[2]>>
    BY UnfoldsAt
  <2>2. \/ ScalarAt(G.text, k, q[1], q[2])
        \/ ContainerAt(G.parts, G.text, G.asIs, k, q[1], q[2])
    <3>1. <<q[1], q[2]>> \in ValuesAt(G.parts, k)
      BY <2>1
    <3> QED
      BY <3>1, UnfoldsAt
  <2> QED
    BY <2>2 DEF ScalarAt, ContainerAt, Next1
<1> QED
  BY <1>1 DEF Expects, Takes

FrameIs(f, open, d, id) == f.open = open /\ f.done = d /\ f.name = id

\* In an object a name and a colon are next, or its end.
LEMMA NameIsNext ==
  ASSUME NEW G, Lawful(G), NEW fs, NEW depth \in Nat, NEW d, IsList(d),
         NEW id \in Strings, NEW k \in 0 .. Len(G.text), NEW v,
         FrameIs(fs[depth + 1], "{", d, id),
         Next1(G, k, id), Next1(G, k - 1, ":")
  PROVE  Opens(G, fs, depth, "{", d, k, v) <=> Expects(G, fs, depth + 1, k - 2, v)
<1> DEFINE f == fs[depth + 1]
<1>0. /\ "{" \in Brackets /\ Closing("{") = "}" /\ "{" # "["
      /\ ~ Next1(G, k, "}")
  BY OneIsNext, ScalarsAreNoSigns DEF Brackets, Closing
<1>1. k \in 1 .. Len(G.text)
  BY NextIsAt
<1>2. ~ Ends(G, fs, depth + 1, k - 2, v)
  BY <1>0 DEF Ends, InArray, FrameIs
<1>3. ASSUME NEW m, NEW x
      PROVE  IsOne(G.parts, G.text, k, "{", m, x) <=>
               \E y : <<m, y>> \in ValuesAt(G.parts, k - 2) /\ x = Property(id, y)
  BY <1>0, OneIsNext DEF IsOne, Next1
<1>4. ASSUME Opens(G, fs, depth, "{", d, k, v)
      PROVE  Takes(G, fs, depth + 1, k - 2, v)
  <2>1. PICK n, l : /\ GoesOn(G, "{", d, k, n, l) /\ Next1(G, n, "}")
                    /\ Leads(G, fs, depth, <<n - 1, Means(G, "{", d \o l)>>, v)
    BY <1>0, <1>4, Zenon DEF Opens
  <2>2. <<n, l>> \in ListsAt(G.parts, k, "{")
    BY <1>0, <2>1 DEF GoesOn
  <2>3. ListAt(G.parts, G.text, G.trailing, k, "{", n, l)
    BY <1>0, <2>2, UnfoldsAt
  <2>4. PICK m, x, r : /\ IsOne(G.parts, G.text, k, "{", m, x)
                       /\ IsMore(G.parts, G.text, G.trailing, m, "{", n, r)
                       /\ l = <<x>> \o r
    BY <2>3, Zenon DEF ListAt
  <2>5. PICK y : <<m, y>> \in ValuesAt(G.parts, k - 2) /\ x = Property(id, y)
    BY <1>3, <2>4, Zenon
  <2> DEFINE q == <<m, y>>
  <2>6. q[1] = m /\ q[2] = y /\ OneOf(f, q[2]) = x
    BY <1>0, <2>5 DEF OneOf, FrameIs
  <2> HIDE DEF q
  <2>7. Finishes(G, f, q, <<n - 1, Means(G, "{", d \o l)>>)
    BY <1>0, <2>1, <2>4, <2>6, Zenon DEF Finishes, FrameIs
  <2>8. Leads(G, fs, depth + 1, q, v)
    BY <2>1, <2>7, LeadsDown
  <2>9. q \in ValuesAt(G.parts, k - 2)
    BY <2>5 DEF q
  <2> QED
    BY <2>8, <2>9 DEF Takes
<1>5. ASSUME NEW q \in ValuesAt(G.parts, k - 2), Leads(G, fs, depth + 1, q, v)
      PROVE  Opens(G, fs, depth, "{", d, k, v)
  <2>1. PICK r : Finishes(G, f, q, r) /\ Leads(G, fs, depth, r, v)
    BY <1>5, LeadsDown
  <2> DEFINE x == Property(id, q[2])
  <2>2. OneOf(f, q[2]) = x
    BY <1>0 DEF OneOf, FrameIs
  <2>3. q = <<q[1], q[2]>>
    BY UnfoldsAt
  <2>4. <<q[1], q[2]>> \in ValuesAt(G.parts, k - 2)
    BY <2>3
  <2>5. IsOne(G.parts, G.text, k, "{", q[1], x)
    BY <1>3, <2>4
  <2> HIDE DEF x
  <2>6. PICK n, l : /\ IsMore(G.parts, G.text, G.trailing, q[1], "{", n, l)
                    /\ Next1(G, n, "}")
                    /\ r = <<n - 1, Means(G, "{", d \o (<<x>> \o l))>>
    BY <1>0, <2>1, <2>2, Zenon DEF Finishes, FrameIs
  <2>7. ListAt(G.parts, G.text, G.trailing, k, "{", n, <<x>> \o l)
    BY <2>5, <2>6, Zenon DEF ListAt
  <2>8. <<n, <<x>> \o l>> \in ListsAt(G.parts, k, "{")
    BY <1>0, <1>1, <2>7, UnfoldsAt
  <2>9. GoesOn(G, "{", d, k, n, <<x>> \o l)
    BY <2>8 DEF GoesOn
  <2> QED
    BY <1>0, <2>1, <2>6, <2>9, Zenon DEF Opens
<1> QED
  BY <1>2, <1>4, <1>5 DEF Expects, Takes

LEMMA NoNameIsNext ==
  ASSUME NEW G, Lawful(G), NEW fs, NEW depth, NEW d, IsList(d), NEW k, NEW v,
         ~ \E name \in Strings : Next1(G, k, name) /\ Next1(G, k - 1, ":")
  PROVE  Opens(G, fs, depth, "{", d, k, v) <=>
           /\ Next1(G, k, "}") /\ (d = <<>> \/ G.trailing)
           /\ Leads(G, fs, depth, <<k - 1, Means(G, "{", d)>>, v)
<1>0. "{" \in Brackets /\ Closing("{") = "}" /\ "{" # "["
  BY DEF Brackets, Closing
<1>1. ASSUME NEW n, NEW l
      PROVE  <<n, l>> \notin ListsAt(G.parts, k, "{")
  <2>1. ASSUME <<n, l>> \in ListsAt(G.parts, k, "{")
        PROVE  FALSE
    <3>1. ListAt(G.parts, G.text, G.trailing, k, "{", n, l)
      BY <1>0, <2>1, UnfoldsAt
    <3>2. PICK m, x : IsOne(G.parts, G.text, k, "{", m, x)
      BY <3>1, Zenon DEF ListAt
    <3> QED
      BY <1>0, <3>2 DEF IsOne, Next1
  <2> QED
    BY <2>1
<1>2. d \o <<>> = d
  BY ListsAppend
<1>3. \A n, l : GoesOn(G, "{", d, k, n, l) <=> (d = <<>> \/ G.trailing) /\ n = k /\ l = <<>>
  BY <1>1 DEF GoesOn
<1>4. ASSUME Opens(G, fs, depth, "{", d, k, v)
      PROVE  /\ Next1(G, k, "}") /\ (d = <<>> \/ G.trailing)
             /\ Leads(G, fs, depth, <<k - 1, Means(G, "{", d)>>, v)
  <2>1. PICK n, l : /\ GoesOn(G, "{", d, k, n, l) /\ Next1(G, n, "}")
                    /\ Leads(G, fs, depth, <<n - 1, Means(G, "{", d \o l)>>, v)
    BY <1>0, <1>4, Zenon DEF Opens
  <2>2. (d = <<>> \/ G.trailing) /\ n = k /\ l = <<>>
    BY <1>3, <2>1
  <2> QED
    BY <1>2, <2>1, <2>2, Zenon
<1>5. ASSUME Next1(G, k, "}"), d = <<>> \/ G.trailing,
             Leads(G, fs, depth, <<k - 1, Means(G, "{", d)>>, v)
      PROVE  Opens(G, fs, depth, "{", d, k, v)
  <2>1. GoesOn(G, "{", d, k, k, <<>>)
    BY <1>3, <1>5
  <2> QED
    BY <1>0, <1>2, <1>5, <2>1, Zenon DEF Opens
<1> QED
  BY <1>4, <1>5

\* After the value of a list that comes next.
LEMMA OneIsDone ==
  ASSUME NEW G, Lawful(G), NEW fs, NEW depth \in Nat, NEW open \in Brackets, NEW d, IsList(d),
         fs[depth + 1].open = open, fs[depth + 1].done = d, NEW k, NEW x, NEW v
  PROVE  LET more == d \o <<OneOf(fs[depth + 1], x)>>
         IN  Leads(G, fs, depth + 1, <<k, x>>, v) <=>
               \/ /\ Next1(G, k, Closing(open))
                  /\ Leads(G, fs, depth, <<k - 1, Means(G, open, more)>>, v)
               \/ Next1(G, k, ",") /\ Opens(G, fs, depth, open, more, k - 1, v)
<1> DEFINE f == fs[depth + 1]
           one == OneOf(f, x)
           more == d \o <<one>>
           Ended == /\ Next1(G, k, Closing(open))
                    /\ Leads(G, fs, depth, <<k - 1, Means(G, open, more)>>, v)
           q == <<k, x>>
<1>0. q[1] = k /\ q[2] = x
  OBVIOUS
<1>1. IsList(more) /\ more # <<>>
  BY ListsAppend
<1>2. ASSUME NEW l, IsList(l)
      PROVE  d \o (<<one>> \o l) = more \o l
  BY <1>2, ListsJoin
<1>3. IsList(<<>>) /\ more \o <<>> = more
  <2>1. <<>> \in Seq({})
    OBVIOUS
  <2> QED
    BY <1>1, <2>1, ListsAppend DEF IsList
<1> HIDE DEF q, one
<1>4. ASSUME Leads(G, fs, depth + 1, q, v)
      PROVE  Ended \/ (Next1(G, k, ",") /\ Opens(G, fs, depth, open, more, k - 1, v))
  <2>1. PICK r : Finishes(G, f, q, r) /\ Leads(G, fs, depth, r, v)
    BY <1>4, LeadsDown
  <2>2. PICK n, l : /\ IsMore(G.parts, G.text, G.trailing, k, open, n, l)
                    /\ Next1(G, n, Closing(open))
                    /\ r = <<n - 1, Means(G, open, d \o (<<one>> \o l))>>
    BY <1>0, <2>1, Zenon DEF Finishes, one
  <2>3. CASE n = k /\ l = <<>>
    <3>1. d \o (<<one>> \o l) = more
      BY <1>2, <1>3, <2>3
    <3> QED
      BY <2>1, <2>2, <2>3, <3>1, Zenon
  <2>4. CASE Next1(G, k, ",") /\ (<<n, l>> \in ListsAt(G.parts, k - 1, open)
                                  \/ (G.trailing /\ n = k - 1 /\ l = <<>>))
    <3>1. IsList(l)
      <4>1. CASE <<n, l>> \in ListsAt(G.parts, k - 1, open)
        BY <4>1, UnfoldsAt
      <4> QED
        BY <1>3, <2>4, <4>1
    <3>2. r = <<n - 1, Means(G, open, more \o l)>>
      BY <1>2, <2>2, <3>1
    <3>3. GoesOn(G, open, more, k - 1, n, l)
      BY <2>4 DEF GoesOn
    <3> HIDE DEF more
    <3> QED
      BY <2>1, <2>2, <2>4, <3>2, <3>3, Zenon DEF Opens
  <2> QED
    BY <2>2, <2>3, <2>4 DEF IsMore, Next1
<1>5. ASSUME Ended
      PROVE  Leads(G, fs, depth + 1, q, v)
  <2>1. IsMore(G.parts, G.text, G.trailing, k, open, k, <<>>)
    BY DEF IsMore
  <2>2. d \o (<<one>> \o <<>>) = more
    BY <1>2, <1>3
  <2> HIDE DEF more
  <2>3. Finishes(G, f, q, <<k - 1, Means(G, open, more)>>)
    BY <1>0, <1>5, <2>1, <2>2, Zenon DEF Finishes, one
  <2> QED
    BY <1>5, <2>3, LeadsDown
<1>6. ASSUME Next1(G, k, ","), Opens(G, fs, depth, open, more, k - 1, v)
      PROVE  Leads(G, fs, depth + 1, q, v)
  <2>1. PICK n, l : /\ GoesOn(G, open, more, k - 1, n, l)
                    /\ Next1(G, n, Closing(open))
                    /\ Leads(G, fs, depth, <<n - 1, Means(G, open, more \o l)>>, v)
    BY <1>6, Zenon DEF Opens
  <2>2. IsList(l)
    <3>1. CASE <<n, l>> \in ListsAt(G.parts, k - 1, open)
      BY <3>1, UnfoldsAt
    <3> QED
      BY <1>3, <2>1, <3>1 DEF GoesOn
  <2>3. IsMore(G.parts, G.text, G.trailing, k, open, n, l)
    BY <1>1, <1>6, <2>1 DEF GoesOn, IsMore, Next1
  <2>4. d \o (<<one>> \o l) = more \o l
    BY <1>2, <2>2
  <2> HIDE DEF more
  <2>5. Finishes(G, f, q, <<n - 1, Means(G, open, more \o l)>>)
    BY <1>0, <2>1, <2>3, <2>4, Zenon DEF Finishes, one
  <2> QED
    BY <2>1, <2>5, LeadsDown
<1> QED
  BY <1>4, <1>5, <1>6, Zenon DEF q, one

-----------------------------------------------------------------------------
(* What the reader sees.                                                   *)

\* The last k tokens of the text but comments, where Seen is defined by those of fewer.
SeenAt(g, text0, comments, k) ==
  IF k = 0 THEN <<>>
  ELSE LET token == text0[Len(text0) - k + 1]
       IN  IF token = "#" /\ comments THEN g[k - 1] ELSE <<token>> \o g[k - 1]

SeenExists(n, text0, comments) == \E g : g = [k \in 0 .. n |-> SeenAt(g, text0, comments, k)]

LEMMA SomeSeen ==
  ASSUME NEW n \in Nat, NEW text0, NEW comments
  PROVE  SeenExists(n, text0, comments)
<1> DEFINE U == {p \in Nat : \E g : g = [k \in 0 .. p |-> SeenAt(g, text0, comments, k)]}
<1>1. 0 \in U
  <2> DEFINE g == [k \in 0 .. 0 |-> <<>>]
  <2>1. \A k \in 0 .. 0 : SeenAt(g, text0, comments, k) = <<>>
    BY DEF SeenAt
  <2>2. g = [k \in 0 .. 0 |-> SeenAt(g, text0, comments, k)]
    <3> DEFINE h == [k \in 0 .. 0 |-> SeenAt(g, text0, comments, k)]
    <3>1. \A k \in 0 .. 0 : h[k] = g[k]
      BY <2>1
    <3> QED
      BY <3>1
  <2> QED
    BY <2>2
<1>2. ASSUME NEW p \in 0 .. n - 1, p \in U
      PROVE  p + 1 \in U
  <2>1. PICK g : g = [k \in 0 .. p |-> SeenAt(g, text0, comments, k)]
    BY <1>2
  <2> DEFINE token == text0[Len(text0) - (p + 1) + 1]
             h == [k \in 0 .. p + 1 |->
                     IF k <= p THEN g[k]
                     ELSE IF token = "#" /\ comments THEN g[p] ELSE <<token>> \o g[p]]
  <2>2. ASSUME NEW k \in 0 .. p + 1
        PROVE  h[k] = SeenAt(h, text0, comments, k)
    <3>1. CASE k <= p
      <4>1. k \in 0 .. p /\ h[k] = g[k] /\ g[k] = SeenAt(g, text0, comments, k)
        BY <2>1, <3>1
      <4>2. k # 0 => k - 1 \in 0 .. p + 1 /\ k - 1 <= p
        BY <3>1
      <4>3. k # 0 => h[k - 1] = g[k - 1]
        BY <4>2
      <4> HIDE DEF h
      <4> QED
        BY <4>1, <4>3, Zenon DEF SeenAt
    <3>2. CASE ~ (k <= p)
      <4>1. k = p + 1 /\ k # 0 /\ k - 1 = p /\ p \in 0 .. p + 1 /\ p <= p
        BY <3>2
      <4>2. /\ h[k] = IF token = "#" /\ comments THEN g[p] ELSE <<token>> \o g[p]
            /\ h[p] = g[p]
        BY <3>2, <4>1
      <4> HIDE DEF h
      <4> QED
        BY <4>1, <4>2, Zenon DEF SeenAt
    <3> QED
      BY <3>1, <3>2
  <2>3. h = [k \in 0 .. p + 1 |-> h[k]]
    OBVIOUS
  <2> HIDE DEF h
  <2>4. h = [k \in 0 .. p + 1 |-> SeenAt(h, text0, comments, k)]
    BY <2>2, <2>3
  <2>5. p + 1 \in Nat
    OBVIOUS
  <2> QED
    BY <2>4, <2>5
<1>3. n \in U
  <2> HIDE DEF U
  <2>1. \A k \in 0 .. n : k \in U
    BY <1>1, <1>2, InductionFrom
  <2> QED
    BY <2>1
<1> QED
  BY <1>3 DEF SeenExists

AllowsComments == ~config.disallowComments

LEMMA SeenUnfolds ==
  ASSUME Len(text) \in Nat
  PROVE  \A k \in 0 .. Len(text) : Seen[k] = SeenAt(Seen, text, AllowsComments, k)
<1>1. PICK g : g = [k \in 0 .. Len(text) |-> SeenAt(g, text, AllowsComments, k)]
  <2>1. SeenExists(Len(text), text, AllowsComments)
    BY SomeSeen
  <2> QED
    BY <2>1 DEF SeenExists
<1>2. g = [k \in 0 .. Len(text) |->
             IF k = 0 THEN <<>>
             ELSE LET token == text[Len(text) - k + 1]
                  IN  IF token = "#" /\ ~config.disallowComments THEN g[k - 1]
                      ELSE <<token>> \o g[k - 1]]
  BY <1>1, Zenon DEF SeenAt, AllowsComments
<1>3. Seen = [k \in 0 .. Len(text) |->
             IF k = 0 THEN <<>>
             ELSE LET token == text[Len(text) - k + 1]
                  IN  IF token = "#" /\ ~config.disallowComments THEN Seen[k - 1]
                      ELSE <<token>> \o Seen[k - 1]]
  BY <1>2, Zenon DEF Seen
<1> QED
  BY <1>3, Zenon DEF SeenAt, AllowsComments

EndsWith(t, s) ==
  Len(s) <= Len(t) /\ \A i \in 1 .. Len(s) : s[i] = t[Len(t) - Len(s) + i]

TextOK == text \in Seq(Tokens) /\ config \in Configs

LEMMA SeenIsText ==
  ASSUME TextOK
  PROVE  \A k \in 0 .. Len(text) : Seen[k] \in Seq(Tokens)
<1> DEFINE U == {k \in 0 .. Len(text) : Seen[k] \in Seq(Tokens)}
<1>1. Len(text) \in Nat /\ \A i \in 1 .. Len(text) : text[i] \in Tokens
  BY DEF TextOK
<1>2. \A k \in 0 .. Len(text) : Seen[k] = SeenAt(Seen, text, AllowsComments, k)
  BY <1>1, SeenUnfolds
<1>3. 0 \in U
  <2>1. 0 \in 0 .. Len(text)
    BY <1>1
  <2>2. Seen[0] = <<>>
    BY <1>2, <2>1 DEF SeenAt
  <2>3. <<>> \in Seq(Tokens)
    OBVIOUS
  <2> QED
    BY <2>1, <2>2, <2>3
<1>4. ASSUME NEW k \in 0 .. Len(text) - 1, k \in U
      PROVE  k + 1 \in U
  <2>1. PICK next \in 1 .. Len(text) :
               next = k + 1 /\ next # 0 /\ next - 1 = k /\ next \in 0 .. Len(text)
    BY <1>1
  <2>2. PICK token \in Tokens : token = text[Len(text) - next + 1]
    <3>1. Len(text) - next + 1 \in 1 .. Len(text)
      BY <1>1, <2>1
    <3> QED
      BY <1>1, <3>1
  <2>3. Seen[next] = IF token = "#" /\ AllowsComments THEN Seen[k] ELSE <<token>> \o Seen[k]
    BY <1>2, <2>1, <2>2, Zenon DEF SeenAt
  <2>4. Seen[k] \in Seq(Tokens) /\ <<token>> \in Seq(Tokens)
    BY <1>4, <2>2
  <2>5. <<token>> \o Seen[k] \in Seq(Tokens)
    BY <2>4
  <2>6. Seen[next] \in Seq(Tokens)
    BY <2>3, <2>4, <2>5
  <2> QED
    BY <2>1, <2>6
<1> HIDE DEF U
<1>5. \A k \in 0 .. Len(text) : k \in U
  BY <1>1, <1>3, <1>4, InductionFrom
<1> QED
  BY <1>5 DEF U

\* s is the end of the text, and k tokens that are no comments are left in it.
Reaches(s, k) ==
  /\ s \in Seq(Tokens) /\ EndsWith(text, s)
  /\ Seen[Len(s)] \in Seq(Tokens) /\ k = Len(Seen[Len(s)])
  /\ EndsWith(Seen[Len(text)], Seen[Len(s)])

LEMMA ReachesAll ==
  ASSUME TextOK
  PROVE  Reaches(text, Len(Seen[Len(text)]))
<1>1. Len(text) \in Nat /\ text \in Seq(Tokens) /\ Len(text) \in 0 .. Len(text)
  BY DEF TextOK
<1>2. Seen[Len(text)] \in Seq(Tokens)
  BY <1>1, SeenIsText
<1>3. ASSUME NEW t \in Seq(Tokens)
      PROVE  EndsWith(t, t)
  BY DEF EndsWith
<1> QED
  BY <1>1, <1>2, <1>3 DEF Reaches

LEMMA EndsWithTail ==
  ASSUME NEW t \in Seq(Tokens), NEW x \in Seq(Tokens), NEW token \in Tokens,
         EndsWith(t, <<token>> \o x)
  PROVE  /\ Len(<<token>> \o x) \in 1 .. Len(t) /\ Len(<<token>> \o x) = Len(x) + 1
         /\ NextIs(t, Len(x) + 1, token)
         /\ EndsWith(t, x)
<1> DEFINE y == <<token>> \o x
<1>1. /\ y \in Seq(Tokens) /\ Len(y) = Len(x) + 1 /\ y[1] = token
      /\ \A i \in 1 .. Len(x) : y[i + 1] = x[i]
  OBVIOUS
<1> HIDE DEF y
<1>2. Len(y) <= Len(t) /\ \A i \in 1 .. Len(y) : y[i] = t[Len(t) - Len(y) + i]
  BY DEF EndsWith, y
<1>3. Len(t) \in Nat /\ Len(x) \in Nat
  OBVIOUS
<1>4. y[1] = t[Len(t) - Len(y) + 1]
  BY <1>1, <1>2, <1>3
<1>5. NextIs(t, Len(x) + 1, token)
  BY <1>1, <1>3, <1>4 DEF NextIs
<1>6. ASSUME NEW i \in 1 .. Len(x)
      PROVE  x[i] = t[Len(t) - Len(x) + i]
  <2>1. i + 1 \in 1 .. Len(y) /\ Len(t) - Len(y) + (i + 1) = Len(t) - Len(x) + i
    BY <1>1, <1>3
  <2> QED
    BY <1>1, <1>2, <2>1
<1>7. EndsWith(t, x)
  BY <1>1, <1>2, <1>3, <1>6 DEF EndsWith
<1> QED
  BY <1>1, <1>2, <1>3, <1>5, <1>7 DEF y

LEMMA OneTokenOn ==
  ASSUME TextOK, NEW s, NEW k, Reaches(s, k), s # <<>>
  PROVE  /\ Head(s) = "#" /\ AllowsComments => Reaches(Tail(s), k)
         /\ ~ (Head(s) = "#" /\ AllowsComments) =>
              /\ k \in 1 .. Len(Seen[Len(text)])
              /\ NextIs(Seen[Len(text)], k, Head(s))
              /\ Reaches(Tail(s), k - 1)
<1> DEFINE n == Len(s)
           m == Len(Tail(s))
           T == Seen[Len(text)]
<1>1. /\ s \in Seq(Tokens) /\ n \in Nat /\ n # 0 /\ s[1] = Head(s) /\ Head(s) \in Tokens
      /\ Tail(s) \in Seq(Tokens) /\ m = n - 1 /\ m \in Nat
      /\ \A i \in 1 .. m : Tail(s)[i] = s[i + 1]
  BY DEF Reaches
<1>2. /\ Len(text) \in Nat /\ n <= Len(text)
      /\ \A i \in 1 .. n : s[i] = text[Len(text) - n + i]
  BY DEF Reaches, EndsWith, TextOK
<1>3. n \in 0 .. Len(text) /\ m \in 0 .. Len(text) /\ Len(text) \in 0 .. Len(text)
  BY <1>1, <1>2
<1>4. Seen[m] \in Seq(Tokens) /\ T \in Seq(Tokens)
  BY <1>3, SeenIsText
<1>5. Head(s) = text[Len(text) - n + 1]
  BY <1>1, <1>2
<1> HIDE DEF n, m
<1>6. Seen[n] = IF Head(s) = "#" /\ AllowsComments THEN Seen[m] ELSE <<Head(s)>> \o Seen[m]
  <2>1. Seen[n] = SeenAt(Seen, text, AllowsComments, n)
    BY <1>2, <1>3, SeenUnfolds
  <2> QED
    BY <1>1, <1>5, <2>1, Zenon DEF SeenAt
<1>7. EndsWith(text, Tail(s))
  <2>1. ASSUME NEW i \in 1 .. m
        PROVE  Tail(s)[i] = text[Len(text) - m + i]
    <3>1. i + 1 \in 1 .. n /\ Len(text) - n + (i + 1) = Len(text) - m + i
      BY <1>1, <1>2
    <3> QED
      BY <1>1, <1>2, <3>1
  <2>2. m <= Len(text)
    BY <1>3
  <2> QED
    BY <2>1, <2>2 DEF EndsWith, m
<1>8. CASE Head(s) = "#" /\ AllowsComments
  <2>1. Seen[n] = Seen[m]
    BY <1>6, <1>8
  <2>2. k = Len(Seen[m]) /\ EndsWith(T, Seen[m])
    BY <2>1 DEF Reaches, n
  <2>3. Reaches(Tail(s), k)
    BY <1>1, <1>4, <1>7, <2>2 DEF Reaches, m
  <2> QED
    BY <1>8, <2>3
<1>9. CASE ~ (Head(s) = "#" /\ AllowsComments)
  <2>1. Seen[n] = <<Head(s)>> \o Seen[m]
    BY <1>6, <1>9
  <2>2. k = Len(<<Head(s)>> \o Seen[m]) /\ EndsWith(T, <<Head(s)>> \o Seen[m])
    BY <2>1 DEF Reaches, n
  <2>3. /\ Len(<<Head(s)>> \o Seen[m]) \in 1 .. Len(T)
        /\ Len(<<Head(s)>> \o Seen[m]) = Len(Seen[m]) + 1
        /\ NextIs(T, Len(Seen[m]) + 1, Head(s)) /\ EndsWith(T, Seen[m])
    <3> HIDE DEF T
    <3> QED
      BY <1>1, <1>4, <2>2, EndsWithTail
  <2>4. Len(Seen[m]) \in Nat
    BY <1>4
  <2>5. k = Len(Seen[m]) + 1 /\ k \in 1 .. Len(T) /\ k - 1 = Len(Seen[m])
    BY <2>2, <2>3, <2>4
  <2>6. Reaches(Tail(s), k - 1)
    BY <1>1, <1>4, <1>7, <2>3, <2>5 DEF Reaches, m
  <2> QED
    BY <1>9, <2>3, <2>5, <2>6
<1> QED
  BY <1>8, <1>9

\* After the comments the text has ended, or its next token is next.
Sees(s, k) ==
  \/ s = <<>> /\ k = 0
  \/ /\ s # <<>> /\ k \in 1 .. Len(Seen[Len(text)])
     /\ NextIs(Seen[Len(text)], k, Head(s))
     /\ Reaches(Tail(s), k - 1)

LEMMA SeesNext ==
  ASSUME TextOK, NEW s, NEW k, Reaches(s, k), ~ (s # <<>> /\ Head(s) = "#" /\ AllowsComments)
  PROVE  Sees(s, k)
<1>1. CASE s = <<>>
  <2>1. Len(s) = 0 /\ Len(text) \in Nat
    BY <1>1 DEF TextOK
  <2>2. Seen[0] = SeenAt(Seen, text, AllowsComments, 0)
    BY <2>1, SeenUnfolds
  <2>3. Seen[Len(s)] = <<>>
    BY <2>1, <2>2 DEF SeenAt
  <2>4. k = 0
    BY <2>3 DEF Reaches
  <2> QED
    BY <1>1, <2>4 DEF Sees
<1>2. CASE s # <<>>
  BY <1>2, OneTokenOn DEF Sees
<1> QED
  BY <1>1, <1>2

LEMMA MostSkipped ==
  ASSUME NEW n \in Nat, NEW S \in SUBSET (0 .. n), S # {}
  PROVE  Max(S) \in S /\ \A y \in S : y <= Max(S)
<1> DEFINE U == {j \in 0 .. n : n - j \in S}
<1>1. PICK x \in S : TRUE
  OBVIOUS
<1>2. n - x \in U /\ U \in SUBSET Nat
  BY <1>1
<1>3. PICK j \in U : \A i \in U : j <= i
  BY <1>2, LeastNatural
<1>4. n - j \in S
  OBVIOUS
<1>5. ASSUME NEW y \in S
      PROVE  y <= n - j
  <2>1. n - y \in U /\ y \in Nat /\ j \in Nat
    OBVIOUS
  <2>2. j <= n - y
    BY <1>3, <2>1
  <2> QED
    BY <2>1, <2>2
<1> HIDE DEF U
<1>6. \E z \in S : \A y \in S : z >= y
  BY <1>4, <1>5
<1>7. Max(S) \in S /\ \A y \in S : Max(S) >= y
  BY <1>6, Zenon DEF Max
<1>8. \A y \in S : y \in Int
  OBVIOUS
<1> QED
  BY <1>7, <1>8

LEMMA SameTokens ==
  ASSUME NEW s \in Seq(Tokens), NEW u \in Seq(Tokens), NEW n,
         Len(s) = n, Len(u) = n, \A i \in 1 .. n : s[i] = u[i]
  PROVE  s = u
OBVIOUS

LEMMA Looks ==
  ASSUME TextOK, NEW s, NEW k, Reaches(s, k)
  PROVE  Sees(AfterComments(s), k)
<1>1. CASE config.disallowComments
  BY <1>1, SeesNext DEF AfterComments, AllowsComments
<1>2. CASE ~config.disallowComments
  <2> DEFINE n == Len(s)
             S == {j \in 0 .. n : \A i \in 1 .. j : s[i] = "#"}
             r(j) == SubSeq(s, j + 1, n)
             U == {j \in 0 .. n : Reaches(r(j), k)}
  <2>1. s \in Seq(Tokens) /\ n \in Nat
    BY DEF Reaches
  <2>2. S \in SUBSET (0 .. n) /\ 0 \in S
    BY <2>1
  <2>3. PICK m \in S : m = Max(S) /\ \A y \in S : y <= m
    <3> HIDE DEF S
    <3> QED
      BY <2>1, <2>2, MostSkipped
  <2>4. AfterComments(s) = r(m)
    BY <1>2, <2>3, Zenon DEF AfterComments
  <2>5. 0 \in U
    <3>1. r(0) = s /\ 0 \in 0 .. n
      BY <2>1
    <3> HIDE DEF r, n
    <3> QED
      BY <3>1, Zenon
  <2>6. ASSUME NEW j \in 0 .. m - 1, j \in U
        PROVE  j + 1 \in U
    <3>1. m \in 0 .. n /\ j + 1 \in 1 .. m /\ j + 1 \in 0 .. n
      OBVIOUS
    <3>2. s[j + 1] = "#"
      BY <3>1
    <3>3. r(j) # <<>> /\ Head(r(j)) = s[j + 1] /\ Tail(r(j)) = r(j + 1)
      <4>1. r(j) \in Seq(Tokens) /\ Len(r(j)) = n - j /\ n - j > 0
        BY <2>1, <3>1
      <4>2. r(j + 1) \in Seq(Tokens) /\ Len(r(j + 1)) = n - (j + 1)
        BY <2>1, <3>1
      <4>3. \A i \in 1 .. n - j : r(j)[i] = s[j + i]
        BY <2>1, <3>1
      <4>4. \A i \in 1 .. n - (j + 1) : r(j + 1)[i] = s[j + 1 + i]
        BY <2>1, <3>1
      <4> HIDE DEF r
      <4>5. r(j) # <<>> /\ Head(r(j)) = s[j + 1]
        BY <2>1, <3>1, <4>1, <4>3
      <4>6. Tail(r(j)) \in Seq(Tokens) /\ Len(Tail(r(j))) = n - (j + 1)
            /\ \A i \in 1 .. n - (j + 1) : Tail(r(j))[i] = r(j)[i + 1]
        BY <2>1, <3>1, <4>1
      <4>7. \A i \in 1 .. n - (j + 1) : Tail(r(j))[i] = r(j + 1)[i]
        <5>1. ASSUME NEW i \in 1 .. n - (j + 1)
              PROVE  Tail(r(j))[i] = r(j + 1)[i]
          <6>1. i + 1 \in 1 .. n - j /\ j + (i + 1) = j + 1 + i
            BY <2>1
          <6> QED
            BY <4>3, <4>4, <4>6, <6>1
        <5> QED
          BY <5>1
      <4>8. Tail(r(j)) = r(j + 1)
        BY <4>2, <4>6, <4>7, SameTokens
      <4> QED
        BY <4>5, <4>8
    <3>4. Reaches(r(j), k)
      BY <2>6
    <3> HIDE DEF r
    <3>5. Reaches(r(j + 1), k)
      BY <1>2, <3>2, <3>3, <3>4, OneTokenOn DEF AllowsComments
    <3> QED
      BY <3>1, <3>5
  <2>7. Reaches(r(m), k)
    <3>1. m \in Nat
      BY <2>2
    <3> HIDE DEF U
    <3>2. \A j \in 0 .. m : j \in U
      BY <2>5, <2>6, <3>1, InductionFrom
    <3>3. m \in U
      BY <3>1, <3>2
    <3> QED
      BY <3>3 DEF U
  <2>8. ~ (r(m) # <<>> /\ Head(r(m)) = "#")
    <3>1. ASSUME r(m) # <<>>
          PROVE  Head(r(m)) # "#"
      <4>1. m \in 0 .. n /\ m < n
        BY <2>1, <3>1
      <4>2. Head(r(m)) = s[m + 1]
        BY <2>1, <4>1
      <4>3. m + 1 \notin S
        BY <2>3, <4>1
      <4>4. ASSUME s[m + 1] = "#"
            PROVE  m + 1 \in S
        <5>1. \A i \in 1 .. m + 1 : i \in 1 .. m \/ i = m + 1
          BY <4>1
        <5> QED
          BY <4>1, <4>4, <5>1
      <4> QED
        BY <4>2, <4>3, <4>4
    <3> QED
      BY <3>1
  <2> HIDE DEF r
  <2> QED
    BY <2>4, <2>7, <2>8, SeesNext
<1> QED
  BY <1>1, <1>2

-----------------------------------------------------------------------------
(* Sorting objects.                                                        *)

LEMMA SortedStrictly ==
  ASSUME NEW V, NEW u \in ListOf(V), IsSortedAndUnique(u)
  PROVE  \A k, m \in 1 .. Len(u) : k < m => Rank[u[k].name] < Rank[u[m].name]
<1> DEFINE N == Len(u)
           r(k) == Rank[u[k].name]
<1>1. N \in Nat /\ \A k \in 1 .. N : r(k) \in Int
  BY ListOfIs
<1>2. \A k \in 1 .. N - 1 : r(k) < r(k + 1)
  BY DEF IsSortedAndUnique, Less
<1> HIDE DEF r, N
<1>3. ASSUME NEW k \in 1 .. N - 1
      PROVE  \A m \in k + 1 .. N : r(k) < r(m)
  <2> DEFINE T == {m \in 1 .. N : r(k) < r(m)}
  <2>1. k + 1 \in Nat /\ k + 1 \in T
    BY <1>1, <1>2
  <2>2. ASSUME NEW m \in k + 1 .. N - 1, m \in T
        PROVE  m + 1 \in T
    <3>1. m \in 1 .. N - 1 /\ m \in 1 .. N /\ m + 1 \in 1 .. N /\ k \in 1 .. N
      BY <1>1
    <3>2. r(k) < r(m) /\ r(m) < r(m + 1) /\ r(k) \in Int /\ r(m) \in Int /\ r(m + 1) \in Int
      BY <1>1, <1>2, <2>2, <3>1
    <3> QED
      BY <3>1, <3>2
  <2> HIDE DEF T
  <2>3. \A m \in k + 1 .. N : m \in T
    BY <1>1, <2>1, <2>2, InductionFrom
  <2> QED
    BY <2>3 DEF T
<1>4. \A k, m \in 1 .. N : k < m => r(k) < r(m)
  <2> SUFFICES ASSUME NEW k \in 1 .. N, NEW m \in 1 .. N, k < m
               PROVE  r(k) < r(m)
    OBVIOUS
  <2>1. k \in 1 .. N - 1 /\ m \in k + 1 .. N
    BY <1>1
  <2> QED
    BY <1>3, <2>1
<1> QED
  BY <1>4 DEF r, N

\* The names of a sorted list are numbered by their places.
LEMMA NamesAreNumbered ==
  ASSUME NEW V, NEW u \in ListOf(V), IsSortedAndUnique(u)
  PROVE  /\ Cardinality(NamesOf(u)) = Len(u)
         /\ \A k \in 1 .. Len(u) :
              Cardinality({m \in NamesOf(u) : Rank[m] <= Rank[u[k].name]}) = k
<1> DEFINE N == Len(u)
           Lower(k) == {m \in NamesOf(u) : Rank[m] <= Rank[u[k].name]}
<1>1. N \in Nat /\ \A k \in 1 .. N : Rank[u[k].name] \in Int
  BY ListOfIs
<1>2. \A k, m \in 1 .. N : k < m => Rank[u[k].name] < Rank[u[m].name]
  BY SortedStrictly
<1>3. ASSUME NEW k \in 0 .. N
      PROVE  Cardinality({u[j].name : j \in 1 .. k}) = k
  <2> DEFINE S == {u[j].name : j \in 1 .. k}
             f == [j \in 1 .. k |-> u[j].name]
  <2>1. k \in Nat /\ \A j \in 1 .. k : j \in 1 .. N
    BY <1>1
  <2>2. IsFiniteSet(1 .. k) /\ Cardinality(1 .. k) = k
    BY <2>1, FS_Interval
  <2>3. f \in [1 .. k -> S] /\ \A y \in S : \E j \in 1 .. k : f[j] = y
    OBVIOUS
  <2>4. ASSUME NEW i \in 1 .. k, NEW j \in 1 .. k, f[i] = f[j]
        PROVE  i = j
    <3>1. i \in 1 .. N /\ j \in 1 .. N /\ u[i].name = u[j].name
      BY <2>1, <2>4
    <3>2. ~ (i < j) /\ ~ (j < i)
      BY <1>1, <1>2, <3>1
    <3> QED
      BY <3>2
  <2> HIDE DEF f, S
  <2>5. f \in Bijection(1 .. k, S)
    BY <2>3, <2>4 DEF Bijection, Injection, Surjection, IsInjective
  <2>6. ExistsBijection(1 .. k, S)
    BY <2>5 DEF ExistsBijection
  <2> QED
    BY <2>2, <2>6, FS_Bijection DEF S
<1>4. NamesOf(u) = {u[j].name : j \in 1 .. N}
  BY DEF NamesOf
<1>5. ASSUME NEW k \in 1 .. N
      PROVE  Lower(k) = {u[j].name : j \in 1 .. k}
  <2>1. ASSUME NEW m \in Lower(k)
        PROVE  m \in {u[j].name : j \in 1 .. k}
    <3>1. PICK j \in 1 .. N : m = u[j].name
      BY <1>4, <2>1
    <3>2. Rank[u[j].name] <= Rank[u[k].name]
      BY <2>1, <3>1
    <3>3. ~ (k < j)
      BY <1>1, <1>2, <3>2
    <3>4. j \in 1 .. k
      BY <1>1, <3>3
    <3> QED
      BY <3>1, <3>4
  <2>2. ASSUME NEW j \in 1 .. k
        PROVE  u[j].name \in Lower(k)
    <3>1. j \in 1 .. N /\ (j = k \/ j < k)
      BY <1>1
    <3>2. Rank[u[j].name] \in Int /\ Rank[u[j].name] <= Rank[u[k].name]
      BY <1>1, <1>2, <3>1
    <3> QED
      BY <1>4, <3>1, <3>2
  <2> QED
    BY <2>1, <2>2
<1>6. N \in 0 .. N /\ \A k \in 1 .. N : k \in 0 .. N
  BY <1>1
<1> HIDE DEF Lower
<1>7. \A k \in 1 .. N : Cardinality(Lower(k)) = k
  BY <1>3, <1>5, <1>6
<1> QED
  BY <1>3, <1>4, <1>6, <1>7 DEF Lower

\* A sorted list with the first of each name is what the grammar has of a list.
LEMMA FirstOfEachIs ==
  ASSUME NEW V, NEW l \in ListOf(V), NEW u \in ListOf(V), IsSortedAndUnique(u),
         \A n : KeepsFirst(l, u, n)
  PROVE  FirstOfEach(l) = u
<1> DEFINE N == Len(u)
           names == NamesOf(l)
           Number(n) == Cardinality({m \in names : Rank[m] <= Rank[n]})
           Name(k) == CHOOSE n \in names : Number(n) = k
<1>1. Len(l) \in Nat /\ N \in Nat /\ DOMAIN u = 1 .. N /\ u = [k \in 1 .. N |-> u[k]]
  <2>1. Len(l) \in Nat /\ N \in Nat /\ DOMAIN u = 1 .. N
    BY ListOfIs
  <2> QED
    BY <2>1 DEF ListOf
<1>2. names = NamesOf(u)
  <2>1. ASSUME NEW n \in NamesOf(l)
        PROVE  n \in NamesOf(u)
    <3>1. ~ Absent(l, n)
      BY <2>1 DEF NamesOf, Absent
    <3>2. PICK i : FirstOf(l, n, i)
      BY <1>1, <3>1, FirstOrAbsent
    <3>3. PICK j : FirstOf(u, n, j)
      BY <3>2 DEF KeepsFirst
    <3> QED
      BY <3>3 DEF FirstOf, NamesOf
  <2>2. ASSUME NEW n \in NamesOf(u)
        PROVE  n \in NamesOf(l)
    <3>1. ~ Absent(u, n)
      BY <2>2 DEF NamesOf, Absent
    <3>2. ~ Absent(l, n)
      BY <3>1 DEF KeepsFirst
    <3> QED
      BY <3>2 DEF NamesOf, Absent
  <2> QED
    BY <2>1, <2>2
<1>3. Cardinality(names) = N /\ \A k \in 1 .. N : Number(u[k].name) = k
  BY <1>2, NamesAreNumbered
<1>4. \A n \in names : \E k \in 1 .. N : n = u[k].name
  BY <1>2 DEF NamesOf
<1>5. \A k \in 1 .. N : u[k].name \in names
  BY <1>2 DEF NamesOf
<1> HIDE DEF names, Number
<1>6. ASSUME NEW k \in 1 .. N
      PROVE  Name(k) = u[k].name
  <2>1. Name(k) \in names /\ Number(Name(k)) = k
    BY <1>3, <1>5
  <2>2. PICK j \in 1 .. N : Name(k) = u[j].name
    BY <1>4, <2>1
  <2> QED
    BY <1>3, <2>1, <2>2
<1> HIDE DEF Name
<1>7. ASSUME NEW k \in 1 .. N
      PROVE  l[FindByName(l, Name(k))] = u[k]
  <2> DEFINE n == u[k].name
  <2>1. ~ Absent(l, n)
    BY <1>5 DEF names, NamesOf, Absent
  <2>2. PICK i : FirstOf(l, n, i)
    BY <1>1, <2>1, FirstOrAbsent
  <2>3. FindByName(l, n) = i
    BY <1>1, <2>2, FirstIsFound
  <2>4. PICK j : FirstOf(u, n, j) /\ u[j] = l[i]
    BY <2>2 DEF KeepsFirst
  <2>5. j \in 1 .. N /\ u[j].name = u[k].name
    BY <2>4 DEF FirstOf
  <2>6. j = k
    BY <1>3, <2>5
  <2> QED
    BY <1>6, <2>3, <2>4, <2>6
<1>8. FirstOfEach(l) = [k \in 1 .. Cardinality(names) |-> l[FindByName(l, Name(k))]]
  BY DEF FirstOfEach, names, Name, Number
<1>9. FirstOfEach(l) = [k \in 1 .. N |-> u[k]]
  BY <1>3, <1>7, <1>8
<1> QED
  BY <1>1, <1>9

\* A list with other values under its names.
With(l, val) == [j \in 1 .. Len(l) |-> Property(l[j].name, val[l[j].value])]

LEMMA WithIs ==
  ASSUME NEW V, NEW l \in ListOf(V), NEW val
  PROVE  /\ With(l, val) \in ListOf({val[x] : x \in V}) /\ Len(With(l, val)) = Len(l)
         /\ \A j \in 1 .. Len(l) :
              /\ With(l, val)[j] = Property(l[j].name, val[l[j].value])
              /\ With(l, val)[j].name = l[j].name
<1>1. Len(l) \in Nat /\ \A j \in 1 .. Len(l) : l[j].name \in DOMAIN Rank /\ l[j].value \in V
  BY ListOfIs
<1>2. \A j \in 1 .. Len(l) :
        /\ With(l, val)[j] = Property(l[j].name, val[l[j].value])
        /\ With(l, val)[j].name = l[j].name
        /\ With(l, val)[j] \in NamedOf({val[x] : x \in V})
  BY <1>1 DEF With, Property, NamedOf
<1>3. With(l, val) \in [1 .. Len(l) -> NamedOf({val[x] : x \in V})]
  BY <1>2 DEF With
<1> HIDE DEF With
<1>4. /\ With(l, val) \in ListOf({val[x] : x \in V}) /\ Len(With(l, val)) = Len(l)
  BY <1>1, <1>3, IsListOf
<1> QED
  BY <1>2, <1>4

\* It does not matter whether the values are put in before or after it is sorted.
LEMMA SortedWith ==
  ASSUME NEW V, NEW l \in ListOf(V), NEW val
  PROVE  FirstOfEach(With(l, val)) = With(StableSortedAndUnique(l), val)
<1> DEFINE u == StableSortedAndUnique(l)
           W == {val[x] : x \in V}
           lw == With(l, val)
           uw == With(u, val)
<1>1. u \in ListOf(V) /\ IsSortedAndUnique(u) /\ \A n : KeepsFirst(l, u, n)
  BY UniqueAndSortedIs
<1> HIDE DEF u
<1>2. /\ lw \in ListOf(W) /\ Len(lw) = Len(l)
      /\ \A j \in 1 .. Len(l) : /\ lw[j] = Property(l[j].name, val[l[j].value])
                                /\ lw[j].name = l[j].name
  BY WithIs
<1>3. /\ uw \in ListOf(W) /\ Len(uw) = Len(u)
      /\ \A j \in 1 .. Len(u) : /\ uw[j] = Property(u[j].name, val[u[j].value])
                                /\ uw[j].name = u[j].name
  BY <1>1, WithIs
<1> HIDE DEF lw, uw, W
<1>4. Len(u) \in Nat /\ Len(l) \in Nat
  BY <1>1, ListOfIs
<1>5. IsSortedAndUnique(uw)
  <2>1. \A k \in 1 .. Len(u) - 1 : k \in 1 .. Len(u) /\ k + 1 \in 1 .. Len(u)
    BY <1>4
  <2> QED
    BY <1>1, <1>3, <2>1 DEF IsSortedAndUnique
<1>6. ASSUME NEW n
      PROVE  KeepsFirst(lw, uw, n)
  <2>1. KeepsFirst(l, u, n)
    BY <1>1
  <2>2. ASSUME NEW i, FirstOf(lw, n, i)
        PROVE  \E j : FirstOf(uw, n, j) /\ uw[j] = lw[i]
    <3>1. FirstOf(l, n, i)
      BY <1>2, <2>2 DEF FirstOf
    <3>2. PICK j : FirstOf(u, n, j) /\ u[j] = l[i]
      BY <2>1, <3>1 DEF KeepsFirst
    <3>3. FirstOf(uw, n, j)
      BY <1>3, <3>2 DEF FirstOf
    <3>4. i \in 1 .. Len(l) /\ j \in 1 .. Len(u)
      BY <3>1, <3>2 DEF FirstOf
    <3> QED
      BY <1>2, <1>3, <3>2, <3>3, <3>4
  <2>3. Absent(lw, n) => Absent(uw, n)
    BY <1>2, <1>3, <2>1 DEF Absent, KeepsFirst
  <2> QED
    BY <2>2, <2>3 DEF KeepsFirst
<1>7. FirstOfEach(lw) = uw
  BY <1>2, <1>3, <1>5, <1>6, FirstOfEachIs
<1> QED
  BY <1>7 DEF lw, uw, u

-----------------------------------------------------------------------------
(* The nodes of the reader.                                                *)

Node ==
  [type : {"none", "scalar", "object", "array"}, token : Tokens \cup {""},
   properties : ListOf(Nat), elements : Seq(Nat)]

\* A node's children, and what the first c of them are, when val[i] is node i's value.
Size(n)     == IF n.type = "array" THEN Len(n.elements) ELSE Len(n.properties)
KidAt(n, j) == IF n.type = "array" THEN n.elements[j] ELSE n.properties[j].value

ItemAt(val, n, j) ==
  IF n.type = "array" THEN val[n.elements[j]]
  ELSE Property(n.properties[j].name, val[n.properties[j].value])

Items(val, n, c) == [j \in 1 .. c |-> ItemAt(val, n, j)]

Worth(val, n) ==
  IF n.type = "object" THEN Object(Items(val, n, Size(n)))
  ELSE IF n.type = "array" THEN Array(Items(val, n, Size(n)))
  ELSE Scalar(n.token)

KidsIn(n, c, S) == \A j \in 1 .. c : KidAt(n, j) \in S

Agree(val, other, S) == \A i \in S : other[i] = val[i]

\* A frame for a node that waits for the value of its last child.
FrameAt(val, S, f, n, kid) ==
  /\ n.type \in {"array", "object"}
  /\ Size(n) \in Nat \ {0} /\ KidAt(n, Size(n)) = kid
  /\ KidsIn(n, Size(n) - 1, S)
  /\ FrameIs(f, IF n.type = "array" THEN "[" ELSE "{", Items(val, n, Size(n) - 1), f.name)
  /\ n.type = "object" => f.name = n.properties[Size(n)].name

SettledAt(val, S, n, x) == KidsIn(n, Size(n), S) /\ x = Worth(val, n)

RefersOn(i, n, N) == n.properties \in ListOf(i + 1 .. N) /\ n.elements \in Seq(i + 1 .. N)

\* The nodes S are settled: their values are val, and so are their children's.  Of the
\* stack, each one but the last waits for the next one.
Rising(st) == \A i, j \in 1 .. Len(st) : i < j => st[i] < st[j]

Covered(S, ns, st) ==
  \A i \in 1 .. Len(ns) : i \in S \/ \E j \in 1 .. Len(st) : st[j] = i

TreeOK(val, S, fs, ns, st) ==
  /\ ns \in Seq(Node) /\ \A i \in 1 .. Len(ns) : RefersOn(i, ns[i], Len(ns))
  /\ st \in Seq(1 .. Len(ns)) /\ Len(st) \in Nat \ {0} /\ st[1] = 1 /\ Rising(st)
  /\ S \subseteq 1 .. Len(ns) /\ Covered(S, ns, st)
  /\ \A i \in S : SettledAt(val, S, ns[i], val[i])
  /\ \A i \in 1 .. Len(st) - 1 : st[i] \notin S /\ FrameAt(val, S, fs[i], ns[st[i]], st[i + 1])

OpenTree(val, S, fs, ns, st) ==
  /\ TreeOK(val, S, fs, ns, st)
  /\ Top(st) \notin S /\ KidsIn(ns[Top(st)], Size(ns[Top(st)]), S)

DoneTree(val, S, fs, ns, st) == TreeOK(val, S, fs, ns, st) /\ Top(st) \in S

LEMMA NodeIs ==
  ASSUME NEW n \in Node
  PROVE  /\ Size(n) \in Nat /\ Len(n.properties) \in Nat /\ Len(n.elements) \in Nat
         /\ n.properties \in ListOf(Nat) /\ n.elements \in Seq(Nat)
         /\ n.type \in {"none", "scalar", "object", "array"} /\ n.token \in Tokens \cup {""}
<1>1. /\ n.properties \in ListOf(Nat) /\ n.elements \in Seq(Nat)
      /\ n.type \in {"none", "scalar", "object", "array"} /\ n.token \in Tokens \cup {""}
  BY DEF Node
<1>2. Len(n.properties) \in Nat
  <2> DEFINE l == n.properties
  <2>1. l \in ListOf(Nat)
    BY <1>1
  <2> HIDE DEF l
  <2>2. Len(l) \in Nat
    BY <2>1, ListOfIs
  <2> QED
    BY <2>2 DEF l
<1>3. Len(n.elements) \in Nat
  <2> DEFINE l == n.elements
  <2>1. l \in Seq(Nat)
    BY <1>1
  <2> HIDE DEF l
  <2>2. Len(l) \in Nat
    BY <2>1
  <2> QED
    BY <2>2 DEF l
<1> QED
  BY <1>1, <1>2, <1>3 DEF Size

LEMMA ItemsSame ==
  ASSUME NEW val, NEW other, NEW S, Agree(val, other, S), NEW n, NEW c, KidsIn(n, c, S)
  PROVE  Items(other, n, c) = Items(val, n, c)
<1>1. \A j \in 1 .. c : ItemAt(other, n, j) = ItemAt(val, n, j)
  BY DEF KidsIn, KidAt, Agree, ItemAt
<1> QED
  BY <1>1, Zenon DEF Items

LEMMA WorthSame ==
  ASSUME NEW val, NEW other, NEW S, Agree(val, other, S), NEW n, KidsIn(n, Size(n), S)
  PROVE  Worth(other, n) = Worth(val, n)
BY ItemsSame DEF Worth

LEMMA FrameStays ==
  ASSUME NEW val, NEW other, NEW S, NEW T, S \subseteq T, Agree(val, other, S),
         NEW f, NEW n, NEW kid, FrameAt(val, S, f, n, kid)
  PROVE  FrameAt(other, T, f, n, kid)
<1>1. Items(other, n, Size(n) - 1) = Items(val, n, Size(n) - 1)
  <2>1. KidsIn(n, Size(n) - 1, S)
    BY DEF FrameAt
  <2> QED
    BY <2>1, ItemsSame
<1>2. KidsIn(n, Size(n) - 1, T)
  BY DEF FrameAt, KidsIn
<1> QED
  BY <1>1, <1>2 DEF FrameAt

LEMMA SettledStays ==
  ASSUME NEW val, NEW other, NEW S, NEW T, S \subseteq T, Agree(val, other, S),
         NEW n, NEW x, SettledAt(val, S, n, x)
  PROVE  SettledAt(other, T, n, x)
<1>1. Worth(other, n) = Worth(val, n)
  BY WorthSame DEF SettledAt
<1>2. KidsIn(n, Size(n), T)
  BY DEF SettledAt, KidsIn
<1> QED
  BY <1>1, <1>2 DEF SettledAt

LEMMA TopIs ==
  ASSUME NEW val, NEW S, NEW fs, NEW ns, NEW st, TreeOK(val, S, fs, ns, st)
  PROVE  /\ Len(ns) \in Nat /\ Len(st) \in Nat \ {0} /\ Len(st) - 1 \in Nat
         /\ Top(st) \in 1 .. Len(ns) /\ ns[Top(st)] \in Node
         /\ RefersOn(Top(st), ns[Top(st)], Len(ns))
         /\ \A i \in 1 .. Len(st) - 1 : st[i] \in 1 .. Len(ns) /\ st[i] # Top(st)
         /\ \A i \in 1 .. Len(ns) : i \in S \/ i = Top(st)
                                       \/ \E j \in 1 .. Len(st) - 1 : st[j] = i
<1>1. /\ ns \in Seq(Node) /\ \A i \in 1 .. Len(ns) : RefersOn(i, ns[i], Len(ns))
      /\ st \in Seq(1 .. Len(ns)) /\ Len(st) \in Nat \ {0} /\ Rising(st)
      /\ Covered(S, ns, st)
  BY DEF TreeOK
<1>2. Len(ns) \in Nat /\ Len(st) \in 1 .. Len(st) /\ \A i \in 1 .. Len(st) : st[i] \in 1 .. Len(ns)
  BY <1>1
<1>3. Top(st) \in 1 .. Len(ns) /\ ns[Top(st)] \in Node
  BY <1>1, <1>2 DEF Top
<1>4. ASSUME NEW i \in 1 .. Len(st) - 1
      PROVE  st[i] \in 1 .. Len(ns) /\ st[i] # Top(st)
  <2>1. i \in 1 .. Len(st) /\ i < Len(st)
    BY <1>1
  <2>2. st[i] < st[Len(st)] /\ st[i] \in 1 .. Len(ns) /\ st[Len(st)] \in 1 .. Len(ns)
    BY <1>1, <1>2, <2>1 DEF Rising
  <2> QED
    BY <2>2 DEF Top
<1>5. ASSUME NEW i \in 1 .. Len(ns), i \notin S, i # Top(st)
      PROVE  \E j \in 1 .. Len(st) - 1 : st[j] = i
  <2>1. PICK j \in 1 .. Len(st) : st[j] = i
    BY <1>1, <1>5 DEF Covered
  <2>2. j # Len(st)
    BY <1>5, <2>1 DEF Top
  <2>3. j \in 1 .. Len(st) - 1
    BY <1>1, <2>2
  <2> QED
    BY <2>1, <2>3
<1> QED
  BY <1>1, <1>2, <1>3, <1>4, <1>5

Replaced(s, t, m) == [s EXCEPT ![t] = m]
Extended(s, x)    == Append(s, x)

ReplacesAt(r, s, t, m) ==
  Len(r) = Len(s) /\ r[t] = m /\ \A i \in 1 .. Len(s) : i # t => r[i] = s[i]

ExtendsBy(r, s, x) ==
  Len(r) = Len(s) + 1 /\ r[Len(s) + 1] = x /\ \A i \in 1 .. Len(s) : r[i] = s[i]

LEMMA SeqReplaced ==
  ASSUME NEW V, NEW s \in Seq(V), NEW t \in 1 .. Len(s), NEW m \in V
  PROVE  Replaced(s, t, m) \in Seq(V) /\ ReplacesAt(Replaced(s, t, m), s, t, m)
BY DEF Replaced, ReplacesAt

LEMMA SeqExtended ==
  ASSUME NEW V, NEW s \in Seq(V), NEW x \in V
  PROVE  Extended(s, x) \in Seq(V) /\ ExtendsBy(Extended(s, x), s, x)
BY DEF Extended, ExtendsBy

LEMMA ReplacedTwice ==
  ASSUME NEW V, NEW s \in Seq(V), NEW t \in 1 .. Len(s), NEW m \in V, NEW n
  PROVE  /\ Replaced(Replaced(s, t, m), t, n) = Replaced(s, t, n)
         /\ Len(Replaced(s, t, m)) = Len(s)
<1>1. Replaced(Replaced(s, t, m), t, n) = Replaced(s, t, n)
  BY DEF Replaced
<1>2. ReplacesAt(Replaced(s, t, m), s, t, m)
  BY SeqReplaced
<1> QED
  BY <1>1, <1>2 DEF ReplacesAt

\* The last node of the stack becomes another one with settled children.
LEMMA TreeChanges ==
  ASSUME NEW val, NEW S, NEW fs, NEW ns, NEW st, OpenTree(val, S, fs, ns, st),
         NEW m \in Node, RefersOn(Top(st), m, Len(ns)), KidsIn(m, Size(m), S)
  PROVE  /\ OpenTree(val, S, fs, Replaced(ns, Top(st), m), st)
         /\ Replaced(ns, Top(st), m)[Top(st)] = m
<1> DEFINE t == Top(st)
           nn == Replaced(ns, t, m)
<1>1. TreeOK(val, S, fs, ns, st) /\ t \notin S
  BY DEF OpenTree
<1>2. /\ Len(ns) \in Nat /\ t \in 1 .. Len(ns)
      /\ \A i \in 1 .. Len(st) - 1 : st[i] \in 1 .. Len(ns) /\ st[i] # t
  BY <1>1, TopIs
<1>3. ns \in Seq(Node)
  BY <1>1 DEF TreeOK
<1>4. /\ nn \in Seq(Node) /\ Len(nn) = Len(ns) /\ nn[t] = m
      /\ \A i \in 1 .. Len(ns) : i # t => nn[i] = ns[i]
  <2> HIDE DEF t
  <2>1. nn \in Seq(Node) /\ ReplacesAt(nn, ns, t, m)
    BY <1>2, <1>3, SeqReplaced
  <2> QED
    BY <2>1 DEF ReplacesAt
<1> HIDE DEF nn, t
<1>5. \A i \in 1 .. Len(nn) : RefersOn(i, nn[i], Len(nn))
  BY <1>1, <1>4 DEF TreeOK, t
<1>6. \A i \in S : i \in 1 .. Len(ns) /\ nn[i] = ns[i]
  BY <1>1, <1>4 DEF TreeOK
<1>7. \A i \in S : SettledAt(val, S, nn[i], val[i])
  BY <1>1, <1>6 DEF TreeOK
<1>8. \A i \in 1 .. Len(st) - 1 : st[i] \notin S /\ FrameAt(val, S, fs[i], nn[st[i]], st[i + 1])
  BY <1>1, <1>2, <1>4 DEF TreeOK
<1>9. Covered(S, nn, st)
  BY <1>1, <1>4 DEF TreeOK, Covered
<1>10. TreeOK(val, S, fs, nn, st)
  BY <1>1, <1>4, <1>5, <1>7, <1>8, <1>9 DEF TreeOK
<1>11. OpenTree(val, S, fs, nn, st)
  BY <1>1, <1>4, <1>10 DEF OpenTree, t
<1> QED
  BY <1>4, <1>11 DEF t, nn

Put(val, i, x) == [j \in Nat |-> IF j = i THEN x ELSE val[j]]

SettlesAs(fs, ns, st, x) == \E val, S : DoneTree(val, S, fs, ns, st) /\ val[Top(st)] = x

\* It is settled.
LEMMA TreeSettles ==
  ASSUME NEW val, NEW S, NEW fs, NEW ns, NEW st, OpenTree(val, S, fs, ns, st)
  PROVE  SettlesAs(fs, ns, st, Worth(val, ns[Top(st)]))
<1> DEFINE t == Top(st)
           x == Worth(val, ns[t])
           other == Put(val, t, x)
           T == S \cup {t}
<1>1. TreeOK(val, S, fs, ns, st) /\ t \notin S /\ KidsIn(ns[t], Size(ns[t]), S)
  BY DEF OpenTree
<1>2. /\ Len(ns) \in Nat /\ t \in 1 .. Len(ns)
      /\ \A i \in 1 .. Len(st) - 1 : st[i] \in 1 .. Len(ns) /\ st[i] # t
  BY <1>1, TopIs
<1>3. S \subseteq 1 .. Len(ns)
  BY <1>1 DEF TreeOK
<1>4. other[t] = x /\ Agree(val, other, S) /\ S \subseteq T /\ T \subseteq 1 .. Len(ns)
  <2> HIDE DEF t, x
  <2>1. t \in Nat /\ \A i \in S : i \in Nat /\ i # t
    BY <1>1, <1>2, <1>3
  <2> QED
    BY <1>2, <1>3, <2>1 DEF Put, Agree
<1> HIDE DEF other, x
<1>5. SettledAt(other, T, ns[t], other[t])
  <2>1. SettledAt(val, S, ns[t], x)
    BY <1>1 DEF SettledAt, x
  <2> HIDE DEF t, T
  <2> QED
    BY <1>4, <2>1, SettledStays
<1>6. ASSUME NEW i \in S
      PROVE  SettledAt(other, T, ns[i], other[i])
  <2>1. SettledAt(val, S, ns[i], val[i]) /\ other[i] = val[i]
    BY <1>1, <1>4 DEF TreeOK, Agree
  <2> HIDE DEF T
  <2> QED
    BY <1>4, <2>1, SettledStays
<1>7. ASSUME NEW i \in 1 .. Len(st) - 1
      PROVE  st[i] \notin T /\ FrameAt(other, T, fs[i], ns[st[i]], st[i + 1])
  <2>1. st[i] \notin S /\ FrameAt(val, S, fs[i], ns[st[i]], st[i + 1])
    BY <1>1 DEF TreeOK
  <2>2. st[i] \notin T
    BY <1>2, <2>1
  <2> HIDE DEF T
  <2>3. ASSUME NEW f, NEW n, NEW kid, FrameAt(val, S, f, n, kid)
        PROVE  FrameAt(other, T, f, n, kid)
    BY <1>4, <2>3, FrameStays
  <2> QED
    BY <2>1, <2>2, <2>3, SeqReplaced DEF ReplacesAt
<1>8. Covered(T, ns, st)
  BY <1>1 DEF TreeOK, Covered
<1>9. \A i \in T : SettledAt(other, T, ns[i], other[i])
  BY <1>5, <1>6
<1>10. TreeOK(other, T, fs, ns, st)
  <2> HIDE DEF T, t
  <2> QED
    BY <1>1, <1>4, <1>7, <1>8, <1>9 DEF TreeOK
<1>11. DoneTree(other, T, fs, ns, st)
  BY <1>10 DEF DoneTree
<1> QED
  BY <1>4, <1>11 DEF t, x, SettlesAs

\* A settled one is left, and what is below it has all its children.
LEMMA TreePops ==
  ASSUME NEW val, NEW S, NEW fs, NEW ns, NEW st, DoneTree(val, S, fs, ns, st), Len(st) > 1
  PROVE  /\ OpenTree(val, S, fs, ns, Popped(st))
         /\ Len(Popped(st)) = Len(st) - 1
         /\ FrameAt(val, S, fs[Len(st) - 1], ns[Top(Popped(st))], Top(st))
<1> DEFINE b == Popped(st)
           N == Len(st) - 1
<1>1. TreeOK(val, S, fs, ns, st) /\ Top(st) \in S
  BY DEF DoneTree
<1>2. st \in Seq(1 .. Len(ns)) /\ Len(st) \in Nat \ {0} /\ st[1] = 1 /\ Rising(st) /\ N \in 1 .. N
      /\ N \in Nat \ {0}
  BY <1>1 DEF TreeOK
<1>3. b \in Seq(1 .. Len(ns)) /\ Len(b) = N /\ \A i \in 1 .. N : b[i] = st[i]
  BY <1>2 DEF Popped
<1>4. Top(b) = st[N] /\ N + 1 = Len(st)
  BY <1>2, <1>3 DEF Top
<1> HIDE DEF b
<1>5. \A i \in 1 .. N : st[i] \notin S /\ FrameAt(val, S, fs[i], ns[st[i]], st[i + 1])
  BY <1>1 DEF TreeOK
<1>6. Top(b) \notin S /\ FrameAt(val, S, fs[N], ns[Top(b)], Top(st))
  BY <1>2, <1>4, <1>5 DEF Top
<1>7. \A i \in 1 .. N - 1 : i \in 1 .. N /\ i + 1 \in 1 .. N
  BY <1>2
<1>8. \A i \in 1 .. N - 1 : b[i] \notin S /\ FrameAt(val, S, fs[i], ns[b[i]], b[i + 1])
  BY <1>3, <1>5, <1>7
<1>9. Rising(b) /\ b[1] = 1
  <2>1. \A i \in 1 .. N : i \in 1 .. Len(st)
    BY <1>2
  <2>2. 1 \in 1 .. N
    BY <1>2
  <2> QED
    BY <1>2, <1>3, <2>1, <2>2 DEF Rising
<1>10. Covered(S, ns, b)
  <2>1. \A i \in 1 .. Len(ns) : i \in S \/ i = Top(st) \/ \E j \in 1 .. N : st[j] = i
    BY <1>1, TopIs
  <2> QED
    BY <1>1, <1>3, <2>1 DEF Covered
<1>11. TreeOK(val, S, fs, ns, b)
  BY <1>1, <1>2, <1>3, <1>8, <1>9, <1>10 DEF TreeOK
<1>12. KidsIn(ns[Top(b)], Size(ns[Top(b)]), S)
  <2>1. ASSUME NEW j \in 1 .. Size(ns[Top(b)])
        PROVE  KidAt(ns[Top(b)], j) \in S
    <3>1. Size(ns[Top(b)]) \in Nat \ {0}
      BY <1>6 DEF FrameAt
    <3>2. j = Size(ns[Top(b)]) \/ j \in 1 .. Size(ns[Top(b)]) - 1
      BY <3>1
    <3> QED
      BY <1>1, <1>6, <3>2 DEF FrameAt, KidsIn
  <2> QED
    BY <2>1 DEF KidsIn
<1>13. OpenTree(val, S, fs, ns, b)
  BY <1>6, <1>11, <1>12 DEF OpenTree
<1> QED
  BY <1>3, <1>6, <1>13 DEF b

LEMMA ListsGrow ==
  ASSUME NEW V, NEW W, V \subseteq W
  PROVE  ListOf(V) \subseteq ListOf(W) /\ Seq(V) \subseteq Seq(W)
<1>1. NamedOf(V) \subseteq NamedOf(W)
  BY DEF NamedOf
<1>2. Seq(V) \subseteq Seq(W) /\ Seq(NamedOf(V)) \subseteq Seq(NamedOf(W))
  <2>1. \A A, B : A \subseteq B => Seq(A) \subseteq Seq(B)
    OBVIOUS
  <2> QED
    BY <1>1, <2>1
<1> QED
  BY <1>2 DEF ListOf

LEMMA RefersFurther ==
  ASSUME NEW i \in Nat, NEW N \in Nat, NEW n, RefersOn(i, n, N)
  PROVE  RefersOn(i, n, N + 1)
<1>1. i + 1 .. N \subseteq i + 1 .. N + 1
  OBVIOUS
<1> DEFINE V == i + 1 .. N
           W == i + 1 .. N + 1
<1>2. n.properties \in ListOf(V) /\ n.elements \in Seq(V)
  BY DEF RefersOn
<1>3. V \subseteq W
  BY <1>1
<1> HIDE DEF V, W
<1>4. n.properties \in ListOf(W) /\ n.elements \in Seq(W)
  BY <1>2, <1>3, ListsGrow
<1> QED
  BY <1>4 DEF RefersOn, W

LEMMA NoNodeIs ==
  /\ NoNode \in Node /\ NoNode.type = "none" /\ Size(NoNode) = 0 /\ NoNode.token = ""
  /\ NoNode.properties = <<>> /\ NoNode.elements = <<>>
  /\ \A i, N : RefersOn(i, NoNode, N)
  /\ \A S : KidsIn(NoNode, Size(NoNode), S)
<1>1. \A V : <<>> \in Seq(V)
  OBVIOUS
<1>2. \A V : <<>> \in ListOf(V)
  BY <1>1 DEF ListOf
<1>3. /\ NoNode.type = "none" /\ NoNode.token = ""
      /\ NoNode.properties = <<>> /\ NoNode.elements = <<>>
  BY DEF NoNode
<1>4. NoNode \in Node
  BY <1>1, <1>2 DEF NoNode, Node
<1>5. Size(NoNode) = 0
  BY <1>3 DEF Size
<1>6. \A i, N : RefersOn(i, NoNode, N)
  BY <1>1, <1>2, <1>3, Zenon DEF RefersOn
<1>7. \A S : KidsIn(NoNode, 0, S)
  BY DEF KidsIn
<1> QED
  BY <1>3, <1>4, <1>5, <1>6, <1>7

PutsOn(gs, fs, i, f) == gs[i] = f /\ \A j \in 1 .. i - 1 : gs[j] = fs[j]

GrowsTo(val, S, fs, depth, f, ms, sk) ==
  /\ ms[Top(sk)] = NoNode /\ Len(sk) = depth + 1
  /\ \E gs : OpenTree(val, S, gs, ms, sk) /\ PutsOn(gs, fs, depth, f)

\* The last node of the stack gets a child, which comes after it.
LEMMA TreeGrows ==
  ASSUME NEW val, NEW S, NEW fs, NEW ns, NEW st, OpenTree(val, S, fs, ns, st),
         NEW m \in Node, RefersOn(Top(st), m, Len(ns) + 1),
         NEW f, FrameAt(val, S, f, m, Len(ns) + 1)
  PROVE  GrowsTo(val, S, fs, Len(st), f, Extended(Replaced(ns, Top(st), m), NoNode),
                 Extended(st, Len(ns) + 1))
<1> DEFINE t == Top(st)
           N == Len(ns)
           D == Len(st)
           ms == Extended(Replaced(ns, t, m), NoNode)
           sk == Extended(st, N + 1)
           gs == Put(fs, D, f)
<1>1. TreeOK(val, S, fs, ns, st) /\ t \notin S
  BY DEF OpenTree
<1>2. /\ N \in Nat /\ t \in 1 .. N /\ D \in Nat \ {0}
      /\ \A i \in 1 .. D - 1 : st[i] \in 1 .. N /\ st[i] # t
      /\ \A i \in 1 .. N : i \in S \/ i = t \/ \E j \in 1 .. D - 1 : st[j] = i
  BY <1>1, TopIs
<1>3. /\ ns \in Seq(Node) /\ \A i \in 1 .. N : RefersOn(i, ns[i], N)
      /\ st \in Seq(1 .. N) /\ st[1] = 1 /\ Rising(st)
      /\ S \subseteq 1 .. N /\ \A i \in S : SettledAt(val, S, ns[i], val[i])
      /\ \A i \in 1 .. D - 1 : st[i] \notin S /\ FrameAt(val, S, fs[i], ns[st[i]], st[i + 1])
  BY <1>1 DEF TreeOK
<1>4. /\ ms \in Seq(Node) /\ Len(ms) = N + 1 /\ ms[t] = m /\ ms[N + 1] = NoNode
      /\ \A i \in 1 .. N : i # t => ms[i] = ns[i]
  <2> HIDE DEF t, N
  <2>1. ns \in Seq(Node) /\ t \in 1 .. Len(ns) /\ N = Len(ns)
    BY <1>2, <1>3 DEF N
  <2>2. NoNode \in Node
    BY NoNodeIs
  <2>3. PICK r : r = Replaced(ns, t, m) /\ ms = Extended(r, NoNode)
    OBVIOUS
  <2>4. r \in Seq(Node) /\ ReplacesAt(r, ns, t, m)
    BY <2>1, <2>3, SeqReplaced
  <2>5. ms \in Seq(Node) /\ ExtendsBy(ms, r, NoNode)
    BY <2>2, <2>3, <2>4, SeqExtended
  <2>6. Len(r) = N /\ r[t] = m /\ \A i \in 1 .. N : i # t => r[i] = ns[i]
    BY <2>1, <2>4 DEF ReplacesAt
  <2>7. /\ Len(ms) = Len(r) + 1 /\ ms[Len(r) + 1] = NoNode
        /\ \A i \in 1 .. Len(r) : ms[i] = r[i]
    BY <2>5 DEF ExtendsBy
  <2> HIDE DEF ms
  <2> QED
    BY <2>1, <2>5, <2>6, <2>7
<1>5. /\ sk \in Seq(1 .. N + 1) /\ Len(sk) = D + 1 /\ sk[D + 1] = N + 1
      /\ \A i \in 1 .. D : sk[i] = st[i] /\ st[i] \in 1 .. N
  <2>1. \A i \in 1 .. N : i \in 1 .. N + 1
    BY <1>2
  <2>2. N + 1 \in 1 .. N + 1
    BY <1>2
  <2> DEFINE P == 1 .. N + 1
  <2>3. st \in Seq(P) /\ N + 1 \in P
    BY <1>3, <2>1, <2>2, ListsGrow
  <2> HIDE DEF P
  <2>6. PICK n : n = N + 1
    OBVIOUS
  <2>7. n \in P /\ sk = Extended(st, n)
    BY <2>3, <2>6
  <2> HIDE DEF sk, D
  <2>8. sk \in Seq(P) /\ ExtendsBy(sk, st, n)
    BY <2>3, <2>7, SeqExtended
  <2>9. D = Len(st)
    BY DEF D
  <2>4. sk \in Seq(P) /\ Len(sk) = D + 1 /\ sk[D + 1] = N + 1 /\ \A i \in 1 .. D : sk[i] = st[i]
    BY <2>6, <2>8, <2>9 DEF ExtendsBy
  <2>5. \A i \in 1 .. D : st[i] \in 1 .. N
    BY <1>3 DEF D
  <2> QED
    BY <2>4, <2>5, Zenon DEF P
<1>6. Top(sk) = N + 1 /\ D \in 1 .. D /\ st[D] = t /\ 1 \in 1 .. D /\ D + 1 - 1 = D
  BY <1>2, <1>5 DEF Top
<1>7. gs[D] = f /\ \A i \in 1 .. D - 1 : gs[i] = fs[i]
  <2>1. D \in Nat /\ \A i \in 1 .. D - 1 : i \in Nat /\ i # D
    BY <1>2
  <2> QED
    BY <2>1 DEF Put
<1> HIDE DEF gs, t, ms, sk
<1>8. ASSUME NEW i \in 1 .. N + 1
      PROVE  RefersOn(i, ms[i], N + 1)
  <2>1. CASE i = t
    BY <1>4, <2>1 DEF t
  <2>2. CASE i = N + 1
    BY <1>4, <2>2, NoNodeIs
  <2>3. CASE i # t /\ i # N + 1
    <3>1. i \in 1 .. N /\ i \in Nat
      <4>1. N \in Nat
        BY <1>2
      <4> QED
        BY <2>3, <4>1
    <3>2. RefersOn(i, ns[i], N) /\ ms[i] = ns[i]
      BY <1>3, <1>4, <2>3, <3>1
    <3> QED
      BY <1>2, <3>1, <3>2, RefersFurther
  <2> QED
    BY <2>1, <2>2, <2>3
<1>9. Rising(sk)
  <2>1. ASSUME NEW i \in 1 .. D + 1, NEW j \in 1 .. D + 1, i < j
        PROVE  sk[i] < sk[j]
    <3>1. i \in 1 .. D
      BY <1>2, <2>1
    <3>2. CASE j = D + 1
      <4>1. sk[i] \in 1 .. N /\ sk[j] = N + 1
        BY <1>5, <3>1, <3>2
      <4> QED
        BY <1>2, <4>1
    <3>3. CASE j # D + 1
      <4>1. j \in 1 .. D
        BY <1>2, <3>3
      <4> QED
        BY <1>3, <1>5, <2>1, <3>1, <4>1 DEF Rising
    <3> QED
      BY <3>2, <3>3
  <2> QED
    BY <1>5, <2>1 DEF Rising
<1>10. S \subseteq 1 .. N + 1 /\ N + 1 \notin S
  <2>1. \A i \in 1 .. N : i \in 1 .. N + 1 /\ i # N + 1
    BY <1>2
  <2> QED
    BY <1>3, <2>1
<1>11. Covered(S, ms, sk)
  <2>1. ASSUME NEW i \in 1 .. N + 1, i \notin S
        PROVE  \E j \in 1 .. D + 1 : sk[j] = i
    <3>1. \A j \in 1 .. D : j \in 1 .. D + 1
      BY <1>2
    <3>2. D + 1 \in 1 .. D + 1
      BY <1>2
    <3>3. CASE i = N + 1
      BY <1>5, <3>2, <3>3
    <3>4. CASE i = t
      BY <1>5, <1>6, <3>1, <3>4
    <3>5. CASE i # N + 1 /\ i # t
      <4>1. i \in 1 .. N
        <5>1. N \in Nat
          BY <1>2
        <5> QED
          BY <3>5, <5>1
      <4>2. PICK j \in 1 .. D - 1 : st[j] = i
        BY <1>2, <2>1, <3>5, <4>1
      <4>3. j \in 1 .. D
        BY <1>2
      <4> QED
        BY <1>5, <3>1, <4>2, <4>3
    <3> QED
      BY <3>3, <3>4, <3>5
  <2> QED
    BY <1>4, <1>5, <2>1 DEF Covered
<1>12. ASSUME NEW i \in S
       PROVE  SettledAt(val, S, ms[i], val[i])
  <2>1. i \in 1 .. N /\ i # t
    BY <1>1, <1>3
  <2> QED
    BY <1>3, <1>4, <2>1
<1>13. ASSUME NEW i \in 1 .. D
       PROVE  sk[i] \notin S /\ FrameAt(val, S, gs[i], ms[sk[i]], sk[i + 1])
  <2>1. CASE i = D
    <3>1. sk[i] = t /\ sk[i + 1] = N + 1 /\ gs[i] = f /\ ms[sk[i]] = m
      BY <1>4, <1>5, <1>6, <1>7, <2>1
    <3> QED
      BY <1>1, <3>1
  <2>2. CASE i # D
    <3>1. i \in 1 .. D - 1 /\ i \in 1 .. D /\ i + 1 \in 1 .. D
      BY <1>2, <2>2
    <3>2. sk[i] = st[i] /\ sk[i + 1] = st[i + 1] /\ gs[i] = fs[i] /\ ms[sk[i]] = ns[st[i]]
      BY <1>2, <1>4, <1>5, <1>7, <3>1
    <3> QED
      BY <1>3, <3>1, <3>2
  <2> QED
    BY <2>1, <2>2
<1>14. TreeOK(val, S, gs, ms, sk)
  <2>1. Len(sk) \in Nat \ {0} /\ sk[1] = 1 /\ Len(sk) - 1 = D
    BY <1>2, <1>3, <1>5, <1>6
  <2>2. 1 .. Len(ms) = 1 .. N + 1
    BY <1>4
  <2> HIDE DEF N, D
  <2> QED
    BY <1>4, <1>5, <1>8, <1>9, <1>10, <1>11, <1>12, <1>13, <2>1, <2>2 DEF TreeOK
<1>15. OpenTree(val, S, gs, ms, sk)
  BY <1>4, <1>6, <1>10, <1>14, NoNodeIs DEF OpenTree
<1> QED
  BY <1>4, <1>5, <1>6, <1>7, <1>15 DEF t, ms, sk, PutsOn, GrowsTo

-----------------------------------------------------------------------------
(* A node's children.                                                      *)

LEMMA ItemsAre ==
  ASSUME NEW val, NEW n, NEW c \in Nat
  PROVE  /\ Items(val, n, c) \in Seq({ItemAt(val, n, j) : j \in 1 .. c})
         /\ Len(Items(val, n, c)) = c /\ IsList(Items(val, n, c))
         /\ \A j \in 1 .. c : Items(val, n, c)[j] = ItemAt(val, n, j)
<1> DEFINE S == {ItemAt(val, n, j) : j \in 1 .. c}
<1>1. Items(val, n, c) \in [1 .. c -> S]
  BY DEF Items
<1>2. \A j \in 1 .. c : Items(val, n, c)[j] = ItemAt(val, n, j)
  BY DEF Items
<1> HIDE DEF Items, S
<1>3. Items(val, n, c) \in Seq(S) /\ Len(Items(val, n, c)) = c
  BY <1>1
<1> QED
  BY <1>2, <1>3 DEF IsList, S

CompletedBy(val, f, n, y) ==
  /\ Items(val, n, Size(n)) = f.done \o <<OneOf(f, y)>>
  /\ IsList(f.done) /\ f.open \in Brackets

\* With its last child's value, a list is as long as its node.
LEMMA FrameItems ==
  ASSUME NEW val, NEW S, NEW f, NEW n, NEW kid, FrameAt(val, S, f, n, kid)
  PROVE  CompletedBy(val, f, n, val[kid])
<1> DEFINE c == Size(n)
           d == Items(val, n, c - 1)
<1>1. /\ c \in Nat \ {0} /\ KidAt(n, c) = kid /\ n.type \in {"array", "object"}
      /\ f.done = d /\ f.open = (IF n.type = "array" THEN "[" ELSE "{")
      /\ n.type = "object" => f.name = n.properties[c].name
  BY DEF FrameAt, FrameIs
<1>0. c \in Nat \ {0}
  BY <1>1
<1> HIDE DEF c
<1>2. c - 1 \in Nat /\ c \in Nat
  BY <1>0
<1>3. /\ Len(d) = c - 1 /\ IsList(d) /\ \A j \in 1 .. c - 1 : d[j] = ItemAt(val, n, j)
  BY <1>2, ItemsAre
<1>4. /\ Len(Items(val, n, c)) = c /\ IsList(Items(val, n, c))
      /\ \A j \in 1 .. c : Items(val, n, c)[j] = ItemAt(val, n, j)
  BY <1>2, ItemsAre
<1>5. OneOf(f, val[kid]) = ItemAt(val, n, c)
  BY <1>1 DEF OneOf, ItemAt, KidAt
<1> HIDE DEF d
<1> DEFINE e == Items(val, n, c)
           x == OneOf(f, val[kid])
<1>6. PICK V : d \in Seq(V)
  BY <1>3 DEF IsList
<1>7. PICK W : e \in Seq(W)
  BY <1>4 DEF IsList
<1> HIDE DEF e, x
<1>8. d \in Seq(V \cup W \cup {x}) /\ e \in Seq(V \cup W \cup {x})
  BY <1>6, <1>7
<1>9. e[c] = x /\ \A j \in 1 .. c - 1 : e[j] = d[j]
  <2>1. c \in 1 .. c /\ \A j \in 1 .. c - 1 : j \in 1 .. c
    BY <1>0
  <2> QED
    BY <1>3, <1>4, <1>5, <2>1 DEF e, x
<1>10. Len(e) = c
  BY <1>4 DEF e
<1>11. e = d \o <<x>>
  <2> DEFINE g == d \o <<x>>
  <2> DEFINE U == V \cup W \cup {x}
  <2>0. d \in Seq(U) /\ x \in U /\ Len(d) = c - 1
    BY <1>3, <1>8
  <2> HIDE DEF U
  <2>1. g \in Seq(U) /\ Len(g) = c /\ g[c] = x /\ \A j \in 1 .. c - 1 : g[j] = d[j]
    BY <1>0, <2>0
  <2> HIDE DEF g
  <2>2. \A j \in 1 .. c : g[j] = e[j]
    <3>1. \A j \in 1 .. c : j = c \/ j \in 1 .. c - 1
      BY <1>0
    <3> QED
      BY <1>9, <2>1, <3>1
  <2> QED
    BY <1>8, <1>10, <2>1, <2>2 DEF g, U
<1> QED
  BY <1>1, <1>3, <1>11 DEF c, e, x, Brackets, CompletedBy

LEMMA ElementsCopied ==
  ASSUME NEW val, NEW n, NEW m, NEW c, n.type = "array", m.type = "array",
         \A j \in 1 .. c : m.elements[j] = n.elements[j]
  PROVE  Items(val, m, c) = Items(val, n, c)
<1>1. \A j \in 1 .. c : ItemAt(val, m, j) = ItemAt(val, n, j)
  BY DEF ItemAt
<1> QED
  BY <1>1, Zenon DEF Items

LEMMA PropertiesCopied ==
  ASSUME NEW val, NEW n, NEW m, NEW c, n.type = "object", m.type = "object",
         \A j \in 1 .. c : m.properties[j] = n.properties[j]
  PROVE  Items(val, m, c) = Items(val, n, c)
<1>1. \A j \in 1 .. c : ItemAt(val, m, j) = ItemAt(val, n, j)
  BY DEF ItemAt
<1> QED
  BY <1>1, Zenon DEF Items

LEMMA ArrayGets ==
  ASSUME NEW n \in Node, n.type = "array", NEW S, KidsIn(n, Size(n), S),
         NEW N \in Nat, NEW i \in 1 .. N, RefersOn(i, n, N), NEW val, NEW m,
         m = [n EXCEPT !.elements = Append(@, N + 1)]
  PROVE  LET f == [open |-> "[", done |-> Items(val, n, Size(n)), name |-> ""]
         IN  m \in Node /\ RefersOn(i, m, N + 1) /\ FrameAt(val, S, f, m, N + 1)
<1> DEFINE f == [open |-> "[", done |-> Items(val, n, Size(n)), name |-> ""]
           c == Len(n.elements)
           W == i + 1 .. N + 1
<1>1. /\ n.properties \in ListOf(Nat) /\ n.elements \in Seq(Nat) /\ c \in Nat
  BY NodeIs
<1>2. RefersOn(i, n, N + 1)
  BY RefersFurther
<1>3. n.elements \in Seq(W) /\ n.properties \in ListOf(W) /\ N + 1 \in W /\ N + 1 \in Nat
  BY <1>2 DEF RefersOn
<1>4. /\ m.type = "array" /\ m.elements = Append(n.elements, N + 1)
      /\ m.properties = n.properties /\ m.token = n.token
  BY DEF Node
<1>5. m \in Node
  <2>1. Append(n.elements, N + 1) \in Seq(Nat)
    BY <1>1
  <2> QED
    BY <2>1 DEF Node
<1>6. RefersOn(i, m, N + 1)
  <2> HIDE DEF W
  <2>1. m.elements \in Seq(W) /\ m.properties \in ListOf(W)
    BY <1>3, <1>4
  <2> QED
    BY <2>1 DEF RefersOn, W
<1>7. /\ Size(m) = c + 1 /\ Size(n) = c /\ c + 1 - 1 = c
      /\ m.elements[c + 1] = N + 1 /\ \A j \in 1 .. c : m.elements[j] = n.elements[j]
  <2> DEFINE l == n.elements
  <2>1. l \in Seq(W) /\ N + 1 \in W
    BY <1>3
  <2> HIDE DEF l, W
  <2>2. /\ Len(Append(l, N + 1)) = Len(l) + 1 /\ Append(l, N + 1)[Len(l) + 1] = N + 1
        /\ \A j \in 1 .. Len(l) : Append(l, N + 1)[j] = l[j]
    BY <2>1
  <2> QED
    BY <1>1, <1>4, <2>2 DEF Size, l
<1> HIDE DEF c
<1>8. KidsIn(m, c, S) /\ KidAt(m, c + 1) = N + 1
  BY <1>4, <1>7 DEF KidsIn, KidAt
<1>9. Items(val, m, c) = Items(val, n, c)
  <2>1. m.type = "array" /\ \A j \in 1 .. c : m.elements[j] = n.elements[j]
    BY <1>4, <1>7
  <2> QED
    BY <2>1, ElementsCopied, Zenon
<1>10. FrameAt(val, S, f, m, N + 1)
  <2>1. FrameIs(f, "[", Items(val, m, c), f.name)
    BY <1>7, <1>9 DEF FrameIs
  <2>2. c + 1 \in Nat \ {0}
    BY <1>1
  <2>3. m.type = "array" /\ Size(m) = c + 1 /\ c + 1 - 1 = c
    BY <1>4, <1>7
  <2> HIDE DEF f
  <2>4. KidsIn(m, Size(m) - 1, S) /\ FrameIs(f, "[", Items(val, m, Size(m) - 1), f.name)
    <3>1. c \in Nat /\ Size(m) = c + 1
      BY <1>1, <2>3
    <3>2. Size(m) - 1 = c
      BY <3>1
    <3> QED
      BY <1>8, <2>1, <3>2, Zenon
  <2> QED
    BY <1>8, <2>2, <2>3, <2>4 DEF FrameAt
<1> QED
  BY <1>5, <1>6, <1>10

LEMMA ObjectGets ==
  ASSUME NEW n \in Node, n.type = "object", NEW S, KidsIn(n, Size(n), S),
         NEW N \in Nat, NEW i \in 1 .. N, RefersOn(i, n, N), NEW val, NEW m,
         NEW id \in Strings, m = [n EXCEPT !.properties = Append(@, Property(id, N + 1))]
  PROVE  LET f == [open |-> "{", done |-> Items(val, n, Size(n)), name |-> id]
         IN  m \in Node /\ RefersOn(i, m, N + 1) /\ FrameAt(val, S, f, m, N + 1)
<1> DEFINE f == [open |-> "{", done |-> Items(val, n, Size(n)), name |-> id]
           c == Len(n.properties)
           W == i + 1 .. N + 1
           p == Property(id, N + 1)
<1>1. /\ n.properties \in ListOf(Nat) /\ n.elements \in Seq(Nat) /\ c \in Nat
  BY NodeIs
<1>2. RefersOn(i, n, N + 1)
  BY RefersFurther
<1>3. n.elements \in Seq(W) /\ n.properties \in ListOf(W) /\ N + 1 \in W /\ N + 1 \in Nat
  BY <1>2 DEF RefersOn
<1>4. p \in NamedOf(W) /\ p \in NamedOf(Nat) /\ p.name = id /\ p.value = N + 1
  BY <1>3 DEF NamedOf, Property, Strings
<1> HIDE DEF p
<1>5. /\ m.type = "object" /\ m.properties = Append(n.properties, p)
      /\ m.elements = n.elements /\ m.token = n.token
  BY DEF Node, p
<1>6. m \in Node
  <2>1. Append(n.properties, p) \in ListOf(Nat)
    BY <1>1, <1>4 DEF ListOf
  <2> QED
    BY <2>1 DEF Node, p
<1>7. RefersOn(i, m, N + 1)
  <2> HIDE DEF W
  <2>1. Append(n.properties, p) \in ListOf(W)
    BY <1>3, <1>4 DEF ListOf
  <2>2. m.elements \in Seq(W) /\ m.properties \in ListOf(W)
    BY <1>3, <1>5, <2>1
  <2> QED
    BY <2>2 DEF RefersOn, W
<1>8. /\ Size(m) = c + 1 /\ Size(n) = c /\ c + 1 - 1 = c
      /\ m.properties[c + 1] = p /\ \A j \in 1 .. c : m.properties[j] = n.properties[j]
  <2> DEFINE l == n.properties
  <2>1. l \in Seq(NamedOf(W)) /\ p \in NamedOf(W)
    BY <1>3, <1>4 DEF ListOf
  <2> HIDE DEF l, W
  <2>2. /\ Len(Append(l, p)) = Len(l) + 1 /\ Append(l, p)[Len(l) + 1] = p
        /\ \A j \in 1 .. Len(l) : Append(l, p)[j] = l[j]
    BY <2>1
  <2> QED
    BY <1>1, <1>5, <2>2 DEF Size, l
<1> HIDE DEF c
<1>9. KidsIn(m, c, S) /\ KidAt(m, c + 1) = N + 1
  BY <1>4, <1>5, <1>8 DEF KidsIn, KidAt
<1>10. Items(val, m, c) = Items(val, n, c)
  <2>1. m.type = "object"
    BY <1>5
  <2>2. \A j \in 1 .. c : m.properties[j] = n.properties[j]
    BY <1>8
  <2> QED
    BY <2>1, <2>2, PropertiesCopied, Zenon
<1>11. FrameAt(val, S, f, m, N + 1)
  <2>1. FrameIs(f, "{", Items(val, m, c), f.name) /\ f.name = id
    BY <1>8, <1>10 DEF FrameIs
  <2>2. c + 1 \in Nat \ {0}
    BY <1>1
  <2>3. m.type = "object" /\ Size(m) = c + 1 /\ c + 1 - 1 = c
    BY <1>5, <1>8
  <2>4. m.properties[c + 1].name = id
    BY <1>4, <1>8
  <2> HIDE DEF f
  <2>5. KidsIn(m, Size(m) - 1, S) /\ FrameIs(f, "{", Items(val, m, Size(m) - 1), f.name)
    <3>1. c \in Nat /\ Size(m) = c + 1
      BY <1>1, <2>3
    <3>2. Size(m) - 1 = c
      BY <3>1
    <3> QED
      BY <1>9, <2>1, <3>2, Zenon
  <2> QED
    BY <1>9, <2>1, <2>2, <2>3, <2>4, <2>5 DEF FrameAt
<1> QED
  BY <1>6, <1>7, <1>11

\* What CloseObject makes of a node.
LEMMA ObjectCloses ==
  ASSUME NEW n \in Node, n.type = "object", NEW S, KidsIn(n, Size(n), S), NEW i, NEW N,
         RefersOn(i, n, N), NEW val, NEW m,
         m = [n EXCEPT !.properties = StableSortedAndUnique(@)]
  PROVE  /\ m \in Node /\ RefersOn(i, m, N) /\ KidsIn(m, Size(m), S)
         /\ Worth(val, m) = Object(FirstOfEach(Items(val, n, Size(n))))
<1> DEFINE l == n.properties
           u == StableSortedAndUnique(l)
<1>1. /\ l \in ListOf(Nat) /\ l \in ListOf(i + 1 .. N) /\ n.elements \in Seq(i + 1 .. N)
      /\ Size(n) = Len(l) /\ Len(l) \in Nat
  BY NodeIs DEF RefersOn, Size
<1>2. l \in ListOf(S)
  <2>1. \A j \in 1 .. Len(l) : l[j] \in NamedOf(Nat) /\ l[j].name \in DOMAIN Rank
                                 /\ l[j].value \in S
    BY <1>1, ListOfIs DEF KidsIn, KidAt
  <2>2. \A q \in NamedOf(Nat) : q.value \in S => q \in NamedOf(S)
    BY DEF NamedOf
  <2>3. \A j \in 1 .. Len(l) : l[j] \in NamedOf(S)
    BY <2>1, <2>2
  <2> HIDE DEF l
  <2>4. l = [j \in 1 .. Len(l) |-> l[j]]
    BY <1>1 DEF ListOf
  <2>5. l \in [1 .. Len(l) -> NamedOf(S)]
    BY <2>3, <2>4
  <2> QED
    BY <1>1, <2>5, IsListOf
<1> HIDE DEF l
<1>3. u \in ListOf(Nat) /\ u \in ListOf(i + 1 .. N) /\ u \in ListOf(S)
  BY <1>1, <1>2, UniqueAndSortedIs
<1>4. FirstOfEach(With(l, val)) = With(u, val)
  BY <1>1, SortedWith
<1> HIDE DEF u
<1>5. m.type = "object" /\ m.properties = u /\ m.elements = n.elements /\ m.token = n.token
  BY DEF Node, u, l
<1>6. m \in Node
  BY <1>3 DEF Node, u, l
<1>7. Size(m) = Len(u)
  BY <1>5 DEF Size
<1>8. KidsIn(m, Size(m), S)
  BY <1>3, <1>5, <1>7, ListOfIs DEF KidsIn, KidAt
<1>9. Items(val, n, Size(n)) = With(l, val)
  <2>1. \A j \in 1 .. Len(l) : ItemAt(val, n, j) = Property(l[j].name, val[l[j].value])
    BY DEF ItemAt, l
  <2> QED
    BY <1>1, <2>1, Zenon DEF Items, With
<1>10. Items(val, m, Size(m)) = With(u, val)
  <2>1. \A j \in 1 .. Len(u) : ItemAt(val, m, j) = Property(u[j].name, val[u[j].value])
    BY <1>5 DEF ItemAt
  <2> QED
    BY <1>7, <2>1, Zenon DEF Items, With
<1>11. Worth(val, m) = Object(FirstOfEach(Items(val, n, Size(n))))
  BY <1>4, <1>5, <1>9, <1>10 DEF Worth
<1> QED
  BY <1>1, <1>3, <1>5, <1>6, <1>8, <1>11 DEF RefersOn

-----------------------------------------------------------------------------
(* The stages of reading.                                                  *)

\* M is what the text can mean: with k tokens left a value is next, a name is next, or a
\* value has been complete.
Awaits(G, M, fs, depth, k) == \A v : v \in M <=> Expects(G, fs, depth, k, v)

AwaitsName(G, M, fs, depth, d, k) == \A v : v \in M <=> Opens(G, fs, depth, "{", d, k, v)

Knows(G, M, fs, depth, k, x) == \A v : v \in M <=> Leads(G, fs, depth, <<k, x>>, v)

ValueStage(G, M, val, S, fs, k, ns, st) ==
  /\ OpenTree(val, S, fs, ns, st) /\ ns[Top(st)] = NoNode
  /\ Awaits(G, M, fs, Len(st) - 1, k)

NameStage(G, M, val, S, fs, k, ns, st) ==
  /\ OpenTree(val, S, fs, ns, st) /\ ns[Top(st)].type = "object"
  /\ AwaitsName(G, M, fs, Len(st) - 1, Items(val, ns[Top(st)], Size(ns[Top(st)])), k)

DoneStage(G, M, val, S, fs, k, ns, st) ==
  /\ DoneTree(val, S, fs, ns, st)
  /\ Knows(G, M, fs, Len(st) - 1, k, val[Top(st)])

InStage(G, M, k, ns, st, rn, iv) ==
  \E val, S, fs :
    \/ iv /\ ~rn /\ ValueStage(G, M, val, S, fs, k, ns, st)
    \/ iv /\ rn /\ NameStage(G, M, val, S, fs, k, ns, st)
    \/ ~iv /\ ~rn /\ DoneStage(G, M, val, S, fs, k, ns, st)

LEMMA OpensSame ==
  ASSUME NEW G, NEW fs, NEW gs, NEW depth \in Nat, \A i \in 1 .. depth : gs[i] = fs[i],
         NEW open, NEW d, NEW k, NEW v
  PROVE  Opens(G, gs, depth, open, d, k, v) <=> Opens(G, fs, depth, open, d, k, v)
<1>1. \A q : Leads(G, gs, depth, q, v) <=> Leads(G, fs, depth, q, v)
  BY LeadsSame
<1> QED
  BY <1>1 DEF Opens

LEMMA AlsoFromZero ==
  ASSUME NEW n, NEW k \in 1 .. n
  PROVE  k \in 0 .. n
OBVIOUS

\* A node without children.
LEMMA LeafIs ==
  ASSUME NEW m, m.properties = <<>>, m.elements = <<>>
  PROVE  /\ Size(m) = 0 /\ \A val : Items(val, m, Size(m)) = <<>>
         /\ \A i, N : RefersOn(i, m, N)
         /\ \A S : KidsIn(m, Size(m), S)
<1>1. Size(m) = 0
  BY DEF Size
<1>2. \A val : Items(val, m, 0) = <<>>
  BY DEF Items
<1>3. \A S : KidsIn(m, 0, S)
  BY DEF KidsIn
<1>4. \A V : <<>> \in Seq(V)
  OBVIOUS
<1>5. \A i, N : RefersOn(i, m, N)
  BY <1>4 DEF RefersOn, ListOf
<1> QED
  BY <1>1, <1>2, <1>3, <1>5

BecomesIn(val, S, fs, ns, st, m) ==
  /\ OpenTree(val, S, fs, Replaced(ns, Top(st), m), st)
  /\ Replaced(ns, Top(st), m)[Top(st)] = m

\* The last node of the stack becomes one.
LEMMA LeafTree ==
  ASSUME NEW val, NEW S, NEW fs, NEW ns, NEW st, OpenTree(val, S, fs, ns, st),
         NEW m \in Node, m.properties = <<>>, m.elements = <<>>
  PROVE  BecomesIn(val, S, fs, ns, st, m)
<1>1. RefersOn(Top(st), m, Len(ns)) /\ KidsIn(m, Size(m), S)
  BY LeafIs
<1> QED
  BY <1>1, TreeChanges DEF BecomesIn

\* A scalar.
LEMMA ScalarStage ==
  ASSUME NEW G, Lawful(G), NEW M, NEW val, NEW S, NEW fs, NEW k \in 1 .. Len(G.text),
         NEW ns, NEW st, ValueStage(G, M, val, S, fs, k, ns, st),
         NEW t \in Strings \cup Scalars, Next1(G, k, t), NEW ms,
         ms = [ns EXCEPT ![Top(st)].type = "scalar", ![Top(st)].token = t]
  PROVE  InStage(G, M, k - 1, ms, st, FALSE, FALSE)
<1> DEFINE m == [NoNode EXCEPT !.type = "scalar", !.token = t]
           p == Top(st)
           D == Len(st) - 1
<1>1. /\ OpenTree(val, S, fs, ns, st) /\ ns[p] = NoNode /\ Awaits(G, M, fs, D, k)
  BY DEF ValueStage
<1>2. /\ Len(ns) \in Nat /\ p \in 1 .. Len(ns) /\ ns \in Seq(Node) /\ D \in Nat
  BY <1>1, TopIs DEF OpenTree, TreeOK
<1>3. /\ m \in Node /\ m.type = "scalar" /\ m.token = t
      /\ m.properties = <<>> /\ m.elements = <<>> /\ Size(m) = 0
  <2>1. t \in Tokens
    BY DEF Tokens
  <2> QED
    BY <2>1, NoNodeIs DEF Node, Size
<1>5. ms = Replaced(ns, p, m)
  BY <1>1, <1>2 DEF Replaced
<1> HIDE DEF m, p
<1>6. OpenTree(val, S, fs, ms, st) /\ ms[p] = m
  <2>1. m \in Node /\ m.properties = <<>> /\ m.elements = <<>>
    BY <1>3
  <2>2. OpenTree(val, S, fs, ns, st)
    BY <1>1
  <2>3. BecomesIn(val, S, fs, ns, st, m)
    BY <2>1, <2>2, LeafTree
  <2> QED
    BY <1>5, <2>3 DEF BecomesIn, p
<1>7. PICK other, T : DoneTree(other, T, fs, ms, st) /\ other[p] = Worth(val, ms[p])
  <2>1. SettlesAs(fs, ms, st, Worth(val, ms[Top(st)]))
    BY <1>6, TreeSettles
  <2> QED
    BY <2>1 DEF SettlesAs, p
<1>8. other[p] = Scalar(t)
  BY <1>3, <1>6, <1>7 DEF Worth
<1>9. Knows(G, M, fs, D, k - 1, other[p])
  <2>1. k \in 0 .. Len(G.text)
    OBVIOUS
  <2> HIDE DEF D
  <2>2. \A v : Expects(G, fs, D, k, v) <=> Leads(G, fs, D, <<k - 1, Scalar(t)>>, v)
    BY <2>1, ScalarIsNext
  <2> QED
    BY <1>1, <1>8, <2>2 DEF Knows, Awaits
<1>10. DoneStage(G, M, other, T, fs, k - 1, ms, st)
  BY <1>7, <1>9 DEF DoneStage, p
<1> QED
  BY <1>10 DEF InStage

\* An object opens.
LEMMA OpenObjectStage ==
  ASSUME NEW G, Lawful(G), NEW M, NEW val, NEW S, NEW fs, NEW k \in 1 .. Len(G.text),
         NEW ns, NEW st, ValueStage(G, M, val, S, fs, k, ns, st), Next1(G, k, "{"), NEW ms,
         ms = Replaced(ns, Top(st), [NoNode EXCEPT !.type = "object"])
  PROVE  InStage(G, M, k - 1, ms, st, TRUE, TRUE)
<1> DEFINE m == [NoNode EXCEPT !.type = "object"]
           p == Top(st)
           D == Len(st) - 1
<1>1. /\ OpenTree(val, S, fs, ns, st) /\ ns[p] = NoNode /\ Awaits(G, M, fs, D, k)
  BY DEF ValueStage
<1>3. /\ m \in Node /\ m.type = "object"
      /\ m.properties = <<>> /\ m.elements = <<>> /\ Size(m) = 0
  BY NoNodeIs DEF Node, Size
<1>5. ms = Replaced(ns, p, m)
  OBVIOUS
<1> HIDE DEF m, p
<1>6. OpenTree(val, S, fs, ms, st) /\ ms[p] = m
  <2>1. m \in Node /\ m.properties = <<>> /\ m.elements = <<>>
    BY <1>3
  <2>2. OpenTree(val, S, fs, ns, st)
    BY <1>1
  <2>3. BecomesIn(val, S, fs, ns, st, m)
    BY <2>1, <2>2, LeafTree
  <2> QED
    BY <1>5, <2>3 DEF BecomesIn, p
<1>7. Items(val, m, Size(m)) = <<>>
  BY <1>3, LeafIs
<1>8. AwaitsName(G, M, fs, D, Items(val, m, Size(m)), k - 1)
  <2>1. k \in 0 .. Len(G.text) /\ "{" \in Brackets
    <3>1. k \in 0 .. Len(G.text)
      BY AlsoFromZero
    <3> QED
      BY <3>1 DEF Brackets
  <2> HIDE DEF D
  <2>2. \A v : Expects(G, fs, D, k, v) <=> Opens(G, fs, D, "{", <<>>, k - 1, v)
    BY <2>1, BracketIsNext
  <2> QED
    BY <1>1, <1>7, <2>2 DEF AwaitsName, Awaits
<1>9. NameStage(G, M, val, S, fs, k - 1, ms, st)
  BY <1>3, <1>6, <1>8 DEF NameStage, p
<1> QED
  BY <1>9 DEF InStage

\* An array gets its first or another element.
LEMMA ElementStage ==
  ASSUME NEW G, Lawful(G), NEW M, NEW val, NEW S, NEW fs, NEW k, NEW ns, NEW st,
         OpenTree(val, S, fs, ns, st), NEW n, n = ns[Top(st)], n.type = "array",
         \A v : v \in M <=> Opens(G, fs, Len(st) - 1, "[", Items(val, n, Size(n)), k, v),
         NEW ms, NEW sk,
         ms = Extended(Replaced(ns, Top(st), [n EXCEPT !.elements = Append(@, Len(ns) + 1)]),
                       NoNode),
         sk = Extended(st, Len(ns) + 1)
  PROVE  InStage(G, M, k, ms, sk, FALSE, TRUE)
<1> DEFINE N == Len(ns)
           p == Top(st)
           D == Len(st)
           d == Items(val, n, Size(n))
           f == [open |-> "[", done |-> d, name |-> ""]
           m == [n EXCEPT !.elements = Append(@, N + 1)]
<1>1. /\ N \in Nat /\ p \in 1 .. N /\ ns \in Seq(Node) /\ D \in Nat \ {0} /\ n \in Node
      /\ RefersOn(p, n, N) /\ KidsIn(n, Size(n), S)
  BY TopIs DEF OpenTree, TreeOK
<1>2. ms = Extended(Replaced(ns, p, m), NoNode) /\ sk = Extended(st, N + 1)
  OBVIOUS
<1>3. m \in Node /\ RefersOn(p, m, N + 1) /\ FrameAt(val, S, f, m, N + 1)
  <2> HIDE DEF N, p
  <2> QED
    BY <1>1, ArrayGets
<1> HIDE DEF m, f
<1>4. /\ ms[Top(sk)] = NoNode /\ Len(sk) = D + 1
      /\ \E gs : OpenTree(val, S, gs, ms, sk) /\ PutsOn(gs, fs, D, f)
  <2>1. GrowsTo(val, S, fs, D, f, Extended(Replaced(ns, p, m), NoNode), Extended(st, N + 1))
    BY <1>3, TreeGrows
  <2>2. GrowsTo(val, S, fs, D, f, ms, sk)
    BY <1>2, <2>1
  <2> QED
    BY <2>2 DEF GrowsTo
<1>a. PICK gs : OpenTree(val, S, gs, ms, sk) /\ PutsOn(gs, fs, D, f)
  BY <1>4
<1>5. f.open = "[" /\ f.done = d
  BY DEF f
<1> HIDE DEF d
<1>6. Awaits(G, M, gs, D, k)
  <2>0. D \in Nat \ {0}
    BY <1>1
  <2> HIDE DEF D
  <2>1. PICK b \in Nat : b = D - 1 /\ b + 1 = D
    BY <2>0
  <2>2. \A v : v \in M <=> Opens(G, fs, b, "[", d, k, v)
    BY <2>1 DEF d, D
  <2>3. gs[b + 1].open = "[" /\ gs[b + 1].done = d /\ \A i \in 1 .. b : gs[i] = fs[i]
    BY <1>a, <1>5, <2>1 DEF PutsOn
  <2>4. IsList(d)
    BY <1>1, NodeIs, ItemsAre DEF d
  <2>5. \A v : Opens(G, gs, b, "[", d, k, v) <=> Opens(G, fs, b, "[", d, k, v)
    BY <2>3, OpensSame
  <2>6. \A v : Opens(G, gs, b, "[", d, k, v) <=> Expects(G, gs, b + 1, k, v)
    BY <2>3, <2>4, ArrayGoesOn
  <2> QED
    BY <2>1, <2>2, <2>5, <2>6 DEF Awaits
<1>7. Len(sk) - 1 = D
  BY <1>1, <1>4
<1>8. ValueStage(G, M, val, S, gs, k, ms, sk)
  BY <1>4, <1>a, <1>6, <1>7 DEF ValueStage
<1> QED
  BY <1>8 DEF InStage

LEMMA OpenArrayStage ==
  ASSUME NEW G, Lawful(G), NEW M, NEW val, NEW S, NEW fs, NEW k \in 1 .. Len(G.text),
         NEW ns, NEW st, ValueStage(G, M, val, S, fs, k, ns, st), Next1(G, k, "["),
         NEW ms, NEW sk,
         ms = Extended([ns EXCEPT ![Top(st)].type = "array",
                                  ![Top(st)].elements = Append(@, Len(ns) + 1)], NoNode),
         sk = Extended(st, Len(ns) + 1)
  PROVE  InStage(G, M, k - 1, ms, sk, FALSE, TRUE)
<1> DEFINE m == [NoNode EXCEPT !.type = "array"]
           p == Top(st)
           D == Len(st) - 1
           ls == Replaced(ns, p, m)
<1>1. /\ OpenTree(val, S, fs, ns, st) /\ ns[p] = NoNode /\ Awaits(G, M, fs, D, k)
  BY DEF ValueStage
<1>2. /\ Len(ns) \in Nat /\ p \in 1 .. Len(ns) /\ ns \in Seq(Node) /\ D \in Nat
  BY <1>1, TopIs DEF OpenTree, TreeOK
<1>3. /\ m \in Node /\ m.type = "array"
      /\ m.properties = <<>> /\ m.elements = <<>> /\ Size(m) = 0
  BY NoNodeIs DEF Node, Size
<1>5. /\ Len(ls) = Len(ns)
      /\ ms = Extended(Replaced(ls, p, [m EXCEPT !.elements = Append(@, Len(ls) + 1)]), NoNode)
  <2> DEFINE mm == [m EXCEPT !.elements = Append(@, Len(ns) + 1)]
  <2>1. [ns EXCEPT ![p].type = "array", ![p].elements = Append(@, Len(ns) + 1)]
          = Replaced(ns, p, mm)
    BY <1>1, <1>2 DEF Replaced, NoNode
  <2>2. ms = Extended(Replaced(ns, p, mm), NoNode)
    BY <2>1
  <2> HIDE DEF mm, m, p
  <2>3. Replaced(ls, p, mm) = Replaced(ns, p, mm) /\ Len(ls) = Len(ns)
    BY <1>2, <1>3, ReplacedTwice
  <2>4. mm = [m EXCEPT !.elements = Append(@, Len(ls) + 1)]
    BY <2>3 DEF mm
  <2> QED
    BY <2>2, <2>3, <2>4
<1> HIDE DEF m, p
<1>6. OpenTree(val, S, fs, ls, st) /\ ls[p] = m
  <2>1. m \in Node /\ m.properties = <<>> /\ m.elements = <<>>
    BY <1>3
  <2>2. OpenTree(val, S, fs, ns, st)
    BY <1>1
  <2>3. BecomesIn(val, S, fs, ns, st, m)
    BY <2>1, <2>2, LeafTree
  <2> QED
    BY <2>3 DEF BecomesIn, p, ls
<1>7. Items(val, m, Size(m)) = <<>>
  BY <1>3, LeafIs
<1> HIDE DEF ls
<1>8. \A v : v \in M <=> Opens(G, fs, Len(st) - 1, "[", Items(val, m, Size(m)), k - 1, v)
  <2>1. k \in 0 .. Len(G.text) /\ "[" \in Brackets
    BY DEF Brackets
  <2> HIDE DEF D
  <2>2. \A v : Expects(G, fs, D, k, v) <=> Opens(G, fs, D, "[", <<>>, k - 1, v)
    BY <2>1, BracketIsNext
  <2> QED
    BY <1>1, <1>7, <2>2 DEF Awaits, D
<1> QED
  BY <1>3, <1>5, <1>6, <1>8, ElementStage DEF p

-----------------------------------------------------------------------------
(* A value ends, or fails to begin.                                        *)

\* What is below the last node of the stack waits for it.
Below(fs, ns, st, val, S) ==
  /\ OpenTree(val, S, fs, ns, Popped(st))
  /\ Len(Popped(st)) = Len(st) - 1
  /\ FrameAt(val, S, fs[Len(st) - 1], ns[Top(Popped(st))], Top(st))

LEMMA SomethingBelow ==
  ASSUME NEW val, NEW S, NEW fs, NEW ns, NEW st, OpenTree(val, S, fs, ns, st), Len(st) > 1
  PROVE  \E w, T : Below(fs, ns, st, w, T)
<1>1. PICK w, T : DoneTree(w, T, fs, ns, st)
  BY TreeSettles DEF SettlesAs
<1> QED
  BY <1>1, TreePops DEF Below

Says(val, S, f, n, c) ==
  /\ f.open = "[" <=> n.type = "array"
  /\ f.open = "{" <=> n.type = "object"
  /\ f.done = Items(val, n, c) /\ f.open \in Brackets
  /\ Len(f.done) = c /\ IsList(f.done) /\ KidsIn(n, c, S)

LEMMA FrameSays ==
  ASSUME NEW val, NEW S, NEW f, NEW n, NEW kid, FrameAt(val, S, f, n, kid)
  PROVE  \E c \in Nat : Size(n) = c + 1 /\ Says(val, S, f, n, c)
<1>1. Size(n) \in Nat \ {0}
  BY DEF FrameAt
<1> DEFINE c == Size(n) - 1
<1>2. c \in Nat /\ Size(n) = c + 1
  <2> DEFINE z == Size(n)
  <2>1. z \in Nat \ {0}
    BY <1>1
  <2> HIDE DEF z
  <2>2. z - 1 \in Nat /\ z = z - 1 + 1
    BY <2>1
  <2> QED
    BY <2>2 DEF z
<1>3. /\ n.type \in {"array", "object"} /\ KidsIn(n, c, S)
      /\ f.done = Items(val, n, c) /\ f.open = (IF n.type = "array" THEN "[" ELSE "{")
  BY DEF FrameAt, FrameIs
<1> HIDE DEF c
<1>4. Len(Items(val, n, c)) = c /\ IsList(Items(val, n, c))
  BY <1>2, ItemsAre
<1>5. Says(val, S, f, n, c)
  BY <1>3, <1>4 DEF Brackets, Says
<1> QED
  BY <1>2, <1>5

LEMMA EndIsNoValue ==
  ASSUME NEW G, Lawful(G), NEW fs, NEW depth, NEW k, NEW v, Next1(G, k, "]")
  PROVE  Expects(G, fs, depth, k, v) <=> Ends(G, fs, depth, k, v)
<1>1. \A t \in Strings \cup Scalars \cup Brackets : ~ Next1(G, k, t)
  <2>1. ASSUME NEW t \in Strings \cup Scalars \cup Brackets, Next1(G, k, t)
        PROVE  FALSE
    <3>1. t = "]"
      BY <2>1, OneIsNext
    <3> QED
      BY <3>1, ScalarsAreNoSigns DEF Brackets
  <2> QED
    BY <2>1
<1> QED
  BY <1>1, NoValueIsNext

HasLeft(val, S, i, N, n, m, c) ==
  /\ m \in Node /\ RefersOn(i, m, N) /\ KidsIn(m, Size(m), S) /\ m.type = "array"
  /\ Items(val, m, Size(m)) = Items(val, n, c)

\* The elements but the last.
LEMMA ElementLeft ==
  ASSUME NEW val, NEW n \in Node, n.type = "array", NEW c \in Nat, Size(n) = c + 1,
         NEW S, KidsIn(n, c, S), NEW i, NEW N, RefersOn(i, n, N),
         NEW m, m = [n EXCEPT !.elements = Popped(@)]
  PROVE  HasLeft(val, S, i, N, n, m, c)
<1> DEFINE l == n.elements
           W == i + 1 .. N
<1>1. /\ l \in Seq(Nat) /\ l \in Seq(W) /\ Len(l) = c + 1 /\ n.properties \in ListOf(W)
  BY NodeIs DEF RefersOn, Size
<1>2. /\ m.type = "array" /\ m.elements = Popped(l) /\ m.properties = n.properties
      /\ m.token = n.token
  BY DEF Node
<1> HIDE DEF l, W
<1>3. /\ Popped(l) \in Seq(Nat) /\ Popped(l) \in Seq(W) /\ Len(Popped(l)) = c
      /\ \A j \in 1 .. c : Popped(l)[j] = l[j]
  <2>1. Len(l) - 1 = c /\ Len(l) - 1 \in 0 .. Len(l)
    BY <1>1
  <2> QED
    BY <1>1, <2>1 DEF Popped
<1>4. Size(m) = c
  BY <1>2, <1>3 DEF Size
<1>5. \A j \in 1 .. c : m.elements[j] = n.elements[j]
  BY <1>2, <1>3 DEF l
<1>6. Items(val, m, c) = Items(val, n, c)
  BY <1>2, <1>5, ElementsCopied
<1>7. KidsIn(m, c, S)
  BY <1>2, <1>5 DEF KidsIn, KidAt
<1>8. m \in Node
  BY <1>3 DEF Node, l
<1>9. RefersOn(i, m, N)
  BY <1>1, <1>2, <1>3 DEF RefersOn, W
<1> QED
  BY <1>2, <1>4, <1>6, <1>7, <1>8, <1>9 DEF HasLeft

LEMMA CloseArrayStage ==
  ASSUME NEW G, Lawful(G), NEW M, NEW val, NEW S, NEW fs, NEW k \in 1 .. Len(G.text),
         NEW ns, NEW st, ValueStage(G, M, val, S, fs, k, ns, st), Next1(G, k, "]"),
         Len(st) > 1, NEW n, n = ns[Top(Popped(st))], n.type = "array",
         Len(n.elements) <= 1 \/ G.trailing,
         NEW ms, ms = Replaced(ns, Top(Popped(st)), [n EXCEPT !.elements = Popped(@)])
  PROVE  InStage(G, M, k - 1, ms, Popped(st), FALSE, FALSE)
<1> DEFINE b == Popped(st)
           p == Top(b)
           D == Len(st) - 1
           m == [n EXCEPT !.elements = Popped(@)]
           d == fs[D].done
<1>1. OpenTree(val, S, fs, ns, st) /\ Awaits(G, M, fs, D, k)
  BY DEF ValueStage
<1>2. PICK w, T : Below(fs, ns, st, w, T)
  BY <1>1, SomethingBelow
<1>3. OpenTree(w, T, fs, ns, b) /\ Len(b) = D /\ FrameAt(w, T, fs[D], n, Top(st))
  BY <1>2 DEF Below
<1>4. n \in Node /\ RefersOn(p, n, Len(ns)) /\ D \in Nat /\ D > 0
  <2>1. TreeOK(w, T, fs, ns, b) /\ TreeOK(val, S, fs, ns, st)
    BY <1>1, <1>3 DEF OpenTree
  <2>2. Len(st) \in Nat
    BY <2>1, TopIs
  <2> QED
    BY <2>1, <2>2, TopIs
<1>a. PICK c \in Nat : Size(n) = c + 1 /\ Says(w, T, fs[D], n, c)
  BY <1>3, FrameSays
<1>5. fs[D].open = "[" /\ d = Items(w, n, c) /\ KidsIn(n, c, T) /\ Len(n.elements) = c + 1
  BY <1>a DEF Size, Says
<1>6. HasLeft(w, T, p, Len(ns), n, m, c)
  <2> HIDE DEF p, d
  <2> QED
    BY <1>4, <1>5, <1>a, ElementLeft
<1>7. ms = Replaced(ns, p, m)
  OBVIOUS
<1> HIDE DEF m, d
<1>b. Items(w, m, Size(m)) = d /\ m.type = "array"
  BY <1>5, <1>6 DEF HasLeft
<1>8. OpenTree(w, T, fs, ms, b) /\ ms[p] = m
  <2>1. BecomesIn(w, T, fs, ns, b, m)
    <3>1. m \in Node /\ RefersOn(p, m, Len(ns)) /\ KidsIn(m, Size(m), T)
      BY <1>6 DEF HasLeft
    <3> HIDE DEF b
    <3> QED
      BY <1>3, <3>1, TreeChanges DEF BecomesIn
  <2> QED
    BY <1>7, <2>1 DEF BecomesIn
<1>9. PICK other, U : DoneTree(other, U, fs, ms, b) /\ other[p] = Worth(w, m)
  BY <1>8, TreeSettles DEF SettlesAs
<1>10. other[p] = Array(d)
  BY <1>9, <1>b DEF Worth
<1>11. Means(G, "[", d) = Array(d)
  BY DEF Means, Container
<1>12. d = <<>> \/ G.trailing
  <2>1. CASE Len(n.elements) <= 1
    <3>1. c = 0
      BY <1>5, <2>1
    <3>2. d = Items(w, n, 0)
      BY <1>5, <3>1
    <3> QED
      BY <3>2 DEF Items
  <2> QED
    BY <2>1
<1> HIDE DEF D
<1>13. Knows(G, M, fs, D - 1, k - 1, other[p])
  <2>1. \A v : v \in M <=> Ends(G, fs, D, k, v)
    BY <1>1, EndIsNoValue DEF Awaits
  <2>2. \A v : Ends(G, fs, D, k, v) <=> Leads(G, fs, D - 1, <<k - 1, Array(d)>>, v)
    BY <1>4, <1>5, <1>11, <1>12 DEF Ends, InArray, d
  <2> QED
    BY <1>10, <2>1, <2>2 DEF Knows
<1>14. DoneStage(G, M, other, U, fs, k - 1, ms, b)
  BY <1>3, <1>9, <1>13 DEF DoneStage
<1> QED
  BY <1>14 DEF InStage

LEMMA CloseArrayFails ==
  ASSUME NEW G, Lawful(G), NEW M, NEW val, NEW S, NEW fs, NEW k,
         NEW ns, NEW st, ValueStage(G, M, val, S, fs, k, ns, st), Next1(G, k, "]"),
         NEW n, n = ns[Top(Popped(st))],
         Len(st) > 1 => n.type # "array" \/ (Len(n.elements) > 1 /\ ~G.trailing)
  PROVE  \A v : v \notin M
<1> DEFINE D == Len(st) - 1
<1>1. OpenTree(val, S, fs, ns, st) /\ Awaits(G, M, fs, D, k)
  BY DEF ValueStage
<1>2. \A v : v \in M <=> Ends(G, fs, D, k, v)
  BY <1>1, EndIsNoValue DEF Awaits
<1>3. ASSUME NEW v, Ends(G, fs, D, k, v)
      PROVE  FALSE
  <2>1. D > 0 /\ fs[D].open = "[" /\ (fs[D].done = <<>> \/ G.trailing)
    BY <1>3 DEF Ends, InArray
  <2>2. Len(st) > 1
    <3>1. Len(st) \in Nat
      BY <1>1, TopIs DEF OpenTree
    <3> QED
      BY <2>1, <3>1
  <2>3. PICK w, T : Below(fs, ns, st, w, T)
    BY <1>1, <2>2, SomethingBelow
  <2>4. FrameAt(w, T, fs[D], n, Top(st))
    BY <2>3 DEF Below
  <2>a. PICK c \in Nat : Size(n) = c + 1 /\ Says(w, T, fs[D], n, c)
    BY <2>4, FrameSays
  <2>5. n.type = "array" /\ Len(fs[D].done) = c /\ Len(n.elements) = c + 1
    BY <2>1, <2>a DEF Says, Size
  <2>6. fs[D].done = <<>> => Len(fs[D].done) = 0
    OBVIOUS
  <2> QED
    BY <2>1, <2>2, <2>5, <2>6
<1> QED
  BY <1>2, <1>3

\* Nothing else is a value.
LEMMA ScalarFails ==
  ASSUME NEW G, Lawful(G), NEW M, NEW val, NEW S, NEW fs, NEW k,
         NEW ns, NEW st, ValueStage(G, M, val, S, fs, k, ns, st),
         \A t \in Strings \cup Scalars \cup {"{", "[", "]"} : ~ Next1(G, k, t)
  PROVE  \A v : v \notin M
<1>1. Awaits(G, M, fs, Len(st) - 1, k)
  BY DEF ValueStage
<1>2. \A v : Expects(G, fs, Len(st) - 1, k, v) <=> Ends(G, fs, Len(st) - 1, k, v)
  <2>1. \A t \in Strings \cup Scalars \cup Brackets : ~ Next1(G, k, t)
    BY DEF Brackets
  <2> QED
    BY <2>1, NoValueIsNext
<1>3. ~ Next1(G, k, "]")
  OBVIOUS
<1> QED
  BY <1>1, <1>2, <1>3 DEF Awaits, Ends

-----------------------------------------------------------------------------
(* Objects, and what follows a value.                                      *)

Closed(G, ns, i) ==
  IF G.asIs THEN ns
  ELSE Replaced(ns, i, [ns[i] EXCEPT !.properties = StableSortedAndUnique(@)])

HasClosed(val, S, i, N, n, m) ==
  /\ m \in Node /\ RefersOn(i, m, N) /\ KidsIn(m, Size(m), S)
  /\ Worth(val, m) = Object(FirstOfEach(Items(val, n, Size(n))))

\* An object is complete.
LEMMA ObjectEnds ==
  ASSUME NEW G, NEW val, NEW S, NEW fs, NEW ns, NEW st, OpenTree(val, S, fs, ns, st),
         NEW n, n = ns[Top(st)], n.type = "object",
         NEW ms, ms = Closed(G, ns, Top(st))
  PROVE  SettlesAs(fs, ms, st, Means(G, "{", Items(val, n, Size(n))))
<1> DEFINE p == Top(st)
           l == Items(val, n, Size(n))
<1>1. n \in Node /\ RefersOn(p, n, Len(ns)) /\ KidsIn(n, Size(n), S)
  BY TopIs DEF OpenTree
<1>2. Means(G, "{", l) = Object(IF G.asIs THEN l ELSE FirstOfEach(l))
  BY DEF Means, Container
<1>3. CASE G.asIs
  <2>1. ms = ns
    BY <1>3 DEF Closed
  <2>2. Worth(val, n) = Object(l)
    BY DEF Worth
  <2>3. SettlesAs(fs, ns, st, Worth(val, n))
    BY TreeSettles
  <2> QED
    BY <1>2, <1>3, <2>1, <2>2, <2>3
<1>4. CASE ~G.asIs
  <2> DEFINE m == [n EXCEPT !.properties = StableSortedAndUnique(@)]
  <2>1. ms = Replaced(ns, p, m)
    BY <1>4 DEF Closed
  <2>2. HasClosed(val, S, p, Len(ns), n, m)
    <3> HIDE DEF p
    <3> QED
      BY <1>1, ObjectCloses DEF HasClosed
  <2> HIDE DEF m
  <2>3. BecomesIn(val, S, fs, ns, st, m)
    <3>1. m \in Node /\ RefersOn(p, m, Len(ns)) /\ KidsIn(m, Size(m), S)
      BY <2>2 DEF HasClosed
    <3> QED
      BY <3>1, TreeChanges DEF BecomesIn
  <2>4. OpenTree(val, S, fs, ms, st) /\ ms[p] = m
    BY <2>1, <2>3 DEF BecomesIn
  <2>5. SettlesAs(fs, ms, st, Worth(val, m))
    BY <2>4, TreeSettles
  <2>6. Worth(val, m) = Object(FirstOfEach(l))
    BY <2>2 DEF HasClosed
  <2> QED
    BY <1>2, <1>4, <2>5, <2>6
<1> QED
  BY <1>3, <1>4

LEMMA SizeIsZero ==
  ASSUME NEW val, NEW n \in Node, n.type = "object"
  PROVE  n.properties = <<>> <=> Items(val, n, Size(n)) = <<>>
<1> DEFINE l == n.properties
           c == Size(n)
<1>1. l \in Seq(NamedOf(Nat)) /\ c = Len(l) /\ c \in Nat
  BY NodeIs DEF Size, ListOf
<1>2. l = <<>> <=> c = 0
  <2> HIDE DEF l
  <2> QED
    BY <1>1
<1> HIDE DEF c
<1>3. Len(Items(val, n, c)) = c
  BY <1>1, ItemsAre
<1>4. c = 0 => Items(val, n, c) = <<>>
  BY DEF Items
<1>5. Items(val, n, c) = <<>> => Len(Items(val, n, c)) = 0
  OBVIOUS
<1> QED
  BY <1>2, <1>3, <1>4, <1>5 DEF c

LEMMA ClosingIsNoName ==
  ASSUME NEW G, NEW k, Next1(G, k, "}")
  PROVE  ~ \E name \in Strings : Next1(G, k, name) /\ Next1(G, k - 1, ":")
<1>1. ASSUME NEW name \in Strings, Next1(G, k, name)
      PROVE  FALSE
  <2>1. name = "}"
    BY <1>1, OneIsNext
  <2> QED
    BY <2>1, ScalarsAreNoSigns
<1> QED
  BY <1>1

\* What a name stage without a name means.
LEMMA NamelessStage ==
  ASSUME NEW G, Lawful(G), NEW M, NEW val, NEW S, NEW fs, NEW k, NEW ns, NEW st,
         NameStage(G, M, val, S, fs, k, ns, st),
         ~ \E name \in Strings : Next1(G, k, name) /\ Next1(G, k - 1, ":"),
         NEW n, n = ns[Top(st)]
  PROVE  \A v : v \in M <=>
           /\ Next1(G, k, "}") /\ (n.properties = <<>> \/ G.trailing)
           /\ Leads(G, fs, Len(st) - 1, <<k - 1, Means(G, "{", Items(val, n, Size(n)))>>, v)
<1> DEFINE d == Items(val, n, Size(n))
           D == Len(st) - 1
<1>1. OpenTree(val, S, fs, ns, st) /\ n.type = "object" /\ AwaitsName(G, M, fs, D, d, k)
  BY DEF NameStage
<1>2. n \in Node
  BY <1>1, TopIs DEF OpenTree
<1>3. n.properties = <<>> <=> d = <<>>
  BY <1>1, <1>2, SizeIsZero
<1>4. IsList(d)
  BY <1>2, NodeIs, ItemsAre
<1> HIDE DEF d, D
<1>5. \A v : Opens(G, fs, D, "{", d, k, v) <=>
           /\ Next1(G, k, "}") /\ (d = <<>> \/ G.trailing)
           /\ Leads(G, fs, D, <<k - 1, Means(G, "{", d)>>, v)
  BY <1>4, NoNameIsNext
<1> QED
  BY <1>1, <1>3, <1>5 DEF AwaitsName, d, D

LEMMA CloseObjectStage ==
  ASSUME NEW G, Lawful(G), NEW M, NEW val, NEW S, NEW fs, NEW k, NEW ns, NEW st,
         NameStage(G, M, val, S, fs, k, ns, st), Next1(G, k, "}"),
         ns[Top(st)].properties = <<>> \/ G.trailing, NEW ms, ms = Closed(G, ns, Top(st))
  PROVE  InStage(G, M, k - 1, ms, st, FALSE, FALSE)
<1> DEFINE n == ns[Top(st)]
           x == Means(G, "{", Items(val, n, Size(n)))
<1>1. OpenTree(val, S, fs, ns, st) /\ n.type = "object"
  BY DEF NameStage
<1>2. SettlesAs(fs, ms, st, x)
  BY <1>1, ObjectEnds
<1>3. \A v : v \in M <=> Leads(G, fs, Len(st) - 1, <<k - 1, x>>, v)
  BY ClosingIsNoName, NamelessStage
<1> HIDE DEF x
<1>4. PICK w, T : DoneTree(w, T, fs, ms, st) /\ w[Top(st)] = x
  BY <1>2 DEF SettlesAs
<1>5. DoneStage(G, M, w, T, fs, k - 1, ms, st)
  BY <1>3, <1>4 DEF DoneStage, Knows
<1> QED
  BY <1>5 DEF InStage

LEMMA CloseObjectFails ==
  ASSUME NEW G, Lawful(G), NEW M, NEW val, NEW S, NEW fs, NEW k, NEW ns, NEW st,
         NameStage(G, M, val, S, fs, k, ns, st), Next1(G, k, "}"),
         ns[Top(st)].properties # <<>>, ~G.trailing
  PROVE  \A v : v \notin M
BY ClosingIsNoName, NamelessStage

LEMMA NameFails ==
  ASSUME NEW G, Lawful(G), NEW M, NEW val, NEW S, NEW fs, NEW k, NEW ns, NEW st,
         NameStage(G, M, val, S, fs, k, ns, st), ~ Next1(G, k, "}"),
         ~ \E name \in Strings : Next1(G, k, name) /\ Next1(G, k - 1, ":")
  PROVE  \A v : v \notin M
BY NamelessStage

GetsChild(val, S, f, i, N, m) ==
  m \in Node /\ RefersOn(i, m, N + 1) /\ FrameAt(val, S, f, m, N + 1)

\* A name and a colon.
LEMMA ReadNameStage ==
  ASSUME NEW G, Lawful(G), NEW M, NEW val, NEW S, NEW fs, NEW k \in 0 .. Len(G.text),
         NEW ns, NEW st, NameStage(G, M, val, S, fs, k, ns, st),
         NEW id \in Strings, Next1(G, k, id), Next1(G, k - 1, ":"),
         NEW n, n = ns[Top(st)], NEW ms, NEW sk,
         ms = Extended(Replaced(ns, Top(st),
                         [n EXCEPT !.properties = Append(@, Property(id, Len(ns) + 1))]), NoNode),
         sk = Extended(st, Len(ns) + 1)
  PROVE  InStage(G, M, k - 2, ms, sk, FALSE, TRUE)
<1> DEFINE N == Len(ns)
           p == Top(st)
           D == Len(st)
           d == Items(val, n, Size(n))
           f == [open |-> "{", done |-> d, name |-> id]
           m == [n EXCEPT !.properties = Append(@, Property(id, N + 1))]
<1>0. OpenTree(val, S, fs, ns, st) /\ n.type = "object" /\ AwaitsName(G, M, fs, D - 1, d, k)
  BY DEF NameStage
<1>1. /\ N \in Nat /\ p \in 1 .. N /\ D \in Nat \ {0} /\ n \in Node
      /\ RefersOn(p, n, N) /\ KidsIn(n, Size(n), S)
  BY <1>0, TopIs DEF OpenTree
<1>2. ms = Extended(Replaced(ns, p, m), NoNode) /\ sk = Extended(st, N + 1)
  OBVIOUS
<1>3. GetsChild(val, S, f, p, N, m)
  <2> HIDE DEF N, p
  <2> QED
    BY <1>0, <1>1, ObjectGets DEF GetsChild
<1>b. FrameIs(f, "{", d, id)
  BY DEF FrameIs
<1> HIDE DEF m, f
<1>4. GrowsTo(val, S, fs, D, f, ms, sk)
  <2>1. GrowsTo(val, S, fs, D, f, Extended(Replaced(ns, p, m), NoNode), Extended(st, N + 1))
    BY <1>0, <1>3, TreeGrows DEF GetsChild
  <2> QED
    BY <1>2, <2>1
<1>a. PICK gs : OpenTree(val, S, gs, ms, sk) /\ PutsOn(gs, fs, D, f)
  BY <1>4 DEF GrowsTo
<1>5. ms[Top(sk)] = NoNode /\ Len(sk) = D + 1
  BY <1>4 DEF GrowsTo
<1>c. IsList(d)
  BY <1>1, NodeIs, ItemsAre
<1> HIDE DEF d
<1>6. Awaits(G, M, gs, D, k - 2)
  <2>0. D \in Nat \ {0}
    BY <1>1
  <2> HIDE DEF D
  <2>1. PICK b \in Nat : b = D - 1 /\ b + 1 = D
    BY <2>0
  <2>2. \A v : v \in M <=> Opens(G, fs, b, "{", d, k, v)
    BY <1>0, <2>1 DEF AwaitsName
  <2>3. FrameIs(gs[b + 1], "{", d, id) /\ \A i \in 1 .. b : gs[i] = fs[i]
    BY <1>a, <1>b, <2>1 DEF PutsOn
  <2>5. \A v : Opens(G, gs, b, "{", d, k, v) <=> Opens(G, fs, b, "{", d, k, v)
    BY <2>3, OpensSame
  <2>6. \A v : Opens(G, gs, b, "{", d, k, v) <=> Expects(G, gs, b + 1, k - 2, v)
    BY <1>c, <2>3, NameIsNext
  <2> QED
    BY <2>1, <2>2, <2>5, <2>6 DEF Awaits
<1>7. Len(sk) - 1 = D
  BY <1>1, <1>5
<1>8. ValueStage(G, M, val, S, gs, k - 2, ms, sk)
  BY <1>5, <1>a, <1>6, <1>7 DEF ValueStage
<1> QED
  BY <1>8 DEF InStage

-----------------------------------------------------------------------------
(* What follows a value.                                                   *)

\* A list below goes on with a comma or ends.
AfterOne(G, M, val, S, fs, k, ns, b, n, open) ==
  /\ OpenTree(val, S, fs, ns, b)
  /\ \A v : v \in M <=>
       \/ /\ Next1(G, k, Closing(open))
          /\ Leads(G, fs, Len(b) - 1, <<k - 1, Means(G, open, Items(val, n, Size(n)))>>, v)
       \/ /\ Next1(G, k, ",")
          /\ Opens(G, fs, Len(b) - 1, open, Items(val, n, Size(n)), k - 1, v)

LEMMA OneHasEnded ==
  ASSUME NEW G, Lawful(G), NEW M, NEW val, NEW S, NEW fs, NEW k, NEW ns, NEW st,
         DoneStage(G, M, val, S, fs, k, ns, st), Len(st) > 1,
         NEW n, n = ns[Top(Popped(st))]
  PROVE  /\ n.type = "object" => AfterOne(G, M, val, S, fs, k, ns, Popped(st), n, "{")
         /\ n.type = "array" => AfterOne(G, M, val, S, fs, k, ns, Popped(st), n, "[")
         /\ n.type \in {"object", "array"}
<1> DEFINE b == Popped(st)
           D == Len(st) - 1
           x == val[Top(st)]
           f == fs[D]
           l == Items(val, n, Size(n))
<1>1. DoneTree(val, S, fs, ns, st) /\ Knows(G, M, fs, D, k, x)
  BY DEF DoneStage
<1>2. OpenTree(val, S, fs, ns, b) /\ Len(b) = D /\ FrameAt(val, S, f, n, Top(st))
  BY <1>1, TreePops
<1>3. PICK e \in Nat : D = e + 1 /\ e = Len(b) - 1
  <2> DEFINE z == Len(b)
  <2>1. z \in Nat \ {0}
    BY <1>2, TopIs DEF OpenTree
  <2> HIDE DEF z
  <2>2. z - 1 \in Nat /\ z = z - 1 + 1
    BY <2>1
  <2> HIDE DEF D, b
  <2> QED
    BY <1>2, <2>2 DEF z
<1>6. f = fs[e + 1]
  BY <1>3
<1> HIDE DEF f, b, D
<1>4. l = f.done \o <<OneOf(f, x)>> /\ IsList(f.done) /\ f.open \in Brackets
  <2>1. CompletedBy(val, f, n, val[Top(st)])
    BY <1>2, FrameItems
  <2> QED
    BY <2>1 DEF CompletedBy
<1>5. (f.open = "[" <=> n.type = "array") /\ (f.open = "{" <=> n.type = "object")
  <2>1. PICK c \in Nat : Says(val, S, f, n, c)
    BY <1>2, FrameSays
  <2> QED
    BY <2>1 DEF Says
<1> HIDE DEF x, l
<1>7. \A v : v \in M <=>
        \/ /\ Next1(G, k, Closing(f.open))
           /\ Leads(G, fs, e, <<k - 1, Means(G, f.open, l)>>, v)
        \/ /\ Next1(G, k, ",") /\ Opens(G, fs, e, f.open, l, k - 1, v)
  <2>1. \A v : v \in M <=> Leads(G, fs, e + 1, <<k, x>>, v)
    BY <1>1, <1>3 DEF Knows
  <2>2. PICK open, d : open = f.open /\ d = f.done
    OBVIOUS
  <2>3. open \in Brackets /\ IsList(d) /\ fs[e + 1].open = open /\ fs[e + 1].done = d
    BY <1>4, <1>6, <2>2
  <2>4. ASSUME NEW v
        PROVE  Leads(G, fs, e + 1, <<k, x>>, v) <=>
                 \/ /\ Next1(G, k, Closing(open))
                    /\ Leads(G, fs, e, <<k - 1, Means(G, open, d \o <<OneOf(fs[e + 1], x)>>)>>, v)
                 \/ Next1(G, k, ",") /\ Opens(G, fs, e, open, d \o <<OneOf(fs[e + 1], x)>>, k - 1, v)
    BY <2>3, OneIsDone
  <2>5. d \o <<OneOf(fs[e + 1], x)>> = l
    BY <1>4, <1>6, <2>2
  <2> QED
    BY <2>1, <2>2, <2>4, <2>5
<1>8. AfterOne(G, M, val, S, fs, k, ns, b, n, f.open)
  BY <1>2, <1>3, <1>7 DEF AfterOne, l
<1>9. n.type \in {"object", "array"}
  BY <1>4, <1>5 DEF Brackets
<1> QED
  BY <1>5, <1>8, <1>9 DEF b

LEMMA AfterPropertyStage ==
  ASSUME NEW G, Lawful(G), NEW M, NEW val, NEW S, NEW fs, NEW k, NEW ns, NEW st,
         DoneStage(G, M, val, S, fs, k, ns, st), Len(st) > 1,
         ns[Top(Popped(st))].type = "object"
  PROVE  /\ Next1(G, k, ",") => InStage(G, M, k - 1, ns, Popped(st), TRUE, TRUE)
         /\ Next1(G, k, "}") =>
              InStage(G, M, k - 1, Closed(G, ns, Top(Popped(st))), Popped(st), FALSE, FALSE)
         /\ ~Next1(G, k, ",") /\ ~Next1(G, k, "}") => \A v : v \notin M
<1> DEFINE b == Popped(st)
           n == ns[Top(b)]
           l == Items(val, n, Size(n))
           ms == Closed(G, ns, Top(b))
<1>1. AfterOne(G, M, val, S, fs, k, ns, b, n, "{") /\ n.type = "object"
  BY OneHasEnded
<1>2. Closing("{") = "}" /\ "}" # ","
  BY DEF Closing
<1>3. ASSUME Next1(G, k, ",")
      PROVE  InStage(G, M, k - 1, ns, b, TRUE, TRUE)
  <2>1. ~ Next1(G, k, "}")
    BY <1>3, OneIsNext
  <2>2. NameStage(G, M, val, S, fs, k - 1, ns, b)
    BY <1>1, <1>2, <1>3, <2>1 DEF AfterOne, NameStage, AwaitsName
  <2> QED
    BY <2>2 DEF InStage
<1>4. ASSUME Next1(G, k, "}")
      PROVE  InStage(G, M, k - 1, ms, b, FALSE, FALSE)
  <2>1. ~ Next1(G, k, ",")
    BY <1>4, OneIsNext
  <2>2. OpenTree(val, S, fs, ns, b)
    BY <1>1 DEF AfterOne
  <2>3. SettlesAs(fs, ms, b, Means(G, "{", l))
    BY <1>1, <2>2, ObjectEnds
  <2>4. \A v : v \in M <=> Leads(G, fs, Len(b) - 1, <<k - 1, Means(G, "{", l)>>, v)
    BY <1>1, <1>2, <1>4, <2>1 DEF AfterOne
  <2> HIDE DEF ms, l, b
  <2>5. PICK w, T : DoneTree(w, T, fs, ms, b) /\ w[Top(b)] = Means(G, "{", l)
    BY <2>3 DEF SettlesAs
  <2>6. DoneStage(G, M, w, T, fs, k - 1, ms, b)
    BY <2>4, <2>5 DEF DoneStage, Knows
  <2> QED
    BY <2>6 DEF InStage
<1>5. ASSUME ~Next1(G, k, ","), ~Next1(G, k, "}")
      PROVE  \A v : v \notin M
  BY <1>1, <1>2, <1>5 DEF AfterOne
<1> QED
  BY <1>3, <1>4, <1>5

LEMMA AfterElementStage ==
  ASSUME NEW G, Lawful(G), NEW M, NEW val, NEW S, NEW fs, NEW k, NEW ns, NEW st,
         DoneStage(G, M, val, S, fs, k, ns, st), Len(st) > 1,
         NEW n, n = ns[Top(Popped(st))], n.type = "array",
         NEW ms, NEW sk,
         ms = Extended(Replaced(ns, Top(Popped(st)),
                         [n EXCEPT !.elements = Append(@, Len(ns) + 1)]), NoNode),
         sk = Extended(Popped(st), Len(ns) + 1)
  PROVE  /\ Next1(G, k, ",") => InStage(G, M, k - 1, ms, sk, FALSE, TRUE)
         /\ Next1(G, k, "]") => InStage(G, M, k - 1, ns, Popped(st), FALSE, FALSE)
         /\ ~Next1(G, k, ",") /\ ~Next1(G, k, "]") => \A v : v \notin M
<1> DEFINE b == Popped(st)
           l == Items(val, n, Size(n))
<1>1. AfterOne(G, M, val, S, fs, k, ns, b, n, "[") /\ OpenTree(val, S, fs, ns, b)
  <2>1. AfterOne(G, M, val, S, fs, k, ns, b, n, "[")
    BY OneHasEnded
  <2> QED
    BY <2>1 DEF AfterOne
<1>2. Closing("[") = "]" /\ "]" # ","
  BY DEF Closing
<1>3. ASSUME Next1(G, k, ",")
      PROVE  InStage(G, M, k - 1, ms, sk, FALSE, TRUE)
  <2>1. ~ Next1(G, k, "]")
    BY <1>3, OneIsNext
  <2>2. \A v : v \in M <=> Opens(G, fs, Len(b) - 1, "[", l, k - 1, v)
    BY <1>1, <1>2, <1>3, <2>1 DEF AfterOne
  <2> HIDE DEF b
  <2> QED
    BY <1>1, <2>2, ElementStage DEF b
<1>4. ASSUME Next1(G, k, "]")
      PROVE  InStage(G, M, k - 1, ns, b, FALSE, FALSE)
  <2>1. ~ Next1(G, k, ",")
    BY <1>4, OneIsNext
  <2>2. Means(G, "[", l) = Worth(val, n)
    BY DEF Means, Container, Worth
  <2>3. SettlesAs(fs, ns, b, Worth(val, n))
    BY <1>1, TreeSettles
  <2>4. \A v : v \in M <=> Leads(G, fs, Len(b) - 1, <<k - 1, Worth(val, n)>>, v)
    BY <1>1, <1>2, <1>4, <2>1, <2>2 DEF AfterOne
  <2> HIDE DEF l, b
  <2>5. PICK w, T : DoneTree(w, T, fs, ns, b) /\ w[Top(b)] = Worth(val, n)
    BY <2>3 DEF SettlesAs
  <2>6. DoneStage(G, M, w, T, fs, k - 1, ns, b)
    BY <2>4, <2>5 DEF DoneStage, Knows
  <2> QED
    BY <2>6 DEF InStage
<1>5. ASSUME ~Next1(G, k, ","), ~Next1(G, k, "]")
      PROVE  \A v : v \notin M
  BY <1>1, <1>2, <1>5 DEF AfterOne
<1> QED
  BY <1>3, <1>4, <1>5

\* After the outermost value the text ends.
LEMMA EndStage ==
  ASSUME NEW G, Lawful(G), NEW M, NEW val, NEW S, NEW fs, NEW k \in Nat, NEW ns, NEW st,
         DoneStage(G, M, val, S, fs, k, ns, st), Len(st) = 1
  PROVE  /\ k = 0 => \A v : v \in M <=> v = val[1]
         /\ k # 0 => \A v : v \notin M
<1>1. \A v : v \in M <=> Leads(G, fs, 0, <<k, val[Top(st)]>>, v)
  BY DEF DoneStage, Knows
<1>2. Top(st) = 1
  BY DEF Top, DoneStage, DoneTree, TreeOK
<1>3. \A v : v \in M <=> <<k, val[1]>> = <<0, v>>
  BY <1>1, <1>2, LeadsAtTop
<1> QED
  BY <1>3

-----------------------------------------------------------------------------
(* What the reader does.                                                   *)

TheGrammar ==
  GrammarOf(Seen[Len(text)], ~config.disallowTrailingCommas, config.propertiesAsIs)

StillReads(rem, ns, st, rn, iv) ==
  \E k : Reaches(rem, k) /\ InStage(TheGrammar, Meaning, k, ns, st, rn, iv)

LEMMA GrammarIs ==
  ASSUME TextOK
  PROVE  /\ Lawful(TheGrammar) /\ TheGrammar.text = Seen[Len(text)]
         /\ TheGrammar.trailing <=> ~config.disallowTrailingCommas
         /\ TheGrammar.asIs <=> config.propertiesAsIs
<1> DEFINE T == Seen[Len(text)]
           a == ~config.disallowTrailingCommas
           b == config.propertiesAsIs
<1>1. T \in Seq(Tokens)
  <2>1. Len(text) \in 0 .. Len(text)
    BY DEF TextOK
  <2> QED
    BY <2>1, SeenIsText
<1> HIDE DEF T, a, b
<1>2. Len(T) \in Nat
  BY <1>1
<1>3. Unfolds(Parts(T, a, b), T, a, b)
  BY <1>2, GrammarUnfolds
<1>4. GrammarOf(T, a, b) = [text |-> T, trailing |-> a, asIs |-> b, parts |-> Parts(T, a, b)]
  BY DEF GrammarOf
<1>5. Lawful(GrammarOf(T, a, b)) /\ GrammarOf(T, a, b).text = T
      /\ GrammarOf(T, a, b).trailing = a /\ GrammarOf(T, a, b).asIs = b
  BY <1>2, <1>3, <1>4 DEF Lawful
<1> QED
  BY <1>5 DEF TheGrammar, T, a, b

\* At first nothing is around the value that is next.
LEMMA FirstStage ==
  ASSUME TextOK
  PROVE  \A fs : Awaits(TheGrammar, Meaning, fs, 0, Len(Seen[Len(text)]))
<1> DEFINE T == Seen[Len(text)]
           a == ~config.disallowTrailingCommas
           b == config.propertiesAsIs
           G == TheGrammar
<1>1. Lawful(G) /\ G.parts = Parts(T, a, b)
  BY GrammarIs DEF GrammarOf, TheGrammar
<1>2. Meaning = {p[2] : p \in {q \in ValuesAt(G.parts, Len(T)) : q[1] = 0}}
  BY <1>1 DEF Meaning, Meanings
<1> HIDE DEF T, a, b, G
<1>3. \A q \in ValuesAt(G.parts, Len(T)) : q = <<q[1], q[2]>>
  BY <1>1, UnfoldsAt
<1>4. ASSUME NEW fs, NEW v
      PROVE  v \in Meaning <=> Expects(G, fs, 0, Len(T), v)
  <2>1. ~ Ends(G, fs, 0, Len(T), v)
    BY DEF Ends, InArray
  <2>2. \A q : Leads(G, fs, 0, q, v) <=> q = <<0, v>>
    BY LeadsAtTop
  <2>3. Takes(G, fs, 0, Len(T), v) <=> \E q \in ValuesAt(G.parts, Len(T)) : q = <<0, v>>
    BY <2>2 DEF Takes
  <2>4. v \in Meaning <=> \E q \in ValuesAt(G.parts, Len(T)) : q[1] = 0 /\ q[2] = v
    BY <1>2
  <2>5. \A q \in ValuesAt(G.parts, Len(T)) : q = <<0, v>> <=> q[1] = 0 /\ q[2] = v
    BY <1>3
  <2> QED
    BY <2>1, <2>3, <2>4, <2>5 DEF Expects
<1> QED
  BY <1>4 DEF Awaits, G, T

LEMMA FirstTree ==
  ASSUME TextOK, NEW ns, NEW st, ns = <<NoNode>>, st = << 1 >>
  PROVE  StillReads(text, ns, st, FALSE, TRUE)
<1> DEFINE k == Len(Seen[Len(text)])
<1>1. Reaches(text, k)
  BY ReachesAll
<1>a. NoNode \in Node
  BY NoNodeIs
<1>b. ns \in Seq(Node) /\ Len(ns) = 1 /\ ns[1] = NoNode
  BY <1>a
<1>c. st \in Seq(1 .. 1) /\ Len(st) = 1 /\ st[1] = 1
  <2>1. 1 \in 1 .. 1
    OBVIOUS
  <2> QED
    BY <2>1
<1>2. /\ ns \in Seq(Node) /\ Len(ns) = 1 /\ ns[1] = NoNode
      /\ st \in Seq(1 .. 1) /\ Len(st) = 1 /\ st[1] = 1 /\ Top(st) = 1
  BY <1>b, <1>c DEF Top
<1>3. PICK S : S = {}
  OBVIOUS
<1>4. PICK val, fs : val = 0 /\ fs = 0
  OBVIOUS
<1>5. TreeOK(val, S, fs, ns, st)
  <2>1. Rising(st)
    BY <1>2 DEF Rising
  <2>2. Covered(S, ns, st)
    BY <1>2 DEF Covered
  <2>3. \A i \in 1 .. Len(ns) : RefersOn(i, ns[i], Len(ns))
    <3>1. \A i \in 1 .. Len(ns) : ns[i] = NoNode
      BY <1>2
    <3>2. \A i, N : RefersOn(i, NoNode, N)
      BY NoNodeIs
    <3> QED
      BY <3>1, <3>2
  <2> QED
    BY <1>2, <1>3, <2>1, <2>2, <2>3 DEF TreeOK
<1>6. OpenTree(val, S, fs, ns, st)
  BY <1>2, <1>3, <1>5, NoNodeIs DEF OpenTree
<1>7. Len(st) - 1 = 0
  BY <1>2
<1>8. ValueStage(TheGrammar, Meaning, val, S, fs, k, ns, st)
  BY <1>2, <1>6, <1>7, FirstStage DEF ValueStage
<1>9. InStage(TheGrammar, Meaning, k, ns, st, FALSE, TRUE)
  BY <1>8 DEF InStage
<1> QED
  BY <1>1, <1>9 DEF StillReads

\* What is seen is what the grammar has next.
SeenNext(G, s, k) ==
  /\ \A t : Starts(s, t) <=> Next1(G, k, t)
  /\ k \in 0 .. Len(G.text) /\ (s = <<>> <=> k = 0)
  /\ s # <<>> => /\ k \in 1 .. Len(G.text) /\ Next1(G, k, Head(s))
                 /\ Reaches(Tail(s), k - 1)

LEMMA LooksAt ==
  ASSUME TextOK, NEW rem, NEW k, Reaches(rem, k)
  PROVE  SeenNext(TheGrammar, AfterComments(rem), k)
<1> DEFINE s == AfterComments(rem)
           G == TheGrammar
<1>1. Sees(s, k)
  BY Looks
<1>2. Len(G.text) \in Nat /\ G.text = Seen[Len(text)]
  BY GrammarIs DEF Lawful
<1> DEFINE T == Seen[Len(text)]
<1>a. \A t : Next1(G, k, t) <=> NextIs(T, k, t)
  BY <1>2 DEF Next1
<1>b. Len(T) \in Nat /\ Len(G.text) = Len(T)
  BY <1>2
<1>c. \/ s = <<>> /\ k = 0
      \/ /\ s # <<>> /\ k \in 1 .. Len(T)
         /\ NextIs(T, k, Head(s)) /\ Reaches(Tail(s), k - 1)
  BY <1>1 DEF Sees
<1> HIDE DEF s, G, T
<1>3. ASSUME s = <<>>, k = 0
      PROVE  SeenNext(G, s, k)
  <2>1. \A t : ~ NextIs(T, k, t) /\ ~ Starts(s, t)
    BY <1>3 DEF NextIs, Starts
  <2>2. k \in 0 .. Len(G.text)
    BY <1>3, <1>b
  <2>3. \A t : Starts(s, t) <=> Next1(G, k, t)
    BY <1>a, <2>1, Zenon
  <2> QED
    BY <1>3, <2>2, <2>3, Zenon DEF SeenNext
<1>4. ASSUME s # <<>>, k \in 1 .. Len(T), NextIs(T, k, Head(s)), Reaches(Tail(s), k - 1)
      PROVE  SeenNext(G, s, k)
  <2>1. \A t : NextIs(T, k, t) <=> Starts(s, t)
    BY <1>4 DEF NextIs, Starts
  <2>2. k \in 0 .. Len(G.text) /\ k \in 1 .. Len(G.text) /\ k # 0
    BY <1>4, <1>b
  <2>3. \A t : Starts(s, t) <=> Next1(G, k, t)
    BY <1>a, <2>1, Zenon
  <2>4. Next1(G, k, Head(s))
    BY <1>4, <1>a, Zenon
  <2> QED
    BY <1>4, <2>2, <2>3, <2>4, Zenon DEF SeenNext
<1> QED
  BY <1>3, <1>4, <1>c DEF s, G

\* What a step of the reader comes to.
StaysSo == UNCHANGED <<text, config, nodes>>

Outcome ==
  \/ /\ status' = "reading" /\ UNCHANGED <<text, config>>
     /\ StillReads(remaining', nodes', stack', readName', inValue')
  \/ status' = "failed" /\ StaysSo /\ \A v : v \notin Meaning
  \/ status' = "read" /\ StaysSo /\ Len(stack) = 1
     /\ \E val, S, fs : DoneTree(val, S, fs, nodes, stack) /\ \A v : v \in Meaning <=> v = val[1]

Reading == StillReads(remaining, nodes, stack, readName, inValue)

LEMMA ValueIsNext ==
  ASSUME Reading, inValue, ~readName
  PROVE  \E k, val, S, fs : /\ Reaches(remaining, k)
                            /\ ValueStage(TheGrammar, Meaning, val, S, fs, k, nodes, stack)
BY DEF Reading, StillReads, InStage

LEMMA NameIsToCome ==
  ASSUME Reading, inValue, readName
  PROVE  \E k, val, S, fs : /\ Reaches(remaining, k)
                            /\ NameStage(TheGrammar, Meaning, val, S, fs, k, nodes, stack)
BY DEF Reading, StillReads, InStage

LEMMA ValueIsDone ==
  ASSUME Reading, ~inValue
  PROVE  \E k, val, S, fs : /\ ~readName /\ Reaches(remaining, k)
                            /\ DoneStage(TheGrammar, Meaning, val, S, fs, k, nodes, stack)
BY DEF Reading, StillReads, InStage

LEMMA ScalarRead ==
  ASSUME TextOK, Reading, ReadScalar
  PROVE  Outcome
<1> DEFINE s == AfterComments(remaining)
           G == TheGrammar
<1>1. PICK k, val, S, fs : /\ Reaches(remaining, k)
                           /\ ValueStage(G, Meaning, val, S, fs, k, nodes, stack)
  BY ValueIsNext DEF ReadScalar
<1>2. SeenNext(G, s, k) /\ Lawful(G)
  BY <1>1, LooksAt, GrammarIs
<1> HIDE DEF G
<1>3. CASE /\ s # <<>> /\ Head(s) \in Strings \cup Scalars
           /\ remaining' = Tail(s)
           /\ nodes' = [nodes EXCEPT ![target].type = "scalar", ![target].token = Head(s)]
           /\ inValue' = FALSE
           /\ UNCHANGED <<stack, readName>> /\ Goes
  <2> DEFINE ms == [nodes EXCEPT ![Top(stack)].type = "scalar", ![Top(stack)].token = Head(s)]
  <2>1. k \in 1 .. Len(G.text) /\ Next1(G, k, Head(s)) /\ Reaches(Tail(s), k - 1)
    BY <1>2, <1>3 DEF SeenNext
  <2>2. InStage(G, Meaning, k - 1, ms, stack, FALSE, FALSE)
    <3>1. PICK t \in Strings \cup Scalars : t = Head(s)
      BY <1>3
    <3> HIDE DEF s
    <3> QED
      BY <1>1, <1>2, <2>1, <3>1, ScalarStage
  <2>3. nodes' = ms /\ remaining' = Tail(s)
    BY <1>3 DEF target
  <2>a. stack' = stack /\ inValue' = FALSE /\ UNCHANGED <<text, config>>
    BY <1>3 DEF Goes
  <2>b. ~ readName /\ readName' = readName
    BY <1>3 DEF ReadScalar
  <2>4. stack' = stack /\ inValue' = FALSE /\ UNCHANGED <<text, config>> /\ ~ readName'
    BY <2>a, <2>b
  <2>5. status' = "reading"
    BY <1>3 DEF ReadScalar, Goes
  <2> HIDE DEF ms, s
  <2>6. InStage(G, Meaning, k - 1, ms, stack, readName', inValue')
    BY <2>2, <2>4 DEF InStage
  <2> QED
    BY <2>1, <2>3, <2>4, <2>5, <2>6 DEF Outcome, StillReads, G
<1>4. CASE ~(s # <<>> /\ Head(s) \in Strings \cup Scalars \cup {"{", "[", "]"}) /\ Fails
  <2> DEFINE V == Strings \cup Scalars \cup {"{", "[", "]"}
  <2>0. ~(s # <<>> /\ Head(s) \in V)
    BY <1>4
  <2> HIDE DEF V, s
  <2>a. \A t \in V : ~ Next1(G, k, t)
    BY <1>2, <2>0 DEF SeenNext, Starts
  <2>1. \A t \in Strings \cup Scalars \cup {"{", "[", "]"} : ~ Next1(G, k, t)
    BY <2>a DEF V
  <2>2. \A v : v \notin Meaning
    BY <1>1, <1>2, <2>1, ScalarFails
  <2> QED
    BY <1>4, <2>2 DEF Outcome, Fails, StaysSo
<1> QED
  BY <1>3, <1>4 DEF ReadScalar

LEMMA ObjectOpened ==
  ASSUME TextOK, Reading, OpenObject
  PROVE  Outcome
<1> DEFINE s == AfterComments(remaining)
           G == TheGrammar
           ms == Replaced(nodes, Top(stack), [NoNode EXCEPT !.type = "object"])
<1>1. PICK k, val, S, fs : /\ Reaches(remaining, k)
                           /\ ValueStage(G, Meaning, val, S, fs, k, nodes, stack)
  BY ValueIsNext DEF OpenObject
<1>2. SeenNext(G, s, k) /\ Lawful(G)
  BY <1>1, LooksAt, GrammarIs
<1>3. Starts(s, "{") /\ remaining' = Tail(s)
  BY DEF OpenObject
<1> HIDE DEF G
<1>4. k \in 1 .. Len(G.text) /\ Next1(G, k, "{") /\ Reaches(Tail(s), k - 1)
  BY <1>2, <1>3 DEF SeenNext, Starts
<1>5. InStage(G, Meaning, k - 1, ms, stack, TRUE, TRUE)
  BY <1>1, <1>2, <1>4, OpenObjectStage
<1>6. nodes' = ms
  <2>1. nodes[Top(stack)] = NoNode
    BY <1>1 DEF ValueStage
  <2> QED
    BY <2>1 DEF OpenObject, target, Replaced
<1>7. /\ stack' = stack /\ readName' = TRUE /\ inValue' = TRUE
      /\ status' = "reading" /\ UNCHANGED <<text, config>>
  BY DEF OpenObject, Goes
<1> HIDE DEF ms, s
<1> QED
  BY <1>3, <1>4, <1>5, <1>6, <1>7 DEF Outcome, StillReads, G

LEMMA ArrayOpened ==
  ASSUME TextOK, Reading, OpenArray
  PROVE  Outcome
<1> DEFINE s == AfterComments(remaining)
           G == TheGrammar
           ms == Extended([nodes EXCEPT ![Top(stack)].type = "array",
                             ![Top(stack)].elements = Append(@, Len(nodes) + 1)], NoNode)
           sk == Extended(stack, Len(nodes) + 1)
<1>1. PICK k, val, S, fs : /\ Reaches(remaining, k)
                           /\ ValueStage(G, Meaning, val, S, fs, k, nodes, stack)
  BY ValueIsNext DEF OpenArray
<1>2. SeenNext(G, s, k) /\ Lawful(G)
  BY <1>1, LooksAt, GrammarIs
<1>3. Starts(s, "[") /\ remaining' = Tail(s)
  BY DEF OpenArray
<1> HIDE DEF G
<1>4. k \in 1 .. Len(G.text) /\ Next1(G, k, "[") /\ Reaches(Tail(s), k - 1)
  BY <1>2, <1>3 DEF SeenNext, Starts
<1>5. InStage(G, Meaning, k - 1, ms, sk, FALSE, TRUE)
  BY <1>1, <1>2, <1>4, OpenArrayStage
<1>6. /\ nodes' = ms /\ stack' = sk /\ readName' = FALSE /\ inValue' = TRUE
      /\ status' = "reading" /\ UNCHANGED <<text, config>>
  BY DEF OpenArray, Goes, target, Extended
<1> HIDE DEF ms, s, sk
<1> QED
  BY <1>3, <1>4, <1>5, <1>6 DEF Outcome, StillReads, G

LEMMA PoppedIs ==
  ASSUME NEW V, NEW s \in Seq(V), Len(s) \in Nat \ {0}
  PROVE  /\ Popped(s) \in Seq(V) /\ Len(Popped(s)) = Len(s) - 1
         /\ Popped(s) # <<>> <=> Len(s) > 1
         /\ \A i \in 1 .. Len(s) - 1 : Popped(s)[i] = s[i]
<1> DEFINE p == Popped(s)
<1>1. p \in Seq(V) /\ Len(p) = Len(s) - 1 /\ \A i \in 1 .. Len(s) - 1 : p[i] = s[i]
  <2>1. PICK m \in 0 .. Len(s) : m = Len(s) - 1
    <3> DEFINE z == Len(s)
    <3>1. z \in Nat \ {0}
      OBVIOUS
    <3> HIDE DEF z
    <3>2. z - 1 \in 0 .. z
      BY <3>1
    <3> QED
      BY <3>2 DEF z
  <2>2. p = SubSeq(s, 1, m)
    BY <2>1 DEF Popped
  <2>3. SubSeq(s, 1, m) \in Seq(V)
    OBVIOUS
  <2>4. Len(SubSeq(s, 1, m)) = m /\ \A i \in 1 .. m : SubSeq(s, 1, m)[i] = s[i]
    OBVIOUS
  <2> QED
    BY <2>1, <2>2, <2>3, <2>4
<1> HIDE DEF p
<1>2. p # <<>> <=> Len(p) # 0
  BY <1>1
<1> QED
  BY <1>1, <1>2 DEF p

LEMMA ArrayClosed ==
  ASSUME TextOK, Reading, CloseArray
  PROVE  Outcome
<1> DEFINE s == AfterComments(remaining)
           G == TheGrammar
           b == Popped(stack)
           n == nodes[Top(b)]
           ms == Replaced(nodes, Top(b), [n EXCEPT !.elements = Popped(@)])
<1>1. PICK k, val, S, fs : /\ Reaches(remaining, k)
                           /\ ValueStage(G, Meaning, val, S, fs, k, nodes, stack)
  BY ValueIsNext DEF CloseArray
<1>2. SeenNext(G, s, k) /\ Lawful(G) /\ (G.trailing <=> ~config.disallowTrailingCommas)
  BY <1>1, LooksAt, GrammarIs
<1> HIDE DEF G
<1>3. Starts(s, "]")
  BY DEF CloseArray
<1>4. k \in 1 .. Len(G.text) /\ Next1(G, k, "]") /\ Reaches(Tail(s), k - 1)
  BY <1>2, <1>3 DEF SeenNext, Starts
<1>5. b # <<>> <=> Len(stack) > 1
  <2>1. stack \in Seq(1 .. Len(nodes)) /\ Len(stack) \in Nat \ {0}
    BY <1>1 DEF ValueStage, OpenTree, TreeOK
  <2> QED
    BY <2>1, PoppedIs
<1> DEFINE fails == \/ b = <<>>
                    \/ n.type # "array"
                    \/ Len(n.elements) > 1 /\ config.disallowTrailingCommas
<1>6. CASE fails /\ Fails
  <2>1. Len(stack) > 1 => n.type # "array" \/ (Len(n.elements) > 1 /\ ~G.trailing)
    BY <1>2, <1>5, <1>6
  <2> HIDE DEF n, b
  <2>2. n = nodes[Top(Popped(stack))]
    BY DEF n, b
  <2>3. \A v : v \notin Meaning
    BY <1>1, <1>2, <1>4, <2>1, <2>2, CloseArrayFails
  <2> QED
    BY <1>6, <2>3 DEF Outcome, Fails, StaysSo
<1>7. CASE /\ ~fails
           /\ remaining' = Tail(s)
           /\ stack' = b
           /\ nodes' = [nodes EXCEPT ![Top(b)].elements = Popped(@)]
           /\ inValue' = FALSE
           /\ UNCHANGED readName /\ Goes
  <2>1. Len(stack) > 1 /\ n.type = "array" /\ (~ Len(n.elements) > 1 \/ G.trailing)
    BY <1>2, <1>5, <1>7
  <2>2. nodes' = ms
    BY <1>7 DEF Replaced
  <2>a. Len(n.elements) \in Nat
    <3>1. PICK w, T : Below(fs, nodes, stack, w, T)
      BY <1>1, <2>1, SomethingBelow DEF ValueStage
    <3>2. n \in Node
      BY <3>1, TopIs DEF Below, OpenTree
    <3> QED
      BY <3>2, NodeIs
  <2>b. Len(n.elements) <= 1 \/ G.trailing
    BY <2>1, <2>a
  <2>3. InStage(G, Meaning, k - 1, ms, b, FALSE, FALSE)
    <3>1. PICK o : o = n
      OBVIOUS
    <3>2. InStage(G, Meaning, k - 1, Replaced(nodes, Top(b), [o EXCEPT !.elements = Popped(@)]),
                  b, FALSE, FALSE)
      BY <1>1, <1>2, <1>4, <2>1, <2>b, <3>1, CloseArrayStage
    <3> QED
      BY <3>1, <3>2
  <2> HIDE DEF ms, s, b, n
  <2>4. stack' = b /\ inValue' = FALSE /\ UNCHANGED <<text, config>> /\ remaining' = Tail(s)
    BY <1>7 DEF Goes
  <2>5. status' = "reading"
    BY <1>7 DEF CloseArray, Goes
  <2>6. ~ readName'
    <3>1. ~ readName /\ readName' = readName
      BY <1>7 DEF CloseArray
    <3> QED
      BY <3>1
  <2>7. InStage(G, Meaning, k - 1, ms, b, readName', inValue')
    BY <2>3, <2>4, <2>6 DEF InStage
  <2> QED
    BY <1>4, <2>2, <2>4, <2>5, <2>7 DEF Outcome, StillReads, G
<1> QED
  BY <1>6, <1>7 DEF CloseArray

LEMMA ClosedIs ==
  ASSUME TextOK, NEW i
  PROVE  CloseObject(i) = Closed(TheGrammar, nodes, i)
<1>1. TheGrammar.asIs <=> config.propertiesAsIs
  BY GrammarIs
<1>2. [nodes EXCEPT ![i].properties = StableSortedAndUnique(@)]
        = Replaced(nodes, i, [nodes[i] EXCEPT !.properties = StableSortedAndUnique(@)])
  BY DEF Replaced
<1> QED
  BY <1>1, <1>2 DEF CloseObject, Closed

LEMMA ObjectClosed ==
  ASSUME TextOK, Reading, CloseAfterComma
  PROVE  Outcome
<1> DEFINE s == AfterComments(remaining)
           G == TheGrammar
           p == Top(stack)
           ms == Closed(G, nodes, p)
<1>1. PICK k, val, S, fs : /\ Reaches(remaining, k)
                           /\ NameStage(G, Meaning, val, S, fs, k, nodes, stack)
  BY NameIsToCome DEF CloseAfterComma
<1>2. SeenNext(G, s, k) /\ Lawful(G) /\ (G.trailing <=> ~config.disallowTrailingCommas)
  BY <1>1, LooksAt, GrammarIs
<1>8. CloseObject(target) = ms
  BY ClosedIs DEF target
<1> HIDE DEF G
<1>3. Starts(s, "}")
  BY DEF CloseAfterComma
<1>4. k \in 1 .. Len(G.text) /\ Next1(G, k, "}") /\ Reaches(Tail(s), k - 1)
  BY <1>2, <1>3 DEF SeenNext, Starts
<1> DEFINE fails == nodes[p].properties # <<>> /\ config.disallowTrailingCommas
<1>6. CASE fails /\ Fails
  <2>1. \A v : v \notin Meaning
    BY <1>1, <1>2, <1>4, <1>6, CloseObjectFails
  <2> QED
    BY <1>6, <2>1 DEF Outcome, Fails, StaysSo
<1>7. CASE /\ ~fails
           /\ remaining' = Tail(s)
           /\ nodes' = ms
           /\ readName' = FALSE /\ inValue' = FALSE
           /\ UNCHANGED stack /\ Goes
  <2>1. nodes[p].properties = <<>> \/ G.trailing
    BY <1>2, <1>7
  <2>2. InStage(G, Meaning, k - 1, ms, stack, FALSE, FALSE)
    BY <1>1, <1>2, <1>4, <2>1, CloseObjectStage
  <2> HIDE DEF ms, s
  <2>3. /\ remaining' = Tail(s) /\ nodes' = ms /\ stack' = stack
        /\ readName' = FALSE /\ inValue' = FALSE /\ UNCHANGED <<text, config>>
    BY <1>7 DEF Goes
  <2>4. status' = "reading"
    BY <1>7 DEF CloseAfterComma, Goes
  <2> QED
    BY <1>4, <2>2, <2>3, <2>4 DEF Outcome, StillReads, G
<1>9. \/ fails /\ Fails
      \/ /\ ~fails
         /\ remaining' = Tail(s)
         /\ nodes' = ms
         /\ readName' = FALSE /\ inValue' = FALSE
         /\ UNCHANGED stack /\ Goes
  BY <1>8 DEF CloseAfterComma, target
<1> QED
  BY <1>6, <1>7, <1>9

LEMMA NameRead ==
  ASSUME TextOK, Reading, ReadName
  PROVE  Outcome
<1> DEFINE s == AfterComments(remaining)
           after == AfterComments(Tail(s))
           new == Len(nodes) + 1
           G == TheGrammar
           n == nodes[Top(stack)]
           ms == Extended(Replaced(nodes, Top(stack),
                    [n EXCEPT !.properties = Append(@, Property(Head(s), new))]), NoNode)
           sk == Extended(stack, new)
<1>1. PICK k, val, S, fs : /\ Reaches(remaining, k)
                           /\ NameStage(G, Meaning, val, S, fs, k, nodes, stack)
  BY NameIsToCome DEF ReadName
<1>2. SeenNext(G, s, k) /\ Lawful(G)
  BY <1>1, LooksAt, GrammarIs
<1>3. ~Starts(s, "}")
  BY DEF ReadName
<1>4. s # <<>> => SeenNext(G, after, k - 1)
  <2>1. ASSUME s # <<>>
        PROVE  SeenNext(G, after, k - 1)
    <3>1. Reaches(Tail(s), k - 1)
      BY <1>2, <2>1 DEF SeenNext
    <3> QED
      BY <3>1, LooksAt
  <2> QED
    BY <2>1
<1> HIDE DEF G
<1> DEFINE fails == s = <<>> \/ Head(s) \notin Strings \/ ~Starts(after, ":")
<1>5. CASE fails /\ Fails
  <2>1. ~ \E name \in Strings : Next1(G, k, name) /\ Next1(G, k - 1, ":")
    <3>1. ASSUME NEW name \in Strings, Next1(G, k, name), Next1(G, k - 1, ":")
          PROVE  FALSE
      <4>1. Starts(s, name)
        BY <1>2, <3>1 DEF SeenNext
      <4>2. s # <<>> /\ Head(s) \in Strings
        BY <3>1, <4>1 DEF Starts
      <4>3. Starts(after, ":")
        BY <1>4, <3>1, <4>2 DEF SeenNext
      <4> QED
        BY <1>5, <4>2, <4>3
    <3> QED
      BY <3>1
  <2>2. ~ Next1(G, k, "}")
    BY <1>2, <1>3 DEF SeenNext
  <2>3. \A v : v \notin Meaning
    BY <1>1, <1>2, <2>1, <2>2, NameFails
  <2> QED
    BY <1>5, <2>3 DEF Outcome, Fails, StaysSo
<1>6. CASE /\ ~fails
           /\ remaining' = Tail(after)
           /\ nodes' = Append([nodes EXCEPT ![target].properties =
                                 Append(@, Property(Head(s), new))], NoNode)
           /\ stack' = Append(stack, new)
           /\ readName' = FALSE
           /\ UNCHANGED inValue /\ Goes
  <2>1. s # <<>> /\ Head(s) \in Strings /\ Starts(after, ":")
    BY <1>6
  <2>2. k \in 0 .. Len(G.text) /\ Next1(G, k, Head(s)) /\ Next1(G, k - 1, ":")
    BY <1>2, <1>4, <2>1 DEF SeenNext
  <2>3. Reaches(Tail(after), k - 1 - 1)
    <3>1. after # <<>>
      BY <2>1 DEF Starts
    <3>2. SeenNext(G, after, k - 1)
      BY <1>4, <2>1
    <3> HIDE DEF after
    <3>3. PICK j : j = k - 1
      OBVIOUS
    <3> QED
      BY <3>1, <3>2, <3>3, Zenon DEF SeenNext
  <2>4. nodes' = ms /\ stack' = sk
    BY <1>6 DEF target, Replaced, Extended
  <2>5. InStage(G, Meaning, k - 2, ms, sk, FALSE, TRUE)
    <3>1. PICK id \in Strings : id = Head(s)
      BY <2>1
    <3> HIDE DEF s
    <3>2. PICK o : o = n
      OBVIOUS
    <3>3. InStage(G, Meaning, k - 2,
                  Extended(Replaced(nodes, Top(stack),
                    [o EXCEPT !.properties = Append(@, Property(id, Len(nodes) + 1))]), NoNode),
                  Extended(stack, Len(nodes) + 1), FALSE, TRUE)
      BY <1>1, <1>2, <2>2, <3>1, <3>2, ReadNameStage
    <3> QED
      BY <3>1, <3>2, <3>3
  <2>6. k - 1 - 1 = k - 2
    BY <2>2
  <2> HIDE DEF ms, s, after, sk
  <2>7. remaining' = Tail(after) /\ ~ readName' /\ UNCHANGED <<text, config>>
    BY <1>6 DEF Goes
  <2>8. status' = "reading"
    BY <1>6 DEF ReadName, Goes
  <2>9. inValue'
    <3>1. inValue /\ inValue' = inValue
      BY <1>6 DEF ReadName
    <3> QED
      BY <3>1
  <2>10. InStage(G, Meaning, k - 2, ms, sk, readName', inValue')
    BY <2>5, <2>7, <2>9 DEF InStage
  <2>11. Reaches(Tail(after), k - 2)
    BY <2>3, <2>6
  <2> QED
    BY <2>4, <2>7, <2>8, <2>10, <2>11 DEF Outcome, StillReads, G
<1> QED
  BY <1>5, <1>6 DEF ReadName

LEMMA PropertyDone ==
  ASSUME TextOK, Reading, AfterProperty
  PROVE  Outcome
<1> DEFINE s == AfterComments(remaining)
           G == TheGrammar
           b == Popped(stack)
           ms == Closed(G, nodes, Top(b))
<1>0. Len(stack) > 1 /\ nodes[Top(b)].type = "object"
  BY DEF AfterProperty
<1>1. PICK k, val, S, fs : /\ ~readName /\ Reaches(remaining, k)
                           /\ DoneStage(G, Meaning, val, S, fs, k, nodes, stack)
  BY ValueIsDone DEF AfterProperty
<1>2. SeenNext(G, s, k) /\ Lawful(G)
  BY <1>1, LooksAt, GrammarIs
<1>8. \A i : CloseObject(i) = Closed(G, nodes, i)
  BY ClosedIs
<1> HIDE DEF G
<1>3. /\ Next1(G, k, ",") => InStage(G, Meaning, k - 1, nodes, b, TRUE, TRUE)
      /\ Next1(G, k, "}") => InStage(G, Meaning, k - 1, ms, b, FALSE, FALSE)
      /\ ~Next1(G, k, ",") /\ ~Next1(G, k, "}") => \A v : v \notin Meaning
  BY <1>0, <1>1, <1>2, AfterPropertyStage
<1>4. CASE ~ (Starts(s, ",") \/ Starts(s, "}")) /\ Fails
  <2>1. ~Next1(G, k, ",") /\ ~Next1(G, k, "}")
    BY <1>2, <1>4 DEF SeenNext
  <2> QED
    BY <1>3, <1>4, <2>1 DEF Outcome, Fails, StaysSo
<1>5. CASE /\ Starts(s, ",") \/ Starts(s, "}")
           /\ remaining' = Tail(s)
           /\ stack' = b
           /\ readName' = (Head(s) = ",") /\ inValue' = readName'
           /\ nodes' = IF Head(s) = "," THEN nodes ELSE CloseObject(Top(stack'))
           /\ Goes
  <2>1. Reaches(Tail(s), k - 1)
    BY <1>2, <1>5 DEF SeenNext, Starts
  <2>2. status' = "reading" /\ UNCHANGED <<text, config>> /\ remaining' = Tail(s) /\ stack' = b
    BY <1>5 DEF AfterProperty, Goes
  <2>3. InStage(G, Meaning, k - 1, nodes', b, readName', inValue')
    <3>1. CASE Head(s) = ","
      <4>1. Starts(s, ",")
        BY <1>5, <3>1 DEF Starts
      <4>2. InStage(G, Meaning, k - 1, nodes, b, TRUE, TRUE)
        BY <1>2, <1>3, <4>1 DEF SeenNext
      <4>3. readName' /\ inValue' /\ nodes' = nodes
        BY <1>5, <3>1
      <4> QED
        BY <4>2, <4>3 DEF InStage
    <3>2. CASE Head(s) # ","
      <4>1. Starts(s, "}")
        BY <1>5, <3>2 DEF Starts
      <4>2. InStage(G, Meaning, k - 1, ms, b, FALSE, FALSE)
        BY <1>2, <1>3, <4>1 DEF SeenNext
      <4>3. ~readName' /\ ~inValue' /\ nodes' = ms
        BY <1>5, <1>8, <3>2
      <4> HIDE DEF ms
      <4> QED
        BY <4>2, <4>3 DEF InStage
    <3> QED
      BY <3>1, <3>2
  <2> HIDE DEF s, b
  <2> QED
    BY <2>1, <2>2, <2>3 DEF Outcome, StillReads, G
<1> QED
  BY <1>4, <1>5 DEF AfterProperty

LEMMA ElementDone ==
  ASSUME TextOK, Reading, AfterElement
  PROVE  Outcome
<1> DEFINE s == AfterComments(remaining)
           G == TheGrammar
           b == Popped(stack)
           arr == Top(b)
           new == Len(nodes) + 1
           n == nodes[arr]
           ms == Extended(Replaced(nodes, arr, [n EXCEPT !.elements = Append(@, new)]), NoNode)
           sk == Extended(b, new)
<1>0. Len(stack) > 1 /\ n.type = "array"
  BY DEF AfterElement
<1>1. PICK k, val, S, fs : /\ ~readName /\ Reaches(remaining, k)
                           /\ DoneStage(G, Meaning, val, S, fs, k, nodes, stack)
  BY ValueIsDone DEF AfterElement
<1>2. SeenNext(G, s, k) /\ Lawful(G)
  BY <1>1, LooksAt, GrammarIs
<1> HIDE DEF G
<1>3. /\ Next1(G, k, ",") => InStage(G, Meaning, k - 1, ms, sk, FALSE, TRUE)
      /\ Next1(G, k, "]") => InStage(G, Meaning, k - 1, nodes, b, FALSE, FALSE)
      /\ ~Next1(G, k, ",") /\ ~Next1(G, k, "]") => \A v : v \notin Meaning
  <2>1. PICK o : o = n
    OBVIOUS
  <2>2. PICK os, ok : /\ os = Extended(Replaced(nodes, arr, [o EXCEPT !.elements = Append(@, new)]),
                                       NoNode)
                      /\ ok = Extended(b, new)
    OBVIOUS
  <2>3. /\ Next1(G, k, ",") => InStage(G, Meaning, k - 1, os, ok, FALSE, TRUE)
        /\ Next1(G, k, "]") => InStage(G, Meaning, k - 1, nodes, b, FALSE, FALSE)
        /\ ~Next1(G, k, ",") /\ ~Next1(G, k, "]") => \A v : v \notin Meaning
    BY <1>0, <1>1, <1>2, <2>1, <2>2, AfterElementStage
  <2> QED
    BY <2>1, <2>2, <2>3
<1>4. CASE ~Starts(s, ",") /\ ~Starts(s, "]") /\ Fails
  <2>1. ~Next1(G, k, ",") /\ ~Next1(G, k, "]")
    BY <1>2, <1>4 DEF SeenNext
  <2> QED
    BY <1>3, <1>4, <2>1 DEF Outcome, Fails, StaysSo
<1>5. CASE /\ Starts(s, ",")
           /\ remaining' = Tail(s)
           /\ nodes' = Append([nodes EXCEPT ![arr].elements = Append(@, new)], NoNode)
           /\ stack' = Append(Popped(stack), new)
           /\ inValue' = TRUE
           /\ UNCHANGED readName /\ Goes
  <2>1. Reaches(Tail(s), k - 1)
    BY <1>2, <1>5 DEF SeenNext, Starts
  <2>2. InStage(G, Meaning, k - 1, ms, sk, FALSE, TRUE)
    BY <1>2, <1>3, <1>5 DEF SeenNext
  <2>3. nodes' = ms /\ stack' = sk
    BY <1>5 DEF Extended, Replaced
  <2> HIDE DEF ms, sk, s
  <2>4. /\ remaining' = Tail(s) /\ inValue' /\ ~readName' /\ UNCHANGED <<text, config>>
    BY <1>1, <1>5 DEF Goes
  <2>5. status' = "reading"
    BY <1>5 DEF AfterElement, Goes
  <2>6. InStage(G, Meaning, k - 1, ms, sk, readName', inValue')
    BY <2>2, <2>4 DEF InStage
  <2> QED
    BY <2>1, <2>3, <2>4, <2>5, <2>6 DEF Outcome, StillReads, G
<1>6. CASE /\ Starts(s, "]")
           /\ remaining' = Tail(s)
           /\ stack' = Popped(stack)
           /\ UNCHANGED <<nodes, readName, inValue>> /\ Goes
  <2>1. Reaches(Tail(s), k - 1)
    BY <1>2, <1>6 DEF SeenNext, Starts
  <2>2. InStage(G, Meaning, k - 1, nodes, b, FALSE, FALSE)
    BY <1>2, <1>3, <1>6 DEF SeenNext
  <2> HIDE DEF ms, sk, s
  <2>4. /\ remaining' = Tail(s) /\ ~readName' /\ UNCHANGED <<text, config>>
        /\ nodes' = nodes /\ stack' = b
    BY <1>1, <1>6 DEF Goes
  <2>5. status' = "reading"
    BY <1>6 DEF AfterElement, Goes
  <2>a. ~inValue'
    BY <1>6 DEF AfterElement
  <2> HIDE DEF b
  <2>6. InStage(G, Meaning, k - 1, nodes, b, readName', inValue')
    BY <2>2, <2>4, <2>a DEF InStage
  <2> QED
    BY <2>1, <2>4, <2>5, <2>6 DEF Outcome, StillReads, G
<1> QED
  BY <1>4, <1>5, <1>6 DEF AfterElement

LEMMA EndRead ==
  ASSUME TextOK, Reading, ReadEnd
  PROVE  Outcome
<1> DEFINE s == AfterComments(remaining)
           G == TheGrammar
<1>1. PICK k, val, S, fs : /\ ~readName /\ Reaches(remaining, k)
                           /\ DoneStage(G, Meaning, val, S, fs, k, nodes, stack)
  BY ValueIsDone DEF ReadEnd
<1>2. SeenNext(G, s, k) /\ Lawful(G)
  BY <1>1, LooksAt, GrammarIs
<1>a. k \in Nat /\ (s = <<>> <=> k = 0)
  BY <1>2 DEF SeenNext, Lawful
<1> HIDE DEF G
<1>3. Len(stack) = 1 /\ UNCHANGED <<text, config, nodes>>
      /\ status' = IF s = <<>> THEN "read" ELSE "failed"
  BY DEF ReadEnd
<1>4. /\ k = 0 => \A v : v \in Meaning <=> v = val[1]
      /\ k # 0 => \A v : v \notin Meaning
  BY <1>1, <1>2, <1>3, <1>a, EndStage
<1>5. DoneTree(val, S, fs, nodes, stack)
  BY <1>1 DEF DoneStage
<1> QED
  BY <1>3, <1>4, <1>5, <1>a DEF Outcome, StaysSo

-----------------------------------------------------------------------------
(* The value that has been read.                                           *)

ValueAt(g, n) ==
  CASE n.type = "object" ->
         Object([j \in 1 .. Len(n.properties) |->
                   Property(n.properties[j].name, g[n.properties[j].value])])
    [] n.type = "array" ->
         Array([j \in 1 .. Len(n.elements) |-> g[n.elements[j]]])
    [] OTHER -> Scalar(n.token)

LEMMA ValueIsWorth ==
  ASSUME NEW g, NEW n
  PROVE  ValueAt(g, n) = Worth(g, n)
<1>1. CASE n.type = "object"
  <2>1. ValueAt(g, n) = Object([j \in 1 .. Len(n.properties) |->
                   Property(n.properties[j].name, g[n.properties[j].value])])
    BY <1>1 DEF ValueAt
  <2>2. Size(n) = Len(n.properties)
    BY <1>1 DEF Size
  <2>3. \A j : ItemAt(g, n, j) = Property(n.properties[j].name, g[n.properties[j].value])
    BY <1>1 DEF ItemAt
  <2>4. Items(g, n, Size(n)) = [j \in 1 .. Len(n.properties) |->
                   Property(n.properties[j].name, g[n.properties[j].value])]
    BY <2>2, <2>3, Zenon DEF Items
  <2>5. Worth(g, n) = Object(Items(g, n, Size(n)))
    BY <1>1 DEF Worth
  <2> QED
    BY <2>1, <2>4, <2>5
<1>2. CASE n.type = "array"
  <2>1. ValueAt(g, n) = Array([j \in 1 .. Len(n.elements) |-> g[n.elements[j]]])
    BY <1>2 DEF ValueAt
  <2>2. Size(n) = Len(n.elements)
    BY <1>2 DEF Size
  <2>3. \A j : ItemAt(g, n, j) = g[n.elements[j]]
    BY <1>2 DEF ItemAt
  <2>4. Items(g, n, Size(n)) = [j \in 1 .. Len(n.elements) |-> g[n.elements[j]]]
    BY <2>2, <2>3, Zenon DEF Items
  <2>5. Worth(g, n) = Array(Items(g, n, Size(n)))
    BY <1>2 DEF Worth
  <2> QED
    BY <2>1, <2>4, <2>5
<1>3. CASE n.type # "object" /\ n.type # "array"
  BY <1>3 DEF ValueAt, Worth
<1> QED
  BY <1>1, <1>2, <1>3

\* Values that nodes have, when each is given by those of its children.
AllSettled(val, ns) ==
  \A i \in 1 .. Len(ns) : /\ RefersOn(i, ns[i], Len(ns)) /\ ns[i] \in Node
                          /\ val[i] = Worth(val, ns[i])

LEMMA KidsComeLater ==
  ASSUME NEW i \in Nat, NEW N \in Nat, NEW n \in Node, RefersOn(i, n, N)
  PROVE  KidsIn(n, Size(n), i + 1 .. N)
<1> DEFINE V == i + 1 .. N
           l == n.properties
           e == n.elements
<1>1. l \in ListOf(V) /\ e \in Seq(V)
  BY DEF RefersOn
<1> HIDE DEF V, l, e
<1>2. \A j \in 1 .. Len(l) : l[j].value \in V
  BY <1>1, ListOfIs DEF NamedOf
<1>3. \A j \in 1 .. Len(e) : e[j] \in V
  BY <1>1
<1> QED
  BY <1>2, <1>3 DEF KidsIn, KidAt, Size, V, l, e

LEMMA ValueUnfolds ==
  ASSUME Len(nodes) \in Nat, NEW val, AllSettled(val, nodes)
  PROVE  \A i \in 1 .. Len(nodes) : Value[i] = Worth(Value, nodes[i])
<1> DEFINE N == Len(nodes)
           g == [i \in 1 .. N |-> val[i]]
<1>1. ASSUME NEW i \in 1 .. N
      PROVE  g[i] = Worth(g, nodes[i])
  <2> DEFINE S == 1 .. N
             n == nodes[i]
  <2>1. KidsIn(n, Size(n), i + 1 .. N)
    BY KidsComeLater DEF AllSettled
  <2>2. \A k \in i + 1 .. N : k \in S
    OBVIOUS
  <2>3. KidsIn(n, Size(n), S)
    BY <2>1, <2>2 DEF KidsIn
  <2>4. Agree(val, g, S)
    BY DEF Agree
  <2> HIDE DEF S, g
  <2>5. Worth(g, n) = Worth(val, n)
    BY <2>3, <2>4, WorthSame
  <2>6. val[i] = Worth(val, n)
    BY DEF AllSettled
  <2> QED
    BY <2>5, <2>6 DEF g
<1>2. g = [i \in 1 .. N |-> g[i]]
  OBVIOUS
<1> HIDE DEF g
<1>3. \A i \in 1 .. N : g[i] = ValueAt(g, nodes[i])
  BY <1>1, ValueIsWorth
<1>4. g = [i \in 1 .. N |-> ValueAt(g, nodes[i])]
  BY <1>2, <1>3, Zenon
<1>5. g = [i \in 1 .. Len(nodes) |->
             LET n == nodes[i]
             IN  CASE n.type = "object" ->
                        Object([j \in 1 .. Len(n.properties) |->
                                  Property(n.properties[j].name, g[n.properties[j].value])])
                   [] n.type = "array" ->
                        Array([j \in 1 .. Len(n.elements) |-> g[n.elements[j]]])
                   [] OTHER -> Scalar(n.token)]
  BY <1>4, Zenon DEF ValueAt
<1>6. Value = [i \in 1 .. Len(nodes) |->
             LET n == nodes[i]
             IN  CASE n.type = "object" ->
                        Object([j \in 1 .. Len(n.properties) |->
                                  Property(n.properties[j].name, Value[n.properties[j].value])])
                   [] n.type = "array" ->
                        Array([j \in 1 .. Len(n.elements) |-> Value[n.elements[j]]])
                   [] OTHER -> Scalar(n.token)]
  BY <1>5, Zenon DEF Value
<1>7. Value = [i \in 1 .. N |-> ValueAt(Value, nodes[i])]
  BY <1>6, Zenon DEF ValueAt
<1> QED
  BY <1>7, ValueIsWorth, Zenon

LEMMA ValueIs ==
  ASSUME Len(nodes) \in Nat, NEW val, AllSettled(val, nodes)
  PROVE  \A i \in 1 .. Len(nodes) : Value[i] = val[i]
<1> DEFINE N == Len(nodes)
           U == {c \in 0 .. N : \A i \in N - c + 1 .. N : Value[i] = val[i]}
<1>1. \A i \in 1 .. N : Value[i] = Worth(Value, nodes[i])
  BY ValueUnfolds
<1>2. 0 \in U
  OBVIOUS
<1>3. ASSUME NEW c \in 0 .. N - 1, c \in U
      PROVE  c + 1 \in U
  <2>1. PICK i \in 1 .. N : i = N - c /\ i = N - (c + 1) + 1 /\ i + 1 = N - c + 1
    <3>1. N \in Nat
      OBVIOUS
    <3> HIDE DEF N
    <3> QED
      BY <3>1
  <2>2. \A j \in i + 1 .. N : Value[j] = val[j]
    BY <1>3, <2>1
  <2> DEFINE S == i + 1 .. N
             n == nodes[i]
  <2>3. KidsIn(n, Size(n), S) /\ val[i] = Worth(val, n)
    BY KidsComeLater DEF AllSettled
  <2>4. Agree(val, Value, S)
    BY <2>2 DEF Agree
  <2> HIDE DEF S
  <2>5. Worth(Value, n) = Worth(val, n)
    BY <2>3, <2>4, WorthSame
  <2>6. Value[i] = val[i]
    BY <1>1, <2>3, <2>5
  <2>7. \A j \in i .. N : j = i \/ j \in i + 1 .. N
    OBVIOUS
  <2>8. \A j \in i .. N : Value[j] = val[j]
    BY <2>2, <2>6, <2>7
  <2>9. c + 1 \in 0 .. N
    OBVIOUS
  <2> QED
    BY <2>1, <2>8, <2>9
<1> HIDE DEF U
<1>4. \A c \in 0 .. N : c \in U
  BY <1>2, <1>3, InductionFrom
<1>5. N \in U /\ N - N + 1 = 1
  BY <1>4
<1> QED
  BY <1>5 DEF U

LEMMA TreeIsValue ==
  ASSUME NEW val, NEW S, NEW fs, DoneTree(val, S, fs, nodes, stack), Len(stack) = 1
  PROVE  Value[1] = val[1]
<1>1. /\ TreeOK(val, S, fs, nodes, stack) /\ Top(stack) \in S
      /\ nodes \in Seq(Node) /\ S \subseteq 1 .. Len(nodes) /\ Covered(S, nodes, stack)
      /\ stack[1] = 1 /\ \A i \in S : SettledAt(val, S, nodes[i], val[i])
      /\ \A i \in 1 .. Len(nodes) : RefersOn(i, nodes[i], Len(nodes))
  BY DEF DoneTree, TreeOK
<1>2. 1 \in S /\ Len(nodes) \in Nat
  BY <1>1 DEF Top
<1>3. \A i \in 1 .. Len(nodes) : i \in S
  BY <1>1, <1>2 DEF Covered
<1>4. AllSettled(val, nodes)
  BY <1>1, <1>3 DEF AllSettled, SettledAt
<1>5. 1 \in 1 .. Len(nodes)
  BY <1>1, <1>2
<1> QED
  BY <1>2, <1>4, <1>5, ValueIs

-----------------------------------------------------------------------------
(* The reader's invariant.                                                 *)

AtStart ==
  /\ TextOK /\ remaining = text /\ nodes = <<NoNode>> /\ stack = <<1>>
  /\ ~readName /\ inValue

LEMMA StartsReading ==
  AtStart => Reading
<1> SUFFICES ASSUME AtStart
             PROVE  Reading
  OBVIOUS
<1>1. StillReads(text, nodes, stack, FALSE, TRUE)
  BY FirstTree DEF AtStart
<1> QED
  BY <1>1 DEF StillReads, Reading, InStage, AtStart

LEMMA StartsReadingNext ==
  AtStart' => Reading'
BY StartsReading, PTL

\* Where the text is the same, so is what it means.
LEMMA SameText ==
  ASSUME UNCHANGED <<text, config>>
  PROVE  /\ Seen' = Seen /\ Meaning' = Meaning /\ TheGrammar' = TheGrammar
         /\ \A s, k : Reaches(s, k)' <=> Reaches(s, k)
<1>1. Seen' = Seen
  BY DEF Seen
<1>2. Meaning' = Meaning
  BY <1>1 DEF Meaning
<1>3. TheGrammar' = TheGrammar
  BY <1>1 DEF TheGrammar
<1>4. \A s, k : Reaches(s, k)' <=> Reaches(s, k)
  BY <1>1 DEF Reaches
<1> QED
  BY <1>1, <1>2, <1>3, <1>4

LEMMA StillReading ==
  ASSUME UNCHANGED <<text, config>>, StillReads(remaining', nodes', stack', readName', inValue')
  PROVE  Reading'
<1>1. PICK k : /\ Reaches(remaining', k)
               /\ InStage(TheGrammar, Meaning, k, nodes', stack', readName', inValue')
  BY DEF StillReads
<1>2. Seen' = Seen /\ Meaning' = Meaning /\ TheGrammar' = TheGrammar /\ text' = text
  BY SameText
<1>3. Reaches(remaining, k)'
  BY <1>1, <1>2 DEF Reaches
<1>4. InStage(TheGrammar', Meaning', k, nodes', stack', readName', inValue')
  BY <1>1, <1>2
<1> QED
  BY <1>3, <1>4 DEF Reading, StillReads

ReaderInv ==
  /\ TextOK
  /\ status = "waiting" =>
       nodes = <<NoNode>> /\ stack = <<1>> /\ ~readName /\ inValue
  /\ status = "reading" => Reading
  /\ ReadsExactlyJson

LEMMA NextOutcome ==
  ASSUME ReaderInv, Next
  PROVE  Outcome
<1>1. status = "reading"
  BY DEF Next, CloseAfterComma, ReadName, CloseArray, OpenObject, OpenArray, ReadScalar, ReadEnd,
         AfterProperty, AfterElement
<1>2. TextOK /\ Reading
  BY <1>1 DEF ReaderInv
<1> QED
  BY <1>2, ObjectClosed, NameRead, ArrayClosed, ObjectOpened, ArrayOpened, ScalarRead, EndRead,
     PropertyDone, ElementDone DEF Next

LEMMA SameValue ==
  ASSUME UNCHANGED nodes
  PROVE  Value' = Value
BY DEF Value

LEMMA ReaderInvInit ==
  Init => ReaderInv
<1> SUFFICES ASSUME Init
             PROVE  ReaderInv
  OBVIOUS
<1>1. AtStart
  BY InputsAssumption DEF Init, AtStart, TextOK
<1> QED
  BY <1>1, StartsReading DEF Init, ReaderInv, AtStart, ReadsExactlyJson

LEMMA ReaderInvNext ==
  ReaderInv /\ Next => ReaderInv'
<1> SUFFICES ASSUME ReaderInv, Next
             PROVE  ReaderInv'
  OBVIOUS
<1>1. Outcome
  BY NextOutcome
<1>2. UNCHANGED <<text, config>> /\ TextOK
  BY <1>1 DEF Outcome, StaysSo, ReaderInv
<1>3. TextOK'
  BY <1>2 DEF TextOK
<1>4. CASE /\ status' = "reading"
           /\ StillReads(remaining', nodes', stack', readName', inValue')
  <2>1. Reading'
    BY <1>2, <1>4, StillReading
  <2> QED
    BY <1>3, <1>4, <2>1 DEF ReaderInv, ReadsExactlyJson
<1>5. CASE status' = "failed" /\ StaysSo /\ \A v : v \notin Meaning
  <2>1. Meaning' = {}
    BY <1>2, <1>5, SameText
  <2> QED
    BY <1>3, <1>5, <2>1 DEF ReaderInv, ReadsExactlyJson
<1>6. CASE /\ status' = "read" /\ StaysSo /\ Len(stack) = 1
           /\ \E val, S, fs : /\ DoneTree(val, S, fs, nodes, stack)
                              /\ \A v : v \in Meaning <=> v = val[1]
  <2>1. PICK val, S, fs : /\ DoneTree(val, S, fs, nodes, stack)
                          /\ \A v : v \in Meaning <=> v = val[1]
    BY <1>6
  <2>2. Value[1] = val[1]
    BY <1>6, <2>1, TreeIsValue
  <2>3. Meaning = {Value[1]}
    BY <2>1, <2>2
  <2>4. Meaning' = Meaning /\ Value' = Value
    BY <1>2, <1>6, SameText, SameValue DEF StaysSo
  <2> QED
    BY <1>3, <1>6, <2>3, <2>4 DEF ReaderInv, ReadsExactlyJson
<1> QED
  BY <1>1, <1>4, <1>5, <1>6 DEF Outcome

LEMMA ReaderInvStays ==
  ReaderInv /\ UNCHANGED vars => ReaderInv'
<1> SUFFICES ASSUME ReaderInv, UNCHANGED vars
             PROVE  ReaderInv'
  OBVIOUS
<1>1. UNCHANGED <<text, config>> /\ UNCHANGED <<nodes, stack, readName, inValue, status, remaining>>
  BY DEF vars
<1>2. Meaning' = Meaning /\ Value' = Value
  BY <1>1, SameText, SameValue
<1>3. ReadsExactlyJson'
  BY <1>1, <1>2 DEF ReaderInv, ReadsExactlyJson
<1>4. TextOK'
  BY <1>1 DEF ReaderInv, TextOK
<1>5. ASSUME status = "reading"
      PROVE  Reading'
  <2>1. StillReads(remaining', nodes', stack', readName', inValue')
    BY <1>1, <1>5 DEF ReaderInv, Reading
  <2> QED
    BY <1>1, <2>1, StillReading
<1> QED
  BY <1>1, <1>3, <1>4, <1>5 DEF ReaderInv

\* When the text that was written is read.
LEMMA ReaderInvOutput ==
  ReaderInv /\ output \in Seq(Tokens) /\ ReadOutput => ReaderInv'
<1> SUFFICES ASSUME ReaderInv, output \in Seq(Tokens), ReadOutput
             PROVE  ReaderInv'
  OBVIOUS
<1>1. AtStart'
  BY DEF ReaderInv, ReadOutput, AtStart, TextOK
<1>2. Reading' /\ status' = "reading"
  BY <1>1, StartsReadingNext DEF ReadOutput
<1> QED
  BY <1>1, <1>2 DEF ReaderInv, AtStart, ReadsExactlyJson

\* ReadJson accepts a text exactly if it is JSON, and builds the one value the text means,
\* with the properties of every object sorted unless they are to stay as they are: for
\* texts of any length, nested as deep as they may be, with comments and trailing commas
\* as the configuration allows them.
THEOREM ReadsJson ==
  Spec => []ReadsExactlyJson
<1>1. ReaderInv /\ [Next]_vars => ReaderInv'
  BY ReaderInvNext, ReaderInvStays
<1>2. ReaderInv => ReadsExactlyJson
  BY DEF ReaderInv
<1> QED
  BY <1>1, <1>2, ReaderInvInit, PTL DEF Spec

-----------------------------------------------------------------------------
(* The values that are written.                                            *)

ScalarValues    == [type : {"scalar"}, token : Strings \cup Scalars]
ArraysOf(V)     == [type : {"array"}, elements : Seq(V)]
ObjectsOf(V)    == [type : {"object"}, properties : Seq([name : Strings, value : V])]
ContainersOf(V) == ArraysOf(V) \cup ObjectsOf(V)

DepthAt(g, n) == ScalarValues \cup (IF n = 0 THEN {} ELSE ContainersOf(g[n - 1]))

DepthExists(n) == \E g : g = [k \in 0 .. n |-> DepthAt(g, k)]

LEMMA SomeDepth ==
  ASSUME NEW n \in Nat
  PROVE  DepthExists(n)
<1> DEFINE U == {p \in Nat : \E g : g = [k \in 0 .. p |-> DepthAt(g, k)]}
<1>1. 0 \in U
  <2> DEFINE g == [k \in 0 .. 0 |-> ScalarValues]
  <2>1. \A k \in 0 .. 0 : DepthAt(g, k) = ScalarValues
    BY DEF DepthAt
  <2>2. g = [k \in 0 .. 0 |-> DepthAt(g, k)]
    <3> DEFINE h == [k \in 0 .. 0 |-> DepthAt(g, k)]
    <3>1. \A k \in 0 .. 0 : h[k] = g[k]
      BY <2>1
    <3> QED
      BY <3>1
  <2> QED
    BY <2>2
<1>2. ASSUME NEW p \in 0 .. n - 1, p \in U
      PROVE  p + 1 \in U
  <2>1. PICK g : g = [k \in 0 .. p |-> DepthAt(g, k)]
    BY <1>2
  <2> DEFINE h == [k \in 0 .. p + 1 |->
                     IF k <= p THEN g[k] ELSE ScalarValues \cup ContainersOf(g[p])]
  <2>2. ASSUME NEW k \in 0 .. p + 1
        PROVE  h[k] = DepthAt(h, k)
    <3>1. CASE k <= p
      <4>1. k \in 0 .. p /\ h[k] = g[k] /\ g[k] = DepthAt(g, k)
        BY <2>1, <3>1
      <4>2. k # 0 => k - 1 \in 0 .. p + 1 /\ k - 1 <= p
        BY <3>1
      <4>3. k # 0 => h[k - 1] = g[k - 1]
        BY <4>2
      <4> HIDE DEF h
      <4> QED
        BY <4>1, <4>3 DEF DepthAt
    <3>2. CASE ~ (k <= p)
      <4>1. k = p + 1 /\ k # 0 /\ k - 1 = p /\ p \in 0 .. p + 1 /\ p <= p
        BY <3>2
      <4>2. h[k] = ScalarValues \cup ContainersOf(g[p]) /\ h[p] = g[p]
        BY <3>2, <4>1
      <4> HIDE DEF h
      <4> QED
        BY <4>1, <4>2 DEF DepthAt
    <3> QED
      BY <3>1, <3>2
  <2>3. h = [k \in 0 .. p + 1 |-> h[k]]
    OBVIOUS
  <2> HIDE DEF h
  <2>4. h = [k \in 0 .. p + 1 |-> DepthAt(h, k)]
    BY <2>2, <2>3
  <2>5. p + 1 \in Nat
    OBVIOUS
  <2> QED
    BY <2>4, <2>5
<1>3. n \in U
  <2> HIDE DEF U
  <2>1. \A k \in 0 .. n : k \in U
    BY <1>1, <1>2, InductionFrom
  <2> QED
    BY <2>1
<1> QED
  BY <1>3 DEF DepthExists

LEMMA DepthUnfolds ==
  \A k \in 0 .. MaxDepth : OfDepth[k] = DepthAt(OfDepth, k)
<1>0. MaxDepth \in Nat
  BY RootsAssumption
<1>1. PICK g : g = [k \in 0 .. MaxDepth |-> DepthAt(g, k)]
  <2>1. DepthExists(MaxDepth)
    BY <1>0, SomeDepth
  <2> QED
    BY <2>1 DEF DepthExists
<1>2. g = [n \in 0 .. MaxDepth |->
             [type : {"scalar"}, token : Strings \cup Scalars]
               \cup (IF n = 0 THEN {}
                     ELSE [type : {"array"}, elements : Seq(g[n - 1])]
                            \cup [type : {"object"},
                                  properties : Seq([name : Strings, value : g[n - 1]])])]
  BY <1>1, Zenon DEF DepthAt, ScalarValues, ContainersOf, ArraysOf, ObjectsOf
<1>3. OfDepth = [n \in 0 .. MaxDepth |->
             [type : {"scalar"}, token : Strings \cup Scalars]
               \cup (IF n = 0 THEN {}
                     ELSE [type : {"array"}, elements : Seq(OfDepth[n - 1])]
                            \cup [type : {"object"},
                                  properties : Seq([name : Strings, value : OfDepth[n - 1]])])]
  BY <1>2, Zenon DEF OfDepth
<1>4. OfDepth = [n \in 0 .. MaxDepth |-> DepthAt(OfDepth, n)]
  BY <1>3, Zenon DEF DepthAt, ScalarValues, ContainersOf, ArraysOf, ObjectsOf
<1> QED
  BY <1>4, Zenon

\* What is less deep is also among the deeper ones.
LEMMA ContainersGrow ==
  ASSUME NEW V, NEW W, V \subseteq W
  PROVE  ContainersOf(V) \subseteq ContainersOf(W)
<1>1. Seq(V) \subseteq Seq(W)
  BY ListsGrow
<1>2. [name : Strings, value : V] \subseteq [name : Strings, value : W]
  OBVIOUS
<1>3. Seq([name : Strings, value : V]) \subseteq Seq([name : Strings, value : W])
  BY <1>2, ListsGrow
<1>4. ArraysOf(V) \subseteq ArraysOf(W)
  BY <1>1 DEF ArraysOf
<1>5. ObjectsOf(V) \subseteq ObjectsOf(W)
  BY <1>3 DEF ObjectsOf
<1> QED
  BY <1>4, <1>5 DEF ContainersOf

LEMMA DepthsGrow ==
  \A k \in 1 .. MaxDepth : OfDepth[k - 1] \subseteq OfDepth[k]
<1>0. MaxDepth \in Nat
  BY RootsAssumption
<1> DEFINE U == {k \in 0 .. MaxDepth : k > 0 => OfDepth[k - 1] \subseteq OfDepth[k]}
<1>1. 0 \in U
  BY <1>0
<1>2. ASSUME NEW k \in 0 .. MaxDepth - 1, k \in U
      PROVE  k + 1 \in U
  <2>1. k \in 0 .. MaxDepth /\ k + 1 \in 0 .. MaxDepth /\ k + 1 - 1 = k /\ k + 1 # 0
    BY <1>0
  <2>2. OfDepth[k + 1] = ScalarValues \cup ContainersOf(OfDepth[k])
    BY <2>1, DepthUnfolds DEF DepthAt
  <2>3. OfDepth[k] = DepthAt(OfDepth, k)
    BY <2>1, DepthUnfolds
  <2>4. OfDepth[k] \subseteq OfDepth[k + 1]
    <3>1. CASE k = 0
      BY <2>2, <2>3, <3>1 DEF DepthAt
    <3>2. CASE k # 0
      <4>1. OfDepth[k - 1] \subseteq OfDepth[k]
        BY <1>2, <3>2
      <4>2. ContainersOf(OfDepth[k - 1]) \subseteq ContainersOf(OfDepth[k])
        BY <4>1, ContainersGrow
      <4> QED
        BY <2>2, <2>3, <3>2, <4>2 DEF DepthAt
    <3> QED
      BY <3>1, <3>2
  <2> QED
    BY <2>1, <2>4
<1> HIDE DEF U
<1>3. \A k \in 0 .. MaxDepth : k \in U
  BY <1>0, <1>1, <1>2, InductionFrom
<1>4. \A k \in 1 .. MaxDepth : k \in 0 .. MaxDepth /\ k > 0
  BY <1>0
<1> QED
  BY <1>3, <1>4 DEF U

\* Values of depth n have children of a lesser one.
LEMMA DepthIs ==
  ASSUME NEW n \in 0 .. MaxDepth, NEW v \in OfDepth[n]
  PROVE  \/ v \in ScalarValues
         \/ \E m \in 0 .. MaxDepth : m = n - 1 /\ v \in ContainersOf(OfDepth[m])
<1>1. MaxDepth \in Nat /\ OfDepth[n] = DepthAt(OfDepth, n)
  BY RootsAssumption, DepthUnfolds
<1>2. CASE n = 0
  BY <1>1, <1>2 DEF DepthAt
<1>3. CASE n # 0
  <2>1. n - 1 \in 0 .. MaxDepth
    BY <1>1, <1>3
  <2> QED
    BY <1>1, <1>3, <2>1 DEF DepthAt
<1> QED
  BY <1>2, <1>3

LEMMA WritableIs ==
  \A v \in Writable : v \in ScalarValues \/ v \in ContainersOf(Writable)
<1> SUFFICES ASSUME NEW v \in Writable, v \notin ScalarValues
             PROVE  v \in ContainersOf(Writable)
  OBVIOUS
<1>1. MaxDepth \in Nat /\ MaxDepth \in 0 .. MaxDepth
  BY RootsAssumption
<1>2. PICK m \in 0 .. MaxDepth : m = MaxDepth - 1 /\ v \in ContainersOf(OfDepth[m])
  BY <1>1, DepthIs DEF Writable
<1>3. MaxDepth \in 1 .. MaxDepth
  BY <1>1, <1>2
<1>4. OfDepth[m] \subseteq Writable
  BY <1>2, <1>3, DepthsGrow DEF Writable
<1> QED
  BY <1>2, <1>4, ContainersGrow

-----------------------------------------------------------------------------
(* What a value is when its objects are sorted.                            *)

\* The children of a value, and what they are read as.
ChildAt(v, j) == IF v.type = "object" THEN v.properties[j].value ELSE v.elements[j]
Many(v)       == IF v.type = "object" THEN Len(v.properties) ELSE Len(v.elements)

ImageAt(g, v, j) ==
  IF v.type = "object" THEN Property(v.properties[j].name, g[v.properties[j].value])
  ELSE g[v.elements[j]]

Images(g, v, c) == [j \in 1 .. c |-> ImageAt(g, v, j)]

NormalAt(g, v) ==
  CASE v.type = "object" ->
         Object(FirstOfEach([j \in 1 .. Len(v.properties) |->
                               Property(v.properties[j].name, g[v.properties[j].value])]))
    [] v.type = "array" ->
         Array([j \in 1 .. Len(v.elements) |-> g[v.elements[j]]])
    [] OTHER -> v

LEMMA NormalAtIs ==
  ASSUME NEW g, NEW v
  PROVE  /\ v.type = "object" => NormalAt(g, v) = Object(FirstOfEach(Images(g, v, Many(v))))
         /\ v.type = "array" => NormalAt(g, v) = Array(Images(g, v, Many(v)))
         /\ v.type # "object" /\ v.type # "array" => NormalAt(g, v) = v
<1>1. ASSUME v.type = "object"
      PROVE  NormalAt(g, v) = Object(FirstOfEach(Images(g, v, Many(v))))
  <2>1. NormalAt(g, v) = Object(FirstOfEach([j \in 1 .. Len(v.properties) |->
                               Property(v.properties[j].name, g[v.properties[j].value])]))
    BY <1>1 DEF NormalAt
  <2>2. Many(v) = Len(v.properties)
    BY <1>1 DEF Many
  <2>3. \A j : ImageAt(g, v, j) = Property(v.properties[j].name, g[v.properties[j].value])
    BY <1>1 DEF ImageAt
  <2>4. Images(g, v, Many(v)) = [j \in 1 .. Len(v.properties) |->
                               Property(v.properties[j].name, g[v.properties[j].value])]
    BY <2>2, <2>3, Zenon DEF Images
  <2> QED
    BY <2>1, <2>4, Zenon
<1>2. ASSUME v.type = "array"
      PROVE  NormalAt(g, v) = Array(Images(g, v, Many(v)))
  <2>1. NormalAt(g, v) = Array([j \in 1 .. Len(v.elements) |-> g[v.elements[j]]])
    BY <1>2 DEF NormalAt
  <2>2. Many(v) = Len(v.elements)
    BY <1>2 DEF Many
  <2>3. \A j : ImageAt(g, v, j) = g[v.elements[j]]
    BY <1>2 DEF ImageAt
  <2>4. Images(g, v, Many(v)) = [j \in 1 .. Len(v.elements) |-> g[v.elements[j]]]
    BY <2>2, <2>3, Zenon DEF Images
  <2> QED
    BY <2>1, <2>4, Zenon
<1>3. ASSUME v.type # "object", v.type # "array"
      PROVE  NormalAt(g, v) = v
  BY <1>3 DEF NormalAt
<1> QED
  BY <1>1, <1>2, <1>3

LEMMA ContainerIs ==
  ASSUME NEW V, NEW v \in ContainersOf(V)
  PROVE  /\ v.type \in {"object", "array"} /\ Many(v) \in Nat
         /\ v.type = "object" => v.properties \in Seq([name : Strings, value : V])
         /\ v.type = "array" => v.elements \in Seq(V)
         /\ \A j \in 1 .. Many(v) : ChildAt(v, j) \in V
<1>1. CASE v \in ArraysOf(V)
  <2>1. v.type = "array" /\ v.elements \in Seq(V)
    BY <1>1 DEF ArraysOf
  <2>2. PICK e \in Seq(V) : e = v.elements
    BY <2>1
  <2>3. Len(e) \in Nat /\ \A j \in 1 .. Len(e) : e[j] \in V
    OBVIOUS
  <2> QED
    BY <2>1, <2>2, <2>3 DEF Many, ChildAt
<1>2. CASE v \in ObjectsOf(V)
  <2>1. v.type = "object" /\ v.properties \in Seq([name : Strings, value : V])
    BY <1>2 DEF ObjectsOf
  <2> DEFINE W == [name : Strings, value : V]
  <2>a. \A w \in W : w.value \in V
    OBVIOUS
  <2>b. v.properties \in Seq(W)
    BY <2>1
  <2> HIDE DEF W
  <2>2. PICK e \in Seq(W) : e = v.properties
    BY <2>b
  <2>3. Len(e) \in Nat /\ \A j \in 1 .. Len(e) : e[j] \in W
    OBVIOUS
  <2>4. \A j \in 1 .. Len(e) : e[j].value \in V
    BY <2>a, <2>3
  <2>5. Many(v) = Len(e) /\ \A j : ChildAt(v, j) = e[j].value
    BY <2>1, <2>2 DEF Many, ChildAt
  <2>6. Many(v) \in Nat /\ \A j \in 1 .. Many(v) : ChildAt(v, j) \in V
    BY <2>3, <2>4, <2>5
  <2> QED
    BY <2>1, <2>6
<1> QED
  BY <1>1, <1>2 DEF ContainersOf

LEMMA ScalarValueIs ==
  ASSUME NEW v \in ScalarValues
  PROVE  v.type = "scalar" /\ v.token \in Strings \cup Scalars /\ v = Scalar(v.token)
BY DEF ScalarValues, Scalar

SameOn(g, h, V) == \A v \in V : h[v] = g[v]

LEMMA ImagesSame ==
  ASSUME NEW g, NEW h, NEW V, SameOn(g, h, V), NEW v, NEW c,
         \A j \in 1 .. c : ChildAt(v, j) \in V
  PROVE  Images(h, v, c) = Images(g, v, c)
<1>1. \A j \in 1 .. c : ImageAt(h, v, j) = ImageAt(g, v, j)
  BY DEF ImageAt, ChildAt, SameOn
<1> QED
  BY <1>1, Zenon DEF Images

LEMMA NormalAtSame ==
  ASSUME NEW g, NEW h, NEW V, SameOn(g, h, V), NEW v, v \in ScalarValues \/ v \in ContainersOf(V)
  PROVE  NormalAt(h, v) = NormalAt(g, v)
<1>1. CASE v \in ScalarValues
  <2>1. v.type # "object" /\ v.type # "array"
    BY <1>1, ScalarValueIs
  <2> QED
    BY <2>1, NormalAtIs
<1>2. CASE v \in ContainersOf(V)
  <2>0. \A j \in 1 .. Many(v) : ChildAt(v, j) \in V
    BY <1>2, ContainerIs
  <2>1. Images(h, v, Many(v)) = Images(g, v, Many(v))
    <3>1. PICK c : c = Many(v)
      OBVIOUS
    <3>2. \A j \in 1 .. c : ChildAt(v, j) \in V
      BY <2>0, <3>1
    <3>3. Images(h, v, c) = Images(g, v, c)
      BY <3>2, ImagesSame
    <3> QED
      BY <3>1, <3>3
  <2> QED
    BY <2>1, NormalAtIs
<1> QED
  BY <1>1, <1>2

NormalOn(V) == \E g : g = [v \in V |-> NormalAt(g, v)]

LEMMA NormalDeeper ==
  ASSUME NEW V, NEW W, V \subseteq W, NormalOn(V),
         \A v \in V : v \in ScalarValues \/ v \in ContainersOf(V),
         \A v \in W : v \in ScalarValues \/ v \in ContainersOf(V)
  PROVE  NormalOn(W)
<1>1. PICK g : g = [v \in V |-> NormalAt(g, v)]
  BY DEF NormalOn
<1> DEFINE h == [v \in W |-> NormalAt(g, v)]
<1>2. \A v \in V : g[v] = NormalAt(g, v)
  BY <1>1
<1>3. SameOn(g, h, V)
  BY <1>2 DEF SameOn
<1>4. \A v \in W : h[v] = NormalAt(g, v)
  OBVIOUS
<1>5. h = [v \in W |-> h[v]]
  OBVIOUS
<1> HIDE DEF h
<1>6. \A v \in W : NormalAt(h, v) = NormalAt(g, v)
  BY <1>3, NormalAtSame
<1>7. \A v \in W : h[v] = NormalAt(h, v)
  BY <1>4, <1>6
<1>8. h = [v \in W |-> NormalAt(h, v)]
  BY <1>5, <1>7, Zenon
<1> QED
  BY <1>8, Zenon DEF NormalOn

LEMMA NormalExists ==
  NormalOn(Writable)
<1>0. MaxDepth \in Nat
  BY RootsAssumption
<1> DEFINE U == {k \in 0 .. MaxDepth : NormalOn(OfDepth[k])}
<1>1. 0 \in U
  <2>1. 0 \in 0 .. MaxDepth /\ OfDepth[0] = ScalarValues
    BY <1>0, DepthUnfolds DEF DepthAt
  <2> DEFINE g == [v \in ScalarValues |-> v]
  <2>2. \A v \in ScalarValues : NormalAt(g, v) = v
    <3> HIDE DEF g
    <3> QED
      BY ScalarValueIs, NormalAtIs
  <2>3. \A v \in ScalarValues : g[v] = NormalAt(g, v)
    BY <2>2
  <2>4. g = [v \in ScalarValues |-> g[v]]
    OBVIOUS
  <2> HIDE DEF g
  <2>5. g = [v \in ScalarValues |-> NormalAt(g, v)]
    BY <2>3, <2>4, Zenon
  <2>6. NormalOn(ScalarValues)
    BY <2>5, Zenon DEF NormalOn
  <2> QED
    BY <2>1, <2>6
<1>2. ASSUME NEW k \in 0 .. MaxDepth - 1, k \in U
      PROVE  k + 1 \in U
  <2>1. PICK n \in 1 .. MaxDepth : /\ n = k + 1 /\ n - 1 = k
                                   /\ n \in 0 .. MaxDepth /\ k \in 0 .. MaxDepth
    BY <1>0
  <2>2. OfDepth[k] \subseteq OfDepth[n]
    BY <2>1, DepthsGrow
  <2>3. \A v \in OfDepth[n] : v \in ScalarValues \/ v \in ContainersOf(OfDepth[k])
    BY <2>1, DepthIs
  <2>4. \A v \in OfDepth[k] : v \in ScalarValues \/ v \in ContainersOf(OfDepth[k])
    BY <2>2, <2>3
  <2>5. NormalOn(OfDepth[k])
    BY <1>2
  <2>6. NormalOn(OfDepth[n])
    BY <2>2, <2>3, <2>4, <2>5, NormalDeeper
  <2> QED
    BY <2>1, <2>6
<1> HIDE DEF U
<1>3. \A k \in 0 .. MaxDepth : k \in U
  BY <1>0, <1>1, <1>2, InductionFrom
<1>4. MaxDepth \in U
  BY <1>0, <1>3
<1> QED
  BY <1>4 DEF U, Writable

LEMMA NormalUnfolds ==
  \A v \in Writable : Normal[v] = NormalAt(Normal, v)
<1>1. PICK g : g = [v \in Writable |-> NormalAt(g, v)]
  BY NormalExists DEF NormalOn
<1>2. g = [v \in Writable |->
             CASE v.type = "object" ->
                    Object(FirstOfEach([j \in 1 .. Len(v.properties) |->
                              Property(v.properties[j].name, g[v.properties[j].value])]))
               [] v.type = "array" ->
                    Array([j \in 1 .. Len(v.elements) |-> g[v.elements[j]]])
               [] OTHER -> v]
  BY <1>1, Zenon DEF NormalAt
<1>3. Normal = [v \in Writable |->
             CASE v.type = "object" ->
                    Object(FirstOfEach([j \in 1 .. Len(v.properties) |->
                              Property(v.properties[j].name, Normal[v.properties[j].value])]))
               [] v.type = "array" ->
                    Array([j \in 1 .. Len(v.elements) |-> Normal[v.elements[j]]])
               [] OTHER -> v]
  BY <1>2, Zenon DEF Normal
<1>4. Normal = [v \in Writable |-> NormalAt(Normal, v)]
  BY <1>3, Zenon DEF NormalAt
<1> QED
  BY <1>4, Zenon

-----------------------------------------------------------------------------
(* What a value that is written is read as.                                *)

ReadAs(asIs) == [v \in Writable |-> IF asIs THEN v ELSE Normal[v]]

LEMMA ReadAsIs ==
  \A v \in Writable : /\ ReadAs(TRUE)[v] = v
                      /\ ReadAs(FALSE)[v] = Normal[v]
BY DEF ReadAs

LEMMA ScalarReadAs ==
  ASSUME NEW v \in Writable, v \in ScalarValues, NEW asIs \in BOOLEAN
  PROVE  ReadAs(asIs)[v] = Scalar(v.token)
<1>1. v.type # "object" /\ v.type # "array" /\ v = Scalar(v.token)
  BY ScalarValueIs
<1>2. Normal[v] = v
  BY <1>1, NormalUnfolds, NormalAtIs
<1>3. ReadAs(asIs)[v] = v
  BY <1>2 DEF ReadAs
<1> QED
  BY <1>1, <1>3

LEMMA ImagesAre ==
  ASSUME NEW g, NEW v, NEW c \in Nat
  PROVE  /\ Len(Images(g, v, c)) = c /\ IsList(Images(g, v, c))
         /\ \A j \in 1 .. c : Images(g, v, c)[j] = ImageAt(g, v, j)
<1>1. Images(g, v, c) \in Seq({ImageAt(g, v, j) : j \in 1 .. c})
  BY DEF Images
<1>2. Len(Images(g, v, c)) = c
  BY DEF Images
<1>3. \A j \in 1 .. c : Images(g, v, c)[j] = ImageAt(g, v, j)
  BY DEF Images
<1> QED
  BY <1>1, <1>2, <1>3, Zenon DEF IsList

LEMMA ImagesGrow ==
  ASSUME NEW g, NEW v, NEW c \in Nat
  PROVE  Images(g, v, c + 1) = Images(g, v, c) \o <<ImageAt(g, v, c + 1)>>
<1> DEFINE X == {ImageAt(g, v, j) : j \in 1 .. c + 1}
<1>1. Images(g, v, c + 1) \in Seq(X) /\ Images(g, v, c) \in Seq(X)
  BY DEF Images
<1>2. PICK s : s = Images(g, v, c)
  OBVIOUS
<1>3. PICK t : t = Images(g, v, c + 1)
  OBVIOUS
<1>4. c + 1 \in Nat /\ c + 1 \in 1 .. c + 1
  OBVIOUS
<1>5. PICK x : x = ImageAt(g, v, c + 1)
  OBVIOUS
<1>6. x \in X
  BY <1>4, <1>5
<1> HIDE DEF X
<1>7. s \in Seq(X) /\ t \in Seq(X) /\ Len(s) = c /\ Len(t) = c + 1 /\ t[c + 1] = x
      /\ \A j \in 1 .. c : t[j] = s[j]
  BY <1>1, <1>2, <1>3, <1>4, <1>5, ImagesAre
<1>8. t = s \o <<x>>
  BY <1>6, <1>7
<1> QED
  BY <1>2, <1>3, <1>5, <1>8

LEMMA NoImages ==
  ASSUME NEW g, NEW v
  PROVE  Images(g, v, 0) = <<>>
BY DEF Images

\* As they are, they stay the same.
LEMMA ImagesAsIs ==
  ASSUME NEW v \in ContainersOf(Writable)
  PROVE  /\ v.type = "object" => v = Object(Images(ReadAs(TRUE), v, Many(v)))
         /\ v.type = "array" => v = Array(Images(ReadAs(TRUE), v, Many(v)))
<1>1. CASE v \in ArraysOf(Writable)
  <2>1. v.type = "array" /\ v.elements \in Seq(Writable) /\ v = Array(v.elements)
    BY <1>1 DEF ArraysOf, Array
  <2>2. PICK e \in Seq(Writable) : e = v.elements
    BY <2>1
  <2>3. Len(e) \in Nat /\ e = [j \in 1 .. Len(e) |-> e[j]] /\ \A j \in 1 .. Len(e) : e[j] \in Writable
    OBVIOUS
  <2>4. Many(v) = Len(e) /\ \A j \in 1 .. Len(e) : ImageAt(ReadAs(TRUE), v, j) = e[j]
    BY <2>1, <2>2, <2>3, ReadAsIs DEF Many, ImageAt
  <2>5. Images(ReadAs(TRUE), v, Len(e)) = e
    BY <2>3, <2>4 DEF Images
  <2> QED
    BY <2>1, <2>2, <2>4, <2>5
<1>2. CASE v \in ObjectsOf(Writable)
  <2> DEFINE W == [name : Strings, value : Writable]
  <2>a. \A w \in W : w.value \in Writable /\ w = Property(w.name, w.value)
    BY DEF Property
  <2>1. v.type = "object" /\ v.properties \in Seq(W) /\ v = Object(v.properties)
    BY <1>2 DEF ObjectsOf, Object
  <2> HIDE DEF W
  <2>2. PICK e \in Seq(W) : e = v.properties
    BY <2>1
  <2>3. Len(e) \in Nat /\ e = [j \in 1 .. Len(e) |-> e[j]] /\ \A j \in 1 .. Len(e) : e[j] \in W
    OBVIOUS
  <2>b. \A j \in 1 .. Len(e) : Property(e[j].name, ReadAs(TRUE)[e[j].value]) = e[j]
    <3>1. \A w \in W : Property(w.name, ReadAs(TRUE)[w.value]) = w
      BY <2>a, ReadAsIs
    <3> QED
      BY <2>3, <3>1
  <2>c. Many(v) = Len(e)
        /\ \A j : ImageAt(ReadAs(TRUE), v, j) = Property(e[j].name, ReadAs(TRUE)[e[j].value])
    BY <2>1, <2>2 DEF Many, ImageAt
  <2>4. Many(v) = Len(e) /\ \A j \in 1 .. Len(e) : ImageAt(ReadAs(TRUE), v, j) = e[j]
    BY <2>b, <2>c
  <2>5. Images(ReadAs(TRUE), v, Len(e)) = e
    BY <2>3, <2>4 DEF Images
  <2> QED
    BY <2>1, <2>2, <2>4, <2>5
<1> QED
  BY <1>1, <1>2 DEF ContainersOf

LEMMA ContainerReadAs ==
  ASSUME NEW v \in Writable, v \in ContainersOf(Writable), NEW G, G.asIs \in BOOLEAN
  PROVE  Means(G, Writer!Open(v), Images(ReadAs(G.asIs), v, Many(v))) = ReadAs(G.asIs)[v]
<1>0. v.type \in {"object", "array"} /\ \A j \in 1 .. Many(v) : ChildAt(v, j) \in Writable
  BY ContainerIs
<1>1. /\ v.type = "object" => Writer!Open(v) = "{"
      /\ v.type = "array" => Writer!Open(v) = "["
  BY DEF Writer!Open
<1>2. CASE G.asIs = TRUE
  <2>1. \A l : Means(G, "{", l) = Object(l) /\ Means(G, "[", l) = Array(l)
    BY <1>2 DEF Means, Container
  <2>2. ReadAs(TRUE)[v] = v
    BY ReadAsIs
  <2>3. CASE v.type = "object"
    BY <1>1, <1>2, <2>1, <2>2, <2>3, ImagesAsIs
  <2>4. CASE v.type = "array"
    BY <1>1, <1>2, <2>1, <2>2, <2>4, ImagesAsIs
  <2> QED
    BY <1>0, <2>3, <2>4
<1>3. CASE G.asIs = FALSE
  <2>1. \A l : Means(G, "{", l) = Object(FirstOfEach(l)) /\ Means(G, "[", l) = Array(l)
    BY <1>3 DEF Means, Container
  <2>2. SameOn(Normal, ReadAs(FALSE), Writable)
    BY ReadAsIs DEF SameOn
  <2>3. Images(ReadAs(FALSE), v, Many(v)) = Images(Normal, v, Many(v))
    <3>1. PICK c : c = Many(v)
      OBVIOUS
    <3>2. \A j \in 1 .. c : ChildAt(v, j) \in Writable
      BY <1>0, <3>1
    <3>3. PICK r : r = ReadAs(FALSE)
      OBVIOUS
    <3>4. PICK n : n = Normal
      OBVIOUS
    <3>5. PICK V : V = Writable
      OBVIOUS
    <3>6. SameOn(n, r, V) /\ \A j \in 1 .. c : ChildAt(v, j) \in V
      BY <2>2, <3>2, <3>3, <3>4, <3>5
    <3> HIDE <3>3, <3>4, <3>5
    <3>7. Images(r, v, c) = Images(n, v, c)
      BY <3>6, ImagesSame
    <3> QED
      BY <3>1, <3>3, <3>4, <3>7
  <2>4. Normal[v] = NormalAt(Normal, v) /\ ReadAs(FALSE)[v] = Normal[v]
    BY NormalUnfolds, ReadAsIs
  <2>5. ReadAs(G.asIs) = ReadAs(FALSE)
    BY <1>3
  <2>6. CASE v.type = "object"
    <3>1. Normal[v] = Object(FirstOfEach(Images(Normal, v, Many(v))))
      BY <2>4, <2>6, NormalAtIs, Zenon
    <3> QED
      BY <1>1, <2>1, <2>3, <2>4, <2>5, <2>6, <3>1
  <2>7. CASE v.type = "array"
    <3>1. Normal[v] = Array(Images(Normal, v, Many(v)))
      BY <2>4, <2>7, NormalAtIs, Zenon
    <3> QED
      BY <1>1, <2>1, <2>3, <2>4, <2>5, <2>7, <3>1
  <2> QED
    BY <1>0, <2>6, <2>7
<1> QED
  BY <1>2, <1>3

-----------------------------------------------------------------------------
(* What the text means when a token is next that the writer writes.        *)

LEMMA ScalarNext ==
  ASSUME NEW G, Lawful(G), NEW M, NEW fs, NEW depth, NEW k \in 0 .. Len(G.text),
         Awaits(G, M, fs, depth, k), NEW t \in Strings \cup Scalars, Next1(G, k, t)
  PROVE  Knows(G, M, fs, depth, k - 1, Scalar(t))
BY ScalarIsNext DEF Awaits, Knows

OpensFor(G, M, fs, depth, open, d, k) == \A v : v \in M <=> Opens(G, fs, depth, open, d, k, v)

LEMMA OpenNext ==
  ASSUME NEW G, Lawful(G), NEW M, NEW fs, NEW depth, NEW k \in 0 .. Len(G.text),
         Awaits(G, M, fs, depth, k), NEW open \in Brackets, Next1(G, k, open)
  PROVE  OpensFor(G, M, fs, depth, open, <<>>, k - 1)
BY BracketIsNext DEF Awaits, OpensFor

LEMMA EmptyNext ==
  ASSUME NEW G, Lawful(G), NEW M, NEW fs, NEW depth \in Nat, NEW open \in Brackets, NEW k,
         OpensFor(G, M, fs, depth, open, <<>>, k), Next1(G, k, Closing(open))
  PROVE  Knows(G, M, fs, depth, k - 1, Means(G, open, <<>>))
<1> SUFFICES ASSUME NEW v
             PROVE  Opens(G, fs, depth, open, <<>>, k, v) <=>
                      Leads(G, fs, depth, <<k - 1, Means(G, open, <<>>)>>, v)
  BY DEF OpensFor, Knows
<1>0. IsList(<<>>)
  BY DEF IsList
<1>1. CASE open = "{"
  <2>1. Next1(G, k, "}")
    BY <1>1 DEF Closing
  <2> QED
    BY <1>0, <1>1, <2>1, ClosingIsNoName, NoNameIsNext
<1>2. CASE open = "["
  <2>1. Next1(G, k, "]")
    BY <1>2 DEF Closing
  <2>f. PICK f : f.open = "[" /\ f.done = <<>>
    <3> WITNESS [open |-> "[", done |-> <<>>]
    <3> QED
      OBVIOUS
  <2> DEFINE gs == [i \in 1 .. depth + 1 |-> IF i = depth + 1 THEN f ELSE fs[i]]
  <2>a. \A i \in 1 .. depth : gs[i] = fs[i]
    OBVIOUS
  <2>b. gs[depth + 1] = f
    OBVIOUS
  <2>2. /\ \A i \in 1 .. depth : gs[i] = fs[i]
        /\ gs[depth + 1].open = "[" /\ gs[depth + 1].done = <<>>
    <3> HIDE DEF gs
    <3> QED
      BY <2>f, <2>a, <2>b
  <2> HIDE DEF gs
  <2>3. Opens(G, fs, depth, "[", <<>>, k, v) <=> Opens(G, gs, depth, "[", <<>>, k, v)
    BY <2>2, OpensSame
  <2>4. Opens(G, gs, depth, "[", <<>>, k, v) <=> Expects(G, gs, depth + 1, k, v)
    BY <1>0, <2>2, ArrayGoesOn
  <2>5. Expects(G, gs, depth + 1, k, v) <=> Ends(G, gs, depth + 1, k, v)
    BY <2>1, EndIsNoValue
  <2>6. depth + 1 > 0 /\ depth + 1 - 1 = depth
    OBVIOUS
  <2>7. Ends(G, gs, depth + 1, k, v) <=> Leads(G, gs, depth, <<k - 1, Means(G, "[", <<>>)>>, v)
    BY <2>1, <2>2, <2>6 DEF Ends, InArray
  <2>8. Leads(G, gs, depth, <<k - 1, Means(G, "[", <<>>)>>, v)
          <=> Leads(G, fs, depth, <<k - 1, Means(G, "[", <<>>)>>, v)
    BY <2>2, LeadsSame
  <2> QED
    BY <1>2, <2>3, <2>4, <2>5, <2>7, <2>8
<1> QED
  BY <1>1, <1>2 DEF Brackets

LEMMA ChildNext ==
  ASSUME NEW G, Lawful(G), NEW M, NEW fs, NEW gs, NEW depth \in Nat,
         \A i \in 1 .. depth : gs[i] = fs[i],
         NEW open \in Brackets, NEW d, IsList(d), NEW id, FrameIs(gs[depth + 1], open, d, id),
         NEW k \in 0 .. Len(G.text), OpensFor(G, M, fs, depth, open, d, k)
  PROVE  /\ open = "[" => Awaits(G, M, gs, depth + 1, k)
         /\ open = "{" /\ id \in Strings /\ Next1(G, k, id) /\ Next1(G, k - 1, ":") =>
              Awaits(G, M, gs, depth + 1, k - 2)
<1>1. \A v : v \in M <=> Opens(G, gs, depth, open, d, k, v)
  BY OpensSame DEF OpensFor
<1>2. ASSUME open = "["
      PROVE  Awaits(G, M, gs, depth + 1, k)
  <2>1. gs[depth + 1].open = "[" /\ gs[depth + 1].done = d
    BY <1>2 DEF FrameIs
  <2> QED
    BY <1>1, <1>2, <2>1, ArrayGoesOn DEF Awaits
<1>3. ASSUME open = "{", id \in Strings, Next1(G, k, id), Next1(G, k - 1, ":")
      PROVE  Awaits(G, M, gs, depth + 1, k - 2)
  BY <1>1, <1>3, NameIsNext DEF Awaits
<1> QED
  BY <1>2, <1>3

LEMMA AfterChildNext ==
  ASSUME NEW G, Lawful(G), NEW M, NEW fs, NEW depth \in Nat,
         NEW open \in Brackets, NEW d, IsList(d), NEW id, FrameIs(fs[depth + 1], open, d, id),
         NEW k, NEW x, Knows(G, M, fs, depth + 1, k, x),
         NEW more, more = d \o <<OneOf(fs[depth + 1], x)>>
  PROVE  /\ Next1(G, k, ",") => OpensFor(G, M, fs, depth, open, more, k - 1)
         /\ Next1(G, k, Closing(open)) => Knows(G, M, fs, depth, k - 1, Means(G, open, more))
<1>1. fs[depth + 1].open = open /\ fs[depth + 1].done = d
  BY DEF FrameIs
<1>2. \A v : v \in M <=>
               \/ /\ Next1(G, k, Closing(open))
                  /\ Leads(G, fs, depth, <<k - 1, Means(G, open, more)>>, v)
               \/ Next1(G, k, ",") /\ Opens(G, fs, depth, open, more, k - 1, v)
  BY <1>1, OneIsDone DEF Knows
<1>3. ~ (Next1(G, k, ",") /\ Next1(G, k, Closing(open)))
  BY OneIsNext DEF Closing
<1> QED
  BY <1>2, <1>3 DEF OpensFor, Knows

LEMMA NothingNext ==
  ASSUME NEW G, NEW M, NEW fs, NEW x, Knows(G, M, fs, 0, 0, x)
  PROVE  \A v : v \in M <=> v = x
<1>1. \A v : v \in M <=> <<0, x>> = <<0, v>>
  BY LeadsAtTop DEF Knows
<1> QED
  BY <1>1

-----------------------------------------------------------------------------
(* A text that begins with what has been written.                          *)

TextAfter(out, ts, z, G) ==
  /\ ts \o z \in Seq(Tokens) /\ Len(ts \o z) = Len(ts) + Len(z)
  /\ (out \o ts) \o z = out \o (ts \o z)
  /\ Lawful(G) /\ Len(ts) + Len(z) \in 0 .. Len(G.text)
  /\ \A j \in 1 .. Len(ts) : Next1(G, Len(ts) + Len(z) - j + 1, ts[j])

LEMMA TextAhead ==
  ASSUME NEW out \in Seq(Tokens), NEW ts \in Seq(Tokens), NEW z \in Seq(Tokens),
         NEW trailing, NEW asIs, NEW G, G = GrammarOf((out \o ts) \o z, trailing, asIs)
  PROVE  TextAfter(out, ts, z, G)
<1>1. PICK x : x = (out \o ts) \o z
  OBVIOUS
<1>2. /\ ts \o z \in Seq(Tokens) /\ Len(ts \o z) = Len(ts) + Len(z)
      /\ (out \o ts) \o z = out \o (ts \o z)
  OBVIOUS
<1>3. /\ x \in Seq(Tokens) /\ Len(x) = Len(out) + Len(ts) + Len(z)
      /\ \A j \in 1 .. Len(ts) : x[Len(out) + j] = ts[j]
  BY <1>1
<1>4. Len(x) \in Nat /\ Len(out) \in Nat /\ Len(ts) \in Nat /\ Len(z) \in Nat
  BY <1>3
<1>5. G.text = x /\ G.parts = Parts(x, trailing, asIs) /\ G.trailing = trailing /\ G.asIs = asIs
  BY <1>1 DEF GrammarOf
<1>6. Lawful(G)
  BY <1>4, <1>5, GrammarUnfolds DEF Lawful
<1>7. ASSUME NEW j \in 1 .. Len(ts)
      PROVE  Next1(G, Len(ts) + Len(z) - j + 1, ts[j])
  <2>1. Len(ts) + Len(z) - j + 1 > 0
        /\ Len(x) - (Len(ts) + Len(z) - j + 1) + 1 = Len(out) + j
    BY <1>3, <1>4
  <2> QED
    BY <1>3, <1>5, <2>1 DEF Next1, NextIs
<1>8. Len(ts) + Len(z) \in 0 .. Len(G.text)
  BY <1>3, <1>4, <1>5
<1> QED
  BY <1>2, <1>6, <1>7, <1>8 DEF TextAfter

-----------------------------------------------------------------------------
(* The sources of the writer.                                              *)

SourceAt(v, i) == [value |-> v, index |-> i]

SourceSet == [value : Writable, index : Int]

\* A source whose child w is being written.
InChild(s, w) ==
  /\ s.value \in ContainersOf(Writable) /\ s.index \in 0 .. Many(s.value) - 1
  /\ ChildAt(s.value, s.index + 1) = w

SourcesOK(so) ==
  /\ so \in Seq(SourceSet) /\ Len(so) \in Nat \ {0} /\ so[1].value = root
  /\ \A i \in 1 .. Len(so) - 1 : InChild(so[i], so[i + 1].value)

SameBelow(so, other, n) == \A i \in 1 .. n : so[i] = other[i]

LEMMA SourceIs ==
  ASSUME NEW v \in Writable, NEW i \in Int
  PROVE  SourceAt(v, i) \in SourceSet /\ SourceAt(v, i).value = v /\ SourceAt(v, i).index = i
BY DEF SourceAt, SourceSet

LEMMA SourceMoved ==
  ASSUME NEW s \in SourceSet, NEW i
  PROVE  [s EXCEPT !.index = i] = SourceAt(s.value, i) /\ s.value \in Writable /\ s.index \in Int
BY DEF SourceAt, SourceSet

LEMMA TopSource ==
  ASSUME NEW so, SourcesOK(so)
  PROVE  /\ Len(so) \in 1 .. Len(so) /\ Top(so) = so[Len(so)] /\ Len(so) - 1 \in Nat
         /\ Top(so) \in SourceSet /\ Top(so).value \in Writable /\ Top(so).index \in Int
<1>1. so \in Seq(SourceSet) /\ Len(so) \in Nat \ {0}
  BY DEF SourcesOK
<1>2. Len(so) \in 1 .. Len(so) /\ Len(so) - 1 \in Nat
  BY <1>1
<1>3. Top(so) = so[Len(so)]
  BY DEF Top
<1>4. so[Len(so)] \in SourceSet
  BY <1>1, <1>2
<1>5. \A s \in SourceSet : s.value \in Writable /\ s.index \in Int
  BY DEF SourceSet
<1> QED
  BY <1>2, <1>3, <1>4, <1>5

HasPopped(so, b) ==
  /\ SourcesOK(b) /\ Len(b) = Len(so) - 1 /\ SameBelow(b, so, Len(b))
  /\ InChild(Top(b), Top(so).value)

LEMMA SourcesPopped ==
  ASSUME NEW so, SourcesOK(so), Len(so) > 1, NEW b, b = Popped(so)
  PROVE  HasPopped(so, b)
<1>1. so \in Seq(SourceSet) /\ Len(so) \in Nat
  BY DEF SourcesOK
<1>2. b \in Seq(SourceSet) /\ Len(b) = Len(so) - 1 /\ \A i \in 1 .. Len(b) : b[i] = so[i]
  BY <1>1 DEF Popped
<1>3. Len(b) \in Nat \ {0} /\ 1 \in 1 .. Len(b)
  BY <1>1, <1>2
<1>4. b[1].value = root
  BY <1>2, <1>3 DEF SourcesOK
<1>5. ASSUME NEW i \in 1 .. Len(b) - 1
      PROVE  InChild(b[i], b[i + 1].value)
  <2>1. i \in 1 .. Len(b) /\ i + 1 \in 1 .. Len(b) /\ i \in 1 .. Len(so) - 1
    BY <1>2, <1>3
  <2> QED
    BY <1>2, <2>1 DEF SourcesOK
<1>6. InChild(Top(b), Top(so).value)
  <2>1. Len(b) \in 1 .. Len(b) /\ Len(b) \in 1 .. Len(so) - 1 /\ Len(b) + 1 = Len(so)
    BY <1>1, <1>2, <1>3
  <2>2. Top(b) = so[Len(b)] /\ Top(so) = so[Len(b) + 1]
    BY <1>2, <2>1 DEF Top
  <2> QED
    BY <2>1, <2>2 DEF SourcesOK
<1> QED
  BY <1>2, <1>3, <1>4, <1>5, <1>6 DEF HasPopped, SourcesOK, SameBelow

HasTopped(b, so, s) ==
  /\ SourcesOK(so) /\ Len(so) = Len(b) /\ SameBelow(so, b, Len(b) - 1)
  /\ so[Len(b)] = s

LEMMA SourcesTopped ==
  ASSUME NEW b, SourcesOK(b), NEW s \in SourceSet, s.value = Top(b).value,
         NEW so, so = Replaced(b, Len(b), s)
  PROVE  HasTopped(b, so, s)
<1>1. b \in Seq(SourceSet) /\ Len(b) \in Nat \ {0} /\ Len(b) \in 1 .. Len(b)
  BY DEF SourcesOK
<1>2. so \in Seq(SourceSet) /\ ReplacesAt(so, b, Len(b), s)
  BY <1>1, SeqReplaced
<1>3. Len(so) = Len(b) /\ so[Len(b)] = s /\ \A i \in 1 .. Len(b) : i # Len(b) => so[i] = b[i]
  BY <1>2 DEF ReplacesAt
<1>4. so[Len(b)].value = b[Len(b)].value
  BY <1>3 DEF Top
<1>5. \A i \in 1 .. Len(b) : so[i].value = b[i].value
  BY <1>3, <1>4
<1>6. so[1].value = root
  BY <1>1, <1>5 DEF SourcesOK
<1>7. ASSUME NEW i \in 1 .. Len(so) - 1
      PROVE  InChild(so[i], so[i + 1].value)
  <2>1. i \in 1 .. Len(b) /\ i + 1 \in 1 .. Len(b) /\ i \in 1 .. Len(b) - 1 /\ i # Len(b)
    BY <1>1, <1>3
  <2>2. so[i] = b[i] /\ so[i + 1].value = b[i + 1].value
    BY <1>3, <1>5, <2>1
  <2> QED
    BY <2>1, <2>2 DEF SourcesOK
<1>8. SameBelow(so, b, Len(b) - 1)
  BY <1>1, <1>3 DEF SameBelow
<1> QED
  BY <1>1, <1>2, <1>3, <1>6, <1>7, <1>8 DEF HasTopped, SourcesOK

HasPushed(b, so, s, w) ==
  /\ SourcesOK(so) /\ Len(so) = Len(b) + 1 /\ SameBelow(so, b, Len(b) - 1)
  /\ so[Len(b)] = s /\ Top(so) = SourceAt(w, -1)

LEMMA SourcesPushed ==
  ASSUME NEW b, SourcesOK(b), NEW s \in SourceSet, s.value = Top(b).value,
         NEW w, InChild(s, w),
         NEW so, so = Extended(Replaced(b, Len(b), s), SourceAt(w, -1))
  PROVE  HasPushed(b, so, s, w)
<1>1. PICK t : t = Replaced(b, Len(b), s)
  OBVIOUS
<1>2. HasTopped(b, t, s)
  BY <1>1, SourcesTopped
<1>3. SourcesOK(t) /\ Len(t) = Len(b) /\ SameBelow(t, b, Len(b) - 1) /\ t[Len(b)] = s
  BY <1>2 DEF HasTopped
<1>4. w \in Writable
  <2>1. s.value \in ContainersOf(Writable) /\ s.index \in 0 .. Many(s.value) - 1
        /\ ChildAt(s.value, s.index + 1) = w
    BY DEF InChild
  <2>2. PICK v, c : v = s.value /\ c = Many(s.value)
    OBVIOUS
  <2>3. c \in Nat /\ \A j \in 1 .. c : ChildAt(v, j) \in Writable
    BY <2>1, <2>2, ContainerIs
  <2>4. s.index + 1 \in 1 .. c
    BY <2>1, <2>2, <2>3
  <2> QED
    BY <2>1, <2>2, <2>3, <2>4
<1>5. PICK x : x = SourceAt(w, -1)
  OBVIOUS
<1>6. x \in SourceSet /\ x.value = w
  BY <1>4, <1>5, SourceIs
<1>7. t \in Seq(SourceSet) /\ Len(t) \in Nat \ {0} /\ t[1].value = root
  BY <1>3 DEF SourcesOK
<1>8. so \in Seq(SourceSet) /\ ExtendsBy(so, t, x)
  BY <1>1, <1>5, <1>6, <1>7, SeqExtended
<1>9. Len(so) = Len(t) + 1 /\ so[Len(t) + 1] = x /\ \A i \in 1 .. Len(t) : so[i] = t[i]
  BY <1>8 DEF ExtendsBy
<1>10. ASSUME NEW i \in 1 .. Len(so) - 1
       PROVE  InChild(so[i], so[i + 1].value)
  <2>1. i \in 1 .. Len(t)
    BY <1>7, <1>9
  <2>2. CASE i = Len(t)
    <3>1. so[i] = s /\ so[i + 1].value = w
      BY <1>3, <1>6, <1>9, <2>1, <2>2
    <3> QED
      BY <3>1
  <2>3. CASE i # Len(t)
    <3>1. i \in 1 .. Len(t) - 1 /\ i + 1 \in 1 .. Len(t)
      BY <1>7, <2>1, <2>3
    <3>2. so[i] = t[i] /\ so[i + 1] = t[i + 1]
      BY <1>9, <2>1, <3>1
    <3> QED
      BY <1>3, <3>1, <3>2 DEF SourcesOK
  <2> QED
    BY <2>2, <2>3
<1>11. so[1].value = root /\ Len(so) \in Nat \ {0}
  BY <1>7, <1>9
<1>12. SameBelow(so, b, Len(b) - 1) /\ so[Len(b)] = s /\ Top(so) = x
  <2>1. \A i \in 1 .. Len(b) - 1 : i \in 1 .. Len(t)
    BY <1>3, <1>7
  <2>2. Len(b) \in 1 .. Len(t)
    BY <1>3, <1>7
  <2> QED
    BY <1>3, <1>9, <2>1, <2>2 DEF SameBelow, Top
<1> QED
  BY <1>3, <1>5, <1>8, <1>9, <1>10, <1>11, <1>12 DEF HasPushed, SourcesOK

-----------------------------------------------------------------------------
(* The stages of writing.                                                  *)

NameIn(v, j) == IF v.type = "object" THEN v.properties[j].name ELSE ""

FrameOf(asIs, s) ==
  [open |-> Writer!Open(s.value), done |-> Images(ReadAs(asIs), s.value, s.index),
   name |-> NameIn(s.value, s.index + 1)]

FramesOf(asIs, so) == [i \in 1 .. Len(so) |-> FrameOf(asIs, so[i])]

\* What any text means that begins with what has been written: a value is next; a value
\* has been complete; a list is open that has c elements or properties.
AwaitsIn(G, M, so, k) == Awaits(G, M, FramesOf(G.asIs, so), Len(so) - 1, k)

KnowsIn(G, M, so, k) ==
  Knows(G, M, FramesOf(G.asIs, so), Len(so) - 1, k, ReadAs(G.asIs)[Top(so).value])

OpensIn(G, M, so, c, k) ==
  OpensFor(G, M, FramesOf(G.asIs, so), Len(so) - 1, Writer!Open(Top(so).value),
           Images(ReadAs(G.asIs), Top(so).value, c), k)

Awaited(out, so) ==
  \A trailing \in BOOLEAN, asIs \in BOOLEAN, z \in Seq(Tokens) :
    AwaitsIn(GrammarOf(out \o z, trailing, asIs), Meanings(out \o z, trailing, asIs), so, Len(z))

Complete(out, so) ==
  \A trailing \in BOOLEAN, asIs \in BOOLEAN, z \in Seq(Tokens) :
    KnowsIn(GrammarOf(out \o z, trailing, asIs), Meanings(out \o z, trailing, asIs), so, Len(z))

Opened(out, so, c) ==
  \A trailing \in BOOLEAN, asIs \in BOOLEAN, z \in Seq(Tokens) :
    OpensIn(GrammarOf(out \o z, trailing, asIs), Meanings(out \o z, trailing, asIs), so, c,
            Len(z))

LEMMA FramesSame ==
  ASSUME NEW asIs, NEW so, NEW other, NEW n \in Nat, SameBelow(so, other, n),
         Len(so) \in Nat, Len(other) \in Nat, n <= Len(so), n <= Len(other)
  PROVE  SameBelow(FramesOf(asIs, so), FramesOf(asIs, other), n)
<1>1. \A i \in 1 .. n : i \in 1 .. Len(so) /\ i \in 1 .. Len(other)
  OBVIOUS
<1>2. \A i \in 1 .. n : so[i] = other[i]
  BY DEF SameBelow
<1>3. \A i \in 1 .. n : FramesOf(asIs, so)[i] = FrameOf(asIs, so[i])
                       /\ FramesOf(asIs, other)[i] = FrameOf(asIs, other[i])
  BY <1>1 DEF FramesOf
<1> QED
  BY <1>2, <1>3 DEF SameBelow

LEMMA FrameIsOf ==
  ASSUME NEW asIs, NEW so, NEW n \in 1 .. Len(so), NEW s, so[n] = s
  PROVE  FrameIs(FramesOf(asIs, so)[n], Writer!Open(s.value),
                 Images(ReadAs(asIs), s.value, s.index), NameIn(s.value, s.index + 1))
BY DEF FramesOf, FrameOf, FrameIs

LEMMA KnowsSame ==
  ASSUME NEW G, NEW M, NEW fs, NEW gs, NEW depth \in Nat, SameBelow(gs, fs, depth),
         NEW k, NEW x, Knows(G, M, fs, depth, k, x)
  PROVE  Knows(G, M, gs, depth, k, x)
<1>1. \A i \in 1 .. depth : gs[i] = fs[i]
  BY DEF SameBelow
<1> QED
  BY <1>1, LeadsSame DEF Knows

\* The brackets of a value, and its children.
LEMMA BracketsOf ==
  ASSUME NEW v, v.type \in {"object", "array"}
  PROVE  /\ Writer!Open(v) \in Brackets /\ Writer!Close(v) = Closing(Writer!Open(v))
         /\ Writer!Open(v) \in Tokens /\ Writer!Close(v) \in Tokens
BY DEF Writer!Open, Writer!Close, Closing, Brackets, Tokens, Signs

LEMMA ChildrenOf ==
  ASSUME NEW v \in ContainersOf(Writable)
  PROVE  /\ v.type = "object" => Writer!Children(v) = v.properties
         /\ v.type = "array" => Writer!Children(v) = v.elements
         /\ Len(Writer!Children(v)) = Many(v) /\ Many(v) \in Nat
         /\ Writer!Children(v) = <<>> <=> Many(v) = 0
<1>0. /\ v.type \in {"object", "array"} /\ Many(v) \in Nat
      /\ v.type = "object" => v.properties \in Seq([name : Strings, value : Writable])
      /\ v.type = "array" => v.elements \in Seq(Writable)
  BY ContainerIs
<1>1. CASE v.type = "object"
  <2>1. Writer!Children(v) = v.properties /\ Many(v) = Len(v.properties)
    BY <1>1 DEF Writer!Children, Many
  <2> DEFINE W == [name : Strings, value : Writable]
  <2>2. v.properties \in Seq(W)
    BY <1>0, <1>1
  <2> HIDE DEF W
  <2>3. v.properties = <<>> <=> Len(v.properties) = 0
    BY <2>2
  <2> QED
    BY <1>0, <1>1, <2>1, <2>3
<1>2. CASE v.type = "array"
  <2>1. Writer!Children(v) = v.elements /\ Many(v) = Len(v.elements)
    BY <1>2 DEF Writer!Children, Many
  <2>2. v.elements \in Seq(Writable)
    BY <1>0, <1>2
  <2>3. v.elements = <<>> <=> Len(v.elements) = 0
    BY <2>2
  <2> QED
    BY <1>0, <1>2, <2>1, <2>3
<1> QED
  BY <1>0, <1>1, <1>2

LEMMA NamesOfChildren ==
  ASSUME NEW v \in ContainersOf(Writable), v.type = "object", NEW j \in 1 .. Many(v)
  PROVE  NameIn(v, j) = v.properties[j].name /\ NameIn(v, j) \in Strings
<1> DEFINE W == [name : Strings, value : Writable]
<1>1. \A w \in W : w.name \in Strings
  OBVIOUS
<1>2. v.properties \in Seq(W) /\ Many(v) = Len(v.properties)
  BY ContainerIs DEF Many
<1> HIDE DEF W
<1>3. v.properties[j] \in W
  BY <1>2
<1> QED
  BY <1>1, <1>3 DEF NameIn

\* An image is one of a frame.
LEMMA OneIsImage ==
  ASSUME NEW v, v.type \in {"object", "array"}, NEW g, NEW j, NEW f, NEW d,
         FrameIs(f, Writer!Open(v), d, NameIn(v, j))
  PROVE  OneOf(f, g[ChildAt(v, j)]) = ImageAt(g, v, j)
<1>0. f.open = Writer!Open(v)
  BY DEF FrameIs
<1>1. f.open = "[" <=> v.type = "array"
  BY <1>0 DEF Writer!Open
<1>2. CASE v.type = "array"
  BY <1>1, <1>2 DEF OneOf, ImageAt, ChildAt
<1>3. CASE v.type = "object"
  <2>1. f.name = v.properties[j].name
    BY <1>3 DEF FrameIs, NameIn
  <2> QED
    BY <1>1, <1>3, <2>1 DEF OneOf, ImageAt, ChildAt
<1> QED
  BY <1>2, <1>3

-----------------------------------------------------------------------------
(* The steps of writing.                                                   *)

\* A text that begins with what is written now.
Continues(out, ts, trailing, asIs, z, G, M) ==
  /\ G = GrammarOf((out \o ts) \o z, trailing, asIs)
  /\ M = Meanings((out \o ts) \o z, trailing, asIs)
  /\ ts \o z \in Seq(Tokens) /\ G = GrammarOf(out \o (ts \o z), trailing, asIs)
  /\ M = Meanings(out \o (ts \o z), trailing, asIs)
  /\ Lawful(G) /\ G.asIs = asIs
  /\ Len(ts \o z) = Len(ts) + Len(z) /\ Len(z) \in Nat
  /\ Len(ts) + Len(z) \in 0 .. Len(G.text)
  /\ \A j \in 1 .. Len(ts) : Next1(G, Len(ts) + Len(z) - j + 1, ts[j])

LEMMA SomeText ==
  ASSUME NEW out \in Seq(Tokens), NEW ts \in Seq(Tokens), NEW z \in Seq(Tokens),
         NEW trailing, NEW asIs
  PROVE  \E G, M : Continues(out, ts, trailing, asIs, z, G, M)
<1>1. PICK G, M : /\ G = GrammarOf((out \o ts) \o z, trailing, asIs)
                  /\ M = Meanings((out \o ts) \o z, trailing, asIs)
  OBVIOUS
<1>2. TextAfter(out, ts, z, G)
  BY <1>1, TextAhead
<1>3. G.asIs = asIs
  BY <1>1 DEF GrammarOf
<1>4. Len(z) \in Nat
  OBVIOUS
<1>5. Continues(out, ts, trailing, asIs, z, G, M)
  BY <1>1, <1>2, <1>3, <1>4, Zenon DEF TextAfter, Continues
<1> QED
  BY <1>5

LEMMA ContinuesWith ==
  ASSUME NEW out, NEW ts, NEW trailing \in BOOLEAN, NEW asIs \in BOOLEAN, NEW z, NEW G, NEW M,
         Continues(out, ts, trailing, asIs, z, G, M), NEW so, NEW c
  PROVE  /\ Awaited(out, so) => AwaitsIn(G, M, so, Len(ts) + Len(z))
         /\ Complete(out, so) => KnowsIn(G, M, so, Len(ts) + Len(z))
         /\ Opened(out, so, c) => OpensIn(G, M, so, c, Len(ts) + Len(z))
BY DEF Continues, Awaited, Complete, Opened

LEMMA CompleteIf ==
  ASSUME NEW out \in Seq(Tokens), NEW ts \in Seq(Tokens), NEW so,
         \A trailing \in BOOLEAN, asIs \in BOOLEAN, z \in Seq(Tokens) : \A G, M :
           Continues(out, ts, trailing, asIs, z, G, M) => KnowsIn(G, M, so, Len(z))
  PROVE  Complete(out \o ts, so)
<1> SUFFICES ASSUME NEW trailing \in BOOLEAN, NEW asIs \in BOOLEAN, NEW z \in Seq(Tokens)
             PROVE  KnowsIn(GrammarOf((out \o ts) \o z, trailing, asIs),
                            Meanings((out \o ts) \o z, trailing, asIs), so, Len(z))
  BY DEF Complete
<1>1. PICK G, M : Continues(out, ts, trailing, asIs, z, G, M)
  BY SomeText
<1>2. KnowsIn(G, M, so, Len(z))
  BY <1>1
<1> QED
  BY <1>1, <1>2, Zenon DEF Continues

LEMMA OpenedIf ==
  ASSUME NEW out \in Seq(Tokens), NEW ts \in Seq(Tokens), NEW so, NEW c,
         \A trailing \in BOOLEAN, asIs \in BOOLEAN, z \in Seq(Tokens) : \A G, M :
           Continues(out, ts, trailing, asIs, z, G, M) => OpensIn(G, M, so, c, Len(z))
  PROVE  Opened(out \o ts, so, c)
<1> SUFFICES ASSUME NEW trailing \in BOOLEAN, NEW asIs \in BOOLEAN, NEW z \in Seq(Tokens)
             PROVE  OpensIn(GrammarOf((out \o ts) \o z, trailing, asIs),
                            Meanings((out \o ts) \o z, trailing, asIs), so, c, Len(z))
  BY DEF Opened
<1>1. PICK G, M : Continues(out, ts, trailing, asIs, z, G, M)
  BY SomeText
<1>2. OpensIn(G, M, so, c, Len(z))
  BY <1>1
<1> QED
  BY <1>1, <1>2, Zenon DEF Continues

LEMMA AwaitedIf ==
  ASSUME NEW out \in Seq(Tokens), NEW ts \in Seq(Tokens), NEW so,
         \A trailing \in BOOLEAN, asIs \in BOOLEAN, z \in Seq(Tokens) : \A G, M :
           Continues(out, ts, trailing, asIs, z, G, M) => AwaitsIn(G, M, so, Len(z))
  PROVE  Awaited(out \o ts, so)
<1> SUFFICES ASSUME NEW trailing \in BOOLEAN, NEW asIs \in BOOLEAN, NEW z \in Seq(Tokens)
             PROVE  AwaitsIn(GrammarOf((out \o ts) \o z, trailing, asIs),
                             Meanings((out \o ts) \o z, trailing, asIs), so, Len(z))
  BY DEF Awaited
<1>1. PICK G, M : Continues(out, ts, trailing, asIs, z, G, M)
  BY SomeText
<1>2. AwaitsIn(G, M, so, Len(z))
  BY <1>1
<1> QED
  BY <1>1, <1>2, Zenon DEF Continues

\* One token more.
LEMMA TokenIsNext ==
  ASSUME NEW out, NEW t, NEW trailing, NEW asIs, NEW z, NEW G, NEW M,
         Continues(out, <<t>>, trailing, asIs, z, G, M)
  PROVE  /\ Lawful(G) /\ G.asIs = asIs /\ Len(z) \in Nat
         /\ Len(z) + 1 \in 0 .. Len(G.text) /\ Len(<<t>>) + Len(z) = Len(z) + 1
         /\ Next1(G, Len(z) + 1, t) /\ Len(z) + 1 - 1 = Len(z)
<1>a. Len(<<t>>) = 1 /\ <<t>>[1] = t /\ 1 \in 1 .. Len(<<t>>)
  OBVIOUS
<1>b. /\ Len(z) \in Nat
      /\ \A j \in 1 .. Len(<<t>>) : Next1(G, Len(<<t>>) + Len(z) - j + 1, <<t>>[j])
      /\ Len(<<t>>) + Len(z) \in 0 .. Len(G.text)
  BY Zenon DEF Continues
<1>1. /\ Len(<<t>>) = 1 /\ <<t>>[1] = t /\ 1 \in 1 .. Len(<<t>>) /\ Len(z) \in Nat
      /\ \A j \in 1 .. Len(<<t>>) : Next1(G, Len(<<t>>) + Len(z) - j + 1, <<t>>[j])
      /\ Len(<<t>>) + Len(z) \in 0 .. Len(G.text)
  BY <1>a, <1>b, Zenon
<1>2. Next1(G, Len(<<t>>) + Len(z) - 1 + 1, t)
  BY <1>1
<1>3. Len(<<t>>) + Len(z) - 1 + 1 = Len(z) + 1 /\ Len(<<t>>) + Len(z) = Len(z) + 1
      /\ Len(z) + 1 - 1 = Len(z)
  BY <1>1
<1> QED
  BY <1>1, <1>2, <1>3 DEF Continues

LEMMA ScalarStep ==
  ASSUME NEW out \in Seq(Tokens), NEW so, SourcesOK(so), Awaited(out, so),
         NEW v, v = Top(so).value, v \in ScalarValues
  PROVE  Complete(out \o <<v.token>>, so)
<1>0. v.token \in Strings \cup Scalars /\ v \in Writable /\ Len(so) - 1 \in Nat
  BY ScalarValueIs, TopSource
<1>1. PICK t : t = v.token
  OBVIOUS
<1>2. t \in Tokens /\ <<t>> \in Seq(Tokens)
  BY <1>0, <1>1 DEF Tokens
<1>3. ASSUME NEW trailing \in BOOLEAN, NEW asIs \in BOOLEAN, NEW z \in Seq(Tokens),
             NEW G, NEW M, Continues(out, <<t>>, trailing, asIs, z, G, M)
      PROVE  KnowsIn(G, M, so, Len(z))
  <2>1. /\ Lawful(G) /\ Len(z) + 1 \in 0 .. Len(G.text) /\ Next1(G, Len(z) + 1, t)
        /\ Len(z) + 1 - 1 = Len(z) /\ G.asIs = asIs /\ Len(<<t>>) + Len(z) = Len(z) + 1
    BY <1>3, TokenIsNext
  <2>2. AwaitsIn(G, M, so, Len(z) + 1)
    BY <1>3, <2>1, ContinuesWith
  <2>3. Knows(G, M, FramesOf(G.asIs, so), Len(so) - 1, Len(z), Scalar(t))
    BY <1>0, <1>1, <2>1, <2>2, ScalarNext DEF AwaitsIn
  <2>4. ReadAs(G.asIs)[Top(so).value] = Scalar(t)
    BY <1>0, <1>1, <2>1, ScalarReadAs
  <2> QED
    BY <2>3, <2>4 DEF KnowsIn
<1> QED
  BY <1>1, <1>2, <1>3, CompleteIf

LEMMA OpenStep ==
  ASSUME NEW out \in Seq(Tokens), NEW so, SourcesOK(so), Awaited(out, so),
         NEW v, v = Top(so).value, v \in ContainersOf(Writable)
  PROVE  Opened(out \o <<Writer!Open(v)>>, so, 0)
<1>1. PICK open : open = Writer!Open(v)
  OBVIOUS
<1>0. v.type \in {"object", "array"}
  BY ContainerIs
<1>2. open \in Brackets /\ open \in Tokens
  BY <1>0, <1>1, BracketsOf
<1>3. <<open>> \in Seq(Tokens)
  BY <1>2
<1>4. ASSUME NEW trailing \in BOOLEAN, NEW asIs \in BOOLEAN, NEW z \in Seq(Tokens),
             NEW G, NEW M, Continues(out, <<open>>, trailing, asIs, z, G, M)
      PROVE  OpensIn(G, M, so, 0, Len(z))
  <2>1. /\ Lawful(G) /\ Len(z) + 1 \in 0 .. Len(G.text) /\ Next1(G, Len(z) + 1, open)
        /\ Len(z) + 1 - 1 = Len(z) /\ G.asIs = asIs /\ Len(<<open>>) + Len(z) = Len(z) + 1
    BY <1>4, TokenIsNext
  <2>2. AwaitsIn(G, M, so, Len(z) + 1)
    BY <1>4, <2>1, ContinuesWith
  <2>3. OpensFor(G, M, FramesOf(G.asIs, so), Len(so) - 1, open, <<>>, Len(z))
    BY <1>2, <2>1, <2>2, OpenNext DEF AwaitsIn
  <2> QED
    BY <1>1, <2>3, NoImages DEF OpensIn
<1> QED
  BY <1>1, <1>3, <1>4, OpenedIf

\* An empty value is complete with its closing bracket.
LEMMA EmptyStep ==
  ASSUME NEW out \in Seq(Tokens), NEW so, SourcesOK(so), Opened(out, so, 0),
         NEW v, v = Top(so).value, v \in ContainersOf(Writable), Many(v) = 0
  PROVE  Complete(out \o <<Writer!Close(v)>>, so)
<1>1. PICK close : close = Writer!Close(v)
  OBVIOUS
<1>0. v.type \in {"object", "array"}
  BY ContainerIs
<1>a. v \in Writable /\ Len(so) - 1 \in Nat
  BY TopSource
<1>2. /\ Writer!Open(v) \in Brackets /\ close \in Tokens
      /\ close = Closing(Writer!Open(v)) /\ v \in Writable /\ Len(so) - 1 \in Nat
  BY <1>0, <1>1, <1>a, BracketsOf
<1>3. <<close>> \in Seq(Tokens)
  BY <1>2
<1>4. ASSUME NEW trailing \in BOOLEAN, NEW asIs \in BOOLEAN, NEW z \in Seq(Tokens),
             NEW G, NEW M, Continues(out, <<close>>, trailing, asIs, z, G, M)
      PROVE  KnowsIn(G, M, so, Len(z))
  <2>1. /\ Lawful(G) /\ Next1(G, Len(z) + 1, close)
        /\ Len(z) + 1 - 1 = Len(z) /\ G.asIs = asIs /\ Len(<<close>>) + Len(z) = Len(z) + 1
    BY <1>4, TokenIsNext
  <2>2. OpensIn(G, M, so, 0, Len(z) + 1)
    <3>1. OpensIn(G, M, so, 0, Len(<<close>>) + Len(z))
      BY <1>4, ContinuesWith
    <3> QED
      BY <2>1, <3>1, Zenon
  <2>3. OpensFor(G, M, FramesOf(G.asIs, so), Len(so) - 1, Writer!Open(v), <<>>, Len(z) + 1)
    BY <2>2, NoImages DEF OpensIn
  <2>4. Knows(G, M, FramesOf(G.asIs, so), Len(so) - 1, Len(z), Means(G, Writer!Open(v), <<>>))
    <3>1. PICK k : k = Len(z) + 1
      OBVIOUS
    <3>2. Knows(G, M, FramesOf(G.asIs, so), Len(so) - 1, k - 1, Means(G, Writer!Open(v), <<>>))
      BY <1>2, <2>1, <2>3, <3>1, EmptyNext
    <3> QED
      BY <2>1, <3>1, <3>2
  <2>5. ReadAs(G.asIs)[v] = Means(G, Writer!Open(v), <<>>)
    BY <1>2, <2>1, ContainerReadAs, NoImages
  <2> QED
    BY <2>4, <2>5 DEF KnowsIn
<1> QED
  BY <1>1, <1>3, <1>4, CompleteIf

-----------------------------------------------------------------------------
(* The steps of writing, in a list.                                        *)

\* What is below a source whose value is complete.
BelowIs(so, b, n, v, c, asIs, fs) ==
  /\ SourcesOK(b) /\ n \in Nat /\ Len(b) = n + 1 /\ Len(so) - 1 = n + 1
  /\ v = Top(b).value /\ v \in ContainersOf(Writable) /\ v \in Writable
  /\ v.type \in {"object", "array"} /\ Writer!Open(v) \in Brackets
  /\ c = Top(b).index /\ c \in 0 .. Many(v) - 1 /\ c \in Nat
  /\ ChildAt(v, c + 1) = Top(so).value
  /\ FrameIs(fs[n + 1], Writer!Open(v), Images(ReadAs(asIs), v, c), NameIn(v, c + 1))
  /\ SameBelow(FramesOf(asIs, b), fs, n)
  /\ OneOf(fs[n + 1], ReadAs(asIs)[Top(so).value]) = ImageAt(ReadAs(asIs), v, c + 1)

LEMMA SomeBelow ==
  ASSUME NEW so, SourcesOK(so), Len(so) > 1, NEW b, b = Popped(so), NEW asIs,
         NEW fs, fs = FramesOf(asIs, so)
  PROVE  \E n, v, c : BelowIs(so, b, n, v, c, asIs, fs)
<1>1. SourcesOK(b) /\ Len(b) = Len(so) - 1 /\ SameBelow(b, so, Len(b))
      /\ InChild(Top(b), Top(so).value)
  BY SourcesPopped DEF HasPopped
<1>2. /\ Len(b) \in 1 .. Len(b) /\ Top(b) = b[Len(b)] /\ Len(b) - 1 \in Nat
      /\ Top(b).value \in Writable /\ Len(so) - 1 \in Nat
  BY <1>1, TopSource
<1>3. PICK n, v, c : n = Len(b) - 1 /\ v = Top(b).value /\ c = Top(b).index
  OBVIOUS
<1>4. n \in Nat /\ Len(b) = n + 1 /\ Len(so) - 1 = n + 1 /\ Len(so) \in Nat /\ Len(b) \in Nat
  BY <1>1, <1>2, <1>3
<1>5. v \in ContainersOf(Writable) /\ v \in Writable /\ c \in 0 .. Many(v) - 1
      /\ ChildAt(v, c + 1) = Top(so).value
  BY <1>1, <1>2, <1>3 DEF InChild
<1>6. v.type \in {"object", "array"} /\ Many(v) \in Nat
  BY <1>5, ContainerIs
<1>7. c \in Nat
  BY <1>5, <1>6
<1>8. Writer!Open(v) \in Brackets
  BY <1>6, BracketsOf
<1>9. so[n + 1] = Top(b) /\ n + 1 \in 1 .. Len(so)
  BY <1>1, <1>2, <1>4 DEF SameBelow
<1>10. FrameIs(fs[n + 1], Writer!Open(v), Images(ReadAs(asIs), v, c), NameIn(v, c + 1))
  <2>1. PICK s : s = Top(b)
    OBVIOUS
  <2>2. FrameIs(fs[n + 1], Writer!Open(s.value), Images(ReadAs(asIs), s.value, s.index),
                NameIn(s.value, s.index + 1))
    BY <1>9, <2>1, FrameIsOf
  <2> QED
    BY <1>3, <2>1, <2>2
<1>11. SameBelow(FramesOf(asIs, b), fs, n)
  <2>1. SameBelow(b, so, n)
    BY <1>1, <1>4 DEF SameBelow
  <2>2. n <= Len(so) /\ n <= Len(b)
    BY <1>4
  <2> QED
    BY <1>4, <2>1, <2>2, FramesSame
<1>12. OneOf(fs[n + 1], ReadAs(asIs)[ChildAt(v, c + 1)]) = ImageAt(ReadAs(asIs), v, c + 1)
  BY <1>6, <1>10, OneIsImage
<1>13. BelowIs(so, b, n, v, c, asIs, fs)
  BY <1>1, <1>3, <1>4, <1>5, <1>6, <1>7, <1>8, <1>10, <1>11, <1>12 DEF BelowIs
<1> QED
  BY <1>13

\* What a text means in which a child is followed by a token.
AfterChild(G, M, fs, n, v, c, k) ==
  /\ Next1(G, k + 1, ",") =>
       OpensFor(G, M, fs, n, Writer!Open(v), Images(ReadAs(G.asIs), v, c + 1), k)
  /\ Next1(G, k + 1, Closing(Writer!Open(v))) =>
       Knows(G, M, fs, n, k, Means(G, Writer!Open(v), Images(ReadAs(G.asIs), v, c + 1)))

LEMMA ChildIsComplete ==
  ASSUME NEW G, Lawful(G), NEW M, NEW so, NEW b, NEW n, NEW v, NEW c, NEW fs,
         fs = FramesOf(G.asIs, so), BelowIs(so, b, n, v, c, G.asIs, fs),
         NEW k \in Nat, KnowsIn(G, M, so, k + 1)
  PROVE  AfterChild(G, M, fs, n, v, c, k)
<1>1. /\ n \in Nat /\ Len(so) - 1 = n + 1 /\ Writer!Open(v) \in Brackets /\ c \in Nat
      /\ FrameIs(fs[n + 1], Writer!Open(v), Images(ReadAs(G.asIs), v, c), NameIn(v, c + 1))
      /\ OneOf(fs[n + 1], ReadAs(G.asIs)[Top(so).value]) = ImageAt(ReadAs(G.asIs), v, c + 1)
  BY DEF BelowIs
<1>2. PICK x, d, more, open, id, m :
        /\ x = ReadAs(G.asIs)[Top(so).value] /\ d = Images(ReadAs(G.asIs), v, c)
        /\ more = Images(ReadAs(G.asIs), v, c + 1) /\ open = Writer!Open(v)
        /\ id = NameIn(v, c + 1) /\ m = k + 1
  OBVIOUS
<1>3. IsList(d) /\ more = d \o <<OneOf(fs[n + 1], x)>>
  BY <1>1, <1>2, ImagesAre, ImagesGrow
<1>4. Knows(G, M, fs, n + 1, m, x)
  BY <1>1, <1>2 DEF KnowsIn
<1>5. open \in Brackets /\ FrameIs(fs[n + 1], open, d, id)
  BY <1>1, <1>2
<1>6. /\ Next1(G, m, ",") => OpensFor(G, M, fs, n, open, more, m - 1)
      /\ Next1(G, m, Closing(open)) => Knows(G, M, fs, n, m - 1, Means(G, open, more))
  BY <1>1, <1>3, <1>4, <1>5, AfterChildNext
<1>7. m - 1 = k
  BY <1>2
<1> QED
  BY <1>2, <1>6, <1>7 DEF AfterChild

LEMMA OpensForSame ==
  ASSUME NEW G, NEW M, NEW fs, NEW gs, NEW depth \in Nat, SameBelow(gs, fs, depth),
         NEW open, NEW d, NEW k, OpensFor(G, M, fs, depth, open, d, k)
  PROVE  OpensFor(G, M, gs, depth, open, d, k)
<1>1. \A i \in 1 .. depth : gs[i] = fs[i]
  BY DEF SameBelow
<1> QED
  BY <1>1, OpensSame DEF OpensFor

LEMMA CommaStep ==
  ASSUME NEW out \in Seq(Tokens), NEW so, SourcesOK(so), Complete(out, so), Len(so) > 1,
         NEW b, b = Popped(so), NEW c, c = Top(b).index
  PROVE  Opened(out \o <<",">>, b, c + 1)
<1>2. PICK comma : comma = ","
  OBVIOUS
<1>0. comma \in Tokens
  BY <1>2 DEF Tokens, Signs
<1>1. <<comma>> \in Seq(Tokens)
  BY <1>0
<1>3. ASSUME NEW trailing \in BOOLEAN, NEW asIs \in BOOLEAN, NEW z \in Seq(Tokens),
             NEW G, NEW M, Continues(out, <<comma>>, trailing, asIs, z, G, M)
      PROVE  OpensIn(G, M, b, c + 1, Len(z))
  <2>0. /\ Lawful(G) /\ Next1(G, Len(z) + 1, comma) /\ Len(z) \in Nat
        /\ G.asIs = asIs /\ Len(<<comma>>) + Len(z) = Len(z) + 1
    BY <1>3, TokenIsNext
  <2>1. /\ Lawful(G) /\ Next1(G, Len(z) + 1, ",") /\ Len(z) \in Nat
        /\ G.asIs = asIs /\ Len(<<comma>>) + Len(z) = Len(z) + 1
    BY <1>2, <2>0
  <2>2. KnowsIn(G, M, so, Len(z) + 1)
    BY <1>3, <2>1, ContinuesWith
  <2>3. PICK fs : fs = FramesOf(G.asIs, so)
    OBVIOUS
  <2>4. PICK n, v, d : BelowIs(so, b, n, v, d, G.asIs, fs)
    BY <2>3, SomeBelow
  <2>5. AfterChild(G, M, fs, n, v, d, Len(z))
    BY <2>1, <2>2, <2>3, <2>4, ChildIsComplete
  <2>6. OpensFor(G, M, fs, n, Writer!Open(v), Images(ReadAs(G.asIs), v, d + 1), Len(z))
    BY <2>1, <2>5 DEF AfterChild
  <2>7. /\ n \in Nat /\ SameBelow(FramesOf(G.asIs, b), fs, n)
        /\ Len(b) = n + 1 /\ v = Top(b).value /\ d = c
    BY <2>4 DEF BelowIs
  <2>8. OpensFor(G, M, FramesOf(G.asIs, b), n, Writer!Open(v), Images(ReadAs(G.asIs), v, d + 1),
                 Len(z))
    BY <2>6, <2>7, OpensForSame
  <2>9. Len(b) - 1 = n
    BY <2>7
  <2> QED
    BY <2>7, <2>8, <2>9 DEF OpensIn
<1>4. Opened(out \o <<comma>>, b, c + 1)
  BY <1>1, <1>2, <1>3, OpenedIf
<1> QED
  BY <1>2, <1>4

LEMMA CloseStep ==
  ASSUME NEW out \in Seq(Tokens), NEW so, SourcesOK(so), Complete(out, so), Len(so) > 1,
         NEW b, b = Popped(so), NEW c, c = Top(b).index, c + 1 = Many(Top(b).value),
         NEW s, s.value = Top(b).value, NEW t, HasTopped(b, t, s)
  PROVE  Complete(out \o <<Writer!Close(Top(b).value)>>, t)
<1>1. PICK close : close = Writer!Close(Top(b).value)
  OBVIOUS
<1>2. HasPopped(so, b)
  BY SourcesPopped
<1>3. SourcesOK(b) /\ InChild(Top(b), Top(so).value) /\ Len(b) = Len(so) - 1
  BY <1>2 DEF HasPopped
<1>4. Top(b).value.type \in {"object", "array"}
  BY <1>3, ContainerIs DEF InChild
<1>5. close \in Tokens /\ close = Closing(Writer!Open(Top(b).value))
  BY <1>1, <1>4, BracketsOf
<1>6. <<close>> \in Seq(Tokens)
  BY <1>5
<1>7. SourcesOK(t) /\ Len(t) = Len(b) /\ SameBelow(t, b, Len(b) - 1) /\ t[Len(b)] = s
  BY DEF HasTopped
<1>8. ASSUME NEW trailing \in BOOLEAN, NEW asIs \in BOOLEAN, NEW z \in Seq(Tokens),
             NEW G, NEW M, Continues(out, <<close>>, trailing, asIs, z, G, M)
      PROVE  KnowsIn(G, M, t, Len(z))
  <2>1. /\ Lawful(G) /\ Next1(G, Len(z) + 1, close) /\ Len(z) \in Nat
        /\ G.asIs = asIs /\ Len(<<close>>) + Len(z) = Len(z) + 1
    BY <1>8, TokenIsNext
  <2>2. KnowsIn(G, M, so, Len(z) + 1)
    BY <1>8, <2>1, ContinuesWith
  <2>3. PICK fs : fs = FramesOf(G.asIs, so)
    OBVIOUS
  <2>4. PICK n, v, d : BelowIs(so, b, n, v, d, G.asIs, fs)
    BY <2>3, SomeBelow
  <2>5. AfterChild(G, M, fs, n, v, d, Len(z))
    BY <2>1, <2>2, <2>3, <2>4, ChildIsComplete
  <2>6. /\ n \in Nat /\ SameBelow(FramesOf(G.asIs, b), fs, n) /\ v \in Writable
        /\ Len(b) = n + 1 /\ v = Top(b).value /\ d = c /\ v \in ContainersOf(Writable)
    BY <2>4 DEF BelowIs
  <2>7. Knows(G, M, fs, n, Len(z), Means(G, Writer!Open(v), Images(ReadAs(G.asIs), v, d + 1)))
    BY <1>5, <2>1, <2>5, <2>6 DEF AfterChild
  <2>8. Means(G, Writer!Open(v), Images(ReadAs(G.asIs), v, d + 1)) = ReadAs(G.asIs)[v]
    BY <2>1, <2>6, ContainerReadAs
  <2>9. Len(b) - 1 = n /\ Len(t) - 1 = n /\ Len(t) = n + 1 /\ n <= Len(t) /\ n <= Len(b)
        /\ Len(t) \in Nat /\ Len(b) \in Nat
    BY <1>7, <2>6
  <2>10. SameBelow(FramesOf(G.asIs, t), FramesOf(G.asIs, b), n)
    BY <1>7, <2>6, <2>9, FramesSame
  <2>11. SameBelow(FramesOf(G.asIs, t), fs, n)
    BY <2>6, <2>10 DEF SameBelow
  <2>12. Knows(G, M, FramesOf(G.asIs, t), n, Len(z), ReadAs(G.asIs)[v])
    BY <2>6, <2>7, <2>8, <2>11, KnowsSame
  <2>13. Top(t).value = v
    BY <1>7, <2>6 DEF Top
  <2> QED
    BY <2>9, <2>12, <2>13 DEF KnowsIn
<1> QED
  BY <1>1, <1>6, <1>8, CompleteIf

\* What is written between the comma and the child.
BeforeChild(v, j) == IF v.type = "object" THEN <<NameIn(v, j), ":">> ELSE <<>>

LEMMA ChildStep ==
  ASSUME NEW out \in Seq(Tokens), NEW b, SourcesOK(b), NEW c \in Nat, Opened(out, b, c),
         NEW v, v = Top(b).value, NEW so, NEW s, s = SourceAt(v, c),
         InChild(s, ChildAt(v, c + 1)), HasPushed(b, so, s, ChildAt(v, c + 1))
  PROVE  Awaited(out \o BeforeChild(v, c + 1), so) /\ BeforeChild(v, c + 1) \in Seq(Tokens)
<1>1. s.value = v /\ s.index = c
  BY DEF SourceAt
<1>2. v \in ContainersOf(Writable) /\ c \in 0 .. Many(v) - 1
  BY <1>1 DEF InChild
<1>3. v.type \in {"object", "array"} /\ Many(v) \in Nat
  BY <1>2, ContainerIs
<1>4. Writer!Open(v) \in Brackets
  BY <1>3, BracketsOf
<1>5. c + 1 \in 1 .. Many(v)
  BY <1>2, <1>3
<1>6. Len(b) - 1 \in Nat /\ Len(b) \in Nat
  BY TopSource DEF SourcesOK
<1>7. PICK n : n = Len(b) - 1
  OBVIOUS
<1>8. n \in Nat /\ Len(b) = n + 1
  BY <1>6, <1>7
<1>9. Len(so) = Len(b) + 1 /\ SameBelow(so, b, Len(b) - 1) /\ so[Len(b)] = s
  BY DEF HasPushed
<1>10. Len(so) - 1 = n + 1 /\ n + 1 \in 1 .. Len(so) /\ so[n + 1] = s /\ SameBelow(so, b, n)
       /\ n <= Len(so) /\ n <= Len(b) /\ Len(so) \in Nat
  BY <1>7, <1>8, <1>9
<1>11. PICK ts : ts = BeforeChild(v, c + 1)
  OBVIOUS
<1>12. v.type = "object" => NameIn(v, c + 1) \in Strings
  BY <1>2, <1>5, NamesOfChildren
<1>13. /\ v.type = "object" => ts = <<NameIn(v, c + 1), ":">>
       /\ v.type = "array" => ts = <<>>
  BY <1>11 DEF BeforeChild
<1>14. ":" \in Tokens /\ Strings \subseteq Tokens
  BY DEF Tokens, Signs
<1>15. ts \in Seq(Tokens)
  <2>1. ASSUME v.type = "object"
        PROVE  ts \in Seq(Tokens)
    <3>1. PICK x, y : x = NameIn(v, c + 1) /\ y = ":"
      OBVIOUS
    <3>2. x \in Tokens /\ y \in Tokens
      BY <1>12, <1>14, <2>1, <3>1
    <3>3. <<x, y>> \in Seq(Tokens)
      BY <3>2
    <3> QED
      BY <1>13, <2>1, <3>1, <3>3
  <2>2. <<>> \in Seq(Tokens)
    OBVIOUS
  <2>3. v.type = "object" \/ v.type = "array"
    BY <1>3
  <2> QED
    BY <1>13, <2>1, <2>2, <2>3, Zenon
<1>16. ASSUME NEW trailing \in BOOLEAN, NEW asIs \in BOOLEAN, NEW z \in Seq(Tokens),
              NEW G, NEW M, Continues(out, ts, trailing, asIs, z, G, M)
       PROVE  AwaitsIn(G, M, so, Len(z))
  <2>1. /\ Lawful(G) /\ G.asIs = asIs /\ Len(z) \in Nat
        /\ Len(ts) + Len(z) \in 0 .. Len(G.text)
        /\ \A j \in 1 .. Len(ts) : Next1(G, Len(ts) + Len(z) - j + 1, ts[j])
    BY <1>16 DEF Continues
  <2>2. PICK m : m = Len(ts) + Len(z)
    OBVIOUS
  <2>3. OpensIn(G, M, b, c, m)
    BY <1>16, <2>2, ContinuesWith
  <2>4. PICK fs, gs, d, open, id :
          /\ fs = FramesOf(G.asIs, b) /\ gs = FramesOf(G.asIs, so)
          /\ d = Images(ReadAs(G.asIs), v, c) /\ open = Writer!Open(v) /\ id = NameIn(v, c + 1)
    OBVIOUS
  <2>5. OpensFor(G, M, fs, n, open, d, m)
    BY <1>7, <2>3, <2>4 DEF OpensIn
  <2>6. SameBelow(gs, fs, n)
    BY <1>8, <1>10, <2>4, FramesSame
  <2>7. \A i \in 1 .. n : gs[i] = fs[i]
    BY <2>6 DEF SameBelow
  <2>8. FrameIs(gs[n + 1], open, d, id)
    BY <1>1, <1>10, <2>4, FrameIsOf
  <2>9. IsList(d) /\ open \in Brackets
    BY <1>4, <2>4, ImagesAre
  <2>10. m \in 0 .. Len(G.text)
    BY <2>1, <2>2
  <2>11. /\ open = "[" => Awaits(G, M, gs, n + 1, m)
         /\ open = "{" /\ id \in Strings /\ Next1(G, m, id) /\ Next1(G, m - 1, ":") =>
              Awaits(G, M, gs, n + 1, m - 2)
    BY <1>8, <2>1, <2>5, <2>7, <2>8, <2>9, <2>10, ChildNext
  <2>12. Awaits(G, M, gs, n + 1, Len(z))
    <3>1. CASE v.type = "array"
      <4>1. open = "["
        BY <2>4, <3>1 DEF Writer!Open
      <4>2. m = Len(z)
        BY <1>13, <2>1, <2>2, <3>1
      <4> QED
        BY <2>11, <4>1, <4>2
    <3>2. CASE v.type = "object"
      <4>1. open = "{"
        BY <2>4, <3>2 DEF Writer!Open
      <4>2. ts = <<id, ":">>
        BY <1>13, <2>4, <3>2
      <4>3. Len(ts) = 2 /\ ts[1] = id /\ ts[2] = ":" /\ 1 \in 1 .. Len(ts) /\ 2 \in 1 .. Len(ts)
        BY <4>2
      <4>4. m - 2 = Len(z) /\ m = m - 1 + 1 /\ m - 1 = m - 2 + 1
        BY <2>1, <2>2, <4>3
      <4>5. Next1(G, m - 1 + 1, id) /\ Next1(G, m - 2 + 1, ":")
        BY <2>1, <2>2, <4>3
      <4>6. Next1(G, m, id) /\ Next1(G, m - 1, ":")
        BY <4>4, <4>5
      <4>7. id \in Strings
        BY <1>12, <2>4, <3>2
      <4> QED
        BY <2>11, <4>1, <4>4, <4>6, <4>7
    <3> QED
      BY <1>3, <3>1, <3>2
  <2> QED
    BY <1>10, <2>4, <2>12 DEF AwaitsIn
<1> QED
  BY <1>11, <1>15, <1>16, AwaitedIf

LEMMA ReturnStep ==
  ASSUME NEW out \in Seq(Tokens), NEW so, SourcesOK(so), Complete(out, so), Len(so) = 1,
         NEW trailing \in BOOLEAN, NEW asIs \in BOOLEAN
  PROVE  Meanings(out, trailing, asIs) = {ReadAs(asIs)[root]}
<1>1. PICK z : z = <<>>
  OBVIOUS
<1>2. z \in Seq(Tokens) /\ Len(z) = 0 /\ out \o z = out
  BY <1>1
<1>3. PICK G, M : G = GrammarOf(out \o z, trailing, asIs) /\ M = Meanings(out \o z, trailing, asIs)
  OBVIOUS
<1>4. KnowsIn(G, M, so, 0)
  BY <1>2, <1>3 DEF Complete
<1>5. G.asIs = asIs
  BY <1>3 DEF GrammarOf
<1>6. Top(so).value = root /\ Len(so) - 1 = 0
  BY DEF SourcesOK, Top
<1>7. Knows(G, M, FramesOf(G.asIs, so), 0, 0, ReadAs(asIs)[root])
  BY <1>4, <1>5, <1>6 DEF KnowsIn
<1>8. \A v : v \in M <=> v = ReadAs(asIs)[root]
  BY <1>7, NothingNext
<1> QED
  BY <1>2, <1>3, <1>8

\* At first the root is next.
LEMMA RootStep ==
  ASSUME NEW so, so = <<SourceAt(root, -1)>>, root \in Writable
  PROVE  SourcesOK(so) /\ Top(so) = SourceAt(root, -1) /\ Awaited(<<>>, so)
<1>1. PICK s : s = SourceAt(root, -1)
  OBVIOUS
<1>2. s \in SourceSet /\ s.value = root
  BY <1>1, SourceIs
<1>3. so \in Seq(SourceSet) /\ Len(so) = 1 /\ so[1] = s
  BY <1>1, <1>2
<1>4. SourcesOK(so) /\ Top(so) = s
  BY <1>2, <1>3 DEF SourcesOK, Top
<1>5. ASSUME NEW trailing \in BOOLEAN, NEW asIs \in BOOLEAN, NEW z \in Seq(Tokens)
      PROVE  AwaitsIn(GrammarOf(<<>> \o z, trailing, asIs), Meanings(<<>> \o z, trailing, asIs), so,
                      Len(z))
  <2>1. <<>> \o z = z /\ Len(z) \in Nat
    OBVIOUS
  <2>2. PICK G, M : G = GrammarOf(z, trailing, asIs) /\ M = Meanings(z, trailing, asIs)
    OBVIOUS
  <2>3. /\ G.parts = Parts(z, trailing, asIs) /\ G.text = z /\ G.trailing = trailing
        /\ G.asIs = asIs
    BY <2>2 DEF GrammarOf
  <2>4. Lawful(G)
    BY <2>1, <2>3, GrammarUnfolds DEF Lawful
  <2>5. PICK fs : fs = FramesOf(G.asIs, so)
    OBVIOUS
  <2>6. ASSUME NEW v
        PROVE  v \in M <=> Expects(G, fs, 0, Len(z), v)
    <3>1. v \in M <=> \E q : q \in ValuesAt(G.parts, Len(z)) /\ q[1] = 0 /\ v = q[2]
      BY <2>2, <2>3 DEF Meanings
    <3>2. \A q \in ValuesAt(G.parts, Len(z)) : q = <<q[1], q[2]>>
      BY <2>4, UnfoldsAt
    <3>3. \A q \in ValuesAt(G.parts, Len(z)) : q[1] = 0 /\ v = q[2] <=> q = <<0, v>>
      BY <3>2
    <3>4. \A q : Leads(G, fs, 0, q, v) <=> q = <<0, v>>
      BY LeadsAtTop
    <3>5. Takes(G, fs, 0, Len(z), v) <=> v \in M
      BY <3>1, <3>3, <3>4 DEF Takes
    <3>6. ~ Ends(G, fs, 0, Len(z), v)
      BY DEF Ends, InArray
    <3> QED
      BY <3>5, <3>6 DEF Expects
  <2>7. Len(so) - 1 = 0
    BY <1>3
  <2>8. AwaitsIn(G, M, so, Len(z))
    BY <2>5, <2>6, <2>7 DEF AwaitsIn, Awaits
  <2> QED
    BY <2>1, <2>2, <2>8
<1> QED
  BY <1>1, <1>4, <1>5 DEF Awaited

-----------------------------------------------------------------------------
(* What the writer does.                                                   *)

Letters == Tokens \ {"#"}   \* no comments are written

ValueToWrite(out, so) == SourcesOK(so) /\ Top(so).index = -1 /\ Awaited(out, so)

ValueWritten(out, so) == SourcesOK(so) /\ Complete(out, so)

ListToWrite(out, b) ==
  /\ SourcesOK(b) /\ Top(b).index = -1 /\ Opened(out, b, 0)
  /\ Top(b).value \in ContainersOf(Writable) /\ Many(Top(b).value) > 0

AllWritten(out) ==
  \A trailing \in BOOLEAN, asIs \in BOOLEAN :
    Meanings(out, trailing, asIs) = {ReadAs(asIs)[root]}

Stage(out, so, iv, done) ==
  \/ iv /\ ~done /\ ValueToWrite(out, so)
  \/ ~iv /\ ~done /\ ValueWritten(out, so)
  \/ ~iv /\ ~done /\ so # <<>> /\ Len(so) > 1 /\ ListToWrite(out, Popped(so))
  \/ ~iv /\ done /\ AllWritten(out)

Writes ==
  /\ output \in Seq(Letters) /\ root \in Writable
  /\ Stage(output, sources, writingValue, written)

WriterOutcome ==
  /\ UNCHANGED <<root, indent>> /\ output' \in Seq(Letters)
  /\ Stage(output', sources', writingValue', written')

LEMMA LettersAreTokens ==
  /\ Letters \subseteq Tokens
  /\ \A s \in Seq(Letters) : s \in Seq(Tokens)
  /\ Strings \cup Scalars \subseteq Letters
  /\ ":" \in Letters /\ "," \in Letters
<1>1. Letters \subseteq Tokens /\ ":" \in Letters /\ "," \in Letters
  BY DEF Letters, Tokens, Signs
<1>2. Seq(Letters) \subseteq Seq(Tokens)
  BY <1>1, ListsGrow
<1>3. Strings \cup Scalars \subseteq Letters
  BY ScalarsAreNoSigns DEF Letters, Tokens
<1> QED
  BY <1>1, <1>2, <1>3

LEMMA BracketsAreLetters ==
  ASSUME NEW v
  PROVE  Writer!Open(v) \in Letters /\ Writer!Close(v) \in Letters
BY DEF Writer!Open, Writer!Close, Letters, Tokens, Signs

\* The value that is next.
SourceValue(v, out) ==
  /\ v \in Writable /\ out \in Seq(Tokens)
  /\ v.type = "scalar" => v \in ScalarValues
  /\ v.type # "scalar" => v \in ContainersOf(Writable)

LEMMA ValueToWriteIs ==
  ASSUME Writes, writingValue
  PROVE  /\ ValueToWrite(output, sources) /\ ~written /\ output \in Seq(Letters)
         /\ SourceValue(Top(sources).value, output)
         /\ Writer!source = Top(sources)
<1>1. ValueToWrite(output, sources) /\ ~written /\ output \in Seq(Letters)
  BY DEF Writes, Stage
<1>2. Top(sources).value \in Writable /\ Top(sources) = sources[Len(sources)]
  BY <1>1, TopSource DEF ValueToWrite
<1>3. PICK v : v = Top(sources).value
  OBVIOUS
<1>4. v \in ScalarValues \/ v \in ContainersOf(Writable)
  BY <1>2, <1>3, WritableIs
<1>5. v \in ScalarValues => v.type = "scalar"
  BY ScalarValueIs
<1>6. v \in ContainersOf(Writable) => v.type # "scalar"
  BY ContainerIs
<1>7. SourceValue(v, output)
  BY <1>1, <1>2, <1>3, <1>4, <1>5, <1>6, LettersAreTokens DEF SourceValue
<1> QED
  BY <1>1, <1>2, <1>3, <1>7 DEF Writer!source

LEMMA AppendsLetters ==
  ASSUME NEW out \in Seq(Letters), NEW t \in Letters
  PROVE  Append(out, t) = out \o <<t>> /\ out \o <<t>> \in Seq(Letters) /\ <<t>> \in Seq(Letters)
OBVIOUS

LEMMA AppendsTwo ==
  ASSUME NEW out \in Seq(Letters), NEW t \in Letters, NEW u \in Letters
  PROVE  /\ out \o <<t, u>> = (out \o <<t>>) \o <<u>> /\ out \o <<t, u>> \in Seq(Letters)
         /\ out \o <<t>> \in Seq(Letters)
<1>1. PICK V : V = Letters
  OBVIOUS
<1>2. out \in Seq(V) /\ t \in V /\ u \in V
  BY <1>1
<1>3. <<t>> \in Seq(V) /\ <<u>> \in Seq(V) /\ <<t, u>> \in Seq(V)
  BY <1>2
<1>4. /\ Len(<<t>>) = 1 /\ Len(<<u>>) = 1 /\ Len(<<t, u>>) = 2
      /\ <<t>>[1] = t /\ <<u>>[1] = u /\ <<t, u>>[1] = t /\ <<t, u>>[2] = u
  OBVIOUS
<1>5. PICK a, b, c : a = <<t>> /\ b = <<u>> /\ c = <<t, u>>
  OBVIOUS
<1>7. a \in Seq(V) /\ b \in Seq(V) /\ c \in Seq(V)
  BY <1>3, <1>5
<1>a. Len(a) = 1 /\ Len(b) = 1 /\ Len(c) = 2 /\ a[1] = t /\ b[1] = u /\ c[1] = t /\ c[2] = u
  BY <1>4, <1>5
<1>b. /\ a \o b \in Seq(V) /\ Len(a \o b) = Len(a) + Len(b)
      /\ \A i \in 1 .. Len(a) : (a \o b)[i] = a[i]
      /\ \A i \in 1 .. Len(b) : (a \o b)[Len(a) + i] = b[i]
  BY <1>7
<1>c. PICK d \in Seq(V) : d = a \o b
  BY <1>b
<1>d. Len(d) = 2 /\ d[1] = t /\ d[2] = u
  <2>1. 1 \in 1 .. Len(a) /\ 1 \in 1 .. Len(b) /\ Len(a) + 1 = 2
    BY <1>a
  <2>2. d[1] = a[1] /\ d[Len(a) + 1] = b[1]
    BY <1>b, <1>c, <2>1
  <2> QED
    BY <1>a, <1>b, <1>c, <2>1, <2>2
<1>6. c = d
  <2>1. \A i \in 1 .. 2 : i = 1 \/ i = 2
    OBVIOUS
  <2>2. \A i \in 1 .. 2 : c[i] = d[i]
    BY <1>a, <1>d, <2>1
  <2> QED
    BY <1>7, <1>a, <1>d, <2>2
<1>8. out \o (a \o b) = (out \o a) \o b /\ out \o c \in Seq(V) /\ out \o a \in Seq(V)
  BY <1>2, <1>7
<1> QED
  BY <1>1, <1>5, <1>6, <1>8, <1>c

LEMMA ScalarWritten ==
  ASSUME Writes, Writer!WriteScalar
  PROVE  WriterOutcome
<1>1. /\ writingValue /\ Writer!source.value.type = "scalar"
      /\ output' = Append(output, Writer!source.value.token)
      /\ ~writingValue' /\ UNCHANGED <<root, indent, lines, sources, width, written>>
  BY DEF Writer!WriteScalar
<1>2. ValueToWrite(output, sources) /\ ~written /\ output \in Seq(Letters)
      /\ SourceValue(Top(sources).value, output) /\ Writer!source = Top(sources)
  BY <1>1, ValueToWriteIs
<1>3. PICK v : v = Top(sources).value
  OBVIOUS
<1>4. v \in ScalarValues /\ output \in Seq(Tokens) /\ output' = Append(output, v.token)
  BY <1>1, <1>2, <1>3 DEF SourceValue
<1>5. v.token \in Letters
  BY <1>4, ScalarValueIs, LettersAreTokens
<1>6. output' = output \o <<v.token>> /\ output' \in Seq(Letters)
  BY <1>2, <1>4, <1>5, AppendsLetters
<1>7. Complete(output', sources)
  BY <1>2, <1>3, <1>4, <1>6, ScalarStep DEF ValueToWrite
<1>8. ValueWritten(output', sources')
  BY <1>1, <1>2, <1>7 DEF ValueToWrite, ValueWritten
<1> QED
  BY <1>1, <1>2, <1>6, <1>8 DEF WriterOutcome, Stage

LEMMA EmptyWritten ==
  ASSUME Writes, Writer!WriteEmpty
  PROVE  WriterOutcome
<1>1. /\ writingValue /\ Writer!source.value.type # "scalar"
      /\ Writer!Children(Writer!source.value) = <<>>
      /\ output' = output \o <<Writer!Open(Writer!source.value), Writer!Close(Writer!source.value)>>
      /\ ~writingValue' /\ UNCHANGED <<root, indent, lines, sources, width, written>>
  BY DEF Writer!WriteEmpty
<1>2. ValueToWrite(output, sources) /\ ~written /\ output \in Seq(Letters)
      /\ SourceValue(Top(sources).value, output) /\ Writer!source = Top(sources)
  BY <1>1, ValueToWriteIs
<1>3. PICK v, open, close : /\ v = Top(sources).value
                            /\ open = Writer!Open(v) /\ close = Writer!Close(v)
  OBVIOUS
<1>4. v \in ContainersOf(Writable) /\ output \in Seq(Tokens)
      /\ output' = output \o <<open, close>>
  BY <1>1, <1>2, <1>3 DEF SourceValue
<1>5. Many(v) = 0
  BY <1>1, <1>2, <1>3, <1>4, ChildrenOf
<1>6. open \in Letters /\ close \in Letters
  BY <1>3, BracketsAreLetters
<1>7. /\ output' = (output \o <<open>>) \o <<close>> /\ output' \in Seq(Letters)
      /\ output \o <<open>> \in Seq(Letters)
  BY <1>2, <1>4, <1>6, AppendsTwo
<1>8. Opened(output \o <<open>>, sources, 0)
  BY <1>2, <1>3, <1>4, OpenStep DEF ValueToWrite
<1>9. output \o <<open>> \in Seq(Tokens)
  BY <1>7, LettersAreTokens
<1>10. Complete(output', sources)
  <2>1. PICK out : out = output \o <<open>>
    OBVIOUS
  <2>2. Complete(out \o <<Writer!Close(v)>>, sources)
    BY <1>2, <1>3, <1>4, <1>5, <1>8, <1>9, <2>1, EmptyStep DEF ValueToWrite
  <2> QED
    BY <1>3, <1>7, <2>1, <2>2
<1>11. ValueWritten(output', sources')
  BY <1>1, <1>2, <1>10 DEF ValueToWrite, ValueWritten
<1> QED
  BY <1>1, <1>2, <1>7, <1>11 DEF WriterOutcome, Stage

LEMMA PoppedExtended ==
  ASSUME NEW so, SourcesOK(so), NEW x, NEW t, t = Append(so, x)
  PROVE  t # <<>> /\ Len(t) > 1 /\ Popped(t) = so
<1>1. so \in Seq(SourceSet) /\ Len(so) \in Nat \ {0}
  BY DEF SourcesOK
<1>2. so \in Seq(SourceSet \cup {x})
  BY <1>1
<1> QED
  BY <1>1, <1>2 DEF Popped

LEMMA OpenWritten ==
  ASSUME Writes, Writer!WriteOpen
  PROVE  WriterOutcome
<1>1. /\ writingValue /\ Writer!source.value.type # "scalar"
      /\ Writer!Children(Writer!source.value) # <<>>
      /\ output' = Append(output, Writer!Open(Writer!source.value))
      /\ sources' = Append(sources, Writer!NoSource)
      /\ ~writingValue' /\ UNCHANGED <<root, indent, lines, written>>
  BY DEF Writer!WriteOpen
<1>2. ValueToWrite(output, sources) /\ ~written /\ output \in Seq(Letters)
      /\ SourceValue(Top(sources).value, output) /\ Writer!source = Top(sources)
  BY <1>1, ValueToWriteIs
<1>3. PICK v, open : v = Top(sources).value /\ open = Writer!Open(v)
  OBVIOUS
<1>4. v \in ContainersOf(Writable) /\ output \in Seq(Tokens)
      /\ output' = Append(output, open)
  BY <1>1, <1>2, <1>3 DEF SourceValue
<1>5. Many(v) > 0
  BY <1>1, <1>2, <1>3, <1>4, ChildrenOf
<1>6. open \in Letters
  BY <1>3, BracketsAreLetters
<1>7. output' = output \o <<open>> /\ output' \in Seq(Letters)
  BY <1>2, <1>4, <1>6, AppendsLetters
<1>8. Opened(output', sources, 0)
  BY <1>2, <1>3, <1>4, <1>7, OpenStep DEF ValueToWrite
<1>9. sources' # <<>> /\ Len(sources') > 1 /\ Popped(sources') = sources
  BY <1>1, <1>2, PoppedExtended DEF ValueToWrite
<1>10. ListToWrite(output', Popped(sources'))
  BY <1>2, <1>3, <1>4, <1>5, <1>8, <1>9 DEF ValueToWrite, ListToWrite
<1> QED
  BY <1>1, <1>2, <1>7, <1>9, <1>10 DEF WriterOutcome, Stage

-----------------------------------------------------------------------------
(* What the writer does in a list.                                         *)

\* The source below, its value v of which c children are written.
ListBelow(b, v, c) ==
  /\ SourcesOK(b) /\ v = Top(b).value /\ v \in ContainersOf(Writable) /\ Many(v) \in Nat
  /\ Writer!Below = b /\ Writer!Parent = Top(b) /\ Writer!Index = c
  /\ c \in Nat /\ Top(b) \in SourceSet /\ c = Top(b).index + 1
  /\ \/ c > 0 /\ c <= Many(v) /\ ValueWritten(output, sources) /\ Len(sources) > 1
     \/ c = 0 /\ c < Many(v) /\ Opened(output, b, 0)

LEMMA PoppedIsBelow ==
  /\ Writer!Below = Popped(sources)
  /\ Writer!Parent = Top(Popped(sources)) /\ Writer!Index = Top(Popped(sources)).index + 1
BY DEF Writer!Below, Writer!Parent, Writer!Index, Popped, Top

LEMMA BelowIsList ==
  ASSUME Writes, ~writingValue, ~written, Writer!Below # <<>>
  PROVE  \E b, v, c : ListBelow(b, v, c)
<1>1. PICK b, v, c : b = Popped(sources) /\ v = Top(b).value /\ c = Top(b).index + 1
  OBVIOUS
<1>2. Writer!Below = b /\ Writer!Parent = Top(b) /\ Writer!Index = c /\ b # <<>>
  BY <1>1, PoppedIsBelow
<1>3. CASE ValueWritten(output, sources)
  <2>1. SourcesOK(sources)
    BY <1>3 DEF ValueWritten
  <2>2. Len(sources) > 1
    BY <1>1, <1>2, <2>1 DEF SourcesOK, Popped
  <2>3. SourcesOK(b) /\ InChild(Top(b), Top(sources).value)
    BY <1>1, <2>1, <2>2, SourcesPopped DEF HasPopped
  <2>4. v \in ContainersOf(Writable) /\ Top(b).index \in 0 .. Many(v) - 1
    BY <1>1, <2>3 DEF InChild
  <2>5. Many(v) \in Nat /\ Top(b) \in SourceSet
    BY <2>3, <2>4, ContainerIs, TopSource
  <2>6. c \in Nat /\ c > 0 /\ c <= Many(v)
    BY <1>1, <2>4, <2>5
  <2>7. ListBelow(b, v, c)
    BY <1>1, <1>2, <1>3, <2>2, <2>3, <2>4, <2>5, <2>6 DEF ListBelow
  <2> QED
    BY <2>7
<1>4. CASE ListToWrite(output, Popped(sources))
  <2>1. /\ SourcesOK(b) /\ Top(b).index = -1 /\ Opened(output, b, 0)
        /\ v \in ContainersOf(Writable) /\ Many(v) > 0
    BY <1>1, <1>4 DEF ListToWrite
  <2>a. Many(v) \in Nat
    BY <2>1, ContainerIs
  <2>b. Top(b) \in SourceSet
    BY <2>1, TopSource
  <2>c. c = 0
    BY <1>1, <2>1
  <2>2. Many(v) \in Nat /\ Top(b) \in SourceSet /\ c = 0
    BY <2>a, <2>b, <2>c
  <2>3. ListBelow(b, v, c)
    BY <1>1, <1>2, <2>1, <2>2 DEF ListBelow
  <2> QED
    BY <2>3
<1> QED
  BY <1>3, <1>4 DEF Writes, Stage

LEMMA IndexMoves ==
  ASSUME NEW b, SourcesOK(b), NEW c
  PROVE  [b EXCEPT ![Len(b)].index = c] = Replaced(b, Len(b), SourceAt(Top(b).value, c))
<1>1. Top(b) = b[Len(b)] /\ Top(b) \in SourceSet
  BY TopSource
<1>2. [Top(b) EXCEPT !.index = c] = SourceAt(Top(b).value, c)
  BY <1>1, SourceMoved
<1>3. [b EXCEPT ![Len(b)].index = c] = [b EXCEPT ![Len(b)] = [b[Len(b)] EXCEPT !.index = c]]
  BY SourcesOK(b) DEF SourcesOK
<1> QED
  BY <1>1, <1>2, <1>3 DEF Replaced

\* The next child is the source.
LEMMA ChildIsNext ==
  ASSUME NEW b, NEW v, NEW c, ListBelow(b, v, c), c < Many(v), NEW out \in Seq(Letters),
         Opened(out, b, c), NEW so,
         so = Extended(Replaced(b, Len(b), SourceAt(v, c)), SourceAt(ChildAt(v, c + 1), -1))
  PROVE  /\ ValueToWrite(out \o BeforeChild(v, c + 1), so)
         /\ out \o BeforeChild(v, c + 1) \in Seq(Letters)
<1>1. /\ SourcesOK(b) /\ v = Top(b).value /\ v \in ContainersOf(Writable) /\ Many(v) \in Nat
      /\ c \in Nat
  BY DEF ListBelow
<1>2. v \in Writable /\ c \in Int
  BY <1>1, TopSource
<1>3. PICK s, w : s = SourceAt(v, c) /\ w = ChildAt(v, c + 1)
  OBVIOUS
<1>4. s \in SourceSet /\ s.value = v /\ s.index = c
  BY <1>2, <1>3, SourceIs
<1>5. c \in 0 .. Many(v) - 1 /\ c + 1 \in 1 .. Many(v)
  BY <1>1
<1>6. InChild(s, w)
  BY <1>1, <1>3, <1>4, <1>5 DEF InChild
<1>7. HasPushed(b, so, s, w)
  BY <1>1, <1>3, <1>4, <1>6, SourcesPushed
<1>8. out \in Seq(Tokens)
  BY LettersAreTokens
<1>9. Awaited(out \o BeforeChild(v, c + 1), so)
  BY <1>1, <1>3, <1>6, <1>7, <1>8, ChildStep
<1>10. SourcesOK(so) /\ Top(so) = SourceAt(w, -1)
  BY <1>7 DEF HasPushed
<1>11. Top(so).index = -1
  BY <1>10 DEF SourceAt
<1>12. out \o BeforeChild(v, c + 1) \in Seq(Letters)
  <2>1. CASE v.type = "object"
    <3>1. PICK x, y : x = NameIn(v, c + 1) /\ y = ":"
      OBVIOUS
    <3>2. x \in Letters /\ y \in Letters
      BY <1>1, <1>5, <2>1, <3>1, NamesOfChildren, LettersAreTokens
    <3>3. BeforeChild(v, c + 1) = <<x, y>>
      BY <2>1, <3>1 DEF BeforeChild
    <3> QED
      BY <3>2, <3>3, AppendsTwo
  <2>2. CASE v.type # "object"
    <3>1. BeforeChild(v, c + 1) = <<>>
      BY <2>2 DEF BeforeChild
    <3>2. out \o <<>> = out
      OBVIOUS
    <3> QED
      BY <3>1, <3>2
  <2> QED
    BY <2>1, <2>2
<1> QED
  BY <1>9, <1>10, <1>11, <1>12 DEF ValueToWrite

\* The comma before it.
CommaAt(c) == IF c > 0 THEN <<",">> ELSE <<>>

LEMMA CommaIsWritten ==
  ASSUME Writes, NEW b, NEW v, NEW c, ListBelow(b, v, c)
  PROVE  output \o CommaAt(c) \in Seq(Letters) /\ Opened(output \o CommaAt(c), b, c)
<1>1. output \in Seq(Letters) /\ output \in Seq(Tokens)
  BY LettersAreTokens DEF Writes
<1>2. CASE c > 0
  <2>1. /\ SourcesOK(sources) /\ Complete(output, sources) /\ Len(sources) > 1
        /\ b = Popped(sources) /\ c = Top(b).index + 1
    BY <1>2, PoppedIsBelow DEF ListBelow, ValueWritten
  <2>2. Opened(output \o <<",">>, b, c)
    BY <1>1, <2>1, CommaStep
  <2>3. CommaAt(c) = <<",">>
    BY <1>2 DEF CommaAt
  <2>4. output \o <<",">> \in Seq(Letters)
    BY <1>1, AppendsLetters, LettersAreTokens
  <2> QED
    BY <2>2, <2>3, <2>4
<1>3. CASE ~ (c > 0)
  <2>1. c = 0 /\ Opened(output, b, 0)
    BY <1>3 DEF ListBelow
  <2>2. CommaAt(c) = <<>> /\ output \o <<>> = output
    BY <1>1, <1>3 DEF CommaAt
  <2> QED
    BY <1>1, <2>1, <2>2
<1> QED
  BY <1>2, <1>3

\* What WriteNext writes and pushes.
LEMMA NextIsWritten ==
  ASSUME Writer!WriteNext, NEW b, NEW v, NEW c, ListBelow(b, v, c)
  PROVE  /\ c < Many(v)
         /\ output' = (output \o CommaAt(c)) \o BeforeChild(v, c + 1)
         /\ sources' = Extended(Replaced(b, Len(b), SourceAt(v, c)),
                                SourceAt(ChildAt(v, c + 1), -1))
         /\ writingValue' /\ UNCHANGED <<root, indent, width, written>>
<1>0. /\ SourcesOK(b) /\ v = Top(b).value /\ v \in ContainersOf(Writable)
      /\ Writer!Below = b /\ Writer!Parent = Top(b) /\ Writer!Index = c
  BY DEF ListBelow
<1>1. PICK child : child = Writer!Children(v)[c + 1]
  OBVIOUS
<1>2. /\ c < Len(Writer!Children(v))
      /\ output' = (output \o CommaAt(c)) \o (IF v.type = "object" THEN <<child.name, ":">> ELSE <<>>)
      /\ sources' = Append([b EXCEPT ![Len(b)].index = c],
                           Writer!Source(IF v.type = "object" THEN child.value ELSE child))
      /\ writingValue' = TRUE /\ UNCHANGED <<root, indent, width, written>>
  BY <1>0, <1>1, Zenon DEF Writer!WriteNext, CommaAt
<1>3. c < Many(v)
  BY <1>0, <1>2, ChildrenOf
<1>4. (IF v.type = "object" THEN <<child.name, ":">> ELSE <<>>) = BeforeChild(v, c + 1)
  <2>1. CASE v.type = "object"
    <3>1. child = v.properties[c + 1]
      BY <1>0, <1>1, <2>1, ChildrenOf
    <3> QED
      BY <2>1, <3>1 DEF BeforeChild, NameIn
  <2>2. CASE v.type # "object"
    BY <2>2 DEF BeforeChild
  <2> QED
    BY <2>1, <2>2
<1>5. (IF v.type = "object" THEN child.value ELSE child) = ChildAt(v, c + 1)
  <2>0. v.type \in {"object", "array"}
    BY <1>0, ContainerIs
  <2>1. CASE v.type = "object"
    <3>1. child = v.properties[c + 1]
      BY <1>0, <1>1, <2>1, ChildrenOf
    <3> QED
      BY <2>1, <3>1 DEF ChildAt
  <2>2. CASE v.type = "array"
    <3>1. child = v.elements[c + 1]
      BY <1>0, <1>1, <2>2, ChildrenOf
    <3> QED
      BY <2>2, <3>1 DEF ChildAt
  <2> QED
    BY <2>0, <2>1, <2>2
<1>6. \A w : Writer!Source(w) = SourceAt(w, -1)
  BY DEF Writer!Source, SourceAt
<1>7. [b EXCEPT ![Len(b)].index = c] = Replaced(b, Len(b), SourceAt(v, c))
  BY <1>0, IndexMoves
<1> QED
  BY <1>2, <1>3, <1>4, <1>5, <1>6, <1>7, Zenon DEF Extended

LEMMA NextWritten ==
  ASSUME Writes, Writer!WriteNext
  PROVE  WriterOutcome
<1>1. ~writingValue /\ ~written /\ Writer!Below # <<>>
  BY DEF Writer!WriteNext
<1>2. PICK b, v, c : ListBelow(b, v, c)
  BY <1>1, BelowIsList
<1>3. /\ c < Many(v)
      /\ output' = (output \o CommaAt(c)) \o BeforeChild(v, c + 1)
      /\ sources' = Extended(Replaced(b, Len(b), SourceAt(v, c)),
                             SourceAt(ChildAt(v, c + 1), -1))
      /\ writingValue' /\ UNCHANGED <<root, indent, width, written>>
  BY <1>2, NextIsWritten
<1>4. output \o CommaAt(c) \in Seq(Letters) /\ Opened(output \o CommaAt(c), b, c)
  BY <1>2, CommaIsWritten
<1>5. ValueToWrite(output', sources') /\ output' \in Seq(Letters)
  BY <1>2, <1>3, <1>4, ChildIsNext
<1> QED
  BY <1>1, <1>3, <1>5 DEF WriterOutcome, Stage

LEMMA CloseWritten ==
  ASSUME Writes, Writer!WriteClose
  PROVE  WriterOutcome
<1>1. ~writingValue /\ ~written /\ Writer!Below # <<>>
  BY DEF Writer!WriteClose
<1>2. PICK b, v, c : ListBelow(b, v, c)
  BY <1>1, BelowIsList
<1>3. /\ SourcesOK(b) /\ v = Top(b).value /\ v \in ContainersOf(Writable) /\ Many(v) \in Nat
      /\ Writer!Below = b /\ Writer!Parent = Top(b) /\ Writer!Index = c /\ c \in Nat
      /\ c = Top(b).index + 1
  BY <1>2 DEF ListBelow
<1>4. PICK close : close = Writer!Close(v)
  OBVIOUS
<1>5. /\ c >= Len(Writer!Children(v)) /\ output' = Append(output, close)
      /\ sources' = [b EXCEPT ![Len(b)].index = c]
      /\ UNCHANGED <<root, indent, writingValue, written>>
  BY <1>3, <1>4 DEF Writer!WriteClose
<1>6. c >= Many(v)
  BY <1>3, <1>5, ChildrenOf
<1>7. c = Many(v) /\ ValueWritten(output, sources) /\ Len(sources) > 1
  BY <1>2, <1>3, <1>6 DEF ListBelow
<1>8. output \in Seq(Letters) /\ close \in Letters
  BY <1>4, BracketsAreLetters DEF Writes
<1>9. output' = output \o <<close>> /\ output' \in Seq(Letters)
  BY <1>5, <1>8, AppendsLetters
<1>10. PICK s : s = SourceAt(v, c)
  OBVIOUS
<1>11. v \in Writable /\ c \in Int
  BY <1>3, TopSource
<1>12. s \in SourceSet /\ s.value = v
  BY <1>10, <1>11, SourceIs
<1>13. sources' = Replaced(b, Len(b), s)
  BY <1>3, <1>5, <1>10, IndexMoves
<1>14. HasTopped(b, sources', s)
  BY <1>3, <1>12, <1>13, SourcesTopped
<1>15. output \in Seq(Tokens)
  BY <1>8, LettersAreTokens
<1>16. b = Popped(sources)
  BY <1>3, PoppedIsBelow
<1>17. PICK t : t = sources'
  OBVIOUS
<1>18. Complete(output \o <<Writer!Close(Top(b).value)>>, t)
  <2>1. SourcesOK(sources) /\ Complete(output, sources)
    BY <1>7 DEF ValueWritten
  <2>2. PICK i : i = Top(b).index
    OBVIOUS
  <2>3. i + 1 = Many(Top(b).value) /\ s.value = Top(b).value /\ HasTopped(b, t, s)
    BY <1>3, <1>7, <1>12, <1>14, <1>17, <2>2
  <2> QED
    BY <1>7, <1>15, <1>16, <2>1, <2>2, <2>3, CloseStep
<1>19. ValueWritten(output', sources')
  BY <1>3, <1>4, <1>9, <1>14, <1>17, <1>18 DEF ValueWritten, HasTopped
<1> QED
  BY <1>1, <1>5, <1>9, <1>19 DEF WriterOutcome, Stage

LEMMA AllIsWritten ==
  ASSUME Writes, Writer!Return
  PROVE  WriterOutcome
<1>1. /\ ~writingValue /\ ~written /\ Writer!Below = <<>> /\ written'
      /\ UNCHANGED <<root, indent, output, lines, width, writingValue>>
  BY DEF Writer!Return
<1>2. Popped(sources) = <<>> /\ output \in Seq(Letters)
  BY <1>1, PoppedIsBelow DEF Writes
<1>3. ~ ListToWrite(output, Popped(sources))
  BY <1>2 DEF ListToWrite, SourcesOK
<1>4. SourcesOK(sources) /\ Complete(output, sources)
  BY <1>1, <1>3 DEF Writes, Stage, ValueWritten
<1>5. Len(sources) = 1
  <2>1. sources \in Seq(SourceSet) /\ Len(sources) \in Nat \ {0}
    BY <1>4 DEF SourcesOK
  <2>2. ~ (Len(sources) > 1)
    <3>1. ASSUME Len(sources) > 1
          PROVE  SourcesOK(Popped(sources))
      BY <1>4, <3>1, SourcesPopped DEF HasPopped
    <3>2. ~ SourcesOK(Popped(sources))
      BY <1>2 DEF SourcesOK
    <3> QED
      BY <3>1, <3>2
  <2>3. PICK n : n = Len(sources)
    OBVIOUS
  <2>4. n \in Nat \ {0} /\ ~ (n > 1)
    BY <2>1, <2>2, <2>3
  <2>5. n = 1
    BY <2>4
  <2> QED
    BY <2>3, <2>5
<1>6. output \in Seq(Tokens)
  BY <1>2, LettersAreTokens
<1>7. AllWritten(output)
  BY <1>4, <1>5, <1>6, ReturnStep DEF AllWritten
<1>8. AllWritten(output')
  BY <1>1, <1>7
<1> QED
  BY <1>1, <1>2, <1>8 DEF WriterOutcome, Stage

-----------------------------------------------------------------------------
(* The lines of the writer.                                                *)

Openers == {"{", "["}
Closers == {"}", "]"}

Places(s, T) == {i \in 1 .. Len(s) : s[i] \in T}

Depth(s) == Writer!Count(s, Openers) - Writer!Count(s, Closers)

LEMMA CountIs ==
  ASSUME NEW s, NEW T
  PROVE  Writer!Count(s, T) = Cardinality(Places(s, T))
<1>1. \A S : Writer!Cardinality(S) = Cardinality(S)
  BY Zenon DEF Writer!Cardinality, Cardinality
<1>2. Writer!Count(s, T) = Writer!Cardinality(Places(s, T))
  BY DEF Writer!Count, Places
<1> QED
  BY <1>1, <1>2

LEMMA CountAppend ==
  ASSUME NEW V, NEW s \in Seq(V), NEW t \in V, NEW T
  PROVE  /\ Writer!Count(s, T) \in Nat
         /\ t \in T => Writer!Count(Append(s, t), T) = Writer!Count(s, T) + 1
         /\ t \notin T => Writer!Count(Append(s, t), T) = Writer!Count(s, T)
<1>1. PICK u : u = Append(s, t)
  OBVIOUS
<1>2. /\ Len(u) = Len(s) + 1 /\ u[Len(s) + 1] = t /\ Len(s) \in Nat
      /\ \A i \in 1 .. Len(s) : u[i] = s[i]
  BY <1>1
<1>3. PICK n : n = Len(s)
  OBVIOUS
<1>4. IsFiniteSet(1 .. n)
  BY <1>2, <1>3, FS_Interval
<1>5. IsFiniteSet(Places(s, T))
  BY <1>3, <1>4, FS_Subset DEF Places
<1>6. Cardinality(Places(s, T)) \in Nat
  BY <1>5, FS_CardinalityType
<1>7. n + 1 \notin Places(s, T)
  BY <1>2, <1>3 DEF Places
<1>8. t \in T => Places(u, T) = Places(s, T) \cup {n + 1}
  BY <1>2, <1>3 DEF Places
<1>9. t \notin T => Places(u, T) = Places(s, T)
  BY <1>2, <1>3 DEF Places
<1>10. Cardinality(Places(s, T) \cup {n + 1}) = Cardinality(Places(s, T)) + 1
  BY <1>5, <1>7, FS_AddElement
<1>11. \A x : Writer!Count(x, T) = Cardinality(Places(x, T))
  BY CountIs
<1> QED
  BY <1>1, <1>6, <1>8, <1>9, <1>10, <1>11

LEMMA DepthAppend ==
  ASSUME NEW V, NEW s \in Seq(V), NEW t \in V
  PROVE  /\ Depth(s) \in Int
         /\ t \in Openers => Depth(Append(s, t)) = Depth(s) + 1
         /\ t \in Closers => Depth(Append(s, t)) = Depth(s) - 1
         /\ t \notin Openers \cup Closers => Depth(Append(s, t)) = Depth(s)
<1>1. PICK a, b, c, d : /\ a = Writer!Count(s, Openers) /\ b = Writer!Count(s, Closers)
                        /\ c = Writer!Count(Append(s, t), Openers)
                        /\ d = Writer!Count(Append(s, t), Closers)
  OBVIOUS
<1>2. /\ a \in Nat /\ b \in Nat
      /\ t \in Openers => c = a + 1
      /\ t \notin Openers => c = a
      /\ t \in Closers => d = b + 1
      /\ t \notin Closers => d = b
  BY <1>1, CountAppend
<1>3. ~ (t \in Openers /\ t \in Closers)
  BY DEF Openers, Closers
<1>4. Depth(s) = a - b /\ Depth(Append(s, t)) = c - d
  BY <1>1 DEF Depth
<1> QED
  BY <1>2, <1>3, <1>4

LEMMA DepthOfNothing ==
  Depth(<<>>) = 0
<1>1. \A T : Places(<<>>, T) = {}
  BY DEF Places
<1>2. \A T : Writer!Count(<<>>, T) = Cardinality(Places(<<>>, T))
  BY CountIs
<1>3. \A T : Writer!Count(<<>>, T) = 0
  BY <1>1, <1>2, FS_EmptySet
<1> QED
  BY <1>3 DEF Depth

\* A line is right: it is in the text, and has its spaces.
ClosesAt(out, n) == n < Len(out) /\ out[n + 1] \in Closers

LineOK(out, i, l) ==
  /\ l.at \in 0 .. Len(out)
  /\ l.spaces = i * (Depth(SubSeq(out, 1, l.at)) - (IF ClosesAt(out, l.at) THEN 1 ELSE 0))

Lines == [at : Nat, spaces : Int]

LinesOK(out, ls, i, iv) ==
  /\ ls \in Seq(Lines)
  /\ \A j \in 1 .. Len(ls) : LineOK(out, i, ls[j]) /\ (ls[j].at = Len(out) => iv)

LEMMA PrefixStays ==
  ASSUME NEW V, NEW s \in Seq(V), NEW t \in Seq(V), NEW n \in 0 .. Len(s)
  PROVE  SubSeq(s \o t, 1, n) = SubSeq(s, 1, n) /\ SubSeq(s, 1, Len(s)) = s
OBVIOUS

LEMMA LineStays ==
  ASSUME NEW V, NEW out \in Seq(V), NEW ts \in Seq(V), NEW i, NEW l, LineOK(out, i, l),
         l.at = Len(out) => ts = <<>> \/ ts[1] \notin Closers
  PROVE  LineOK(out \o ts, i, l)
<1>1. PICK more : more = out \o ts
  OBVIOUS
<1>2. PICK n : n = l.at
  OBVIOUS
<1>3. n \in 0 .. Len(out) /\ Len(out) \in Nat /\ Len(ts) \in Nat
  BY <1>2 DEF LineOK
<1>4. SubSeq(more, 1, n) = SubSeq(out, 1, n)
  BY <1>1, <1>3, PrefixStays
<1>5. /\ Len(more) = Len(out) + Len(ts)
      /\ \A j \in 1 .. Len(out) : more[j] = out[j]
      /\ \A j \in 1 .. Len(ts) : more[Len(out) + j] = ts[j]
  BY <1>1
<1>6. ClosesAt(more, n) <=> ClosesAt(out, n)
  <2>1. CASE n < Len(out)
    <3>1. n + 1 \in 1 .. Len(out) /\ n < Len(more)
      BY <1>3, <1>5, <2>1
    <3> QED
      BY <1>5, <2>1, <3>1 DEF ClosesAt
  <2>2. CASE n = Len(out)
    <3>1. ~ ClosesAt(out, n)
      BY <1>3, <2>2 DEF ClosesAt
    <3>2. ts = <<>> \/ ts[1] \notin Closers
      BY <1>2, <2>2
    <3>3. CASE Len(ts) = 0
      BY <1>3, <1>5, <2>2, <3>1, <3>3 DEF ClosesAt
    <3>4. CASE Len(ts) # 0
      <4>1. 1 \in 1 .. Len(ts) /\ ts # <<>>
        BY <1>3, <3>4
      <4>2. more[n + 1] = ts[1]
        BY <1>5, <2>2, <4>1
      <4> QED
        BY <3>1, <3>2, <4>1, <4>2 DEF ClosesAt
    <3> QED
      BY <3>3, <3>4
  <2> QED
    BY <1>3, <2>1, <2>2
<1>7. n \in 0 .. Len(more)
  BY <1>3, <1>5
<1> QED
  BY <1>1, <1>2, <1>4, <1>6, <1>7 DEF LineOK

\* The lines there are stay right.
LEMMA LinesStay ==
  ASSUME NEW out \in Seq(Letters), NEW ts \in Seq(Letters), NEW ls, NEW i, NEW iv, NEW jv,
         LinesOK(out, ls, i, iv), iv => ts # <<>> /\ ts[1] \notin Closers
  PROVE  LinesOK(out \o ts, ls, i, jv)
<1>1. ls \in Seq(Lines)
  BY DEF LinesOK
<1>2. ASSUME NEW j \in 1 .. Len(ls)
      PROVE  LineOK(out \o ts, i, ls[j]) /\ ls[j].at # Len(out \o ts)
  <2>1. PICK l : l = ls[j]
    OBVIOUS
  <2>2. LineOK(out, i, l) /\ (l.at = Len(out) => iv)
    BY <2>1 DEF LinesOK
  <2>3. LineOK(out \o ts, i, l)
    BY <2>2, LineStays
  <2>4. l.at # Len(out \o ts)
    <3>1. PICK n, m, k : n = l.at /\ m = Len(out) /\ k = Len(ts)
      OBVIOUS
    <3>2. m \in Nat /\ k \in Nat /\ n \in 0 .. m /\ Len(out \o ts) = m + k
      BY <2>2, <3>1 DEF LineOK
    <3>3. n = m => ts # <<>>
      BY <2>2, <3>1
    <3>4. ts # <<>> => k # 0
      BY <3>1
    <3>5. n # m + k
      BY <3>2, <3>3, <3>4
    <3> QED
      BY <3>1, <3>2, <3>5
  <2> QED
    BY <2>1, <2>3, <2>4
<1> QED
  BY <1>1, <1>2 DEF LinesOK

LEMMA LineAdded ==
  ASSUME NEW out, NEW ls, NEW i, NEW iv, NEW l \in Lines,
         LinesOK(out, ls, i, iv), LineOK(out, i, l), l.at = Len(out) => iv
  PROVE  LinesOK(out, Append(ls, l), i, iv)
<1>1. ls \in Seq(Lines)
  BY DEF LinesOK
<1>2. PICK more : more = Append(ls, l)
  OBVIOUS
<1>3. /\ more \in Seq(Lines) /\ Len(more) = Len(ls) + 1 /\ more[Len(ls) + 1] = l
      /\ \A j \in 1 .. Len(ls) : more[j] = ls[j]
  BY <1>1, <1>2
<1>4. \A j \in 1 .. Len(more) : j \in 1 .. Len(ls) \/ j = Len(ls) + 1
  BY <1>1, <1>3
<1> QED
  BY <1>2, <1>3, <1>4 DEF LinesOK

-----------------------------------------------------------------------------
(* The writer's indentation.                                               *)

Indented(i, out, w, ls, iv) == w = i * Depth(out) /\ LinesOK(out, ls, i, iv)

Aligned == indent \in Nat /\ Indented(indent, output, width, lines, writingValue)

AlignedNext == Indented(indent, output', width', lines', writingValue')

LEMMA FlatTokens ==
  /\ \A t \in Strings \cup Scalars : t \notin Openers \cup Closers
  /\ "," \notin Openers \cup Closers /\ ":" \notin Openers \cup Closers
BY ScalarsAreNoSigns DEF Openers, Closers

LEMMA BracketTokens ==
  ASSUME NEW v
  PROVE  /\ Writer!Open(v) \in Openers /\ Writer!Open(v) \notin Closers
         /\ Writer!Close(v) \in Closers
BY DEF Openers, Closers, Writer!Open, Writer!Close

LEMMA FirstOfOne ==
  ASSUME NEW V, NEW t \in V
  PROVE  <<t>> \in Seq(V) /\ <<t>> # <<>> /\ <<t>>[1] = t
OBVIOUS

LEMMA FirstOfTwo ==
  ASSUME NEW V, NEW t \in V, NEW u \in V
  PROVE  <<t, u>> \in Seq(V) /\ <<t, u>> # <<>> /\ <<t, u>>[1] = t
OBVIOUS

\* A token that is no bracket.
LEMMA FlatWritten ==
  ASSUME NEW out \in Seq(Letters), NEW t \in Letters, t \notin Openers \cup Closers
  PROVE  Depth(out \o <<t>>) = Depth(out)
<1>1. Append(out, t) = out \o <<t>>
  BY AppendsLetters
<1>2. Depth(Append(out, t)) = Depth(out)
  BY DepthAppend
<1> QED
  BY <1>1, <1>2

LEMMA ScalarIndents ==
  ASSUME Writes, Aligned, Writer!WriteScalar
  PROVE  AlignedNext
<1>1. /\ writingValue /\ Writer!source.value.type = "scalar"
      /\ output' = Append(output, Writer!source.value.token)
      /\ UNCHANGED <<lines, width>>
  BY DEF Writer!WriteScalar
<1>2. output \in Seq(Letters) /\ SourceValue(Top(sources).value, output)
      /\ Writer!source = Top(sources)
  BY <1>1, ValueToWriteIs
<1>3. PICK t : t = Top(sources).value.token
  OBVIOUS
<1>4. t \in Strings \cup Scalars
  BY <1>1, <1>2, <1>3, ScalarValueIs DEF SourceValue
<1>5. t \in Letters /\ t \notin Openers \cup Closers
  BY <1>4, LettersAreTokens, FlatTokens
<1>6. output' = output \o <<t>> /\ <<t>> \in Seq(Letters)
  BY <1>1, <1>2, <1>3, <1>5, AppendsLetters
<1>7. Depth(output') = Depth(output)
  BY <1>2, <1>5, <1>6, FlatWritten
<1>8. <<t>> # <<>> /\ <<t>>[1] \notin Closers
  BY <1>5, FirstOfOne
<1>9. LinesOK(output, lines, indent, writingValue) /\ width = indent * Depth(output)
  BY DEF Aligned, Indented
<1>10. LinesOK(output', lines, indent, writingValue')
  BY <1>2, <1>6, <1>8, <1>9, LinesStay
<1> QED
  BY <1>1, <1>7, <1>9, <1>10 DEF AlignedNext, Indented

LEMMA EmptyIndents ==
  ASSUME Writes, Aligned, Writer!WriteEmpty
  PROVE  AlignedNext
<1>1. /\ writingValue /\ UNCHANGED <<lines, width>>
      /\ output' = output \o <<Writer!Open(Writer!source.value), Writer!Close(Writer!source.value)>>
  BY DEF Writer!WriteEmpty
<1>2. output \in Seq(Letters)
  BY DEF Writes
<1>3. PICK t, u : t = Writer!Open(Writer!source.value) /\ u = Writer!Close(Writer!source.value)
  OBVIOUS
<1>4. /\ t \in Letters /\ u \in Letters /\ t \in Openers /\ t \notin Closers /\ u \in Closers
      /\ output' = output \o <<t, u>>
  BY <1>1, <1>3, BracketsAreLetters, BracketTokens
<1>5. output' = (output \o <<t>>) \o <<u>> /\ output \o <<t>> \in Seq(Letters)
      /\ <<t, u>> \in Seq(Letters) /\ <<t, u>> # <<>> /\ <<t, u>>[1] \notin Closers
  BY <1>2, <1>4, AppendsTwo, FirstOfTwo
<1>6. PICK out : out = output \o <<t>>
  OBVIOUS
<1>7. Depth(output) \in Int /\ Depth(out) = Depth(output) + 1
  <2>1. Append(output, t) = out
    BY <1>2, <1>4, <1>6, AppendsLetters
  <2> QED
    BY <1>2, <1>4, <2>1, DepthAppend
<1>8. Depth(out \o <<u>>) = Depth(out) - 1
  <2>1. Append(out, u) = out \o <<u>> /\ out \in Seq(Letters)
    BY <1>4, <1>5, <1>6, AppendsLetters
  <2> QED
    BY <1>4, <2>1, DepthAppend
<1>9. Depth(output') = Depth(output)
  <2>1. PICK d, e : d = Depth(output) /\ e = Depth(out \o <<u>>)
    OBVIOUS
  <2>2. d \in Int /\ e = d + 1 - 1
    BY <1>7, <1>8, <2>1
  <2>3. e = d
    BY <2>2
  <2>4. output' = out \o <<u>>
    BY <1>5, <1>6
  <2> QED
    BY <2>1, <2>3, <2>4
<1>10. LinesOK(output, lines, indent, writingValue) /\ width = indent * Depth(output)
  BY DEF Aligned, Indented
<1>11. LinesOK(output', lines, indent, writingValue')
  BY <1>2, <1>4, <1>5, <1>10, LinesStay
<1> QED
  BY <1>1, <1>9, <1>10, <1>11 DEF AlignedNext, Indented

LEMMA Deeper ==
  ASSUME NEW i \in Nat, NEW d \in Int
  PROVE  i * (d + 1) = i * d + i /\ i * (d - 1) = i * d - i /\ i * d \in Int
OBVIOUS

LEMMA OpenIndents ==
  ASSUME Writes, Aligned, Writer!WriteOpen
  PROVE  AlignedNext
<1>1. /\ writingValue /\ lines' = lines /\ width' = width + indent
      /\ output' = Append(output, Writer!Open(Writer!source.value))
  BY DEF Writer!WriteOpen
<1>2. output \in Seq(Letters)
  BY DEF Writes
<1>3. PICK t : t = Writer!Open(Writer!source.value)
  OBVIOUS
<1>4. t \in Letters /\ t \in Openers /\ t \notin Closers /\ output' = Append(output, t)
  BY <1>1, <1>3, BracketsAreLetters, BracketTokens
<1>5. output' = output \o <<t>> /\ <<t>> \in Seq(Letters) /\ <<t>> # <<>> /\ <<t>>[1] \notin Closers
  BY <1>2, <1>4, AppendsLetters, FirstOfOne
<1>6. Depth(output) \in Int /\ Depth(output') = Depth(output) + 1
  BY <1>2, <1>4, DepthAppend
<1>7. LinesOK(output, lines, indent, writingValue) /\ width = indent * Depth(output)
      /\ indent \in Nat
  BY DEF Aligned, Indented
<1>8. LinesOK(output', lines, indent, writingValue')
  BY <1>2, <1>5, <1>7, LinesStay
<1>9. width' = indent * Depth(output')
  BY <1>1, <1>6, <1>7, Deeper
<1> QED
  BY <1>1, <1>8, <1>9 DEF AlignedNext, Indented

LEMMA NewLineIs ==
  ASSUME NEW at, NEW spaces, Writer!NewLine(at, spaces)
  PROVE  lines' = lines \/ \E l : l = [at |-> at, spaces |-> spaces] /\ lines' = Append(lines, l)
BY DEF Writer!NewLine

LEMMA NextIndents ==
  ASSUME Writes, Aligned, Writer!WriteNext
  PROVE  AlignedNext
<1>1. ~writingValue /\ ~written /\ Writer!Below # <<>>
  BY DEF Writer!WriteNext
<1>2. PICK b, v, c : ListBelow(b, v, c)
  BY <1>1, BelowIsList
<1>3. /\ c < Many(v)
      /\ output' = (output \o CommaAt(c)) \o BeforeChild(v, c + 1)
      /\ writingValue' /\ width' = width
  BY <1>2, NextIsWritten
<1>4. PICK out : out = output \o CommaAt(c)
  OBVIOUS
<1>5. output \in Seq(Letters) /\ out \in Seq(Letters)
  BY <1>2, <1>4, CommaIsWritten DEF Writes
<1>6. Writer!NewLine(Len(out), width)
  <2>1. Writer!Index = c
    BY <1>2 DEF ListBelow
  <2> QED
    BY <1>4, <2>1 DEF Writer!WriteNext, CommaAt
<1>7. LinesOK(output, lines, indent, writingValue) /\ width = indent * Depth(output)
      /\ indent \in Nat
  BY DEF Aligned, Indented
<1>8. LinesOK(out, lines, indent, TRUE) /\ Depth(out) = Depth(output)
  <2>1. CASE c > 0
    <3>1. PICK t : t = ","
      OBVIOUS
    <3>2. out = output \o <<t>> /\ t \in Letters /\ t \notin Openers \cup Closers
      BY <1>4, <2>1, <3>1, LettersAreTokens, FlatTokens DEF CommaAt
    <3>3. <<t>> \in Seq(Letters)
      BY <3>2, FirstOfOne
    <3>4. LinesOK(out, lines, indent, TRUE)
      BY <1>1, <1>5, <1>7, <3>2, <3>3, LinesStay
    <3> QED
      BY <1>5, <3>2, <3>4, FlatWritten
  <2>2. CASE ~ (c > 0)
    <3>1. out = output
      BY <1>4, <1>5, <2>2 DEF CommaAt
    <3> QED
      BY <1>1, <1>7, <3>1 DEF LinesOK
  <2> QED
    BY <2>1, <2>2
<1>9. Depth(output) \in Int /\ Len(out) \in Nat
  <2>1. PICK t : t = ","
    OBVIOUS
  <2>2. t \in Letters
    BY <2>1, LettersAreTokens
  <2>3. Depth(output) \in Int
    BY <1>5, <2>2, DepthAppend
  <2> QED
    BY <1>5, <2>3
<1>10. LinesOK(out, lines', indent, TRUE)
  <2>1. ASSUME NEW l, l = [at |-> Len(out), spaces |-> width]
        PROVE  LinesOK(out, Append(lines, l), indent, TRUE)
    <3>1. width \in Int
      BY <1>7, <1>9, Deeper
    <3>2. l \in Lines /\ l.at = Len(out) /\ l.spaces = width
      BY <1>9, <2>1, <3>1 DEF Lines
    <3>3. SubSeq(out, 1, Len(out)) = out /\ ~ ClosesAt(out, Len(out))
      BY <1>5 DEF ClosesAt
    <3>4. LineOK(out, indent, l)
      <4>1. indent * (Depth(out) - 0) = width
        BY <1>7, <1>8, <1>9
      <4>2. Len(out) \in 0 .. Len(out)
        BY <1>9
      <4> QED
        BY <3>2, <3>3, <4>1, <4>2 DEF LineOK
    <3> QED
      BY <1>8, <3>2, <3>4, LineAdded
  <2> QED
    BY <1>6, <1>8, <2>1, NewLineIs
<1>11. LinesOK(output', lines', indent, TRUE) /\ Depth(output') = Depth(out)
  <2>1. CASE v.type = "object"
    <3>1. PICK x, y : x = NameIn(v, c + 1) /\ y = ":"
      OBVIOUS
    <3>2. c + 1 \in 1 .. Many(v) /\ v \in ContainersOf(Writable)
      BY <1>2, <1>3 DEF ListBelow
    <3>3. x \in Strings
      BY <2>1, <3>1, <3>2, NamesOfChildren
    <3>4. /\ x \in Letters /\ y \in Letters
          /\ x \notin Openers \cup Closers /\ y \notin Openers \cup Closers
      BY <3>1, <3>3, LettersAreTokens, FlatTokens
    <3>5. output' = out \o <<x, y>>
      BY <1>3, <1>4, <2>1, <3>1 DEF BeforeChild
    <3>6. output' = (out \o <<x>>) \o <<y>> /\ out \o <<x>> \in Seq(Letters)
          /\ <<x, y>> \in Seq(Letters) /\ <<x, y>> # <<>> /\ <<x, y>>[1] \notin Closers
      BY <1>5, <3>4, <3>5, AppendsTwo, FirstOfTwo
    <3>7. LinesOK(output', lines', indent, TRUE)
      BY <1>5, <1>10, <3>5, <3>6, LinesStay
    <3>8. Depth(output') = Depth(out \o <<x>>) /\ Depth(out \o <<x>>) = Depth(out)
      BY <1>5, <3>4, <3>6, FlatWritten
    <3> QED
      BY <3>7, <3>8
  <2>2. CASE v.type # "object"
    <3>1. BeforeChild(v, c + 1) = <<>> /\ out \o <<>> = out
      BY <1>5, <2>2 DEF BeforeChild
    <3>2. output' = out
      BY <1>3, <1>4, <3>1
    <3> QED
      BY <1>10, <3>2
  <2> QED
    BY <2>1, <2>2
<1> QED
  BY <1>3, <1>7, <1>8, <1>11 DEF AlignedNext, Indented

LEMMA CloseIndents ==
  ASSUME Writes, Aligned, Writer!WriteClose
  PROVE  AlignedNext
<1>1. PICK t, out : t = Writer!Close(Writer!Parent.value) /\ out = output \o <<t>>
  OBVIOUS
<1>2. /\ ~writingValue /\ ~writingValue' /\ width' = width - indent
      /\ Writer!NewLine(Len(output), width') /\ output' = Append(output, t)
  BY <1>1 DEF Writer!WriteClose
<1>3. t \in Letters /\ t \in Closers
  BY <1>1, BracketsAreLetters, BracketTokens
<1>4. output \in Seq(Letters)
  BY DEF Writes
<1>5. output' = out /\ out \in Seq(Letters) /\ <<t>> \in Seq(Letters)
  BY <1>1, <1>2, <1>3, <1>4, AppendsLetters
<1>6. Depth(output) \in Int /\ Depth(out) = Depth(output) - 1
  <2>1. out = Append(output, t)
    BY <1>2, <1>5
  <2> QED
    BY <1>3, <1>4, <2>1, DepthAppend
<1>7. LinesOK(output, lines, indent, writingValue) /\ width = indent * Depth(output)
      /\ indent \in Nat
  BY DEF Aligned, Indented
<1>8. width' = indent * Depth(out) /\ width' = indent * (Depth(output) - 1)
      /\ indent * (Depth(output) - 1) \in Int
  <2>1. PICK d : d = Depth(output)
    OBVIOUS
  <2>2. d \in Int /\ d - 1 \in Int
    BY <1>6, <2>1
  <2>3. indent * (d - 1) = indent * d - indent /\ indent * (d - 1) \in Int
    BY <1>7, <2>2, Deeper
  <2> QED
    BY <1>2, <1>6, <1>7, <2>1, <2>3
<1>9. LinesOK(out, lines, indent, FALSE)
  BY <1>1, <1>2, <1>4, <1>5, <1>7, LinesStay
<1>10. LinesOK(out, lines', indent, FALSE)
  <2>1. ASSUME NEW l, l = [at |-> Len(output), spaces |-> width']
        PROVE  LinesOK(out, Append(lines, l), indent, FALSE)
    <3>1. /\ Len(output) \in Nat /\ Len(out) = Len(output) + 1 /\ out[Len(output) + 1] = t
          /\ SubSeq(out, 1, Len(output)) = output
      BY <1>1, <1>3, <1>4, <1>5
    <3>2. PICK w : w = width'
      OBVIOUS
    <3>3. l \in Lines /\ l.at = Len(output) /\ l.spaces = w
      BY <1>8, <2>1, <3>1, <3>2 DEF Lines
    <3>4. ClosesAt(out, l.at) /\ l.at \in 0 .. Len(out) /\ l.at # Len(out)
      <4>1. PICK n, m : n = Len(output) /\ m = Len(out)
        OBVIOUS
      <4>2. n \in Nat /\ m = n + 1 /\ out[n + 1] \in Closers
        BY <1>3, <3>1, <4>1
      <4>3. n < m /\ n \in 0 .. m /\ n # m
        <5>1. n \in Nat /\ m = n + 1
          BY <4>2
        <5> QED
          BY <5>1
      <4> QED
        BY <3>3, <4>1, <4>2, <4>3 DEF ClosesAt
    <3>5. LineOK(out, indent, l)
      BY <1>8, <3>1, <3>2, <3>3, <3>4 DEF LineOK
    <3> QED
      BY <1>9, <3>3, <3>4, <3>5, LineAdded
  <2>2. PICK w : w = width'
    OBVIOUS
  <2>3. lines' = lines \/ \E l : l = [at |-> Len(output), spaces |-> w] /\ lines' = Append(lines, l)
    BY <1>2, <2>2 DEF Writer!NewLine
  <2> QED
    BY <1>9, <2>1, <2>2, <2>3
<1>11. LinesOK(output', lines', indent, writingValue')
  BY <1>2, <1>5, <1>10 DEF LinesOK
<1> QED
  BY <1>5, <1>8, <1>11 DEF AlignedNext, Indented

LEMMA ReturnIndents ==
  ASSUME Aligned, Writer!Return
  PROVE  AlignedNext
<1>1. UNCHANGED <<output, width, lines, writingValue>>
  BY DEF Writer!Return
<1> QED
  BY <1>1 DEF Aligned, AlignedNext, Indented

LEMMA IndentsRight ==
  Aligned => Writer!IndentsByDepth
<1> SUFFICES ASSUME Aligned, NEW j \in 1 .. Len(lines)
             PROVE  LET before == SubSeq(output, 1, lines[j].at)
                        closes == /\ lines[j].at < Len(output)
                                  /\ output[lines[j].at + 1] \in {"}", "]"}
                    IN  lines[j].spaces =
                          indent * (Writer!Count(before, {"{", "["}) - Writer!Count(before, {"}", "]"})
                                      - (IF closes THEN 1 ELSE 0))
  BY DEF Writer!IndentsByDepth
<1>1. LineOK(output, indent, lines[j])
  BY DEF Aligned, Indented, LinesOK
<1> QED
  BY <1>1 DEF LineOK, Depth, ClosesAt, Openers, Closers

-----------------------------------------------------------------------------
(* The round trip.                                                         *)

\* All of a text without comments is seen.
LEMMA NoCommentsSeen ==
  ASSUME TextOK, text \in Seq(Letters)
  PROVE  Seen[Len(text)] = text
<1> DEFINE IsEnd(k) == /\ Seen[k] \in Seq(Tokens) /\ Len(Seen[k]) = k
                       /\ \A i \in 1 .. k : Seen[k][i] = text[Len(text) - k + i]
           U == {k \in 0 .. Len(text) : IsEnd(k)}
<1>1. Len(text) \in Nat /\ text \in Seq(Tokens)
  BY DEF TextOK
<1>2. \A k \in 0 .. Len(text) : Seen[k] = SeenAt(Seen, text, AllowsComments, k)
  BY <1>1, SeenUnfolds
<1>3. 0 \in U
  <2>1. 0 \in 0 .. Len(text)
    BY <1>1
  <2>2. Seen[0] = SeenAt(Seen, text, AllowsComments, 0)
    BY <1>2, <2>1
  <2>3. Seen[0] = <<>>
    BY <2>2 DEF SeenAt
  <2>4. PICK e : e = <<>>
    OBVIOUS
  <2>5. e \in Seq(Tokens) /\ Len(e) = 0
    BY <2>4
  <2>6. IsEnd(0)
    BY <2>3, <2>4, <2>5
  <2> QED
    BY <2>1, <2>6
<1>4. ASSUME NEW k \in 0 .. Len(text) - 1, k \in U
      PROVE  k + 1 \in U
  <2>1. PICK n, token : n = k + 1 /\ token = text[Len(text) - n + 1]
    OBVIOUS
  <2>2. n \in 0 .. Len(text) /\ n # 0 /\ n - 1 = k /\ Len(text) - n + 1 \in 1 .. Len(text)
        /\ Len(text) - n + 1 = Len(text) - k /\ k \in Nat
    BY <1>1, <2>1
  <2>3. token \in Letters
    BY <2>1, <2>2
  <2>4. token \in Tokens /\ token # "#"
    BY <2>3 DEF Letters
  <2>5. Seen[n] = <<token>> \o Seen[k]
    BY <1>2, <2>1, <2>2, <2>4 DEF SeenAt
  <2>6. PICK s \in Seq(Tokens) : s = Seen[k]
    BY <1>4
  <2>7. Len(s) = k /\ \A i \in 1 .. k : s[i] = text[Len(text) - k + i]
    BY <1>4, <2>6
  <2>8. PICK t : t = <<token>> \o s
    OBVIOUS
  <2>9. t \in Seq(Tokens) /\ Len(t) = k + 1 /\ t[1] = token
        /\ \A i \in 1 .. k : t[1 + i] = s[i]
    BY <2>2, <2>4, <2>6, <2>7, <2>8
  <2>10. ASSUME NEW i \in 1 .. n
         PROVE  t[i] = text[Len(text) - n + i]
    <3>1. CASE i = 1
      BY <2>1, <2>9, <3>1
    <3>2. CASE i # 1
      <4>1. PICK j : j = i - 1
        OBVIOUS
      <4>2. j \in 1 .. k /\ i = 1 + j /\ Len(text) - k + j = Len(text) - n + i
        BY <1>1, <2>1, <2>2, <3>2, <4>1
      <4> QED
        BY <2>7, <2>9, <4>2
    <3> QED
      BY <3>1, <3>2
  <2>11. IsEnd(n)
    BY <2>1, <2>5, <2>6, <2>8, <2>9, <2>10
  <2> QED
    BY <2>1, <2>2, <2>11
<1> HIDE DEF U
<1>5. \A k \in 0 .. Len(text) : k \in U
  BY <1>1, <1>3, <1>4, InductionFrom
<1>6. IsEnd(Len(text))
  BY <1>1, <1>5 DEF U
<1>7. PICK s \in Seq(Tokens) : s = Seen[Len(text)]
  BY <1>6
<1>8. Len(s) = Len(text) /\ \A i \in 1 .. Len(text) : s[i] = text[Len(text) - Len(text) + i]
  BY <1>6, <1>7
<1>9. \A i \in 1 .. Len(text) : Len(text) - Len(text) + i = i
  BY <1>1
<1>10. s = text
  BY <1>1, <1>8, <1>9
<1> QED
  BY <1>7, <1>10

RoundTripInv ==
  /\ ReaderInv
  /\ \/ WriterIdle /\ status # "waiting"
     \/ Writes /\ Aligned /\ (status # "waiting" => written /\ text = output)

LEMMA SameRoot ==
  ASSUME UNCHANGED root
  PROVE  \A out, so, iv, done : Stage(out, so, iv, done)' <=> Stage(out, so, iv, done)
BY DEF Stage, ValueToWrite, ValueWritten, ListToWrite, AllWritten, SourcesOK

LEMMA RoundTripInvInit ==
  RoundTripInit => RoundTripInv
<1>1. ASSUME Init, WriterIdle
      PROVE  RoundTripInv
  BY <1>1, ReaderInvInit DEF Init, RoundTripInv
<1>2. ASSUME Writer!Init, ReaderIdle
      PROVE  RoundTripInv
  <2>1. /\ root \in Roots /\ indent \in Indents /\ output = <<>> /\ lines = <<>>
        /\ sources = <<Writer!Source(root)>> /\ width = 0 /\ writingValue = TRUE
        /\ written = FALSE
    BY <1>2 DEF Writer!Init
  <2>2. root \in Writable /\ indent \in Nat
    BY <2>1, RootsAssumption
  <2>3. sources = <<SourceAt(root, -1)>>
    BY <2>1 DEF Writer!Source, SourceAt
  <2>4. SourcesOK(sources) /\ Top(sources) = SourceAt(root, -1) /\ Awaited(<<>>, sources)
    BY <2>2, <2>3, RootStep
  <2>5. ValueToWrite(output, sources)
    BY <2>1, <2>4 DEF ValueToWrite, SourceAt
  <2>6. Writes
    BY <2>1, <2>2, <2>5 DEF Writes, Stage
  <2>7. Aligned
    <3>1. indent * 0 = 0
      BY <2>2
    <3> QED
      BY <2>1, <2>2, <3>1, DepthOfNothing DEF Aligned, Indented, LinesOK
  <2>8. ReaderInv
    <3>1. text = <<>> /\ config = NoOptions
      BY <1>2 DEF ReaderIdle
    <3>2. TextOK
      BY <3>1 DEF TextOK, NoOptions, Configs
    <3> QED
      BY <1>2, <3>2 DEF ReaderIdle, ReaderInv, ReadsExactlyJson
  <2>9. status = "waiting"
    BY <1>2 DEF ReaderIdle
  <2> QED
    BY <2>6, <2>7, <2>8, <2>9 DEF RoundTripInv
<1> QED
  BY <1>1, <1>2 DEF RoundTripInit

LEMMA WriterSteps ==
  ASSUME Writer!Next
  PROVE  /\ ~WriterIdle
         /\ Writes /\ Aligned => WriterOutcome /\ AlignedNext /\ ~written
<1>1. writingValue \/ ~written
  BY DEF Writer!Next, Writer!WriteScalar, Writer!WriteEmpty, Writer!WriteOpen, Writer!Return,
         Writer!WriteNext, Writer!WriteClose
<1>2. ~WriterIdle
  BY <1>1 DEF WriterIdle
<1>3. ASSUME Writes, Aligned
      PROVE  WriterOutcome /\ AlignedNext /\ ~written
  <2>1. ~written
    BY <1>1, <1>3 DEF Writes, Stage
  <2> QED
    BY <1>3, <2>1, ScalarWritten, EmptyWritten, OpenWritten, AllIsWritten, NextWritten,
       CloseWritten, ScalarIndents, EmptyIndents, OpenIndents, ReturnIndents, NextIndents,
       CloseIndents DEF Writer!Next
<1> QED
  BY <1>2, <1>3

LEMMA WritesNext ==
  ASSUME WriterOutcome, AlignedNext, Writes, Aligned
  PROVE  Writes' /\ Aligned'
<1>1. UNCHANGED root /\ UNCHANGED indent /\ output' \in Seq(Letters)
      /\ Stage(output', sources', writingValue', written')
  BY DEF WriterOutcome
<1>2. Stage(output, sources, writingValue, written)'
  BY <1>1, SameRoot
<1>3. Writes'
  BY <1>1, <1>2 DEF Writes
<1>4. Aligned'
  BY <1>1 DEF Aligned, AlignedNext
<1> QED
  BY <1>3, <1>4

LEMMA WritesStays ==
  ASSUME UNCHANGED writerVars
  PROVE  /\ Writes /\ Aligned => Writes' /\ Aligned'
         /\ WriterIdle => WriterIdle'
         /\ UNCHANGED <<root, output, written>>
<1>1. UNCHANGED <<root, indent, output, lines, sources, width, writingValue, written>>
  BY DEF writerVars
<1>2. ASSUME Writes, Aligned
      PROVE  Writes' /\ Aligned'
  <2>1. WriterOutcome /\ AlignedNext
    BY <1>1, <1>2 DEF Writes, Aligned, WriterOutcome, AlignedNext
  <2> QED
    BY <1>2, <2>1, WritesNext
<1>3. WriterIdle => WriterIdle'
  BY <1>1 DEF WriterIdle
<1> QED
  BY <1>1, <1>2, <1>3

LEMMA RoundTripInvNext ==
  RoundTripInv /\ [RoundTripNext]_<<vars, writerVars>> => RoundTripInv'
<1> SUFFICES ASSUME RoundTripInv, [RoundTripNext]_<<vars, writerVars>>
             PROVE  RoundTripInv'
  OBVIOUS
<1>0. ReaderInv
  BY DEF RoundTripInv
<1>1. ASSUME Writer!Next, UNCHANGED vars
      PROVE  RoundTripInv'
  <2>1. ReaderInv' /\ UNCHANGED status
    BY <1>0, <1>1, ReaderInvStays DEF vars
  <2>2. Writes /\ Aligned /\ ~written /\ status = "waiting"
    BY <1>1, WriterSteps DEF RoundTripInv
  <2>3. Writes' /\ Aligned'
    BY <1>1, <2>2, WriterSteps, WritesNext
  <2> QED
    BY <2>1, <2>2, <2>3 DEF RoundTripInv
<1>2. ASSUME ReadOutput
      PROVE  RoundTripInv'
  <2>1. /\ status = "waiting" /\ written /\ text' = output /\ status' = "reading"
        /\ UNCHANGED writerVars
    BY <1>2 DEF ReadOutput
  <2>2. Writes /\ Aligned
    BY <2>1 DEF RoundTripInv
  <2>3. output \in Seq(Tokens)
    BY <2>2, LettersAreTokens DEF Writes
  <2>4. ReaderInv'
    BY <1>0, <1>2, <2>3, ReaderInvOutput
  <2>5. Writes' /\ Aligned' /\ UNCHANGED <<output, written>>
    BY <2>1, <2>2, WritesStays
  <2> QED
    BY <2>1, <2>4, <2>5 DEF RoundTripInv
<1>3. ASSUME Next, UNCHANGED writerVars
      PROVE  RoundTripInv'
  <2>1. ReaderInv'
    BY <1>0, <1>3, ReaderInvNext
  <2>2. Outcome
    BY <1>0, <1>3, NextOutcome
  <2>3. status' # "waiting" /\ text' = text
    BY <2>2 DEF Outcome, StaysSo
  <2>4. status = "reading"
    BY <1>3 DEF Next, CloseAfterComma, ReadName, CloseArray, OpenObject, OpenArray, ReadScalar,
                ReadEnd, AfterProperty, AfterElement
  <2>5. /\ Writes /\ Aligned => Writes' /\ Aligned'
        /\ WriterIdle => WriterIdle'
        /\ UNCHANGED <<output, written>>
    BY <1>3, WritesStays
  <2> QED
    BY <2>1, <2>3, <2>4, <2>5 DEF RoundTripInv
<1>4. ASSUME UNCHANGED vars, UNCHANGED writerVars
      PROVE  RoundTripInv'
  <2>1. ReaderInv' /\ UNCHANGED <<status, text>>
    BY <1>0, <1>4, ReaderInvStays DEF vars
  <2>2. /\ Writes /\ Aligned => Writes' /\ Aligned'
        /\ WriterIdle => WriterIdle'
        /\ UNCHANGED <<output, written>>
    BY <1>4, WritesStays
  <2> QED
    BY <2>1, <2>2 DEF RoundTripInv
<1> QED
  BY <1>1, <1>2, <1>3, <1>4 DEF RoundTripNext

LEMMA ReadsBack ==
  RoundTripInv => RoundTrip
<1> SUFFICES ASSUME RoundTripInv
             PROVE  RoundTrip
  OBVIOUS
<1>1. ASSUME root # NoValue, status \in {"read", "failed"}
      PROVE  /\ status = "read"
             /\ Value[1] = IF config.propertiesAsIs THEN root ELSE Normal[root]
  <2>1. Writes /\ written /\ text = output
    BY <1>1 DEF RoundTripInv, WriterIdle
  <2>2. AllWritten(output) /\ text \in Seq(Letters) /\ root \in Writable
    BY <2>1 DEF Writes, Stage
  <2>3. TextOK /\ ReadsExactlyJson
    BY DEF RoundTripInv, ReaderInv
  <2>4. Seen[Len(text)] = text
    BY <2>2, <2>3, NoCommentsSeen
  <2>5. (~config.disallowTrailingCommas) \in BOOLEAN /\ config.propertiesAsIs \in BOOLEAN
    BY <2>3 DEF TextOK, Configs
  <2>6. Meaning = {ReadAs(config.propertiesAsIs)[root]}
    BY <2>1, <2>2, <2>4, <2>5 DEF Meaning, AllWritten
  <2>7. status # "failed"
    BY <2>3, <2>6 DEF ReadsExactlyJson
  <2>8. Value[1] = ReadAs(config.propertiesAsIs)[root]
    BY <1>1, <2>3, <2>6, <2>7 DEF ReadsExactlyJson
  <2>9. ReadAs(config.propertiesAsIs)[root] = IF config.propertiesAsIs THEN root ELSE Normal[root]
    BY <2>2 DEF ReadAs
  <2> QED
    BY <1>1, <2>7, <2>8, <2>9
<1>2. Writer!IndentsByDepth
  <2>1. CASE WriterIdle
    <3>1. 1 .. Len(lines) = {}
      BY <2>1 DEF WriterIdle
    <3> QED
      BY <3>1 DEF Writer!IndentsByDepth
  <2>2. CASE Aligned
    BY <2>2, IndentsRight
  <2> QED
    BY <2>1, <2>2 DEF RoundTripInv
<1> QED
  BY <1>1, <1>2 DEF RoundTrip

\* So it does with what WriteJson has written, and with texts from elsewhere beside it.
THEOREM ReadsJsonInRoundTrips ==
  RoundTripSpec => []ReadsExactlyJson
<1>1. RoundTripInv => ReadsExactlyJson
  BY DEF RoundTripInv, ReaderInv
<1> QED
  BY <1>1, RoundTripInvInit, RoundTripInvNext, PTL DEF RoundTripSpec

\* What WriteJson writes of a value of any size and depth, ReadJson reads as that value
\* under every configuration, also the strictest, with the properties of its objects sorted
\* unless they are to stay as they are; and at all times every line that has been written
\* begins with as many indentations as brackets are open there.
THEOREM RoundTrips ==
  RoundTripSpec => []RoundTrip
BY ReadsBack, RoundTripInvInit, RoundTripInvNext, PTL DEF RoundTripSpec
=============================================================================
