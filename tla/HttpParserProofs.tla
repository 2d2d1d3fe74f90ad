-------------------------- MODULE HttpParserProofs --------------------------
(***************************************************************************)
(* Proofs about HttpParser.  For every well-formed wire and every way to   *)
(* split it into reads, the messages that leave the parser are the ones    *)
(* that were sent.                                                         *)
(***************************************************************************)
EXTENDS HttpParser, SequenceTheorems, FiniteSetTheorems, WellFoundedInduction, TLAPS

-----------------------------------------------------------------------------
(* Induction on the naturals.                                              *)

\* Every nonempty set of naturals has a least element.
LEMMA LeastNatural ==
  ASSUME NEW T \in SUBSET Nat, T # {}
  PROVE  \E x \in T : \A y \in T : x <= y
<1> DEFINE R == {p \in Nat \X Nat : p[1] < p[2]}
<1>1. IsWellFoundedOn(R, Nat)
  BY NatLessThanWellFounded DEF OpToRel
<1>2. PICK x \in T : \A y \in T : ~ (<<y, x>> \in R)
  BY <1>1, WFMin
<1>3. ASSUME NEW y \in T
      PROVE  x <= y
  <2>1. ~ (<<y, x>>[1] < <<y, x>>[2])
    BY <1>2
  <2> QED
    BY <2>1
<1> QED
  BY <1>3

\* A set of naturals with 0 and with every successor has all.
LEMMA Induction ==
  ASSUME NEW T \in SUBSET Nat, 0 \in T, \A n \in T : n + 1 \in T
  PROVE  T = Nat
<1> SUFFICES ASSUME Nat \ T # {}
             PROVE  FALSE
  OBVIOUS
<1>1. PICK x \in Nat \ T : \A y \in Nat \ T : x <= y
  BY LeastNatural
<1>2. x - 1 \in T
  BY <1>1
<1> QED
  BY <1>1, <1>2

-----------------------------------------------------------------------------
(* Sorted.                                                                 *)

\* s lists the elements of S in ascending order.
Lists(s, S) ==
  /\ s \in Seq(S)
  /\ \A x \in S : \E i \in 1 .. Len(s) : s[i] = x
  /\ \A i, j \in 1 .. Len(s) : i < j => s[i] < s[j]

\* It has as many elements as the set.
LEMMA ListLength ==
  ASSUME NEW S \in SUBSET Nat, NEW s \in Seq(S), Lists(s, S)
  PROVE  Cardinality(S) = Len(s)
<1>1. ASSUME NEW i \in 1 .. Len(s), NEW j \in 1 .. Len(s), s[i] = s[j]
      PROVE  i = j
  <2>1. s[i] \in Nat /\ s[j] \in Nat
    BY ElementOfSeq
  <2>2. ~ (i < j) /\ ~ (j < i)
    BY <1>1, <2>1 DEF Lists
  <2> QED
    BY <2>2
<1>2. s \in Bijection(1 .. Len(s), S)
  BY <1>1 DEF Lists, Bijection, Injection, IsInjective, Surjection
<1> QED
  BY <1>2, FS_CountingElements DEF ExistsBijection

\* There is one such list at most.
LEMMA OneList ==
  ASSUME NEW S \in SUBSET Nat, NEW s \in Seq(S), NEW t \in Seq(S), Lists(s, S), Lists(t, S)
  PROVE  s = t
<1> DEFINE D == {i \in 1 .. Len(s) : s[i] # t[i]}
<1>1. Len(s) = Len(t)
  BY ListLength
<1>2. ASSUME D # {}
      PROVE  FALSE
  <2>0. D \in SUBSET Nat
    OBVIOUS
  <2>1. PICK i \in D : \A j \in D : i <= j
    <3> HIDE DEF D
    <3> QED
      BY <1>2, <2>0, LeastNatural
  <2>2. /\ i \in 1 .. Len(s) /\ s[i] # t[i]
        /\ s[i] \in S /\ t[i] \in S /\ s[i] \in Nat /\ t[i] \in Nat
    <3>1. i \in 1 .. Len(s) /\ i \in 1 .. Len(t) /\ s[i] # t[i]
      BY <1>1
    <3>2. s[i] \in S /\ t[i] \in S
      BY <3>1, ElementOfSeq
    <3> QED
      BY <3>1, <3>2
  <2>3. PICK j \in 1 .. Len(s) : t[j] = s[i]
    BY <1>1, <2>2 DEF Lists
  <2>4. PICK k \in 1 .. Len(s) : s[k] = t[i]
    BY <1>1, <2>2 DEF Lists
  <2>5. j < i => s[j] = t[j]
    BY <2>1
  <2>6. k < i => s[k] = t[k]
    BY <2>1
  <2>7. j # i /\ k # i
    BY <2>2, <2>3, <2>4
  <2>8. j > i
    BY <2>2, <2>3, <2>5, <2>7 DEF Lists
  <2>9. k > i
    BY <1>1, <2>2, <2>4, <2>6, <2>7 DEF Lists
  <2>10. t[i] < s[i]
    BY <1>1, <2>2, <2>3, <2>8 DEF Lists
  <2>11. s[i] < t[i]
    BY <2>2, <2>4, <2>9 DEF Lists
  <2> QED
    BY <2>2, <2>10, <2>11
<1>3. \A i \in 1 .. Len(s) : s[i] = t[i]
  BY <1>2
<1> QED
  BY <1>1, <1>3, SeqEqual

\* A greater number goes to the end.
LEMMA ListMore ==
  ASSUME NEW S \in SUBSET Nat, NEW s \in Seq(S), Lists(s, S),
         NEW m \in Nat, \A x \in S : x < m
  PROVE  /\ Append(s, m) \in Seq(S \cup {m})
         /\ Lists(Append(s, m), S \cup {m})
<1>1. s \in Seq(S \cup {m})
  OBVIOUS
<1>2. /\ Append(s, m) \in Seq(S \cup {m})
      /\ Len(Append(s, m)) = Len(s) + 1
      /\ \A i \in 1 .. Len(s) : Append(s, m)[i] = s[i]
      /\ Append(s, m)[Len(s) + 1] = m
  BY <1>1, AppendProperties
<1>3. \A i \in 1 .. Len(s) : s[i] \in S
  BY ElementOfSeq
<1> DEFINE t == Append(s, m)
<1> HIDE DEF t
<1>4. /\ t \in Seq(S \cup {m}) /\ Len(t) = Len(s) + 1
      /\ \A i \in 1 .. Len(s) : t[i] = s[i]
      /\ t[Len(s) + 1] = m
  BY <1>2 DEF t
<1>5. \A x \in S \cup {m} : \E i \in 1 .. Len(t) : t[i] = x
  BY <1>4 DEF Lists
<1>6. ASSUME NEW i \in 1 .. Len(t), NEW j \in 1 .. Len(t), i < j
      PROVE  t[i] < t[j]
  <2>1. i \in 1 .. Len(s) /\ t[i] = s[i] /\ t[i] \in S
    BY <1>3, <1>4, <1>6
  <2>2. CASE j = Len(s) + 1
    BY <1>4, <2>1, <2>2
  <2>3. CASE j \in 1 .. Len(s)
    BY <1>4, <1>6, <2>1, <2>3 DEF Lists
  <2> QED
    BY <1>4, <2>2, <2>3
<1> QED
  BY <1>4, <1>5, <1>6 DEF Lists, t

\* Every set of numbers up to n has its list.
LEMMA ListExists ==
  ASSUME NEW n \in Nat, NEW S \in SUBSET (1 .. n)
  PROVE  \E s \in Seq(S) : Lists(s, S)
<1> DEFINE T == {k \in Nat : \A U \in SUBSET (1 .. k) : \E s \in Seq(U) : Lists(s, U)}
<1>1. 0 \in T
  <2> SUFFICES ASSUME NEW U \in SUBSET (1 .. 0)
               PROVE  \E s \in Seq(U) : Lists(s, U)
    OBVIOUS
  <2>1. U = {}
    OBVIOUS
  <2>2. << >> \in Seq(U) /\ Lists(<< >>, U)
    BY <2>1 DEF Lists
  <2> QED
    BY <2>2
<1>2. ASSUME NEW k \in T
      PROVE  k + 1 \in T
  <2>0. k + 1 \in Nat
    OBVIOUS
  <2> SUFFICES ASSUME NEW U \in SUBSET (1 .. k + 1)
               PROVE  \E s \in Seq(U) : Lists(s, U)
    BY <2>0
  <2>1. CASE k + 1 \in U
    <3>1. U \ {k + 1} \in SUBSET (1 .. k)
      OBVIOUS
    <3>2. PICK s \in Seq(U \ {k + 1}) : Lists(s, U \ {k + 1})
      BY <3>1
    <3>3. \A x \in U \ {k + 1} : x < k + 1
      BY <3>1
    <3>4. U \ {k + 1} \in SUBSET Nat
      BY <3>1
    <3>5. (U \ {k + 1}) \cup {k + 1} = U
      BY <2>1
    <3> HIDE DEF T
    <3>7. /\ Append(s, k + 1) \in Seq((U \ {k + 1}) \cup {k + 1})
          /\ Lists(Append(s, k + 1), (U \ {k + 1}) \cup {k + 1})
      BY <2>0, <3>2, <3>3, <3>4, ListMore
    <3> QED
      BY <3>5, <3>7
  <2>2. CASE k + 1 \notin U
    <3>1. U \in SUBSET (1 .. k)
      BY <2>2
    <3> QED
      BY <3>1
  <2> QED
    BY <2>1, <2>2
<1>3. T = Nat
  <2> HIDE DEF T
  <2>1. T \in SUBSET Nat
    BY DEF T
  <2> QED
    BY <1>1, <1>2, <2>1, Induction
<1> QED
  BY <1>3

\* Sorted is that list.
LEMMA SortedIs ==
  ASSUME NEW S \in SUBSET Nat, NEW s \in Seq(S), Lists(s, S)
  PROVE  Sorted(S) = s
<1>1. Cardinality(S) = Len(s)
  BY ListLength
<1>2. /\ s \in [1 .. Cardinality(S) -> S]
      /\ \A i, j \in DOMAIN s : i < j => s[i] < s[j]
  BY <1>1 DEF Lists
<1> DEFINE t == Sorted(S)
<1>3. /\ t \in [1 .. Cardinality(S) -> S]
      /\ \A i, j \in DOMAIN t : i < j => t[i] < t[j]
  BY <1>2 DEF Sorted
<1> HIDE DEF t
<1>4. Len(s) \in Nat
  OBVIOUS
<1>5. t \in Seq(S) /\ Len(t) = Len(s)
  BY <1>1, <1>3, <1>4
<1>6. ASSUME NEW i \in 1 .. Len(s), NEW j \in 1 .. Len(s), t[i] = t[j]
      PROVE  i = j
  <2>1. t[i] \in Nat /\ t[j] \in Nat /\ i \in DOMAIN t /\ j \in DOMAIN t
    BY <1>1, <1>3, <1>6
  <2>2. ~ (i < j) /\ ~ (j < i)
    BY <1>3, <1>6, <2>1
  <2> QED
    BY <2>2
<1>7. t \in Injection(1 .. Len(s), S)
  BY <1>1, <1>3, <1>6 DEF Injection, IsInjective
<1>8. IsFiniteSet(S)
  <2>1. \A x \in S : \E i \in 1 .. Len(s) : s[i] = x
    BY DEF Lists
  <2>2. s \in Surjection(1 .. Len(s), S)
    BY <2>1 DEF Surjection
  <2> QED
    BY <1>4, <2>2, FS_NatSurjection DEF ExistsSurjection
<1>9. Cardinality(1 .. Len(s)) = Len(s)
  BY <1>4, FS_Interval
<1>10. t \in Surjection(1 .. Len(s), S)
  BY <1>1, <1>7, <1>8, <1>9, FS_Injection
<1>11. Lists(t, S)
  BY <1>1, <1>3, <1>5, <1>10 DEF Lists, Surjection
<1> QED
  BY <1>5, <1>11, OneList DEF t

\* What Sorted returns.
LEMMA SortedLists ==
  ASSUME NEW n \in Nat, NEW S \in SUBSET (1 .. n)
  PROVE  /\ Sorted(S) \in Seq(S) /\ Sorted(S) \in Seq(Nat)
         /\ Lists(Sorted(S), S)
<1>1. PICK s \in Seq(S) : Lists(s, S)
  BY ListExists
<1>2. S \in SUBSET Nat
  OBVIOUS
<1>3. Sorted(S) = s
  BY <1>1, <1>2, SortedIs
<1> QED
  BY <1>1, <1>2, <1>3, SeqMonotonic

LEMMA SortedNothing == Sorted({}) = << >>
<1>1. << >> \in Seq({}) /\ Lists(<< >>, {})
  BY DEF Lists
<1> QED
  BY <1>1, SortedIs

\* The next number is appended.
LEMMA SortedMore ==
  ASSUME NEW m \in Nat, NEW S \in SUBSET (1 .. m)
  PROVE  Sorted(S \cup {m + 1}) = Append(Sorted(S), m + 1)
<1>1. Sorted(S) \in Seq(S) /\ Lists(Sorted(S), S)
  BY SortedLists
<1>2. S \in SUBSET Nat /\ m + 1 \in Nat /\ \A x \in S : x < m + 1
  OBVIOUS
<1>3. /\ Append(Sorted(S), m + 1) \in Seq(S \cup {m + 1})
      /\ Lists(Append(Sorted(S), m + 1), S \cup {m + 1})
  BY <1>1, <1>2, ListMore
<1>4. S \cup {m + 1} \in SUBSET Nat
  BY <1>2
<1> QED
  BY <1>3, <1>4, SortedIs

\* The next n numbers are appended.
LEMMA SortedRun ==
  ASSUME NEW m \in Nat, NEW n \in Nat, NEW S \in SUBSET (1 .. m)
  PROVE  Sorted(S \cup ((m + 1) .. (m + n))) = Sorted(S) \o [i \in 1 .. n |-> m + i]
<1> DEFINE U == S \cup ((m + 1) .. (m + n))
           s == Sorted(S)
           r == [i \in 1 .. n |-> m + i]
           t == s \o r
<1>1. s \in Seq(S) /\ Lists(s, S)
  BY SortedLists
<1>2. s \in Seq(U)
  BY <1>1, SeqMonotonic
<1>3. r \in Seq(U) /\ Len(r) = n /\ \A i \in 1 .. n : r[i] = m + i
  OBVIOUS
<1> HIDE DEF s, r
<1>4. /\ t \in Seq(U) /\ Len(t) = Len(s) + n
      /\ \A i \in 1 .. Len(s) + n : t[i] = IF i <= Len(s) THEN s[i] ELSE m + (i - Len(s))
  <2>1. /\ t \in Seq(U) /\ Len(t) = Len(s) + Len(r)
        /\ \A i \in 1 .. Len(s) + Len(r) : t[i] = IF i <= Len(s) THEN s[i] ELSE r[i - Len(s)]
    BY <1>2, <1>3, ConcatProperties
  <2>2. Len(s) \in Nat
    BY <1>1
  <2> QED
    BY <1>3, <2>1, <2>2
<1> HIDE DEF t
<1>5. Len(s) \in Nat /\ \A i \in 1 .. Len(s) : s[i] \in 1 .. m
  <2>1. \A i \in 1 .. Len(s) : s[i] \in S
    BY <1>1, ElementOfSeq
  <2>2. Len(s) \in Nat
    BY <1>1, LenProperties
  <2> QED
    BY <2>1, <2>2
<1>6. ASSUME NEW x \in U
      PROVE  \E i \in 1 .. Len(t) : t[i] = x
  <2>1. CASE x \in S
    <3>1. PICK i \in 1 .. Len(s) : s[i] = x
      BY <1>1, <2>1 DEF Lists
    <3> QED
      BY <1>4, <1>5, <3>1
  <2>2. CASE x \in (m + 1) .. (m + n)
    <3>1. x - m + Len(s) \in 1 .. Len(t) /\ t[x - m + Len(s)] = x
      BY <1>4, <1>5, <2>2
    <3> QED
      BY <3>1
  <2> QED
    BY <2>1, <2>2
<1>7. ASSUME NEW i \in 1 .. Len(t), NEW j \in 1 .. Len(t), i < j
      PROVE  t[i] < t[j]
  <2>1. CASE j <= Len(s)
    BY <1>1, <1>4, <1>5, <1>7, <2>1 DEF Lists
  <2>2. CASE j > Len(s)
    BY <1>4, <1>5, <1>7, <2>2
  <2> QED
    BY <1>4, <1>5, <2>1, <2>2
<1>8. U \in SUBSET Nat
  OBVIOUS
<1>9. Lists(t, U)
  BY <1>4, <1>6, <1>7 DEF Lists
<1> HIDE DEF U
<1>10. Sorted(U) = t
  BY <1>4, <1>8, <1>9, SortedIs
<1> QED
  BY <1>10 DEF U, t, s, r

\* Where the last element of a set is in its list.
LEMMA SortedLast ==
  ASSUME NEW n \in Nat, NEW S \in SUBSET (1 .. n), NEW m \in S, \A x \in S : x <= m
  PROVE  /\ Len(Sorted(S)) \in Nat \ {0}
         /\ Sorted(S)[Len(Sorted(S))] = m
         /\ \A h \in 1 .. Len(Sorted(S)) :
              /\ Sorted(S)[h] \in S
              /\ h # Len(Sorted(S)) => Sorted(S)[h] < m
<1> DEFINE s == Sorted(S)
<1>1. s \in Seq(S) /\ Lists(s, S)
  BY SortedLists
<1> HIDE DEF s
<1>2. Len(s) \in Nat /\ \A h \in 1 .. Len(s) : s[h] \in S
  BY <1>1, ElementOfSeq, LenProperties
<1>3. PICK i \in 1 .. Len(s) : s[i] = m
  BY <1>1 DEF Lists
<1>4. i = Len(s)
  <2>0. Len(s) \in 1 .. Len(s)
    BY <1>2, <1>3
  <2>1. s[Len(s)] <= m /\ s[Len(s)] \in Nat
    <3>1. s[Len(s)] \in S
      BY <1>2, <2>0
    <3>2. \A x \in S : x \in Nat /\ x <= m
      OBVIOUS
    <3> QED
      BY <3>1, <3>2
  <2>2. ~ (i < Len(s))
    BY <1>1, <1>2, <1>3, <2>1 DEF Lists
  <2> QED
    BY <1>2, <1>3, <2>2
<1>5. \A h \in 1 .. Len(s) : h # Len(s) => s[h] < m
  BY <1>1, <1>2, <1>3, <1>4 DEF Lists
<1>6. Len(s) \in Nat \ {0}
  BY <1>2, <1>3
<1> QED
  BY <1>2, <1>3, <1>4, <1>5, <1>6 DEF s

-----------------------------------------------------------------------------
(* Names and values on a wire.                                             *)

\* After is where the name ends.
LEMMA AfterIs ==
  ASSUME NEW w \in Seq(Units), NEW i \in 1 .. Len(w), w[i] = "field"
  PROVE  /\ After(w, i) \in (i + 1) .. (Len(w) + 1)
         /\ \A k \in i .. (After(w, i) - 1) : w[k] = "field"
         /\ After(w, i) <= Len(w) => w[After(w, i)] # "field"
<1> DEFINE E == {e \in (i + 1) .. (Len(w) + 1) : e <= Len(w) => w[e] # "field"}
<1>1. Len(w) \in Nat
  BY LenProperties
<1>2. Len(w) + 1 \in E
  BY <1>1
<1>3. E \in SUBSET Nat
  BY <1>1
<1>4. PICK e \in E : \A d \in E : e <= d
  <2> HIDE DEF E
  <2> QED
    BY <1>2, <1>3, LeastNatural
<1>5. e \in (i + 1) .. (Len(w) + 1) /\ (e <= Len(w) => w[e] # "field")
  OBVIOUS
<1>6. ASSUME NEW k \in i .. (e - 1)
      PROVE  w[k] = "field"
  <2>1. CASE k = i
    BY <2>1
  <2>2. CASE k # i
    <3>1. k \in (i + 1) .. (Len(w) + 1) /\ k <= Len(w) /\ ~ (e <= k)
      BY <1>1, <1>5, <2>2
    <3>2. k \notin E
      BY <1>4, <3>1
    <3> QED
      BY <3>1, <3>2
  <2> QED
    BY <2>1, <2>2
<1> HIDE DEF E
<1>7. Run(w, "field", i) = i .. (e - 1)
  <2>1. ASSUME NEW j \in Run(w, "field", i)
        PROVE  j \in i .. (e - 1)
    <3>1. j \in i .. Len(w) /\ \A k \in i .. j : w[k] = "field"
      BY DEF Run, Positions
    <3>2. ~ (e <= j)
      BY <1>1, <1>5, <3>1
    <3> QED
      BY <1>1, <1>5, <3>1, <3>2
  <2>2. ASSUME NEW j \in i .. (e - 1)
        PROVE  j \in Run(w, "field", i)
    <3>1. j \in i .. Len(w) /\ \A k \in i .. j : k \in i .. (e - 1)
      BY <1>1, <1>5
    <3> QED
      BY <1>6, <3>1 DEF Run, Positions
  <2> QED
    BY <2>1, <2>2
<1>8. Cardinality(i .. (e - 1)) = e - i
  BY <1>1, <1>5, FS_Interval
<1>9. After(w, i) = e
  BY <1>1, <1>5, <1>7, <1>8 DEF After
<1> QED
  BY <1>5, <1>6, <1>9

\* a is where the message begins that the first n units are in.
IsStart(w, a, n) ==
  a \in 1 .. n /\ w[a] = "begin" /\ \A k \in (a + 1) .. n : w[k] # "begin"

\* A name has a beginning in its message.
LEMMA NameBegins ==
  ASSUME NEW w \in Seq(Units), NEW n \in 1 .. Len(w), NEW a \in 1 .. n, w[a] # "field",
         w[n] = "field"
  PROVE  \E i \in Starts(w, "field", a, n) : \A k \in i .. n : w[k] = "field"
<1> DEFINE D == {i \in a .. n : \A k \in i .. n : w[k] = "field"}
<1>1. n \in D
  BY LenProperties
<1>2. D \in SUBSET Nat
  BY LenProperties
<1>3. PICK i \in D : \A j \in D : i <= j
  <2> HIDE DEF D
  <2> QED
    BY <1>1, <1>2, LeastNatural
<1>4. i \in a .. n /\ \A k \in i .. n : w[k] = "field"
  OBVIOUS
<1>5. i # a
  BY <1>4
<1>6. i - 1 \in a .. n /\ ~ (i <= i - 1)
  BY <1>4, <1>5
<1>7. w[i - 1] # "field"
  <2>1. i - 1 \notin D
    BY <1>3, <1>6
  <2>2. PICK k \in (i - 1) .. n : w[k] # "field"
    BY <1>6, <2>1
  <2>3. k = i - 1
    BY <1>4, <2>2
  <2> QED
    BY <2>2, <2>3
<1>8. i \in Starts(w, "field", a, n)
  BY <1>4, <1>7 DEF Starts, Positions
<1> QED
  BY <1>4, <1>8

\* And so has a value, after its name.
LEMMA ValueFollows ==
  ASSUME NEW w, Reported(w), NEW n \in 1 .. Len(w), NEW a \in 1 .. n, w[a] = "begin",
         w[n] = "value"
  PROVE  \E i \in Starts(w, "field", a, n) :
           After(w, i) \in (i + 1) .. n /\ \A k \in After(w, i) .. n : w[k] = "value"
<1> DEFINE D == {j \in a .. n : \A k \in j .. n : w[k] = "value"}
<1>0. w \in Seq(Units) /\ Len(w) \in Nat
  BY DEF Reported
<1>1. n \in D
  BY <1>0
<1>2. D \in SUBSET Nat
  BY <1>0
<1>3. PICK j \in D : \A k \in D : j <= k
  <2> HIDE DEF D
  <2> QED
    BY <1>1, <1>2, LeastNatural
<1>4. j \in a .. n /\ \A k \in j .. n : w[k] = "value"
  OBVIOUS
<1>5. j # a
  BY <1>4
<1>6. j - 1 \in a .. n /\ ~ (j <= j - 1)
  BY <1>4, <1>5
<1>7. w[j - 1] # "value"
  <2>1. j - 1 \notin D
    BY <1>3, <1>6
  <2>2. PICK k \in (j - 1) .. n : w[k] # "value"
    BY <1>6, <2>1
  <2>3. k = j - 1
    BY <1>4, <2>2
  <2> QED
    BY <2>2, <2>3
<1>8. w[j - 1] = "field"
  <2>1. w[j] = "value" /\ j \in 1 .. Len(w)
    BY <1>0, <1>4
  <2> QED
    BY <1>7, <2>1 DEF Reported
<1> HIDE DEF D
<1>9. PICK i \in Starts(w, "field", a, j - 1) : \A k \in i .. (j - 1) : w[k] = "field"
  <2>1. j - 1 \in 1 .. Len(w) /\ a \in 1 .. (j - 1) /\ w[a] # "field"
    BY <1>0, <1>6
  <2> QED
    BY <1>0, <1>8, <2>1, NameBegins
<1>10. i \in a .. (j - 1) /\ w[i] = "field" /\ i \in Starts(w, "field", a, n)
  BY <1>4, <1>9 DEF Starts, Positions
<1>11. After(w, i) = j
  <2>1. i \in 1 .. Len(w)
    BY <1>0, <1>6, <1>10
  <2>2. /\ After(w, i) \in (i + 1) .. (Len(w) + 1)
        /\ \A k \in i .. (After(w, i) - 1) : w[k] = "field"
        /\ After(w, i) <= Len(w) => w[After(w, i)] # "field"
    BY <1>0, <1>10, <2>1, AfterIs
  <2>3. w[j] # "field" /\ j \in Nat /\ j <= Len(w)
    BY <1>0, <1>4
  <2>4. ~ (After(w, i) > j)
    BY <1>0, <1>10, <2>1, <2>2, <2>3
  <2>5. ~ (After(w, i) < j)
    BY <1>0, <1>9, <1>10, <2>1, <2>2, <2>3
  <2> QED
    BY <1>0, <2>2, <2>3, <2>4, <2>5
<1> QED
  BY <1>4, <1>10, <1>11

-----------------------------------------------------------------------------
(* What the parser should have of a message after n units.                 *)

\* A message of which something has come.
Open(w, n) == n > 0 /\ w[n] # "complete"

\* What has come of the header whose name begins at i.
HeaderUpTo(w, i, n) ==
  [name     |-> Sorted({j \in Run(w, "field", i) : j <= n}),
   value    |-> Sorted({j \in Run(w, "value", After(w, i)) : j <= n}),
   hasValue |-> After(w, i) <= n]

HeadersUpTo(w, a, n) ==
  LET names == Sorted(Starts(w, "field", a, n))
  IN  [h \in 1 .. Len(names) |-> HeaderUpTo(w, names[h], n)]

\* What has come of the message that begins at a.
Received(w, a, n) ==
  [url             |-> Sorted(Positions(w, "url", a, n)),
   headers         |-> HeadersUpTo(w, a, n),
   content         |-> Sorted(Positions(w, "body", a, n)),
   shouldKeepAlive |-> \E j \in a .. n : w[j] = "headers",
   present         |-> TRUE]

\* The next k units are of kind u, in the message that begins at a.
Grows(w, a, n, k, u) ==
  /\ n \in 1 .. Len(w) /\ a \in 1 .. n /\ w[a] = "begin"
  /\ k \in Nat \ {0} /\ n + k <= Len(w)
  /\ \A i \in (n + 1) .. (n + k) : w[i] = u

\* The positions of the k units after the first n.
Coming(n, k) == [i \in 1 .. k |-> n + i]

\* What OnHeaderField and OnHeaderValue do to the headers with the text t.
NewName(hs, t)   == Append(hs, [name |-> t, value |-> << >>, hasValue |-> FALSE])
MoreName(hs, t)  == [hs EXCEPT ![Len(hs)].name = @ \o t]
MoreValue(hs, t) == [hs EXCEPT ![Len(hs)].value = @ \o t, ![Len(hs)].hasValue = TRUE]

LEMMA GrowsTypes ==
  ASSUME NEW w, Reported(w), NEW a, NEW n, NEW k, NEW u, Grows(w, a, n, k, u)
  PROVE  /\ w \in Seq(Units) /\ Len(w) \in Nat
         /\ n \in Nat /\ n + k \in Nat /\ k \in Nat /\ a \in Nat /\ 1 <= a /\ a <= n
         /\ n + 1 <= n + k /\ n + k <= Len(w)
         /\ w[n + 1] = u
         /\ n \in 1 .. Len(w) /\ a \in 1 .. n
<1>1. w \in Seq(Units) /\ Len(w) \in Nat
  BY DEF Reported
<1> QED
  BY <1>1 DEF Grows

\* The positions of a kind grow when it is that kind that comes.
LEMMA PositionsGrow ==
  ASSUME NEW w, Reported(w), NEW a, NEW n, NEW k, NEW u, Grows(w, a, n, k, u)
  PROVE  /\ Positions(w, u, a, n + k) = Positions(w, u, a, n) \cup ((n + 1) .. (n + k))
         /\ \A kind : kind # u => Positions(w, kind, a, n + k) = Positions(w, kind, a, n)
         /\ \A kind : Positions(w, kind, a, n) \in SUBSET (1 .. n)
BY GrowsTypes DEF Grows, Positions

\* And so do the beginnings of names.
LEMMA StartsGrow ==
  ASSUME NEW w, Reported(w), NEW a, NEW n, NEW k, NEW u, Grows(w, a, n, k, u)
  PROVE  /\ Starts(w, "field", a, n) \in SUBSET (1 .. n)
         /\ u # "field" \/ w[n] = "field" =>
              Starts(w, "field", a, n + k) = Starts(w, "field", a, n)
         /\ u = "field" /\ w[n] # "field" =>
              Starts(w, "field", a, n + k) = Starts(w, "field", a, n) \cup {n + 1}
<1>1. /\ w \in Seq(Units) /\ Len(w) \in Nat
      /\ n \in Nat /\ n + k \in Nat /\ k \in Nat /\ a \in Nat /\ 1 <= a /\ a <= n
      /\ n + 1 <= n + k /\ n + k <= Len(w)
      /\ w[n + 1] = u
  BY GrowsTypes
<1>2. \A i \in (n + 1) .. (n + k) : w[i] = u
  BY DEF Grows
<1>3. \A b, i : i \in Starts(w, "field", a, b) <=>
                  i \in a .. b /\ w[i] = "field" /\ w[i - 1] # "field"
  BY DEF Starts, Positions
<1>4. \A i \in (n + 2) .. (n + k) : w[i - 1] = u
  BY <1>1, <1>2
<1>5. \A i : i \in a .. (n + k) <=> i \in a .. n \/ i \in (n + 1) .. (n + k)
  BY <1>1
<1>6. ASSUME u # "field" \/ w[n] = "field"
      PROVE  Starts(w, "field", a, n + k) = Starts(w, "field", a, n)
  <2>1. ASSUME NEW i \in (n + 1) .. (n + k)
        PROVE  ~ (w[i] = "field" /\ w[i - 1] # "field")
    <3>1. CASE i = n + 1
      BY <1>1, <1>6, <3>1
    <3>2. CASE i \in (n + 2) .. (n + k)
      BY <1>2, <1>4, <2>1, <3>2
    <3> QED
      BY <1>1, <3>1, <3>2
  <2> QED
    BY <1>3, <1>5, <2>1
<1>7. ASSUME u = "field", w[n] # "field"
      PROVE  Starts(w, "field", a, n + k) = Starts(w, "field", a, n) \cup {n + 1}
  <2>1. ASSUME NEW i \in (n + 1) .. (n + k)
        PROVE  w[i] = "field" /\ w[i - 1] # "field" <=> i = n + 1
    <3>1. CASE i = n + 1
      <4>1. i - 1 = n
        BY <1>1, <3>1
      <4> QED
        BY <1>1, <1>7, <3>1, <4>1
    <3>2. CASE i \in (n + 2) .. (n + k)
      BY <1>1, <1>4, <1>7, <3>2
    <3> QED
      BY <1>1, <3>1, <3>2
  <2>2. n + 1 \in (n + 1) .. (n + k)
    BY <1>1
  <2> QED
    BY <1>3, <1>5, <2>1, <2>2
<1>8. Starts(w, "field", a, n) \in SUBSET (1 .. n)
  BY <1>1, <1>3
<1> QED
  BY <1>6, <1>7, <1>8

\* Where a name of the message begins.
LEMMA StartIs ==
  ASSUME NEW w \in Seq(Units), NEW n \in 1 .. Len(w), NEW a \in 1 .. n,
         NEW i \in Starts(w, "field", a, n)
  PROVE  /\ i \in 1 .. Len(w) /\ i <= n /\ w[i] = "field" /\ w[i - 1] # "field"
         /\ After(w, i) \in (i + 1) .. (Len(w) + 1)
         /\ \A j \in i .. (After(w, i) - 1) : w[j] = "field"
         /\ After(w, i) <= Len(w) => w[After(w, i)] # "field"
<1>1. i \in 1 .. Len(w) /\ i <= n /\ w[i] = "field" /\ w[i - 1] # "field"
  BY LenProperties DEF Starts, Positions
<1> QED
  BY <1>1, AfterIs

\* A header whose value does not go on stays.
LEMMA HeaderStays ==
  ASSUME NEW w, Reported(w), NEW a, NEW n, NEW k, NEW u, Grows(w, a, n, k, u),
         NEW i \in Starts(w, "field", a, n), After(w, i) <= n,
         \A j \in Run(w, "value", After(w, i)) : j <= n + k => j <= n
  PROVE  HeaderUpTo(w, i, n + k) = HeaderUpTo(w, i, n)
<1>1. w \in Seq(Units) /\ Len(w) \in Nat /\ n \in Nat /\ k \in Nat
  BY GrowsTypes
<1>2. /\ i \in 1 .. Len(w) /\ After(w, i) \in (i + 1) .. (Len(w) + 1)
      /\ After(w, i) <= Len(w) => w[After(w, i)] # "field"
  BY StartIs, GrowsTypes
<1>3. n <= Len(w)
  BY GrowsTypes
<1>4. ASSUME NEW j \in Run(w, "field", i)
      PROVE  j \in Nat /\ j <= n
  <2>1. j \in i .. Len(w) /\ \A l \in i .. j : w[l] = "field"
    BY DEF Run, Positions
  <2>2. ~ (After(w, i) <= j)
    BY <1>1, <1>2, <1>3, <2>1
  <2> QED
    BY <1>1, <1>2, <2>1, <2>2
<1>5. \A j \in Run(w, "value", After(w, i)) : j \in Nat
  BY <1>1, <1>2 DEF Run, Positions
<1>6. {j \in Run(w, "field", i) : j <= n + k} = {j \in Run(w, "field", i) : j <= n}
  BY <1>1, <1>4
<1>7. {j \in Run(w, "value", After(w, i)) : j <= n + k} =
      {j \in Run(w, "value", After(w, i)) : j <= n}
  BY <1>1, <1>5
<1>8. (After(w, i) <= n + k) = (After(w, i) <= n)
  BY <1>1, <1>2
<1> QED
  BY <1>6, <1>7, <1>8 DEF HeaderUpTo

Header == [name : Seq(Nat), value : Seq(Nat), hasValue : BOOLEAN]

LEMMA MoreOfName ==
  ASSUME NEW x \in Header, NEW z \in Header, NEW s \in Seq(Nat),
         z.name = x.name \o s, z.value = x.value, z.hasValue = x.hasValue
  PROVE  z = [x EXCEPT !.name = @ \o s]
BY DEF Header

LEMMA MoreOfValue ==
  ASSUME NEW x \in Header, NEW z \in Header, NEW s \in Seq(Nat),
         z.name = x.name, z.value = x.value \o s, z.hasValue
  PROVE  z = [x EXCEPT !.value = @ \o s, !.hasValue = TRUE]
BY DEF Header

LEMMA HeaderTypes ==
  ASSUME NEW w \in Seq(Units), NEW n \in Nat, NEW i \in 1 .. Len(w), w[i] = "field"
  PROVE  /\ {j \in Run(w, "field", i) : j <= n} \in SUBSET (1 .. n)
         /\ {j \in Run(w, "value", After(w, i)) : j <= n} \in SUBSET (1 .. n)
         /\ HeaderUpTo(w, i, n) \in Header
<1>1. Len(w) \in Nat
  BY LenProperties
<1>2. After(w, i) \in (i + 1) .. (Len(w) + 1)
  BY <1>1, AfterIs
<1>3. {j \in Run(w, "field", i) : j <= n} \in SUBSET (1 .. n)
  BY <1>1 DEF Run, Positions
<1>4. {j \in Run(w, "value", After(w, i)) : j <= n} \in SUBSET (1 .. n)
  BY <1>1, <1>2 DEF Run, Positions
<1>5. /\ Sorted({j \in Run(w, "field", i) : j <= n}) \in Seq(Nat)
      /\ Sorted({j \in Run(w, "value", After(w, i)) : j <= n}) \in Seq(Nat)
  BY <1>1, <1>3, <1>4, SortedLists
<1>6. (After(w, i) <= n) \in BOOLEAN
  OBVIOUS
<1> QED
  BY <1>3, <1>4, <1>5, <1>6 DEF HeaderUpTo, Header

LEMMA HeadersTypes ==
  ASSUME NEW w \in Seq(Units), NEW n \in 1 .. Len(w), NEW a \in 1 .. n
  PROVE  /\ HeadersUpTo(w, a, n) \in Seq(Header)
         /\ Len(HeadersUpTo(w, a, n)) = Len(Sorted(Starts(w, "field", a, n)))
         /\ \A h \in 1 .. Len(HeadersUpTo(w, a, n)) :
              /\ Sorted(Starts(w, "field", a, n))[h] \in Starts(w, "field", a, n)
              /\ HeadersUpTo(w, a, n)[h] =
                   HeaderUpTo(w, Sorted(Starts(w, "field", a, n))[h], n)
<1> DEFINE S == Starts(w, "field", a, n)
           s == Sorted(S)
<1>1. n \in Nat /\ S \in SUBSET (1 .. n)
  BY LenProperties DEF Starts, Positions
<1>2. s \in Seq(S)
  <2> HIDE DEF S
  <2> QED
    BY <1>1, SortedLists
<1> HIDE DEF s
<1>3. Len(s) \in Nat /\ \A h \in 1 .. Len(s) : s[h] \in S
  BY <1>2, LenProperties, ElementOfSeq
<1>4. \A i \in S : HeaderUpTo(w, i, n) \in Header
  BY <1>1, StartIs, HeaderTypes
<1> HIDE DEF S
<1>5. [h \in 1 .. Len(s) |-> HeaderUpTo(w, s[h], n)] \in Seq(Header)
  BY <1>3, <1>4
<1>6. HeadersUpTo(w, a, n) = [h \in 1 .. Len(s) |-> HeaderUpTo(w, s[h], n)]
  BY DEF HeadersUpTo, s, S
<1>7. /\ HeadersUpTo(w, a, n) \in Seq(Header)
      /\ Len(HeadersUpTo(w, a, n)) = Len(s)
      /\ \A h \in 1 .. Len(s) :
              /\ s[h] \in S
              /\ HeadersUpTo(w, a, n)[h] = HeaderUpTo(w, s[h], n)
  BY <1>3, <1>5, <1>6
<1> QED
  BY <1>7 DEF s, S

\* A header is complete when the next one begins.
LEMMA EarlierStays ==
  ASSUME NEW w, Reported(w), NEW a, NEW n, NEW k, NEW u, Grows(w, a, n, k, u),
         NEW i \in Starts(w, "field", a, n), NEW m \in Starts(w, "field", a, n), i < m
  PROVE  HeaderUpTo(w, i, n + k) = HeaderUpTo(w, i, n)
<1>1. w \in Seq(Units) /\ Len(w) \in Nat /\ n \in Nat /\ k \in Nat /\ n <= Len(w)
  BY GrowsTypes
<1>2. /\ i \in 1 .. Len(w) /\ After(w, i) \in (i + 1) .. (Len(w) + 1)
      /\ \A j \in i .. (After(w, i) - 1) : w[j] = "field"
  BY StartIs, GrowsTypes
<1>3. m \in 1 .. Len(w) /\ m <= n /\ w[m] = "field" /\ w[m - 1] # "field"
  BY StartIs, GrowsTypes
<1>4. After(w, i) < m
  BY <1>1, <1>2, <1>3
<1>5. ASSUME NEW j \in Run(w, "value", After(w, i))
      PROVE  j <= n
  <2>1. j \in After(w, i) .. Len(w) /\ \A l \in After(w, i) .. j : w[l] = "value"
    BY DEF Run, Positions
  <2>2. ~ (m <= j)
    BY <1>1, <1>2, <1>3, <1>4, <2>1
  <2> QED
    BY <1>1, <1>2, <1>3, <2>1, <2>2
<1>6. After(w, i) <= n
  BY <1>1, <1>2, <1>3, <1>4
<1> QED
  BY <1>5, <1>6, HeaderStays

\* What is no part of a header changes none.
LEMMA HeadersStay ==
  ASSUME NEW w, Reported(w), NEW a, NEW n, NEW k, NEW u, Grows(w, a, n, k, u),
         u \notin {"field", "value", "noValue", "error"}
  PROVE  HeadersUpTo(w, a, n + k) = HeadersUpTo(w, a, n)
<1>1. /\ w \in Seq(Units) /\ Len(w) \in Nat /\ n \in Nat /\ k \in Nat /\ 1 <= n
      /\ n + 1 <= n + k /\ n + k <= Len(w) /\ w[n + 1] = u
  BY GrowsTypes
<1>2. w[n] # "field"
  BY <1>1 DEF Reported
<1>3. ASSUME NEW i \in Starts(w, "field", a, n)
      PROVE  HeaderUpTo(w, i, n + k) = HeaderUpTo(w, i, n)
  <2>1. /\ i \in 1 .. Len(w) /\ i <= n /\ After(w, i) \in (i + 1) .. (Len(w) + 1)
        /\ \A j \in i .. (After(w, i) - 1) : w[j] = "field"
    BY StartIs, GrowsTypes
  <2>2. After(w, i) <= n
    BY <1>1, <1>2, <2>1
  <2>3. ASSUME NEW j \in Run(w, "value", After(w, i)), j <= n + k
        PROVE  j <= n
    <3>1. j \in After(w, i) .. Len(w) /\ w[j] = "value"
      BY DEF Run, Positions
    <3>2. j \notin (n + 1) .. (n + k)
      BY <3>1 DEF Grows
    <3> QED
      BY <1>1, <2>1, <2>3, <3>1, <3>2
  <2> QED
    BY <2>2, <2>3, HeaderStays
<1>4. Starts(w, "field", a, n + k) = Starts(w, "field", a, n)
  BY StartsGrow
<1> DEFINE s == Sorted(Starts(w, "field", a, n))
<1>5. \A h \in 1 .. Len(s) : s[h] \in Starts(w, "field", a, n)
  BY HeadersTypes, GrowsTypes
<1> HIDE DEF s
<1>6. [h \in 1 .. Len(s) |-> HeaderUpTo(w, s[h], n + k)] =
      [h \in 1 .. Len(s) |-> HeaderUpTo(w, s[h], n)]
  BY <1>3, <1>5
<1> QED
  BY <1>4, <1>6 DEF HeadersUpTo, s

\* The last header is that of a name that nothing but its own value follows.
LEMMA LastHeader ==
  ASSUME NEW w, Reported(w), NEW a, NEW n, NEW k, NEW u, Grows(w, a, n, k, u),
         NEW m \in Starts(w, "field", a, n),
         \A i \in Starts(w, "field", a, n) : i <= m
  PROVE  /\ Len(HeadersUpTo(w, a, n)) \in Nat \ {0}
         /\ HeadersUpTo(w, a, n)[Len(HeadersUpTo(w, a, n))] = HeaderUpTo(w, m, n)
         /\ Starts(w, "field", a, n + k) = Starts(w, "field", a, n) =>
              HeadersUpTo(w, a, n + k) =
                [HeadersUpTo(w, a, n) EXCEPT
                  ![Len(HeadersUpTo(w, a, n))] = HeaderUpTo(w, m, n + k)]
<1> DEFINE S == Starts(w, "field", a, n)
           s == Sorted(S)
           H == HeadersUpTo(w, a, n)
<1>1. n \in Nat /\ S \in SUBSET (1 .. n)
  BY GrowsTypes, StartsGrow
<1>2. /\ Len(s) \in Nat \ {0} /\ s[Len(s)] = m
      /\ \A h \in 1 .. Len(s) : s[h] \in S /\ (h # Len(s) => s[h] < m)
  <2> HIDE DEF S
  <2>1. m \in S /\ \A i \in S : i <= m
    BY DEF S
  <2> QED
    BY <1>1, <2>1, SortedLast
<1>3. /\ H \in Seq(Header) /\ Len(H) = Len(s)
      /\ \A h \in 1 .. Len(s) : H[h] = HeaderUpTo(w, s[h], n)
  BY HeadersTypes, GrowsTypes
<1> HIDE DEF s, H
<1>4. ASSUME Starts(w, "field", a, n + k) = S
      PROVE  HeadersUpTo(w, a, n + k) = [H EXCEPT ![Len(H)] = HeaderUpTo(w, m, n + k)]
  <2>1. HeadersUpTo(w, a, n + k) = [h \in 1 .. Len(s) |-> HeaderUpTo(w, s[h], n + k)]
    BY <1>4 DEF HeadersUpTo, s
  <2>2. \A h \in 1 .. Len(s) :
          h # Len(s) => HeaderUpTo(w, s[h], n + k) = HeaderUpTo(w, s[h], n)
    BY <1>2, EarlierStays
  <2>3. H \in [1 .. Len(s) -> Header]
    BY <1>3
  <2>4. \A h \in 1 .. Len(s) : HeaderUpTo(w, s[h], n + k) =
          [H EXCEPT ![Len(H)] = HeaderUpTo(w, m, n + k)][h]
    BY <1>2, <1>3, <2>2, <2>3
  <2>5. [H EXCEPT ![Len(H)] = HeaderUpTo(w, m, n + k)] =
        [h \in 1 .. Len(s) |-> [H EXCEPT ![Len(H)] = HeaderUpTo(w, m, n + k)][h]]
    BY <2>3
  <2> QED
    BY <2>1, <2>4, <2>5
<1>5. H[Len(H)] = HeaderUpTo(w, m, n)
  BY <1>2, <1>3
<1> QED
  BY <1>2, <1>3, <1>4, <1>5 DEF H

\* A name that follows something else begins a header.
LEMMA NameStarts ==
  ASSUME NEW w, Reported(w), NEW a, NEW n, NEW k, Grows(w, a, n, k, "field"),
         w[n] # "field"
  PROVE  /\ HeadersUpTo(w, a, n + k) =
              NewName(HeadersUpTo(w, a, n), Coming(n, k))
         /\ HeadersUpTo(w, a, n) # << >> =>
              HeadersUpTo(w, a, n)[Len(HeadersUpTo(w, a, n))].hasValue
<1> DEFINE S == Starts(w, "field", a, n)
           s == Sorted(S)
           H == HeadersUpTo(w, a, n)
           new == [name |-> [i \in 1 .. k |-> n + i], value |-> << >>, hasValue |-> FALSE]
<1>1. /\ w \in Seq(Units) /\ Len(w) \in Nat /\ n \in Nat /\ k \in Nat /\ 1 <= n
      /\ n + 1 <= n + k /\ n + k <= Len(w)
  BY GrowsTypes
<1>2. \A i \in (n + 1) .. (n + k) : w[i] = "field"
  BY DEF Grows
<1>3. ASSUME NEW i \in S
      PROVE  After(w, i) <= n /\ HeaderUpTo(w, i, n + k) = HeaderUpTo(w, i, n)
  <2>1. /\ i \in 1 .. Len(w) /\ i <= n /\ After(w, i) \in (i + 1) .. (Len(w) + 1)
        /\ \A j \in i .. (After(w, i) - 1) : w[j] = "field"
    BY StartIs, GrowsTypes
  <2>2. After(w, i) <= n
    BY <1>1, <2>1
  <2>3. ASSUME NEW j \in Run(w, "value", After(w, i)), j <= n + k
        PROVE  j <= n
    <3>1. j \in After(w, i) .. Len(w) /\ w[j] = "value"
      BY DEF Run, Positions
    <3>2. j \notin (n + 1) .. (n + k)
      BY <1>2, <3>1
    <3> QED
      BY <1>1, <2>1, <2>3, <3>1, <3>2
  <2> QED
    BY <2>2, <2>3, HeaderStays
<1>4. HeaderUpTo(w, n + 1, n + k) = new
  <2>0. n + 1 \in 1 .. Len(w) /\ w[n + 1] = "field"
    BY <1>1, <1>2
  <2>1. /\ After(w, n + 1) \in (n + 2) .. (Len(w) + 1)
        /\ After(w, n + 1) <= Len(w) => w[After(w, n + 1)] # "field"
    BY <1>1, <2>0, AfterIs
  <2>2. After(w, n + 1) > n + k
    BY <1>1, <1>2, <2>1
  <2>3. {j \in Run(w, "field", n + 1) : j <= n + k} = {} \cup ((n + 1) .. (n + k))
    BY <1>1, <1>2 DEF Run, Positions
  <2>4. Sorted({} \cup ((n + 1) .. (n + k))) = Sorted({}) \o [i \in 1 .. k |-> n + i]
    <3>1. {} \in SUBSET (1 .. n)
      OBVIOUS
    <3> QED
      BY <1>1, <3>1, SortedRun
  <2>5. Sorted({}) \o [i \in 1 .. k |-> n + i] = [i \in 1 .. k |-> n + i]
    <3>1. [i \in 1 .. k |-> n + i] \in Seq(Nat)
      BY <1>1
    <3> QED
      BY <3>1, SortedNothing, ConcatEmptySeq
  <2>6. {j \in Run(w, "value", After(w, n + 1)) : j <= n + k} = {}
    BY <1>1, <2>1, <2>2 DEF Run, Positions
  <2>7. (After(w, n + 1) <= n + k) = FALSE
    BY <1>1, <2>1, <2>2
  <2> QED
    BY <2>3, <2>4, <2>5, <2>6, <2>7, SortedNothing DEF HeaderUpTo
<1>5. Starts(w, "field", a, n + k) = S \cup {n + 1} /\ S \in SUBSET (1 .. n)
  BY StartsGrow
<1>6. /\ H \in Seq(Header) /\ Len(H) = Len(s)
      /\ \A h \in 1 .. Len(s) : s[h] \in S /\ H[h] = HeaderUpTo(w, s[h], n)
  BY HeadersTypes, GrowsTypes
<1>7. s \in Seq(Nat)
  <2> HIDE DEF S
  <2> QED
    BY <1>1, <1>5, SortedLists
<1>8. Sorted(S \cup {n + 1}) = Append(s, n + 1)
  <2> HIDE DEF S
  <2> QED
    BY <1>1, <1>5, SortedMore
<1> HIDE DEF s, S, H, new
<1>9. HeadersUpTo(w, a, n + k) = Append(H, new)
  <2>1. HeadersUpTo(w, a, n + k) =
        [h \in 1 .. Len(Append(s, n + 1)) |-> HeaderUpTo(w, Append(s, n + 1)[h], n + k)]
    BY <1>5, <1>8 DEF HeadersUpTo
  <2>2. /\ Len(Append(s, n + 1)) = Len(s) + 1 /\ Len(s) \in Nat
        /\ \A h \in 1 .. Len(s) : Append(s, n + 1)[h] = s[h]
        /\ Append(s, n + 1)[Len(s) + 1] = n + 1
    BY <1>1, <1>7, AppendProperties, LenProperties
  <2>3. new \in Header
    <3>1. [i \in 1 .. k |-> n + i] \in Seq(Nat) /\ << >> \in Seq(Nat)
      BY <1>1
    <3> QED
      BY <3>1 DEF new, Header
  <2>4. /\ Append(H, new) \in Seq(Header) /\ Len(Append(H, new)) = Len(H) + 1
        /\ \A h \in 1 .. Len(H) : Append(H, new)[h] = H[h]
        /\ Append(H, new)[Len(H) + 1] = new
    BY <1>6, <2>3, AppendProperties
  <2>5. \A h \in 1 .. Len(s) + 1 :
          HeaderUpTo(w, Append(s, n + 1)[h], n + k) = Append(H, new)[h]
    <3>1. ASSUME NEW h \in 1 .. Len(s)
          PROVE  HeaderUpTo(w, Append(s, n + 1)[h], n + k) = Append(H, new)[h]
      BY <1>3, <1>6, <2>2, <2>4
    <3>2. HeaderUpTo(w, Append(s, n + 1)[Len(s) + 1], n + k) = Append(H, new)[Len(s) + 1]
      BY <1>4, <1>6, <2>2, <2>4
    <3>3. \A h \in 1 .. Len(s) + 1 : h \in 1 .. Len(s) \/ h = Len(s) + 1
      BY <2>2
    <3> QED
      BY <3>1, <3>2, <3>3
  <2>6. Append(H, new) = [h \in 1 .. Len(s) + 1 |-> Append(H, new)[h]]
    BY <1>6, <2>4, LenProperties
  <2> QED
    BY <2>1, <2>2, <2>5, <2>6
<1>10. ASSUME H # << >>
       PROVE  H[Len(H)].hasValue
  <2>1. Len(H) \in 1 .. Len(s)
    BY <1>6, <1>10, EmptySeq
  <2>2. H[Len(H)] = HeaderUpTo(w, s[Len(H)], n) /\ After(w, s[Len(H)]) <= n
    BY <1>3, <1>6, <2>1
  <2>3. HeaderUpTo(w, s[Len(H)], n).hasValue = (After(w, s[Len(H)]) <= n)
    BY DEF HeaderUpTo
  <2> QED
    BY <2>2, <2>3
<1>11. [i \in 1 .. k |-> n + i] = Coming(n, k)
  BY DEF Coming
<1> QED
  BY <1>9, <1>10, <1>11 DEF H, new, NewName

\* A name that goes on: its header has no value yet.
LEMMA NameGoesOn ==
  ASSUME NEW w, Reported(w), NEW a, NEW n, NEW k, Grows(w, a, n, k, "field"),
         w[n] = "field"
  PROVE  /\ HeadersUpTo(w, a, n) # << >>
         /\ ~ HeadersUpTo(w, a, n)[Len(HeadersUpTo(w, a, n))].hasValue
         /\ HeadersUpTo(w, a, n + k) =
              MoreName(HeadersUpTo(w, a, n), Coming(n, k))
<1> DEFINE S == Starts(w, "field", a, n)
           H == HeadersUpTo(w, a, n)
           r == [i \in 1 .. k |-> n + i]
<1>1. /\ w \in Seq(Units) /\ Len(w) \in Nat /\ n \in Nat /\ k \in Nat /\ 1 <= n
      /\ n + 1 <= n + k /\ n + k <= Len(w) /\ a \in 1 .. n /\ n \in 1 .. Len(w)
  <2>1. a \in 1 .. n /\ n \in 1 .. Len(w)
    BY DEF Grows
  <2> QED
    BY <2>1, GrowsTypes
<1>2. \A i \in (n + 1) .. (n + k) : w[i] = "field"
  BY DEF Grows
<1>3. PICK m \in S : \A i \in m .. n : w[i] = "field"
  <2>1. w[a] # "field"
    BY DEF Grows
  <2> QED
    BY <1>1, <2>1, NameBegins
<1>4. /\ m \in 1 .. Len(w) /\ m <= n /\ w[m] = "field"
      /\ After(w, m) \in (m + 1) .. (Len(w) + 1)
      /\ After(w, m) <= Len(w) => w[After(w, m)] # "field"
  BY StartIs, GrowsTypes
<1>5. \A i \in S : i <= m
  <2>1. ASSUME NEW i \in S, i > m
        PROVE  FALSE
    <3>1. i \in 1 .. Len(w) /\ i <= n /\ w[i - 1] # "field"
      BY StartIs, GrowsTypes
    <3>2. i - 1 \in m .. n
      BY <1>1, <1>4, <2>1, <3>1
    <3> QED
      BY <1>3, <3>1, <3>2
  <2>2. \A i \in S : i \in Nat
    BY StartIs, GrowsTypes
  <2> QED
    BY <1>4, <2>1, <2>2
<1>6. After(w, m) > n + k
  <2>1. \A i \in m .. (n + k) : w[i] = "field"
    BY <1>1, <1>2, <1>3, <1>4
  <2> QED
    BY <1>1, <1>4, <2>1
<1>7. Starts(w, "field", a, n + k) = S
  BY StartsGrow
<1>8. /\ Len(H) \in Nat \ {0} /\ H[Len(H)] = HeaderUpTo(w, m, n)
      /\ HeadersUpTo(w, a, n + k) = [H EXCEPT ![Len(H)] = HeaderUpTo(w, m, n + k)]
  BY <1>5, <1>7, LastHeader
<1>9. H \in Seq(Header)
  BY HeadersTypes, GrowsTypes
<1>10. HeaderUpTo(w, m, n + k) = [HeaderUpTo(w, m, n) EXCEPT !.name = @ \o r]
  <2>1. {j \in Run(w, "field", m) : j <= n + k} =
        {j \in Run(w, "field", m) : j <= n} \cup ((n + 1) .. (n + k))
    <3>1. \A i \in m .. (n + k) : w[i] = "field"
      BY <1>1, <1>2, <1>3, <1>4
    <3>2. ASSUME NEW j \in (n + 1) .. (n + k)
          PROVE  j \in Run(w, "field", m)
      <4>1. j \in m .. Len(w) /\ \A i \in m .. j : i \in m .. (n + k)
        BY <1>1, <1>4
      <4>2. j \in m .. (n + k)
        BY <1>1, <1>4
      <4> QED
        BY <3>1, <4>1, <4>2 DEF Run, Positions
    <3>3. \A j \in Run(w, "field", m) : j \in Nat
      BY <1>1, <1>4 DEF Run, Positions
    <3>4. \A j \in (n + 1) .. (n + k) : j \in Nat /\ j <= n + k
      BY <1>1
    <3>5. \A j \in Nat : j <= n + k <=> j <= n \/ j \in (n + 1) .. (n + k)
      BY <1>1
    <3> QED
      BY <3>2, <3>3, <3>4, <3>5
  <2>2. {j \in Run(w, "field", m) : j <= n} \in SUBSET (1 .. n)
    BY <1>4, HeaderTypes, GrowsTypes
  <2>3. Sorted({j \in Run(w, "field", m) : j <= n + k}) =
        Sorted({j \in Run(w, "field", m) : j <= n}) \o r
    BY <1>1, <2>1, <2>2, SortedRun
  <2>4. /\ {j \in Run(w, "value", After(w, m)) : j <= n + k} = {}
        /\ {j \in Run(w, "value", After(w, m)) : j <= n} = {}
    BY <1>1, <1>4, <1>6 DEF Run, Positions
  <2>5. (After(w, m) <= n + k) = FALSE /\ (After(w, m) <= n) = FALSE
    BY <1>1, <1>4, <1>6
  <2> DEFINE N == Sorted({j \in Run(w, "field", m) : j <= n})
  <2>6. HeaderUpTo(w, m, n) = [name |-> N, value |-> Sorted({}), hasValue |-> FALSE]
    BY <2>4, <2>5 DEF HeaderUpTo
  <2>7. HeaderUpTo(w, m, n + k) = [name |-> N \o r, value |-> Sorted({}), hasValue |-> FALSE]
    BY <2>3, <2>4, <2>5 DEF HeaderUpTo
  <2> HIDE DEF r, N
  <2>8. HeaderUpTo(w, m, n) \in Header
    BY <1>4, HeaderTypes, GrowsTypes
  <2>9. N \o r \in Seq(Nat) /\ N \in Seq(Nat) /\ r \in Seq(Nat) /\ Sorted({}) \in Seq(Nat)
    <3>1. r \in Seq(Nat)
      BY <1>1 DEF r
    <3>2. N \in Seq(Nat) /\ Sorted({}) \in Seq(Nat)
      BY <1>1, <2>2, SortedLists, SortedNothing DEF N
    <3> QED
      BY <3>1, <3>2
  <2>10. HeaderUpTo(w, m, n + k) \in Header
    <3>1. \A x, y \in Seq(Nat) : [name |-> x, value |-> y, hasValue |-> FALSE] \in Header
      BY DEF Header
    <3> QED
      BY <2>7, <2>9, <3>1
  <2>11. /\ HeaderUpTo(w, m, n + k).name = N \o r
         /\ HeaderUpTo(w, m, n + k).value = Sorted({})
         /\ HeaderUpTo(w, m, n + k).hasValue = FALSE
    BY <2>7
  <2>12. /\ HeaderUpTo(w, m, n).name = N /\ HeaderUpTo(w, m, n).value = Sorted({})
        /\ HeaderUpTo(w, m, n).hasValue = FALSE
    BY <2>6
  <2> QED
    BY <2>8, <2>12, <2>9, <2>10, <2>11, MoreOfName
<1>11. ~ H[Len(H)].hasValue
  <2>1. HeaderUpTo(w, m, n).hasValue = (After(w, m) <= n)
    BY DEF HeaderUpTo
  <2>2. ~ (After(w, m) <= n)
    BY <1>1, <1>4, <1>6
  <2> QED
    BY <1>8, <2>1, <2>2
<1> HIDE DEF H, r
<1>12. Len(H) \in 1 .. Len(H) /\ H # << >>
  BY <1>8, <1>9
<1>13. r = Coming(n, k)
  BY DEF r, Coming
<1>14. HeadersUpTo(w, a, n + k) = MoreName(H, r)
  BY <1>8, <1>9, <1>10, <1>12 DEF MoreName
<1> QED
  BY <1>11, <1>12, <1>13, <1>14 DEF H

\* A value belongs to the last name.
LEMMA ValueOfLast ==
  ASSUME NEW w, Reported(w), NEW a, NEW n, NEW k, NEW u, Grows(w, a, n, k, u),
         u \in {"value", "noValue"}
  PROVE  \E m \in Starts(w, "field", a, n) :
           /\ \A i \in Starts(w, "field", a, n) : i <= m
           /\ After(w, m) \in (m + 1) .. (n + 1)
           /\ \A j \in After(w, m) .. n : w[j] = "value"
           /\ u = "noValue" => After(w, m) = n + 1
<1> DEFINE S == Starts(w, "field", a, n)
<1>1. /\ w \in Seq(Units) /\ Len(w) \in Nat /\ n \in Nat /\ k \in Nat /\ 1 <= n
      /\ n + 1 <= n + k /\ n + k <= Len(w) /\ w[n + 1] = u /\ n + 1 \in 1 .. Len(w)
  BY GrowsTypes
<1>2. n \in 1 .. Len(w) /\ a \in 1 .. n /\ w[a] = "begin"
  BY DEF Grows
<1>3. /\ w[n] \in {"field", "value"}
      /\ u = "noValue" => w[n] = "field"
  <2>1. (n + 1) - 1 = n
    BY <1>1
  <2> QED
    BY <1>1, <2>1 DEF Reported
<1>4. PICK m \in S : /\ After(w, m) \in (m + 1) .. (n + 1)
                     /\ \A j \in After(w, m) .. n : w[j] = "value"
                     /\ u = "noValue" => After(w, m) = n + 1
  <2>1. CASE w[n] = "field"
    <3>1. PICK m \in S : \A i \in m .. n : w[i] = "field"
      BY <1>1, <1>2, <2>1, NameBegins
    <3>2. /\ m \in 1 .. Len(w) /\ m <= n
          /\ After(w, m) \in (m + 1) .. (Len(w) + 1)
          /\ \A j \in m .. (After(w, m) - 1) : w[j] = "field"
          /\ After(w, m) <= Len(w) => w[After(w, m)] # "field"
      BY StartIs, GrowsTypes
    <3>3. ~ (After(w, m) > n + 1)
      BY <1>1, <3>2
    <3>4. ~ (After(w, m) < n + 1)
      BY <1>1, <3>1, <3>2
    <3>5. After(w, m) = n + 1
      BY <1>1, <3>2, <3>3, <3>4
    <3> QED
      BY <1>1, <3>2, <3>5
  <2>2. CASE w[n] = "value"
    <3>1. PICK m \in S : After(w, m) \in (m + 1) .. n /\ \A j \in After(w, m) .. n : w[j] = "value"
      BY <1>2, <2>2, ValueFollows
    <3>2. After(w, m) \in (m + 1) .. (n + 1)
      BY <1>1, <3>1
    <3> QED
      BY <1>3, <2>2, <3>1, <3>2
  <2> QED
    BY <1>3, <2>1, <2>2
<1>5. /\ m \in 1 .. Len(w)
      /\ \A j \in m .. (After(w, m) - 1) : w[j] = "field"
  BY StartIs, GrowsTypes
<1>6. ASSUME NEW i \in S
      PROVE  i <= m
  <2>1. i \in 1 .. Len(w) /\ i <= n /\ w[i] = "field" /\ w[i - 1] # "field"
    BY StartIs, GrowsTypes
  <2>2. ASSUME i > m
        PROVE  FALSE
    <3>1. CASE i < After(w, m)
      BY <1>1, <1>4, <1>5, <2>1, <2>2, <3>1
    <3>2. CASE i = After(w, m)
      <4>1. i - 1 \in m .. (After(w, m) - 1)
        BY <1>1, <1>4, <1>5, <2>1, <3>2
      <4> QED
        BY <1>5, <2>1, <4>1
    <3>3. CASE i > After(w, m)
      BY <1>1, <1>4, <1>5, <2>1, <3>3
    <3> QED
      BY <1>1, <1>4, <1>5, <2>1, <3>1, <3>2, <3>3
  <2> QED
    BY <1>5, <2>1, <2>2
<1> QED
  BY <1>4, <1>6

\* It is appended to that of the last header, which has one from now on.
LEMMA ValueGoesOn ==
  ASSUME NEW w, Reported(w), NEW a, NEW n, NEW k, NEW u, Grows(w, a, n, k, u),
         u \in {"value", "noValue"}, u = "noValue" => k = 1
  PROVE  /\ HeadersUpTo(w, a, n) # << >>
         /\ HeadersUpTo(w, a, n + k) =
              MoreValue(HeadersUpTo(w, a, n), IF u = "value" THEN Coming(n, k) ELSE << >>)
<1> DEFINE S == Starts(w, "field", a, n)
           H == HeadersUpTo(w, a, n)
           r == [i \in 1 .. k |-> n + i]
           more == IF u = "value" THEN r ELSE << >>
<1>1. /\ w \in Seq(Units) /\ Len(w) \in Nat /\ n \in Nat /\ k \in Nat /\ 1 <= n
      /\ n + 1 <= n + k /\ n + k <= Len(w) /\ w[n + 1] = u
  BY GrowsTypes
<1>2. \A i \in (n + 1) .. (n + k) : w[i] = u
  BY DEF Grows
<1>3. PICK m \in S :
           /\ \A i \in S : i <= m
           /\ After(w, m) \in (m + 1) .. (n + 1)
           /\ \A j \in After(w, m) .. n : w[j] = "value"
           /\ u = "noValue" => After(w, m) = n + 1
  BY ValueOfLast
<1>4. /\ m \in 1 .. Len(w) /\ w[m] = "field"
      /\ After(w, m) <= Len(w) => w[After(w, m)] # "field"
  BY StartIs, GrowsTypes
<1>5. Starts(w, "field", a, n + k) = S
  BY StartsGrow
<1>6. /\ Len(H) \in Nat \ {0} /\ H[Len(H)] = HeaderUpTo(w, m, n)
      /\ HeadersUpTo(w, a, n + k) = [H EXCEPT ![Len(H)] = HeaderUpTo(w, m, n + k)]
  BY <1>3, <1>5, LastHeader
<1>7. H \in Seq(Header)
  BY HeadersTypes, GrowsTypes
<1>8. {j \in Run(w, "field", m) : j <= n + k} = {j \in Run(w, "field", m) : j <= n}
  <2>1. ASSUME NEW j \in Run(w, "field", m)
        PROVE  j \in Nat /\ j <= n
    <3>1. j \in m .. Len(w) /\ \A l \in m .. j : w[l] = "field"
      BY DEF Run, Positions
    <3>2. ~ (After(w, m) <= j)
      BY <1>1, <1>3, <1>4, <3>1
    <3> QED
      BY <1>1, <1>3, <1>4, <3>1, <3>2
  <2> QED
    BY <1>1, <2>1
<1> DEFINE V(l) == {j \in Run(w, "value", After(w, m)) : j <= l}
<1>9. V(n) \in SUBSET (1 .. n)
  BY <1>4, HeaderTypes, GrowsTypes
<1>10. Sorted(V(n + k)) = Sorted(V(n)) \o more
  <2>1. CASE u = "value"
    <3>1. \A j \in After(w, m) .. (n + k) : w[j] = "value"
      BY <1>1, <1>2, <1>3, <1>4, <2>1
    <3>2. ASSUME NEW j \in (n + 1) .. (n + k)
          PROVE  j \in Run(w, "value", After(w, m))
      <4>1. j \in After(w, m) .. Len(w) /\ \A i \in After(w, m) .. j : i \in After(w, m) .. (n + k)
        BY <1>1, <1>3, <1>4
      <4>2. j \in After(w, m) .. (n + k)
        BY <1>1, <1>3, <1>4
      <4> QED
        BY <3>1, <4>1, <4>2 DEF Run, Positions
    <3>3. \A j \in Run(w, "value", After(w, m)) : j \in Nat
      BY <1>1, <1>3, <1>4 DEF Run, Positions
    <3>4. \A j \in (n + 1) .. (n + k) : j \in Nat /\ j <= n + k
      BY <1>1
    <3>5. \A j \in Nat : j <= n + k <=> j <= n \/ j \in (n + 1) .. (n + k)
      BY <1>1
    <3>6. V(n + k) = V(n) \cup ((n + 1) .. (n + k))
      BY <3>2, <3>3, <3>4, <3>5
    <3> HIDE DEF V
    <3>7. Sorted(V(n) \cup ((n + 1) .. (n + k))) = Sorted(V(n)) \o r
      BY <1>1, <1>9, SortedRun
    <3> QED
      BY <2>1, <3>6, <3>7
  <2>2. CASE u = "noValue"
    <3>1. After(w, m) = n + 1 /\ w[n + 1] # "value"
      BY <1>1, <1>3, <2>2
    <3>2. Run(w, "value", After(w, m)) = {}
      BY <1>1, <3>1 DEF Run, Positions
    <3>3. V(n + k) = {} /\ V(n) = {}
      BY <3>2
    <3>4. more = << >> /\ << >> \o << >> = << >>
      BY <2>2
    <3> HIDE DEF V, more
    <3> QED
      BY <3>3, <3>4, SortedNothing
  <2> QED
    BY <2>1, <2>2
<1>11. (After(w, m) <= n + k) = TRUE
  BY <1>1, <1>3, <1>4
<1>12. HeaderUpTo(w, m, n + k) = [HeaderUpTo(w, m, n) EXCEPT !.value = @ \o more, !.hasValue = TRUE]
  <2> DEFINE x == HeaderUpTo(w, m, n)
             z == HeaderUpTo(w, m, n + k)
  <2>1. x \in Header
    BY <1>4, HeaderTypes, GrowsTypes
  <2>2. /\ x.name = Sorted({j \in Run(w, "field", m) : j <= n})
        /\ x.value = Sorted(V(n))
    BY DEF HeaderUpTo
  <2>3. /\ z = [name |-> Sorted({j \in Run(w, "field", m) : j <= n + k}),
                value |-> Sorted(V(n + k)), hasValue |-> TRUE]
    BY <1>11 DEF HeaderUpTo
  <2>4. more \in Seq(Nat)
    BY <1>1
  <2> HIDE DEF x, more, V
  <2>5. z = [name |-> x.name, value |-> x.value \o more, hasValue |-> TRUE]
    BY <1>8, <1>10, <2>2, <2>3
  <2>6. x.name \in Seq(Nat) /\ x.value \o more \in Seq(Nat)
    <3>1. x.name \in Seq(Nat) /\ x.value \in Seq(Nat)
      BY <2>1 DEF Header
    <3> QED
      BY <2>4, <3>1, ConcatProperties
  <2>7. z \in Header
    <3>1. \A p, q \in Seq(Nat) : [name |-> p, value |-> q, hasValue |-> TRUE] \in Header
      BY DEF Header
    <3> QED
      BY <2>5, <2>6, <3>1
  <2>8. z.name = x.name /\ z.value = x.value \o more /\ z.hasValue
    BY <2>5
  <2> HIDE DEF z
  <2>9. z = [x EXCEPT !.value = @ \o more, !.hasValue = TRUE]
    BY <2>1, <2>4, <2>7, <2>8, MoreOfValue
  <2> QED
    BY <2>9 DEF x, z
<1> HIDE DEF H, more
<1>13. Len(H) \in 1 .. Len(H) /\ H # << >>
  BY <1>6, <1>7
<1>14. [H EXCEPT ![Len(H)] = HeaderUpTo(w, m, n + k)] =
       [H EXCEPT ![Len(H)].value = @ \o more, ![Len(H)].hasValue = TRUE]
  BY <1>6, <1>7, <1>12, <1>13
<1>15. more = IF u = "value" THEN Coming(n, k) ELSE << >>
  BY DEF more, Coming
<1>16. HeadersUpTo(w, a, n + k) = MoreValue(H, more)
  BY <1>6, <1>14 DEF MoreValue
<1> QED
  BY <1>13, <1>15, <1>16 DEF H

Message ==
  [url : Seq(Nat), headers : Seq(Header), content : Seq(Nat),
   shouldKeepAlive : BOOLEAN, present : BOOLEAN]

LEMMA ReceivedTypes ==
  ASSUME NEW w \in Seq(Units), NEW n \in 1 .. Len(w), NEW a \in 1 .. n
  PROVE  Received(w, a, n) \in Message
<1>1. n \in Nat /\ \A kind : Positions(w, kind, a, n) \in SUBSET (1 .. n)
  BY LenProperties DEF Positions
<1>2. \A kind : Sorted(Positions(w, kind, a, n)) \in Seq(Nat)
  BY <1>1, SortedLists
<1>3. HeadersUpTo(w, a, n) \in Seq(Header)
  BY HeadersTypes
<1>4. (\E j \in a .. n : w[j] = "headers") \in BOOLEAN
  OBVIOUS
<1> QED
  BY <1>2, <1>3, <1>4 DEF Received, Message

\* When a message is complete, the parser has what was sent.
LEMMA CompleteIsSent ==
  ASSUME NEW w, Reported(w), NEW a, NEW n \in Nat, IsStart(w, a, n),
         n + 1 <= Len(w), w[n + 1] = "complete"
  PROVE  Received(w, a, n) = Sent(w, a, n + 1)
<1>1. w \in Seq(Units) /\ Len(w) \in Nat
  BY DEF Reported
<1>2. Grows(w, a, n, 1, "complete")
  BY <1>1 DEF Grows, IsStart
<1>3. \A kind : kind # "complete" => Positions(w, kind, a, n + 1) = Positions(w, kind, a, n)
  BY <1>2, PositionsGrow
<1>4. w[n] # "field" /\ n + 1 \in 1 .. Len(w)
  <2>1. n \in 1 .. Len(w) /\ n < Len(w) /\ n + 1 \in 1 .. Len(w)
    BY <1>1 DEF IsStart
  <2>2. w[n + 1] \notin {"field", "value", "noValue", "error"}
    OBVIOUS
  <2> QED
    BY <2>1, <2>2 DEF Reported
<1>5. ASSUME NEW i \in Starts(w, "field", a, n)
      PROVE  HeaderUpTo(w, i, n) =
               [name     |-> Sorted(Run(w, "field", i)),
                value    |-> Sorted(Run(w, "value", After(w, i))),
                hasValue |-> TRUE]
  <2>1. /\ i \in 1 .. Len(w) /\ i <= n /\ After(w, i) \in (i + 1) .. (Len(w) + 1)
        /\ \A j \in i .. (After(w, i) - 1) : w[j] = "field"
    BY <1>2, StartIs, GrowsTypes
  <2>2. After(w, i) <= n
    BY <1>1, <1>4, <2>1
  <2>3. ASSUME NEW kind, kind # "complete", NEW b \in 1 .. n, NEW j \in Run(w, kind, b)
        PROVE  j <= n
    <3>1. j \in b .. Len(w) /\ \A l \in b .. j : w[l] = kind
      BY DEF Run, Positions
    <3>2. ~ (n + 1 <= j)
      BY <1>1, <2>3, <3>1
    <3> QED
      BY <1>1, <2>3, <3>1, <3>2
  <2>4. {j \in Run(w, "field", i) : j <= n} = Run(w, "field", i)
    BY <2>1, <2>3
  <2>5. After(w, i) \in 1 .. n
    BY <2>1, <2>2
  <2>6. {j \in Run(w, "value", After(w, i)) : j <= n} = Run(w, "value", After(w, i))
    BY <2>3, <2>5
  <2>7. (After(w, i) <= n) = TRUE
    BY <2>2
  <2> QED
    BY <2>4, <2>6, <2>7 DEF HeaderUpTo
<1> DEFINE names == Sorted(Starts(w, "field", a, n))
<1>6. \A h \in 1 .. Len(names) : names[h] \in Starts(w, "field", a, n)
  BY <1>2, HeadersTypes, GrowsTypes
<1>7. Starts(w, "field", a, n + 1) = Starts(w, "field", a, n)
  BY <1>2, StartsGrow
<1> HIDE DEF names
<1>8. HeadersUpTo(w, a, n) =
        [h \in 1 .. Len(names) |->
          [name     |-> Sorted(Run(w, "field", names[h])),
           value    |-> Sorted(Run(w, "value", After(w, names[h]))),
           hasValue |-> TRUE]]
  BY <1>5, <1>6 DEF HeadersUpTo, names
<1>9. (\E j \in a .. n : w[j] = "headers") = TRUE
  <2>1. PICK j \in 1 .. n + 1 : w[j] = "headers" /\ \A l \in j .. n + 1 : w[l] # "begin"
    BY <1>4 DEF Reported
  <2>2. j # n + 1
    BY <2>1
  <2>3. ~ (j < a)
    BY <2>1 DEF IsStart
  <2>4. j \in a .. n
    BY <2>1, <2>2, <2>3 DEF IsStart
  <2> QED
    BY <2>1, <2>4
<1>10. Sent(w, a, n + 1) =
         [url     |-> Sorted(Positions(w, "url", a, n)),
          headers |-> [h \in 1 .. Len(names) |->
                        [name     |-> Sorted(Run(w, "field", names[h])),
                         value    |-> Sorted(Run(w, "value", After(w, names[h]))),
                         hasValue |-> TRUE]],
          content |-> Sorted(Positions(w, "body", a, n)),
          shouldKeepAlive |-> TRUE,
          present |-> TRUE]
  BY <1>3, <1>7 DEF Sent, names
<1> QED
  BY <1>8, <1>9, <1>10 DEF Received

-----------------------------------------------------------------------------
(* The messages on a wire.                                                 *)

Begins(w, n) == Sorted(Positions(w, "begin", 1, n))
Ends(w, n)   == Sorted(Positions(w, "complete", 1, n))

\* Every message ends before the next one begins.
Alternates(w, n) ==
  /\ Begins(w, n) \in Seq(Nat) /\ Ends(w, n) \in Seq(Nat)
  /\ ~ Open(w, n) => Len(Begins(w, n)) = Len(Ends(w, n))
  /\ Open(w, n) => /\ Len(Begins(w, n)) = Len(Ends(w, n)) + 1
                   /\ IsStart(w, Begins(w, n)[Len(Begins(w, n))], n)

\* What the next k units add to the lists.
LEMMA NoneBegins ==
  ASSUME NEW w, Reported(w), NEW n \in Nat, NEW k \in Nat \ {0}, n + k <= Len(w),
         \A i \in (n + 1) .. (n + k) : w[i] \notin {"begin", "complete"}
  PROVE  /\ Begins(w, n + k) = Begins(w, n)
         /\ Ends(w, n + k) = Ends(w, n)
         /\ SentMessages(w, n + k) = SentMessages(w, n)
<1>1. \A kind \in {"begin", "complete"} :
        Positions(w, kind, 1, n + k) = Positions(w, kind, 1, n)
  BY DEF Positions
<1> QED
  BY <1>1 DEF Begins, Ends, SentMessages

LEMMA OneBegins ==
  ASSUME NEW w, Reported(w), NEW n \in Nat, n + 1 <= Len(w), w[n + 1] = "begin"
  PROVE  /\ Begins(w, n + 1) = Append(Begins(w, n), n + 1)
         /\ Ends(w, n + 1) = Ends(w, n)
<1>1. /\ Positions(w, "begin", 1, n + 1) = Positions(w, "begin", 1, n) \cup {n + 1}
      /\ Positions(w, "complete", 1, n + 1) = Positions(w, "complete", 1, n)
      /\ Positions(w, "begin", 1, n) \in SUBSET (1 .. n)
  BY DEF Positions
<1> QED
  BY <1>1, SortedMore DEF Begins, Ends

LEMMA OneEnds ==
  ASSUME NEW w, Reported(w), NEW n \in Nat, n + 1 <= Len(w), w[n + 1] = "complete"
  PROVE  /\ Begins(w, n + 1) = Begins(w, n)
         /\ Ends(w, n + 1) = Append(Ends(w, n), n + 1)
<1>1. /\ Positions(w, "begin", 1, n + 1) = Positions(w, "begin", 1, n)
      /\ Positions(w, "complete", 1, n + 1) = Positions(w, "complete", 1, n) \cup {n + 1}
      /\ Positions(w, "complete", 1, n) \in SUBSET (1 .. n)
  BY DEF Positions
<1> QED
  BY <1>1, SortedMore DEF Begins, Ends

\* A message is open where anything else than a beginning comes.
LEMMA OpenBefore ==
  ASSUME NEW w, Reported(w), NEW n \in Nat, n + 1 <= Len(w)
  PROVE  Open(w, n) <=> w[n + 1] # "begin"
<1>1. n + 1 \in 1 .. Len(w) /\ (n + 1) - 1 = n
  BY DEF Reported
<1>2. w[n + 1] = "begin" <=> n + 1 = 1 \/ w[n] = "complete"
  BY <1>1 DEF Reported
<1> QED
  BY <1>2 DEF Open

LEMMA Alternate ==
  ASSUME NEW w, Reported(w), NEW n \in 0 .. Len(w)
  PROVE  Alternates(w, n)
<1> DEFINE T == {m \in Nat : m <= Len(w) => Alternates(w, m)}
<1>1. Len(w) \in Nat
  BY LenProperties DEF Reported
<1>2. 0 \in T
  <2>1. Positions(w, "begin", 1, 0) = {} /\ Positions(w, "complete", 1, 0) = {}
    BY DEF Positions
  <2>2. Begins(w, 0) = << >> /\ Ends(w, 0) = << >>
    BY <2>1, SortedNothing DEF Begins, Ends
  <2>3. ~ Open(w, 0)
    BY DEF Open
  <2> QED
    BY <2>2, <2>3, EmptySeq DEF Alternates
<1>3. ASSUME NEW m \in T
      PROVE  m + 1 \in T
  <2> SUFFICES ASSUME m + 1 <= Len(w)
               PROVE  Alternates(w, m + 1)
    OBVIOUS
  <2>1. m \in Nat /\ Alternates(w, m)
    BY <1>1
  <2> HIDE DEF T
  <2>2. Open(w, m) <=> w[m + 1] # "begin"
    BY <2>1, OpenBefore
  <2> DEFINE B == Begins(w, m)
             E == Ends(w, m)
  <2>3. /\ B \in Seq(Nat) /\ E \in Seq(Nat) /\ Len(B) \in Nat /\ Len(E) \in Nat
        /\ ~ Open(w, m) => Len(B) = Len(E)
        /\ Open(w, m) => Len(B) = Len(E) + 1 /\ IsStart(w, B[Len(B)], m)
    BY <2>1, LenProperties DEF Alternates
  <2>4. CASE w[m + 1] = "begin"
    <3>1. Begins(w, m + 1) = Append(B, m + 1) /\ Ends(w, m + 1) = E
      BY <2>1, <2>4, OneBegins
    <3>2. Open(w, m + 1) /\ ~ Open(w, m) /\ IsStart(w, m + 1, m + 1)
      BY <2>1, <2>2, <2>4 DEF Open, IsStart
    <3> HIDE DEF B, E
    <3>3. /\ Append(B, m + 1) \in Seq(Nat) /\ Len(Append(B, m + 1)) = Len(B) + 1
          /\ Append(B, m + 1)[Len(B) + 1] = m + 1
      BY <2>1, <2>3, AppendProperties
    <3> QED
      BY <2>3, <3>1, <3>2, <3>3 DEF Alternates
  <2>5. CASE w[m + 1] = "complete"
    <3>1. Begins(w, m + 1) = B /\ Ends(w, m + 1) = Append(E, m + 1)
      BY <2>1, <2>5, OneEnds
    <3>2. ~ Open(w, m + 1) /\ Open(w, m)
      BY <2>1, <2>2, <2>5 DEF Open
    <3> HIDE DEF B, E
    <3>3. Append(E, m + 1) \in Seq(Nat) /\ Len(Append(E, m + 1)) = Len(E) + 1
      BY <2>1, <2>3, AppendProperties
    <3> QED
      BY <2>3, <3>1, <3>2, <3>3 DEF Alternates
  <2>6. CASE w[m + 1] \notin {"begin", "complete"}
    <3>1. Begins(w, m + 1) = B /\ Ends(w, m + 1) = E
      <4>1. \A i \in (m + 1) .. (m + 1) : w[i] \notin {"begin", "complete"}
        BY <2>1, <2>6
      <4>2. 1 \in Nat \ {0}
        OBVIOUS
      <4> QED
        BY <2>1, <4>1, <4>2, NoneBegins
    <3>2. Open(w, m + 1) /\ Open(w, m)
      BY <2>1, <2>2, <2>6 DEF Open
    <3> HIDE DEF B, E
    <3>3. IsStart(w, B[Len(B)], m + 1)
      BY <2>1, <2>3, <2>6, <3>2 DEF IsStart
    <3> QED
      BY <2>3, <3>1, <3>2, <3>3 DEF Alternates
  <2> QED
    BY <2>4, <2>5, <2>6
<1>4. T = Nat
  <2> HIDE DEF T
  <2>1. T \in SUBSET Nat
    BY DEF T
  <2> QED
    BY <1>2, <1>3, <2>1, Induction
<1> QED
  BY <1>1, <1>4

\* A message that begins is not among those that are complete.
LEMMA SentBegins ==
  ASSUME NEW w, Reported(w), NEW n \in Nat, n + 1 <= Len(w), w[n + 1] = "begin"
  PROVE  SentMessages(w, n + 1) = SentMessages(w, n)
<1> DEFINE B == Begins(w, n)
           E == Ends(w, n)
<1>1. n \in 0 .. Len(w) /\ Len(w) \in Nat
  BY LenProperties DEF Reported
<1>2. B \in Seq(Nat) /\ E \in Seq(Nat) /\ Len(B) = Len(E)
  BY <1>1, Alternate, OpenBefore DEF Alternates
<1>3. Begins(w, n + 1) = Append(B, n + 1) /\ Ends(w, n + 1) = E
  BY OneBegins
<1> HIDE DEF B, E
<1>4. \A i \in 1 .. Len(E) : Append(B, n + 1)[i] = B[i]
  BY <1>1, <1>2, AppendProperties
<1>5. SentMessages(w, n + 1) = [i \in 1 .. Len(E) |-> Sent(w, Append(B, n + 1)[i], E[i])]
  BY <1>3 DEF SentMessages, Begins, Ends
<1>6. SentMessages(w, n) = [i \in 1 .. Len(E) |-> Sent(w, B[i], E[i])]
  BY DEF SentMessages, B, E, Begins, Ends
<1> QED
  BY <1>4, <1>5, <1>6

\* One that ends is the last of them.
LEMMA SentEnds ==
  ASSUME NEW w, Reported(w), NEW n \in Nat, n + 1 <= Len(w), w[n + 1] = "complete",
         NEW a, IsStart(w, a, n)
  PROVE  SentMessages(w, n + 1) = Append(SentMessages(w, n), Sent(w, a, n + 1))
<1> DEFINE B == Begins(w, n)
           E == Ends(w, n)
           X == {Sent(w, x, y) : x \in Nat, y \in Nat}
<1>1. n \in 0 .. Len(w) /\ Len(w) \in Nat
  BY LenProperties DEF Reported
<1>2. /\ B \in Seq(Nat) /\ E \in Seq(Nat) /\ Len(B) = Len(E) + 1
      /\ IsStart(w, B[Len(B)], n)
  BY <1>1, Alternate, OpenBefore DEF Alternates
<1>3. B[Len(B)] = a
  BY <1>1, <1>2 DEF IsStart
<1>4. Begins(w, n + 1) = B /\ Ends(w, n + 1) = Append(E, n + 1)
  BY OneEnds
<1> HIDE DEF B, E
<1>5. /\ Len(Append(E, n + 1)) = Len(E) + 1 /\ Len(E) \in Nat
      /\ \A i \in 1 .. Len(E) : Append(E, n + 1)[i] = E[i]
      /\ Append(E, n + 1)[Len(E) + 1] = n + 1
  BY <1>1, <1>2, AppendProperties, LenProperties
<1>6. SentMessages(w, n + 1) =
        [i \in 1 .. Len(E) + 1 |-> Sent(w, B[i], Append(E, n + 1)[i])]
  BY <1>4, <1>5 DEF SentMessages, Begins, Ends
<1> DEFINE M == SentMessages(w, n)
           m == Sent(w, a, n + 1)
<1>7. M = [i \in 1 .. Len(E) |-> Sent(w, B[i], E[i])]
  BY DEF SentMessages, B, E, Begins, Ends
<1>8. M \in Seq(X) /\ Len(M) = Len(E)
  <2>1. \A i \in 1 .. Len(E) : B[i] \in Nat /\ E[i] \in Nat
    BY <1>2, <1>5, ElementOfSeq
  <2>2. \A i \in 1 .. Len(E) : Sent(w, B[i], E[i]) \in X
    BY <2>1
  <2> HIDE DEF X
  <2>3. [i \in 1 .. Len(E) |-> Sent(w, B[i], E[i])] \in Seq(X)
    BY <1>5, <2>2
  <2>4. Len([i \in 1 .. Len(E) |-> Sent(w, B[i], E[i])]) = Len(E)
    BY <1>5
  <2> QED
    BY <1>7, <2>3, <2>4
<1>9. m \in X
  BY <1>1 DEF IsStart
<1> HIDE DEF M, m, X
<1>10. /\ Append(M, m) \in Seq(X) /\ Len(Append(M, m)) = Len(E) + 1
       /\ \A i \in 1 .. Len(E) : Append(M, m)[i] = M[i]
       /\ Append(M, m)[Len(E) + 1] = m
  BY <1>8, <1>9, AppendProperties
<1>11. Append(M, m) = [i \in 1 .. Len(E) + 1 |-> Append(M, m)[i]]
  BY <1>5, <1>10, LenProperties
<1>12. ASSUME NEW i \in 1 .. Len(E) + 1
       PROVE  Sent(w, B[i], Append(E, n + 1)[i]) = Append(M, m)[i]
  <2>1. CASE i \in 1 .. Len(E)
    BY <1>5, <1>7, <1>10, <2>1
  <2>2. CASE i = Len(E) + 1
    BY <1>2, <1>3, <1>5, <1>10, <2>2 DEF m
  <2>3. i \in 1 .. Len(E) \/ i = Len(E) + 1
    BY <1>5
  <2> QED
    BY <2>1, <2>2, <2>3
<1> QED
  BY <1>6, <1>11, <1>12 DEF M, m

-----------------------------------------------------------------------------
(* The invariant.                                                          *)

TypeInv ==
  /\ wire \in Wires
  /\ at \in 0 .. Len(wire)
  /\ left \in 0 .. Len(wire) - at
  /\ pending \in Message
  /\ queue \in Seq(Message)
  /\ taken \in Seq(Message)
  /\ failed \in BOOLEAN
  /\ failed => left = 0

\* Unless it has failed, the parser has of an open message what has come of it.
ReceivedInv ==
  ~ failed /\ Open(wire, at) =>
    \A a \in 1 .. at : IsStart(wire, a, at) => pending = Received(wire, a, at)

IInv == TypeInv /\ ReceivedInv /\ SplitInvariant

LEMMA WireTypes ==
  ASSUME TypeInv
  PROVE  /\ Reported(wire) /\ wire \in Seq(Units) /\ Len(wire) \in Nat
         /\ at \in Nat /\ left \in Nat /\ at + left <= Len(wire)
<1>1. Reported(wire)
  BY WiresAssumption DEF TypeInv
<1>2. wire \in Seq(Units) /\ Len(wire) \in Nat
  BY <1>1 DEF Reported
<1> QED
  BY <1>1, <1>2 DEF TypeInv

\* A data callback gets characters of one kind.
LEMMA TextIs ==
  ASSUME TypeInv, left > 0
  PROVE  \E k \in 1 .. left :
           /\ Text = [i \in 1 .. k |-> at + i] /\ Len(Text) = k
           /\ Text \in Seq(Nat)
           /\ \A i \in (at + 1) .. (at + k) : wire[i] = NextUnit
<1> DEFINE D == {j \in 1 .. left : j < left => wire[at + j + 1] # NextUnit}
           k == CHOOSE j \in D : \A i \in D : j <= i
<1>1. Len(wire) \in Nat /\ at \in Nat /\ left \in Nat
  BY WireTypes
<1>2. left \in D /\ D \in SUBSET Nat
  BY <1>1
<1>3. k \in D /\ \A i \in D : k <= i
  <2> HIDE DEF D
  <2>1. \E j \in D : \A i \in D : j <= i
    BY <1>2, LeastNatural
  <2> QED
    BY <2>1
<1>4. Text = [i \in 1 .. k |-> at + i]
  BY DEF Text
<1> HIDE DEF k
<1>5. k \in 1 .. left
  BY <1>3
<1>6. [i \in 1 .. k |-> at + i] \in Seq(Nat) /\ Len([i \in 1 .. k |-> at + i]) = k
  BY <1>1, <1>5
<1>7. ASSUME NEW i \in (at + 1) .. (at + k)
      PROVE  wire[i] = NextUnit
  <2>1. CASE i = at + 1
    BY <2>1 DEF NextUnit
  <2>2. CASE i # at + 1
    <3>1. i - at - 1 \in 1 .. left /\ i - at - 1 < left /\ ~ (k <= i - at - 1)
      BY <1>1, <1>5, <2>2
    <3>2. i - at - 1 \notin D
      BY <1>3, <3>1
    <3>3. at + (i - at - 1) + 1 = i
      BY <1>1
    <3> QED
      BY <3>1, <3>2, <3>3
  <2> QED
    BY <2>1, <2>2
<1> QED
  BY <1>4, <1>5, <1>6, <1>7

LEMMA SameMessage ==
  ASSUME NEW x \in Message, NEW y \in Message,
         x.url = y.url, x.headers = y.headers, x.content = y.content,
         x.shouldKeepAlive = y.shouldKeepAlive, x.present = y.present
  PROVE  x = y
<1>1. \A z \in Message :
        z = [url |-> z.url, headers |-> z.headers, content |-> z.content,
             shouldKeepAlive |-> z.shouldKeepAlive, present |-> z.present]
  BY DEF Message
<1> QED
  BY <1>1

\* Units that neither begin nor complete a message keep the invariant if the
\* parser has what has come after them, when it had that before.
LEMMA Goes ==
  ASSUME IInv, NEW k \in 1 .. left, NEW u, u \notin {"begin", "complete"},
         \A i \in (at + 1) .. (at + k) : wire[i] = u,
         at' = at + k, left' = left - k,
         UNCHANGED <<wire, queue, taken, failed>>,
         pending' \in Message,
         \A a : Grows(wire, a, at, k, u) /\ pending = Received(wire, a, at) =>
                  pending' = Received(wire, a, at + k)
  PROVE  IInv'
<1>1. /\ Reported(wire) /\ wire \in Seq(Units) /\ Len(wire) \in Nat
      /\ at \in Nat /\ left \in Nat /\ at + left <= Len(wire) /\ TypeInv
  BY WireTypes DEF IInv
<1>2. k \in Nat \ {0} /\ at + k <= Len(wire) /\ at + 1 \in (at + 1) .. (at + k)
  BY <1>1
<1>3. wire[at + 1] = u /\ wire[at + k] = u /\ at + 1 <= Len(wire)
  BY <1>1, <1>2
<1>4. ~ failed
  BY <1>1 DEF TypeInv
<1>5. TypeInv'
  BY <1>1, <1>2, <1>4 DEF TypeInv
<1>6. Open(wire, at)
  BY <1>1, <1>3, OpenBefore
<1>7. ASSUME NEW a \in 1 .. at + k, IsStart(wire, a, at + k)
      PROVE  pending' = Received(wire, a, at + k)
  <2>1. wire[a] = "begin" /\ a \in Nat /\ 1 <= a /\ a <= at + k
    BY <1>1, <1>2, <1>7 DEF IsStart
  <2>2. a \notin (at + 1) .. (at + k)
    BY <2>1
  <2>3. a \in 1 .. at
    BY <1>1, <1>2, <2>1, <2>2
  <2>4. IsStart(wire, a, at)
    BY <1>1, <1>2, <1>7, <2>3 DEF IsStart
  <2>5. pending = Received(wire, a, at)
    BY <1>4, <1>6, <2>3, <2>4 DEF IInv, ReceivedInv
  <2>6. Grows(wire, a, at, k, u)
    BY <1>1, <1>2, <2>1, <2>3 DEF Grows
  <2> QED
    BY <2>5, <2>6
<1>8. ReceivedInv'
  BY <1>7 DEF ReceivedInv
<1>9. SentMessages(wire, at + k) = SentMessages(wire, at)
  BY <1>1, <1>2, NoneBegins
<1>10. SplitInvariant'
  BY <1>9 DEF IInv, SplitInvariant
<1> QED
  BY <1>5, <1>8, <1>10 DEF IInv

\* What a message that has come so far has after the next units.
LEMMA ReceivedGrows ==
  ASSUME NEW w, Reported(w), NEW a, NEW n, NEW k, NEW u, Grows(w, a, n, k, u)
  PROVE  /\ Received(w, a, n) \in Message /\ Received(w, a, n + k) \in Message
         /\ Received(w, a, n + k).url =
              IF u = "url" THEN Received(w, a, n).url \o [i \in 1 .. k |-> n + i]
                           ELSE Received(w, a, n).url
         /\ Received(w, a, n + k).content =
              IF u = "body" THEN Received(w, a, n).content \o [i \in 1 .. k |-> n + i]
                            ELSE Received(w, a, n).content
         /\ Received(w, a, n + k).shouldKeepAlive =
              (u = "headers" \/ Received(w, a, n).shouldKeepAlive)
         /\ Received(w, a, n).present /\ Received(w, a, n + k).present
         /\ Received(w, a, n).headers = HeadersUpTo(w, a, n)
         /\ Received(w, a, n + k).headers = HeadersUpTo(w, a, n + k)
<1>1. /\ w \in Seq(Units) /\ Len(w) \in Nat
      /\ n \in Nat /\ n + k \in Nat /\ k \in Nat /\ a \in Nat /\ 1 <= a /\ a <= n
      /\ n + 1 <= n + k /\ n + k <= Len(w) /\ w[n + 1] = u
  BY GrowsTypes
<1>2. ASSUME NEW kind
      PROVE  /\ Sorted(Positions(w, kind, a, n)) \in Seq(Nat)
             /\ Sorted(Positions(w, kind, a, n + k)) \in Seq(Nat)
             /\ Sorted(Positions(w, kind, a, n + k)) =
                  IF u = kind THEN Sorted(Positions(w, kind, a, n)) \o [i \in 1 .. k |-> n + i]
                              ELSE Sorted(Positions(w, kind, a, n))
  <2>1. Positions(w, kind, a, n) \in SUBSET (1 .. n)
    BY PositionsGrow
  <2>2. Positions(w, kind, a, n + k) \in SUBSET (1 .. (n + k))
    BY <1>1 DEF Positions
  <2>3. CASE u = kind
    <3>1. Positions(w, kind, a, n + k) = Positions(w, kind, a, n) \cup ((n + 1) .. (n + k))
      BY <2>3, PositionsGrow
    <3>2. Sorted(Positions(w, kind, a, n) \cup ((n + 1) .. (n + k))) =
          Sorted(Positions(w, kind, a, n)) \o [i \in 1 .. k |-> n + i]
      BY <1>1, <2>1, SortedRun
    <3> QED
      BY <1>1, <2>1, <2>2, <2>3, <3>1, <3>2, SortedLists
  <2>4. CASE u # kind
    <3>1. Positions(w, kind, a, n + k) = Positions(w, kind, a, n)
      BY <2>4, PositionsGrow
    <3> QED
      BY <1>1, <2>1, <2>4, <3>1, SortedLists
  <2> QED
    BY <2>3, <2>4
<1>3. (\E j \in a .. (n + k) : w[j] = "headers") <=>
      (u = "headers" \/ \E j \in a .. n : w[j] = "headers")
  <2>1. \A j : j \in a .. (n + k) <=> j \in a .. n \/ j \in (n + 1) .. (n + k)
    BY <1>1
  <2>2. \A j \in (n + 1) .. (n + k) : w[j] = u
    BY DEF Grows
  <2>3. n + 1 \in (n + 1) .. (n + k)
    BY <1>1
  <2> QED
    BY <2>1, <2>2, <2>3
<1>4. n \in 1 .. Len(w) /\ n + k \in 1 .. Len(w) /\ a \in 1 .. n /\ a \in 1 .. n + k
  BY <1>1
<1>5. Received(w, a, n) \in Message
  BY <1>1, <1>4, ReceivedTypes
<1>6. Received(w, a, n + k) \in Message
  BY <1>1, <1>4, ReceivedTypes
<1>7. /\ Received(w, a, n).url = Sorted(Positions(w, "url", a, n))
      /\ Received(w, a, n + k).url = Sorted(Positions(w, "url", a, n + k))
      /\ Received(w, a, n).content = Sorted(Positions(w, "body", a, n))
      /\ Received(w, a, n + k).content = Sorted(Positions(w, "body", a, n + k))
      /\ Received(w, a, n).headers = HeadersUpTo(w, a, n)
      /\ Received(w, a, n + k).headers = HeadersUpTo(w, a, n + k)
      /\ Received(w, a, n).present = TRUE /\ Received(w, a, n + k).present = TRUE
      /\ Received(w, a, n).shouldKeepAlive = (\E j \in a .. n : w[j] = "headers")
      /\ Received(w, a, n + k).shouldKeepAlive = (\E j \in a .. (n + k) : w[j] = "headers")
  BY DEF Received
<1> QED
  BY <1>2, <1>3, <1>5, <1>6, <1>7

LEMMA NextReceived ==
  ASSUME NEW w, Reported(w), NEW a, NEW n, NEW k, NEW u, Grows(w, a, n, k, u),
         NEW y \in Message,
         u = "url" => y.url = Received(w, a, n).url \o Coming(n, k),
         u # "url" => y.url = Received(w, a, n).url,
         y.headers = HeadersUpTo(w, a, n + k),
         u = "body" => y.content = Received(w, a, n).content \o Coming(n, k),
         u # "body" => y.content = Received(w, a, n).content,
         u = "headers" => y.shouldKeepAlive = TRUE,
         u # "headers" => y.shouldKeepAlive = Received(w, a, n).shouldKeepAlive,
         y.present = Received(w, a, n).present
  PROVE  y = Received(w, a, n + k)
<1> DEFINE x == Received(w, a, n)
           z == Received(w, a, n + k)
           r == Coming(n, k)
<1>1. /\ x \in Message /\ z \in Message
      /\ z.url = IF u = "url" THEN x.url \o r ELSE x.url
      /\ z.content = IF u = "body" THEN x.content \o r ELSE x.content
      /\ z.shouldKeepAlive = (u = "headers" \/ x.shouldKeepAlive)
      /\ x.present /\ z.present
      /\ z.headers = HeadersUpTo(w, a, n + k)
  BY ReceivedGrows DEF Coming
<1>2. /\ x.present = TRUE /\ z.present = TRUE
      /\ x.shouldKeepAlive \in BOOLEAN /\ z.shouldKeepAlive \in BOOLEAN
  BY <1>1 DEF Message
<1>3. /\ u = "url" => y.url = x.url \o r
      /\ u # "url" => y.url = x.url
      /\ y.headers = HeadersUpTo(w, a, n + k)
      /\ u = "body" => y.content = x.content \o r
      /\ u # "body" => y.content = x.content
      /\ u = "headers" => y.shouldKeepAlive = TRUE
      /\ u # "headers" => y.shouldKeepAlive = x.shouldKeepAlive
      /\ y.present = x.present
  OBVIOUS
<1> HIDE DEF x, z, r
<1>4. y.url = z.url /\ y.content = z.content /\ y.headers = z.headers /\ y.present = z.present
  BY <1>1, <1>2, <1>3
<1>5. y.shouldKeepAlive = z.shouldKeepAlive
  BY <1>1, <1>2, <1>3
<1>6. y = z
  BY <1>1, <1>4, <1>5, SameMessage
<1> QED
  BY <1>6 DEF z

\* The parser has what has come after the next units if it had that before them.
LEMMA NextPending ==
  ASSUME TypeInv, NEW a, NEW k, NEW u, Grows(wire, a, at, k, u),
         pending = Received(wire, a, at), pending' \in Message,
         u = "url" => pending'.url = pending.url \o Coming(at, k),
         u # "url" => pending'.url = pending.url,
         pending'.headers = HeadersUpTo(wire, a, at + k),
         u = "body" => pending'.content = pending.content \o Coming(at, k),
         u # "body" => pending'.content = pending.content,
         u = "headers" => pending'.shouldKeepAlive = TRUE,
         u # "headers" => pending'.shouldKeepAlive = pending.shouldKeepAlive,
         pending'.present = pending.present
  PROVE  pending' = Received(wire, a, at + k)
<1>1. ASSUME NEW w \in {wire}, NEW n \in {at}, NEW y \in {pending'}
      PROVE  y = Received(w, a, n + k)
  <2>1. Reported(w) /\ Grows(w, a, n, k, u) /\ y \in Message
    BY WireTypes
  <2>2. /\ u = "url" => y.url = Received(w, a, n).url \o Coming(n, k)
        /\ u # "url" => y.url = Received(w, a, n).url
        /\ y.headers = HeadersUpTo(w, a, n + k)
        /\ u = "body" => y.content = Received(w, a, n).content \o Coming(n, k)
        /\ u # "body" => y.content = Received(w, a, n).content
        /\ u = "headers" => y.shouldKeepAlive = TRUE
        /\ u # "headers" => y.shouldKeepAlive = Received(w, a, n).shouldKeepAlive
        /\ y.present = Received(w, a, n).present
    OBVIOUS
  <2> QED
    BY <2>1, <2>2, NextReceived
<1> QED
  BY <1>1

-----------------------------------------------------------------------------
(* The actions.                                                            *)

\* What a data callback for text of kind u does to all but the message.
LEMMA TextComes ==
  ASSUME IInv, NEW u, Reports(u, Len(Text))
  PROVE  \E k \in 1 .. left :
           /\ Text = Coming(at, k) /\ Text \in Seq(Nat)
           /\ \A i \in (at + 1) .. (at + k) : wire[i] = u
           /\ at' = at + k /\ left' = left - k
           /\ UNCHANGED <<wire, taken>>
BY TextIs DEF IInv, Reports, Coming

LEMMA OnUrlStep ==
  ASSUME IInv, OnUrl
  PROVE  IInv'
<1>1. PICK k \in 1 .. left :
           /\ Text = Coming(at, k) /\ Text \in Seq(Nat)
           /\ \A i \in (at + 1) .. (at + k) : wire[i] = "url"
           /\ at' = at + k /\ left' = left - k
           /\ UNCHANGED <<wire, taken>>
  BY TextComes DEF OnUrl
<1>2. pending \in Message /\ TypeInv
  BY DEF IInv, TypeInv
<1>3. /\ pending' = [pending EXCEPT !.url = @ \o Text]
      /\ UNCHANGED <<queue, failed>>
  BY DEF OnUrl
<1>4. pending.url \o Text \in Seq(Nat)
  BY <1>1, <1>2, ConcatProperties DEF Message
<1>5. /\ pending' \in Message
      /\ pending'.url = pending.url \o Text /\ pending'.headers = pending.headers
      /\ pending'.content = pending.content
      /\ pending'.shouldKeepAlive = pending.shouldKeepAlive
      /\ pending'.present = pending.present
  BY <1>2, <1>3, <1>4 DEF Message
<1>6. ASSUME NEW a, Grows(wire, a, at, k, "url"), pending = Received(wire, a, at)
      PROVE  pending' = Received(wire, a, at + k)
  <2>1. Reported(wire)
    BY <1>2, WireTypes
  <2>2. HeadersUpTo(wire, a, at + k) = HeadersUpTo(wire, a, at)
    BY <1>6, <2>1, HeadersStay
  <2>3. pending.headers = HeadersUpTo(wire, a, at)
    BY <1>6 DEF Received
  <2>4. Grows(wire, a, at, k, "url")
    BY <1>6
  <2> QED
    BY <1>1, <1>2, <1>5, <1>6, <2>1, <2>2, <2>3, <2>4, NextPending
<1> QED
  BY <1>1, <1>3, <1>5, <1>6, Goes

LEMMA OnStatusStep ==
  ASSUME IInv, OnStatus
  PROVE  IInv'
<1>1. PICK k \in 1 .. left :
           /\ Text = Coming(at, k) /\ Text \in Seq(Nat)
           /\ \A i \in (at + 1) .. (at + k) : wire[i] = "status"
           /\ at' = at + k /\ left' = left - k
           /\ UNCHANGED <<wire, taken>>
  BY TextComes DEF OnStatus
<1>2. pending \in Message /\ TypeInv
  BY DEF IInv, TypeInv
<1>3. UNCHANGED <<pending, queue, failed>>
  BY DEF OnStatus
<1>4. ASSUME NEW a, Grows(wire, a, at, k, "status"), pending = Received(wire, a, at)
      PROVE  pending' = Received(wire, a, at + k)
  <2>1. Reported(wire)
    BY <1>2, WireTypes
  <2>2. HeadersUpTo(wire, a, at + k) = HeadersUpTo(wire, a, at)
    BY <1>4, <2>1, HeadersStay
  <2>3. pending.headers = HeadersUpTo(wire, a, at)
    BY <1>4 DEF Received
  <2>4. Grows(wire, a, at, k, "status")
    BY <1>4
  <2> QED
    BY <1>1, <1>2, <1>3, <1>4, <2>1, <2>2, <2>3, <2>4, NextPending
<1> QED
  BY <1>1, <1>2, <1>3, <1>4, Goes

LEMMA OnBodyStep ==
  ASSUME IInv, OnBody
  PROVE  IInv'
<1>1. PICK k \in 1 .. left :
           /\ Text = Coming(at, k) /\ Text \in Seq(Nat)
           /\ \A i \in (at + 1) .. (at + k) : wire[i] = "body"
           /\ at' = at + k /\ left' = left - k
           /\ UNCHANGED <<wire, taken>>
  BY TextComes DEF OnBody
<1>2. pending \in Message /\ TypeInv
  BY DEF IInv, TypeInv
<1>3. /\ pending' = [pending EXCEPT !.content = @ \o Text]
      /\ UNCHANGED <<queue, failed>>
  BY DEF OnBody
<1>4. pending.content \o Text \in Seq(Nat)
  BY <1>1, <1>2, ConcatProperties DEF Message
<1>5. /\ pending' \in Message
      /\ pending'.content = pending.content \o Text /\ pending'.headers = pending.headers
      /\ pending'.url = pending.url
      /\ pending'.shouldKeepAlive = pending.shouldKeepAlive
      /\ pending'.present = pending.present
  BY <1>2, <1>3, <1>4 DEF Message
<1>6. ASSUME NEW a, Grows(wire, a, at, k, "body"), pending = Received(wire, a, at)
      PROVE  pending' = Received(wire, a, at + k)
  <2>1. Reported(wire)
    BY <1>2, WireTypes
  <2>2. HeadersUpTo(wire, a, at + k) = HeadersUpTo(wire, a, at)
    BY <1>6, <2>1, HeadersStay
  <2>3. pending.headers = HeadersUpTo(wire, a, at)
    BY <1>6 DEF Received
  <2>4. Grows(wire, a, at, k, "body")
    BY <1>6
  <2> QED
    BY <1>1, <1>2, <1>5, <1>6, <2>1, <2>2, <2>3, <2>4, NextPending
<1> QED
  BY <1>1, <1>3, <1>5, <1>6, Goes

LEMMA HeaderListTypes ==
  ASSUME NEW hs \in Seq(Header), NEW t \in Seq(Nat)
  PROVE  /\ NewName(hs, t) \in Seq(Header)
         /\ MoreName(hs, t) \in Seq(Header)
         /\ MoreValue(hs, t) \in Seq(Header)
<1> DEFINE l == Len(hs)
<1>1. << >> \in Seq(Nat) /\ l \in Nat
  BY EmptySeq, LenProperties
<1>2. NewName(hs, t) \in Seq(Header)
  <2>1. [name |-> t, value |-> << >>, hasValue |-> FALSE] \in Header
    BY <1>1 DEF Header
  <2> QED
    BY <2>1, AppendProperties DEF NewName
<1>3. CASE hs = << >>
  <2>1. l \notin DOMAIN hs
    BY <1>3
  <2>2. MoreName(hs, t) = hs /\ MoreValue(hs, t) = hs
    BY <1>3, <2>1 DEF MoreName, MoreValue
  <2> QED
    BY <1>2, <2>2
<1>4. CASE hs # << >>
  <2>1. l \in 1 .. Len(hs)
    BY <1>1, <1>4, EmptySeq
  <2>2. hs[l] \in Header
    BY <2>1, ElementOfSeq
  <2>3. hs[l].name \o t \in Seq(Nat) /\ hs[l].value \o t \in Seq(Nat)
    <3>1. hs[l].name \in Seq(Nat) /\ hs[l].value \in Seq(Nat)
      BY <2>2 DEF Header
    <3> QED
      BY <3>1, ConcatProperties
  <2>4. /\ [hs[l] EXCEPT !.name = @ \o t] \in Header
        /\ [hs[l] EXCEPT !.value = @ \o t, !.hasValue = TRUE] \in Header
    BY <2>2, <2>3 DEF Header
  <2>5. MoreName(hs, t) = [hs EXCEPT ![l] = [hs[l] EXCEPT !.name = @ \o t]]
    BY DEF MoreName
  <2>6. MoreValue(hs, t) = [hs EXCEPT ![l] = [hs[l] EXCEPT !.value = @ \o t, !.hasValue = TRUE]]
    BY <1>1, <2>1, <2>2 DEF MoreValue
  <2> QED
    BY <1>2, <2>1, <2>4, <2>5, <2>6, ExceptSeq
<1> QED
  BY <1>3, <1>4

\* The headers after more of a name.
LEMMA AfterName ==
  ASSUME NEW w, Reported(w), NEW a, NEW n, NEW k, Grows(w, a, n, k, "field"),
         NEW hs, hs = HeadersUpTo(w, a, n)
  PROVE  HeadersUpTo(w, a, n + k) =
           IF hs = << >> \/ hs[Len(hs)].hasValue
           THEN NewName(hs, Coming(n, k)) ELSE MoreName(hs, Coming(n, k))
<1>1. CASE w[n] # "field"
  BY <1>1, NameStarts
<1>2. CASE w[n] = "field"
  BY <1>2, NameGoesOn
<1> QED
  BY <1>1, <1>2

LEMMA OnHeaderFieldStep ==
  ASSUME IInv, OnHeaderField
  PROVE  IInv'
<1> DEFINE hs == pending.headers
           new == IF hs = << >> \/ hs[Len(hs)].hasValue THEN NewName(hs, Text) ELSE MoreName(hs, Text)
<1>1. PICK k \in 1 .. left :
           /\ Text = Coming(at, k) /\ Text \in Seq(Nat)
           /\ \A i \in (at + 1) .. (at + k) : wire[i] = "field"
           /\ at' = at + k /\ left' = left - k
           /\ UNCHANGED <<wire, taken>>
  BY TextComes DEF OnHeaderField
<1>2. pending \in Message /\ TypeInv
  BY DEF IInv, TypeInv
<1>3. /\ pending' = [pending EXCEPT !.headers = new]
      /\ UNCHANGED <<queue, failed>>
  BY DEF OnHeaderField, NewName, MoreName
<1>4. new \in Seq(Header)
  <2>1. hs \in Seq(Header)
    BY <1>2 DEF Message
  <2> HIDE DEF hs
  <2> QED
    BY <1>1, <2>1, HeaderListTypes
<1> HIDE DEF new
<1>5. /\ pending' \in Message
      /\ pending'.url = pending.url /\ pending'.headers = new
      /\ pending'.content = pending.content
      /\ pending'.shouldKeepAlive = pending.shouldKeepAlive
      /\ pending'.present = pending.present
  BY <1>2, <1>3, <1>4 DEF Message
<1>6. ASSUME NEW a, Grows(wire, a, at, k, "field"), pending = Received(wire, a, at)
      PROVE  pending' = Received(wire, a, at + k)
  <2>1. Reported(wire)
    BY <1>2, WireTypes
  <2>2. hs = HeadersUpTo(wire, a, at)
    BY <1>6 DEF Received
  <2>3. HeadersUpTo(wire, a, at + k) = new
    <3> HIDE DEF hs
    <3>1. ASSUME NEW w \in {wire}, NEW n \in {at}, NEW old \in {hs}
          PROVE  HeadersUpTo(w, a, n + k) =
                   IF old = << >> \/ old[Len(old)].hasValue
                   THEN NewName(old, Coming(n, k)) ELSE MoreName(old, Coming(n, k))
      <4>1. Reported(w) /\ Grows(w, a, n, k, "field") /\ old = HeadersUpTo(w, a, n)
        BY <1>6, <2>1, <2>2
      <4> QED
        BY <4>1, AfterName
    <3> QED
      BY <1>1, <3>1 DEF new
  <2>4. Grows(wire, a, at, k, "field")
    BY <1>6
  <2> QED
    BY <1>1, <1>2, <1>5, <1>6, <2>3, <2>4, NextPending
<1> QED
  BY <1>1, <1>3, <1>5, <1>6, Goes

LEMMA OnHeaderValueStep ==
  ASSUME IInv, OnHeaderValue
  PROVE  IInv'
<1> DEFINE hs == pending.headers
<1>0. PICK u \in {"value", "noValue"} :
        /\ Reports(u, IF u = "value" THEN Len(Text) ELSE 1)
        /\ LET last == Len(pending.headers)
           IN  pending' = [pending EXCEPT
                 !.headers[last].value = @ \o (IF u = "value" THEN Text ELSE <<>>),
                 !.headers[last].hasValue = TRUE]
        /\ UNCHANGED <<queue, failed>>
  BY DEF OnHeaderValue
<1> DEFINE more == IF u = "value" THEN Text ELSE << >>
<1>1. pending \in Message /\ TypeInv
  BY DEF IInv, TypeInv
<1>2. \E k \in 1 .. left :
           /\ more = (IF u = "value" THEN Coming(at, k) ELSE << >>) /\ more \in Seq(Nat)
           /\ \A i \in (at + 1) .. (at + k) : wire[i] = u
           /\ u = "noValue" => k = 1
           /\ at' = at + k /\ left' = left - k
           /\ UNCHANGED <<wire, taken>>
  <2>1. CASE u = "value"
    BY <1>0, <2>1, TextComes
  <2>2. CASE u = "noValue"
    <3>1. Reports("noValue", 1)
      BY <1>0, <2>2
    <3>2. /\ 1 \in 1 .. left /\ wire[at + 1] = "noValue"
          /\ \A i \in (at + 1) .. (at + 1) : i = at + 1
      BY <1>1, <3>1, WireTypes DEF Reports, NextUnit
    <3>3. << >> \in Seq(Nat) /\ more = << >>
      BY <2>2, EmptySeq
    <3> QED
      BY <2>2, <3>1, <3>2, <3>3 DEF Reports
  <2> QED
    BY <2>1, <2>2
<1>3. PICK k \in 1 .. left :
           /\ more = (IF u = "value" THEN Coming(at, k) ELSE << >>) /\ more \in Seq(Nat)
           /\ \A i \in (at + 1) .. (at + k) : wire[i] = u
           /\ u = "noValue" => k = 1
           /\ at' = at + k /\ left' = left - k
           /\ UNCHANGED <<wire, taken>>
  BY <1>2
<1>4. hs \in Seq(Header) /\ MoreValue(hs, more) \in Seq(Header)
  <2>1. hs \in Seq(Header)
    BY <1>1 DEF Message
  <2> HIDE DEF hs, more
  <2> QED
    BY <1>3, <2>1, HeaderListTypes
<1>5. pending' = [pending EXCEPT !.headers = MoreValue(hs, more)]
  BY <1>0, <1>1, <1>4 DEF MoreValue, Message
<1> HIDE DEF more
<1>6. /\ pending' \in Message
      /\ pending'.url = pending.url /\ pending'.headers = MoreValue(hs, more)
      /\ pending'.content = pending.content
      /\ pending'.shouldKeepAlive = pending.shouldKeepAlive
      /\ pending'.present = pending.present
  BY <1>1, <1>4, <1>5 DEF Message
<1>7. ASSUME NEW a, Grows(wire, a, at, k, u), pending = Received(wire, a, at)
      PROVE  pending' = Received(wire, a, at + k)
  <2>1. Reported(wire)
    BY <1>1, WireTypes
  <2>2. hs = HeadersUpTo(wire, a, at)
    BY <1>7 DEF Received
  <2>3. HeadersUpTo(wire, a, at + k) = MoreValue(hs, more)
    <3>1. ASSUME NEW w \in {wire}, NEW n \in {at}
          PROVE  HeadersUpTo(w, a, n + k) =
                   MoreValue(HeadersUpTo(w, a, n), IF u = "value" THEN Coming(n, k) ELSE << >>)
      <4>1. Reported(w) /\ Grows(w, a, n, k, u) /\ u \in {"value", "noValue"} /\ (u = "noValue" => k = 1)
        BY <1>3, <1>7, <2>1
      <4> QED
        BY <4>1, ValueGoesOn
    <3>2. more = IF u = "value" THEN Coming(at, k) ELSE << >>
      BY <1>3
    <3> QED
      BY <2>2, <3>1, <3>2
  <2>4. Grows(wire, a, at, k, u) /\ u \notin {"url", "body", "headers"}
    BY <1>7
  <2> QED
    BY <1>1, <1>6, <1>7, <2>3, <2>4, NextPending
<1>8. u \notin {"begin", "complete"} /\ UNCHANGED <<queue, failed>>
  BY <1>0
<1> QED
  BY <1>3, <1>6, <1>7, <1>8, Goes

\* After a failure only the messages that are complete count.
LEMMA FailureStep ==
  ASSUME IInv, left > 0, failed' = TRUE, left' = 0, pending' \in Message,
         UNCHANGED <<wire, at, queue, taken>>
  PROVE  IInv'
<1>1. Len(wire) \in Nat /\ at \in 0 .. Len(wire)
  BY WireTypes DEF IInv, TypeInv
<1>2. TypeInv'
  BY <1>1 DEF IInv, TypeInv
<1>3. ReceivedInv'
  BY DEF ReceivedInv
<1>4. SplitInvariant'
  BY DEF IInv, SplitInvariant
<1> QED
  BY <1>2, <1>3, <1>4 DEF IInv

LEMMA OnHeadersCompleteStep ==
  ASSUME IInv, OnHeadersComplete
  PROVE  IInv'
<1>1. pending \in Message /\ TypeInv
  BY DEF IInv, TypeInv
<1>2. [pending EXCEPT !.shouldKeepAlive = TRUE] \in Message
  BY <1>1 DEF Message
<1>3. CASE /\ Reports("headers", 1)
           /\ pending' = [pending EXCEPT !.shouldKeepAlive = TRUE]
           /\ UNCHANGED <<queue, failed>>
  <2>1. /\ 1 \in 1 .. left /\ wire[at + 1] = "headers"
        /\ \A i \in (at + 1) .. (at + 1) : i = at + 1
        /\ at' = at + 1 /\ left' = left - 1 /\ UNCHANGED <<wire, taken>>
    BY <1>1, <1>3, WireTypes DEF Reports, NextUnit
  <2>2. /\ pending' \in Message
        /\ pending'.url = pending.url /\ pending'.headers = pending.headers
        /\ pending'.content = pending.content
        /\ pending'.shouldKeepAlive = TRUE
        /\ pending'.present = pending.present
    BY <1>1, <1>2, <1>3 DEF Message
  <2>3. ASSUME NEW a, Grows(wire, a, at, 1, "headers"), pending = Received(wire, a, at)
        PROVE  pending' = Received(wire, a, at + 1)
    <3>1. Reported(wire)
      BY <1>1, WireTypes
    <3>2. HeadersUpTo(wire, a, at + 1) = HeadersUpTo(wire, a, at)
      BY <2>3, <3>1, HeadersStay
    <3>3. pending.headers = HeadersUpTo(wire, a, at)
      BY <2>3 DEF Received
    <3>4. Grows(wire, a, at, 1, "headers")
      BY <2>3
    <3> QED
      BY <1>1, <2>2, <2>3, <3>2, <3>3, <3>4, NextPending
  <2> QED
    BY <1>3, <2>1, <2>2, <2>3, Goes
<1>4. CASE /\ left > 0 /\ NextUnit = "badHeaders"
           /\ pending' = [pending EXCEPT !.shouldKeepAlive = TRUE]
           /\ failed' = TRUE /\ left' = 0
           /\ UNCHANGED <<wire, at, queue, taken>>
  BY <1>2, <1>4, FailureStep
<1> QED
  BY <1>3, <1>4 DEF OnHeadersComplete

LEMMA SyntaxErrorStep ==
  ASSUME IInv, SyntaxError
  PROVE  IInv'
BY FailureStep DEF SyntaxError, IInv, TypeInv

\* The types after a step over one unit.
LEMMA OneUnit ==
  ASSUME TypeInv, NEW u, Reports(u, 1), UNCHANGED failed
  PROVE  /\ Reported(wire) /\ at \in Nat /\ at + 1 <= Len(wire) /\ wire[at + 1] = u
         /\ at' = at + 1 /\ at' \in 0 .. Len(wire') /\ left' \in 0 .. Len(wire') - at'
         /\ ~ failed /\ ~ failed' /\ UNCHANGED <<wire, taken>>
<1>1. /\ Reported(wire) /\ Len(wire) \in Nat
      /\ at \in Nat /\ left \in Nat /\ at + left <= Len(wire)
  BY WireTypes
<1>2. left > 0 /\ wire[at + 1] = u /\ at' = at + 1 /\ left' = left - 1 /\ UNCHANGED <<wire, taken>>
  BY DEF Reports, NextUnit
<1>3. ~ failed
  BY <1>1, <1>2 DEF TypeInv
<1> QED
  BY <1>1, <1>2, <1>3

\* What has come of a message that has only begun.
LEMMA NothingYet ==
  ASSUME NEW w, NEW n \in Nat, w[n] = "begin"
  PROVE  Received(w, n, n) = NewMessage
<1>1. n .. n = {n}
  OBVIOUS
<1>2. Positions(w, "url", n, n) = {} /\ Positions(w, "body", n, n) = {}
  BY <1>1 DEF Positions
<1>3. Starts(w, "field", n, n) = {}
  BY <1>1 DEF Starts, Positions
<1>4. HeadersUpTo(w, n, n) = << >>
  <2>1. HeadersUpTo(w, n, n) =
          [h \in 1 .. Len(Sorted({})) |-> HeaderUpTo(w, Sorted({})[h], n)]
    BY <1>3 DEF HeadersUpTo
  <2>2. 1 .. Len(Sorted({})) = {}
    BY SortedNothing
  <2>3. HeadersUpTo(w, n, n) \in [{} -> Nat]
    BY <2>1, <2>2
  <2> QED
    BY <2>3
<1>5. (\E j \in n .. n : w[j] = "headers") = FALSE
  BY <1>1
<1>6. Received(w, n, n) =
        [url |-> << >>, headers |-> << >>, content |-> << >>,
         shouldKeepAlive |-> FALSE, present |-> TRUE]
  BY <1>2, <1>4, <1>5, SortedNothing DEF Received
<1>7. NewMessage \in Message /\ Received(w, n, n) \in Message
  <2>1. << >> \in Seq(Nat) /\ << >> \in Seq(Header)
    BY EmptySeq
  <2>2. NoMessage \in Message
    BY <2>1 DEF NoMessage, Message
  <2>3. NewMessage \in Message
    BY <2>2 DEF NewMessage, Message
  <2> QED
    BY <1>6, <2>1, <2>3 DEF Message
<1>8. /\ NewMessage.url = << >> /\ NewMessage.headers = << >> /\ NewMessage.content = << >>
      /\ NewMessage.shouldKeepAlive = FALSE /\ NewMessage.present = TRUE
  BY DEF NewMessage, NoMessage
<1> QED
  BY <1>6, <1>7, <1>8, SameMessage

LEMMA OnMessageBeginStep ==
  ASSUME IInv, OnMessageBegin
  PROVE  IInv'
<1>1. /\ Reported(wire) /\ at \in Nat /\ at + 1 <= Len(wire) /\ wire[at + 1] = "begin"
      /\ at' = at + 1 /\ at' \in 0 .. Len(wire') /\ left' \in 0 .. Len(wire') - at'
      /\ ~ failed /\ ~ failed' /\ UNCHANGED <<wire, taken>>
  BY OneUnit DEF OnMessageBegin, IInv
<1>2. pending' = NewMessage /\ UNCHANGED <<queue, failed>>
  BY DEF OnMessageBegin
<1>3. NewMessage \in Message
  BY EmptySeq DEF NewMessage, NoMessage, Message
<1>4. TypeInv'
  BY <1>1, <1>2, <1>3 DEF IInv, TypeInv
<1>5. ASSUME NEW a \in 1 .. at + 1, IsStart(wire, a, at + 1)
      PROVE  pending' = Received(wire, a, at + 1)
  <2>1. a = at + 1
    BY <1>1, <1>5 DEF IsStart
  <2> QED
    BY <1>1, <1>2, <2>1, NothingYet
<1>6. ReceivedInv'
  BY <1>1, <1>5 DEF ReceivedInv
<1>7. SentMessages(wire, at + 1) = SentMessages(wire, at)
  BY <1>1, SentBegins
<1>8. SplitInvariant'
  BY <1>1, <1>2, <1>7 DEF IInv, SplitInvariant
<1> QED
  BY <1>4, <1>6, <1>8 DEF IInv

LEMMA OnMessageCompleteStep ==
  ASSUME IInv, OnMessageComplete
  PROVE  IInv'
<1>1. /\ Reported(wire) /\ at \in Nat /\ at + 1 <= Len(wire) /\ wire[at + 1] = "complete"
      /\ at' = at + 1 /\ at' \in 0 .. Len(wire') /\ left' \in 0 .. Len(wire') - at'
      /\ ~ failed /\ ~ failed' /\ UNCHANGED <<wire, taken>>
  BY OneUnit DEF OnMessageComplete, IInv
<1>2. pending' = NoMessage /\ queue' = Append(queue, pending) /\ UNCHANGED failed
  BY DEF OnMessageComplete
<1>3. pending \in Message /\ queue \in Seq(Message) /\ taken \in Seq(Message)
  BY DEF IInv, TypeInv
<1>4. TypeInv'
  <2>1. NoMessage \in Message
    BY EmptySeq DEF NoMessage, Message
  <2>2. queue' \in Seq(Message)
    BY <1>2, <1>3, AppendProperties
  <2> QED
    BY <1>1, <1>2, <2>1, <2>2 DEF IInv, TypeInv
<1>5. ReceivedInv'
  BY <1>1 DEF ReceivedInv, Open
<1>6. PICK a : IsStart(wire, a, at)
  <2>1. Open(wire, at)
    BY <1>1, OpenBefore
  <2>2. at \in 0 .. Len(wire)
    BY <1>1 DEF IInv, TypeInv
  <2> QED
    BY <1>1, <2>1, <2>2, Alternate DEF Alternates
<1>7. pending = Sent(wire, a, at + 1)
  <2>1. a \in 1 .. at
    BY <1>6 DEF IsStart
  <2>2. pending = Received(wire, a, at)
    BY <1>1, <1>6, <2>1, OpenBefore DEF IInv, ReceivedInv
  <2> QED
    BY <1>1, <1>6, <2>2, CompleteIsSent
<1>8. SentMessages(wire, at + 1) = Append(SentMessages(wire, at), pending)
  BY <1>1, <1>6, <1>7, SentEnds
<1>9. SplitInvariant'
  <2>1. taken \o queue = SentMessages(wire, at)
    BY DEF IInv, SplitInvariant
  <2>2. ASSUME NEW t \in Seq(Message), NEW q \in Seq(Message), NEW m \in Message
        PROVE  t \o Append(q, m) = Append(t \o q, m)
    OBVIOUS
  <2>3. taken' \o queue' = Append(taken \o queue, pending)
    BY <1>1, <1>2, <1>3, <2>2
  <2> QED
    BY <1>1, <1>8, <2>1, <2>3 DEF SplitInvariant
<1> QED
  BY <1>4, <1>5, <1>9 DEF IInv

LEMMA ReadStep ==
  ASSUME IInv, Read
  PROVE  IInv'
<1>1. /\ left' \in 1 .. Len(wire) - at /\ ~ failed
      /\ UNCHANGED <<wire, at, pending, queue, taken, failed>>
  BY DEF Read
<1>2. TypeInv'
  BY <1>1, WireTypes DEF IInv, TypeInv
<1>3. ReceivedInv' /\ SplitInvariant'
  BY <1>1 DEF IInv, ReceivedInv, SplitInvariant
<1> QED
  BY <1>2, <1>3 DEF IInv

LEMMA NextMessageStep ==
  ASSUME IInv, NextMessage
  PROVE  IInv'
<1>1. /\ queue # << >> /\ taken' = Append(taken, Head(queue)) /\ queue' = Tail(queue)
      /\ UNCHANGED <<wire, at, left, pending, failed>>
  BY DEF NextMessage
<1>2. queue \in Seq(Message) /\ taken \in Seq(Message)
  BY DEF IInv, TypeInv
<1>3. ASSUME NEW t \in Seq(Message), NEW q \in Seq(Message), q # << >>
      PROVE  /\ Append(t, Head(q)) \in Seq(Message) /\ Tail(q) \in Seq(Message)
             /\ Append(t, Head(q)) \o Tail(q) = t \o q
  BY <1>3
<1>4. TypeInv'
  BY <1>1, <1>2, <1>3 DEF IInv, TypeInv
<1>5. ReceivedInv'
  BY <1>1 DEF IInv, ReceivedInv
<1>6. SplitInvariant'
  BY <1>1, <1>2, <1>3 DEF IInv, SplitInvariant
<1> QED
  BY <1>4, <1>5, <1>6 DEF IInv

-----------------------------------------------------------------------------
(* The theorems.                                                           *)

LEMMA InitIInv == Init => IInv
<1> SUFFICES ASSUME Init
             PROVE  IInv
  OBVIOUS
<1>1. Reported(wire) /\ Len(wire) \in Nat
  BY WiresAssumption, LenProperties DEF Init, Reported
<1>2. TypeInv
  <2>1. NoMessage \in Message
    BY EmptySeq DEF NoMessage, Message
  <2>2. << >> \in Seq(Message)
    BY EmptySeq
  <2>3. 0 \in 0 .. Len(wire) /\ 0 \in 0 .. Len(wire) - 0
    BY <1>1
  <2> QED
    BY <2>1, <2>2, <2>3 DEF Init, TypeInv
<1>3. ReceivedInv
  BY DEF Init, ReceivedInv, Open
<1>4. SentMessages(wire, 0) = << >>
  <2>1. Positions(wire, "complete", 1, 0) = {}
    BY DEF Positions
  <2>2. Sorted(Positions(wire, "complete", 1, 0)) = << >>
    BY <2>1, SortedNothing
  <2>3. 1 .. Len(Sorted(Positions(wire, "complete", 1, 0))) = {}
    BY <2>2
  <2>4. SentMessages(wire, 0) \in [{} -> Nat]
    BY <2>3 DEF SentMessages
  <2> QED
    BY <2>4
<1>5. SplitInvariant
  BY <1>4 DEF Init, SplitInvariant
<1> QED
  BY <1>2, <1>3, <1>5 DEF IInv

LEMMA NextIInv == IInv /\ [Next]_vars => IInv'
<1> SUFFICES ASSUME IInv, [Next]_vars
             PROVE  IInv'
  OBVIOUS
<1>1. CASE OnMessageBegin
  BY <1>1, OnMessageBeginStep
<1>2. CASE OnUrl
  BY <1>2, OnUrlStep
<1>3. CASE OnStatus
  BY <1>3, OnStatusStep
<1>4. CASE OnHeaderField
  BY <1>4, OnHeaderFieldStep
<1>5. CASE OnHeaderValue
  BY <1>5, OnHeaderValueStep
<1>6. CASE OnHeadersComplete
  BY <1>6, OnHeadersCompleteStep
<1>7. CASE OnBody
  BY <1>7, OnBodyStep
<1>8. CASE OnMessageComplete
  BY <1>8, OnMessageCompleteStep
<1>9. CASE SyntaxError
  BY <1>9, SyntaxErrorStep
<1>10. CASE Read
  BY <1>10, ReadStep
<1>11. CASE NextMessage
  BY <1>11, NextMessageStep
<1>12. CASE UNCHANGED vars
  BY <1>12 DEF IInv, TypeInv, ReceivedInv, SplitInvariant, vars
<1> QED
  BY <1>1, <1>2, <1>3, <1>4, <1>5, <1>6, <1>7, <1>8, <1>9, <1>10, <1>11, <1>12 DEF Next

\* What the parser holds of an open message is what has come of it, and the
\* messages it has completed are those that were sent.
THEOREM Inductive == Spec => []IInv
<1>1. Init => IInv
  BY InitIInv
<1>2. IInv /\ [Next]_vars => IInv'
  BY NextIInv
<1> QED
  BY <1>1, <1>2, PTL DEF Spec

\* For every wire that http_parser can report, and every way in which the reads
\* split it, the messages that leave the parser are the ones that were sent.
THEOREM SplitsDoNotMatter == Spec => []SplitInvariant
<1>1. IInv => SplitInvariant
  BY DEF IInv
<1> QED
  BY <1>1, Inductive, PTL
=============================================================================
