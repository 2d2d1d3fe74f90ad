------------------------ MODULE HttpClientCoreProofs ------------------------
(***************************************************************************)
(* The safety of HttpClientCore for any number of endpoints, connections    *)
(* and requests, whatever the user does in its callbacks.  The inductive   *)
(* invariant says where each transaction and each connection is, that the  *)
(* counters count them, and that the core is deleted exactly if what       *)
(* ConsiderDestroy tests is at an end.                                     *)
(***************************************************************************)
EXTENDS HttpClientCore, FiniteSetTheorems, SequenceTheorems, TLAPS

-----------------------------------------------------------------------------
(* The inductive invariant.                                                *)

\* The names of requests to come are not in use, and each getaddrinfo was for a request.
FreshInv ==
  /\ Transactions \subseteq 1 .. issued
  /\ \A g \in Groups : resolving[g] <= issued

\* A transaction that waits is in one place,
UniqueInv ==
  \A g, h \in Groups : \A i \in 1 .. Len(waiting[g]), k \in 1 .. Len(waiting[h]) :
    waiting[g][i] = waiting[h][k] => g = h /\ i = k

\* and is neither a connection's nor in on_response;
ApartInv ==
  \A g \in Groups : \A t \in Elements(waiting[g]) :
    t \notin InCallback /\ \A c \in Connections : t \notin live[c]

\* and no on_response runs twice at a time.
OnceInv ==
  \A i, k \in 1 .. Len(stack) :
    stack[i].at = "user" /\ stack[k].at = "user" /\ stack[i].of = stack[k].of => i = k

WaitInv == UniqueInv /\ ApartInv /\ OnceInv

\* The lists a connection is in are those that its phase says, and it is in one place.
OpenInv ==
  /\ \A g \in Groups : \A c \in Elements(openConnections[g]) : phase[c] = "up"
  /\ \A g, h \in Groups : \A i \in 1 .. Len(openConnections[g]), k \in 1 .. Len(openConnections[h]) :
       openConnections[g][i] = openConnections[h][k] => g = h /\ i = k

ClosingInv ==
  \A g \in Groups : \A c \in closingConnections[g] :
    phase[c] = "closing" /\ \A h \in Groups : c \in closingConnections[h] => h = g

ListedInv ==
  \A c \in Connections :
    /\ phase[c] = "new" => live[c] = {}
    /\ phase[c] \in {"up", "closing"} => c \in Listed

ConnInv == OpenInv /\ ClosingInv /\ ListedInv

\* What ConsiderDestroy tests.
Unneeded == ~shell /\ resolveCount = 0 /\ connectionCount = 0 /\ transactionCount = 0

\* The core is deleted as soon as ConsiderDestroy would do it.
EndInv == deleted <=> Unneeded

\* The parts of CountersExact.
TransactionsCounted == transactionCount = Cardinality(Transactions)
ConnectionsCounted  == connectionCount = Cardinality(Listed) + Cardinality(FramesAt("initFailed"))
ResolvesCounted     == resolveCount = Cardinality(ResolveUnits) + Cardinality(FramesAt("resolveFailed"))

IInv ==
  /\ TypeOK /\ TransactionsCounted /\ ConnectionsCounted /\ ResolvesCounted
  /\ FreshInv /\ WaitInv /\ ConnInv /\ EndInv

-----------------------------------------------------------------------------
(* Counting.                                                               *)

\* One more, and one less.
LEMMA OneMore ==
  ASSUME NEW s, IsFiniteSet(s), NEW x, x \notin s
  PROVE  Cardinality(s \cup {x}) = Cardinality(s) + 1
BY FS_AddElement

LEMMA OneLess ==
  ASSUME NEW s, IsFiniteSet(s), NEW x \in s
  PROVE  Cardinality(s \ {x}) = Cardinality(s) - 1
BY FS_RemoveElement

\* What is in a sequence.
LEMMA ElementsAre ==
  ASSUME NEW s, NEW q \in Seq(s)
  PROVE  /\ Elements(q) \in SUBSET s
         /\ q # <<>> => Head(q) \in Elements(q) /\ q[1] = Head(q) /\ 1 \in 1 .. Len(q)
         /\ q = <<>> <=> Elements(q) = {}
<1>1. Elements(q) \in SUBSET s
  BY DEF Elements
<1>2. q # <<>> => Head(q) \in Elements(q) /\ q[1] = Head(q) /\ 1 \in 1 .. Len(q)
  BY DEF Elements
<1>3. q = <<>> => Elements(q) = {}
  BY DEF Elements
<1>4. QED
  BY <1>1, <1>2, <1>3

\* The sets that are counted, by what is in them.
LEMMA TransactionsAre ==
  ASSUME NEW t
  PROVE  t \in Transactions <=>
           \/ t \in InCallback
           \/ \E c \in Connections : t \in live[c]
           \/ \E g \in Groups : t \in Elements(waiting[g])
BY DEF Transactions

LEMMA ListedAre ==
  ASSUME NEW c
  PROVE  c \in Listed <=>
           \E g \in Groups : c \in Elements(openConnections[g]) \/ c \in closingConnections[g]
BY DEF Listed

LEMMA InCallbackIs ==
  ASSUME NEW t
  PROVE  t \in InCallback <=> \E i \in 1 .. Len(stack) : stack[i].at = "user" /\ stack[i].of = t
BY DEF InCallback, Elements

\* All of them are finite.
LEMMA Finite ==
  ASSUME TypeOK
  PROVE  /\ Transactions \in SUBSET Requests /\ IsFiniteSet(Transactions)
         /\ Listed \in SUBSET Connections /\ IsFiniteSet(Listed)
         /\ IsFiniteSet(ResolveUnits)
         /\ \A at : IsFiniteSet(FramesAt(at))
<1>1. \A i \in 1 .. Len(stack) : stack[i] \in Frames
  BY DEF TypeOK
<1>2. InCallback \in SUBSET Requests
  <2>1. ASSUME NEW i \in 1 .. Len(stack), stack[i].at = "user"
        PROVE  stack[i].of \in Requests
    BY <1>1, <2>1 DEF Frames
  <2>2. QED
    BY <2>1, InCallbackIs
<1>3. \A g \in Groups : /\ Elements(waiting[g]) \in SUBSET Requests
                        /\ Elements(openConnections[g]) \in SUBSET Connections
  BY ElementsAre DEF TypeOK
<1>4. Transactions \in SUBSET Requests
  BY <1>2, <1>3, TransactionsAre DEF TypeOK
<1>5. Listed \in SUBSET Connections
  BY <1>3, ListedAre DEF TypeOK
<1>6. IsFiniteSet(Requests) /\ IsFiniteSet(Connections) /\ IsFiniteSet(Groups)
  BY CoreAssumption, FS_Interval DEF Requests
<1>7. IsFiniteSet(ResolveUnits)
  <2>1. IsFiniteSet(Groups \X (1 .. MaxRequests))
    BY <1>6, FS_Product DEF Requests
  <2>2. QED
    BY <2>1, FS_Subset DEF ResolveUnits
<1>8. \A at : IsFiniteSet(FramesAt(at))
  <2>1. IsFiniteSet(1 .. Len(stack))
    BY FS_Interval DEF TypeOK
  <2>2. QED
    BY <2>1, FS_Subset DEF FramesAt
<1>9. QED
  BY <1>4, <1>5, <1>6, <1>7, <1>8, FS_Subset

\* The cardinalities are numbers.
LEMMA Numbers ==
  ASSUME TypeOK
  PROVE  /\ Cardinality(Transactions) \in Nat /\ Cardinality(Listed) \in Nat
         /\ Cardinality(ResolveUnits) \in Nat
         /\ \A at : Cardinality(FramesAt(at)) \in Nat
BY Finite, FS_CardinalityType

-----------------------------------------------------------------------------
(* The stack.                                                              *)

\* A callback or a loop begins.
LEMMA PushCounts ==
  ASSUME TypeOK, NEW at, NEW of, [at |-> at, of |-> of] \in Frames, Push(at, of)
  PROVE  /\ stack' \in Seq(Frames) /\ Len(stack') = Len(stack) + 1
         /\ \A i \in 1 .. Len(stack) : stack'[i] = stack[i]
         /\ stack'[Len(stack) + 1] = [at |-> at, of |-> of]
         /\ Cardinality(FramesAt(at)') = Cardinality(FramesAt(at)) + 1
         /\ \A a : a # at => FramesAt(a)' = FramesAt(a)
         /\ at = "user" => InCallback' = InCallback \cup {of}
         /\ at # "user" => InCallback' = InCallback
<1> DEFINE n == Len(stack)
           x == [at |-> at, of |-> of]
<1>1. stack \in Seq(Frames) /\ n \in Nat /\ x.at = at /\ x.of = of
  BY DEF TypeOK
<1>2. /\ stack' \in Seq(Frames) /\ Len(stack') = n + 1
      /\ \A i \in 1 .. n : stack'[i] = stack[i]
      /\ stack'[n + 1] = x
  BY <1>1, AppendProperties DEF Push
<1> HIDE DEF x
<1>3. \A i : i \in 1 .. n + 1 <=> i \in 1 .. n \/ i = n + 1
  BY <1>1
<1>4. FramesAt(at)' = FramesAt(at) \cup {n + 1} /\ n + 1 \notin FramesAt(at)
  BY <1>1, <1>2, <1>3 DEF FramesAt
<1>5. ASSUME NEW a, a # at
      PROVE  FramesAt(a)' = FramesAt(a)
  BY <1>1, <1>2, <1>3, <1>5 DEF FramesAt
<1>6. ASSUME NEW t
      PROVE  t \in InCallback' <=> t \in InCallback \/ (at = "user" /\ t = of)
  <2>1. t \in InCallback' <=> \E i \in 1 .. n + 1 : stack'[i].at = "user" /\ stack'[i].of = t
    BY <1>2 DEF InCallback, Elements
  <2>2. t \in InCallback <=> \E i \in 1 .. n : stack[i].at = "user" /\ stack[i].of = t
    BY InCallbackIs
  <2>3. QED
    BY <1>1, <1>2, <1>3, <2>1, <2>2
<1>7. Cardinality(FramesAt(at)') = Cardinality(FramesAt(at)) + 1
  BY <1>4, Finite, OneMore
<1>8. /\ at = "user" => InCallback' = InCallback \cup {of}
      /\ at # "user" => InCallback' = InCallback
  BY <1>6
<1>9. QED
  BY <1>2, <1>5, <1>7, <1>8 DEF x

\* The last one returns.
LEMMA PopCounts ==
  ASSUME TypeOK, WaitInv, ~AtLoop, stack' = Callers, NEW at, Running.at = at
  PROVE  /\ Len(stack) \in Nat \ {0} /\ Running \in Frames /\ Running = stack[Len(stack)]
         /\ stack' \in Seq(Frames) /\ Len(stack') = Len(stack) - 1
         /\ \A i \in 1 .. Len(stack') : i \in 1 .. Len(stack) /\ stack'[i] = stack[i]
         /\ Cardinality(FramesAt(at)') = Cardinality(FramesAt(at)) - 1
         /\ \A a : a # at => FramesAt(a)' = FramesAt(a)
         /\ at = "user" => /\ Running.of \in InCallback
                          /\ InCallback' = InCallback \ {Running.of}
         /\ at # "user" => InCallback' = InCallback
<1> DEFINE n == Len(stack)
<1>1. stack \in Seq(Frames) /\ n \in Nat \ {0} /\ n \in 1 .. n
  BY DEF TypeOK, AtLoop
<1>2. Running = stack[n] /\ Running \in Frames
  BY <1>1 DEF Running
<1>3. n - 1 \in Int /\ \A i \in 1 .. n - 1 : stack[i] \in Frames
  BY <1>1
<1>4. stack' \in Seq(Frames) /\ Len(stack') = n - 1
  <2>1. stack' \in Seq(Frames) /\ Len(stack') = IF 1 <= n - 1 THEN (n - 1) - 1 + 1 ELSE 0
    BY <1>3, SubSeqProperties DEF Callers
  <2>2. CASE n = 1
    <3>1. ~(1 <= n - 1) /\ n - 1 = 0
      BY <2>2
    <3>2. QED
      BY <2>1, <3>1, Zenon
  <2>3. CASE n # 1
    <3>1. n \in Nat \ {0}
      BY <1>1
    <3>2. 1 <= n - 1 /\ (n - 1) - 1 + 1 = n - 1
      BY <2>3, <3>1
    <3>3. QED
      BY <2>1, <3>2, Zenon
  <2>4. QED
    BY <2>2, <2>3
<1>5. ASSUME NEW i \in 1 .. n - 1
      PROVE  i \in 1 .. n /\ i # n /\ stack'[i] = stack[i]
  <2>1. \A k \in 1 .. (n - 1) - 1 + 1 : SubSeq(stack, 1, n - 1)[k] = stack[1 + k - 1]
    BY <1>3, SubSeqProperties
  <2>2. i \in 1 .. (n - 1) - 1 + 1 /\ 1 + i - 1 = i /\ i \in 1 .. n /\ i # n
    BY <1>1
  <2>3. QED
    BY <2>1, <2>2 DEF Callers
<1>6. \A i : i \in 1 .. n <=> i \in 1 .. n - 1 \/ i = n
  BY <1>1
<1>7. /\ FramesAt(at)' = FramesAt(at) \ {n} /\ n \in FramesAt(at)
  <2>1. n \in {i \in 1 .. n : stack[i].at = at}
    BY <1>1, <1>2
  <2>2. {i \in 1 .. Len(stack') : stack'[i].at = at} = {i \in 1 .. n : stack[i].at = at} \ {n}
    BY <1>4, <1>5, <1>6
  <2>3. QED
    BY <2>1, <2>2 DEF FramesAt
<1>8. ASSUME NEW a, a # at
      PROVE  FramesAt(a)' = FramesAt(a)
  BY <1>2, <1>4, <1>5, <1>6, <1>8 DEF FramesAt
<1>9. ASSUME NEW t
      PROVE  /\ t \in InCallback' <=> \E i \in 1 .. n - 1 : stack[i].at = "user" /\ stack[i].of = t
             /\ t \in InCallback <=> \E i \in 1 .. n : stack[i].at = "user" /\ stack[i].of = t
  <2>1. t \in InCallback' <=> \E i \in 1 .. n - 1 : stack'[i].at = "user" /\ stack'[i].of = t
    BY <1>4 DEF InCallback, Elements
  <2>2. QED
    BY <1>5, <2>1, InCallbackIs
<1>10. CASE at = "user"
  <2>1. ASSUME NEW i \in 1 .. n - 1, stack[i].at = "user"
        PROVE  stack[i].of # Running.of
    BY <1>1, <1>2, <1>5, <1>10, <2>1 DEF WaitInv, OnceInv
  <2>2. Running.of \in InCallback
    BY <1>1, <1>2, <1>9, <1>10
  <2>3. ASSUME NEW t
        PROVE  t \in InCallback' <=> t \in InCallback /\ t # Running.of
    BY <1>2, <1>6, <1>9, <1>10, <2>1
  <2>4. QED
    BY <1>1, <1>2, <1>4, <1>5, <1>7, <1>8, <1>10, <2>2, <2>3, Finite, OneLess
<1>11. CASE at # "user"
  <2>1. ASSUME NEW t
        PROVE  t \in InCallback' <=> t \in InCallback
    BY <1>2, <1>6, <1>9, <1>11
  <2>2. QED
    BY <1>1, <1>2, <1>4, <1>5, <1>7, <1>8, <1>11, <2>1, Finite, OneLess
<1>12. QED
  BY <1>10, <1>11

\* What is pushed and popped keeps every on_response on the stack once.
LEMMA PushOnce ==
  ASSUME TypeOK, OnceInv, NEW at, NEW of, [at |-> at, of |-> of] \in Frames, Push(at, of),
         at = "user" => of \notin InCallback
  PROVE  OnceInv'
<1> DEFINE n == Len(stack)
<1>1. /\ Len(stack') = n + 1 /\ n \in Nat
      /\ \A i \in 1 .. n : stack'[i] = stack[i]
      /\ stack'[n + 1].at = at /\ stack'[n + 1].of = of
  BY PushCounts DEF TypeOK
<1>2. \A i : i \in 1 .. n + 1 <=> i \in 1 .. n \/ i = n + 1
  BY <1>1
<1>3. at = "user" => \A i \in 1 .. n : stack[i].at = "user" => stack[i].of # of
  BY InCallbackIs
<1>4. QED
  BY <1>1, <1>2, <1>3 DEF OnceInv

LEMMA PopOnce ==
  ASSUME TypeOK, WaitInv, ~AtLoop, stack' = Callers
  PROVE  OnceInv'
<1>1. \A i \in 1 .. Len(stack') : i \in 1 .. Len(stack) /\ stack'[i] = stack[i]
  BY PopCounts
<1>2. QED
  BY <1>1 DEF WaitInv, OnceInv

-----------------------------------------------------------------------------
(* The counters, the connections and the end.                              *)

\* A getaddrinfo call begins, and one ends.
LEMMA ResolveMore ==
  ASSUME TypeOK, NEW g \in Groups, resolving[g] < MaxRequests,
         resolving' = Update(resolving, g, resolving[g] + 1)
  PROVE  /\ resolving' \in [Groups -> Nat]
         /\ Cardinality(ResolveUnits') = Cardinality(ResolveUnits) + 1
<1>1. resolving \in [Groups -> Nat] /\ MaxRequests \in Nat
  BY CoreAssumption DEF TypeOK
<1>2. resolving' \in [Groups -> Nat]
  BY <1>1 DEF Update
<1> DEFINE u == <<g, resolving[g] + 1>>
<1>3. u \notin ResolveUnits
  BY <1>1 DEF ResolveUnits
<1>4. ResolveUnits' = ResolveUnits \cup {u}
  <2>1. ASSUME NEW h \in Groups, NEW k \in 1 .. MaxRequests
        PROVE  k <= resolving'[h] <=> k <= resolving[h] \/ (h = g /\ k = resolving[g] + 1)
    BY <1>1 DEF Update
  <2>2. resolving[g] + 1 \in 1 .. MaxRequests
    BY <1>1
  <2>3. QED
    BY <2>1, <2>2 DEF ResolveUnits
<1>5. QED
  BY <1>2, <1>3, <1>4, Finite, OneMore

LEMMA ResolveLess ==
  ASSUME TypeOK, NEW g \in Groups, resolving[g] > 0, resolving[g] <= MaxRequests,
         resolving' = Update(resolving, g, resolving[g] - 1)
  PROVE  /\ resolving' \in [Groups -> Nat]
         /\ Cardinality(ResolveUnits') = Cardinality(ResolveUnits) - 1
         /\ Cardinality(ResolveUnits) > 0
<1>1. resolving \in [Groups -> Nat] /\ MaxRequests \in Nat
  BY CoreAssumption DEF TypeOK
<1>2. resolving' \in [Groups -> Nat]
  BY <1>1 DEF Update
<1> DEFINE u == <<g, resolving[g]>>
<1>3. u \in ResolveUnits
  <2>1. resolving[g] \in 1 .. MaxRequests
    BY <1>1
  <2>2. QED
    BY <1>1, <2>1 DEF ResolveUnits
<1>4. ResolveUnits' = ResolveUnits \ {u}
  <2>1. ASSUME NEW h \in Groups, NEW k \in 1 .. MaxRequests
        PROVE  k <= resolving'[h] <=> k <= resolving[h] /\ ~(h = g /\ k = resolving[g])
    BY <1>1 DEF Update
  <2>2. QED
    BY <2>1 DEF ResolveUnits
<1>5. Cardinality(ResolveUnits) # 0
  BY <1>3, Finite, FS_EmptySet
<1>6. QED
  BY <1>2, <1>3, <1>4, <1>5, Finite, Numbers, OneLess

\* ConsiderDestroy leaves the core deleted exactly if there is no need for it.
LEMMA Ends ==
  ASSUME TypeOK, ~deleted, NEW passed \in BOOLEAN, ConsiderDestroy(passed)
  PROVE  EndInv' /\ onDestroy' \in BOOLEAN /\ deleted' \in BOOLEAN /\ notified' \in Nat
<1>1. CASE Unneeded'
  <2>1. /\ deleted' = TRUE /\ onDestroy' = FALSE
        /\ notified' = notified + (IF passed THEN 1 ELSE 0)
    BY <1>1 DEF ConsiderDestroy, Unneeded
  <2>2. notified' \in Nat
    BY <2>1 DEF TypeOK
  <2>3. QED
    BY <1>1, <2>1, <2>2 DEF EndInv
<1>2. CASE ~Unneeded'
  <2>1. deleted' = deleted /\ onDestroy' = passed /\ notified' = notified
    BY <1>2 DEF ConsiderDestroy, Unneeded
  <2>2. QED
    BY <1>2, <2>1 DEF EndInv, TypeOK
<1>3. QED
  BY <1>1, <1>2

\* A step of a core that is needed, and still is, does not end it.
LEMMA EndsNot ==
  ASSUME TypeOK, ~deleted, ~Unneeded', UNCHANGED endVars
  PROVE  EndInv' /\ onDestroy' \in BOOLEAN /\ deleted' \in BOOLEAN /\ notified' \in Nat
BY DEF TypeOK, EndInv, endVars

\* Steps that leave the lists alone.
LEMMA ConnsStay ==
  ASSUME ConnInv, UNCHANGED <<phase, openConnections, closingConnections>>,
         \A c \in Connections : phase[c] = "new" => live'[c] = {}
  PROVE  ConnInv' /\ Listed' = Listed
<1>1. Listed' = Listed
  BY DEF Listed
<1>2. QED
  BY <1>1 DEF ConnInv, OpenInv, ClosingInv, ListedInv

\* What waits stays apart when transactions only go.
LEMMA ApartStays ==
  ASSUME ApartInv, InCallback' \subseteq InCallback,
         \A g \in Groups : Elements(waiting'[g]) \subseteq Elements(waiting[g]),
         \A c \in Connections : live'[c] \subseteq live[c]
  PROVE  ApartInv'
<1>1. ASSUME NEW g \in Groups, NEW t \in Elements(waiting[g])'
      PROVE  t \notin InCallback' /\ \A c \in Connections : t \notin live'[c]
  <2>1. t \in Elements(waiting[g])
    BY <1>1 DEF Elements
  <2>2. QED
    BY <2>1 DEF ApartInv
<1>2. QED
  BY <1>1 DEF ApartInv

\* A request's name is new, and nothing ends.
LEMMA NewRequestCounts ==
  ASSUME IInv, NewRequest
  PROVE  /\ issued' = issued + 1 /\ issued' \in Requests /\ issued' \in 0 .. MaxRequests
         /\ issued' \notin Transactions
         /\ transactionCount' \in Nat /\ EndInv'
         /\ UNCHANGED <<userVars, endVars, connectionCount, listVars>>
         /\ Transactions' = Transactions \cup {issued'} =>
              TransactionsCounted' /\ Transactions' \subseteq 1 .. issued'
<1>1. /\ issued' = issued + 1 /\ transactionCount' = transactionCount + 1 /\ shell
      /\ UNCHANGED <<userVars, endVars, connectionCount, listVars>>
      /\ issued < MaxRequests /\ issued \in 0 .. MaxRequests /\ MaxRequests \in Nat
      /\ transactionCount \in Nat
  BY CoreAssumption DEF IInv, TypeOK, NewRequest
<1>2. /\ issued' \in Requests /\ issued' \in 0 .. MaxRequests /\ issued' \notin 1 .. issued
      /\ issued \in Nat
  BY <1>1 DEF Requests
<1>3. issued' \notin Transactions
  BY <1>2 DEF IInv, FreshInv
<1>4. EndInv'
  BY <1>1 DEF IInv, EndInv, Unneeded, userVars, endVars
<1>5. ASSUME Transactions' = Transactions \cup {issued'}
      PROVE  TransactionsCounted' /\ Transactions' \subseteq 1 .. issued'
  <2>1. Cardinality(Transactions') = Cardinality(Transactions) + 1
    BY <1>3, <1>5, Finite, OneMore DEF IInv
  <2>2. TransactionsCounted'
    BY <1>1, <2>1 DEF IInv, TransactionsCounted
  <2>3. 1 .. issued \subseteq 1 .. issued' /\ issued' \in 1 .. issued'
    BY <1>1, <1>2
  <2>4. QED
    BY <1>5, <2>2, <2>3 DEF IInv, FreshInv
<1>6. QED
  BY <1>1, <1>2, <1>3, <1>4, <1>5

-----------------------------------------------------------------------------
(* Every step preserves the invariant.                                     *)

LEMMA AsyncProcessFailsStep ==
  ASSUME IInv, AsyncProcessFails
  PROVE  IInv'
<1> DEFINE r == issued'
<1>1. /\ NewRequest /\ Push("user", r)
      /\ UNCHANGED <<resolveCount, waiting, resolving, phase, connecting, live>>
  BY DEF AsyncProcessFails, connVars
<1>2. /\ r = issued + 1 /\ r \in Requests /\ r \in 0 .. MaxRequests /\ r \notin Transactions
      /\ transactionCount' \in Nat /\ EndInv'
      /\ UNCHANGED <<userVars, endVars, connectionCount, listVars>>
      /\ Transactions' = Transactions \cup {r} =>
           TransactionsCounted' /\ Transactions' \subseteq 1 .. r
  BY <1>1, NewRequestCounts
<1>3. [at |-> "user", of |-> r] \in Frames
  BY <1>2 DEF Frames
<1>4. /\ stack' \in Seq(Frames) /\ InCallback' = InCallback \cup {r}
      /\ FramesAt("initFailed")' = FramesAt("initFailed")
      /\ FramesAt("resolveFailed")' = FramesAt("resolveFailed")
  BY <1>1, <1>3, PushCounts DEF IInv
<1>5. Transactions' = Transactions \cup {r}
  BY <1>1, <1>4 DEF Transactions
<1>6. TypeOK'
  BY <1>1, <1>2, <1>4 DEF IInv, TypeOK, userVars, endVars, listVars
<1>7. ConnInv' /\ Listed' = Listed
  BY <1>1, <1>2, ConnsStay DEF IInv, ConnInv, ListedInv, listVars
<1>8. ConnectionsCounted' /\ ResolvesCounted'
  BY <1>1, <1>2, <1>4, <1>7 DEF IInv, ConnectionsCounted, ResolvesCounted, ResolveUnits
<1>9. FreshInv'
  BY <1>1, <1>2, <1>5 DEF IInv, FreshInv, TypeOK
<1>10. WaitInv'
  <2>1. UniqueInv'
    BY <1>1 DEF IInv, WaitInv, UniqueInv
  <2>2. ApartInv'
    BY <1>1, <1>2, <1>4, TransactionsAre DEF IInv, WaitInv, ApartInv
  <2>3. OnceInv'
    BY <1>1, <1>2, <1>3, PushOnce, TransactionsAre DEF IInv, WaitInv
  <2>4. QED
    BY <2>1, <2>2, <2>3 DEF WaitInv
<1>11. QED
  BY <1>2, <1>5, <1>6, <1>7, <1>8, <1>9, <1>10 DEF IInv

LEMMA AsyncProcessConnectedStep ==
  ASSUME IInv, NEW g \in Groups, AsyncProcessConnected(g)
  PROVE  IInv'
<1> DEFINE r == issued'
           c == Head(openConnections[g])
<1>1. /\ NewRequest /\ openConnections[g] # <<>>
      /\ live' = Update(live, c, live[c] \cup {r})
      /\ UNCHANGED <<resolveCount, waiting, resolving, phase, connecting, stack>>
  BY DEF AsyncProcessConnected
<1>2. /\ r = issued + 1 /\ r \in Requests /\ r \in 0 .. MaxRequests /\ r \notin Transactions
      /\ transactionCount' \in Nat /\ EndInv'
      /\ UNCHANGED <<userVars, endVars, connectionCount, listVars>>
      /\ Transactions' = Transactions \cup {r} =>
           TransactionsCounted' /\ Transactions' \subseteq 1 .. r
  BY <1>1, NewRequestCounts
<1>3. c \in Connections /\ phase[c] = "up"
  <2>1. openConnections[g] \in Seq(Connections)
    BY DEF IInv, TypeOK
  <2>2. c \in Elements(openConnections[g]) /\ c \in Connections
    BY <1>1, <2>1, ElementsAre
  <2>3. QED
    BY <2>2 DEF IInv, ConnInv, OpenInv
<1>4. /\ live' \in [Connections -> SUBSET Requests]
      /\ \A d \in Connections : live'[d] = IF d = c THEN live[d] \cup {r} ELSE live[d]
  BY <1>1, <1>2, <1>3 DEF IInv, TypeOK, Update
<1>5. /\ InCallback' = InCallback /\ FramesAt("initFailed")' = FramesAt("initFailed")
      /\ FramesAt("resolveFailed")' = FramesAt("resolveFailed")
  BY <1>1 DEF InCallback, FramesAt, Elements
<1>6. Transactions' = Transactions \cup {r}
  <2>1. UNION {live'[d] : d \in Connections} = (UNION {live[d] : d \in Connections}) \cup {r}
    BY <1>3, <1>4
  <2>2. QED
    BY <1>1, <1>5, <2>1 DEF Transactions
<1>7. TypeOK'
  BY <1>1, <1>2, <1>4 DEF IInv, TypeOK, userVars, endVars, listVars
<1>8. ConnInv' /\ Listed' = Listed
  BY <1>1, <1>2, <1>3, <1>4, ConnsStay DEF IInv, ConnInv, ListedInv, listVars
<1>9. ConnectionsCounted' /\ ResolvesCounted'
  BY <1>1, <1>2, <1>5, <1>8 DEF IInv, ConnectionsCounted, ResolvesCounted, ResolveUnits
<1>10. FreshInv'
  BY <1>1, <1>2, <1>6 DEF IInv, FreshInv, TypeOK
<1>11. WaitInv'
  <2>1. UniqueInv' /\ OnceInv'
    BY <1>1 DEF IInv, WaitInv, UniqueInv, OnceInv
  <2>2. ASSUME NEW h \in Groups, NEW t \in Elements(waiting'[h])
        PROVE  t \notin InCallback' /\ \A d \in Connections : t \notin live'[d]
    <3>1. t \in Elements(waiting[h]) /\ t \in Transactions
      BY <1>1, TransactionsAre
    <3>2. t # r
      BY <1>2, <3>1
    <3>3. QED
      BY <1>4, <1>5, <3>1, <3>2 DEF IInv, WaitInv, ApartInv
  <2>3. QED
    BY <2>1, <2>2 DEF WaitInv, ApartInv
<1>12. QED
  BY <1>2, <1>6, <1>7, <1>8, <1>9, <1>10, <1>11 DEF IInv

LEMMA AsyncProcessWaitsStep ==
  ASSUME IInv, NEW g \in Groups, AsyncProcessWaits(g)
  PROVE  IInv'
<1> DEFINE r == issued'
           q == waiting[g]
<1>1. /\ NewRequest /\ waiting' = Update(waiting, g, Append(q, r))
      /\ UNCHANGED <<phase, connecting, live>>
  BY DEF AsyncProcessWaits, connVars
<1>2. /\ r = issued + 1 /\ r \in Requests /\ r \in 0 .. MaxRequests /\ r \notin Transactions
      /\ transactionCount' \in Nat /\ EndInv'
      /\ UNCHANGED <<userVars, endVars, connectionCount, listVars>>
      /\ Transactions' = Transactions \cup {r} =>
           TransactionsCounted' /\ Transactions' \subseteq 1 .. r
  BY <1>1, NewRequestCounts
<1>3. /\ q \in Seq(Requests) /\ Len(q) \in Nat /\ Append(q, r) \in Seq(Requests)
      /\ Len(Append(q, r)) = Len(q) + 1
      /\ \A i \in 1 .. Len(q) : Append(q, r)[i] = q[i]
      /\ Append(q, r)[Len(q) + 1] = r
  <2>1. q \in Seq(Requests)
    BY DEF IInv, TypeOK
  <2>2. QED
    BY <1>2, <2>1, AppendProperties, LenProperties
<1>4. /\ waiting' \in [Groups -> Seq(Requests)] /\ waiting'[g] = Append(q, r)
      /\ \A h \in Groups : h # g => waiting'[h] = waiting[h]
  BY <1>1, <1>3 DEF IInv, TypeOK, Update
<1>5. \A i : i \in 1 .. Len(waiting'[g]) <=> i \in 1 .. Len(q) \/ i = Len(q) + 1
  BY <1>3, <1>4
<1>6. Elements(waiting'[g]) = Elements(q) \cup {r}
  BY <1>3, <1>4, <1>5 DEF Elements
\* The resolution, if it is the first to wait.
<1>7. /\ resolving' \in [Groups -> Nat] /\ \A h \in Groups : resolving'[h] <= issued'
      /\ resolveCount' \in Nat /\ stack' \in Seq(Frames) /\ ResolvesCounted'
      /\ InCallback' = InCallback /\ FramesAt("initFailed")' = FramesAt("initFailed")
      /\ OnceInv'
  <2>1. CASE UNCHANGED <<resolveCount, resolving, stack>>
    <3>1. /\ InCallback' = InCallback /\ FramesAt("initFailed")' = FramesAt("initFailed")
          /\ FramesAt("resolveFailed")' = FramesAt("resolveFailed") /\ ResolveUnits' = ResolveUnits
      BY <2>1 DEF InCallback, FramesAt, Elements, ResolveUnits
    <3>2. ResolvesCounted' /\ OnceInv'
      BY <2>1, <3>1 DEF IInv, ResolvesCounted, WaitInv, OnceInv
    <3>3. QED
      BY <1>2, <2>1, <3>1, <3>2 DEF IInv, TypeOK, FreshInv
  <2>2. CASE /\ resolveCount' = resolveCount + 1 /\ UNCHANGED stack
             /\ resolving' = Update(resolving, g, resolving[g] + 1)
    <3>1. resolving[g] < MaxRequests /\ \A h \in Groups : resolving'[h] <= issued'
      BY <1>2, <2>2, CoreAssumption DEF IInv, TypeOK, FreshInv, Update
    <3>2. /\ resolving' \in [Groups -> Nat]
          /\ Cardinality(ResolveUnits') = Cardinality(ResolveUnits) + 1
      BY <2>2, <3>1, ResolveMore DEF IInv
    <3>3. /\ InCallback' = InCallback /\ FramesAt("initFailed")' = FramesAt("initFailed")
          /\ FramesAt("resolveFailed")' = FramesAt("resolveFailed")
      BY <2>2 DEF InCallback, FramesAt, Elements
    <3>4. ResolvesCounted'
      BY <2>2, <3>2, <3>3, Numbers DEF IInv, ResolvesCounted
    <3>5. OnceInv'
      BY <2>2 DEF IInv, WaitInv, OnceInv
    <3>6. QED
      BY <2>2, <3>1, <3>2, <3>3, <3>4, <3>5 DEF IInv, TypeOK
  <2>3. CASE /\ resolveCount' = resolveCount + 1 /\ UNCHANGED resolving
             /\ Push("resolveFailed", g)
    <3>1. [at |-> "resolveFailed", of |-> g] \in Frames
      BY DEF Frames
    <3>2. /\ stack' \in Seq(Frames) /\ InCallback' = InCallback
          /\ FramesAt("initFailed")' = FramesAt("initFailed")
          /\ Cardinality(FramesAt("resolveFailed")') = Cardinality(FramesAt("resolveFailed")) + 1
      BY <2>3, <3>1, PushCounts DEF IInv
    <3>3. ResolveUnits' = ResolveUnits
      BY <2>3 DEF ResolveUnits
    <3>4. ResolvesCounted'
      BY <2>3, <3>2, <3>3, Numbers DEF IInv, ResolvesCounted
    <3>5. OnceInv'
      BY <2>3, <3>1, PushOnce DEF IInv, WaitInv
    <3>6. QED
      BY <1>2, <2>3, <3>2, <3>4, <3>5 DEF IInv, TypeOK, FreshInv
  <2>4. QED
    BY <2>1, <2>2, <2>3 DEF AsyncProcessWaits
<1>8. Transactions' = Transactions \cup {r}
  <2>1. UNION {Elements(waiting'[h]) : h \in Groups}
          = (UNION {Elements(waiting[h]) : h \in Groups}) \cup {r}
    BY <1>4, <1>6
  <2>2. QED
    BY <1>1, <1>7, <2>1 DEF Transactions
<1>9. TypeOK'
  BY <1>1, <1>2, <1>4, <1>7 DEF IInv, TypeOK, userVars, endVars, listVars
<1>10. ConnInv' /\ Listed' = Listed
  BY <1>1, <1>2, ConnsStay DEF IInv, ConnInv, ListedInv, listVars
<1>11. ConnectionsCounted'
  BY <1>2, <1>7, <1>10 DEF IInv, ConnectionsCounted
<1>12. FreshInv'
  BY <1>2, <1>7, <1>8 DEF FreshInv
<1>13. WaitInv'
  <2>1. \A h \in Groups : r \notin Elements(waiting[h])
    BY <1>2, TransactionsAre
  <2>2. \A h \in Groups : \A i \in 1 .. Len(waiting[h]) : waiting[h][i] # r
    BY <2>1 DEF Elements
  <2>3. UniqueInv'
    <3>1. SUFFICES ASSUME NEW h \in Groups, NEW m \in Groups,
                          NEW i \in 1 .. Len(waiting'[h]), NEW k \in 1 .. Len(waiting'[m]),
                          waiting'[h][i] = waiting'[m][k]
                   PROVE  h = m /\ i = k
      BY DEF UniqueInv
    <3>2. /\ h # g => waiting'[h] = waiting[h] /\ i \in 1 .. Len(waiting[h])
          /\ m # g => waiting'[m] = waiting[m] /\ k \in 1 .. Len(waiting[m])
      BY <1>4
    <3>3. /\ h = g => \/ i = Len(q) + 1 /\ waiting'[h][i] = r
                      \/ i \in 1 .. Len(q) /\ waiting'[h][i] = waiting[g][i]
          /\ m = g => \/ k = Len(q) + 1 /\ waiting'[m][k] = r
                      \/ k \in 1 .. Len(q) /\ waiting'[m][k] = waiting[g][k]
      BY <1>3, <1>4, <1>5
    <3>4. QED
      BY <2>2, <3>1, <3>2, <3>3 DEF IInv, WaitInv, UniqueInv
  <2>4. ApartInv'
    <3>1. r \notin InCallback /\ \A c \in Connections : r \notin live[c]
      BY <1>2, TransactionsAre
    <3>2. ASSUME NEW h \in Groups, NEW t \in Elements(waiting'[h])
          PROVE  t = r \/ t \in Elements(waiting[h])
      BY <1>4, <1>6
    <3>3. ASSUME NEW h \in Groups, NEW t \in Elements(waiting'[h])
          PROVE  t \notin InCallback' /\ \A c \in Connections : t \notin live'[c]
      BY <1>1, <1>7, <3>1, <3>2 DEF IInv, WaitInv, ApartInv
    <3>4. QED
      BY <3>3 DEF ApartInv
  <2>5. QED
    BY <1>7, <2>3, <2>4 DEF WaitInv
<1>14. QED
  BY <1>2, <1>7, <1>8, <1>9, <1>10, <1>11, <1>12, <1>13 DEF IInv

LEMMA OnResolveFailureStep ==
  ASSUME IInv, NEW g \in Groups, OnResolveFailure(g)
  PROVE  IInv'
<1>1. /\ resolving[g] > 0 /\ resolving' = Update(resolving, g, resolving[g] - 1)
      /\ Push("resolveFailed", g)
      /\ UNCHANGED <<userVars, endVars, countVars, waiting, listVars, issued, connVars>>
  BY DEF OnResolveFailure
<1>2. /\ resolving[g] <= MaxRequests
      /\ \A h \in Groups : resolving'[h] <= issued
  BY <1>1, CoreAssumption DEF IInv, TypeOK, FreshInv, Update
<1>3. /\ resolving' \in [Groups -> Nat]
      /\ Cardinality(ResolveUnits') = Cardinality(ResolveUnits) - 1
  BY <1>1, <1>2, ResolveLess DEF IInv
<1>4. [at |-> "resolveFailed", of |-> g] \in Frames
  BY DEF Frames
<1>5. /\ stack' \in Seq(Frames) /\ InCallback' = InCallback
      /\ FramesAt("initFailed")' = FramesAt("initFailed")
      /\ Cardinality(FramesAt("resolveFailed")') = Cardinality(FramesAt("resolveFailed")) + 1
  BY <1>1, <1>4, PushCounts DEF IInv
<1>6. Transactions' = Transactions
  BY <1>1, <1>5 DEF Transactions, connVars
<1>7. TypeOK'
  BY <1>1, <1>3, <1>5 DEF IInv, TypeOK, userVars, endVars, countVars, listVars, connVars
<1>8. ConnInv' /\ Listed' = Listed
  BY <1>1, ConnsStay DEF IInv, ConnInv, ListedInv, listVars, connVars
<1>9. TransactionsCounted' /\ ConnectionsCounted' /\ ResolvesCounted'
  BY <1>1, <1>3, <1>5, <1>6, <1>8, Numbers
     DEF IInv, TransactionsCounted, ConnectionsCounted, ResolvesCounted, countVars
<1>10. FreshInv' /\ EndInv'
  BY <1>1, <1>2, <1>6 DEF IInv, FreshInv, EndInv, Unneeded, userVars, endVars, countVars
<1>11. WaitInv'
  <2>1. UNCHANGED <<waiting, live, InCallback>>
    BY <1>1, <1>5 DEF connVars
  <2>2. UniqueInv'
    BY <2>1 DEF IInv, WaitInv, UniqueInv
  <2>3. ApartInv'
    BY <2>1, ApartStays DEF IInv, WaitInv
  <2>4. OnceInv'
    BY <1>1, <1>4, PushOnce DEF IInv, WaitInv
  <2>5. QED
    BY <2>2, <2>3, <2>4 DEF WaitInv
<1>12. QED
  BY <1>7, <1>8, <1>9, <1>10, <1>11 DEF IInv

LEMMA FailWaitingStep ==
  ASSUME IInv, FailWaiting
  PROVE  IInv'
<1> DEFINE g == Running.of
           q == waiting[g]
           t == Head(q)
<1>1. /\ ~AtLoop /\ Running.at # "user" /\ q # <<>>
      /\ waiting' = Update(waiting, g, Tail(q)) /\ Push("user", t)
      /\ UNCHANGED <<userVars, endVars, countVars, listVars, resolving, issued, connVars>>
  BY DEF FailWaiting
<1>2. g \in Groups
  <2>1. stack \in Seq(Frames) /\ Len(stack) \in 1 .. Len(stack)
    BY <1>1 DEF IInv, TypeOK, AtLoop
  <2>2. Running \in Frames
    BY <2>1 DEF Running
  <2>3. QED
    BY <1>1, <2>2 DEF Frames
<1>3. /\ q \in Seq(Requests) /\ t \in Requests /\ Tail(q) \in Seq(Requests)
      /\ Len(q) \in Nat \ {0} /\ Len(Tail(q)) = Len(q) - 1 /\ q[1] = t
      /\ \A i \in 1 .. Len(Tail(q)) : Tail(q)[i] = q[i + 1]
  <2>1. q \in Seq(Requests)
    BY <1>2 DEF IInv, TypeOK
  <2>2. QED
    BY <1>1, <2>1, HeadTailProperties
<1>4. /\ waiting' \in [Groups -> Seq(Requests)] /\ waiting'[g] = Tail(q)
      /\ \A h \in Groups : h # g => waiting'[h] = waiting[h]
  BY <1>1, <1>2, <1>3 DEF IInv, TypeOK, Update
<1>5. \A i \in 1 .. Len(waiting'[g]) : /\ i + 1 \in 1 .. Len(q) /\ i + 1 # 1
                                       /\ waiting'[g][i] = q[i + 1]
  BY <1>3, <1>4
<1>6. \A i, k \in 1 .. Len(q) : q[i] = q[k] => i = k
  BY <1>2 DEF IInv, WaitInv, UniqueInv
<1>7. Elements(waiting'[g]) = Elements(q) \ {t}
  <2>1. ASSUME NEW x \in Elements(waiting'[g])
        PROVE  x \in Elements(q) /\ x # t
    <3>1. PICK i \in 1 .. Len(waiting'[g]) : x = waiting'[g][i]
      BY DEF Elements
    <3>2. i + 1 \in 1 .. Len(q) /\ x = q[i + 1] /\ i + 1 # 1 /\ 1 \in 1 .. Len(q)
      BY <1>3, <1>5, <3>1
    <3>3. QED
      BY <1>3, <1>6, <3>2 DEF Elements
  <2>2. ASSUME NEW x \in Elements(q), x # t
        PROVE  x \in Elements(waiting'[g])
    <3>1. PICK k \in 1 .. Len(q) : x = q[k]
      BY DEF Elements
    <3>2. k - 1 \in 1 .. Len(Tail(q)) /\ (k - 1) + 1 = k
      BY <1>3, <2>2, <3>1
    <3>3. Tail(q)[k - 1] = x
      BY <1>3, <3>1, <3>2
    <3>4. QED
      BY <1>4, <3>2, <3>3 DEF Elements
  <2>3. QED
    BY <2>1, <2>2
<1>8. t \in Elements(q)
  BY <1>1, <1>3, ElementsAre
<1>9. [at |-> "user", of |-> t] \in Frames
  BY <1>3 DEF Frames
<1>10. /\ stack' \in Seq(Frames) /\ InCallback' = InCallback \cup {t}
       /\ FramesAt("initFailed")' = FramesAt("initFailed")
       /\ FramesAt("resolveFailed")' = FramesAt("resolveFailed")
  BY <1>1, <1>9, PushCounts DEF IInv
<1>11. Transactions' = Transactions
  <2>1. {t} \cup (UNION {Elements(waiting'[h]) : h \in Groups})
          = UNION {Elements(waiting[h]) : h \in Groups}
    <3>1. ASSUME NEW x
          PROVE  (x = t \/ \E h \in Groups : x \in Elements(waiting'[h]))
                   <=> \E h \in Groups : x \in Elements(waiting[h])
      <4>1. \A h \in Groups : h # g => Elements(waiting'[h]) = Elements(waiting[h])
        BY <1>4
      <4>2. QED
        BY <1>2, <1>7, <1>8, <4>1, Zenon
    <3>2. QED
      BY <3>1
  <2>2. QED
    BY <1>1, <1>10, <2>1 DEF Transactions, connVars
<1>12. TypeOK'
  BY <1>1, <1>4, <1>10 DEF IInv, TypeOK, userVars, endVars, countVars, listVars, connVars
<1>13. ConnInv' /\ Listed' = Listed
  BY <1>1, ConnsStay DEF IInv, ConnInv, ListedInv, listVars, connVars
<1>14. TransactionsCounted' /\ ConnectionsCounted' /\ ResolvesCounted'
  BY <1>1, <1>10, <1>11, <1>13
     DEF IInv, TransactionsCounted, ConnectionsCounted, ResolvesCounted, ResolveUnits, countVars
<1>15. FreshInv' /\ EndInv'
  BY <1>1, <1>11 DEF IInv, FreshInv, EndInv, Unneeded, userVars, endVars, countVars
<1>16. WaitInv'
  <2>1. UniqueInv'
    <3>1. SUFFICES ASSUME NEW h \in Groups, NEW m \in Groups,
                          NEW i \in 1 .. Len(waiting'[h]), NEW k \in 1 .. Len(waiting'[m]),
                          waiting'[h][i] = waiting'[m][k]
                   PROVE  h = m /\ i = k
      BY DEF UniqueInv
    <3>2. /\ h # g => waiting'[h] = waiting[h] /\ i \in 1 .. Len(waiting[h])
          /\ m # g => waiting'[m] = waiting[m] /\ k \in 1 .. Len(waiting[m])
      BY <1>4
    <3>3. /\ h = g => i + 1 \in 1 .. Len(waiting[g]) /\ waiting'[h][i] = waiting[g][i + 1]
          /\ m = g => k + 1 \in 1 .. Len(waiting[g]) /\ waiting'[m][k] = waiting[g][k + 1]
      BY <1>5
    <3>4. \A a, b \in Groups : \A l \in 1 .. Len(waiting[a]), n \in 1 .. Len(waiting[b]) :
            waiting[a][l] = waiting[b][n] => a = b /\ l = n
      BY DEF IInv, WaitInv, UniqueInv
    <3>5. CASE h = g /\ m = g
      <4>1. i + 1 = k + 1
        BY <1>2, <3>1, <3>3, <3>4, <3>5
      <4>2. QED
        BY <3>5, <4>1
    <3>6. CASE h = g /\ m # g
      BY <1>2, <3>1, <3>2, <3>3, <3>4, <3>6
    <3>7. CASE h # g /\ m = g
      BY <1>2, <3>1, <3>2, <3>3, <3>4, <3>7
    <3>8. CASE h # g /\ m # g
      BY <3>1, <3>2, <3>4, <3>8
    <3>9. QED
      BY <3>5, <3>6, <3>7, <3>8
  <2>2. \A h \in Groups : Elements(waiting'[h]) \subseteq Elements(waiting[h]) /\ t \notin Elements(waiting'[h])
    <3>1. ASSUME NEW h \in Groups, h # g
          PROVE  t \notin Elements(waiting[h])
      <4>1. 1 \in 1 .. Len(waiting[g]) /\ waiting[g][1] = t
        BY <1>3
      <4>2. QED
        BY <1>2, <3>1, <4>1 DEF IInv, WaitInv, UniqueInv, Elements
    <3>2. QED
      BY <1>4, <1>7, <3>1
  <2>3. ASSUME NEW h \in Groups, NEW x \in Elements(waiting'[h])
        PROVE  x \notin InCallback' /\ \A c \in Connections : x \notin live'[c]
    BY <1>1, <1>10, <2>2 DEF IInv, WaitInv, ApartInv, connVars
  <2>4. t \notin InCallback
    BY <1>2, <1>8 DEF IInv, WaitInv, ApartInv
  <2>5. OnceInv'
    BY <1>1, <1>9, <2>4, PushOnce DEF IInv, WaitInv
  <2>6. QED
    BY <2>1, <2>3, <2>5 DEF WaitInv, ApartInv
<1>17. QED
  BY <1>12, <1>13, <1>14, <1>15, <1>16 DEF IInv
LEMMA FinishFailingStep ==
  ASSUME IInv, FinishFailing
  PROVE  IInv'
<1>1. /\ ~AtLoop /\ Running.at # "user" /\ stack' = Callers
      /\ UNCHANGED <<userVars, transactionCount, waiting, listVars, resolving, issued, connVars>>
      /\ ConsiderDestroy(onDestroy)
  BY DEF FinishFailing
<1>2. Running.at \in {"resolveFailed", "initFailed"} /\ TypeOK /\ WaitInv
  BY <1>1 DEF FinishFailing, IInv
<1>3. Running \in Frames /\ Running = stack[Len(stack)] /\ Len(stack) \in 1 .. Len(stack)
  BY <1>1, <1>2, PopCounts
<1>4. stack' \in Seq(Frames) /\ InCallback' = InCallback /\ OnceInv'
  BY <1>1, <1>2, PopCounts, PopOnce
<1>5. Transactions' = Transactions
  BY <1>1, <1>4 DEF Transactions, connVars
<1>6. ConnInv' /\ Listed' = Listed
  BY <1>1, ConnsStay DEF IInv, ConnInv, ListedInv, listVars, connVars
<1>7. ResolveUnits' = ResolveUnits
  BY <1>1 DEF ResolveUnits
\* The counter of what failed.
<1>8. /\ connectionCount' \in Nat /\ resolveCount' \in Nat /\ ~Unneeded
      /\ ConnectionsCounted' /\ ResolvesCounted'
  <2>1. CASE /\ Running.at = "resolveFailed"
             /\ resolveCount' = resolveCount - 1 /\ UNCHANGED connectionCount
    <3>1. /\ Cardinality(FramesAt("resolveFailed")') = Cardinality(FramesAt("resolveFailed")) - 1
          /\ FramesAt("initFailed")' = FramesAt("initFailed")
      BY <1>1, <1>2, <2>1, PopCounts
    <3>2. Cardinality(FramesAt("resolveFailed")) # 0
      <4>1. Len(stack) \in FramesAt("resolveFailed")
        BY <1>3, <2>1 DEF FramesAt
      <4>2. QED
        BY <1>2, <4>1, Finite, FS_EmptySet
    <3>3. resolveCount # 0 /\ resolveCount' \in Nat
      BY <1>2, <2>1, <3>2, Numbers DEF IInv, ResolvesCounted
    <3>4. ResolvesCounted'
      BY <1>2, <1>7, <2>1, <3>1, Numbers DEF IInv, ResolvesCounted
    <3>5. QED
      BY <1>6, <2>1, <3>1, <3>3, <3>4 DEF IInv, TypeOK, ConnectionsCounted, Unneeded
  <2>2. CASE /\ Running.at = "initFailed"
             /\ connectionCount' = connectionCount - 1 /\ UNCHANGED resolveCount
    <3>1. /\ Cardinality(FramesAt("initFailed")') = Cardinality(FramesAt("initFailed")) - 1
          /\ FramesAt("resolveFailed")' = FramesAt("resolveFailed")
      BY <1>1, <1>2, <2>2, PopCounts
    <3>2. Cardinality(FramesAt("initFailed")) # 0
      <4>1. Len(stack) \in FramesAt("initFailed")
        BY <1>3, <2>2 DEF FramesAt
      <4>2. QED
        BY <1>2, <4>1, Finite, FS_EmptySet
    <3>3. connectionCount # 0 /\ connectionCount' \in Nat
      BY <1>2, <2>2, <3>2, Numbers DEF IInv, ConnectionsCounted
    <3>4. ConnectionsCounted'
      BY <1>2, <1>6, <2>2, <3>1, Numbers DEF IInv, ConnectionsCounted
    <3>5. QED
      BY <1>7, <2>2, <3>1, <3>3, <3>4 DEF IInv, TypeOK, ResolvesCounted, Unneeded
  <2>3. QED
    BY <2>1, <2>2 DEF FinishFailing
<1>9. EndInv' /\ onDestroy' \in BOOLEAN /\ deleted' \in BOOLEAN /\ notified' \in Nat
  BY <1>1, <1>2, <1>8, Ends DEF IInv, EndInv, TypeOK
<1>10. TypeOK'
  BY <1>1, <1>2, <1>4, <1>8, <1>9 DEF TypeOK, userVars, listVars, connVars
<1>11. TransactionsCounted' /\ FreshInv'
  BY <1>1, <1>5 DEF IInv, TransactionsCounted, FreshInv
<1>12. WaitInv'
  <2>1. UniqueInv'
    BY <1>1, <1>2 DEF WaitInv, UniqueInv
  <2>2. ApartInv'
    BY <1>1, <1>2, <1>4, ApartStays DEF WaitInv, connVars
  <2>3. QED
    BY <1>4, <2>1, <2>2 DEF WaitInv
<1>13. QED
  BY <1>6, <1>8, <1>9, <1>10, <1>11, <1>12 DEF IInv

LEMMA ConnectionAnswersStep ==
  ASSUME IInv, NEW c \in Connections, ConnectionAnswers(c)
  PROVE  IInv'
<1>1. PICK t \in live[c] \ InCallback :
        /\ Push("user", t)
        /\ UNCHANGED <<userVars, endVars, countVars, waiting, listVars, resolving, issued,
                       connVars>>
  BY DEF ConnectionAnswers
<1>2. t \in Requests /\ [at |-> "user", of |-> t] \in Frames /\ TypeOK /\ WaitInv
  BY <1>1 DEF IInv, TypeOK, Frames
<1>3. /\ stack' \in Seq(Frames) /\ InCallback' = InCallback \cup {t}
      /\ FramesAt("initFailed")' = FramesAt("initFailed")
      /\ FramesAt("resolveFailed")' = FramesAt("resolveFailed")
  BY <1>1, <1>2, PushCounts
<1>4. Transactions' = Transactions
  <2>1. t \in UNION {live[d] : d \in Connections}
    BY <1>1
  <2>2. QED
    BY <1>1, <1>3, <2>1 DEF Transactions, connVars
<1>5. TypeOK'
  BY <1>1, <1>2, <1>3 DEF TypeOK, userVars, endVars, countVars, listVars, connVars
<1>6. ConnInv' /\ Listed' = Listed
  BY <1>1, ConnsStay DEF IInv, ConnInv, ListedInv, listVars, connVars
<1>7. TransactionsCounted' /\ ConnectionsCounted' /\ ResolvesCounted'
  BY <1>1, <1>3, <1>4, <1>6
     DEF IInv, TransactionsCounted, ConnectionsCounted, ResolvesCounted, ResolveUnits, countVars
<1>8. FreshInv' /\ EndInv'
  BY <1>1, <1>4 DEF IInv, FreshInv, EndInv, Unneeded, userVars, endVars, countVars
<1>9. WaitInv'
  <2>1. UniqueInv'
    BY <1>1, <1>2 DEF WaitInv, UniqueInv
  <2>2. ASSUME NEW g \in Groups, NEW x \in Elements(waiting[g])
        PROVE  x \notin InCallback' /\ \A d \in Connections : x \notin live[d]
    BY <1>1, <1>2, <1>3, <2>2 DEF WaitInv, ApartInv
  <2>3. waiting' = waiting /\ live' = live
    BY <1>1 DEF connVars
  <2>4. ApartInv'
    BY <2>2, <2>3 DEF ApartInv, Elements
  <2>5. OnceInv'
    BY <1>1, <1>2, PushOnce DEF WaitInv
  <2>6. QED
    BY <2>1, <2>4, <2>5 DEF WaitInv
<1>10. QED
  BY <1>5, <1>6, <1>7, <1>8, <1>9 DEF IInv

LEMMA OnConnectStep ==
  ASSUME IInv, NEW c \in Connections, OnConnect(c)
  PROVE  IInv'
<1>1. /\ connecting' = Update(connecting, c, FALSE)
      /\ UNCHANGED <<userVars, endVars, countVars, waiting, listVars, resolving, issued, stack,
                     phase, live>>
  BY DEF OnConnect
<1>2. /\ InCallback' = InCallback /\ FramesAt("initFailed")' = FramesAt("initFailed")
      /\ FramesAt("resolveFailed")' = FramesAt("resolveFailed") /\ ResolveUnits' = ResolveUnits
  BY <1>1 DEF InCallback, FramesAt, Elements, ResolveUnits
<1>3. Transactions' = Transactions
  BY <1>1, <1>2 DEF Transactions
<1>4. TypeOK'
  BY <1>1 DEF IInv, TypeOK, userVars, endVars, countVars, listVars, Update
<1>5. ConnInv' /\ Listed' = Listed
  BY <1>1, ConnsStay DEF IInv, ConnInv, ListedInv, listVars
<1>6. TransactionsCounted' /\ ConnectionsCounted' /\ ResolvesCounted'
  BY <1>1, <1>2, <1>3, <1>5
     DEF IInv, TransactionsCounted, ConnectionsCounted, ResolvesCounted, countVars
<1>7. FreshInv' /\ EndInv'
  BY <1>1, <1>3 DEF IInv, FreshInv, EndInv, Unneeded, userVars, endVars, countVars
<1>8. WaitInv'
  <2>1. UniqueInv' /\ OnceInv'
    BY <1>1 DEF IInv, WaitInv, UniqueInv, OnceInv
  <2>2. ApartInv'
    BY <1>1, <1>2, ApartStays DEF IInv, WaitInv
  <2>3. QED
    BY <2>1, <2>2 DEF WaitInv
<1>9. QED
  BY <1>4, <1>5, <1>6, <1>7, <1>8 DEF IInv
\* What was open is closing when the groups are closed.
LEMMA ClosedGroups ==
  ASSUME TypeOK, ConnInv, NEW ended \in [Connections -> SUBSET Requests],
         \A c \in Connections : ended[c] \subseteq live[c], CloseGroups(ended)
  PROVE  /\ live' = ended /\ ConnInv' /\ Listed' = Listed
         /\ openConnections' \in [Groups -> Seq(Connections)]
         /\ closingConnections' \in [Groups -> SUBSET Connections]
         /\ phase' \in [Connections -> {"new", "up", "closing", "gone"}]
<1> DEFINE IsOpen(c) == \E g \in Groups : c \in Elements(openConnections[g])
<1>1. /\ live' = ended
      /\ phase' = [c \in Connections |-> IF IsOpen(c) THEN "closing" ELSE phase[c]]
      /\ openConnections' = [g \in Groups |-> <<>>]
      /\ closingConnections' = [g \in Groups |->
            closingConnections[g] \cup Elements(openConnections[g])]
  BY DEF CloseGroups
<1>2. \A g \in Groups : Elements(openConnections[g]) \subseteq Connections
  BY ElementsAre DEF TypeOK
<1>3. /\ openConnections' \in [Groups -> Seq(Connections)]
      /\ closingConnections' \in [Groups -> SUBSET Connections]
      /\ phase' \in [Connections -> {"new", "up", "closing", "gone"}]
  <2>1. <<>> \in Seq(Connections)
    BY EmptySeq
  <2>2. QED
    BY <1>1, <1>2, <2>1 DEF TypeOK
<1>4. \A g \in Groups : /\ Elements(openConnections[g])' = {}
                        /\ closingConnections'[g]
                             = closingConnections[g] \cup Elements(openConnections[g])
  BY <1>1 DEF Elements
<1>5. Listed' = Listed
  <2>1. ASSUME NEW c
        PROVE  c \in Listed' <=> c \in Listed
    <3>1. c \in Listed' <=> \E g \in Groups : c \in closingConnections'[g]
      BY <1>4 DEF Listed
    <3>2. QED
      BY <1>4, <3>1, ListedAre
  <2>2. QED
    BY <2>1
<1>6. OpenInv'
  <2>1. \A g \in Groups : openConnections'[g] = <<>> /\ Len(openConnections'[g]) = 0
    BY <1>1
  <2>2. QED
    BY <1>4, <2>1 DEF OpenInv, Elements
<1>7. ClosingInv'
  <2>1. ASSUME NEW g \in Groups, NEW h \in Groups, NEW c \in closingConnections'[g],
               c \in closingConnections'[h]
        PROVE  phase'[c] = "closing" /\ g = h
    <3>1. /\ c \in closingConnections[g] \/ c \in Elements(openConnections[g])
          /\ c \in closingConnections[h] \/ c \in Elements(openConnections[h])
      BY <1>4, <2>1
    <3>2. c \in Connections
      BY <1>2, <1>3, <2>1
    <3>3. phase'[c] = "closing"
      BY <1>1, <3>1, <3>2 DEF ConnInv, ClosingInv
    <3>4. ASSUME c \in Elements(openConnections[g]), c \in Elements(openConnections[h])
          PROVE  g = h
      BY <3>4 DEF ConnInv, OpenInv, Elements
    <3>5. ASSUME c \in closingConnections[g], c \in closingConnections[h]
          PROVE  g = h
      BY <3>5 DEF ConnInv, ClosingInv
    <3>6. \A a, b \in Groups : ~(c \in closingConnections[a] /\ c \in Elements(openConnections[b]))
      BY DEF ConnInv, ClosingInv, OpenInv
    <3>7. QED
      BY <3>1, <3>3, <3>4, <3>5, <3>6
  <2>2. QED
    BY <2>1 DEF ClosingInv
<1>8. ListedInv'
  <2>1. ASSUME NEW c \in Connections
        PROVE  /\ phase'[c] = "new" => live'[c] = {}
               /\ phase'[c] \in {"up", "closing"} => c \in Listed
    <3>1. IsOpen(c) => c \in Listed
      BY ListedAre
    <3>2. QED
      BY <1>1, <3>1 DEF ConnInv, ListedInv
  <2>2. QED
    BY <1>5, <2>1 DEF ListedInv
<1>9. QED
  BY <1>1, <1>3, <1>5, <1>6, <1>7, <1>8 DEF ConnInv

LEMMA OnShellDestroyedStep ==
  ASSUME IInv, OnShellDestroyed
  PROVE  IInv'
<1>1. /\ shell /\ shell' = FALSE /\ shellOnDestroy' = FALSE
      /\ UNCHANGED <<retries, countVars, waiting, resolving, issued, stack, connecting>>
      /\ ConsiderDestroy(shellOnDestroy)
      /\ TypeOK
  BY DEF OnShellDestroyed, IInv
<1>2. /\ live' = live /\ ConnInv' /\ Listed' = Listed
      /\ openConnections' \in [Groups -> Seq(Connections)]
      /\ closingConnections' \in [Groups -> SUBSET Connections]
      /\ phase' \in [Connections -> {"new", "up", "closing", "gone"}]
  <2>1. CASE CloseGroups(live)
    BY <1>1, <2>1, ClosedGroups DEF IInv, TypeOK
  <2>2. CASE UNCHANGED <<listVars, phase, live>>
    BY <1>1, <2>2, ConnsStay DEF IInv, ConnInv, ListedInv, TypeOK, listVars
  <2>3. QED
    BY <2>1, <2>2 DEF OnShellDestroyed
<1>3. EndInv' /\ onDestroy' \in BOOLEAN /\ deleted' \in BOOLEAN /\ notified' \in Nat
  <2>1. ~deleted /\ shellOnDestroy \in BOOLEAN
    BY <1>1 DEF IInv, EndInv, Unneeded, TypeOK
  <2>2. QED
    BY <1>1, <2>1, Ends
<1>4. TypeOK'
  BY <1>1, <1>2, <1>3 DEF TypeOK, countVars
<1>5. /\ InCallback' = InCallback /\ FramesAt("initFailed")' = FramesAt("initFailed")
      /\ FramesAt("resolveFailed")' = FramesAt("resolveFailed") /\ ResolveUnits' = ResolveUnits
  BY <1>1 DEF InCallback, FramesAt, Elements, ResolveUnits
<1>6. Transactions' = Transactions
  BY <1>1, <1>2, <1>5 DEF Transactions
<1>7. TransactionsCounted' /\ ConnectionsCounted' /\ ResolvesCounted'
  BY <1>1, <1>2, <1>5, <1>6
     DEF IInv, TransactionsCounted, ConnectionsCounted, ResolvesCounted, countVars
<1>8. FreshInv'
  BY <1>1, <1>6 DEF IInv, FreshInv
<1>9. WaitInv'
  <2>1. UniqueInv' /\ OnceInv'
    BY <1>1 DEF IInv, WaitInv, UniqueInv, OnceInv
  <2>2. ApartInv'
    BY <1>1, <1>2, <1>5, ApartStays DEF IInv, WaitInv
  <2>3. QED
    BY <2>1, <2>2 DEF WaitInv
<1>10. QED
  BY <1>2, <1>3, <1>4, <1>7, <1>8, <1>9 DEF IInv

LEMMA UserReturnsStep ==
  ASSUME IInv, UserReturns
  PROVE  IInv'
<1> DEFINE t == Running.of
           ended == [c \in Connections |-> live[c] \ {t}]
<1>1. /\ ~AtLoop /\ Running.at = "user" /\ stack' = Callers
      /\ transactionCount' = transactionCount - 1
      /\ UNCHANGED <<userVars, resolveCount, connectionCount, waiting, resolving,
                     issued, connecting>>
      /\ CloseGroups(ended) \/ (live' = ended /\ UNCHANGED <<listVars, phase>>)
      /\ IF transactionCount' = 0 THEN ConsiderDestroy(onDestroy) ELSE UNCHANGED endVars
  BY DEF UserReturns
<1>2. TypeOK /\ WaitInv /\ ConnInv
  BY DEF IInv
<1>3. /\ stack' \in Seq(Frames) /\ OnceInv'
      /\ t \in InCallback /\ InCallback' = InCallback \ {t}
      /\ FramesAt("initFailed")' = FramesAt("initFailed")
      /\ FramesAt("resolveFailed")' = FramesAt("resolveFailed")
  <2>1. "initFailed" # "user" /\ "resolveFailed" # "user"
    OBVIOUS
  <2>2. QED
    BY <1>1, <1>2, <2>1, PopCounts, PopOnce
<1>4. ended \in [Connections -> SUBSET Requests] /\ \A c \in Connections : ended[c] \subseteq live[c]
  BY <1>2 DEF TypeOK
<1>5. /\ live' = ended /\ ConnInv' /\ Listed' = Listed
      /\ openConnections' \in [Groups -> Seq(Connections)]
      /\ closingConnections' \in [Groups -> SUBSET Connections]
      /\ phase' \in [Connections -> {"new", "up", "closing", "gone"}]
  <2> HIDE DEF ended
  <2>1. CASE CloseGroups(ended)
    BY <1>2, <1>4, <2>1, ClosedGroups
  <2>2. CASE live' = ended /\ UNCHANGED <<listVars, phase>>
    <3>1. \A c \in Connections : phase[c] = "new" => live'[c] = {}
      BY <1>2, <1>4, <2>2 DEF ConnInv, ListedInv
    <3>2. QED
      BY <1>2, <2>2, <3>1, ConnsStay DEF TypeOK, listVars
  <2>3. QED
    BY <1>1, <2>1, <2>2
<1>6. Transactions' = Transactions \ {t} /\ t \in Transactions
  <2>1. ASSUME NEW x
        PROVE  x \in Transactions' <=> x \in Transactions /\ x # t
    <3>1. x \in Transactions' <=>
            \/ x \in InCallback /\ x # t
            \/ \E c \in Connections : x \in live[c] /\ x # t
            \/ \E g \in Groups : x \in Elements(waiting[g])
      <4>1. x \in Transactions' <=>
              \/ x \in InCallback'
              \/ \E c \in Connections : x \in live'[c]
              \/ \E g \in Groups : x \in Elements(waiting[g])
        BY <1>1 DEF Transactions, Elements
      <4>2. \A c \in Connections : live'[c] = live[c] \ {t}
        BY <1>5
      <4>3. QED
        BY <1>3, <4>1, <4>2
    <3>2. \A g \in Groups : t \notin Elements(waiting[g])
      BY <1>2, <1>3 DEF WaitInv, ApartInv
    <3>3. QED
      BY <3>1, <3>2, TransactionsAre
  <2>2. QED
    BY <1>3, <2>1, TransactionsAre
<1>7. transactionCount' \in Nat /\ transactionCount # 0 /\ TransactionsCounted'
  <2>1. Cardinality(Transactions) # 0
    BY <1>2, <1>6, Finite, FS_EmptySet
  <2>2. Cardinality(Transactions') = Cardinality(Transactions) - 1
    BY <1>2, <1>6, Finite, OneLess
  <2>3. QED
    BY <1>1, <1>2, <2>1, <2>2, Numbers DEF IInv, TransactionsCounted
<1>8. EndInv' /\ onDestroy' \in BOOLEAN /\ deleted' \in BOOLEAN /\ notified' \in Nat
  <2>1. ~deleted /\ onDestroy \in BOOLEAN
    BY <1>2, <1>7 DEF IInv, EndInv, Unneeded, TypeOK
  <2>2. CASE transactionCount' = 0
    BY <1>1, <1>2, <2>1, <2>2, Ends
  <2>3. CASE transactionCount' # 0
    <3>1. ~Unneeded'
      BY <2>3 DEF Unneeded
    <3>2. QED
      BY <1>1, <1>2, <2>1, <2>3, <3>1, EndsNot
  <2>4. QED
    BY <2>2, <2>3
<1>9. TypeOK'
  BY <1>1, <1>2, <1>3, <1>4, <1>5, <1>7, <1>8 DEF TypeOK, userVars
<1>10. ConnectionsCounted' /\ ResolvesCounted'
  BY <1>1, <1>3, <1>5 DEF IInv, ConnectionsCounted, ResolvesCounted, ResolveUnits
<1>11. FreshInv'
  BY <1>1, <1>6 DEF IInv, FreshInv
<1>12. WaitInv'
  <2>1. UniqueInv'
    BY <1>1, <1>2 DEF WaitInv, UniqueInv
  <2>2. ApartInv'
    <3>1. InCallback' \subseteq InCallback /\ \A c \in Connections : live'[c] \subseteq live[c]
      BY <1>3, <1>4, <1>5
    <3>2. QED
      BY <1>1, <1>2, <3>1, ApartStays DEF WaitInv
  <2>3. QED
    BY <1>3, <2>1, <2>2 DEF WaitInv
<1>13. QED
  BY <1>5, <1>7, <1>8, <1>9, <1>10, <1>11, <1>12 DEF IInv
\* Where the places of a list are that one is taken out of.
Skip(i, k) == IF k < i THEN k ELSE k + 1

\* That list, and the two pieces that OnConnectionClosing makes it from.
Before(q, i)  == SubSeq(q, 1, i - 1)
After(q, i)   == SubSeq(q, i + 1, Len(q))
Without(q, i) == Before(q, i) \o After(q, i)

\* What is left of a list that one is taken out of.
LEMMA RemoveAt ==
  ASSUME NEW s, NEW q \in Seq(s), NEW i \in 1 .. Len(q)
  PROVE  /\ Without(q, i) \in Seq(s) /\ Len(Without(q, i)) = Len(q) - 1
         /\ \A k \in 1 .. Len(q) - 1 : /\ Skip(i, k) \in 1 .. Len(q) /\ Skip(i, k) # i
                                       /\ Without(q, i)[k] = q[Skip(i, k)]
<1> DEFINE n == Len(q)
           a == Before(q, i)
           b == After(q, i)
           r == Without(q, i)
<1>1. n \in Nat /\ i \in Int /\ i - 1 \in Int /\ i + 1 \in Int /\ n \in Int /\ 1 <= i /\ i <= n
  OBVIOUS
<1>2. /\ \A k \in 1 .. i - 1 : q[k] \in s
      /\ \A k \in i + 1 .. n : q[k] \in s
  BY <1>1
<1>3. /\ a \in Seq(s) /\ Len(a) = i - 1
      /\ \A k \in 1 .. i - 1 : a[k] = q[k]
  <2>1. /\ a \in Seq(s) /\ Len(a) = IF 1 <= i - 1 THEN (i - 1) - 1 + 1 ELSE 0
        /\ \A k \in 1 .. (i - 1) - 1 + 1 : a[k] = q[1 + k - 1]
    BY <1>1, <1>2, SubSeqProperties DEF Before
  <2>2. (IF 1 <= i - 1 THEN (i - 1) - 1 + 1 ELSE 0) = i - 1
    BY <1>1
  <2>3. (i - 1) - 1 + 1 = i - 1 /\ \A k \in 1 .. i - 1 : 1 + k - 1 = k
    BY <1>1
  <2>4. QED
    BY <2>1, <2>2, <2>3
<1>4. /\ b \in Seq(s) /\ Len(b) = n - i
      /\ \A k \in 1 .. n - i : b[k] = q[i + k]
  <2>1. /\ b \in Seq(s) /\ Len(b) = IF i + 1 <= n THEN n - (i + 1) + 1 ELSE 0
        /\ \A k \in 1 .. n - (i + 1) + 1 : b[k] = q[(i + 1) + k - 1]
    BY <1>1, <1>2, SubSeqProperties DEF After
  <2>2. (IF i + 1 <= n THEN n - (i + 1) + 1 ELSE 0) = n - i
    BY <1>1
  <2>3. n - (i + 1) + 1 = n - i /\ \A k \in 1 .. n - i : (i + 1) + k - 1 = i + k
    BY <1>1
  <2>4. QED
    BY <2>1, <2>2, <2>3
<1>5. /\ r \in Seq(s) /\ Len(r) = n - 1
      /\ \A k \in 1 .. n - 1 : r[k] = IF k <= i - 1 THEN a[k] ELSE b[k - (i - 1)]
  <2>1. /\ r \in Seq(s) /\ Len(r) = Len(a) + Len(b)
        /\ \A k \in 1 .. Len(a) + Len(b) : r[k] = IF k <= Len(a) THEN a[k] ELSE b[k - Len(a)]
    BY <1>3, <1>4, ConcatProperties DEF Without
  <2>2. Len(a) + Len(b) = n - 1
    BY <1>1, <1>3, <1>4
  <2>3. QED
    BY <1>3, <2>1, <2>2
<1>6. ASSUME NEW k \in 1 .. n - 1
      PROVE  Skip(i, k) \in 1 .. n /\ Skip(i, k) # i /\ r[k] = q[Skip(i, k)]
  <2>1. CASE k < i
    <3>1. k <= i - 1 /\ k \in 1 .. i - 1 /\ k \in 1 .. n /\ k # i
      BY <1>1, <2>1
    <3>2. QED
      BY <1>3, <1>5, <2>1, <3>1 DEF Skip
  <2>2. CASE ~(k < i)
    <3>1. /\ ~(k <= i - 1) /\ k - (i - 1) \in 1 .. n - i /\ i + (k - (i - 1)) = k + 1
          /\ k + 1 \in 1 .. n /\ k + 1 # i
      BY <1>1, <2>2
    <3>2. QED
      BY <1>4, <1>5, <2>2, <3>1 DEF Skip
  <2>3. QED
    BY <2>1, <2>2
<1>7. QED
  BY <1>5, <1>6

\* If it was there once it is not any more.
LEMMA RemovedAt ==
  ASSUME NEW s, NEW q \in Seq(s), NEW i \in 1 .. Len(q),
         \A k, l \in 1 .. Len(q) : q[k] = q[l] => k = l
  PROVE  Elements(Without(q, i)) = Elements(q) \ {q[i]}
<1> DEFINE n == Len(q)
           r == Without(q, i)
<1>1. n \in Nat /\ i \in Int /\ 1 <= i /\ i <= n
  OBVIOUS
<1>2. /\ Len(r) = n - 1
      /\ \A k \in 1 .. n - 1 : Skip(i, k) \in 1 .. n /\ Skip(i, k) # i /\ r[k] = q[Skip(i, k)]
  BY RemoveAt
<1>3. ASSUME NEW l \in 1 .. n, l # i
      PROVE  \E k \in 1 .. n - 1 : Skip(i, k) = l
  <2>1. CASE l < i
    <3>1. l \in 1 .. n - 1
      BY <1>1, <2>1
    <3>2. QED
      BY <2>1, <3>1 DEF Skip
  <2>2. CASE l > i
    <3>1. l - 1 \in 1 .. n - 1 /\ ~(l - 1 < i) /\ (l - 1) + 1 = l
      BY <1>1, <2>2
    <3>2. QED
      BY <3>1 DEF Skip
  <2>3. QED
    BY <1>1, <1>3, <2>1, <2>2
<1>4. ASSUME NEW x
      PROVE  x \in Elements(r) <=> x \in Elements(q) /\ x # q[i]
  <2>1. /\ x \in Elements(r) <=> \E k \in 1 .. n - 1 : x = r[k]
        /\ x \in Elements(q) <=> \E l \in 1 .. n : x = q[l]
    BY <1>2 DEF Elements
  <2>2. ASSUME NEW k \in 1 .. n - 1, x = r[k]
        PROVE  x \in Elements(q) /\ x # q[i]
    <3>1. Skip(i, k) \in 1 .. n /\ Skip(i, k) # i /\ x = q[Skip(i, k)]
      BY <1>2, <2>2
    <3>2. q[Skip(i, k)] # q[i]
      BY <3>1
    <3>3. QED
      BY <2>1, <3>1, <3>2
  <2>3. ASSUME NEW l \in 1 .. n, x = q[l], x # q[i]
        PROVE  x \in Elements(r)
    <3>1. PICK k \in 1 .. n - 1 : Skip(i, k) = l
      BY <1>3, <2>3
    <3>2. QED
      BY <1>2, <2>1, <2>3, <3>1
  <2>4. QED
    BY <2>1, <2>2, <2>3
<1>5. QED
  BY <1>4

LEMMA OnConnectionClosingStep ==
  ASSUME IInv, NEW g \in Groups, NEW c \in Connections, OnConnectionClosing(g, c)
  PROVE  IInv'
<1> DEFINE q == openConnections[g]
<1>1. PICK i \in 1 .. Len(q) :
        /\ q[i] = c
        /\ openConnections' = Update(openConnections, g,
             SubSeq(q, 1, i - 1) \o SubSeq(q, i + 1, Len(q)))
  BY DEF OnConnectionClosing
<1>2. /\ phase' = Update(phase, c, "closing")
      /\ closingConnections' = Update(closingConnections, g, closingConnections[g] \cup {c})
      /\ UNCHANGED <<userVars, endVars, countVars, waiting, resolving, issued, stack,
                     connecting, live>>
      /\ TypeOK /\ ConnInv
  BY DEF OnConnectionClosing, IInv
<1>3. q \in Seq(Connections) /\ \A k, l \in 1 .. Len(q) : q[k] = q[l] => k = l
  BY <1>2 DEF TypeOK, ConnInv, OpenInv
<1> DEFINE r == Without(q, i)
<1>4. /\ r \in Seq(Connections) /\ Len(r) = Len(q) - 1 /\ Len(q) \in Nat
      /\ \A k \in 1 .. Len(r) : Skip(i, k) \in 1 .. Len(q) /\ r[k] = q[Skip(i, k)]
      /\ Elements(r) = Elements(q) \ {c}
  <2> HIDE DEF q
  <2>1. i \in 1 .. Len(q) /\ q[i] = c /\ Len(q) \in Nat /\ q \in Seq(Connections)
    BY <1>1, <1>3
  <2>2. /\ r \in Seq(Connections) /\ Len(r) = Len(q) - 1
        /\ \A k \in 1 .. Len(q) - 1 : /\ Skip(i, k) \in 1 .. Len(q) /\ Skip(i, k) # i
                                       /\ r[k] = q[Skip(i, k)]
    BY <2>1, RemoveAt, Zenon
  <2>3. Elements(r) = Elements(q) \ {c}
    BY <1>3, <2>1, RemovedAt
  <2>4. QED
    BY <2>1, <2>2, <2>3
<1> HIDE DEF r
<1>5. /\ openConnections' \in [Groups -> Seq(Connections)] /\ openConnections'[g] = r
      /\ \A h \in Groups : h # g => openConnections'[h] = openConnections[h]
  BY <1>1, <1>2, <1>4 DEF TypeOK, Update, Without, Before, After, r
<1>6. /\ closingConnections' \in [Groups -> SUBSET Connections]
      /\ closingConnections'[g] = closingConnections[g] \cup {c}
      /\ \A h \in Groups : h # g => closingConnections'[h] = closingConnections[h]
      /\ phase' \in [Connections -> {"new", "up", "closing", "gone"}]
      /\ phase'[c] = "closing" /\ \A d \in Connections : d # c => phase'[d] = phase[d]
  BY <1>2 DEF TypeOK, Update
<1>7. phase[c] = "up" /\ c \in Elements(q)
  <2>1. c \in Elements(q)
    BY <1>1 DEF Elements
  <2>2. QED
    BY <1>2, <2>1 DEF ConnInv, OpenInv
<1>8. \A h \in Groups : h # g => c \notin Elements(openConnections[h])
  BY <1>1, <1>2 DEF ConnInv, OpenInv, Elements
<1>9. \A h \in Groups : Elements(openConnections'[h]) = Elements(openConnections[h]) \ {c}
  BY <1>4, <1>5, <1>8
<1>10. Listed' = Listed
  <2>1. ASSUME NEW d
        PROVE  d \in Listed' <=> d \in Listed
    <3>1. d \in Listed' <=>
            \E h \in Groups : d \in Elements(openConnections'[h]) \/ d \in closingConnections'[h]
      BY DEF Listed, Elements
    <3>2. ASSUME NEW h \in Groups, d # c
          PROVE  /\ d \in Elements(openConnections'[h]) <=> d \in Elements(openConnections[h])
                 /\ d \in closingConnections'[h] <=> d \in closingConnections[h]
      BY <1>6, <1>9, <3>2
    <3>3. c \in Listed /\ c \in closingConnections'[g]
      BY <1>6, <1>7, ListedAre
    <3>4. QED
      BY <3>1, <3>2, <3>3, ListedAre
  <2>2. QED
    BY <2>1
<1>11. OpenInv'
  <2>1. ASSUME NEW h \in Groups, NEW d \in Elements(openConnections'[h])
        PROVE  phase'[d] = "up"
    <3>1. d \in Elements(openConnections[h]) /\ d # c
      BY <1>9, <2>1
    <3>2. d \in Connections
      BY <1>2, <3>1, ElementsAre DEF TypeOK
    <3>3. QED
      BY <1>2, <1>6, <3>1, <3>2 DEF ConnInv, OpenInv
  <2>2. ASSUME NEW h \in Groups, NEW m \in Groups,
               NEW k \in 1 .. Len(openConnections'[h]), NEW l \in 1 .. Len(openConnections'[m]),
               openConnections'[h][k] = openConnections'[m][l]
        PROVE  h = m /\ k = l
    <3>1. \A e, f \in Groups :
            \A x \in 1 .. Len(openConnections[e]), y \in 1 .. Len(openConnections[f]) :
              openConnections[e][x] = openConnections[f][y] => e = f /\ x = y
      BY <1>2 DEF ConnInv, OpenInv
    <3>2. \A z \in 1 .. Len(r) : Skip(i, z) \in 1 .. Len(q) /\ r[z] = q[Skip(i, z)]
      BY <1>4
    <3>3. CASE h # g /\ m # g
      BY <1>5, <2>2, <3>1, <3>3
    <3>4. CASE h = g /\ m # g
      <4>1. Skip(i, k) \in 1 .. Len(q) /\ openConnections[m][l] = q[Skip(i, k)]
        BY <1>5, <2>2, <3>2, <3>4
      <4>2. l \in 1 .. Len(openConnections[m])
        BY <1>5, <3>4
      <4>3. QED
        BY <3>1, <3>4, <4>1, <4>2
    <3>5. CASE h # g /\ m = g
      <4>1. Skip(i, l) \in 1 .. Len(q) /\ openConnections[h][k] = q[Skip(i, l)]
        BY <1>5, <2>2, <3>2, <3>5
      <4>2. k \in 1 .. Len(openConnections[h])
        BY <1>5, <3>5
      <4>3. QED
        BY <3>1, <3>5, <4>1, <4>2
    <3>6. CASE h = g /\ m = g
      <4>1. k \in 1 .. Len(r) /\ l \in 1 .. Len(r) /\ r[k] = r[l]
        BY <1>5, <2>2, <3>6
      <4>2. Skip(i, k) = Skip(i, l)
        BY <1>3, <3>2, <4>1
      <4>3. k \in Int /\ l \in Int /\ i \in Int
        BY <1>4, <4>1
      <4>4. k = l
        BY <4>2, <4>3 DEF Skip
      <4>5. QED
        BY <3>6, <4>4
    <3>7. QED
      BY <3>3, <3>4, <3>5, <3>6
  <2>3. QED
    BY <2>1, <2>2 DEF OpenInv, Elements
<1>12. ClosingInv'
  <2>1. \A h \in Groups : c \notin closingConnections[h]
    BY <1>2, <1>7 DEF ConnInv, ClosingInv
  <2>2. ASSUME NEW h \in Groups, NEW d \in closingConnections'[h]
        PROVE  /\ phase'[d] = "closing"
               /\ \A m \in Groups : d \in closingConnections'[m] => m = h
    <3>1. d \in Connections
      BY <1>6, <2>2
    <3>2. CASE d = c
      BY <1>6, <2>1, <2>2, <3>2
    <3>3. CASE d # c
      <4>1. \A m \in Groups : d \in closingConnections'[m] => d \in closingConnections[m]
        BY <1>6, <3>3
      <4>2. phase'[d] = phase[d]
        BY <1>6, <3>1, <3>3
      <4>3. d \in closingConnections[h]
        BY <2>2, <4>1
      <4>4. QED
        BY <1>2, <4>1, <4>2, <4>3 DEF ConnInv, ClosingInv
    <3>4. QED
      BY <3>2, <3>3
  <2>3. QED
    BY <2>2 DEF ClosingInv
<1>13. ListedInv'
  <2>1. c \in Listed
    BY <1>7, ListedAre
  <2>2. QED
    BY <1>2, <1>6, <1>10, <2>1 DEF ConnInv, ListedInv
<1>14. /\ InCallback' = InCallback /\ FramesAt("initFailed")' = FramesAt("initFailed")
       /\ FramesAt("resolveFailed")' = FramesAt("resolveFailed") /\ ResolveUnits' = ResolveUnits
  BY <1>2 DEF InCallback, FramesAt, Elements, ResolveUnits
<1>15. Transactions' = Transactions
  BY <1>2, <1>14 DEF Transactions
<1>16. TypeOK'
  BY <1>2, <1>5, <1>6 DEF TypeOK, userVars, endVars, countVars
<1>17. TransactionsCounted' /\ ConnectionsCounted' /\ ResolvesCounted'
  BY <1>2, <1>10, <1>14, <1>15
     DEF IInv, TransactionsCounted, ConnectionsCounted, ResolvesCounted, countVars
<1>18. FreshInv' /\ EndInv'
  BY <1>2, <1>15 DEF IInv, FreshInv, EndInv, Unneeded, userVars, endVars, countVars
<1>19. WaitInv'
  <2>1. UniqueInv' /\ OnceInv'
    BY <1>2 DEF IInv, WaitInv, UniqueInv, OnceInv
  <2>2. ApartInv'
    BY <1>2, <1>14, ApartStays DEF IInv, WaitInv
  <2>3. QED
    BY <2>1, <2>2 DEF WaitInv
<1>20. QED
  BY <1>11, <1>12, <1>13, <1>16, <1>17, <1>18, <1>19 DEF IInv, ConnInv

LEMMA OnConnectionCloseStep ==
  ASSUME IInv, NEW g \in Groups, NEW c \in Connections, OnConnectionClose(g, c)
  PROVE  IInv'
<1>1. /\ c \in closingConnections[g]
      /\ phase' = Update(phase, c, "gone")
      /\ closingConnections' = Update(closingConnections, g, closingConnections[g] \ {c})
      /\ connectionCount' = connectionCount - 1
      /\ UNCHANGED <<userVars, resolveCount, transactionCount, waiting, openConnections,
                     resolving, issued, stack, connecting, live>>
      /\ IF connectionCount' = 0 THEN ConsiderDestroy(onDestroy) ELSE UNCHANGED endVars
      /\ TypeOK /\ ConnInv
  BY DEF OnConnectionClose, IInv
<1>2. /\ closingConnections' \in [Groups -> SUBSET Connections]
      /\ closingConnections'[g] = closingConnections[g] \ {c}
      /\ \A h \in Groups : h # g => closingConnections'[h] = closingConnections[h]
      /\ phase' \in [Connections -> {"new", "up", "closing", "gone"}]
      /\ phase'[c] = "gone" /\ \A d \in Connections : d # c => phase'[d] = phase[d]
  BY <1>1 DEF TypeOK, Update
<1>3. /\ phase[c] = "closing" /\ c \in Listed
      /\ \A h \in Groups : h # g => c \notin closingConnections[h]
      /\ \A h \in Groups : c \notin Elements(openConnections[h])
  BY <1>1, ListedAre DEF ConnInv, ClosingInv, OpenInv
<1>4. Listed' = Listed \ {c}
  <2>1. ASSUME NEW d
        PROVE  d \in Listed' <=> d \in Listed /\ d # c
    <3>1. d \in Listed' <=>
            \E h \in Groups : d \in Elements(openConnections[h]) \/ d \in closingConnections'[h]
      <4>1. Listed' = UNION {Elements(openConnections[h]) \cup closingConnections'[h] : h \in Groups}
        BY <1>1 DEF Listed, Elements
      <4>2. QED
        BY <4>1
    <3>2. \A h \in Groups : d \in closingConnections'[h] <=> d \in closingConnections[h] /\ d # c
      BY <1>2, <1>3
    <3>3. QED
      BY <1>3, <3>1, <3>2, ListedAre
  <2>2. QED
    BY <2>1
<1>5. ConnInv'
  <2>1. \A h \in Groups : \A d \in Elements(openConnections[h]) : d \in Connections /\ d # c
    BY <1>1, <1>3, ElementsAre DEF TypeOK
  <2>2. OpenInv'
    BY <1>1, <1>2, <2>1 DEF ConnInv, OpenInv, Elements
  <2>3. ClosingInv'
    <3>1. ASSUME NEW h \in Groups, NEW d \in closingConnections'[h]
          PROVE  d \in closingConnections[h] /\ d # c /\ d \in Connections
      BY <1>2, <1>3, <3>1
    <3>2. ASSUME NEW h \in Groups, NEW d \in closingConnections'[h]
          PROVE  /\ phase'[d] = "closing"
                 /\ \A m \in Groups : d \in closingConnections'[m] => m = h
      <4>1. /\ phase[d] = "closing"
            /\ \A m \in Groups : d \in closingConnections[m] => m = h
        BY <1>1, <3>1, <3>2 DEF ConnInv, ClosingInv
      <4>2. QED
        BY <1>2, <3>1, <3>2, <4>1
    <3>3. QED
      BY <3>2 DEF ClosingInv
  <2>4. ListedInv'
    BY <1>1, <1>2, <1>4 DEF ConnInv, ListedInv
  <2>5. QED
    BY <2>2, <2>3, <2>4 DEF ConnInv
<1>6. /\ InCallback' = InCallback /\ FramesAt("initFailed")' = FramesAt("initFailed")
      /\ FramesAt("resolveFailed")' = FramesAt("resolveFailed") /\ ResolveUnits' = ResolveUnits
  BY <1>1 DEF InCallback, FramesAt, Elements, ResolveUnits
<1>7. Transactions' = Transactions
  BY <1>1, <1>6 DEF Transactions
<1>8. connectionCount' \in Nat /\ connectionCount # 0 /\ ConnectionsCounted'
  <2>1. Cardinality(Listed) # 0
    BY <1>1, <1>3, Finite, FS_EmptySet
  <2>2. Cardinality(Listed') = Cardinality(Listed) - 1
    BY <1>1, <1>3, <1>4, Finite, OneLess
  <2>3. QED
    BY <1>1, <1>6, <2>1, <2>2, Numbers DEF IInv, ConnectionsCounted
<1>9. EndInv' /\ onDestroy' \in BOOLEAN /\ deleted' \in BOOLEAN /\ notified' \in Nat
  <2>1. ~deleted /\ onDestroy \in BOOLEAN
    BY <1>1, <1>8 DEF IInv, EndInv, Unneeded, TypeOK
  <2>2. CASE connectionCount' = 0
    BY <1>1, <2>1, <2>2, Ends
  <2>3. CASE connectionCount' # 0
    <3>1. ~Unneeded'
      BY <2>3 DEF Unneeded
    <3>2. QED
      BY <1>1, <2>1, <2>3, <3>1, EndsNot
  <2>4. QED
    BY <2>2, <2>3
<1>10. TypeOK'
  BY <1>1, <1>2, <1>8, <1>9 DEF TypeOK, userVars
<1>11. TransactionsCounted' /\ ResolvesCounted' /\ FreshInv'
  BY <1>1, <1>6, <1>7 DEF IInv, TransactionsCounted, ResolvesCounted, FreshInv
<1>12. WaitInv'
  <2>1. UniqueInv' /\ OnceInv'
    BY <1>1 DEF IInv, WaitInv, UniqueInv, OnceInv
  <2>2. ApartInv'
    BY <1>1, <1>6, ApartStays DEF IInv, WaitInv
  <2>3. QED
    BY <2>1, <2>2 DEF WaitInv
<1>13. QED
  BY <1>5, <1>8, <1>9, <1>10, <1>11, <1>12 DEF IInv
\* A connection that was not made yet is in no list.
LEMMA NewIsNowhere ==
  ASSUME ConnInv, NEW c, phase[c] = "new"
  PROVE  /\ c \notin Listed
         /\ \A g \in Groups : c \notin Elements(openConnections[g]) /\ c \notin closingConnections[g]
<1>1. \A g \in Groups : c \notin Elements(openConnections[g]) /\ c \notin closingConnections[g]
  BY DEF ConnInv, OpenInv, ClosingInv
<1>2. QED
  BY <1>1, ListedAre

\* A getaddrinfo call was counted, so the core is not deleted, and the new
\* connection keeps it so.
LEMMA OnResolveCounts ==
  ASSUME IInv, NEW g \in Groups, NEW c \in Connections, OnResolve(g, c)
  PROVE  /\ resolving' \in [Groups -> Nat] /\ \A h \in Groups : resolving'[h] <= issued
         /\ resolveCount' \in Nat /\ connectionCount' \in Nat
         /\ FramesAt("resolveFailed")' = FramesAt("resolveFailed") => ResolvesCounted'
         /\ EndInv'
<1>1. /\ resolving[g] > 0 /\ resolving' = Update(resolving, g, resolving[g] - 1)
      /\ resolveCount' = resolveCount - 1 /\ connectionCount' = connectionCount + 1
      /\ UNCHANGED endVars /\ TypeOK
  BY DEF OnResolve, IInv
<1>2. resolving[g] <= MaxRequests /\ \A h \in Groups : resolving'[h] <= issued
  BY <1>1, CoreAssumption DEF IInv, TypeOK, FreshInv, Update
<1>3. /\ resolving' \in [Groups -> Nat]
      /\ Cardinality(ResolveUnits') = Cardinality(ResolveUnits) - 1
      /\ Cardinality(ResolveUnits) > 0
  BY <1>1, <1>2, ResolveLess
<1>4. resolveCount > 0 /\ resolveCount' \in Nat /\ connectionCount' \in Nat /\ connectionCount' # 0
  <2>1. Cardinality(ResolveUnits) \in Nat /\ Cardinality(FramesAt("resolveFailed")) \in Nat
    BY <1>1, Numbers
  <2>2. resolveCount = Cardinality(ResolveUnits) + Cardinality(FramesAt("resolveFailed"))
    BY DEF IInv, ResolvesCounted
  <2>3. connectionCount \in Nat
    BY <1>1 DEF TypeOK
  <2>4. QED
    BY <1>1, <1>3, <2>1, <2>2, <2>3
<1>5. FramesAt("resolveFailed")' = FramesAt("resolveFailed") => ResolvesCounted'
  BY <1>1, <1>3, Numbers DEF IInv, ResolvesCounted
<1>6. EndInv'
  <2>1. ~deleted /\ ~Unneeded'
    BY <1>4 DEF IInv, EndInv, Unneeded
  <2>2. QED
    BY <1>1, <2>1, EndsNot
<1>7. QED
  BY <1>2, <1>3, <1>4, <1>5, <1>6

\* The connection could not be initialized.
LEMMA OnResolveDropsStep ==
  ASSUME IInv, NEW g \in Groups, NEW c \in Connections, OnResolve(g, c),
         phase' = Update(phase, c, "gone"), UNCHANGED <<connecting, live>>,
         Push("initFailed", g), UNCHANGED <<waiting, openConnections>>
  PROVE  IInv'
<1>1. /\ phase[c] = "new" /\ connectionCount' = connectionCount + 1
      /\ UNCHANGED <<userVars, endVars, transactionCount, closingConnections, issued>>
      /\ TypeOK /\ ConnInv
  BY DEF OnResolve, IInv
<1>2. /\ resolving' \in [Groups -> Nat] /\ \A h \in Groups : resolving'[h] <= issued
      /\ resolveCount' \in Nat /\ connectionCount' \in Nat
      /\ FramesAt("resolveFailed")' = FramesAt("resolveFailed") => ResolvesCounted'
      /\ EndInv'
  BY OnResolveCounts
<1>3. [at |-> "initFailed", of |-> g] \in Frames
  BY DEF Frames
<1>4. /\ stack' \in Seq(Frames) /\ InCallback' = InCallback
      /\ FramesAt("resolveFailed")' = FramesAt("resolveFailed")
      /\ Cardinality(FramesAt("initFailed")') = Cardinality(FramesAt("initFailed")) + 1
  BY <1>1, <1>3, PushCounts
<1>5. /\ phase' \in [Connections -> {"new", "up", "closing", "gone"}]
      /\ phase'[c] = "gone" /\ \A d \in Connections : d # c => phase'[d] = phase[d]
  BY <1>1 DEF TypeOK, Update
<1>6. TypeOK'
  BY <1>1, <1>2, <1>4, <1>5 DEF TypeOK, userVars, endVars
<1>7. Listed' = Listed
  BY <1>1 DEF Listed
<1>8. ConnInv'
  <2>1. ASSUME NEW h \in Groups
        PROVE  /\ \A d \in Elements(openConnections[h]) : phase'[d] = phase[d]
               /\ \A d \in closingConnections[h] : phase'[d] = phase[d]
    BY <1>1, <1>5, NewIsNowhere, ElementsAre DEF TypeOK
  <2>2. OpenInv'
    BY <1>1, <2>1 DEF ConnInv, OpenInv, Elements
  <2>3. ClosingInv'
    BY <1>1, <2>1 DEF ConnInv, ClosingInv
  <2>4. ListedInv'
    BY <1>1, <1>5, <1>7 DEF ConnInv, ListedInv
  <2>5. QED
    BY <2>2, <2>3, <2>4 DEF ConnInv
<1>9. Transactions' = Transactions
  BY <1>4 DEF Transactions
<1>10. TransactionsCounted' /\ ResolvesCounted' /\ FreshInv'
  BY <1>1, <1>2, <1>4, <1>9 DEF IInv, TransactionsCounted, FreshInv
<1>11. ConnectionsCounted'
  BY <1>1, <1>4, <1>7, Numbers DEF IInv, ConnectionsCounted
<1>12. WaitInv'
  <2>1. UniqueInv'
    BY DEF IInv, WaitInv, UniqueInv
  <2>2. ApartInv'
    BY <1>4, ApartStays DEF IInv, WaitInv
  <2>3. OnceInv'
    BY <1>1, <1>3, PushOnce DEF IInv, WaitInv
  <2>4. QED
    BY <2>1, <2>2, <2>3 DEF WaitInv
<1>13. QED
  BY <1>2, <1>6, <1>8, <1>10, <1>11, <1>12 DEF IInv

\* The connection takes over the transactions that waited.
LEMMA OnResolveStartsStep ==
  ASSUME IInv, NEW g \in Groups, NEW c \in Connections, OnResolve(g, c),
         phase' = Update(phase, c, "up"), live' = Update(live, c, Elements(waiting[g])),
         NEW b \in BOOLEAN, connecting' = Update(connecting, c, b),
         waiting' = Update(waiting, g, <<>>),
         openConnections' = Update(openConnections, g, Append(openConnections[g], c)),
         UNCHANGED stack
  PROVE  IInv'
<1> DEFINE q == openConnections[g]
           n == Len(q)
<1>1. /\ phase[c] = "new" /\ connectionCount' = connectionCount + 1
      /\ UNCHANGED <<userVars, endVars, transactionCount, closingConnections, issued>>
      /\ TypeOK /\ ConnInv /\ WaitInv
  BY DEF OnResolve, IInv
<1>2. /\ resolving' \in [Groups -> Nat] /\ \A h \in Groups : resolving'[h] <= issued
      /\ resolveCount' \in Nat /\ connectionCount' \in Nat
      /\ FramesAt("resolveFailed")' = FramesAt("resolveFailed") => ResolvesCounted'
      /\ EndInv'
  BY OnResolveCounts
<1>3. /\ InCallback' = InCallback /\ FramesAt("initFailed")' = FramesAt("initFailed")
      /\ FramesAt("resolveFailed")' = FramesAt("resolveFailed")
  BY DEF InCallback, FramesAt, Elements
<1>4. /\ q \in Seq(Connections) /\ n \in Nat /\ Append(q, c) \in Seq(Connections)
      /\ Len(Append(q, c)) = n + 1 /\ Append(q, c)[n + 1] = c
      /\ \A i \in 1 .. n : Append(q, c)[i] = q[i]
  <2>1. q \in Seq(Connections)
    BY <1>1 DEF TypeOK
  <2>2. QED
    BY <2>1, AppendProperties, LenProperties
<1>5. /\ openConnections' \in [Groups -> Seq(Connections)] /\ openConnections'[g] = Append(q, c)
      /\ \A h \in Groups : h # g => openConnections'[h] = openConnections[h]
  BY <1>1, <1>4 DEF TypeOK, Update
<1>6. \A i : i \in 1 .. Len(openConnections'[g]) <=> i \in 1 .. n \/ i = n + 1
  BY <1>4, <1>5
<1>7. Elements(openConnections'[g]) = Elements(q) \cup {c}
  BY <1>4, <1>5, <1>6 DEF Elements
<1>8. /\ waiting' \in [Groups -> Seq(Requests)] /\ waiting'[g] = <<>>
      /\ \A h \in Groups : h # g => waiting'[h] = waiting[h]
  BY <1>1, EmptySeq DEF TypeOK, Update
<1>9. Elements(waiting'[g]) = {} /\ Elements(waiting[g]) \in SUBSET Requests
  BY <1>1, <1>8, ElementsAre DEF TypeOK
<1>10. /\ live' \in [Connections -> SUBSET Requests] /\ live'[c] = Elements(waiting[g])
       /\ \A d \in Connections : d # c => live'[d] = live[d]
       /\ phase' \in [Connections -> {"new", "up", "closing", "gone"}] /\ phase'[c] = "up"
       /\ \A d \in Connections : d # c => phase'[d] = phase[d]
       /\ connecting' \in [Connections -> BOOLEAN] /\ live[c] = {}
  BY <1>1, <1>9 DEF TypeOK, Update, ConnInv, ListedInv
<1>11. TypeOK'
  BY <1>1, <1>2, <1>5, <1>8, <1>10 DEF TypeOK, userVars, endVars
<1>12. Transactions' = Transactions
  <2>1. ASSUME NEW x
        PROVE  x \in Transactions' <=> x \in Transactions
    <3>1. x \in Transactions' <=>
            \/ x \in InCallback'
            \/ \E d \in Connections : x \in live'[d]
            \/ \E h \in Groups : x \in Elements(waiting'[h])
      <4>1. Transactions' = InCallback' \cup (UNION {live'[d] : d \in Connections})
                              \cup (UNION {Elements(waiting'[h]) : h \in Groups})
        BY Zenon DEF Transactions, Elements
      <4>2. QED
        BY <4>1
    <3>2. (\E d \in Connections : x \in live'[d]) <=>
            x \in Elements(waiting[g]) \/ \E d \in Connections : x \in live[d]
      BY <1>10
    <3>3. (\E h \in Groups : x \in Elements(waiting'[h])) <=>
            \E h \in Groups : h # g /\ x \in Elements(waiting[h])
      BY <1>8, <1>9
    <3>4. QED
      BY <1>3, <3>1, <3>2, <3>3, TransactionsAre
  <2>2. QED
    BY <2>1
<1>13. c \notin Listed /\ Listed' = Listed \cup {c}
  <2>1. ASSUME NEW d
        PROVE  d \in Listed' <=> d \in Listed \/ d = c
    <3>1. d \in Listed' <=>
            \E h \in Groups : d \in Elements(openConnections'[h]) \/ d \in closingConnections[h]
      <4>1. Listed' = UNION {Elements(openConnections'[h]) \cup closingConnections[h] : h \in Groups}
        BY <1>1 DEF Listed, Elements
      <4>2. QED
        BY <4>1
    <3>2. ASSUME NEW h \in Groups
          PROVE  d \in Elements(openConnections'[h]) <=>
                   d \in Elements(openConnections[h]) \/ (h = g /\ d = c)
      BY <1>5, <1>7
    <3>3. QED
      BY <3>1, <3>2, ListedAre
  <2>2. QED
    BY <1>1, <2>1, NewIsNowhere
<1>14. ConnInv'
  <2>1. OpenInv'
    <3>1. ASSUME NEW h \in Groups, NEW d \in Elements(openConnections'[h])
          PROVE  phase'[d] = "up"
      <4>1. d = c \/ d \in Elements(openConnections[h])
        BY <1>5, <1>7, <3>1
      <4>2. d \in Elements(openConnections[h]) => d \in Connections /\ phase[d] = "up"
        BY <1>1, ElementsAre DEF TypeOK, ConnInv, OpenInv
      <4>3. QED
        BY <1>10, <4>1, <4>2
    <3>2. ASSUME NEW h \in Groups, NEW m \in Groups,
                 NEW i \in 1 .. Len(openConnections'[h]), NEW k \in 1 .. Len(openConnections'[m]),
                 openConnections'[h][i] = openConnections'[m][k]
          PROVE  h = m /\ i = k
      <4>1. /\ h # g => openConnections'[h] = openConnections[h] /\ i \in 1 .. Len(openConnections[h])
            /\ m # g => openConnections'[m] = openConnections[m] /\ k \in 1 .. Len(openConnections[m])
        BY <1>5
      <4>2. /\ h = g => \/ i = n + 1 /\ openConnections'[h][i] = c
                        \/ i \in 1 .. n /\ openConnections'[h][i] = openConnections[g][i]
            /\ m = g => \/ k = n + 1 /\ openConnections'[m][k] = c
                        \/ k \in 1 .. n /\ openConnections'[m][k] = openConnections[g][k]
        BY <1>4, <1>5, <1>6
      <4>3. \A e \in Groups : \A x \in 1 .. Len(openConnections[e]) : openConnections[e][x] # c
        BY <1>1, NewIsNowhere DEF Elements
      <4>4. \A e, f \in Groups :
              \A x \in 1 .. Len(openConnections[e]), y \in 1 .. Len(openConnections[f]) :
                openConnections[e][x] = openConnections[f][y] => e = f /\ x = y
        BY <1>1 DEF ConnInv, OpenInv
      <4>5. QED
        BY <3>2, <4>1, <4>2, <4>3, <4>4
    <3>3. QED
      BY <3>1, <3>2 DEF OpenInv, Elements
  <2>2. ClosingInv'
    <3>1. \A h \in Groups : \A d \in closingConnections[h] : d \in Connections /\ phase'[d] = phase[d]
      BY <1>1, <1>10, NewIsNowhere DEF TypeOK
    <3>2. QED
      BY <1>1, <3>1 DEF ConnInv, ClosingInv
  <2>3. ListedInv'
    BY <1>1, <1>10, <1>13 DEF ConnInv, ListedInv
  <2>4. QED
    BY <2>1, <2>2, <2>3 DEF ConnInv
<1>15. ConnectionsCounted'
  <2>1. Cardinality(Listed') = Cardinality(Listed) + 1
    BY <1>1, <1>13, Finite, OneMore
  <2>2. QED
    BY <1>1, <1>3, <2>1, Numbers DEF IInv, ConnectionsCounted
<1>16. TransactionsCounted' /\ ResolvesCounted' /\ FreshInv'
  BY <1>1, <1>2, <1>3, <1>12 DEF IInv, TransactionsCounted, FreshInv
<1>17. WaitInv'
  <2>1. \A h, m \in Groups : \A i \in 1 .. Len(waiting[h]), k \in 1 .. Len(waiting[m]) :
          waiting[h][i] = waiting[m][k] => h = m /\ i = k
    BY <1>1 DEF WaitInv, UniqueInv
  <2>2. ASSUME NEW h \in Groups, NEW i \in 1 .. Len(waiting'[h])
        PROVE  h # g /\ waiting'[h] = waiting[h]
    <3>1. h # g
      <4>1. Len(<<>>) = 0 /\ ~ \E x : x \in 1 .. 0
        OBVIOUS
      <4>2. QED
        BY <1>8, <2>2, <4>1
    <3>2. QED
      BY <1>8, <3>1
  <2>3. UniqueInv'
    BY <2>1, <2>2 DEF UniqueInv
  <2>4. ASSUME NEW h \in Groups, NEW x \in Elements(waiting'[h])
        PROVE  x \notin InCallback' /\ \A d \in Connections : x \notin live'[d]
    <3>1. h # g /\ x \in Elements(waiting[h])
      BY <1>8, <1>9, <2>4
    <3>2. x \notin Elements(waiting[g])
      BY <2>1, <3>1 DEF Elements
    <3>3. QED
      BY <1>1, <1>3, <1>10, <3>1, <3>2 DEF WaitInv, ApartInv
  <2>5. ApartInv'
    BY <2>4 DEF ApartInv, Elements
  <2>6. OnceInv'
    BY <1>1 DEF WaitInv, OnceInv
  <2>7. QED
    BY <2>3, <2>5, <2>6 DEF WaitInv
<1>18. QED
  BY <1>2, <1>11, <1>14, <1>15, <1>16, <1>17 DEF IInv

LEMMA OnResolveStep ==
  ASSUME IInv, NEW g \in Groups, NEW c \in Connections, OnResolve(g, c)
  PROVE  IInv'
<1>1. CASE /\ phase' = Update(phase, c, "gone") /\ UNCHANGED <<connecting, live>>
           /\ Push("initFailed", g) /\ UNCHANGED <<waiting, openConnections>>
  BY <1>1, OnResolveDropsStep
<1>2. CASE /\ phase' = Update(phase, c, "up") /\ live' = Update(live, c, Elements(waiting[g]))
           /\ \E b \in BOOLEAN : connecting' = Update(connecting, c, b)
           /\ waiting' = Update(waiting, g, <<>>)
           /\ openConnections' = Update(openConnections, g, Append(openConnections[g], c))
           /\ UNCHANGED stack
  <2>1. PICK b \in BOOLEAN : connecting' = Update(connecting, c, b)
    BY <1>2
  <2>2. QED
    BY <1>2, <2>1, OnResolveStartsStep
<1>3. QED
  BY <1>1, <1>2 DEF OnResolve

-----------------------------------------------------------------------------
(* The theorems.                                                           *)

LEMMA InitInvariant == Init => IInv
<1>1. SUFFICES ASSUME Init
               PROVE  IInv
  OBVIOUS
<1>2. stack = <<>> /\ Len(stack) = 0 /\ 1 .. Len(stack) = {}
  BY <1>1 DEF Init
<1>3. /\ \A g \in Groups : /\ waiting[g] = <<>> /\ openConnections[g] = <<>>
                           /\ closingConnections[g] = {} /\ resolving[g] = 0
      /\ \A c \in Connections : live[c] = {} /\ phase[c] = "new"
  BY <1>1 DEF Init
<1>4. 1 .. Len(<<>>) = {} /\ Elements(<<>>) = {}
  BY DEF Elements
<1>5. TypeOK
  <2>1. <<>> \in Seq(Requests) /\ <<>> \in Seq(Connections) /\ <<>> \in Seq(Frames)
    BY EmptySeq
  <2>2. 0 \in 0 .. MaxRequests
    BY CoreAssumption
  <2>3. QED
    BY <1>1, <2>1, <2>2 DEF Init, TypeOK
<1>6. InCallback = {} /\ \A at : FramesAt(at) = {}
  BY <1>2 DEF InCallback, FramesAt, Elements
<1>7. Transactions = {} /\ Listed = {}
  <2>1. \A x : x \notin Transactions /\ x \notin Listed
    BY <1>3, <1>4, <1>6, TransactionsAre, ListedAre
  <2>2. QED
    BY <2>1
<1>8. ResolveUnits = {}
  <2>1. \A g \in Groups, k \in 1 .. MaxRequests : ~(k <= resolving[g])
    BY <1>3, CoreAssumption
  <2>2. QED
    BY <2>1 DEF ResolveUnits
<1>9. Cardinality({}) = 0
  BY FS_EmptySet
<1>10. TransactionsCounted /\ ConnectionsCounted /\ ResolvesCounted
  <2>1. FramesAt("initFailed") = {} /\ FramesAt("resolveFailed") = {}
    BY <1>6
  <2>2. resolveCount = 0 /\ connectionCount = 0 /\ transactionCount = 0
    BY <1>1 DEF Init
  <2>3. QED
    BY <1>7, <1>8, <1>9, <2>1, <2>2
       DEF TransactionsCounted, ConnectionsCounted, ResolvesCounted
<1>11. FreshInv
  BY <1>1, <1>3, <1>7 DEF Init, FreshInv
<1>12. WaitInv
  BY <1>2, <1>3, <1>4 DEF WaitInv, UniqueInv, ApartInv, OnceInv
<1>13. ConnInv
  BY <1>3, <1>4 DEF ConnInv, OpenInv, ClosingInv, ListedInv
<1>14. EndInv
  BY <1>1 DEF Init, EndInv, Unneeded
<1>15. QED
  BY <1>5, <1>10, <1>11, <1>12, <1>13, <1>14 DEF IInv

LEMMA StutterStep ==
  ASSUME IInv, UNCHANGED vars
  PROVE  IInv'
<1>1. UNCHANGED <<userVars, endVars, countVars, waiting, listVars, resolving, issued, stack,
                  connVars>>
  BY DEF vars
<1>2. /\ InCallback' = InCallback /\ ResolveUnits' = ResolveUnits
      /\ FramesAt("initFailed")' = FramesAt("initFailed")
      /\ FramesAt("resolveFailed")' = FramesAt("resolveFailed")
  BY <1>1 DEF InCallback, FramesAt, Elements, ResolveUnits
<1>3. Transactions' = Transactions
  BY <1>1, <1>2 DEF Transactions, connVars
<1>4. TypeOK'
  BY <1>1 DEF IInv, TypeOK, userVars, endVars, countVars, listVars, connVars
<1>5. ConnInv' /\ Listed' = Listed
  BY <1>1, ConnsStay DEF IInv, ConnInv, ListedInv, listVars, connVars
<1>6. TransactionsCounted' /\ ConnectionsCounted' /\ ResolvesCounted'
  BY <1>1, <1>2, <1>3, <1>5
     DEF IInv, TransactionsCounted, ConnectionsCounted, ResolvesCounted, countVars
<1>7. FreshInv' /\ EndInv'
  BY <1>1, <1>3 DEF IInv, FreshInv, EndInv, Unneeded, userVars, endVars, countVars
<1>8. UniqueInv' /\ OnceInv'
  BY <1>1 DEF IInv, WaitInv, UniqueInv, OnceInv
<1>9. ApartInv'
  BY <1>1, <1>2, ApartStays DEF IInv, WaitInv, connVars
<1>10. QED
  BY <1>4, <1>5, <1>6, <1>7, <1>8, <1>9 DEF IInv, WaitInv

LEMMA StepInvariant == IInv /\ [Next]_vars => IInv'
<1>1. SUFFICES ASSUME IInv, [Next]_vars
               PROVE  IInv'
  OBVIOUS
<1>2. CASE UNCHANGED vars
  BY <1>1, <1>2, StutterStep
<1>3. CASE OnShellDestroyed
  BY <1>1, <1>3, OnShellDestroyedStep
<1>4. CASE AsyncProcessFails
  BY <1>1, <1>4, AsyncProcessFailsStep
<1>5. ASSUME NEW g \in Groups, AsyncProcessConnected(g) PROVE IInv'
  BY <1>1, <1>5, AsyncProcessConnectedStep
<1>6. ASSUME NEW g \in Groups, AsyncProcessWaits(g) PROVE IInv'
  BY <1>1, <1>6, AsyncProcessWaitsStep
<1>7. ASSUME NEW g \in Groups, OnResolveFailure(g) PROVE IInv'
  BY <1>1, <1>7, OnResolveFailureStep
<1>8. ASSUME NEW g \in Groups, NEW c \in Connections, OnResolve(g, c) PROVE IInv'
  BY <1>1, <1>8, OnResolveStep
<1>9. CASE FailWaiting
  BY <1>1, <1>9, FailWaitingStep
<1>10. CASE FinishFailing
  BY <1>1, <1>10, FinishFailingStep
<1>11. CASE UserReturns
  BY <1>1, <1>11, UserReturnsStep
<1>12. ASSUME NEW c \in Connections, OnConnect(c) PROVE IInv'
  BY <1>1, <1>12, OnConnectStep
<1>13. ASSUME NEW c \in Connections, ConnectionAnswers(c) PROVE IInv'
  BY <1>1, <1>13, ConnectionAnswersStep
<1>14. ASSUME NEW g \in Groups, NEW c \in Connections, OnConnectionClosing(g, c) PROVE IInv'
  BY <1>1, <1>14, OnConnectionClosingStep
<1>15. ASSUME NEW g \in Groups, NEW c \in Connections, OnConnectionClose(g, c) PROVE IInv'
  BY <1>1, <1>15, OnConnectionCloseStep
<1>16. QED
  BY <1>1, <1>2, <1>3, <1>4, <1>5, <1>6, <1>7, <1>8, <1>9, <1>10, <1>11, <1>12, <1>13, <1>14,
     <1>15 DEF Next, Resolved, Runs

\* The inductive invariant holds in every reachable state.
THEOREM Invariance == Spec => []IInv
<1>1. Init => IInv
  BY InitInvariant
<1>2. IInv /\ [Next]_vars => IInv'
  BY StepInvariant
<1>3. QED
  BY <1>1, <1>2, PTL DEF Spec

\* The three counters that ConsiderDestroy tests count the transactions, the
\* connections and the resolves there are, whatever the callbacks do.
THEOREM CountersAreExact == Spec => []CountersExact
<1>1. IInv => CountersExact
  BY DEF IInv, CountersExact, TransactionsCounted, ConnectionsCounted, ResolvesCounted
<1>2. QED
  BY <1>1, Invariance, PTL

\* The core is deleted exactly when nobody is left to call it.
THEOREM DeletedExactlyWhenUnused == Spec => []DeletedWhenUnused
<1>1. IInv => DeletedWhenUnused
  <2>1. SUFFICES ASSUME IInv
                 PROVE  DeletedWhenUnused
    OBVIOUS
  <2> DEFINE Unresolved == \A g \in Groups : resolving[g] = 0
             Unconnected == \A c \in Connections : phase[c] \in {"new", "gone"}
  <2>2. /\ Cardinality(Transactions) \in Nat /\ Cardinality(Listed) \in Nat
        /\ Cardinality(ResolveUnits) \in Nat
        /\ Cardinality(FramesAt("initFailed")) \in Nat
        /\ Cardinality(FramesAt("resolveFailed")) \in Nat
        /\ IsFiniteSet(Transactions) /\ IsFiniteSet(Listed) /\ IsFiniteSet(ResolveUnits)
        /\ IsFiniteSet(FramesAt("initFailed")) /\ IsFiniteSet(FramesAt("resolveFailed"))
    BY <2>1, Finite, Numbers DEF IInv
  <2>3. transactionCount = 0 <=> Transactions = {}
    BY <2>1, <2>2, FS_EmptySet DEF IInv, TransactionsCounted
  <2>4. connectionCount = 0 <=> Listed = {} /\ FramesAt("initFailed") = {}
    <3>1. connectionCount = 0 <=>
            Cardinality(Listed) = 0 /\ Cardinality(FramesAt("initFailed")) = 0
      BY <2>1, <2>2 DEF IInv, ConnectionsCounted
    <3>2. QED
      BY <2>2, <3>1, FS_EmptySet
  <2>5. resolveCount = 0 <=> ResolveUnits = {} /\ FramesAt("resolveFailed") = {}
    <3>1. resolveCount = 0 <=>
            Cardinality(ResolveUnits) = 0 /\ Cardinality(FramesAt("resolveFailed")) = 0
      BY <2>1, <2>2 DEF IInv, ResolvesCounted
    <3>2. QED
      BY <2>2, <3>1, FS_EmptySet
  <2>6. ResolveUnits = {} <=> Unresolved
    <3>1. \A g \in Groups : resolving[g] \in Nat /\ resolving[g] <= MaxRequests
      BY <2>1, CoreAssumption DEF IInv, TypeOK, FreshInv
    <3>2. ASSUME NEW g \in Groups, resolving[g] # 0
          PROVE  <<g, 1>> \in ResolveUnits
      BY <3>1, <3>2, CoreAssumption DEF ResolveUnits
    <3>3. ASSUME NEW u \in ResolveUnits
          PROVE  \E g \in Groups : resolving[g] # 0
      BY <3>1, CoreAssumption DEF ResolveUnits
    <3>4. QED
      BY <3>2, <3>3
  <2>7. Listed = {} <=> Unconnected
    <3>1. ASSUME NEW c \in Connections
          PROVE  c \in Listed <=> phase[c] \in {"up", "closing"}
      BY <2>1, ListedAre DEF IInv, ConnInv, OpenInv, ClosingInv, ListedInv
    <3>2. Listed \in SUBSET Connections
      BY <2>1, Finite DEF IInv
    <3>3. \A c \in Connections : phase[c] \in {"new", "up", "closing", "gone"}
      BY <2>1 DEF IInv, TypeOK
    <3>4. QED
      BY <3>1, <3>2, <3>3
  <2>8. AtLoop <=> /\ InCallback = {} /\ FramesAt("initFailed") = {}
                   /\ FramesAt("resolveFailed") = {}
    <3>1. stack \in Seq(Frames) /\ \A i \in 1 .. Len(stack) : stack[i] \in Frames
      BY <2>1 DEF IInv, TypeOK
    <3>2. AtLoop => 1 .. Len(stack) = {}
      BY DEF AtLoop
    <3>3. ~AtLoop => 1 \in 1 .. Len(stack)
      BY <3>1 DEF AtLoop
    <3>4. ASSUME NEW i \in 1 .. Len(stack)
          PROVE  \/ stack[i].of \in InCallback
                 \/ i \in FramesAt("initFailed") \/ i \in FramesAt("resolveFailed")
      <4>1. stack[i].at \in {"user", "initFailed", "resolveFailed"}
        BY <3>1 DEF Frames
      <4>2. QED
        BY <4>1, InCallbackIs DEF FramesAt
    <3>5. 1 .. Len(stack) = {} =>
            /\ InCallback = {} /\ FramesAt("initFailed") = {} /\ FramesAt("resolveFailed") = {}
      BY DEF InCallback, FramesAt, Elements
    <3>6. QED
      BY <3>2, <3>3, <3>4, <3>5
  <2>9. Transactions = {} => InCallback = {}
    BY DEF Transactions
  <2>10. deleted <=> ~shell /\ resolveCount = 0 /\ connectionCount = 0 /\ transactionCount = 0
    BY <2>1 DEF IInv, EndInv, Unneeded
  <2>11. QED
    BY <2>3, <2>4, <2>5, <2>6, <2>7, <2>8, <2>9, <2>10 DEF DeletedWhenUnused
<1>2. QED
  BY <1>1, Invariance, PTL
-----------------------------------------------------------------------------
(* Those that wait, whatever the user does.                                *)

\* A group's loop is on the stack.
LoopOf(g) == \E f \in Elements(stack) : f.at # "user" /\ f.of = g

\* The address somebody waits for is being asked for, or the wait is being failed.
AskedInv == \A g \in Groups : waiting[g] # <<>> => resolving[g] > 0 \/ LoopOf(g)

LEMMA LoopOfIs ==
  ASSUME NEW g
  PROVE  LoopOf(g) <=> \E i \in 1 .. Len(stack) : stack[i].at # "user" /\ stack[i].of = g
BY DEF LoopOf, Elements

LEMMA LoopsPush ==
  ASSUME TypeOK, NEW at, NEW of, [at |-> at, of |-> of] \in Frames, Push(at, of), NEW g
  PROVE  LoopOf(g)' <=> LoopOf(g) \/ (at # "user" /\ of = g)
<1> DEFINE n == Len(stack)
<1>1. /\ n \in Nat /\ Len(stack') = n + 1
      /\ \A i \in 1 .. n : stack'[i] = stack[i]
      /\ stack'[n + 1].at = at /\ stack'[n + 1].of = of
  BY PushCounts DEF TypeOK
<1>2. \A i : i \in 1 .. n + 1 <=> i \in 1 .. n \/ i = n + 1
  BY <1>1
<1>3. LoopOf(g)' <=> \E i \in 1 .. n + 1 : stack'[i].at # "user" /\ stack'[i].of = g
  BY <1>1 DEF LoopOf, Elements
<1>4. QED
  BY <1>1, <1>2, <1>3, LoopOfIs

LEMMA LoopsPop ==
  ASSUME TypeOK, WaitInv, ~AtLoop, stack' = Callers, NEW g
  PROVE  /\ LoopOf(g)' => LoopOf(g)
         /\ LoopOf(g) => LoopOf(g)' \/ (Running.at # "user" /\ Running.of = g)
         /\ Running.at # "user" /\ Running.of = g => LoopOf(g)
<1> DEFINE n == Len(stack)
<1>1. /\ n \in Nat \ {0} /\ Running = stack[n] /\ Len(stack') = n - 1
      /\ \A i \in 1 .. n - 1 : i \in 1 .. n /\ stack'[i] = stack[i]
  BY PopCounts
<1>2. \A i : i \in 1 .. n <=> i \in 1 .. n - 1 \/ i = n
  BY <1>1
<1>3. LoopOf(g)' <=> \E i \in 1 .. n - 1 : stack'[i].at # "user" /\ stack'[i].of = g
  BY <1>1 DEF LoopOf, Elements
<1>4. QED
  BY <1>1, <1>2, <1>3, LoopOfIs

LEMMA NoLoops ==
  ASSUME \/ AtLoop
         \/ \A f \in Elements(stack) : f.at = "user"
  PROVE  \A g : ~LoopOf(g)
BY DEF AtLoop, LoopOf, Elements

LEMMA AskedStays ==
  ASSUME AskedInv, UNCHANGED <<resolving, waiting>>,
         \A g \in Groups : LoopOf(g) => LoopOf(g)' \/ waiting[g] = <<>>
  PROVE  AskedInv'
BY DEF AskedInv

LEMMA AskedWaits ==
  ASSUME IInv, AskedInv, NEW g \in Groups, AsyncProcessWaits(g)
  PROVE  AskedInv'
<1>1. /\ waiting' = Update(waiting, g, Append(waiting[g], issued')) /\ TypeOK
      /\ \/ waiting[g] # <<>> /\ UNCHANGED <<resolveCount, resolving, stack>>
         \/ /\ waiting[g] = <<>> /\ UNCHANGED stack
            /\ resolving' = Update(resolving, g, resolving[g] + 1)
         \/ waiting[g] = <<>> /\ Push("resolveFailed", g) /\ UNCHANGED resolving
  BY DEF AsyncProcessWaits, IInv
<1>2. \A h \in Groups : h # g => waiting'[h] = waiting[h]
  BY <1>1 DEF TypeOK, Update
<1>3. CASE waiting[g] # <<>> /\ UNCHANGED <<resolveCount, resolving, stack>>
  <2>1. \A h : LoopOf(h)' <=> LoopOf(h)
    BY <1>3 DEF LoopOf, Elements
  <2>2. QED
    BY <1>2, <1>3, <2>1 DEF AskedInv
<1>4. CASE UNCHANGED stack /\ resolving' = Update(resolving, g, resolving[g] + 1)
  <2>1. \A h : LoopOf(h)' <=> LoopOf(h)
    BY <1>4 DEF LoopOf, Elements
  <2>2. resolving'[g] > 0 /\ \A h \in Groups : h # g => resolving'[h] = resolving[h]
    BY <1>1, <1>4 DEF TypeOK, Update
  <2>3. QED
    BY <1>2, <2>1, <2>2 DEF AskedInv
<1>5. CASE Push("resolveFailed", g) /\ UNCHANGED resolving
  <2>1. [at |-> "resolveFailed", of |-> g] \in Frames
    BY DEF Frames
  <2>2. \A h : LoopOf(h)' <=> LoopOf(h) \/ h = g
    BY <1>1, <1>5, <2>1, LoopsPush
  <2>3. QED
    BY <1>2, <1>5, <2>2 DEF AskedInv
<1>6. QED
  BY <1>1, <1>3, <1>4, <1>5

LEMMA AskedResolved ==
  ASSUME IInv, AskedInv, NEW g \in Groups, Resolved(g)
  PROVE  AskedInv'
<1>1. resolving' = Update(resolving, g, resolving[g] - 1) /\ TypeOK
  BY DEF Resolved, OnResolveFailure, OnResolve, IInv
<1>2. \A h \in Groups : h # g => resolving'[h] = resolving[h]
  BY <1>1 DEF TypeOK, Update
<1>3. ASSUME NEW at \in {"resolveFailed", "initFailed"}, Push(at, g), UNCHANGED waiting
      PROVE  AskedInv'
  <2>1. [at |-> at, of |-> g] \in Frames
    BY DEF Frames
  <2>2. \A h : LoopOf(h)' <=> LoopOf(h) \/ h = g
    BY <1>1, <1>3, <2>1, LoopsPush
  <2>3. QED
    BY <1>2, <1>3, <2>2 DEF AskedInv
<1>4. ASSUME waiting' = Update(waiting, g, <<>>), UNCHANGED stack
      PROVE  AskedInv'
  <2>1. \A h : LoopOf(h)' <=> LoopOf(h)
    BY <1>4 DEF LoopOf, Elements
  <2>2. waiting'[g] = <<>> /\ \A h \in Groups : h # g => waiting'[h] = waiting[h]
    BY <1>1, <1>4 DEF TypeOK, Update
  <2>3. QED
    BY <1>2, <2>1, <2>2 DEF AskedInv
<1>5. QED
  BY <1>3, <1>4 DEF Resolved, OnResolveFailure, OnResolve

LEMMA AskedRuns ==
  ASSUME IInv, AskedInv, Runs
  PROVE  AskedInv'
<1>1. TypeOK /\ WaitInv
  BY DEF IInv
<1>2. CASE FailWaiting
  <2> DEFINE g == Running.of
             t == Head(waiting[g])
  <2>1. /\ ~AtLoop /\ Running.at # "user" /\ waiting[g] # <<>>
        /\ waiting' = Update(waiting, g, Tail(waiting[g])) /\ Push("user", t)
        /\ UNCHANGED resolving
    BY <1>2 DEF FailWaiting
  <2>2. Running = stack[Len(stack)] /\ Len(stack) \in 1 .. Len(stack) /\ Running \in Frames
    BY <1>1, <2>1 DEF TypeOK, AtLoop, Running
  <2>3. g \in Groups
    BY <2>1, <2>2 DEF Frames
  <2>4. LoopOf(g)
    BY <2>1, <2>2, LoopOfIs
  <2>5. t \in Requests
    BY <1>1, <2>1, <2>3, ElementsAre DEF TypeOK
  <2>6. [at |-> "user", of |-> t] \in Frames
    BY <2>5 DEF Frames
  <2>7. \A h : LoopOf(h)' <=> LoopOf(h)
    BY <1>1, <2>1, <2>6, LoopsPush
  <2>8. \A h \in Groups : h # g => waiting'[h] = waiting[h]
    BY <1>1, <2>1 DEF TypeOK, Update
  <2>9. QED
    BY <2>1, <2>4, <2>7, <2>8 DEF AskedInv
<1>3. CASE FinishFailing
  <2>1. /\ ~AtLoop /\ stack' = Callers /\ waiting[Running.of] = <<>>
        /\ UNCHANGED <<resolving, waiting>>
    BY <1>3 DEF FinishFailing
  <2>2. \A g : LoopOf(g) => LoopOf(g)' \/ Running.of = g
    BY <1>1, <2>1, LoopsPop
  <2>3. QED
    BY <2>1, <2>2, AskedStays
<1>4. CASE UserReturns
  <2>1. /\ ~AtLoop /\ Running.at = "user" /\ stack' = Callers
        /\ UNCHANGED <<resolving, waiting>>
    BY <1>4 DEF UserReturns
  <2>2. \A g : LoopOf(g) => LoopOf(g)'
    BY <1>1, <2>1, LoopsPop
  <2>3. QED
    BY <2>1, <2>2, AskedStays
<1>5. QED
  BY <1>2, <1>3, <1>4 DEF Runs

LEMMA AskedStep == IInv /\ AskedInv /\ [Next]_vars => AskedInv'
<1>1. SUFFICES ASSUME IInv, AskedInv, [Next]_vars
               PROVE  AskedInv'
  OBVIOUS
<1>2. ASSUME UNCHANGED <<resolving, waiting, stack>>
      PROVE  AskedInv'
  <2>1. \A g : LoopOf(g)' <=> LoopOf(g)
    BY <1>2 DEF LoopOf, Elements
  <2>2. QED
    BY <1>1, <1>2, <2>1, AskedStays
<1>3. ASSUME NEW t \in Requests, Push("user", t), UNCHANGED <<resolving, waiting>>
      PROVE  AskedInv'
  <2>1. [at |-> "user", of |-> t] \in Frames /\ TypeOK
    BY <1>1 DEF Frames, IInv
  <2>2. \A g : LoopOf(g)' <=> LoopOf(g)
    BY <1>3, <2>1, LoopsPush
  <2>3. QED
    BY <1>1, <1>3, <2>2, AskedStays
<1>4. CASE UNCHANGED vars \/ OnShellDestroyed
  BY <1>2, <1>4 DEF vars, OnShellDestroyed
<1>5. CASE AsyncProcessFails
  <2>1. issued' \in Requests
    BY <1>1, <1>5, NewRequestCounts DEF AsyncProcessFails
  <2>2. QED
    BY <1>3, <1>5, <2>1 DEF AsyncProcessFails
<1>6. ASSUME NEW g \in Groups, AsyncProcessConnected(g)
      PROVE  AskedInv'
  BY <1>2, <1>6 DEF AsyncProcessConnected
<1>7. ASSUME NEW c \in Connections, OnConnect(c)
      PROVE  AskedInv'
  BY <1>2, <1>7 DEF OnConnect
<1>8. ASSUME NEW c \in Connections, ConnectionAnswers(c)
      PROVE  AskedInv'
  <2>1. PICK t \in live[c] : Push("user", t) /\ UNCHANGED <<resolving, waiting>>
    BY <1>8 DEF ConnectionAnswers
  <2>2. t \in Requests
    BY <1>1 DEF IInv, TypeOK
  <2>3. QED
    BY <1>3, <2>1, <2>2
<1>9. ASSUME NEW g \in Groups, NEW c \in Connections,
             OnConnectionClosing(g, c) \/ OnConnectionClose(g, c)
      PROVE  AskedInv'
  BY <1>2, <1>9 DEF OnConnectionClosing, OnConnectionClose
<1>10. QED
  BY <1>1, <1>4, <1>5, <1>6, <1>7, <1>8, <1>9, AskedWaits, AskedResolved, AskedRuns DEF Next

-----------------------------------------------------------------------------
(* Users who wait for their answers: on_response issues no request while a *)
(* group still fails what waited, which is when the code is at fault       *)
(* (ClosedWhileConnecting).                                                *)

\* A group resolves exactly for those that wait, and not while it fails them.
ServedInv ==
  \A g \in Groups :
    /\ resolving[g] <= 1
    /\ waiting[g] # <<>> => resolving[g] > 0 \/ LoopOf(g)
    /\ resolving[g] > 0 => waiting[g] # <<>> /\ ~LoopOf(g)

\* A transaction is one connection's.
LiveInv ==
  \A c, d \in Connections : \A t \in live[c] : t \in live[d] => c = d

\* A connection that is being made has what it was made for.
ConnectingInv ==
  \A c \in Connections : connecting[c] =>
    /\ phase[c] = "up" /\ live[c] # {}
    /\ \A t \in live[c] : t \notin InCallback

PatientInv == IInv /\ ServedInv /\ LiveInv /\ ConnectingInv

\* What the steps leave alone.
LEMMA ServedStays ==
  ASSUME ServedInv, UNCHANGED <<resolving, waiting>>,
         \A g \in Groups : LoopOf(g)' <=> LoopOf(g)
  PROVE  ServedInv'
BY DEF ServedInv

LEMMA LiveStays ==
  ASSUME LiveInv, \A c \in Connections : live'[c] \subseteq live[c]
  PROVE  LiveInv'
BY DEF LiveInv

LEMMA ConnectingStays ==
  ASSUME ConnectingInv,
         \A c \in Connections : connecting'[c] =>
           /\ connecting[c] /\ phase'[c] = phase[c] /\ live'[c] = live[c]
           /\ \A t \in live[c] : t \notin InCallback'
  PROVE  ConnectingInv'
BY DEF ConnectingInv

\* No connection is being made when there is no transaction.
LEMMA NoneConnecting ==
  ASSUME ConnectingInv, Transactions = {}
  PROVE  \A c \in Connections : ~connecting[c]
<1>1. \A c \in Connections : live[c] = {}
  BY TransactionsAre
<1>2. QED
  BY <1>1 DEF ConnectingInv

LEMMA PatientAsyncProcessFails ==
  ASSUME PatientInv, AsyncProcessFails
  PROVE  ServedInv' /\ LiveInv' /\ ConnectingInv'
<1> DEFINE r == issued'
<1>1. /\ NewRequest /\ Push("user", r)
      /\ UNCHANGED <<waiting, resolving, phase, connecting, live>>
  BY DEF AsyncProcessFails, connVars
<1>2. r \in Requests /\ r \notin Transactions
  BY <1>1, NewRequestCounts DEF PatientInv
<1>3. [at |-> "user", of |-> r] \in Frames /\ TypeOK
  BY <1>2 DEF Frames, PatientInv, IInv
<1>4. InCallback' = InCallback \cup {r} /\ \A g : LoopOf(g)' <=> LoopOf(g)
  BY <1>1, <1>3, PushCounts, LoopsPush
<1>5. ServedInv' /\ LiveInv'
  BY <1>1, <1>4, ServedStays, LiveStays DEF PatientInv
<1>6. \A c \in Connections : r \notin live[c]
  BY <1>2, TransactionsAre
<1>7. ConnectingInv'
  BY <1>1, <1>4, <1>6 DEF PatientInv, ConnectingInv
<1>8. QED
  BY <1>5, <1>7

LEMMA PatientAsyncProcessConnected ==
  ASSUME PatientInv, NEW g \in Groups, AsyncProcessConnected(g)
  PROVE  ServedInv' /\ LiveInv' /\ ConnectingInv'
<1> DEFINE r == issued'
           c == Head(openConnections[g])
<1>1. /\ NewRequest
      /\ live' = Update(live, c, live[c] \cup {r})
      /\ UNCHANGED <<waiting, resolving, phase, connecting, stack>>
  BY DEF AsyncProcessConnected
<1>2. r \notin Transactions
  BY <1>1, NewRequestCounts DEF PatientInv
<1>3. r \notin InCallback /\ \A d \in Connections : r \notin live[d]
  BY <1>2, TransactionsAre
<1>4. \A d \in Connections : live'[d] = IF d = c THEN live[d] \cup {r} ELSE live[d]
  BY <1>1 DEF PatientInv, IInv, TypeOK, Update
<1>5. InCallback' = InCallback /\ \A h : LoopOf(h)' <=> LoopOf(h)
  BY <1>1 DEF InCallback, Elements, LoopOf
<1>6. ServedInv'
  BY <1>1, <1>5, ServedStays DEF PatientInv
<1>7. LiveInv'
  BY <1>3, <1>4 DEF PatientInv, LiveInv
<1>8. ConnectingInv'
  BY <1>1, <1>3, <1>4, <1>5 DEF PatientInv, ConnectingInv
<1>9. QED
  BY <1>6, <1>7, <1>8

LEMMA PatientAsyncProcessWaits ==
  ASSUME ~retries, PatientInv, NEW g \in Groups, AsyncProcessWaits(g)
  PROVE  ServedInv' /\ LiveInv' /\ ConnectingInv'
<1> DEFINE r == issued'
<1>1. /\ NewRequest /\ waiting' = Update(waiting, g, Append(waiting[g], r))
      /\ UNCHANGED <<phase, connecting, live>> /\ TypeOK
  BY DEF AsyncProcessWaits, connVars, PatientInv, IInv
<1>2. \A h : ~LoopOf(h)
  <2>1. \A f \in Elements(stack) : f.at = "user"
    BY <1>1 DEF NewRequest
  <2>2. QED
    BY <2>1, NoLoops
<1>3. /\ waiting'[g] # <<>>
      /\ \A h \in Groups : h # g => waiting'[h] = waiting[h]
  <2>1. waiting[g] \in Seq(Requests) /\ r \in Requests
    BY <1>1, NewRequestCounts DEF TypeOK, PatientInv
  <2>2. Append(waiting[g], r) # <<>>
    BY <2>1, AppendProperties
  <2>3. QED
    BY <1>1, <2>2 DEF TypeOK, Update
<1>4. /\ ServedInv' /\ InCallback' = InCallback
  <2>1. CASE waiting[g] # <<>> /\ UNCHANGED <<resolveCount, resolving, stack>>
    <3>1. InCallback' = InCallback /\ \A h : LoopOf(h)' <=> LoopOf(h)
      BY <2>1 DEF InCallback, Elements, LoopOf
    <3>2. ServedInv'
      BY <1>2, <1>3, <2>1, <3>1 DEF PatientInv, ServedInv
    <3>3. QED
      BY <3>1, <3>2
  <2>2. CASE /\ waiting[g] = <<>> /\ UNCHANGED stack
             /\ resolving' = Update(resolving, g, resolving[g] + 1)
    <3>1. InCallback' = InCallback /\ \A h : LoopOf(h)' <=> LoopOf(h)
      BY <2>2 DEF InCallback, Elements, LoopOf
    <3>2. resolving[g] = 0
      BY <1>1, <2>2 DEF PatientInv, ServedInv, TypeOK
    <3>3. resolving'[g] = 1 /\ \A h \in Groups : h # g => resolving'[h] = resolving[h]
      BY <1>1, <2>2, <3>2 DEF TypeOK, Update
    <3>4. ASSUME NEW h \in Groups
          PROVE  /\ resolving'[h] <= 1
                 /\ waiting'[h] # <<>> => resolving'[h] > 0
                 /\ resolving'[h] > 0 => waiting'[h] # <<>>
      BY <1>2, <1>3, <3>3 DEF PatientInv, ServedInv
    <3>5. ServedInv'
      BY <1>2, <3>1, <3>4 DEF ServedInv
    <3>6. QED
      BY <3>1, <3>5
  <2>3. CASE /\ waiting[g] = <<>> /\ UNCHANGED resolving
             /\ Push("resolveFailed", g)
    <3>1. [at |-> "resolveFailed", of |-> g] \in Frames
      BY DEF Frames
    <3>2. InCallback' = InCallback /\ \A h : LoopOf(h)' <=> h = g
      BY <1>1, <1>2, <2>3, <3>1, PushCounts, LoopsPush
    <3>3. ~(resolving[g] > 0)
      BY <2>3 DEF PatientInv, ServedInv
    <3>4. ServedInv'
      BY <1>2, <1>3, <2>3, <3>2, <3>3 DEF PatientInv, ServedInv
    <3>5. QED
      BY <3>2, <3>4
  <2>4. QED
    BY <2>1, <2>2, <2>3 DEF AsyncProcessWaits
<1>5. LiveInv' /\ ConnectingInv'
  BY <1>1, <1>4 DEF PatientInv, LiveInv, ConnectingInv
<1>6. QED
  BY <1>4, <1>5

LEMMA PatientOnResolveFailure ==
  ASSUME PatientInv, NEW g \in Groups, OnResolveFailure(g)
  PROVE  ServedInv' /\ LiveInv' /\ ConnectingInv'
<1>1. /\ AtLoop /\ resolving[g] > 0 /\ resolving' = Update(resolving, g, resolving[g] - 1)
      /\ Push("resolveFailed", g)
      /\ UNCHANGED <<waiting, phase, connecting, live>> /\ TypeOK
  BY DEF OnResolveFailure, connVars, PatientInv, IInv
<1>2. [at |-> "resolveFailed", of |-> g] \in Frames
  BY DEF Frames
<1>3. \A h : ~LoopOf(h)
  BY <1>1, NoLoops
<1>4. InCallback' = InCallback /\ \A h : LoopOf(h)' <=> h = g
  BY <1>1, <1>2, <1>3, PushCounts, LoopsPush
<1>5. resolving'[g] = 0 /\ \A h \in Groups : h # g => resolving'[h] = resolving[h]
  <2>1. resolving[g] = 1
    BY <1>1 DEF PatientInv, ServedInv, TypeOK
  <2>2. QED
    BY <1>1, <2>1 DEF TypeOK, Update
<1>6. ServedInv'
  BY <1>1, <1>3, <1>4, <1>5 DEF PatientInv, ServedInv
<1>7. LiveInv' /\ ConnectingInv'
  BY <1>1, <1>4 DEF PatientInv, LiveInv, ConnectingInv
<1>8. QED
  BY <1>6, <1>7

LEMMA PatientOnResolve ==
  ASSUME PatientInv, NEW g \in Groups, NEW c \in Connections, OnResolve(g, c)
  PROVE  ServedInv' /\ LiveInv' /\ ConnectingInv'
<1>1. /\ AtLoop /\ resolving[g] > 0 /\ resolving' = Update(resolving, g, resolving[g] - 1)
      /\ phase[c] = "new" /\ TypeOK /\ WaitInv /\ ConnInv
      /\ ServedInv /\ LiveInv /\ ConnectingInv
  BY DEF OnResolve, PatientInv, IInv
<1>2. resolving'[g] = 0 /\ \A h \in Groups : h # g => resolving'[h] = resolving[h]
  <2>1. resolving[g] = 1
    BY <1>1 DEF ServedInv, TypeOK
  <2>2. QED
    BY <1>1, <2>1 DEF TypeOK, Update
<1>3. \A h : ~LoopOf(h)
  BY <1>1, NoLoops
<1>4. waiting[g] # <<>>
  BY <1>1 DEF ServedInv
<1>5. CASE /\ phase' = Update(phase, c, "gone") /\ UNCHANGED <<connecting, live>>
           /\ Push("initFailed", g) /\ UNCHANGED <<waiting, openConnections>>
  <2>1. [at |-> "initFailed", of |-> g] \in Frames
    BY DEF Frames
  <2>2. InCallback' = InCallback /\ \A h : LoopOf(h)' <=> h = g
    BY <1>1, <1>3, <1>5, <2>1, PushCounts, LoopsPush
  <2>3. ServedInv'
    BY <1>1, <1>2, <1>3, <1>5, <2>2 DEF ServedInv
  <2>4. LiveInv'
    BY <1>1, <1>5, LiveStays
  <2>5. ConnectingInv'
    <3>1. \A d \in Connections : connecting[d] => phase'[d] = phase[d]
      BY <1>1, <1>5 DEF ConnectingInv, TypeOK, Update
    <3>2. QED
      BY <1>1, <1>5, <2>2, <3>1 DEF ConnectingInv
  <2>6. QED
    BY <2>3, <2>4, <2>5
<1>6. CASE /\ phase' = Update(phase, c, "up") /\ live' = Update(live, c, Elements(waiting[g]))
           /\ \E b \in BOOLEAN : connecting' = Update(connecting, c, b)
           /\ waiting' = Update(waiting, g, <<>>)
           /\ UNCHANGED stack
  <2>1. PICK b \in BOOLEAN : connecting' = Update(connecting, c, b)
    BY <1>6
  <2>2. /\ phase'[c] = "up" /\ live'[c] = Elements(waiting[g])
        /\ \A d \in Connections : d # c =>
             phase'[d] = phase[d] /\ live'[d] = live[d] /\ connecting'[d] = connecting[d]
        /\ waiting'[g] = <<>> /\ \A h \in Groups : h # g => waiting'[h] = waiting[h]
    BY <1>1, <1>6, <2>1 DEF TypeOK, Update
  <2>3. InCallback' = InCallback /\ \A h : LoopOf(h)' <=> LoopOf(h)
    BY <1>6 DEF InCallback, Elements, LoopOf
  <2>4. ServedInv'
    BY <1>1, <1>2, <1>3, <2>2, <2>3 DEF ServedInv
  <2>5. \A t \in Elements(waiting[g]) : t \notin InCallback /\ \A d \in Connections : t \notin live[d]
    BY <1>1 DEF WaitInv, ApartInv
  <2>6. LiveInv'
    BY <1>1, <2>2, <2>5 DEF LiveInv
  <2>7. Elements(waiting[g]) # {}
    BY <1>1, <1>4, ElementsAre DEF TypeOK
  <2>8. ConnectingInv'
    BY <1>1, <2>2, <2>3, <2>5, <2>7 DEF ConnectingInv
  <2>9. QED
    BY <2>4, <2>6, <2>8
<1>7. QED
  BY <1>5, <1>6 DEF OnResolve

LEMMA PatientFailWaiting ==
  ASSUME PatientInv, FailWaiting
  PROVE  ServedInv' /\ LiveInv' /\ ConnectingInv'
<1> DEFINE g == Running.of
           t == Head(waiting[g])
<1>1. /\ ~AtLoop /\ Running.at # "user" /\ waiting[g] # <<>>
      /\ waiting' = Update(waiting, g, Tail(waiting[g])) /\ Push("user", t)
      /\ UNCHANGED <<resolving, phase, connecting, live>> /\ TypeOK /\ WaitInv
  BY DEF FailWaiting, connVars, PatientInv, IInv
<1>2. Running = stack[Len(stack)] /\ Len(stack) \in 1 .. Len(stack) /\ Running \in Frames
  <2>1. stack \in Seq(Frames) /\ Len(stack) \in 1 .. Len(stack)
    BY <1>1 DEF TypeOK, AtLoop
  <2>2. QED
    BY <2>1 DEF Running
<1>3. g \in Groups /\ LoopOf(g)
  <2>1. g \in Groups
    BY <1>1, <1>2 DEF Frames
  <2>2. LoopOf(g)
    BY <1>1, <1>2, LoopOfIs
  <2>3. QED
    BY <2>1, <2>2
<1>4. t \in Requests /\ t \in Elements(waiting[g])
  BY <1>1, <1>3, ElementsAre DEF TypeOK
<1>5. [at |-> "user", of |-> t] \in Frames
  BY <1>4 DEF Frames
<1>6. InCallback' = InCallback \cup {t} /\ \A h : LoopOf(h)' <=> LoopOf(h)
  BY <1>1, <1>5, PushCounts, LoopsPush
<1>7. \A h \in Groups : h # g => waiting'[h] = waiting[h]
  BY <1>1 DEF TypeOK, Update
<1>8. ServedInv'
  BY <1>1, <1>3, <1>6, <1>7 DEF PatientInv, ServedInv
<1>9. \A c \in Connections : t \notin live[c]
  BY <1>1, <1>3, <1>4 DEF WaitInv, ApartInv
<1>10. LiveInv'
  BY <1>1, LiveStays DEF PatientInv
<1>11. ConnectingInv'
  BY <1>1, <1>6, <1>9 DEF PatientInv, ConnectingInv
<1>12. QED
  BY <1>8, <1>10, <1>11

LEMMA PatientFinishFailing ==
  ASSUME PatientInv, FinishFailing
  PROVE  ServedInv' /\ LiveInv' /\ ConnectingInv'
<1>1. /\ ~AtLoop /\ Running.at # "user" /\ stack' = Callers /\ waiting[Running.of] = <<>>
      /\ UNCHANGED <<resolving, waiting, phase, connecting, live>> /\ TypeOK /\ WaitInv
  BY DEF FinishFailing, connVars, PatientInv, IInv
<1>2. InCallback' = InCallback
  BY <1>1, PopCounts
<1>3. \A g : /\ LoopOf(g)' => LoopOf(g)
             /\ LoopOf(g) => LoopOf(g)' \/ Running.of = g
  BY <1>1, LoopsPop
<1>4. ServedInv'
  BY <1>1, <1>3 DEF PatientInv, ServedInv
<1>5. LiveInv' /\ ConnectingInv'
  BY <1>1, <1>2 DEF PatientInv, LiveInv, ConnectingInv
<1>6. QED
  BY <1>4, <1>5

LEMMA PatientUserReturns ==
  ASSUME PatientInv, UserReturns
  PROVE  ServedInv' /\ LiveInv' /\ ConnectingInv'
<1> DEFINE t == Running.of
           ended == [c \in Connections |-> live[c] \ {t}]
<1>1. /\ ~AtLoop /\ Running.at = "user" /\ stack' = Callers
      /\ transactionCount' = transactionCount - 1
      /\ UNCHANGED <<waiting, resolving, connecting>> /\ live' = ended
      /\ transactionCount' = 0 \/ UNCHANGED phase
      /\ TypeOK /\ WaitInv
  BY DEF UserReturns, CloseGroups, PatientInv, IInv
<1>2. t \in InCallback /\ InCallback' = InCallback \ {t}
  BY <1>1, PopCounts
<1>3. \A g : LoopOf(g)' <=> LoopOf(g)
  BY <1>1, LoopsPop
<1>4. ServedInv'
  BY <1>1, <1>3, ServedStays DEF PatientInv
<1>5. \A c \in Connections : live'[c] = live[c] \ {t}
  BY <1>1
<1>6. LiveInv'
  BY <1>5, LiveStays DEF PatientInv
\* What is left of a connection that is being made is left when t ends.
<1>7. ASSUME NEW c \in Connections, connecting[c]
      PROVE  phase'[c] = phase[c] /\ live'[c] = live[c]
  <2>1. live[c] # {} /\ t \notin live[c]
    BY <1>2, <1>7 DEF PatientInv, ConnectingInv
  <2>2. live'[c] = live[c]
    BY <1>5, <2>1
  <2>3. transactionCount' # 0
    <3>1. PICK x \in live[c] : x # t
      BY <2>1
    <3>2. x \in Transactions \ {t} /\ t \in Transactions
      BY <1>2, <3>1, TransactionsAre
    <3>3. Cardinality(Transactions \ {t}) = Cardinality(Transactions) - 1
      BY <1>1, <3>2, Finite, OneLess
    <3>4. IsFiniteSet(Transactions \ {t})
      BY <1>1, Finite, FS_Subset
    <3>5. Cardinality(Transactions \ {t}) # 0
      BY <3>2, <3>4, FS_EmptySet
    <3>6. QED
      BY <1>1, <3>3, <3>5, Numbers DEF PatientInv, IInv, TransactionsCounted
  <2>4. QED
    BY <1>1, <2>2, <2>3
<1>8. ConnectingInv'
  BY <1>1, <1>2, <1>7 DEF PatientInv, ConnectingInv
<1>9. QED
  BY <1>4, <1>6, <1>8

LEMMA PatientOnShellDestroyed ==
  ASSUME PatientInv, OnShellDestroyed
  PROVE  ServedInv' /\ LiveInv' /\ ConnectingInv'
<1>1. /\ UNCHANGED <<waiting, resolving, stack, connecting, live>>
      /\ transactionCount = 0 \/ UNCHANGED phase
      /\ TypeOK
  BY DEF OnShellDestroyed, CloseGroups, PatientInv, IInv
<1>2. InCallback' = InCallback /\ \A g : LoopOf(g)' <=> LoopOf(g)
  BY <1>1 DEF InCallback, Elements, LoopOf
<1>3. ServedInv' /\ LiveInv'
  BY <1>1, <1>2, ServedStays, LiveStays DEF PatientInv
<1>4. transactionCount = 0 => \A c \in Connections : ~connecting[c]
  <2>1. IsFiniteSet(Transactions)
    BY Finite DEF PatientInv, IInv
  <2>2. transactionCount = 0 => Transactions = {}
    BY <2>1, FS_EmptySet DEF PatientInv, IInv, TransactionsCounted
  <2>3. QED
    BY <2>2, NoneConnecting DEF PatientInv
<1>5. ConnectingInv'
  BY <1>1, <1>2, <1>4 DEF PatientInv, ConnectingInv
<1>6. QED
  BY <1>3, <1>5

LEMMA PatientOnConnect ==
  ASSUME PatientInv, NEW c \in Connections, OnConnect(c)
  PROVE  ServedInv' /\ LiveInv' /\ ConnectingInv'
<1>1. /\ connecting' = Update(connecting, c, FALSE)
      /\ UNCHANGED <<waiting, resolving, stack, phase, live>> /\ TypeOK
  BY DEF OnConnect, PatientInv, IInv
<1>2. InCallback' = InCallback /\ \A g : LoopOf(g)' <=> LoopOf(g)
  BY <1>1 DEF InCallback, Elements, LoopOf
<1>3. ServedInv' /\ LiveInv'
  BY <1>1, <1>2, ServedStays, LiveStays DEF PatientInv
<1>4. \A d \in Connections : connecting'[d] => connecting[d]
  BY <1>1 DEF TypeOK, Update
<1>5. ConnectingInv'
  BY <1>1, <1>2, <1>4 DEF PatientInv, ConnectingInv
<1>6. QED
  BY <1>3, <1>5

LEMMA PatientConnectionAnswers ==
  ASSUME PatientInv, NEW c \in Connections, ConnectionAnswers(c)
  PROVE  ServedInv' /\ LiveInv' /\ ConnectingInv'
<1>1. PICK t \in live[c] : /\ ~connecting[c] /\ Push("user", t)
                           /\ UNCHANGED <<waiting, resolving, phase, connecting, live>>
  BY DEF ConnectionAnswers, Contract!MayEnd, connVars
<1>2. t \in Requests /\ [at |-> "user", of |-> t] \in Frames /\ TypeOK
  BY <1>1 DEF PatientInv, IInv, TypeOK, Frames
<1>3. InCallback' = InCallback \cup {t} /\ \A g : LoopOf(g)' <=> LoopOf(g)
  BY <1>1, <1>2, PushCounts, LoopsPush
<1>4. ServedInv' /\ LiveInv'
  BY <1>1, <1>3, ServedStays, LiveStays DEF PatientInv
<1>5. \A d \in Connections : connecting[d] => t \notin live[d]
  BY <1>1 DEF PatientInv, LiveInv
<1>6. ConnectingInv'
  BY <1>1, <1>3, <1>5 DEF PatientInv, ConnectingInv
<1>7. QED
  BY <1>4, <1>6

\* A connection's closing and its close come when it is not being made.
LEMMA PatientCloses ==
  ASSUME PatientInv, NEW c \in Connections, ~connecting[c], NEW to,
         phase' = Update(phase, c, to),
         UNCHANGED <<waiting, resolving, stack, connecting, live>>
  PROVE  ServedInv' /\ LiveInv' /\ ConnectingInv'
<1>1. InCallback' = InCallback /\ \A g : LoopOf(g)' <=> LoopOf(g)
  BY DEF InCallback, Elements, LoopOf
<1>2. ServedInv' /\ LiveInv'
  BY <1>1, ServedStays, LiveStays DEF PatientInv
<1>3. \A d \in Connections : d # c => phase'[d] = phase[d]
  BY DEF PatientInv, IInv, TypeOK, Update
<1>4. ConnectingInv'
  BY <1>1, <1>3 DEF PatientInv, ConnectingInv
<1>5. QED
  BY <1>2, <1>4

LEMMA PatientStep ==
  ASSUME ~retries
  PROVE  PatientInv /\ [Next]_vars => PatientInv'
<1>1. SUFFICES ASSUME PatientInv, [Next]_vars
               PROVE  ServedInv' /\ LiveInv' /\ ConnectingInv'
  BY StepInvariant DEF PatientInv
<1>2. CASE UNCHANGED vars
  <2>1. /\ UNCHANGED <<waiting, resolving, stack, connecting, live, phase>>
    BY <1>2 DEF vars, connVars
  <2>2. InCallback' = InCallback /\ \A g : LoopOf(g)' <=> LoopOf(g)
    BY <2>1 DEF InCallback, Elements, LoopOf
  <2>3. ServedInv' /\ LiveInv'
    BY <1>1, <2>1, <2>2, ServedStays, LiveStays DEF PatientInv
  <2>4. ConnectingInv'
    BY <1>1, <2>1, <2>2 DEF PatientInv, ConnectingInv
  <2>5. QED
    BY <2>3, <2>4
<1>3. CASE OnShellDestroyed
  BY <1>1, <1>3, PatientOnShellDestroyed
<1>4. CASE AsyncProcessFails
  BY <1>1, <1>4, PatientAsyncProcessFails
<1>5. ASSUME NEW g \in Groups, AsyncProcessConnected(g)
      PROVE  ServedInv' /\ LiveInv' /\ ConnectingInv'
  BY <1>1, <1>5, PatientAsyncProcessConnected
<1>6. ASSUME NEW g \in Groups, AsyncProcessWaits(g)
      PROVE  ServedInv' /\ LiveInv' /\ ConnectingInv'
  BY <1>1, <1>6, PatientAsyncProcessWaits
<1>7. ASSUME NEW g \in Groups, OnResolveFailure(g)
      PROVE  ServedInv' /\ LiveInv' /\ ConnectingInv'
  BY <1>1, <1>7, PatientOnResolveFailure
<1>8. ASSUME NEW g \in Groups, NEW c \in Connections, OnResolve(g, c)
      PROVE  ServedInv' /\ LiveInv' /\ ConnectingInv'
  BY <1>1, <1>8, PatientOnResolve
<1>9. CASE FailWaiting
  BY <1>1, <1>9, PatientFailWaiting
<1>10. CASE FinishFailing
  BY <1>1, <1>10, PatientFinishFailing
<1>11. CASE UserReturns
  BY <1>1, <1>11, PatientUserReturns
<1>12. ASSUME NEW c \in Connections, OnConnect(c)
       PROVE  ServedInv' /\ LiveInv' /\ ConnectingInv'
  BY <1>1, <1>12, PatientOnConnect
<1>13. ASSUME NEW c \in Connections, ConnectionAnswers(c)
       PROVE  ServedInv' /\ LiveInv' /\ ConnectingInv'
  BY <1>1, <1>13, PatientConnectionAnswers
<1>14. ASSUME NEW g \in Groups, NEW c \in Connections, OnConnectionClosing(g, c)
       PROVE  ServedInv' /\ LiveInv' /\ ConnectingInv'
  <2>1. /\ ~connecting[c] /\ phase' = Update(phase, c, "closing")
        /\ UNCHANGED <<waiting, resolving, stack, connecting, live>>
    BY <1>14 DEF OnConnectionClosing, Contract!StartClosing
  <2>2. QED
    BY <1>1, <2>1, PatientCloses
<1>15. ASSUME NEW g \in Groups, NEW c \in Connections, OnConnectionClose(g, c)
       PROVE  ServedInv' /\ LiveInv' /\ ConnectingInv'
  <2>1. /\ c \in closingConnections[g] /\ phase' = Update(phase, c, "gone")
        /\ UNCHANGED <<waiting, resolving, stack, connecting, live>>
    BY <1>15 DEF OnConnectionClose
  <2>2. ~connecting[c]
    BY <1>1, <2>1 DEF PatientInv, IInv, ConnInv, ClosingInv, ConnectingInv
  <2>3. QED
    BY <1>1, <2>1, <2>2, PatientCloses
<1>16. QED
  BY <1>1, <1>2, <1>3, <1>4, <1>5, <1>6, <1>7, <1>8, <1>9, <1>10, <1>11, <1>12, <1>13, <1>14,
     <1>15 DEF Next, Resolved, Runs

LEMMA PatientInit == Init => PatientInv
<1>1. SUFFICES ASSUME Init
               PROVE  ServedInv /\ LiveInv /\ ConnectingInv
  BY InitInvariant DEF PatientInv
<1>2. /\ \A g \in Groups : waiting[g] = <<>> /\ resolving[g] = 0
      /\ \A c \in Connections : live[c] = {} /\ connecting[c] = FALSE
  BY <1>1 DEF Init
<1>3. QED
  BY <1>2 DEF ServedInv, LiveInv, ConnectingInv

\* The user does not change, and PatientInv is for users that do not retry.
Kept == IInv /\ AskedInv /\ (~retries => PatientInv)

LEMMA KeptAlways == Spec => []Kept
<1>1. Init => Kept
  <2>1. Init => AskedInv
    BY DEF Init, AskedInv
  <2>2. QED
    BY <2>1, InitInvariant, PatientInit DEF Kept
<1>2. Kept /\ [Next]_vars => Kept'
  <2>1. [Next]_vars => retries' = retries
    BY DEF Next, vars, userVars, OnShellDestroyed, AsyncProcessFails, AsyncProcessConnected,
           AsyncProcessWaits, NewRequest, Resolved, OnResolveFailure, OnResolve, Runs,
           FailWaiting, FinishFailing, UserReturns, OnConnect, ConnectionAnswers,
           OnConnectionClosing, OnConnectionClose
  <2>2. QED
    BY <2>1, StepInvariant, AskedStep, PatientStep DEF Kept
<1>3. QED
  BY <1>1, <1>2, PTL DEF Spec

\* Whatever the user does, no transaction waits for an address that nobody asks for; and
\* a group's resolve_req_ is in use once at most as long as the user does not retry while
\* the group still fails what waited.
THEOREM WaitersAreAlwaysServed == Spec => []WaitersAreServed
<1>1. Kept => WaitersAreServed
  BY DEF Kept, AskedInv, PatientInv, ServedInv, WaitersAreServed, LoopOf
<1>2. QED
  BY <1>1, KeptAlways, PTL

\* No connection is closed while uv still owes its OnConnect, if the user does not retry
\* there.
THEOREM PatientAlwaysConnects == Spec => []PatientConnects
<1>1. Kept => PatientConnects
  BY DEF Kept, PatientInv, ConnectingInv, ConnectFindsCallbacks, PatientConnects
<1>2. QED
  BY <1>1, KeptAlways, PTL
=============================================================================
