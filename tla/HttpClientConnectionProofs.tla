---------------------- MODULE HttpClientConnectionProofs ----------------------
(***************************************************************************)
(* The safety of HttpClientConnection for any number of requests, however  *)
(* the callbacks of its transactions nest.  The inductive invariant says   *)
(* where each transaction is, which functions may wait on the stack for    *)
(* which, what the flags exclude, and that the queues of transactions hold *)
(* the requests of the wire in order.                                      *)
(***************************************************************************)
EXTENDS HttpClientConnection, FiniteSetTheorems, SequenceTheorems, TLAPS

-----------------------------------------------------------------------------
(* The inductive invariant.                                                *)

\* No element is in q twice.
Once(q) == \A i, k \in 1 .. Len(q) : q[i] = q[k] => i = k

Queued == Elements(waitQueue) \cup Elements(writeQueue) \cup Elements(readQueue)

\* A transaction without a result is in one place of one queue, the others in none.
PlacedInv ==
  /\ Once(waitQueue) /\ Once(writeQueue) /\ Once(readQueue)
  /\ \A t \in Requests :
       /\ t \in Elements(waitQueue) => t \notin Elements(writeQueue)
       /\ t \in Elements(waitQueue) => t \notin Elements(readQueue)
       /\ t \in Elements(writeQueue) => t \notin Elements(readQueue)
       /\ t \in Queued <=> t <= issued /\ result[t] = NoResult
       /\ t > issued => result[t] = NoResult

\* Function f is on the stack s, or at its bottom.
Has(s, f)    == \E i \in 1 .. Len(s) : s[i].at = f
Bottom(s, f) == s # <<>> /\ s[1].at = f

\* The loops that uv's callbacks run are called by no other function; Close and a
\* transaction's on_response run once at a time.
WellNested(s) ==
  /\ \A i \in 1 .. Len(s) : s[i].at \in {"read", "drain", "writeLate"} => i = 1
  /\ \A i, k \in 1 .. Len(s) : s[i].at = "close" /\ s[k].at = "close" => i = k
  /\ \A i, k \in 1 .. Len(s) : s[i].of # 0 /\ s[i].of = s[k].of => i = k

StackInv ==
  /\ WellNested(stack)
  /\ Has(stack, "close") => closing
  /\ Has(stack, "writeLate") => closing /\ ~Has(stack, "close")
  /\ \A t \in InCallback(stack) : result[t] # NoResult

\* Nothing has happened to a connection before InitAsync.
Untouched ==
  /\ stack = <<>> /\ ~connecting /\ ~uvClosing /\ ~onClosing /\ ~reading
  /\ waitQueue = <<>> /\ writeQueue = <<>> /\ readQueue = <<>>
  /\ parserQueue = <<>> /\ unanswered = <<>> /\ issued = 0

\* The flags: before, between and after InitAsync, Close and uv's callbacks.
PhaseInv ==
  /\ ~closing /\ ~onClose => Untouched
  /\ ~closing /\ onClose => open /\ onClosing /\ ~uvClosing
  /\ Has(stack, "close") => open /\ onClosing /\ onClose /\ ~uvClosing
  /\ closing /\ ~Has(stack, "close") =>
       ~onClosing /\ ~reading /\ readQueue = <<>> /\ waitQueue = <<>>
  /\ uvClosing => open
  /\ buffer => closing
  /\ connecting => /\ ~closing /\ onClose /\ ~reading
                   /\ stack = <<>> /\ waitQueue # <<>> /\ writeQueue = <<>>
  /\ deleted => ~open /\ ~onClose /\ stack = <<>> /\ writeQueue = <<>>

\* Until the connection closes, or is about to because a write failed, the written
\* transactions are those whose requests are on the wire or answered, in order.
OrderInv ==
  ~closing /\ ~Bottom(stack, "writeFailed") =>
    parserQueue \o unanswered = readQueue \o writeQueue

IInv ==
  /\ TypeOK /\ PlacedInv /\ StackInv /\ PhaseInv /\ OrderInv /\ OwnResponse

-----------------------------------------------------------------------------
(* Queues.                                                                 *)

\* What is in a sequence.
LEMMA ElementsAre ==
  ASSUME NEW S, NEW q \in Seq(S)
  PROVE  /\ \A x : x \in Elements(q) <=> \E i \in 1 .. Len(q) : q[i] = x
         /\ Elements(q) \in SUBSET S
         /\ q = <<>> <=> Elements(q) = {}
<1>1. \A x : x \in Elements(q) <=> \E i \in 1 .. Len(q) : q[i] = x
  BY DEF Elements
<1>2. Elements(q) \in SUBSET S
  BY <1>1
<1>3. q = <<>> <=> Elements(q) = {}
  BY <1>1
<1>4. QED
  BY <1>1, <1>2, <1>3

LEMMA EmptyElements == Elements(<<>>) = {} /\ Once(<<>>)
BY DEF Elements, Once

\* The first element of a queue leaves it.
LEMMA TailOnce ==
  ASSUME NEW S, NEW q \in Seq(S), q # <<>>
  PROVE  /\ Tail(q) \in Seq(S) /\ Head(q) \in S /\ Head(q) \in Elements(q)
         /\ Once(q) => /\ Once(Tail(q)) /\ Head(q) \notin Elements(Tail(q))
                       /\ \A x : x \in Elements(Tail(q)) <=> x \in Elements(q) /\ x # Head(q)
<1> DEFINE n == Len(q)
<1>1. /\ n \in Nat \ {0} /\ Head(q) = q[1] /\ Head(q) \in S
      /\ Tail(q) \in Seq(S) /\ Len(Tail(q)) = n - 1
      /\ \A i \in 1 .. n - 1 : Tail(q)[i] = q[i + 1]
  BY HeadTailProperties, EmptySeq
<1>2. Head(q) \in Elements(q)
  BY <1>1, ElementsAre
<1>3. ASSUME Once(q)
      PROVE  Once(Tail(q))
  BY <1>1, <1>3 DEF Once
<1>4. ASSUME Once(q), NEW x, x \in Elements(Tail(q))
      PROVE  x \in Elements(q) /\ x # Head(q)
  <2>1. PICK i \in 1 .. n - 1 : Tail(q)[i] = x
    BY <1>1, <1>4, ElementsAre
  <2>2. i + 1 \in 1 .. n /\ q[i + 1] = x /\ 1 \in 1 .. n /\ i + 1 # 1
    BY <1>1, <2>1
  <2>3. QED
    BY <1>1, <1>4, <2>2, ElementsAre DEF Once
<1>5. ASSUME NEW x \in Elements(q), x # Head(q)
      PROVE  x \in Elements(Tail(q))
  <2>1. PICK i \in 1 .. n : q[i] = x
    BY ElementsAre
  <2>2. i # 1
    BY <1>1, <1>5, <2>1
  <2>3. i - 1 \in 1 .. n - 1 /\ (i - 1) + 1 = i
    BY <1>1, <2>2
  <2>4. Tail(q)[i - 1] = x
    BY <1>1, <2>1, <2>3
  <2>5. i - 1 \in 1 .. Len(Tail(q))
    BY <1>1, <2>3
  <2>6. QED
    BY <2>4, <2>5 DEF Elements
<1>6. QED
  BY <1>1, <1>2, <1>3, <1>4, <1>5

\* An element joins it.
LEMMA AppendOnce ==
  ASSUME NEW S, NEW q \in Seq(S), NEW x \in S
  PROVE  /\ Append(q, x) \in Seq(S)
         /\ Append(q, x) # <<>>
         /\ Elements(Append(q, x)) = Elements(q) \cup {x}
         /\ Once(q) /\ x \notin Elements(q) => Once(Append(q, x))
<1> DEFINE n == Len(q)
<1>1. /\ n \in Nat /\ Append(q, x) \in Seq(S) /\ Len(Append(q, x)) = n + 1
      /\ \A i \in 1 .. n : Append(q, x)[i] = q[i]
      /\ Append(q, x)[n + 1] = x /\ Append(q, x) # <<>>
  BY AppendProperties
<1>2. \A i : i \in 1 .. n + 1 <=> i \in 1 .. n \/ i = n + 1
  BY <1>1
<1>3. \A y : y \in Elements(q) <=> \E i \in 1 .. n : q[i] = y
  BY ElementsAre
<1>4. \A y : y \in Elements(Append(q, x)) <=> \E i \in 1 .. n + 1 : Append(q, x)[i] = y
  BY <1>1, ElementsAre
<1>5. \A y : y \in Elements(Append(q, x)) <=> y \in Elements(q) \/ y = x
  BY <1>1, <1>2, <1>3, <1>4
<1>6. ASSUME Once(q), x \notin Elements(q)
      PROVE  Once(Append(q, x))
  BY <1>1, <1>2, <1>3, <1>6 DEF Once
<1>7. QED
  BY <1>1, <1>5, <1>6

\* Sequences of which a piece moves from the front of the second to the end of
\* the first keep their concatenation.
LEMMA MoveFront ==
  ASSUME NEW S, NEW p \in Seq(S), NEW q \in Seq(S), q # <<>>
  PROVE  Append(p, Head(q)) \o Tail(q) = p \o q
<1> DEFINE a == Append(p, Head(q))
           l == a \o Tail(q)
           r == p \o q
<1>1. /\ Len(q) \in Nat \ {0} /\ Head(q) = q[1] /\ Head(q) \in S
      /\ Tail(q) \in Seq(S) /\ Len(Tail(q)) = Len(q) - 1
      /\ \A i \in 1 .. Len(q) - 1 : Tail(q)[i] = q[i + 1]
  BY HeadTailProperties, EmptySeq
<1>2. /\ Len(p) \in Nat /\ a \in Seq(S) /\ Len(a) = Len(p) + 1
      /\ \A i \in 1 .. Len(p) : a[i] = p[i]
      /\ a[Len(p) + 1] = q[1]
  BY <1>1, AppendProperties
<1> HIDE DEF a
<1>3. /\ l \in Seq(S) /\ Len(l) = Len(a) + Len(Tail(q))
      /\ \A i \in 1 .. Len(a) + Len(Tail(q)) :
           l[i] = IF i <= Len(a) THEN a[i] ELSE Tail(q)[i - Len(a)]
  BY <1>1, <1>2, ConcatProperties
<1>4. /\ r \in Seq(S) /\ Len(r) = Len(p) + Len(q)
      /\ \A i \in 1 .. Len(p) + Len(q) : r[i] = IF i <= Len(p) THEN p[i] ELSE q[i - Len(p)]
  BY ConcatProperties
<1> HIDE DEF l, r
<1>5. Len(l) = Len(r)
  BY <1>1, <1>2, <1>3, <1>4
<1>6. ASSUME NEW i \in 1 .. Len(l)
      PROVE  l[i] = r[i]
  <2>1. CASE i <= Len(p)
    <3>1. /\ i \in 1 .. Len(p) /\ i <= Len(a) /\ i \in 1 .. Len(p) + Len(q)
          /\ i \in 1 .. Len(a) + Len(Tail(q))
      BY <1>1, <1>2, <1>3, <2>1
    <3>2. l[i] = a[i] /\ r[i] = p[i]
      BY <1>3, <1>4, <2>1, <3>1
    <3>3. QED
      BY <1>2, <3>1, <3>2
  <2>2. CASE i = Len(p) + 1
    BY <1>1, <1>2, <1>3, <1>4, <2>2
  <2>3. CASE i > Len(p) + 1
    <3>1. /\ i - Len(a) \in 1 .. Len(q) - 1 /\ (i - Len(a)) + 1 = i - Len(p)
          /\ ~(i <= Len(p)) /\ ~(i <= Len(a)) /\ i \in 1 .. Len(p) + Len(q)
          /\ i \in 1 .. Len(a) + Len(Tail(q))
      BY <1>1, <1>2, <1>3, <2>3
    <3>2. l[i] = Tail(q)[i - Len(a)] /\ r[i] = q[i - Len(p)]
      BY <1>3, <1>4, <3>1
    <3>3. QED
      BY <1>1, <3>1, <3>2
  <2>4. QED
    BY <1>1, <1>2, <1>3, <2>1, <2>2, <2>3
<1>7. QED
  BY <1>3, <1>4, <1>5, <1>6, SeqEqual DEF l, r

\* What is appended to the second is appended to the whole.
LEMMA AppendBack ==
  ASSUME NEW S, NEW p \in Seq(S), NEW q \in Seq(S), NEW x \in S
  PROVE  p \o Append(q, x) = Append(p \o q, x)
<1>1. Append(q, x) = q \o <<x>> /\ <<x>> \in Seq(S) /\ p \o q \in Seq(S)
  BY AppendIsConcat, ConcatProperties
<1>2. Append(p \o q, x) = (p \o q) \o <<x>>
  BY <1>1, AppendIsConcat
<1>3. QED
  BY <1>1, <1>2, ConcatAssociative

\* The first k of u move to the end of p.
LEMMA MovePrefix ==
  ASSUME NEW p \in Seq(Requests), NEW v \in Seq(Requests), NEW k \in 0 .. Len(v)
  PROVE  /\ SubSeq(v, 1, k) \in Seq(Requests) /\ SubSeq(v, k + 1, Len(v)) \in Seq(Requests)
         /\ p \o SubSeq(v, 1, k) \in Seq(Requests)
         /\ (p \o SubSeq(v, 1, k)) \o SubSeq(v, k + 1, Len(v)) = p \o v
<1>1. Len(v) \in Nat /\ k \in Int /\ \A i \in 1 .. Len(v) : v[i] \in Requests
  BY LenProperties, ElementOfSeq
<1>2. (\A i \in 1 .. k : v[i] \in Requests) /\ \A i \in k + 1 .. Len(v) : v[i] \in Requests
  BY <1>1
<1>3. SubSeq(v, 1, k) \in Seq(Requests)
  BY <1>1, <1>2, SubSeqProperties
<1>4. SubSeq(v, k + 1, Len(v)) \in Seq(Requests)
  BY <1>1, <1>2, SubSeqProperties
<1>5. SubSeq(v, 1, k) \o SubSeq(v, k + 1, Len(v)) = v
  <2>1. 1 \in 1 .. Len(v) + 1 /\ k \in 1 - 1 .. Len(v) /\ Len(v) \in k .. Len(v)
    BY <1>1
  <2>2. SubSeq(v, 1, k) \o SubSeq(v, k + 1, Len(v)) = SubSeq(v, 1, Len(v))
    BY <2>1, ConcatAdjacentSubSeq
  <2>3. QED
    BY <2>2, SubSeqFull
<1> DEFINE a == SubSeq(v, 1, k)
           b == SubSeq(v, k + 1, Len(v))
<1> HIDE DEF a, b
<1>6. a \in Seq(Requests) /\ b \in Seq(Requests) /\ a \o b = v
  BY <1>3, <1>4, <1>5 DEF a, b
<1>7. p \o a \in Seq(Requests)
  BY <1>6, ConcatProperties
<1>8. (p \o a) \o b = p \o v
  <2>1. ASSUME NEW c \in Seq(Requests), NEW d \in Seq(Requests), NEW e \in Seq(Requests)
        PROVE  (c \o d) \o e = c \o (d \o e)
    BY ConcatAssociative
  <2>2. QED
    BY <1>6, <2>1
<1>9. QED
  BY <1>6, <1>7, <1>8 DEF a, b

\* The first element of a concatenation, and what comes after it.
LEMMA FrontOf ==
  ASSUME NEW s \in Seq(Requests), NEW t \in Seq(Requests), s # <<>>
  PROVE  Head(s) = (s \o t)[1] /\ Tail(s) \o t = Tail(s \o t)
<1> DEFINE l == Tail(s) \o t
           c == s \o t
<1>1. /\ Len(s) \in Nat \ {0} /\ Len(t) \in Nat /\ Head(s) = s[1]
      /\ Tail(s) \in Seq(Requests) /\ Len(Tail(s)) = Len(s) - 1
      /\ \A i \in 1 .. Len(s) - 1 : Tail(s)[i] = s[i + 1]
  BY HeadTailProperties, EmptySeq
<1>2. /\ c \in Seq(Requests) /\ Len(c) = Len(s) + Len(t)
      /\ \A i \in 1 .. Len(s) + Len(t) : c[i] = IF i <= Len(s) THEN s[i] ELSE t[i - Len(s)]
  BY ConcatProperties
<1>3. /\ l \in Seq(Requests) /\ Len(l) = Len(Tail(s)) + Len(t)
      /\ \A i \in 1 .. Len(Tail(s)) + Len(t) :
           l[i] = IF i <= Len(Tail(s)) THEN Tail(s)[i] ELSE t[i - Len(Tail(s))]
  BY <1>1, ConcatProperties
<1> HIDE DEF l, c
<1>4. c # <<>> /\ c[1] = Head(s)
  BY <1>1, <1>2
<1>5. /\ Tail(c) \in Seq(Requests) /\ Len(Tail(c)) = Len(c) - 1
      /\ \A i \in 1 .. Len(Tail(c)) : Tail(c)[i] = c[i + 1]
  BY <1>2, <1>4, HeadTailProperties
<1>6. ASSUME NEW i \in 1 .. Len(l)
      PROVE  l[i] = Tail(c)[i]
  <2>1. /\ i \in 1 .. Len(Tail(s)) + Len(t) /\ i \in 1 .. Len(Tail(c))
        /\ i + 1 \in 1 .. Len(s) + Len(t) /\ (i <= Len(Tail(s)) <=> i + 1 <= Len(s))
        /\ i - Len(Tail(s)) = (i + 1) - Len(s)
        /\ i <= Len(Tail(s)) => i \in 1 .. Len(s) - 1
    BY <1>1, <1>2, <1>3, <1>5
  <2>2. Tail(c)[i] = c[i + 1]
    BY <1>5, <2>1
  <2>3. QED
    BY <1>1, <1>2, <1>3, <2>1, <2>2
<1>7. l = Tail(c)
  BY <1>1, <1>2, <1>3, <1>5, <1>6, SeqEqual
<1>8. QED
  BY <1>4, <1>7 DEF l, c

\* How often a queue holds an element that it holds once, or not.
LEMMA OnceCounts ==
  ASSUME NEW S, NEW q \in Seq(S), Once(q), NEW x
  PROVE  Cardinality({i \in 1 .. Len(q) : q[i] = x}) = IF x \in Elements(q) THEN 1 ELSE 0
<1> DEFINE at == {i \in 1 .. Len(q) : q[i] = x}
<1>1. CASE x \in Elements(q)
  <2>1. PICK i \in 1 .. Len(q) : q[i] = x
    BY <1>1, ElementsAre
  <2>2. at = {i}
    BY <2>1 DEF Once
  <2>3. QED
    BY <1>1, <2>2, FS_Singleton
<1>2. CASE x \notin Elements(q)
  <2>1. at = {}
    BY <1>2, ElementsAre
  <2>2. QED
    BY <1>2, <2>1, FS_EmptySet
<1>3. QED
  BY <1>1, <1>2

-----------------------------------------------------------------------------
(* The stack.                                                              *)

\* The frames, and whose on_response they run.
LEMMA FramesAre ==
  /\ \A f \in {"read", "drain", "close", "writeFailed", "writeLate"} :
       Frame(f) \in Frames /\ Frame(f).at = f /\ Frame(f).of = 0
  /\ \A t \in Requests : /\ User(t) \in Frames /\ User(t).at = "user" /\ User(t).of = t
                         /\ t \in Nat /\ t # 0
  /\ \A x \in Frames : /\ x.at = "user" => x.of \in Requests /\ x.of # 0
                       /\ x.at # "user" => x.of = 0
BY MaxRequestsAssumption DEF Frames, Frame, User, Requests

LEMMA InCallbackIs ==
  ASSUME NEW s
  PROVE  \A t : t \in InCallback(s) <=> t # 0 /\ \E i \in 1 .. Len(s) : s[i].of = t
BY DEF InCallback

LEMMA InCallbackRequests ==
  ASSUME NEW s \in Seq(Frames)
  PROVE  InCallback(s) \subseteq Requests
<1>1. \A i \in 1 .. Len(s) : s[i] \in Frames
  BY ElementOfSeq
<1>2. \A i \in 1 .. Len(s) : s[i].of # 0 => s[i].of \in Requests
  BY <1>1, FramesAre
<1>3. QED
  BY <1>2, InCallbackIs

LEMMA EmptyStack ==
  /\ <<>> \in Seq(Frames) /\ WellNested(<<>>) /\ InCallback(<<>>) = {}
  /\ \A f : ~Has(<<>>, f) /\ ~Bottom(<<>>, f)
BY DEF WellNested, InCallback, Has, Bottom

\* A function is called.
LEMMA Push ==
  ASSUME NEW s \in Seq(Frames), WellNested(s), NEW x \in Frames,
         x.at \in {"read", "drain", "writeLate"} => s = <<>>,
         x.at = "close" => ~Has(s, "close"),
         x.of \notin InCallback(s)
  PROVE  /\ Append(s, x) \in Seq(Frames) /\ WellNested(Append(s, x))
         /\ Append(s, x) # <<>>
         /\ InCallback(Append(s, x)) = InCallback(s) \cup ({x.of} \ {0})
         /\ \A f : Has(Append(s, x), f) <=> Has(s, f) \/ x.at = f
         /\ \A f : Bottom(Append(s, x), f) <=> Bottom(s, f) \/ (s = <<>> /\ x.at = f)
<1> DEFINE n == Len(s)
           p == Append(s, x)
<1>1. /\ n \in Nat /\ p \in Seq(Frames) /\ Len(p) = n + 1 /\ p # <<>>
      /\ \A i \in 1 .. n : p[i] = s[i]
      /\ p[n + 1] = x
  BY AppendProperties
<1> HIDE DEF p
<1>2. \A i : i \in 1 .. n + 1 <=> i \in 1 .. n \/ i = n + 1
  BY <1>1
<1>3. \A f : Has(p, f) <=> Has(s, f) \/ x.at = f
  BY <1>1, <1>2 DEF Has
<1>4. s # <<>> => 1 \in 1 .. n /\ n # 0
  BY <1>1, EmptySeq
<1>5. s = <<>> => n = 0
  BY EmptySeq
<1>6. \A f : Bottom(p, f) <=> Bottom(s, f) \/ (s = <<>> /\ x.at = f)
  BY <1>1, <1>4, <1>5 DEF Bottom
<1>7. InCallback(p) = InCallback(s) \cup ({x.of} \ {0})
  <2>1. \A t : t \in InCallback(p) <=> t # 0 /\ \E i \in 1 .. n + 1 : p[i].of = t
    BY <1>1, InCallbackIs
  <2>2. \A t : t \in InCallback(s) <=> t # 0 /\ \E i \in 1 .. n : s[i].of = t
    BY InCallbackIs
  <2>3. \A t : t \in InCallback(p) <=> t \in InCallback(s) \/ (t # 0 /\ t = x.of)
    BY <1>1, <1>2, <2>1, <2>2
  <2>4. QED
    BY <2>3
<1>8. WellNested(p)
  <2>1. \A i \in 1 .. n + 1 : p[i].at \in {"read", "drain", "writeLate"} => i = 1
    BY <1>1, <1>2, <1>5 DEF WellNested
  <2>2. \A i, k \in 1 .. n + 1 : p[i].at = "close" /\ p[k].at = "close" => i = k
    BY <1>1, <1>2 DEF WellNested, Has
  <2>3. \A i \in 1 .. n : s[i].of # 0 => s[i].of # x.of
    BY InCallbackIs
  <2>4. \A i, k \in 1 .. n + 1 : p[i].of # 0 /\ p[i].of = p[k].of => i = k
    BY <1>1, <1>2, <2>3 DEF WellNested
  <2>5. QED
    BY <1>1, <2>1, <2>2, <2>4 DEF WellNested
<1>9. QED
  BY <1>1, <1>3, <1>6, <1>7, <1>8 DEF p

\* The running function returns.
LEMMA Pop ==
  ASSUME NEW s \in Seq(Frames), WellNested(s), s # <<>>,
         NEW x \in {s[Len(s)]}, NEW p \in {SubSeq(s, 1, Len(s) - 1)}
  PROVE  /\ x \in Frames /\ Has(s, x.at)
         /\ p \in Seq(Frames) /\ WellNested(p)
         /\ InCallback(p) = InCallback(s) \ {x.of}
         /\ x.of # 0 => x.of \in InCallback(s)
         /\ \A f : Has(p, f) => Has(s, f)
         /\ \A f : Has(s, f) => Has(p, f) \/ x.at = f
         /\ x.at \in {"close", "writeLate"} => ~Has(p, x.at)
         /\ x.at \in {"read", "drain", "writeLate"} => p = <<>>
         /\ p = <<>> => s[1] = x
         /\ p # <<>> => s[1] = p[1]
<1> DEFINE n == Len(s)
<1>1. n \in Nat \ {0} /\ n \in 1 .. n /\ n - 1 \in Nat /\ x \in Frames
  BY EmptySeq, ElementOfSeq
<1>2. /\ p \in Seq(Frames) /\ Len(p) = n - 1
      /\ \A i \in 1 .. n - 1 : p[i] = s[i]
  <2>1. 1 \in Int /\ n - 1 \in Int /\ \A i \in 1 .. n - 1 : s[i] \in Frames
    BY <1>1, ElementOfSeq
  <2>2. /\ p \in Seq(Frames) /\ Len(p) = IF 1 <= n - 1 THEN (n - 1) - 1 + 1 ELSE 0
        /\ \A i \in 1 .. (n - 1) - 1 + 1 : p[i] = s[1 + i - 1]
    BY <2>1, SubSeqProperties
  <2> HIDE DEF n
  <2>3. Len(p) = n - 1
    BY <1>1, <2>2
  <2>4. ASSUME NEW i \in 1 .. n - 1
        PROVE  p[i] = s[i]
    <3>1. i \in 1 .. (n - 1) - 1 + 1 /\ 1 + i - 1 = i
      BY <1>1
    <3>2. QED
      BY <2>2, <3>1
  <2>5. QED
    BY <2>2, <2>3, <2>4
<1>3. \A i : i \in 1 .. n <=> i \in 1 .. n - 1 \/ i = n
  BY <1>1
<1>4. n \notin 1 .. n - 1
  BY <1>1
<1> HIDE DEF n
<1>5. \A f : /\ Has(p, f) <=> \E i \in 1 .. n - 1 : s[i].at = f
             /\ Has(s, f) <=> \E i \in 1 .. n : s[i].at = f
  BY <1>2 DEF Has, n
<1>6. \A f : (Has(p, f) => Has(s, f)) /\ (Has(s, f) => Has(p, f) \/ x.at = f)
  BY <1>3, <1>5 DEF n
<1>7. Has(s, x.at)
  BY <1>1, <1>5 DEF n
<1>8. WellNested(p)
  BY <1>2, <1>3 DEF WellNested, n
<1>9. \A t : /\ t \in InCallback(p) <=> t # 0 /\ \E i \in 1 .. n - 1 : s[i].of = t
             /\ t \in InCallback(s) <=> t # 0 /\ \E i \in 1 .. n : s[i].of = t
  <2>1. \A t : /\ t \in InCallback(p) <=> t # 0 /\ \E i \in 1 .. Len(p) : p[i].of = t
               /\ t \in InCallback(s) <=> t # 0 /\ \E i \in 1 .. n : s[i].of = t
    BY InCallbackIs DEF n
  <2>2. \A t : (\E i \in 1 .. Len(p) : p[i].of = t) <=> \E i \in 1 .. n - 1 : s[i].of = t
    BY <1>2
  <2>3. QED
    BY <2>1, <2>2
<1>10. \A i \in 1 .. n - 1 : s[i].of # 0 => s[i].of # x.of
  BY <1>1, <1>3, <1>4 DEF WellNested, n
<1>11. InCallback(p) = InCallback(s) \ {x.of}
  <2>1. \A t : t \in InCallback(p) <=> t \in InCallback(s) /\ t # x.of
    BY <1>3, <1>9, <1>10 DEF n
  <2>2. QED
    BY <2>1
<1>12. x.of # 0 => x.of \in InCallback(s)
  BY <1>1, <1>9 DEF n
<1>13. x.at \in {"read", "drain", "writeLate"} => n = 1
  BY <1>1 DEF WellNested, n
<1>14. n = 1 <=> p = <<>>
  BY <1>1, <1>2, EmptySeq
<1>15. x.at = "close" => ~Has(p, "close")
  BY <1>1, <1>3, <1>4, <1>5 DEF WellNested, n
<1>16. x.at = "writeLate" => ~Has(p, "writeLate")
  BY <1>13, <1>14, EmptyStack
<1>17. p # <<>> => 1 \in 1 .. n - 1
  BY <1>1, <1>14
<1>18. QED
  BY <1>1, <1>2, <1>6, <1>7, <1>8, <1>11, <1>12, <1>13, <1>14, <1>15, <1>16, <1>17 DEF n

-----------------------------------------------------------------------------
(* The functions that others call.                                         *)

\* Close: whatever was closing before, it is now.
LEMMA CloseStep ==
  ASSUME TypeOK, NEW s \in Seq(Frames), WellNested(s), Has(s, "close") => closing, Close(s)
  PROVE  /\ closing' = TRUE
         /\ stack' \in Seq(Frames) /\ WellNested(stack') /\ InCallback(stack') = InCallback(s)
         /\ \A f : Has(stack', f) <=> Has(s, f) \/ (f = "close" /\ ~closing)
         /\ closing => stack' = s
<1>1. CASE closing
  BY <1>1 DEF Close, TypeOK
<1>2. CASE ~closing
  <2>1. stack' = Append(s, Frame("close")) /\ closing' = TRUE
    BY <1>2 DEF Close
  <2>2. /\ Frame("close") \in Frames /\ Frame("close").at = "close" /\ Frame("close").of = 0
        /\ 0 \notin InCallback(s) /\ ~Has(s, "close")
    BY <1>2, FramesAre, InCallbackIs
  <2> DEFINE x == Frame("close")
  <2> HIDE DEF x
  <2>3. x \in Frames /\ x.at = "close" /\ x.of = 0
    BY <2>2 DEF x
  <2>4. /\ Append(s, x) \in Seq(Frames) /\ WellNested(Append(s, x))
        /\ InCallback(Append(s, x)) = InCallback(s) \cup ({x.of} \ {0})
        /\ \A f : Has(Append(s, x), f) <=> Has(s, f) \/ x.at = f
    BY <2>2, <2>3, Push
  <2>5. QED
    BY <1>2, <2>1, <2>3, <2>4 DEF x
<1>3. QED
  BY <1>1, <1>2

\* ResultSuccess and ResultFailure of a transaction that has no result.
LEMMA ResultStep ==
  ASSUME TypeOK, NEW s \in Seq(Frames), WellNested(s), NEW t \in Requests,
         t \notin InCallback(s), NEW r \in {Failed} \cup Requests, Result(t, r, s)
  PROVE  /\ stack' \in Seq(Frames) /\ WellNested(stack')
         /\ InCallback(stack') = InCallback(s) \cup {t}
         /\ \A f : Has(stack', f) <=> Has(s, f) \/ f = "user"
         /\ \A f : Bottom(stack', f) <=> Bottom(s, f) \/ (s = <<>> /\ f = "user")
         /\ result' \in [Requests -> {NoResult, Failed} \cup Requests]
         /\ result'[t] = r /\ r # NoResult
         /\ \A u \in Requests : u # t => result'[u] = result[u]
<1> DEFINE x == User(t)
<1>1. x \in Frames /\ x.at = "user" /\ x.of = t /\ t # 0
  BY FramesAre
<1> HIDE DEF x
<1>2. /\ Append(s, x) \in Seq(Frames) /\ WellNested(Append(s, x))
      /\ InCallback(Append(s, x)) = InCallback(s) \cup ({x.of} \ {0})
      /\ \A f : Has(Append(s, x), f) <=> Has(s, f) \/ x.at = f
      /\ \A f : Bottom(Append(s, x), f) <=> Bottom(s, f) \/ (s = <<>> /\ x.at = f)
  BY <1>1, Push
<1>3. stack' = Append(s, x)
  BY DEF Result, x
<1>4. InCallback(stack') = InCallback(s) \cup {t}
  BY <1>1, <1>2, <1>3
<1>5. /\ result' \in [Requests -> {NoResult, Failed} \cup Requests]
      /\ result'[t] = r /\ r # NoResult
      /\ \A u \in Requests : u # t => result'[u] = result[u]
  BY MaxRequestsAssumption DEF TypeOK, Result, NoResult, Failed, Requests
<1>6. QED
  BY <1>1, <1>2, <1>3, <1>4, <1>5

\* The same below which OnTransactionWriteComplete may wait: a write that fails at once.
LEMMA FailStep ==
  ASSUME TypeOK, NEW s \in Seq(Frames), WellNested(s), NEW t \in Requests,
         t \notin InCallback(s),
         Result(t, Failed, s) \/ Result(t, Failed, Append(s, Frame("writeFailed")))
  PROVE  /\ stack' \in Seq(Frames) /\ WellNested(stack') /\ stack' # <<>>
         /\ InCallback(stack') = InCallback(s) \cup {t}
         /\ \A f \in {"read", "drain", "close", "writeLate"} : Has(stack', f) <=> Has(s, f)
         /\ \A f : Bottom(s, f) => Bottom(stack', f)
         /\ result' \in [Requests -> {NoResult, Failed} \cup Requests]
         /\ result'[t] = Failed /\ Failed # NoResult
         /\ \A u \in Requests : u # t => result'[u] = result[u]
<1>1. Failed \in {Failed} \cup Requests /\ Failed # NoResult
  BY DEF Failed, NoResult
<1>2. stack' # <<>>
  BY FramesAre, AppendProperties DEF Result
<1>3. CASE Result(t, Failed, s)
  BY <1>1, <1>2, <1>3, ResultStep
<1>4. CASE Result(t, Failed, Append(s, Frame("writeFailed")))
  <2> DEFINE x == Frame("writeFailed")
             p == Append(s, x)
  <2>1. x \in Frames /\ x.at = "writeFailed" /\ x.of = 0 /\ 0 \notin InCallback(s)
    BY FramesAre, InCallbackIs
  <2> HIDE DEF x
  <2>2. /\ p \in Seq(Frames) /\ WellNested(p)
        /\ InCallback(p) = InCallback(s) \cup ({x.of} \ {0})
        /\ \A f : Has(p, f) <=> Has(s, f) \/ x.at = f
        /\ \A f : Bottom(p, f) <=> Bottom(s, f) \/ (s = <<>> /\ x.at = f)
    BY <2>1, Push
  <2>3. Result(t, Failed, p)
    BY <1>4 DEF x
  <2> HIDE DEF p
  <2>4. InCallback(p) = InCallback(s) /\ t \notin InCallback(p)
    BY <2>1, <2>2
  <2>5. QED
    BY <1>1, <1>2, <2>1, <2>2, <2>3, <2>4, ResultStep
<1>5. QED
  BY <1>3, <1>4

-----------------------------------------------------------------------------
(* What a step leaves alone.                                               *)

LEMMA PlacedStays ==
  ASSUME PlacedInv, UNCHANGED <<waitQueue, writeQueue, readQueue, issued, result>>
  PROVE  PlacedInv'
BY DEF PlacedInv, Queued

LEMMA StackStays ==
  ASSUME StackInv, UNCHANGED <<stack, closing, result>>
  PROVE  StackInv'
BY DEF StackInv

LEMMA OrderStays ==
  ASSUME OrderInv, UNCHANGED <<closing, parserQueue, unanswered, readQueue, writeQueue>>,
         Bottom(stack, "writeFailed") => Bottom(stack', "writeFailed")
  PROVE  OrderInv'
BY DEF OrderInv

\* What the flags say together.
LEMMA Phases ==
  ASSUME IInv
  PROVE  /\ stack = <<>> => ~Has(stack, "close")
         /\ stack # <<>> => ~deleted /\ ~connecting /\ (~closing => onClosing)
         /\ onClosing => onClose /\ open /\ (closing => Has(stack, "close"))
         /\ reading => onClosing
         /\ deleted => /\ ~onClosing /\ ~reading /\ ~uvClosing
                       /\ waitQueue = <<>> /\ readQueue = <<>>
         /\ uvClosing => closing /\ ~Has(stack, "close")
<1>1. stack = <<>> => ~Has(stack, "close")
  BY EmptyStack
<1>2. PhaseInv
  BY DEF IInv
<1>3. /\ open \in BOOLEAN /\ reading \in BOOLEAN /\ closing \in BOOLEAN
      /\ onClosing \in BOOLEAN /\ onClose \in BOOLEAN /\ deleted \in BOOLEAN
      /\ connecting \in BOOLEAN /\ uvClosing \in BOOLEAN
  BY DEF IInv, TypeOK
<1>4. CASE ~closing /\ ~onClose
  BY <1>1, <1>2, <1>3, <1>4 DEF PhaseInv, Untouched
<1>5. CASE ~closing /\ onClose
  BY <1>1, <1>2, <1>3, <1>5 DEF PhaseInv
<1>6. CASE closing /\ Has(stack, "close")
  BY <1>1, <1>2, <1>3, <1>6 DEF PhaseInv
<1>7. CASE closing /\ ~Has(stack, "close")
  BY <1>1, <1>2, <1>3, <1>7 DEF PhaseInv
<1>8. QED
  BY <1>3, <1>4, <1>5, <1>6, <1>7

-----------------------------------------------------------------------------
(* Functions that return, and those that close when they do.               *)

\* s is the stack, or what is left of it when a function other than Close returns.
Below(s) ==
  /\ s \in Seq(Frames) /\ WellNested(s)
  /\ Has(s, "close") <=> Has(stack, "close")
  /\ Has(s, "writeLate") => Has(stack, "writeLate")
  /\ InCallback(s) \subseteq InCallback(stack)
  /\ stack = <<>> => s = <<>>

LEMMA StackBelow ==
  ASSUME IInv
  PROVE  Below(stack) /\ (stack = <<>> => Below(<<>>))
BY EmptyStack DEF IInv, TypeOK, StackInv, Below

\* What is below the running function.
LEMMA CallersBelow ==
  ASSUME IInv, NEW f, Running(f)
  PROVE  /\ Callers \in Seq(Frames) /\ WellNested(Callers)
         /\ Has(stack, f) /\ \A g : Has(Callers, g) => Has(stack, g)
         /\ \A g : Has(stack, g) => Has(Callers, g) \/ g = f
         /\ f \in {"close", "writeLate"} => ~Has(Callers, f)
         /\ f \in {"read", "drain", "writeLate"} => Callers = <<>>
         /\ f # "user" => InCallback(Callers) = InCallback(stack)
         /\ f = "user" => \E t \in Requests : /\ t = stack[Len(stack)].of
                                             /\ t \in InCallback(stack)
                                             /\ InCallback(Callers) = InCallback(stack) \ {t}
         /\ f # "close" => Below(Callers)
         /\ Bottom(stack, "writeFailed") => Bottom(Callers, "writeFailed") \/ f = "writeFailed"
<1> DEFINE x == stack[Len(stack)]
           p == Callers
<1>1. /\ stack \in Seq(Frames) /\ WellNested(stack) /\ stack # <<>>
      /\ x.at = f /\ x = stack[Len(stack)] /\ p = SubSeq(stack, 1, Len(stack) - 1)
  BY DEF IInv, TypeOK, StackInv, Running, Callers
<1> HIDE DEF x, p
<1>2. /\ x \in Frames /\ Has(stack, x.at)
      /\ p \in Seq(Frames) /\ WellNested(p)
      /\ InCallback(p) = InCallback(stack) \ {x.of}
      /\ x.of # 0 => x.of \in InCallback(stack)
      /\ \A g : Has(p, g) => Has(stack, g)
      /\ \A g : Has(stack, g) => Has(p, g) \/ x.at = g
      /\ x.at \in {"close", "writeLate"} => ~Has(p, x.at)
      /\ x.at \in {"read", "drain", "writeLate"} => p = <<>>
      /\ p = <<>> => stack[1] = x
      /\ p # <<>> => stack[1] = p[1]
  BY <1>1, Pop
<1>3. (f = "user" => x.of \in Requests /\ x.of # 0) /\ (f # "user" => x.of = 0)
  BY <1>1, <1>2, FramesAre
<1>4. 0 \notin InCallback(stack)
  BY InCallbackIs
<1>5. f # "user" => InCallback(p) = InCallback(stack)
  BY <1>2, <1>3, <1>4
<1>6. f = "user" => \E t \in Requests : /\ t = x.of /\ t \in InCallback(stack)
                                        /\ InCallback(p) = InCallback(stack) \ {t}
  BY <1>2, <1>3
<1>7. Bottom(stack, "writeFailed") => Bottom(p, "writeFailed") \/ f = "writeFailed"
  BY <1>1, <1>2 DEF Bottom
<1>8. f # "close" => Below(p)
  BY <1>1, <1>2 DEF Below
<1>9. QED
  BY <1>1, <1>2, <1>5, <1>6, <1>7, <1>8 DEF x, p

\* A function returns, and nothing else happens.
LEMMA ReturnKeeps ==
  ASSUME IInv, NEW s, Below(s), stack' = s,
         Bottom(stack, "writeFailed") => Bottom(s, "writeFailed"), released' \in BOOLEAN,
         UNCHANGED <<reading, closing, closeVars, readVars, waitQueue, writeQueue, readQueue,
                     unanswered, issued, result>>
  PROVE  IInv'
<1> USE DEF closeVars, uvVars, readVars
<1>1. TypeOK'
  BY DEF IInv, TypeOK, Below
<1>2. PlacedInv'
  BY PlacedStays DEF IInv
<1>3. StackInv'
  BY DEF IInv, StackInv, Below
<1>4. PhaseInv'
  BY DEF IInv, PhaseInv, Untouched, Below
<1>5. OrderInv'
  BY OrderStays DEF IInv
<1>6. OwnResponse'
  BY DEF IInv, OwnResponse
<1>7. QED
  BY <1>1, <1>2, <1>3, <1>4, <1>5, <1>6 DEF IInv

\* A function returns, or is called by uv, and Close is called.
LEMMA CloseKeeps ==
  ASSUME IInv, NEW s, Below(s), Close(s), closing \/ onClosing, connecting' = FALSE,
         buffer' \in BOOLEAN, released' \in BOOLEAN,
         parserQueue' \in Seq(Requests), unanswered' \in Seq(Requests),
         UNCHANGED <<open, reading, onClosing, onClose, deleted, uvClosing,
                     waitQueue, writeQueue, readQueue, issued, result>>
  PROVE  IInv'
<1>1. /\ closing' = TRUE
      /\ stack' \in Seq(Frames) /\ WellNested(stack') /\ InCallback(stack') = InCallback(s)
      /\ \A f : Has(stack', f) <=> Has(s, f) \/ (f = "close" /\ ~closing)
      /\ closing => stack' = s
  BY CloseStep DEF IInv, StackInv, Below
<1>2. TypeOK'
  BY <1>1 DEF IInv, TypeOK
<1>3. PlacedInv'
  BY PlacedStays DEF IInv
<1>4. StackInv'
  BY <1>1 DEF IInv, StackInv, Below
<1>5. PhaseInv'
  <2>1. /\ open \in BOOLEAN /\ reading \in BOOLEAN /\ closing \in BOOLEAN
        /\ onClosing \in BOOLEAN /\ onClose \in BOOLEAN /\ deleted \in BOOLEAN
        /\ connecting \in BOOLEAN /\ uvClosing \in BOOLEAN
    BY DEF IInv, TypeOK
  <2>2. PhaseInv
    BY DEF IInv
  <2>3. CASE closing
    <3>1. Has(stack', "close") <=> Has(stack, "close")
      BY <1>1, <2>3 DEF Below
    <3>2. stack = <<>> => stack' = <<>>
      BY <1>1, <2>3 DEF Below
    <3>3. QED
      BY <1>1, <2>1, <2>2, <2>3, <3>1, <3>2 DEF PhaseInv
  <2>4. CASE ~closing
    <3>1. onClosing /\ onClose /\ open /\ ~uvClosing /\ ~deleted
      BY <2>1, <2>2, <2>4, Phases DEF PhaseInv
    <3>2. Has(stack', "close")
      BY <1>1, <2>4
    <3>3. QED
      BY <1>1, <2>1, <2>4, <3>1, <3>2 DEF PhaseInv
  <2>5. QED
    BY <2>1, <2>3, <2>4
<1>6. OrderInv'
  BY <1>1 DEF OrderInv
<1>7. OwnResponse'
  BY DEF IInv, OwnResponse
<1>8. QED
  BY <1>2, <1>3, <1>4, <1>5, <1>6, <1>7 DEF IInv

-----------------------------------------------------------------------------
(* The steps.                                                              *)

LEMMA InitSyncKeepsInv ==
  ASSUME IInv, InitSync
  PROVE  IInv'
<1> USE DEF InitSync, uvVars, readVars, userVars
<1>1. ~open /\ ~closing /\ ~onClose /\ Untouched
  BY DEF IInv, PhaseInv
<1>2. TypeOK'
  BY DEF IInv, TypeOK
<1>3. PlacedInv'
  BY PlacedStays DEF IInv
<1>4. StackInv'
  BY StackStays DEF IInv
<1>5. PhaseInv'
  BY <1>1, EmptyStack DEF IInv, PhaseInv, Untouched
<1>6. OrderInv'
  BY OrderStays DEF IInv
<1>7. OwnResponse'
  BY DEF IInv, OwnResponse
<1>8. QED
  BY <1>2, <1>3, <1>4, <1>5, <1>6, <1>7 DEF IInv

LEMMA InitAsyncKeepsInv ==
  ASSUME IInv, InitAsync
  PROVE  IInv'
<1> USE DEF InitAsync, readVars
<1>1. PICK n \in Requests : waitQueue' = [i \in 1 .. n |-> i] /\ issued' = n
  OBVIOUS
<1>2. /\ Untouched /\ open /\ ~closing /\ ~onClose /\ ~deleted /\ ~buffer
  BY DEF IInv, PhaseInv
<1>3. n \in Nat \ {0} /\ n <= MaxRequests /\ \A i \in 1 .. n : i \in Requests
  BY MaxRequestsAssumption DEF Requests
<1>4. /\ waitQueue' \in Seq(Requests) /\ Len(waitQueue') = n /\ waitQueue' # <<>>
      /\ \A i \in 1 .. n : waitQueue'[i] = i
  BY <1>1, <1>3
<1>5. connecting \in BOOLEAN /\ closing \in BOOLEAN
  BY DEF IInv, TypeOK
<1>6. /\ stack' \in Seq(Frames) /\ WellNested(stack') /\ InCallback(stack') = {}
      /\ Has(stack', "close") => closing'
      /\ closing' => Has(stack', "close")
      /\ ~Has(stack', "writeLate")
      /\ closing' \in BOOLEAN /\ connecting' \in BOOLEAN
      /\ connecting' => stack' = <<>> /\ ~closing'
  <2>1. CASE connecting' = TRUE /\ UNCHANGED <<stack, closing>>
    <3>1. stack' = <<>> /\ closing' = FALSE /\ connecting' = TRUE
      BY <1>2, <1>5, <2>1 DEF Untouched
    <3>2. QED
      BY <3>1, EmptyStack
  <2>2. CASE Close(<<>>) /\ UNCHANGED connecting
    <3>1. /\ closing' = TRUE
          /\ stack' \in Seq(Frames) /\ WellNested(stack') /\ InCallback(stack') = InCallback(<<>>)
          /\ \A f : Has(stack', f) <=> Has(<<>>, f) \/ (f = "close" /\ ~closing)
      BY <2>2, CloseStep, EmptyStack DEF IInv
    <3>2. connecting' = FALSE
      BY <1>2, <1>5, <2>2 DEF Untouched
    <3>3. QED
      BY <1>2, <3>1, <3>2, EmptyStack
  <2>3. QED
    BY <2>1, <2>2
<1>7. TypeOK'
  BY <1>1, <1>3, <1>4, <1>6 DEF IInv, TypeOK, Requests
<1>8. PlacedInv'
  <2>1. \A t : t \in Elements(waitQueue') <=> t \in 1 .. n
    BY <1>4 DEF Elements
  <2>2. Once(waitQueue')
    BY <1>4 DEF Once
  <2>3. Elements(writeQueue') = {} /\ Elements(readQueue') = {} /\ Once(writeQueue') /\ Once(readQueue')
    BY <1>2, EmptyElements DEF Untouched
  <2>4. result' = result /\ issued' = n /\ \A t \in Requests : result[t] = NoResult
    <3>1. \A t \in Requests : t > issued => result[t] = NoResult
      BY DEF IInv, PlacedInv
    <3>2. \A t \in Requests : t > 0
      BY DEF Requests
    <3>3. QED
      BY <1>1, <1>2, <3>1, <3>2 DEF Untouched
  <2>5. \A t \in Requests : t \in 1 .. n <=> t <= n
    BY <1>3 DEF Requests
  <2>6. QED
    BY <2>1, <2>2, <2>3, <2>4, <2>5 DEF PlacedInv, Queued
<1>9. StackInv'
  BY <1>6 DEF StackInv
<1>10. PhaseInv'
  BY <1>2, <1>4, <1>6 DEF PhaseInv, Untouched
<1>11. OrderInv'
  <2>1. parserQueue' = <<>> /\ unanswered' = <<>> /\ readQueue' = <<>> /\ writeQueue' = <<>>
    BY <1>2 DEF Untouched
  <2>2. QED
    BY <2>1 DEF OrderInv
<1>12. OwnResponse'
  BY DEF IInv, OwnResponse
<1>13. QED
  BY <1>7, <1>8, <1>9, <1>10, <1>11, <1>12 DEF IInv

LEMMA OnConnectKeepsInv ==
  ASSUME IInv, OnConnect
  PROVE  IInv'
<1> USE DEF OnConnect, readVars, userVars
<1>1. /\ stack = <<>> /\ ~closing /\ onClose /\ open /\ onClosing /\ ~uvClosing /\ ~deleted
      /\ ~buffer /\ ~reading /\ waitQueue # <<>>
  BY DEF IInv, PhaseInv
<1>2. TypeOK
  BY DEF IInv
<1>3. CASE Close(<<>>) /\ UNCHANGED reading
  BY <1>1, <1>2, <1>3, StackBelow, CloseKeeps DEF TypeOK
<1>4. CASE reading' = TRUE /\ stack' = <<Frame("drain")>> /\ UNCHANGED closing
  <2>1. /\ stack' \in Seq(Frames) /\ WellNested(stack') /\ InCallback(stack') = {}
        /\ \A f : Has(stack', f) <=> f = "drain"
        /\ \A f : Bottom(stack', f) <=> f = "drain"
    <3> DEFINE x == Frame("drain")
    <3>1. x \in Frames /\ x.at = "drain" /\ x.of = 0
      BY FramesAre
    <3> HIDE DEF x
    <3>2. stack' = Append(<<>>, x)
      BY <1>4 DEF x
    <3>3. /\ Append(<<>>, x) \in Seq(Frames) /\ WellNested(Append(<<>>, x))
          /\ InCallback(Append(<<>>, x)) = InCallback(<<>>) \cup ({x.of} \ {0})
          /\ \A f : Has(Append(<<>>, x), f) <=> Has(<<>>, f) \/ x.at = f
          /\ \A f : Bottom(Append(<<>>, x), f) <=> Bottom(<<>>, f) \/ (<<>> = <<>> /\ x.at = f)
      BY <3>1, Push, EmptyStack
    <3>4. QED
      BY <3>1, <3>2, <3>3, EmptyStack
  <2>2. TypeOK'
    BY <1>4, <2>1 DEF IInv, TypeOK
  <2>3. PlacedInv'
    BY PlacedStays DEF IInv
  <2>4. StackInv'
    BY <2>1 DEF StackInv
  <2>5. PhaseInv'
    BY <1>1, <1>4, <2>1 DEF PhaseInv
  <2>6. OrderInv'
    BY <1>1, <1>4, EmptyStack, OrderStays DEF IInv
  <2>7. OwnResponse'
    BY DEF IInv, OwnResponse
  <2>8. QED
    BY <2>2, <2>3, <2>4, <2>5, <2>6, <2>7 DEF IInv
<1>5. QED
  BY <1>3, <1>4

\* PrepareWrite and AsyncWrite of a transaction that was in no queue, or was taken
\* from wait_queue_.
LEMMA WriteKeeps ==
  ASSUME IInv, NEW t \in Requests, Write(t, stack),
         t \notin Elements(writeQueue), t \notin Elements(readQueue), result[t] = NoResult,
         waitQueue' \in Seq(Requests), Once(waitQueue'), waitQueue = <<>> => waitQueue' = <<>>,
         \A u \in Requests : u \in Elements(waitQueue') <=> u \in Elements(waitQueue) /\ u # t,
         issued' \in 0 .. MaxRequests,
         \A u \in Requests : u <= issued' <=> u <= issued \/ u = t,
         ~deleted, ~connecting, onClose \/ closing,
         UNCHANGED <<reading, closing, closeVars, readVars, readQueue, released>>
  PROVE  IInv'
<1> USE DEF closeVars, uvVars, readVars
<1>1. /\ t \notin InCallback(stack) /\ stack \in Seq(Frames) /\ WellNested(stack)
      /\ writeQueue \in Seq(Requests) /\ readQueue \in Seq(Requests)
      /\ parserQueue \in Seq(Requests) /\ unanswered \in Seq(Requests)
  BY DEF IInv, TypeOK, StackInv
<1> DEFINE Places(u) ==
             /\ u \in Elements(waitQueue) => u \notin Elements(writeQueue)
             /\ u \in Elements(waitQueue) => u \notin Elements(readQueue)
             /\ u \in Elements(writeQueue) => u \notin Elements(readQueue)
             /\ u \in Elements(waitQueue) \/ u \in Elements(writeQueue) \/ u \in Elements(readQueue)
                  <=> u <= issued /\ result[u] = NoResult
             /\ ~(u <= issued) => result[u] = NoResult
<1>2. \A u \in Requests : (u > issued <=> ~(u <= issued)) /\ (u > issued' <=> ~(u <= issued'))
  BY DEF IInv, TypeOK, Requests
<1>3. \A u \in Requests : Places(u)
  BY <1>2 DEF IInv, PlacedInv, Queued
<1>4. /\ Once(writeQueue) /\ Once(readQueue)
      /\ Once(writeQueue') /\ (\A u \in Requests : Places(u)') => PlacedInv'
  BY <1>2 DEF IInv, PlacedInv, Queued
<1>5. CASE /\ Result(t, Failed, stack) \/ Result(t, Failed, Append(stack, Frame("writeFailed")))
           /\ UNCHANGED <<writeQueue, unanswered>>
  <2>1. /\ stack' \in Seq(Frames) /\ WellNested(stack') /\ stack' # <<>>
        /\ InCallback(stack') = InCallback(stack) \cup {t}
        /\ \A f \in {"read", "drain", "close", "writeLate"} : Has(stack', f) <=> Has(stack, f)
        /\ \A f : Bottom(stack, f) => Bottom(stack', f)
        /\ result' \in [Requests -> {NoResult, Failed} \cup Requests]
        /\ result'[t] = Failed /\ Failed # NoResult
        /\ \A u \in Requests : u # t => result'[u] = result[u]
    BY <1>1, <1>5, FailStep DEF IInv
  <2>2. TypeOK'
    BY <1>5, <2>1 DEF IInv, TypeOK
  <2>3. PlacedInv'
    BY <1>5, <1>3, <1>4, <2>1
  <2>4. StackInv'
    <3>1. \A u \in InCallback(stack) : u \in Requests /\ result[u] # NoResult
      BY <1>1, InCallbackRequests DEF IInv, StackInv
    <3>2. \A u \in InCallback(stack') : result'[u] # NoResult
      BY <1>1, <2>1, <3>1
    <3>3. QED
      BY <1>5, <2>1, <3>2 DEF IInv, StackInv
  <2>5. PhaseInv'
    BY <1>5, <2>1 DEF IInv, PhaseInv
  <2>6. OrderInv'
    BY <1>5, <2>1, OrderStays DEF IInv
  <2>7. OwnResponse'
    BY <1>5, <2>1 DEF IInv, OwnResponse
  <2>8. QED
    BY <2>2, <2>3, <2>4, <2>5, <2>6, <2>7 DEF IInv
<1>6. CASE /\ writeQueue' = Append(writeQueue, t) /\ unanswered' = Append(unanswered, t)
           /\ stack' = stack /\ UNCHANGED result
  <2>1. /\ writeQueue' \in Seq(Requests)
        /\ Elements(writeQueue') = Elements(writeQueue) \cup {t}
        /\ Once(writeQueue) => Once(writeQueue')
    BY <1>1, <1>6, AppendOnce
  <2>2. unanswered' \in Seq(Requests)
    BY <1>1, <1>6, AppendOnce
  <2>3. TypeOK'
    BY <1>6, <2>1, <2>2 DEF IInv, TypeOK
  <2>4. PlacedInv'
    BY <1>6, <1>3, <1>4, <2>1
  <2>5. StackInv'
    BY <1>6, StackStays DEF IInv
  <2>6. PhaseInv'
    BY <1>6 DEF IInv, PhaseInv
  <2>7. OrderInv'
    <3>1. ASSUME NEW p \in Seq(Requests), NEW q \in Seq(Requests)
          PROVE  p \o Append(q, t) = Append(p \o q, t)
      BY AppendBack
    <3>2. /\ parserQueue \o Append(unanswered, t) = Append(parserQueue \o unanswered, t)
          /\ readQueue \o Append(writeQueue, t) = Append(readQueue \o writeQueue, t)
      BY <1>1, <3>1
    <3>3. QED
      BY <1>6, <3>2 DEF IInv, OrderInv
  <2>8. OwnResponse'
    BY <1>6 DEF IInv, OwnResponse
  <2>9. QED
    BY <2>3, <2>4, <2>5, <2>6, <2>7, <2>8 DEF IInv
<1>7. QED
  BY <1>5, <1>6 DEF Write

LEMMA DrainKeepsInv ==
  ASSUME IInv, Drain
  PROVE  IInv'
<1>1. /\ stack # <<>> /\ ~deleted /\ ~connecting /\ (onClose \/ closing)
      /\ waitQueue \in Seq(Requests) /\ released \in BOOLEAN
  BY Phases DEF Drain, Running, IInv, TypeOK, PhaseInv, Untouched
<1>2. CASE waitQueue = <<>>
  <2>1. /\ stack' = Callers /\ Below(Callers)
        /\ Bottom(stack, "writeFailed") => Bottom(Callers, "writeFailed")
    BY <1>2, CallersBelow DEF Drain
  <2>2. QED
    BY <1>1, <1>2, <2>1, ReturnKeeps DEF Drain
<1>3. CASE waitQueue # <<>>
  <2>1. PICK t \in Requests : t = Head(waitQueue)
    BY <1>1, <1>3, TailOnce
  <2>2. waitQueue' = Tail(waitQueue) /\ Write(t, stack) /\ Once(waitQueue)
    BY <1>3, <2>1 DEF Drain, IInv, PlacedInv
  <2>3. /\ waitQueue' \in Seq(Requests) /\ t \in Elements(waitQueue)
        /\ Once(waitQueue')
        /\ \A u : u \in Elements(waitQueue') <=> u \in Elements(waitQueue) /\ u # t
    BY <1>1, <1>3, <2>1, <2>2, TailOnce
  <2>4. t \notin Elements(writeQueue) /\ t \notin Elements(readQueue) /\ result[t] = NoResult /\ t <= issued
    BY <2>3 DEF IInv, PlacedInv, Queued
  <2>5. /\ issued' \in 0 .. MaxRequests
        /\ \A u \in Requests : u <= issued' <=> u <= issued \/ u = t
    BY <2>4 DEF Drain, IInv, TypeOK
  <2>6. UNCHANGED <<reading, closing, closeVars, readVars, readQueue, released>>
    BY DEF Drain
  <2>7. \A u \in Requests : u \in Elements(waitQueue') <=> u \in Elements(waitQueue) /\ u # t
    BY <2>3
  <2>8. waitQueue = <<>> => waitQueue' = <<>>
    BY <1>3
  <2>9. QED
    BY <1>1, <2>2, <2>3, <2>4, <2>5, <2>6, <2>7, <2>8, WriteKeeps
<1>4. QED
  BY <1>2, <1>3

\* A transaction gets its result, and is in no queue from then on.
LEMMA ResultKeeps ==
  ASSUME IInv, NEW t \in Requests, NEW r \in {Failed, t}, NEW s \in Seq(Frames), WellNested(s),
         Result(t, r, s), result[t] = NoResult,
         InCallback(s) = InCallback(stack), Has(s, "close") <=> Has(stack, "close"),
         Has(s, "writeLate") => closing /\ ~Has(stack, "close"),
         waitQueue' \in Seq(Requests), writeQueue' \in Seq(Requests),
         readQueue' \in Seq(Requests), parserQueue' \in Seq(Requests),
         Once(waitQueue'), Once(writeQueue'), Once(readQueue'),
         \A u \in Requests : u \in Elements(waitQueue') <=> u \in Elements(waitQueue) /\ u # t,
         \A u \in Requests : u \in Elements(writeQueue') <=> u \in Elements(writeQueue) /\ u # t,
         \A u \in Requests : u \in Elements(readQueue') <=> u \in Elements(readQueue) /\ u # t,
         waitQueue = <<>> => waitQueue' = <<>>, readQueue = <<>> => readQueue' = <<>>,
         issued' \in 0 .. MaxRequests,
         \A u \in Requests : u <= issued' <=> u <= issued \/ u = t,
         ~deleted, ~connecting, onClose \/ closing,
         UNCHANGED <<reading, closing, closeVars, buffer, unanswered, released>>
  PROVE  /\ TypeOK' /\ PlacedInv' /\ StackInv' /\ PhaseInv' /\ OwnResponse'
         /\ \A f : Bottom(stack', f) <=> Bottom(s, f) \/ (s = <<>> /\ f = "user")
<1> USE DEF closeVars, uvVars
<1>1. /\ t \notin InCallback(s) /\ r \in {Failed} \cup Requests
      /\ stack \in Seq(Frames)
  BY DEF IInv, TypeOK, StackInv
<1>2. /\ stack' \in Seq(Frames) /\ WellNested(stack')
      /\ InCallback(stack') = InCallback(stack) \cup {t}
      /\ \A f : Has(stack', f) <=> Has(s, f) \/ f = "user"
      /\ \A f : Bottom(stack', f) <=> Bottom(s, f) \/ (s = <<>> /\ f = "user")
      /\ result' \in [Requests -> {NoResult, Failed} \cup Requests]
      /\ result'[t] = r /\ r # NoResult
      /\ \A u \in Requests : u # t => result'[u] = result[u]
  BY <1>1, ResultStep DEF IInv
<1>3. TypeOK'
  BY <1>2 DEF IInv, TypeOK
<1>4. PlacedInv'
  <2> DEFINE Places(u) ==
               /\ u \in Elements(waitQueue) => u \notin Elements(writeQueue)
               /\ u \in Elements(waitQueue) => u \notin Elements(readQueue)
               /\ u \in Elements(writeQueue) => u \notin Elements(readQueue)
               /\ u \in Elements(waitQueue) \/ u \in Elements(writeQueue) \/ u \in Elements(readQueue)
                    <=> u <= issued /\ result[u] = NoResult
               /\ ~(u <= issued) => result[u] = NoResult
  <2>1. \A u \in Requests : (u > issued <=> ~(u <= issued)) /\ (u > issued' <=> ~(u <= issued'))
    BY DEF IInv, TypeOK, Requests
  <2>2. \A u \in Requests : Places(u)
    BY <2>1 DEF IInv, PlacedInv, Queued
  <2>3. (\A u \in Requests : Places(u)') => PlacedInv'
    BY <2>1 DEF PlacedInv, Queued
  <2>4. QED
    BY <1>2, <2>2, <2>3
<1>5. StackInv'
  <2>1. \A u \in InCallback(stack) : u \in Requests /\ result[u] # NoResult
    BY <1>1, InCallbackRequests DEF IInv, StackInv
  <2>2. \A u \in InCallback(stack') : result'[u] # NoResult
    BY <1>2, <2>1
  <2>3. QED
    BY <1>2, <2>2 DEF IInv, StackInv
<1>6. PhaseInv'
  BY <1>2 DEF IInv, PhaseInv
<1>7. OwnResponse'
  BY <1>2 DEF IInv, OwnResponse
<1>8. QED
  BY <1>2, <1>3, <1>4, <1>5, <1>6, <1>7

LEMMA AsyncProcessKeepsInv ==
  ASSUME IInv, AsyncProcess
  PROVE  IInv'
<1>1. PICK t : t = issued + 1
  OBVIOUS
<1>2. /\ onClosing /\ onClose /\ open /\ ~deleted /\ issued < MaxRequests /\ issued \in Nat
  BY Phases, MaxRequestsAssumption DEF AsyncProcess, IInv, TypeOK
<1>3. /\ t \in Requests /\ issued' = t /\ issued' \in 0 .. MaxRequests
      /\ t > issued
      /\ \A u \in Requests : u <= issued' <=> u <= issued \/ u = t
  BY <1>1, <1>2, MaxRequestsAssumption DEF AsyncProcess, Requests
<1>4. /\ t \notin Elements(waitQueue) /\ t \notin Elements(writeQueue) /\ t \notin Elements(readQueue)
      /\ result[t] = NoResult
      /\ Once(waitQueue) /\ Once(writeQueue) /\ Once(readQueue)
  BY <1>1, <1>2, <1>3 DEF IInv, PlacedInv, Queued
<1>5. /\ waitQueue \in Seq(Requests) /\ writeQueue \in Seq(Requests) /\ readQueue \in Seq(Requests)
      /\ parserQueue \in Seq(Requests) /\ stack \in Seq(Frames) /\ WellNested(stack)
  BY DEF IInv, TypeOK, StackInv
<1>6. UNCHANGED <<reading, closing, closeVars, readVars, readQueue, released>>
  BY DEF AsyncProcess
<1>7. CASE /\ closing /\ Result(t, Failed, stack)
           /\ UNCHANGED <<waitQueue, writeQueue, unanswered>>
  <2>1. ~connecting
    BY <1>7 DEF IInv, PhaseInv
  <2>2. Has(stack, "writeLate") => closing /\ ~Has(stack, "close")
    BY DEF IInv, StackInv
  <2>3. UNCHANGED <<reading, closing, closeVars, buffer, unanswered, released>>
    BY <1>6, <1>7 DEF readVars
  <2>4. UNCHANGED <<waitQueue, writeQueue, readQueue, parserQueue>>
    BY <1>6, <1>7 DEF readVars
  <2>5. TypeOK' /\ PlacedInv' /\ StackInv' /\ PhaseInv' /\ OwnResponse'
    BY <1>2, <1>3, <1>4, <1>5, <1>7, <2>1, <2>2, <2>3, <2>4, ResultKeeps
  <2>6. OrderInv'
    BY <1>7, <2>3 DEF OrderInv
  <2>7. QED
    BY <2>5, <2>6 DEF IInv
<1>8. CASE /\ ~closing /\ ~reading /\ waitQueue' = Append(waitQueue, t)
           /\ UNCHANGED <<writeQueue, unanswered, result, stack>>
  <2>1. /\ waitQueue' \in Seq(Requests) /\ waitQueue' # <<>>
        /\ Elements(waitQueue') = Elements(waitQueue) \cup {t} /\ Once(waitQueue')
    BY <1>3, <1>4, <1>5, <1>8, AppendOnce
  <2> USE DEF closeVars, uvVars, readVars
  <2>2. TypeOK'
    BY <1>3, <1>6, <1>8, <2>1 DEF IInv, TypeOK
  <2>3. PlacedInv'
    <3> DEFINE Places(u) ==
                 /\ u \in Elements(waitQueue) => u \notin Elements(writeQueue)
                 /\ u \in Elements(waitQueue) => u \notin Elements(readQueue)
                 /\ u \in Elements(writeQueue) => u \notin Elements(readQueue)
                 /\ u \in Elements(waitQueue) \/ u \in Elements(writeQueue) \/ u \in Elements(readQueue)
                      <=> u <= issued /\ result[u] = NoResult
                 /\ ~(u <= issued) => result[u] = NoResult
    <3>1. \A u \in Requests : (u > issued <=> ~(u <= issued)) /\ (u > issued' <=> ~(u <= issued'))
      BY <1>2, <1>3 DEF Requests
    <3>2. \A u \in Requests : Places(u)
      BY <3>1 DEF IInv, PlacedInv, Queued
    <3>3. \A u \in Requests : Places(u)'
      BY <1>3, <1>4, <1>6, <1>8, <2>1, <3>2
    <3>4. QED
      BY <1>4, <1>6, <1>8, <2>1, <3>1, <3>3 DEF PlacedInv, Queued
  <2>4. StackInv'
    BY <1>6, <1>8, StackStays DEF IInv
  <2>5. PhaseInv'
    BY <1>2, <1>6, <1>8, <2>1 DEF IInv, PhaseInv
  <2>6. OrderInv'
    BY <1>6, <1>8, OrderStays DEF IInv
  <2>7. OwnResponse'
    BY <1>8 DEF IInv, OwnResponse
  <2>8. QED
    BY <2>2, <2>3, <2>4, <2>5, <2>6, <2>7 DEF IInv
<1>9. CASE ~closing /\ reading /\ Write(t, stack) /\ UNCHANGED waitQueue
  <2>1. ~connecting
    BY <1>9 DEF IInv, PhaseInv
  <2>2. \A u \in Requests : u \in Elements(waitQueue') <=> u \in Elements(waitQueue) /\ u # t
    BY <1>4, <1>9
  <2>3. waitQueue' \in Seq(Requests) /\ Once(waitQueue') /\ (waitQueue = <<>> => waitQueue' = <<>>)
    BY <1>4, <1>5, <1>9
  <2>4. QED
    BY <1>2, <1>3, <1>4, <1>6, <1>9, <2>1, <2>2, <2>3, WriteKeeps
<1>10. QED
  BY <1>1, <1>7, <1>8, <1>9 DEF AsyncProcess

\* No connection that is being made is empty.
LEMMA ConnectingLive ==
  ASSUME IInv, connecting
  PROVE  Live # {}
<1>1. waitQueue # <<>> /\ waitQueue \in Seq(Requests)
  BY DEF IInv, PhaseInv, TypeOK
<1>2. Elements(waitQueue) # {}
  BY <1>1, ElementsAre
<1>3. QED
  BY <1>2 DEF Live

LEMMA UserReturnsKeepsInv ==
  ASSUME IInv, UserReturns
  PROVE  IInv'
<1>1. /\ Below(Callers) /\ (Bottom(stack, "writeFailed") => Bottom(Callers, "writeFailed"))
      /\ ~connecting /\ connecting \in BOOLEAN /\ buffer \in BOOLEAN /\ released \in BOOLEAN
      /\ parserQueue \in Seq(Requests) /\ unanswered \in Seq(Requests)
  BY CallersBelow, Phases DEF UserReturns, Running, IInv, TypeOK
<1>2. \/ stack' = Callers /\ UNCHANGED closing
      \/ onClosing /\ Close(Callers)
  BY DEF UserReturns, OwnerCloses
<1>3. UNCHANGED <<reading, closeVars, readVars, waitQueue, writeQueue, readQueue, unanswered, userVars>>
  BY DEF UserReturns
<1>4. CASE stack' = Callers /\ UNCHANGED closing
  BY <1>1, <1>3, <1>4, ReturnKeeps DEF userVars
<1>5. CASE onClosing /\ Close(Callers)
  BY <1>1, <1>3, <1>5, CloseKeeps DEF userVars, closeVars, uvVars, readVars
<1>6. QED
  BY <1>2, <1>4, <1>5

LEMMA ReleaseKeepsInv ==
  ASSUME IInv, Release
  PROVE  IInv'
<1>1. /\ Below(stack) /\ connecting \in BOOLEAN /\ buffer \in BOOLEAN /\ released' \in BOOLEAN
      /\ parserQueue \in Seq(Requests) /\ unanswered \in Seq(Requests)
  BY StackBelow DEF Release, IInv, TypeOK
<1>2. \/ stack' = stack /\ UNCHANGED closing
      \/ Live = {} /\ onClosing /\ Close(stack)
  BY DEF Release, OwnerCloses
<1>3. UNCHANGED <<reading, closeVars, readVars, waitQueue, writeQueue, readQueue,
                  unanswered, issued, result>>
  BY DEF Release
<1>4. CASE stack' = stack /\ UNCHANGED closing
  BY <1>1, <1>3, <1>4, ReturnKeeps
<1>5. CASE Live = {} /\ onClosing /\ Close(stack)
  BY <1>1, <1>3, <1>5, ConnectingLive, CloseKeeps DEF closeVars, uvVars, readVars
<1>6. QED
  BY <1>2, <1>4, <1>5

LEMMA OwnerClosesLaterKeepsInv ==
  ASSUME IInv, OwnerClosesLater
  PROVE  IInv'
<1>1. /\ Below(<<>>) /\ connecting \in BOOLEAN /\ buffer \in BOOLEAN /\ released \in BOOLEAN
      /\ parserQueue \in Seq(Requests) /\ unanswered \in Seq(Requests)
  BY StackBelow DEF OwnerClosesLater, AtLoop, IInv, TypeOK
<1>2. QED
  BY <1>1, ConnectingLive, CloseKeeps DEF OwnerClosesLater, closeVars, uvVars, readVars, userVars

LEMMA ReadKeepsInv ==
  ASSUME IInv, Read
  PROVE  IInv'
<1>1. /\ stack = <<>> /\ reading
      /\ UNCHANGED <<reading, closeVars, waitQueue, writeQueue, readQueue, userVars>>
  BY DEF Read, ReadEof, ReadFailure, ReadResponses, AtLoop
<1>2. /\ Below(<<>>) /\ ~connecting /\ connecting' = FALSE /\ released' \in BOOLEAN
      /\ onClosing /\ onClose /\ open /\ ~closing /\ ~uvClosing /\ ~deleted
      /\ parserQueue \in Seq(Requests) /\ unanswered \in Seq(Requests)
  BY <1>1, StackBelow, Phases DEF IInv, TypeOK, PhaseInv, closeVars, uvVars, userVars
<1>3. CASE ReadEof
  BY <1>1, <1>2, <1>3, CloseKeeps DEF ReadEof, closeVars, uvVars, userVars
<1>4. ASSUME NEW k \in 0 .. Len(unanswered), Parse(k)
      PROVE  /\ parserQueue' \in Seq(Requests) /\ unanswered' \in Seq(Requests)
             /\ parserQueue' \o unanswered' = parserQueue \o unanswered
  <2>1. ASSUME NEW p \in Seq(Requests), NEW q \in Seq(Requests), k \in 0 .. Len(q)
        PROVE  /\ SubSeq(q, k + 1, Len(q)) \in Seq(Requests) /\ p \o SubSeq(q, 1, k) \in Seq(Requests)
               /\ (p \o SubSeq(q, 1, k)) \o SubSeq(q, k + 1, Len(q)) = p \o q
    BY <2>1, MovePrefix
  <2>2. /\ SubSeq(unanswered, k + 1, Len(unanswered)) \in Seq(Requests)
        /\ parserQueue \o SubSeq(unanswered, 1, k) \in Seq(Requests)
        /\ (parserQueue \o SubSeq(unanswered, 1, k)) \o SubSeq(unanswered, k + 1, Len(unanswered))
              = parserQueue \o unanswered
    BY <1>2, <2>1, Zenon
  <2>3. QED
    BY <1>4, <2>2 DEF Parse
<1>5. CASE ReadFailure
  <2>1. PICK k \in 0 .. Len(unanswered) : Parse(k)
    BY <1>5 DEF ReadFailure
  <2>2. buffer' \in BOOLEAN /\ Close(<<>>)
    BY <1>5 DEF ReadFailure
  <2>3. parserQueue' \in Seq(Requests) /\ unanswered' \in Seq(Requests)
    BY <1>4, <2>1
  <2>4. UNCHANGED <<open, reading, onClosing, onClose, deleted, uvClosing,
                    waitQueue, writeQueue, readQueue, issued, result>>
    BY <1>1 DEF closeVars, uvVars, userVars
  <2>5. QED
    BY <1>2, <2>2, <2>3, <2>4, CloseKeeps
<1>6. CASE ReadResponses
  <2>1. PICK k \in 0 .. Len(unanswered) : Parse(k)
    <3>1. Len(unanswered) \in Nat /\ 1 .. Len(unanswered) \subseteq 0 .. Len(unanswered)
      BY <1>2
    <3>2. QED
      BY <1>6, <3>1 DEF ReadResponses
  <2>2. /\ buffer' = FALSE /\ stack' = <<Frame("read")>> /\ UNCHANGED closing
    BY <1>6 DEF ReadResponses
  <2>3. /\ parserQueue' \in Seq(Requests) /\ unanswered' \in Seq(Requests)
        /\ parserQueue' \o unanswered' = parserQueue \o unanswered
    BY <1>4, <2>1
  <2>4. /\ stack' \in Seq(Frames) /\ WellNested(stack') /\ InCallback(stack') = {}
        /\ \A f : Has(stack', f) <=> f = "read"
    <3> DEFINE x == Frame("read")
    <3>1. x \in Frames /\ x.at = "read" /\ x.of = 0
      BY FramesAre
    <3> HIDE DEF x
    <3>2. stack' = Append(<<>>, x)
      BY <2>2 DEF x
    <3>3. /\ Append(<<>>, x) \in Seq(Frames) /\ WellNested(Append(<<>>, x))
          /\ InCallback(Append(<<>>, x)) = InCallback(<<>>) \cup ({x.of} \ {0})
          /\ \A f : Has(Append(<<>>, x), f) <=> Has(<<>>, f) \/ x.at = f
      BY <3>1, Push, EmptyStack
    <3>4. QED
      BY <3>1, <3>2, <3>3, EmptyStack
  <2>5. TypeOK'
    BY <1>1, <2>2, <2>3, <2>4 DEF IInv, TypeOK, closeVars, uvVars, userVars
  <2>6. PlacedInv'
    BY <1>1, PlacedStays DEF IInv, userVars
  <2>7. StackInv'
    BY <2>4 DEF StackInv
  <2>8. PhaseInv'
    BY <1>1, <1>2, <2>2, <2>4 DEF PhaseInv, closeVars, uvVars
  <2>9. OrderInv'
    <3>1. ~Bottom(stack, "writeFailed")
      BY <1>1, EmptyStack
    <3>2. QED
      BY <1>1, <1>2, <2>3, <3>1 DEF IInv, OrderInv
  <2>10. OwnResponse'
    BY <1>1 DEF IInv, OwnResponse, userVars
  <2>11. QED
    BY <2>5, <2>6, <2>7, <2>8, <2>9, <2>10 DEF IInv
<1>7. QED
  BY <1>3, <1>5, <1>6 DEF Read

LEMMA TakeResponseKeepsInv ==
  ASSUME IInv, TakeResponse
  PROVE  IInv'
<1>1. /\ stack # <<>> /\ Callers = <<>> /\ Below(Callers) /\ ~deleted /\ ~connecting /\ Below(stack)
      /\ (Bottom(stack, "writeFailed") => Bottom(<<>>, "writeFailed"))
      /\ Has(stack, "read") /\ (\A f : Has(stack, f) => f = "read")
      /\ (~closing => onClosing) /\ (onClose \/ closing)
  <2>1. Running("read")
    BY DEF TakeResponse
  <2>2. /\ Callers = <<>> /\ Below(Callers) /\ Has(stack, "read")
        /\ \A f : Has(stack, f) => Has(Callers, f) \/ f = "read"
        /\ Bottom(stack, "writeFailed") => Bottom(Callers, "writeFailed")
    BY <2>1, CallersBelow
  <2>3. stack # <<>>
    BY <2>1 DEF Running
  <2>4. ~deleted /\ ~connecting /\ (~closing => onClosing) /\ (onClosing => onClose)
    BY <2>3, Phases
  <2>5. QED
    BY <2>2, <2>3, <2>4, EmptyStack, StackBelow
<1>2. /\ parserQueue \in Seq(Requests) /\ parserQueue # <<>> /\ unanswered \in Seq(Requests)
      /\ readQueue \in Seq(Requests) /\ writeQueue \in Seq(Requests) /\ waitQueue \in Seq(Requests)
      /\ stack \in Seq(Frames) /\ WellNested(stack) /\ buffer \in BOOLEAN /\ released \in BOOLEAN
      /\ issued \in 0 .. MaxRequests
      /\ connecting \in BOOLEAN
  BY DEF TakeResponse, IInv, TypeOK, StackInv
<1>3. parserQueue' = Tail(parserQueue) /\ parserQueue' \in Seq(Requests)
  BY <1>2, TailOnce DEF TakeResponse
<1>4. UNCHANGED <<reading, closeVars, buffer, waitQueue, writeQueue, unanswered, issued, released>>
  BY DEF TakeResponse
<1>5. CASE readQueue = <<>>
  <2>1. Close(Callers) /\ UNCHANGED <<readQueue, result>>
    BY <1>5 DEF TakeResponse
  <2>2. closing \/ onClosing
    BY <1>1
  <2>3. UNCHANGED <<open, reading, onClosing, onClose, deleted, uvClosing,
                    waitQueue, writeQueue, readQueue, issued, result>>
    BY <1>4, <2>1 DEF closeVars, uvVars
  <2>4. connecting' = FALSE /\ buffer' \in BOOLEAN /\ released' \in BOOLEAN /\ unanswered' \in Seq(Requests)
    BY <1>1, <1>2, <1>4 DEF closeVars, uvVars
  <2>5. QED
    BY <1>1, <1>3, <2>1, <2>2, <2>3, <2>4, CloseKeeps
<1>6. CASE readQueue # <<>>
  <2>1. PICK t \in Requests : t = Head(readQueue)
    BY <1>2, <1>6, TailOnce
  <2>2. /\ readQueue' = Tail(readQueue) /\ Result(t, Head(parserQueue), stack) /\ UNCHANGED closing
    BY <1>6, <2>1 DEF TakeResponse
  <2>3. ~closing
    <3>1. ~Has(stack, "close")
      BY <1>1
    <3>2. QED
      BY <1>6, <3>1 DEF IInv, PhaseInv
  <2>4. parserQueue \o unanswered = readQueue \o writeQueue
    BY <1>1, <2>3, EmptyStack DEF IInv, OrderInv
  <2>5. Head(parserQueue) = t /\ Tail(parserQueue) \o unanswered = Tail(readQueue) \o writeQueue
    <3>1. ASSUME NEW p \in Seq(Requests), NEW q \in Seq(Requests), p # <<>>
          PROVE  Head(p) = (p \o q)[1] /\ Tail(p) \o q = Tail(p \o q)
      BY <3>1, FrontOf
    <3>2. /\ Head(parserQueue) = (parserQueue \o unanswered)[1]
          /\ Tail(parserQueue) \o unanswered = Tail(parserQueue \o unanswered)
      BY <1>2, <3>1
    <3>3. /\ Head(readQueue) = (readQueue \o writeQueue)[1]
          /\ Tail(readQueue) \o writeQueue = Tail(readQueue \o writeQueue)
      BY <1>2, <1>6, <3>1
    <3>4. QED
      BY <2>1, <2>4, <3>2, <3>3, Zenon
  <2>6. Result(t, t, stack)
    BY <2>2, <2>5
  <2>7. /\ Once(waitQueue) /\ Once(writeQueue) /\ Once(readQueue)
    BY DEF IInv, PlacedInv
  <2>8. /\ readQueue' \in Seq(Requests) /\ t \in Elements(readQueue) /\ Once(readQueue')
        /\ \A u : u \in Elements(readQueue') <=> u \in Elements(readQueue) /\ u # t
    BY <1>2, <1>6, <2>1, <2>2, <2>7, TailOnce
  <2>9. /\ t \notin Elements(waitQueue) /\ t \notin Elements(writeQueue) /\ result[t] = NoResult
        /\ t <= issued
    BY <2>8 DEF IInv, PlacedInv, Queued
  <2>10. /\ issued' \in 0 .. MaxRequests /\ waitQueue' = waitQueue /\ writeQueue' = writeQueue
         /\ \A u \in Requests : u <= issued' <=> u <= issued \/ u = t
    BY <1>2, <1>4, <2>9
  <2>11. /\ Has(stack, "writeLate") => closing /\ ~Has(stack, "close")
         /\ UNCHANGED <<reading, closing, closeVars, buffer, unanswered, released>>
    BY <1>1, <1>4, <2>2
  <2>12. TypeOK' /\ PlacedInv' /\ StackInv' /\ PhaseInv' /\ OwnResponse'
    <3>1. /\ \A u \in Requests : u \in Elements(waitQueue') <=> u \in Elements(waitQueue) /\ u # t
          /\ \A u \in Requests : u \in Elements(writeQueue') <=> u \in Elements(writeQueue) /\ u # t
          /\ \A u \in Requests : u \in Elements(readQueue') <=> u \in Elements(readQueue) /\ u # t
      BY <2>8, <2>9, <2>10
    <3>2. /\ Once(waitQueue') /\ Once(writeQueue')
          /\ (waitQueue = <<>> => waitQueue' = <<>>) /\ (readQueue = <<>> => readQueue' = <<>>)
          /\ waitQueue' \in Seq(Requests) /\ writeQueue' \in Seq(Requests)
      BY <1>2, <1>6, <2>7, <2>10
    <3>3. ~deleted /\ ~connecting /\ (onClose \/ closing)
      BY <1>1
    <3>4. stack \in Seq(Frames) /\ WellNested(stack)
      BY <1>2
    <3>5. QED
      BY <1>3, <2>6, <2>8, <2>9, <2>10, <2>11, <3>1, <3>2, <3>3, <3>4, ResultKeeps
  <2>13. OrderInv'
    BY <1>3, <1>4, <2>2, <2>5 DEF OrderInv
  <2>14. QED
    BY <2>12, <2>13 DEF IInv
<1>7. QED
  BY <1>5, <1>6

LEMMA FinishReadKeepsInv ==
  ASSUME IInv, FinishRead
  PROVE  IInv'
<1>1. Below(Callers) /\ (Bottom(stack, "writeFailed") => Bottom(Callers, "writeFailed"))
  BY CallersBelow DEF FinishRead
<1>2. QED
  BY <1>1, ReturnKeeps DEF FinishRead, userVars, IInv, TypeOK

LEMMA WriteCompletesKeepsInv ==
  ASSUME IInv, WriteCompletes
  PROVE  IInv'
<1>1. PICK ok \in BOOLEAN : OnTransactionWriteComplete(ok)
  BY DEF WriteCompletes
<1>2. /\ stack = <<>> /\ ~Has(stack, "close") /\ ~Bottom(stack, "writeFailed") /\ writeQueue # <<>>
      /\ ~deleted /\ ~connecting /\ (onClose \/ closing) /\ (closing => ~reading)
  BY <1>1, EmptyStack DEF OnTransactionWriteComplete, AtLoop, IInv, PhaseInv, Untouched
<1>3. /\ readQueue \in Seq(Requests) /\ writeQueue \in Seq(Requests) /\ waitQueue \in Seq(Requests)
      /\ parserQueue \in Seq(Requests) /\ issued \in 0 .. MaxRequests
      /\ Once(waitQueue) /\ Once(writeQueue) /\ Once(readQueue)
      /\ connecting \in BOOLEAN /\ closing \in BOOLEAN
  BY DEF IInv, TypeOK, PlacedInv
<1>4. PICK t \in Requests : t = Head(writeQueue)
  BY <1>2, <1>3, TailOnce
<1>5. /\ writeQueue' = Tail(writeQueue) /\ writeQueue' \in Seq(Requests) /\ Once(writeQueue')
      /\ t \in Elements(writeQueue)
      /\ \A u : u \in Elements(writeQueue') <=> u \in Elements(writeQueue) /\ u # t
  <2>1. writeQueue' = Tail(writeQueue)
    BY <1>1 DEF OnTransactionWriteComplete
  <2>2. QED
    BY <1>2, <1>3, <1>4, <2>1, TailOnce
<1>6. /\ t \notin Elements(waitQueue) /\ t \notin Elements(readQueue) /\ result[t] = NoResult
      /\ t <= issued
  BY <1>5 DEF IInv, PlacedInv, Queued
<1>7. UNCHANGED <<reading, closing, closeVars, readVars, waitQueue, unanswered, issued, released>>
  BY <1>1 DEF OnTransactionWriteComplete
<1>8. CASE ok /\ ~closing
  <2>1. readQueue' = Append(readQueue, t) /\ UNCHANGED <<stack, result>>
    BY <1>1, <1>4, <1>8 DEF OnTransactionWriteComplete
  <2>2. /\ readQueue' \in Seq(Requests) /\ Once(readQueue')
        /\ Elements(readQueue') = Elements(readQueue) \cup {t}
    BY <1>3, <1>6, <2>1, AppendOnce
  <2>3. TypeOK'
    BY <1>5, <1>7, <2>1, <2>2 DEF IInv, TypeOK, closeVars, uvVars, readVars
  <2>4. PlacedInv'
    <3>1. Queued' = Queued
      BY <1>5, <1>7, <2>2 DEF Queued
    <3>2. waitQueue' = waitQueue /\ issued' = issued /\ result' = result
      BY <1>7, <2>1
    <3>3. QED
      BY <1>5, <1>6, <2>2, <3>1, <3>2 DEF IInv, PlacedInv
  <2>5. StackInv'
    BY <1>7, <2>1, StackStays DEF IInv
  <2>6. PhaseInv'
    BY <1>2, <1>3, <1>7, <1>8, <2>1 DEF IInv, PhaseInv, closeVars, uvVars, readVars
  <2>7. OrderInv'
    <3>1. ASSUME NEW p \in Seq(Requests), NEW q \in Seq(Requests), q # <<>>
          PROVE  Append(p, Head(q)) \o Tail(q) = p \o q
      BY <3>1, MoveFront
    <3>2. readQueue' \o writeQueue' = readQueue \o writeQueue
      BY <1>2, <1>3, <1>4, <1>5, <2>1, <3>1
    <3>3. QED
      BY <1>2, <1>7, <1>8, <2>1, <3>2 DEF IInv, OrderInv, readVars
  <2>8. OwnResponse'
    BY <2>1 DEF IInv, OwnResponse
  <2>9. QED
    BY <2>3, <2>4, <2>5, <2>6, <2>7, <2>8 DEF IInv
<1>9. CASE ~(ok /\ ~closing)
  <2> DEFINE f == IF closing THEN "writeLate" ELSE "writeFailed"
             x == Frame(f)
  <2>1. Result(t, Failed, <<x>>) /\ UNCHANGED readQueue
    BY <1>1, <1>4, <1>9 DEF OnTransactionWriteComplete
  <2>2. x \in Frames /\ x.at = f /\ x.of = 0 /\ f \in {"writeLate", "writeFailed"}
    BY FramesAre
  <2> HIDE DEF x
  <2>3. PICK s : s = <<x>>
    OBVIOUS
  <2>4. s = Append(<<>>, x)
    BY <2>3
  <2>5. /\ Append(<<>>, x) \in Seq(Frames) /\ WellNested(Append(<<>>, x))
        /\ Append(<<>>, x) # <<>>
        /\ InCallback(Append(<<>>, x)) = InCallback(<<>>) \cup ({x.of} \ {0})
        /\ \A g : Has(Append(<<>>, x), g) <=> Has(<<>>, g) \/ x.at = g
        /\ \A g : Bottom(Append(<<>>, x), g) <=> Bottom(<<>>, g) \/ (<<>> = <<>> /\ x.at = g)
    BY <2>2, Push, EmptyStack
  <2>6. /\ s \in Seq(Frames) /\ WellNested(s) /\ InCallback(s) = InCallback(stack)
        /\ ~Has(s, "close") /\ s # <<>>
        /\ \A g : Has(s, g) <=> f = g
        /\ \A g : Bottom(s, g) <=> f = g
    BY <1>2, <2>2, <2>4, <2>5, EmptyStack
  <2>7. Has(s, "writeLate") => closing /\ ~Has(stack, "close")
    BY <1>2, <2>6
  <2>8. Has(s, "close") <=> Has(stack, "close")
    BY <1>2, <2>6
  <2>9. /\ readQueue' \in Seq(Requests) /\ waitQueue' \in Seq(Requests)
        /\ parserQueue' \in Seq(Requests)
        /\ Once(waitQueue') /\ Once(readQueue') /\ issued' \in 0 .. MaxRequests
        /\ waitQueue = <<>> => waitQueue' = <<>>
        /\ readQueue = <<>> => readQueue' = <<>>
    BY <1>3, <1>7, <2>1 DEF readVars
  <2>10. /\ \A u \in Requests : u \in Elements(waitQueue') <=> u \in Elements(waitQueue) /\ u # t
         /\ \A u \in Requests : u \in Elements(readQueue') <=> u \in Elements(readQueue) /\ u # t
         /\ \A u \in Requests : u <= issued' <=> u <= issued \/ u = t
    BY <1>6, <1>7, <2>1
  <2>11. UNCHANGED <<reading, closing, closeVars, buffer, unanswered, released>>
    BY <1>7 DEF readVars
  <2>12. Result(t, Failed, s)
    BY <2>1, <2>3
  <2>13. /\ TypeOK' /\ PlacedInv' /\ StackInv' /\ PhaseInv' /\ OwnResponse'
         /\ \A g : Bottom(stack', g) <=> Bottom(s, g) \/ (s = <<>> /\ g = "user")
    BY <1>2, <1>5, <1>6, <2>6, <2>7, <2>8, <2>9, <2>10, <2>11, <2>12, ResultKeeps
  <2>14. OrderInv'
    <3>1. closing' \/ Bottom(stack', "writeFailed")
      BY <1>3, <2>6, <2>11, <2>13
    <3>2. QED
      BY <3>1 DEF OrderInv
  <2>15. QED
    BY <2>13, <2>14 DEF IInv
<1>10. QED
  BY <1>8, <1>9

LEMMA CloseAfterFailureKeepsInv ==
  ASSUME IInv, CloseAfterFailure
  PROVE  IInv'
<1>1. Below(Callers) /\ ~connecting /\ (closing \/ onClosing)
  BY CallersBelow, Phases DEF CloseAfterFailure, Running
<1>2. /\ connecting \in BOOLEAN /\ buffer \in BOOLEAN /\ released \in BOOLEAN
      /\ parserQueue \in Seq(Requests) /\ unanswered \in Seq(Requests)
  BY DEF IInv, TypeOK
<1>3. QED
  BY <1>1, <1>2, CloseKeeps DEF CloseAfterFailure, closeVars, uvVars, readVars, userVars

LEMMA LastWriteOutKeepsInv ==
  ASSUME IInv, LastWriteOut
  PROVE  IInv'
<1>1. /\ stack # <<>> /\ Callers = <<>> /\ stack' = <<>> /\ Has(stack, "writeLate")
      /\ \A f : Has(stack, f) => f = "writeLate"
  BY CallersBelow, EmptyStack DEF LastWriteOut, Running
<1>2. closing /\ ~Has(stack, "close") /\ ~deleted /\ ~connecting /\ StackInv
  BY <1>1, Phases DEF IInv, StackInv
<1>3. UNCHANGED <<reading, closing, open, onClosing, uvVars, readVars, waitQueue,
                  writeQueue, readQueue, unanswered, userVars>>
  BY DEF LastWriteOut
<1>4. \/ ~open /\ writeQueue = <<>> /\ onClose' = FALSE /\ deleted' = TRUE
      \/ UNCHANGED <<onClose, deleted>>
  BY DEF LastWriteOut, RunOnClose
<1>5. TypeOK'
  BY <1>1, <1>3, <1>4, EmptyStack DEF IInv, TypeOK, uvVars, readVars, userVars
<1>6. PlacedInv'
  BY <1>3, PlacedStays DEF IInv, userVars
<1>7. StackInv'
  BY <1>1, EmptyStack DEF StackInv
<1>8. PhaseInv'
  BY <1>1, <1>2, <1>3, <1>4, EmptyStack DEF IInv, PhaseInv, uvVars, readVars
<1>9. OrderInv'
  BY <1>2, <1>3 DEF OrderInv
<1>10. OwnResponse'
  BY <1>3 DEF IInv, OwnResponse, userVars
<1>11. QED
  BY <1>5, <1>6, <1>7, <1>8, <1>9, <1>10 DEF IInv

LEMMA CloseFailsKeepsInv ==
  ASSUME IInv, CloseFails
  PROVE  IInv'
<1>1. /\ stack # <<>> /\ Has(stack, "close") /\ closing /\ ~deleted /\ ~connecting
      /\ ~Has(stack, "writeLate")
      /\ stack \in Seq(Frames) /\ WellNested(stack)
  BY CallersBelow, Phases DEF CloseFails, Running, IInv, TypeOK, StackInv
<1>2. /\ readQueue \in Seq(Requests) /\ writeQueue \in Seq(Requests) /\ waitQueue \in Seq(Requests)
      /\ parserQueue \in Seq(Requests) /\ issued \in 0 .. MaxRequests
      /\ Once(waitQueue) /\ Once(writeQueue) /\ Once(readQueue)
  BY DEF IInv, TypeOK, PlacedInv
<1>3. UNCHANGED <<reading, closing, closeVars, readVars, writeQueue, unanswered, issued, released>>
  BY DEF CloseFails
<1>4. /\ UNCHANGED <<reading, closing, closeVars, buffer, unanswered, released>>
      /\ UNCHANGED <<writeQueue, parserQueue, issued>>
  BY <1>3 DEF readVars
<1>5. ASSUME NEW t \in Requests, result[t] = NoResult, t <= issued, Result(t, Failed, stack),
             waitQueue' \in Seq(Requests), readQueue' \in Seq(Requests),
             Once(waitQueue'), Once(readQueue'), t \notin Elements(writeQueue),
             waitQueue = <<>> => waitQueue' = <<>>, readQueue = <<>> => readQueue' = <<>>,
             \A u \in Requests : u \in Elements(waitQueue') <=> u \in Elements(waitQueue) /\ u # t,
             \A u \in Requests : u \in Elements(readQueue') <=> u \in Elements(readQueue) /\ u # t
      PROVE  IInv'
  <2>1. /\ writeQueue' \in Seq(Requests) /\ parserQueue' \in Seq(Requests) /\ Once(writeQueue')
        /\ issued' \in 0 .. MaxRequests
        /\ \A u \in Requests : u \in Elements(writeQueue') <=> u \in Elements(writeQueue) /\ u # t
        /\ \A u \in Requests : u <= issued' <=> u <= issued \/ u = t
    BY <1>2, <1>4, <1>5
  <2>2. TypeOK' /\ PlacedInv' /\ StackInv' /\ PhaseInv' /\ OwnResponse'
    BY <1>1, <1>4, <1>5, <2>1, ResultKeeps
  <2>3. OrderInv'
    BY <1>1, <1>4 DEF OrderInv
  <2>4. QED
    BY <2>2, <2>3 DEF IInv
<1>6. CASE readQueue # <<>> /\ readQueue' = Tail(readQueue) /\ Result(Head(readQueue), Failed, stack)
           /\ UNCHANGED waitQueue
  <2>1. PICK t \in Requests : t = Head(readQueue)
    BY <1>2, <1>6, TailOnce
  <2>2. /\ readQueue' \in Seq(Requests) /\ Once(readQueue') /\ t \in Elements(readQueue)
        /\ \A u : u \in Elements(readQueue') <=> u \in Elements(readQueue) /\ u # t
    BY <1>2, <1>6, <2>1, TailOnce
  <2>3. /\ t \notin Elements(waitQueue) /\ t \notin Elements(writeQueue) /\ result[t] = NoResult
        /\ t <= issued
    BY <2>2 DEF IInv, PlacedInv, Queued
  <2>4. Result(t, Failed, stack)
    BY <1>6, <2>1
  <2>5. /\ waitQueue' \in Seq(Requests) /\ Once(waitQueue')
        /\ \A u \in Requests : u \in Elements(waitQueue') <=> u \in Elements(waitQueue) /\ u # t
        /\ (waitQueue = <<>> => waitQueue' = <<>>)
    BY <1>2, <1>6, <2>3
  <2>6. QED
    BY <1>5, <1>6, <2>2, <2>3, <2>4, <2>5
<1>7. CASE readQueue = <<>> /\ waitQueue # <<>> /\ waitQueue' = Tail(waitQueue)
           /\ Result(Head(waitQueue), Failed, stack) /\ UNCHANGED readQueue
  <2>1. PICK t \in Requests : t = Head(waitQueue)
    BY <1>2, <1>7, TailOnce
  <2>2. /\ waitQueue' \in Seq(Requests) /\ Once(waitQueue') /\ t \in Elements(waitQueue)
        /\ \A u : u \in Elements(waitQueue') <=> u \in Elements(waitQueue) /\ u # t
    BY <1>2, <1>7, <2>1, TailOnce
  <2>3. /\ t \notin Elements(readQueue) /\ t \notin Elements(writeQueue) /\ result[t] = NoResult
        /\ t <= issued
    BY <2>2 DEF IInv, PlacedInv, Queued
  <2>4. Result(t, Failed, stack)
    BY <1>7, <2>1
  <2>5. /\ readQueue' \in Seq(Requests) /\ Once(readQueue') /\ (readQueue = <<>> => readQueue' = <<>>)
        /\ \A u \in Requests : u \in Elements(readQueue') <=> u \in Elements(readQueue) /\ u # t
    BY <1>2, <1>7, <2>3
  <2>6. QED
    BY <1>5, <1>7, <2>2, <2>3, <2>4, <2>5
<1>8. QED
  BY <1>6, <1>7 DEF CloseFails

LEMMA FinishCloseKeepsInv ==
  ASSUME IInv, FinishClose
  PROVE  IInv'
<1>1. /\ stack # <<>> /\ Has(stack, "close") /\ closing /\ ~deleted /\ ~connecting
      /\ open /\ readQueue = <<>> /\ waitQueue = <<>> /\ ~Has(stack, "writeLate")
      /\ stack' = Callers /\ Callers \in Seq(Frames) /\ WellNested(Callers)
      /\ InCallback(Callers) = InCallback(stack)
      /\ ~Has(Callers, "close") /\ ~Has(Callers, "writeLate")
  BY CallersBelow, Phases DEF FinishClose, Running, IInv, StackInv, PhaseInv
<1>2. /\ onClosing' = FALSE /\ reading' = FALSE /\ uvClosing' = TRUE
      /\ UNCHANGED <<closing, open, onClose, deleted, connecting, readVars,
                     waitQueue, writeQueue, readQueue, unanswered, userVars>>
  BY DEF FinishClose
<1>3. TypeOK'
  BY <1>1, <1>2 DEF IInv, TypeOK, readVars, userVars
<1>4. PlacedInv'
  BY <1>2, PlacedStays DEF IInv, userVars
<1>5. StackInv'
  BY <1>1, <1>2 DEF IInv, StackInv, userVars
<1>6. PhaseInv'
  BY <1>1, <1>2 DEF IInv, PhaseInv
<1>7. OrderInv'
  BY <1>1, <1>2 DEF OrderInv
<1>8. OwnResponse'
  BY <1>2 DEF IInv, OwnResponse, userVars
<1>9. QED
  BY <1>3, <1>4, <1>5, <1>6, <1>7, <1>8 DEF IInv

LEMMA OnUvCloseKeepsInv ==
  ASSUME IInv, OnUvClose
  PROVE  IInv'
<1>1. /\ stack = <<>> /\ ~Has(stack, "close") /\ closing /\ ~connecting /\ uvClosing
      /\ readQueue = <<>> /\ waitQueue = <<>> /\ ~onClosing /\ ~reading
  BY EmptyStack, Phases DEF OnUvClose, AtLoop, IInv, PhaseInv
<1>2. /\ uvClosing' = FALSE /\ open' = FALSE
      /\ UNCHANGED <<reading, closing, onClosing, connecting, readVars, waitQueue,
                     writeQueue, readQueue, stack, unanswered, userVars>>
      /\ \/ writeQueue = <<>> /\ onClose' = FALSE /\ deleted' = TRUE
         \/ UNCHANGED <<onClose, deleted>>
  BY DEF OnUvClose, RunOnClose
<1>3. TypeOK'
  BY <1>2 DEF IInv, TypeOK, readVars, userVars
<1>4. PlacedInv'
  BY <1>2, PlacedStays DEF IInv, userVars
<1>5. StackInv'
  BY <1>2, StackStays DEF IInv, userVars
<1>6. PhaseInv'
  BY <1>1, <1>2 DEF IInv, PhaseInv, readVars
<1>7. OrderInv'
  BY <1>1, <1>2 DEF OrderInv
<1>8. OwnResponse'
  BY <1>2 DEF IInv, OwnResponse, userVars
<1>9. QED
  BY <1>3, <1>4, <1>5, <1>6, <1>7, <1>8 DEF IInv

-----------------------------------------------------------------------------
(* The theorems.                                                           *)

LEMMA InitInv ==
  ASSUME Init
  PROVE  IInv
<1>1. TypeOK
  <2>1. <<>> \in Seq(Requests) /\ 0 \in 0 .. MaxRequests
    BY MaxRequestsAssumption, EmptySeq
  <2>2. result \in [Requests -> {NoResult, Failed} \cup Requests]
    BY DEF Init
  <2>3. QED
    BY <2>1, <2>2, EmptyStack DEF Init, TypeOK
<1>2. PlacedInv
  <2>1. Queued = {}
    BY EmptyElements DEF Init, Queued
  <2>2. \A t \in Requests : ~(t <= issued) /\ result[t] = NoResult
    BY DEF Init, Requests
  <2>3. QED
    BY <2>1, <2>2, EmptyElements DEF Init, PlacedInv
<1>3. StackInv
  BY EmptyStack DEF Init, StackInv
<1>4. PhaseInv
  BY EmptyStack DEF Init, PhaseInv, Untouched
<1>5. OrderInv
  BY DEF Init, OrderInv
<1>6. OwnResponse
  BY DEF Init, OwnResponse
<1>7. QED
  BY <1>1, <1>2, <1>3, <1>4, <1>5, <1>6 DEF IInv

LEMMA NextInv ==
  ASSUME IInv, [Next]_vars
  PROVE  IInv'
<1>1. CASE Next
  <2>1. ASSUME Runs PROVE IInv'
    BY <2>1, DrainKeepsInv, TakeResponseKeepsInv, FinishReadKeepsInv, CloseAfterFailureKeepsInv,
       LastWriteOutKeepsInv, CloseFailsKeepsInv, FinishCloseKeepsInv DEF Runs
  <2>2. QED
    BY <1>1, <2>1, InitSyncKeepsInv, InitAsyncKeepsInv, OnConnectKeepsInv, AsyncProcessKeepsInv,
       UserReturnsKeepsInv, ReleaseKeepsInv, OwnerClosesLaterKeepsInv, ReadKeepsInv,
       WriteCompletesKeepsInv, OnUvCloseKeepsInv DEF Next
<1>2. CASE UNCHANGED vars
  <2> USE <1>2 DEF vars, closeVars, uvVars, readVars, userVars
  <2>1. TypeOK'
    BY DEF IInv, TypeOK
  <2>2. PlacedInv'
    BY PlacedStays DEF IInv
  <2>3. StackInv'
    BY StackStays DEF IInv
  <2>4. PhaseInv'
    BY DEF IInv, PhaseInv, Untouched
  <2>5. OrderInv'
    BY OrderStays DEF IInv
  <2>6. OwnResponse'
    BY DEF IInv, OwnResponse
  <2>7. QED
    BY <2>1, <2>2, <2>3, <2>4, <2>5, <2>6 DEF IInv
<1>3. QED
  BY <1>1, <1>2

\* IInv holds in every reachable state.
THEOREM Inductive == Spec => []IInv
<1>1. Init => IInv
  BY InitInv
<1>2. IInv /\ [Next]_vars => IInv'
  BY NextInv
<1>3. QED
  BY <1>1, <1>2, PTL DEF Spec

\* Every variable has its type, for any number of requests.
THEOREM TypeCorrect == Spec => []TypeOK
<1>1. IInv => TypeOK
  BY DEF IInv
<1>2. QED
  BY <1>1, Inductive, PTL

\* A transaction without a result is owned by exactly one queue, and one with a
\* result by none, however the callbacks nest, and wherever Close, OnConnect,
\* OnRead and OnTransactionWriteComplete are in their loops.
THEOREM NoneLost == Spec => []HeldUntilResult
<1>1. ASSUME IInv
      PROVE  HeldUntilResult
  <2>1. /\ waitQueue \in Seq(Requests) /\ writeQueue \in Seq(Requests) /\ readQueue \in Seq(Requests)
        /\ Once(waitQueue) /\ Once(writeQueue) /\ Once(readQueue)
    BY <1>1 DEF IInv, TypeOK, PlacedInv
  <2>2. ASSUME NEW t \in 1 .. issued
        PROVE  Held(t) = IF result[t] = NoResult THEN 1 ELSE 0
    <3>1. t \in Requests /\ t <= issued
      BY <1>1, MaxRequestsAssumption DEF IInv, TypeOK, Requests
    <3>2. ASSUME NEW q \in Seq(Requests), Once(q)
          PROVE  Cardinality({i \in 1 .. Len(q) : q[i] = t}) = IF t \in Elements(q) THEN 1 ELSE 0
      BY <3>2, OnceCounts
    <3>3. Held(t) = (IF t \in Elements(waitQueue) THEN 1 ELSE 0)
                      + (IF t \in Elements(writeQueue) THEN 1 ELSE 0)
                      + (IF t \in Elements(readQueue) THEN 1 ELSE 0)
      BY <2>1, <3>2 DEF Held
    <3>4. /\ t \in Elements(waitQueue) => t \notin Elements(writeQueue)
          /\ t \in Elements(waitQueue) => t \notin Elements(readQueue)
          /\ t \in Elements(writeQueue) => t \notin Elements(readQueue)
          /\ t \in Elements(waitQueue) \/ t \in Elements(writeQueue) \/ t \in Elements(readQueue)
               <=> result[t] = NoResult
      BY <1>1, <3>1 DEF IInv, PlacedInv, Queued
    <3>5. QED
      BY <3>3, <3>4
  <2>3. QED
    BY <2>2 DEF HeldUntilResult
<1>2. QED
  BY <1>1, Inductive, PTL

\* A response goes to the transaction whose request it answers.
THEOREM Matched == Spec => []OwnResponse
<1>1. IInv => OwnResponse
  BY DEF IInv
<1>2. QED
  BY <1>1, Inductive, PTL

\* The assertions of the code hold whenever they may be reached.
THEOREM AssertionsSafe == Spec => []AssertionsHold
<1>1. ASSUME IInv
      PROVE  AssertionsHold
  <2>1. TypeOK
    BY <1>1 DEF IInv
  <2>2. connecting => onClosing /\ onClose
    BY <1>1 DEF IInv, PhaseInv
  <2>3. ~closing /\ onClose => open /\ onClosing
    BY <1>1 DEF IInv, PhaseInv
  <2>4. Running("close") => open /\ onClosing /\ onClose
    BY <1>1, CallersBelow DEF IInv, PhaseInv
  <2>5. reading /\ AtLoop => ~buffer
    BY <1>1, Phases DEF IInv, PhaseInv, AtLoop
  <2>6. uvClosing => open
    BY <1>1 DEF IInv, PhaseInv
  <2>7. ASSUME deleted
        PROVE  /\ AtLoop /\ ~connecting /\ ~uvClosing /\ Live = {}
               /\ ~open /\ ~reading /\ ~onClosing /\ ~onClose
    <3>1. /\ ~open /\ ~onClose /\ stack = <<>> /\ writeQueue = <<>>
          /\ ~onClosing /\ ~reading /\ ~uvClosing /\ waitQueue = <<>> /\ readQueue = <<>>
          /\ ~connecting
      BY <1>1, <2>7, Phases DEF IInv, PhaseInv
    <3>2. Live = {}
      BY <3>1, EmptyElements, EmptyStack DEF Live
    <3>3. QED
      BY <3>1, <3>2 DEF AtLoop
  <2>8. QED
    BY <2>1, <2>2, <2>3, <2>4, <2>5, <2>6, <2>7 DEF AssertionsHold
<1>2. QED
  BY <1>1, Inductive, PTL

-----------------------------------------------------------------------------
(* The promise to the group.                                               *)

\* A transaction is alive while it has no result, or its on_response runs.
LiveInv ==
  /\ Live = {t \in Requests : t <= issued /\ result[t] = NoResult} \cup InCallback(stack)
  /\ Live \subseteq Requests
  /\ \A t \in Requests : t > issued => t \notin Live

LEMMA LiveIs == IInv => LiveInv
<1> SUFFICES ASSUME IInv
             PROVE  LiveInv
  OBVIOUS
<1>1. /\ waitQueue \in Seq(Requests) /\ writeQueue \in Seq(Requests) /\ readQueue \in Seq(Requests)
      /\ stack \in Seq(Frames)
  BY DEF IInv, TypeOK
<1>2. /\ Elements(waitQueue) \subseteq Requests /\ Elements(writeQueue) \subseteq Requests
      /\ Elements(readQueue) \subseteq Requests
  BY <1>1, ElementsAre
<1>3. Queued = {t \in Requests : t <= issued /\ result[t] = NoResult}
  BY <1>2 DEF IInv, PlacedInv, Queued
<1>4. Live = Queued \cup InCallback(stack)
  BY DEF Live, Queued
<1>5. InCallback(stack) \subseteq Requests
  BY <1>1, InCallbackRequests
<1>6. ASSUME NEW t \in Requests, t > issued
      PROVE  t \notin Live
  <2>1. result[t] = NoResult /\ ~(t <= issued)
    BY <1>6 DEF IInv, PlacedInv, TypeOK, Requests
  <2>2. t \notin InCallback(stack)
    BY <2>1 DEF IInv, StackInv
  <2>3. QED
    BY <1>3, <1>4, <2>1, <2>2
<1>7. QED
  BY <1>3, <1>4, <1>5, <1>6 DEF LiveInv

LEMMA LiveIsNext == IInv' => LiveInv'
BY LiveIs, PTL

LEMMA LiveStays ==
  ASSUME IInv, IInv', UNCHANGED <<issued, result>>, InCallback(stack') = InCallback(stack)
  PROVE  Live' = Live
BY LiveIs, LiveIsNext DEF LiveInv

\* A transaction that had no result, and may be the next one, gets one: it is alive,
\* and no other transaction comes or goes.
LEMMA LiveResult ==
  ASSUME IInv, IInv', NEW t \in Requests,
         InCallback(stack') = InCallback(stack) \cup {t},
         \A u \in Requests : u <= issued' <=> u <= issued \/ u = t,
         result'[t] # NoResult, \A u \in Requests : u # t => result'[u] = result[u]
  PROVE  Live' = Live \cup {t}
BY LiveIs, LiveIsNext DEF LiveInv

\* The same when it is put into a queue.
LEMMA LiveQueued ==
  ASSUME IInv, IInv', NEW t \in Requests, UNCHANGED <<stack, result>>, result[t] = NoResult,
         \A u \in Requests : u <= issued' <=> u <= issued \/ u = t
  PROVE  Live' = Live \cup {t}
BY LiveIs, LiveIsNext DEF LiveInv

LEMMA LiveWritten ==
  ASSUME IInv, IInv', NEW t \in Requests, Write(t, stack), result[t] = NoResult,
         \A u \in Requests : u <= issued' <=> u <= issued \/ u = t
  PROVE  Live' = Live \cup {t}
<1>1. /\ t \notin InCallback(stack) /\ stack \in Seq(Frames) /\ WellNested(stack)
  BY DEF IInv, TypeOK, StackInv
<1>2. CASE Result(t, Failed, stack) \/ Result(t, Failed, Append(stack, Frame("writeFailed")))
  <2>1. /\ InCallback(stack') = InCallback(stack) \cup {t}
        /\ result'[t] = Failed /\ Failed # NoResult
        /\ \A u \in Requests : u # t => result'[u] = result[u]
    BY <1>1, <1>2, FailStep DEF IInv
  <2>2. QED
    BY <2>1, LiveResult
<1>3. CASE stack' = stack /\ UNCHANGED result
  BY <1>3, LiveQueued
<1>4. QED
  BY <1>2, <1>3 DEF Write

\* The steps that the group sees nothing of.
LEMMA Stutters ==
  ASSUME Live' = Live, UNCHANGED <<deleted, onClosing, connecting>>,
         closing' = closing \/ onClosing
  PROVE  UNCHANGED Contract!vars
BY DEF Contract!vars

LEMMA WhileOpen ==
  ASSUME IInv
  PROVE  /\ deleted \in BOOLEAN /\ onClosing \in BOOLEAN /\ connecting \in BOOLEAN
         /\ closing \in BOOLEAN /\ issued \in Nat
         /\ onClosing => ~deleted
         /\ stack # <<>> => ~deleted /\ ~connecting /\ (~closing => onClosing)
BY Phases DEF IInv, TypeOK

\* AsyncProcess takes the next transaction.
LEMMA AsyncProcessTakes ==
  ASSUME IInv, IInv', AsyncProcess
  PROVE  Contract!Next
<1>1. PICK t : t = issued + 1
  OBVIOUS
<1>2. /\ onClosing /\ ~deleted /\ issued < MaxRequests /\ issued \in Nat
      /\ UNCHANGED <<deleted, onClosing, connecting>> /\ UNCHANGED closing
  BY WhileOpen DEF AsyncProcess, closeVars, uvVars
<1>3. /\ t \in Requests /\ t > issued
      /\ \A u \in Requests : u <= issued' <=> u <= issued \/ u = t
  BY <1>1, <1>2, MaxRequestsAssumption DEF AsyncProcess, Requests
<1>4. result[t] = NoResult
  BY <1>3 DEF IInv, PlacedInv
<1>5. t \notin Live
  BY <1>3, LiveIs DEF LiveInv
<1>6. Live' = Live \cup {t}
  <2>1. CASE Result(t, Failed, stack)
    <3>1. /\ t \notin InCallback(stack) /\ stack \in Seq(Frames) /\ WellNested(stack)
          /\ Result(t, Failed, stack) \/ Result(t, Failed, Append(stack, Frame("writeFailed")))
      BY <1>4, <2>1 DEF IInv, TypeOK, StackInv
    <3>2. /\ InCallback(stack') = InCallback(stack) \cup {t}
          /\ result'[t] = Failed /\ Failed # NoResult
          /\ \A u \in Requests : u # t => result'[u] = result[u]
      BY <1>3, <3>1, FailStep DEF IInv
    <3>3. QED
      BY <1>3, <3>2, LiveResult
  <2>2. CASE UNCHANGED <<result, stack>>
    BY <1>3, <1>4, <2>2, LiveQueued
  <2>3. CASE Write(t, stack)
    BY <1>3, <1>4, <2>3, LiveWritten
  <2>4. QED
    BY <1>1, <2>1, <2>2, <2>3 DEF AsyncProcess
<1>7. Contract!Take(t)
  BY <1>2, <1>5, <1>6 DEF Contract!Take
<1>8. QED
  BY <1>3, <1>7 DEF Contract!Next

\* The transaction whose on_response returns ends.
LEMMA UserReturnsEnds ==
  ASSUME IInv, IInv', UserReturns
  PROVE  Contract!Next
<1>1. PICK t \in Requests : t \in InCallback(stack) /\ InCallback(Callers) = InCallback(stack) \ {t}
  BY CallersBelow DEF UserReturns
<1>2. /\ ~connecting /\ UNCHANGED <<deleted, onClosing, connecting, issued, result>>
  BY WhileOpen DEF UserReturns, Running, closeVars, uvVars, userVars
<1>3. /\ InCallback(stack') = InCallback(Callers) /\ closing' \in {closing, TRUE}
      /\ closing' # closing => onClosing
  <2>1. CASE stack' = Callers /\ UNCHANGED closing
    BY <2>1
  <2>2. CASE onClosing /\ Close(Callers)
    <3>1. Below(Callers)
      BY CallersBelow DEF UserReturns
    <3>2. closing' = TRUE /\ InCallback(stack') = InCallback(Callers)
      BY <2>2, <3>1, CloseStep DEF IInv, StackInv, Below
    <3>3. QED
      BY <2>2, <3>2
  <2>3. QED
    BY <2>1, <2>2 DEF UserReturns, OwnerCloses
<1>4. t \in Live /\ Live' = Live \ {t}
  <2>1. result[t] # NoResult
    BY <1>1 DEF IInv, StackInv
  <2>2. QED
    BY <1>1, <1>2, <1>3, <2>1, LiveIs, LiveIsNext DEF LiveInv
<1>5. Contract!End(t)
  BY <1>2, <1>3, <1>4, WhileOpen DEF Contract!End, Contract!MayEnd
<1>6. QED
  BY <1>5 DEF Contract!Next

\* The setup of the connection.
LEMMA SetupSteps ==
  ASSUME IInv, IInv', InitSync \/ InitAsync \/ OnConnect
  PROVE  Contract!Next \/ UNCHANGED Contract!vars
<1>1. CASE InitSync
  <2>1. /\ ~deleted /\ ~closing /\ ~onClosing /\ Live' = Live
        /\ UNCHANGED <<closing, onClosing, connecting>>
    <3>1. ~deleted /\ ~closing /\ ~onClosing
      BY <1>1 DEF InitSync, IInv, PhaseInv, Untouched
    <3>2. /\ UNCHANGED <<closing, onClosing, connecting>>
          /\ UNCHANGED <<waitQueue, writeQueue, readQueue, stack>>
      BY <1>1 DEF InitSync, uvVars
    <3>3. QED
      BY <3>1, <3>2 DEF Live
  <2>2. deleted' = TRUE \/ UNCHANGED deleted
    BY <1>1 DEF InitSync
  <2>3. CASE deleted' = TRUE
    BY <2>1, <2>3 DEF Contract!Next, Contract!Drop
  <2>4. CASE UNCHANGED deleted
    BY <2>1, <2>4 DEF Contract!vars
  <2>5. QED
    BY <2>2, <2>3, <2>4
<1>2. CASE InitAsync
  <2>1. ~deleted /\ ~deleted' /\ ~closing /\ ~onClosing /\ onClosing' /\ connecting' \in BOOLEAN
    BY <1>2, WhileOpen DEF InitAsync, IInv, TypeOK, PhaseInv, Untouched
  <2>2. Live' \in SUBSET Requests
    BY LiveIsNext DEF LiveInv
  <2>3. Contract!Start(Live')
    BY <2>1 DEF Contract!Start
  <2>4. QED
    BY <2>2, <2>3 DEF Contract!Next
<1>3. CASE OnConnect
  <2>1. /\ connecting /\ connecting' = FALSE /\ stack = <<>> /\ onClosing /\ ~deleted
        /\ UNCHANGED <<deleted, onClosing, issued, result>>
    BY <1>3, WhileOpen DEF OnConnect, AtLoop, IInv, PhaseInv, userVars
  <2>2. InCallback(stack') = InCallback(stack)
    <3>1. CASE Close(<<>>)
      BY <2>1, <3>1, CloseStep, EmptyStack DEF IInv
    <3>2. CASE stack' = <<Frame("drain")>>
      <4>1. stack'[1].of = 0 /\ Len(stack') = 1
        BY <3>2, FramesAre
      <4>2. InCallback(stack') = {}
        BY <4>1 DEF InCallback
      <4>3. QED
        BY <2>1, <4>2, EmptyStack
    <3>3. QED
      BY <1>3, <3>1, <3>2 DEF OnConnect
  <2>3. Live' = Live
    BY <2>1, <2>2, LiveStays
  <2>4. Contract!Connected
    BY <2>1, <2>3 DEF Contract!Connected
  <2>5. QED
    BY <2>4 DEF Contract!Next
<1>4. QED
  BY <1>1, <1>2, <1>3

\* Functions that close the connection, or only return: on_closing runs later.
LEMMA CloseStutters ==
  ASSUME IInv, IInv', NEW s, Below(s), InCallback(s) = InCallback(stack),
         (stack' = s /\ UNCHANGED closing) \/ (Close(s) /\ (closing \/ onClosing)),
         UNCHANGED <<deleted, onClosing, connecting>>, UNCHANGED <<issued, result>>
  PROVE  UNCHANGED Contract!vars
<1>1. CASE stack' = s /\ UNCHANGED closing
  BY <1>1, LiveStays DEF Contract!vars
<1>2. CASE Close(s) /\ (closing \/ onClosing)
  <2>1. closing' = TRUE /\ InCallback(stack') = InCallback(s)
    BY <1>2, CloseStep DEF IInv, StackInv, Below
  <2>2. Live' = Live
    BY <2>1, LiveStays
  <2>3. closing' = (closing \/ onClosing)
    BY <1>2, <2>1, WhileOpen
  <2>4. QED
    BY <2>2, <2>3, Stutters
<1>3. QED
  BY <1>1, <1>2

LEMMA OwnerStutters ==
  ASSUME IInv, IInv', Release \/ OwnerClosesLater
  PROVE  UNCHANGED Contract!vars
<1>1. /\ Below(stack) /\ UNCHANGED <<deleted, onClosing, connecting>>
      /\ UNCHANGED <<issued, result>>
  BY StackBelow DEF Release, OwnerClosesLater, closeVars, uvVars, userVars
<1>2. (stack' = stack /\ UNCHANGED closing) \/ (Close(stack) /\ (closing \/ onClosing))
  BY DEF Release, OwnerClosesLater, OwnerCloses, AtLoop
<1>3. QED
  BY <1>1, <1>2, CloseStutters

LEMMA ReadStutters ==
  ASSUME IInv, IInv', Read
  PROVE  UNCHANGED Contract!vars
<1>1. /\ stack = <<>> /\ Below(stack) /\ onClosing
      /\ UNCHANGED <<deleted, onClosing, connecting>> /\ UNCHANGED <<issued, result>>
  BY StackBelow, Phases
  DEF Read, ReadEof, ReadFailure, ReadResponses, AtLoop, closeVars, uvVars, userVars
<1>2. CASE Close(stack)
  BY <1>1, <1>2, CloseStutters
<1>3. CASE stack' = <<Frame("read")>> /\ UNCHANGED closing
  <2>1. stack'[1].of = 0 /\ Len(stack') = 1
    BY <1>3, FramesAre
  <2>2. InCallback(stack') = {}
    BY <2>1 DEF InCallback
  <2>3. Live' = Live
    BY <1>1, <2>2, EmptyStack, LiveStays
  <2>4. QED
    BY <1>1, <1>3, <2>3 DEF Contract!vars
<1>4. QED
  BY <1>1, <1>2, <1>3 DEF Read, ReadEof, ReadFailure, ReadResponses

LEMMA ReturnStutters ==
  ASSUME IInv, IInv', FinishRead \/ CloseAfterFailure
  PROVE  UNCHANGED Contract!vars
<1>1. /\ Below(Callers) /\ InCallback(Callers) = InCallback(stack) /\ (closing \/ onClosing)
      /\ UNCHANGED <<deleted, onClosing, connecting>> /\ UNCHANGED <<issued, result>>
  BY CallersBelow, WhileOpen
  DEF FinishRead, CloseAfterFailure, Running, closeVars, uvVars, userVars
<1>2. (stack' = Callers /\ UNCHANGED closing) \/ (Close(Callers) /\ (closing \/ onClosing))
  BY <1>1 DEF FinishRead, CloseAfterFailure
<1>3. QED
  BY <1>1, <1>2, CloseStutters

\* A transaction of a queue gets its result, or moves to the next queue.
LEMMA ResultStutters ==
  ASSUME IInv, IInv', NEW t \in Requests, t \in Queued,
         InCallback(stack') = InCallback(stack) \cup {t},
         result'[t] # NoResult, \A u \in Requests : u # t => result'[u] = result[u],
         UNCHANGED <<deleted, onClosing, connecting>>, UNCHANGED closing, UNCHANGED issued
  PROVE  UNCHANGED Contract!vars
<1>1. t <= issued /\ t \in Live
  BY DEF IInv, PlacedInv, Queued, Live
<1>2. \A u \in Requests : u <= issued' <=> u <= issued \/ u = t
  BY <1>1
<1>3. Live' = Live
  BY <1>1, <1>2, LiveResult
<1>4. QED
  BY <1>3 DEF Contract!vars

LEMMA QueueStutters ==
  ASSUME IInv, IInv', Drain \/ TakeResponse \/ WriteCompletes \/ CloseFails
  PROVE  UNCHANGED Contract!vars
<1>1. /\ stack \in Seq(Frames) /\ WellNested(stack)
      /\ waitQueue \in Seq(Requests) /\ writeQueue \in Seq(Requests) /\ readQueue \in Seq(Requests)
      /\ parserQueue \in Seq(Requests)
  BY DEF IInv, TypeOK, StackInv
<1>2. UNCHANGED <<deleted, onClosing, connecting>> /\ UNCHANGED issued
  BY DEF Drain, TakeResponse, WriteCompletes, OnTransactionWriteComplete, CloseFails, closeVars, uvVars
<1>3. ASSUME NEW q \in Seq(Requests), q # <<>>, Elements(q) \subseteq Queued
      PROVE  \E t \in Requests : /\ t = Head(q) /\ t \in Queued /\ result[t] = NoResult
                                 /\ t \notin InCallback(stack)
  <2>1. Head(q) \in Requests /\ Head(q) \in Elements(q)
    BY <1>3, TailOnce
  <2>2. result[Head(q)] = NoResult
    BY <1>3, <2>1 DEF IInv, PlacedInv
  <2>3. QED
    BY <1>3, <2>1, <2>2 DEF IInv, StackInv
<1>4. /\ Elements(waitQueue) \subseteq Queued /\ Elements(writeQueue) \subseteq Queued
      /\ Elements(readQueue) \subseteq Queued
  BY DEF Queued
<1>5. ASSUME NEW s \in Seq(Frames), WellNested(s), InCallback(s) = InCallback(stack),
             NEW t \in Requests, t \in Queued, t \notin InCallback(stack),
             NEW r \in {Failed} \cup Requests, Result(t, r, s), UNCHANGED closing
      PROVE  UNCHANGED Contract!vars
  <2>1. t \notin InCallback(s)
    BY <1>5
  <2>2. /\ InCallback(stack') = InCallback(s) \cup {t}
        /\ result'[t] = r /\ r # NoResult
        /\ \A u \in Requests : u # t => result'[u] = result[u]
    BY <1>5, <2>1, ResultStep DEF IInv
  <2>3. QED
    BY <1>2, <1>5, <2>2, ResultStutters
<1>6. CASE Drain
  <2>1. UNCHANGED closing /\ Running("drain")
    BY <1>6 DEF Drain
  <2>2. CASE waitQueue = <<>>
    <3>1. /\ Below(Callers) /\ InCallback(Callers) = InCallback(stack)
          /\ stack' = Callers /\ UNCHANGED result
      BY <1>6, <2>1, <2>2, CallersBelow DEF Drain
    <3>2. QED
      BY <1>2, <2>1, <3>1, CloseStutters
  <2>3. CASE waitQueue # <<>>
    <3>1. PICK t \in Requests : /\ t = Head(waitQueue) /\ t \in Queued /\ result[t] = NoResult
                                /\ t \notin InCallback(stack)
      BY <1>1, <1>3, <1>4, <2>3
    <3>2. Write(t, stack)
      BY <1>6, <2>3, <3>1 DEF Drain
    <3>3. t <= issued /\ t \in Live
      BY <3>1 DEF IInv, PlacedInv, Queued, Live
    <3>4. \A u \in Requests : u <= issued' <=> u <= issued \/ u = t
      BY <1>2, <3>3
    <3>5. Live' = Live
      BY <3>1, <3>2, <3>3, <3>4, LiveWritten
    <3>6. QED
      BY <1>2, <2>1, <3>5 DEF Contract!vars
  <2>4. QED
    BY <2>2, <2>3
<1>7. CASE TakeResponse
  <2>1. Running("read") /\ parserQueue # <<>>
    BY <1>7 DEF TakeResponse
  <2>2. CASE readQueue = <<>>
    <3>1. /\ Below(Callers) /\ InCallback(Callers) = InCallback(stack) /\ (closing \/ onClosing)
          /\ Close(Callers) /\ UNCHANGED result
      BY <1>7, <2>1, <2>2, CallersBelow, WhileOpen DEF TakeResponse, Running
    <3>2. QED
      BY <1>2, <3>1, CloseStutters
  <2>3. CASE readQueue # <<>>
    <3>1. PICK t \in Requests : /\ t = Head(readQueue) /\ t \in Queued /\ result[t] = NoResult
                                /\ t \notin InCallback(stack)
      BY <1>1, <1>3, <1>4, <2>3
    <3>2. Result(t, Head(parserQueue), stack) /\ UNCHANGED closing
      BY <1>7, <2>3, <3>1 DEF TakeResponse
    <3>3. Head(parserQueue) \in Requests
      BY <1>1, <2>1, TailOnce
    <3>4. QED
      BY <1>1, <1>5, <3>1, <3>2, <3>3
  <2>4. QED
    BY <2>2, <2>3
<1>8. CASE WriteCompletes
  <2>1. PICK ok \in BOOLEAN : OnTransactionWriteComplete(ok)
    BY <1>8 DEF WriteCompletes
  <2>2. /\ stack = <<>> /\ writeQueue # <<>> /\ UNCHANGED closing
    BY <2>1 DEF OnTransactionWriteComplete, AtLoop
  <2>3. CASE UNCHANGED <<stack, result>>
    <3>1. Live' = Live
      BY <1>2, <2>3, LiveStays
    <3>2. QED
      BY <1>2, <2>2, <3>1 DEF Contract!vars
  <2>4. CASE ~(ok /\ ~closing)
    <3> DEFINE f == IF closing THEN "writeLate" ELSE "writeFailed"
               x == Frame(f)
    <3>1. PICK t \in Requests : /\ t = Head(writeQueue) /\ t \in Queued /\ result[t] = NoResult
                                /\ t \notin InCallback(stack)
      BY <1>1, <1>3, <1>4, <2>2
    <3>2. x \in Frames /\ x.of = 0 /\ x.at \in {"writeLate", "writeFailed"}
      BY FramesAre
    <3>3. Result(t, Failed, <<x>>)
      BY <2>1, <2>4, <3>1 DEF OnTransactionWriteComplete
    <3> HIDE DEF x
    <3>4. PICK s : s = <<x>>
      OBVIOUS
    <3>5. s = Append(<<>>, x)
      BY <3>4
    <3>6. /\ Append(<<>>, x) \in Seq(Frames) /\ WellNested(Append(<<>>, x))
          /\ InCallback(Append(<<>>, x)) = InCallback(<<>>) \cup ({x.of} \ {0})
      BY <3>2, Push, EmptyStack
    <3>7. s \in Seq(Frames) /\ WellNested(s) /\ InCallback(s) = InCallback(stack)
      BY <2>2, <3>2, <3>5, <3>6, EmptyStack
    <3>8. Result(t, Failed, s) /\ Failed \in {Failed} \cup Requests
      BY <3>3, <3>4
    <3>9. QED
      BY <1>5, <2>2, <3>1, <3>7, <3>8
  <2>5. QED
    BY <2>1, <2>3, <2>4 DEF OnTransactionWriteComplete
<1>9. CASE CloseFails
  <2>1. UNCHANGED closing
    BY <1>9 DEF CloseFails
  <2>2. CASE readQueue # <<>> /\ Result(Head(readQueue), Failed, stack)
    <3>1. PICK t \in Requests : /\ t = Head(readQueue) /\ t \in Queued /\ result[t] = NoResult
                                /\ t \notin InCallback(stack)
      BY <1>1, <1>3, <1>4, <2>2
    <3>2. Result(t, Failed, stack) /\ Failed \in {Failed} \cup Requests
      BY <2>2, <3>1
    <3>3. QED
      BY <1>1, <1>5, <2>1, <3>1, <3>2
  <2>3. CASE waitQueue # <<>> /\ Result(Head(waitQueue), Failed, stack)
    <3>1. PICK t \in Requests : /\ t = Head(waitQueue) /\ t \in Queued /\ result[t] = NoResult
                                /\ t \notin InCallback(stack)
      BY <1>1, <1>3, <1>4, <2>3
    <3>2. Result(t, Failed, stack) /\ Failed \in {Failed} \cup Requests
      BY <2>3, <3>1
    <3>3. QED
      BY <1>1, <1>5, <2>1, <3>1, <3>2
  <2>4. QED
    BY <1>9, <2>2, <2>3 DEF CloseFails
<1>10. QED
  BY <1>6, <1>7, <1>8, <1>9

\* on_closing, and on_close.
LEMMA ClosingSteps ==
  ASSUME IInv, IInv', FinishClose \/ OnUvClose \/ LastWriteOut
  PROVE  Contract!Next \/ UNCHANGED Contract!vars
<1>1. CASE FinishClose
  <2>1. /\ ~deleted /\ ~connecting /\ onClosing /\ closing
        /\ InCallback(stack') = InCallback(stack)
    BY <1>1, CallersBelow, WhileOpen DEF FinishClose, Running, IInv, StackInv, PhaseInv
  <2>2. onClosing' = FALSE /\ UNCHANGED <<deleted, closing, connecting, issued, result>>
    BY <1>1 DEF FinishClose, userVars
  <2>3. Live' = Live
    BY <2>1, <2>2, LiveStays
  <2>4. Contract!StartClosing
    BY <2>1, <2>2, <2>3 DEF Contract!StartClosing
  <2>5. QED
    BY <2>4 DEF Contract!Next
<1>2. CASE OnUvClose \/ LastWriteOut
  <2>1. /\ closing /\ ~onClosing /\ ~deleted /\ waitQueue = <<>> /\ readQueue = <<>>
        /\ InCallback(stack) = {} /\ InCallback(stack') = {}
    <3>1. CASE OnUvClose
      BY <3>1, EmptyStack, Phases DEF OnUvClose, AtLoop, IInv, PhaseInv
    <3>2. CASE LastWriteOut
      <4>1. /\ stack # <<>> /\ Callers = <<>> /\ InCallback(Callers) = InCallback(stack)
            /\ stack' = <<>> /\ Has(stack, "writeLate")
        BY <3>2, CallersBelow DEF LastWriteOut, Running
      <4>2. closing /\ ~Has(stack, "close") /\ ~deleted
        BY <4>1, WhileOpen DEF IInv, StackInv
      <4>3. QED
        BY <4>1, <4>2, EmptyStack DEF IInv, PhaseInv
    <3>3. QED
      BY <1>2, <3>1, <3>2
  <2>2. /\ UNCHANGED <<closing, onClosing, connecting>>
        /\ UNCHANGED <<issued, result>> /\ UNCHANGED writeQueue
        /\ UNCHANGED deleted \/ (deleted' = TRUE /\ writeQueue = <<>>)
    BY <1>2 DEF OnUvClose, LastWriteOut, RunOnClose, uvVars, userVars
  <2>3. Live' = Live
    BY <2>1, <2>2, LiveStays
  <2>4. CASE UNCHANGED deleted
    BY <2>2, <2>3, <2>4 DEF Contract!vars
  <2>5. CASE deleted' = TRUE /\ writeQueue = <<>>
    <3>1. Live = {}
      BY <2>1, <2>5, EmptyElements DEF Live
    <3>2. Contract!Go
      BY <2>1, <2>2, <2>3, <2>5, <3>1 DEF Contract!Go
    <3>3. QED
      BY <3>2 DEF Contract!Next
  <2>6. QED
    BY <2>2, <2>4, <2>5
<1>3. QED
  BY <1>1, <1>2

LEMMA ContractInit == Init => Contract!Init
BY EmptyElements, EmptyStack DEF Init, Live, Contract!Init

LEMMA ContractStep == IInv /\ IInv' /\ [Next]_vars => [Contract!Next]_(Contract!vars)
<1> SUFFICES ASSUME IInv, IInv', [Next]_vars
             PROVE  Contract!Next \/ UNCHANGED Contract!vars
  OBVIOUS
<1>1. CASE UNCHANGED vars
  BY <1>1 DEF vars, closeVars, uvVars, Live, Contract!vars
<1>2. CASE Next
  <2>1. ASSUME Runs
        PROVE  Contract!Next \/ UNCHANGED Contract!vars
    BY <2>1, QueueStutters, ReturnStutters, ClosingSteps DEF Runs
  <2>2. QED
    BY <1>2, <2>1, SetupSteps, AsyncProcessTakes, UserReturnsEnds, OwnerStutters, ReadStutters,
       QueueStutters, ClosingSteps DEF Next
<1>3. QED
  BY <1>1, <1>2

\* The connection keeps its promise to the group: it takes transactions until
\* on_closing runs, once; none ends, and on_closing does not run, while uv owes the
\* connect callback; and on_close asks for the deletion when no transaction is alive.
THEOREM KeepsContract == Spec => ImplementsContract
<1>1. Init => Contract!Init
  BY ContractInit
<1>2. IInv /\ IInv' /\ [Next]_vars => [Contract!Next]_(Contract!vars)
  BY ContractStep
<1>3. QED
  BY <1>1, <1>2, Inductive, PTL DEF Spec, ImplementsContract, Contract!Spec
=============================================================================
