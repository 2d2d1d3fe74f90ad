------------------------- MODULE SharedUvLoopProofs -------------------------
(***************************************************************************)
(* The safety of SharedUvLoop for any number of works, futures and threads, *)
(* also if callbacks wait.  The inductive invariant has two parts that meet *)
(* in the states of the works only: the counts, and the places in which a  *)
(* work whose thread_work has ended is until its on_work has returned.     *)
(***************************************************************************)
EXTENDS SharedUvLoop, FiniteSetTheorems, SequenceTheorems, TLAPS

-----------------------------------------------------------------------------
(* The inductive invariant.                                                *)

States == {"new", "queued", "working", "worked", "delivering", "gone"}

Frames == [at : {"wait", "work"}, of : Works \cup Futures, batch : Seq(Works)]

TypeOK ==
  /\ state \in [Works -> States]
  /\ threadWork \in SUBSET Works /\ onWork \in SUBSET Works
  /\ target \in [Works -> Futures]
  /\ pending \in [Futures -> Int]
  /\ futureRefs \in [Futures -> Int] /\ futureHeld \in SUBSET Futures
  /\ loopRefs \in Int /\ loopHeld \in BOOLEAN /\ loopDeleted \in BOOLEAN
  /\ finished \in Seq(Works)
  /\ stack \in Seq(Frames)

Owed(f) == {w \in Contexts : target[w] = f}
Alive   == {f \in Futures : futureRefs[f] > 0}

\* A future's pending_count_ counts the contexts with its closures, which also hold
\* references to it.
CountInv ==
  /\ \A f \in Futures :
       /\ pending[f] = Cardinality(Owed(f))
       /\ futureRefs[f] = (IF f \in futureHeld THEN 1 ELSE 0) + Cardinality(Owed(f))
  /\ loopRefs = (IF loopHeld THEN 1 ELSE 0) + Cardinality(Contexts) + Cardinality(Alive)
  /\ loopDeleted <=> loopRefs = 0

\* A closure of a context is there for as long as it has not begun.
ClosureInv ==
  \A w \in Works :
    /\ w \in threadWork <=> state[w] = "queued"
    /\ w \in onWork <=> state[w] \in {"queued", "working", "worked"}

\* A finished work is in one place: in uv's queue,
QueueInv ==
  \A i \in 1 .. Len(finished) :
    /\ state[finished[i]] = "worked"
    /\ \A k \in 1 .. Len(finished) : finished[k] = finished[i] => k = i

\* or in a batch, and then not in the queue
BatchInv ==
  \A j \in 1 .. Len(stack) : \A i \in 1 .. Len(stack[j].batch) :
    /\ state[stack[j].batch[i]] = "worked"
    /\ \A k \in 1 .. Len(finished) : finished[k] # stack[j].batch[i]

\* nor elsewhere in a batch.
ApartInv ==
  \A j, k \in 1 .. Len(stack) :
    \A i \in 1 .. Len(stack[j].batch), l \in 1 .. Len(stack[k].batch) :
      stack[k].batch[l] = stack[j].batch[i] => k = j /\ l = i

PlaceInv == QueueInv /\ BatchInv /\ ApartInv

\* Who is on the stack: calls of Wait for futures that the user holds, and on_work of
\* works that are being delivered, each once.
StackInv ==
  \A j \in 1 .. Len(stack) :
    /\ stack[j].at = "wait" => stack[j].of \in futureHeld
    /\ stack[j].at = "work" =>
         /\ stack[j].of \in Works /\ state[stack[j].of] = "delivering"
         /\ \A k \in 1 .. Len(stack) :
              stack[k].at = "work" /\ stack[k].of = stack[j].of => k = j

IInv == TypeOK /\ CountInv /\ ClosureInv /\ PlaceInv /\ StackInv

-----------------------------------------------------------------------------
(* Counting.                                                               *)

\* All sets that are counted are finite.
LEMMA Finite ==
  /\ IsFiniteSet(Contexts) /\ Cardinality(Contexts) \in Nat
  /\ IsFiniteSet(Alive) /\ Cardinality(Alive) \in Nat
  /\ \A f : IsFiniteSet(Owed(f)) /\ Cardinality(Owed(f)) \in Nat
<1>1. IsFiniteSet(Works) /\ IsFiniteSet(Futures)
  BY LoopAssumption
<1>2. /\ Contexts \in SUBSET Works /\ Alive \in SUBSET Futures
      /\ \A f : Owed(f) \in SUBSET Works
  BY DEF Contexts, Alive, Owed
<1>3. IsFiniteSet(Contexts) /\ IsFiniteSet(Alive) /\ \A f : IsFiniteSet(Owed(f))
  BY <1>1, <1>2, FS_Subset
<1>4. QED
  BY <1>3, FS_CardinalityType

\* The counts as sums of numbers.
LEMMA LoopCount ==
  ASSUME TypeOK, CountInv
  PROVE  /\ loopRefs \in Nat
         /\ loopHeld => loopRefs = 1 + Cardinality(Contexts) + Cardinality(Alive)
         /\ ~loopHeld => loopRefs = Cardinality(Contexts) + Cardinality(Alive)
<1>1. loopRefs = (IF loopHeld THEN 1 ELSE 0) + Cardinality(Contexts) + Cardinality(Alive)
  BY DEF CountInv
<1>2. Cardinality(Contexts) \in Nat /\ Cardinality(Alive) \in Nat
  BY Finite
<1>3. QED
  BY <1>1, <1>2

LEMMA FutureCount ==
  ASSUME TypeOK, CountInv, NEW f \in Futures
  PROVE  /\ pending[f] = Cardinality(Owed(f)) /\ pending[f] \in Nat
         /\ f \in futureHeld => futureRefs[f] = 1 + pending[f]
         /\ f \notin futureHeld => futureRefs[f] = pending[f]
<1>1. /\ pending[f] = Cardinality(Owed(f)) /\ Cardinality(Owed(f)) \in Nat
      /\ futureRefs[f] = (IF f \in futureHeld THEN 1 ELSE 0) + Cardinality(Owed(f))
  BY Finite DEF CountInv
<1>2. QED
  BY <1>1

\* One more, and one less.
LEMMA OneMore ==
  ASSUME NEW s, IsFiniteSet(s), NEW x, x \notin s
  PROVE  Cardinality(s \cup {x}) = Cardinality(s) + 1
BY FS_AddElement

LEMMA OneLess ==
  ASSUME NEW s, IsFiniteSet(s), NEW x \in s
  PROVE  Cardinality(s \ {x}) = Cardinality(s) - 1
BY FS_RemoveElement

\* A step that neither begins nor ends a context leaves the counts alone.
LEMMA SameContexts ==
  ASSUME CountInv, UNCHANGED <<target, pending, futureRefs, futureHeld, loopRefs, loopHeld, loopDeleted>>,
         \A w \in Works : state[w] \in {"new", "gone"} <=> state'[w] \in {"new", "gone"}
  PROVE  CountInv'
<1>1. Contexts' = Contexts
  BY DEF Contexts
<1>2. Alive' = Alive /\ \A f : Owed(f)' = Owed(f)
  BY <1>1 DEF Alive, Owed
<1>3. QED
  BY <1>1, <1>2 DEF CountInv

\* What a context adds to, when it begins.
LEMMA ContextBegins ==
  ASSUME TypeOK, NEW w \in Works, state[w] = "new", target' = target,
         state' = [state EXCEPT ![w] = "queued"]
  PROVE  /\ Cardinality(Contexts') = Cardinality(Contexts) + 1
         /\ \A f \in Futures :
              Cardinality(Owed(f)') = Cardinality(Owed(f)) + (IF f = target[w] THEN 1 ELSE 0)
<1>1. Contexts' = Contexts \cup {w} /\ w \notin Contexts
  BY DEF TypeOK, Contexts
<1>2. ASSUME NEW f \in Futures, f # target[w]
      PROVE  Owed(f)' = Owed(f)
  BY <1>1, <1>2 DEF Owed
<1>3. Owed(target[w])' = Owed(target[w]) \cup {w} /\ w \notin Owed(target[w])
  BY <1>1 DEF Owed
<1>4. QED
  BY <1>1, <1>2, <1>3, Finite, OneMore

\* What a context takes away, when it ends.
LEMMA ContextEnds ==
  ASSUME TypeOK, NEW w \in Works, state[w] = "delivering", target' = target,
         state' = [state EXCEPT ![w] = "gone"]
  PROVE  /\ Cardinality(Contexts') = Cardinality(Contexts) - 1
         /\ \A f \in Futures :
              Cardinality(Owed(f)') = Cardinality(Owed(f)) - (IF f = target[w] THEN 1 ELSE 0)
<1>1. Contexts' = Contexts \ {w} /\ w \in Contexts
  BY DEF TypeOK, Contexts
<1>2. ASSUME NEW f \in Futures, f # target[w]
      PROVE  Owed(f)' = Owed(f)
  BY <1>1, <1>2 DEF Owed
<1>3. Owed(target[w])' = Owed(target[w]) \ {w} /\ w \in Owed(target[w])
  BY <1>1 DEF Owed
<1>4. QED
  BY <1>1, <1>2, <1>3, Finite, OneLess

\* A future that loses its last reference is no longer alive.
LEMMA UnrefCounts ==
  ASSUME TypeOK, NEW f \in Futures, futureRefs[f] > 0, NEW n \in Nat, Unref(f, n)
  PROVE  /\ futureRefs' \in [Futures -> Int] /\ loopRefs' \in Int /\ loopDeleted' \in BOOLEAN
         /\ loopRefs' - Cardinality(Alive') = loopRefs - Cardinality(Alive) - n
         /\ loopDeleted' <=> loopRefs' = 0
<1>1. /\ futureRefs' = [futureRefs EXCEPT ![f] = @ - 1]
      /\ loopRefs' = loopRefs - n - (IF futureRefs[f] = 1 THEN 1 ELSE 0)
      /\ loopDeleted' = (loopRefs' = 0)
  BY DEF Unref
<1>2. futureRefs' \in [Futures -> Int] /\ loopRefs' \in Int
  BY <1>1 DEF TypeOK
<1>3. f \in Alive
  BY DEF Alive
<1>4. loopRefs' - Cardinality(Alive') = loopRefs - Cardinality(Alive) - n
  <2>1. CASE futureRefs[f] = 1
    <3>1. Alive' = Alive \ {f}
      BY <1>1, <2>1 DEF Alive, TypeOK
    <3>2. Cardinality(Alive') = Cardinality(Alive) - 1
      BY <3>1, <1>3, Finite, OneLess
    <3>3. loopRefs' = loopRefs - n - 1
      BY <1>1, <2>1
    <3>4. QED
      BY <3>2, <3>3, Finite DEF TypeOK
  <2>2. CASE futureRefs[f] # 1
    <3>1. Alive' = Alive
      BY <1>1, <2>2 DEF Alive, TypeOK
    <3>2. loopRefs' = loopRefs - n
      BY <1>1, <2>2 DEF TypeOK
    <3>3. QED
      BY <3>1, <3>2, Finite DEF TypeOK
  <2>3. QED
    BY <2>1, <2>2
<1>5. loopDeleted' \in BOOLEAN /\ (loopDeleted' <=> loopRefs' = 0)
  BY <1>1, Zenon
<1>6. QED
  BY <1>2, <1>4, <1>5

-----------------------------------------------------------------------------
(* Places and the stack.                                                   *)

\* What is left of the stack without its last element.
LEMMA CallersAre ==
  ASSUME TypeOK, stack # <<>>
  PROVE  /\ Len(stack) \in Nat \ {0} /\ Running \in Frames
         /\ Callers \in Seq(Frames) /\ Len(Callers) = Len(stack) - 1
         /\ \A j \in 1 .. Len(Callers) : Callers[j] = stack[j]
<1>1. stack \in Seq(Frames)
  BY DEF TypeOK
<1>2. Len(stack) \in Nat \ {0}
  BY <1>1
<1>3. \A j \in 1 .. Len(stack) : stack[j] \in Frames
  BY <1>1
<1>4. Running \in Frames
  BY <1>2, <1>3 DEF Running
<1>5. /\ Callers \in Seq(Frames) /\ Len(Callers) = Len(stack) - 1
      /\ \A j \in 1 .. Len(Callers) : Callers[j] = stack[j]
  <2>1. Len(stack) - 1 \in Nat /\ \A i \in 1 .. Len(stack) - 1 : stack[i] \in Frames
    BY <1>2, <1>3
  <2>2. /\ SubSeq(stack, 1, Len(stack) - 1) \in Seq(Frames)
        /\ Len(SubSeq(stack, 1, Len(stack) - 1))
             = IF 1 <= Len(stack) - 1 THEN (Len(stack) - 1) - 1 + 1 ELSE 0
        /\ \A i \in 1 .. (Len(stack) - 1) - 1 + 1 :
             SubSeq(stack, 1, Len(stack) - 1)[i] = stack[1 + i - 1]
    BY <2>1, SubSeqProperties
  <2>3. Callers \in Seq(Frames) /\ Len(Callers) = Len(stack) - 1
    <3>1. /\ Callers \in Seq(Frames)
          /\ Len(Callers) = IF 1 <= Len(stack) - 1 THEN (Len(stack) - 1) - 1 + 1 ELSE 0
      BY <2>2, Zenon DEF Callers
    <3>2. CASE Len(stack) = 1
      <4>1. ~(1 <= Len(stack) - 1) /\ Len(stack) - 1 = 0
        BY <3>2
      <4>2. QED
        BY <3>1, <4>1, Zenon
    <3>3. CASE Len(stack) # 1
      <4>1. 1 <= Len(stack) - 1 /\ (Len(stack) - 1) - 1 + 1 = Len(stack) - 1
        BY <1>2, <3>3
      <4>2. QED
        BY <3>1, <4>1, Zenon
    <3>4. QED
      BY <3>2, <3>3
  <2>4. ASSUME NEW j \in 1 .. Len(Callers)
        PROVE  Callers[j] = stack[j]
    <3>1. j \in 1 .. (Len(stack) - 1) - 1 + 1 /\ 1 + j - 1 = j
      BY <1>2, <2>3
    <3>2. QED
      BY <2>2, <3>1 DEF Callers
  <2>5. QED
    BY <2>3, <2>4
<1>6. QED
  BY <1>2, <1>4, <1>5

\* What is on the stack and in the queue has the right types.
LEMMA PlacesAreWorks ==
  ASSUME TypeOK
  PROVE  /\ Len(finished) \in Nat /\ \A i \in 1 .. Len(finished) : finished[i] \in Works
         /\ Len(stack) \in Nat
         /\ \A j \in 1 .. Len(stack) :
              /\ stack[j] \in Frames /\ stack[j].batch \in Seq(Works) /\ Len(stack[j].batch) \in Nat
              /\ \A i \in 1 .. Len(stack[j].batch) : stack[j].batch[i] \in Works
<1>1. finished \in Seq(Works) /\ stack \in Seq(Frames)
  BY DEF TypeOK
<1>2. Len(finished) \in Nat /\ \A i \in 1 .. Len(finished) : finished[i] \in Works
  BY <1>1
<1>3. Len(stack) \in Nat /\ \A j \in 1 .. Len(stack) : stack[j] \in Frames
  BY <1>1
<1>4. ASSUME NEW j \in 1 .. Len(stack)
      PROVE  /\ stack[j].batch \in Seq(Works) /\ Len(stack[j].batch) \in Nat
             /\ \A i \in 1 .. Len(stack[j].batch) : stack[j].batch[i] \in Works
  <2>1. stack[j].batch \in Seq(Works)
    BY <1>3 DEF Frames
  <2>2. QED
    BY <2>1
<1>5. QED
  BY <1>2, <1>3, <1>4

\* The stack with another last element, and with one more on top of it.
LEMMA ReplacesLast ==
  ASSUME TypeOK, stack # <<>>, NEW x \in Frames
  PROVE  /\ Append(Callers, x) \in Seq(Frames) /\ Len(Append(Callers, x)) = Len(stack)
         /\ \A j \in 1 .. Len(stack) - 1 : Append(Callers, x)[j] = stack[j]
         /\ Append(Callers, x)[Len(stack)] = x
<1>1. /\ Callers \in Seq(Frames) /\ Len(Callers) = Len(stack) - 1 /\ Len(stack) \in Nat \ {0}
      /\ \A j \in 1 .. Len(Callers) : Callers[j] = stack[j]
  BY CallersAre
<1>2. /\ Append(Callers, x) \in Seq(Frames) /\ Len(Append(Callers, x)) = Len(Callers) + 1
      /\ \A j \in 1 .. Len(Callers) : Append(Callers, x)[j] = Callers[j]
      /\ Append(Callers, x)[Len(Callers) + 1] = x
  BY <1>1, AppendProperties
<1>3. Len(Callers) + 1 = Len(stack)
  BY <1>1
<1>4. QED
  BY <1>1, <1>2, <1>3

LEMMA PutsOnTop ==
  ASSUME TypeOK, stack # <<>>, NEW x \in Frames, NEW y \in Frames
  PROVE  /\ Callers \o <<x, y>> \in Seq(Frames) /\ Len(Callers \o <<x, y>>) = Len(stack) + 1
         /\ \A j \in 1 .. Len(stack) - 1 : (Callers \o <<x, y>>)[j] = stack[j]
         /\ (Callers \o <<x, y>>)[Len(stack)] = x
         /\ (Callers \o <<x, y>>)[Len(stack) + 1] = y
<1>1. /\ Callers \in Seq(Frames) /\ Len(Callers) = Len(stack) - 1 /\ Len(stack) \in Nat \ {0}
      /\ \A j \in 1 .. Len(Callers) : Callers[j] = stack[j]
  BY CallersAre
<1>2. <<x, y>> \in Seq(Frames) /\ Len(<<x, y>>) = 2 /\ <<x, y>>[1] = x /\ <<x, y>>[2] = y
  OBVIOUS
<1>3. /\ Callers \o <<x, y>> \in Seq(Frames)
      /\ Len(Callers \o <<x, y>>) = Len(Callers) + 2
      /\ \A j \in 1 .. Len(Callers) + 2 :
           (Callers \o <<x, y>>)[j] = IF j <= Len(Callers) THEN Callers[j]
                                      ELSE <<x, y>>[j - Len(Callers)]
  BY <1>1, <1>2, ConcatProperties
<1> DEFINE s == Callers \o <<x, y>>
<1>5. /\ Len(stack) \in 1 .. Len(Callers) + 2 /\ Len(stack) + 1 \in 1 .. Len(Callers) + 2
      /\ ~(Len(stack) <= Len(Callers)) /\ Len(stack) - Len(Callers) = 1
      /\ ~(Len(stack) + 1 <= Len(Callers)) /\ Len(stack) + 1 - Len(Callers) = 2
      /\ Len(Callers) + 2 = Len(stack) + 1
  BY <1>1
<1>6. s[Len(stack)] = x /\ s[Len(stack) + 1] = y
  <2>1. ASSUME NEW j \in 1 .. Len(Callers) + 2, ~(j <= Len(Callers))
        PROVE  s[j] = <<x, y>>[j - Len(Callers)]
    BY <1>3, <2>1, Zenon
  <2>2. s[Len(stack)] = <<x, y>>[1] /\ s[Len(stack) + 1] = <<x, y>>[2]
    <3>1. s[Len(stack)] = <<x, y>>[Len(stack) - Len(Callers)]
      BY <1>5, <2>1, Zenon
    <3>2. PICK j \in 1 .. Len(Callers) + 2 : j = Len(stack) + 1
      BY <1>5
    <3>3. ~(j <= Len(Callers)) /\ j - Len(Callers) = 2
      BY <1>1, <3>2
    <3>4. s[j] = <<x, y>>[2]
      BY <2>1, <3>3, Zenon
    <3>5. QED
      BY <1>5, <3>1, <3>2, <3>4, Zenon
  <2>3. QED
    BY <1>2, <2>2, Zenon
<1>7. ASSUME NEW j \in 1 .. Len(stack) - 1
      PROVE  s[j] = stack[j]
  <2>1. j \in 1 .. Len(Callers) + 2 /\ j \in 1 .. Len(Callers) /\ j <= Len(Callers)
    BY <1>1
  <2>2. QED
    BY <1>1, <1>3, <2>1, Zenon
<1>8. s \in Seq(Frames) /\ Len(s) = Len(stack) + 1
  BY <1>3, <1>5, Zenon
<1>9. QED
  BY <1>6, <1>7, <1>8

\* When the last one returns the others are where they were.
LEMMA ReturnKeepsPlaces ==
  ASSUME TypeOK, PlaceInv, stack # <<>>, stack' = Callers, finished' = finished,
         \A w \in Works : state[w] = "worked" => state'[w] = "worked"
  PROVE  PlaceInv'
<1>1. /\ \A i \in 1 .. Len(finished) : finished[i] \in Works
      /\ \A j \in 1 .. Len(stack) : \A i \in 1 .. Len(stack[j].batch) : stack[j].batch[i] \in Works
  BY PlacesAreWorks
<1>2. /\ 1 .. Len(stack') \subseteq 1 .. Len(stack)
      /\ \A j \in 1 .. Len(stack') : stack'[j] = stack[j]
  BY CallersAre
<1>3. QueueInv'
  BY <1>1 DEF PlaceInv, QueueInv
<1>4. BatchInv'
  BY <1>1, <1>2 DEF PlaceInv, BatchInv
<1>5. ApartInv'
  BY <1>2 DEF PlaceInv, ApartInv
<1>6. QED
  BY <1>3, <1>4, <1>5 DEF PlaceInv

\* A step that changes neither the queue nor the stack.
LEMMA KeepsPlaces ==
  ASSUME TypeOK, PlaceInv, StackInv, UNCHANGED <<finished, stack>>,
         \A w \in Works : state[w] \in {"worked", "delivering"} => state'[w] = state[w],
         \A j \in 1 .. Len(stack) :
           stack[j].at = "wait" /\ stack[j].of \in futureHeld => stack[j].of \in futureHeld'
  PROVE  PlaceInv' /\ StackInv'
<1>1. /\ \A i \in 1 .. Len(finished) : finished[i] \in Works
      /\ \A j \in 1 .. Len(stack) : \A i \in 1 .. Len(stack[j].batch) : stack[j].batch[i] \in Works
  BY PlacesAreWorks
<1>2. PlaceInv'
  BY <1>1 DEF PlaceInv, QueueInv, BatchInv, ApartInv
<1>3. StackInv'
  BY DEF StackInv
<1>4. QED
  BY <1>2, <1>3

-----------------------------------------------------------------------------
(* Every step preserves the invariant.                                     *)

LEMMA InitInvariant == Init => IInv
<1> SUFFICES ASSUME Init PROVE IInv
  OBVIOUS
<1>1. TypeOK
  <2>1. /\ state \in [Works -> States] /\ target \in [Works -> Futures]
        /\ pending \in [Futures -> Int] /\ futureRefs \in [Futures -> Int]
    BY DEF Init, States
  <2>2. /\ threadWork \in SUBSET Works /\ onWork \in SUBSET Works /\ futureHeld \in SUBSET Futures
        /\ loopHeld \in BOOLEAN /\ loopDeleted \in BOOLEAN
    BY Zenon DEF Init
  <2>3. loopRefs \in Int /\ finished \in Seq(Works) /\ stack \in Seq(Frames)
    BY DEF Init
  <2>4. QED
    BY <2>1, <2>2, <2>3 DEF TypeOK
<1>2. Contexts = {} /\ Alive = {} /\ \A f : Owed(f) = {}
  <2>1. Contexts = {}
    BY DEF Init, Contexts
  <2>2. Alive = {}
    BY DEF Init, Alive
  <2>3. QED
    BY <2>1, <2>2 DEF Owed
<1>3. CountInv
  <2>1. Cardinality(Contexts) = 0 /\ Cardinality(Alive) = 0 /\ \A f : Cardinality(Owed(f)) = 0
    BY <1>2, FS_EmptySet
  <2>2. \A f \in Futures : pending[f] = 0 /\ futureRefs[f] = 0 /\ f \notin futureHeld
    BY DEF Init
  <2>3. loopRefs = 1 /\ loopHeld /\ ~loopDeleted
    BY DEF Init
  <2>4. QED
    BY <2>1, <2>2, <2>3 DEF CountInv
<1>4. ClosureInv /\ PlaceInv /\ StackInv
  BY DEF Init, ClosureInv, PlaceInv, QueueInv, BatchInv, ApartInv, StackInv
<1>5. QED
  BY <1>1, <1>3, <1>4 DEF IInv

LEMMA CreateFutureStep ==
  ASSUME IInv, NEW f \in Futures, CreateFuture(f)
  PROVE  IInv'
<1>1. TypeOK'
  BY DEF IInv, TypeOK, CreateFuture, workVars
<1>2. CountInv'
  <2>1. /\ Contexts' = Contexts /\ \A g : Owed(g)' = Owed(g)
    BY DEF CreateFuture, workVars, Contexts, Owed
  <2>2. Alive' = Alive \cup {f} /\ f \notin Alive
    BY DEF IInv, TypeOK, CreateFuture, Alive
  <2>3. Cardinality(Alive') = Cardinality(Alive) + 1
    BY <2>2, Finite, OneMore
  <2>4. /\ f \notin futureHeld /\ Cardinality(Owed(f)) = 0
        /\ loopRefs = 1 + Cardinality(Contexts) + Cardinality(Alive) /\ ~loopDeleted
    BY FutureCount, LoopCount, Finite DEF IInv, CountInv, CreateFuture
  <2>5. ASSUME NEW g \in Futures
        PROVE  /\ pending'[g] = Cardinality(Owed(g)')
               /\ futureRefs'[g] = (IF g \in futureHeld' THEN 1 ELSE 0) + Cardinality(Owed(g)')
    <3>1. CASE g = f
      <4>1. pending' = pending /\ futureRefs'[f] = 1 /\ f \in futureHeld'
        BY DEF IInv, TypeOK, CreateFuture
      <4>2. QED
        BY <2>1, <2>4, <3>1, <4>1, FutureCount DEF IInv
    <3>2. CASE g # f
      <4>1. /\ pending' = pending /\ futureRefs'[g] = futureRefs[g]
            /\ g \in futureHeld' <=> g \in futureHeld
        BY <3>2 DEF IInv, TypeOK, CreateFuture
      <4>2. QED
        BY <2>1, <4>1, FutureCount DEF IInv
    <3>3. QED
      BY <3>1, <3>2
  <2>6. loopRefs' = loopRefs + 1 /\ loopHeld' /\ loopDeleted' = loopDeleted
    BY DEF CreateFuture
  <2>7. /\ loopRefs' = (IF loopHeld' THEN 1 ELSE 0) + Cardinality(Contexts') + Cardinality(Alive')
        /\ loopRefs' # 0
    BY <2>1, <2>3, <2>4, <2>6, Finite
  <2>8. QED
    BY <2>4, <2>5, <2>6, <2>7 DEF CountInv
<1>3. ClosureInv'
  BY DEF IInv, ClosureInv, CreateFuture, workVars
<1>4. PlaceInv' /\ StackInv'
  BY KeepsPlaces DEF IInv, CreateFuture, workVars
<1>5. QED
  BY <1>1, <1>2, <1>3, <1>4 DEF IInv

LEMMA AsyncProcessStep ==
  ASSUME IInv, NEW w \in Works, AsyncProcess(w)
  PROVE  IInv'
<1>1. TypeOK'
  BY DEF IInv, TypeOK, States, AsyncProcess
<1>2. CountInv'
  <2>1. /\ Cardinality(Contexts') = Cardinality(Contexts) + 1
        /\ \A f \in Futures :
             Cardinality(Owed(f)') = Cardinality(Owed(f)) + (IF f = target[w] THEN 1 ELSE 0)
    BY ContextBegins DEF IInv, AsyncProcess
  <2>2. /\ target[w] \in Futures /\ futureRefs[target[w]] > 0 /\ futureRefs[target[w]] \in Nat
        /\ loopRefs = 1 + Cardinality(Contexts) + Cardinality(Alive) /\ ~loopDeleted
    BY FutureCount, LoopCount, Finite DEF IInv, TypeOK, CountInv, AsyncProcess
  <2>3. Alive' = Alive
    BY <2>2 DEF IInv, TypeOK, AsyncProcess, Alive
  <2>4. ASSUME NEW f \in Futures
        PROVE  /\ pending'[f] = Cardinality(Owed(f)')
               /\ futureRefs'[f] = (IF f \in futureHeld' THEN 1 ELSE 0) + Cardinality(Owed(f)')
    <3>1. /\ pending'[f] = pending[f] + (IF f = target[w] THEN 1 ELSE 0)
          /\ futureRefs'[f] = futureRefs[f] + (IF f = target[w] THEN 1 ELSE 0)
          /\ futureHeld' = futureHeld
      BY DEF IInv, TypeOK, AsyncProcess
    <3>2. QED
      BY <2>1, <3>1, FutureCount DEF IInv
  <2>5. loopRefs' = loopRefs + 1 /\ loopHeld' /\ loopDeleted' = loopDeleted
    BY DEF AsyncProcess
  <2>6. /\ loopRefs' = (IF loopHeld' THEN 1 ELSE 0) + Cardinality(Contexts') + Cardinality(Alive')
        /\ loopRefs' # 0
    BY <2>1, <2>2, <2>3, <2>5, Finite
  <2>7. QED
    BY <2>2, <2>4, <2>5, <2>6 DEF CountInv
<1>3. ClosureInv'
  BY DEF IInv, TypeOK, ClosureInv, AsyncProcess
<1>4. PlaceInv' /\ StackInv'
  BY KeepsPlaces DEF IInv, TypeOK, AsyncProcess
<1>5. QED
  BY <1>1, <1>2, <1>3, <1>4 DEF IInv

LEMMA WaitStep ==
  ASSUME IInv, NEW f \in Futures, Wait(f)
  PROVE  IInv'
<1>1. TypeOK'
  BY DEF IInv, TypeOK, Frames, Wait, Waiting, workVars, refVars
<1>2. CountInv' /\ ClosureInv'
  BY SameContexts DEF IInv, ClosureInv, Wait, workVars, refVars
<1>3. /\ stack \in Seq(Frames) /\ Len(stack') = Len(stack) + 1 /\ Len(stack) \in Nat
      /\ \A j \in 1 .. Len(stack) : stack'[j] = stack[j]
      /\ stack'[Len(stack) + 1] = Waiting(f, <<>>)
  BY DEF IInv, TypeOK, Wait
<1>4. /\ Waiting(f, <<>>).at = "wait" /\ Waiting(f, <<>>).of = f
      /\ Waiting(f, <<>>).batch = <<>>
  BY DEF Waiting
<1>5. StackInv'
  BY <1>3, <1>4 DEF IInv, StackInv, Wait, workVars, refVars
<1>6. PlaceInv'
  BY <1>3, <1>4 DEF IInv, PlaceInv, QueueInv, BatchInv, ApartInv, Wait, workVars
<1>7. QED
  BY <1>1, <1>2, <1>5, <1>6 DEF IInv

LEMMA ReleaseFutureStep ==
  ASSUME IInv, NEW f \in Futures, ReleaseFuture(f)
  PROVE  IInv'
<1>1. futureRefs[f] > 0 /\ f \in futureHeld
  BY FutureCount DEF IInv, ReleaseFuture
<1>2. /\ futureRefs' \in [Futures -> Int] /\ loopRefs' \in Int /\ loopDeleted' \in BOOLEAN
      /\ loopRefs' - Cardinality(Alive') = loopRefs - Cardinality(Alive)
      /\ loopDeleted' <=> loopRefs' = 0
  BY <1>1, UnrefCounts, Finite DEF IInv, TypeOK, ReleaseFuture
<1>3. TypeOK'
  BY <1>2 DEF IInv, TypeOK, ReleaseFuture, workVars
<1>4. CountInv'
  <2>1. Contexts' = Contexts /\ \A g : Owed(g)' = Owed(g)
    BY DEF ReleaseFuture, workVars, Contexts, Owed
  <2>2. ASSUME NEW g \in Futures
        PROVE  /\ pending'[g] = Cardinality(Owed(g)')
               /\ futureRefs'[g] = (IF g \in futureHeld' THEN 1 ELSE 0) + Cardinality(Owed(g)')
    <3>1. /\ pending' = pending /\ futureRefs'[g] = futureRefs[g] - (IF g = f THEN 1 ELSE 0)
          /\ g \in futureHeld' <=> g \in futureHeld /\ g # f
      BY DEF IInv, TypeOK, ReleaseFuture, Unref
    <3>2. QED
      BY <1>1, <2>1, <3>1, FutureCount DEF IInv
  <2>3. loopRefs' = (IF loopHeld' THEN 1 ELSE 0) + Cardinality(Contexts') + Cardinality(Alive')
    <3>1. Alive' \in SUBSET Futures
      BY DEF Alive
    <3>2. Cardinality(Alive') \in Nat
      BY <3>1, LoopAssumption, FS_Subset, FS_CardinalityType
    <3>3. loopHeld' = loopHeld /\ loopHeld \in BOOLEAN
      BY DEF IInv, TypeOK, ReleaseFuture
    <3>4. QED
      BY <1>2, <2>1, <3>2, <3>3, LoopCount, Finite DEF IInv
  <2>4. QED
    BY <1>2, <2>2, <2>3 DEF CountInv
<1>5. ClosureInv'
  BY DEF IInv, ClosureInv, ReleaseFuture, workVars
<1>6. PlaceInv' /\ StackInv'
  BY KeepsPlaces DEF IInv, ReleaseFuture, Waits, workVars
<1>7. QED
  BY <1>3, <1>4, <1>5, <1>6 DEF IInv

LEMMA ReleaseLoopStep ==
  ASSUME IInv, ReleaseLoop
  PROVE  IInv'
<1>1. loopDeleted' \in BOOLEAN /\ (loopDeleted' <=> loopRefs' = 0)
  BY Zenon DEF ReleaseLoop
<1>2. TypeOK'
  <2>1. loopHeld' \in BOOLEAN
    BY Zenon DEF ReleaseLoop
  <2>2. loopRefs \in Int /\ loopRefs' = loopRefs - 1
    BY Zenon DEF IInv, TypeOK, ReleaseLoop
  <2>3. loopRefs' \in Int
    BY <2>2
  <2>4. QED
    BY <1>1, <2>1, <2>3, Zenon DEF IInv, TypeOK, ReleaseLoop, workVars
<1>3. CountInv'
  <2>1. Contexts' = Contexts /\ Alive' = Alive /\ \A g : Owed(g)' = Owed(g)
    BY DEF ReleaseLoop, workVars, Contexts, Owed, Alive
  <2>2. loopRefs' = (IF loopHeld' THEN 1 ELSE 0) + Cardinality(Contexts') + Cardinality(Alive')
    BY <2>1, LoopCount, Finite DEF IInv, ReleaseLoop
  <2>3. ASSUME NEW f \in Futures
        PROVE  /\ pending'[f] = Cardinality(Owed(f)')
               /\ futureRefs'[f] = (IF f \in futureHeld' THEN 1 ELSE 0) + Cardinality(Owed(f)')
    BY <2>1 DEF IInv, CountInv, ReleaseLoop
  <2>4. QED
    BY <1>1, <2>2, <2>3 DEF CountInv
<1>4. ClosureInv'
  BY DEF IInv, ClosureInv, ReleaseLoop, workVars
<1>5. PlaceInv' /\ StackInv'
  BY KeepsPlaces DEF IInv, ReleaseLoop, workVars
<1>6. QED
  BY <1>2, <1>3, <1>4, <1>5 DEF IInv

LEMMA StaticThreadWorkStep ==
  ASSUME IInv, NEW w \in Works, StaticThreadWork(w)
  PROVE  IInv'
<1>1. TypeOK'
  BY DEF IInv, TypeOK, States, StaticThreadWork, refVars
<1>2. CountInv'
  BY SameContexts DEF IInv, TypeOK, StaticThreadWork, refVars
<1>3. ClosureInv'
  BY DEF IInv, TypeOK, ClosureInv, StaticThreadWork
<1>4. PlaceInv' /\ StackInv'
  BY KeepsPlaces DEF IInv, TypeOK, StaticThreadWork, refVars
<1>5. QED
  BY <1>1, <1>2, <1>3, <1>4 DEF IInv

LEMMA ThreadWorkReturnsStep ==
  ASSUME IInv, NEW w \in Works, ThreadWorkReturns(w)
  PROVE  IInv'
<1>1. /\ state[w] = "working" /\ state' = [state EXCEPT ![w] = "worked"]
      /\ finished' = Append(finished, w) /\ stack' = stack
      /\ state \in [Works -> States] /\ finished \in Seq(Works)
  BY DEF IInv, TypeOK, ThreadWorkReturns
<1>2. /\ finished' \in Seq(Works) /\ Len(finished') = Len(finished) + 1
      /\ \A i \in 1 .. Len(finished) : finished'[i] = finished[i]
      /\ finished'[Len(finished) + 1] = w
  BY <1>1, AppendProperties
<1>3. TypeOK'
  BY <1>1, <1>2 DEF IInv, TypeOK, States, ThreadWorkReturns, refVars
<1>4. CountInv'
  BY SameContexts DEF IInv, TypeOK, ThreadWorkReturns, refVars
<1>5. ClosureInv'
  BY DEF IInv, TypeOK, ClosureInv, ThreadWorkReturns
<1>6. PlaceInv'
  <2>1. /\ Len(finished) \in Nat /\ \A i \in 1 .. Len(finished) : finished[i] \in Works
        /\ \A j \in 1 .. Len(stack) :
             \A i \in 1 .. Len(stack[j].batch) : stack[j].batch[i] \in Works
    BY PlacesAreWorks DEF IInv
  <2>2. QueueInv'
    BY <1>1, <1>2, <2>1 DEF IInv, PlaceInv, QueueInv
  <2>3. BatchInv'
    BY <1>1, <1>2, <2>1 DEF IInv, PlaceInv, BatchInv
  <2>4. ApartInv'
    BY <1>1 DEF IInv, PlaceInv, ApartInv
  <2>5. QED
    BY <2>2, <2>3, <2>4 DEF PlaceInv
<1>7. StackInv'
  BY <1>1 DEF IInv, StackInv, ThreadWorkReturns, refVars
<1>8. QED
  BY <1>3, <1>4, <1>5, <1>6, <1>7 DEF IInv

LEMMA RunOnceStep ==
  ASSUME IInv, RunOnce
  PROVE  IInv'
<1> DEFINE n == Len(stack)
<1>1. /\ stack # <<>> /\ Running.at = "wait" /\ Running.batch = <<>> /\ finished' = <<>>
      /\ stack' = Append(Callers, Waiting(Running.of, finished))
      /\ state' = state /\ finished \in Seq(Works)
  BY DEF IInv, TypeOK, RunOnce, InWait, workVars
<1>2. /\ n \in Nat \ {0} /\ Running \in Frames /\ Running = stack[n]
  BY <1>1, CallersAre DEF IInv, Running
<1>3. Waiting(Running.of, finished) \in Frames
  BY <1>1, <1>2 DEF Waiting, Frames
<1>4. /\ stack' \in Seq(Frames) /\ Len(stack') = n
      /\ \A j \in 1 .. n - 1 : stack'[j] = stack[j]
      /\ stack'[n] = Waiting(Running.of, finished)
  BY <1>1, <1>3, ReplacesLast DEF IInv
<1>5. /\ stack'[n].at = "wait" /\ stack'[n].of = stack[n].of /\ stack'[n].batch = finished
  BY <1>2, <1>4 DEF Waiting
<1>6. TypeOK'
  BY <1>1, <1>4 DEF IInv, TypeOK, RunOnce, workVars, refVars
<1>7. CountInv' /\ ClosureInv'
  BY SameContexts DEF IInv, ClosureInv, RunOnce, workVars, refVars
<1>8. PlaceInv'
  <2>1. QueueInv'
    BY <1>1 DEF QueueInv
  <2>2. Len(finished') = 0
    BY <1>1
  <2>3. BatchInv'
    BY <1>1, <1>2, <1>4, <1>5, <2>2 DEF IInv, PlaceInv, QueueInv, BatchInv
  <2>4. ApartInv'
    <3>1. SUFFICES ASSUME NEW j \in 1 .. n, NEW k \in 1 .. n,
                          NEW i \in 1 .. Len(stack'[j].batch), NEW l \in 1 .. Len(stack'[k].batch),
                          stack'[k].batch[l] = stack'[j].batch[i]
                   PROVE  k = j /\ l = i
      BY <1>4 DEF ApartInv
    <3>2. CASE j = n /\ k = n
      BY <1>5, <3>1, <3>2 DEF IInv, PlaceInv, QueueInv
    <3>3. CASE j = n /\ k # n
      <4>1. k \in 1 .. n /\ stack'[k] = stack[k]
        BY <1>2, <1>4, <3>3
      <4>2. QED
        BY <1>5, <3>1, <3>3, <4>1 DEF IInv, PlaceInv, BatchInv
    <3>4. CASE j # n /\ k = n
      <4>1. j \in 1 .. n /\ stack'[j] = stack[j]
        BY <1>2, <1>4, <3>4
      <4>2. QED
        BY <1>5, <3>1, <3>4, <4>1 DEF IInv, PlaceInv, BatchInv
    <3>5. CASE j # n /\ k # n
      <4>1. stack'[j] = stack[j] /\ stack'[k] = stack[k]
        BY <1>2, <1>4, <3>5
      <4>2. QED
        BY <3>1, <4>1 DEF IInv, PlaceInv, ApartInv
    <3>6. QED
      BY <3>2, <3>3, <3>4, <3>5
  <2>5. QED
    BY <2>1, <2>3, <2>4 DEF PlaceInv
<1>9. StackInv'
  <2>1. futureHeld' = futureHeld
    BY DEF RunOnce, refVars
  <2>2. ASSUME NEW j \in 1 .. n
        PROVE  stack'[j].at = stack[j].at /\ stack'[j].of = stack[j].of
    BY <1>1, <1>2, <1>4, <1>5
  <2>3. ASSUME NEW j \in 1 .. n
        PROVE  /\ stack'[j].at = "wait" => stack'[j].of \in futureHeld'
               /\ stack'[j].at = "work" =>
                    /\ stack'[j].of \in Works /\ state'[stack'[j].of] = "delivering"
                    /\ \A k \in 1 .. n :
                         stack'[k].at = "work" /\ stack'[k].of = stack'[j].of => k = j
    BY <1>1, <2>1, <2>2 DEF IInv, StackInv
  <2>4. QED
    BY <1>4, <2>3 DEF StackInv
<1>10. QED
  BY <1>6, <1>7, <1>8, <1>9 DEF IInv

LEMMA WaitReturnsStep ==
  ASSUME IInv, WaitReturns
  PROVE  IInv'
<1>1. stack # <<>> /\ stack' = Callers /\ state' = state /\ finished' = finished
  BY DEF WaitReturns, InWait, workVars
<1>2. /\ stack' \in Seq(Frames) /\ 1 .. Len(stack') \subseteq 1 .. Len(stack)
      /\ \A j \in 1 .. Len(stack') : stack'[j] = stack[j]
  BY <1>1, CallersAre DEF IInv
<1>3. TypeOK'
  BY <1>2 DEF IInv, TypeOK, WaitReturns, workVars, refVars
<1>4. CountInv' /\ ClosureInv'
  BY SameContexts DEF IInv, ClosureInv, WaitReturns, workVars, refVars
<1>5. PlaceInv'
  BY <1>1, ReturnKeepsPlaces DEF IInv
<1>6. StackInv'
  BY <1>1, <1>2 DEF IInv, StackInv, WaitReturns, refVars
<1>7. QED
  BY <1>3, <1>4, <1>5, <1>6 DEF IInv

LEMMA StaticOnWorkStep ==
  ASSUME IInv, StaticOnWork
  PROVE  IInv'
<1> DEFINE n == Len(stack)
           w == Head(Running.batch)
           rest == Tail(Running.batch)
<1>1. /\ stack # <<>> /\ Running.at = "wait" /\ Running.batch # <<>> /\ finished' = finished
      /\ stack' = Callers \o <<Waiting(Running.of, rest), Delivering(w)>>
      /\ state' = [state EXCEPT ![w] = "delivering"] /\ onWork' = onWork \ {w}
      /\ state \in [Works -> States]
  BY DEF IInv, TypeOK, StaticOnWork, InWait
<1>2. /\ n \in Nat \ {0} /\ Running \in Frames /\ Running = stack[n]
  BY <1>1, CallersAre DEF IInv, Running
<1>3. /\ Running.batch \in Seq(Works) /\ w \in Works /\ rest \in Seq(Works)
      /\ Len(rest) = Len(Running.batch) - 1 /\ Len(Running.batch) \in Nat \ {0}
      /\ Running.batch[1] = w
      /\ \A i \in 1 .. Len(rest) : rest[i] = Running.batch[i + 1]
  <2>1. Running.batch \in Seq(Works)
    BY <1>2 DEF Frames
  <2>2. QED
    BY <1>1, <2>1, HeadTailProperties
<1>4. Waiting(Running.of, rest) \in Frames /\ Delivering(w) \in Frames
  BY <1>2, <1>3 DEF Waiting, Delivering, Frames
<1>5. /\ stack' \in Seq(Frames) /\ Len(stack') = n + 1
      /\ \A j \in 1 .. n - 1 : stack'[j] = stack[j]
      /\ stack'[n] = Waiting(Running.of, rest) /\ stack'[n + 1] = Delivering(w)
  BY <1>1, <1>4, PutsOnTop DEF IInv
<1>6. /\ stack'[n].at = "wait" /\ stack'[n].of = stack[n].of /\ stack'[n].batch = rest
      /\ stack'[n + 1].at = "work" /\ stack'[n + 1].of = w /\ stack'[n + 1].batch = <<>>
  BY <1>2, <1>5 DEF Waiting, Delivering
<1>7. state[w] = "worked" /\ \A k \in 1 .. Len(finished) : finished[k] # w
  <2>1. n \in 1 .. Len(stack) /\ 1 \in 1 .. Len(stack[n].batch) /\ stack[n].batch[1] = w
    BY <1>2, <1>3
  <2>2. QED
    BY <2>1 DEF IInv, PlaceInv, BatchInv
<1>8. TypeOK'
  BY <1>1, <1>3, <1>5 DEF IInv, TypeOK, States, StaticOnWork, refVars
<1>9. CountInv'
  BY <1>1, <1>3, <1>7, SameContexts DEF IInv, StaticOnWork, refVars
<1>10. ClosureInv'
  BY <1>1, <1>3, <1>7 DEF IInv, ClosureInv, StaticOnWork
\* What is in a batch now was there before, a place farther behind if w was its head.
<1>11. ASSUME NEW j \in 1 .. n + 1, NEW i \in 1 .. Len(stack'[j].batch)
       PROVE  /\ j \in 1 .. n
              /\ j # n => i \in 1 .. Len(stack[j].batch) /\ stack'[j].batch[i] = stack[j].batch[i]
              /\ j = n => /\ i + 1 \in 2 .. Len(stack[n].batch)
                          /\ stack'[j].batch[i] = stack[n].batch[i + 1]
  <2>1. j # n + 1
    BY <1>6
  <2>2. j \in 1 .. n
    BY <1>2, <2>1
  <2>3. CASE j # n
    <3>1. stack'[j] = stack[j]
      BY <1>2, <1>5, <2>2, <2>3
    <3>2. QED
      BY <2>2, <2>3, <3>1
  <2>4. CASE j = n
    <3>1. i \in 1 .. Len(rest) /\ stack'[j].batch[i] = rest[i]
      BY <1>6, <2>4
    <3>2. stack[n].batch = Running.batch
      BY <1>2
    <3>3. rest[i] = stack[n].batch[i + 1] /\ i + 1 \in 2 .. Len(stack[n].batch)
      BY <1>3, <3>1, <3>2
    <3>4. QED
      BY <2>2, <2>4, <3>1, <3>3
  <2>5. QED
    BY <2>3, <2>4
<1>12. PlaceInv'
  <2>1. /\ Len(finished) \in Nat /\ \A i \in 1 .. Len(finished) : finished[i] \in Works
        /\ \A j \in 1 .. n : \A i \in 1 .. Len(stack[j].batch) : stack[j].batch[i] \in Works
    BY PlacesAreWorks DEF IInv
  <2>2. QueueInv'
    BY <1>1, <1>3, <1>7, <2>1 DEF IInv, PlaceInv, QueueInv
  \* Each place stands for one of before, which was not w's.
  <2>3. ASSUME NEW j \in 1 .. n + 1, NEW i \in 1 .. Len(stack'[j].batch)
        PROVE  \E p \in 1 .. Len(stack[j].batch) :
                 /\ j \in 1 .. n /\ stack'[j].batch[i] = stack[j].batch[p]
                 /\ p = IF j = n THEN i + 1 ELSE i
                 /\ j = n => p # 1
    <3>1. CASE j = n
      <4>1. i \in Nat /\ Len(stack[n].batch) \in Nat
        BY <1>2, <1>3, <1>6, <3>1
      <4>2. i + 1 \in 1 .. Len(stack[j].batch) /\ i + 1 # 1
        BY <1>11, <3>1, <4>1
      <4>3. QED
        BY <1>11, <3>1, <4>2
    <3>2. CASE j # n
      BY <1>11, <3>2
    <3>3. QED
      BY <3>1, <3>2
  <2>4. ASSUME NEW j \in 1 .. n + 1, NEW i \in 1 .. Len(stack'[j].batch)
        PROVE  stack'[j].batch[i] # w
    <3>1. PICK p \in 1 .. Len(stack[j].batch) :
            /\ j \in 1 .. n /\ stack'[j].batch[i] = stack[j].batch[p] /\ (j = n => p # 1)
      BY <2>3
    <3>2. n \in 1 .. n /\ 1 \in 1 .. Len(stack[n].batch) /\ stack[n].batch[1] = w
      BY <1>2, <1>3
    <3>3. QED
      BY <3>1, <3>2 DEF IInv, PlaceInv, ApartInv
  <2>5. BatchInv'
    <3>1. SUFFICES ASSUME NEW j \in 1 .. n + 1, NEW i \in 1 .. Len(stack'[j].batch)
                   PROVE  /\ state'[stack'[j].batch[i]] = "worked"
                          /\ \A k \in 1 .. Len(finished) : finished[k] # stack'[j].batch[i]
      BY <1>1, <1>5 DEF BatchInv
    <3>2. PICK p \in 1 .. Len(stack[j].batch) :
            j \in 1 .. n /\ stack'[j].batch[i] = stack[j].batch[p]
      BY <2>3
    <3>3. /\ state[stack[j].batch[p]] = "worked" /\ stack[j].batch[p] \in Works
          /\ \A k \in 1 .. Len(finished) : finished[k] # stack[j].batch[p]
      BY <2>1, <3>2 DEF IInv, PlaceInv, BatchInv
    <3>4. QED
      BY <1>1, <2>4, <3>2, <3>3
  <2>6. ApartInv'
    <3>1. SUFFICES ASSUME NEW j \in 1 .. n + 1, NEW k \in 1 .. n + 1,
                          NEW i \in 1 .. Len(stack'[j].batch), NEW l \in 1 .. Len(stack'[k].batch),
                          stack'[k].batch[l] = stack'[j].batch[i]
                   PROVE  k = j /\ l = i
      BY <1>5 DEF ApartInv
    <3>2. PICK p \in 1 .. Len(stack[j].batch) :
            /\ j \in 1 .. n /\ stack'[j].batch[i] = stack[j].batch[p]
            /\ p = IF j = n THEN i + 1 ELSE i
      BY <2>3
    <3>3. PICK q \in 1 .. Len(stack[k].batch) :
            /\ k \in 1 .. n /\ stack'[k].batch[l] = stack[k].batch[q]
            /\ q = IF k = n THEN l + 1 ELSE l
      BY <2>3
    <3>4. k = j /\ q = p
      BY <3>1, <3>2, <3>3 DEF IInv, PlaceInv, ApartInv
    <3>5. i \in Int /\ l \in Int
      OBVIOUS
    <3>6. QED
      BY <3>2, <3>3, <3>4, <3>5
  <2>7. QED
    BY <2>2, <2>5, <2>6 DEF PlaceInv
<1>13. StackInv'
  <2>1. futureHeld' = futureHeld
    BY DEF StaticOnWork, refVars
  <2>2. ASSUME NEW j \in 1 .. n
        PROVE  stack'[j].at = stack[j].at /\ stack'[j].of = stack[j].of
    <3>1. CASE j = n
      BY <1>1, <1>2, <1>6, <3>1
    <3>2. CASE j # n
      <4>1. j \in 1 .. n - 1
        BY <1>2, <3>2
      <4>2. QED
        BY <1>5, <4>1
    <3>3. QED
      BY <3>1, <3>2
  <2>3. ASSUME NEW j \in 1 .. n, stack[j].at = "work"
        PROVE  /\ stack[j].of \in Works /\ state'[stack[j].of] = "delivering" /\ stack[j].of # w
    BY <1>1, <1>7, <2>3 DEF IInv, StackInv
  <2>4. state'[w] = "delivering"
    BY <1>1, <1>3
  <2>5. ASSUME NEW j \in 1 .. n + 1
        PROVE  j \in 1 .. n \/ j = n + 1
    BY <1>2
  <2>6. ASSUME NEW j \in 1 .. n + 1
        PROVE  /\ stack'[j].at = "wait" => stack'[j].of \in futureHeld'
               /\ stack'[j].at = "work" =>
                    /\ stack'[j].of \in Works /\ state'[stack'[j].of] = "delivering"
                    /\ \A k \in 1 .. n + 1 :
                         stack'[k].at = "work" /\ stack'[k].of = stack'[j].of => k = j
    <3>1. CASE j = n + 1
      BY <1>3, <1>6, <2>2, <2>3, <2>4, <2>5, <3>1
    <3>2. CASE j \in 1 .. n
      BY <1>6, <2>1, <2>2, <2>3, <2>5, <3>2 DEF IInv, StackInv
    <3>3. QED
      BY <2>5, <3>1, <3>2
  <2>7. QED
    BY <1>5, <2>6 DEF StackInv
<1>14. QED
  BY <1>8, <1>9, <1>10, <1>12, <1>13 DEF IInv

LEMMA OnWorkReturnsStep ==
  ASSUME IInv, OnWorkReturns
  PROVE  IInv'
<1> DEFINE w == Running.of
           f == target[w]
<1>1. /\ stack # <<>> /\ Running.at = "work" /\ stack' = Callers /\ finished' = finished
      /\ state' = [state EXCEPT ![w] = "gone"] /\ pending' = [pending EXCEPT ![f] = @ - 1]
      /\ Unref(f, 1) /\ target' = target /\ futureHeld' = futureHeld /\ loopHeld' = loopHeld
      /\ state \in [Works -> States] /\ target \in [Works -> Futures]
      /\ pending \in [Futures -> Int]
  BY DEF IInv, TypeOK, OnWorkReturns
<1>2. /\ Len(stack) \in Nat \ {0} /\ Running = stack[Len(stack)]
      /\ stack' \in Seq(Frames) /\ Len(stack') = Len(stack) - 1
      /\ \A j \in 1 .. Len(stack') : stack'[j] = stack[j]
  BY <1>1, CallersAre DEF IInv, Running
<1>3. w \in Works /\ state[w] = "delivering" /\ f \in Futures
  <2>1. w \in Works /\ state[w] = "delivering"
    BY <1>1, <1>2 DEF IInv, StackInv
  <2>2. QED
    BY <1>1, <2>1
<1>4. /\ Cardinality(Contexts') = Cardinality(Contexts) - 1
      /\ \A g \in Futures :
           Cardinality(Owed(g)') = Cardinality(Owed(g)) - (IF g = f THEN 1 ELSE 0)
  BY <1>1, <1>3, ContextEnds DEF IInv
<1>5. pending[f] > 0 /\ futureRefs[f] > 0
  <2>1. w \in Owed(f)
    BY <1>3 DEF Owed, Contexts
  <2>2. Cardinality(Owed(f)) # 0
    BY <2>1, Finite, FS_EmptySet
  <2>3. QED
    BY <1>3, <2>2, Finite, FutureCount DEF IInv
<1>6. /\ futureRefs' \in [Futures -> Int] /\ loopRefs' \in Int /\ loopDeleted' \in BOOLEAN
      /\ loopRefs' - Cardinality(Alive') = loopRefs - Cardinality(Alive) - 1
      /\ loopDeleted' <=> loopRefs' = 0
  BY <1>1, <1>3, <1>5, UnrefCounts DEF IInv
<1>7. TypeOK'
  <2>1. state' \in [Works -> States] /\ pending' \in [Futures -> Int]
    BY <1>1, <1>3 DEF States
  <2>2. QED
    BY <1>1, <1>2, <1>6, <2>1, Zenon DEF IInv, TypeOK, OnWorkReturns
<1>8. CountInv'
  <2>1. ASSUME NEW g \in Futures
        PROVE  /\ pending'[g] = Cardinality(Owed(g)')
               /\ futureRefs'[g] = (IF g \in futureHeld' THEN 1 ELSE 0) + Cardinality(Owed(g)')
    <3>1. /\ pending'[g] = pending[g] - (IF g = f THEN 1 ELSE 0)
          /\ futureRefs'[g] = futureRefs[g] - (IF g = f THEN 1 ELSE 0)
      BY <1>1, <1>3 DEF IInv, TypeOK, Unref
    <3>2. QED
      BY <1>1, <1>4, <3>1, FutureCount DEF IInv
  <2>2. loopRefs' = (IF loopHeld' THEN 1 ELSE 0) + Cardinality(Contexts') + Cardinality(Alive')
    <3>1. Alive' \in SUBSET Futures
      BY DEF Alive
    <3>2. Cardinality(Alive') \in Nat
      BY <3>1, LoopAssumption, FS_Subset, FS_CardinalityType
    <3>3. loopHeld \in BOOLEAN
      BY DEF IInv, TypeOK
    <3>4. QED
      BY <1>1, <1>4, <1>6, <3>2, <3>3, LoopCount, Finite DEF IInv
  <2>3. QED
    BY <1>6, <2>1, <2>2 DEF CountInv
<1>9. ClosureInv'
  BY <1>1, <1>3 DEF IInv, ClosureInv, OnWorkReturns
<1>10. PlaceInv'
  BY <1>1, <1>3, ReturnKeepsPlaces DEF IInv
<1>11. StackInv'
  <2>1. ASSUME NEW j \in 1 .. Len(stack')
        PROVE  /\ j \in 1 .. Len(stack) /\ stack'[j] = stack[j]
               /\ stack[j].at = "work" => stack[j].of # w
    <3>1. /\ j \in 1 .. Len(stack) /\ Len(stack) \in 1 .. Len(stack) /\ j # Len(stack)
          /\ stack'[j] = stack[j]
      BY <1>2
    <3>2. QED
      BY <1>1, <1>2, <3>1 DEF IInv, StackInv
  <2>2. QED
    BY <1>1, <2>1 DEF IInv, StackInv
<1>12. QED
  BY <1>7, <1>8, <1>9, <1>10, <1>11 DEF IInv

\* Every step, and none.
LEMMA StepInvariant == IInv /\ [Next]_vars => IInv'
<1> SUFFICES ASSUME IInv, [Next]_vars PROVE IInv'
  OBVIOUS
<1>1. CASE \E f \in Futures : CreateFuture(f) \/ Wait(f) \/ ReleaseFuture(f)
  BY <1>1, CreateFutureStep, WaitStep, ReleaseFutureStep
<1>2. CASE \E w \in Works : AsyncProcess(w)
  BY <1>2, AsyncProcessStep
<1>3. CASE ReleaseLoop
  BY <1>3, ReleaseLoopStep
<1>4. CASE Pool
  BY <1>4, StaticThreadWorkStep, ThreadWorkReturnsStep DEF Pool
<1>5. CASE Loop
  BY <1>5, RunOnceStep, WaitReturnsStep, StaticOnWorkStep, OnWorkReturnsStep DEF Loop
<1>6. CASE UNCHANGED vars
  <2>1. TypeOK'
    BY <1>6 DEF IInv, TypeOK, vars, workVars, refVars
  <2>2. CountInv'
    BY <1>6, SameContexts DEF IInv, vars, workVars, refVars
  <2>3. ClosureInv'
    BY <1>6 DEF IInv, ClosureInv, vars, workVars
  <2>4. PlaceInv' /\ StackInv'
    BY <1>6, KeepsPlaces DEF IInv, vars, workVars, refVars
  <2>5. QED
    BY <2>1, <2>2, <2>3, <2>4 DEF IInv
<1>7. QED
  BY <1>1, <1>2, <1>3, <1>4, <1>5, <1>6 DEF Next

-----------------------------------------------------------------------------
(* The theorems.                                                           *)

\* The invariant holds: every count of the loop and of a future says what it counts, the
\* closures of a work are run once, and a finished work is in one place, whatever is on
\* the stack (AsyncProcess of shared_uv_loop-inl.h and RefCountedFuture::Wait).
THEOREM Invariance == Spec => []IInv
<1>1. Init => IInv
  BY InitInvariant
<1>2. IInv /\ [Next]_vars => IInv'
  BY StepInvariant
<1>3. QED
  BY <1>1, <1>2, PTL DEF Spec

\* While anything is on the stack something holds the loop: what waits does so for a
\* future that is there, and a callback's context is there.
LEMMA StackHoldsLoop ==
  ASSUME IInv, stack # <<>>
  PROVE  loopRefs # 0
<1>1. /\ Len(stack) \in Nat \ {0} /\ Running \in Frames /\ Running = stack[Len(stack)]
      /\ Len(stack) \in 1 .. Len(stack)
  BY CallersAre DEF IInv, Running
<1>2. CASE Running.at = "wait"
  <2>1. Running.of \in futureHeld /\ Running.of \in Futures
    BY <1>1, <1>2 DEF IInv, StackInv, TypeOK
  <2>2. Running.of \in Alive
    BY <2>1, FutureCount DEF IInv, Alive
  <2>3. Cardinality(Alive) # 0
    BY <2>2, Finite, FS_EmptySet
  <2>4. QED
    BY <2>3, Finite, LoopCount DEF IInv
<1>3. CASE Running.at = "work"
  <2>1. Running.of \in Works /\ state[Running.of] = "delivering"
    BY <1>1, <1>3 DEF IInv, StackInv
  <2>2. Running.of \in Contexts
    BY <2>1 DEF Contexts
  <2>3. Cardinality(Contexts) # 0
    BY <2>2, Finite, FS_EmptySet
  <2>4. QED
    BY <2>3, Finite, LoopCount DEF IInv
<1>4. QED
  BY <1>1, <1>2, <1>3 DEF Frames

\* Without a reference there is nothing that could hold one.
LEMMA NothingHoldsLoop ==
  ASSUME IInv
  PROVE  loopRefs = 0 <=> ~loopHeld /\ Contexts = {} /\ Alive = {}
<1>1. /\ Contexts = {} <=> Cardinality(Contexts) = 0
      /\ Alive = {} <=> Cardinality(Alive) = 0
  BY Finite, FS_EmptySet
<1>2. loopRefs = 0 <=> ~loopHeld /\ Cardinality(Contexts) = 0 /\ Cardinality(Alive) = 0
  BY Finite, LoopCount DEF IInv
<1>3. QED
  BY <1>1, <1>2

\* Every reference is counted, and ~RefCountedUvLoop runs exactly when nobody has one:
\* not under a call of Wait, a work or a future, and not never.
THEOREM ReferencesExact == Spec => []RefsExact
<1>1. IInv => RefsExact
  <2> SUFFICES ASSUME IInv PROVE RefsExact
    OBVIOUS
  <2>1. /\ loopRefs = (IF loopHeld THEN 1 ELSE 0) + Cardinality(Contexts)
                         + Cardinality({f \in Futures : futureRefs[f] > 0})
        /\ \A f \in Futures :
             futureRefs[f] = (IF f \in futureHeld THEN 1 ELSE 0)
                               + Cardinality({w \in Contexts : target[w] = f})
    BY DEF IInv, CountInv, Alive, Owed
  <2>2. Alive = {} <=> \A f \in Futures : futureRefs[f] = 0
    <3>1. \A f \in Futures : futureRefs[f] \in Nat
      BY FutureCount DEF IInv
    <3>2. QED
      BY <3>1 DEF Alive
  <2>3. loopDeleted <=> loopRefs = 0
    BY DEF IInv, CountInv
  <2>4. loopDeleted <=> ~loopHeld /\ stack = <<>> /\ Contexts = {}
                          /\ \A f \in Futures : futureRefs[f] = 0
    BY <2>2, <2>3, StackHoldsLoop, NothingHoldsLoop
  <2>5. QED
    BY <2>1, <2>4 DEF RefsExact
<1>2. QED
  BY <1>1, Invariance, PTL

\* No check of OnClosure, of ~RefCountedFuture or of ~AsyncClosureContext fails.
THEOREM NoAssertionFails == Spec => []AssertionsHold
<1>1. IInv => AssertionsHold
  <2> SUFFICES ASSUME IInv PROVE AssertionsHold
    OBVIOUS
  <2>1. ASSUME NEW f \in Futures, futureRefs[f] = 0
        PROVE  pending[f] = 0
    BY <2>1, FutureCount DEF IInv
  <2>2. ASSUME NEW w \in Works, state[w] = "delivering"
        PROVE  pending[target[w]] > 0
    <3>1. target[w] \in Futures /\ w \in Owed(target[w])
      BY <2>2 DEF IInv, TypeOK, Owed, Contexts
    <3>2. Cardinality(Owed(target[w])) # 0
      BY <3>1, Finite, FS_EmptySet
    <3>3. QED
      BY <3>1, <3>2, FutureCount DEF IInv
  <2>3. ASSUME NEW w \in Works, state[w] = "gone"
        PROVE  w \notin threadWork \cup onWork
    BY <2>3 DEF IInv, ClosureInv
  <2>4. QED
    BY <2>1, <2>2, <2>3 DEF AssertionsHold
<1>2. QED
  BY <1>1, Invariance, PTL

\* No step but its own return makes the stack shorter while a call of Wait is on top.
LEMMA OnlyItsReturn ==
  ASSUME IInv, [Next]_vars, InWait, Len(stack') < Len(stack)
  PROVE  WaitReturns
<1>1. stack # <<>> /\ Len(stack) \in Nat \ {0} /\ Running \in Frames /\ Running.at = "wait"
  BY CallersAre DEF IInv, InWait
<1>2. stack' # stack /\ ~InUserCode
  BY <1>1 DEF InUserCode
<1>3. ~OnWorkReturns
  BY <1>1 DEF OnWorkReturns
<1>4. ~RunOnce
  <2>1. ASSUME RunOnce PROVE FALSE
    <3>1. /\ stack' = Append(Callers, Waiting(Running.of, finished))
          /\ finished \in Seq(Works)
      BY <2>1 DEF RunOnce, IInv, TypeOK
    <3>2. Waiting(Running.of, finished) \in Frames
      BY <1>1, <3>1 DEF Waiting, Frames
    <3>3. Len(stack') = Len(stack)
      BY <1>1, <3>1, <3>2, ReplacesLast DEF IInv
    <3>4. QED
      BY <1>1, <3>3
  <2>2. QED
    BY <2>1
<1>5. ~StaticOnWork
  <2>1. ASSUME StaticOnWork PROVE FALSE
    <3>1. /\ Running.batch # <<>>
          /\ stack' = Callers \o <<Waiting(Running.of, Tail(Running.batch)),
                                    Delivering(Head(Running.batch))>>
      BY <2>1 DEF StaticOnWork
    <3>2. Running.batch \in Seq(Works)
      BY <1>1 DEF Frames
    <3>3. Head(Running.batch) \in Works /\ Tail(Running.batch) \in Seq(Works)
      BY <3>1, <3>2, HeadTailProperties
    <3>4. /\ Waiting(Running.of, Tail(Running.batch)) \in Frames
          /\ Delivering(Head(Running.batch)) \in Frames
      BY <1>1, <3>3 DEF Waiting, Delivering, Frames
    <3>5. Len(stack') = Len(stack) + 1
      BY <1>1, <3>1, <3>4, PutsOnTop DEF IInv
    <3>6. QED
      BY <1>1, <3>5
  <2>2. QED
    BY <2>1
<1>6. ~Pool /\ ~UNCHANGED vars
  BY <1>2 DEF Pool, StaticThreadWork, ThreadWorkReturns, vars
<1>7. QED
  BY <1>2, <1>3, <1>4, <1>5, <1>6
     DEF Next, Loop, CreateFuture, Wait, ReleaseFuture, AsyncProcess, ReleaseLoop

\* When Wait returns no work for its future is under way.
THEOREM WaitIsDone == Spec => WaitMeansDone
<1> DEFINE Done == \A f \in Futures :
                     InWait /\ Running.of = f /\ Len(stack') < Len(stack) =>
                       \A w \in Works : target[w] = f => state[w] \in {"new", "gone"}
<1>1. IInv /\ [Next]_vars => Done
  <2> SUFFICES ASSUME IInv, [Next]_vars, NEW f \in Futures,
                      InWait, Running.of = f, Len(stack') < Len(stack),
                      NEW w \in Works, target[w] = f
               PROVE  state[w] \in {"new", "gone"}
    OBVIOUS
  <2>1. pending[f] = 0
    BY OnlyItsReturn DEF WaitReturns, WaitTest
  <2>2. Owed(f) = {}
    BY <2>1, FutureCount, Finite, FS_EmptySet DEF IInv
  <2>3. QED
    BY <2>2 DEF Owed, Contexts
<1>2. QED
  BY <1>1, Invariance, PTL DEF Spec, WaitMeansDone
=============================================================================
