--------------------- MODULE HttpServerConnectionProofs ---------------------
(***************************************************************************)
(* The safety of HttpServerConnection for any number of requests.  The     *)
(* inductive invariant says how the lifecycle flags exclude each other,    *)
(* that handle_queue_ always holds the most recent consecutive requests,   *)
(* and that the wire holds the consecutive requests before them.           *)
(***************************************************************************)
EXTENDS HttpServerConnection, SequenceTheorems, FiniteSetTheorems, TLAPS

-----------------------------------------------------------------------------
(* The inductive invariant.                                                *)

\* The flags: what excludes what over the life of the connection.
LifeInv ==
  /\ onClosing <=> onClose /\ ~closing
  /\ onClose /\ ~closing => open
  /\ reading => onClosing
  /\ buffer => closing
  /\ uvClosing <=> open /\ closing
  /\ frame # "loop" => open /\ (onClose \/ closing)
  /\ closing => (onClose <=> ~deleted)
  /\ deleted => ~open /\ ~onClose
  /\ onStack # {} => deleted
  /\ onStack = {} \/ \E t \in Requests : onStack = {t}

\* Deletion waits for the queues and for nothing else.
QuietInv ==
  /\ ~onClose /\ ~closing => handed = 0 /\ handleQueue = <<>> /\ writeQueue = <<>>
  /\ deleted => handleQueue = <<>> /\ writeQueue = <<>>
  /\ closing => (deleted <=> ~open /\ handleQueue = <<>> /\ writeQueue = <<>>)

\* How many requests have left the handle queue.
Popped == handed - Len(handleQueue)

\* The parser's queue goes on where the handle queue ends.
ParserInv ==
  ~closing =>
    /\ received = handed + Len(parserQueue)
    /\ \A i \in 1 .. Len(parserQueue) : parserQueue[i] = handed + i

\* handle_queue_ holds the last requests handed over; those before it are
\* answered, those after it are not, and neither is its head.
HandleInv ==
  /\ Popped \in Nat
  /\ \A i \in 1 .. Len(handleQueue) : handleQueue[i] = Popped + i
  /\ \A t \in Requests : t <= Popped => response[t] # NoResponse
  /\ \A t \in Requests : t > handed => response[t] = NoResponse
  /\ handleQueue # <<>> => response[Popped + 1] = NoResponse

\* What was popped is on the wire, unless the connection was closing.
WireInv ==
  /\ Len(wire) <= Popped
  /\ ~closing => Len(wire) = Popped
  /\ \A i \in 1 .. Len(wire) :
       wire[i] = [request |-> i, response |-> response[i]]

IInv ==
  /\ TypeOK /\ LifeInv /\ QuietInv /\ ParserInv /\ HandleInv /\ WireInv
  /\ PendingCountsTransactions
-----------------------------------------------------------------------------
(* Facts about the helpers.                                                *)

\* Erasing a position of a list removes one element and adds none.
LEMMA EraseAtType ==
  ASSUME NEW S, NEW q \in Seq(S), NEW i \in 1 .. Len(q)
  PROVE  EraseAt(q, i) \in Seq(S) /\ Len(EraseAt(q, i)) = Len(q) - 1
<1>1. Len(q) \in Nat /\ \A j \in 1 .. Len(q) : q[j] \in S
  BY LenProperties, ElementOfSeq
<1>2. /\ SubSeq(q, 1, i - 1) \in Seq(S)
      /\ Len(SubSeq(q, 1, i - 1)) = i - 1
  BY <1>1, SubSeqProperties
<1>3. /\ SubSeq(q, i + 1, Len(q)) \in Seq(S)
      /\ Len(SubSeq(q, i + 1, Len(q))) = Len(q) - i
  BY <1>1, SubSeqProperties
<1>4. \A a, b \in Seq(S) : a \o b \in Seq(S) /\ Len(a \o b) = Len(a) + Len(b)
  BY ConcatProperties
<1>5. Len(EraseAt(q, i)) = (i - 1) + (Len(q) - i)
  BY <1>2, <1>3, <1>4, Zenon DEF EraseAt
<1>6. EraseAt(q, i) \in Seq(S)
  BY <1>2, <1>3, <1>4, Zenon DEF EraseAt
<1>7. QED
  BY <1>1, <1>5, <1>6

\* The front and the rest of a list, cut after n elements.
LEMMA CutProperties ==
  ASSUME NEW S, NEW q \in Seq(S), NEW n \in 0 .. Len(q)
  PROVE  /\ SubSeq(q, 1, n) \in Seq(S)
         /\ Len(SubSeq(q, 1, n)) = n
         /\ SubSeq(q, n + 1, Len(q)) \in Seq(S)
         /\ Len(SubSeq(q, n + 1, Len(q))) = Len(q) - n
         /\ \A i \in 1 .. Len(q) - n : SubSeq(q, n + 1, Len(q))[i] = q[n + i]
<1>1. \A i \in 1 .. Len(q) : q[i] \in S
  BY ElementOfSeq
<1>2. Len(q) \in Nat
  BY LenProperties
<1>3. /\ SubSeq(q, 1, n) \in Seq(S)
      /\ Len(SubSeq(q, 1, n)) = n
  BY <1>1, <1>2, SubSeqProperties
<1>4. /\ SubSeq(q, n + 1, Len(q)) \in Seq(S)
      /\ Len(SubSeq(q, n + 1, Len(q))) = Len(q) - n
      /\ \A i \in 1 .. Len(q) - n : SubSeq(q, n + 1, Len(q))[i] = q[n + i]
  BY <1>1, <1>2, SubSeqProperties
<1>5. QED
  BY <1>3, <1>4

\* Serializing answered transactions yields as many responses, in their order.
LEMMA SerializedProperties ==
  ASSUME NEW q \in Seq(Requests), NEW n \in 0 .. Len(q),
         NEW resp \in [Requests -> Outcomes \cup {NoResponse}],
         \A i \in 1 .. n : resp[q[i]] # NoResponse
  PROVE  /\ Serialized(q, n, resp) \in Seq(Response)
         /\ Len(Serialized(q, n, resp)) = n
         /\ \A i \in 1 .. n : Serialized(q, n, resp)[i] =
              [request |-> q[i], response |-> resp[q[i]]]
<1>1. n \in Nat /\ \A i \in 1 .. n : q[i] \in Requests
  BY ElementOfSeq, LenProperties
<1>2. \A i \in 1 .. n : [request |-> q[i], response |-> resp[q[i]]] \in Response
  BY <1>1 DEF Response
<1>3. Serialized(q, n, resp) \in [1 .. n -> Response]
  BY <1>2 DEF Serialized
<1>4. Serialized(q, n, resp) \in Seq(Response)
  BY <1>1, <1>3, SeqDef
<1>5. QED
  BY <1>1, <1>3, <1>4, LenProperties DEF Serialized
-----------------------------------------------------------------------------
(* The invariant holds at first, and what a step leaves alone stays true.  *)

\* A connection that was just constructed satisfies the invariant.
LEMMA InitInvariant == Init => IInv
<1> SUFFICES ASSUME Init PROVE IInv
  OBVIOUS
<1>1. Len(<<>>) = 0 /\ \A S : <<>> \in Seq(S)
  BY EmptySeq
<1>2. response \in [Requests -> Outcomes \cup {NoResponse}]
  BY DEF Init
<1>3. /\ Len(parserQueue) = 0 /\ parserQueue \in Seq(Requests)
      /\ Len(handleQueue) = 0 /\ handleQueue \in Seq(Requests)
      /\ Len(writeQueue) = 0 /\ writeQueue \in Seq(Requests)
      /\ Len(wire) = 0 /\ wire \in Seq(Response)
  BY <1>1, Zenon DEF Init
<1>4. TypeOK
  <2>1. /\ open \in BOOLEAN /\ reading \in BOOLEAN /\ closing \in BOOLEAN
        /\ onClosing \in BOOLEAN /\ onClose \in BOOLEAN /\ buffer \in BOOLEAN
        /\ deleted \in BOOLEAN /\ uvClosing \in BOOLEAN
    BY DEF Init
  <2>2. /\ pending \in Nat /\ frame \in {"loop", "read", "handler"}
        /\ onStack \in SUBSET Requests
        /\ received \in 0 .. MaxRequests /\ handed \in 0 .. MaxRequests
    BY MaxRequestsAssumption DEF Init
  <2>3. QED
    BY <1>2, <1>3, <2>1, <2>2, Zenon DEF TypeOK
<1>5. LifeInv /\ QuietInv
  BY DEF Init, LifeInv, QuietInv
<1>6. HandleInv
  BY <1>1, MaxRequestsAssumption DEF Init, HandleInv, Popped, Requests
<1>7. handed = 0 /\ received = 0
  BY DEF Init
<1>8. ParserInv /\ WireInv
  BY <1>3, <1>7 DEF ParserInv, WireInv, Popped
<1>10. PendingCountsTransactions
  BY <1>1, FS_EmptySet DEF Init, PendingCountsTransactions
<1>11. QED
  BY <1>4, <1>5, <1>6, <1>8, <1>10 DEF IInv

\* Nothing happens to the answers that were given if no queue and no response changes.
LEMMA HandleFrame ==
  HandleInv /\ UNCHANGED <<handleQueue, response, handed>> => HandleInv'
BY DEF HandleInv, Popped

\* What is on the wire stays in step with the queue if neither changes, also when the
\* connection begins to close.
LEMMA WireFrame ==
  WireInv /\ UNCHANGED <<handleQueue, response, handed, wire>>
          /\ (closing => closing') => WireInv'
BY DEF WireInv, Popped

\* The parser's queue stays behind the handle queue if neither changes.
LEMMA ParserFrame ==
  ParserInv /\ UNCHANGED <<parserQueue, received, handed>>
            /\ (closing => closing') => ParserInv'
BY DEF ParserInv

\* The count stays exact if no transaction comes, moves or goes.
LEMMA PendingFrame ==
  PendingCountsTransactions /\ UNCHANGED <<pending, handleQueue, writeQueue, onStack>>
    => PendingCountsTransactions'
BY DEF PendingCountsTransactions

\* Close from a state that is up, whatever else the step changes in buffer.
LEMMA CloseLife ==
  ASSUME LifeInv, Close, UNCHANGED <<lifeVars, frame, onStack>>,
         onClose, buffer' \in BOOLEAN
  PROVE  LifeInv' /\ closing'
BY DEF LifeInv, Close, closeVars, lifeVars

\* Close of an open connection never makes it ready to be deleted: the handle is open.
LEMMA CloseQuiet ==
  ASSUME LifeInv, QuietInv, Close, onClose,
         UNCHANGED <<lifeVars, handleQueue, writeQueue>>
  PROVE  QuietInv'
BY DEF LifeInv, QuietInv, Close, closeVars, lifeVars

\* The steps that touch only the flags keep every type.
LEMMA FlagsType ==
  ASSUME TypeOK, UNCHANGED <<queueVars, parserQueue, received, handed, wire, onStack>>,
         open' \in BOOLEAN, reading' \in BOOLEAN, closing' \in BOOLEAN,
         onClosing' \in BOOLEAN, onClose' \in BOOLEAN, buffer' \in BOOLEAN,
         deleted' \in BOOLEAN, uvClosing' \in BOOLEAN,
         frame' \in {"loop", "read", "handler"}
  PROVE  TypeOK'
BY Zenon DEF TypeOK, queueVars

\* Close leaves flags flags.
LEMMA CloseTypes ==
  ASSUME TypeOK, Close
  PROVE  /\ reading' \in BOOLEAN /\ closing' \in BOOLEAN
         /\ onClosing' \in BOOLEAN /\ uvClosing' \in BOOLEAN
         /\ closing'
BY DEF TypeOK, Close, closeVars

-----------------------------------------------------------------------------
(* Every action preserves the invariant: the setting up and the closing.   *)

\* Steps of others.
LEMMA StutterInvariant == IInv /\ UNCHANGED vars => IInv'
<1> SUFFICES ASSUME IInv, UNCHANGED vars PROVE IInv'
  OBVIOUS
<1> USE DEF vars, lifeVars, closeVars, queueVars, readVars
<1>1. TypeOK'
  BY Zenon DEF IInv, TypeOK
<1>2. LifeInv' /\ QuietInv'
  BY DEF IInv, LifeInv, QuietInv
<1>3. ParserInv' /\ HandleInv' /\ WireInv'
  BY HandleFrame, WireFrame, ParserFrame DEF IInv
<1>4. PendingCountsTransactions'
  BY PendingFrame DEF IInv
<1>5. QED
  BY <1>1, <1>2, <1>3, <1>4 DEF IInv

\* HttpServerConnection::InitSync, whether it fails or not.
LEMMA InitSyncInvariant == IInv /\ InitSync => IInv'
<1> SUFFICES ASSUME IInv, InitSync PROVE IInv'
  OBVIOUS
<1> USE DEF lifeVars, closeVars, queueVars, readVars
<1>1. TypeOK'
  <2>1. open' \in BOOLEAN /\ deleted' \in BOOLEAN
    BY DEF IInv, TypeOK, InitSync
  <2>2. QED
    BY <2>1, FlagsType, Zenon DEF IInv, TypeOK, InitSync
<1>2. LifeInv' /\ QuietInv'
  BY DEF IInv, LifeInv, QuietInv, InitSync
<1>3. ParserInv' /\ HandleInv' /\ WireInv'
  BY HandleFrame, WireFrame, ParserFrame DEF IInv, InitSync
<1>4. PendingCountsTransactions'
  BY PendingFrame DEF IInv, InitSync
<1>5. QED
  BY <1>1, <1>2, <1>3, <1>4 DEF IInv

\* HttpServerConnection::InitAsync, which may close the connection at once.
LEMMA InitAsyncInvariant == IInv /\ InitAsync => IInv'
<1> SUFFICES ASSUME IInv, InitAsync PROVE IInv'
  OBVIOUS
<1> USE DEF lifeVars, closeVars, queueVars, readVars
<1>1. TypeOK'
  <2>1. /\ open' \in BOOLEAN /\ reading' \in BOOLEAN /\ closing' \in BOOLEAN
        /\ onClosing' \in BOOLEAN /\ onClose' \in BOOLEAN
        /\ uvClosing' \in BOOLEAN /\ deleted' \in BOOLEAN
    BY CloseTypes DEF IInv, TypeOK, InitAsync
  <2>2. QED
    BY <2>1, FlagsType, Zenon DEF IInv, TypeOK, InitAsync
<1>2. LifeInv' /\ QuietInv'
  BY DEF IInv, LifeInv, QuietInv, InitAsync, Close
<1>3. closing => closing'
  BY DEF InitAsync
<1>4. ParserInv' /\ HandleInv' /\ WireInv'
  BY <1>3, HandleFrame, WireFrame, ParserFrame DEF IInv, InitAsync
<1>5. PendingCountsTransactions'
  BY PendingFrame DEF IInv, InitAsync
<1>6. QED
  BY <1>1, <1>2, <1>4, <1>5 DEF IInv

\* Close called by the core.
LEMMA ServerCloseInvariant == IInv /\ ServerClose => IInv'
<1> SUFFICES ASSUME IInv, ServerClose PROVE IInv'
  OBVIOUS
<1> USE DEF lifeVars, queueVars, readVars
<1>1. TypeOK'
  BY CloseTypes, FlagsType, Zenon DEF IInv, TypeOK, ServerClose
<1>2. LifeInv' /\ QuietInv' /\ closing'
  <2>1. buffer' \in BOOLEAN
    BY DEF IInv, TypeOK, ServerClose
  <2>2. QED
    BY <2>1, CloseLife, CloseQuiet DEF IInv, ServerClose
<1>3. ParserInv' /\ HandleInv' /\ WireInv'
  BY <1>2, HandleFrame, WireFrame, ParserFrame DEF IInv, ServerClose
<1>4. PendingCountsTransactions'
  BY PendingFrame DEF IInv, ServerClose
<1>5. QED
  BY <1>1, <1>2, <1>3, <1>4 DEF IInv

\* OnClose: the callback of uv close, which deletes a connection without transactions.
LEMMA OnUvCloseInvariant == IInv /\ OnUvClose => IInv'
<1> SUFFICES ASSUME IInv, OnUvClose PROVE IInv'
  OBVIOUS
<1> USE DEF lifeVars, closeVars, queueVars, readVars
<1>1. TypeOK'
  <2>1. /\ onClose' \in BOOLEAN /\ deleted' \in BOOLEAN
        /\ open' \in BOOLEAN /\ uvClosing' \in BOOLEAN
    BY DEF IInv, TypeOK, OnUvClose, RunOnClose
  <2>2. QED
    BY <2>1, FlagsType, Zenon DEF IInv, TypeOK, OnUvClose
<1>2. LifeInv' /\ QuietInv'
  BY DEF IInv, LifeInv, QuietInv, OnUvClose, RunOnClose, AtLoop
<1>3. ParserInv' /\ HandleInv' /\ WireInv'
  BY HandleFrame, WireFrame, ParserFrame DEF IInv, OnUvClose
<1>4. PendingCountsTransactions'
  BY PendingFrame DEF IInv, OnUvClose
<1>5. QED
  BY <1>1, <1>2, <1>3, <1>4 DEF IInv

\* A callback returns and lets go of the transaction it owned.
LEMMA ReturnInvariant == IInv /\ ReturnFromCallback => IInv'
<1> SUFFICES ASSUME IInv, ReturnFromCallback PROVE IInv'
  OBVIOUS
<1> USE DEF lifeVars, closeVars, queueVars, readVars
<1>1. /\ Cardinality(onStack) = 1 /\ Cardinality(onStack') = 0
      /\ onStack' = {}
  BY FS_Singleton, FS_EmptySet DEF IInv, LifeInv, ReturnFromCallback
<1>2. Len(handleQueue) \in Nat /\ Len(writeQueue) \in Nat
  BY LenProperties DEF IInv, TypeOK
<1>3. pending' \in Nat /\ PendingCountsTransactions'
  BY <1>1, <1>2 DEF IInv, PendingCountsTransactions, ReturnFromCallback
<1>4. TypeOK'
  BY <1>1, <1>3, Zenon DEF IInv, TypeOK, ReturnFromCallback
<1>5. LifeInv' /\ QuietInv'
  BY <1>1 DEF IInv, LifeInv, QuietInv, ReturnFromCallback
<1>6. ParserInv' /\ HandleInv' /\ WireInv'
  BY HandleFrame, WireFrame, ParserFrame DEF IInv, ReturnFromCallback
<1>7. QED
  BY <1>3, <1>4, <1>5, <1>6 DEF IInv

-----------------------------------------------------------------------------
(* Reading preserves the invariant.                                        *)

\* Parsing appends the next requests to the parser's queue.
LEMMA ParseProperties ==
  ASSUME TypeOK, NEW k \in 0 .. (MaxRequests - received), Parse(k)
  PROVE  /\ received' \in 0 .. MaxRequests /\ received' = received + k
         /\ parserQueue' \in Seq(Requests)
         /\ Len(parserQueue') = Len(parserQueue) + k
         /\ \A i \in 1 .. Len(parserQueue) : parserQueue'[i] = parserQueue[i]
         /\ \A i \in 1 .. k : parserQueue'[Len(parserQueue) + i] = received + i
<1> DEFINE new == [i \in 1 .. k |-> received + i]
<1>1. /\ received \in 0 .. MaxRequests /\ parserQueue \in Seq(Requests)
      /\ MaxRequests \in Nat /\ k \in Nat
  BY MaxRequestsAssumption DEF TypeOK
<1>2. new \in [1 .. k -> Requests]
  BY <1>1 DEF Requests
<1>3. new \in Seq(Requests) /\ Len(new) = k
  BY <1>1, <1>2, SeqDef, LenProperties
<1>4. Len(parserQueue) \in Nat
  BY <1>1, LenProperties
<1>5. /\ parserQueue \o new \in Seq(Requests)
      /\ Len(parserQueue \o new) = Len(parserQueue) + k
      /\ \A i \in 1 .. Len(parserQueue) + k : (parserQueue \o new)[i] =
            IF i <= Len(parserQueue) THEN parserQueue[i]
            ELSE new[i - Len(parserQueue)]
  BY <1>1, <1>3, ConcatProperties
<1>6. parserQueue' = parserQueue \o new /\ received' = received + k
  BY DEF Parse
<1> HIDE DEF new
<1>7. \A i \in 1 .. k : new[i] = received + i
  BY DEF new
<1>8. /\ \A i \in 1 .. Len(parserQueue) : (parserQueue \o new)[i] = parserQueue[i]
      /\ \A i \in 1 .. k : (parserQueue \o new)[Len(parserQueue) + i] = new[i]
  BY <1>1, <1>4, <1>5
<1>9. received' \in 0 .. MaxRequests
  BY <1>1, <1>6
<1>10. \A i \in 1 .. k : parserQueue'[Len(parserQueue) + i] = received + i
  BY <1>6, <1>7, <1>8
<1>11. QED
  BY <1>5, <1>6, <1>8, <1>9, <1>10

\* Taking the head off a list.
LEMMA TailProperties ==
  ASSUME NEW S, NEW q \in Seq(S), q # <<>>
  PROVE  /\ Tail(q) \in Seq(S) /\ Len(Tail(q)) = Len(q) - 1 /\ Len(q) \in Nat \ {0}
         /\ Head(q) = q[1] /\ Head(q) \in S
         /\ \A i \in 1 .. Len(q) - 1 : Tail(q)[i] = q[i + 1]
<1>1. Len(q) \in Nat /\ Len(q) # 0
  BY LenProperties, EmptySeq
<1>2. Head(q) = q[1] /\ q[1] \in S
  BY <1>1, ElementOfSeq, HeadTailProperties
<1>3. Tail(q) \in Seq(S) /\ Len(Tail(q)) = Len(q) - 1
  BY HeadTailProperties
<1>4. \A i \in 1 .. Len(q) - 1 : Tail(q)[i] = q[i + 1]
  BY <1>1, HeadTailProperties
<1>5. QED
  BY <1>1, <1>2, <1>3, <1>4

\* StaticOnRead at the end of the stream.
LEMMA ReadEofInvariant == IInv /\ ReadEof => IInv'
<1> SUFFICES ASSUME IInv, ReadEof PROVE IInv'
  OBVIOUS
<1> USE DEF lifeVars, queueVars
<1>1. onClose /\ buffer' \in BOOLEAN
  BY DEF IInv, LifeInv, ReadEof
<1>2. TypeOK'
  BY <1>1, CloseTypes, FlagsType, Zenon DEF IInv, TypeOK, ReadEof
<1>3. LifeInv' /\ QuietInv' /\ closing'
  BY <1>1, CloseLife, CloseQuiet DEF IInv, ReadEof
<1>4. ParserInv' /\ HandleInv' /\ WireInv'
  BY <1>3, HandleFrame, WireFrame, ParserFrame DEF IInv, ReadEof
<1>5. PendingCountsTransactions'
  BY PendingFrame DEF IInv, ReadEof
<1>6. QED
  BY <1>2, <1>3, <1>4, <1>5 DEF IInv

\* OnRead with an error, from the stream or from the parser.
LEMMA ReadFailureInvariant == IInv /\ ReadFailure => IInv'
<1> SUFFICES ASSUME IInv, ReadFailure PROVE IInv'
  OBVIOUS
<1> USE DEF lifeVars, queueVars
<1>1. onClose /\ buffer' \in BOOLEAN
  BY DEF IInv, LifeInv, ReadFailure
<1>2. received' \in 0 .. MaxRequests /\ parserQueue' \in Seq(Requests)
  BY ParseProperties DEF IInv, ReadFailure
<1>3. TypeOK'
  BY <1>1, <1>2, CloseTypes, Zenon DEF IInv, TypeOK, ReadFailure
<1>4. LifeInv' /\ QuietInv' /\ closing'
  BY <1>1, CloseLife, CloseQuiet DEF IInv, ReadFailure
<1>5. ParserInv' /\ HandleInv' /\ WireInv'
  BY <1>4, HandleFrame, WireFrame DEF IInv, ReadFailure, ParserInv
<1>6. PendingCountsTransactions'
  BY PendingFrame DEF IInv, ReadFailure
<1>7. QED
  BY <1>3, <1>4, <1>5, <1>6 DEF IInv

\* OnRead until the parser has taken all the data.
LEMMA ReadRequestsInvariant == IInv /\ ReadRequests => IInv'
<1> SUFFICES ASSUME IInv, ReadRequests PROVE IInv'
  OBVIOUS
<1> USE DEF lifeVars, closeVars, queueVars
<1>1. PICK k \in 1 .. (MaxRequests - received) : Parse(k)
  BY DEF ReadRequests
<1>2. received \in Nat /\ handed \in Nat /\ MaxRequests \in Nat
  BY MaxRequestsAssumption DEF IInv, TypeOK
<1>3. k \in 0 .. (MaxRequests - received)
  BY <1>2
<1>4. /\ received' \in 0 .. MaxRequests /\ received' = received + k
      /\ parserQueue' \in Seq(Requests)
      /\ Len(parserQueue') = Len(parserQueue) + k
      /\ \A i \in 1 .. Len(parserQueue) : parserQueue'[i] = parserQueue[i]
      /\ \A i \in 1 .. k : parserQueue'[Len(parserQueue) + i] = received + i
  BY <1>1, <1>3, ParseProperties DEF IInv
<1>5. TypeOK'
  <2>1. buffer' \in BOOLEAN /\ frame' \in {"loop", "read", "handler"}
    BY DEF ReadRequests
  <2>2. QED
    BY <1>4, <2>1, Zenon DEF IInv, TypeOK, ReadRequests
<1>6. LifeInv' /\ QuietInv'
  BY DEF IInv, LifeInv, QuietInv, ReadRequests
<1>7. ParserInv'
  <2> SUFFICES ASSUME ~closing
               PROVE  /\ received' = handed' + Len(parserQueue')
                      /\ \A i \in 1 .. Len(parserQueue') : parserQueue'[i] = handed' + i
    BY DEF ParserInv, ReadRequests
  <2>1. /\ received = handed + Len(parserQueue) /\ handed' = handed
        /\ \A i \in 1 .. Len(parserQueue) : parserQueue[i] = handed + i
    BY DEF IInv, ParserInv, ReadRequests
  <2>2. Len(parserQueue) \in Nat
    BY LenProperties DEF IInv, TypeOK
  <2>3. ASSUME NEW i \in 1 .. Len(parserQueue')
        PROVE  parserQueue'[i] = handed + i
    <3>1. CASE i <= Len(parserQueue)
      BY <1>4, <2>1, <2>2, <3>1
    <3>2. CASE i > Len(parserQueue)
      <4>1. i - Len(parserQueue) \in 1 .. k /\ i = Len(parserQueue) + (i - Len(parserQueue))
        BY <1>3, <1>4, <2>2, <3>2
      <4>2. parserQueue'[i] = received + (i - Len(parserQueue))
        BY <1>4, <4>1
      <4>3. QED
        BY <1>2, <2>1, <2>2, <4>2
    <3>3. QED
      BY <2>2, <1>4, <3>1, <3>2
  <2>4. QED
    BY <1>2, <1>3, <1>4, <2>1, <2>2, <2>3
<1>8. HandleInv' /\ WireInv'
  BY HandleFrame, WireFrame DEF IInv, ReadRequests
<1>9. PendingCountsTransactions'
  BY PendingFrame DEF IInv, ReadRequests
<1>10. QED
  BY <1>5, <1>6, <1>7, <1>8, <1>9 DEF IInv

\* An iteration of OnRead on a connection that is closing: the request is dropped.
LEMMA DropRequestInvariant == IInv /\ DropRequest => IInv'
<1> SUFFICES ASSUME IInv, DropRequest PROVE IInv'
  OBVIOUS
<1> USE DEF lifeVars, closeVars, queueVars
<1>1. parserQueue' \in Seq(Requests)
  BY TailProperties, Zenon DEF IInv, TypeOK, DropRequest
<1>2. TypeOK'
  <2>1. frame' \in {"loop", "read", "handler"}
    BY DEF DropRequest
  <2>2. QED
    BY <1>1, <2>1, Zenon DEF IInv, TypeOK, DropRequest
<1>3. LifeInv' /\ QuietInv'
  BY DEF IInv, LifeInv, QuietInv, DropRequest
<1>4. ParserInv' /\ HandleInv' /\ WireInv'
  BY HandleFrame, WireFrame DEF IInv, DropRequest, ParserInv
<1>5. PendingCountsTransactions'
  BY PendingFrame DEF IInv, DropRequest
<1>6. QED
  BY <1>2, <1>3, <1>4, <1>5 DEF IInv

\* OnRead returns.
LEMMA FinishReadInvariant == IInv /\ FinishRead => IInv'
<1> SUFFICES ASSUME IInv, FinishRead PROVE IInv'
  OBVIOUS
<1> USE DEF lifeVars, closeVars, queueVars
<1>1. TypeOK'
  <2>1. frame' \in {"loop", "read", "handler"}
    BY DEF FinishRead
  <2>2. QED
    BY <2>1, Zenon DEF IInv, TypeOK, FinishRead
<1>2. LifeInv' /\ QuietInv'
  BY DEF IInv, LifeInv, QuietInv, FinishRead
<1>3. ParserInv' /\ HandleInv' /\ WireInv'
  BY HandleFrame, WireFrame, ParserFrame DEF IInv, FinishRead
<1>4. PendingCountsTransactions'
  BY PendingFrame DEF IInv, FinishRead
<1>5. QED
  BY <1>1, <1>2, <1>3, <1>4 DEF IInv

\* At most one transaction is held by a returning callback.
LEMMA CardinalityOnStack == IInv => Cardinality(onStack) \in Nat
<1> SUFFICES ASSUME IInv PROVE Cardinality(onStack) \in Nat
  OBVIOUS
<1>1. CASE onStack = {}
  BY <1>1, FS_EmptySet
<1>2. CASE \E t \in Requests : onStack = {t}
  BY <1>2, FS_Singleton
<1>3. QED
  BY <1>1, <1>2 DEF IInv, LifeInv

\* An iteration of OnRead on an open connection: the request goes to the handler.
LEMMA HandleRequestInvariant == IInv /\ HandleRequest => IInv'
<1> SUFFICES ASSUME IInv, HandleRequest PROVE IInv'
  OBVIOUS
<1> USE DEF lifeVars, closeVars
<1> DEFINE H == Len(handleQueue)
           r == Head(parserQueue)
<1>1. /\ Len(parserQueue) \in Nat \ {0}
      /\ parserQueue' \in Seq(Requests)
      /\ Len(parserQueue') = Len(parserQueue) - 1
      /\ r = parserQueue[1] /\ r \in Requests
      /\ \A i \in 1 .. Len(parserQueue) - 1 : parserQueue'[i] = parserQueue[i + 1]
  BY TailProperties, Zenon DEF IInv, TypeOK, HandleRequest
<1>2. /\ received = handed + Len(parserQueue)
      /\ \A i \in 1 .. Len(parserQueue) : parserQueue[i] = handed + i
  BY DEF IInv, ParserInv, HandleRequest
<1>3. /\ received \in 0 .. MaxRequests /\ handed \in 0 .. MaxRequests
      /\ MaxRequests \in Nat /\ pending \in Nat
      /\ handed' = handed + 1 /\ pending' = pending + 1
  BY MaxRequestsAssumption DEF IInv, TypeOK, HandleRequest
<1>4. r = handed + 1 /\ handed' \in 0 .. MaxRequests /\ handed' \in Requests
  BY <1>1, <1>2, <1>3 DEF Requests
<1>5. /\ handleQueue \in Seq(Requests) /\ H \in Nat /\ Len(writeQueue) \in Nat
      /\ response \in [Requests -> Outcomes \cup {NoResponse}]
  BY LenProperties DEF IInv, TypeOK
<1>6. /\ handleQueue' \in Seq(Requests)
      /\ Len(handleQueue') = H + 1
      /\ \A i \in 1 .. H : handleQueue'[i] = handleQueue[i]
      /\ handleQueue'[H + 1] = r
  <2>1. handleQueue' = Append(handleQueue, r)
    BY DEF HandleRequest
  <2>2. QED
    BY <1>1, <1>5, <2>1, AppendProperties
<1>7. /\ frame' = "handler" /\ UNCHANGED <<lifeVars, closeVars, writeQueue,
           response, buffer, received, onStack, wire>>
      /\ frame # "loop" /\ ~closing
  BY DEF HandleRequest
<1> HIDE DEF H, r
<1>8. TypeOK'
  <2>1. frame' \in {"loop", "read", "handler"} /\ pending' \in Nat
    BY <1>3, <1>7
  <2>2. QED
    BY <1>1, <1>4, <1>6, <1>7, <2>1, Zenon DEF IInv, TypeOK
<1>9. LifeInv' /\ QuietInv'
  BY <1>7 DEF IInv, LifeInv, QuietInv
<1>10. ParserInv'
  BY <1>1, <1>2, <1>3, <1>7 DEF ParserInv
<1>11. Popped' = Popped /\ Popped = handed - H
  BY <1>3, <1>5, <1>6 DEF Popped, H
<1>12. HandleInv'
  <2>1. /\ Popped \in Nat
        /\ \A i \in 1 .. H : handleQueue[i] = Popped + i
        /\ \A t \in Requests : t <= Popped => response[t] # NoResponse
        /\ \A t \in Requests : t > handed => response[t] = NoResponse
        /\ handleQueue # <<>> => response[Popped + 1] = NoResponse
    BY DEF IInv, HandleInv, H
  <2>2. ASSUME NEW i \in 1 .. H + 1 PROVE handleQueue'[i] = Popped + i
    <3>1. CASE i <= H
      BY <1>5, <1>6, <2>1, <3>1
    <3>2. CASE i = H + 1
      <4>1. Popped + i = handed + 1
        BY <1>3, <1>5, <1>11, <3>2
      <4>2. QED
        BY <1>4, <1>6, <3>2, <4>1
    <3>3. QED
      BY <1>5, <3>1, <3>2
  <2>3. response[Popped + 1] = NoResponse
    <3>1. CASE handleQueue = <<>>
      <4>1. H = 0
        BY <3>1, EmptySeq DEF H
      <4>2. Popped + 1 = handed'
        BY <1>3, <1>11, <4>1
      <4>3. QED
        BY <1>3, <1>4, <2>1, <4>2
    <3>2. QED
      BY <2>1, <3>1
  <2>4. \A t \in Requests : t > handed' => response[t] = NoResponse
    BY <1>3, <2>1 DEF Requests
  <2>5. QED
    BY <1>6, <1>7, <1>11, <2>1, <2>2, <2>3, <2>4 DEF HandleInv
<1>13. WireInv'
  BY <1>7, <1>11 DEF IInv, WireInv
<1>14. PendingCountsTransactions'
  <2>1. pending = H + Len(writeQueue) + Cardinality(onStack)
    BY DEF IInv, PendingCountsTransactions, H
  <2>2. Cardinality(onStack) \in Nat
    BY CardinalityOnStack
  <2>3. QED
    BY <1>3, <1>5, <1>6, <1>7, <2>1, <2>2 DEF PendingCountsTransactions
<1>15. QED
  BY <1>8, <1>9, <1>10, <1>12, <1>13, <1>14 DEF IInv

-----------------------------------------------------------------------------
(* Answering preserves the invariant.                                      *)

\* A write completes, as it should or not.
LEMMA WriteCompleteInvariant ==
  ASSUME IInv, NEW i \in 1 .. Len(writeQueue), NEW result \in BOOLEAN,
         OnTransactionWriteComplete(i, result)
  PROVE  IInv'
<1> USE DEF lifeVars, queueVars, readVars
<1> DEFINE last == closing /\ ~open /\ handleQueue = <<>> /\ writeQueue' = <<>>
<1>1. /\ writeQueue \in Seq(Requests) /\ Len(writeQueue) \in Nat \ {0}
      /\ writeQueue' \in Seq(Requests) /\ writeQueue[i] \in Requests
      /\ Len(writeQueue') = Len(writeQueue) - 1 /\ Len(handleQueue) \in Nat
  <2>1. writeQueue' = EraseAt(writeQueue, i)
    BY DEF OnTransactionWriteComplete
  <2>2. /\ writeQueue \in Seq(Requests) /\ Len(writeQueue) \in Nat
        /\ Len(handleQueue) \in Nat
    BY LenProperties DEF IInv, TypeOK
  <2>3. writeQueue[i] \in Requests /\ Len(writeQueue) # 0
    BY <2>2, ElementOfSeq
  <2>4. /\ EraseAt(writeQueue, i) \in Seq(Requests)
        /\ Len(EraseAt(writeQueue, i)) = Len(writeQueue) - 1
    BY <2>2, EraseAtType
  <2>5. QED
    BY <2>1, <2>2, <2>3, <2>4
<1>2. writeQueue # <<>>
  BY <1>1, EmptySeq
<1>3. /\ ~deleted /\ AtLoop
      /\ IF last
           THEN RunOnClose /\ onStack' = {writeQueue[i]} /\ UNCHANGED pending
           ELSE pending' = pending - 1 /\ UNCHANGED <<onClose, deleted, onStack>>
      /\ IF ~closing /\ ~result THEN Close ELSE UNCHANGED closeVars
      /\ UNCHANGED <<open, handleQueue, response, readVars, handed, wire>>
  BY <1>2 DEF IInv, QuietInv, OnTransactionWriteComplete
<1>4. /\ onStack = {} /\ pending \in Nat
      /\ pending = Len(handleQueue) + Len(writeQueue) + Cardinality(onStack)
  BY <1>3 DEF IInv, TypeOK, PendingCountsTransactions, AtLoop
<1>5. PendingCountsTransactions' /\ pending' \in Nat
  <2>1. Cardinality({}) = 0 /\ Cardinality({writeQueue[i]}) = 1
    BY FS_EmptySet, FS_Singleton
  <2>2. pending = Len(handleQueue) + Len(writeQueue)
    BY <1>1, <1>4, <2>1
  <2>3. handleQueue' = handleQueue
    BY <1>3
  <2>4. CASE last
    <3>1. pending' = pending /\ Cardinality(onStack') = 1
      BY <1>3, <2>1, <2>4 DEF PendingCountsTransactions
    <3>2. QED
      BY <1>1, <2>2, <2>3, <3>1 DEF PendingCountsTransactions
  <2>5. CASE ~last
    <3>1. pending' = pending - 1 /\ Cardinality(onStack') = 0
      BY <1>3, <1>4, <2>1, <2>5
    <3>2. QED
      BY <1>1, <2>2, <2>3, <3>1 DEF PendingCountsTransactions
  <2>6. QED
    BY <2>4, <2>5
<1>6. closing => closing'
  BY <1>3 DEF Close, closeVars
<1>7. LifeInv' /\ QuietInv'
  <2>1. /\ onStack' = {} \/ onStack' = {writeQueue[i]}
        /\ onStack' # {} => deleted'
    BY <1>3, <1>4 DEF RunOnClose
  <2>2. onClose
    BY <1>2, <1>3 DEF IInv, LifeInv, QuietInv
  <2>3. LifeInv'
    <3>1. CASE last
      BY <1>1, <1>3, <2>1, <2>2, <3>1 DEF IInv, LifeInv, RunOnClose, AtLoop, closeVars
    <3>2. CASE ~last
      BY <1>1, <1>3, <1>4, <2>1, <2>2, <3>2 DEF IInv, LifeInv, Close, AtLoop, closeVars
    <3>3. QED
      BY <3>1, <3>2
  <2>4. QuietInv'
    <3>1. CASE last
      BY <1>3, <2>2, <3>1 DEF IInv, LifeInv, QuietInv, RunOnClose, closeVars
    <3>2. CASE ~last
      BY <1>3, <2>2, <3>2 DEF IInv, LifeInv, QuietInv, Close, closeVars
    <3>3. QED
      BY <3>1, <3>2
  <2>5. QED
    BY <2>3, <2>4
<1>8. TypeOK'
  <2>1. /\ reading' \in BOOLEAN /\ closing' \in BOOLEAN /\ onClosing' \in BOOLEAN
        /\ onClose' \in BOOLEAN /\ uvClosing' \in BOOLEAN /\ deleted' \in BOOLEAN
    BY <1>3, CloseTypes DEF IInv, TypeOK, RunOnClose, closeVars
  <2>2. onStack' \in SUBSET Requests
    BY <1>1, <1>3, <1>4
  <2>3. QED
    BY <1>1, <1>3, <1>5, <2>1, <2>2, Zenon DEF IInv, TypeOK
<1>9. ParserInv' /\ HandleInv' /\ WireInv'
  BY <1>3, <1>6, HandleFrame, WireFrame, ParserFrame DEF IInv
<1>10. QED
  BY <1>5, <1>7, <1>8, <1>9 DEF IInv

\* The write loop goes through all that are ready: PrepareWrite refuses none of them.
LEMMA AllPrepared ==
  ASSUME NEW n, WriteResponses(n)
  PROVE  /\ handleQueue' = SubSeq(handleQueue, n + 1, Len(handleQueue))
         /\ \E k \in 1 .. n + 1 :
              /\ writeQueue' = writeQueue \o SubSeq(handleQueue, 1, k - 1)
              /\ wire' = wire \o Serialized(handleQueue, k - 1, response')
              /\ pending' = pending - (n + 1 - k)
              /\ IF k <= n THEN Close ELSE UNCHANGED closeVars
              /\ UNCHANGED <<lifeVars, onStack>>
BY DEF WriteResponses, PrepareWrite

\* What every completion shares: t was in the handle queue, the n ready
\* transactions at its front leave, and the queue stays a run of requests.
LEMMA HandleCompleteInvariant ==
  ASSUME IInv, NEW t \in Requests, NEW outcome \in Outcomes,
         OnTransactionHandleComplete(t, outcome)
  PROVE  IInv'
<1> USE DEF lifeVars, closeVars, readVars
<1> DEFINE H == Len(handleQueue)
           W == Len(writeQueue)
           p == Popped
<1>1. /\ onStack = {} /\ response[t] = NoResponse
      /\ response' = [response EXCEPT ![t] = outcome]
      /\ UNCHANGED <<readVars, handed>>
  BY DEF OnTransactionHandleComplete, InUserCode
<1>2. PICK n \in 0 .. H :
        /\ IsReadyPrefix(handleQueue, n, response')
        /\ handleQueue' = SubSeq(handleQueue, n + 1, H)
        /\ IF closing THEN DropResponses(n) ELSE WriteResponses(n)
  BY AllPrepared DEF OnTransactionHandleComplete, DropResponses
<1>3. /\ handleQueue \in Seq(Requests) /\ writeQueue \in Seq(Requests)
      /\ wire \in Seq(Response)
      /\ response \in [Requests -> Outcomes \cup {NoResponse}]
      /\ H \in Nat /\ W \in Nat /\ Len(wire) \in Nat
      /\ handed \in 0 .. MaxRequests /\ MaxRequests \in Nat /\ pending \in Nat
  BY LenProperties, MaxRequestsAssumption DEF IInv, TypeOK
<1>4. /\ p \in Nat /\ p = handed - H
      /\ \A i \in 1 .. H : handleQueue[i] = p + i
      /\ \A r \in Requests : r <= p => response[r] # NoResponse
      /\ \A r \in Requests : r > handed => response[r] = NoResponse
  BY DEF IInv, HandleInv, Popped
<1>5. PICK i0 \in 1 .. H : handleQueue[i0] = t
  BY DEF OnTransactionHandleComplete
<1>6. t = p + i0 /\ t > p /\ t <= handed /\ H > 0
  BY <1>3, <1>4, <1>5
<1>7. /\ outcome # NoResponse /\ response'[t] = outcome
      /\ response' \in [Requests -> Outcomes \cup {NoResponse}]
      /\ \A r \in Requests : r # t => response'[r] = response[r]
  BY <1>1, <1>3 DEF Outcomes, NoResponse
<1>8. /\ SubSeq(handleQueue, 1, n) \in Seq(Requests)
      /\ Len(SubSeq(handleQueue, 1, n)) = n
      /\ handleQueue' \in Seq(Requests) /\ Len(handleQueue') = H - n
      /\ \A i \in 1 .. H - n : handleQueue'[i] = handleQueue[n + i]
  BY <1>2, <1>3, CutProperties
<1>9. pending = H + W
  BY <1>1, <1>3, FS_EmptySet DEF IInv, PendingCountsTransactions
<1>10. /\ \A i \in 1 .. n : response'[handleQueue[i]] # NoResponse
       /\ n < H => response'[handleQueue[n + 1]] = NoResponse
  BY <1>2 DEF IsReadyPrefix
<1>11. handed' = handed /\ n \in Nat
  BY <1>1, <1>2, <1>3
<1> HIDE DEF H, W, p
<1>12. Popped' = p + n
  BY <1>3, <1>4, <1>8, <1>11 DEF Popped
<1>13. HandleInv'
  <2>1. \A i \in 1 .. Len(handleQueue') : handleQueue'[i] = Popped' + i
    BY <1>2, <1>3, <1>4, <1>8, <1>11, <1>12
  <2>2. ASSUME NEW r \in Requests, r <= Popped' PROVE response'[r] # NoResponse
    <3>1. CASE r <= p
      BY <1>4, <1>6, <1>7, <3>1 DEF Requests
    <3>2. CASE r > p
      <4>1. r - p \in 1 .. n /\ r = p + (r - p) /\ r - p \in 1 .. H
        BY <1>2, <1>3, <1>4, <1>12, <2>2, <3>2 DEF Requests
      <4>2. handleQueue[r - p] = r
        BY <1>4, <4>1
      <4>3. QED
        BY <1>10, <4>1, <4>2
    <3>3. QED
      BY <1>4, <3>1, <3>2 DEF Requests
  <2>3. \A r \in Requests : r > handed' => response'[r] = NoResponse
    BY <1>3, <1>4, <1>6, <1>7, <1>11 DEF Requests
  <2>4. handleQueue' # <<>> => response'[Popped' + 1] = NoResponse
    <3> SUFFICES ASSUME handleQueue' # <<>> PROVE response'[Popped' + 1] = NoResponse
      OBVIOUS
    <3>1. n < H
      BY <1>2, <1>3, <1>8, EmptySeq
    <3>2. handleQueue[n + 1] = p + (n + 1)
      BY <1>3, <1>4, <1>11, <3>1
    <3>3. Popped' + 1 = p + (n + 1)
      BY <1>4, <1>11, <1>12
    <3>4. QED
      BY <1>10, <3>1, <3>2, <3>3
  <2>5. QED
    BY <1>4, <1>11, <1>12, <2>1, <2>2, <2>3, <2>4 DEF HandleInv
<1>14. \A i \in 1 .. Len(wire) :
         wire[i] = [request |-> i, response |-> response'[i]]
  <2> SUFFICES ASSUME NEW i \in 1 .. Len(wire) PROVE response'[i] = response[i]
    BY DEF IInv, WireInv
  <2>1. Len(wire) <= p
    BY DEF IInv, WireInv, p
  <2>2. i \in Requests /\ i # t
    BY <1>3, <1>4, <1>6, <2>1 DEF Requests
  <2>3. QED
    BY <1>7, <2>2
<1>15. CASE closing
  <2> DEFINE last == n > 0 /\ ~open /\ handleQueue' = <<>> /\ writeQueue = <<>>
  <2>1. /\ IF last
              THEN RunOnClose /\ onStack' = {handleQueue[n]} /\ pending' = pending - (n - 1)
              ELSE pending' = pending - n /\ UNCHANGED <<onClose, deleted, onStack>>
        /\ UNCHANGED <<open, closeVars, writeQueue, wire>>
    BY <1>2, <1>15 DEF DropResponses
  <2>2. handleQueue # <<>> /\ ~deleted
    BY <1>3, <1>6, EmptySeq DEF H, IInv, QuietInv
  <2>3. n = 0 => handleQueue' # <<>>
    BY <1>3, <1>6, <1>8, EmptySeq DEF H
  <2>4. PendingCountsTransactions' /\ pending' \in Nat /\ onStack' \in SUBSET Requests
    <3>1. CASE last
      <4>1. n \in 1 .. H
        BY <1>2, <1>3, <3>1
      <4>2. handleQueue[n] \in Requests /\ onStack' = {handleQueue[n]}
        BY <1>3, <2>1, <3>1, <4>1, ElementOfSeq DEF H
      <4>3. Cardinality(onStack') = 1 /\ pending' = pending - (n - 1)
        BY <2>1, <3>1, <4>2, FS_Singleton
      <4>4. Len(writeQueue') = W
        BY <2>1 DEF W
      <4>5. QED
        BY <1>3, <1>8, <1>9, <4>1, <4>2, <4>3, <4>4 DEF PendingCountsTransactions
    <3>2. CASE ~last
      <4>1. onStack' = {} /\ Cardinality(onStack') = 0 /\ pending' = pending - n
        BY <1>1, <2>1, <3>2, FS_EmptySet
      <4>2. Len(writeQueue') = W
        BY <2>1 DEF W
      <4>3. QED
        BY <1>2, <1>3, <1>8, <1>9, <4>1, <4>2 DEF PendingCountsTransactions
    <3>3. QED
      BY <3>1, <3>2
  <2>5. LifeInv'
    <3>1. CASE last
      <4>1. frame = "loop"
        BY <3>1, <1>15 DEF IInv, LifeInv
      <4>2. \E r \in Requests : onStack' = {r}
        <5>1. handleQueue[n] \in Requests
          BY <1>2, <1>3, <3>1, ElementOfSeq DEF H
        <5>2. QED
          BY <2>1, <3>1, <5>1
      <4>3. QED
        BY <1>1, <1>15, <2>1, <3>1, <4>1, <4>2 DEF IInv, LifeInv, RunOnClose
    <3>2. CASE ~last
      BY <1>1, <1>15, <2>1, <3>2 DEF IInv, LifeInv
    <3>3. QED
      BY <3>1, <3>2
  <2>6. QuietInv'
    <3>1. CASE last
      BY <1>15, <2>1, <3>1 DEF QuietInv, RunOnClose
    <3>2. CASE ~last
      <4>1. closing' /\ ~deleted' /\ open' = open /\ writeQueue' = writeQueue
        BY <1>15, <2>1, <2>2, <3>2
      <4>2. n = 0 \/ n > 0
        BY <1>11
      <4>3. ~(~open /\ handleQueue' = <<>> /\ writeQueue = <<>>)
        BY <2>3, <3>2, <4>2
      <4>4. QED
        BY <4>1, <4>3, Zenon DEF QuietInv
    <3>3. QED
      BY <3>1, <3>2
  <2>7. TypeOK'
    <3>1. onClose' \in BOOLEAN /\ deleted' \in BOOLEAN
      BY <2>1 DEF IInv, TypeOK, RunOnClose
    <3>2. QED
      BY <1>1, <1>7, <1>8, <2>1, <2>4, <3>1, Zenon DEF IInv, TypeOK
  <2>8. ParserInv'
    BY <1>15, <2>1 DEF ParserInv
  <2>9. WireInv'
    <3>1. Len(wire') = Len(wire) /\ Len(wire) <= p /\ closing'
      BY <1>15, <2>1 DEF IInv, WireInv, p
    <3>2. Len(wire') <= Popped'
      BY <1>3, <1>4, <1>11, <1>12, <3>1
    <3>3. QED
      BY <1>14, <2>1, <3>1, <3>2 DEF WireInv
  <2>10. QED
    BY <1>13, <2>4, <2>5, <2>6, <2>7, <2>8, <2>9 DEF IInv
<1>16. CASE ~closing
  <2>1. PICK k \in 1 .. n + 1 :
          /\ writeQueue' = writeQueue \o SubSeq(handleQueue, 1, k - 1)
          /\ wire' = wire \o Serialized(handleQueue, k - 1, response')
          /\ pending' = pending - (n + 1 - k)
          /\ IF k <= n THEN Close ELSE UNCHANGED closeVars
          /\ UNCHANGED <<lifeVars, onStack>>
    BY <1>2, <1>16, AllPrepared
  <2>2. k - 1 \in 0 .. H /\ k - 1 <= n /\ k \in Nat
    BY <1>2, <1>3, <1>11, <2>1
  <2>3. /\ SubSeq(handleQueue, 1, k - 1) \in Seq(Requests)
        /\ Len(SubSeq(handleQueue, 1, k - 1)) = k - 1
    BY <1>3, <2>2, CutProperties DEF H
  <2>4. /\ writeQueue' \in Seq(Requests)
        /\ Len(writeQueue') = W + (k - 1)
    <3>1. \A a, b \in Seq(Requests) :
            a \o b \in Seq(Requests) /\ Len(a \o b) = Len(a) + Len(b)
      BY ConcatProperties
    <3>2. QED
      BY <1>3, <2>1, <2>3, <3>1, Zenon DEF W
  <2>5. /\ Serialized(handleQueue, k - 1, response') \in Seq(Response)
        /\ Len(Serialized(handleQueue, k - 1, response')) = k - 1
        /\ \A i \in 1 .. k - 1 : Serialized(handleQueue, k - 1, response')[i] =
              [request |-> handleQueue[i], response |-> response'[handleQueue[i]]]
    <3>1. \A i \in 1 .. k - 1 : response'[handleQueue[i]] # NoResponse
      BY <1>10, <1>11, <2>2
    <3>2. QED
      BY <1>3, <1>7, <2>2, <3>1, SerializedProperties DEF H
  <2>6. /\ wire' \in Seq(Response)
        /\ Len(wire') = Len(wire) + (k - 1)
        /\ \A i \in 1 .. Len(wire) + (k - 1) : wire'[i] =
              IF i <= Len(wire) THEN wire[i]
              ELSE Serialized(handleQueue, k - 1, response')[i - Len(wire)]
    <3>1. \A a, b \in Seq(Response) :
            /\ a \o b \in Seq(Response) /\ Len(a \o b) = Len(a) + Len(b)
            /\ \A i \in 1 .. Len(a) + Len(b) :
                 (a \o b)[i] = IF i <= Len(a) THEN a[i] ELSE b[i - Len(a)]
      BY ConcatProperties
    <3> DEFINE more == Serialized(handleQueue, k - 1, response')
    <3>2. more \in Seq(Response) /\ Len(more) = k - 1 /\ wire' = wire \o more
      BY <2>1, <2>5
    <3> HIDE DEF more
    <3>3. /\ wire \o more \in Seq(Response)
          /\ Len(wire \o more) = Len(wire) + Len(more)
          /\ \A i \in 1 .. Len(wire) + Len(more) : (wire \o more)[i] =
                IF i <= Len(wire) THEN wire[i] ELSE more[i - Len(wire)]
      BY <1>3, <3>1, <3>2, Zenon
    <3>4. QED
      BY <3>2, <3>3 DEF more
  <2>7. Len(wire) = p
    BY <1>16 DEF IInv, WireInv, p
  <2>8. closing' => k <= n
    BY <1>11, <1>16, <2>1, <2>2 DEF closeVars
  <2>9. ~closing' => k - 1 = n
    BY <1>11, <1>16, <2>1, <2>2 DEF Close
  <2>10. WireInv'
    <3>1. Len(wire') <= Popped' /\ (~closing' => Len(wire') = Popped')
      BY <1>4, <1>11, <1>12, <2>2, <2>6, <2>7, <2>9
    <3>2. ASSUME NEW i \in 1 .. Len(wire')
          PROVE  wire'[i] = [request |-> i, response |-> response'[i]]
      <4>1. CASE i <= Len(wire)
        BY <1>3, <1>14, <2>2, <2>6, <4>1
      <4>2. CASE i > Len(wire)
        <5>1. i - p \in 1 .. k - 1 /\ i - p \in 1 .. H /\ i = p + (i - p)
          <6>1. i \in 1 .. p + (k - 1) /\ i > p
            BY <2>6, <2>7, <4>2
          <6>2. QED
            BY <1>3, <1>4, <2>2, <6>1
        <5>2. handleQueue[i - p] = i
          BY <1>4, <5>1
        <5>3. wire'[i] = Serialized(handleQueue, k - 1, response')[i - p]
          BY <1>3, <2>2, <2>6, <2>7, <4>2
        <5>4. QED
          BY <2>5, <5>1, <5>2, <5>3
      <4>3. QED
        BY <1>3, <2>2, <2>6, <4>1, <4>2
    <3>3. QED
      BY <3>1, <3>2 DEF WireInv
  <2>11. PendingCountsTransactions' /\ pending' \in Nat
    <3>1. onStack' = {} /\ Cardinality(onStack') = 0
      BY <1>1, <2>1, FS_EmptySet
    <3>2. QED
      <4>1. pending' = pending - (n + 1 - k)
        BY <2>1
      <4>2. pending' = (H - n) + (W + (k - 1))
        BY <1>3, <1>9, <1>11, <2>2, <4>1
      <4>3. pending' \in Nat
        BY <1>2, <1>3, <1>11, <2>2, <4>2
      <4>4. QED
        BY <1>8, <2>2, <1>3, <1>11, <2>4, <3>1, <4>2, <4>3 DEF PendingCountsTransactions
  <2>12. onClose /\ handleQueue # <<>>
    BY <1>3, <1>6, <1>16, EmptySeq DEF H, IInv, QuietInv
  <2>13. LifeInv'
    BY <1>1, <1>16, <2>1, <2>12 DEF IInv, LifeInv, Close
  <2>14. QuietInv'
    BY <1>1, <1>16, <2>1, <2>12 DEF IInv, LifeInv, QuietInv, Close
  <2>15. TypeOK'
    <3>1. /\ reading' \in BOOLEAN /\ closing' \in BOOLEAN
          /\ onClosing' \in BOOLEAN /\ uvClosing' \in BOOLEAN
      BY <2>1, CloseTypes DEF IInv, TypeOK
    <3>2. QED
      BY <1>1, <1>7, <1>8, <2>1, <2>4, <2>6, <2>11, <3>1, Zenon DEF IInv, TypeOK
  <2>16. ParserInv'
    BY <1>1, <1>16, ParserFrame DEF IInv
  <2>17. QED
    BY <1>13, <2>10, <2>11, <2>13, <2>14, <2>15, <2>16 DEF IInv
<1>17. QED
  BY <1>15, <1>16

-----------------------------------------------------------------------------
(* The theorems.                                                           *)

\* The invariant is inductive.
LEMMA NextInvariant == IInv /\ [Next]_vars => IInv'
<1> SUFFICES ASSUME IInv, [Next]_vars PROVE IInv'
  OBVIOUS
<1>1. CASE InitSync
  BY <1>1, InitSyncInvariant
<1>2. CASE InitAsync
  BY <1>2, InitAsyncInvariant
<1>3. CASE Read
  BY <1>3, ReadEofInvariant, ReadFailureInvariant, ReadRequestsInvariant DEF Read
<1>4. CASE ReadLoop
  BY <1>4, HandleRequestInvariant, DropRequestInvariant, FinishReadInvariant
     DEF ReadLoop
<1>5. CASE HandlerAnswers
  BY <1>5, HandleCompleteInvariant DEF HandlerAnswers
<1>6. CASE WriteCompletes
  BY <1>6, WriteCompleteInvariant DEF WriteCompletes
<1>7. CASE ReturnFromCallback
  BY <1>7, ReturnInvariant
<1>8. CASE ServerClose
  BY <1>8, ServerCloseInvariant
<1>9. CASE OnUvClose
  BY <1>9, OnUvCloseInvariant
<1>10. CASE UNCHANGED vars
  BY <1>10, StutterInvariant
<1>11. QED
  BY <1>1, <1>2, <1>3, <1>4, <1>5, <1>6, <1>7, <1>8, <1>9, <1>10 DEF Next

\* The invariant holds in every reachable state, for any number of requests.
THEOREM Invariance == Spec => []IInv
<1>1. Init => IInv
  BY InitInvariant
<1>2. IInv /\ [Next]_vars => IInv'
  BY NextInvariant
<1>3. QED
  BY <1>1, <1>2, PTL DEF Spec

\* Every variable of the connection keeps its type.
THEOREM TypeCorrect == Spec => []TypeOK
<1>1. IInv => TypeOK
  BY DEF IInv
<1>2. QED
  BY <1>1, Invariance, PTL

\* OnTransactionHandleComplete never lets a response overtake another: the i-th
\* response on the wire answers the i-th request, with the handler's answer.
THEOREM InOrder == Spec => []ResponsesInRequestOrder
<1>1. IInv => ResponsesInRequestOrder
  <2> SUFFICES ASSUME IInv, NEW i \in 1 .. Len(wire)
               PROVE  /\ wire[i].request = i
                      /\ wire[i].response = response[i]
                      /\ response[i] # NoResponse
    BY DEF ResponsesInRequestOrder
  <2>1. wire[i] = [request |-> i, response |-> response[i]] /\ Len(wire) <= Popped
    BY DEF IInv, WireInv
  <2>2. /\ Len(wire) \in Nat /\ Len(handleQueue) \in Nat
        /\ handed \in 0 .. MaxRequests /\ MaxRequests \in Nat
    BY LenProperties, MaxRequestsAssumption DEF IInv, TypeOK
  <2>3. i \in Requests /\ i <= Popped
    BY <2>1, <2>2 DEF Popped, Requests
  <2>4. response[i] # NoResponse
    BY <2>3 DEF IInv, HandleInv
  <2>5. QED
    BY <2>1, <2>4
<1>2. QED
  BY <1>1, Invariance, PTL

\* The loop in OnTransactionHandleComplete always empties handle_queue_ down to
\* a request that is still unanswered.
THEOREM NothingStranded == Spec => []NoReadyResponseStranded
<1>1. IInv => NoReadyResponseStranded
  <2> SUFFICES ASSUME IInv, handleQueue # <<>>
               PROVE  response[Head(handleQueue)] = NoResponse
    BY DEF NoReadyResponseStranded
  <2>1. /\ Head(handleQueue) = handleQueue[1]
        /\ Len(handleQueue) \in Nat \ {0}
    BY TailProperties DEF IInv, TypeOK
  <2>2. handleQueue[1] = Popped + 1 /\ response[Popped + 1] = NoResponse
    BY <2>1 DEF IInv, HandleInv
  <2>3. QED
    BY <2>1, <2>2
<1>2. QED
  BY <1>1, Invariance, PTL

\* on_close_ runs when the last of the uv handle and the transactions goes, and
\* the connection is then deleted: never before, and never forgotten.
THEOREM LastOneOut == Spec => []LastOneOutDeletes
<1>1. IInv => LastOneOutDeletes
  BY DEF IInv, QuietInv, LastOneOutDeletes
<1>2. QED
  BY <1>1, Invariance, PTL

\* No callback bound to the raw connection pointer outlives the connection.
THEOREM NoCallbackDangles == Spec => []CallbacksFindConnectionAlive
<1>1. IInv => CallbacksFindConnectionAlive
  BY DEF IInv, LifeInv, QuietInv, CallbacksFindConnectionAlive, TypeOK
<1>2. QED
  BY <1>1, Invariance, PTL

\* The checks in Alloc, OnRead, Close and StaticOnClose never fail.
THEOREM NoAssertionFails == Spec => []AssertionsHold
<1>1. IInv => AssertionsHold
  BY DEF IInv, LifeInv, AssertionsHold, TypeOK
<1>2. QED
  BY <1>1, Invariance, PTL

\* The counter that the server's destruction waits for is exact.
THEOREM CounterExact == Spec => []PendingCountsTransactions
<1>1. IInv => PendingCountsTransactions
  BY DEF IInv
<1>2. QED
  BY <1>1, Invariance, PTL

\* Once on_closing_ has run, no response is written any more.
THEOREM Silent == Spec => SilentOnceClosing
<1>1. [Next]_vars => [closing => UNCHANGED wire]_vars
  <2> SUFFICES ASSUME Next, closing PROVE UNCHANGED wire
    OBVIOUS
  <2>1. CASE HandlerAnswers
    BY <2>1 DEF HandlerAnswers, OnTransactionHandleComplete, DropResponses
  <2>2. CASE ~HandlerAnswers
    BY <2>2 DEF Next, InitSync, InitAsync, Read, ReadEof, ReadFailure, ReadRequests,
         ReadLoop, HandleRequest, DropRequest, FinishRead, WriteCompletes,
         OnTransactionWriteComplete, ReturnFromCallback, ServerClose, OnUvClose
  <2>3. QED
    BY <2>1, <2>2
<1>2. QED
  BY <1>1, PTL DEF Spec, SilentOnceClosing

-----------------------------------------------------------------------------
(* The connection implements ResponsePipeline.                             *)

\* A new connection is a new pipeline.
LEMMA PipelineInit == Init => Pipeline!Init
BY DEF Init, Pipeline!Init, Pipeline!Requests, Requests

\* While up, all that has been sent is the answers of the popped requests.
LEMMA WireIsFirstAnswers ==
  IInv => wire = Pipeline!FirstAnswers(Len(wire), response)
<1> SUFFICES ASSUME IInv PROVE wire = Pipeline!FirstAnswers(Len(wire), response)
  OBVIOUS
<1>1. wire \in [1 .. Len(wire) -> Response]
  BY LenProperties DEF IInv, TypeOK
<1>2. \A i \in 1 .. Len(wire) : wire[i] = [request |-> i, response |-> response[i]]
  BY DEF IInv, WireInv
<1>3. QED
  BY <1>1, <1>2 DEF Pipeline!FirstAnswers

\* The popped requests are the longest answered prefix of the accepted ones.
LEMMA PoppedIsFrontier ==
  IInv => Popped \in 0 .. handed /\ Pipeline!IsFrontier(Popped, handed, response)
<1> SUFFICES ASSUME IInv
             PROVE  Popped \in 0 .. handed /\ Pipeline!IsFrontier(Popped, handed, response)
  OBVIOUS
<1>1. /\ Len(handleQueue) \in Nat /\ handed \in 0 .. MaxRequests
      /\ MaxRequests \in Nat
  BY LenProperties, MaxRequestsAssumption DEF IInv, TypeOK
<1>2. Popped \in 0 .. handed
  BY <1>1 DEF IInv, HandleInv, Popped
<1>3. \A t \in 1 .. Popped : response[t] # NoResponse
  BY <1>1, <1>2 DEF IInv, HandleInv, Requests
<1>4. ASSUME Popped < handed PROVE response[Popped + 1] = NoResponse
  <2>1. Len(handleQueue) # 0
    BY <1>1, <1>4 DEF Popped
  <2>2. handleQueue # <<>>
    BY <2>1, EmptySeq
  <2>3. QED
    BY <2>2 DEF IInv, HandleInv
<1>5. QED
  BY <1>2, <1>3, <1>4 DEF Pipeline!IsFrontier

\* With an empty handle queue every accepted request has its answer.
LEMMA EmptyQueueAllAnswered ==
  IInv /\ handleQueue = <<>> => Pipeline!AllAnswered(handed, response)
<1> SUFFICES ASSUME IInv, handleQueue = <<>>
             PROVE  Pipeline!AllAnswered(handed, response)
  OBVIOUS
<1>1. Len(handleQueue) = 0
  BY EmptySeq
<1>2. handed \in 0 .. MaxRequests /\ MaxRequests \in Nat
  BY MaxRequestsAssumption DEF IInv, TypeOK
<1>3. \A t \in 1 .. handed : t \in Requests /\ t <= Popped
  BY <1>1, <1>2 DEF Popped, Requests
<1>4. QED
  BY <1>3 DEF Pipeline!AllAnswered, IInv, HandleInv

\* An answer by the handler is one by the abstract pipeline.
LEMMA AnswerRefines ==
  ASSUME IInv, IInv', NEW t \in Requests, NEW outcome \in Outcomes,
         OnTransactionHandleComplete(t, outcome)
  PROVE  Pipeline!AnswerUp(t, outcome) \/ Pipeline!AnswerLate(t, outcome)
<1>1. /\ response[t] = NoResponse /\ handed' = handed
      /\ response' = [response EXCEPT ![t] = outcome]
  BY DEF OnTransactionHandleComplete
<1>2. t <= handed /\ handleQueue # <<>>
  <2>1. PICK i \in 1 .. Len(handleQueue) : handleQueue[i] = t
    BY DEF OnTransactionHandleComplete
  <2>2. /\ Len(handleQueue) \in Nat /\ Popped \in Nat /\ handed \in 0 .. MaxRequests
        /\ MaxRequests \in Nat
    BY LenProperties, MaxRequestsAssumption DEF IInv, TypeOK, HandleInv
  <2>3. t = Popped + i /\ Popped = handed - Len(handleQueue)
    BY <2>1 DEF IInv, HandleInv, Popped
  <2>4. QED
    BY <2>1, <2>2, <2>3, EmptySeq
<1>3. ~deleted
  BY <1>2 DEF IInv, QuietInv
<1>4. CASE closing
  <2>1. PICK n \in 0 .. Len(handleQueue) : DropResponses(n)
    BY <1>4 DEF OnTransactionHandleComplete
  <2>2. closing' /\ wire' = wire
    BY <1>4, <2>1 DEF DropResponses, closeVars
  <2>3. deleted' => Pipeline!AllAnswered(handed', response')
    <3>1. deleted' => handleQueue' = <<>>
      BY DEF IInv, QuietInv
    <3>2. (IInv /\ handleQueue = <<>> => Pipeline!AllAnswered(handed, response))'
      BY EmptyQueueAllAnswered, PTL
    <3>3. QED
      BY <3>1, <3>2
  <2>4. QED
    BY <1>1, <1>2, <1>3, <1>4, <2>2, <2>3 DEF Pipeline!AnswerLate
<1>5. CASE ~closing
  <2>1. PICK n \in 0 .. Len(handleQueue) :
          /\ IsReadyPrefix(handleQueue, n, response')
          /\ handleQueue' = SubSeq(handleQueue, n + 1, Len(handleQueue))
          /\ WriteResponses(n)
    BY <1>5, AllPrepared DEF OnTransactionHandleComplete
  <2>2. PICK k \in 1 .. n + 1 :
          /\ wire' = wire \o Serialized(handleQueue, k - 1, response')
          /\ IF k <= n THEN Close ELSE UNCHANGED closeVars
          /\ UNCHANGED lifeVars
    BY <2>1, AllPrepared
  <2>3. /\ handleQueue \in Seq(Requests) /\ Len(handleQueue) \in Nat
        /\ wire \in Seq(Response) /\ Len(wire) \in Nat
        /\ response' \in [Requests -> Outcomes \cup {NoResponse}]
        /\ Len(wire) = Popped /\ Popped = handed - Len(handleQueue)
        /\ handed \in 0 .. MaxRequests /\ MaxRequests \in Nat
    BY <1>5, LenProperties, MaxRequestsAssumption DEF IInv, TypeOK, WireInv, Popped
  <2>4. n \in Nat /\ k \in Nat /\ k - 1 \in 0 .. Len(handleQueue) /\ k - 1 <= n
    BY <2>1, <2>2, <2>3
  <2>5. Len(wire') = Len(wire) + (k - 1)
    <3> DEFINE more == Serialized(handleQueue, k - 1, response')
    <3>1. \A i \in 1 .. k - 1 : response'[handleQueue[i]] # NoResponse
      BY <2>1, <2>4 DEF IsReadyPrefix
    <3>2. more \in Seq(Response) /\ Len(more) = k - 1
      BY <2>3, <2>4, <3>1, SerializedProperties
    <3> HIDE DEF more
    <3>3. \A a, b \in Seq(Response) : Len(a \o b) = Len(a) + Len(b)
      BY ConcatProperties
    <3>4. wire' = wire \o more
      BY <2>2 DEF more
    <3>5. QED
      BY <2>3, <3>2, <3>3, <3>4, Zenon
  <2>6. Popped' = Popped + n
    <3>1. Len(handleQueue') = Len(handleQueue) - n
      BY <2>1, <2>3, CutProperties
    <3>2. QED
      BY <1>1, <2>3, <2>4, <3>1 DEF Popped
  <2>7. closing' <=> Len(wire') # Popped'
    <3>1. Popped \in Nat
      BY DEF IInv, HandleInv
    <3>2. Len(wire') # Popped' <=> k <= n
      <4>1. Len(wire') = Popped + (k - 1) /\ Popped' = Popped + n /\ k \in Nat /\ n \in Nat
        BY <2>3, <2>4, <2>5, <2>6
      <4>2. QED
        BY <3>1, <4>1
    <3>3. closing' <=> k <= n
      BY <1>5, <2>2 DEF Close, closeVars
    <3>4. QED
      BY <3>2, <3>3
  <2>8. Popped' \in 0 .. handed /\ Pipeline!IsFrontier(Popped', handed, response')
    <3>1. (IInv => Popped \in 0 .. handed
                     /\ Pipeline!IsFrontier(Popped, handed, response))'
      BY PoppedIsFrontier, PTL
    <3>2. QED
      BY <1>1, <3>1
  <2>9. wire' = Pipeline!FirstAnswers(Len(wire'), response')
    <3>1. (IInv => wire = Pipeline!FirstAnswers(Len(wire), response))'
      BY WireIsFirstAnswers, PTL
    <3>2. QED
      BY <3>1
  <2>10. /\ Len(wire) <= Len(wire') /\ Len(wire') <= Popped'
         /\ Len(wire') \in 0 .. handed
    BY <2>3, <2>4, <2>5, <2>6, <2>8
  <2>11. ~deleted'
    BY <1>3, <2>2 DEF lifeVars
  <2> DEFINE m == Len(wire')
             f == Popped'
  <2>12. /\ Pipeline!IsFrontier(f, handed, response')
         /\ Len(wire) <= m /\ m <= f
         /\ wire' = Pipeline!FirstAnswers(m, response')
         /\ (IF deleted' THEN "gone" ELSE IF closing' THEN "closing" ELSE "up")
              = IF m = f THEN "up" ELSE "closing"
    BY <2>7, <2>8, <2>9, <2>10, <2>11
  <2> HIDE DEF m, f
  <2>13. m \in 0 .. handed /\ f \in 0 .. handed
    BY <2>8, <2>10 DEF m, f
  <2>14. Pipeline!AnswerUp(t, outcome)
    BY <1>1, <1>2, <1>3, <1>5, <2>12, <2>13 DEF Pipeline!AnswerUp
  <2>15. QED
    BY <2>14
<1>6. QED
  BY <1>4, <1>5

\* Every step of the connection is a step of the pipeline, or none.
LEMMA PipelineStep == IInv /\ IInv' /\ [Next]_vars => [Pipeline!Next]_(Pipeline!vars)
<1> SUFFICES ASSUME IInv, IInv', [Next]_vars
             PROVE  Pipeline!Next \/ UNCHANGED Pipeline!vars
  OBVIOUS
<1> USE DEF lifeVars, closeVars, queueVars, readVars
<1>1. CASE InitSync
  <2>1. handed = 0 /\ UNCHANGED <<closing, handed, response, wire>>
    BY <1>1 DEF IInv, QuietInv, LifeInv, InitSync
  <2>2. CASE deleted'
    BY <1>1, <2>1, <2>2 DEF InitSync, Pipeline!Next, Pipeline!Go
  <2>3. CASE ~deleted'
    BY <1>1, <2>1, <2>3 DEF InitSync, Pipeline!vars
  <2>4. QED
    BY <2>2, <2>3
<1>2. ASSUME UNCHANGED <<deleted, handed, response, wire>>, closing => closing'
      PROVE  Pipeline!Next \/ UNCHANGED Pipeline!vars
  <2>1. CASE ~deleted /\ ~closing /\ closing'
    BY <1>2, <2>1 DEF Pipeline!Next, Pipeline!StartClosing
  <2>2. CASE deleted \/ closing \/ ~closing'
    BY <1>2, <2>2, Zenon DEF Pipeline!vars
  <2>3. QED
    BY <2>1, <2>2
<1>3. ASSUME UNCHANGED <<closing, handed, response, wire>>, RunOnClose,
             closing, ~deleted, handleQueue = <<>>
      PROVE  Pipeline!Next \/ UNCHANGED Pipeline!vars
  <2>1. Pipeline!AllAnswered(handed, response)
    BY <1>3, EmptyQueueAllAnswered
  <2>2. Pipeline!Go
    BY <1>3, <2>1 DEF RunOnClose, Pipeline!Go
  <2>3. QED
    BY <2>2 DEF Pipeline!Next
<1>4. CASE InitAsync
  BY <1>2, <1>4 DEF InitAsync, Close
<1>5. CASE Read
  BY <1>2, <1>5 DEF Read, ReadEof, ReadFailure, ReadRequests, Close
<1>6. CASE HandleRequest
  <2>1. ~closing /\ ~deleted /\ UNCHANGED <<closing, deleted, response, wire>>
    BY <1>6 DEF IInv, LifeInv, HandleRequest
  <2>2. handed' = handed + 1 /\ handed < MaxRequests
    <3>1. handed' = handed + 1 /\ handed' \in 0 .. MaxRequests /\ handed \in 0 .. MaxRequests
      BY <1>6 DEF IInv, TypeOK, HandleRequest
    <3>2. QED
      BY <3>1, MaxRequestsAssumption
  <2>3. QED
    BY <2>1, <2>2 DEF Pipeline!Next, Pipeline!Accept
<1>7. CASE DropRequest \/ FinishRead
  BY <1>2, <1>7 DEF DropRequest, FinishRead
<1>8. CASE HandlerAnswers
  BY <1>8, AnswerRefines DEF HandlerAnswers, Pipeline!Next, Pipeline!Requests, Requests
<1>9. CASE WriteCompletes
  <2>1. PICK i \in 1 .. Len(writeQueue), result \in BOOLEAN :
          OnTransactionWriteComplete(i, result)
    BY <1>9 DEF WriteCompletes
  <2>2. ~deleted
    <3>1. Len(writeQueue) # 0
      BY LenProperties DEF IInv, TypeOK
    <3>2. QED
      BY <3>1, EmptySeq DEF IInv, QuietInv
  <2>3. UNCHANGED <<handed, response, wire>> /\ (closing => closing')
    BY <2>1 DEF OnTransactionWriteComplete, Close
  <2>4. CASE RunOnClose
    BY <1>3, <2>1, <2>2, <2>3, <2>4 DEF OnTransactionWriteComplete, RunOnClose
  <2>5. CASE ~RunOnClose
    BY <1>2, <2>1, <2>3, <2>5 DEF OnTransactionWriteComplete
  <2>6. QED
    BY <2>4, <2>5
<1>10. CASE ReturnFromCallback \/ UNCHANGED vars
  BY <1>2, <1>10 DEF ReturnFromCallback, vars
<1>11. CASE ServerClose
  BY <1>2, <1>11 DEF ServerClose, Close
<1>12. CASE OnUvClose
  <2>1. closing /\ ~deleted /\ UNCHANGED <<closing, handed, response, wire>>
    BY <1>12 DEF IInv, LifeInv, OnUvClose
  <2>2. CASE handleQueue = <<>> /\ writeQueue = <<>>
    BY <1>3, <1>12, <2>1, <2>2 DEF OnUvClose
  <2>3. CASE ~(handleQueue = <<>> /\ writeQueue = <<>>)
    BY <1>2, <1>12, <2>1, <2>3 DEF OnUvClose
  <2>4. QED
    BY <2>2, <2>3
<1>13. QED
  BY <1>1, <1>4, <1>5, <1>6, <1>7, <1>8, <1>9, <1>10, <1>11, <1>12
     DEF Next, ReadLoop

\* Every behaviour of the connection is one of the abstract pipeline: the peer
\* always has the answers of the longest answered prefix of its requests.
THEOREM RefinesPipeline == Spec => ImplementsPipeline
<1>1. Init => Pipeline!Init
  BY PipelineInit
<1>2. IInv /\ IInv' /\ [Next]_vars => [Pipeline!Next]_(Pipeline!vars)
  BY PipelineStep
<1>3. QED
  BY <1>1, <1>2, Invariance, PTL DEF Spec, ImplementsPipeline, Pipeline!Spec

-----------------------------------------------------------------------------
(* The connection keeps its promise to the server core.                    *)

\* The elements of the pieces of a list, and of two lists together.
LEMMA CutElements ==
  ASSUME NEW q \in Seq(Requests), NEW n \in 0 .. Len(q)
  PROVE  /\ Elements(SubSeq(q, n + 1, Len(q))) \subseteq Elements(q)
         /\ \A x \in Elements(SubSeq(q, 1, n)) : \E i \in 1 .. n : q[i] = x
         /\ Elements(SubSeq(q, 1, n)) \subseteq Elements(q)
<1>1. Len(q) \in Nat /\ \A i \in 1 .. Len(q) : q[i] \in Requests
  BY LenProperties, ElementOfSeq
<1>2. /\ Len(SubSeq(q, n + 1, Len(q))) = Len(q) - n
      /\ \A i \in 1 .. Len(q) - n : SubSeq(q, n + 1, Len(q))[i] = q[n + i]
  BY CutProperties
<1>3. \A i \in 1 .. Len(q) - n : n + i \in 1 .. Len(q)
  BY <1>1
<1>4. Elements(SubSeq(q, n + 1, Len(q))) \subseteq Elements(q)
  BY <1>2, <1>3 DEF Elements
<1>5. Len(SubSeq(q, 1, n)) = n /\ \A i \in 1 .. n : SubSeq(q, 1, n)[i] = q[i]
  BY <1>1, SubSeqProperties
<1>6. \A i \in 1 .. n : i \in 1 .. Len(q)
  BY <1>1
<1>7. QED
  BY <1>4, <1>5, <1>6 DEF Elements

LEMMA ConcatElements ==
  ASSUME NEW p \in Seq(Requests), NEW q \in Seq(Requests)
  PROVE  Elements(p \o q) \subseteq Elements(p) \cup Elements(q)
<1>1. /\ Len(p) \in Nat /\ Len(q) \in Nat /\ Len(p \o q) = Len(p) + Len(q)
      /\ \A i \in 1 .. Len(p) + Len(q) :
           (p \o q)[i] = IF i <= Len(p) THEN p[i] ELSE q[i - Len(p)]
  BY LenProperties, ConcatProperties
<1>2. ASSUME NEW x \in Elements(p \o q)
      PROVE  x \in Elements(p) \cup Elements(q)
  <2>1. PICK i \in 1 .. Len(p) + Len(q) : (p \o q)[i] = x
    BY <1>1 DEF Elements
  <2>2. CASE i <= Len(p)
    <3>1. i \in 1 .. Len(p) /\ p[i] = x
      BY <1>1, <2>1, <2>2
    <3>2. QED
      BY <3>1 DEF Elements
  <2>3. CASE i > Len(p)
    <3>1. i - Len(p) \in 1 .. Len(q) /\ q[i - Len(p)] = x
      BY <1>1, <2>1, <2>3
    <3>2. QED
      BY <3>1 DEF Elements
  <2>4. QED
    BY <1>1, <2>2, <2>3
<1>3. QED
  BY <1>2

LEMMA EraseElements ==
  ASSUME NEW q \in Seq(Requests), NEW i \in 1 .. Len(q)
  PROVE  Elements(EraseAt(q, i)) \subseteq Elements(q)
<1>1. Len(q) \in Nat /\ i \in 0 .. Len(q) /\ i - 1 \in 0 .. Len(q)
  BY LenProperties
<1> DEFINE a == SubSeq(q, 1, i - 1)
           b == SubSeq(q, i + 1, Len(q))
<1>2. a \in Seq(Requests) /\ b \in Seq(Requests)
  BY <1>1, CutProperties
<1>3. Elements(a) \subseteq Elements(q) /\ Elements(b) \subseteq Elements(q)
  BY <1>1, CutElements
<1>4. EraseAt(q, i) = a \o b
  BY DEF EraseAt
<1> HIDE DEF a, b
<1>5. Elements(a \o b) \subseteq Elements(a) \cup Elements(b)
  BY <1>2, ConcatElements
<1>6. QED
  BY <1>3, <1>4, <1>5

LEMMA AppendElements ==
  ASSUME NEW q \in Seq(Requests), NEW x \in Requests
  PROVE  Elements(Append(q, x)) = Elements(q) \cup {x}
<1>1. /\ Len(q) \in Nat /\ Len(Append(q, x)) = Len(q) + 1
      /\ \A i \in 1 .. Len(q) : Append(q, x)[i] = q[i]
      /\ Append(q, x)[Len(q) + 1] = x
  BY LenProperties, AppendProperties
<1>2. \A i : i \in 1 .. Len(q) + 1 <=> i \in 1 .. Len(q) \/ i = Len(q) + 1
  BY <1>1
<1>3. \A y : y \in Elements(Append(q, x)) <=> y \in Elements(q) \cup {x}
  BY <1>1, <1>2 DEF Elements
<1>4. QED
  BY <1>3

LEMMA NoElements == Elements(<<>>) = {}
BY DEF Elements

\* Every transaction that is being written has its response.
WrittenInv == \A t \in Elements(writeQueue) : response[t] # NoResponse

\* What an answer does to the queues: the transactions that are ready leave the
\* handle queue, and those that are written are among them.
LEMMA AnswerQueues ==
  ASSUME IInv, WrittenInv, NEW t \in Requests, NEW outcome \in Outcomes,
         OnTransactionHandleComplete(t, outcome)
  PROVE  /\ WrittenInv'
         /\ handleQueue # <<>> /\ onStack = {} /\ Elements(handleQueue') \subseteq Elements(handleQueue)
         /\ Elements(writeQueue') \subseteq Elements(writeQueue) \cup Elements(handleQueue)
<1>1. /\ handleQueue \in Seq(Requests) /\ writeQueue \in Seq(Requests)
      /\ response \in [Requests -> Outcomes \cup {NoResponse}]
      /\ Elements(handleQueue) \subseteq Requests /\ Elements(writeQueue) \subseteq Requests
  BY ElementOfSeq DEF IInv, TypeOK, Elements
<1>2. /\ response' = [response EXCEPT ![t] = outcome] /\ outcome # NoResponse
      /\ handleQueue # <<>> /\ onStack = {}
  BY EmptySeq DEF OnTransactionHandleComplete, InUserCode, Outcomes, NoResponse
<1>3. PICK n \in 0 .. Len(handleQueue) :
        /\ IsReadyPrefix(handleQueue, n, response')
        /\ handleQueue' = SubSeq(handleQueue, n + 1, Len(handleQueue))
        /\ IF closing THEN DropResponses(n) ELSE WriteResponses(n)
  BY AllPrepared DEF OnTransactionHandleComplete, DropResponses
<1>4. Elements(handleQueue') \subseteq Elements(handleQueue)
  BY <1>1, <1>3, CutElements
<1>5. \A r \in Requests : response[r] # NoResponse => response'[r] # NoResponse
  BY <1>1, <1>2
<1>6. CASE UNCHANGED writeQueue
  BY <1>1, <1>2, <1>4, <1>5, <1>6 DEF WrittenInv
<1>7. CASE WriteResponses(n)
  <2>1. PICK k \in 1 .. n + 1 : writeQueue' = writeQueue \o SubSeq(handleQueue, 1, k - 1)
    BY <1>7, AllPrepared
  <2>2. Len(handleQueue) \in Nat /\ k - 1 \in 0 .. Len(handleQueue) /\ \A i \in 1 .. k - 1 : i \in 1 .. n
    BY <1>1, <1>3, <2>1, LenProperties
  <2> DEFINE more == SubSeq(handleQueue, 1, k - 1)
  <2>3. /\ more \in Seq(Requests) /\ Elements(more) \subseteq Elements(handleQueue)
        /\ \A x \in Elements(more) : \E i \in 1 .. k - 1 : handleQueue[i] = x
    BY <1>1, <2>2, CutElements, CutProperties
  <2>4. writeQueue' = writeQueue \o more
    BY <2>1
  <2> HIDE DEF more
  <2>5. Elements(writeQueue') \subseteq Elements(writeQueue) \cup Elements(more)
    BY <1>1, <2>3, <2>4, ConcatElements
  <2>6. \A x \in Elements(more) : response'[x] # NoResponse
    BY <1>3, <2>2, <2>3 DEF IsReadyPrefix
  <2>7. WrittenInv'
    BY <1>1, <1>5, <2>5, <2>6 DEF WrittenInv
  <2>8. QED
    BY <1>2, <1>4, <2>3, <2>5, <2>7
<1>8. QED
  BY <1>3, <1>6, <1>7 DEF DropResponses

LEMMA WrittenInvariant == IInv /\ WrittenInv /\ [Next]_vars => WrittenInv'
<1> SUFFICES ASSUME IInv, WrittenInv, [Next]_vars PROVE WrittenInv'
  OBVIOUS
<1>1. CASE HandlerAnswers
  BY <1>1, AnswerQueues DEF HandlerAnswers
<1>2. CASE WriteCompletes
  <2>1. PICK i \in 1 .. Len(writeQueue), result \in BOOLEAN :
          OnTransactionWriteComplete(i, result)
    BY <1>2 DEF WriteCompletes
  <2>2. writeQueue' = EraseAt(writeQueue, i) /\ UNCHANGED response /\ writeQueue \in Seq(Requests)
    BY <2>1 DEF OnTransactionWriteComplete, IInv, TypeOK
  <2>3. Elements(writeQueue') \subseteq Elements(writeQueue)
    BY <2>2, EraseElements
  <2>4. QED
    BY <2>2, <2>3 DEF WrittenInv
<1>3. CASE ~HandlerAnswers /\ ~WriteCompletes
  <2>1. UNCHANGED <<writeQueue, response>>
    BY <1>3 DEF Next, InitSync, InitAsync, Read, ReadEof, ReadFailure, ReadRequests, ReadLoop,
         HandleRequest, DropRequest, FinishRead, ReturnFromCallback, ServerClose, OnUvClose,
         queueVars, vars
  <2>2. QED
    BY <2>1 DEF WrittenInv
<1>4. QED
  BY <1>1, <1>2, <1>3

\* The transactions that are alive.
Alive == Elements(handleQueue) \cup Elements(writeQueue) \cup onStack

\* OnRead gives the next request to the handler.
LEMMA HandleBegins ==
  ASSUME IInv, WrittenInv, HandleRequest
  PROVE  Contract!Next
<1> DEFINE t == handed + 1
<1>1. /\ ~closing /\ ~deleted /\ onClose /\ onStack = {}
      /\ UNCHANGED <<closing, deleted, onClose, writeQueue, onStack>>
  BY DEF IInv, LifeInv, HandleRequest, lifeVars, closeVars
<1>2. /\ handleQueue \in Seq(Requests) /\ parserQueue \in Seq(Requests) /\ parserQueue # <<>>
      /\ handed \in 0 .. MaxRequests /\ handed' = handed + 1 /\ handed' \in 0 .. MaxRequests
      /\ MaxRequests \in Nat /\ Len(handleQueue) \in Nat
  BY HandleRequestInvariant, MaxRequestsAssumption, LenProperties DEF IInv, TypeOK, HandleRequest
<1>3. t \in Requests
  BY <1>2 DEF Requests
<1>4. handleQueue' = Append(handleQueue, t)
  <2>1. Len(parserQueue) \in Nat \ {0} /\ Head(parserQueue) = parserQueue[1]
    BY <1>2, HeadTailProperties, EmptySeq
  <2>2. parserQueue[1] = t
    BY <1>1, <1>2, <2>1 DEF IInv, ParserInv
  <2>3. QED
    BY <2>1, <2>2 DEF HandleRequest
<1>5. t \notin Elements(handleQueue)
  <2>1. \A i \in 1 .. Len(handleQueue) : handleQueue[i] = Popped + i
    BY DEF IInv, HandleInv
  <2>2. \A i \in 1 .. Len(handleQueue) : handleQueue[i] # t
    BY <1>2, <2>1 DEF Popped
  <2>3. QED
    BY <2>2 DEF Elements
<1>6. t \notin Elements(writeQueue)
  <2>1. response[t] = NoResponse
    BY <1>2, <1>3 DEF IInv, HandleInv
  <2>2. QED
    BY <2>1 DEF WrittenInv
<1> HIDE DEF t
<1>7. Elements(handleQueue') = Elements(handleQueue) \cup {t}
  BY <1>2, <1>3, <1>4, AppendElements
<1>8. t \notin Alive /\ Alive' = Alive \cup {t}
  BY <1>1, <1>5, <1>6, <1>7 DEF Alive
<1>9. Contract!Begin(t)
  BY <1>1, <1>8 DEF Contract!Begin, Alive
<1>10. QED
  BY <1>3, <1>9 DEF Contract!Next

\* A step that brings no transaction, while the connection is up or closing: it may
\* end some, close the connection, and run on_close_ when none is left in a queue.
LEMMA ContractProgress ==
  ASSUME IInv, IInv', onClose, Elements(handleQueue') \subseteq Elements(handleQueue),
         Elements(writeQueue') \subseteq Elements(writeQueue) \cup Elements(handleQueue),
         onStack' \subseteq Alive, closing => closing',
         onClose' \/ (closing /\ deleted')
  PROVE  Contract!Next
<1>1. ~deleted /\ closing \in BOOLEAN
  BY DEF IInv, LifeInv, TypeOK
<1>2. Alive' \subseteq Alive
  BY DEF Alive
<1>3. CASE onClose'
  <2>1. ~deleted' /\ closing' \in BOOLEAN
    BY <1>3 DEF IInv, LifeInv, TypeOK
  <2>2. Contract!Progress
    BY <1>1, <1>2, <1>3, <2>1 DEF Contract!Progress, Alive
  <2>3. QED
    BY <2>2 DEF Contract!Next
<1>4. CASE closing /\ deleted'
  <2>1. handleQueue' = <<>> /\ writeQueue' = <<>>
    BY <1>4 DEF IInv, QuietInv
  <2>2. Alive' = onStack'
    BY <2>1, NoElements DEF Alive
  <2>3. Cardinality(Alive') <= 1
    <3>1. onStack' = {} \/ \E t \in Requests : onStack' = {t}
      BY DEF IInv, LifeInv
    <3>2. CASE onStack' = {}
      BY <2>2, <3>2, FS_EmptySet
    <3>3. ASSUME NEW t \in Requests, onStack' = {t}
          PROVE  Cardinality(Alive') <= 1
      BY <2>2, <3>3, FS_Singleton
    <3>4. QED
      BY <3>1, <3>2, <3>3
  <2>4. Contract!Cardinality(Alive') = Cardinality(Alive')
    BY DEF Contract!Cardinality, Cardinality
  <2>5. Contract!Go
    BY <1>1, <1>2, <1>4, <2>3, <2>4 DEF Contract!Go, Alive
  <2>6. QED
    BY <2>5 DEF Contract!Next
<1>5. QED
  BY <1>3, <1>4

LEMMA ContractInit == Init => Contract!Init
BY NoElements DEF Init, Contract!Init

LEMMA ContractStep ==
  IInv /\ IInv' /\ WrittenInv /\ [Next]_vars => [Contract!Next]_(Contract!vars)
<1> SUFFICES ASSUME IInv, IInv', WrittenInv, [Next]_vars
             PROVE  Contract!Next \/ UNCHANGED Contract!vars
  OBVIOUS
<1> USE DEF lifeVars, closeVars, queueVars
\* A step that leaves the queues alone.
<1>1. ASSUME onClose, UNCHANGED <<handleQueue, writeQueue, onStack>>, closing => closing',
             onClose' \/ (closing /\ deleted')
      PROVE  Contract!Next
  <2>1. onStack' \subseteq Alive
    BY <1>1 DEF Alive
  <2>2. QED
    BY <1>1, <2>1, ContractProgress
<1>2. ASSUME UNCHANGED <<deleted, closing, onClose, handleQueue, writeQueue, onStack>>
      PROVE  UNCHANGED Contract!vars
  BY <1>2 DEF Contract!vars
<1>3. CASE InitSync
  <2>1. /\ ~deleted /\ ~closing /\ ~onClose
        /\ UNCHANGED <<closing, onClose, handleQueue, writeQueue, onStack>>
        /\ deleted' = TRUE \/ UNCHANGED deleted
    BY <1>3 DEF InitSync, IInv, LifeInv
  <2>2. CASE deleted' = TRUE
    BY <2>1, <2>2 DEF Contract!Next, Contract!Start
  <2>3. CASE UNCHANGED deleted
    BY <1>2, <2>1, <2>3
  <2>4. QED
    BY <2>1, <2>2, <2>3
<1>4. CASE InitAsync
  <2>1. /\ ~deleted /\ ~deleted' /\ ~closing /\ ~onClose /\ onClose'
        /\ UNCHANGED <<handleQueue, writeQueue, onStack>>
    BY <1>4 DEF InitAsync, IInv, LifeInv
  <2>2. QED
    BY <2>1 DEF Contract!Next, Contract!Start
<1>5. CASE Read
  <2>1. /\ onClose /\ onClose' /\ (closing => closing')
        /\ UNCHANGED <<handleQueue, writeQueue, onStack>>
    BY <1>5 DEF Read, ReadEof, ReadFailure, ReadRequests, Close, IInv, LifeInv
  <2>2. QED
    BY <1>1, <2>1
<1>6. CASE HandleRequest
  BY <1>6, HandleBegins
<1>7. CASE DropRequest \/ FinishRead
  BY <1>2, <1>7 DEF DropRequest, FinishRead
<1>8. CASE HandlerAnswers
  <2>1. PICK t \in Requests, outcome \in Outcomes : OnTransactionHandleComplete(t, outcome)
    BY <1>8 DEF HandlerAnswers
  <2>2. /\ handleQueue # <<>> /\ onStack = {} /\ Elements(handleQueue') \subseteq Elements(handleQueue)
        /\ Elements(writeQueue') \subseteq Elements(writeQueue) \cup Elements(handleQueue)
    BY <2>1, AnswerQueues
  <2>3. onClose
    BY <2>2 DEF IInv, LifeInv, QuietInv
  <2>4. PICK n \in 0 .. Len(handleQueue) : IF closing THEN DropResponses(n) ELSE WriteResponses(n)
    BY <2>1 DEF OnTransactionHandleComplete
  <2>5. CASE closing
    <3>1. closing' = closing /\ DropResponses(n)
      BY <2>4, <2>5 DEF DropResponses
    <3>2. CASE UNCHANGED <<onClose, deleted, onStack>>
      BY <2>2, <2>3, <3>1, <3>2, ContractProgress
    <3>3. CASE n > 0 /\ RunOnClose /\ onStack' = {handleQueue[n]}
      <4>1. n \in 1 .. Len(handleQueue)
        BY <3>3, LenProperties DEF IInv, TypeOK
      <4>2. onStack' \subseteq Alive
        BY <3>3, <4>1 DEF Alive, Elements
      <4>3. QED
        BY <2>2, <2>3, <2>5, <3>1, <3>3, <4>2, ContractProgress DEF RunOnClose
    <3>4. QED
      BY <3>1, <3>2, <3>3 DEF DropResponses
  <2>6. CASE ~closing
    <3>1. onClose' = onClose /\ onStack' = {}
      BY <2>2, <2>4, <2>6, AllPrepared DEF lifeVars
    <3>2. QED
      BY <2>2, <2>3, <2>6, <3>1, ContractProgress
  <2>7. QED
    BY <2>5, <2>6
<1>9. CASE WriteCompletes
  <2>1. PICK i \in 1 .. Len(writeQueue), result \in BOOLEAN :
          OnTransactionWriteComplete(i, result)
    BY <1>9 DEF WriteCompletes
  <2>2. /\ writeQueue \in Seq(Requests) /\ writeQueue # <<>> /\ writeQueue[i] \in Elements(writeQueue)
        /\ writeQueue' = EraseAt(writeQueue, i) /\ UNCHANGED handleQueue /\ onStack = {}
        /\ (closing => closing')
    BY <2>1, EmptySeq
    DEF IInv, TypeOK, OnTransactionWriteComplete, Elements, AtLoop, Close
  <2>3. Elements(writeQueue') \subseteq Elements(writeQueue) /\ onClose
    BY <2>2, EraseElements DEF IInv, LifeInv, QuietInv
  <2>4. CASE closing /\ RunOnClose /\ onStack' = {writeQueue[i]}
    <3>1. onStack' \subseteq Alive
      BY <2>2, <2>4 DEF Alive
    <3>2. QED
      BY <2>2, <2>3, <2>4, <3>1, ContractProgress DEF RunOnClose
  <2>5. CASE UNCHANGED <<onClose, deleted, onStack>>
    BY <2>2, <2>3, <2>5, ContractProgress
  <2>6. QED
    BY <2>1, <2>4, <2>5 DEF OnTransactionWriteComplete
<1>10. CASE ReturnFromCallback
  <2>1. /\ onStack # {} /\ onStack' = {} /\ deleted /\ deleted'
        /\ handleQueue = <<>> /\ writeQueue = <<>> /\ handleQueue' = <<>> /\ writeQueue' = <<>>
    BY <1>10 DEF ReturnFromCallback, IInv, LifeInv, QuietInv
  <2>2. Contract!Return
    BY <2>1, NoElements DEF Contract!Return
  <2>3. QED
    BY <2>2 DEF Contract!Next
<1>11. CASE ServerClose
  <2>1. /\ onClose /\ onClose' /\ (closing => closing')
        /\ UNCHANGED <<handleQueue, writeQueue, onStack>>
    BY <1>11 DEF ServerClose, Close
  <2>2. QED
    BY <1>1, <2>1
<1>12. CASE OnUvClose
  <2>1. /\ closing /\ ~deleted /\ onClose /\ closing'
        /\ UNCHANGED <<handleQueue, writeQueue, onStack>>
        /\ onClose' \/ deleted'
    BY <1>12 DEF OnUvClose, RunOnClose, IInv, LifeInv
  <2>2. QED
    BY <1>1, <2>1
<1>13. CASE UNCHANGED vars
  BY <1>2, <1>13 DEF vars
<1>14. QED
  BY <1>3, <1>4, <1>5, <1>6, <1>7, <1>8, <1>9, <1>10, <1>11, <1>12, <1>13 DEF Next, ReadLoop

\* The connection keeps its promise to the server core, but for its fairness:
\* on_closing and on_close run once, no transaction begins after the first, none is
\* counted twice, and at on_close at most one is left, which the stack holds.
THEOREM KeepsContract == Spec => Contract!Spec
<1>1. Init => Contract!Init
  BY ContractInit
<1>2. IInv /\ IInv' /\ WrittenInv /\ [Next]_vars => [Contract!Next]_(Contract!vars)
  BY ContractStep
<1>3. Init => WrittenInv
  BY NoElements DEF Init, WrittenInv
<1>4. IInv /\ WrittenInv /\ [Next]_vars => WrittenInv'
  BY WrittenInvariant
<1>5. QED
  BY <1>1, <1>2, <1>3, <1>4, Invariance, PTL DEF Spec, Contract!Spec
=============================================================================
