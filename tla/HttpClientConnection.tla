------------------------ MODULE HttpClientConnection ------------------------
(***************************************************************************)
(* One connection of the pjcore HTTP client (http_client_connection.cc)    *)
(* with its transactions (http_client_transaction.cc).                     *)
(*                                                                         *)
(* The client runs on one libuv loop, but its functions call user code in  *)
(* the middle: a transaction's on_response may issue the next request on   *)
(* this very connection, or let go of the client, while Close, OnConnect   *)
(* or OnRead is half way through one of its loops.  The variable stack     *)
(* holds the functions that are waiting for a call they made to return,    *)
(* the running one last; every action is a step of the last one, and uv    *)
(* delivers an event only when the stack is empty.                         *)
(*                                                                         *)
(* The peer answers the requests in the order it gets them, at any time    *)
(* from the moment uv accepted the write.  uv completes the writes of a    *)
(* stream in order.                                                        *)
(***************************************************************************)
EXTENDS Integers, Sequences, FiniteSets

CONSTANT MaxRequests    \* how many requests the user ever issues (a bound)

ASSUME MaxRequestsAssumption == MaxRequests \in Nat

Requests == 1 .. MaxRequests     \* numbered in the order they were issued

\* A result is NoResult, Failed, or the request that the response answers.
NoResult == 0
Failed   == -1

\* "user": in on_response of transaction of; "read": in OnRead's loop; "drain":
\* in OnConnect's loop; "close": in Close's loops; "writeFailed", "writeLate":
\* in OnTransactionWriteComplete, after the call of ResultFailure.
Frames ==
  [at : {"user"}, of : Requests] \cup
  [at : {"read", "drain", "close", "writeFailed", "writeLate"}, of : {0}]

VARIABLES
  open,         \* open_
  reading,      \* reading_
  closing,      \* closing_
  onClosing,    \* on_closing_ is not null: the group lists it as open
  onClose,      \* on_close_ is not null
  buffer,       \* buffer_ is not null
  waitQueue,    \* wait_queue_
  writeQueue,   \* write_queue_
  readQueue,    \* read_queue_
  parserQueue,  \* the parser's response_queue_: the requests they answer
  deleted,      \* the group has deleted the connection
  stack,        \* the functions of the connection that have not returned
  connecting,   \* uv owes the connect callback
  uvClosing,    \* uv owes the close callback
  unanswered,   \* the requests on the wire the peer has not answered, in order
  issued,       \* how many requests were issued
  result,       \* what each transaction's on_response was called with
  released      \* the user has let go of the client

uvVars    == <<connecting, uvClosing>>
closeVars == <<open, onClosing, onClose, deleted, uvVars>>
readVars  == <<buffer, parserQueue>>
userVars  == <<issued, result, released>>
vars == <<reading, closing, closeVars, readVars, waitQueue, writeQueue, readQueue,
          stack, unanswered, userVars>>

Init ==
  /\ open = FALSE /\ reading = FALSE /\ closing = FALSE
  /\ onClosing = FALSE /\ onClose = FALSE /\ buffer = FALSE
  /\ waitQueue = <<>> /\ writeQueue = <<>> /\ readQueue = <<>>
  /\ parserQueue = <<>> /\ deleted = FALSE /\ stack = <<>>
  /\ connecting = FALSE /\ uvClosing = FALSE /\ unanswered = <<>>
  /\ issued = 0 /\ released = FALSE
  /\ result = [t \in Requests |-> NoResult]

-----------------------------------------------------------------------------
(* The stack.                                                              *)

AtLoop == stack = <<>>

Running(f) == stack # <<>> /\ stack[Len(stack)].at = f

Callers == SubSeq(stack, 1, Len(stack) - 1)  \* all but the running function

Frame(f) == [at |-> f, of |-> 0]
User(t)  == [at |-> "user", of |-> t]

Elements(q) == {q[i] : i \in 1 .. Len(q)}

InCallback(s) == {s[i].of : i \in 1 .. Len(s)} \ {0}

\* The transactions that hold a unit of pending_transaction_counter_.
Live ==
  Elements(waitQueue) \cup Elements(writeQueue) \cup Elements(readQueue)
    \cup InCallback(stack)

-----------------------------------------------------------------------------
(* Functions that others call; s is the stack of those waiting for them.   *)

\* ResultSuccess and ResultFailure run the user's on_response.
Result(t, r, s) ==
  /\ result' = [result EXCEPT ![t] = r]
  /\ stack' = Append(s, User(t))

\* The first half of Close: a second call returns at once.
Close(s) ==
  IF closing
    THEN stack' = s /\ UNCHANGED closing
    ELSE stack' = Append(s, Frame("close")) /\ closing' = TRUE

\* Running on_close_: the group deletes the connection.
RunOnClose == onClose' = FALSE /\ deleted' = TRUE

\* PrepareWrite and AsyncWrite of transaction t.  PrepareWrite may refuse the
\* request; the write may fail at once, and then its completion runs in place.
Write(t, s) ==
  \/ /\ Result(t, Failed, s)
     /\ UNCHANGED <<writeQueue, unanswered>>
  \/ /\ writeQueue' = Append(writeQueue, t)
     /\ unanswered' = Append(unanswered, t)
     /\ stack' = s
     /\ UNCHANGED result
  \/ /\ Result(t, Failed, Append(s, Frame("writeFailed")))
     /\ UNCHANGED <<writeQueue, unanswered>>

-----------------------------------------------------------------------------
(* Setting the connection up.                                              *)

\* A failed tcp_init, or an empty address list, makes the group drop it.
InitSync ==
  /\ ~open /\ ~closing /\ ~deleted
  /\ \/ open' = TRUE /\ UNCHANGED deleted
     \/ deleted' = TRUE /\ UNCHANGED open
  /\ UNCHANGED <<reading, closing, onClosing, onClose, uvVars, readVars,
                 waitQueue, writeQueue, readQueue, stack, unanswered, userVars>>

\* The group hands over the transactions that waited for the address, at least
\* one (HttpClientCore.tla says when), and uv starts to connect, or fails to.
InitAsync ==
  /\ open /\ ~onClose /\ ~closing
  /\ \E n \in Requests :
       /\ waitQueue' = [i \in 1 .. n |-> i]
       /\ issued' = n
  /\ onClosing' = TRUE /\ onClose' = TRUE
  /\ \/ connecting' = TRUE /\ UNCHANGED <<stack, closing>>
     \/ Close(<<>>) /\ UNCHANGED connecting
  /\ UNCHANGED <<open, reading, deleted, uvClosing, readVars, writeQueue,
                 readQueue, unanswered, result, released>>

\* OnConnect: a failed connect or read_start closes the connection.
OnConnect ==
  /\ AtLoop /\ connecting
  /\ connecting' = FALSE
  /\ \/ Close(<<>>) /\ UNCHANGED reading
     \/ /\ reading' = TRUE /\ stack' = <<Frame("drain")>>
        /\ UNCHANGED closing
  /\ UNCHANGED <<open, onClosing, onClose, deleted, uvClosing, readVars,
                 waitQueue, writeQueue, readQueue, unanswered, userVars>>

\* Mutant of Drain: only a transaction that is written is popped.
DrainKeeps ==
  /\ Running("drain")
  /\ IF waitQueue = <<>>
       THEN stack' = Callers /\ UNCHANGED <<waitQueue, writeQueue, unanswered, result>>
       ELSE /\ Write(Head(waitQueue), stack)
            /\ waitQueue' = IF stack' = stack THEN Tail(waitQueue) ELSE waitQueue
  /\ UNCHANGED <<reading, closing, closeVars, readVars, readQueue, issued, released>>

\* OnConnect's loop writes the transactions that waited for the connection.
Drain ==
  /\ Running("drain")
  /\ IF waitQueue = <<>>
       THEN stack' = Callers /\ UNCHANGED <<waitQueue, writeQueue, unanswered, result>>
       ELSE waitQueue' = Tail(waitQueue) /\ Write(Head(waitQueue), stack)
  /\ UNCHANGED <<reading, closing, closeVars, readVars, readQueue, issued, released>>

-----------------------------------------------------------------------------
(* The user, at the loop or in on_response.                                *)

\* AsyncProcess of a new request; the group passes it on while it lists the
\* connection as open, which it does until on_closing_ has run.
AsyncProcess ==
  /\ AtLoop \/ Running("user")
  /\ onClosing /\ ~released /\ issued < MaxRequests
  /\ issued' = issued + 1
  /\ \/ /\ closing
        /\ Result(issued + 1, Failed, stack)
        /\ UNCHANGED <<waitQueue, writeQueue, unanswered>>
     \/ /\ ~closing /\ ~reading
        /\ waitQueue' = Append(waitQueue, issued + 1)
        /\ UNCHANGED <<writeQueue, unanswered, result, stack>>
     \/ /\ ~closing /\ reading
        /\ Write(issued + 1, stack)
        /\ UNCHANGED waitQueue
  /\ UNCHANGED <<reading, closing, closeVars, readVars, readQueue, released>>

\* The last transaction of a released client is gone, or was when the client
\* was released: the core closes every open connection (unless transactions of
\* other connections remain).
OwnerCloses(s, live) ==
  \/ stack' = s /\ UNCHANGED closing
  \/ live = {} /\ onClosing /\ Close(s)

\* on_response returns, and its transaction is destroyed.
UserReturns ==
  /\ Running("user")
  /\ IF released
       THEN OwnerCloses(Callers, Elements(waitQueue) \cup Elements(writeQueue)
                                   \cup Elements(readQueue) \cup InCallback(Callers))
       ELSE stack' = Callers /\ UNCHANGED closing
  /\ UNCHANGED <<reading, closeVars, readVars, waitQueue, writeQueue, readQueue,
                 unanswered, userVars>>

\* The user lets go of the client.
Release ==
  /\ AtLoop \/ Running("user")
  /\ ~released
  /\ released' = TRUE
  /\ OwnerCloses(stack, Live)
  /\ UNCHANGED <<reading, closeVars, readVars, waitQueue, writeQueue, readQueue,
                 unanswered, issued, result>>

\* The last transaction elsewhere in the client is gone.
OwnerClosesLater ==
  /\ AtLoop /\ released /\ Live = {} /\ onClosing /\ ~closing
  /\ Close(<<>>)
  /\ UNCHANGED <<reading, closeVars, readVars, waitQueue, writeQueue, readQueue,
                 unanswered, userVars>>

-----------------------------------------------------------------------------
(* Reading.                                                                *)

\* The peer's first k answers are parsed.
Parse(k) ==
  /\ parserQueue' = parserQueue \o SubSeq(unanswered, 1, k)
  /\ unanswered' = SubSeq(unanswered, k + 1, Len(unanswered))

ReadEof ==
  /\ AtLoop /\ reading
  /\ buffer' = TRUE
  /\ Close(<<>>)
  /\ UNCHANGED <<reading, closeVars, parserQueue, waitQueue, writeQueue,
                 readQueue, unanswered, userVars>>

\* A read error, an empty read, or a parse error after k complete responses.
ReadFailure ==
  /\ AtLoop /\ reading
  /\ buffer' = FALSE
  /\ \E k \in 0 .. Len(unanswered) : Parse(k)
  /\ Close(<<>>)
  /\ UNCHANGED <<reading, closeVars, waitQueue, writeQueue, readQueue, userVars>>

\* Data that completes k responses.
ReadResponses ==
  /\ AtLoop /\ reading
  /\ buffer' = FALSE
  /\ \E k \in 1 .. Len(unanswered) : Parse(k)
  /\ stack' = <<Frame("read")>>
  /\ UNCHANGED <<reading, closing, closeVars, waitQueue, writeQueue, readQueue,
                 userVars>>

\* Mutant of TakeResponse: the response goes to the last transaction written.
TakeResponseFromBack ==
  /\ Running("read") /\ parserQueue # <<>>
  /\ parserQueue' = Tail(parserQueue)
  /\ IF readQueue = <<>>
       THEN /\ Close(Callers)
            /\ UNCHANGED <<readQueue, result>>
       ELSE /\ readQueue' = SubSeq(readQueue, 1, Len(readQueue) - 1)
            /\ Result(readQueue[Len(readQueue)], Head(parserQueue), stack)
            /\ UNCHANGED closing
  /\ UNCHANGED <<reading, closeVars, buffer, waitQueue, writeQueue, unanswered,
                 issued, released>>

\* One iteration of OnRead's loop: the response goes to the first transaction
\* that has been written.  When there is none it fails as unexpected.
TakeResponse ==
  /\ Running("read") /\ parserQueue # <<>>
  /\ parserQueue' = Tail(parserQueue)
  /\ IF readQueue = <<>>
       THEN /\ Close(Callers)
            /\ UNCHANGED <<readQueue, result>>
       ELSE /\ readQueue' = Tail(readQueue)
            /\ Result(Head(readQueue), Head(parserQueue), stack)
            /\ UNCHANGED closing
  /\ UNCHANGED <<reading, closeVars, buffer, waitQueue, writeQueue, unanswered,
                 issued, released>>

FinishRead ==
  /\ Running("read") /\ parserQueue = <<>>
  /\ stack' = Callers
  /\ UNCHANGED <<reading, closing, closeVars, readVars, waitQueue, writeQueue,
                 readQueue, unanswered, userVars>>

-----------------------------------------------------------------------------
(* Writing.                                                                *)

\* uv completes the oldest write.  While closing, or when the write failed, the
\* transaction fails; else it waits for its response.
OnTransactionWriteComplete(ok) ==
  /\ AtLoop /\ writeQueue # <<>>
  /\ writeQueue' = Tail(writeQueue)
  /\ IF ok /\ ~closing
       THEN /\ readQueue' = Append(readQueue, Head(writeQueue))
            /\ UNCHANGED <<stack, result>>
       ELSE /\ Result(Head(writeQueue), Failed,
                      <<Frame(IF closing THEN "writeLate" ELSE "writeFailed")>>)
            /\ UNCHANGED readQueue
  /\ UNCHANGED <<reading, closing, closeVars, readVars, waitQueue, unanswered,
                 issued, released>>

\* After the failed transaction's on_response, OnTransactionWriteComplete
\* closes the connection.
CloseAfterFailure ==
  /\ Running("writeFailed")
  /\ Close(Callers)
  /\ UNCHANGED <<reading, closeVars, readVars, waitQueue, writeQueue, readQueue,
                 unanswered, userVars>>

\* After a late transaction's on_response: the last write of a closed handle
\* runs on_close_.
LastWriteOut ==
  /\ Running("writeLate")
  /\ stack' = Callers
  /\ IF ~open /\ writeQueue = <<>> THEN RunOnClose ELSE UNCHANGED <<onClose, deleted>>
  /\ UNCHANGED <<reading, closing, open, onClosing, uvVars, readVars, waitQueue,
                 writeQueue, readQueue, unanswered, userVars>>

-----------------------------------------------------------------------------
(* Closing.                                                                *)

\* Mutant of CloseFails: only the transactions that were written are failed.
CloseFailsReads ==
  /\ Running("close") /\ readQueue # <<>>
  /\ readQueue' = Tail(readQueue) /\ Result(Head(readQueue), Failed, stack)
  /\ UNCHANGED <<waitQueue, reading, closing, closeVars, readVars, writeQueue,
                 unanswered, issued, released>>

\* Close's loops fail the transactions that wait for a response, then those
\* that wait for the connection.
CloseFails ==
  /\ Running("close")
  /\ \/ /\ readQueue # <<>>
        /\ readQueue' = Tail(readQueue) /\ Result(Head(readQueue), Failed, stack)
        /\ UNCHANGED waitQueue
     \/ /\ readQueue = <<>> /\ waitQueue # <<>>
        /\ waitQueue' = Tail(waitQueue) /\ Result(Head(waitQueue), Failed, stack)
        /\ UNCHANGED readQueue
  /\ UNCHANGED <<reading, closing, closeVars, readVars, writeQueue, unanswered,
                 issued, released>>

\* Mutant of FinishClose: reading_ stays set.
FinishCloseKeepsReading ==
  /\ Running("close") /\ readQueue = <<>> /\ waitQueue = <<>>
  /\ onClosing' = FALSE
  /\ uvClosing' = TRUE
  /\ stack' = Callers
  /\ UNCHANGED <<reading, closing, open, onClose, deleted, connecting, readVars,
                 waitQueue, writeQueue, readQueue, unanswered, userVars>>

\* The rest of Close: on_closing_ runs, reading stops, uv closes the handle.
FinishClose ==
  /\ Running("close") /\ readQueue = <<>> /\ waitQueue = <<>>
  /\ onClosing' = FALSE /\ reading' = FALSE
  /\ uvClosing' = TRUE
  /\ stack' = Callers
  /\ UNCHANGED <<closing, open, onClose, deleted, connecting, readVars,
                 waitQueue, writeQueue, readQueue, unanswered, userVars>>

\* Mutant of OnUvClose: on_close_ runs whatever is still being written.
OnUvCloseAtOnce ==
  /\ AtLoop /\ uvClosing
  /\ uvClosing' = FALSE /\ open' = FALSE
  /\ RunOnClose
  /\ UNCHANGED <<reading, closing, onClosing, connecting, readVars, waitQueue,
                 writeQueue, readQueue, stack, unanswered, userVars>>

\* StaticOnClose: the handle is closed; with nothing left to write on_close_ runs.
OnUvClose ==
  /\ AtLoop /\ uvClosing
  /\ uvClosing' = FALSE /\ open' = FALSE
  /\ IF writeQueue = <<>> THEN RunOnClose ELSE UNCHANGED <<onClose, deleted>>
  /\ UNCHANGED <<reading, closing, onClosing, connecting, readVars, waitQueue,
                 writeQueue, readQueue, stack, unanswered, userVars>>

-----------------------------------------------------------------------------

Read == ReadEof \/ ReadFailure \/ ReadResponses

\* The running function of the connection takes its next step.
Runs ==
  Drain \/ TakeResponse \/ FinishRead \/ CloseAfterFailure \/ LastWriteOut
    \/ CloseFails \/ FinishClose

WriteCompletes == \E ok \in BOOLEAN : OnTransactionWriteComplete(ok)

Next ==
  \/ InitSync
  \/ InitAsync
  \/ OnConnect
  \/ AsyncProcess
  \/ UserReturns
  \/ Release
  \/ OwnerClosesLater
  \/ Read
  \/ WriteCompletes
  \/ Runs
  \/ OnUvClose

Spec == Init /\ [][Next]_vars

\* Functions and the user's callbacks return, uv delivers what it owes, and the
\* owner closes the connection of a released client.  The peer owes no answer:
\* the code has no timeout.
Fairness ==
  /\ WF_vars(InitAsync)
  /\ WF_vars(OnConnect)
  /\ WF_vars(UserReturns)
  /\ WF_vars(OwnerClosesLater)
  /\ WF_vars(WriteCompletes)
  /\ WF_vars(Runs)
  /\ WF_vars(OnUvClose)

FairSpec == Spec /\ Fairness

-----------------------------------------------------------------------------
(* Properties.                                                             *)

TypeOK ==
  /\ open \in BOOLEAN /\ reading \in BOOLEAN /\ closing \in BOOLEAN
  /\ onClosing \in BOOLEAN /\ onClose \in BOOLEAN /\ buffer \in BOOLEAN
  /\ deleted \in BOOLEAN /\ connecting \in BOOLEAN /\ uvClosing \in BOOLEAN
  /\ released \in BOOLEAN
  /\ waitQueue \in Seq(Requests) /\ writeQueue \in Seq(Requests)
  /\ readQueue \in Seq(Requests) /\ parserQueue \in Seq(Requests)
  /\ unanswered \in Seq(Requests)
  /\ stack \in Seq(Frames)
  /\ issued \in 0 .. MaxRequests
  /\ result \in [Requests -> {NoResult, Failed} \cup Requests]

\* How often t is in one of the queues.
Held(t) ==
  Cardinality({i \in 1 .. Len(waitQueue) : waitQueue[i] = t})
    + Cardinality({i \in 1 .. Len(writeQueue) : writeQueue[i] = t})
    + Cardinality({i \in 1 .. Len(readQueue) : readQueue[i] = t})

\* A transaction without a result is owned by exactly one queue, and one with a
\* result by none: on_response is called once for every request, however its
\* callbacks nest, and no transaction is dropped.
HeldUntilResult ==
  \A t \in 1 .. issued : Held(t) = IF result[t] = NoResult THEN 1 ELSE 0

\* A response goes to the transaction whose request it answers, with requests
\* in flight, new ones issued in callbacks and answers that overtake the write.
OwnResponse ==
  \A t \in Requests : result[t] \in {NoResult, Failed, t}

\* The checks in OnConnect (callbacks not yet run), Close (the same, and open),
\* Alloc (no buffer) and StaticOnClose (open) hold whenever those may be entered,
\* and those of ~HttpClientConnection when it is deleted, which leaves no function
\* on the stack, no callback owed by uv and no transaction.  All has its type.
AssertionsHold ==
  /\ TypeOK
  /\ connecting => onClosing /\ onClose
  /\ ~closing /\ onClose => open /\ onClosing
  /\ Running("close") => open /\ onClosing /\ onClose
  /\ reading /\ AtLoop => ~buffer
  /\ uvClosing => open
  /\ deleted =>
       /\ AtLoop /\ ~connecting /\ ~uvClosing /\ Live = {}
       /\ ~open /\ ~reading /\ ~onClosing /\ ~onClose

\* A connection that starts closing calls every on_response and is deleted.
ClosingEnds == closing ~> deleted /\ \A t \in 1 .. issued : result[t] # NoResult

\* The promise of the connection to the group that owns it.
Contract ==
  INSTANCE ClientConnectionContract
    WITH Transactions <- Requests,
         phase        <- IF deleted THEN "gone"
                         ELSE IF onClosing THEN "up"
                         ELSE IF closing THEN "closing" ELSE "new",
         connecting   <- connecting,
         live         <- Live

ImplementsContract == Contract!Spec
=============================================================================
