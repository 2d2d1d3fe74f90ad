------------------------ MODULE HttpServerConnection ------------------------
(***************************************************************************)
(* One accepted TCP connection of the pjcore HTTP server                   *)
(* (http_server_connection.cc) with its transactions                       *)
(* (http_server_transaction.cc).                                           *)
(*                                                                         *)
(* The program is single threaded: a libuv loop runs callbacks one at a    *)
(* time, to completion.  One action is one callback, except where a        *)
(* callback calls out to user code in the middle: OnRead hands the parsed  *)
(* requests to the handler one by one, and during each of those calls the  *)
(* handler may complete any transaction it was ever given.  The variable   *)
(* frame says where the thread is, and OnRead is one action per iteration. *)
(*                                                                         *)
(* libuv is reached through the virtual interface AbstractUv; of it the    *)
(* model assumes only that a callback is delivered for what was started:   *)
(* write callbacks may come in any order and before or after the close     *)
(* callback, which is what the code's std::find and last-one-out tests     *)
(* tolerate.                                                               *)
(***************************************************************************)
EXTENDS Integers, Sequences, FiniteSets

CONSTANT MaxRequests    \* how many requests the peer ever sends (a bound)

ASSUME MaxRequestsAssumption == MaxRequests \in Nat

Requests == 1 .. MaxRequests     \* numbered in the order they were parsed

NoResponse == "none"
Outcomes   == {"handled", "error500"}  \* what a handler's completion becomes

Response == [request : Requests, response : Outcomes]  \* one on the wire

VARIABLES
  open,         \* open_
  reading,      \* reading_
  closing,      \* closing_
  onClosing,    \* on_closing_ is not null
  onClose,      \* on_close_ is not null
  buffer,       \* buffer_ is not null
  parserQueue,  \* the parser's request_queue_
  handleQueue,  \* handle_queue_
  writeQueue,   \* write_queue_
  response,     \* response_ of each transaction
  pending,      \* the transactions counted by local_pending_transaction_counter_
  deleted,      \* the owner has deleted the connection
  frame,        \* "loop": no OnRead on the stack; "read": OnRead between two
                \* handler calls; "handler": OnRead inside handler_->AsyncHandle
  onStack,      \* the transactions a returning callback still owns (at most one)
  uvClosing,    \* uv close was called and its callback has not run
  received,     \* how many requests were parsed
  handed,       \* how many of them were given to the handler
  wire          \* the responses accepted by uv write, in order (history)

lifeVars  == <<open, onClose, deleted>>
closeVars == <<closing, onClosing, reading, uvClosing>>
queueVars == <<handleQueue, writeQueue, response, pending>>
readVars  == <<buffer, parserQueue, frame, received>>
vars == <<lifeVars, closeVars, queueVars, readVars, onStack, handed, wire>>

Init ==
  /\ open = FALSE /\ reading = FALSE /\ closing = FALSE
  /\ onClosing = FALSE /\ onClose = FALSE /\ buffer = FALSE
  /\ parserQueue = <<>> /\ handleQueue = <<>> /\ writeQueue = <<>>
  /\ response = [t \in Requests |-> NoResponse]
  /\ pending = 0 /\ onStack = {}
  /\ deleted = FALSE /\ uvClosing = FALSE
  /\ frame = "loop" /\ received = 0 /\ handed = 0 /\ wire = <<>>

-----------------------------------------------------------------------------
(* Helpers.                                                                *)

\* The thread is in the event loop: no callback of this connection is running.
AtLoop == frame = "loop" /\ onStack = {}

\* User code may run, in the loop or in the call OnRead makes to the handler.
InUserCode == frame # "read" /\ onStack = {}

\* Mutant of EraseAt: the completed write stays in the list.
EraseNothing(q, i) == SubSeq(q, 1, i - 1) \o SubSeq(q, i, Len(q))

\* list::erase at position i.
EraseAt(q, i) == SubSeq(q, 1, i - 1) \o SubSeq(q, i + 1, Len(q))

\* Mutant of IsReadyPrefix: an "if" where the code has a "while".
IsReadyHead(q, n, resp) ==
  n = IF Len(q) > 0 /\ resp[q[1]] # NoResponse THEN 1 ELSE 0

\* The first n transactions of q, and no more, have their response.
IsReadyPrefix(q, n, resp) ==
  /\ n \in 0 .. Len(q)
  /\ \A i \in 1 .. n : resp[q[i]] # NoResponse
  /\ n < Len(q) => resp[q[n + 1]] = NoResponse

\* What the peer sees of the first n transactions of q.
Serialized(q, n, resp) ==
  [i \in 1 .. n |-> [request |-> q[i], response |-> resp[q[i]]]]

\* Mutant of Close: reading goes on.
CloseForgetsReading ==
  \/ /\ closing
     /\ UNCHANGED closeVars
  \/ /\ ~closing
     /\ closing' = TRUE /\ onClosing' = FALSE
     /\ UNCHANGED reading /\ uvClosing' = TRUE

\* HttpServerConnection::Close: the first call runs on_closing_, stops reading
\* and asks uv to close the handle; later calls return at once.
Close ==
  \/ /\ closing
     /\ UNCHANGED closeVars
  \/ /\ ~closing
     /\ closing' = TRUE /\ onClosing' = FALSE
     /\ reading' = FALSE /\ uvClosing' = TRUE

\* Running on_close_: the owner erases the connection and deletes it.
RunOnClose == onClose' = FALSE /\ deleted' = TRUE

-----------------------------------------------------------------------------
(* Setting the connection up.                                              *)

\* A failed tcp_init makes the owner drop the connection.
InitSync ==
  /\ ~open /\ ~closing /\ ~deleted
  /\ \/ open' = TRUE /\ UNCHANGED deleted
     \/ deleted' = TRUE /\ UNCHANGED open
  /\ UNCHANGED <<onClose, closeVars, queueVars, readVars, onStack, handed, wire>>

\* Either accept or read_start may fail, and then the connection closes itself.
InitAsync ==
  /\ open /\ ~closing /\ ~onClose
  /\ onClose' = TRUE
  /\ \/ /\ onClosing' = TRUE /\ reading' = TRUE
        /\ UNCHANGED <<closing, uvClosing>>
     \/ Close
  /\ UNCHANGED <<open, deleted, queueVars, readVars, onStack, handed, wire>>

-----------------------------------------------------------------------------
(* Reading: Alloc, then StaticOnRead.                                      *)

\* Mutant of Parse: push_front for push_back.
ParsePushesFront(k) ==
  /\ received' = received + k
  /\ parserQueue' = [i \in 1 .. k |-> received + k + 1 - i] \o parserQueue

\* The parser appends k complete requests to its queue.
Parse(k) ==
  /\ received' = received + k
  /\ parserQueue' = parserQueue \o [i \in 1 .. k |-> received + i]

\* The peer ended its half: close, whatever is still being handled.
ReadEof ==
  /\ reading /\ AtLoop
  /\ buffer' = TRUE
  /\ Close
  /\ UNCHANGED <<lifeVars, queueVars, parserQueue, frame, received, onStack,
                 handed, wire>>

\* A read error, an empty read, or a parse error after k complete requests.
ReadFailure ==
  /\ reading /\ AtLoop
  /\ buffer' = FALSE
  /\ \E k \in 0 .. (MaxRequests - received) : Parse(k)
  /\ Close
  /\ UNCHANGED <<lifeVars, queueVars, frame, onStack, handed, wire>>

\* Data that completes k requests; OnRead then enters its NextRequest loop.
\* (Data that completes none leaves everything here as it was.)
ReadRequests ==
  /\ reading /\ AtLoop
  /\ buffer' = FALSE
  /\ \E k \in 1 .. (MaxRequests - received) : Parse(k)
  /\ frame' = "read"
  /\ UNCHANGED <<lifeVars, closeVars, queueVars, onStack, handed, wire>>

\* One iteration of the loop: a transaction for the next request goes to the
\* handler, whose call is then on the stack.
HandleRequest ==
  /\ frame # "loop" /\ parserQueue # <<>> /\ ~closing
  /\ parserQueue' = Tail(parserQueue)
  /\ handleQueue' = Append(handleQueue, Head(parserQueue))
  /\ pending' = pending + 1
  /\ handed' = handed + 1
  /\ frame' = "handler"
  /\ UNCHANGED <<lifeVars, closeVars, writeQueue, response, buffer, received,
                 onStack, wire>>

\* One iteration after the handler made the connection close: the transaction
\* is created and destroyed, and nobody answers it.
DropRequest ==
  /\ frame # "loop" /\ parserQueue # <<>> /\ closing
  /\ parserQueue' = Tail(parserQueue)
  /\ frame' = "read"
  /\ UNCHANGED <<lifeVars, closeVars, queueVars, buffer, received, onStack,
                 handed, wire>>

FinishRead ==
  /\ frame # "loop" /\ parserQueue = <<>>
  /\ frame' = "loop"
  /\ UNCHANGED <<lifeVars, closeVars, queueVars, buffer, parserQueue, received,
                 onStack, handed, wire>>

-----------------------------------------------------------------------------
(* Answering.                                                              *)

\* Mutant of PrepareWrite: a check of the handler's headers, where AppendHttpHeaders
\* has a TODO for it.
PrepareWriteVerifies(outcome) == outcome # "handled"

\* PrepareWrite of a response.  The one of its steps that has a result is
\* AppendHttpHeaders, which returns true whatever the headers are.
PrepareWrite(outcome) == TRUE

\* The write loop for the n ready transactions while the connection is up: uv accepts
\* the first k - 1 writes.  If the k-th fails at once, its completion runs in place and
\* closes the connection, and the loop drops the others; if the k-th is not prepared,
\* the connection is closed as well, and the loop is left with the others in the queue.
WriteResponses(n) ==
  \E k \in 1 .. n + 1 :
    LET refused == k <= n /\ ~PrepareWrite(response'[handleQueue[k]])
        taken   == IF refused THEN k ELSE n
    IN  /\ \A i \in 1 .. k - 1 : PrepareWrite(response'[handleQueue[i]])
        /\ handleQueue' = SubSeq(handleQueue, taken + 1, Len(handleQueue))
        /\ writeQueue' = writeQueue \o SubSeq(handleQueue, 1, k - 1)
        /\ wire' = wire \o Serialized(handleQueue, k - 1, response')
        /\ pending' = pending - (taken + 1 - k)
        /\ IF k <= n THEN Close ELSE UNCHANGED closeVars
        /\ UNCHANGED <<lifeVars, onStack>>

\* Mutant of DropResponses: the last one out does not run on_close_.
DropResponsesForgets(n) ==
  /\ handleQueue' = SubSeq(handleQueue, n + 1, Len(handleQueue))
  /\ pending' = pending - n
  /\ UNCHANGED <<lifeVars, closeVars, writeQueue, wire, onStack>>

\* The same loop once the connection is closing: the responses are dropped.  If
\* that leaves a closed handle and empty queues, on_close_ runs, and the last
\* transaction is destroyed only when the callback returns.
DropResponses(n) ==
  LET last == n > 0 /\ ~open /\ handleQueue' = <<>> /\ writeQueue = <<>>
  IN  /\ handleQueue' = SubSeq(handleQueue, n + 1, Len(handleQueue))
      /\ IF last
           THEN RunOnClose /\ onStack' = {handleQueue[n]} /\ pending' = pending - (n - 1)
           ELSE pending' = pending - n /\ UNCHANGED <<onClose, deleted, onStack>>
      /\ UNCHANGED <<open, closeVars, writeQueue, wire>>

\* The handler answers transaction t, with a response or with an error that
\* becomes a 500; every transaction at the front that is ready leaves.
OnTransactionHandleComplete(t, outcome) ==
  /\ InUserCode
  /\ \E i \in 1 .. Len(handleQueue) : handleQueue[i] = t
  /\ response[t] = NoResponse
  /\ response' = [response EXCEPT ![t] = outcome]
  /\ \E n \in 0 .. Len(handleQueue) :
       /\ IsReadyPrefix(handleQueue, n, response')
       /\ IF closing THEN DropResponses(n) ELSE WriteResponses(n)
  /\ UNCHANGED <<readVars, handed>>

\* uv finishes the write at position i of write_queue_.
OnTransactionWriteComplete(i, result) ==
  /\ AtLoop
  /\ writeQueue' = EraseAt(writeQueue, i)
  /\ LET last == closing /\ ~open /\ handleQueue = <<>> /\ writeQueue' = <<>>
     IN  IF last
           THEN RunOnClose /\ onStack' = {writeQueue[i]} /\ UNCHANGED pending
           ELSE pending' = pending - 1 /\ UNCHANGED <<onClose, deleted, onStack>>
  /\ IF ~closing /\ ~result THEN Close ELSE UNCHANGED closeVars
  /\ UNCHANGED <<open, handleQueue, response, readVars, handed, wire>>

\* The callback that ran on_close_ returns and destroys the transaction it
\* held, whose counter unit counts down.
ReturnFromCallback ==
  /\ onStack # {}
  /\ onStack' = {}
  /\ pending' = pending - 1
  /\ UNCHANGED <<lifeVars, closeVars, handleQueue, writeQueue, response,
                 readVars, handed, wire>>

-----------------------------------------------------------------------------
(* Closing.                                                                *)

\* The server shuts down: HttpServerCore::StaticOnClose closes the connection.
ServerClose ==
  /\ AtLoop /\ onClose
  /\ Close
  /\ UNCHANGED <<lifeVars, queueVars, readVars, onStack, handed, wire>>

\* Mutant of OnUvClose: only the writes are waited for.
OnUvCloseForgetsHandlers ==
  /\ AtLoop /\ uvClosing
  /\ uvClosing' = FALSE
  /\ open' = FALSE
  /\ IF writeQueue = <<>>
       THEN RunOnClose
       ELSE UNCHANGED <<onClose, deleted>>
  /\ UNCHANGED <<closing, onClosing, reading, queueVars, readVars, onStack,
                 handed, wire>>

\* StaticOnClose: uv has closed the handle.
OnUvClose ==
  /\ AtLoop /\ uvClosing
  /\ uvClosing' = FALSE
  /\ open' = FALSE
  /\ IF handleQueue = <<>> /\ writeQueue = <<>>
       THEN RunOnClose
       ELSE UNCHANGED <<onClose, deleted>>
  /\ UNCHANGED <<closing, onClosing, reading, queueVars, readVars, onStack,
                 handed, wire>>

-----------------------------------------------------------------------------

Read == ReadEof \/ ReadFailure \/ ReadRequests

ReadLoop == HandleRequest \/ DropRequest \/ FinishRead

HandlerAnswers ==
  \E t \in Requests, outcome \in Outcomes :
    OnTransactionHandleComplete(t, outcome)

WriteCompletes ==
  \E i \in 1 .. Len(writeQueue), result \in BOOLEAN :
    OnTransactionWriteComplete(i, result)

Next ==
  \/ InitSync
  \/ InitAsync
  \/ Read
  \/ ReadLoop
  \/ HandlerAnswers
  \/ WriteCompletes
  \/ ReturnFromCallback
  \/ ServerClose
  \/ OnUvClose

Spec == Init /\ [][Next]_vars

\* The thread keeps running, uv delivers the callbacks it owes, and the handler
\* answers each request it was given.  The peer and the server owe nothing.
Fairness ==
  /\ WF_vars(InitAsync)
  /\ WF_vars(ReadLoop)
  /\ WF_vars(ReturnFromCallback)
  /\ WF_vars(WriteCompletes)
  /\ WF_vars(OnUvClose)
  /\ \A t \in Requests :
       WF_vars(\E outcome \in Outcomes : OnTransactionHandleComplete(t, outcome))

FairSpec == Spec /\ Fairness

-----------------------------------------------------------------------------
(* Properties.                                                             *)

TypeOK ==
  /\ open \in BOOLEAN /\ reading \in BOOLEAN /\ closing \in BOOLEAN
  /\ onClosing \in BOOLEAN /\ onClose \in BOOLEAN /\ buffer \in BOOLEAN
  /\ parserQueue \in Seq(Requests)
  /\ handleQueue \in Seq(Requests)
  /\ writeQueue \in Seq(Requests)
  /\ response \in [Requests -> Outcomes \cup {NoResponse}]
  /\ pending \in Nat
  /\ deleted \in BOOLEAN
  /\ frame \in {"loop", "read", "handler"}
  /\ onStack \in SUBSET Requests
  /\ uvClosing \in BOOLEAN
  /\ received \in 0 .. MaxRequests
  /\ handed \in 0 .. MaxRequests
  /\ wire \in Seq(Response)

\* The response at place i on the wire is the handler's answer to the i-th
\* request, whatever order the handlers finished in and whatever failed.
ResponsesInRequestOrder ==
  \A i \in 1 .. Len(wire) :
    /\ wire[i].request = i
    /\ wire[i].response = response[i]
    /\ response[i] # NoResponse

\* No response waits behind the head of handle_queue_ once its turn has come:
\* whenever no callback is half way, the head has no response yet.
NoReadyResponseStranded ==
  handleQueue # <<>> => response[Head(handleQueue)] = NoResponse

\* The connection is deleted exactly when it is closing, its handle is closed
\* and both queues are empty, whichever of the three came last (or when its
\* InitSync failed): it is never forgotten, and never deleted early.
LastOneOutDeletes ==
  closing => (deleted <=> ~open /\ handleQueue = <<>> /\ writeQueue = <<>>)

\* Every callback bound to the raw connection pointer finds it alive: a deleted
\* connection owes nothing to uv, to a handler or to OnRead's own stack frame.
\* It includes the checks of ~HttpServerConnection.
CallbacksFindConnectionAlive ==
  deleted =>
    /\ ~open /\ ~reading /\ ~uvClosing /\ frame = "loop"
    /\ handleQueue = <<>> /\ writeQueue = <<>>
    /\ ~onClosing /\ ~onClose

\* The checks in Alloc (no buffer yet), OnRead (reading), Close (open, callbacks
\* not yet run) and StaticOnClose (open) hold whenever those may be entered.
AssertionsHold ==
  /\ reading => open /\ ~closing /\ ~buffer
  /\ onClose /\ ~closing => open /\ onClosing
  /\ uvClosing => open

\* The counter, which the server's own destruction waits for, is exactly the
\* number of live transactions, dropped and late ones included.
PendingCountsTransactions ==
  pending = Len(handleQueue) + Len(writeQueue) + Cardinality(onStack)

\* After on_closing_ nothing more is sent, even by handlers that finish late.
SilentOnceClosing == [][closing => UNCHANGED wire]_vars

\* A request given to the handler gets its response on the wire, unless the
\* connection closes first.
EveryRequestAnswered ==
  \A t \in Requests : t <= handed ~> t <= Len(wire) \/ closing

\* The promise of the connection, without its queues and callbacks.
Pipeline ==
  INSTANCE ResponsePipeline
    WITH phase    <- IF deleted THEN "gone"
                     ELSE IF closing THEN "closing" ELSE "up",
         accepted <- handed,
         answers  <- response,
         sent     <- wire

ImplementsPipeline == Pipeline!Spec

\* The elements of a list.
Elements(q) == {q[i] : i \in 1 .. Len(q)}

\* The promise of the connection to the server that owns it.
Contract ==
  INSTANCE ServerConnectionContract
    WITH Transactions <- Requests,
         phase        <- IF deleted THEN "gone"
                         ELSE IF closing THEN "closing"
                         ELSE IF onClose THEN "up" ELSE "new",
         live         <- Elements(handleQueue) \cup Elements(writeQueue) \cup onStack

\* HttpServerCore.tla composes the core with connections that keep this
\* contract, its fairness included.
ImplementsContract == Contract!FairSpec

-----------------------------------------------------------------------------
(* A claim of the sources that the code does not keep.                     *)

\* README.md: destroyed without leaking memory.  A deleted connection leaves no
\* parsed request behind in its parser, whose destructor frees none.
NoRequestLeaked == deleted => parserQueue = <<>>
=============================================================================
