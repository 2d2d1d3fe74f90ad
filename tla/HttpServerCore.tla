--------------------------- MODULE HttpServerCore ---------------------------
(***************************************************************************)
(* The server: its shell (HttpServer, which the user holds), the core      *)
(* (HttpServerCore, which outlives the shell until all its callbacks have  *)
(* come), and the connections the core accepts, deletes and counts.        *)
(*                                                                         *)
(* A connection is any that keeps ServerConnectionContract, the contract   *)
(* HttpServerConnection.tla is checked to keep.  Its callbacks into the    *)
(* core, on_closing and on_close, run in the same step as the transition   *)
(* that makes them, and so do the counters' on_zero callbacks.             *)
(***************************************************************************)
EXTENDS Integers, FiniteSets

CONSTANTS Connections,   \* the connections that are ever accepted
          Transactions   \* the names of one connection's transactions

ASSUME CoreAssumption == IsFiniteSet(Connections) /\ IsFiniteSet(Transactions)

VARIABLES
  shell,               \* shell_ is not null: the user still holds the server
  shellOnDestroy,      \* HttpServer::on_destroy_ is not null
  open,                \* open_: the listen handle is initialized
  onDestroy,           \* HttpServerCore::on_destroy_ is not null
  openConnections,     \* open_connections_
  closingConnections,  \* closing_connections_
  connectionCount,     \* pending_connection_counter_
  transactionCount,    \* pending_transaction_counter_
  deleted,             \* the core has deleted itself
  notified,            \* how often the user's on_destroy has run
  listening,           \* uv listens and may report a connection
  listenClosing,       \* uv is closing the listen handle
  phase, live          \* the connections' side of their contract

shellVars == <<shell, shellOnDestroy>>
listVars  == <<openConnections, closingConnections>>
countVars == <<connectionCount, transactionCount>>
uvVars    == <<listening, listenClosing>>
endVars   == <<onDestroy, deleted, notified>>
connVars  == <<phase, live>>
vars == <<shellVars, open, listVars, countVars, uvVars, endVars, connVars>>

Contract(c) ==
  INSTANCE ServerConnectionContract WITH phase <- phase[c], live <- live[c]

Init ==
  /\ shell = TRUE /\ shellOnDestroy = FALSE /\ open = FALSE
  /\ onDestroy = FALSE /\ deleted = FALSE /\ notified = 0
  /\ openConnections = {} /\ closingConnections = {}
  /\ connectionCount = 0 /\ transactionCount = 0
  /\ listening = FALSE /\ listenClosing = FALSE
  /\ phase = [c \in Connections |-> "new"]
  /\ live = [c \in Connections |-> {}]

\* The thread is in the event loop, or in user code called from it: it is not
\* inside a last callback of a connection that is already deleted.
AtLoop == \A c \in Connections : phase[c] = "gone" => live[c] = {}

-----------------------------------------------------------------------------
(* The core's end.                                                         *)

\* The test of ConsiderDestroy, on the values a step leaves.
Unused ==
  ~shell' /\ ~open' /\ connectionCount' = 0 /\ transactionCount' = 0

\* Mutant of ConsiderDestroy: on_destroy_ is not kept for later.
ConsiderDestroyForgets(passed) ==
  IF Unused
    THEN /\ deleted' = TRUE /\ onDestroy' = FALSE
         /\ notified' = notified + (IF passed THEN 1 ELSE 0)
    ELSE UNCHANGED endVars

\* ConsiderDestroy deletes the core and then runs the user's on_destroy.
\* OnShellDestroyed sets on_destroy_ to pass in the step that tests it.
ConsiderDestroy(passed) ==
  IF Unused
    THEN /\ deleted' = TRUE /\ onDestroy' = FALSE
         /\ notified' = notified + (IF passed THEN 1 ELSE 0)
    ELSE /\ onDestroy' = passed
         /\ UNCHANGED <<deleted, notified>>

\* Mutant of ConsiderDestroyOnZero: the transaction counter has no on_zero.
ConsiderDestroyOnLastConnection ==
  IF connectionCount' < connectionCount /\ connectionCount' = 0
    THEN ConsiderDestroy(onDestroy)
    ELSE UNCHANGED endVars

\* The on_zero callbacks of the two counters, in a step that counts down.
ConsiderDestroyOnZero ==
  IF \/ connectionCount' < connectionCount /\ connectionCount' = 0
     \/ transactionCount' < transactionCount /\ transactionCount' = 0
    THEN ConsiderDestroy(onDestroy)
    ELSE UNCHANGED endVars

-----------------------------------------------------------------------------
(* The shell.                                                              *)

\* HttpServer::InitAsync.  tcp_init may fail, or bind or listen after it; the
\* user keeps the shell either way.
InitAsync ==
  /\ AtLoop
  /\ shell /\ ~shellOnDestroy
  /\ shellOnDestroy' = TRUE
  /\ \/ UNCHANGED <<open, listening>>
     \/ open' = TRUE /\ UNCHANGED listening
     \/ open' = TRUE /\ listening' = TRUE
  /\ UNCHANGED <<shell, listVars, countVars, listenClosing, endVars, connVars>>

\* ~HttpServer and OnShellDestroyed: the user lets go of the server.
OnShellDestroyed ==
  /\ AtLoop
  /\ shell
  /\ shell' = FALSE /\ shellOnDestroy' = FALSE
  /\ listenClosing' = open
  /\ listening' = FALSE
  /\ UNCHANGED <<open, listVars, countVars, connVars>>
  /\ ConsiderDestroy(shellOnDestroy)

-----------------------------------------------------------------------------
(* The connections.                                                        *)

\* Mutant of OnConnectionClosing: the connection is erased and not pushed.
OnConnectionClosingErases(closed) ==
  /\ openConnections' = openConnections \ closed
  /\ UNCHANGED closingConnections

\* OnConnectionClosing moves a connection between the lists.
OnConnectionClosing(closed) ==
  /\ openConnections' = openConnections \ closed
  /\ closingConnections' = closingConnections \cup closed

\* OnConnected: a connection is created and counted.  Its InitSync may fail,
\* and then it is destroyed at once (its on_zero does nothing: uv listens only
\* while there is a shell); its InitAsync may fail and close it.
OnConnected(c) ==
  /\ AtLoop
  /\ listening /\ phase[c] = "new"
  /\ \E p \in {"up", "closing", "gone"} :
       /\ phase' = [phase EXCEPT ![c] = p]
       /\ live' = live
       /\ Contract(c)!Start
       /\ openConnections' = openConnections \cup (IF p = "up" THEN {c} ELSE {})
       /\ closingConnections' =
            closingConnections \cup (IF p = "closing" THEN {c} ELSE {})
       /\ connectionCount' = connectionCount + (IF p = "gone" THEN 0 ELSE 1)
  /\ UNCHANGED <<shellVars, open, transactionCount, uvVars, endVars>>

\* A transaction of c is created and counted.
TransactionBegins(c) ==
  \E t \in Transactions :
    /\ AtLoop
    /\ live' = [live EXCEPT ![c] = @ \cup {t}]
    /\ phase' = phase
    /\ Contract(c)!Begin(t)
    /\ transactionCount' = transactionCount + 1
    /\ UNCHANGED <<shellVars, open, listVars, connectionCount, uvVars, endVars>>

\* Mutant of TransactionsEnd: only one transaction is counted down.
TransactionsEndOnce(c, left) ==
  /\ live' = [live EXCEPT ![c] = left]
  /\ transactionCount' = transactionCount - (IF live[c] = left THEN 0 ELSE 1)

\* The transactions of c outside left end and are counted down.
TransactionsEnd(c, left) ==
  /\ live' = [live EXCEPT ![c] = left]
  /\ transactionCount' = transactionCount - Cardinality(live[c] \ left)

\* Transactions of c end, and c may run on_closing.
ConnectionProgresses(c) ==
  \E left \in SUBSET live[c], p \in {phase[c], "closing"} :
    /\ AtLoop
    /\ phase' = [phase EXCEPT ![c] = p]
    /\ TransactionsEnd(c, left)
    /\ Contract(c)!Progress
    /\ IF phase[c] = "up" /\ p = "closing"
         THEN OnConnectionClosing({c})
         ELSE UNCHANGED listVars
    /\ UNCHANGED <<shellVars, open, connectionCount, uvVars>>
    /\ ConsiderDestroyOnZero

\* c runs on_close: OnConnectionClose erases it from its list and deletes it.
OnConnectionClose(c) ==
  \E left \in SUBSET live[c] :
    /\ AtLoop
    /\ phase' = [phase EXCEPT ![c] = "gone"]
    /\ TransactionsEnd(c, left)
    /\ Contract(c)!Go
    /\ closingConnections' = closingConnections \ {c}
    /\ connectionCount' = connectionCount - 1
    /\ UNCHANGED <<shellVars, open, openConnections, uvVars>>
    /\ ConsiderDestroyOnZero

\* The transaction that c's last callback still held ends after c itself.
LastTransactionEnds(c) ==
  /\ phase' = phase
  /\ TransactionsEnd(c, {})
  /\ Contract(c)!Return
  /\ UNCHANGED <<shellVars, open, listVars, connectionCount, uvVars>>
  /\ ConsiderDestroyOnZero

\* Mutant of StaticOnClose: the open connections are left open.
StaticOnCloseLeavesConnections ==
  /\ listenClosing
  /\ listenClosing' = FALSE
  /\ open' = FALSE
  /\ UNCHANGED <<shellVars, listVars, countVars, listening, connVars>>
  /\ ConsiderDestroy(onDestroy)

\* StaticOnClose: uv has closed the listen handle; every open connection is
\* closed, which runs its on_closing in place.
StaticOnClose ==
  /\ AtLoop
  /\ listenClosing
  /\ listenClosing' = FALSE
  /\ open' = FALSE
  /\ phase' = [c \in Connections |->
                 IF c \in openConnections THEN "closing" ELSE phase[c]]
  /\ OnConnectionClosing(openConnections)
  /\ UNCHANGED <<shellVars, countVars, listening, live>>
  /\ ConsiderDestroy(onDestroy)

-----------------------------------------------------------------------------

Next ==
  \/ InitAsync
  \/ OnShellDestroyed
  \/ \E c \in Connections : OnConnected(c)
  \/ \E c \in Connections : TransactionBegins(c)
  \/ \E c \in Connections : ConnectionProgresses(c)
  \/ \E c \in Connections : OnConnectionClose(c)
  \/ \E c \in Connections : LastTransactionEnds(c)
  \/ StaticOnClose

Spec == Init /\ [][Next]_vars

\* uv delivers its callbacks and every connection keeps its contract's promise
\* to finish closing.  The user need not let go of the server, and no peer need
\* connect or leave.
Fairness ==
  /\ WF_vars(StaticOnClose)
  /\ \A c \in Connections :
       WF_vars(OnConnectionClose(c)) /\ WF_vars(LastTransactionEnds(c))

FairSpec == Spec /\ Fairness

-----------------------------------------------------------------------------
(* Properties.                                                             *)

TypeOK ==
  /\ shell \in BOOLEAN /\ shellOnDestroy \in BOOLEAN /\ open \in BOOLEAN
  /\ onDestroy \in BOOLEAN /\ deleted \in BOOLEAN /\ notified \in Nat
  /\ openConnections \in SUBSET Connections
  /\ closingConnections \in SUBSET Connections
  /\ connectionCount \in Nat /\ transactionCount \in Nat
  /\ listening \in BOOLEAN /\ listenClosing \in BOOLEAN
  /\ phase \in [Connections -> {"new", "up", "closing", "gone"}]
  /\ live \in [Connections -> SUBSET Transactions]

\* All counter units, of every connection and transaction that is alive.
Units == {u \in Connections \X Transactions : u[2] \in live[u[1]]}

\* The two counters are exact: ConsiderDestroy tests nothing else.
CountersExact ==
  /\ connectionCount = Cardinality(openConnections \cup closingConnections)
  /\ transactionCount = Cardinality(Units)

\* A connection is in the list its callbacks look for it in, and only there:
\* the checks that std::find succeeds hold, and no deleted one is listed.
ConnectionsInTheirLists ==
  /\ openConnections = {c \in Connections : phase[c] = "up"}
  /\ closingConnections = {c \in Connections : phase[c] = "closing"}

\* Nobody who could still call it.
NoCaller ==
  /\ ~shell /\ ~listening /\ ~listenClosing
  /\ \A c \in Connections : phase[c] \in {"new", "gone"} /\ live[c] = {}

\* The core deletes itself exactly when its last caller is gone, be that the
\* shell, the listen handle, a connection or a transaction that outlives its
\* connection: never earlier, and never not at all.
DeletedWhenUnused == deleted <=> NoCaller

\* Somebody has the user's on_destroy, or it has run, once.
Promised ==
  \/ shellOnDestroy /\ shell /\ ~onDestroy /\ notified = 0
  \/ onDestroy /\ ~shell /\ ~deleted /\ ~shellOnDestroy /\ notified = 0
  \/ notified = 1 /\ deleted /\ ~onDestroy /\ ~shellOnDestroy

\* The on_destroy the user passed to InitAsync is handed from the shell to the
\* core and runs once, when the core is deleted: it is never lost or repeated.
OnDestroyNeverLost ==
  [][/\ (~shellOnDestroy /\ shellOnDestroy') => Promised'
     /\ Promised => Promised']_vars

\* Once the user lets go, the server ends, with any number of connections open.
ShellGoneEndsInDeletion == ~shell ~> deleted
=============================================================================
