--------------------------- MODULE HttpClientCore ---------------------------
(***************************************************************************)
(* The HTTP client: its shell (HttpClient, which the user holds), the core *)
(* (HttpClientCore, which outlives the shell until all its callbacks have  *)
(* come), and one connection group per endpoint, which resolves the        *)
(* endpoint's address and owns the connections to it.                      *)
(*                                                                         *)
(* A connection is any that keeps ClientConnectionContract, the contract   *)
(* HttpClientConnection.tla is checked to keep.  As in that module, user   *)
(* code runs in the middle of the client's own functions: the variable     *)
(* stack holds the callbacks and the loops of OnResolve that wait for one, *)
(* the running one last.                                                   *)
(***************************************************************************)
EXTENDS Integers, Sequences, FiniteSets

CONSTANTS
  Groups,           \* the endpoints (node and service names)
  Connections,      \* the connections that are ever made
  MaxRequests       \* how many requests the user ever issues (a bound)

ASSUME CoreAssumption ==
  /\ IsFiniteSet(Groups) /\ IsFiniteSet(Connections)
  /\ MaxRequests \in Nat

Requests == 1 .. MaxRequests

\* "user": in on_response of a transaction; "resolveFailed", "initFailed": in
\* the loops of a group's OnResolve that fail its waiting transactions.
Frames ==
  [at : {"user"}, of : Requests]
    \cup [at : {"resolveFailed", "initFailed"}, of : Groups]

VARIABLES
  shell,               \* shell_ is not null: the user still holds the client
  shellOnDestroy,      \* HttpClient::on_destroy_ is not null
  retries,             \* the user's on_response may issue requests while a group
                       \* still fails those that waited (never changes)
  onDestroy,           \* HttpClientCore::on_destroy_ is not null
  deleted,             \* the core has deleted itself
  notified,            \* how often the user's on_destroy has run
  resolveCount,        \* pending_resolve_counter_
  connectionCount,     \* pending_connection_counter_
  transactionCount,    \* pending_transaction_counter_
  waiting,             \* each group's wait_transactions_
  openConnections,     \* each group's open_connections_
  closingConnections,  \* each group's closing_connections_
  resolving,           \* how many getaddrinfo calls a group's resolve_req_ is in
  issued,              \* how many requests were issued
  stack,               \* the callbacks and loops that have not returned
  phase, connecting, live   \* the connections' side of their contract

endVars   == <<onDestroy, deleted, notified>>
userVars  == <<shell, shellOnDestroy, retries>>
connVars  == <<phase, connecting, live>>
listVars  == <<openConnections, closingConnections>>
countVars == <<resolveCount, connectionCount, transactionCount>>
vars == <<endVars, userVars, countVars, waiting, listVars, resolving, issued,
          stack, connVars>>

Contract(c) ==
  INSTANCE ClientConnectionContract
    WITH Transactions <- Requests, phase <- phase[c],
         connecting <- connecting[c], live <- live[c]

\* HttpClient::Create has given the shell its core and the user's on_destroy.
Init ==
  /\ shell = TRUE /\ shellOnDestroy = TRUE /\ retries \in BOOLEAN
  /\ onDestroy = FALSE /\ deleted = FALSE /\ notified = 0
  /\ resolveCount = 0 /\ connectionCount = 0 /\ transactionCount = 0
  /\ waiting = [g \in Groups |-> <<>>]
  /\ openConnections = [g \in Groups |-> <<>>]
  /\ closingConnections = [g \in Groups |-> {}]
  /\ resolving = [g \in Groups |-> 0]
  /\ issued = 0 /\ stack = <<>>
  /\ phase = [c \in Connections |-> "new"]
  /\ connecting = [c \in Connections |-> FALSE]
  /\ live = [c \in Connections |-> {}]

AtLoop == stack = <<>>

Running == stack[Len(stack)]

InUserCode == AtLoop \/ (~AtLoop /\ Running.at = "user")

Callers == SubSeq(stack, 1, Len(stack) - 1)

Elements(q) == {q[i] : i \in 1 .. Len(q)}

Push(at, of) == stack' = Append(stack, [at |-> at, of |-> of])

\* The transactions whose on_response has not returned.
InCallback == {f.of : f \in {f \in Elements(stack) : f.at = "user"}}

Update(f, c, v) == [f EXCEPT ![c] = v]

-----------------------------------------------------------------------------
(* The core's end.                                                         *)

\* Mutant of ConsiderDestroy: pending resolves are not waited for.
ConsiderDestroyUnresolved(passed) ==
  IF ~shell' /\ connectionCount' = 0 /\ transactionCount' = 0
    THEN /\ deleted' = TRUE /\ onDestroy' = FALSE
         /\ notified' = notified + (IF passed /\ ~deleted THEN 1 ELSE 0)
    ELSE onDestroy' = passed /\ UNCHANGED <<deleted, notified>>

\* ConsiderDestroy deletes the core and then runs the user's on_destroy.
\* OnShellDestroyed sets on_destroy_ to passed in the step that tests it.
ConsiderDestroy(passed) ==
  IF ~shell' /\ resolveCount' = 0 /\ connectionCount' = 0 /\ transactionCount' = 0
    THEN /\ deleted' = TRUE /\ onDestroy' = FALSE
         /\ notified' = notified + (IF passed THEN 1 ELSE 0)
    ELSE onDestroy' = passed /\ UNCHANGED <<deleted, notified>>

\* Mutant of CloseGroups: no connection is closed.
CloseGroupsForgets(ended) ==
  live' = ended /\ UNCHANGED <<listVars, phase>>

\* HttpClientConnectionGroup::Close of every group: none of the open
\* connections has a transaction, so each runs on_closing in place.  ended are
\* the transactions of the connections before that.
CloseGroups(ended) ==
  /\ live' = ended
  /\ phase' = [c \in Connections |->
       IF \E g \in Groups : c \in Elements(openConnections[g])
         THEN "closing" ELSE phase[c]]
  /\ openConnections' = [g \in Groups |-> <<>>]
  /\ closingConnections' = [g \in Groups |->
       closingConnections[g] \cup Elements(openConnections[g])]

\* Mutant of OnShellDestroyed: the connections are closed at once.
OnShellDestroyedClosesAtOnce ==
  /\ InUserCode
  /\ shell /\ shell' = FALSE /\ shellOnDestroy' = FALSE
  /\ UNCHANGED <<retries, countVars, waiting, resolving, issued, stack, connecting>>
  /\ CloseGroups(live)
  /\ ConsiderDestroy(shellOnDestroy)

\* ~HttpClient and OnShellDestroyed: the user lets go of the client.
OnShellDestroyed ==
  /\ InUserCode
  /\ shell /\ shell' = FALSE /\ shellOnDestroy' = FALSE
  /\ UNCHANGED <<retries, countVars, waiting, resolving, issued, stack, connecting>>
  /\ IF transactionCount = 0
       THEN CloseGroups(live)
       ELSE UNCHANGED <<listVars, phase, live>>
  /\ ConsiderDestroy(shellOnDestroy)

\* on_response returns and its transaction is destroyed, whose counter unit, if
\* it was the last of a client without a shell, closes the connections.
UserReturns ==
  /\ ~AtLoop /\ Running.at = "user"
  /\ transactionCount' = transactionCount - 1
  /\ LET ended == [c \in Connections |-> live[c] \ {Running.of}]
     IN  IF transactionCount' = 0 /\ ~shell
           THEN CloseGroups(ended)
           ELSE live' = ended /\ UNCHANGED <<listVars, phase>>
  /\ stack' = Callers
  /\ UNCHANGED <<userVars, resolveCount, connectionCount, waiting, resolving,
                 issued, connecting>>
  /\ IF transactionCount' = 0 THEN ConsiderDestroy(onDestroy) ELSE UNCHANGED endVars

-----------------------------------------------------------------------------
(* Requests.                                                               *)

\* The user issues a request, in the loop or in on_response.
NewRequest ==
  /\ InUserCode /\ shell /\ issued < MaxRequests
  /\ retries \/ \A f \in Elements(stack) : f.at = "user"
  /\ issued' = issued + 1
  /\ transactionCount' = transactionCount + 1
  /\ UNCHANGED <<userVars, endVars, connectionCount, listVars>>

\* A request without a usable URL fails at once.
AsyncProcessFails ==
  /\ NewRequest
  /\ Push("user", issued')
  /\ UNCHANGED <<resolveCount, waiting, resolving, connVars>>

\* The group's first open connection takes the request.
AsyncProcessConnected(g) ==
  /\ NewRequest
  /\ openConnections[g] # <<>>
  /\ LET c == Head(openConnections[g])
     IN  /\ live' = Update(live, c, live[c] \cup {issued'})
         /\ UNCHANGED <<phase, connecting>>
         /\ Contract(c)!Take(issued')
  /\ UNCHANGED <<resolveCount, waiting, resolving, stack>>

\* Without one it waits for the address.  The first to wait asks for it; when
\* getaddrinfo fails at once OnResolve runs in place.
AsyncProcessWaits(g) ==
  /\ NewRequest
  /\ openConnections[g] = <<>>
  /\ waiting' = Update(waiting, g, Append(waiting[g], issued'))
  /\ \/ waiting[g] # <<>> /\ UNCHANGED <<resolveCount, resolving, stack>>
     \/ /\ waiting[g] = <<>>
        /\ resolveCount' = resolveCount + 1
        /\ \/ /\ resolving' = Update(resolving, g, resolving[g] + 1)
              /\ UNCHANGED stack
           \/ Push("resolveFailed", g) /\ UNCHANGED resolving
  /\ UNCHANGED connVars

-----------------------------------------------------------------------------
(* Resolving.                                                              *)

\* OnResolve of a failed getaddrinfo starts to fail the waiting transactions.
OnResolveFailure(g) ==
  /\ AtLoop /\ resolving[g] > 0
  /\ resolving' = Update(resolving, g, resolving[g] - 1)
  /\ Push("resolveFailed", g)
  /\ UNCHANGED <<userVars, endVars, countVars, waiting, listVars, issued, connVars>>

\* Mutant of OnResolve: the resolve is not counted down.
OnResolveForgets(g, c) ==
  /\ AtLoop /\ resolving[g] > 0 /\ phase[c] = "new"
  /\ resolving' = Update(resolving, g, resolving[g] - 1)
  /\ connectionCount' = connectionCount + 1
  /\ waiting' = Update(waiting, g, <<>>)
  /\ openConnections' = Update(openConnections, g, Append(openConnections[g], c))
  /\ phase' = Update(phase, c, "up")
  /\ live' = Update(live, c, Elements(waiting[g]))
  /\ \E b \in BOOLEAN : connecting' = Update(connecting, c, b)
  /\ UNCHANGED <<userVars, endVars, resolveCount, transactionCount, closingConnections,
                 issued, stack>>

\* OnResolve of a found address makes a connection.  Its InitSync may fail, and
\* then the waiting transactions fail; else it takes them over.
OnResolve(g, c) ==
  /\ AtLoop /\ resolving[g] > 0 /\ phase[c] = "new"
  /\ resolving' = Update(resolving, g, resolving[g] - 1)
  /\ resolveCount' = resolveCount - 1
  /\ connectionCount' = connectionCount + 1
  /\ \/ /\ phase' = Update(phase, c, "gone")
        /\ UNCHANGED <<connecting, live>>
        /\ Contract(c)!Drop
        /\ Push("initFailed", g)
        /\ UNCHANGED <<waiting, openConnections>>
     \/ /\ phase' = Update(phase, c, "up")
        /\ live' = Update(live, c, Elements(waiting[g]))
        /\ \E b \in BOOLEAN : connecting' = Update(connecting, c, b)
        /\ Contract(c)!Start(Elements(waiting[g]))
        /\ waiting' = Update(waiting, g, <<>>)
        /\ openConnections' = Update(openConnections, g, Append(openConnections[g], c))
        /\ UNCHANGED stack
  /\ UNCHANGED <<userVars, endVars, transactionCount, closingConnections, issued>>

\* One iteration of the loops in OnResolve that fail the waiting transactions.
FailWaiting ==
  /\ ~AtLoop /\ Running.at # "user"
  /\ waiting[Running.of] # <<>>
  /\ waiting' = Update(waiting, Running.of, Tail(waiting[Running.of]))
  /\ Push("user", Head(waiting[Running.of]))
  /\ UNCHANGED <<userVars, endVars, countVars, listVars, resolving, issued, connVars>>

\* Mutant of FinishFailing: an "if" where OnResolve has a "while".
FinishFailingEarly ==
  /\ ~AtLoop /\ Running.at # "user"
  /\ \/ /\ Running.at = "resolveFailed"
        /\ resolveCount' = resolveCount - 1
        /\ UNCHANGED connectionCount
     \/ /\ Running.at = "initFailed"
        /\ connectionCount' = connectionCount - 1
        /\ UNCHANGED resolveCount
  /\ stack' = Callers
  /\ UNCHANGED <<userVars, transactionCount, waiting, listVars, resolving,
                 issued, connVars>>
  /\ ConsiderDestroy(onDestroy)

\* After the loop: the resolve is counted down, or the connection that failed
\* to initialize is destroyed.
FinishFailing ==
  /\ ~AtLoop /\ Running.at # "user"
  /\ waiting[Running.of] = <<>>
  /\ \/ /\ Running.at = "resolveFailed"
        /\ resolveCount' = resolveCount - 1
        /\ UNCHANGED connectionCount
     \/ /\ Running.at = "initFailed"
        /\ connectionCount' = connectionCount - 1
        /\ UNCHANGED resolveCount
  /\ stack' = Callers
  /\ UNCHANGED <<userVars, transactionCount, waiting, listVars, resolving,
                 issued, connVars>>
  /\ ConsiderDestroy(onDestroy)

-----------------------------------------------------------------------------
(* The connections.                                                        *)

OnConnect(c) ==
  /\ AtLoop
  /\ connecting' = Update(connecting, c, FALSE)
  /\ UNCHANGED <<phase, live>>
  /\ Contract(c)!Connected
  /\ UNCHANGED <<userVars, endVars, countVars, waiting, listVars, resolving,
                 issued, stack>>

\* A connection calls on_response, from an event or from a call of AsyncProcess.
ConnectionAnswers(c) ==
  \E t \in live[c] \ InCallback :
    /\ InUserCode
    /\ Contract(c)!MayEnd(t)
    /\ Push("user", t)
    /\ UNCHANGED <<userVars, endVars, countVars, waiting, listVars, resolving,
                   issued, connVars>>

\* OnConnectionClosing moves the connection between the lists.
OnConnectionClosing(g, c) ==
  /\ InUserCode
  /\ phase' = Update(phase, c, "closing")
  /\ UNCHANGED <<connecting, live>>
  /\ Contract(c)!StartClosing
  /\ \E i \in 1 .. Len(openConnections[g]) :
       /\ openConnections[g][i] = c
       /\ openConnections' = Update(openConnections, g,
            SubSeq(openConnections[g], 1, i - 1)
              \o SubSeq(openConnections[g], i + 1, Len(openConnections[g])))
  /\ closingConnections' = Update(closingConnections, g, closingConnections[g] \cup {c})
  /\ UNCHANGED <<userVars, endVars, countVars, waiting, resolving, issued, stack>>

\* OnConnectionClose erases and deletes the connection, which is counted down.
OnConnectionClose(g, c) ==
  /\ AtLoop
  /\ c \in closingConnections[g]
  /\ phase' = Update(phase, c, "gone")
  /\ UNCHANGED <<connecting, live>>
  /\ Contract(c)!Go
  /\ closingConnections' = Update(closingConnections, g, closingConnections[g] \ {c})
  /\ connectionCount' = connectionCount - 1
  /\ UNCHANGED <<userVars, resolveCount, transactionCount, waiting,
                 openConnections, resolving, issued, stack>>
  /\ IF connectionCount' = 0 THEN ConsiderDestroy(onDestroy) ELSE UNCHANGED endVars

-----------------------------------------------------------------------------

Resolved(g) == OnResolveFailure(g) \/ \E c \in Connections : OnResolve(g, c)

Runs == FailWaiting \/ FinishFailing \/ UserReturns

Next ==
  \/ OnShellDestroyed
  \/ AsyncProcessFails
  \/ \E g \in Groups : AsyncProcessConnected(g)
  \/ \E g \in Groups : AsyncProcessWaits(g)
  \/ \E g \in Groups : Resolved(g)
  \/ Runs
  \/ \E c \in Connections : OnConnect(c)
  \/ \E c \in Connections : ConnectionAnswers(c)
  \/ \E g \in Groups, c \in Connections : OnConnectionClosing(g, c)
  \/ \E g \in Groups, c \in Connections : OnConnectionClose(g, c)

Spec == Init /\ [][Next]_vars

\* Functions and callbacks return, uv delivers what it owes, and a connection
\* that is closing ends its transactions and closes, as HttpClientConnection.tla
\* shows.  The peer owes no answer and the user need not let go.
Fairness ==
  /\ WF_vars(Runs)
  /\ \A g \in Groups : WF_vars(Resolved(g))
  /\ \A c \in Connections :
       /\ WF_vars(OnConnect(c))
       /\ WF_vars(phase[c] = "closing" /\ ConnectionAnswers(c))
       /\ WF_vars(\E g \in Groups : OnConnectionClose(g, c))

FairSpec == Spec /\ Fairness

-----------------------------------------------------------------------------
(* Properties.                                                             *)

TypeOK ==
  /\ shell \in BOOLEAN /\ shellOnDestroy \in BOOLEAN /\ retries \in BOOLEAN
  /\ onDestroy \in BOOLEAN /\ deleted \in BOOLEAN /\ notified \in Nat
  /\ resolveCount \in Nat /\ connectionCount \in Nat /\ transactionCount \in Nat
  /\ waiting \in [Groups -> Seq(Requests)]
  /\ openConnections \in [Groups -> Seq(Connections)]
  /\ closingConnections \in [Groups -> SUBSET Connections]
  /\ resolving \in [Groups -> Nat]
  /\ issued \in 0 .. MaxRequests
  /\ stack \in Seq(Frames)
  /\ phase \in [Connections -> {"new", "up", "closing", "gone"}]
  /\ connecting \in [Connections -> BOOLEAN]
  /\ live \in [Connections -> SUBSET Requests]

\* Where a group lists its connections.
Listed == UNION {Elements(openConnections[g]) \cup closingConnections[g] : g \in Groups}

\* The transactions that are alive.
Transactions ==
  InCallback \cup (UNION {live[c] : c \in Connections})
    \cup (UNION {Elements(waiting[g]) : g \in Groups})

FramesAt(at) == {i \in 1 .. Len(stack) : stack[i].at = at}

\* Pairs that stand for the getaddrinfo calls in progress.
ResolveUnits == {u \in Groups \X (1 .. MaxRequests) : u[2] <= resolving[u[1]]}

\* The three counters ConsiderDestroy tests are exact, and all has its type.
CountersExact ==
  /\ TypeOK
  /\ transactionCount = Cardinality(Transactions)
  /\ connectionCount = Cardinality(Listed) + Cardinality(FramesAt("initFailed"))
  /\ resolveCount = Cardinality(ResolveUnits) + Cardinality(FramesAt("resolveFailed"))

\* The core is deleted exactly when no caller is left: no shell, no resolve, no
\* connection, no transaction and no function of a group on the stack.
DeletedWhenUnused ==
  deleted <=>
    /\ ~shell /\ AtLoop /\ Transactions = {}
    /\ \A g \in Groups : resolving[g] = 0
    /\ \A c \in Connections : phase[c] \in {"new", "gone"}

\* No transaction waits for an address that nobody is asking for, whatever the user
\* does.  A group's one resolve_req_ is never in two getaddrinfo calls, if no user
\* retries in the loops of OnResolve: a retry there starts a call whose request the
\* loop then fails, so that the next retry starts a second one.
WaitersAreServed ==
  \A g \in Groups :
    /\ waiting[g] # <<>> =>
         resolving[g] > 0 \/ \E f \in Elements(stack) : f.at # "user" /\ f.of = g
    /\ ~retries => resolving[g] <= 1

\* OnConnect finds its callbacks: a connection is never closed under a connect
\* that is still owed.
ConnectFindsCallbacks == \A c \in Connections : connecting[c] => phase[c] = "up"

\* So it is for users that do not retry in the loops of OnResolve.
PatientConnects == ~retries => ConnectFindsCallbacks

\* Once a user that does not retry there has let go and every request is over, the
\* client ends, and tells the user so once, if it was asked to.
ReleasedEnds ==
  \A asked \in BOOLEAN :
    ~retries /\ ~shell /\ transactionCount = 0 /\ asked = (onDestroy \/ notified > 0)
      ~> deleted /\ notified = IF asked THEN 1 ELSE 0
=============================================================================
