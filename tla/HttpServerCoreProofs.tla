------------------------ MODULE HttpServerCoreProofs ------------------------
(***************************************************************************)
(* The safety of HttpServerCore for any number of connections and of       *)
(* transactions.  The inductive invariant says that the counters count,    *)
(* which flags of the shell and the handle go together, and that the core  *)
(* is deleted exactly if what ConsiderDestroy tests is at an end.          *)
(***************************************************************************)
EXTENDS HttpServerCore, FiniteSetTheorems, TLAPS

-----------------------------------------------------------------------------
(* The inductive invariant.                                                *)

\* The flags: uv has the listen handle while it is open, and the user's on_destroy
\* has not run while there is a shell.
LifeInv ==
  /\ listening => shell /\ open
  /\ listenClosing <=> open /\ ~shell
  /\ shellOnDestroy => shell
  /\ shell => ~onDestroy /\ notified = 0

\* The core is deleted as soon as ConsiderDestroy would do it.
EndInv ==
  deleted <=> ~shell /\ ~open /\ connectionCount = 0 /\ transactionCount = 0

IInv == TypeOK /\ LifeInv /\ EndInv /\ CountersExact /\ ConnectionsInTheirLists

-----------------------------------------------------------------------------
(* Counting.                                                               *)

\* All sets that are counted are finite.
LEMMA Finite ==
  ASSUME TypeOK
  PROVE  /\ IsFiniteSet(openConnections) /\ IsFiniteSet(closingConnections)
         /\ IsFiniteSet(openConnections \cup closingConnections)
         /\ IsFiniteSet(Units)
         /\ \A c \in Connections : \A s \in SUBSET live[c] : IsFiniteSet(s)
<1>1. IsFiniteSet(Connections) /\ IsFiniteSet(Transactions)
  BY CoreAssumption
<1>2. IsFiniteSet(Connections \X Transactions)
  BY <1>1, FS_Product
<1>3. Units \in SUBSET (Connections \X Transactions)
  BY DEF Units
<1>4. \A c \in Connections : live[c] \in SUBSET Transactions
  BY DEF TypeOK
<1>5. openConnections \cup closingConnections \in SUBSET Connections
  BY DEF TypeOK
<1>6. QED
  BY <1>1, <1>2, <1>3, <1>4, <1>5, FS_Subset DEF TypeOK

\* The units of one connection's transactions are as many as these.
LEMMA UnitsOfOne ==
  ASSUME NEW c, NEW s, IsFiniteSet(s)
  PROVE  IsFiniteSet({c} \X s) /\ Cardinality({c} \X s) = Cardinality(s)
<1>1. IsFiniteSet({c}) /\ Cardinality({c}) = 1
  BY FS_Singleton
<1>2. /\ IsFiniteSet({c} \X s)
      /\ Cardinality({c} \X s) = Cardinality({c}) * Cardinality(s)
  BY <1>1, FS_Product
<1>3. Cardinality(s) \in Nat
  BY FS_CardinalityType
<1>4. QED
  BY <1>1, <1>2, <1>3

\* When transactions of c end, the counter goes on counting.
LEMMA TransactionsEndCounts ==
  ASSUME TypeOK, CountersExact, NEW c \in Connections, NEW left \in SUBSET live[c],
         TransactionsEnd(c, left)
  PROVE  /\ live' \in [Connections -> SUBSET Transactions]
         /\ transactionCount' \in Nat
         /\ transactionCount' <= transactionCount
         /\ transactionCount' = Cardinality(Units)'
<1> DEFINE gone == {c} \X (live[c] \ left)
<1>1. live[c] \in SUBSET Transactions
  BY DEF TypeOK
<1>2. live' \in [Connections -> SUBSET Transactions]
  BY <1>1 DEF TypeOK, TransactionsEnd
<1>3. Units' = Units \ gone /\ gone \subseteq Units
  BY <1>1 DEF Units, TypeOK, TransactionsEnd
<1>4. IsFiniteSet(Units) /\ IsFiniteSet(live[c] \ left)
  BY Finite
<1>5. IsFiniteSet(gone) /\ Cardinality(gone) = Cardinality(live[c] \ left)
  BY <1>4, UnitsOfOne
<1> HIDE DEF gone
<1>6. IsFiniteSet(Units \ gone) /\ Cardinality(Units \ gone) = Cardinality(Units) - Cardinality(gone)
  <2>1. Units \cap gone = gone
    BY <1>3
  <2>2. /\ IsFiniteSet(Units \ gone)
        /\ Cardinality(Units \ gone) = Cardinality(Units) - Cardinality(Units \cap gone)
    BY <1>4, FS_Difference, Zenon
  <2>3. QED
    BY <2>1, <2>2
<1>7. /\ Cardinality(Units) \in Nat /\ Cardinality(gone) \in Nat
      /\ Cardinality(Units \ gone) \in Nat
  BY <1>4, <1>5, <1>6, FS_CardinalityType
<1>8. transactionCount' = Cardinality(Units) - Cardinality(gone)
  BY <1>5 DEF TransactionsEnd, CountersExact
<1>9. QED
  BY <1>2, <1>3, <1>6, <1>7, <1>8 DEF CountersExact

\* A counter that counts down to zero calls ConsiderDestroy, which then deletes the core
\* if nothing else is left.
LEMMA CountingDown ==
  ASSUME TypeOK, LifeInv, EndInv, UNCHANGED <<shellVars, open, uvVars>>,
         connectionCount' \in Nat, connectionCount' <= connectionCount,
         transactionCount' \in Nat, transactionCount' <= transactionCount,
         ConsiderDestroyOnZero
  PROVE  /\ LifeInv' /\ EndInv'
         /\ onDestroy' \in BOOLEAN /\ deleted' \in BOOLEAN /\ notified' \in Nat
<1>1. CASE UNCHANGED endVars
  <2>1. connectionCount' = 0 /\ transactionCount' = 0 /\ ~shell /\ ~open => deleted'
    BY <1>1 DEF TypeOK, EndInv, ConsiderDestroyOnZero, ConsiderDestroy, Unused, endVars, shellVars
  <2>2. QED
    BY <1>1, <2>1 DEF TypeOK, LifeInv, EndInv, endVars, shellVars, uvVars
<1>2. CASE ConsiderDestroy(onDestroy)
  <2>1. CASE Unused
    <3>1. deleted' = TRUE /\ onDestroy' = FALSE /\ notified' \in Nat /\ ~shell'
      BY <1>2, <2>1 DEF TypeOK, ConsiderDestroy, Unused
    <3>2. EndInv'
      BY <2>1, <3>1 DEF EndInv, Unused
    <3>3. QED
      BY <3>1, <3>2 DEF LifeInv, shellVars, uvVars
  <2>2. CASE ~Unused
    <3>1. deleted' = deleted /\ onDestroy' = onDestroy /\ notified' = notified
      BY <1>2, <2>2 DEF ConsiderDestroy
    <3>2. EndInv'
      BY <2>2, <3>1 DEF TypeOK, EndInv, Unused, shellVars
    <3>3. QED
      BY <3>1, <3>2 DEF TypeOK, LifeInv, shellVars, uvVars
  <2>3. QED
    BY <2>1, <2>2
<1>3. QED
  BY <1>1, <1>2 DEF ConsiderDestroyOnZero

-----------------------------------------------------------------------------
(* Every step preserves the invariant.                                     *)

\* A server that was just constructed satisfies it.
LEMMA InitInvariant == Init => IInv
<1> SUFFICES ASSUME Init PROVE IInv
  OBVIOUS
<1>1. Units = {}
  BY DEF Init, Units
<1>2. Cardinality({}) = 0
  BY FS_EmptySet
<1>3. TypeOK
  BY DEF Init, TypeOK
<1>4. LifeInv /\ EndInv
  BY DEF Init, LifeInv, EndInv
<1>5. CountersExact /\ ConnectionsInTheirLists
  BY <1>1, <1>2 DEF Init, CountersExact, ConnectionsInTheirLists
<1>6. QED
  BY <1>3, <1>4, <1>5 DEF IInv

\* What leaves the lists, the counters and the connections alone leaves them exact.
LEMMA Untouched ==
  ASSUME IInv, UNCHANGED <<listVars, countVars, connVars>>
  PROVE  CountersExact' /\ ConnectionsInTheirLists'
BY DEF IInv, CountersExact, ConnectionsInTheirLists, Units, listVars, countVars, connVars

LEMMA InitAsyncStep ==
  ASSUME IInv, InitAsync
  PROVE  IInv'
<1>1. TypeOK'
  BY DEF IInv, TypeOK, InitAsync, listVars, countVars, endVars, connVars
<1>2. LifeInv' /\ EndInv'
  BY DEF IInv, TypeOK, LifeInv, EndInv, InitAsync, countVars, endVars
<1>3. CountersExact' /\ ConnectionsInTheirLists'
  BY Untouched DEF InitAsync
<1>4. QED
  BY <1>1, <1>2, <1>3 DEF IInv

LEMMA ShellStep ==
  ASSUME IInv, OnShellDestroyed
  PROVE  IInv'
<1>1. /\ shell /\ ~shell' /\ ~shellOnDestroy' /\ ~deleted /\ notified = 0
      /\ open' = open /\ listenClosing' = open /\ ~listening'
      /\ UNCHANGED <<listVars, countVars, connVars>>
  BY DEF IInv, LifeInv, EndInv, OnShellDestroyed
<1>2. CountersExact' /\ ConnectionsInTheirLists'
  BY <1>1, Untouched
<1>3. CASE Unused
  <2>1. deleted' = TRUE /\ onDestroy' = FALSE /\ notified' \in Nat
    BY <1>1, <1>3 DEF IInv, TypeOK, OnShellDestroyed, ConsiderDestroy
  <2>2. EndInv' /\ LifeInv'
    BY <1>1, <1>3, <2>1 DEF IInv, TypeOK, EndInv, LifeInv, Unused
  <2>3. TypeOK'
    BY <1>1, <2>1 DEF IInv, TypeOK, OnShellDestroyed, listVars, countVars, connVars
  <2>4. QED
    BY <1>2, <2>2, <2>3 DEF IInv
<1>4. CASE ~Unused
  <2>1. deleted' = deleted /\ onDestroy' = shellOnDestroy /\ notified' = notified
    BY <1>4 DEF OnShellDestroyed, ConsiderDestroy
  <2>2. EndInv'
    BY <1>1, <1>4, <2>1 DEF EndInv, Unused
  <2>3. LifeInv'
    BY <1>1, <2>1 DEF LifeInv
  <2>4. TypeOK'
    BY <1>1, <2>1 DEF IInv, TypeOK, OnShellDestroyed, listVars, countVars, connVars
  <2>5. QED
    BY <1>2, <2>2, <2>3, <2>4 DEF IInv
<1>5. QED
  BY <1>3, <1>4

LEMMA ConnectedStep ==
  ASSUME IInv, NEW c \in Connections, OnConnected(c)
  PROVE  IInv'
<1> PICK p \in {"up", "closing", "gone"} :
       /\ phase' = [phase EXCEPT ![c] = p]
       /\ live' = live
       /\ Contract(c)!Start
       /\ openConnections' = openConnections \cup (IF p = "up" THEN {c} ELSE {})
       /\ closingConnections' = closingConnections \cup (IF p = "closing" THEN {c} ELSE {})
       /\ connectionCount' = connectionCount + (IF p = "gone" THEN 0 ELSE 1)
  BY DEF OnConnected
<1>1. /\ phase[c] = "new" /\ listening /\ shell /\ ~deleted
      /\ UNCHANGED <<shellVars, open, transactionCount, uvVars, endVars>>
  BY DEF OnConnected, IInv, LifeInv, EndInv
<1>2. c \notin openConnections \cup closingConnections
  BY <1>1 DEF IInv, ConnectionsInTheirLists
<1>3. ConnectionsInTheirLists'
  BY <1>1 DEF IInv, TypeOK, ConnectionsInTheirLists
<1>4. /\ connectionCount' = Cardinality(openConnections \cup closingConnections)'
      /\ connectionCount' \in Nat
  <2>1. (openConnections \cup closingConnections)'
          = IF p = "gone" THEN openConnections \cup closingConnections
            ELSE (openConnections \cup closingConnections) \cup {c}
    OBVIOUS
  <2>2. IsFiniteSet(openConnections \cup closingConnections)
    BY Finite DEF IInv
  <2>3. Cardinality((openConnections \cup closingConnections) \cup {c})
          = Cardinality(openConnections \cup closingConnections) + 1
    BY <1>2, <2>2, FS_AddElement
  <2>4. Cardinality(openConnections \cup closingConnections) \in Nat
    BY <2>2, FS_CardinalityType
  <2>5. CASE p = "gone"
    BY <2>1, <2>4, <2>5 DEF IInv, CountersExact
  <2>6. CASE p # "gone"
    BY <2>1, <2>3, <2>4, <2>6 DEF IInv, CountersExact
  <2>7. QED
    BY <2>5, <2>6
<1>5. Units' = Units
  BY DEF Units
<1>6. TypeOK'
  BY <1>1, <1>4 DEF IInv, TypeOK, shellVars, uvVars, endVars
<1>7. LifeInv' /\ EndInv'
  BY <1>1 DEF IInv, TypeOK, LifeInv, EndInv, shellVars, uvVars, endVars
<1>8. QED
  BY <1>1, <1>3, <1>4, <1>5, <1>6, <1>7 DEF IInv, CountersExact

LEMMA BeginStep ==
  ASSUME IInv, NEW c \in Connections, TransactionBegins(c)
  PROVE  IInv'
<1> PICK t \in Transactions :
       /\ live' = [live EXCEPT ![c] = @ \cup {t}]
       /\ phase' = phase
       /\ Contract(c)!Begin(t)
       /\ transactionCount' = transactionCount + 1
       /\ UNCHANGED <<shellVars, open, listVars, connectionCount, uvVars, endVars>>
  BY DEF TransactionBegins
<1>1. phase[c] = "up" /\ t \notin live[c]
  BY DEF Contract!Begin
<1>2. transactionCount' = Cardinality(Units)' /\ transactionCount' \in Nat \ {0}
  <2>1. Units' = Units \cup {<<c, t>>} /\ <<c, t>> \notin Units
    BY <1>1 DEF IInv, TypeOK, Units
  <2>2. IsFiniteSet(Units)
    BY Finite DEF IInv
  <2>3. /\ Cardinality(Units \cup {<<c, t>>}) = Cardinality(Units) + 1
        /\ Cardinality(Units) \in Nat
    BY <2>1, <2>2, FS_AddElement, FS_CardinalityType
  <2>4. QED
    BY <2>1, <2>3 DEF IInv, CountersExact
<1>3. ~deleted
  <2>1. c \in openConnections \cup closingConnections
    BY <1>1 DEF IInv, ConnectionsInTheirLists
  <2>2. IsFiniteSet(openConnections \cup closingConnections)
    BY Finite DEF IInv
  <2>3. Cardinality(openConnections \cup closingConnections) # 0
    BY <2>1, <2>2, FS_EmptySet
  <2>4. QED
    BY <2>3 DEF IInv, EndInv, CountersExact
<1>4. TypeOK'
  BY <1>2 DEF IInv, TypeOK, shellVars, listVars, uvVars, endVars
<1>5. LifeInv' /\ EndInv'
  BY <1>2, <1>3 DEF IInv, TypeOK, LifeInv, EndInv, shellVars, uvVars, endVars
<1>6. ConnectionsInTheirLists'
  BY DEF IInv, ConnectionsInTheirLists, listVars
<1>7. connectionCount' = Cardinality(openConnections \cup closingConnections)'
  BY DEF IInv, CountersExact, listVars
<1>8. QED
  BY <1>2, <1>4, <1>5, <1>6, <1>7 DEF IInv, CountersExact

LEMMA ProgressStep ==
  ASSUME IInv, NEW c \in Connections, ConnectionProgresses(c)
  PROVE  IInv'
<1> PICK left \in SUBSET live[c], p \in {phase[c], "closing"} :
       /\ phase' = [phase EXCEPT ![c] = p]
       /\ TransactionsEnd(c, left)
       /\ Contract(c)!Progress
       /\ IF phase[c] = "up" /\ p = "closing"
            THEN OnConnectionClosing({c})
            ELSE UNCHANGED listVars
       /\ UNCHANGED <<shellVars, open, connectionCount, uvVars>>
       /\ ConsiderDestroyOnZero
  BY DEF ConnectionProgresses
<1>1. phase[c] \in {"up", "closing"} /\ p \in {"up", "closing"}
  BY DEF Contract!Progress
<1>2. ConnectionsInTheirLists'
  BY <1>1 DEF IInv, TypeOK, ConnectionsInTheirLists, OnConnectionClosing, listVars
<1>3. (openConnections \cup closingConnections)' = openConnections \cup closingConnections
  BY <1>1 DEF IInv, ConnectionsInTheirLists, OnConnectionClosing, listVars
<1>4. /\ live' \in [Connections -> SUBSET Transactions]
      /\ transactionCount' \in Nat /\ transactionCount' <= transactionCount
      /\ transactionCount' = Cardinality(Units)'
  BY TransactionsEndCounts DEF IInv
<1>5. connectionCount' \in Nat /\ connectionCount' <= connectionCount
  BY DEF IInv, TypeOK
<1>6. /\ LifeInv' /\ EndInv'
      /\ onDestroy' \in BOOLEAN /\ deleted' \in BOOLEAN /\ notified' \in Nat
  BY <1>4, <1>5, CountingDown DEF IInv, TypeOK
<1>7. TypeOK'
  BY <1>1, <1>4, <1>5, <1>6
     DEF IInv, TypeOK, OnConnectionClosing, shellVars, uvVars, listVars
<1>8. QED
  BY <1>2, <1>3, <1>4, <1>6, <1>7 DEF IInv, CountersExact

LEMMA CloseStep ==
  ASSUME IInv, NEW c \in Connections, OnConnectionClose(c)
  PROVE  IInv'
<1> PICK left \in SUBSET live[c] :
       /\ AtLoop
       /\ phase' = [phase EXCEPT ![c] = "gone"]
       /\ TransactionsEnd(c, left)
       /\ Contract(c)!Go
       /\ closingConnections' = closingConnections \ {c}
       /\ connectionCount' = connectionCount - 1
       /\ UNCHANGED <<shellVars, open, openConnections, uvVars>>
       /\ ConsiderDestroyOnZero
  BY DEF OnConnectionClose
<1>1. phase[c] = "closing"
  BY DEF Contract!Go
<1>2. c \in closingConnections /\ c \notin openConnections
  BY <1>1 DEF IInv, ConnectionsInTheirLists
<1>3. ConnectionsInTheirLists'
  BY <1>1 DEF IInv, TypeOK, ConnectionsInTheirLists
<1>4. /\ connectionCount' = Cardinality(openConnections \cup closingConnections)'
      /\ connectionCount' \in Nat
  <2>1. (openConnections \cup closingConnections)'
          = (openConnections \cup closingConnections) \ {c}
    BY <1>2
  <2>2. IsFiniteSet(openConnections \cup closingConnections)
    BY Finite DEF IInv
  <2>3. /\ IsFiniteSet((openConnections \cup closingConnections) \ {c})
        /\ Cardinality((openConnections \cup closingConnections) \ {c})
             = Cardinality(openConnections \cup closingConnections) - 1
    BY <1>2, <2>2, FS_RemoveElement
  <2>4. QED
    BY <2>1, <2>3, FS_CardinalityType DEF IInv, CountersExact
<1>5. /\ live' \in [Connections -> SUBSET Transactions]
      /\ transactionCount' \in Nat /\ transactionCount' <= transactionCount
      /\ transactionCount' = Cardinality(Units)'
  BY TransactionsEndCounts DEF IInv
<1>6. /\ LifeInv' /\ EndInv'
      /\ onDestroy' \in BOOLEAN /\ deleted' \in BOOLEAN /\ notified' \in Nat
  BY <1>4, <1>5, CountingDown DEF IInv, TypeOK
<1>7. TypeOK'
  BY <1>4, <1>5, <1>6 DEF IInv, TypeOK, shellVars, uvVars
<1>8. QED
  BY <1>3, <1>4, <1>5, <1>6, <1>7 DEF IInv, CountersExact

LEMMA ReturnStep ==
  ASSUME IInv, NEW c \in Connections, LastTransactionEnds(c)
  PROVE  IInv'
<1> USE DEF LastTransactionEnds
<1>1. /\ live' \in [Connections -> SUBSET Transactions]
      /\ transactionCount' \in Nat /\ transactionCount' <= transactionCount
      /\ transactionCount' = Cardinality(Units)'
  <2>1. {} \in SUBSET live[c]
    OBVIOUS
  <2>2. QED
    BY <2>1, TransactionsEndCounts DEF IInv
<1>2. connectionCount' \in Nat /\ connectionCount' <= connectionCount
  BY DEF IInv, TypeOK
<1>3. /\ LifeInv' /\ EndInv'
      /\ onDestroy' \in BOOLEAN /\ deleted' \in BOOLEAN /\ notified' \in Nat
  BY <1>1, <1>2, CountingDown DEF IInv, TypeOK
<1>4. TypeOK'
  BY <1>1, <1>2, <1>3 DEF IInv, TypeOK, shellVars, uvVars, listVars
<1>5. ConnectionsInTheirLists'
  BY DEF IInv, ConnectionsInTheirLists, listVars
<1>6. connectionCount' = Cardinality(openConnections \cup closingConnections)'
  BY DEF IInv, CountersExact, listVars
<1>7. QED
  BY <1>1, <1>3, <1>4, <1>5, <1>6 DEF IInv, CountersExact

LEMMA HandleClosedStep ==
  ASSUME IInv, StaticOnClose
  PROVE  IInv'
<1>1. /\ listenClosing /\ ~listenClosing' /\ open /\ ~open' /\ ~shell /\ ~deleted /\ ~listening
      /\ UNCHANGED <<shellVars, countVars, listening, live>>
      /\ OnConnectionClosing(openConnections)
      /\ phase' = [d \in Connections |-> IF d \in openConnections THEN "closing" ELSE phase[d]]
      /\ ConsiderDestroy(onDestroy)
  BY DEF IInv, LifeInv, EndInv, StaticOnClose
<1>2. ConnectionsInTheirLists'
  BY <1>1 DEF IInv, TypeOK, ConnectionsInTheirLists, OnConnectionClosing
<1>3. (openConnections \cup closingConnections)' = openConnections \cup closingConnections
  BY <1>1 DEF OnConnectionClosing
<1>4. Units' = Units
  BY <1>1 DEF Units
<1>5. CountersExact'
  BY <1>1, <1>3, <1>4 DEF IInv, CountersExact, countVars
<1>6. /\ EndInv'
      /\ onDestroy' \in BOOLEAN /\ deleted' \in BOOLEAN /\ notified' \in Nat
  <2>1. CASE Unused
    <3>1. deleted' = TRUE /\ onDestroy' = FALSE /\ notified' \in Nat
      BY <1>1, <2>1 DEF IInv, TypeOK, ConsiderDestroy
    <3>2. QED
      BY <2>1, <3>1 DEF EndInv, Unused
  <2>2. CASE ~Unused
    <3>1. deleted' = deleted /\ onDestroy' = onDestroy /\ notified' = notified
      BY <1>1, <2>2 DEF ConsiderDestroy
    <3>2. EndInv'
      BY <1>1, <2>2, <3>1 DEF EndInv, Unused
    <3>3. QED
      BY <3>1, <3>2 DEF IInv, TypeOK
  <2>3. QED
    BY <2>1, <2>2
<1>7. LifeInv'
  BY <1>1 DEF IInv, LifeInv, shellVars
<1>8. TypeOK'
  <2>1. phase' \in [Connections -> {"new", "up", "closing", "gone"}]
    BY <1>1 DEF IInv, TypeOK
  <2>2. /\ openConnections' \in SUBSET Connections
        /\ closingConnections' \in SUBSET Connections
    BY <1>1 DEF IInv, TypeOK, OnConnectionClosing
  <2>3. /\ shell' \in BOOLEAN /\ shellOnDestroy' \in BOOLEAN /\ open' \in BOOLEAN
        /\ listening' \in BOOLEAN /\ listenClosing' \in BOOLEAN
    BY DEF IInv, TypeOK, StaticOnClose, shellVars
  <2>4. /\ connectionCount' \in Nat /\ transactionCount' \in Nat
        /\ live' \in [Connections -> SUBSET Transactions]
    BY <1>1 DEF IInv, TypeOK, countVars
  <2>5. QED
    BY <1>6, <2>1, <2>2, <2>3, <2>4, Zenon DEF TypeOK
<1>9. QED
  BY <1>2, <1>5, <1>6, <1>7, <1>8 DEF IInv

LEMMA StepInvariant == IInv /\ [Next]_vars => IInv'
<1> SUFFICES ASSUME IInv, [Next]_vars PROVE IInv'
  OBVIOUS
<1>1. CASE UNCHANGED vars
  BY <1>1 DEF vars, shellVars, listVars, countVars, uvVars, endVars, connVars, IInv, TypeOK,
     LifeInv, EndInv, CountersExact, ConnectionsInTheirLists, Units
<1>2. CASE Next
  BY <1>2, InitAsyncStep, ShellStep, ConnectedStep, BeginStep, ProgressStep, CloseStep,
     ReturnStep, HandleClosedStep DEF Next
<1>3. QED
  BY <1>1, <1>2

-----------------------------------------------------------------------------
(* The theorems.                                                           *)

\* The inductive invariant holds in every reachable state, for any number of connections
\* and of transactions.
THEOREM Invariance == Spec => []IInv
<1>1. QED
  BY InitInvariant, StepInvariant, PTL DEF Spec

\* The variables of a server core keep their types.
THEOREM TypeCorrect == Spec => []TypeOK
<1>1. IInv => TypeOK
  BY DEF IInv
<1>2. QED
  BY <1>1, Invariance, PTL

\* The two counters that decide about the core's end are exact.
THEOREM CountersAreExact == Spec => []CountersExact
<1>1. IInv => CountersExact
  BY DEF IInv
<1>2. QED
  BY <1>1, Invariance, PTL

\* Every connection is in exactly the list in which its next callback looks for it.
THEOREM InTheirLists == Spec => []ConnectionsInTheirLists
<1>1. IInv => ConnectionsInTheirLists
  BY DEF IInv
<1>2. QED
  BY <1>1, Invariance, PTL

\* The core deletes itself exactly when nobody is left who could call it.
THEOREM DeletedExactlyWhenUnused == Spec => []DeletedWhenUnused
<1>1. IInv => DeletedWhenUnused
  <2> SUFFICES ASSUME IInv PROVE DeletedWhenUnused
    OBVIOUS
  <2>1. IsFiniteSet(Units) /\ IsFiniteSet(openConnections \cup closingConnections)
    BY Finite DEF IInv
  <2>2. connectionCount = 0 <=> \A c \in Connections : phase[c] \in {"new", "gone"}
    <3>1. connectionCount = 0 <=> openConnections \cup closingConnections = {}
      BY <2>1, FS_EmptySet DEF IInv, CountersExact
    <3>2. QED
      BY <3>1 DEF IInv, TypeOK, ConnectionsInTheirLists
  <2>3. transactionCount = 0 <=> \A c \in Connections : live[c] = {}
    <3>1. transactionCount = 0 <=> Units = {}
      BY <2>1, FS_EmptySet DEF IInv, CountersExact
    <3>2. Units = {} <=> \A c \in Connections : live[c] = {}
      <4>1. ASSUME NEW c \in Connections, NEW t \in live[c]
            PROVE  <<c, t>> \in Units
        BY DEF IInv, TypeOK, Units
      <4>2. ASSUME NEW u \in Units
            PROVE  u[1] \in Connections /\ u[2] \in live[u[1]]
        BY DEF Units
      <4>3. QED
        BY <4>1, <4>2
    <3>3. QED
      BY <3>1, <3>2
  <2>4. ~shell /\ ~open <=> ~shell /\ ~listening /\ ~listenClosing
    BY DEF IInv, LifeInv
  <2>5. QED
    BY <2>2, <2>3, <2>4, Zenon DEF IInv, EndInv, DeletedWhenUnused, NoCaller
<1>2. QED
  BY <1>1, Invariance, PTL

\* A counter that has reached zero in a core that is deleted does not count down again.
LEMMA DeletedCountsNoMore ==
  ASSUME IInv, IInv', deleted, ConsiderDestroyOnZero
  PROVE  UNCHANGED endVars
<1>1. connectionCount = 0 /\ transactionCount = 0
  BY DEF IInv, EndInv
<1>2. connectionCount' \in Nat /\ transactionCount' \in Nat
  BY DEF IInv, TypeOK
<1>3. QED
  BY <1>1, <1>2 DEF ConsiderDestroyOnZero

\* The user's on_destroy goes from the shell to the core and runs once.
THEOREM OnDestroyOnce == Spec => OnDestroyNeverLost
<1>1. IInv /\ IInv' /\ [Next]_vars
        => [/\ (~shellOnDestroy /\ shellOnDestroy') => Promised'
            /\ Promised => Promised']_vars
  <2> SUFFICES ASSUME IInv, IInv', Next
               PROVE  /\ (~shellOnDestroy /\ shellOnDestroy') => Promised'
                      /\ Promised => Promised'
    OBVIOUS
  <2>1. CASE InitAsync
    BY <2>1 DEF InitAsync, IInv, LifeInv, Promised, endVars
  <2>2. CASE OnShellDestroyed
    BY <2>2 DEF OnShellDestroyed, ConsiderDestroy, IInv, LifeInv, EndInv, Promised
  <2>3. CASE UNCHANGED shellVars /\ UNCHANGED endVars
    BY <2>3 DEF Promised, shellVars, endVars
  <2>4. ASSUME UNCHANGED shellVars, ConsiderDestroy(onDestroy), ~deleted
        PROVE  Promised => Promised'
    BY <2>4 DEF ConsiderDestroy, Unused, IInv, TypeOK, LifeInv, Promised, shellVars
  <2>5. ASSUME UNCHANGED shellVars, ConsiderDestroyOnZero
        PROVE  Promised => Promised'
    BY <2>3, <2>4, <2>5, DeletedCountsNoMore DEF ConsiderDestroyOnZero, IInv, TypeOK
  <2>6. CASE StaticOnClose
    <3>1. ~deleted /\ UNCHANGED shellVars /\ ConsiderDestroy(onDestroy)
      BY <2>6 DEF StaticOnClose, IInv, LifeInv, EndInv
    <3>2. QED
      BY <2>4, <3>1 DEF shellVars
  <2>7. ASSUME NEW c \in Connections, OnConnected(c) \/ TransactionBegins(c)
        PROVE  UNCHANGED shellVars /\ UNCHANGED endVars
    BY <2>7 DEF OnConnected, TransactionBegins
  <2>8. ASSUME NEW c \in Connections,
               ConnectionProgresses(c) \/ OnConnectionClose(c) \/ LastTransactionEnds(c)
        PROVE  UNCHANGED shellVars /\ ConsiderDestroyOnZero
    BY <2>8 DEF ConnectionProgresses, OnConnectionClose, LastTransactionEnds
  <2>9. QED
    BY <2>1, <2>2, <2>3, <2>5, <2>6, <2>7, <2>8 DEF Next, shellVars
<1>2. QED
  BY <1>1, Invariance, PTL DEF Spec, OnDestroyNeverLost
=============================================================================
