---------------------- MODULE ClientConnectionContract ----------------------
(***************************************************************************)
(* What HttpClientConnection promises to the group that owns it: it takes  *)
(* transactions until on_closing runs, which it does once; while uv owes   *)
(* the connect callback neither on_closing nor any on_response runs; and   *)
(* on_close asks for the deletion only when no transaction is alive.       *)
(***************************************************************************)
EXTENDS Integers

CONSTANT Transactions    \* the names a transaction can have

VARIABLES phase,       \* "new": before InitAsync; "up"; "closing": on_closing
                       \* has run; "gone": deleted
          connecting,  \* uv owes the connect callback
          live         \* the transactions that hold a unit of the counter

vars == <<phase, connecting, live>>

TypeOK ==
  /\ phase \in {"new", "up", "closing", "gone"}
  /\ connecting \in BOOLEAN /\ live \in SUBSET Transactions

Init == phase = "new" /\ connecting = FALSE /\ live = {}

\* InitSync fails and the group drops the connection.
Drop ==
  /\ phase = "new" /\ phase' = "gone"
  /\ UNCHANGED <<connecting, live>>

\* InitAsync takes the transactions that waited for the address.
Start(waiting) ==
  /\ phase = "new" /\ phase' = "up"
  /\ connecting' \in BOOLEAN
  /\ live' = waiting

Connected ==
  /\ connecting /\ connecting' = FALSE
  /\ UNCHANGED <<phase, live>>

\* AsyncProcess takes a transaction; it may fail it at once.
Take(t) ==
  /\ phase = "up" /\ t \notin live
  /\ live' = live \cup {t}
  /\ UNCHANGED <<phase, connecting>>

\* What may end: no transaction does while the connection is being made.
MayEnd(t) == t \in live /\ ~connecting

\* A transaction ends: its on_response has returned.
End(t) ==
  /\ MayEnd(t)
  /\ live' = live \ {t}
  /\ UNCHANGED <<phase, connecting>>

\* on_closing.
StartClosing ==
  /\ phase = "up" /\ ~connecting /\ phase' = "closing"
  /\ UNCHANGED <<connecting, live>>

\* on_close.
Go ==
  /\ phase = "closing" /\ live = {} /\ phase' = "gone"
  /\ UNCHANGED <<connecting, live>>

Next ==
  \/ Drop
  \/ \E waiting \in SUBSET Transactions : Start(waiting)
  \/ Connected
  \/ \E t \in Transactions : Take(t) \/ End(t)
  \/ StartClosing
  \/ Go

Spec == Init /\ [][Next]_vars
=============================================================================
