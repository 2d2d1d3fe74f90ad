---------------------- MODULE ServerConnectionContract ----------------------
(***************************************************************************)
(* What AbstractHttpServerConnection promises to the server core that owns *)
(* it: on_closing runs once, on_close runs once after it and asks for the  *)
(* deletion, and every transaction counted in the core's counter is        *)
(* counted down, the last one perhaps only after the deletion.             *)
(***************************************************************************)
EXTENDS Integers, FiniteSets

CONSTANT Transactions    \* the names a transaction can have

VARIABLES phase,  \* "new": before InitAsync; "up"; "closing": on_closing has
                  \* run; "gone": on_close has run, or InitSync failed
          live    \* the transactions that hold a unit of the counter

vars == <<phase, live>>

Phases == {"new", "up", "closing", "gone"}

TypeOK == phase \in Phases /\ live \in SUBSET Transactions

Init == phase = "new" /\ live = {}

Start ==
  /\ phase = "new" /\ phase' \in {"up", "closing", "gone"}
  /\ UNCHANGED live

Begin(t) ==
  /\ phase = "up" /\ t \notin live
  /\ live' = live \cup {t}
  /\ UNCHANGED phase

\* Some transactions end; the connection may start closing.
Progress ==
  /\ phase \in {"up", "closing"} /\ phase' \in {phase, "closing"}
  /\ live' \in SUBSET live

\* on_close: all transactions are over but perhaps one, still on the stack.
Go ==
  /\ phase = "closing" /\ phase' = "gone"
  /\ live' \in SUBSET live /\ Cardinality(live') <= 1

Return ==
  /\ phase = "gone" /\ live # {}
  /\ live' = {}
  /\ UNCHANGED phase

Next ==
  \/ Start
  \/ \E t \in Transactions : Begin(t)
  \/ Progress
  \/ Go
  \/ Return

Spec == Init /\ [][Next]_vars

\* A connection that is closing gets to its end.
FairSpec == Spec /\ WF_vars(Go) /\ WF_vars(Return)
=============================================================================
