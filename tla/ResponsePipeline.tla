-------------------------- MODULE ResponsePipeline --------------------------
(***************************************************************************)
(* What a server connection promises to its peer and to its owner, with no *)
(* queue, handle or callback in sight: requests are accepted one by one,   *)
(* answered in any order, and while the connection is up the peer has      *)
(* exactly the answers of the longest prefix of requests that are all      *)
(* answered, in request order.  Once it is closing nothing more is sent,   *)
(* and it is gone only when every accepted request has been answered.      *)
(***************************************************************************)
EXTENDS Integers, Sequences

CONSTANTS MaxRequests,  \* bound on the requests accepted
          Outcomes,     \* the answers a request can get
          NoResponse    \* not yet answered

Requests == 1 .. MaxRequests

VARIABLES phase,     \* "up", "closing" or "gone"
          accepted,  \* requests 1 .. accepted have been accepted
          answers,   \* the answer to each request, or NoResponse
          sent       \* what the peer was sent, in order

vars == <<phase, accepted, answers, sent>>

TypeOK ==
  /\ phase \in {"up", "closing", "gone"}
  /\ accepted \in 0 .. MaxRequests
  /\ answers \in [Requests -> Outcomes \cup {NoResponse}]
  /\ sent \in Seq([request : Requests, response : Outcomes])

Init ==
  /\ phase = "up" /\ accepted = 0 /\ sent = <<>>
  /\ answers = [t \in Requests |-> NoResponse]

-----------------------------------------------------------------------------

\* The answers of the first m requests.
FirstAnswers(m, ans) ==
  [t \in 1 .. m |-> [request |-> t, response |-> ans[t]]]

\* m is the length of the longest fully answered prefix of 1 .. acc.
IsFrontier(m, acc, ans) ==
  /\ m \in 0 .. acc
  /\ \A t \in 1 .. m : ans[t] # NoResponse
  /\ m < acc => ans[m + 1] = NoResponse

AllAnswered(acc, ans) == \A t \in 1 .. acc : ans[t] # NoResponse

Accept ==
  /\ phase = "up" /\ accepted < MaxRequests
  /\ accepted' = accepted + 1
  /\ UNCHANGED <<phase, answers, sent>>

\* An answer that is sent at once with those it was holding back; if the
\* transport fails after the first m of them, the connection starts closing.
AnswerUp(t, outcome) ==
  /\ phase = "up" /\ t <= accepted /\ answers[t] = NoResponse
  /\ answers' = [answers EXCEPT ![t] = outcome]
  /\ \E m, f \in 0 .. accepted :
       /\ IsFrontier(f, accepted, answers')
       /\ Len(sent) <= m /\ m <= f
       /\ sent' = FirstAnswers(m, answers')
       /\ phase' = IF m = f THEN "up" ELSE "closing"
  /\ UNCHANGED accepted

\* An answer that comes too late to be sent; the last one may end it all.
AnswerLate(t, outcome) ==
  /\ phase = "closing" /\ t <= accepted /\ answers[t] = NoResponse
  /\ answers' = [answers EXCEPT ![t] = outcome]
  /\ \/ phase' = "closing"
     \/ phase' = "gone" /\ AllAnswered(accepted, answers')
  /\ UNCHANGED <<accepted, sent>>

StartClosing ==
  /\ phase = "up"
  /\ phase' = "closing"
  /\ UNCHANGED <<accepted, answers, sent>>

\* It goes once every request is answered, or before it was ever set up.
Go ==
  /\ \/ phase = "closing" /\ AllAnswered(accepted, answers)
     \/ phase = "up" /\ accepted = 0
  /\ phase' = "gone"
  /\ UNCHANGED <<accepted, answers, sent>>

Next ==
  \/ Accept
  \/ \E t \in Requests, outcome \in Outcomes :
       AnswerUp(t, outcome) \/ AnswerLate(t, outcome)
  \/ StartClosing
  \/ Go

Spec == Init /\ [][Next]_vars
=============================================================================
