----------------------------- MODULE HttpParser -----------------------------
(***************************************************************************)
(* HttpParserPlusPlus (http_parser_plus_plus.cc): it turns the callbacks of *)
(* the external http_parser into HttpRequest or HttpResponse messages.     *)
(*                                                                         *)
(* What a peer sends is a sequence of units, each the least that a read    *)
(* can split off: a character of a URL, of a header's name or value or of  *)
(* a body, or the point at which http_parser reports something.  A text is *)
(* the sequence of the positions its characters have in wire, so that two  *)
(* texts are equal only when they are the same characters.  http_parser    *)
(* calls a data callback with as many characters of one text as the data   *)
(* of this read holds: the callbacks depend on where the reads split the   *)
(* wire, and the messages must not.                                        *)
(***************************************************************************)
EXTENDS Integers, Sequences, FiniteSets

CONSTANTS
  RequestWires,    \* the unit sequences a client may send
  ResponseWires    \* and a server

\* "noValue": the value of a header is empty.  "headers", "badHeaders": the
\* headers are complete, with a URL that ParseUrl accepts, or refuses.
\* "error": http_parser finds a syntax error.
Units ==
  {"begin", "url", "status", "field", "value", "noValue", "headers",
   "badHeaders", "body", "complete", "error"}

Wires == RequestWires \cup ResponseWires

\* What http_parser reports of a connection's data: messages one after the
\* other, each completed after its headers were, and each name with a value.
Reported(w) ==
  /\ w \in Seq(Units)
  /\ \A i \in 1 .. Len(w) :
       /\ w[i] = "begin" <=> i = 1 \/ w[i - 1] = "complete"
       /\ w[i] = "complete" =>
            \E j \in 1 .. i : w[j] = "headers" /\ \A k \in j .. i : w[k] # "begin"
       /\ w[i] = "value" => w[i - 1] \in {"field", "value"}
       /\ w[i] = "noValue" => w[i - 1] = "field"
       /\ i < Len(w) /\ w[i] = "field" =>
            w[i + 1] \in {"field", "value", "noValue", "error"}

ASSUME WiresAssumption == \A w \in Wires : Reported(w)

VARIABLES
  wire,       \* what the peer sends
  at,         \* how many units have been parsed
  left,       \* how many units of the data passed to Read are still to parse
  pending,    \* pending_request_ or pending_response_
  queue,      \* request_queue_ or response_queue_
  taken,      \* the messages that were taken out of the queue
  failed      \* Read has failed

vars == <<wire, at, left, pending, queue, taken, failed>>

NoMessage == [url |-> <<>>, headers |-> <<>>, content |-> <<>>,
              shouldKeepAlive |-> FALSE, present |-> FALSE]

NewMessage == [NoMessage EXCEPT !.present = TRUE]

Init ==
  /\ wire \in Wires
  /\ at = 0 /\ left = 0 /\ pending = NoMessage
  /\ queue = <<>> /\ taken = <<>> /\ failed = FALSE

-----------------------------------------------------------------------------
(* http_parser: what it calls next.                                        *)

NextUnit == wire[at + 1]

\* The characters of the same text that the data of this read still holds.
Text ==
  LET ends == {j \in 1 .. left : j < left => wire[at + j + 1] # NextUnit}
      n    == CHOOSE j \in ends : \A i \in ends : j <= i
  IN  [i \in 1 .. n |-> at + i]

\* http_parser reports unit u; the callback takes n units.
Reports(u, n) ==
  /\ left > 0 /\ NextUnit = u
  /\ at' = at + n /\ left' = left - n
  /\ UNCHANGED <<wire, taken>>

-----------------------------------------------------------------------------
(* The callbacks.                                                          *)

OnMessageBegin ==
  /\ Reports("begin", 1)
  /\ pending' = NewMessage
  /\ UNCHANGED <<queue, failed>>

OnUrl ==
  /\ Reports("url", Len(Text))
  /\ pending' = [pending EXCEPT !.url = @ \o Text]
  /\ UNCHANGED <<queue, failed>>

OnStatus == Reports("status", Len(Text)) /\ UNCHANGED <<pending, queue, failed>>

\* Mutant of OnHeaderField: every piece of a name starts a header.
OnHeaderFieldAlwaysNew ==
  /\ Reports("field", Len(Text))
  /\ pending' = [pending EXCEPT
       !.headers = Append(@, [name |-> Text, value |-> <<>>, hasValue |-> FALSE])]
  /\ UNCHANGED <<queue, failed>>

\* A name starts a new header unless the last header has no value yet.
OnHeaderField ==
  /\ Reports("field", Len(Text))
  /\ LET hs    == pending.headers
         fresh == hs = <<>> \/ hs[Len(hs)].hasValue
     IN  pending' = [pending EXCEPT
           !.headers = IF fresh
             THEN Append(hs, [name |-> Text, value |-> <<>>, hasValue |-> FALSE])
             ELSE [hs EXCEPT ![Len(hs)].name = @ \o Text]]
  /\ UNCHANGED <<queue, failed>>

\* The last header gets a value, which may be empty.
OnHeaderValue ==
  \E u \in {"value", "noValue"} :
    /\ Reports(u, IF u = "value" THEN Len(Text) ELSE 1)
    /\ LET last == Len(pending.headers)
       IN  pending' = [pending EXCEPT
             !.headers[last].value = @ \o (IF u = "value" THEN Text ELSE <<>>),
             !.headers[last].hasValue = TRUE]
    /\ UNCHANGED <<queue, failed>>

\* A refused URL makes http_parser stop and Read fail.
OnHeadersComplete ==
  \/ /\ Reports("headers", 1)
     /\ pending' = [pending EXCEPT !.shouldKeepAlive = TRUE]
     /\ UNCHANGED <<queue, failed>>
  \/ /\ left > 0 /\ NextUnit = "badHeaders"
     /\ pending' = [pending EXCEPT !.shouldKeepAlive = TRUE]
     /\ failed' = TRUE /\ left' = 0
     /\ UNCHANGED <<wire, at, queue, taken>>

OnBody ==
  /\ Reports("body", Len(Text))
  /\ pending' = [pending EXCEPT !.content = @ \o Text]
  /\ UNCHANGED <<queue, failed>>

OnMessageComplete ==
  /\ Reports("complete", 1)
  /\ queue' = Append(queue, pending)
  /\ pending' = NoMessage
  /\ UNCHANGED failed

\* http_parser stops at a syntax error.
SyntaxError ==
  /\ left > 0 /\ NextUnit = "error"
  /\ failed' = TRUE /\ left' = 0
  /\ UNCHANGED <<wire, at, pending, queue, taken>>

-----------------------------------------------------------------------------
(* The owner: a connection's OnRead.                                       *)

\* Read of the next n units.  A connection does not read on after a failure.
Read ==
  /\ left = 0 /\ ~failed
  /\ left' \in 1 .. Len(wire) - at
  /\ UNCHANGED <<wire, at, pending, queue, taken, failed>>

\* NextRequest or NextResponse.
NextMessage ==
  /\ left = 0 /\ ~failed /\ queue # <<>>
  /\ taken' = Append(taken, Head(queue))
  /\ queue' = Tail(queue)
  /\ UNCHANGED <<wire, at, left, pending, failed>>

Next ==
  \/ OnMessageBegin
  \/ OnUrl
  \/ OnStatus
  \/ OnHeaderField
  \/ OnHeaderValue
  \/ OnHeadersComplete
  \/ OnBody
  \/ OnMessageComplete
  \/ SyntaxError
  \/ Read
  \/ NextMessage

Spec == Init /\ [][Next]_vars

-----------------------------------------------------------------------------
(* What the peer sent, as a function of the wire.                          *)

Positions(w, kind, a, b) == {i \in a .. b : w[i] = kind}

\* The elements of S in ascending order.
Sorted(S) ==
  CHOOSE s \in [1 .. Cardinality(S) -> S] : \A i, j \in DOMAIN s : i < j => s[i] < s[j]

\* Where the runs of kind begin between a and b.
Starts(w, kind, a, b) == {i \in Positions(w, kind, a, b) : w[i - 1] # kind}

\* The run of kind that begins at i.
Run(w, kind, i) ==
  {j \in Positions(w, kind, i, Len(w)) : \A k \in i .. j : w[k] = kind}

\* Where the value begins whose name begins at i.
After(w, i) == i + Cardinality(Run(w, "field", i))

\* The message whose first and last units are at a and b.
Sent(w, a, b) ==
  LET names == Sorted(Starts(w, "field", a, b))
  IN  [url     |-> Sorted(Positions(w, "url", a, b)),
       headers |-> [h \in 1 .. Len(names) |->
                      [name     |-> Sorted(Run(w, "field", names[h])),
                       value    |-> Sorted(Run(w, "value", After(w, names[h]))),
                       hasValue |-> TRUE]],
       content |-> Sorted(Positions(w, "body", a, b)),
       shouldKeepAlive |-> TRUE,
       present |-> TRUE]

\* The messages that the first n units complete.
SentMessages(w, n) ==
  LET first == Sorted(Positions(w, "begin", 1, n))
      last  == Sorted(Positions(w, "complete", 1, n))
  IN  [i \in 1 .. Len(last) |-> Sent(w, first[i], last[i])]

-----------------------------------------------------------------------------
(* Properties.                                                             *)

\* However the reads split it, the messages that leave the parser are the ones
\* the peer sent, each once and in order, with every name, value and trailer in
\* its place; a failure costs only the message it is in.
SplitInvariant == taken \o queue = SentMessages(wire, at)
=============================================================================
