---------------------------- MODULE MCHttpParser ----------------------------
\* Messages for HttpParser: a simple one, one with headers that need two reads
\* each, an empty value and a trailer, and one that fails, in all pairs.
EXTENDS HttpParser

Plain == <<"begin", "url", "headers", "complete">>

Full ==
  <<"begin", "url", "url", "field", "field", "value", "value", "field", "noValue",
    "field", "value", "headers", "body", "body", "field", "field", "value",
    "complete">>

BadUrl == <<"begin", "url", "field", "value", "badHeaders">>

Broken == <<"begin", "url", "field", "error">>

MCRequests == {a \o b : a \in {Plain, Full}, b \in {Plain, Full, BadUrl, Broken}}

\* The same as responses: a status in the place of the URL.
MCResponses ==
  {[i \in DOMAIN w |-> IF w[i] = "url" THEN "status" ELSE w[i]] :
     w \in {a \o b : a \in {Plain, Full}, b \in {Plain, Full, Broken}}}
=============================================================================
