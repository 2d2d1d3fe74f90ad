----------------------------- MODULE JsonReader -----------------------------
(***************************************************************************)
(* ReadJson (json_reader.cc): a loop over the text with a stack of targets, *)
(* the values under construction.  A value is a node; nodes refer to their *)
(* properties and elements by number, as the code does by pointer.         *)
(*                                                                         *)
(* A text is a sequence of the tokens of JsonGrammar, and of "#", a        *)
(* comment, and "?", a character that begins none of them.                 *)
(***************************************************************************)
EXTENDS JsonGrammar

CONSTANT Inputs   \* the texts that are read

Signs == {"{", "}", "[", "]", ",", ":", "#", "?"}

Tokens == Strings \cup Scalars \cup Signs

ASSUME TokensAssumption == (Strings \cup Scalars) \cap Signs = {}

ASSUME InputsAssumption == Inputs \subseteq Seq(Tokens)

\* JsonReaderConfig.
Configs ==
  [disallowComments : BOOLEAN, disallowTrailingCommas : BOOLEAN, propertiesAsIs : BOOLEAN]

VARIABLES
  text,        \* the whole input
  config,      \* config_
  remaining,   \* remaining_
  nodes,       \* the JsonValue messages; the first one is value_
  stack,       \* targetStack_
  readName,    \* read_property_name
  inValue,     \* in the outer loop (else in the inner loop, after a value)
  status       \* "reading", "read" or "failed" ("waiting" in JsonRoundTrip)

vars == <<text, config, remaining, nodes, stack, readName, inValue, status>>

NoNode == [type |-> "none", token |-> "", properties |-> <<>>, elements |-> <<>>]

Init ==
  /\ text \in Inputs /\ config \in Configs
  /\ remaining = text
  /\ nodes = <<NoNode>> /\ stack = <<1>>
  /\ readName = FALSE /\ inValue = TRUE /\ status = "reading"

-----------------------------------------------------------------------------

\* Mutant of AfterComments: at most one comment is skipped.
AfterCommentsOne(s) ==
  IF ~config.disallowComments /\ s # <<>> /\ Head(s) = "#" THEN Tail(s) ELSE s

\* ReadWhitespaceAndComments.
AfterComments(s) ==
  IF config.disallowComments
    THEN s
    ELSE LET skipped == {k \in 0 .. Len(s) : \A i \in 1 .. k : s[i] = "#"}
         IN  SubSeq(s, Max(skipped) + 1, Len(s))

Top(s)    == s[Len(s)]
Popped(s) == SubSeq(s, 1, Len(s) - 1)
target    == Top(stack)

Starts(s, token) == s # <<>> /\ Head(s) = token

Fails ==
  /\ status' = "failed"
  /\ UNCHANGED <<text, config, remaining, nodes, stack, readName, inValue>>

Goes == UNCHANGED <<text, config, status>>

\* The nodes when object i is complete.
CloseObject(i) ==
  IF config.propertiesAsIs THEN nodes
  ELSE [nodes EXCEPT ![i].properties = StableSortedAndUnique(@)]

-----------------------------------------------------------------------------
(* The outer loop: a value, or a property name and its colon, is expected.  *)

\* "}" where a name is expected: an empty object, or a trailing comma.
CloseAfterComma ==
  /\ status = "reading" /\ inValue /\ readName
  /\ LET s == AfterComments(remaining)
     IN  /\ Starts(s, "}")
         /\ IF nodes[target].properties # <<>> /\ config.disallowTrailingCommas
              THEN Fails
              ELSE /\ remaining' = Tail(s)
                   /\ nodes' = CloseObject(target)
                   /\ readName' = FALSE /\ inValue' = FALSE
                   /\ UNCHANGED stack /\ Goes

\* A property name and a colon: the property's value is the next target.
ReadName ==
  /\ status = "reading" /\ inValue /\ readName
  /\ LET s     == AfterComments(remaining)
         after == AfterComments(Tail(s))
         new   == Len(nodes) + 1
     IN  /\ ~Starts(s, "}")
         /\ IF s = <<>> \/ Head(s) \notin Strings \/ ~Starts(after, ":")
              THEN Fails
              ELSE /\ remaining' = Tail(after)
                   /\ nodes' = Append([nodes EXCEPT ![target].properties =
                                         Append(@, Property(Head(s), new))], NoNode)
                   /\ stack' = Append(stack, new)
                   /\ readName' = FALSE
                   /\ UNCHANGED inValue /\ Goes

\* "]" where a value is expected: an empty array, or a trailing comma.
CloseArray ==
  /\ status = "reading" /\ inValue /\ ~readName
  /\ LET s     == AfterComments(remaining)
         below == Popped(stack)
     IN  /\ Starts(s, "]")
         /\ IF \/ below = <<>>
               \/ nodes[Top(below)].type # "array"
               \/ Len(nodes[Top(below)].elements) > 1 /\ config.disallowTrailingCommas
              THEN Fails
              ELSE /\ remaining' = Tail(s)
                   /\ stack' = below
                   /\ nodes' = [nodes EXCEPT ![Top(below)].elements = Popped(@)]
                   /\ inValue' = FALSE
                   /\ UNCHANGED readName /\ Goes

OpenObject ==
  /\ status = "reading" /\ inValue /\ ~readName
  /\ LET s == AfterComments(remaining)
     IN  Starts(s, "{") /\ remaining' = Tail(s)
  /\ nodes' = [nodes EXCEPT ![target].type = "object"]
  /\ readName' = TRUE
  /\ UNCHANGED <<stack, inValue>> /\ Goes

\* The array gets its first element before it is known to have one.
OpenArray ==
  /\ status = "reading" /\ inValue /\ ~readName
  /\ LET s == AfterComments(remaining)
     IN  Starts(s, "[") /\ remaining' = Tail(s)
  /\ LET new == Len(nodes) + 1
     IN  /\ nodes' = Append([nodes EXCEPT ![target].type = "array",
                                          ![target].elements = Append(@, new)], NoNode)
         /\ stack' = Append(stack, new)
  /\ UNCHANGED <<readName, inValue>> /\ Goes

ReadScalar ==
  /\ status = "reading" /\ inValue /\ ~readName
  /\ LET s == AfterComments(remaining)
     IN  \/ /\ s # <<>> /\ Head(s) \in Strings \cup Scalars
            /\ remaining' = Tail(s)
            /\ nodes' = [nodes EXCEPT ![target].type = "scalar", ![target].token = Head(s)]
            /\ inValue' = FALSE
            /\ UNCHANGED <<stack, readName>> /\ Goes
         \/ /\ ~(s # <<>> /\ Head(s) \in Strings \cup Scalars \cup {"{", "[", "]"})
            /\ Fails

-----------------------------------------------------------------------------
(* The inner loop: a value is complete.                                    *)

ReadEnd ==
  /\ status = "reading" /\ ~inValue /\ Len(stack) = 1
  /\ remaining' = AfterComments(remaining)
  /\ stack' = <<>>
  /\ status' = IF remaining' = <<>> THEN "read" ELSE "failed"
  /\ UNCHANGED <<text, config, nodes, readName, inValue>>

\* A comma or a closing bracket after a property.
AfterProperty ==
  /\ status = "reading" /\ ~inValue /\ Len(stack) > 1
  /\ nodes[Top(Popped(stack))].type = "object"
  /\ LET s == AfterComments(remaining)
     IN  IF Starts(s, ",") \/ Starts(s, "}")
           THEN /\ remaining' = Tail(s)
                /\ stack' = Popped(stack)
                /\ readName' = (Head(s) = ",") /\ inValue' = readName'
                /\ nodes' = IF Head(s) = "," THEN nodes ELSE CloseObject(Top(stack'))
                /\ Goes
           ELSE Fails

\* A comma, which adds the next element, or a closing bracket after an element.
AfterElement ==
  /\ status = "reading" /\ ~inValue /\ Len(stack) > 1
  /\ nodes[Top(Popped(stack))].type = "array"
  /\ LET s   == AfterComments(remaining)
         new == Len(nodes) + 1
         arr == Top(Popped(stack))
     IN  \/ /\ Starts(s, ",")
            /\ remaining' = Tail(s)
            /\ nodes' = Append([nodes EXCEPT ![arr].elements = Append(@, new)], NoNode)
            /\ stack' = Append(Popped(stack), new)
            /\ inValue' = TRUE
            /\ UNCHANGED readName /\ Goes
         \/ /\ Starts(s, "]")
            /\ remaining' = Tail(s)
            /\ stack' = Popped(stack)
            /\ UNCHANGED <<nodes, readName, inValue>> /\ Goes
         \/ ~Starts(s, ",") /\ ~Starts(s, "]") /\ Fails

Next ==
  \/ CloseAfterComma
  \/ ReadName
  \/ CloseArray
  \/ OpenObject
  \/ OpenArray
  \/ ReadScalar
  \/ ReadEnd
  \/ AfterProperty
  \/ AfterElement

Spec == Init /\ [][Next]_vars

-----------------------------------------------------------------------------
(* Properties.                                                             *)

\* The value a node stands for; nodes refer only to later ones.
Value[i \in 1 .. Len(nodes)] ==
  LET n == nodes[i]
  IN  CASE n.type = "object" ->
             Object([j \in 1 .. Len(n.properties) |->
                       Property(n.properties[j].name, Value[n.properties[j].value])])
        [] n.type = "array" ->
             Array([j \in 1 .. Len(n.elements) |-> Value[n.elements[j]]])
        [] OTHER -> Scalar(n.token)

\* What the text is besides its comments, if it may have some: Seen[k] of the last k tokens.
Seen[k \in 0 .. Len(text)] ==
  IF k = 0 THEN <<>>
  ELSE LET token == text[Len(text) - k + 1]
       IN  IF token = "#" /\ ~config.disallowComments THEN Seen[k - 1]
           ELSE <<token>> \o Seen[k - 1]

\* What the grammar says the text means.
Meaning ==
  Meanings(Seen[Len(text)], ~config.disallowTrailingCommas, config.propertiesAsIs)

\* The reader accepts exactly the texts of the grammar, whatever is nested in
\* whatever and wherever commas and comments are, and the value it builds with its stack
\* of targets is the only one the text means, with the properties of every object sorted
\* unless they are to stay as they are.
ReadsExactlyJson ==
  /\ status = "read" => Meaning = {Value[1]}
  /\ status = "failed" => Meaning = {}
=============================================================================
