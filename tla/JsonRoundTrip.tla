--------------------------- MODULE JsonRoundTrip ---------------------------
(***************************************************************************)
(* JsonWriter and JsonReader together: a value is written and the text is  *)
(* given to the reader under some configuration; or the reader is given    *)
(* one of Inputs, a text from elsewhere, and the writer has nothing to do. *)
(***************************************************************************)
EXTENDS JsonReader

CONSTANTS
  MaxDepth,  \* values are nested so often at most
  Roots,     \* the values that are written
  Indents    \* the values of config.indent()

\* The values of so many levels.
OfDepth[n \in 0 .. MaxDepth] ==
  [type : {"scalar"}, token : Strings \cup Scalars]
    \cup (IF n = 0 THEN {}
          ELSE [type : {"array"}, elements : Seq(OfDepth[n - 1])]
                 \cup [type : {"object"}, properties : Seq([name : Strings, value : OfDepth[n - 1]])])

Writable == OfDepth[MaxDepth]

ASSUME RootsAssumption == MaxDepth \in Nat /\ Roots \subseteq Writable /\ Indents \subseteq Nat

VARIABLES root, indent, output, lines, sources, width, writingValue, written

Writer == INSTANCE JsonWriter WITH stack <- sources, inValue <- writingValue

writerVars == <<root, indent, output, lines, sources, width, writingValue, written>>

NoValue == Scalar("")

NoOptions ==
  [disallowComments |-> FALSE, disallowTrailingCommas |-> FALSE, propertiesAsIs |-> FALSE]

WriterIdle ==
  /\ root = NoValue /\ indent = 0 /\ output = <<>> /\ lines = <<>>
  /\ sources = <<>> /\ width = 0 /\ writingValue = FALSE /\ written = TRUE

ReaderIdle ==
  /\ text = <<>> /\ remaining = <<>> /\ config = NoOptions
  /\ nodes = <<NoNode>> /\ stack = <<1>>
  /\ readName = FALSE /\ inValue = TRUE /\ status = "waiting"

RoundTripInit ==
  \/ Init /\ WriterIdle
  \/ Writer!Init /\ ReaderIdle

\* The text that was written is read.
ReadOutput ==
  /\ status = "waiting" /\ written
  /\ text' = output /\ remaining' = output
  /\ config' \in Configs
  /\ status' = "reading"
  /\ UNCHANGED <<nodes, stack, readName, inValue, writerVars>>

RoundTripNext ==
  \/ Writer!Next /\ UNCHANGED vars
  \/ ReadOutput
  \/ Next /\ UNCHANGED writerVars

RoundTripSpec == RoundTripInit /\ [][RoundTripNext]_<<vars, writerVars>>

-----------------------------------------------------------------------------
(* Properties.                                                             *)

\* A value with the properties of its objects sorted.
Normal[v \in Writable] ==
  CASE v.type = "object" ->
         Object(FirstOfEach([j \in 1 .. Len(v.properties) |->
                               Property(v.properties[j].name, Normal[v.properties[j].value])]))
    [] v.type = "array" ->
         Array([j \in 1 .. Len(v.elements) |-> Normal[v.elements[j]]])
    [] OTHER -> v

\* What the writer makes of a value is read as that value under every
\* configuration of the reader, also the strictest: commas only between children,
\* brackets matched, names where names belong, whatever is nested in whatever.  And
\* every line of it begins with as many indentations as brackets are open there.
RoundTrip ==
  /\ root # NoValue /\ status \in {"read", "failed"} =>
       status = "read" /\ Value[1] = IF config.propertiesAsIs THEN root ELSE Normal[root]
  /\ Writer!IndentsByDepth
=============================================================================
