----------------------------- MODULE JsonWriter -----------------------------
(***************************************************************************)
(* WriteJson (json_writer.cc): a loop with a stack of sources, each a value *)
(* and the index of its property or element being written.  The output is  *)
(* a sequence of tokens, with values as in JsonGrammar; of its layout, the  *)
(* lines that config.indent() asks for are kept.                           *)
(***************************************************************************)
EXTENDS Integers, Sequences, FiniteSets

CONSTANTS
  Roots,     \* the values that are written
  Indents    \* the values of config.indent()

VARIABLES
  root,       \* value_
  indent,     \* config_.indent()
  output,     \* *output_, without its layout
  lines,      \* where in the output the lines begin, and with how many spaces
  stack,      \* source_stack_
  width,      \* the spaces in newline_indent_
  inValue,    \* in the outer loop (else in the inner loop)
  written     \* Complete has returned

vars == <<root, indent, output, lines, stack, width, inValue, written>>

Source(v) == [value |-> v, index |-> -1]

\* The source pushed before the first property or element: it is only popped.
NoSource == Source([type |-> "scalar", token |-> ""])

Children(v) == IF v.type = "object" THEN v.properties
               ELSE IF v.type = "array" THEN v.elements ELSE <<>>

Open(v)  == IF v.type = "object" THEN "{" ELSE "["
Close(v) == IF v.type = "object" THEN "}" ELSE "]"

Init ==
  /\ root \in Roots /\ indent \in Indents
  /\ output = <<>> /\ lines = <<>>
  /\ stack = <<Source(root)>>
  /\ width = 0 /\ inValue = TRUE /\ written = FALSE

-----------------------------------------------------------------------------

source == stack[Len(stack)]
Below  == SubSeq(stack, 1, Len(stack) - 1)

NewLine(at, spaces) ==
  lines' = IF indent = 0 THEN lines ELSE Append(lines, [at |-> at, spaces |-> spaces])

WriteScalar ==
  /\ inValue /\ source.value.type = "scalar"
  /\ output' = Append(output, source.value.token)
  /\ inValue' = FALSE
  /\ UNCHANGED <<root, indent, lines, stack, width, written>>

WriteEmpty ==
  /\ inValue /\ source.value.type # "scalar" /\ Children(source.value) = <<>>
  /\ output' = output \o <<Open(source.value), Close(source.value)>>
  /\ inValue' = FALSE
  /\ UNCHANGED <<root, indent, lines, stack, width, written>>

WriteOpen ==
  /\ inValue /\ source.value.type # "scalar" /\ Children(source.value) # <<>>
  /\ output' = Append(output, Open(source.value))
  /\ stack' = Append(stack, NoSource)
  /\ width' = width + indent
  /\ inValue' = FALSE
  /\ UNCHANGED <<root, indent, lines, written>>

\* Complete returns when the last source is popped.
Return ==
  /\ ~inValue /\ ~written /\ Below = <<>>
  /\ stack' = <<>> /\ written' = TRUE
  /\ UNCHANGED <<root, indent, output, lines, width, inValue>>

\* The source whose child has been written, the top one popped.
Parent == Below[Len(Below)]
Index  == Parent.index + 1     \* ++source().index

\* Mutant of WriteNext: a comma is only written after a scalar.
WriteNextNoComma ==
  /\ ~inValue /\ ~written /\ Below # <<>> /\ Index < Len(Children(Parent.value))
  /\ LET child    == Children(Parent.value)[Index + 1]
         comma    == IF Index > 0 /\ source.value.type = "scalar" THEN <<",">> ELSE <<>>
         isObject == Parent.value.type = "object"
     IN  /\ output' = output \o comma \o (IF isObject THEN <<child.name, ":">> ELSE <<>>)
         /\ NewLine(Len(output \o comma), width)
         /\ stack' = Append([Below EXCEPT ![Len(Below)].index = Index],
                            Source(IF isObject THEN child.value ELSE child))
  /\ inValue' = TRUE
  /\ UNCHANGED <<root, indent, width, written>>

\* The next property or element: its comma, line and name, and it is pushed.
WriteNext ==
  /\ ~inValue /\ ~written /\ Below # <<>> /\ Index < Len(Children(Parent.value))
  /\ LET child    == Children(Parent.value)[Index + 1]
         comma    == IF Index > 0 THEN <<",">> ELSE <<>>
         isObject == Parent.value.type = "object"
     IN  /\ output' = output \o comma \o (IF isObject THEN <<child.name, ":">> ELSE <<>>)
         /\ NewLine(Len(output \o comma), width)
         /\ stack' = Append([Below EXCEPT ![Len(Below)].index = Index],
                            Source(IF isObject THEN child.value ELSE child))
  /\ inValue' = TRUE
  /\ UNCHANGED <<root, indent, width, written>>

WriteClose ==
  /\ ~inValue /\ ~written /\ Below # <<>> /\ Index >= Len(Children(Parent.value))
  /\ width' = width - indent
  /\ NewLine(Len(output), width')
  /\ output' = Append(output, Close(Parent.value))
  /\ stack' = [Below EXCEPT ![Len(Below)].index = Index]
  /\ UNCHANGED <<root, indent, inValue, written>>

Next ==
  \/ WriteScalar
  \/ WriteEmpty
  \/ WriteOpen
  \/ Return
  \/ WriteNext
  \/ WriteClose

Spec == Init /\ [][Next]_vars

-----------------------------------------------------------------------------
(* Properties.                                                             *)

Count(s, tokens) == Cardinality({i \in 1 .. Len(s) : s[i] \in tokens})

\* A line begins with as many indentations as brackets are open there, its own
\* closing bracket counted: the stack of sources and newline_indent_ agree.
IndentsByDepth ==
  \A j \in 1 .. Len(lines) :
    LET before == SubSeq(output, 1, lines[j].at)
        closes == lines[j].at < Len(output) /\ output[lines[j].at + 1] \in {"}", "]"}
    IN  lines[j].spaces =
          indent * (Count(before, {"{", "["}) - Count(before, {"}", "]"})
                      - (IF closes THEN 1 ELSE 0))
=============================================================================
