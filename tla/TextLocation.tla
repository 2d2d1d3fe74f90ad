---------------------------- MODULE TextLocation ----------------------------
(***************************************************************************)
(* Where in a text the reader is: text_location.cc.  A line ends with a     *)
(* newline, a tab goes to the next multiple of eight, and the bytes of a    *)
(* character other than its first do not count.                            *)
(***************************************************************************)
EXTENDS Integers, Sequences, FiniteSetsExt, SequencesExt

Tab     == 9
Newline == 10

Start == [offset |-> 0, line |-> 1, column |-> 1]

ColumnAfter(column, byte) ==
  IF byte = Tab THEN 8 * ((column - 1) \div 8) + 9
  ELSE IF byte \div 64 # 2 THEN column + 1
  ELSE column

AdvanceOne(location, byte) ==
  IF byte = Newline
    THEN [offset |-> location.offset + 1, line |-> location.line + 1, column |-> 1]
    ELSE [location EXCEPT !.offset = @ + 1, !.column = ColumnAfter(@, byte)]

\* Mutant of ColumnFrom: the column goes on after a newline.
ColumnFromBefore(location, newline) == location.column

\* Where the last line of a piece begins: after its last newline, if it has one.
ColumnFrom(location, newline) == IF newline = 0 THEN location.column ELSE 1

\* Over a piece of text: its newlines are counted, then its last line is gone through.
Advance(location, data) ==
  LET newlines == {i \in 1 .. Len(data) : data[i] = Newline}
      last     == Max(newlines \cup {0})
  IN  [offset |-> location.offset + Len(data),
       line   |-> location.line + Cardinality(newlines),
       column |-> FoldLeft(ColumnAfter, ColumnFrom(location, last),
                           SubSeq(data, last + 1, Len(data)))]
=============================================================================
