----------------------------- MODULE JsonString -----------------------------
(***************************************************************************)
(* Strings in JSON text, byte by byte: WriteString of json_writer.cc, and   *)
(* ReadString of json_reader.cc reading what was written, or reading the    *)
(* same string in any other spelling that JSON allows.                     *)
(***************************************************************************)
EXTENDS Unicode, HexDigits, SequencesExt

CONSTANT
  Contents   \* the strings, each as a sequence of characters: the UTF-8 forms of
             \* code points, or pieces that are no UTF-8

Byte == 0 .. 255

ASSUME ContentsAssumption ==
  \A contents \in Contents :
    /\ contents \in Seq(Seq(Byte))
    /\ \A i \in 1 .. Len(contents) :
         IsStructurallyValidUtf8(contents[i]) =>
           /\ contents[i] # <<>>
           /\ ReadCodePointPrefix(contents[i]).length = Len(contents[i])

Quote     == 34
Backslash == 92
LetterU   == 117

VARIABLES
  str,             \* the string
  escapeUnicode,   \* JsonWriterConfig.escape_unicode
  allowControl,    \* JsonReaderConfig.allow_control_characters
  origin,          \* of the text: "written" by WriteString, "spelled" by somebody
                   \* else, or the latter "cut" short
  phase,           \* "writing", "reading", "read" or "failed"
  offset,          \* WriteString: the bytes of str that are written
  output,          \* *output_
  remaining,       \* ReadString: remaining_
  result           \* ReadString: *str

vars == <<str, escapeUnicode, allowControl, origin, phase, offset, output,
          remaining, result>>

-----------------------------------------------------------------------------
(* The writer.                                                             *)

WriterEscapes == {<<34, 34>>, <<92, 92>>, <<47, 47>>, <<8, 98>>, <<10, 110>>,
                  <<12, 102>>, <<13, 114>>, <<9, 116>>}

\* WriteFourHexDigits with the backslash and the letter before it.  Its parameter
\* has 32 bits, and that of WriteHexDigit has 8.
Escaped(value) ==
  {<<Backslash, LetterU, a, b, c, d>> :
     a \in WriteHexDigit((value \div 4096) % 256), b \in WriteHexDigit((value \div 256) % 16),
     c \in WriteHexDigit((value \div 16) % 16),    d \in WriteHexDigit(value % 16)}

rest == SubSeq(str, offset + 1, Len(str))

Write(bytes, count) ==
  /\ output' = output \o bytes /\ offset' = offset + count
  /\ UNCHANGED <<str, escapeUnicode, allowControl, origin, phase, remaining, result>>

Writing == phase = "writing" /\ offset < Len(str)
HasEscape == \E e \in WriterEscapes : e[1] = Head(rest)

WriteShortEscape ==
  /\ Writing
  /\ \E e \in WriterEscapes : e[1] = Head(rest) /\ Write(<<Backslash, e[2]>>, 1)

\* A byte that needs no escape, and one that begins no code point.
WriteAsIs ==
  /\ Writing /\ ~HasEscape
  /\ ~escapeUnicode \/ Head(rest) < 128 \/ ReadCodePointPrefix(rest).length = 0
  /\ Write(<<Head(rest)>>, 1)

\* A code point beyond ASCII, escaped: as a surrogate pair if it needs one.
WriteCodePoint ==
  /\ Writing /\ ~HasEscape /\ escapeUnicode /\ Head(rest) >= 128
  /\ LET p == ReadCodePointPrefix(rest)
         s == EncodeSurrogatePair(p.codePoint)
     IN  /\ p.length > 0
         /\ IF IsSurrogatePair(p.codePoint)
              THEN \E high \in Escaped(s[1]), low \in Escaped(s[2]) :
                     Write(high \o low, p.length)
              ELSE \E e \in Escaped(p.codePoint) : Write(e, p.length)

\* The closing quote; the text goes to the reader.
WriteClosingQuote ==
  /\ phase = "writing" /\ offset = Len(str)
  /\ output' = Append(output, Quote)
  /\ phase' = "reading" /\ remaining' = Tail(output')
  /\ UNCHANGED <<str, escapeUnicode, allowControl, origin, offset, result>>

-----------------------------------------------------------------------------
(* The reader, which has read the opening quote.                           *)

ReaderEscapes == {<<34, 34>>, <<92, 92>>, <<47, 47>>, <<98, 8>>, <<102, 12>>,
                  <<110, 10>>, <<114, 13>>, <<116, 9>>}

\* "\" and "u" and four digits at the start of a text.
StartsEscape(s) ==
  Len(s) >= 6 /\ s[1] = Backslash /\ s[2] = LetterU /\ \A i \in 3 .. 6 : IsHexDigit(s[i])
EscapeValue(s) == ReadHexDigit(s[3]) * 4096 + ReadHexDigit(s[4]) * 256
                    + ReadHexDigit(s[5]) * 16 + ReadHexDigit(s[6])

\* The first character, if there is one.
First == IF remaining = <<>> THEN <<>> ELSE <<Head(remaining)>>

Read(bytes, count) ==
  /\ result' = result \o bytes
  /\ remaining' = SubSeq(remaining, count + 1, Len(remaining))
  /\ UNCHANGED <<str, escapeUnicode, allowControl, origin, phase, offset, output>>

Ends(how) ==
  /\ phase' = how
  /\ UNCHANGED <<str, escapeUnicode, allowControl, origin, offset, output, remaining,
                 result>>

ReadClosingQuote ==
  /\ phase = "reading" /\ First = <<Quote>>
  /\ Ends(IF IsStructurallyValidUtf8(result) THEN "read" ELSE "failed")

\* A byte that stands for itself; a control character only if they are allowed.
ReadAsIs ==
  /\ phase = "reading" /\ First \notin {<<>>, <<Quote>>, <<Backslash>>}
  /\ IF Head(remaining) < 32 /\ ~allowControl
       THEN Ends("failed")
       ELSE Read(First, 1)

ReadShortEscape ==
  /\ phase = "reading" /\ First = <<Backslash>> /\ Len(remaining) >= 2
  /\ \E e \in ReaderEscapes : e[1] = remaining[2] /\ Read(<<e[2]>>, 2)

\* Mutant of ReadUnicodeEscape: each half of a surrogate pair is a code point.
ReadUnicodeEscapeHalves ==
  /\ phase = "reading" /\ StartsEscape(remaining)
  /\ Read(WriteCodePointToBuffer(EscapeValue(remaining)), 6)

\* \u and four digits; after a high surrogate, a low one in the same form.
ReadUnicodeEscape ==
  /\ phase = "reading" /\ StartsEscape(remaining)
  /\ LET high == EscapeValue(remaining)
         then == SubSeq(remaining, 7, Len(remaining))
     IN  IF ~IsHighSurrogate(high)
           THEN Read(WriteCodePointToBuffer(high), 6)
           ELSE IF StartsEscape(then) /\ IsLowSurrogate(EscapeValue(then))
                  THEN Read(WriteCodePointToBuffer(
                              DecodeSurrogatePair(high, EscapeValue(then))), 12)
                  ELSE Ends("failed")

\* The text ends, or has something that is no escape after a backslash.
ReadNothing ==
  /\ phase = "reading"
  /\ \/ First = <<>>
     \/ /\ First = <<Backslash>> /\ ~StartsEscape(remaining)
        /\ ~(Len(remaining) >= 2 /\ \E e \in ReaderEscapes : e[1] = remaining[2])
  /\ Ends("failed")

-----------------------------------------------------------------------------
(* Texts from elsewhere.                                                   *)

HexSpelling(value) ==
  LET Digit(weight, upper) ==
        LET digit == (value \div weight) % 16
        IN  IF digit < 10 THEN 48 + digit ELSE digit + (IF upper THEN 55 ELSE 87)
  IN  {<<Backslash, LetterU, Digit(4096, upper), Digit(256, upper), Digit(16, upper),
         Digit(1, upper)>> : upper \in BOOLEAN}

\* JSON's spellings of a character: as it is, unless it is a control character or
\* has to be escaped; with a short escape; with \u.
Spellings(char) ==
  LET c == ReadCodePointPrefix(char).codePoint
      s == EncodeSurrogatePair(c)
  IN  (IF c < 32 \/ c = Quote \/ c = Backslash THEN {} ELSE {char})
        \cup {<<Backslash, e[1]>> : e \in {f \in ReaderEscapes : f[2] = c}}
        \cup (IF IsSurrogatePair(c)
                THEN {h \o l : h \in HexSpelling(s[1]), l \in HexSpelling(s[2])}
                ELSE HexSpelling(c))

\* The texts in which somebody has spelled contents, each character in one way.
SpelledTexts(contents) ==
  LET every  == UNION {Spellings(contents[i]) : i \in 1 .. Len(contents)}
      chosen == {f \in [1 .. Len(contents) -> every] :
                   \A i \in 1 .. Len(contents) : f[i] \in Spellings(contents[i])}
  IN  {FlattenSeq(f) : f \in chosen}

-----------------------------------------------------------------------------

Init ==
  /\ escapeUnicode \in BOOLEAN /\ allowControl \in BOOLEAN
  /\ offset = 0 /\ result = <<>>
  /\ \E contents \in Contents :
       /\ str = FlattenSeq(contents)
       /\ \/ /\ origin = "written" /\ phase = "writing"
             /\ output = <<Quote>> /\ remaining = <<>>
          \/ /\ phase = "reading" /\ output = <<>>
             /\ \A i \in 1 .. Len(contents) : IsStructurallyValidUtf8(contents[i])
             /\ \E text \in SpelledTexts(contents) :
                  \/ origin = "spelled" /\ remaining = Append(text, Quote)
                  \/ /\ origin = "cut"
                     /\ \E length \in 0 .. Len(text) : remaining = SubSeq(text, 1, length)

Next ==
  \/ WriteShortEscape
  \/ WriteAsIs
  \/ WriteCodePoint
  \/ WriteClosingQuote
  \/ ReadClosingQuote
  \/ ReadAsIs
  \/ ReadShortEscape
  \/ ReadUnicodeEscape
  \/ ReadNothing

Spec == Init /\ [][Next]_vars

-----------------------------------------------------------------------------
(* Properties.                                                             *)

Valid == IsStructurallyValidUtf8(str)
Done  == phase \in {"read", "failed"}

\* The writer has no escape for these.
HasRawControl == \E i \in 1 .. Len(str) : str[i] < 32 /\ \A e \in WriterEscapes : e[1] # str[i]

\* A string that is UTF-8 is read back as it was, whoever spelled it; a string that is
\* not is refused rather than changed; so is a text that is cut short, wherever.  Two
\* things are left out: the writer's raw control characters where they are not allowed
\* (HasRawControl), and escape_unicode of bytes that are not UTF-8.
ReadsBack ==
  Done =>
    /\ origin = "cut" => phase = "failed"
    /\ \/ origin = "spelled"
       \/ origin = "written" /\ Valid /\ (allowControl \/ ~HasRawControl)
         => phase = "read" /\ result = str
    /\ origin = "written" /\ ~Valid /\ ~escapeUnicode => phase = "failed"
=============================================================================
