------------------------------- MODULE Texts -------------------------------
(***************************************************************************)
(* The texts of the library.  A behavior handles one of them: a string in   *)
(* JSON (JsonString); an integer that is written and read back, or a number *)
(* that somebody has spelled; the query of a URL, parameter by parameter;   *)
(* or a text that is gone through in pieces to know the location.          *)
(***************************************************************************)
EXTENDS JsonString, NumberText, UrlText, TextLocation

CONSTANTS
  Numbers,     \* spelled numbers: [negative, whole, fraction, exponent], the digits as
               \* sequences, the exponent a sequence of at most one integer
  Queries,     \* sequences of pieces, which are between the ampersands: a pair of byte
               \* strings that somebody spells, or a scrap that is none
  Documents    \* sequences of bytes

ASSUME NumbersAssumption ==
  \A n \in Numbers :
    /\ n.negative \in BOOLEAN
    /\ n.whole \in Seq(0 .. 9) /\ n.whole # <<>> /\ n.fraction \in Seq(0 .. 9)
    /\ n.exponent \in Seq(Int) /\ Len(n.exponent) <= 1
    /\ Len(n.whole) + Len(n.fraction) <= MaxSigned \div 2   \* as memory has it

\* What is between the ampersands of a query.
Piece == [type : {"pair"}, name : Seq(Byte), value : Seq(Byte)]
           \cup [type : {"scrap"}, text : Seq(Byte)]

\* The bytes that the URL parser leaves in a query.
IsUrlByte(b) == b \in (33 .. 126 \ {35}) \cup 128 .. 255

\* A text between ampersands that has no equal sign, or a percent sign without two digits.
IsScrap(t) ==
  /\ \A i \in 1 .. Len(t) : IsUrlByte(t[i]) /\ t[i] # Ampersand
  /\ \/ ~Contains(t, EqualSign)
     \/ \E i \in 1 .. Len(t) :
          /\ t[i] = Percent
          /\ ~(i + 2 <= Len(t) /\ IsHexDigit(t[i + 1]) /\ IsHexDigit(t[i + 2]))

ASSUME QueriesAssumption ==
  \A query \in Queries :
    /\ query \in Seq(Piece) /\ query # <<>>
    /\ \A i \in 1 .. Len(query) : query[i].type = "scrap" => IsScrap(query[i].text)

ASSUME DocumentsAssumption == Documents \subseteq Seq(Byte)

VARIABLES
  kind,       \* "string", "integer", "number", "query" or "document"
  subject,    \* what the text says
  text,       \* the text, or what is left of it
  outcome,    \* what is made of it
  finished    \* nothing is left to do

textVars == <<kind, subject, text, outcome, finished>>

-----------------------------------------------------------------------------

\* The ways to write an exponent, and a number with it.
ExponentTexts(exponent) ==
  IF exponent = <<>> THEN {<<>>}
  ELSE {<<101>> \o WriteNumber(exponent[1])}
         \cup {<<69, Plus>> \o WriteNumber(e) : e \in {exponent[1]} \cap Nat}

DigitTexts(digits) == [i \in 1 .. Len(digits) |-> Zero + digits[i]]

NumberTexts(n) ==
  {(IF n.negative THEN <<Minus>> ELSE <<>>) \o DigitTexts(n.whole)
     \o (IF n.fraction = <<>> THEN <<>> ELSE <<Period>> \o DigitTexts(n.fraction)) \o e :
     e \in ExponentTexts(n.exponent)}

\* One of each set, in their order.
Chosen(sets) ==
  {f \in [DOMAIN sets -> UNION {sets[i] : i \in DOMAIN sets}] :
     \A i \in DOMAIN sets : f[i] \in sets[i]}

\* The ways to write a byte where some bytes are reserved: its escape with digits of
\* either case, a plus sign for a blank, or itself.
ByteTexts(byte, reserved) ==
  LET Digits(d) == {h \in 48 .. 102 : IsHexDigit(h) /\ ReadHexDigit(h) = d}
  IN  {<<Percent, h, l>> : h \in Digits(byte \div 16), l \in Digits(byte % 16)}
        \cup (IF byte = Space THEN {<<PlusSign>>} ELSE {})
        \cup (IF IsUrlByte(byte) /\ byte \notin reserved THEN {<<byte>>} ELSE {})

ComponentTexts(bytes, reserved) ==
  {FlattenSeq(f) : f \in Chosen([i \in 1 .. Len(bytes) |-> ByteTexts(bytes[i], reserved)])}

\* The ways to write a piece of a query; EncodeUriComponent's is one, where it has any.
Reserved == {Percent, Ampersand, PlusSign}

IsText(piece) == IsStructurallyValidUtf8(piece.name) /\ IsStructurallyValidUtf8(piece.value)

PairText(name, value) == name \o <<EqualSign>> \o value

PieceTexts(piece) ==
  IF piece.type = "scrap" THEN {piece.text}
  ELSE {PairText(name, value) :
          name \in ComponentTexts(piece.name, Reserved \cup {EqualSign}),
          value \in ComponentTexts(piece.value, Reserved)}
         \cup (IF IsText(piece)
                 THEN {PairText(EncodeUriComponent(piece.name), EncodeUriComponent(piece.value))}
                 ELSE {})

QueryTexts(query) ==
  {Tail(FlattenSeq([i \in DOMAIN texts |-> <<Ampersand>> \o texts[i]])) :
     texts \in Chosen([i \in 1 .. Len(query) |-> PieceTexts(query[i])])}

StringIdle ==
  /\ str = <<>> /\ escapeUnicode = FALSE /\ allowControl = FALSE /\ origin = "none"
  /\ phase = "idle" /\ offset = 0 /\ output = <<>> /\ remaining = <<>> /\ result = <<>>

TextsInit ==
  \/ /\ Init
     /\ kind = "string" /\ subject = <<>> /\ text = <<>> /\ outcome = <<>>
     /\ finished = FALSE
  \/ /\ StringIdle /\ finished = FALSE
     /\ \/ /\ kind = "integer" /\ subject \in MinSigned .. MaxUnsigned
           /\ text = <<>> /\ outcome = <<>>
        \/ /\ kind = "number" /\ subject \in Numbers
           /\ text \in NumberTexts(subject) /\ outcome = <<>>
        \/ /\ kind = "query" /\ subject \in Queries
           /\ text \in {PlusesToSpaces(t) : t \in QueryTexts(subject)} /\ outcome = <<>>
        \/ kind = "document" /\ subject \in Documents /\ text = subject /\ outcome = Start

WriteInteger ==
  /\ kind = "integer" /\ text = <<>>
  /\ text' = WriteNumber(subject)
  /\ UNCHANGED <<kind, subject, outcome, finished>>

ReadNumberText ==
  /\ kind \in {"integer", "number"} /\ text # <<>> /\ ~finished
  /\ outcome' = ReadNumber(text) /\ finished' = TRUE
  /\ UNCHANGED <<kind, subject, text>>

\* One turn of ParseUrl's loop.
ParsePair ==
  /\ kind = "query" /\ ~finished
  /\ outcome' = outcome \o ParametersOf(UpTo(text, Ampersand))
  /\ text' = After(text, Ampersand)
  /\ finished' = ~Contains(text, Ampersand)
  /\ UNCHANGED <<kind, subject>>

\* The reader takes one character, or as many as it has looked at.
AdvanceReader ==
  /\ kind = "document" /\ text # <<>>
  /\ \/ outcome' = AdvanceOne(outcome, Head(text)) /\ text' = Tail(text)
     \/ \E count \in 1 .. Len(text) :
          /\ outcome' = Advance(outcome, SubSeq(text, 1, count))
          /\ text' = SubSeq(text, count + 1, Len(text))
  /\ UNCHANGED <<kind, subject, finished>>

TextsNext ==
  \/ Next /\ UNCHANGED textVars
  \/ (WriteInteger \/ ReadNumberText \/ ParsePair \/ AdvanceReader) /\ UNCHANGED vars

TextsSpec == TextsInit /\ [][TextsNext]_<<vars, textVars>>

-----------------------------------------------------------------------------
(* Properties.                                                             *)

ValueOf(digits) == FoldLeft(LAMBDA v, d : 10 * v + d, 0, digits)

\* What is written as a one and n zeros.
PowerOfTen(n) == ValueOf([i \in 1 .. n + 1 |-> IF i = 1 THEN 1 ELSE 0])

\* The type under which the JSON reader keeps an integer.
TypeOf(v) ==
  IF v \in MinSigned .. MaxSigned THEN "signed"
  ELSE IF v \in 0 .. MaxUnsigned THEN "unsigned" ELSE "double"

\* Every integer of 64 bits, of either type, is read as it was written; an integer that
\* somebody has spelled is read exactly if it fits a type, to its last digit, and
\* becomes a double if it does not: the checks for overflow are off by nothing at either
\* end.  Digits after a leading zero are refused, and whatever else JSON calls a
\* number is read in its full length.
IntegersAreExact ==
  finished =>
    /\ kind = "integer" =>
         outcome = [type |-> TypeOf(subject), length |-> Len(text), value |-> subject]
    /\ kind = "number" =>
         LET v == ValueOf(subject.whole) * (IF subject.negative THEN -1 ELSE 1)
             leadingZero == Len(subject.whole) > 1 /\ Head(subject.whole) = 0
         IN  /\ outcome.length = IF leadingZero THEN 0 ELSE Len(text)
             /\ ~leadingZero /\ subject.fraction = <<>> /\ subject.exponent = <<>> =>
                  /\ outcome.type = TypeOf(v)
                  /\ outcome.type # "double" => outcome.value = v

\* However many digits a number has and wherever its point is, the significand and the
\* exponent that are made of it stand for the number it says: exactly if its digits
\* fit, else less by a fraction that only digits beyond the type's precision make;
\* an exponent beyond the type's range stays on its side and does not wrap around.
DoublesMeanTheirText ==
  kind = "number" /\ finished /\ outcome.type = "double" =>
    LET digits == subject.whole \o subject.fraction
        v == ValueOf(digits)
        explicit == IF subject.exponent = <<>> THEN 0 ELSE subject.exponent[1]
        power    == explicit - Len(subject.fraction)
        skipped  == outcome.value.exponent - power
        read     == outcome.value.significand * PowerOfTen(skipped)
        fits     == (MaxSigned - 9) \div 10
    IN  /\ outcome.value.negative = subject.negative
        /\ IF explicit \in -fits .. fits
             THEN /\ skipped \in 0 .. Len(digits)
                  /\ read <= v /\ (v - read) * ((MaxUnsigned - 9) \div 10) <= v
                  /\ v <= MaxUnsigned => read = v
             ELSE IF explicit > 0
               THEN outcome.value.exponent \in fits - Len(digits) .. MaxSigned
               ELSE outcome.value.exponent \in MinSigned .. Len(digits) - fits

\* The parameters that somebody means by a piece: one, if it has a name and is UTF-8.
MeantBy(piece) ==
  IF piece.type = "pair" /\ piece.name # <<>> /\ IsText(piece)
    THEN <<[name |-> piece.name, value |-> piece.value]>> ELSE <<>>

\* Of a query, what was spelled parameter by parameter, by EncodeUriComponent or by
\* anyone, comes out as it was meant and in its order, whatever is between the
\* ampersands beside it: pieces without an equal sign or a name, with a cut or wrong
\* escape, or that are no UTF-8 are left out alone.
QueryReadsBack ==
  kind = "query" /\ finished =>
    outcome = FoldLeft(LAMBDA all, piece : all \o MeantBy(piece), <<>>, subject)

\* The column to which a text without newlines leads.
ColumnOf(line) ==
  LET column[i \in 0 .. Len(line)] ==
        IF i = 0 THEN 1
        ELSE IF line[i] = Tab
          THEN CHOOSE c \in column[i - 1] + 1 .. column[i - 1] + 8 : c % 8 = 1
        ELSE column[i - 1] + (IF line[i] \in 128 .. 191 THEN 0 ELSE 1)
  IN  column[Len(line)]

\* Into whatever pieces the reader cuts a text, also inside a character or a line, it
\* knows the same location: that of what it has gone through.
LocationByPieces ==
  kind = "document" =>
    LET gone == SubSeq(subject, 1, Len(subject) - Len(text))
        newlines == {i \in 1 .. Len(gone) : gone[i] = Newline}
    IN  outcome = [offset |-> Len(gone), line |-> 1 + Cardinality(newlines),
                   column |-> ColumnOf(SubSeq(gone, Max(newlines \cup {0}) + 1, Len(gone)))]
=============================================================================
