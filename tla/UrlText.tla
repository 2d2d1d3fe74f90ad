------------------------------ MODULE UrlText ------------------------------
(***************************************************************************)
(* Percent encoding, and the parameters in the query of a URL: url_util.cc. *)
(* Texts are sequences of bytes.                                           *)
(***************************************************************************)
EXTENDS Unicode, HexDigits, SequencesExt

Space     == 32
Percent   == 37
Ampersand == 38
PlusSign  == 43
EqualSign == 61

\* Mutant of IsUriMark: a plus sign is left as it is.
IsUriMarkOrPlus(b) == b \in {45, 95, 46, 33, 126, 42, 39, 40, 41, PlusSign}

\* - _ . ! ~ * ' ( )
IsUriMark(b) == b \in {45, 95, 46, 33, 126, 42, 39, 40, 41}

IsUriUnescaped(b) == b \in 48 .. 57 \cup 65 .. 90 \cup 97 .. 122 \/ IsUriMark(b)

\* Of a string that is UTF-8.
EncodeUriComponent(str) ==
  FlattenSeq([i \in 1 .. Len(str) |->
    IF IsUriUnescaped(str[i])
      THEN <<str[i]>>
      ELSE <<Percent, HexDigit(str[i] \div 16), HexDigit(str[i] % 16)>>])

\* No byte: it stands for an escape that is cut short or has no digits, and makes
\* what it is part of no UTF-8.
Malformed == 256

\* The bytes behind a text and its percent escapes.
Unescaped(str) ==
  LET IsEscape(i) == /\ i + 2 <= Len(str)
                     /\ IsHexDigit(str[i + 1]) /\ IsHexDigit(str[i + 2])
      from[i \in 1 .. Len(str) + 1] ==
        IF i > Len(str) THEN <<>>
        ELSE IF str[i] # Percent THEN <<str[i]>> \o from[i + 1]
        ELSE IF ~IsEscape(i) THEN <<Malformed>>
        ELSE <<ReadHexDigit(str[i + 1]) * 16 + ReadHexDigit(str[i + 2])>> \o from[i + 3]
  IN  from[1]

\* DecodeUriComponent, as DecodeUri too, succeeds if this holds of Unescaped(str).
IsDecoded(bytes) == ~Contains(bytes, Malformed) /\ IsStructurallyValidUtf8(bytes)

\* A text up to the first of a delimiter, and what follows it.
UpTo(str, byte) ==
  IF Contains(str, byte) THEN SubSeq(str, 1, SelectInSeq(str, LAMBDA b : b = byte) - 1) ELSE str
After(str, byte) == SubSeq(str, Len(UpTo(str, byte)) + 2, Len(str))

\* The parameters in a pair of the query: one, or none if it is no pair, has no name or
\* does not decode.
ParametersOf(pair) ==
  LET name  == Unescaped(UpTo(pair, EqualSign))
      value == Unescaped(After(pair, EqualSign))
  IN  IF Contains(pair, EqualSign) /\ name # <<>> /\ IsDecoded(name) /\ IsDecoded(value)
        THEN <<[name |-> name, value |-> value]>>
        ELSE <<>>

PlusesToSpaces(query) ==
  [i \in 1 .. Len(query) |-> IF query[i] = PlusSign THEN Space ELSE query[i]]
=============================================================================
