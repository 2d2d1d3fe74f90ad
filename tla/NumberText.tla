----------------------------- MODULE NumberText -----------------------------
(***************************************************************************)
(* Numbers as text: ReadNumberPrefix and WriteNumberToBuffer of            *)
(* number_util.cc, and what json_reader.cc makes of a number.  Texts are    *)
(* sequences of bytes.  strtod is left out: a double is the significand and *)
(* the exponent that ReadNumberPrefix hands to it.                          *)
(***************************************************************************)
EXTENDS Integers, Sequences, FiniteSetsExt, SequencesExt

CONSTANTS
  MaxUnsigned,   \* the largest uint64_t
  MaxSigned      \* the largest int64_t

ASSUME WidthAssumption ==
  /\ MaxSigned \in Nat /\ MaxSigned >= 9
  /\ MaxUnsigned = 2 * MaxSigned + 1

MinSigned == -MaxSigned - 1

Minus  == 45
Plus   == 43
Period == 46
Zero   == 48
ExponentSigns == {69, 101}

IsDigit(byte) == byte \in Zero .. Zero + 9

From(text, i)       == SubSeq(text, i, Len(text))
StartsIn(text, set) == text # <<>> /\ Head(text) \in set

\* The values of the digits that a text starts with.
DigitsOf(text) ==
  LET count == Max({n \in 0 .. Len(text) : \A i \in 1 .. n : IsDigit(text[i])})
  IN  [i \in 1 .. count |-> text[i] - Zero]

-----------------------------------------------------------------------------
(* Reading.                                                                *)

\* Mutant of Overflows: the digit is not reckoned with.
OverflowsWithoutDigit(value, digit, max) == value > max \div 10

\* The test of the three reading loops: no place for one more digit.
Overflows(value, digit, max) == value > (max - digit) \div 10

\* Digits are appended to a value for as long as they fit.
Accumulate(start, digits, max) ==
  FoldLeft(LAMBDA a, d :
             IF a.full \/ Overflows(a.value, d, max)
               THEN [a EXCEPT !.full = TRUE]
               ELSE [value |-> a.value * 10 + d, used |-> a.used + 1, full |-> FALSE],
           [value |-> start, used |-> 0, full |-> FALSE], digits)

\* What is read and from how many bytes: from none if there is no number.
NoNumber == [length |-> 0, value |-> 0]

ReadUnsigned(text) ==
  LET a == Accumulate(0, DigitsOf(text), MaxUnsigned)
  IN  IF a.full THEN NoNumber ELSE [length |-> a.used, value |-> a.value]

ReadSigned(text) ==
  LET negative == StartsIn(text, {Minus})
      u == ReadUnsigned(IF negative THEN Tail(text) ELSE text)
  IN  IF u.length = 0 \/ u.value > (IF negative THEN MaxSigned + 1 ELSE MaxSigned)
        THEN NoNumber
        ELSE IF negative THEN [length |-> u.length + 1, value |-> -u.value] ELSE u

\* The exponent that is written in the text is added, or subtracted, up to the ends of the
\* type.
AddExponent(exponent, explicit, negative) ==
  IF negative
    THEN IF exponent >= 0 \/ explicit <= MaxSigned + exponent + 1
           THEN exponent - explicit ELSE MinSigned
    ELSE IF exponent <= 0 \/ explicit <= MaxSigned - exponent
           THEN exponent + explicit ELSE MaxSigned

\* The text of an exponent, which may be missing: its length, and how it adds up
\* with the exponent that the digits before it have.  There is no number if its sign
\* has no digits.
ReadExponent(text, exponent) ==
  LET given    == StartsIn(text, ExponentSigns)
      signed   == given /\ StartsIn(Tail(text), {Minus, Plus})
      negative == signed /\ text[2] = Minus
      digits   == DigitsOf(From(text, IF signed THEN 3 ELSE 2))
      explicit == Accumulate(0, digits, MaxSigned).value
  IN  [valid  |-> given => digits # <<>>,
       length |-> IF given THEN (IF signed THEN 2 ELSE 1) + Len(digits) ELSE 0,
       sum    |-> IF given THEN AddExponent(exponent, explicit, negative) ELSE exponent]

\* Mutant of Skipped: they are forgotten.
SkippedForgotten(digits, a) == 0

\* Digits of the whole that do not fit: each is a factor of ten.
Skipped(digits, a) == Len(digits) - a.used

\* What strtod is given.  When digits of the whole were skipped, some of the fraction
\* may fit again.
ReadDouble(text) ==
  LET sign     == IF StartsIn(text, {Minus}) THEN 1 ELSE 0
      whole    == DigitsOf(From(text, sign + 1))
      w        == Accumulate(0, whole, MaxUnsigned)
      point    == StartsIn(From(text, sign + Len(whole) + 1), {Period})
      fraction == IF point THEN DigitsOf(From(text, sign + Len(whole) + 2)) ELSE <<>>
      f        == Accumulate(w.value, fraction, MaxUnsigned)
      length   == sign + Len(whole) + (IF point THEN 1 ELSE 0) + Len(fraction)
      e        == ReadExponent(From(text, length + 1), Skipped(whole, w) - f.used)
  IN  IF length = sign \/ ~e.valid
        THEN [length |-> 0]
        ELSE [length |-> length + e.length, negative |-> sign = 1,
              significand |-> f.value, exponent |-> e.sum]

\* The number at the start of a JSON text: an integer if it is written as one and fits,
\* signed if it can be, or a double.
ReadNumber(text) ==
  LET negative == StartsIn(text, {Minus})
      integer  == IF negative THEN ReadSigned(text) ELSE ReadUnsigned(text)
      digits   == DigitsOf(IF negative THEN Tail(text) ELSE text)
      double   == ReadDouble(text)
  IN  IF (Len(digits) >= 2 /\ Head(digits) = 0) \/ (digits = <<>> /\ ~negative)
        THEN [type |-> "refused", length |-> 0]
      ELSE IF integer.length > 0
                /\ ~StartsIn(From(text, integer.length + 1), ExponentSigns \cup {Period})
        THEN [type |-> IF integer.value <= MaxSigned THEN "signed" ELSE "unsigned",
              length |-> integer.length, value |-> integer.value]
      ELSE IF double.length > 0
        THEN [type |-> "double", length |-> double.length, value |-> double]
      ELSE [type |-> "refused", length |-> 0]

-----------------------------------------------------------------------------
(* Writing.                                                                *)

WriteUnsigned(value) ==
  LET digits[n \in 0 .. value] ==
        IF n < 10 THEN <<Zero + n>> ELSE Append(digits[n \div 10], Zero + (n % 10))
  IN  digits[value]

WriteNumber(value) ==
  IF value >= 0 THEN WriteUnsigned(value) ELSE <<Minus>> \o WriteUnsigned(-value)
=============================================================================
