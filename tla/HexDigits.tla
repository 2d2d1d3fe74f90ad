----------------------------- MODULE HexDigits -----------------------------
(***************************************************************************)
(* The hexadecimal digits of string_piece_util.h, as bytes.                *)
(***************************************************************************)
EXTENDS Integers

IsHexDigit(b)   == b \in 48 .. 57 \cup 65 .. 70 \cup 97 .. 102
ReadHexDigit(b) == IF b < 65 THEN b - 48 ELSE ((b - 65) % 16) + 10

HexDigit(digit) == IF digit < 10 THEN 48 + digit ELSE 87 + digit

\* What the build may find beyond the sixteen digits of WriteHexDigit's table.
Beyond == {0, 120}

\* The characters WriteHexDigit may return.
WriteHexDigit(digit) == IF digit < 16 THEN {HexDigit(digit)} ELSE Beyond
=============================================================================
