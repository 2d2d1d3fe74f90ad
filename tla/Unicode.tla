------------------------------- MODULE Unicode -------------------------------
(***************************************************************************)
(* The functions of unicode.cc.  Strings are sequences of bytes, and bit   *)
(* operations are arithmetic: b & 0x3f is b % 64, (b & 0xc0) == 0x80 says   *)
(* that b \div 64 is 2, and joining bit fields is adding their values.     *)
(***************************************************************************)
EXTENDS Integers, Sequences

IsHighSurrogate(c) == c >= 55296 /\ c < 56320        \* 0xd800 .. 0xdbff
IsLowSurrogate(c)  == c >= 56320 /\ c < 57344        \* 0xdc00 .. 0xdfff
IsSurrogatePair(c) == c >= 65536 /\ c < 1114112      \* 0x10000 .. 0x10ffff

DecodeSurrogatePair(high, low) == 65536 + (high - 55296) * 1024 + (low - 56320)

EncodeSurrogatePair(c) ==
  <<((c - 65536) \div 1024) + 55296, ((c - 65536) % 1024) + 56320>>

\* The last byte of a code point's form, if not the first: its last six bits.
Continuation(c) == (c % 64) + 128

\* The UTF-8 form of a code point; empty if it has none.
WriteCodePointToBuffer(c) ==
  IF c < 128 THEN <<c>>
  ELSE IF c < 2048 THEN <<(c \div 64) + 192, Continuation(c)>>
  ELSE IF c < 65536
    THEN <<(c \div 4096) + 224, Continuation(c \div 64), Continuation(c)>>
  ELSE IF c < 2097152
    THEN <<(c \div 262144) + 240, Continuation(c \div 4096), Continuation(c \div 64),
           Continuation(c)>>
  ELSE <<>>

\* A byte of a string, which like every std::string is followed by a NUL.
ByteAt(str, i) == IF i <= Len(str) THEN str[i] ELSE 0

IsContinuation(b) == b \div 64 = 2

\* The code point at the start of a string, and the bytes it takes; 0 if the bytes
\* have not the form of one.  That its form is the shortest is not asked for.
ReadCodePointPrefix(str) ==
  LET a == ByteAt(str, 1)
      b == ByteAt(str, 2)
      c == ByteAt(str, 3)
      d == ByteAt(str, 4)
      Found(n, p) == [length |-> n, codePoint |-> p]
      none == Found(0, 0)
  IN  IF Len(str) < 1 THEN none
      ELSE IF a \div 128 = 0 THEN Found(1, a)
      ELSE IF a \div 64 = 2 \/ Len(str) < 2 \/ ~IsContinuation(b) THEN none
      ELSE IF a \div 32 = 6 THEN Found(2, (a % 32) * 64 + (b % 64))
      ELSE IF ~IsContinuation(c) THEN none
      ELSE IF a \div 16 = 14
        THEN Found(3, (a % 16) * 4096 + (b % 64) * 64 + (c % 64))
      ELSE IF a \div 8 = 30 /\ IsContinuation(d)
        THEN Found(4, (a % 8) * 262144 + (b % 64) * 4096 + (c % 64) * 64 + (d % 64))
      ELSE none

\* The code points that a text can hold, which is what makes a string of their
\* UTF-8 forms structurally valid.
IsScalarValue(c) ==
  c \in Nat /\ c < 1114112 /\ ~IsHighSurrogate(c) /\ ~IsLowSurrogate(c)

\* IsStructurallyValidUtf8 asks protobuf: the string is the UTF-8 forms of scalar
\* values, one after the other.
IsStructurallyValidUtf8(str) ==
  LET valid[i \in 1 .. Len(str) + 1] ==
        \/ i > Len(str)
        \/ LET p == ReadCodePointPrefix(SubSeq(str, i, Len(str)))
           IN  /\ p.length > 0 /\ IsScalarValue(p.codePoint)
               /\ i + p.length <= Len(str) + 1
               /\ WriteCodePointToBuffer(p.codePoint) = SubSeq(str, i, i + p.length - 1)
               /\ valid[i + p.length]
  IN  valid[1]
=============================================================================
