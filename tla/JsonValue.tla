----------------------------- MODULE JsonValue -----------------------------
(***************************************************************************)
(* JSON values, as pairs of a type and what the field of that type holds:   *)
(* their equality (json_util.cc), the normal form of the properties in them *)
(* (json_properties.cc), and the conversion of scalars to the types of C++  *)
(* (unbox_json_value.cc).                                                  *)
(*                                                                         *)
(* Integers are as wide as the constants say.  A double is kept in halves, *)
(* and an integer that becomes a double is rounded to Precision bits.      *)
(***************************************************************************)
EXTENDS PropertyList

CONSTANTS
  MaxUnsigned, MaxSigned,   \* the largest uint64_t and int64_t
  MaxUint32, MaxInt32,
  Precision,                \* bits of a double's significand
  Doubles,                  \* all the doubles, with the infinities and NaN
  MaxUlps,                  \* kMaxUlps: 4
  Numerals                  \* the strings that are integers, and which

VARIABLE saturates   \* what the build does with a double beyond the integer type it is
                     \* converted to, which C++ leaves undefined: it takes the nearest
                     \* integer (ARM), or the one farthest below zero, or zero (x86)

MinSigned == -MaxSigned - 1
MinInt32  == -MaxInt32 - 1

Null        == <<"null", 0>>
String(s)   == <<"string", s>>
Signed(n)   == <<"signed", n>>
Unsigned(n) == <<"unsigned", n>>
Double(d)   == <<"double", d>>
Bool(b)     == <<"bool", b>>
Array(s)    == <<"array", s>>
Object(s)   == <<"object", s>>

TypeOf(v) == v[1]
IsInteger(v) == TypeOf(v) \in {"signed", "unsigned"}

-----------------------------------------------------------------------------
(* Doubles.                                                                *)

\* Above every bound, which is what the comparisons make of NaN, too.
Infinity == 4 * (MaxUnsigned + 1)
NaN      == 2 * Infinity

Abs(n) == IF n < 0 THEN -n ELSE n

\* static_cast<double>: to the nearest multiple of what the last bit stands for, the
\* even one of two.
ToDouble(n) ==
  LET step  == CHOOSE s \in {2 ^ k : k \in 0 .. 20} :
                 /\ Abs(n) < s * 2 ^ Precision
                 /\ s > 1 => Abs(n) >= (s \div 2) * 2 ^ Precision
      below == Abs(n) \div step
      up    == 2 * (Abs(n) % step) > step \/ (2 * (Abs(n) % step) = step /\ below % 2 = 1)
      near  == step * (IF up THEN below + 1 ELSE below)
  IN  2 * (IF n < 0 THEN -near ELSE near)

\* static_cast<int64_t> and static_cast<uint64_t> of a double between the bounds' own
\* doubles, which lie one above the largest integers.
Truncated(d)  == IF d < 0 THEN -((-d) \div 2) ELSE d \div 2
ToSigned(d)   == IF d <= 2 * MaxSigned THEN Truncated(d)
                 ELSE IF saturates THEN MaxSigned ELSE MinSigned
ToUnsigned(d) == IF d <= 2 * MaxUnsigned THEN Truncated(d)
                 ELSE IF saturates THEN MaxUnsigned ELSE 0

InSigned(d)   == ToDouble(MinSigned) <= d /\ d <= ToDouble(MaxSigned)
InUnsigned(d) == 0 <= d /\ d <= ToDouble(MaxUnsigned)

\* The doubles on which the build decides.
AtTheEnds(v) == v \in {Double(ToDouble(MaxSigned)), Double(ToDouble(MaxUnsigned))}

-----------------------------------------------------------------------------
(* Equality and normal form.                                               *)

\* Mutant of SignedIsDouble: only as doubles are they compared.
SignedIsDoubleRounded(n, d) == InSigned(d) /\ ToDouble(n) = d

SignedIsDouble(n, d) == InSigned(d) /\ ToDouble(n) = d /\ n = ToSigned(d)
UnsignedIsDouble(n, d) == InUnsigned(d) /\ ToDouble(n) = d /\ n = ToUnsigned(d)

\* An integer against a number of any type; the code has a case for each pair of types.
IntegerIsNumber(i, v) ==
  CASE IsInteger(v) -> i[2] = v[2]
    [] TypeOf(v) = "double" -> IF TypeOf(i) = "signed" THEN SignedIsDouble(i[2], v[2])
                               ELSE UnsignedIsDouble(i[2], v[2])
    [] OTHER -> FALSE

\* Of doubles that are at most kMaxUlps places apart in the order of all of them, in which
\* the infinities come next to the largest finite ones.
AreAlmostEqual(d, e) ==
  /\ NaN \notin {d, e}
  /\ Cardinality({x \in Doubles \ {NaN} : (d < x /\ x <= e) \/ (e < x /\ x <= d)}) <= MaxUlps

RECURSIVE AreEqual(_, _)
AreEqual(left, right) ==
  LET same == TypeOf(left) = TypeOf(right)
  IN  CASE TypeOf(left) = "null"   -> same
        [] TypeOf(left) = "string" -> same /\ left[2] = right[2]
        [] IsInteger(left)         -> IntegerIsNumber(left, right)
        [] TypeOf(left) = "double" ->
             IF ~same THEN IsInteger(right) /\ IntegerIsNumber(right, left)
             ELSE IF NaN \in {left[2], right[2]} THEN left[2] = right[2]
             ELSE AreAlmostEqual(left[2], right[2])
        [] TypeOf(left) = "object" ->
             /\ same /\ Len(left[2]) = Len(right[2])
             /\ \A i \in 1 .. Len(left[2]) :
                  /\ left[2][i].name = right[2][i].name
                  /\ AreEqual(left[2][i].value, right[2][i].value)
        [] TypeOf(left) = "array"  ->
             /\ same /\ Len(left[2]) = Len(right[2])
             /\ \A i \in 1 .. Len(left[2]) : AreEqual(left[2][i], right[2][i])
        [] OTHER -> left[2] = (IF TypeOf(right) = "bool" THEN right[2] ELSE FALSE)

RECURSIVE Normalized(_)
Normalized(v) ==
  CASE TypeOf(v) = "object" ->
         LET list == StableSortedAndUnique(v[2])
         IN  Object([i \in 1 .. Len(list) |-> [list[i] EXCEPT !.value = Normalized(@)]])
    [] TypeOf(v) = "array" -> Array([i \in 1 .. Len(v[2]) |-> Normalized(v[2][i])])
    [] OTHER -> v

RECURSIVE AreNormalized(_)
AreNormalized(v) ==
  CASE TypeOf(v) = "object" ->
         IsSortedAndUnique(v[2]) /\ \A i \in 1 .. Len(v[2]) : AreNormalized(v[2][i].value)
    [] TypeOf(v) = "array" -> \A i \in 1 .. Len(v[2]) : AreNormalized(v[2][i])
    [] OTHER -> TRUE

-----------------------------------------------------------------------------
(* Conversion to scalars of C++: a sequence of the result, empty if there is none. *)

BoolAsNumber(b) == IF b THEN 1 ELSE 0

When(condition, x) == IF condition THEN <<x>> ELSE <<>>

UnboxInt64(v) ==
  CASE TypeOf(v) = "string"   -> LET n == IF v[2] \in DOMAIN Numerals THEN Numerals[v[2]]
                                          ELSE MaxUnsigned + 1
                                 IN  When(n \in MinSigned .. MaxSigned, n)
    [] TypeOf(v) = "signed"   -> <<v[2]>>
    [] TypeOf(v) = "unsigned" -> When(v[2] <= MaxSigned, v[2])
    [] TypeOf(v) = "double"   -> When(InSigned(v[2]) /\ ToDouble(ToSigned(v[2])) = v[2],
                                      ToSigned(v[2]))
    [] TypeOf(v) = "bool"     -> <<BoolAsNumber(v[2])>>
    [] OTHER                  -> <<>>

UnboxUint64(v) ==
  CASE TypeOf(v) = "string"   -> LET n == IF v[2] \in DOMAIN Numerals THEN Numerals[v[2]] ELSE -1
                                 IN  When(n \in 0 .. MaxUnsigned, n)
    [] TypeOf(v) = "signed"   -> When(v[2] >= 0, v[2])
    [] TypeOf(v) = "unsigned" -> <<v[2]>>
    [] TypeOf(v) = "double"   -> When(InUnsigned(v[2]) /\ ToDouble(ToUnsigned(v[2])) = v[2],
                                      ToUnsigned(v[2]))
    [] TypeOf(v) = "bool"     -> <<BoolAsNumber(v[2])>>
    [] OTHER                  -> <<>>

\* Mutant of UnboxInt32: the bound from below is off by one.
UnboxInt32OffByOne(v) ==
  SelectSeq(UnboxInt64(v), LAMBDA n : n <= MaxInt32 /\ n >= MinInt32 - 1)

UnboxInt32(v) == SelectSeq(UnboxInt64(v), LAMBDA n : n <= MaxInt32 /\ n >= MinInt32)
UnboxUint32(v) == SelectSeq(UnboxUint64(v), LAMBDA n : n <= MaxUint32)

UnboxDouble(v) ==
  CASE TypeOf(v) = "string" -> IF v[2] \in DOMAIN Numerals THEN <<ToDouble(Numerals[v[2]])>>
                               ELSE <<>>
    [] IsInteger(v)           -> <<ToDouble(v[2])>>
    [] TypeOf(v) = "double"   -> <<v[2]>>
    [] TypeOf(v) = "bool"     -> <<2 * BoolAsNumber(v[2])>>
    [] OTHER                  -> <<>>

UnboxBool(v) ==
  CASE TypeOf(v) = "string" -> When(v[2] \in {"true", "false"}, v[2] = "true")
    [] IsInteger(v) \/ TypeOf(v) = "double" -> <<v[2] # 0>>
    [] TypeOf(v) = "bool"     -> <<v[2]>>
    [] OTHER                  -> <<>>

UnboxString(v) == When(TypeOf(v) = "string", v[2])
=============================================================================
