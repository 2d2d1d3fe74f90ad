----------------------------- MODULE JsonObject -----------------------------
(***************************************************************************)
(* A JSON object whose properties a program works with (ObjectProperties),  *)
(* and what its values are: in every state the properties ask whether they *)
(* are equal, and what message the object stands for and whether that      *)
(* message gives it back.                                                  *)
(***************************************************************************)
EXTENDS MessageJson, ObjectProperties   \* each of the Pools also has what the build may do
                                        \* with doubles that are too large, and the type of
                                        \* message

vars == <<pool, list, saturates>>

-----------------------------------------------------------------------------

\* A value after WriteJson and ReadJson: integers are signed if they fit, and a double
\* without a fraction is written as an integer if it is not too large.
RECURSIVE Reread(_)
Reread(v) ==
  CASE TypeOf(v) = "unsigned" /\ v[2] <= MaxSigned -> Signed(v[2])
    [] TypeOf(v) = "double" /\ Abs(v[2]) <= 2 * MaxSigned /\ v[2] % 2 = 0 -> Signed(v[2] \div 2)
    [] TypeOf(v) = "object" ->
         Object(StableSortedAndUnique(
                  [i \in 1 .. Len(v[2]) |-> [v[2][i] EXCEPT !.value = Reread(@)]]))
    [] TypeOf(v) = "array" -> Array([i \in 1 .. Len(v[2]) |-> Reread(v[2][i])])
    [] OTHER -> v

Init == PropertiesInit /\ saturates \in pool.saturates

Next == PropertiesNext /\ UNCHANGED saturates

Spec == Init /\ [][Next]_vars

-----------------------------------------------------------------------------
(* Properties.                                                             *)

\* What a value means, whatever the lists and types it is held in: a number is a
\* number, and an object is a map in which the first property of a name counts.
RECURSIVE Meaning(_)
Meaning(v) ==
  CASE IsInteger(v)         -> <<"number", 2 * v[2]>>
    [] TypeOf(v) = "double" -> <<"number", v[2]>>
    [] TypeOf(v) = "array"  -> <<"array", [i \in 1 .. Len(v[2]) |-> Meaning(v[2][i])]>>
    [] TypeOf(v) = "object" ->
         <<"object", {<<n, Meaning(v[2][FindByName(v[2], n)].value)>> : n \in NamesOf(v[2])}>>
    [] OTHER -> v

\* The doubles in a value.
RECURSIVE DoublesIn(_)
DoublesIn(v) ==
  CASE TypeOf(v) = "double" -> {v[2]}
    [] TypeOf(v) = "array"  -> UNION {DoublesIn(v[2][i]) : i \in 1 .. Len(v[2])}
    [] TypeOf(v) = "object" -> UNION {DoublesIn(v[2][i].value) : i \in 1 .. Len(v[2])}
    [] OTHER -> {}

\* No two doubles of a set are so close that they are found equal.
Apart(doubles) == \A d, e \in doubles : AreAlmostEqual(d, e) => d = e

Values == {list[i].value : i \in 1 .. Len(list)}

\* The doubles 2^63 and 2^64 are only told from the largest integers by conversions that
\* C++ leaves undefined.
Defined(v) == saturates => ~AtTheEnds(v)

\* Two values that mean the same are equal, both ways round, once their properties are
\* normalized: whatever types their numbers have, and however their objects were put
\* together.  Two values that are equal both ways mean the same, also where an integer has
\* more bits than a double, unless there are doubles in them that AreAlmostEqual finds
\* equal: these are a few last bits apart.  AreJsonPropertiesNormalized says exactly of what NormalizeJsonProperties leaves alone
\* that it is normalized.
EqualMeansSame ==
  LET values == {v \in Values \cup {Object(list), Reread(Object(list))} : Defined(v)}
      both   == {[normal |-> Normalized(v), meaning |-> Meaning(v)] : v \in values}
      Equal(v, w) == AreEqual(v.normal, w.normal) /\ AreEqual(w.normal, v.normal)
  IN  /\ \A v, w \in both :
           /\ v.meaning = w.meaning => Equal(v, w)
           /\ Equal(v, w) /\ Apart(DoublesIn(v.normal) \cup DoublesIn(w.normal))
                => v.meaning = w.meaning
      /\ AreNormalized(Object(list)) <=> (Normalized(Object(list)) = Object(list))

\* json_util_test.cc: a bool and a number are not equal.
EqualityIsSymmetric ==
  \A v, w \in Values : AreEqual(v, w) <=> AreEqual(w, v)

\* Two messages hold the same, JSON values in them by their meaning.
RECURSIVE SameMessage(_, _, _)
SameMessage(m, n, type) ==
  \A f \in FieldsOf(type) :
    IF f.type = "property"
      THEN Meaning(Object(m[f.name])) = Meaning(Object(n[f.name]))
      ELSE /\ Len(m[f.name]) = Len(n[f.name])
           /\ \A i \in 1 .. Len(m[f.name]) :
                LET x == m[f.name][i]
                    y == n[f.name][i]
                IN  CASE f.type = "json" -> Meaning(x) = Meaning(y)
                      [] f.type \in DOMAIN Descriptors -> SameMessage(x, y, f.type)
                      [] OTHER -> x = y

\* What a message of the type gives back is the message itself.
GivesBack(held, type, again) ==
  again.ok /\ again.unknown = <<>> /\ SameMessage(again.held, held, type)

Survives(unboxed, type) ==
  unboxed.ok =>
    GivesBack(unboxed.held, type, UnboxMessage(Reread(MakeMessage(unboxed.held, type)), type))

\* Every message that can be made of an object survives: as JSON it is written, read and
\* unboxed as the same message, with nothing unknown in it.  So do messages in it, in
\* lists or under their names, numbers at the ends of their types, and the properties
\* that no field takes.
MessageSurvives == Survives(UnboxMessage(Object(list), pool.type), pool.type)

\* The integers of a type.
IntegersOf(type) ==
  CASE type = "int32"  -> MinInt32 .. MaxInt32
    [] type = "int64"  -> MinSigned .. MaxSigned
    [] type = "uint32" -> 0 .. MaxUint32
    [] type = "uint64" -> 0 .. MaxUnsigned
    [] OTHER           -> {}

\* The number of the last property for an integer field is what the message holds.
HoldsTheLast(unboxed, f) ==
  LET given == SelectSeq(list, LAMBDA p : p.name = f.name)
      last  == Last(given).value
  IN  /\ ~f.repeated /\ f.type \in {"int32", "int64", "uint32", "uint64"}
      /\ given # <<>> /\ Meaning(last)[1] = "number" /\ Defined(last)
      => \E n \in IntegersOf(f.type) :
           unboxed.held[f.name] = <<n>> /\ Meaning(last)[2] = 2 * n

\* What no field takes.
Others(type) == SelectSeq(list, LAMBDA p : p.name \notin FieldNames(type))

KeepsOthers(unboxed, type) ==
  LET keeps == {f \in FieldsOf(type) : f.type = "property"}
  IN  IF keeps = {}
        THEN SelectSeq(unboxed.unknown, LAMBDA p : p \in ToSet(Others(type))) = Others(type)
        ELSE \A f \in keeps : unboxed.held[f.name] = Others(type)

Keeps(unboxed, type) ==
  unboxed.ok =>
    KeepsOthers(unboxed, type) /\ \A f \in FieldsOf(type) : HoldsTheLast(unboxed, f)

\* An object is unboxed without a change to what it says: an integer field holds the number
\* of the last property for it, and a number that its type does not hold, or that has a
\* fraction, fails the whole; what no field takes is kept, all of it and in its order.
FieldsKeepTheirValues == Keeps(UnboxMessage(Object(list), pool.type), pool.type)
=============================================================================
