---------------------------- MODULE MessageJson ----------------------------
(***************************************************************************)
(* Protobuf messages as JSON values and back: MakeJsonValue of             *)
(* make_json_value_message.cc and UnboxJsonValue of                        *)
(* unbox_json_value_message.cc, which go by the descriptor of the message. *)
(*                                                                         *)
(* A message is a function from the names of its fields to the sequences   *)
(* of what they hold: a field that is not set, or that is repeated and has *)
(* no elements, is the empty sequence.  Floats and bytes are left out.     *)
(***************************************************************************)
EXTENDS JsonValue

CONSTANTS
  Descriptors,   \* from the names of message types to their fields in order, each a
                 \* record [name, type, repeated]; besides scalars and messages a type is
                 \* "json" (JsonValue) or, if repeated, "property" (object_properties)
  EnumValues     \* the one enum type: from its names to their numbers

FieldsOf(type) == {Descriptors[type][i] : i \in 1 .. Len(Descriptors[type])}
FieldNames(type) == {f.name : f \in FieldsOf(type)}
FieldNamed(type, name) == CHOOSE f \in FieldsOf(type) : f.name = name

EmptyMessage(type) == [n \in FieldNames(type) |-> <<>>]

-----------------------------------------------------------------------------
(* From a message.                                                         *)

\* Mutant of IsUnset: a number that is zero is not written.
IsUnsetOrZero(field, held) ==
  held = <<>> \/ (field.type \in {"int32", "int64", "uint64"} /\ held = <<0>>)

IsUnset(field, held) == held = <<>>

\* MakeJsonValueOut.  The properties that a message holds as such become properties of
\* the object itself.
RECURSIVE MakeMessage(_, _)
MakeMessage(message, type) ==
  LET Element(x, t) ==
        CASE t \in {"int32", "int64"}   -> Signed(x)
          [] t \in {"uint32", "uint64"} -> Unsigned(x)
          [] t = "double"               -> Double(x)
          [] t = "bool"                 -> Bool(x)
          [] t \in {"string", "enum"}   -> String(x)
          [] t = "json"                 -> x
          [] OTHER                      -> MakeMessage(x, t)
      Properties(f) ==
        LET held == message[f.name]
        IN  IF IsUnset(f, held) THEN <<>>
            ELSE IF f.type = "property" THEN held
            ELSE <<Property(f.name,
                     IF f.repeated
                       THEN Array([i \in 1 .. Len(held) |-> Element(held[i], f.type)])
                       ELSE Element(held[1], f.type))>>
  IN  Object(FlattenSeq([i \in 1 .. Len(Descriptors[type]) |->
                           Properties(Descriptors[type][i])]))

-----------------------------------------------------------------------------
(* To a message.                                                           *)

\* What is made of a value: whether it could be, what is held of it, and the properties
\* met on the way that no field takes.
Made(held) == [ok |-> held # <<>>, held |-> held, unknown |-> <<>>]
Failed     == [ok |-> FALSE, held |-> <<>>, unknown |-> <<>>]

\* UnboxEnum: a value by its name or its number; nothing, but no failure, if there is none.
UnboxEnum(v) ==
  LET numbers == UnboxInt32(v)
      named   == {e \in DOMAIN EnumValues : \E i \in 1 .. Len(numbers) : EnumValues[e] = numbers[i]}
      byName  == TypeOf(v) = "string" /\ v[2] \in DOMAIN EnumValues
  IN  [ok      |-> TypeOf(v) = "string" \/ numbers # <<>>,
       held    |-> IF byName THEN <<v[2]>> ELSE SetToSeq(named),
       unknown |-> <<>>]

\* One after the other, until one fails.
InTurn(Step(_, _), first, seq) ==
  FoldLeft(LAMBDA r, x : IF r.ok THEN Step(r, x) ELSE r, first, seq)

RECURSIVE UnboxMessage(_, _)

\* One value for a field of a type.
UnboxElement(v, type) ==
  CASE type = "int32"  -> Made(UnboxInt32(v))
    [] type = "int64"  -> Made(UnboxInt64(v))
    [] type = "uint32" -> Made(UnboxUint32(v))
    [] type = "uint64" -> Made(UnboxUint64(v))
    [] type = "double" -> Made(UnboxDouble(v))
    [] type = "bool"   -> Made(UnboxBool(v))
    [] type = "string" -> Made(UnboxString(v))
    [] type = "enum"   -> UnboxEnum(v)
    [] type = "json"   -> Made(<<v>>)
    [] OTHER           -> LET m == UnboxMessage(v, type) IN [m EXCEPT !.held = <<@>>]

\* A field of the message in r gets what was made of a value.
SetField(r, name, e, unknown) ==
  [ok |-> e.ok, unknown |-> r.unknown \o unknown,
   held |-> IF e.held = <<>> THEN r.held ELSE [r.held EXCEPT ![name] = e.held]]

AddToField(r, name, e) ==
  [ok |-> e.ok, unknown |-> r.unknown \o e.unknown, held |-> [r.held EXCEPT ![name] = @ \o e.held]]

\* UnboxField: all that one property says of a field of the message in r.  An object
\* for a repeated field stands for its messages by name; what is unknown inside of
\* these is dropped.
UnboxField(r, field, v) ==
  LET ByName(s, p) ==
        LET m == UnboxMessage(p.value, field.type)
            e == UnboxElement(String(p.name), FieldNamed(field.type, "name").type)
            n == SetField(m, "name", e, <<>>)
        IN  IF m.ok /\ n.ok
              THEN AddToField(s, field.name, [ok |-> TRUE, held |-> <<n.held>>, unknown |-> <<>>])
              ELSE Failed
      keyed == /\ TypeOf(v) = "object" /\ field.type \in DOMAIN Descriptors
               /\ "name" \in FieldNames(field.type)
  IN  IF TypeOf(v) = "null" THEN [r EXCEPT !.held[field.name] = <<>>]
      ELSE IF ~field.repeated
        THEN LET e == UnboxElement(v, field.type) IN SetField(r, field.name, e, e.unknown)
      ELSE IF TypeOf(v) = "array"
        THEN InTurn(LAMBDA s, x : AddToField(s, field.name, UnboxElement(x, field.type)), r, v[2])
      ELSE IF keyed THEN InTurn(ByName, r, v[2])
      ELSE Failed

\* UnboxJsonValue: property by property.  One that no field takes is kept by the field
\* for properties, if the message has it, or is unknown.
UnboxMessage(v, type) ==
  LET keeps == SelectSeq(Descriptors[type], LAMBDA f : f.type = "property")
      Take(r, p) ==
        IF p.name \in FieldNames(type) THEN UnboxField(r, FieldNamed(type, p.name), p.value)
        ELSE IF keeps # <<>> THEN [r EXCEPT !.held[keeps[1].name] = Append(@, p)]
        ELSE [r EXCEPT !.unknown = Append(@, p)]
  IN  IF TypeOf(v) # "object" THEN Failed
      ELSE InTurn(Take, [ok |-> TRUE, held |-> EmptyMessage(type), unknown |-> <<>>], v[2])
=============================================================================
