---------------------------- MODULE MCJsonObject ----------------------------
\* Objects for JsonObject: integers of five bits, doubles of three, and messages like those
\* of test_message.proto.
EXTENDS JsonObject

MCRank ==
  LET names == <<"2", "31", "a", "count", "data", "entries", "extra", "kind", "name", "note", "on",
                 "part", "parts", "ratio", "size", "small", "tags", "total", "x", "y">>
  IN  [n \in ToSet(names) |-> CHOOSE i \in DOMAIN names : names[i] = n]

F(name, type) == [name |-> name, type |-> type, repeated |-> FALSE]
R(name, type) == [name |-> name, type |-> type, repeated |-> TRUE]

MCDescriptors ==
  [Item  |-> <<F("size", "int32"), F("total", "int64"), F("small", "uint32"),
               F("count", "uint64"), F("ratio", "double"), F("on", "bool"),
               F("kind", "enum"), F("note", "string"), F("extra", "json"),
               F("part", "Item"), R("tags", "enum"), R("parts", "Item"), F("name", "string"),
               R("entries", "Entry")>>,
   Entry |-> <<F("name", "int32"), F("data", "string")>>,
   Open  |-> <<F("size", "int32"), R("object_properties", "property")>>]

MCEnumValues == [low |-> 1, high |-> 2]

\* All of three bits: whole multiples of a half up to 7 / 2, of 1 up to 7, and so on.
MCDoubles ==
  LET positive == {m * 2 ^ k : m \in 0 .. 7, k \in 0 .. 4}
  IN  positive \cup {-d : d \in positive} \cup {Infinity, -Infinity, NaN}

MCNumerals == "2" :> 2 @@ "31" :> 31

PropertiesOf(names, values) == [name : names, value : values]

P(n, v) == Property(n, v)

\* Lists of up to four properties with three names.
Orders ==
  [properties |-> PropertiesOf({"size", "x", "y"}, {Signed(1)}) \cup {P("x", Null)},
   length |-> 4, saturates |-> {TRUE}, live |-> PropertiesOf({"size", "x"}, {Unsigned(2)}), type |-> "Open"]

\* Numbers: the ends of the types, and one beyond; what rounds; halves.
Scalars ==
  {{Signed(n) : n \in {-16, -5, -4, -1, 0, 3, 4, 9, 15}},
   {Unsigned(n) : n \in {0, 7, 8, 15, 16, 30, 31}},
   {Double(d) : d \in {-40, -32, -1, 0, 1, 6, 16, 20}},
   {Double(d) : d \in {28, 32, 56, 64, 80, 112, Infinity, -Infinity, NaN}},
   {Bool(TRUE), Bool(FALSE), String("2"), String("31"), String("true"), Null}}

\* One field after the other, and every two of those that rounding brings together.
Close ==
  {Signed(n) : n \in {-16, -9, 0, 9, 15}} \cup {Unsigned(n) : n \in {0, 9, 15, 16, 31}}
    \cup {Double(d) : d \in {-32, 0, 1, 16, 20, 32, 64, NaN}} \cup {Bool(TRUE), Null}

Numbers ==
  {[properties |-> PropertiesOf({n}, values), length |-> 1, saturates |-> BOOLEAN,
    live |-> {}, type |-> "Item"] :
      n \in {"size", "total", "small", "count", "ratio", "on"}, values \in Scalars}
    \cup {[properties |-> PropertiesOf({"total"}, Close), length |-> 2, saturates |-> BOOLEAN,
           live |-> {}, type |-> "Item"]}

\* What is for an enum: its names and numbers, alone and in arrays, and others.
Enums ==
  {String("low"), String("2"), Signed(2), Signed(3), Bool(FALSE), Null,
   Array(<<>>), Array(<<Null>>), Array(<<String("low"), Unsigned(2), String("none"), Double(4)>>)}

\* What is for a message: itself, with duplicate and unsorted and unknown names, and with
\* messages and enums in it.
Empty == Object(<<>>)
Odd   == Object(<<P("y", Signed(1)), P("size", Signed(2))>>)

Objects ==
  {Empty, Odd, Null, Signed(2),
   Object(<<P("size", Double(4)), P("y", Double(2)), P("y", Null)>>),
   Object(<<P("tags", Array(<<String("low"), Signed(2)>>)), P("name", String("a"))>>),
   Object(<<P("part", Odd), P("parts", Array(<<Empty>>))>>)}

\* What is for several: arrays of them, and objects in which they have names.
Several ==
  {Array(<<o, p>>) : o \in {Empty, Odd}, p \in {Empty, Odd}}
    \cup {Empty, Null, Odd, Array(<<Odd, Null>>),
          Object(<<P("a", Object(<<P("size", Signed(1))>>)), P("x", Empty)>>),
          Object(<<P("2", Object(<<P("data", String("a"))>>))>>),
          Object(<<P("31", Empty)>>)}

Message(names, values, length) ==
  [properties |-> PropertiesOf(names, values), length |-> length, saturates |-> {TRUE},
   live |-> {}, type |-> "Item"]

Messages ==
  {Message({"kind"}, Enums, 2), Message({"tags"}, Enums, 2), Message({"part"}, Objects, 2),
   Message({"parts"}, Several, 2), Message({"entries"}, Several, 2),
   Message({"extra"}, Objects, 2), Message({"note", "part", "x"}, {Odd, String("a")}, 3)}

MCPools == {Orders} \cup Numbers \cup Messages

\* The values that are put into the objects, and what becomes of them there.
Given == {p.value : p \in UNION {m.properties \cup m.live : m \in MCPools}}

MCJsonValues ==
  LET Once(values) == values \cup {Normalized(v) : v \in values} \cup {Reread(v) : v \in values}
  IN  Once(Once(Given))
=============================================================================
