---------------------------- MODULE JsonGrammar ----------------------------
(***************************************************************************)
(* JSON as a grammar over tokens: which parts of a text are which values.   *)
(* It is the reference that JsonReader.tla and JsonWriter.tla are checked   *)
(* against, and knows nothing of how they work.                            *)
(*                                                                         *)
(* A token is a bracket, a comma, a colon, a string (which may be a name or *)
(* a value) or another scalar; what is inside a string or a number is      *)
(* abstracted.                                                             *)
(***************************************************************************)
EXTENDS PropertyList

CONSTANT Scalars   \* the tokens that are values, besides strings

Strings == DOMAIN Rank

Scalar(token) == [type |-> "scalar", token |-> token]
Object(props) == [type |-> "object", properties |-> props]
Array(elems)  == [type |-> "array", elements |-> elems]

Brackets == {"[", "{"}

Closing(open) == IF open = "[" THEN "]" ELSE "}"

\* The names in their order, each with the first property that has it.
FirstOfEach(props) ==
  LET names   == NamesOf(props)
      Name(k) == CHOOSE n \in names : Cardinality({m \in names : Rank[m] <= Rank[n]}) = k
  IN  [k \in 1 .. Cardinality(names) |-> props[FindByName(props, Name(k))]]

\* What a list between brackets means.
Container(open, list, asIs) ==
  IF open = "[" THEN Array(list) ELSE Object(IF asIs THEN list ELSE FirstOfEach(list))

-----------------------------------------------------------------------------
(* A part of a text is given by how many tokens are left before it, and how *)
(* many after it with what it means: parts[k].values has such pairs of the  *)
(* values before which k tokens are left, and parts[k].lists[open] those of *)
(* the lists, not empty, that may be between such brackets.                *)

NextIs(text, k, token) == k > 0 /\ text[Len(text) - k + 1] = token

ValuesAt(parts, k)      == IF k \in DOMAIN parts THEN parts[k].values ELSE {}
ListsAt(parts, k, open) == IF k \in DOMAIN parts THEN parts[k].lists[open] ELSE {}

\* Below, less has the parts before which less than k tokens are left.

Enclosed(text, asIs, less, k, open) ==
  {<<l[1] - 1, Container(open, l[2], asIs)>> :
     l \in {m \in {<<k - 1, <<>>>>} \cup ListsAt(less, k - 1, open) :
              NextIs(text, m[1], Closing(open))}}

ValuesFrom(text, asIs, less, k) ==
  {<<k - 1, Scalar(t)>> : t \in {u \in Strings \cup Scalars : NextIs(text, k, u)}}
    \cup UNION {Enclosed(text, asIs, less, k, open) : open \in {o \in Brackets : NextIs(text, k, o)}}

\* What a list has: values, or values with a name and a colon before them.
OnesFrom(text, less, k, open, values) ==
  IF open = "[" THEN values
  ELSE UNION {{<<p[1], Property(n, p[2])>> : p \in ValuesAt(less, k - 2)} :
                n \in {m \in Strings : NextIs(text, k, m) /\ NextIs(text, k - 1, ":")}}

\* What may follow in a list: nothing, or a comma and a list; if trailing, also a comma.
More(text, trailing, less, k, open) ==
  {<<k, <<>>>>}
    \cup IF NextIs(text, k, ",")
           THEN ListsAt(less, k - 1, open) \cup {m \in {<<k - 1, <<>>>>} : trailing} ELSE {}

ListsFrom(text, trailing, less, open, ones) ==
  UNION {{<<m[1], <<p[2]>> \o m[2]>> : m \in More(text, trailing, less, p[1], open)} : p \in ones}

PartsFrom(text, trailing, asIs, less, k) ==
  LET values == ValuesFrom(text, asIs, less, k)
  IN  [values |-> values,
       lists  |-> [open \in Brackets |->
                     ListsFrom(text, trailing, less, open,
                               OnesFrom(text, less, k, open, values))]]

Parts(text, trailing, asIs) ==
  LET upTo[k \in 0 .. Len(text)] ==
        IF k = 0 THEN <<>>
        ELSE LET less == upTo[k - 1]
             IN  Append(less, PartsFrom(text, trailing, asIs, less, k))
  IN  upTo[Len(text)]

\* What a text means: the properties of its objects stay as they are, if asIs.
Meanings(text, trailing, asIs) ==
  {p[2] : p \in {q \in ValuesAt(Parts(text, trailing, asIs), Len(text)) : q[1] = 0}}
=============================================================================
