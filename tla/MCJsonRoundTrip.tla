--------------------------- MODULE MCJsonRoundTrip ---------------------------
\* Texts for the reader: every sequence of up to three tokens, every text of the
\* grammar of up to MaxLength, and the latter with one token left out or made a comment.
\* The values that are written are those of the texts without trailing commas.
EXTENDS JsonRoundTrip

MaxLength == 9

MCRank == [a |-> 1, b |-> 2]

\* Pairs of a text and the list it means.
Between(open, close, lists) == {<<<<open>> \o l[1] \o <<close>>, l[2]>> : l \in lists}

Separated(firsts, rests) ==
  {<<p[1] \o <<",">> \o q[1], <<p[2]>> \o q[2]>> : p \in firsts, q \in rests}

\* The texts of up to max tokens, with the value each means.  G has those of every
\* length that are a value, a property, or a non-empty list of array elements or of
\* properties.  If trailing, a list may end in a comma.
Texts(trailing, max) ==
  LET G[n \in 0 .. max] ==
        LET At(k, of) == IF k < 0 THEN {} ELSE G[k][of]

            Inside(of) ==
              At(n - 2, of)
                \cup (IF n = 2 THEN {<<<<>>, <<>>>>} ELSE {})
                \cup (IF trailing
                        THEN {<<l[1] \o <<",">>, l[2]>> : l \in At(n - 3, of)} ELSE {})

            value ==
              (IF n = 1 THEN {<<<<t>>, Scalar(t)>> : t \in Strings \cup Scalars} ELSE {})
                \cup {<<b[1], Array(b[2])>> : b \in Between("[", "]", Inside("elements"))}
                \cup {<<b[1], Object(b[2])>> : b \in Between("{", "}", Inside("properties"))}

            property ==
              {<<<<s, ":">> \o p[1], Property(s, p[2])>> :
                 s \in Strings, p \in At(n - 2, "value")}

            List(ones, one, of) ==
              {<<p[1], <<p[2]>>>> : p \in ones}
                \cup UNION {Separated(At(k, one), At(n - 1 - k, of)) : k \in 1 .. n - 2}

        IN  [value      |-> value,
             property   |-> property,
             elements   |-> List(value, "value", "elements"),
             properties |-> List(property, "property", "properties")]
  IN  {[text |-> p[1], value |-> p[2]] : p \in UNION {G[n].value : n \in 0 .. max}}

StrictTexts  == Texts(FALSE, MaxLength)
LenientTexts == Texts(TRUE, MaxLength)

MCRoots == {t.value : t \in StrictTexts}

Short == UNION {[1 .. n -> Tokens \ {"b"}] : n \in 0 .. 3}

Long == {t.text : t \in LenientTexts}

Without(s, i) == SubSeq(s, 1, i - 1) \o SubSeq(s, i + 1, Len(s))

MCInputs ==
  Short \cup Long
    \cup UNION {{Without(s, i) : i \in 1 .. Len(s)} : s \in Long}
    \cup UNION {{[s EXCEPT ![i] = "#"] : i \in 1 .. Len(s)} : s \in Long}
=============================================================================
