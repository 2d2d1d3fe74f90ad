------------------------------ MODULE MCTexts ------------------------------
\* Texts: strings of up to two characters, numbers of up to six digits, queries of up to
\* three pieces, documents of up to five bytes.
EXTENDS Texts

\* a " \ / newline U+0001 U+007F, and the ends of each length of the UTF-8 form:
\* U+0080 U+07FF U+0800 U+D7FF U+E000 U+FFFF U+10000 U+10FFFF.
Characters ==
  {<<97>>, <<34>>, <<92>>, <<47>>, <<10>>, <<1>>, <<127>>,
   <<194, 128>>, <<223, 191>>, <<224, 160, 128>>, <<237, 159, 191>>, <<238, 128, 128>>,
   <<239, 191, 191>>, <<240, 144, 128, 128>>, <<244, 143, 191, 191>>}

\* A continuation byte, the first byte of two, NUL in two bytes, U+D800, and a byte
\* that begins nothing.
NotUtf8 == {<<128>>, <<195>>, <<192, 128>>, <<237, 160, 128>>, <<248>>}

UpToLength(n, set) == UNION {[1 .. k -> set] : k \in 0 .. n}

MCContents == UpToLength(2, Characters \cup NotUtf8)

\* Digits that meet the ends of eight bits: 127, 128, 255, 256, 25 and 6 or 5.
Digits == {0, 2, 5, 6}

MCNumbers ==
  [negative : BOOLEAN, whole : UpToLength(4, Digits) \ {<<>>}, fraction : UpToLength(2, Digits),
   exponent : {<<>>} \cup {<<e>> : e \in {0, 11, 127, 128, 1270, -1, -11, -127, -128, -129}}]
    \cup [negative : BOOLEAN, whole : {<<1, 2, 7>>, <<1, 2, 8>>, <<1, 2, 9>>},
          fraction : {<<>>}, exponent : {<<>>}]

\* a & = + % space and two bytes; nothing; and a byte that begins a character.
Names  == {<<97>>, <<38>>, <<61>>, <<43>>, <<37>>, <<32>>, <<194, 128>>, <<>>, <<195>>}
Values == Names \cup {<<43, 38>>, <<97, 61, 97>>}

Pair(n, v) == [type |-> "pair", name |-> n, value |-> v]

\* Nothing, a, a=%, a=%4, a=%4g and %=a.
Scraps ==
  {[type |-> "scrap", text |-> t] :
     t \in {<<>>, <<97>>, <<97, 61, 37>>, <<97, 61, 37, 52>>, <<97, 61, 37, 52, 103>>,
            <<37, 61, 97>>}}

FewPieces ==
  {Pair(<<97>>, <<38>>), Pair(<<43>>, <<>>), Pair(<<38>>, <<32>>), Pair(<<195>>, <<>>),
   Pair(<<>>, <<97>>)} \cup Scraps

MCQueries ==
  {<<Pair(n, v)>> : n \in Names, v \in Values} \cup (UpToLength(3, FewPieces) \ {<<>>})

\* a, tab, newline, and the first and second byte of a character.
MCDocuments == UpToLength(5, {97, 9, 10, 194, 128}) \cup {<<97, 97, 97, 97, 97, 97, 97>> \o s : s \in UpToLength(2, {97, 9, 128})}
=============================================================================
