----------------------------- MODULE TextsProofs -----------------------------
(***************************************************************************)
(* What the functions on texts compute, for texts of any length.           *)
(*                                                                         *)
(* The functions of unicode.cc invert each other, for every code point.    *)
(* A text location ends where it would have ended if the document had come *)
(* in one piece, wherever the pieces end.  The loops of number_util.cc     *)
(* take the digits of an integer of any type exactly if it fits.  These    *)
(* two are about folds over sequences, with which the module begins.       *)
(* Every integer is read as it was written, and every spelled one exactly  *)
(* or as a double: its text is taken apart into a sign, the digits before  *)
(* the point, those behind it and an exponent, each of which the readers   *)
(* find; and the digits that are written are built up tenth by tenth.      *)
(* A double stands for its text: digit by digit, the significand is the    *)
(* value of the digits so far but for those left out, and these weigh      *)
(* little, as the first of them came when the type was full.               *)
(* Every string is read as it was written: what the writer has written so  *)
(* far spells, in chunks that the reader takes in one turn, what it has    *)
(* gone through, and what the reader has left spells what is missing.      *)
(* Every query gives the parameters that are meant: the text of a byte is   *)
(* decoded to it whatever comes after it, so that a name and a value are    *)
(* decoded to themselves and keep no delimiter; a scrap has no equal sign   *)
(* or an escape that stays wrong in the part it is in; and what is left of  *)
(* a query is spelled by the pieces that are left.                         *)
(***************************************************************************)
EXTENDS Texts, SequenceTheorems, FiniteSetTheorems, WellFoundedInduction, TLAPS

-----------------------------------------------------------------------------
(* Induction on the naturals, and what a fold over a sequence computes.    *)
(* Both are stated for sets and functions in the place of predicates and   *)
(* operators: the provers do not instantiate a theorem whose parameter is  *)
(* an operator.                                                            *)

\* Every nonempty set of naturals has a least element.
LEMMA LeastNatural ==
  ASSUME NEW T \in SUBSET Nat, T # {}
  PROVE  \E x \in T : \A y \in T : x <= y
<1> DEFINE R == {p \in Nat \X Nat : p[1] < p[2]}
<1>1. IsWellFoundedOn(R, Nat)
  BY NatLessThanWellFounded DEF OpToRel
<1>2. PICK x \in T : \A y \in T : ~ (<<y, x>> \in R)
  BY <1>1, WFMin
<1>3. ASSUME NEW y \in T
      PROVE  x <= y
  <2>1. ~ (<<y, x>>[1] < <<y, x>>[2])
    BY <1>2
  <2> QED
    BY <2>1
<1> QED
  BY <1>3

\* A set of naturals with 0 and with every successor has all.
LEMMA Induction ==
  ASSUME NEW T \in SUBSET Nat, 0 \in T, \A n \in T : n + 1 \in T
  PROVE  T = Nat
<1> SUFFICES ASSUME Nat \ T # {}
             PROVE  FALSE
  OBVIOUS
<1>1. PICK x \in Nat \ T : \A y \in Nat \ T : x <= y
  BY LeastNatural
<1>2. x - 1 \in T
  BY <1>1
<1> QED
  BY <1>1, <1>2

\* A set with the numbers from 0 to n, if it has 0 and successors up to n.
LEMMA InductionUpTo ==
  ASSUME NEW n \in Nat, NEW T, 0 \in T, \A k \in 0 .. n - 1 : k \in T => k + 1 \in T
  PROVE  \A k \in 0 .. n : k \in T
<1> DEFINE U == {k \in Nat : k <= n => k \in T}
<1>1. U \in SUBSET Nat /\ 0 \in U
  OBVIOUS
<1>2. ASSUME NEW k \in U
      PROVE  k + 1 \in U
  OBVIOUS
<1> HIDE DEF U
<1>3. U = Nat
  BY <1>1, <1>2, Induction
<1>4. \A k \in 0 .. n : k \in U
  BY <1>3
<1> QED
  BY <1>4 DEF U

\* The greatest element of a set of naturals up to n.
LEMMA MaxIs ==
  ASSUME NEW n \in Nat, NEW s \in SUBSET (0 .. n), s # {}
  PROVE  Max(s) \in s /\ \A y \in s : Max(s) >= y
<1> DEFINE T == {n - y : y \in s}
<1>1. T \in SUBSET Nat /\ T # {}
  OBVIOUS
<1>2. PICK t \in T : \A y \in T : t <= y
  BY <1>1, LeastNatural
<1>3. PICK x \in s : t = n - x
  BY <1>2
<1>4. \A y \in s : x >= y
  <2>1. ASSUME NEW y \in s
        PROVE  x >= y
    <3>1. n - y \in T
      OBVIOUS
    <3>2. n - x <= n - y
      BY <1>2, <1>3, <3>1
    <3> QED
      BY <3>2
  <2> QED
    BY <2>1
<1>5. \E z \in s : \A y \in s : z >= y
  BY <1>4
<1> QED
  BY <1>5 DEF Max

-----------------------------------------------------------------------------
(* Chains and folds.                                                       *)

\* r holds what F makes of c and the first elements of s, of none, of one and so on.
Chain(r, F, c, s) ==
  /\ DOMAIN r = 0 .. Len(s) /\ r[0] = c
  /\ \A k \in 0 .. Len(s) - 1 : r[k + 1] = F[<<r[k], s[k + 1]>>]

\* There is one chain.
LEMMA OneChain ==
  ASSUME NEW D, NEW s \in Seq(D), NEW c, NEW F, NEW r, NEW q,
         Chain(r, F, c, s), Chain(q, F, c, s)
  PROVE  \A k \in 0 .. Len(s) : r[k] = q[k]
<1> DEFINE T == {k \in Nat : r[k] = q[k]}
<1>1. Len(s) \in Nat
  OBVIOUS
<1>2. 0 \in T
  BY DEF Chain
<1>3. ASSUME NEW k \in 0 .. Len(s) - 1, k \in T
      PROVE  k + 1 \in T
  <2>1. r[k] = q[k] /\ k + 1 \in Nat
    BY <1>1, <1>3
  <2>2. r[k + 1] = F[<<r[k], s[k + 1]>>] /\ q[k + 1] = F[<<q[k], s[k + 1]>>]
    BY DEF Chain
  <2> QED
    BY <2>1, <2>2
<1> HIDE DEF T
<1>4. \A k \in 0 .. Len(s) : k \in T
  BY <1>1, <1>2, <1>3, InductionUpTo
<1> QED
  BY <1>4 DEF T

\* The equation of the function that a left fold is defined with.
Folds(h, F, c, s) ==
  h = [S \in SUBSET DOMAIN s |->
         IF S = {} THEN c ELSE F[<<h[S \ {Max(S)}], s[Max(S)]>>]]

\* h satisfies it for the sets up to k.
FoldsUpTo(h, F, c, s, k) ==
  \A S \in SUBSET (1 .. k) :
    h[S] = IF S = {} THEN c ELSE F[<<h[S \ {Max(S)}], s[Max(S)]>>]

LEMMA FoldGrows ==
  ASSUME NEW B, NEW D, NEW F \in [B \X D -> B], NEW c \in B, NEW s \in Seq(D),
         NEW k \in 0 .. Len(s) - 1,
         NEW h \in [SUBSET (1 .. Len(s)) -> B], FoldsUpTo(h, F, c, s, k)
  PROVE  \E g \in [SUBSET (1 .. Len(s)) -> B] : FoldsUpTo(g, F, c, s, k + 1)
<1> DEFINE n == Len(s)
           g == [S \in SUBSET (1 .. n) |->
                     IF S = {} THEN c ELSE F[<<h[S \ {Max(S)}], s[Max(S)]>>]]
<1>1. n \in Nat /\ DOMAIN s = 1 .. n /\ k \in Nat /\ k + 1 <= n
  OBVIOUS
<1> HIDE DEF n
<1>2. ASSUME NEW S \in SUBSET (1 .. n), S # {}
      PROVE  Max(S) \in S /\ Max(S) \in 1 .. n /\ \A y \in S : Max(S) >= y
  <2>1. S \in SUBSET (0 .. n)
    BY <1>1
  <2> QED
    BY <1>1, <1>2, <2>1, MaxIs
<1>3. g \in [SUBSET (1 .. n) -> B]
  <2>1. ASSUME NEW S \in SUBSET (1 .. n), S # {}
        PROVE  F[<<h[S \ {Max(S)}], s[Max(S)]>>] \in B
    <3>1. s[Max(S)] \in D
      BY <1>1, <1>2, <2>1
    <3>2. S \ {Max(S)} \in SUBSET (1 .. n)
      OBVIOUS
    <3>3. h[S \ {Max(S)}] \in B
      BY <3>2 DEF n
    <3> QED
      BY <3>1, <3>3
  <2> QED
    BY <2>1
<1>4. ASSUME NEW S \in SUBSET (1 .. k + 1)
      PROVE  g[S] = IF S = {} THEN c ELSE F[<<g[S \ {Max(S)}], s[Max(S)]>>]
  <2>1. S \in SUBSET (1 .. n)
    BY <1>1
  <2>2. CASE S = {}
    BY <2>1, <2>2
  <2>3. CASE S # {}
    <3> DEFINE R == S \ {Max(S)}
    <3>1. R \in SUBSET (1 .. k)
      <4>1. Max(S) \in 1 .. n /\ \A y \in S : Max(S) >= y
        BY <1>2, <2>1, <2>3
      <4>2. ASSUME NEW y \in R
            PROVE  y \in 1 .. k
        <5>1. y \in 1 .. k + 1 /\ y # Max(S) /\ Max(S) >= y
          BY <4>1
        <5>2. Max(S) \in 1 .. k + 1
          BY <1>2, <2>1, <2>3
        <5> QED
          BY <1>1, <5>1, <5>2
      <4> QED
        BY <4>2
    <3>2. R \in SUBSET (1 .. n)
      BY <2>1
    <3> HIDE DEF R
    <3>3. g[R] = h[R]
      BY <3>1, <3>2 DEF FoldsUpTo
    <3>4. g[S] = F[<<h[S \ {Max(S)}], s[Max(S)]>>]
      BY <2>1, <2>3
    <3> HIDE DEF g
    <3> QED
      BY <2>3, <3>3, <3>4 DEF R
  <2> QED
    BY <2>2, <2>3
<1> HIDE DEF g
<1>5. FoldsUpTo(g, F, c, s, k + 1)
  BY <1>4 DEF FoldsUpTo
<1> QED
  BY <1>3, <1>5 DEF n

\* It has a solution.
LEMMA FoldExists ==
  ASSUME NEW B, NEW D, NEW F \in [B \X D -> B], NEW c \in B, NEW s \in Seq(D)
  PROVE  \E h \in [SUBSET DOMAIN s -> B] : Folds(h, F, c, s)
<1> DEFINE n == Len(s)
           T == {k \in Nat : \E h \in [SUBSET (1 .. n) -> B] : FoldsUpTo(h, F, c, s, k)}
<1>1. n \in Nat /\ DOMAIN s = 1 .. n
  OBVIOUS
<1>2. 0 \in T
  <2> DEFINE h == [S \in SUBSET (1 .. n) |-> c]
  <2>1. h \in [SUBSET (1 .. n) -> B]
    OBVIOUS
  <2>2. ASSUME NEW S \in SUBSET (1 .. 0)
        PROVE  S = {} /\ h[S] = c
    <3>1. S = {}
      OBVIOUS
    <3>2. {} \in SUBSET (1 .. n)
      OBVIOUS
    <3> QED
      BY <3>1, <3>2
  <2>3. FoldsUpTo(h, F, c, s, 0)
    BY <2>2 DEF FoldsUpTo
  <2> QED
    BY <2>1, <2>3
<1>3. ASSUME NEW k \in 0 .. n - 1, k \in T
      PROVE  k + 1 \in T
  <2>1. PICK h \in [SUBSET (1 .. n) -> B] : FoldsUpTo(h, F, c, s, k)
    BY <1>3
  <2>2. k \in 0 .. Len(s) - 1 /\ k + 1 \in Nat
    BY <1>1
  <2>3. \E g \in [SUBSET (1 .. n) -> B] : FoldsUpTo(g, F, c, s, k + 1)
    BY <2>1, <2>2, FoldGrows
  <2> QED
    BY <2>2, <2>3
<1>4. n \in T
  <2> HIDE DEF T
  <2>1. \A k \in 0 .. n : k \in T
    BY <1>1, <1>2, <1>3, InductionUpTo
  <2> QED
    BY <1>1, <2>1
<1>5. PICK h \in [SUBSET (1 .. n) -> B] : FoldsUpTo(h, F, c, s, n)
  BY <1>4
<1>6. Folds(h, F, c, s)
  <2>1. h = [S \in SUBSET DOMAIN s |-> h[S]]
    BY <1>1, <1>5
  <2>2. \A S \in SUBSET DOMAIN s :
          h[S] = IF S = {} THEN c ELSE F[<<h[S \ {Max(S)}], s[Max(S)]>>]
    BY <1>1, <1>5 DEF FoldsUpTo
  <2> QED
    BY <2>1, <2>2 DEF Folds
<1>7. h \in [SUBSET DOMAIN s -> B]
  BY <1>1, <1>5
<1> QED
  BY <1>6, <1>7

\* And what it says of all elements is the end of the chain.
EndsChain(h, r, s) == h[DOMAIN s] = r[Len(s)]

LEMMA FoldIsChain ==
  ASSUME NEW B, NEW D, NEW F \in [B \X D -> B], NEW c \in B, NEW s \in Seq(D),
         NEW h, Folds(h, F, c, s)
  PROVE  \E r \in [0 .. Len(s) -> B] : Chain(r, F, c, s) /\ EndsChain(h, r, s)
<1> DEFINE n == Len(s)
           r == [k \in 0 .. n |-> h[1 .. k]]
<1>1. n \in Nat /\ DOMAIN s = 1 .. n
  OBVIOUS
<1>2. r[0] = c
  <2>1. 1 .. 0 = {} /\ {} \in SUBSET DOMAIN s
    OBVIOUS
  <2>2. h[{}] = c
    BY <2>1 DEF Folds
  <2> QED
    BY <1>1, <2>1, <2>2
<1>3. ASSUME NEW k \in 0 .. n - 1
      PROVE  r[k + 1] = F[<<r[k], s[k + 1]>>]
  <2> DEFINE S == 1 .. k + 1
  <2>0. k \in Nat /\ k + 1 \in Nat /\ k + 1 <= n /\ k \in 0 .. n /\ k + 1 \in 0 .. n
    BY <1>1
  <2>1. S \in SUBSET (1 .. n) /\ k + 1 \in S /\ S \in SUBSET (0 .. n)
    BY <1>1, <2>0
  <2>2. Max(S) = k + 1
    <3> HIDE DEF S
    <3>1. Max(S) \in S /\ Max(S) >= k + 1
      BY <1>1, <2>1, MaxIs
    <3> QED
      BY <2>0, <3>1 DEF S
  <2>3. S \ {k + 1} = 1 .. k
    BY <2>0
  <2>4. h[S] = F[<<h[S \ {Max(S)}], s[Max(S)]>>]
    <3> HIDE DEF S
    <3> QED
      BY <1>1, <2>1 DEF Folds
  <2>5. r[k + 1] = h[S] /\ r[k] = h[1 .. k]
    BY <2>0
  <2> QED
    BY <2>2, <2>3, <2>4, <2>5
<1>4. r \in [0 .. n -> B]
  <2> DEFINE T == {k \in Nat : r[k] \in B}
  <2>1. 0 \in T
    BY <1>2
  <2>2. ASSUME NEW k \in 0 .. n - 1, k \in T
        PROVE  k + 1 \in T
    <3>1. r[k] \in B /\ s[k + 1] \in D /\ k + 1 \in Nat
      BY <1>1, <2>2
    <3> HIDE DEF r
    <3>2. F[<<r[k], s[k + 1]>>] \in B
      BY <3>1
    <3> QED
      BY <1>3, <3>1, <3>2
  <2> HIDE DEF T
  <2>3. \A k \in 0 .. n : k \in T
    BY <1>1, <2>1, <2>2, InductionUpTo
  <2> QED
    BY <2>3 DEF T
<1>5. h[DOMAIN s] = r[n] /\ DOMAIN r = 0 .. n
  BY <1>1
<1> HIDE DEF r
<1> QED
  BY <1>2, <1>3, <1>4, <1>5 DEF Chain, EndsChain

LEMMA ChainExists ==
  ASSUME NEW B, NEW D, NEW F \in [B \X D -> B], NEW c \in B, NEW s \in Seq(D)
  PROVE  \E r \in [0 .. Len(s) -> B] : Chain(r, F, c, s)
<1>1. PICK h \in [SUBSET DOMAIN s -> B] : Folds(h, F, c, s)
  BY FoldExists
<1> QED
  BY <1>1, FoldIsChain

\* What a fold takes of a sequence.
LEMMA FoldTakes ==
  ASSUME NEW D, NEW s \in Seq(D), NEW S \in SUBSET DOMAIN s, S # {}
  PROVE  /\ Max(S) \in S /\ \A y \in S : Max(S) >= y
         /\ Max(S) \in 1 .. Len(s) /\ s[Max(S)] \in D
         /\ S \ {Max(S)} \in SUBSET DOMAIN s
<1>1. DOMAIN s = 1 .. Len(s) /\ Len(s) \in Nat
  OBVIOUS
<1>2. S \in SUBSET (0 .. Len(s))
  BY <1>1
<1>3. Max(S) \in S /\ \A y \in S : Max(S) >= y
  BY <1>1, <1>2, MaxIs
<1>4. Max(S) \in 1 .. Len(s)
  BY <1>1, <1>3
<1> QED
  BY <1>3, <1>4

\* h begins with c and goes on by F for as long as it stays in B.
GoesOnBy(h, F, c, s, B) ==
  /\ h = [S \in SUBSET DOMAIN s |-> h[S]]
  /\ h[{}] = c
  /\ \A S \in SUBSET DOMAIN s :
       S # {} /\ h[S \ {Max(S)}] \in B => h[S] = F[<<h[S \ {Max(S)}], s[Max(S)]>>]

\* It does.
LEMMA FoldStays ==
  ASSUME NEW B, NEW D, NEW F \in [B \X D -> B], NEW c \in B, NEW s \in Seq(D),
         NEW h, GoesOnBy(h, F, c, s, B)
  PROVE  \E r \in [0 .. Len(s) -> B] : Chain(r, F, c, s) /\ EndsChain(h, r, s)
<1>1. Len(s) \in Nat /\ DOMAIN s = 1 .. Len(s)
  OBVIOUS
<1> DEFINE T == {k \in Nat : \A S \in SUBSET DOMAIN s : S \in SUBSET (1 .. k) => h[S] \in B}
<1>2. 0 \in T
  <2>1. ASSUME NEW S \in SUBSET DOMAIN s, S \in SUBSET (1 .. 0)
        PROVE  h[S] \in B
    <3>1. S = {}
      BY <2>1
    <3> QED
      BY <3>1 DEF GoesOnBy
  <2> QED
    BY <2>1
<1>3. ASSUME NEW k \in 0 .. Len(s) - 1, k \in T
      PROVE  k + 1 \in T
  <2>0. k \in Nat /\ k + 1 \in Nat
    BY <1>1
  <2>1. ASSUME NEW S \in SUBSET DOMAIN s, S \in SUBSET (1 .. k + 1)
        PROVE  h[S] \in B
    <3>1. CASE S = {}
      BY <3>1 DEF GoesOnBy
    <3>2. CASE S # {}
      <4> DEFINE R == S \ {Max(S)}
      <4>1. /\ Max(S) \in S /\ \A y \in S : Max(S) >= y
            /\ s[Max(S)] \in D /\ R \in SUBSET DOMAIN s
        BY <3>2, FoldTakes
      <4>2. R \in SUBSET (1 .. k)
        <5>1. ASSUME NEW y \in R
              PROVE  y \in 1 .. k
          <6>1. y \in 1 .. k + 1 /\ y # Max(S) /\ Max(S) >= y
            BY <2>1, <4>1
          <6>2. Max(S) \in 1 .. k + 1
            BY <2>1, <4>1
          <6> QED
            BY <2>0, <6>1, <6>2
        <5> QED
          BY <5>1
      <4>3. h[S \ {Max(S)}] \in B
        BY <1>3, <4>1, <4>2
      <4>4. h[S] = F[<<h[S \ {Max(S)}], s[Max(S)]>>]
        BY <3>2, <4>3 DEF GoesOnBy
      <4> QED
        BY <4>1, <4>3, <4>4
    <3> QED
      BY <3>1, <3>2
  <2> QED
    BY <2>0, <2>1
<1>4. \A S \in SUBSET DOMAIN s : h[S] \in B
  <2> HIDE DEF T
  <2>1. \A k \in 0 .. Len(s) : k \in T
    BY <1>1, <1>2, <1>3, InductionUpTo
  <2>2. Len(s) \in T
    BY <1>1, <2>1
  <2> QED
    BY <1>1, <2>2 DEF T
<1>5. Folds(h, F, c, s)
  <2>1. ASSUME NEW S \in SUBSET DOMAIN s
        PROVE  h[S] = IF S = {} THEN c ELSE F[<<h[S \ {Max(S)}], s[Max(S)]>>]
    <3>1. CASE S = {}
      BY <3>1 DEF GoesOnBy
    <3>2. CASE S # {}
      <4>1. S \ {Max(S)} \in SUBSET DOMAIN s
        BY <3>2, FoldTakes
      <4> QED
        BY <1>4, <3>2, <4>1 DEF GoesOnBy
    <3> QED
      BY <3>1, <3>2
  <2>2. h = [S \in SUBSET DOMAIN s |-> h[S]]
    BY DEF GoesOnBy
  <2> QED
    BY <2>1, <2>2 DEF Folds
<1> QED
  BY <1>5, FoldIsChain

-----------------------------------------------------------------------------
(* Unicode.                                                                *)

\* A code point beyond the basic plane is encoded as a high and a low surrogate,
\* and these are decoded as that code point.
THEOREM SurrogatesRoundTrip ==
  ASSUME NEW c \in Nat, IsSurrogatePair(c)
  PROVE  LET pair == EncodeSurrogatePair(c)
         IN  /\ IsHighSurrogate(pair[1])
             /\ IsLowSurrogate(pair[2])
             /\ DecodeSurrogatePair(pair[1], pair[2]) = c
  BY SMTT(30) DEF IsSurrogatePair, EncodeSurrogatePair, IsHighSurrogate, IsLowSurrogate,
     DecodeSurrogatePair

\* The form that WriteCodePointToBuffer gives a code point is read as that code point,
\* with the length it has.
THEOREM Utf8RoundTrip ==
  ASSUME NEW c \in Nat, c < 2097152
  PROVE  ReadCodePointPrefix(WriteCodePointToBuffer(c)) =
           [length |-> Len(WriteCodePointToBuffer(c)), codePoint |-> c]
<1>1. CASE c < 128
  BY <1>1, SMTT(30) DEF WriteCodePointToBuffer, ReadCodePointPrefix, ByteAt
<1>2. CASE c >= 128 /\ c < 2048
  BY <1>2, SMTT(30) DEF WriteCodePointToBuffer, ReadCodePointPrefix, ByteAt, Continuation,
     IsContinuation
<1>3. CASE c >= 2048 /\ c < 65536
  BY <1>3, SMTT(30) DEF WriteCodePointToBuffer, ReadCodePointPrefix, ByteAt, Continuation,
     IsContinuation
<1>4. CASE c >= 65536
  <2> DEFINE e1 == c \div 262144
             e2 == (c \div 4096) % 64
             e3 == (c \div 64) % 64
             e4 == c % 64
             form == <<e1 + 240, e2 + 128, e3 + 128, e4 + 128>>
  <2>1. WriteCodePointToBuffer(c) = form
    BY <1>4, SMTT(30) DEF WriteCodePointToBuffer, Continuation
  <2>2. /\ e1 \in 0 .. 7 /\ e2 \in 0 .. 63 /\ e3 \in 0 .. 63 /\ e4 \in 0 .. 63
        /\ c = e1 * 262144 + e2 * 4096 + e3 * 64 + e4
    BY SMTT(30)
  <2> HIDE DEF e1, e2, e3, e4
  <2>3. /\ ByteAt(form, 1) = e1 + 240 /\ ByteAt(form, 2) = e2 + 128
        /\ ByteAt(form, 3) = e3 + 128 /\ ByteAt(form, 4) = e4 + 128 /\ Len(form) = 4
    BY <2>2, SMTT(30) DEF ByteAt
  <2> HIDE DEF form
  <2> DEFINE b1 == ByteAt(form, 1)
             b2 == ByteAt(form, 2)
             b3 == ByteAt(form, 3)
             b4 == ByteAt(form, 4)
  <2>4. /\ b1 \div 128 # 0 /\ b1 \div 64 # 2 /\ b1 \div 32 # 6 /\ b1 \div 16 # 14
        /\ b1 \div 8 = 30 /\ b1 % 8 = e1
    BY <2>2, <2>3, SMTT(30)
  <2>5. /\ IsContinuation(b2) /\ IsContinuation(b3) /\ IsContinuation(b4)
        /\ b2 % 64 = e2 /\ b3 % 64 = e3 /\ b4 % 64 = e4
    BY <2>2, <2>3, SMTT(30) DEF IsContinuation
  <2>6. ~(Len(form) < 1) /\ ~(Len(form) < 2)
    BY <2>3
  <2>7. ReadCodePointPrefix(form) =
          [length |-> 4, codePoint |-> (b1 % 8) * 262144 + (b2 % 64) * 4096
                                         + (b3 % 64) * 64 + (b4 % 64)]
    BY <2>4, <2>5, <2>6, SMTT(30) DEF ReadCodePointPrefix
  <2>8. (b1 % 8) * 262144 + (b2 % 64) * 4096 + (b3 % 64) * 64 + (b4 % 64) = c
    BY <2>2, <2>4, <2>5, SMTT(30)
  <2> HIDE DEF b1, b2, b3, b4
  <2> QED BY <2>1, <2>3, <2>7, <2>8, SMTT(30)
<1> QED BY <1>1, <1>2, <1>3, <1>4, SMTT(30)

-----------------------------------------------------------------------------

Columns == Nat \ {0}

\* Where the column gets to, by bytes.
ColumnF == [p \in Columns \X Byte |-> ColumnAfter(p[1], p[2])]

LEMMA ColumnFType == ColumnF \in [Columns \X Byte -> Columns]
<1>1. ASSUME NEW p \in Columns \X Byte
      PROVE  ColumnAfter(p[1], p[2]) \in Columns
  <2>1. p[1] \in Columns /\ p[2] \in Byte
    OBVIOUS
  <2>2. ASSUME NEW c \in Columns
        PROVE  8 * ((c - 1) \div 8) + 9 \in Columns
    <3>1. (c - 1) \in Nat
      BY DEF Columns
    <3>2. (c - 1) \div 8 \in Nat
      BY <3>1
    <3> QED
      BY <3>2 DEF Columns
  <2> QED
    BY <2>1, <2>2 DEF ColumnAfter, Columns
<1> QED
  BY <1>1 DEF ColumnF

LEMMA ColumnFold ==
  ASSUME NEW line \in Seq(Byte), NEW c \in Columns
  PROVE  \E r \in [0 .. Len(line) -> Columns] :
            Chain(r, ColumnF, c, line) /\ FoldLeft(ColumnAfter, c, line) = r[Len(line)]
<1>1. PICK h \in [SUBSET DOMAIN line -> Columns] : Folds(h, ColumnF, c, line)
  BY ColumnFType, FoldExists
<1>2. ASSUME NEW S \in SUBSET DOMAIN line, S # {}
      PROVE  S \ {Max(S)} \in SUBSET DOMAIN line /\ line[Max(S)] \in Byte
  BY <1>2, FoldTakes
<1>3. h = [S \in SUBSET DOMAIN line |->
             IF S = {} THEN c ELSE ColumnAfter(h[S \ {Max(S)}], line[Max(S)])]
  <2>1. h = [S \in SUBSET DOMAIN line |->
               IF S = {} THEN c ELSE ColumnF[<<h[S \ {Max(S)}], line[Max(S)]>>]]
    BY <1>1 DEF Folds
  <2>2. ASSUME NEW S \in SUBSET DOMAIN line, S # {}
        PROVE  ColumnF[<<h[S \ {Max(S)}], line[Max(S)]>>]
                 = ColumnAfter(h[S \ {Max(S)}], line[Max(S)])
    BY <1>2, <2>2 DEF ColumnF
  <2> QED
    BY <2>1, <2>2
<1> DEFINE iter[S \in SUBSET DOMAIN line] ==
      IF S = {} THEN c ELSE ColumnAfter(iter[S \ {Max(S)}], line[Max(S)])
<1>4. FoldLeft(ColumnAfter, c, line) = iter[DOMAIN line]
  BY Zenon DEF FoldLeft, MapThenFoldSet
<1>5. iter = [S \in SUBSET DOMAIN line |->
                IF S = {} THEN c ELSE ColumnAfter(iter[S \ {Max(S)}], line[Max(S)])]
  BY <1>3, Zenon
<1> HIDE DEF iter
<1>6. GoesOnBy(iter, ColumnF, c, line, Columns)
  <2>1. iter = [S \in SUBSET DOMAIN line |-> iter[S]]
    BY <1>5
  <2>2. iter[{}] = c
    BY <1>5
  <2>3. ASSUME NEW S \in SUBSET DOMAIN line, S # {}, iter[S \ {Max(S)}] \in Columns
        PROVE  iter[S] = ColumnF[<<iter[S \ {Max(S)}], line[Max(S)]>>]
    <3>1. iter[S] = ColumnAfter(iter[S \ {Max(S)}], line[Max(S)])
      BY <1>5, <2>3
    <3> QED
      BY <1>2, <2>3, <3>1 DEF ColumnF
  <2> QED
    BY <2>1, <2>2, <2>3 DEF GoesOnBy
<1>7. PICK r \in [0 .. Len(line) -> Columns] :
        Chain(r, ColumnF, c, line) /\ EndsChain(iter, r, line)
  BY <1>6, ColumnFType, FoldStays
<1>8. FoldLeft(ColumnAfter, c, line) = r[Len(line)]
  BY <1>4, <1>7 DEF EndsChain
<1> QED
  BY <1>7, <1>8

-----------------------------------------------------------------------------

\* The column after a byte of a document, newlines too.
PositionF == [p \in Columns \X Byte |-> IF p[2] = Newline THEN 1 ELSE ColumnAfter(p[1], p[2])]

LEMMA PositionFType == PositionF \in [Columns \X Byte -> Columns]
<1>1. ASSUME NEW p \in Columns \X Byte
      PROVE  (IF p[2] = Newline THEN 1 ELSE ColumnAfter(p[1], p[2])) \in Columns
  <2>1. ColumnF[p] = ColumnAfter(p[1], p[2]) /\ ColumnF[p] \in Columns
    BY ColumnFType DEF ColumnF
  <2> QED
    BY <2>1 DEF Columns
<1> QED
  BY <1>1 DEF PositionF

\* What a piece of a text is.
LEMMA PieceIs ==
  ASSUME NEW s \in Seq(Byte), NEW n \in 0 .. Len(s), NEW m \in 0 .. n
  PROVE  /\ SubSeq(s, m + 1, n) \in Seq(Byte) /\ Len(SubSeq(s, m + 1, n)) = n - m
         /\ \A i \in 1 .. n - m : SubSeq(s, m + 1, n)[i] = s[m + i]
  OBVIOUS

\* The column that a line leads to.
Leads(c, line, last) == FoldLeft(ColumnAfter, c, line) = last

\* A stretch without newlines: the fold over it leads from column to column.
LEMMA Stretch ==
  ASSUME NEW d \in Seq(Byte), NEW r \in [0 .. Len(d) -> Columns], Chain(r, PositionF, 1, d),
         NEW n \in 0 .. Len(d), NEW m \in 0 .. n, \A i \in m + 1 .. n : d[i] # Newline,
         NEW c, c = r[m], NEW line, line = SubSeq(d, m + 1, n)
  PROVE  /\ c \in Columns /\ line \in Seq(Byte) /\ Len(line) = n - m
         /\ Leads(c, line, r[n])
<1>1. Len(d) \in Nat /\ n \in Nat /\ m \in Nat /\ m <= n /\ n <= Len(d) /\ m \in 0 .. Len(d)
  OBVIOUS
<1>2. c \in Columns
  BY <1>1
<1>3. /\ line \in Seq(Byte) /\ Len(line) = n - m
      /\ \A k \in 1 .. n - m : line[k] = d[m + k]
  BY <1>1
<1>4. PICK q \in [0 .. Len(line) -> Columns] :
        Chain(q, ColumnF, c, line) /\ FoldLeft(ColumnAfter, c, line) = q[Len(line)]
  BY <1>2, <1>3, ColumnFold
<1> DEFINE T == {k \in Nat : q[k] = r[m + k]}
<1>5. 0 \in T
  BY <1>1, <1>4 DEF Chain
<1>6. ASSUME NEW k \in 0 .. n - m - 1, k \in T
      PROVE  k + 1 \in T
  <2>1. /\ k \in Nat /\ k + 1 \in Nat /\ m + k \in 0 .. Len(d) - 1 /\ k \in 0 .. Len(line) - 1
        /\ k + 1 \in 1 .. n - m /\ m + k + 1 \in m + 1 .. n /\ k \in 0 .. Len(line)
        /\ (m + k) + 1 = m + (k + 1)
    BY <1>1, <1>3
  <2>2. q[k + 1] = ColumnF[<<q[k], line[k + 1]>>]
    BY <1>4, <2>1 DEF Chain
  <2>3. r[m + k + 1] = PositionF[<<r[m + k], d[m + k + 1]>>]
    BY <2>1 DEF Chain
  <2>4. q[k] = r[m + k] /\ line[k + 1] = d[m + k + 1]
    BY <1>3, <1>6, <2>1
  <2>5. q[k] \in Columns /\ line[k + 1] \in Byte
    BY <1>3, <1>4, <2>1
  <2>6. d[m + k + 1] # Newline
    BY <2>1
  <2>7. <<q[k], line[k + 1]>> \in Columns \X Byte
    BY <2>5
  <2>8. PositionF[<<q[k], line[k + 1]>>] = ColumnF[<<q[k], line[k + 1]>>]
    BY <2>4, <2>6, <2>7 DEF PositionF, ColumnF
  <2> QED
    BY <2>1, <2>2, <2>3, <2>4, <2>8
<1> HIDE DEF T
<1>7. \A k \in 0 .. n - m : k \in T
  <2>1. n - m \in Nat
    BY <1>1
  <2> QED
    BY <1>5, <1>6, <2>1, InductionUpTo
<1>8. q[n - m] = r[n]
  <2>1. n - m \in T /\ m + (n - m) = n
    BY <1>1, <1>7
  <2> QED
    BY <2>1 DEF T
<1> QED
  BY <1>2, <1>3, <1>4, <1>8 DEF Leads

\* Where the last line of the first n bytes begins.
LastNewline(d, n) == Max({i \in 1 .. n : d[i] = Newline} \cup {0})

LEMMA LastNewlineIs ==
  ASSUME NEW d, NEW n \in Nat
  PROVE  /\ LastNewline(d, n) \in 0 .. n
         /\ LastNewline(d, n) # 0 => d[LastNewline(d, n)] = Newline
         /\ \A i \in LastNewline(d, n) + 1 .. n : d[i] # Newline
<1> DEFINE S == {i \in 1 .. n : d[i] = Newline} \cup {0}
<1>1. S \in SUBSET (0 .. n) /\ S # {}
  OBVIOUS
<1>2. Max(S) \in S /\ \A y \in S : Max(S) >= y
  <2> HIDE DEF S
  <2> QED
    BY <1>1, MaxIs
<1>3. LastNewline(d, n) = Max(S)
  BY DEF LastNewline
<1>4. \A i \in Max(S) + 1 .. n : d[i] # Newline
  <2>1. ASSUME NEW i \in Max(S) + 1 .. n, d[i] = Newline
        PROVE  FALSE
    <3>1. Max(S) \in 0 .. n
      BY <1>1, <1>2
    <3>2. i \in 1 .. n /\ ~ (Max(S) >= i)
      BY <2>1, <3>1
    <3>3. i \in S
      BY <2>1, <3>2
    <3> QED
      BY <1>2, <3>2, <3>3
  <2> QED
    BY <2>1
<1>5. Max(S) # 0 => d[Max(S)] = Newline
  BY <1>2
<1>6. Max(S) \in 0 .. n
  BY <1>1, <1>2
<1> HIDE DEF S
<1> QED
  BY <1>3, <1>4, <1>5, <1>6

-----------------------------------------------------------------------------

NewlinesTo(d, n) == {i \in 1 .. n : d[i] = Newline}

NewlinesAreAdded(d, m, e, k) ==
  /\ Cardinality(NewlinesTo(d, m + k))
       = Cardinality(NewlinesTo(d, m)) + Cardinality(NewlinesTo(e, k))
  /\ Cardinality(NewlinesTo(d, m)) \in Nat /\ Cardinality(NewlinesTo(e, k)) \in Nat

\* The newlines of two pieces are those of both together.
LEMMA NewlinesAdd ==
  ASSUME NEW d, NEW m \in Nat, NEW k \in Nat, NEW e, \A i \in 1 .. k : e[i] = d[m + i]
  PROVE  NewlinesAreAdded(d, m, e, k)
<1> DEFINE T == {j \in Nat : Cardinality(NewlinesTo(d, m + j))
                               = Cardinality(NewlinesTo(d, m)) + Cardinality(NewlinesTo(e, j))}
<1>1. ASSUME NEW s, NEW n \in Nat
      PROVE  /\ IsFiniteSet(NewlinesTo(s, n)) /\ Cardinality(NewlinesTo(s, n)) \in Nat
             /\ Cardinality(NewlinesTo(s, n + 1))
                  = Cardinality(NewlinesTo(s, n)) + (IF s[n + 1] = Newline THEN 1 ELSE 0)
  <2>1. IsFiniteSet(NewlinesTo(s, n))
    <3>1. IsFiniteSet(1 .. n)
      BY FS_Interval
    <3>2. NewlinesTo(s, n) \in SUBSET (1 .. n)
      BY DEF NewlinesTo
    <3> QED
      BY <3>1, <3>2, FS_Subset
  <2>2. Cardinality(NewlinesTo(s, n)) \in Nat
    BY <2>1, FS_CardinalityType
  <2>3. CASE s[n + 1] = Newline
    <3>1. NewlinesTo(s, n + 1) = NewlinesTo(s, n) \cup {n + 1}
      BY <2>3 DEF NewlinesTo
    <3>2. n + 1 \notin NewlinesTo(s, n)
      BY DEF NewlinesTo
    <3>3. Cardinality(NewlinesTo(s, n) \cup {n + 1}) = Cardinality(NewlinesTo(s, n)) + 1
      BY <2>1, <3>2, FS_AddElement
    <3> QED
      BY <2>1, <2>2, <2>3, <3>1, <3>3
  <2>4. CASE s[n + 1] # Newline
    <3>1. NewlinesTo(s, n + 1) = NewlinesTo(s, n)
      BY <2>4 DEF NewlinesTo
    <3> QED
      BY <2>1, <2>2, <2>4, <3>1
  <2> QED
    BY <2>3, <2>4
<1>2. 0 \in T
  <2>1. NewlinesTo(e, 0) = {}
    BY DEF NewlinesTo
  <2>2. Cardinality(NewlinesTo(e, 0)) = 0
    BY <2>1, FS_EmptySet
  <2>3. Cardinality(NewlinesTo(d, m)) \in Nat
    BY <1>1
  <2> QED
    BY <2>2, <2>3
<1>3. ASSUME NEW j \in 0 .. k - 1, j \in T
      PROVE  j + 1 \in T
  <2>1. j \in Nat /\ m + j \in Nat /\ (m + j) + 1 = m + (j + 1) /\ j + 1 \in 1 .. k /\ j + 1 \in Nat
    OBVIOUS
  <2>2. Cardinality(NewlinesTo(d, m + (j + 1)))
          = Cardinality(NewlinesTo(d, m + j)) + (IF d[m + (j + 1)] = Newline THEN 1 ELSE 0)
    BY <1>1, <2>1
  <2>3. Cardinality(NewlinesTo(e, j + 1))
          = Cardinality(NewlinesTo(e, j)) + (IF e[j + 1] = Newline THEN 1 ELSE 0)
    BY <1>1, <2>1
  <2>4. e[j + 1] = d[m + (j + 1)]
    BY <2>1
  <2>5. Cardinality(NewlinesTo(d, m)) \in Nat /\ Cardinality(NewlinesTo(e, j)) \in Nat
    BY <1>1, <2>1
  <2>6. Cardinality(NewlinesTo(d, m + j))
          = Cardinality(NewlinesTo(d, m)) + Cardinality(NewlinesTo(e, j))
    BY <1>3
  <2>7. Cardinality(NewlinesTo(d, m + (j + 1)))
          = Cardinality(NewlinesTo(d, m)) + Cardinality(NewlinesTo(e, j + 1))
    <3>1. CASE e[j + 1] = Newline
      BY <2>2, <2>3, <2>4, <2>5, <2>6, <3>1
    <3>2. CASE e[j + 1] # Newline
      BY <2>2, <2>3, <2>4, <2>5, <2>6, <3>2
    <3> QED
      BY <3>1, <3>2
  <2> QED
    BY <2>1, <2>7
<1>4. k \in T
  <2> HIDE DEF T
  <2>1. \A j \in 0 .. k : j \in T
    BY <1>2, <1>3, InductionUpTo
  <2> QED
    BY <2>1
<1> QED
  BY <1>1, <1>4 DEF NewlinesAreAdded
-----------------------------------------------------------------------------

\* The next multiple of eight is what the reader computes.
LEMMA TabStop ==
  ASSUME NEW c \in Columns
  PROVE  (CHOOSE e \in c + 1 .. c + 8 : e % 8 = 1) = 8 * ((c - 1) \div 8) + 9
<1> DEFINE e == 8 * ((c - 1) \div 8) + 9
<1>1. c \in Nat /\ c >= 1
  BY DEF Columns
<1>2. (c - 1) \div 8 \in Nat /\ 8 * ((c - 1) \div 8) <= c - 1 /\ c - 1 < 8 * ((c - 1) \div 8) + 8
  BY <1>1
<1>3. e \in c + 1 .. c + 8 /\ e % 8 = 1
  BY <1>1, <1>2
<1>4. ASSUME NEW f \in c + 1 .. c + 8, f % 8 = 1
      PROVE  f = e
  BY <1>1, <1>2, <1>3, <1>4
<1> HIDE DEF e
<1>5. (CHOOSE f \in c + 1 .. c + 8 : f % 8 = 1) = e
  BY <1>3, <1>4
<1> QED
  BY <1>5 DEF e

\* What the property says of a byte.
SaidAfter(c, byte) ==
  IF byte = Tab THEN CHOOSE e \in c + 1 .. c + 8 : e % 8 = 1
  ELSE c + (IF byte \in 128 .. 191 THEN 0 ELSE 1)

LEMMA SaidIs ==
  ASSUME NEW c \in Columns, NEW byte \in Byte
  PROVE  SaidAfter(c, byte) = ColumnF[<<c, byte>>]
<1>1. byte \in Int /\ byte >= 0 /\ byte <= 255
  BY DEF Byte
<1>2. byte \in 128 .. 191 <=> byte \div 64 = 2
  BY <1>1
<1>3. c \in Nat
  BY DEF Columns
<1>4. ColumnF[<<c, byte>>] = ColumnAfter(c, byte)
  BY DEF ColumnF
<1>5. CASE byte = Tab
  BY <1>4, <1>5, TabStop DEF SaidAfter, ColumnAfter
<1>6. CASE byte # Tab /\ byte \in 128 .. 191
  BY <1>2, <1>3, <1>4, <1>6 DEF SaidAfter, ColumnAfter
<1>7. CASE byte # Tab /\ byte \notin 128 .. 191
  BY <1>2, <1>3, <1>4, <1>7 DEF SaidAfter, ColumnAfter
<1> QED
  BY <1>5, <1>6, <1>7

\* The column that the property speaks of is where the fold leads.
LEMMA ColumnOfIs ==
  ASSUME NEW line \in Seq(Byte)
  PROVE  ColumnOf(line) = FoldLeft(ColumnAfter, 1, line)
<1> DEFINE n == Len(line)
           column[i \in 0 .. n] ==
             IF i = 0 THEN 1
             ELSE IF line[i] = Tab
               THEN CHOOSE c \in column[i - 1] + 1 .. column[i - 1] + 8 : c % 8 = 1
             ELSE column[i - 1] + (IF line[i] \in 128 .. 191 THEN 0 ELSE 1)
<1>1. ColumnOf(line) = column[n]
  BY Zenon DEF ColumnOf
<1>2. 1 \in Columns
  BY DEF Columns
<1>3. PICK q \in [0 .. n -> Columns] :
        Chain(q, ColumnF, 1, line) /\ FoldLeft(ColumnAfter, 1, line) = q[n]
  BY <1>2, ColumnFold
<1>4. q = [i \in 0 .. n |-> IF i = 0 THEN 1 ELSE SaidAfter(q[i - 1], line[i])]
  <2>1. ASSUME NEW i \in 0 .. n
        PROVE  q[i] = IF i = 0 THEN 1 ELSE SaidAfter(q[i - 1], line[i])
    <3>1. CASE i = 0
      BY <1>3, <3>1 DEF Chain
    <3>2. CASE i # 0
      <4>1. i - 1 \in 0 .. Len(line) - 1 /\ i \in 1 .. n /\ (i - 1) + 1 = i /\ i - 1 \in 0 .. n
        BY <3>2
      <4>2. q[(i - 1) + 1] = ColumnF[<<q[i - 1], line[(i - 1) + 1]>>]
        BY <1>3, <4>1 DEF Chain
      <4>3. q[i] = ColumnF[<<q[i - 1], line[i]>>]
        BY <4>1, <4>2
      <4>4. q[i - 1] \in Columns /\ line[i] \in Byte
        BY <4>1
      <4> QED
        BY <3>2, <4>3, <4>4, SaidIs
    <3> QED
      BY <3>1, <3>2
  <2> QED
    BY <2>1
<1>5. q = [i \in 0 .. n |->
             IF i = 0 THEN 1
             ELSE IF line[i] = Tab
               THEN CHOOSE c \in q[i - 1] + 1 .. q[i - 1] + 8 : c % 8 = 1
             ELSE q[i - 1] + (IF line[i] \in 128 .. 191 THEN 0 ELSE 1)]
  BY <1>4, Zenon DEF SaidAfter
<1>6. column = [i \in 0 .. n |->
             IF i = 0 THEN 1
             ELSE IF line[i] = Tab
               THEN CHOOSE c \in column[i - 1] + 1 .. column[i - 1] + 8 : c % 8 = 1
             ELSE column[i - 1] + (IF line[i] \in 128 .. 191 THEN 0 ELSE 1)]
  BY <1>5, Zenon
<1> HIDE DEF column
<1>7. column = [i \in 0 .. n |-> IF i = 0 THEN 1 ELSE SaidAfter(column[i - 1], line[i])]
  BY <1>6, Zenon DEF SaidAfter
<1> DEFINE T == {k \in Nat : column[k] = q[k]}
<1>8. 0 \in T
  <2>1. 0 \in 0 .. n
    OBVIOUS
  <2> QED
    BY <1>4, <1>7, <2>1
<1>9. ASSUME NEW k \in 0 .. n - 1, k \in T
      PROVE  k + 1 \in T
  <2>1. k + 1 \in 0 .. n /\ k + 1 # 0 /\ (k + 1) - 1 = k /\ column[k] = q[k] /\ k + 1 \in Nat
    BY <1>9
  <2>2. column[k + 1] = SaidAfter(column[k], line[k + 1])
    BY <1>7, <2>1
  <2>3. q[k + 1] = SaidAfter(q[k], line[k + 1])
    BY <1>4, <2>1
  <2> QED
    BY <2>1, <2>2, <2>3
<1>10. column[n] = q[n]
  <2> HIDE DEF T
  <2>0. n \in Nat
    OBVIOUS
  <2> HIDE DEF n
  <2>1. \A k \in 0 .. n : k \in T
    BY <1>8, <1>9, <2>0, InductionUpTo
  <2>2. n \in T
    BY <2>0, <2>1
  <2> QED
    BY <2>2 DEF T
<1> QED
  BY <1>1, <1>3, <1>10
-----------------------------------------------------------------------------

ColumnsOf(d) == CHOOSE r \in [0 .. Len(d) -> Columns] : Chain(r, PositionF, 1, d)

\* The location after the first n bytes of a document.
LocationAfter(d, n) ==
  [offset |-> n, line |-> 1 + Cardinality(NewlinesTo(d, n)), column |-> ColumnsOf(d)[n]]

LEMMA ColumnsOfIs ==
  ASSUME NEW d \in Seq(Byte)
  PROVE  ColumnsOf(d) \in [0 .. Len(d) -> Columns] /\ Chain(ColumnsOf(d), PositionF, 1, d)
<1>1. 1 \in Columns
  BY DEF Columns
<1>2. \E r \in [0 .. Len(d) -> Columns] : Chain(r, PositionF, 1, d)
  BY <1>1, PositionFType, ChainExists
<1> QED
  BY <1>2 DEF ColumnsOf

\* After a newline, and at the beginning, the column is the first.
LEMMA FirstColumn ==
  ASSUME NEW d \in Seq(Byte), NEW n \in 0 .. Len(d), n # 0 => d[n] = Newline
  PROVE  ColumnsOf(d)[n] = 1
<1>1. CASE n = 0
  BY <1>1, ColumnsOfIs DEF Chain
<1>2. CASE n # 0
  <2>1. n - 1 \in 0 .. Len(d) - 1 /\ (n - 1) + 1 = n /\ n - 1 \in 0 .. Len(d) /\ n \in 1 .. Len(d)
    BY <1>2
  <2>2. ColumnsOf(d)[(n - 1) + 1] = PositionF[<<ColumnsOf(d)[n - 1], d[(n - 1) + 1]>>]
    BY <2>1, ColumnsOfIs DEF Chain
  <2>3. ColumnsOf(d)[n] = PositionF[<<ColumnsOf(d)[n - 1], d[n]>>]
    BY <2>1, <2>2
  <2>4. ColumnsOf(d)[n - 1] \in Columns /\ d[n] \in Byte
    BY <2>1, ColumnsOfIs
  <2>5. d[n] = Newline
    BY <1>2
  <2> QED
    BY <2>3, <2>4, <2>5 DEF PositionF
<1> QED
  BY <1>1, <1>2

\* A piece of text leads from location to location.
LEMMA AdvanceIs ==
  ASSUME NEW d \in Seq(Byte), NEW n \in Nat, NEW k \in Nat, n + k <= Len(d),
         NEW data, data = SubSeq(d, n + 1, n + k)
  PROVE  Advance(LocationAfter(d, n), data) = LocationAfter(d, n + k)
<1>1. Len(d) \in Nat /\ n \in 0 .. Len(d) /\ n + k \in 0 .. Len(d)
  OBVIOUS
<1>2. data \in Seq(Byte) /\ Len(data) = k /\ \A i \in 1 .. k : data[i] = d[n + i]
  BY <1>1
<1>3. PICK last \in 0 .. k :
        /\ last = LastNewline(data, k)
        /\ last # 0 => data[last] = Newline
        /\ \A i \in last + 1 .. k : data[i] # Newline
  BY LastNewlineIs
<1> DEFINE remains == SubSeq(data, last + 1, k)
           from == ColumnFrom(LocationAfter(d, n), last)
<1>4. Advance(LocationAfter(d, n), data) =
        [offset |-> n + k,
         line   |-> 1 + Cardinality(NewlinesTo(d, n)) + Cardinality(NewlinesTo(data, k)),
         column |-> FoldLeft(ColumnAfter, from, remains)]
  <2>1. /\ LocationAfter(d, n).offset = n
        /\ LocationAfter(d, n).line = 1 + Cardinality(NewlinesTo(d, n))
    BY DEF LocationAfter
  <2> HIDE DEF from, remains
  <2>2. Advance(LocationAfter(d, n), data) =
          [offset |-> LocationAfter(d, n).offset + Len(data),
           line   |-> LocationAfter(d, n).line + Cardinality(NewlinesTo(data, Len(data))),
           column |-> FoldLeft(ColumnAfter, from, remains)]
    BY <1>2, <1>3, Zenon DEF Advance, NewlinesTo, LastNewline, from, remains
  <2> QED
    BY <1>2, <2>1, <2>2
<1>5. 1 + Cardinality(NewlinesTo(d, n)) + Cardinality(NewlinesTo(data, k))
        = 1 + Cardinality(NewlinesTo(d, n + k))
  <2>1. \A i \in 1 .. k : data[i] = d[n + i]
    BY <1>2
  <2>2. /\ Cardinality(NewlinesTo(d, n + k))
             = Cardinality(NewlinesTo(d, n)) + Cardinality(NewlinesTo(data, k))
        /\ Cardinality(NewlinesTo(d, n)) \in Nat /\ Cardinality(NewlinesTo(data, k)) \in Nat
    <3>1. NewlinesAreAdded(d, n, data, k)
      BY <2>1, NewlinesAdd
    <3> QED
      BY <3>1 DEF NewlinesAreAdded
  <2> QED
    BY <2>2
<1>6. from = ColumnsOf(d)[n + last]
  <2>1. CASE last = 0
    BY <2>1, <1>1 DEF ColumnFrom, LocationAfter
  <2>2. CASE last # 0
    <3>1. n + last \in 0 .. Len(d) /\ d[n + last] = Newline
      BY <1>1, <1>2, <1>3, <2>2
    <3>2. ColumnsOf(d)[n + last] = 1
      BY <3>1, FirstColumn
    <3> QED
      BY <2>2, <3>2 DEF ColumnFrom
  <2> QED
    BY <2>1, <2>2
<1>7. remains = SubSeq(d, (n + last) + 1, n + k)
  <2>1. last \in Nat /\ last <= k /\ k \in 0 .. Len(data) /\ n + last \in 0 .. n + k
        /\ (n + k) - (n + last) = k - last
    BY <1>2
  <2>2. /\ remains \in Seq(Byte) /\ Len(remains) = k - last
        /\ \A i \in 1 .. k - last : remains[i] = data[last + i]
    BY <1>2, <2>1, PieceIs
  <2> DEFINE other == SubSeq(d, (n + last) + 1, n + k)
  <2>3. /\ other \in Seq(Byte) /\ Len(other) = k - last
        /\ \A i \in 1 .. k - last : other[i] = d[(n + last) + i]
    BY <1>1, <2>1, PieceIs
  <2> HIDE DEF remains, other
  <2>4. ASSUME NEW i \in 1 .. k - last
        PROVE  remains[i] = other[i]
    <3>1. last + i \in 1 .. k /\ n + (last + i) = (n + last) + i
      BY <2>1
    <3> QED
      BY <1>2, <2>2, <2>3, <3>1
  <2>5. remains = other
    BY <2>2, <2>3, <2>4, SeqEqual
  <2> QED
    BY <2>5 DEF other
<1>8. FoldLeft(ColumnAfter, from, remains) = ColumnsOf(d)[n + k]
  <2>1. n + last \in 0 .. n + k
    BY <1>3
  <2>2. \A i \in (n + last) + 1 .. n + k : d[i] # Newline
    <3>1. ASSUME NEW i \in (n + last) + 1 .. n + k
          PROVE  d[i] # Newline
      <4>1. i - n \in last + 1 .. k /\ i - n \in 1 .. k /\ n + (i - n) = i
        BY <1>3
      <4> QED
        BY <1>2, <1>3, <4>1
    <3> QED
      BY <3>1
  <2> HIDE DEF from, remains
  <2>3. PICK r : r = ColumnsOf(d)
    OBVIOUS
  <2>4. r \in [0 .. Len(d) -> Columns] /\ Chain(r, PositionF, 1, d)
    BY <2>3, ColumnsOfIs
  <2>5. PICK m \in 0 .. n + k : m = n + last
    BY <2>1
  <2>6. PICK u \in 0 .. Len(d) : u = n + k
    BY <1>1
  <2>7. m \in 0 .. u /\ \A i \in m + 1 .. u : d[i] # Newline
    BY <2>2, <2>5, <2>6
  <2>8. from = r[m] /\ remains = SubSeq(d, m + 1, u)
    BY <1>6, <1>7, <2>3, <2>5, <2>6
  <2>9. Leads(from, remains, r[u])
    BY <2>4, <2>7, <2>8, Stretch
  <2> QED
    BY <2>3, <2>6, <2>8, <2>9 DEF Leads
<1> HIDE DEF from, remains
<1> QED
  BY <1>4, <1>5, <1>8 DEF LocationAfter

\* And so does a byte.
LEMMA AdvanceOneIs ==
  ASSUME NEW d \in Seq(Byte), NEW n \in 0 .. Len(d) - 1
  PROVE  AdvanceOne(LocationAfter(d, n), d[n + 1]) = LocationAfter(d, n + 1)
<1>1. n \in Nat /\ n + 1 \in 1 .. Len(d) /\ n \in 0 .. Len(d) /\ d[n + 1] \in Byte
  OBVIOUS
<1>2. ColumnsOf(d)[n + 1] = PositionF[<<ColumnsOf(d)[n], d[n + 1]>>]
  BY ColumnsOfIs DEF Chain
<1>3. ColumnsOf(d)[n] \in Columns
  BY <1>1, ColumnsOfIs
<1>4. ColumnsOf(d)[n + 1] = IF d[n + 1] = Newline THEN 1 ELSE ColumnAfter(ColumnsOf(d)[n], d[n + 1])
  BY <1>1, <1>2, <1>3 DEF PositionF
<1> PICK e : e = <<d[n + 1]>>
  OBVIOUS
<1>5. /\ Cardinality(NewlinesTo(d, n + 1))
           = Cardinality(NewlinesTo(d, n)) + Cardinality(NewlinesTo(e, 1))
      /\ Cardinality(NewlinesTo(d, n)) \in Nat
  <2>1. \A i \in 1 .. 1 : e[i] = d[n + i]
    OBVIOUS
  <2> QED
    BY <1>1, <2>1, NewlinesAdd DEF NewlinesAreAdded
<1>6. Cardinality(NewlinesTo(e, 1)) = IF d[n + 1] = Newline THEN 1 ELSE 0
  <2>1. CASE d[n + 1] = Newline
    <3>1. NewlinesTo(e, 1) = {1}
      BY <2>1 DEF NewlinesTo
    <3> QED
      BY <2>1, <3>1, FS_Singleton
  <2>2. CASE d[n + 1] # Newline
    <3>1. NewlinesTo(e, 1) = {}
      BY <2>2 DEF NewlinesTo
    <3> QED
      BY <2>2, <3>1, FS_EmptySet
  <2> QED
    BY <2>1, <2>2
<1> DEFINE here == LocationAfter(d, n)
<1>9. /\ here.offset = n /\ here.line = 1 + Cardinality(NewlinesTo(d, n))
      /\ here.column = ColumnsOf(d)[n]
  BY DEF LocationAfter
<1>7. CASE d[n + 1] = Newline
  BY <1>4, <1>5, <1>6, <1>7 DEF AdvanceOne, LocationAfter
<1>8. CASE d[n + 1] # Newline
  <2>1. AdvanceOne(here, d[n + 1]) =
          [offset |-> here.offset + 1, line |-> here.line,
           column |-> ColumnAfter(here.column, d[n + 1])]
    BY <1>8 DEF AdvanceOne, LocationAfter
  <2>2. Cardinality(NewlinesTo(d, n + 1)) = Cardinality(NewlinesTo(d, n))
    BY <1>5, <1>6, <1>8
  <2>3. ColumnsOf(d)[n + 1] = ColumnAfter(ColumnsOf(d)[n], d[n + 1])
    BY <1>4, <1>8
  <2> HIDE DEF here
  <2>4. AdvanceOne(here, d[n + 1]) =
          [offset |-> n + 1, line |-> 1 + Cardinality(NewlinesTo(d, n + 1)),
           column |-> ColumnsOf(d)[n + 1]]
    BY <1>9, <2>1, <2>2, <2>3
  <2> QED
    BY <2>4 DEF LocationAfter, here
<1> QED
  BY <1>7, <1>8
-----------------------------------------------------------------------------

\* How much of the document has been gone through.
Gone == Len(subject) - Len(text)

\* What is left of a document after n bytes.
RestOf(d, n, remains) ==
  /\ remains \in Seq(Byte) /\ n \in 0 .. Len(d) /\ Len(remains) = Len(d) - n
  /\ \A i \in 1 .. Len(remains) : remains[i] = d[n + i]

\* What is left is the rest of the document, and the location is that after the others.
LocationInv ==
  kind = "document" =>
    /\ subject \in Seq(Byte)
    /\ RestOf(subject, Gone, text)
    /\ outcome = LocationAfter(subject, Gone)

\* A piece of what is left, and what is left without it.
LEMMA GoesOn ==
  ASSUME NEW d \in Seq(Byte), NEW n, NEW remains, RestOf(d, n, remains), NEW k \in 1 .. Len(remains)
  PROVE  /\ RestOf(d, n + k, SubSeq(remains, k + 1, Len(remains)))
         /\ SubSeq(remains, 1, k) = SubSeq(d, n + 1, n + k)
         /\ n \in Nat /\ k \in Nat /\ n + k <= Len(d)
<1>1. /\ remains \in Seq(Byte) /\ n \in 0 .. Len(d) /\ Len(remains) = Len(d) - n
      /\ \A i \in 1 .. Len(remains) : remains[i] = d[n + i]
  BY DEF RestOf
<1>2. PICK D \in Nat, R \in Nat : D = Len(d) /\ R = Len(remains)
  BY <1>1
<1>3. /\ n \in Nat /\ k \in Nat /\ k <= R /\ n <= D /\ R = D - n
  BY <1>1, <1>2
<1>4. /\ n + k \in 0 .. D /\ n + k <= D /\ k \in 0 .. R /\ n \in 0 .. n + k
      /\ R \in 0 .. R /\ 0 \in 0 .. k
      /\ (n + k) - n = k /\ D - (n + k) = R - k /\ k - 0 = k
  BY <1>3
<1> DEFINE left  == SubSeq(remains, k + 1, R)
           some  == SubSeq(remains, 0 + 1, k)
           some2 == SubSeq(d, n + 1, n + k)
<1>5. left \in Seq(Byte) /\ Len(left) = R - k /\ \A i \in 1 .. R - k : left[i] = remains[k + i]
  BY <1>1, <1>2, <1>4, PieceIs
<1>6. some \in Seq(Byte) /\ Len(some) = k - 0 /\ \A i \in 1 .. k - 0 : some[i] = remains[0 + i]
  BY <1>1, <1>2, <1>4, PieceIs
<1>7. some2 \in Seq(Byte) /\ Len(some2) = (n + k) - n
      /\ \A i \in 1 .. (n + k) - n : some2[i] = d[n + i]
  BY <1>2, <1>4, PieceIs
<1>8. SubSeq(remains, 1, k) = some
  OBVIOUS
<1> HIDE DEF left, some, some2
<1>9. some = some2
  <2>1. Len(some) = k /\ Len(some2) = k
    BY <1>4, <1>6, <1>7
  <2>2. ASSUME NEW i \in 1 .. k
        PROVE  some[i] = some2[i]
    <3>1. 0 + i = i /\ i \in 1 .. R
      BY <1>3
    <3>2. some[i] = remains[0 + i]
      BY <1>4, <1>6
    <3>3. some2[i] = d[n + i]
      BY <1>4, <1>7
    <3>4. remains[i] = d[n + i]
      BY <1>1, <1>2, <3>1
    <3> QED
      BY <3>1, <3>2, <3>3, <3>4
  <2> QED
    BY <1>6, <1>7, <2>1, <2>2, SeqEqual
<1>10. RestOf(d, n + k, left)
  <2>1. ASSUME NEW i \in 1 .. Len(left)
        PROVE  left[i] = d[(n + k) + i]
    <3>1. k + i \in 1 .. R /\ n + (k + i) = (n + k) + i
      BY <1>3, <1>5
    <3> QED
      BY <1>1, <1>2, <1>5, <3>1
  <2> QED
    BY <1>2, <1>4, <1>5, <2>1 DEF RestOf
<1>11. RestOf(d, n + k, SubSeq(remains, k + 1, Len(remains)))
  BY <1>2, <1>10 DEF left
<1>12. SubSeq(remains, 1, k) = SubSeq(d, n + 1, n + k)
  BY <1>8, <1>9 DEF some2
<1> QED
  BY <1>2, <1>3, <1>4, <1>11, <1>12

LEMMA LocationInit == TextsInit => LocationInv
<1> SUFFICES ASSUME TextsInit, kind = "document"
             PROVE  LocationInv
  BY DEF LocationInv
<1>1. subject \in Documents /\ text = subject /\ outcome = Start
  BY DEF TextsInit
<1>2. subject \in Seq(Byte) /\ Gone = 0
  BY <1>1, DocumentsAssumption DEF Gone
<1>3. RestOf(subject, 0, text)
  BY <1>1, <1>2 DEF RestOf
<1>4. LocationAfter(subject, 0) = Start
  <2>1. NewlinesTo(subject, 0) = {}
    BY DEF NewlinesTo
  <2>2. Cardinality(NewlinesTo(subject, 0)) = 0
    BY <2>1, FS_EmptySet
  <2>3. ColumnsOf(subject)[0] = 1
    BY <1>2, FirstColumn
  <2> QED
    BY <2>2, <2>3 DEF LocationAfter, Start
<1> QED
  BY <1>1, <1>2, <1>3, <1>4 DEF LocationInv

LEMMA LocationNext == LocationInv /\ [TextsNext]_<<vars, textVars>> => LocationInv'
<1> SUFFICES ASSUME LocationInv, [TextsNext]_<<vars, textVars>>
             PROVE  LocationInv'
  OBVIOUS
<1>1. CASE UNCHANGED textVars
  BY <1>1 DEF LocationInv, Gone, textVars
<1>2. CASE WriteInteger
  BY <1>2 DEF WriteInteger, LocationInv
<1>3. CASE ReadNumberText
  BY <1>3 DEF ReadNumberText, LocationInv
<1>4. CASE ParsePair
  BY <1>4 DEF ParsePair, LocationInv
<1>5. CASE AdvanceReader
  <2>1. PICK n : n = Gone
    OBVIOUS
  <2>2. /\ subject \in Seq(Byte) /\ text \in Seq(Byte) /\ RestOf(subject, n, text)
        /\ outcome = LocationAfter(subject, n)
    BY <1>5, <2>1 DEF AdvanceReader, LocationInv, RestOf
  <2>3. ASSUME NEW k \in 1 .. Len(text), text' = SubSeq(text, k + 1, Len(text)),
               outcome' = LocationAfter(subject, n + k)
        PROVE  LocationInv'
    <3>1. RestOf(subject, n + k, text')
      BY <2>2, <2>3, GoesOn
    <3>2. subject' = subject
      BY <1>5 DEF AdvanceReader
    <3>3. Gone' = n + k
      <4>1. /\ n + k \in 0 .. Len(subject) /\ Len(text') = Len(subject) - (n + k)
            /\ Len(subject) \in Nat
        BY <2>2, <3>1 DEF RestOf
      <4> QED
        BY <3>2, <4>1 DEF Gone
    <3> QED
      BY <2>2, <2>3, <3>1, <3>2, <3>3 DEF LocationInv
  <2>4. CASE outcome' = AdvanceOne(outcome, Head(text)) /\ text' = Tail(text)
    <3>1. /\ 1 \in 1 .. Len(text) /\ Tail(text) = SubSeq(text, 1 + 1, Len(text))
          /\ Head(text) = text[1]
      BY <1>5, <2>2 DEF AdvanceReader
    <3>2. n \in 0 .. Len(subject) - 1 /\ text[1] = subject[n + 1]
      BY <2>2, <3>1 DEF RestOf
    <3>3. outcome' = LocationAfter(subject, n + 1)
      BY <2>2, <2>4, <3>1, <3>2, AdvanceOneIs
    <3> QED
      BY <2>3, <2>4, <3>1, <3>3
  <2>5. ASSUME NEW k \in 1 .. Len(text), outcome' = Advance(outcome, SubSeq(text, 1, k)),
               text' = SubSeq(text, k + 1, Len(text))
        PROVE  LocationInv'
    <3>1. SubSeq(text, 1, k) = SubSeq(subject, n + 1, n + k)
      BY <2>2, GoesOn
    <3>2. n \in Nat /\ k \in Nat /\ n + k <= Len(subject)
      BY <2>2, GoesOn
    <3>3. Advance(LocationAfter(subject, n), SubSeq(subject, n + 1, n + k))
            = LocationAfter(subject, n + k)
      BY <2>2, <3>2, AdvanceIs
    <3>4. outcome' = LocationAfter(subject, n + k)
      BY <2>2, <2>5, <3>1, <3>3
    <3> QED
      BY <2>3, <2>5, <3>4
  <2> QED
    BY <1>5, <2>4, <2>5 DEF AdvanceReader
<1> QED
  BY <1>1, <1>2, <1>3, <1>4, <1>5 DEF TextsNext, textVars

LEMMA LocationSaid == LocationInv => LocationByPieces
<1> SUFFICES ASSUME LocationInv, kind = "document"
             PROVE  LET gone == SubSeq(subject, 1, Len(subject) - Len(text))
                        newlines == {i \in 1 .. Len(gone) : gone[i] = Newline}
                    IN  outcome = [offset |-> Len(gone), line |-> 1 + Cardinality(newlines),
                           column |-> ColumnOf(SubSeq(gone, Max(newlines \cup {0}) + 1, Len(gone)))]
  BY DEF LocationByPieces
<1> DEFINE n == Gone
           gone == SubSeq(subject, 0 + 1, n)
<1>1. /\ subject \in Seq(Byte) /\ n \in 0 .. Len(subject) /\ n \in Nat /\ 0 \in 0 .. n
      /\ outcome = LocationAfter(subject, n)
  BY DEF LocationInv, RestOf
<1> HIDE DEF n
<1>2. gone \in Seq(Byte) /\ Len(gone) = n /\ \A i \in 1 .. n : gone[i] = subject[i]
  <2>1. gone \in Seq(Byte) /\ Len(gone) = n - 0 /\ \A i \in 1 .. n - 0 : gone[i] = subject[0 + i]
    BY <1>1, PieceIs
  <2> HIDE DEF gone
  <2>2. n - 0 = n
    BY <1>1
  <2>3. ASSUME NEW i \in 1 .. n
        PROVE  gone[i] = subject[i]
    <3>1. i \in 1 .. n - 0 /\ 0 + i = i
      BY <2>2
    <3> QED
      BY <2>1, <3>1
  <2> QED
    BY <2>1, <2>2, <2>3
<1>3. gone = SubSeq(subject, 1, Len(subject) - Len(text))
  BY DEF n, Gone
<1> HIDE DEF gone
<1>4. {i \in 1 .. Len(gone) : gone[i] = Newline} = NewlinesTo(subject, n)
  BY <1>2 DEF NewlinesTo
<1>5. Max({i \in 1 .. Len(gone) : gone[i] = Newline} \cup {0}) = LastNewline(subject, n)
  BY <1>4 DEF NewlinesTo, LastNewline
<1>6. PICK m \in 0 .. n :
        /\ m = LastNewline(subject, n)
        /\ m # 0 => subject[m] = Newline
        /\ \A i \in m + 1 .. n : subject[i] # Newline
  BY <1>1, LastNewlineIs
<1> DEFINE line == SubSeq(gone, m + 1, n)
           line2 == SubSeq(subject, m + 1, n)
<1>7. line = line2
  <2>1. n \in 0 .. Len(gone)
    BY <1>1, <1>2
  <2>2. line \in Seq(Byte) /\ Len(line) = n - m /\ \A i \in 1 .. n - m : line[i] = gone[m + i]
    BY <1>2, <2>1, PieceIs
  <2>3. line2 \in Seq(Byte) /\ Len(line2) = n - m /\ \A i \in 1 .. n - m : line2[i] = subject[m + i]
    BY <1>1, PieceIs
  <2> HIDE DEF line, line2
  <2>4. ASSUME NEW i \in 1 .. n - m
        PROVE  line[i] = line2[i]
    <3>1. m + i \in 1 .. n
      BY <1>1
    <3> QED
      BY <1>2, <2>2, <2>3, <3>1
  <2> QED
    BY <2>2, <2>3, <2>4, SeqEqual
<1>8. ColumnOf(line2) = ColumnsOf(subject)[n]
  <2>1. m \in 0 .. Len(subject)
    BY <1>1
  <2>2. 1 = ColumnsOf(subject)[m]
    BY <1>1, <1>6, <2>1, FirstColumn
  <2> DEFINE r == ColumnsOf(subject)
  <2>3. r \in [0 .. Len(subject) -> Columns] /\ Chain(r, PositionF, 1, subject)
    BY <1>1, ColumnsOfIs
  <2>4. 1 = r[m]
    BY <2>2
  <2> HIDE DEF r
  <2>5. line2 \in Seq(Byte) /\ Leads(1, line2, r[n])
    BY <1>1, <1>6, <2>3, <2>4, Stretch
  <2> HIDE DEF line2
  <2> QED
    BY <2>5, ColumnOfIs DEF r, Leads
<1> HIDE DEF line2
<1>9. ColumnOf(SubSeq(gone, Max({i \in 1 .. Len(gone) : gone[i] = Newline} \cup {0}) + 1,
                      Len(gone)))
        = ColumnsOf(subject)[n]
  BY <1>2, <1>5, <1>6, <1>7, <1>8
<1>10. outcome = [offset |-> Len(gone),
                  line |-> 1 + Cardinality({i \in 1 .. Len(gone) : gone[i] = Newline}),
                  column |-> ColumnOf(SubSeq(gone,
                                Max({i \in 1 .. Len(gone) : gone[i] = Newline} \cup {0}) + 1,
                                Len(gone)))]
  BY <1>1, <1>2, <1>4, <1>9 DEF LocationAfter
<1> QED
  BY <1>3, <1>10

\* The pieces into which the reader cuts a text, inside a character or a line, change
\* nothing of the location that it knows, for every text.
THEOREM PiecesDoNotMatter == TextsSpec => []LocationByPieces
<1>1. TextsInit => LocationInv
  BY LocationInit
<1>2. LocationInv /\ [TextsNext]_<<vars, textVars>> => LocationInv'
  BY LocationNext
<1>3. LocationInv => LocationByPieces
  BY LocationSaid
<1> QED
  BY <1>1, <1>2, <1>3, PTL DEF TextsSpec

-----------------------------------------------------------------------------

Digit == 0 .. 9

\* A value and one more digit.
ValueF == [p \in Nat \X Digit |-> 10 * p[1] + p[2]]

LEMMA ValueFType == ValueF \in [Nat \X Digit -> Nat]
<1>1. ASSUME NEW p \in Nat \X Digit
      PROVE  10 * p[1] + p[2] \in Nat
  BY DEF Digit
<1> QED
  BY <1>1 DEF ValueF

\* The values of the first digits of a number, of none, of one and so on.
ValuesOf(digits) == CHOOSE r \in [0 .. Len(digits) -> Nat] : Chain(r, ValueF, 0, digits)
Value(digits)    == ValuesOf(digits)[Len(digits)]

LEMMA ValuesOfIs ==
  ASSUME NEW digits \in Seq(Digit)
  PROVE  /\ ValuesOf(digits) \in [0 .. Len(digits) -> Nat] /\ ValuesOf(digits)[0] = 0
         /\ Chain(ValuesOf(digits), ValueF, 0, digits)
         /\ \A k \in 0 .. Len(digits) - 1 :
              ValuesOf(digits)[k + 1] = 10 * ValuesOf(digits)[k] + digits[k + 1]
         /\ Value(digits) \in Nat
<1>1. 0 \in Nat /\ ValueF \in [Nat \X Digit -> Nat]
  BY ValueFType
<1>2. \E r \in [0 .. Len(digits) -> Nat] : Chain(r, ValueF, 0, digits)
  BY <1>1, ChainExists
<1>3. /\ ValuesOf(digits) \in [0 .. Len(digits) -> Nat]
      /\ Chain(ValuesOf(digits), ValueF, 0, digits)
  BY <1>2 DEF ValuesOf
<1>4. ASSUME NEW k \in 0 .. Len(digits) - 1
      PROVE  ValuesOf(digits)[k + 1] = 10 * ValuesOf(digits)[k] + digits[k + 1]
  <2>1. k \in 0 .. Len(digits) /\ k + 1 \in 1 .. Len(digits)
    OBVIOUS
  <2>2. ValuesOf(digits)[k] \in Nat /\ digits[k + 1] \in Digit
    BY <1>3, <2>1
  <2>3. ValuesOf(digits)[k + 1] = ValueF[<<ValuesOf(digits)[k], digits[k + 1]>>]
    BY <1>3 DEF Chain
  <2> QED
    BY <2>2, <2>3 DEF ValueF
<1>5. Value(digits) \in Nat
  <2>1. Len(digits) \in 0 .. Len(digits)
    OBVIOUS
  <2> QED
    BY <1>3, <2>1 DEF Value
<1> QED
  BY <1>3, <1>4, <1>5 DEF Chain

\* The value that the property speaks of.
LEMMA ValueOfIs ==
  ASSUME NEW digits \in Seq(Digit)
  PROVE  ValueOf(digits) = Value(digits)
<1>0. 0 \in Nat /\ ValueF \in [Nat \X Digit -> Nat]
  BY ValueFType
<1>1. PICK h \in [SUBSET DOMAIN digits -> Nat] : Folds(h, ValueF, 0, digits)
  BY <1>0, FoldExists
<1>2. ASSUME NEW S \in SUBSET DOMAIN digits, S # {}
      PROVE  S \ {Max(S)} \in SUBSET DOMAIN digits /\ digits[Max(S)] \in Digit
  BY <1>2, FoldTakes
<1>3. h = [S \in SUBSET DOMAIN digits |->
             IF S = {} THEN 0 ELSE 10 * h[S \ {Max(S)}] + digits[Max(S)]]
  <2>1. h = [S \in SUBSET DOMAIN digits |->
               IF S = {} THEN 0 ELSE ValueF[<<h[S \ {Max(S)}], digits[Max(S)]>>]]
    BY <1>1 DEF Folds
  <2>2. ASSUME NEW S \in SUBSET DOMAIN digits, S # {}
        PROVE  ValueF[<<h[S \ {Max(S)}], digits[Max(S)]>>] = 10 * h[S \ {Max(S)}] + digits[Max(S)]
    BY <1>2, <2>2 DEF ValueF
  <2> QED
    BY <2>1, <2>2
<1> DEFINE iter[S \in SUBSET DOMAIN digits] ==
      IF S = {} THEN 0 ELSE 10 * iter[S \ {Max(S)}] + digits[Max(S)]
<1>4. ValueOf(digits) = iter[DOMAIN digits]
  BY Zenon DEF ValueOf, FoldLeft, MapThenFoldSet
<1>5. iter = [S \in SUBSET DOMAIN digits |->
                IF S = {} THEN 0 ELSE 10 * iter[S \ {Max(S)}] + digits[Max(S)]]
  BY <1>3, Zenon
<1> HIDE DEF iter
<1>6. GoesOnBy(iter, ValueF, 0, digits, Nat)
  <2>1. iter = [S \in SUBSET DOMAIN digits |-> iter[S]]
    BY <1>5
  <2>2. iter[{}] = 0
    BY <1>5
  <2>3. ASSUME NEW S \in SUBSET DOMAIN digits, S # {}, iter[S \ {Max(S)}] \in Nat
        PROVE  iter[S] = ValueF[<<iter[S \ {Max(S)}], digits[Max(S)]>>]
    <3>1. iter[S] = 10 * iter[S \ {Max(S)}] + digits[Max(S)]
      BY <1>5, <2>3
    <3> QED
      BY <1>2, <2>3, <3>1 DEF ValueF
  <2> QED
    BY <2>1, <2>2, <2>3 DEF GoesOnBy
<1>7. PICK r \in [0 .. Len(digits) -> Nat] :
        Chain(r, ValueF, 0, digits) /\ EndsChain(iter, r, digits)
  BY <1>0, <1>6, FoldStays
<1>8. ValueOf(digits) = r[Len(digits)]
  BY <1>4, <1>7 DEF EndsChain
<1>9. r[Len(digits)] = Value(digits)
  <2>1. \A k \in 0 .. Len(digits) : r[k] = ValuesOf(digits)[k]
    BY <1>7, ValuesOfIs, OneChain
  <2>2. Len(digits) \in 0 .. Len(digits)
    OBVIOUS
  <2> QED
    BY <2>1, <2>2 DEF Value
<1> QED
  BY <1>8, <1>9

-----------------------------------------------------------------------------

Accumulator == [value : Nat, used : Nat, full : BOOLEAN]

\* What Accumulate does with a digit.
AfterDigit(a, d, max) ==
  IF a.full \/ Overflows(a.value, d, max)
    THEN [a EXCEPT !.full = TRUE]
    ELSE [value |-> a.value * 10 + d, used |-> a.used + 1, full |-> FALSE]

AccumulateF(max) == [p \in Accumulator \X Digit |-> AfterDigit(p[1], p[2], max)]

LEMMA AccumulateFType ==
  ASSUME NEW max
  PROVE  AccumulateF(max) \in [Accumulator \X Digit -> Accumulator]
<1>1. ASSUME NEW a \in Accumulator, NEW d \in Digit
      PROVE  AfterDigit(a, d, max) \in Accumulator
  <2>1. CASE a.full \/ Overflows(a.value, d, max)
    BY <2>1 DEF Accumulator, AfterDigit
  <2>2. CASE ~ (a.full \/ Overflows(a.value, d, max))
    BY <2>2 DEF Accumulator, AfterDigit, Digit
  <2> QED
    BY <2>1, <2>2
<1>2. ASSUME NEW p \in Accumulator \X Digit
      PROVE  AfterDigit(p[1], p[2], max) \in Accumulator
  BY <1>1
<1> QED
  BY <1>2 DEF AccumulateF

\* Before the digits.
StartAt(start) == [value |-> start, used |-> 0, full |-> FALSE]

LEMMA AccumulateIs ==
  ASSUME NEW start \in Nat, NEW digits \in Seq(Digit), NEW max
  PROVE  \E r \in [0 .. Len(digits) -> Accumulator] :
            /\ Chain(r, AccumulateF(max), StartAt(start), digits)
            /\ Accumulate(start, digits, max) = r[Len(digits)]
<1> DEFINE F == AccumulateF(max)
<1>0. StartAt(start) \in Accumulator /\ F \in [Accumulator \X Digit -> Accumulator]
  BY AccumulateFType DEF StartAt, Accumulator
<1> HIDE DEF F
<1>1. PICK h \in [SUBSET DOMAIN digits -> Accumulator] : Folds(h, F, StartAt(start), digits)
  BY <1>0, FoldExists
<1>2. ASSUME NEW S \in SUBSET DOMAIN digits, S # {}
      PROVE  S \ {Max(S)} \in SUBSET DOMAIN digits /\ digits[Max(S)] \in Digit
  BY <1>2, FoldTakes
<1>3. h = [S \in SUBSET DOMAIN digits |->
             IF S = {} THEN StartAt(start) ELSE AfterDigit(h[S \ {Max(S)}], digits[Max(S)], max)]
  <2>1. h = [S \in SUBSET DOMAIN digits |->
               IF S = {} THEN StartAt(start) ELSE F[<<h[S \ {Max(S)}], digits[Max(S)]>>]]
    BY <1>1 DEF Folds
  <2>2. ASSUME NEW S \in SUBSET DOMAIN digits, S # {}
        PROVE  F[<<h[S \ {Max(S)}], digits[Max(S)]>>]
                 = AfterDigit(h[S \ {Max(S)}], digits[Max(S)], max)
    BY <1>2, <2>2 DEF F, AccumulateF
  <2> QED
    BY <2>1, <2>2
<1> DEFINE iter[S \in SUBSET DOMAIN digits] ==
      IF S = {} THEN StartAt(start) ELSE AfterDigit(iter[S \ {Max(S)}], digits[Max(S)], max)
<1>4. Accumulate(start, digits, max) = iter[DOMAIN digits]
  BY Zenon DEF Accumulate, FoldLeft, MapThenFoldSet, AfterDigit, StartAt
<1>5. iter = [S \in SUBSET DOMAIN digits |->
                IF S = {} THEN StartAt(start) ELSE AfterDigit(iter[S \ {Max(S)}], digits[Max(S)], max)]
  BY <1>3, Zenon
<1> HIDE DEF iter
<1>6. GoesOnBy(iter, F, StartAt(start), digits, Accumulator)
  <2>1. iter = [S \in SUBSET DOMAIN digits |-> iter[S]]
    BY <1>5
  <2>2. iter[{}] = StartAt(start)
    BY <1>5
  <2>3. ASSUME NEW S \in SUBSET DOMAIN digits, S # {}, iter[S \ {Max(S)}] \in Accumulator
        PROVE  iter[S] = F[<<iter[S \ {Max(S)}], digits[Max(S)]>>]
    <3>1. iter[S] = AfterDigit(iter[S \ {Max(S)}], digits[Max(S)], max)
      BY <1>5, <2>3
    <3> QED
      BY <1>2, <2>3, <3>1 DEF F, AccumulateF
  <2> QED
    BY <2>1, <2>2, <2>3 DEF GoesOnBy
<1>7. PICK r \in [0 .. Len(digits) -> Accumulator] :
        Chain(r, F, StartAt(start), digits) /\ EndsChain(iter, r, digits)
  BY <1>0, <1>6, FoldStays
<1>8. Accumulate(start, digits, max) = r[Len(digits)]
  BY <1>4, <1>7 DEF EndsChain
<1> QED
  BY <1>7, <1>8 DEF F

-----------------------------------------------------------------------------

\* The test that the reading loops make before they append a digit refuses it exactly if
\* the value would leave the type, and does not overflow itself.
THEOREM OverflowsExactly ==
  ASSUME NEW max \in Nat, max >= 9, NEW value \in 0 .. max, NEW digit \in 0 .. 9
  PROVE  /\ Overflows(value, digit, max) <=> value * 10 + digit > max
         /\ max - digit \in 0 .. max
<1>1. max - digit \in Nat /\ (max - digit) \div 10 \in Nat
  OBVIOUS
<1>2. /\ max - digit >= 10 * ((max - digit) \div 10)
      /\ max - digit < 10 * ((max - digit) \div 10) + 10
  BY <1>1
<1>3. QED
  BY <1>1, <1>2 DEF Overflows

\* A number that fits is accumulated with all of its digits, and for one that does not the
\* type is full.
LEMMA AccumulateExactly ==
  ASSUME NEW digits \in Seq(Digit), NEW max \in Nat, max >= 9, NEW a, a = Accumulate(0, digits, max)
  PROVE  /\ Value(digits) <= max =>
              a.value = Value(digits) /\ a.used = Len(digits) /\ a.full = FALSE
         /\ Value(digits) > max => a.full = TRUE
<1>1. PICK r \in [0 .. Len(digits) -> Accumulator] :
        Chain(r, AccumulateF(max), StartAt(0), digits) /\ Accumulate(0, digits, max) = r[Len(digits)]
  BY AccumulateIs
<1>2. PICK v : v = ValuesOf(digits)
  OBVIOUS
<1>3. /\ v \in [0 .. Len(digits) -> Nat] /\ v[0] = 0
      /\ \A k \in 0 .. Len(digits) - 1 : v[k + 1] = 10 * v[k] + digits[k + 1]
      /\ v[Len(digits)] = Value(digits)
  BY <1>2, ValuesOfIs DEF Value
<1> DEFINE T == {k \in Nat :
                   /\ v[k] <= max => r[k].value = v[k] /\ r[k].used = k /\ r[k].full = FALSE
                   /\ v[k] > max => r[k].full = TRUE}
<1>4. 0 \in T
  BY <1>1, <1>3 DEF Chain, StartAt
<1>5. ASSUME NEW k \in 0 .. Len(digits) - 1, k \in T
      PROVE  k + 1 \in T
  <2>1. k \in Nat /\ k + 1 \in Nat /\ k \in 0 .. Len(digits) /\ k + 1 \in 1 .. Len(digits)
    OBVIOUS
  <2>2. PICK d \in Digit, b \in Accumulator, x \in Nat : d = digits[k + 1] /\ b = r[k] /\ x = v[k]
    <3>1. digits[k + 1] \in Digit
      BY <2>1
    <3>2. r[k] \in Accumulator /\ v[k] \in Nat
      BY <1>3, <2>1
    <3> QED
      BY <3>1, <3>2
  <2>3. PICK y \in Nat : y = 10 * x + d /\ y = x * 10 + d
    BY DEF Digit
  <2>8. v[k + 1] = y
    BY <1>3, <2>2, <2>3
  <2>4. r[k + 1] = AfterDigit(b, d, max)
    <3>1. r[k + 1] = AccumulateF(max)[<<b, d>>]
      BY <1>1, <2>2 DEF Chain
    <3> QED
      BY <3>1 DEF AccumulateF
  <2>5. /\ x <= max => b.value = x /\ b.used = k /\ b.full = FALSE
        /\ x > max => b.full = TRUE
    BY <1>5, <2>2
  <2>6. CASE x > max
    <3>1. r[k + 1].full = TRUE
      BY <2>4, <2>5, <2>6 DEF AfterDigit, Accumulator
    <3>2. y > max
      BY <2>3, <2>6 DEF Digit
    <3> QED
      BY <2>1, <2>8, <3>1, <3>2
  <2>7. CASE x <= max
    <3>1. x \in 0 .. max
      BY <2>7
    <3>2. Overflows(x, d, max) <=> y > max
      BY <2>3, <3>1, OverflowsExactly DEF Digit
    <3>3. CASE y > max
      <4>1. r[k + 1].full = TRUE
        BY <2>4, <2>5, <2>7, <3>2, <3>3 DEF AfterDigit, Accumulator
      <4> QED
        BY <2>1, <2>8, <3>3, <4>1
    <3>4. CASE y <= max
      <4>1. ~ Overflows(b.value, d, max) /\ b.full = FALSE /\ b.value = x /\ b.used = k
        BY <2>5, <2>7, <3>2, <3>4
      <4>2. r[k + 1] = [value |-> y, used |-> k + 1, full |-> FALSE]
        BY <2>3, <2>4, <4>1 DEF AfterDigit
      <4> QED
        BY <2>1, <2>8, <3>4, <4>2
    <3> QED
      BY <3>3, <3>4
  <2> QED
    BY <2>6, <2>7
<1>6. Len(digits) \in T
  <2>0. Len(digits) \in Nat
    OBVIOUS
  <2> HIDE DEF T
  <2>1. \A k \in 0 .. Len(digits) : k \in T
    BY <1>4, <1>5, <2>0, InductionUpTo
  <2> QED
    BY <2>1
<1> QED
  BY <1>1, <1>3, <1>6

-----------------------------------------------------------------------------

\* What follows in a text.
LEMMA FromIs ==
  ASSUME NEW t \in Seq(Int), NEW i \in 1 .. Len(t) + 1
  PROVE  /\ From(t, i) \in Seq(Int) /\ Len(From(t, i)) = Len(t) + 1 - i
         /\ \A j \in 1 .. Len(t) + 1 - i : From(t, i)[j] = t[(i - 1) + j]
         /\ \A set : StartsIn(From(t, i), set) <=> i <= Len(t) /\ t[i] \in set
<1>1. /\ From(t, i) \in Seq(Int) /\ Len(From(t, i)) = Len(t) + 1 - i
      /\ \A j \in 1 .. Len(t) + 1 - i : From(t, i)[j] = t[(i - 1) + j]
  BY DEF From
<1>2. ASSUME NEW set
      PROVE  StartsIn(From(t, i), set) <=> i <= Len(t) /\ t[i] \in set
  <2>1. PICK f \in Seq(Int) : f = From(t, i)
    BY <1>1
  <2>2. CASE i <= Len(t)
    <3>1. Len(f) >= 1 /\ f[1] = t[i]
      <4>1. 1 \in 1 .. Len(t) + 1 - i /\ (i - 1) + 1 = i
        BY <2>2
      <4> QED
        BY <1>1, <2>1, <2>2, <4>1
    <3>2. f # <<>> /\ Head(f) = t[i]
      BY <3>1
    <3> QED
      BY <2>1, <2>2, <3>2 DEF StartsIn
  <2>3. CASE ~ (i <= Len(t))
    <3>1. Len(f) = 0
      BY <1>1, <2>1, <2>3
    <3>2. f = <<>>
      BY <3>1
    <3> QED
      BY <2>1, <2>3, <3>2 DEF StartsIn
  <2> QED
    BY <2>2, <2>3
<1> QED
  BY <1>1, <1>2

FirstSo(t) == From(t, 1) = t /\ (t # <<>> => Tail(t) = From(t, 2))

LEMMA FromFirst ==
  ASSUME NEW t \in Seq(Int)
  PROVE  FirstSo(t)
<1>1. From(t, 1) = t
  BY DEF From
<1>2. t # <<>> => Tail(t) = From(t, 2)
  BY DEF From
<1> QED
  BY <1>1, <1>2 DEF FirstSo

\* A run of digits stands in a text from i on, and ends.
Run(t, i, digits) ==
  /\ i \in 1 .. Len(t) + 1 /\ i + Len(digits) \in 1 .. Len(t) + 1
  /\ \A j \in 1 .. Len(digits) : t[(i - 1) + j] = Zero + digits[j]
  /\ i + Len(digits) <= Len(t) => ~ IsDigit(t[i + Len(digits)])

LEMMA RunIs ==
  ASSUME NEW t \in Seq(Int), NEW digits \in Seq(Digit), NEW i, Run(t, i, digits)
  PROVE  DigitsOf(From(t, i)) = digits
<1>1. PICK f : f = From(t, i)
  OBVIOUS
<1>2. PICK n \in Nat, m \in Nat : n = Len(digits) /\ m = Len(f)
  BY <1>1, FromIs DEF Run
<1>3. /\ i \in Nat /\ i >= 1 /\ m = Len(t) + 1 - i /\ i + n <= Len(t) + 1
      /\ \A j \in 1 .. n : t[(i - 1) + j] = Zero + digits[j]
      /\ i + n <= Len(t) => ~ IsDigit(t[i + n])
      /\ i \in 1 .. Len(t) + 1
      /\ f \in Seq(Int) /\ \A j \in 1 .. m : f[j] = t[(i - 1) + j]
  <2>1. i \in 1 .. Len(t) + 1
    BY DEF Run
  <2>2. /\ From(t, i) \in Seq(Int) /\ Len(From(t, i)) = Len(t) + 1 - i
        /\ \A j \in 1 .. Len(t) + 1 - i : From(t, i)[j] = t[(i - 1) + j]
    BY <2>1, FromIs
  <2>3. i + n \in 1 .. Len(t) + 1
    BY <1>2 DEF Run
  <2>4. \A j \in 1 .. n : t[(i - 1) + j] = Zero + digits[j]
    BY <1>2 DEF Run
  <2>5. i + n <= Len(t) => ~ IsDigit(t[i + n])
    BY <1>2 DEF Run
  <2> QED
    BY <1>1, <1>2, <2>1, <2>2, <2>3, <2>4, <2>5
<1>4. n <= m
  BY <1>3
<1>5. \A j \in 1 .. n : f[j] = Zero + digits[j] /\ IsDigit(f[j])
  <2>1. ASSUME NEW j \in 1 .. n
        PROVE  f[j] = Zero + digits[j] /\ IsDigit(f[j])
    <3>1. j \in 1 .. m
      BY <1>4
    <3>2. f[j] = Zero + digits[j]
      BY <1>3, <3>1
    <3>3. digits[j] \in 0 .. 9
      BY <1>2 DEF Digit
    <3> QED
      BY <3>2, <3>3 DEF IsDigit, Zero
  <2> QED
    BY <2>1
<1>6. n < m => ~ IsDigit(f[n + 1])
  <2>1. ASSUME n < m
        PROVE  ~ IsDigit(f[n + 1])
    <3>1. n + 1 \in 1 .. m /\ (i - 1) + (n + 1) = i + n /\ i + n <= Len(t)
      BY <1>3, <2>1
    <3> QED
      BY <1>3, <3>1
  <2> QED
    BY <2>1
<1> DEFINE S == {k \in 0 .. Len(f) : \A j \in 1 .. k : IsDigit(f[j])}
<1>7. n \in S /\ S \in SUBSET (0 .. m)
  BY <1>2, <1>4, <1>5
<1>8. \A k \in S : k <= n
  <2>1. ASSUME NEW k \in S, ~ (k <= n)
        PROVE  FALSE
    <3>1. k \in 0 .. m /\ n < m /\ n + 1 \in 1 .. k
      BY <1>2, <2>1
    <3>2. IsDigit(f[n + 1])
      BY <3>1
    <3> QED
      BY <1>6, <3>1, <3>2
  <2> QED
    BY <2>1
<1>9. Max(S) = n
  <2> HIDE DEF S
  <2>1. Max(S) \in S /\ Max(S) >= n
    BY <1>7, MaxIs
  <2>2. Max(S) \in 0 .. m /\ Max(S) <= n
    BY <1>7, <1>8, <2>1
  <2> QED
    BY <2>1, <2>2
<1>10. DigitsOf(f) = [j \in 1 .. Max(S) |-> f[j] - Zero]
  BY DEF DigitsOf
<1>11. [j \in 1 .. n |-> f[j] - Zero] = digits
  <2>1. \A j \in 1 .. n : f[j] - Zero = digits[j]
    <3>1. ASSUME NEW j \in 1 .. n
          PROVE  f[j] - Zero = digits[j]
      <4>1. digits[j] \in 0 .. 9
        BY <1>2 DEF Digit
      <4> QED
        BY <1>5, <4>1 DEF Zero
    <3> QED
      BY <3>1
  <2>2. digits = [j \in 1 .. n |-> digits[j]]
    BY <1>2
  <2> QED
    BY <2>1, <2>2
<1> HIDE DEF S
<1> QED
  BY <1>1, <1>9, <1>10, <1>11

-----------------------------------------------------------------------------

\* A text begins with a number of these digits, after a minus sign if s is one.
Spelled(t, s, whole) ==
  /\ t \in Seq(Int) /\ whole \in Seq(Digit) /\ whole # <<>> /\ s \in 0 .. 1
  /\ s = 1 => t[1] = Minus
  /\ Run(t, s + 1, whole)

\* What the readers find in it.
FoundIn(t, s, whole) ==
  /\ t \in Seq(Int) /\ t # <<>> /\ whole \in Seq(Digit) /\ Len(whole) \in Nat \ {0}
  /\ s \in 0 .. 1 /\ s + Len(whole) <= Len(t)
  /\ StartsIn(t, {Minus}) <=> s = 1
  /\ s = 1 => Tail(t) = From(t, s + 1)
  /\ s = 0 => t = From(t, s + 1)
  /\ DigitsOf(From(t, s + 1)) = whole

LEMMA SpelledIs ==
  ASSUME NEW t, NEW s, NEW whole, Spelled(t, s, whole)
  PROVE  FoundIn(t, s, whole)
<1>1. /\ t \in Seq(Int) /\ whole \in Seq(Digit) /\ whole # <<>> /\ s \in 0 .. 1
      /\ s = 1 => t[1] = Minus
      /\ Run(t, s + 1, whole)
  BY DEF Spelled
<1>2. Len(whole) \in Nat /\ Len(whole) >= 1 /\ Len(t) \in Nat
  BY <1>1
<1>3. \A j \in 1 .. Len(whole) : t[(s + 1 - 1) + j] = Zero + whole[j]
  BY <1>1 DEF Run
<1>4. (s + 1) + Len(whole) \in 1 .. Len(t) + 1
  BY <1>1 DEF Run
<1>5. s + Len(whole) <= Len(t) /\ Len(t) >= 1
  BY <1>1, <1>2, <1>4
<1>6. t # <<>> /\ Head(t) = t[1]
  BY <1>1, <1>5
<1>7. s = 0 => t[1] # Minus
  <2>1. ASSUME s = 0
        PROVE  t[1] # Minus
    <3>1. 1 \in 1 .. Len(whole) /\ (s + 1 - 1) + 1 = 1
      BY <1>2, <2>1
    <3>2. t[1] = Zero + whole[1]
      BY <1>3, <3>1
    <3>3. whole[1] \in 0 .. 9
      BY <1>1, <3>1 DEF Digit
    <3> QED
      BY <3>2, <3>3 DEF Zero, Minus
  <2> QED
    BY <2>1
<1>8. StartsIn(t, {Minus}) <=> s = 1
  BY <1>1, <1>6, <1>7 DEF StartsIn
<1>9. DigitsOf(From(t, s + 1)) = whole
  BY <1>1, RunIs
<1>10. s = 1 => Tail(t) = From(t, s + 1)
  <2>1. Tail(t) = From(t, 2)
    BY <1>1, <1>6, FromFirst DEF FirstSo
  <2> QED
    BY <2>1
<1>11. s = 0 => t = From(t, s + 1)
  <2>1. t = From(t, 1)
    BY <1>1, FromFirst DEF FirstSo
  <2> QED
    BY <2>1
<1> QED
  BY <1>1, <1>2, <1>5, <1>6, <1>8, <1>9, <1>10, <1>11 DEF FoundIn

\* What the integer types take.
Fits(s, value) == IF s = 1 THEN value <= MaxSigned + 1 ELSE value <= MaxUnsigned

ReadInteger(t, s) == IF s = 1 THEN ReadSigned(t) ELSE ReadUnsigned(t)

LEMMA UnsignedIs ==
  ASSUME NEW u, NEW digits \in Seq(Digit), DigitsOf(u) = digits
  PROVE  /\ Value(digits) <= MaxUnsigned =>
              ReadUnsigned(u) = [length |-> Len(digits), value |-> Value(digits)]
         /\ Value(digits) > MaxUnsigned => ReadUnsigned(u) = NoNumber
<1>1. MaxUnsigned \in Nat /\ MaxUnsigned >= 9
  BY WidthAssumption
<1>2. PICK a : a = Accumulate(0, digits, MaxUnsigned)
  OBVIOUS
<1>3. /\ Value(digits) <= MaxUnsigned =>
           a.value = Value(digits) /\ a.used = Len(digits) /\ a.full = FALSE
      /\ Value(digits) > MaxUnsigned => a.full = TRUE
  BY <1>1, <1>2, AccumulateExactly
<1>4. ReadUnsigned(u) = IF a.full THEN NoNumber ELSE [length |-> a.used, value |-> a.value]
  BY <1>2 DEF ReadUnsigned
<1> QED
  BY <1>3, <1>4

\* It is read as its value and in its full length if it fits, and refused if not.
ReadIfFits(t, s, whole) ==
  /\ Fits(s, Value(whole)) =>
       /\ ReadInteger(t, s).length = s + Len(whole)
       /\ ReadInteger(t, s).value = IF s = 1 THEN - Value(whole) ELSE Value(whole)
  /\ ~ Fits(s, Value(whole)) => ReadInteger(t, s).length = 0

LEMMA IntegerIs ==
  ASSUME NEW t, NEW s, NEW whole, FoundIn(t, s, whole)
  PROVE  ReadIfFits(t, s, whole)
<1>1. /\ t # <<>> /\ whole \in Seq(Digit) /\ Len(whole) \in Nat \ {0} /\ s \in 0 .. 1
      /\ (StartsIn(t, {Minus}) <=> s = 1)
      /\ DigitsOf(From(t, s + 1)) = whole
      /\ s = 1 => Tail(t) = From(t, s + 1)
      /\ s = 0 => t = From(t, s + 1)
  BY DEF FoundIn
<1>2. PICK V \in Nat, n \in Nat : V = Value(whole) /\ n = Len(whole) /\ n # 0
  BY <1>1, ValuesOfIs
<1>3. PICK x : x = ReadUnsigned(From(t, s + 1))
  OBVIOUS
<1>4. /\ V <= MaxUnsigned => x = [length |-> n, value |-> V]
      /\ V > MaxUnsigned => x = NoNumber
  BY <1>1, <1>2, <1>3, UnsignedIs
<1>5. MaxSigned \in Nat /\ MaxUnsigned = 2 * MaxSigned + 1 /\ MaxUnsigned \in Nat
  BY WidthAssumption
<1>6. /\ V <= MaxUnsigned => x.length = n /\ x.value = V
      /\ V > MaxUnsigned => x.length = 0
  BY <1>4 DEF NoNumber
<1>7. CASE s = 1
  <2>1. PICK y : y = ReadInteger(t, s)
    OBVIOUS
  <2>2. y = IF x.length = 0 \/ x.value > MaxSigned + 1 THEN NoNumber
            ELSE [length |-> x.length + 1, value |-> - x.value]
    BY <1>1, <1>3, <1>7, <2>1 DEF ReadInteger, ReadSigned
  <2>3. CASE V <= MaxSigned + 1
    <3>1. x.length = n /\ x.value = V
      BY <1>5, <1>6, <2>3
    <3>2. ~ (x.length = 0 \/ x.value > MaxSigned + 1)
      BY <1>2, <1>5, <2>3, <3>1
    <3>3. y = [length |-> n + 1, value |-> - V]
      BY <2>2, <3>1, <3>2
    <3>4. Fits(s, V)
      BY <1>7, <2>3 DEF Fits
    <3> QED
      BY <1>2, <1>7, <2>1, <3>3, <3>4 DEF ReadIfFits
  <2>4. CASE V > MaxSigned + 1
    <3>1. x.length = 0 \/ x.value > MaxSigned + 1
      BY <1>6, <2>4, <1>5
    <3>2. y.length = 0
      BY <2>2, <3>1 DEF NoNumber
    <3>3. ~ Fits(s, V)
      BY <1>5, <1>7, <2>4 DEF Fits
    <3> QED
      BY <1>2, <2>1, <3>2, <3>3 DEF ReadIfFits
  <2> QED
    BY <1>5, <2>3, <2>4
<1>8. CASE s = 0
  <2>1. PICK y : y = ReadInteger(t, s)
    OBVIOUS
  <2>2. y = x
    BY <1>1, <1>3, <1>8, <2>1 DEF ReadInteger
  <2>3. Fits(s, V) <=> V <= MaxUnsigned
    BY <1>8 DEF Fits
  <2>4. V <= MaxUnsigned \/ V > MaxUnsigned
    BY <1>5
  <2> QED
    BY <1>2, <1>6, <1>8, <2>1, <2>2, <2>3, <2>4 DEF ReadIfFits
<1> QED
  BY <1>1, <1>7, <1>8

\* An integer is read as its value and in its full length, its sign and every digit, if it
\* fits the type, and refused if it does not: the overflow tests of the three loops and of
\* ReadSigned are off by nothing.
THEOREM ReadExactlyIfFits ==
  ASSUME NEW t, NEW s, NEW whole, Spelled(t, s, whole)
  PROVE  /\ Fits(s, Value(whole)) =>
              /\ ReadInteger(t, s).length = s + Len(whole)
              /\ ReadInteger(t, s).value = IF s = 1 THEN - Value(whole) ELSE Value(whole)
         /\ ~ Fits(s, Value(whole)) => ReadInteger(t, s).length = 0
<1>1. FoundIn(t, s, whole)
  BY SpelledIs
<1> QED
  BY <1>1, IntegerIs DEF ReadIfFits

-----------------------------------------------------------------------------

\* What is added to an exponent, or subtracted from it, comes out as the sum, or at the
\* end of the type that lies nearest to it; and nothing that is computed on the way
\* overflows: not the bound that the explicit exponent is compared with, and not the sum.
THEOREM AddExponentSaturates ==
  ASSUME NEW exponent \in MinSigned .. MaxSigned, NEW explicit \in 0 .. MaxSigned,
         NEW negative \in BOOLEAN
  PROVE  LET sum    == IF negative THEN exponent - explicit ELSE exponent + explicit
             added == AddExponent(exponent, explicit, negative)
         IN  /\ added \in MinSigned .. MaxSigned
             /\ sum \in MinSigned .. MaxSigned => added = sum
             /\ sum < MinSigned => added = MinSigned
             /\ sum > MaxSigned => added = MaxSigned
             /\ exponent < 0 => MaxSigned + exponent + 1 \in MinSigned .. MaxSigned
             /\ exponent > 0 => MaxSigned - exponent \in MinSigned .. MaxSigned
BY WidthAssumption DEF AddExponent, MinSigned

-----------------------------------------------------------------------------
(* Texts and their parts.                                                  *)

\* A sequence that is not empty has an element, and a length.
AtLeastOne(s) == s # <<>> /\ Len(s) \in Nat /\ Len(s) >= 1

LEMMA NotEmpty ==
  ASSUME NEW S, NEW s \in Seq(S), s # <<>>
  PROVE  AtLeastOne(s)
BY DEF AtLeastOne

LEMMA LongEnough ==
  ASSUME NEW S, NEW s \in Seq(S), Len(s) >= 1
  PROVE  AtLeastOne(s)
BY DEF AtLeastOne

\* f is what t has from i on.
Follows(f, t, i) ==
  /\ f \in Seq(Int) /\ Len(f) = Len(t) + 1 - i
  /\ \A j \in 1 .. Len(t) + 1 - i : f[j] = t[(i - 1) + j]

LEMMA FromFollows ==
  ASSUME NEW t \in Seq(Int), NEW i \in 1 .. Len(t) + 1
  PROVE  Follows(From(t, i), t, i)
BY FromIs DEF Follows

\* What comes after a part of a text.
AfterIt(part, others) ==
  /\ part \o others \in Seq(Int) /\ Len(part \o others) = Len(part) + Len(others)
  /\ From(part \o others, Len(part) + 1) = others

LEMMA AfterPart ==
  ASSUME NEW part \in Seq(Int), NEW others \in Seq(Int)
  PROVE  AfterIt(part, others)
<1>1. PICK t : t = part \o others
  OBVIOUS
<1>2. PICK n \in Nat, m \in Nat : n = Len(part) /\ m = Len(others)
  OBVIOUS
<1>3. t \in Seq(Int) /\ Len(t) = n + m
  BY <1>1, <1>2
<1>4. \A j \in 1 .. m : t[n + j] = others[j]
  BY <1>1, <1>2
<1>5. n + 1 \in 1 .. Len(t) + 1 /\ Len(t) + 1 - (n + 1) = m /\ (n + 1) - 1 = n
  <2>1. n + 1 \in 1 .. (n + m) + 1 /\ (n + m) + 1 - (n + 1) = m /\ (n + 1) - 1 = n
    OBVIOUS
  <2> QED
    BY <1>3, <2>1
<1>6. PICK f : f = From(t, n + 1)
  OBVIOUS
<1>7. /\ f \in Seq(Int) /\ Len(f) = Len(t) + 1 - (n + 1)
      /\ \A j \in 1 .. Len(t) + 1 - (n + 1) : f[j] = t[((n + 1) - 1) + j]
  <2>1. Follows(f, t, n + 1)
    BY <1>3, <1>5, <1>6, FromFollows
  <2> QED
    BY <2>1 DEF Follows
<1>8. Len(f) = Len(others) /\ \A j \in 1 .. Len(f) : f[j] = others[j]
  BY <1>2, <1>4, <1>5, <1>7
<1>9. f = others
  BY <1>7, <1>8, SeqEqual
<1> QED
  BY <1>1, <1>2, <1>3, <1>6, <1>9 DEF AfterIt

DigitBytes == Zero .. Zero + 9

LEMMA DigitTextsType ==
  ASSUME NEW digits \in Seq(Digit)
  PROVE  /\ DigitTexts(digits) \in Seq(Int) /\ Len(DigitTexts(digits)) = Len(digits)
         /\ \A i \in 1 .. Len(digits) : DigitTexts(digits)[i] = Zero + digits[i]
         /\ \A i \in 1 .. Len(digits) : DigitTexts(digits)[i] \in DigitBytes
<1>1. \A i \in 1 .. Len(digits) : digits[i] \in 0 .. 9
  BY DEF Digit
<1>2. \A i \in 1 .. Len(digits) : Zero + digits[i] \in Int /\ Zero + digits[i] \in DigitBytes
  BY <1>1 DEF Zero, DigitBytes
<1>3. DigitTexts(digits) = [i \in 1 .. Len(digits) |-> Zero + digits[i]]
  BY DEF DigitTexts
<1>4. Len(digits) \in Nat
  OBVIOUS
<1> QED
  BY <1>2, <1>3, <1>4

\* Digits are found where they are, if no digit follows them.
DigitsFound(digits, others) == DigitsOf(DigitTexts(digits) \o others) = digits

LEMMA DigitsAre ==
  ASSUME NEW digits \in Seq(Digit), NEW others \in Seq(Int), ~ StartsIn(others, DigitBytes)
  PROVE  DigitsFound(digits, others)
<1>0. PICK t : t = DigitTexts(digits) \o others
  OBVIOUS
<1>1. PICK n \in Nat, m \in Nat :
        t = DigitTexts(digits) \o others /\ n = Len(digits) /\ m = Len(others)
  BY <1>0
<1>2. PICK d \in Seq(Int) : d = DigitTexts(digits)
  BY DigitTextsType
<1>3. Len(d) = n /\ \A i \in 1 .. n : d[i] = Zero + digits[i]
  BY <1>1, <1>2, DigitTextsType
<1>4. /\ t \in Seq(Int) /\ Len(t) = n + m
      /\ \A i \in 1 .. n : t[i] = Zero + digits[i]
  <2>1. t = d \o others
    BY <1>0, <1>2
  <2>2. t \in Seq(Int)
    BY <2>1
  <2>3. Len(t) = Len(d) + Len(others)
    BY <2>1
  <2>4. \A i \in 1 .. Len(d) : t[i] = d[i]
    BY <2>1
  <2> QED
    BY <1>1, <1>3, <2>2, <2>3, <2>4
<1>5. m > 0 => t[n + 1] = others[1] /\ Head(others) = others[1] /\ others # <<>>
  BY <1>1, <1>4
<1>6. m > 0 => ~ IsDigit(t[n + 1])
  BY <1>5 DEF StartsIn, IsDigit, DigitBytes
<1>7. Run(t, 1, digits)
  <2>1. 1 \in 1 .. Len(t) + 1 /\ 1 + n \in 1 .. Len(t) + 1
    BY <1>4
  <2>2. \A j \in 1 .. n : t[(1 - 1) + j] = Zero + digits[j]
    BY <1>4
  <2>3. 1 + n <= Len(t) => ~ IsDigit(t[1 + n])
    BY <1>4, <1>6
  <2> QED
    BY <1>1, <2>1, <2>2, <2>3 DEF Run
<1>8. DigitsOf(From(t, 1)) = digits
  BY <1>4, <1>7, RunIs
<1>9. From(t, 1) = t
  BY <1>4, FromFirst DEF FirstSo
<1> QED
  BY <1>1, <1>8, <1>9 DEF DigitsFound

\* What a concatenation starts with.
StartsSo(part, others, set) ==
  /\ part # <<>> => (StartsIn(part \o others, set) <=> part[1] \in set)
  /\ part = <<>> => (StartsIn(part \o others, set) <=> StartsIn(others, set))

LEMMA StartsAs ==
  ASSUME NEW part \in Seq(Int), NEW others \in Seq(Int), NEW set
  PROVE  StartsSo(part, others, set)
<1>1. CASE part # <<>>
  <2>1. PICK t : t = part \o others
    OBVIOUS
  <2>2. Len(part) >= 1 /\ Len(others) \in Nat
    BY <1>1
  <2>3. t # <<>> /\ t \in Seq(Int) /\ t[1] = part[1]
    BY <2>1, <2>2
  <2>4. Head(t) = part[1]
    BY <2>3
  <2> QED
    BY <1>1, <2>1, <2>3, <2>4 DEF StartsIn, StartsSo
<1>2. CASE part = <<>>
  <2>1. part \o others = others
    BY <1>2
  <2> QED
    BY <1>2, <2>1 DEF StartsSo
<1> QED
  BY <1>1, <1>2

\* The digits alone.
DigitsAlone(digits) == DigitsOf(DigitTexts(digits)) = digits

LEMMA DigitsAreAlone ==
  ASSUME NEW digits \in Seq(Digit)
  PROVE  DigitsAlone(digits)
<1>1. <<>> \in Seq(Int) /\ ~ StartsIn(<<>>, DigitBytes)
  BY DEF StartsIn
<1>2. DigitsFound(digits, <<>>)
  BY <1>1, DigitsAre
<1>3. DigitTexts(digits) \in Seq(Int)
  BY DigitTextsType
<1>4. DigitTexts(digits) \o <<>> = DigitTexts(digits)
  BY <1>3
<1> QED
  BY <1>2, <1>4 DEF DigitsFound, DigitsAlone

\* Parts may be put together in any order.
Together(s, t, u) == (s \o t) \o u = s \o (t \o u)

LEMMA PartsTogether ==
  ASSUME NEW s \in Seq(Int), NEW t \in Seq(Int), NEW u \in Seq(Int)
  PROVE  Together(s, t, u)
BY ConcatAssociative DEF Together

\* The text of an exponent: a letter, a sign or none, and digits.
ExponentParts(e, m, g, digits) ==
  /\ m \in Seq(Int) /\ Len(m) = 1 /\ m[1] \in ExponentSigns
  /\ g \in Seq(Int) /\ (g = <<>> \/ (Len(g) = 1 /\ g[1] \in {Minus, Plus}))
  /\ digits \in Seq(Digit) /\ digits # <<>>
  /\ e = m \o (g \o DigitTexts(digits))

\* It may be missing.
ExponentText(e) == e = <<>> \/ \E m, g, digits : ExponentParts(e, m, g, digits)

\* Its sign is minus.
Negative(g) == g # <<>> /\ g[1] = Minus

\* The exponent that it says: none is zero.
ExponentSays(e, x) ==
  \/ e = <<>> /\ x = 0
  \/ \E m, g, digits :
       /\ ExponentParts(e, m, g, digits)
       /\ Value(digits) = (IF x < 0 THEN - x ELSE x) /\ (Negative(g) <=> x < 0)

\* It is read to its end.
ExponentRead(e, x) == ReadExponent(e, x).valid = TRUE /\ ReadExponent(e, x).length = Len(e)

LEMMA ExponentPartsAreRead ==
  ASSUME NEW e, NEW m, NEW g, NEW digits, ExponentParts(e, m, g, digits), NEW x
  PROVE  /\ e \in Seq(Int) /\ ExponentRead(e, x)
         /\ ~ StartsIn(e, DigitBytes) /\ ~ StartsIn(e, {Period})
         /\ StartsIn(e, ExponentSigns)
         /\ ReadExponent(e, x).sum
              = AddExponent(x, Accumulate(0, digits, MaxSigned).value, Negative(g))
<1>1. /\ m \in Seq(Int) /\ Len(m) = 1 /\ m[1] \in ExponentSigns
      /\ g \in Seq(Int) /\ (g = <<>> \/ (Len(g) = 1 /\ g[1] \in {Minus, Plus}))
      /\ digits \in Seq(Digit) /\ digits # <<>>
      /\ e = m \o (g \o DigitTexts(digits))
  BY DEF ExponentParts
<1>2. PICK d \in Seq(Int) : d = DigitTexts(digits)
  BY <1>1, DigitTextsType
<1>3. /\ Len(d) = Len(digits) /\ Len(d) \in Nat /\ Len(d) >= 1 /\ d # <<>>
      /\ d[1] \in DigitBytes
  <2>1. Len(d) = Len(digits) /\ \A i \in 1 .. Len(digits) : d[i] \in DigitBytes
    BY <1>1, <1>2, DigitTextsType
  <2>2. Len(digits) \in Nat /\ Len(digits) >= 1
    <3>1. digits # <<>>
      BY <1>1
    <3>2. AtLeastOne(digits)
      BY <1>1, <3>1, NotEmpty
    <3> QED
      BY <3>2 DEF AtLeastOne
  <2>3. 1 \in 1 .. Len(digits)
    BY <2>2
  <2>4. d # <<>>
    BY <2>1, <2>2
  <2> QED
    BY <2>1, <2>2, <2>3, <2>4
<1>4. m[1] \in ExponentSigns /\ m[1] \notin DigitBytes /\ m[1] # Period
  <2>1. PICK b : b = m[1] /\ b \in ExponentSigns
    BY <1>1
  <2>2. b = 69 \/ b = 101
    BY <2>1 DEF ExponentSigns
  <2>3. b \notin DigitBytes /\ b # Period
    BY <2>2 DEF DigitBytes, Period, Zero
  <2> QED
    BY <2>1, <2>3
<1>5. /\ g # <<>> => Len(g) = 1 /\ g[1] \in {Minus, Plus}
      /\ g = <<>> => Len(g) = 0
  BY <1>1
<1>7. m # <<>> /\ Len(m) = 1
  <2>1. Len(m) = 1
    BY <1>1
  <2>2. Len(m) >= 1
    BY <2>1
  <2>3. m # <<>>
    BY <2>2
  <2> QED
    BY <2>1, <2>3
<1>6. PICK r : r = g \o d
  OBVIOUS
<1>8. r \in Seq(Int) /\ Len(r) = Len(g) + Len(d)
  <2>1. AfterIt(g, d)
    BY <1>1, AfterPart
  <2> QED
    BY <1>6, <2>1 DEF AfterIt
<1>9. e = m \o r
  BY <1>1, <1>2, <1>6
<1>10. e \in Seq(Int) /\ Len(e) = 1 + Len(r) /\ From(e, 2) = r
  <2>1. AfterIt(m, r)
    BY <1>1, <1>8, AfterPart
  <2>2. Len(m) + 1 = 2
    BY <1>7
  <2> QED
    BY <1>7, <1>9, <2>1, <2>2 DEF AfterIt
<1>11. /\ StartsIn(e, ExponentSigns)
       /\ ~ StartsIn(e, DigitBytes) /\ ~ StartsIn(e, {Period})
  <2>1. /\ StartsSo(m, r, ExponentSigns) /\ StartsSo(m, r, DigitBytes)
        /\ StartsSo(m, r, {Period})
    BY <1>1, <1>8, StartsAs
  <2> QED
    BY <1>4, <1>7, <1>9, <2>1 DEF StartsSo
<1>12. Tail(e) = r
  BY <1>10, <1>11, FromFirst DEF FirstSo, StartsIn
<1>13. StartsIn(d, {Minus, Plus}) <=> FALSE
  <2>1. Head(d) = d[1]
    BY <1>3
  <2>2. Head(d) \notin {Minus, Plus}
    BY <1>3, <2>1 DEF DigitBytes, Minus, Plus, Zero
  <2> QED
    BY <2>2 DEF StartsIn
<1>14. StartsIn(r, {Minus, Plus}) <=> g # <<>>
  <2>1. StartsSo(g, d, {Minus, Plus})
    BY <1>1, StartsAs
  <2> QED
    BY <1>5, <1>6, <1>13, <2>1 DEF StartsSo
<1>16. DigitsOf(d) = digits
  BY <1>1, <1>2, DigitsAreAlone DEF DigitsAlone
<1>15. PICK h : h = m \o g
  OBVIOUS
<1>20. h \in Seq(Int) /\ Len(h) = Len(m) + Len(g)
  <2>1. AfterIt(m, g)
    BY <1>1, AfterPart
  <2> QED
    BY <1>15, <2>1 DEF AfterIt
<1>21. e = h \o d
  <2>1. Together(m, g, d)
    BY <1>1, PartsTogether
  <2> QED
    BY <1>6, <1>9, <1>15, <2>1 DEF Together
<1>17. CASE g = <<>>
  <2>1. r = d
    BY <1>6, <1>17
  <2>2. ~ (StartsIn(e, ExponentSigns) /\ StartsIn(Tail(e), {Minus, Plus}))
    BY <1>12, <1>14, <1>17
  <2>3. DigitsOf(From(e, 2)) = digits
    BY <1>10, <1>16, <2>1
  <2>4. ReadExponent(e, x).valid = TRUE
    BY <1>1, <1>11, <2>2, <2>3 DEF ReadExponent
  <2>5. ReadExponent(e, x).length = 1 + Len(digits)
    BY <1>11, <2>2, <2>3 DEF ReadExponent
  <2>6. Len(e) = 1 + Len(digits)
    BY <1>3, <1>10, <2>1
  <2>7. ReadExponent(e, x).sum = AddExponent(x, Accumulate(0, digits, MaxSigned).value, FALSE)
    BY <1>11, <2>2, <2>3 DEF ReadExponent
  <2>8. Negative(g) = FALSE
    BY <1>17 DEF Negative
  <2> QED
    BY <1>10, <1>11, <2>4, <2>5, <2>6, <2>7, <2>8 DEF ExponentRead
<1>18. CASE g # <<>>
  <2>1. Len(g) = 1
    BY <1>5, <1>18
  <2>2. Len(h) = 1 + 1
    BY <1>7, <1>20, <2>1
  <2>3. Len(h) + 1 = 3
    BY <2>2
  <2>4. From(e, 3) = d
    <3>1. AfterIt(h, d)
      BY <1>20, AfterPart
    <3> QED
      BY <1>21, <2>3, <3>1 DEF AfterIt
  <2>5. StartsIn(e, ExponentSigns) /\ StartsIn(Tail(e), {Minus, Plus})
    BY <1>11, <1>12, <1>14, <1>18
  <2>6. DigitsOf(From(e, 3)) = digits
    BY <1>16, <2>4
  <2>7. ReadExponent(e, x).valid = TRUE
    BY <1>1, <2>5, <2>6 DEF ReadExponent
  <2>8. ReadExponent(e, x).length = 2 + Len(digits)
    BY <2>5, <2>6 DEF ReadExponent
  <2>9. Len(e) = 2 + Len(digits)
    <3>1. Len(e) = 1 + (1 + Len(d))
      BY <1>8, <1>10, <2>1
    <3> QED
      BY <1>3, <3>1
  <2>10. e[2] = g[1]
    <3>1. Len(r) >= 1 /\ r[1] = g[1]
      BY <1>1, <1>3, <1>6, <1>8, <2>1
    <3>2. Len(m) + 1 = 2
      BY <1>7
    <3>3. (m \o r)[Len(m) + 1] = r[1]
      <4>1. m \in Seq(Int) /\ r \in Seq(Int)
        BY <1>1, <1>8
      <4>2. \A i \in 1 .. Len(r) : (m \o r)[Len(m) + i] = r[i]
        BY <4>1
      <4>3. 1 \in 1 .. Len(r)
        BY <3>1, <4>1
      <4> QED
        BY <4>2, <4>3
    <3> QED
      BY <1>9, <3>1, <3>2, <3>3
  <2>11. ReadExponent(e, x).sum
           = AddExponent(x, Accumulate(0, digits, MaxSigned).value, e[2] = Minus)
    BY <2>5, <2>6 DEF ReadExponent
  <2>12. Negative(g) = (e[2] = Minus)
    BY <1>18, <2>10 DEF Negative
  <2> QED
    BY <1>10, <1>11, <2>7, <2>8, <2>9, <2>11, <2>12 DEF ExponentRead
<1> QED
  BY <1>17, <1>18

LEMMA ExponentIsRead ==
  ASSUME NEW e, ExponentText(e), NEW x
  PROVE  /\ e \in Seq(Int) /\ ExponentRead(e, x)
         /\ ~ StartsIn(e, DigitBytes) /\ ~ StartsIn(e, {Period})
         /\ e # <<>> => StartsIn(e, ExponentSigns)
<1>1. CASE e = <<>>
  <2>1. e \in Seq(Int) /\ ~ StartsIn(e, DigitBytes) /\ ~ StartsIn(e, {Period})
        /\ ~ StartsIn(e, ExponentSigns) /\ Len(e) = 0
    BY <1>1 DEF StartsIn
  <2>2. ReadExponent(e, x).valid = TRUE
    BY <2>1 DEF ReadExponent
  <2>3. ReadExponent(e, x).length = 0
    BY <2>1 DEF ReadExponent
  <2> QED
    BY <1>1, <2>1, <2>2, <2>3 DEF ExponentRead
<1>2. CASE e # <<>>
  <2>1. PICK m, g, digits : ExponentParts(e, m, g, digits)
    BY <1>2 DEF ExponentText
  <2> QED
    BY <2>1, ExponentPartsAreRead
<1> QED
  BY <1>1, <1>2

-----------------------------------------------------------------------------
(* The text of a number, taken apart.                                      *)

\* The texts of a sign and of a fraction, or of none.
SignText(g, s) ==
  /\ g \in Seq(Int) /\ s \in 0 .. 1 /\ Len(g) = s
  /\ s = 0 => g = <<>>
  /\ s = 1 => g # <<>> /\ g[1] = Minus

FractionText(f, fraction) ==
  \/ f = <<>> /\ fraction = <<>>
  \/ \E p \in Seq(Int) :
       /\ p # <<>> /\ Len(p) = 1 /\ p[1] = Period
       /\ fraction # <<>> /\ f = p \o DigitTexts(fraction)

\* The text of a number in four parts.
NumberText4(t, s, g, whole, f, fraction, e) ==
  /\ SignText(g, s) /\ FractionText(f, fraction) /\ ExponentText(e)
  /\ whole \in Seq(Digit) /\ whole # <<>> /\ fraction \in Seq(Digit)
  /\ t = g \o (DigitTexts(whole) \o (f \o e))

\* What follows the whole.
TailSo(u, f, fraction, e) ==
  /\ u \in Seq(Int) /\ f \in Seq(Int) /\ e \in Seq(Int) /\ u = f \o e
  /\ Len(u) = Len(f) + Len(e)
  /\ ~ StartsIn(u, DigitBytes)
  /\ StartsIn(u, {Period}) <=> fraction # <<>>
  /\ u # <<>> => StartsIn(u, ExponentSigns \cup {Period})
  /\ u = <<>> <=> fraction = <<>> /\ e = <<>>
  /\ Len(f) = IF fraction = <<>> THEN 0 ELSE 1 + Len(fraction)

LEMMA TailIs ==
  ASSUME NEW f, NEW fraction \in Seq(Digit), NEW e, FractionText(f, fraction), ExponentText(e)
  PROVE  TailSo(f \o e, f, fraction, e)
<1>0. /\ e \in Seq(Int)
      /\ ~ StartsIn(e, DigitBytes) /\ ~ StartsIn(e, {Period})
      /\ e # <<>> => StartsIn(e, ExponentSigns)
  BY ExponentIsRead
<1>1. CASE fraction = <<>>
  <2>1. f = <<>> /\ f \in Seq(Int) /\ Len(f) = 0
    <3>1. f = <<>>
      BY <1>1 DEF FractionText
    <3> QED
      BY <3>1
  <2>2. f \o e = e
    BY <1>0, <2>1
  <2>3. Len(e) \in Nat
    BY <1>0
  <2>4. Len(e) = Len(f) + Len(e)
    BY <2>1, <2>3
  <2>5. e # <<>> => StartsIn(e, ExponentSigns \cup {Period})
    BY <1>0 DEF StartsIn
  <2> QED
    BY <1>0, <1>1, <2>1, <2>2, <2>4, <2>5 DEF TailSo
<1>2. CASE fraction # <<>>
  <2>1. PICK p \in Seq(Int) :
          p # <<>> /\ Len(p) = 1 /\ p[1] = Period /\ f = p \o DigitTexts(fraction)
    BY <1>2 DEF FractionText
  <2>2. DigitTexts(fraction) \in Seq(Int) /\ Len(DigitTexts(fraction)) = Len(fraction)
    BY DigitTextsType
  <2>3. PICK d : d = DigitTexts(fraction)
    OBVIOUS
  <2>4. d \in Seq(Int) /\ Len(d) = Len(fraction)
    BY <2>2, <2>3
  <2>5. f \in Seq(Int) /\ Len(f) = Len(p) + Len(d)
    <3>1. AfterIt(p, d)
      BY <2>4, AfterPart
    <3> QED
      BY <2>1, <2>3, <3>1 DEF AfterIt
  <2>6. Len(f) = 1 + Len(fraction)
    <3>1. Len(p) = 1
      BY <2>1
    <3> QED
      BY <2>4, <2>5, <3>1
  <2>7. f \o e \in Seq(Int) /\ Len(f \o e) = Len(f) + Len(e)
    <3>1. AfterIt(f, e)
      BY <1>0, <2>5, AfterPart
    <3> QED
      BY <3>1 DEF AfterIt
  <2>8. PICK h : h = d \o e
    OBVIOUS
  <2>9. h \in Seq(Int)
    <3>1. AfterIt(d, e)
      BY <1>0, <2>4, AfterPart
    <3> QED
      BY <2>8, <3>1 DEF AfterIt
  <2>10. f \o e = p \o h
    <3>1. Together(p, d, e)
      BY <1>0, <2>4, PartsTogether
    <3> QED
      BY <2>1, <2>3, <2>8, <3>1 DEF Together
  <2>11. \A set : StartsIn(p \o h, set) <=> Period \in set
    <3>1. ASSUME NEW set
          PROVE  StartsIn(p \o h, set) <=> Period \in set
      <4>1. StartsSo(p, h, set)
        BY <2>9, StartsAs
      <4>2. p # <<>> /\ p[1] = Period
        BY <2>1
      <4> QED
        BY <4>1, <4>2 DEF StartsSo
    <3> QED
      BY <3>1
  <2>12. Period \notin DigitBytes
    BY DEF Period, DigitBytes, Zero
  <2>13. /\ ~ StartsIn(p \o h, DigitBytes) /\ StartsIn(p \o h, {Period})
         /\ StartsIn(p \o h, ExponentSigns \cup {Period})
    BY <2>11, <2>12
  <2>14. p \o h # <<>>
    BY <2>13 DEF StartsIn
  <2> QED
    BY <1>0, <1>2, <2>5, <2>6, <2>7, <2>10, <2>13, <2>14 DEF TailSo
<1> QED
  BY <1>1, <1>2

PointLength(fraction) == IF fraction = <<>> THEN 0 ELSE 1

\* What the readers find in the text of a number.
PartsFound(t, s, whole, f, fraction, e) ==
  /\ FoundIn(t, s, whole)
  /\ From(t, s + Len(whole) + 1) = f \o e
  /\ fraction # <<>> => DigitsOf(From(t, s + Len(whole) + 2)) = fraction
  /\ From(t, s + Len(whole) + PointLength(fraction) + Len(fraction) + 1) = e
  /\ Len(t) = s + Len(whole) + PointLength(fraction) + Len(fraction) + Len(e)

LEMMA PartsAre ==
  ASSUME NEW t, NEW s, NEW g, NEW whole, NEW f, NEW fraction, NEW e,
         NumberText4(t, s, g, whole, f, fraction, e)
  PROVE  PartsFound(t, s, whole, f, fraction, e)
<1>1. /\ SignText(g, s) /\ FractionText(f, fraction) /\ ExponentText(e)
      /\ whole \in Seq(Digit) /\ whole # <<>> /\ fraction \in Seq(Digit)
      /\ t = g \o (DigitTexts(whole) \o (f \o e))
  BY DEF NumberText4
<1>2. PICK u : u = f \o e
  OBVIOUS
<1>3. /\ u \in Seq(Int) /\ f \in Seq(Int) /\ e \in Seq(Int)
      /\ Len(u) = Len(f) + Len(e)
      /\ ~ StartsIn(u, DigitBytes)
      /\ StartsIn(u, {Period}) <=> fraction # <<>>
      /\ Len(f) = IF fraction = <<>> THEN 0 ELSE 1 + Len(fraction)
  <2>1. TailSo(u, f, fraction, e)
    BY <1>1, <1>2, TailIs
  <2> QED
    BY <2>1 DEF TailSo
<1>4. PICK d : d = DigitTexts(whole)
  OBVIOUS
<1>5. /\ d \in Seq(Int) /\ Len(d) = Len(whole)
      /\ \A i \in 1 .. Len(whole) : d[i] \in DigitBytes
  BY <1>1, <1>4, DigitTextsType
<1>6. Len(whole) \in Nat /\ Len(whole) >= 1
  <2>1. AtLeastOne(whole)
    BY <1>1, NotEmpty
  <2> QED
    BY <2>1 DEF AtLeastOne
<1>7. PICK w : w = d \o u
  OBVIOUS
<1>8. w \in Seq(Int) /\ Len(w) = Len(d) + Len(u) /\ From(w, Len(d) + 1) = u
  <2>1. AfterIt(d, u)
    BY <1>3, <1>5, AfterPart
  <2> QED
    BY <1>7, <2>1 DEF AfterIt
<1>9. /\ g \in Seq(Int) /\ s \in 0 .. 1 /\ Len(g) = s
      /\ s = 0 => g = <<>>
      /\ s = 1 => g # <<>> /\ g[1] = Minus
  BY <1>1 DEF SignText
<1>10. t = g \o w
  BY <1>1, <1>2, <1>4, <1>7
<1>11. t \in Seq(Int) /\ Len(t) = s + Len(w) /\ From(t, s + 1) = w
  <2>1. AfterIt(g, w)
    BY <1>8, <1>9, AfterPart
  <2> QED
    BY <1>9, <1>10, <2>1 DEF AfterIt
<1>12. DigitsOf(w) = whole
  <2>1. DigitsFound(whole, u)
    BY <1>1, <1>3, DigitsAre
  <2> QED
    BY <1>4, <1>7, <2>1 DEF DigitsFound
<1>13. Len(f) \in Nat /\ Len(e) \in Nat /\ Len(u) \in Nat /\ Len(fraction) \in Nat
  <2>1. Len(f) \in Nat
    BY <1>3
  <2>2. Len(e) \in Nat
    BY <1>3
  <2>3. Len(u) \in Nat
    BY <1>3
  <2>4. fraction \in Seq(Digit)
    BY <1>1
  <2>5. Len(fraction) \in Nat
    BY <2>4
  <2> QED
    BY <2>1, <2>2, <2>3, <2>5
<1>14. PICK n \in Nat, m \in Nat, k \in Nat, a \in Nat :
         /\ n = Len(whole) /\ m = Len(f) /\ k = Len(fraction) /\ a = Len(e)
  BY <1>6, <1>13
<1>15. Len(u) = m + a /\ Len(d) = n /\ n >= 1
  BY <1>3, <1>5, <1>6, <1>14
<1>16. Len(w) = n + (m + a)
  BY <1>8, <1>15
<1>17. Len(t) = s + n + m + a
  BY <1>9, <1>11, <1>16
<1>18. m = PointLength(fraction) + k
  <2>1. CASE fraction = <<>>
    <3>1. k = 0
      BY <1>14, <2>1
    <3> QED
      BY <1>3, <1>14, <2>1, <3>1 DEF PointLength
  <2>2. CASE fraction # <<>>
    BY <1>3, <1>14, <2>2 DEF PointLength
  <2> QED
    BY <2>1, <2>2
<1>19. PointLength(fraction) \in 0 .. 1
  BY DEF PointLength
<1>20. FoundIn(t, s, whole)
  <2>1. d # <<>> /\ d[1] \in DigitBytes
    <3>1. 1 \in 1 .. Len(whole)
      BY <1>6
    <3>2. d[1] \in DigitBytes
      BY <1>5, <3>1
    <3>3. Len(d) >= 1
      BY <1>5, <1>6
    <3>4. d # <<>>
      BY <1>5, <3>3
    <3> QED
      BY <3>2, <3>4
  <2>2. ~ StartsIn(w, {Minus})
    <3>1. StartsSo(d, u, {Minus})
      BY <1>3, <1>5, StartsAs
    <3>2. d[1] # Minus
      <4>1. Minus \notin DigitBytes
        BY DEF Minus, DigitBytes, Zero
      <4> QED
        BY <2>1, <4>1
    <3> QED
      BY <1>7, <2>1, <3>1, <3>2 DEF StartsSo
  <2>3. StartsIn(t, {Minus}) <=> s = 1
    <3>1. StartsSo(g, w, {Minus})
      BY <1>8, <1>9, StartsAs
    <3>2. CASE s = 0
      BY <1>9, <1>10, <2>2, <3>1, <3>2 DEF StartsSo
    <3>3. CASE s = 1
      BY <1>9, <1>10, <3>1, <3>3 DEF StartsSo
    <3> QED
      BY <1>9, <3>2, <3>3
  <2>4. s + n <= Len(t) /\ Len(t) >= 1
    <3>1. s \in 0 .. 1
      BY <1>9
    <3>2. n >= 1
      BY <1>15
    <3>3. s + n <= s + n + m + a /\ s + n + m + a >= 1
      BY <3>1, <3>2
    <3> QED
      BY <1>17, <3>3
  <2>5. t # <<>>
    <3>1. AtLeastOne(t)
      BY <1>11, <2>4, LongEnough
    <3> QED
      BY <3>1 DEF AtLeastOne
  <2>6. s = 1 => Tail(t) = From(t, s + 1)
    <3>1. FirstSo(t)
      BY <1>11, FromFirst
    <3>2. Tail(t) = From(t, 2)
      BY <2>5, <3>1 DEF FirstSo
    <3> QED
      BY <3>2
  <2>7. s = 0 => t = From(t, s + 1)
    <3>1. FirstSo(t)
      BY <1>11, FromFirst
    <3>2. From(t, 1) = t
      BY <3>1 DEF FirstSo
    <3> QED
      BY <3>2
  <2>8. Len(whole) \in Nat \ {0}
    BY <1>6
  <2>9. s + Len(whole) <= Len(t)
    BY <1>14, <2>4
  <2>10. DigitsOf(From(t, s + 1)) = whole
    BY <1>11, <1>12
  <2>11. t \in Seq(Int) /\ whole \in Seq(Digit) /\ s \in 0 .. 1
    BY <1>1, <1>9, <1>11
  <2> QED
    BY <2>3, <2>5, <2>6, <2>7, <2>8, <2>9, <2>10, <2>11, Zenon DEF FoundIn
<1>21. PICK h : h = g \o d
  OBVIOUS
<1>22. h \in Seq(Int) /\ Len(h) = s + n
  <2>1. AfterIt(g, d)
    BY <1>5, <1>9, AfterPart
  <2> QED
    BY <1>9, <1>15, <1>21, <2>1 DEF AfterIt
<1>23. t = h \o u
  <2>1. Together(g, d, u)
    BY <1>3, <1>5, <1>9, PartsTogether
  <2> QED
    BY <1>7, <1>10, <1>21, <2>1 DEF Together
<1>24. From(t, s + n + 1) = u
  <2>1. AfterIt(h, u)
    BY <1>3, <1>22, AfterPart
  <2> QED
    BY <1>22, <1>23, <2>1 DEF AfterIt
<1>25. From(t, s + n + m + 1) = e
  <2>1. PICK i : i = h \o f
    OBVIOUS
  <2>2. i \in Seq(Int) /\ Len(i) = (s + n) + m
    <3>1. AfterIt(h, f)
      BY <1>3, <1>22, AfterPart
    <3> QED
      BY <1>14, <1>22, <2>1, <3>1 DEF AfterIt
  <2>3. t = i \o e
    <3>1. Together(h, f, e)
      BY <1>3, <1>22, PartsTogether
    <3> QED
      BY <1>2, <1>23, <2>1, <3>1 DEF Together
  <2>4. From(t, Len(i) + 1) = e
    <3>1. AfterIt(i, e)
      BY <1>3, <2>2, AfterPart
    <3> QED
      BY <2>3, <3>1 DEF AfterIt
  <2> QED
    BY <2>2, <2>4
<1>26. ASSUME fraction # <<>>
       PROVE  DigitsOf(From(t, s + n + 2)) = fraction
  <2>1. PICK p \in Seq(Int) :
          p # <<>> /\ Len(p) = 1 /\ p[1] = Period /\ f = p \o DigitTexts(fraction)
    BY <1>1, <1>26 DEF FractionText
  <2>2. PICK c : c = DigitTexts(fraction)
    OBVIOUS
  <2>3. c \in Seq(Int)
    BY <1>1, <2>2, DigitTextsType
  <2>4. PICK x : x = c \o e
    OBVIOUS
  <2>5. x \in Seq(Int)
    <3>1. AfterIt(c, e)
      BY <1>3, <2>3, AfterPart
    <3> QED
      BY <2>4, <3>1 DEF AfterIt
  <2>6. u = p \o x
    <3>1. Together(p, c, e)
      BY <1>3, <2>3, PartsTogether
    <3> QED
      BY <1>2, <2>1, <2>2, <2>4, <3>1 DEF Together
  <2>7. PICK i : i = h \o p
    OBVIOUS
  <2>8. i \in Seq(Int) /\ Len(i) = (s + n) + 1
    <3>1. AfterIt(h, p)
      BY <1>22, AfterPart
    <3>2. Len(p) = 1
      BY <2>1
    <3> QED
      BY <1>22, <2>7, <3>1, <3>2 DEF AfterIt
  <2>9. t = i \o x
    <3>1. Together(h, p, x)
      BY <1>22, <2>5, PartsTogether
    <3> QED
      BY <1>23, <2>6, <2>7, <3>1 DEF Together
  <2>10. From(t, Len(i) + 1) = x
    <3>1. AfterIt(i, x)
      BY <2>5, <2>8, AfterPart
    <3> QED
      BY <2>9, <3>1 DEF AfterIt
  <2>11. Len(i) + 1 = s + n + 2
    BY <1>9, <2>8
  <2>12. DigitsOf(x) = fraction
    <3>1. ~ StartsIn(e, DigitBytes)
      BY <1>1, ExponentIsRead
    <3>2. DigitsFound(fraction, e)
      BY <1>1, <1>3, <3>1, DigitsAre
    <3> QED
      BY <2>2, <2>4, <3>2 DEF DigitsFound
  <2> QED
    BY <2>10, <2>11, <2>12
<1>27. From(t, s + n + PointLength(fraction) + k + 1) = e
  <2>1. s + n + PointLength(fraction) + k + 1 = s + n + m + 1
    BY <1>9, <1>18, <1>19
  <2> QED
    BY <1>25, <2>1
<1>28. Len(t) = s + n + PointLength(fraction) + k + a
  BY <1>9, <1>17, <1>18, <1>19
<1> QED
  BY <1>2, <1>14, <1>20, <1>24, <1>26, <1>27, <1>28 DEF PartsFound

-----------------------------------------------------------------------------
(* The number, read.                                                       *)

\* The significand and the exponent that are read.
Significand(whole, fraction) ==
  Accumulate(Accumulate(0, whole, MaxUnsigned).value, fraction, MaxUnsigned)
LeftOut(whole, fraction) ==
  Skipped(whole, Accumulate(0, whole, MaxUnsigned)) - Significand(whole, fraction).used

DoubleOf(t, s, whole, fraction, e) ==
  [length |-> Len(t), negative |-> s = 1, significand |-> Significand(whole, fraction).value,
   exponent |-> ReadExponent(e, LeftOut(whole, fraction)).sum]

\* A number is read as a double to its end.
LEMMA DoubleIsRead ==
  ASSUME NEW t, NEW s, NEW whole, NEW f, NEW fraction, NEW e,
         PartsFound(t, s, whole, f, fraction, e), TailSo(f \o e, f, fraction, e),
         ExponentText(e), fraction \in Seq(Digit)
  PROVE  ReadDouble(t) = DoubleOf(t, s, whole, fraction, e)
<1>1. /\ FoundIn(t, s, whole)
      /\ From(t, s + Len(whole) + 1) = f \o e
      /\ fraction # <<>> => DigitsOf(From(t, s + Len(whole) + 2)) = fraction
      /\ From(t, s + Len(whole) + PointLength(fraction) + Len(fraction) + 1) = e
      /\ Len(t) = s + Len(whole) + PointLength(fraction) + Len(fraction) + Len(e)
  BY DEF PartsFound
<1>2. /\ s \in 0 .. 1
      /\ StartsIn(t, {Minus}) <=> s = 1
      /\ DigitsOf(From(t, s + 1)) = whole
      /\ Len(whole) \in Nat \ {0}
  BY <1>1 DEF FoundIn
<1>3. StartsIn(f \o e, {Period}) <=> fraction # <<>>
  BY DEF TailSo
<1> DEFINE sign == IF StartsIn(t, {Minus}) THEN 1 ELSE 0
           digits == DigitsOf(From(t, sign + 1))
           w == Accumulate(0, digits, MaxUnsigned)
           point == StartsIn(From(t, sign + Len(digits) + 1), {Period})
           places == IF point THEN DigitsOf(From(t, sign + Len(digits) + 2)) ELSE <<>>
           a == Accumulate(w.value, places, MaxUnsigned)
           length == sign + Len(digits) + (IF point THEN 1 ELSE 0) + Len(places)
           x == ReadExponent(From(t, length + 1), Skipped(digits, w) - a.used)
<1>4. ReadDouble(t) =
        IF length = sign \/ ~x.valid
          THEN [length |-> 0]
          ELSE [length |-> length + x.length, negative |-> sign = 1,
                significand |-> a.value, exponent |-> x.sum]
  BY DEF ReadDouble
<1>5. sign = s
  <2>1. s = 0 \/ s = 1
    BY <1>2
  <2>2. StartsIn(t, {Minus}) <=> s = 1
    BY <1>2
  <2> QED
    BY <2>1, <2>2, Zenon
<1> HIDE DEF sign
<1>6. digits = whole
  BY <1>2, <1>5
<1>14. w = Accumulate(0, whole, MaxUnsigned)
  BY <1>6
<1> HIDE DEF digits, w
<1>7. point <=> fraction # <<>>
  BY <1>1, <1>3, <1>5, <1>6
<1> HIDE DEF point
<1>8. places = fraction
  BY <1>1, <1>5, <1>6, <1>7
<1>15. a = Significand(whole, fraction)
  BY <1>8, <1>14 DEF Significand
<1> HIDE DEF places, a
<1>9. length = s + Len(whole) + PointLength(fraction) + Len(fraction)
  BY <1>5, <1>6, <1>7, <1>8 DEF PointLength
<1> HIDE DEF length
<1>10. ExponentRead(e, Skipped(digits, w) - a.used)
  BY ExponentIsRead
<1>11. x.valid = TRUE /\ x.length = Len(e)
  BY <1>1, <1>9, <1>10 DEF ExponentRead
<1>16. x = ReadExponent(e, LeftOut(whole, fraction))
  BY <1>1, <1>6, <1>9, <1>14, <1>15 DEF LeftOut
<1> HIDE DEF x
<1>12. length # sign /\ length + x.length = Len(t)
  <2>1. Len(fraction) \in Nat
    OBVIOUS
  <2>2. PointLength(fraction) \in 0 .. 1
    BY DEF PointLength
  <2>3. PICK n \in Nat \ {0}, m \in Nat, k \in 0 .. 1 :
          n = Len(whole) /\ m = Len(fraction) /\ k = PointLength(fraction)
    BY <1>2, <2>1, <2>2
  <2>4. s + n + k + m # s
    <3>1. s \in 0 .. 1
      BY <1>2
    <3> QED
      BY <3>1
  <2>5. length = s + n + k + m
    BY <1>9, <2>3
  <2> QED
    BY <1>1, <1>5, <1>9, <1>11, <2>4, <2>5
<1>13. ReadDouble(t) = [length |-> length + x.length, negative |-> sign = 1,
                        significand |-> a.value, exponent |-> x.sum]
  BY <1>4, <1>11, <1>12
<1> QED
  BY <1>5, <1>12, <1>13, <1>15, <1>16 DEF DoubleOf

\* The number that sign and digits say.
Said(s, whole) == IF s = 1 THEN - Value(whole) ELSE Value(whole)

LeadingZero(whole) == Len(whole) >= 2 /\ Head(whole) = 0

\* How the text of a number is read.
NumberSo(t, s, whole, fraction, e) ==
  /\ LeadingZero(whole) => ReadNumber(t).length = 0
  /\ ~ LeadingZero(whole) => ReadNumber(t).length = Len(t)
  /\ ~ LeadingZero(whole) /\ fraction = <<>> /\ e = <<>> =>
       IF Fits(s, Value(whole))
         THEN ReadNumber(t) = [type |-> TypeOf(Said(s, whole)), length |-> Len(t),
                               value |-> Said(s, whole)]
         ELSE ReadNumber(t).type = "double" /\ TypeOf(Said(s, whole)) = "double"

\* The types of the numbers that fit.
LEMMA TypeIs ==
  ASSUME NEW s \in 0 .. 1, NEW v \in Nat, NEW x, x = IF s = 1 THEN - v ELSE v
  PROVE  TypeOf(x) = IF ~ Fits(s, v) THEN "double"
                     ELSE IF x <= MaxSigned THEN "signed" ELSE "unsigned"
<1>1. MaxSigned \in Nat /\ MaxUnsigned = 2 * MaxSigned + 1
  BY WidthAssumption
<1>2. CASE s = 1
  <2>1. x = - v /\ x \in Int
    BY <1>2
  <2>2. Fits(s, v) <=> v <= MaxSigned + 1
    BY <1>2 DEF Fits
  <2>3. CASE v <= MaxSigned + 1
    BY <1>1, <2>1, <2>2, <2>3 DEF TypeOf, MinSigned
  <2>4. CASE ~ (v <= MaxSigned + 1)
    BY <1>1, <2>1, <2>2, <2>4 DEF TypeOf, MinSigned
  <2> QED
    BY <2>3, <2>4
<1>3. CASE s = 0
  <2>1. x = v
    BY <1>3
  <2>2. Fits(s, v) <=> v <= MaxUnsigned
    BY <1>3 DEF Fits
  <2>3. CASE v <= MaxSigned
    BY <1>1, <2>1, <2>2, <2>3 DEF TypeOf, MinSigned
  <2>4. CASE ~ (v <= MaxSigned)
    BY <1>1, <2>1, <2>2, <2>4 DEF TypeOf, MinSigned
  <2> QED
    BY <2>3, <2>4
<1> QED
  BY <1>2, <1>3

LEMMA NumberIsRead ==
  ASSUME NEW t, NEW s, NEW g, NEW whole, NEW f, NEW fraction, NEW e,
         NumberText4(t, s, g, whole, f, fraction, e)
  PROVE  NumberSo(t, s, whole, fraction, e)
<1>1. /\ FractionText(f, fraction) /\ ExponentText(e)
      /\ whole \in Seq(Digit) /\ whole # <<>> /\ fraction \in Seq(Digit)
  BY DEF NumberText4
<1>2. PartsFound(t, s, whole, f, fraction, e)
  BY PartsAre
<1>3. TailSo(f \o e, f, fraction, e)
  BY <1>1, TailIs
<1>4. /\ FoundIn(t, s, whole)
      /\ From(t, s + Len(whole) + 1) = f \o e
      /\ Len(t) = s + Len(whole) + PointLength(fraction) + Len(fraction) + Len(e)
  BY <1>2 DEF PartsFound
<1>5. /\ s \in 0 .. 1 /\ (StartsIn(t, {Minus}) <=> s = 1)
      /\ DigitsOf(From(t, s + 1)) = whole
      /\ Len(whole) \in Nat \ {0}
      /\ s = 1 => Tail(t) = From(t, s + 1)
      /\ s = 0 => t = From(t, s + 1)
      /\ t \in Seq(Int) /\ t # <<>>
  BY <1>4 DEF FoundIn
<1>6. ReadIfFits(t, s, whole)
  BY <1>4, IntegerIs
<1>7. /\ Fits(s, Value(whole)) =>
           /\ ReadInteger(t, s).length = s + Len(whole)
           /\ ReadInteger(t, s).value = Said(s, whole)
      /\ ~ Fits(s, Value(whole)) => ReadInteger(t, s).length = 0
  BY <1>6 DEF ReadIfFits, Said
<1>8. ReadDouble(t).length = Len(t)
  BY <1>1, <1>2, <1>3, DoubleIsRead DEF DoubleOf
<1>9. Value(whole) \in Nat
  BY <1>1, ValuesOfIs
<1>10. PICK u : u = f \o e
  OBVIOUS
<1>11. /\ u # <<>> => StartsIn(u, ExponentSigns \cup {Period})
       /\ u = <<>> <=> fraction = <<>> /\ e = <<>>
  BY <1>3, <1>10 DEF TailSo
<1>12. u = <<>> => ~ StartsIn(u, ExponentSigns \cup {Period})
  BY DEF StartsIn
<1> DEFINE negative == StartsIn(t, {Minus})
           integer  == IF negative THEN ReadSigned(t) ELSE ReadUnsigned(t)
           digits   == DigitsOf(IF negative THEN Tail(t) ELSE t)
           double   == ReadDouble(t)
           zero     == (Len(digits) >= 2 /\ Head(digits) = 0) \/ (digits = <<>> /\ ~negative)
           whole0   == /\ integer.length > 0
                       /\ ~StartsIn(From(t, integer.length + 1), ExponentSigns \cup {Period})
<1>13. ReadNumber(t) =
         IF zero THEN [type |-> "refused", length |-> 0]
         ELSE IF whole0
           THEN [type |-> IF integer.value <= MaxSigned THEN "signed" ELSE "unsigned",
                 length |-> integer.length, value |-> integer.value]
         ELSE IF double.length > 0
           THEN [type |-> "double", length |-> double.length, value |-> double]
         ELSE [type |-> "refused", length |-> 0]
  BY DEF ReadNumber
<1>14. negative <=> s = 1
  BY <1>5
<1> HIDE DEF negative
<1>15. integer = ReadInteger(t, s)
  BY <1>14 DEF ReadInteger
<1>16. digits = whole
  <2>1. CASE s = 1
    BY <1>5, <1>14, <2>1
  <2>2. CASE s = 0
    BY <1>5, <1>14, <2>2
  <2> QED
    BY <1>5, <2>1, <2>2
<1> HIDE DEF integer, digits
<1>17. zero <=> LeadingZero(whole)
  BY <1>1, <1>16 DEF LeadingZero
<1> HIDE DEF zero
<1>18. double.length = Len(t) /\ Len(t) > 0
  <2>1. AtLeastOne(t)
    BY <1>5, NotEmpty
  <2>2. Len(t) \in Nat /\ Len(t) >= 1
    BY <2>1 DEF AtLeastOne
  <2> QED
    BY <1>8, <2>2
<1>19. whole0 <=> Fits(s, Value(whole)) /\ u = <<>>
  <2>1. CASE Fits(s, Value(whole))
    <3>1. integer.length = s + Len(whole)
      BY <1>7, <1>15, <2>1
    <3>2. integer.length > 0
      BY <1>5, <3>1
    <3>3. From(t, integer.length + 1) = u
      BY <1>4, <1>10, <3>1
    <3> QED
      BY <1>11, <1>12, <2>1, <3>2, <3>3
  <2>2. CASE ~ Fits(s, Value(whole))
    <3>1. integer.length = 0
      BY <1>7, <1>15, <2>2
    <3>2. ~ (integer.length > 0)
      BY <3>1
    <3> QED
      BY <2>2, <3>2
  <2> QED
    BY <2>1, <2>2
<1> HIDE DEF whole0, double
<1>20. CASE LeadingZero(whole)
  <2>1. ReadNumber(t) = [type |-> "refused", length |-> 0]
    BY <1>13, <1>17, <1>20
  <2> QED
    BY <1>20, <2>1 DEF NumberSo
<1>21. CASE ~ LeadingZero(whole) /\ whole0
  <2>1. ReadNumber(t) =
          [type |-> IF integer.value <= MaxSigned THEN "signed" ELSE "unsigned",
           length |-> integer.length, value |-> integer.value]
    BY <1>13, <1>17, <1>21
  <2>2. Fits(s, Value(whole)) /\ fraction = <<>> /\ e = <<>>
    BY <1>11, <1>19, <1>21
  <2>3. integer.value = Said(s, whole) /\ integer.length = s + Len(whole)
    BY <1>7, <1>15, <2>2
  <2>4. Len(t) = s + Len(whole)
    <3>1. Len(fraction) = 0 /\ Len(e) = 0 /\ PointLength(fraction) = 0
      BY <2>2 DEF PointLength
    <3>2. s + Len(whole) + 0 + 0 + 0 = s + Len(whole)
      BY <1>5
    <3> QED
      BY <1>4, <3>1, <3>2
  <2>5. TypeOf(Said(s, whole)) = IF Said(s, whole) <= MaxSigned THEN "signed" ELSE "unsigned"
    <3>1. PICK x : x = Said(s, whole)
      OBVIOUS
    <3>2. PICK v \in Nat : v = Value(whole)
      BY <1>9
    <3>3. x = IF s = 1 THEN - v ELSE v
      BY <3>1, <3>2 DEF Said
    <3>4. TypeOf(x) = IF ~ Fits(s, v) THEN "double"
                      ELSE IF x <= MaxSigned THEN "signed" ELSE "unsigned"
      BY <1>5, <3>3, TypeIs
    <3> QED
      BY <2>2, <3>1, <3>2, <3>4
  <2>6. ReadNumber(t) = [type |-> TypeOf(Said(s, whole)), length |-> Len(t),
                         value |-> Said(s, whole)]
    BY <2>1, <2>3, <2>4, <2>5
  <2> QED
    BY <1>21, <2>2, <2>6 DEF NumberSo
<1>22. CASE ~ LeadingZero(whole) /\ ~ whole0
  <2>1. ReadNumber(t) = [type |-> "double", length |-> double.length, value |-> double]
    BY <1>13, <1>17, <1>18, <1>22
  <2>2. ReadNumber(t).length = Len(t) /\ ReadNumber(t).type = "double"
    BY <1>18, <2>1
  <2>3. fraction = <<>> /\ e = <<>> => ~ Fits(s, Value(whole))
    BY <1>11, <1>19, <1>22
  <2>4. ~ Fits(s, Value(whole)) => TypeOf(Said(s, whole)) = "double"
    <3>1. PICK x : x = Said(s, whole)
      OBVIOUS
    <3>2. PICK v \in Nat : v = Value(whole)
      BY <1>9
    <3>3. x = IF s = 1 THEN - v ELSE v
      BY <3>1, <3>2 DEF Said
    <3>4. TypeOf(x) = IF ~ Fits(s, v) THEN "double"
                      ELSE IF x <= MaxSigned THEN "signed" ELSE "unsigned"
      BY <1>5, <3>3, TypeIs
    <3> QED
      BY <3>1, <3>2, <3>4
  <2> QED
    BY <1>22, <2>2, <2>3, <2>4 DEF NumberSo
<1> QED
  BY <1>20, <1>21, <1>22

-----------------------------------------------------------------------------
(* Integers, written.                                                      *)

\* One more digit.
OneMore(digits, x) ==
  /\ Append(digits, x) \in Seq(Digit) /\ Len(Append(digits, x)) = Len(digits) + 1
  /\ \A k \in 1 .. Len(digits) : Append(digits, x)[k] = digits[k]
  /\ Append(digits, x)[Len(digits) + 1] = x

LEMMA OneMoreDigit ==
  ASSUME NEW digits \in Seq(Digit), NEW x \in Digit
  PROVE  OneMore(digits, x)
BY AppendProperties DEF OneMore

LEMMA ValueOfMore ==
  ASSUME NEW digits \in Seq(Digit), NEW x \in Digit
  PROVE  Value(Append(digits, x)) = 10 * Value(digits) + x
<1>1. PICK more : more = Append(digits, x)
  OBVIOUS
<1>2. PICK n \in Nat : n = Len(digits)
  OBVIOUS
<1>3. /\ more \in Seq(Digit) /\ Len(more) = n + 1
      /\ \A k \in 1 .. n : more[k] = digits[k]
      /\ more[n + 1] = x
  BY <1>1, <1>2, OneMoreDigit DEF OneMore
<1>4. PICK v, z : v = ValuesOf(digits) /\ z = ValuesOf(more)
  OBVIOUS
<1>5. /\ v \in [0 .. n -> Nat] /\ v[0] = 0
      /\ \A k \in 0 .. n - 1 : v[k + 1] = 10 * v[k] + digits[k + 1]
  BY <1>2, <1>4, ValuesOfIs
<1>6. /\ z[0] = 0
      /\ \A k \in 0 .. Len(more) - 1 : z[k + 1] = 10 * z[k] + more[k + 1]
  BY <1>3, <1>4, ValuesOfIs
<1> DEFINE T == {k \in Nat : v[k] = z[k]}
<1>7. 0 \in T
  BY <1>5, <1>6
<1>8. ASSUME NEW k \in 0 .. n - 1, k \in T
      PROVE  k + 1 \in T
  <2>1. k \in 0 .. (n + 1) - 1 /\ k + 1 \in 1 .. n /\ k + 1 \in Nat
    OBVIOUS
  <2>2. z[k + 1] = 10 * z[k] + more[k + 1]
    BY <1>3, <1>6, <2>1
  <2>3. v[k + 1] = 10 * v[k] + digits[k + 1]
    BY <1>5
  <2>4. more[k + 1] = digits[k + 1] /\ v[k] = z[k]
    BY <1>3, <1>8, <2>1
  <2> QED
    BY <2>1, <2>2, <2>3, <2>4
<1> HIDE DEF T
<1>9. n \in T
  <2>1. \A k \in 0 .. n : k \in T
    BY <1>7, <1>8, InductionUpTo
  <2> QED
    BY <2>1
<1>10. v[n] = z[n]
  BY <1>9 DEF T
<1>11. z[n + 1] = 10 * z[n] + more[n + 1]
  BY <1>3, <1>6
<1>12. Value(digits) = v[n] /\ Value(more) = z[n + 1]
  BY <1>2, <1>3, <1>4 DEF Value
<1> QED
  BY <1>1, <1>3, <1>10, <1>11, <1>12

LEMMA ValueOfOne ==
  ASSUME NEW x \in Digit
  PROVE  Value(<<x>>) = x
<1>1. <<>> \in Seq(Digit) /\ Len(<<>>) = 0
  OBVIOUS
<1>2. Value(<<>>) = 0
  <2>1. ValuesOf(<<>>)[0] = 0
    BY <1>1, ValuesOfIs
  <2> QED
    BY <1>1, <2>1 DEF Value
<1>3. <<x>> = Append(<<>>, x)
  OBVIOUS
<1>4. Value(Append(<<>>, x)) = 10 * Value(<<>>) + x
  BY <1>1, ValueOfMore
<1> QED
  BY <1>2, <1>3, <1>4 DEF Digit

LEMMA TextOfMore ==
  ASSUME NEW digits \in Seq(Digit), NEW x \in Digit
  PROVE  DigitTexts(Append(digits, x)) = Append(DigitTexts(digits), Zero + x)
<1>1. PICK more : more = Append(digits, x)
  OBVIOUS
<1>2. PICK n \in Nat : n = Len(digits)
  OBVIOUS
<1>3. /\ more \in Seq(Digit) /\ Len(more) = n + 1
      /\ \A k \in 1 .. n : more[k] = digits[k]
      /\ more[n + 1] = x
  BY <1>1, <1>2, OneMoreDigit DEF OneMore
<1>4. PICK d : d = DigitTexts(digits)
  OBVIOUS
<1>5. d \in Seq(Int) /\ Len(d) = n /\ \A k \in 1 .. n : d[k] = Zero + digits[k]
  BY <1>2, <1>4, DigitTextsType
<1>6. PICK e : e = DigitTexts(more)
  OBVIOUS
<1>7. /\ e \in Seq(Int) /\ Len(e) = n + 1
      /\ \A k \in 1 .. n + 1 : e[k] = Zero + more[k]
  BY <1>3, <1>6, DigitTextsType
<1>8. Zero + x \in Int
  BY DEF Zero, Digit
<1>9. PICK b : b = Append(d, Zero + x)
  OBVIOUS
<1>10. /\ b \in Seq(Int) /\ Len(b) = n + 1
       /\ \A k \in 1 .. n : b[k] = d[k]
       /\ b[n + 1] = Zero + x
  BY <1>5, <1>8, <1>9, AppendProperties
<1>11. ASSUME NEW k \in 1 .. Len(e)
       PROVE  e[k] = b[k]
  <2>1. k \in 1 .. n + 1
    BY <1>7
  <2>2. e[k] = Zero + more[k]
    BY <1>7, <2>1
  <2>3. CASE k = n + 1
    BY <1>3, <1>10, <2>2, <2>3
  <2>4. CASE k # n + 1
    <3>1. k \in 1 .. n
      BY <2>1, <2>4
    <3> QED
      BY <1>3, <1>5, <1>10, <2>2, <3>1
  <2> QED
    BY <2>3, <2>4
<1>12. e = b
  BY <1>7, <1>10, <1>11, SeqEqual
<1> QED
  BY <1>1, <1>4, <1>6, <1>9, <1>12

-----------------------------------------------------------------------------

\* The digits of a number as they are written: no zero leads.
Canonical(digits, n) ==
  /\ digits \in Seq(Digit) /\ Len(digits) >= 1 /\ Value(digits) = n
  /\ n # 0 => digits[1] # 0
  /\ n < 10 => Len(digits) = 1

Writes(text1, n) == \E digits : Canonical(digits, n) /\ text1 = DigitTexts(digits)

LEMMA WritesOne ==
  ASSUME NEW n \in 0 .. 9
  PROVE  Writes(<<Zero + n>>, n)
<1>1. n \in Digit
  BY DEF Digit
<1>2. PICK d : d = <<n>>
  OBVIOUS
<1>3. d \in Seq(Digit) /\ Len(d) = 1 /\ d[1] = n
  BY <1>1, <1>2
<1>4. Value(d) = n
  BY <1>1, <1>2, ValueOfOne
<1>5. Canonical(d, n)
  BY <1>3, <1>4 DEF Canonical
<1>6. DigitTexts(d) = <<Zero + n>>
  BY <1>2, <1>3 DEF DigitTexts
<1> QED
  BY <1>5, <1>6 DEF Writes

LEMMA WritesMore ==
  ASSUME NEW n \in Nat, n >= 10, NEW text1, Writes(text1, n \div 10)
  PROVE  Writes(Append(text1, Zero + (n % 10)), n)
<1>1. PICK q \in Nat, x \in Digit : q = n \div 10 /\ x = n % 10
  <2>1. n \div 10 \in Nat
    OBVIOUS
  <2>2. n % 10 \in 0 .. 9
    OBVIOUS
  <2> QED
    BY <2>1, <2>2 DEF Digit
<1>2. n = 10 * q + x
  BY <1>1
<1>3. q # 0
  BY <1>2 DEF Digit
<1>4. PICK d : Canonical(d, q) /\ text1 = DigitTexts(d)
  BY <1>1 DEF Writes
<1>5. d \in Seq(Digit) /\ Len(d) >= 1 /\ Value(d) = q /\ d[1] # 0
  BY <1>3, <1>4 DEF Canonical
<1>6. PICK e : e = Append(d, x)
  OBVIOUS
<1>7. /\ e \in Seq(Digit) /\ Len(e) = Len(d) + 1
      /\ \A k \in 1 .. Len(d) : e[k] = d[k]
  BY <1>5, <1>6, OneMoreDigit DEF OneMore
<1>8. Value(e) = 10 * Value(d) + x
  BY <1>5, <1>6, ValueOfMore
<1>9. Value(e) = n
  BY <1>2, <1>5, <1>8
<1>10. e[1] # 0
  <2>1. 1 \in 1 .. Len(d)
    BY <1>5
  <2> QED
    BY <1>5, <1>7, <2>1
<1>11. Len(e) >= 1
  BY <1>5, <1>7
<1>12. ~ (n < 10)
  OBVIOUS
<1>13. Canonical(e, n)
  BY <1>7, <1>9, <1>10, <1>11, <1>12 DEF Canonical
<1>14. DigitTexts(e) = Append(text1, Zero + x)
  BY <1>4, <1>5, <1>6, TextOfMore
<1> QED
  BY <1>1, <1>13, <1>14 DEF Writes

\* The texts of the numbers up to n, each made of that of its tenth.
Texts10(h, n) ==
  h = [k \in 0 .. n |-> IF k < 10 THEN <<Zero + k>>
                        ELSE Append(h[k \div 10], Zero + (k % 10))]

LEMMA TenthIsLess ==
  ASSUME NEW k \in Nat, k >= 10
  PROVE  k \div 10 \in 0 .. k - 1
OBVIOUS

LEMMA TextsExist ==
  ASSUME NEW n \in Nat
  PROVE  \E h : Texts10(h, n)
<1> DEFINE T == {m \in Nat : \E h : Texts10(h, m)}
<1>1. 0 \in T
  <2>1. PICK h : h = [k \in 0 .. 0 |-> <<Zero + k>>]
    OBVIOUS
  <2>2. h = [k \in 0 .. 0 |-> IF k < 10 THEN <<Zero + k>>
                              ELSE Append(h[k \div 10], Zero + (k % 10))]
    <3>1. ASSUME NEW k \in 0 .. 0
          PROVE  k < 10
      OBVIOUS
    <3> QED
      BY <2>1, <3>1
  <2> QED
    BY <2>2 DEF Texts10
<1>2. ASSUME NEW m \in T
      PROVE  m + 1 \in T
  <2>1. m \in Nat /\ \E h : Texts10(h, m)
    OBVIOUS
  <2>2. PICK h : Texts10(h, m)
    BY <2>1
  <2>3. h = [k \in 0 .. m |-> IF k < 10 THEN <<Zero + k>>
                              ELSE Append(h[k \div 10], Zero + (k % 10))]
    BY <2>2 DEF Texts10
  <2>4. PICK q : q = [k \in 0 .. m + 1 |-> IF k < 10 THEN <<Zero + k>>
                                          ELSE Append(h[k \div 10], Zero + (k % 10))]
    OBVIOUS
  <2>5. ASSUME NEW k \in 0 .. m
        PROVE  q[k] = h[k]
    <3>1. k \in 0 .. m + 1
      BY <2>1
    <3> QED
      BY <2>3, <2>4, <3>1
  <2>6. ASSUME NEW k \in 0 .. m + 1, ~ (k < 10)
        PROVE  q[k \div 10] = h[k \div 10]
    <3>1. k \div 10 \in 0 .. k - 1
      BY <2>1, <2>6, TenthIsLess
    <3>2. k \div 10 \in 0 .. m
      BY <2>1, <3>1
    <3> QED
      BY <2>5, <3>2
  <2>7. q = [k \in 0 .. m + 1 |-> IF k < 10 THEN <<Zero + k>>
                                  ELSE Append(q[k \div 10], Zero + (k % 10))]
    <3> DEFINE old(k) == IF k < 10 THEN <<Zero + k>> ELSE Append(h[k \div 10], Zero + (k % 10))
               new(k) == IF k < 10 THEN <<Zero + k>> ELSE Append(q[k \div 10], Zero + (k % 10))
    <3>1. \A k \in 0 .. m + 1 : old(k) = new(k)
      BY <2>6, Zenon
    <3>2. q = [k \in 0 .. m + 1 |-> old(k)]
      BY <2>4
    <3> HIDE DEF old, new
    <3>3. q = [k \in 0 .. m + 1 |-> new(k)]
      BY <3>1, <3>2
    <3> QED
      BY <3>3 DEF new
  <2>8. Texts10(q, m + 1)
    BY <2>7, Zenon DEF Texts10
  <2>9. m + 1 \in Nat
    BY <2>1
  <2> QED
    BY <2>8, <2>9
<1> HIDE DEF T
<1>3. T \in SUBSET Nat
  BY DEF T
<1>4. T = Nat
  BY <1>1, <1>2, <1>3, Induction
<1> QED
  BY <1>4 DEF T

\* What is written for a number is its digits.
LEMMA UnsignedWrites ==
  ASSUME NEW n \in Nat
  PROVE  Writes(WriteUnsigned(n), n)
<1>1. PICK h : Texts10(h, n)
  BY TextsExist
<1>2. h = [k \in 0 .. n |-> IF k < 10 THEN <<Zero + k>>
                            ELSE Append(h[k \div 10], Zero + (k % 10))]
  BY <1>1 DEF Texts10
<1> DEFINE digits[k \in 0 .. n] ==
      IF k < 10 THEN <<Zero + k>> ELSE Append(digits[k \div 10], Zero + (k % 10))
<1>3. WriteUnsigned(n) = digits[n]
  BY Zenon DEF WriteUnsigned
<1>4. digits = [k \in 0 .. n |-> IF k < 10 THEN <<Zero + k>>
                                 ELSE Append(digits[k \div 10], Zero + (k % 10))]
  BY <1>2, Zenon
<1> HIDE DEF digits
<1> DEFINE T == {k \in Nat : \A j \in 0 .. k : Writes(digits[j], j)}
<1>5. ASSUME NEW k \in 0 .. n, \A j \in 0 .. k - 1 : Writes(digits[j], j)
      PROVE  Writes(digits[k], k)
  <2>1. CASE k < 10
    <3>1. digits[k] = <<Zero + k>>
      BY <1>4, <2>1
    <3>2. k \in 0 .. 9
      BY <2>1
    <3>3. Writes(<<Zero + k>>, k)
      BY <3>2, WritesOne
    <3> QED
      BY <3>1, <3>3
  <2>2. CASE ~ (k < 10)
    <3>1. digits[k] = Append(digits[k \div 10], Zero + (k % 10))
      BY <1>4, <2>2
    <3>2. k \in Nat /\ k >= 10
      BY <2>2
    <3>3. k \div 10 \in 0 .. k - 1
      BY <3>2, TenthIsLess
    <3>4. PICK text1 : text1 = digits[k \div 10]
      OBVIOUS
    <3>5. Writes(text1, k \div 10)
      BY <1>5, <3>3, <3>4
    <3>6. Writes(Append(text1, Zero + (k % 10)), k)
      BY <3>2, <3>5, WritesMore
    <3> QED
      BY <3>1, <3>4, <3>6
  <2> QED
    BY <2>1, <2>2
<1>6. 0 \in T
  <2>1. 0 \in 0 .. n /\ \A j \in 0 .. 0 - 1 : Writes(digits[j], j)
    OBVIOUS
  <2>2. Writes(digits[0], 0)
    BY <1>5, <2>1
  <2>3. \A j \in 0 .. 0 : j = 0
    OBVIOUS
  <2> QED
    BY <2>2, <2>3
<1>7. ASSUME NEW k \in 0 .. n - 1, k \in T
      PROVE  k + 1 \in T
  <2>1. k + 1 \in 0 .. n /\ (k + 1) - 1 = k /\ k + 1 \in Nat
    OBVIOUS
  <2>2. \A j \in 0 .. k : Writes(digits[j], j)
    BY <1>7
  <2>3. PICK i : i = k + 1
    OBVIOUS
  <2>4. i \in 0 .. n /\ \A j \in 0 .. i - 1 : Writes(digits[j], j)
    BY <2>1, <2>2, <2>3
  <2>5. Writes(digits[i], i)
    BY <1>5, <2>4
  <2>6. ASSUME NEW j \in 0 .. k + 1
        PROVE  Writes(digits[j], j)
    <3>1. CASE j = k + 1
      BY <2>3, <2>5, <3>1
    <3>2. CASE j # k + 1
      <4>1. j \in 0 .. k
        BY <3>2
      <4> QED
        BY <2>2, <4>1
    <3> QED
      BY <3>1, <3>2
  <2> QED
    BY <2>1, <2>6
<1> HIDE DEF T
<1>8. n \in T
  <2>1. \A k \in 0 .. n : k \in T
    BY <1>6, <1>7, InductionUpTo
  <2> QED
    BY <2>1
<1>9. Writes(digits[n], n)
  <2>1. n \in 0 .. n
    OBVIOUS
  <2> QED
    BY <1>8, <2>1 DEF T
<1> QED
  BY <1>3, <1>9

\* The text of an integer: a sign, or none, and the digits of its absolute value.
WrittenAs(t, v, s, g, digits) ==
  /\ SignText(g, s) /\ (s = 1 <=> v < 0)
  /\ Canonical(digits, IF v < 0 THEN - v ELSE v)
  /\ t = g \o DigitTexts(digits)

LEMMA NumberWrites ==
  ASSUME NEW v \in Int
  PROVE  \E s, g, digits : WrittenAs(WriteNumber(v), v, s, g, digits)
<1>1. CASE v >= 0
  <2>1. v \in Nat /\ ~ (v < 0)
    BY <1>1
  <2>2. PICK digits : Canonical(digits, v) /\ WriteUnsigned(v) = DigitTexts(digits)
    BY <2>1, UnsignedWrites DEF Writes
  <2>3. PICK g : g = <<>>
    OBVIOUS
  <2>4. SignText(g, 0)
    BY <2>3 DEF SignText
  <2>5. WriteNumber(v) = DigitTexts(digits)
    BY <1>1, <2>2 DEF WriteNumber
  <2>6. DigitTexts(digits) \in Seq(Int)
    <3>1. digits \in Seq(Digit)
      BY <2>2 DEF Canonical
    <3> QED
      BY <3>1, DigitTextsType
  <2>7. g \o DigitTexts(digits) = DigitTexts(digits)
    BY <2>3, <2>6
  <2>8. WrittenAs(WriteNumber(v), v, 0, g, digits)
    BY <2>1, <2>2, <2>4, <2>5, <2>7 DEF WrittenAs
  <2> QED
    BY <2>8
<1>2. CASE ~ (v >= 0)
  <2>1. - v \in Nat /\ v < 0
    BY <1>2
  <2>2. PICK digits : Canonical(digits, - v) /\ WriteUnsigned(- v) = DigitTexts(digits)
    BY <2>1, UnsignedWrites DEF Writes
  <2>3. PICK g : g = <<Minus>>
    OBVIOUS
  <2>4. SignText(g, 1)
    BY <2>3 DEF SignText, Minus
  <2>5. WriteNumber(v) = g \o DigitTexts(digits)
    BY <1>2, <2>2, <2>3 DEF WriteNumber
  <2>8. WrittenAs(WriteNumber(v), v, 1, g, digits)
    BY <2>1, <2>2, <2>4, <2>5 DEF WrittenAs
  <2> QED
    BY <2>8
<1> QED
  BY <1>1, <1>2

\* Every text of an exponent is one.
ExponentOf(exponent) == IF exponent = <<>> THEN 0 ELSE exponent[1]

LEMMA ExponentTextsAre ==
  ASSUME NEW exponent \in Seq(Int), Len(exponent) <= 1, NEW e \in ExponentTexts(exponent)
  PROVE  ExponentSays(e, ExponentOf(exponent)) /\ (e = <<>> <=> exponent = <<>>)
<1>1. CASE exponent = <<>>
  <2>1. e = <<>>
    BY <1>1 DEF ExponentTexts
  <2> QED
    BY <1>1, <2>1 DEF ExponentSays, ExponentOf
<1>2. CASE exponent # <<>>
  <2>1. AtLeastOne(exponent)
    BY <1>2, NotEmpty
  <2>2. 1 \in 1 .. Len(exponent)
    BY <2>1 DEF AtLeastOne
  <2>3. PICK x \in Int : x = exponent[1]
    BY <2>2
  <2>4. \/ e = <<101>> \o WriteNumber(x)
        \/ x \in Nat /\ e = <<69, Plus>> \o WriteNumber(x)
    BY <1>2, <2>3 DEF ExponentTexts
  <2>5. PICK s, g, digits : WrittenAs(WriteNumber(x), x, s, g, digits)
    BY NumberWrites
  <2>6. /\ SignText(g, s) /\ (s = 1 <=> x < 0)
        /\ Canonical(digits, IF x < 0 THEN - x ELSE x)
        /\ WriteNumber(x) = g \o DigitTexts(digits)
    BY <2>5 DEF WrittenAs
  <2>7. /\ g \in Seq(Int) /\ s \in 0 .. 1 /\ Len(g) = s
        /\ s = 0 => g = <<>>
        /\ s = 1 => g # <<>> /\ g[1] = Minus
    BY <2>6 DEF SignText
  <2>8. digits \in Seq(Digit) /\ digits # <<>>
    <3>1. digits \in Seq(Digit) /\ Len(digits) >= 1
      BY <2>6 DEF Canonical
    <3>2. AtLeastOne(digits)
      BY <3>1, LongEnough
    <3> QED
      BY <3>1, <3>2 DEF AtLeastOne
  <2>9. PICK d : d = DigitTexts(digits)
    OBVIOUS
  <2>10. d \in Seq(Int)
    BY <2>8, <2>9, DigitTextsType
  <2>13. Value(digits) = (IF x < 0 THEN - x ELSE x) /\ (s = 0 \/ s = 1)
    BY <2>6, <2>7 DEF Canonical
  <2>14. ExponentOf(exponent) = x
    BY <1>2, <2>3 DEF ExponentOf
  <2>11. CASE e = <<101>> \o WriteNumber(x)
    <3>1. PICK m : m = <<101>>
      OBVIOUS
    <3>2. m \in Seq(Int) /\ Len(m) = 1 /\ m[1] \in ExponentSigns
      BY <3>1 DEF ExponentSigns
    <3>3. e = m \o (g \o DigitTexts(digits))
      BY <2>6, <2>11, <3>1
    <3>4. g = <<>> \/ (Len(g) = 1 /\ g[1] \in {Minus, Plus})
      <4>1. s = 0 \/ s = 1
        BY <2>7
      <4> QED
        BY <2>7, <4>1
    <3>5. ExponentSays(e, x)
      <4>1. ExponentParts(e, m, g, digits)
        BY <2>7, <2>8, <3>2, <3>3, <3>4 DEF ExponentParts
      <4>2. Negative(g) <=> x < 0
        BY <2>6, <2>7, <2>13 DEF Negative
      <4> QED
        BY <2>13, <4>1, <4>2 DEF ExponentSays
    <3>6. e # <<>>
      <4>1. PICK w : w = g \o d
        OBVIOUS
      <4>2. w \in Seq(Int)
        <5>1. AfterIt(g, d)
          BY <2>7, <2>10, AfterPart
        <5> QED
          BY <4>1, <5>1 DEF AfterIt
      <4>3. AfterIt(m, w)
        BY <3>2, <4>2, AfterPart
      <4>4. e \in Seq(Int) /\ Len(e) = 1 + Len(w)
        BY <2>9, <3>2, <3>3, <4>1, <4>3 DEF AfterIt
      <4>5. Len(w) \in Nat
        BY <4>2
      <4>6. Len(e) >= 1
        BY <4>4, <4>5
      <4>7. AtLeastOne(e)
        BY <4>4, <4>6, LongEnough
      <4> QED
        BY <4>7 DEF AtLeastOne
    <3> QED
      BY <1>2, <2>14, <3>5, <3>6
  <2>12. CASE x \in Nat /\ e = <<69, Plus>> \o WriteNumber(x)
    <3>1. g = <<>>
      <4>1. ~ (x < 0)
        BY <2>12
      <4>2. s = 0
        BY <2>6, <2>7, <4>1
      <4> QED
        BY <2>7, <4>2
    <3>2. WriteNumber(x) = d
      BY <2>6, <2>9, <2>10, <3>1
    <3>3. PICK m, p : m = <<69>> /\ p = <<Plus>>
      OBVIOUS
    <3>4. m \in Seq(Int) /\ Len(m) = 1 /\ m[1] \in ExponentSigns
      BY <3>3 DEF ExponentSigns
    <3>5. p \in Seq(Int) /\ Len(p) = 1 /\ p[1] \in {Minus, Plus}
      BY <3>3 DEF Plus
    <3>6. m \o p = <<69, Plus>>
      <4>1. PICK b \in Int : b = Plus
        BY DEF Plus
      <4>2. PICK q : q = <<69, b>>
        OBVIOUS
      <4>3. m \in Seq(Int) /\ p \in Seq(Int) /\ Len(m) = 1 /\ Len(p) = 1 /\ m[1] = 69 /\ p[1] = b
        BY <3>3, <4>1
      <4>4. q \in Seq(Int) /\ Len(q) = 2 /\ q[1] = 69 /\ q[2] = b
        BY <4>2
      <4>5. PICK h : h = m \o p
        OBVIOUS
      <4>6. /\ h \in Seq(Int) /\ Len(h) = Len(m) + Len(p)
            /\ h[1] = m[1] /\ h[1 + Len(m)] = p[1]
        <5>1. m \in Seq(Int) /\ p \in Seq(Int)
          BY <4>3
        <5>2. Len(m) = 1 /\ Len(p) = 1
          BY <4>3
        <5>3. AfterIt(m, p)
          BY <5>1, AfterPart
        <5>4. h \in Seq(Int) /\ Len(h) = Len(m) + Len(p)
          BY <4>5, <5>3 DEF AfterIt
        <5>5. \A i \in 1 .. Len(m) : (m \o p)[i] = m[i]
          BY <5>1
        <5>6. \A i \in 1 .. Len(p) : (m \o p)[Len(m) + i] = p[i]
          BY <5>1
        <5>7. 1 \in 1 .. Len(m) /\ 1 \in 1 .. Len(p)
          BY <5>2
        <5>8. (m \o p)[1] = m[1] /\ (m \o p)[Len(m) + 1] = p[1]
          BY <5>5, <5>6, <5>7
        <5>9. Len(m) + 1 = 1 + Len(m)
          BY <5>2
        <5> QED
          BY <4>5, <5>4, <5>8, <5>9
      <4>7. h \in Seq(Int) /\ Len(h) = 2 /\ h[1] = 69 /\ h[2] = b
        BY <4>3, <4>6
      <4>8. \A i \in 1 .. Len(h) : h[i] = q[i]
        <5>1. \A i \in 1 .. Len(h) : i = 1 \/ i = 2
          BY <4>7
        <5> QED
          BY <4>4, <4>7, <5>1
      <4>9. h = q
        BY <4>4, <4>7, <4>8, SeqEqual
      <4> QED
        BY <4>1, <4>2, <4>5, <4>9
    <3>7. e = (m \o p) \o d
      BY <2>12, <3>2, <3>6
    <3>8. e = m \o (p \o d)
      <4>1. Together(m, p, d)
        BY <2>10, <3>4, <3>5, PartsTogether
      <4> QED
        BY <3>7, <4>1 DEF Together
    <3>9. ExponentSays(e, x)
      <4>1. ExponentParts(e, m, p, digits)
        BY <2>8, <2>9, <3>4, <3>5, <3>8 DEF ExponentParts
      <4>2. Negative(p) <=> x < 0
        BY <2>12, <3>3 DEF Negative, Plus, Minus
      <4> QED
        BY <2>13, <4>1, <4>2 DEF ExponentSays
    <3>10. e # <<>>
      <4>1. PICK w : w = p \o d
        OBVIOUS
      <4>2. w \in Seq(Int)
        <5>1. AfterIt(p, d)
          BY <2>10, <3>5, AfterPart
        <5> QED
          BY <4>1, <5>1 DEF AfterIt
      <4>3. AfterIt(m, w)
        BY <3>4, <4>2, AfterPart
      <4>4. e \in Seq(Int) /\ Len(e) = 1 + Len(w)
        BY <3>4, <3>8, <4>1, <4>3 DEF AfterIt
      <4>5. Len(w) \in Nat
        BY <4>2
      <4>6. Len(e) >= 1
        BY <4>4, <4>5
      <4>7. AtLeastOne(e)
        BY <4>4, <4>6, LongEnough
      <4> QED
        BY <4>7 DEF AtLeastOne
    <3> QED
      BY <1>2, <2>14, <3>9, <3>10
  <2> QED
    BY <2>4, <2>11, <2>12
<1> QED
  BY <1>1, <1>2

-----------------------------------------------------------------------------
(* What is read is what was meant.                                         *)

\* A spelled number has a text in four parts.
SpelledAs(t, n) ==
  \E s, g, f, e :
    /\ NumberText4(t, s, g, n.whole, f, n.fraction, e)
    /\ (s = 1 <=> n.negative) /\ (e = <<>> <=> n.exponent = <<>>)
    /\ ExponentSays(e, ExponentOf(n.exponent))

LEMMA NumberTextsAre ==
  ASSUME NEW n \in Numbers, NEW t \in NumberTexts(n)
  PROVE  SpelledAs(t, n)
<1>1. /\ n.negative \in BOOLEAN
      /\ n.whole \in Seq(Digit) /\ n.whole # <<>> /\ n.fraction \in Seq(Digit)
      /\ n.exponent \in Seq(Int) /\ Len(n.exponent) <= 1
  BY NumbersAssumption DEF Digit
<1>2. PICK g : g = IF n.negative THEN <<Minus>> ELSE <<>>
  OBVIOUS
<1>3. PICK f : f = IF n.fraction = <<>> THEN <<>> ELSE <<Period>> \o DigitTexts(n.fraction)
  OBVIOUS
<1>4. PICK e \in ExponentTexts(n.exponent) : t = ((g \o DigitTexts(n.whole)) \o f) \o e
  BY <1>2, <1>3 DEF NumberTexts
<1>5. PICK s : s = IF n.negative THEN 1 ELSE 0
  OBVIOUS
<1>6. SignText(g, s) /\ (s = 1 <=> n.negative)
  <2>1. CASE n.negative
    BY <1>2, <1>5, <2>1 DEF SignText, Minus
  <2>2. CASE ~ n.negative
    BY <1>2, <1>5, <2>2 DEF SignText
  <2> QED
    BY <2>1, <2>2
<1>7. FractionText(f, n.fraction)
  <2>1. CASE n.fraction = <<>>
    BY <1>3, <2>1 DEF FractionText
  <2>2. CASE n.fraction # <<>>
    <3>1. PICK p : p = <<Period>>
      OBVIOUS
    <3>2. p \in Seq(Int) /\ p # <<>> /\ Len(p) = 1 /\ p[1] = Period
      BY <3>1 DEF Period
    <3>3. f = p \o DigitTexts(n.fraction)
      BY <1>3, <2>2, <3>1
    <3> QED
      BY <2>2, <3>2, <3>3 DEF FractionText
  <2> QED
    BY <2>1, <2>2
<1>18. ExponentSays(e, ExponentOf(n.exponent)) /\ (e = <<>> <=> n.exponent = <<>>)
  BY <1>1, ExponentTextsAre
<1>8. ExponentText(e)
  BY <1>18 DEF ExponentSays, ExponentText
<1>9. PICK d : d = DigitTexts(n.whole)
  OBVIOUS
<1>10. g \in Seq(Int) /\ d \in Seq(Int) /\ f \in Seq(Int) /\ e \in Seq(Int)
  <2>1. g \in Seq(Int)
    BY <1>6 DEF SignText
  <2>2. d \in Seq(Int)
    BY <1>1, <1>9, DigitTextsType
  <2>3. TailSo(f \o e, f, n.fraction, e)
    BY <1>1, <1>7, <1>8, TailIs
  <2>4. f \in Seq(Int) /\ e \in Seq(Int)
    BY <2>3 DEF TailSo
  <2> QED
    BY <2>1, <2>2, <2>4
<1>11. PICK w : w = g \o d
  OBVIOUS
<1>12. w \in Seq(Int)
  <2>1. AfterIt(g, d)
    BY <1>10, AfterPart
  <2> QED
    BY <1>11, <2>1 DEF AfterIt
<1>13. t = w \o (f \o e)
  <2>1. t = (w \o f) \o e
    BY <1>4, <1>9, <1>11
  <2>2. Together(w, f, e)
    BY <1>10, <1>12, PartsTogether
  <2> QED
    BY <2>1, <2>2 DEF Together
<1>14. PICK u : u = f \o e
  OBVIOUS
<1>15. u \in Seq(Int)
  <2>1. AfterIt(f, e)
    BY <1>10, AfterPart
  <2> QED
    BY <1>14, <2>1 DEF AfterIt
<1>16. t = g \o (d \o u)
  <2>1. t = (g \o d) \o u
    BY <1>11, <1>13, <1>14
  <2>2. Together(g, d, u)
    BY <1>10, <1>15, PartsTogether
  <2> QED
    BY <2>1, <2>2 DEF Together
<1>17. NumberText4(t, s, g, n.whole, f, n.fraction, e)
  BY <1>1, <1>6, <1>7, <1>8, <1>9, <1>14, <1>16 DEF NumberText4
<1> QED
  BY <1>6, <1>17, <1>18 DEF SpelledAs

\* A written integer is a number in four parts, of which the last two are empty.
LEMMA WrittenIsNumber ==
  ASSUME NEW v \in Int, NEW t, NEW s, NEW g, NEW digits, WrittenAs(t, v, s, g, digits)
  PROVE  NumberText4(t, s, g, digits, <<>>, <<>>, <<>>)
<1>1. /\ SignText(g, s) /\ t = g \o DigitTexts(digits)
      /\ digits \in Seq(Digit) /\ Len(digits) >= 1
  BY DEF WrittenAs, Canonical
<1>2. digits # <<>>
  <2>1. AtLeastOne(digits)
    BY <1>1, LongEnough
  <2> QED
    BY <2>1 DEF AtLeastOne
<1>3. PICK d, o : d = DigitTexts(digits) /\ o = <<>>
  OBVIOUS
<1>4. d \in Seq(Int)
  BY <1>1, <1>3, DigitTextsType
<1>5. o \o o = o
  BY <1>3
<1>6. d \o o = d
  BY <1>3, <1>4
<1>7. t = g \o (DigitTexts(digits) \o (<<>> \o <<>>))
  BY <1>1, <1>3, <1>5, <1>6
<1>8. FractionText(<<>>, <<>>) /\ ExponentText(<<>>)
  BY DEF FractionText, ExponentText
<1>9. <<>> \in Seq(Digit)
  OBVIOUS
<1> QED
  BY <1>1, <1>2, <1>7, <1>8, <1>9 DEF NumberText4

\* What is read of a written integer of either type.
ReadBack(v) ==
  ReadNumber(WriteNumber(v)) = [type |-> TypeOf(v), length |-> Len(WriteNumber(v)), value |-> v]

LEMMA WrittenIsRead ==
  ASSUME NEW v \in MinSigned .. MaxUnsigned
  PROVE  ReadBack(v)
<1>1. v \in Int /\ v >= MinSigned /\ v <= MaxUnsigned
  BY WidthAssumption DEF MinSigned
<1>2. PICK t : t = WriteNumber(v)
  OBVIOUS
<1>3. PICK s, g, digits : WrittenAs(t, v, s, g, digits)
  BY <1>1, <1>2, NumberWrites
<1>4. NumberSo(t, s, digits, <<>>, <<>>)
  <2>1. NumberText4(t, s, g, digits, <<>>, <<>>, <<>>)
    BY <1>1, <1>3, WrittenIsNumber
  <2>2. PICK o : o = <<>>
    OBVIOUS
  <2>3. NumberText4(t, s, g, digits, o, o, o)
    BY <2>1, <2>2
  <2>4. NumberSo(t, s, digits, o, o)
    BY <2>3, NumberIsRead
  <2> QED
    BY <2>2, <2>4
<1>5. PICK n : n = IF v < 0 THEN - v ELSE v
  OBVIOUS
<1>6. /\ s \in 0 .. 1 /\ (s = 1 <=> v < 0)
      /\ digits \in Seq(Digit) /\ Len(digits) >= 1 /\ Value(digits) = n
      /\ n # 0 => digits[1] # 0
      /\ n < 10 => Len(digits) = 1
  <2>1. SignText(g, s) /\ (s = 1 <=> v < 0) /\ Canonical(digits, n)
    BY <1>3, <1>5 DEF WrittenAs
  <2> QED
    BY <2>1 DEF SignText, Canonical
<1>7. n \in Nat
  BY <1>1, <1>5
<1>8. ~ LeadingZero(digits)
  <2>1. CASE n < 10
    <3>1. ~ (Len(digits) >= 2)
      <4>1. Len(digits) = 1
        BY <1>6, <2>1
      <4> QED
        BY <4>1
    <3> QED
      BY <3>1 DEF LeadingZero
  <2>2. CASE ~ (n < 10)
    <3>1. n # 0
      BY <1>7, <2>2
    <3>2. digits[1] # 0
      BY <1>6, <3>1
    <3>3. AtLeastOne(digits)
      BY <1>6, LongEnough
    <3>4. Head(digits) = digits[1]
      BY <1>6, <3>3 DEF AtLeastOne
    <3> QED
      BY <3>2, <3>4 DEF LeadingZero
  <2> QED
    BY <2>1, <2>2
<1>9. MaxSigned \in Nat /\ MinSigned = - MaxSigned - 1
  BY WidthAssumption DEF MinSigned
<1>10. Fits(s, Value(digits))
  <2>1. CASE v < 0
    <3>1. s = 1 /\ n = - v
      BY <1>5, <1>6, <2>1
    <3>2. n <= MaxSigned + 1
      BY <1>1, <1>9, <3>1
    <3> QED
      BY <1>6, <3>1, <3>2 DEF Fits
  <2>2. CASE ~ (v < 0)
    <3>1. s # 1 /\ n = v
      BY <1>5, <1>6, <2>2
    <3> QED
      BY <1>1, <1>6, <3>1 DEF Fits
  <2> QED
    BY <2>1, <2>2
<1>11. Said(s, digits) = v
  <2>1. CASE v < 0
    <3>1. s = 1 /\ n = - v
      BY <1>5, <1>6, <2>1
    <3>2. - (- v) = v
      BY <1>1
    <3> QED
      BY <1>6, <3>1, <3>2 DEF Said
  <2>2. CASE ~ (v < 0)
    BY <1>5, <1>6, <2>2 DEF Said
  <2> QED
    BY <2>1, <2>2
<1>12. ReadNumber(t) = [type |-> TypeOf(Said(s, digits)), length |-> Len(t),
                        value |-> Said(s, digits)]
  BY <1>4, <1>8, <1>10 DEF NumberSo
<1> QED
  BY <1>2, <1>11, <1>12 DEF ReadBack

\* Where a behavior that handles a number is: the text is that of the number, and what is
\* made of it is what the reader makes of the text.
IntegersInv ==
  /\ kind = "integer" =>
       /\ subject \in MinSigned .. MaxUnsigned
       /\ text = WriteNumber(subject) \/ (text = <<>> /\ ~finished)
       /\ finished => outcome = ReadNumber(text)
  /\ kind = "number" =>
       /\ subject \in Numbers /\ text \in NumberTexts(subject)
       /\ finished => outcome = ReadNumber(text)

LEMMA IntegersInit == TextsInit => IntegersInv
<1> SUFFICES ASSUME TextsInit
             PROVE  IntegersInv
  OBVIOUS
<1>1. ~ finished
  BY DEF TextsInit
<1> QED
  BY <1>1 DEF TextsInit, IntegersInv

LEMMA IntegersNext == IntegersInv /\ [TextsNext]_<<vars, textVars>> => IntegersInv'
<1> SUFFICES ASSUME IntegersInv, [TextsNext]_<<vars, textVars>>
             PROVE  IntegersInv'
  OBVIOUS
<1>1. CASE UNCHANGED textVars
  BY <1>1 DEF IntegersInv, textVars
<1>2. CASE WriteInteger
  BY <1>2 DEF WriteInteger, IntegersInv
<1>3. CASE ReadNumberText
  BY <1>3 DEF ReadNumberText, IntegersInv
<1>4. CASE ParsePair
  BY <1>4 DEF ParsePair, IntegersInv
<1>5. CASE AdvanceReader
  BY <1>5 DEF AdvanceReader, IntegersInv
<1> QED
  BY <1>1, <1>2, <1>3, <1>4, <1>5 DEF TextsNext, textVars

\* The number that a spelled number without a point and an exponent says.
Meant(n) == ValueOf(n.whole) * (IF n.negative THEN -1 ELSE 1)

LEMMA MeantIsSaid ==
  ASSUME NEW n \in Numbers, NEW s, s = 1 <=> n.negative
  PROVE  Said(s, n.whole) = Meant(n)
<1>1. n.whole \in Seq(Digit)
  BY NumbersAssumption DEF Digit
<1>2. PICK v \in Nat : v = Value(n.whole)
  BY <1>1, ValuesOfIs
<1>3. ValueOf(n.whole) = v
  BY <1>1, <1>2, ValueOfIs
<1>4. v * (-1) = - v /\ v * 1 = v
  OBVIOUS
<1>5. CASE n.negative
  <2>1. Meant(n) = v * (-1)
    BY <1>3, <1>5 DEF Meant
  <2>2. Said(s, n.whole) = - v
    BY <1>2, <1>5 DEF Said
  <2> QED
    BY <1>4, <2>1, <2>2
<1>6. CASE ~ n.negative
  <2>1. Meant(n) = v * 1
    BY <1>3, <1>6 DEF Meant
  <2>2. Said(s, n.whole) = v
    BY <1>2, <1>6 DEF Said
  <2> QED
    BY <1>4, <2>1, <2>2
<1> QED
  BY <1>5, <1>6

\* The text of a spelled number is read so.
SpelledSo(n, t) ==
  /\ ReadNumber(t).length = IF LeadingZero(n.whole) THEN 0 ELSE Len(t)
  /\ ~ LeadingZero(n.whole) /\ n.fraction = <<>> /\ n.exponent = <<>> =>
       /\ ReadNumber(t).type = TypeOf(Meant(n))
       /\ ReadNumber(t).type # "double" => ReadNumber(t).value = Meant(n)

LEMMA SpelledIsRead ==
  ASSUME NEW n \in Numbers, NEW t \in NumberTexts(n)
  PROVE  SpelledSo(n, t)
<1>1. PICK s, g, f, e :
        /\ NumberText4(t, s, g, n.whole, f, n.fraction, e)
        /\ (s = 1 <=> n.negative) /\ (e = <<>> <=> n.exponent = <<>>)
  BY NumberTextsAre DEF SpelledAs
<1>2. NumberSo(t, s, n.whole, n.fraction, e)
  BY <1>1, NumberIsRead
<1>3. Said(s, n.whole) = Meant(n)
  BY <1>1, MeantIsSaid
<1>4. PICK v : v = Meant(n)
  OBVIOUS
<1>5. /\ LeadingZero(n.whole) => ReadNumber(t).length = 0
      /\ ~ LeadingZero(n.whole) => ReadNumber(t).length = Len(t)
      /\ ~ LeadingZero(n.whole) /\ n.fraction = <<>> /\ e = <<>> =>
           \/ ReadNumber(t) = [type |-> TypeOf(v), length |-> Len(t), value |-> v]
           \/ ReadNumber(t).type = "double" /\ TypeOf(v) = "double"
  BY <1>2, <1>3, <1>4 DEF NumberSo
<1>6. CASE ~ LeadingZero(n.whole) /\ n.fraction = <<>> /\ n.exponent = <<>>
  <2>1. \/ ReadNumber(t) = [type |-> TypeOf(v), length |-> Len(t), value |-> v]
        \/ ReadNumber(t).type = "double" /\ TypeOf(v) = "double"
    BY <1>1, <1>5, <1>6
  <2>2. /\ ReadNumber(t).type = TypeOf(v)
        /\ ReadNumber(t).type # "double" => ReadNumber(t).value = v
    BY <2>1
  <2> QED
    BY <1>4, <1>5, <1>6, <2>2 DEF SpelledSo
<1>7. CASE ~ (~ LeadingZero(n.whole) /\ n.fraction = <<>> /\ n.exponent = <<>>)
  BY <1>5, <1>7 DEF SpelledSo
<1> QED
  BY <1>6, <1>7

LEMMA IntegersSaid == IntegersInv => IntegersAreExact
<1> SUFFICES ASSUME IntegersInv, finished
             PROVE  IntegersAreExact
  BY DEF IntegersAreExact
<1>1. ASSUME kind = "integer"
      PROVE  outcome = [type |-> TypeOf(subject), length |-> Len(text), value |-> subject]
  <2>1. /\ subject \in MinSigned .. MaxUnsigned /\ text = WriteNumber(subject)
        /\ outcome = ReadNumber(text)
    BY <1>1 DEF IntegersInv
  <2>2. ReadBack(subject)
    BY <2>1, WrittenIsRead
  <2> QED
    BY <2>1, <2>2 DEF ReadBack
<1>2. ASSUME kind = "number"
      PROVE  LET v == ValueOf(subject.whole) * (IF subject.negative THEN -1 ELSE 1)
                 leadingZero == Len(subject.whole) > 1 /\ Head(subject.whole) = 0
             IN  /\ outcome.length = IF leadingZero THEN 0 ELSE Len(text)
                 /\ ~leadingZero /\ subject.fraction = <<>> /\ subject.exponent = <<>> =>
                      /\ outcome.type = TypeOf(v)
                      /\ outcome.type # "double" => outcome.value = v
  <2>1. subject \in Numbers /\ text \in NumberTexts(subject) /\ outcome = ReadNumber(text)
    BY <1>2 DEF IntegersInv
  <2>2. SpelledSo(subject, text)
    BY <2>1, SpelledIsRead
  <2>3. Len(subject.whole) \in Nat
    BY <2>1, NumbersAssumption
  <2>4. LeadingZero(subject.whole) <=> Len(subject.whole) > 1 /\ Head(subject.whole) = 0
    <3>1. Len(subject.whole) >= 2 <=> Len(subject.whole) > 1
      BY <2>3
    <3> QED
      BY <3>1 DEF LeadingZero
  <2> DEFINE v == ValueOf(subject.whole) * (IF subject.negative THEN -1 ELSE 1)
             leadingZero == Len(subject.whole) > 1 /\ Head(subject.whole) = 0
  <2>5. v = Meant(subject) /\ (leadingZero <=> LeadingZero(subject.whole))
    BY <2>4 DEF Meant
  <2> HIDE DEF v, leadingZero
  <2>6. /\ outcome.length = IF leadingZero THEN 0 ELSE Len(text)
        /\ ~leadingZero /\ subject.fraction = <<>> /\ subject.exponent = <<>> =>
             /\ outcome.type = TypeOf(v)
             /\ outcome.type # "double" => outcome.value = v
    BY <2>1, <2>2, <2>5 DEF SpelledSo
  <2> QED
    BY <2>6 DEF v, leadingZero
<1> QED
  BY <1>1, <1>2 DEF IntegersAreExact

\* Every integer of either type is read as it was written, and every spelled integer is
\* read exactly or, if it fits no type, as a double; whatever the width of the types and
\* however many digits there are.
THEOREM IntegersExact == TextsSpec => []IntegersAreExact
<1>1. TextsInit => IntegersInv
  BY IntegersInit
<1>2. IntegersInv /\ [TextsNext]_<<vars, textVars>> => IntegersInv'
  BY IntegersNext
<1>3. IntegersInv => IntegersAreExact
  BY IntegersSaid
<1> QED
  BY <1>1, <1>2, <1>3, PTL DEF TextsSpec

-----------------------------------------------------------------------------
(* Digits that do not fit.                                                 *)

LEMMA PowersOfTen ==
  /\ PowerOfTen(0) = 1
  /\ \A n \in Nat : PowerOfTen(n) \in Nat \ {0} /\ PowerOfTen(n + 1) = 10 * PowerOfTen(n)
<1> DEFINE Zeros(n) == [i \in 1 .. n + 1 |-> IF i = 1 THEN 1 ELSE 0]
<1>1. ASSUME NEW n \in Nat
      PROVE  Zeros(n) \in Seq(Digit) /\ PowerOfTen(n) = Value(Zeros(n))
  <2>1. Zeros(n) \in Seq(Digit)
    BY DEF Digit
  <2> HIDE DEF Zeros
  <2>2. ValueOf(Zeros(n)) = Value(Zeros(n))
    BY <2>1, ValueOfIs
  <2> QED
    BY <2>1, <2>2 DEF PowerOfTen, Zeros
<1>2. PowerOfTen(0) = 1
  <2>1. 1 \in Digit
    BY DEF Digit
  <2>2. Zeros(0) = <<1>>
    OBVIOUS
  <2>3. Value(<<1>>) = 1
    BY <2>1, ValueOfOne
  <2> QED
    BY <1>1, <2>2, <2>3
<1>3. ASSUME NEW n \in Nat
      PROVE  PowerOfTen(n + 1) = 10 * PowerOfTen(n)
  <2>1. 0 \in Digit /\ n + 1 \in Nat
    BY DEF Digit
  <2>2. Zeros(n + 1) = Append(Zeros(n), 0)
    <3>1. Len(Zeros(n)) = n + 1
      OBVIOUS
    <3>2. PICK z : z = Zeros(n)
      OBVIOUS
    <3>3. z \in Seq(Digit) /\ Len(z) = n + 1 /\ \A i \in 1 .. n + 1 : z[i] = IF i = 1 THEN 1 ELSE 0
      BY <1>1, <3>1, <3>2
    <3>4. PICK y : y = Zeros(n + 1)
      OBVIOUS
    <3>5. y \in Seq(Digit) /\ Len(y) = n + 2 /\ \A i \in 1 .. n + 2 : y[i] = IF i = 1 THEN 1 ELSE 0
      <4>1. Len(Zeros(n + 1)) = n + 2 /\ \A i \in 1 .. n + 2 : Zeros(n + 1)[i] = IF i = 1 THEN 1 ELSE 0
        OBVIOUS
      <4>2. Zeros(n + 1) \in Seq(Digit)
        BY <1>1, <2>1
      <4> HIDE DEF Zeros
      <4> QED
        BY <3>4, <4>1, <4>2
    <3>6. PICK a : a = Append(z, 0)
      OBVIOUS
    <3>7. /\ a \in Seq(Digit) /\ Len(a) = n + 2
          /\ \A i \in 1 .. n + 1 : a[i] = z[i]
          /\ a[n + 2] = 0
      <4>1. OneMore(z, 0)
        BY <2>1, <3>3, OneMoreDigit
      <4>2. Len(z) + 1 = n + 2
        BY <3>3
      <4> QED
        BY <3>3, <3>6, <4>1, <4>2 DEF OneMore
    <3>8. \A i \in 1 .. Len(a) : a[i] = y[i]
      <4>1. ASSUME NEW i \in 1 .. n + 2
            PROVE  a[i] = y[i]
        <5>1. CASE i = n + 2
          BY <3>5, <3>7, <5>1
        <5>2. CASE i # n + 2
          <6>1. i \in 1 .. n + 1
            BY <5>2
          <6> QED
            BY <3>3, <3>5, <3>7, <6>1
        <5> QED
          BY <5>1, <5>2
      <4> QED
        BY <3>7, <4>1
    <3>9. a = y
      <4> HIDE DEF Zeros
      <4> QED
        BY <3>5, <3>7, <3>8, SeqEqual
    <3> QED
      BY <3>2, <3>4, <3>6, <3>9
  <2>3. Value(Append(Zeros(n), 0)) = 10 * Value(Zeros(n)) + 0
    <3> HIDE DEF Zeros
    <3> QED
      BY <1>1, <2>1, ValueOfMore
  <2>4. Value(Zeros(n)) \in Nat
    <3> HIDE DEF Zeros
    <3> QED
      BY <1>1, ValuesOfIs
  <2> HIDE DEF Zeros
  <2>5. PowerOfTen(n + 1) = Value(Append(Zeros(n), 0))
    BY <1>1, <2>1, <2>2
  <2>6. PowerOfTen(n) = Value(Zeros(n))
    BY <1>1
  <2>7. PICK x \in Nat : x = Value(Zeros(n))
    BY <2>4
  <2>8. PowerOfTen(n + 1) = 10 * x + 0 /\ PowerOfTen(n) = x
    BY <2>3, <2>5, <2>6, <2>7
  <2> QED
    BY <2>8
<1> HIDE DEF Zeros
<1> DEFINE T == {n \in Nat : PowerOfTen(n) \in Nat \ {0}}
<1>4. 0 \in T
  BY <1>2
<1>5. ASSUME NEW n \in T
      PROVE  n + 1 \in T
  BY <1>3
<1>6. T = Nat
  <2> HIDE DEF T
  <2>1. T \in SUBSET Nat
    BY DEF T
  <2> QED
    BY <1>4, <1>5, <2>1, Induction
<1> QED
  BY <1>2, <1>3, <1>6

\* How a significand s, with k digits left out, stands to the value v of all digits: it is not
\* more, and less by less than one in its last place; or, if a digit was taken after
\* others were left out, by less than ten, and v is that much larger.
ScaledSo(v, s, k) ==
  /\ v \in Nat /\ s \in 0 .. MaxUnsigned /\ k \in Nat
  /\ s * PowerOfTen(k) <= v
  /\ k = 0 => v = s
  /\ k > 0 => (MaxUnsigned + 1) * PowerOfTen(k - 1) <= v
  /\ \/ v + 1 <= (s + 1) * PowerOfTen(k)
     \/ v + 1 <= (s + 10) * PowerOfTen(k) /\ (MaxUnsigned + 1) * PowerOfTen(k) <= v

LEMMA WidthIs == MaxUnsigned \in Nat /\ MaxUnsigned >= 19
BY WidthAssumption

LEMMA Scales ==
  ASSUME NEW a \in Int, NEW b \in Int, NEW p \in Nat, a <= b
  PROVE  a * p <= b * p
OBVIOUS

LEMMA TenTimes ==
  ASSUME NEW a \in Int, NEW p \in Int
  PROVE  a * (10 * p) = 10 * (a * p) /\ (10 * a) * p = 10 * (a * p) /\ a * p \in Int
OBVIOUS

LEMMA DigitLeftOut ==
  ASSUME NEW v, NEW s, NEW k, ScaledSo(v, s, k), NEW d \in Digit,
         k = 0 => 10 * s + d > MaxUnsigned
  PROVE  ScaledSo(10 * v + d, s, k + 1)
<1>1. /\ v \in Nat /\ s \in Nat /\ s <= MaxUnsigned /\ k \in Nat /\ d \in 0 .. 9
      /\ s * PowerOfTen(k) <= v
      /\ k = 0 => v = s
      /\ k > 0 => (MaxUnsigned + 1) * PowerOfTen(k - 1) <= v
      /\ \/ v + 1 <= (s + 1) * PowerOfTen(k)
         \/ v + 1 <= (s + 10) * PowerOfTen(k) /\ (MaxUnsigned + 1) * PowerOfTen(k) <= v
  BY WidthIs DEF ScaledSo, Digit
<1>2. PICK p \in Nat : p = PowerOfTen(k) /\ PowerOfTen(k + 1) = 10 * p
  BY <1>1, PowersOfTen
<1>3. PICK m \in Nat : m = MaxUnsigned + 1
  BY WidthIs
<1>4. /\ s * (10 * p) = 10 * (s * p) /\ (s + 1) * (10 * p) = 10 * ((s + 1) * p)
      /\ (s + 10) * (10 * p) = 10 * ((s + 10) * p) /\ m * (10 * p) = 10 * (m * p)
      /\ s * p \in Int /\ (s + 1) * p \in Int /\ (s + 10) * p \in Int /\ m * p \in Int
  BY <1>1, TenTimes
<1>5. s * PowerOfTen(k + 1) <= 10 * v + d
  BY <1>1, <1>2, <1>4
<1>6. (k + 1) - 1 = k /\ m * PowerOfTen(k) <= 10 * v + d
  <2>1. CASE k = 0
    <3>1. p = 1 /\ m * p = m /\ v = s
      BY <1>1, <1>2, <2>1, PowersOfTen
    <3> QED
      BY <1>1, <1>2, <1>3, <2>1, <3>1, WidthIs
  <2>2. CASE k > 0
    <3>1. k - 1 \in Nat
      BY <1>1, <2>2
    <3>2. PICK q \in Nat : q = PowerOfTen(k - 1)
      BY <3>1, PowersOfTen
    <3>3. p = 10 * q
      <4>1. (k - 1) + 1 = k
        BY <1>1
      <4> QED
        BY <1>2, <3>1, <3>2, <4>1, PowersOfTen
    <3>4. m * (10 * q) = 10 * (m * q) /\ m * q \in Int
      BY TenTimes
    <3>5. m * q <= v
      BY <1>1, <1>3, <2>2, <3>2
    <3> QED
      BY <1>1, <1>2, <3>3, <3>4, <3>5
  <2> QED
    BY <1>1, <2>1, <2>2
<1>7. CASE v + 1 <= (s + 1) * p
  <2>1. 10 * v + d + 1 <= (s + 1) * PowerOfTen(k + 1)
    BY <1>1, <1>2, <1>4, <1>7
  <2> QED
    BY <1>1, <1>3, <1>5, <1>6, <2>1, WidthIs DEF ScaledSo
<1>8. CASE v + 1 <= (s + 10) * p /\ m * p <= v
  <2>1. 10 * v + d + 1 <= (s + 10) * PowerOfTen(k + 1) /\ m * PowerOfTen(k + 1) <= 10 * v + d
    BY <1>1, <1>2, <1>4, <1>8
  <2> QED
    BY <1>1, <1>3, <1>5, <1>6, <2>1, WidthIs DEF ScaledSo
<1> QED
  BY <1>1, <1>2, <1>3, <1>7, <1>8

LEMMA DigitTaken ==
  ASSUME NEW v, NEW s, NEW k, ScaledSo(v, s, k), NEW d \in Digit, 10 * s + d <= MaxUnsigned
  PROVE  ScaledSo(10 * v + d, 10 * s + d, k)
<1>1. /\ v \in Nat /\ s \in Nat /\ s <= MaxUnsigned /\ k \in Nat /\ d \in 0 .. 9
      /\ s * PowerOfTen(k) <= v
      /\ k = 0 => v = s
      /\ k > 0 => (MaxUnsigned + 1) * PowerOfTen(k - 1) <= v
      /\ \/ v + 1 <= (s + 1) * PowerOfTen(k)
         \/ v + 1 <= (s + 10) * PowerOfTen(k) /\ (MaxUnsigned + 1) * PowerOfTen(k) <= v
  BY WidthIs DEF ScaledSo, Digit
<1>2. PICK p \in Nat \ {0} : p = PowerOfTen(k)
  BY <1>1, PowersOfTen
<1>3. PICK m \in Nat : m = MaxUnsigned + 1
  BY WidthIs
<1>4. CASE k = 0
  <2>1. p = 1 /\ v = s /\ PowerOfTen(0) = 1
    BY <1>1, <1>2, <1>4, PowersOfTen
  <2>2. PICK x \in Nat : x = 10 * s + d /\ x <= MaxUnsigned
    BY <1>1
  <2>3. x * PowerOfTen(k) = x /\ (x + 1) * PowerOfTen(k) = x + 1
    BY <1>4, <2>1
  <2> QED
    BY <1>1, <1>4, <2>1, <2>2, <2>3, WidthIs DEF ScaledSo
<1>5. CASE k > 0
  <2>1. k - 1 \in Nat
    BY <1>1, <1>5
  <2>2. PICK q \in Nat : q = PowerOfTen(k - 1)
    BY <2>1, PowersOfTen
  <2>3. p = 10 * q
    <3>1. (k - 1) + 1 = k
      BY <1>1
    <3> QED
      BY <1>2, <2>1, <2>2, <3>1, PowersOfTen
  <2>4. m * (10 * q) = 10 * (m * q) /\ m * q \in Int
    BY TenTimes
  <2>5. m * q <= v
    BY <1>1, <1>3, <1>5, <2>2
  <2>6. m * p <= 10 * v /\ m * p \in Int
    BY <1>1, <2>3, <2>4, <2>5
  <2>7. v + 1 <= (s + 1) * p
    <3> SUFFICES ASSUME v + 1 <= (s + 10) * p, m * p <= v
                 PROVE  FALSE
      BY <1>1, <1>2, <1>3
    <3>1. s + 11 <= m
      BY <1>1, <1>3, WidthIs
    <3>2. (s + 10) * p <= m * p
      <4>1. s + 10 \in Int /\ m \in Int /\ p \in Nat /\ s + 10 <= m
        BY <1>1, <3>1
      <4> QED
        BY <4>1, Scales
    <3>3. (s + 10) * p \in Int
      BY <1>1
    <3> QED
      BY <1>1, <2>6, <3>2, <3>3
  <2>8. PICK x \in Nat : x = 10 * s + d /\ x <= MaxUnsigned
    BY <1>1
  <2>9. x * p <= m * p /\ x * p \in Int
    <3>1. x \in Int /\ m \in Int /\ p \in Nat /\ x <= m
      BY <1>3, <2>8, WidthIs
    <3> QED
      BY <3>1, Scales
  <2>10. 10 * v + d + 1 <= (x + 10) * p
    <3>1. (10 * (s + 1)) * p = 10 * ((s + 1) * p) /\ (s + 1) * p \in Int
      <4>1. s + 1 \in Int /\ p \in Int
        BY <1>1
      <4> QED
        BY <4>1, TenTimes
    <3>2. (10 * (s + 1)) * p <= (x + 10) * p /\ (x + 10) * p \in Int
      <4>1. 10 * (s + 1) \in Int /\ x + 10 \in Int /\ p \in Nat /\ 10 * (s + 1) <= x + 10
        BY <1>1, <2>8
      <4> QED
        BY <4>1, Scales
    <3> QED
      BY <1>1, <2>7, <3>1, <3>2
  <2>11. m * q <= 10 * v + d
    BY <1>1, <2>4, <2>5
  <2>12. x * p <= 10 * v + d /\ m * p <= 10 * v + d
    BY <1>1, <2>6, <2>9
  <2>13. x \in 0 .. MaxUnsigned /\ 10 * v + d \in Nat
    BY <1>1, <2>8, WidthIs
  <2> QED
    BY <1>1, <1>2, <1>3, <1>5, <2>2, <2>8, <2>10, <2>11, <2>12, <2>13 DEF ScaledSo
<1> QED
  BY <1>1, <1>4, <1>5

\* What that says of the significand.
LEMMA ScaledIsClose ==
  ASSUME NEW v, NEW s, NEW k, ScaledSo(v, s, k)
  PROVE  /\ s * PowerOfTen(k) <= v
         /\ (v - s * PowerOfTen(k)) * ((MaxUnsigned - 9) \div 10) <= v
         /\ v <= MaxUnsigned => s * PowerOfTen(k) = v
<1>1. /\ v \in Nat /\ s \in Nat /\ s <= MaxUnsigned /\ k \in Nat
      /\ s * PowerOfTen(k) <= v
      /\ k = 0 => v = s
      /\ k > 0 => (MaxUnsigned + 1) * PowerOfTen(k - 1) <= v
      /\ \/ v + 1 <= (s + 1) * PowerOfTen(k)
         \/ v + 1 <= (s + 10) * PowerOfTen(k) /\ (MaxUnsigned + 1) * PowerOfTen(k) <= v
  BY WidthIs DEF ScaledSo
<1>2. PICK p \in Nat \ {0} : p = PowerOfTen(k)
  BY <1>1, PowersOfTen
<1>3. PICK m \in Nat : m = MaxUnsigned + 1 /\ m >= 20
  BY WidthIs
<1>4. PICK f \in Nat : f = (MaxUnsigned - 9) \div 10 /\ 10 * f + 10 <= m
  <2>1. PICK x \in Nat : x = MaxUnsigned - 9 /\ x + 10 = m
    BY <1>3, WidthIs
  <2>2. x \div 10 \in Nat /\ 10 * (x \div 10) <= x
    OBVIOUS
  <2> QED
    BY <2>1, <2>2
<1>5. PICK r \in Int : r = s * p
  BY <1>1
<1>6. CASE k = 0
  <2>1. p = 1 /\ v = s
    BY <1>1, <1>2, <1>6, PowersOfTen
  <2>2. r = v
    BY <1>1, <1>5, <2>1
  <2>3. (v - r) * f = 0
    BY <1>1, <2>2
  <2> QED
    BY <1>1, <1>2, <1>4, <1>5, <2>2, <2>3
<1>7. CASE k > 0
  <2>1. k - 1 \in Nat
    BY <1>1, <1>7
  <2>2. PICK q \in Nat \ {0} : q = PowerOfTen(k - 1)
    BY <2>1, PowersOfTen
  <2>3. p = 10 * q
    <3>1. (k - 1) + 1 = k
      BY <1>1
    <3> QED
      BY <1>2, <2>1, <2>2, <3>1, PowersOfTen
  <2>4. m * q <= v /\ m * q \in Int
    BY <1>1, <1>3, <1>7, <2>2
  <2>5. v > MaxUnsigned
    <3>1. m * 1 <= m * q
      OBVIOUS
    <3> QED
      BY <1>1, <1>3, <2>4, <3>1, WidthIs
  <2>6. PICK e \in Nat : e = v - r
    BY <1>1, <1>2, <1>5
  <2>7. e * f <= v
    <3>1. CASE v + 1 <= (s + 1) * p
      <4>1. (s + 1) * p = r + p
        BY <1>1, <1>5
      <4>2. e <= p
        BY <1>1, <2>6, <3>1, <4>1
      <4>3. e * f <= p * f
        BY <4>2, Scales
      <4>4. p * f = (10 * q) * f /\ (10 * q) * f = (10 * f) * q
        BY <2>3
      <4>5. (10 * f) * q <= m * q
        <5>1. 10 * f \in Int /\ 10 * f <= m
          BY <1>4
        <5> QED
          BY <5>1, Scales
      <4> QED
        BY <1>1, <2>4, <4>3, <4>4, <4>5
    <3>2. CASE v + 1 <= (s + 10) * p /\ m * p <= v
      <4>1. (s + 10) * p = r + 10 * p
        BY <1>1, <1>5
      <4>2. e <= 10 * p
        BY <1>1, <2>6, <3>2, <4>1
      <4>3. e * f <= (10 * p) * f
        BY <4>2, Scales
      <4>4. (10 * p) * f = (10 * f) * p
        OBVIOUS
      <4>5. (10 * f) * p <= m * p
        <5>1. 10 * f \in Int /\ 10 * f <= m
          BY <1>4
        <5> QED
          BY <5>1, Scales
      <4>6. m * p \in Int /\ (10 * f) * p \in Int /\ e * f \in Int
        OBVIOUS
      <4> QED
        BY <1>1, <3>2, <4>3, <4>4, <4>5, <4>6
    <3> QED
      BY <1>1, <1>2, <1>3, <3>1, <3>2
  <2> QED
    BY <1>1, <1>2, <1>4, <1>5, <2>5, <2>6, <2>7, WidthIs
<1> QED
  BY <1>1, <1>6, <1>7

\* A significand never leaves its type, and is full only where one digit more may not fit.
SaturatesAt(a, max) ==
  /\ a.value \in 0 .. max
  /\ a.full => a.value > (max - 9) \div 10

LEMMA AccumulateSaturates ==
  ASSUME NEW digits \in Seq(Digit), NEW max \in Nat, max >= 9
  PROVE  SaturatesAt(Accumulate(0, digits, max), max)
<1>1. PICK r \in [0 .. Len(digits) -> Accumulator] :
        Chain(r, AccumulateF(max), StartAt(0), digits) /\ Accumulate(0, digits, max) = r[Len(digits)]
  BY AccumulateIs
<1> DEFINE T == {k \in Nat : SaturatesAt(r[k], max)}
<1>2. 0 \in T
  BY <1>1 DEF Chain, StartAt, SaturatesAt
<1>3. ASSUME NEW k \in 0 .. Len(digits) - 1, k \in T
      PROVE  k + 1 \in T
  <2>1. k \in Nat /\ k + 1 \in Nat /\ k \in 0 .. Len(digits) /\ k + 1 \in 1 .. Len(digits)
    OBVIOUS
  <2>2. PICK d \in Digit, b \in Accumulator : d = digits[k + 1] /\ b = r[k]
    <3>1. digits[k + 1] \in Digit /\ r[k] \in Accumulator
      BY <2>1
    <3> QED
      BY <3>1
  <2>3. r[k + 1] = AfterDigit(b, d, max)
    <3>1. r[k + 1] = AccumulateF(max)[<<b, d>>]
      BY <1>1, <2>2 DEF Chain
    <3> QED
      BY <3>1 DEF AccumulateF
  <2>4. SaturatesAt(b, max)
    BY <1>3, <2>2
  <2>5. b.value \in 0 .. max /\ (b.full => b.value > (max - 9) \div 10) /\ d \in 0 .. 9
    BY <2>4 DEF SaturatesAt, Digit
  <2>6. CASE b.full
    <3>1. r[k + 1].value = b.value
      BY <2>2, <2>3, <2>6 DEF AfterDigit, Accumulator
    <3> QED
      BY <2>1, <2>5, <2>6, <3>1 DEF SaturatesAt
  <2>7. CASE ~ b.full /\ Overflows(b.value, d, max)
    <3>1. r[k + 1].value = b.value
      BY <2>2, <2>3, <2>7 DEF AfterDigit, Accumulator
    <3>2. b.value > (max - d) \div 10
      BY <2>7 DEF Overflows
    <3>3. (max - 9) \div 10 <= (max - d) \div 10
      <4>1. PICK x \in Nat, y \in Nat : x = max - 9 /\ y = max - d /\ x <= y
        BY <2>5
      <4>2. x \div 10 <= y \div 10
        BY <4>1
      <4> QED
        BY <4>1, <4>2
    <3>4. (max - 9) \div 10 \in Int /\ (max - d) \div 10 \in Int
      BY <2>5
    <3>5. b.value > (max - 9) \div 10
      BY <2>5, <3>2, <3>3, <3>4
    <3> QED
      BY <2>1, <2>5, <3>1, <3>5 DEF SaturatesAt
  <2>8. CASE ~ b.full /\ ~ Overflows(b.value, d, max)
    <3>1. r[k + 1] = [value |-> b.value * 10 + d, used |-> b.used + 1, full |-> FALSE]
      BY <2>3, <2>8 DEF AfterDigit
    <3>2. b.value * 10 + d \in 0 .. max
      <4>1. ~ (b.value * 10 + d > max)
        BY <2>5, <2>8, OverflowsExactly
      <4> QED
        BY <2>5, <4>1
    <3> QED
      BY <2>1, <3>1, <3>2 DEF SaturatesAt
  <2> QED
    BY <2>6, <2>7, <2>8
<1>4. Len(digits) \in T
  <2>0. Len(digits) \in Nat
    OBVIOUS
  <2> HIDE DEF T
  <2>1. \A k \in 0 .. Len(digits) : k \in T
    BY <1>2, <1>3, <2>0, InductionUpTo
  <2> QED
    BY <2>1
<1> QED
  BY <1>1, <1>4

\* How many digits of those there are an accumulator left out.
Unused(n, a) == n - a.used

\* Further digits leave the significand as close to the value as it was.
LEMMA AccumulateScaled ==
  ASSUME NEW s, NEW digits \in Seq(Digit), NEW v \in [0 .. Len(digits) -> Nat],
         \A j \in 0 .. Len(digits) - 1 : v[j + 1] = 10 * v[j] + digits[j + 1],
         NEW k, ScaledSo(v[0], s, k),
         NEW a, a = Accumulate(s, digits, MaxUnsigned)
  PROVE  /\ a.used \in 0 .. Len(digits)
         /\ ScaledSo(v[Len(digits)], a.value, k + Unused(Len(digits), a))
<1>1. s \in Nat /\ k \in Nat
  BY WidthIs DEF ScaledSo
<1>2. PICK r \in [0 .. Len(digits) -> Accumulator] :
        /\ Chain(r, AccumulateF(MaxUnsigned), StartAt(s), digits)
        /\ Accumulate(s, digits, MaxUnsigned) = r[Len(digits)]
  BY <1>1, AccumulateIs
<1> DEFINE T == {j \in Nat : /\ r[j].used \in 0 .. j
                             /\ r[j].full => r[j].used < j
                             /\ ScaledSo(v[j], r[j].value, k + (j - r[j].used))}
<1>3. 0 \in T
  <2>1. r[0] = [value |-> s, used |-> 0, full |-> FALSE]
    BY <1>2 DEF Chain, StartAt
  <2>2. k + (0 - 0) = k
    BY <1>1
  <2> QED
    BY <2>1, <2>2
<1>4. ASSUME NEW j \in 0 .. Len(digits) - 1, j \in T
      PROVE  j + 1 \in T
  <2>1. j \in Nat /\ j + 1 \in Nat /\ j \in 0 .. Len(digits) /\ j + 1 \in 1 .. Len(digits)
    OBVIOUS
  <2>2. PICK d \in Digit, b \in Accumulator : d = digits[j + 1] /\ b = r[j]
    <3>1. digits[j + 1] \in Digit /\ r[j] \in Accumulator
      BY <2>1
    <3> QED
      BY <3>1
  <2>3. r[j + 1] = AfterDigit(b, d, MaxUnsigned)
    <3>1. r[j + 1] = AccumulateF(MaxUnsigned)[<<b, d>>]
      BY <1>2, <2>2 DEF Chain
    <3> QED
      BY <3>1 DEF AccumulateF
  <2>4. PICK x \in Nat : x = v[j] /\ v[j + 1] = 10 * x + d
    BY <2>1, <2>2
  <2>5. PICK u \in Nat, y \in Nat : u = b.used /\ y = b.value
    BY DEF Accumulator
  <2>6. u \in 0 .. j /\ (b.full => u < j) /\ ScaledSo(x, y, k + (j - u))
    BY <1>4, <2>2, <2>4, <2>5
  <2>7. PICK m \in Nat : m = k + (j - u) /\ (j + 1) - u \in Nat /\ k + ((j + 1) - u) = m + 1
                         /\ k + ((j + 1) - (u + 1)) = m
    BY <1>1, <2>1, <2>6
  <2>8. y \in 0 .. MaxUnsigned /\ d \in 0 .. 9
    BY <2>6 DEF ScaledSo, Digit
  <2>9. Overflows(y, d, MaxUnsigned) <=> 10 * y + d > MaxUnsigned
    <3>1. MaxUnsigned \in Nat /\ MaxUnsigned >= 9
      BY WidthIs
    <3>2. Overflows(y, d, MaxUnsigned) <=> y * 10 + d > MaxUnsigned
      BY <2>8, <3>1, OverflowsExactly
    <3> QED
      BY <2>8, <3>2
  <2>10. CASE b.full \/ Overflows(y, d, MaxUnsigned)
    <3>1. r[j + 1].value = y /\ r[j + 1].used = u
      BY <2>2, <2>3, <2>5, <2>10 DEF AfterDigit, Accumulator
    <3>2. m = 0 => 10 * y + d > MaxUnsigned
      <4>1. b.full => m > 0
        BY <1>1, <2>1, <2>6, <2>7
      <4> QED
        BY <2>9, <2>10, <4>1
    <3>3. ScaledSo(10 * x + d, y, m + 1)
      BY <2>6, <2>7, <3>2, DigitLeftOut
    <3>4. u \in 0 .. j + 1 /\ u < j + 1
      BY <2>1, <2>6
    <3> QED
      BY <2>1, <2>4, <2>7, <3>1, <3>3, <3>4
  <2>11. CASE ~ (b.full \/ Overflows(y, d, MaxUnsigned))
    <3>1. r[j + 1] = [value |-> y * 10 + d, used |-> u + 1, full |-> FALSE]
      BY <2>3, <2>5, <2>11 DEF AfterDigit
    <3>2. y * 10 + d = 10 * y + d /\ 10 * y + d <= MaxUnsigned
      BY <2>8, <2>9, <2>11, WidthIs
    <3>3. ScaledSo(10 * x + d, 10 * y + d, m)
      BY <2>6, <2>7, <3>2, DigitTaken
    <3>4. u + 1 \in 0 .. j + 1
      BY <2>1, <2>6
    <3>5. r[j + 1].value = 10 * y + d /\ r[j + 1].used = u + 1 /\ r[j + 1].full = FALSE
      BY <3>1, <3>2
    <3>6. ScaledSo(v[j + 1], r[j + 1].value, k + ((j + 1) - r[j + 1].used))
      BY <2>4, <2>7, <3>3, <3>5
    <3> QED
      BY <2>1, <3>4, <3>5, <3>6
  <2> QED
    BY <2>10, <2>11
<1>5. Len(digits) \in T
  <2>0. Len(digits) \in Nat
    OBVIOUS
  <2> HIDE DEF T
  <2>1. \A j \in 0 .. Len(digits) : j \in T
    BY <1>3, <1>4, <2>0, InductionUpTo
  <2> QED
    BY <2>1
<1> QED
  BY <1>2, <1>5 DEF Unused

\* The significand of a number, with the digits of it that were left out.
SignificandSo(whole, fraction) ==
  \E k \in 0 .. Len(whole) + Len(fraction) :
    /\ LeftOut(whole, fraction) = k - Len(fraction)
    /\ LeftOut(whole, fraction) \in - Len(fraction) .. Len(whole)
    /\ ScaledSo(Value(whole \o fraction), Significand(whole, fraction).value, k)

LEMMA SignificandScaled ==
  ASSUME NEW whole \in Seq(Digit), NEW fraction \in Seq(Digit)
  PROVE  SignificandSo(whole, fraction)
<1>1. PICK n \in Nat, m \in Nat : n = Len(whole) /\ m = Len(fraction)
  OBVIOUS
<1>2. PICK all \in Seq(Digit) : all = whole \o fraction
  BY ConcatProperties
<1>3. /\ Len(all) = n + m
      /\ \A i \in 1 .. n : all[i] = whole[i]
      /\ \A i \in 1 .. m : all[n + i] = fraction[i]
  BY <1>1, <1>2
<1>4. PICK z : z = ValuesOf(all)
  OBVIOUS
<1>5. /\ z \in [0 .. n + m -> Nat] /\ z[0] = 0 /\ z[n + m] = Value(all)
      /\ \A j \in 0 .. n + m - 1 : z[j + 1] = 10 * z[j] + all[j + 1]
  <2>1. z[Len(all)] = Value(all)
    BY <1>4 DEF Value
  <2>2. PICK len \in Nat : len = Len(all) /\ len = n + m
    BY <1>3
  <2>3. /\ z \in [0 .. len -> Nat] /\ z[0] = 0
        /\ \A j \in 0 .. len - 1 : z[j + 1] = 10 * z[j] + all[j + 1]
    BY <1>4, <2>2, ValuesOfIs
  <2> QED
    BY <2>1, <2>2, <2>3
<1> DEFINE v == [j \in 0 .. n |-> z[j]]
           y == [j \in 0 .. m |-> z[n + j]]
           w == Accumulate(0, whole, MaxUnsigned)
           f == Accumulate(w.value, fraction, MaxUnsigned)
<1>6. /\ v \in [0 .. n -> Nat] /\ v[0] = 0 /\ v[n] = z[n]
      /\ \A j \in 0 .. n - 1 : v[j + 1] = 10 * v[j] + whole[j + 1]
  <2>1. \A j \in 0 .. n : j \in 0 .. n + m
    OBVIOUS
  <2>2. ASSUME NEW j \in 0 .. n - 1
        PROVE  v[j + 1] = 10 * v[j] + whole[j + 1]
    <3>1. j \in 0 .. n /\ j + 1 \in 0 .. n /\ j + 1 \in 1 .. n /\ j \in 0 .. n + m - 1
      OBVIOUS
    <3> QED
      BY <1>3, <1>5, <3>1
  <2>3. n \in 0 .. n /\ 0 \in 0 .. n
    OBVIOUS
  <2>4. v[0] = 0 /\ v[n] = z[n]
    BY <1>5, <2>3
  <2>5. v \in [0 .. n -> Nat]
    BY <1>5, <2>1
  <2> HIDE DEF v
  <2> QED
    BY <2>2, <2>4, <2>5
<1>7. /\ y \in [0 .. m -> Nat] /\ y[0] = z[n] /\ y[m] = z[n + m]
      /\ \A j \in 0 .. m - 1 : y[j + 1] = 10 * y[j] + fraction[j + 1]
  <2>1. \A j \in 0 .. m : n + j \in 0 .. n + m
    OBVIOUS
  <2>2. ASSUME NEW j \in 0 .. m - 1
        PROVE  y[j + 1] = 10 * y[j] + fraction[j + 1]
    <3>1. j \in 0 .. m /\ j + 1 \in 0 .. m /\ j + 1 \in 1 .. m /\ n + j \in 0 .. n + m - 1
          /\ n + (j + 1) = (n + j) + 1
      OBVIOUS
    <3>2. z[(n + j) + 1] = 10 * z[n + j] + all[(n + j) + 1]
      BY <1>5, <3>1
    <3>3. all[(n + j) + 1] = fraction[j + 1]
      BY <1>3, <3>1
    <3> QED
      BY <3>1, <3>2, <3>3
  <2>3. n + 0 = n /\ 0 \in 0 .. m /\ m \in 0 .. m
    OBVIOUS
  <2>4. y[0] = z[n] /\ y[m] = z[n + m]
    BY <2>3
  <2>5. y \in [0 .. m -> Nat]
    BY <1>5, <2>1
  <2> HIDE DEF y
  <2> QED
    BY <2>2, <2>4, <2>5
<1> HIDE DEF v, y, w, f
<1>8. ScaledSo(v[0], 0, 0)
  <2>1. 0 * PowerOfTen(0) <= 0 /\ 0 + 1 <= (0 + 1) * PowerOfTen(0)
    <3>1. PICK one \in Nat : one = PowerOfTen(0) /\ one = 1
      BY PowersOfTen
    <3>2. 0 * one <= 0 /\ 0 + 1 <= (0 + 1) * one
      BY <3>1
    <3> QED
      BY <3>1, <3>2
  <2> QED
    BY <1>6, <2>1, WidthIs DEF ScaledSo
<1>9. w.used \in 0 .. n /\ ScaledSo(v[n], w.value, 0 + Unused(n, w))
  BY <1>1, <1>6, <1>8, AccumulateScaled DEF w
<1>10. f.used \in 0 .. m /\ ScaledSo(y[m], f.value, (0 + Unused(n, w)) + Unused(m, f))
  BY <1>1, <1>6, <1>7, <1>9, AccumulateScaled DEF f
<1>11. PICK i \in 0 .. n, j \in 0 .. m : i = w.used /\ j = f.used
  BY <1>9, <1>10
<1>12. PICK k \in 0 .. n + m : k = (n - i) + (m - j)
  OBVIOUS
<1>13. ScaledSo(Value(all), f.value, k)
  <2>1. (0 + Unused(n, w)) + Unused(m, f) = k
    BY <1>11, <1>12 DEF Unused
  <2> QED
    BY <1>5, <1>7, <1>10, <2>1
<1>14. LeftOut(whole, fraction) = (n - i) - j /\ Significand(whole, fraction) = f
  BY <1>1, <1>11 DEF LeftOut, Significand, Skipped, w, f
<1>15. (n - i) - j = k - m /\ (n - i) - j \in - m .. n
  BY <1>12
<1> QED
  BY <1>1, <1>2, <1>13, <1>14, <1>15 DEF SignificandSo

\* An exponent is added exactly if there is room for one more digit in it, and else stays on
\* its side.
Room == (MaxSigned - 9) \div 10

ExponentAdded(e, x, p) ==
  LET sum == ReadExponent(e, p).sum
  IN  /\ x \in - Room .. Room => sum = p + x
      /\ x > Room => sum \in Room + p .. MaxSigned
      /\ x < - Room => sum \in MinSigned .. p - Room

LEMMA ExponentAdds ==
  ASSUME NEW x \in Int, NEW e, ExponentSays(e, x),
         NEW p \in - (MaxSigned \div 2) .. MaxSigned \div 2
  PROVE  ExponentAdded(e, x, p)
<1>1. MaxSigned \in Nat /\ MaxSigned >= 9
  BY WidthAssumption
<1>2. PICK h \in Nat : h = MaxSigned \div 2 /\ h + h <= MaxSigned
  <2>1. MaxSigned \div 2 \in Nat /\ 2 * (MaxSigned \div 2) <= MaxSigned
    BY <1>1
  <2> QED
    BY <2>1
<1>3. PICK r \in Nat : r = Room /\ 10 * r + 9 <= MaxSigned
  <2>1. PICK y \in Nat : y = MaxSigned - 9 /\ y + 9 = MaxSigned
    BY <1>1
  <2>2. y \div 10 \in Nat /\ 10 * (y \div 10) <= y
    OBVIOUS
  <2> QED
    BY <2>1, <2>2 DEF Room
<1>4. p \in - h .. h /\ p \in Int
  BY <1>2
<1>5. CASE e = <<>> /\ x = 0
  <2>1. ~ StartsIn(e, ExponentSigns)
    BY <1>5 DEF StartsIn
  <2>2. ReadExponent(e, p).sum = p
    BY <2>1 DEF ReadExponent
  <2>3. p = p + 0
    BY <1>4
  <2>4. x \in - r .. r /\ ~ (x > r) /\ ~ (x < - r)
    BY <1>5
  <2> QED
    BY <1>3, <1>5, <2>2, <2>3, <2>4 DEF ExponentAdded
<1>6. ASSUME NEW m, NEW g, NEW digits, ExponentParts(e, m, g, digits),
             Value(digits) = (IF x < 0 THEN - x ELSE x), Negative(g) <=> x < 0
      PROVE  ExponentAdded(e, x, p)
  <2>1. digits \in Seq(Digit)
    BY <1>6 DEF ExponentParts
  <2>2. PICK a : a = Accumulate(0, digits, MaxSigned)
    OBVIOUS
  <2>3. SaturatesAt(a, MaxSigned)
    BY <1>1, <2>1, <2>2, AccumulateSaturates
  <2>4. PICK y \in 0 .. MaxSigned : y = a.value /\ (a.full => y > r)
    BY <1>3, <2>3 DEF SaturatesAt, Room
  <2>5. PICK z \in Nat : z = Value(digits) /\ z = (IF x < 0 THEN - x ELSE x)
    BY <1>6
  <2>6. (z <= MaxSigned => y = z) /\ (z > MaxSigned => y > r)
    BY <1>1, <2>1, <2>2, <2>4, <2>5, AccumulateExactly
  <2>7. PICK sum : sum = AddExponent(p, y, Negative(g)) /\ sum = ReadExponent(e, p).sum
    BY <1>6, <2>2, <2>4, ExponentPartsAreRead
  <2>8. CASE Negative(g)
    <3>1. x < 0 /\ z = - x
      BY <1>6, <2>5, <2>8
    <3>2. sum = IF p >= 0 \/ y <= MaxSigned + p + 1 THEN p - y ELSE MinSigned
      BY <2>7, <2>8 DEF AddExponent
    <3>3. x \in - r .. r => sum = p + x
      BY <1>1, <1>2, <1>3, <1>4, <2>4, <2>5, <2>6, <3>1, <3>2
    <3>4. x < - r => sum \in MinSigned .. p - r
      BY <1>1, <1>2, <1>3, <1>4, <2>4, <2>5, <2>6, <3>1, <3>2 DEF MinSigned
    <3>5. ~ (x > r)
      BY <3>1
    <3> QED
      BY <1>3, <2>7, <3>3, <3>4, <3>5 DEF ExponentAdded
  <2>9. CASE ~ Negative(g)
    <3>1. x >= 0 /\ z = x
      BY <1>6, <2>5, <2>9
    <3>2. sum = IF p <= 0 \/ y <= MaxSigned - p THEN p + y ELSE MaxSigned
      BY <2>7, <2>9 DEF AddExponent
    <3>3. x \in - r .. r => sum = p + x
      BY <1>1, <1>2, <1>3, <1>4, <2>4, <2>5, <2>6, <3>1, <3>2
    <3>4. x > r => sum \in r + p .. MaxSigned
      BY <1>1, <1>2, <1>3, <1>4, <2>4, <2>5, <2>6, <3>1, <3>2
    <3>5. ~ (x < - r)
      BY <3>1
    <3> QED
      BY <1>3, <2>7, <3>3, <3>4, <3>5 DEF ExponentAdded
  <2> QED
    BY <2>8, <2>9
<1> QED
  BY <1>5, <1>6 DEF ExponentSays

\* A double is what ReadDouble makes of the text.
LEMMA DoubleIsKept ==
  ASSUME NEW t, ReadNumber(t).type = "double"
  PROVE  ReadNumber(t).value = ReadDouble(t)
<1> DEFINE negative == StartsIn(t, {Minus})
           integer  == IF negative THEN ReadSigned(t) ELSE ReadUnsigned(t)
           digits   == DigitsOf(IF negative THEN Tail(t) ELSE t)
           double   == ReadDouble(t)
           refused  == (Len(digits) >= 2 /\ Head(digits) = 0) \/ (digits = <<>> /\ ~negative)
           whole    == /\ integer.length > 0
                       /\ ~StartsIn(From(t, integer.length + 1), ExponentSigns \cup {Period})
<1>1. ReadNumber(t) =
        IF refused THEN [type |-> "refused", length |-> 0]
        ELSE IF whole
          THEN [type |-> IF integer.value <= MaxSigned THEN "signed" ELSE "unsigned",
                length |-> integer.length, value |-> integer.value]
        ELSE IF double.length > 0
          THEN [type |-> "double", length |-> double.length, value |-> double]
        ELSE [type |-> "refused", length |-> 0]
  BY DEF ReadNumber
<1>2. double = ReadDouble(t)
  OBVIOUS
<1> HIDE DEF negative, integer, digits, double, refused, whole
<1>3. CASE refused
  BY <1>1, <1>3
<1>4. CASE ~ refused /\ whole
  <2>1. ReadNumber(t).type \in {"signed", "unsigned"}
    BY <1>1, <1>4
  <2> QED
    BY <2>1
<1>5. CASE ~ refused /\ ~ whole /\ double.length > 0
  BY <1>1, <1>2, <1>5
<1>6. CASE ~ refused /\ ~ whole /\ ~ (double.length > 0)
  BY <1>1, <1>6
<1> QED
  BY <1>3, <1>4, <1>5, <1>6

\* What a number that is read as x must mean.
Means(n, x) ==
  LET digits   == n.whole \o n.fraction
      v        == ValueOf(digits)
      explicit == IF n.exponent = <<>> THEN 0 ELSE n.exponent[1]
      power    == explicit - Len(n.fraction)
      skipped  == x.exponent - power
      read     == x.significand * PowerOfTen(skipped)
      fits     == (MaxSigned - 9) \div 10
  IN  /\ x.negative = n.negative
      /\ IF explicit \in -fits .. fits
           THEN /\ skipped \in 0 .. Len(digits)
                /\ read <= v /\ (v - read) * ((MaxUnsigned - 9) \div 10) <= v
                /\ v <= MaxUnsigned => read = v
           ELSE IF explicit > 0
             THEN x.exponent \in fits - Len(digits) .. MaxSigned
             ELSE x.exponent \in MinSigned .. Len(digits) - fits

LEMMA DoubleMeans ==
  ASSUME NEW n \in Numbers, NEW t \in NumberTexts(n)
  PROVE  Means(n, ReadDouble(t))
<1>1. /\ n.negative \in BOOLEAN
      /\ n.whole \in Seq(Digit) /\ n.whole # <<>> /\ n.fraction \in Seq(Digit)
      /\ n.exponent \in Seq(Int) /\ Len(n.exponent) <= 1
      /\ Len(n.whole) + Len(n.fraction) <= MaxSigned \div 2
  BY NumbersAssumption DEF Digit
<1>2. PICK s, g, f, e :
        /\ NumberText4(t, s, g, n.whole, f, n.fraction, e)
        /\ (s = 1 <=> n.negative) /\ (e = <<>> <=> n.exponent = <<>>)
        /\ ExponentSays(e, ExponentOf(n.exponent))
  BY NumberTextsAre DEF SpelledAs
<1>3. ReadDouble(t) = DoubleOf(t, s, n.whole, n.fraction, e)
  <2>1. FractionText(f, n.fraction) /\ ExponentText(e)
    BY <1>2 DEF NumberText4
  <2>2. PartsFound(t, s, n.whole, f, n.fraction, e)
    BY <1>2, PartsAre
  <2>3. TailSo(f \o e, f, n.fraction, e)
    BY <1>1, <2>1, TailIs
  <2> QED
    BY <1>1, <2>1, <2>2, <2>3, DoubleIsRead
<1>4. PICK explicit : explicit = IF n.exponent = <<>> THEN 0 ELSE n.exponent[1]
  OBVIOUS
<1>5. explicit \in Int /\ ExponentSays(e, explicit)
  <2>1. explicit = ExponentOf(n.exponent)
    BY <1>4 DEF ExponentOf
  <2>2. CASE n.exponent = <<>>
    BY <1>2, <1>4, <2>1, <2>2
  <2>3. CASE n.exponent # <<>>
    <3>1. PICK exponent \in Seq(Int) : exponent = n.exponent /\ exponent # <<>>
      BY <1>1, <2>3
    <3>2. Len(exponent) \in Nat \ {0}
      BY <3>1
    <3>3. exponent[1] \in Int
      BY <3>1, <3>2
    <3>4. n.exponent[1] \in Int
      BY <3>1, <3>3
    <3> QED
      BY <1>2, <1>4, <2>1, <2>3, <3>4
  <2> QED
    BY <2>2, <2>3
<1>6. PICK i \in Nat, j \in Nat : i = Len(n.whole) /\ j = Len(n.fraction)
  BY <1>1
<1>7. PICK digits \in Seq(Digit) : digits = n.whole \o n.fraction /\ Len(digits) = i + j
  <2>1. n.whole \o n.fraction \in Seq(Digit) /\ Len(n.whole \o n.fraction) = i + j
    BY <1>1, <1>6, ConcatProperties
  <2> QED
    BY <2>1
<1>8. PICK v \in Nat : v = ValueOf(digits) /\ v = Value(digits)
  <2>1. ValueOf(digits) = Value(digits)
    BY ValueOfIs
  <2>2. Value(digits) \in Nat
    BY ValuesOfIs
  <2> QED
    BY <2>1, <2>2
<1>9. PICK k \in 0 .. i + j, p \in - j .. i :
        /\ p = LeftOut(n.whole, n.fraction) /\ p = k - j
        /\ ScaledSo(v, Significand(n.whole, n.fraction).value, k)
  <2>1. SignificandSo(n.whole, n.fraction)
    BY <1>1, SignificandScaled
  <2> QED
    BY <1>6, <1>7, <1>8, <2>1 DEF SignificandSo
<1>10. PICK significand, sum :
         /\ significand = Significand(n.whole, n.fraction).value
         /\ sum = ReadExponent(e, p).sum
  OBVIOUS
<1>11. p \in - (MaxSigned \div 2) .. MaxSigned \div 2
  <2>1. PICK h \in Nat : h = MaxSigned \div 2 /\ i + j <= h
    <3>1. MaxSigned \div 2 \in Nat
      BY WidthAssumption
    <3> QED
      BY <1>1, <1>6, <3>1
  <2>2. p \in Int /\ - j <= p /\ p <= i /\ i \in Nat /\ j \in Nat
    OBVIOUS
  <2>3. - h <= p /\ p <= h
    BY <2>1, <2>2
  <2> QED
    BY <2>1, <2>2, <2>3
<1>12. /\ explicit \in - Room .. Room => sum = p + explicit
       /\ explicit > Room => sum \in Room + p .. MaxSigned
       /\ explicit < - Room => sum \in MinSigned .. p - Room
  <2>1. ExponentAdded(e, explicit, p)
    BY <1>5, <1>11, ExponentAdds
  <2> QED
    BY <1>10, <2>1 DEF ExponentAdded
<1>13. PICK room \in Nat : room = Room /\ room = (MaxSigned - 9) \div 10
  <2>1. PICK y \in Nat : y = MaxSigned - 9
    BY WidthAssumption
  <2>2. y \div 10 \in Nat
    OBVIOUS
  <2> QED
    BY <2>1, <2>2 DEF Room
<1>14. PICK x : /\ x = ReadDouble(t) /\ x.negative = (s = 1)
                /\ x.significand = significand /\ x.exponent = sum
  BY <1>3, <1>9, <1>10 DEF DoubleOf
<1>15. x.negative = n.negative
  BY <1>1, <1>2, <1>14
<1>16. PICK skipped : skipped = x.exponent - (explicit - Len(n.fraction))
  OBVIOUS
<1>17. ASSUME explicit \in - room .. room
       PROVE  /\ skipped \in 0 .. Len(digits)
              /\ significand * PowerOfTen(skipped) <= v
              /\ (v - significand * PowerOfTen(skipped)) * ((MaxUnsigned - 9) \div 10) <= v
              /\ v <= MaxUnsigned => significand * PowerOfTen(skipped) = v
  <2>1. sum = p + explicit
    BY <1>12, <1>13, <1>17
  <2>2. skipped = k
    BY <1>5, <1>6, <1>9, <1>14, <1>16, <2>1
  <2>3. /\ significand * PowerOfTen(k) <= v
        /\ (v - significand * PowerOfTen(k)) * ((MaxUnsigned - 9) \div 10) <= v
        /\ v <= MaxUnsigned => significand * PowerOfTen(k) = v
    BY <1>9, <1>10, ScaledIsClose
  <2> QED
    BY <1>7, <1>9, <2>2, <2>3
<1>18. ASSUME explicit \notin - room .. room, explicit > 0
       PROVE  sum \in room - Len(digits) .. MaxSigned
  <2>1. explicit > room
    BY <1>5, <1>18
  <2>2. sum \in room + p .. MaxSigned
    BY <1>12, <1>13, <2>1
  <2> QED
    BY <1>7, <1>9, <2>2, WidthAssumption
<1>19. ASSUME explicit \notin - room .. room, ~ (explicit > 0)
       PROVE  sum \in MinSigned .. Len(digits) - room
  <2>1. explicit < - room
    BY <1>5, <1>19
  <2>2. sum \in MinSigned .. p - room
    BY <1>12, <1>13, <2>1
  <2> QED
    BY <1>7, <1>9, <2>2, WidthAssumption DEF MinSigned
<1>20. Means(n, x)
  <2>1. /\ x.negative = n.negative
        /\ IF explicit \in - room .. room
             THEN /\ skipped \in 0 .. Len(digits)
                  /\ x.significand * PowerOfTen(skipped) <= v
                  /\ (v - x.significand * PowerOfTen(skipped)) * ((MaxUnsigned - 9) \div 10) <= v
                  /\ v <= MaxUnsigned => x.significand * PowerOfTen(skipped) = v
             ELSE IF explicit > 0
               THEN x.exponent \in room - Len(digits) .. MaxSigned
               ELSE x.exponent \in MinSigned .. Len(digits) - room
    BY <1>14, <1>15, <1>17, <1>18, <1>19
  <2> QED
    BY <1>4, <1>7, <1>8, <1>13, <1>16, <2>1 DEF Means
<1> QED
  BY <1>14, <1>20

LEMMA DoublesSaid == IntegersInv => DoublesMeanTheirText
<1> SUFFICES ASSUME IntegersInv, kind = "number", finished, outcome.type = "double"
             PROVE  Means(subject, outcome.value)
  BY DEF DoublesMeanTheirText, Means
<1>1. subject \in Numbers /\ text \in NumberTexts(subject) /\ outcome = ReadNumber(text)
  BY DEF IntegersInv
<1>2. outcome.value = ReadDouble(text)
  BY <1>1, DoubleIsKept
<1> QED
  BY <1>1, <1>2, DoubleMeans

\* Of a number that is read as a double, however many digits it has, wherever its point is
\* and whatever its exponent, the significand and the exponent that strtod is given
\* stand for what the text says, but for digits beyond the precision of the type; an
\* exponent that does not fit stays on its side.
THEOREM DoublesMean == TextsSpec => []DoublesMeanTheirText
<1>1. TextsInit => IntegersInv
  BY IntegersInit
<1>2. IntegersInv /\ [TextsNext]_<<vars, textVars>> => IntegersInv'
  BY IntegersNext
<1>3. IntegersInv => DoublesMeanTheirText
  BY DoublesSaid
<1> QED
  BY <1>1, <1>2, <1>3, PTL DEF TextsSpec

-----------------------------------------------------------------------------
(* What makes a string UTF-8.                                              *)

\* What IsStructurallyValidUtf8 asks of a string at a byte, and the byte at which it
\* goes on.
FormAt(s, i) ==
  LET p == ReadCodePointPrefix(SubSeq(s, i, Len(s)))
  IN  /\ p.length > 0 /\ IsScalarValue(p.codePoint)
      /\ i + p.length <= Len(s) + 1
      /\ WriteCodePointToBuffer(p.codePoint) = SubSeq(s, i, i + p.length - 1)

GoOn(s, i) == i + ReadCodePointPrefix(SubSeq(s, i, Len(s))).length

\* The function by which it is defined.
ValidBy(v, s) ==
  v = [i \in 1 .. Len(s) + 1 |-> i > Len(s) \/ (FormAt(s, i) /\ v[GoOn(s, i)])]

\* The length of a form.
LEMMA PrefixLength ==
  ASSUME NEW s
  PROVE  ReadCodePointPrefix(s).length \in 0 .. 4
BY SMTT(30) DEF ReadCodePointPrefix

LEMMA ValidExists ==
  ASSUME NEW s \in Seq(Int)
  PROVE  \E v \in [1 .. Len(s) + 1 -> BOOLEAN] : ValidBy(v, s)
<1>1. PICK n \in Nat : n = Len(s)
  OBVIOUS
<1> DEFINE Places == 1 .. n + 1
           Closed(R) == \A i \in Places : (i > n \/ (FormAt(s, i) /\ GoOn(s, i) \in R)) => i \in R
           V == {i \in Places : \A R \in SUBSET Places : Closed(R) => i \in R}
<1>2. ASSUME NEW i \in Places, i > n \/ (FormAt(s, i) /\ GoOn(s, i) \in V)
      PROVE  i \in V
  <2>1. ASSUME NEW R \in SUBSET Places, Closed(R)
        PROVE  i \in R
    <3>1. GoOn(s, i) \in V => GoOn(s, i) \in R
      BY <2>1
    <3> QED
      BY <1>2, <2>1, <3>1
  <2> QED
    BY <2>1
<1>3. ASSUME NEW i \in V
      PROVE  i > n \/ (FormAt(s, i) /\ GoOn(s, i) \in V)
  <2> DEFINE R == {j \in Places : j > n \/ (FormAt(s, j) /\ GoOn(s, j) \in V)}
  <2>1. \A j \in R : j \in V
    BY <1>2
  <2>2. Closed(R)
    BY <2>1
  <2>3. R \in SUBSET Places
    OBVIOUS
  <2>4. i \in R
    BY <2>2, <2>3
  <2> QED
    BY <2>4
<1>4. V \in SUBSET Places
  OBVIOUS
<1> HIDE DEF V
<1> DEFINE v == [i \in Places |-> i \in V]
<1>5. v \in [Places -> BOOLEAN]
  OBVIOUS
<1>6. ASSUME NEW i \in Places
      PROVE  (i \in V) = (i > n \/ (FormAt(s, i) /\ v[GoOn(s, i)]))
  <2>1. FormAt(s, i) => GoOn(s, i) \in Places
    <3>1. SUFFICES ASSUME FormAt(s, i)
                   PROVE  GoOn(s, i) \in Places
      OBVIOUS
    <3>2. PICK k \in 0 .. 4 : k = ReadCodePointPrefix(SubSeq(s, i, Len(s))).length
      BY PrefixLength
    <3>3. k > 0 /\ i + k <= n + 1
      BY <1>1, <3>1, <3>2 DEF FormAt
    <3>4. GoOn(s, i) = i + k
      BY <3>2 DEF GoOn
    <3> QED
      BY <3>3, <3>4
  <2>2. FormAt(s, i) => (v[GoOn(s, i)] = (GoOn(s, i) \in V))
    BY <2>1
  <2>3. i \in V <=> i > n \/ (FormAt(s, i) /\ GoOn(s, i) \in V)
    BY <1>2, <1>3
  <2> HIDE DEF v
  <2>4. i \in V <=> i > n \/ (FormAt(s, i) /\ v[GoOn(s, i)])
    BY <2>2, <2>3
  <2> QED
    BY <2>4
<1>7. v = [i \in Places |-> i > n \/ (FormAt(s, i) /\ v[GoOn(s, i)])]
  <2> DEFINE w == [i \in Places |-> i > n \/ (FormAt(s, i) /\ v[GoOn(s, i)])]
  <2>1. \A i \in Places : v[i] = w[i]
    BY <1>6
  <2> QED
    BY <2>1
<1> HIDE DEF v
<1>8. ValidBy(v, s)
  BY <1>1, <1>7 DEF ValidBy
<1> QED
  BY <1>1, <1>5, <1>8

\* There is one such function.
LEMMA OneValid ==
  ASSUME NEW s \in Seq(Int), NEW v, NEW w, ValidBy(v, s), ValidBy(w, s)
  PROVE  \A i \in 1 .. Len(s) + 1 : v[i] <=> w[i]
<1>1. PICK n \in Nat : n = Len(s)
  OBVIOUS
<1>2. \A i \in 1 .. n + 1 :
        /\ v[i] <=> i > n \/ (FormAt(s, i) /\ v[GoOn(s, i)])
        /\ w[i] <=> i > n \/ (FormAt(s, i) /\ w[GoOn(s, i)])
  <2>1. \A i \in 1 .. n + 1 :
          /\ v[i] = (i > n \/ (FormAt(s, i) /\ v[GoOn(s, i)]))
          /\ w[i] = (i > n \/ (FormAt(s, i) /\ w[GoOn(s, i)]))
    BY <1>1, Zenon DEF ValidBy
  <2> QED
    BY <2>1
<1> DEFINE T == {k \in Nat : \A i \in 1 .. n + 1 : i + k >= n + 1 => (v[i] <=> w[i])}
<1>3. 0 \in T
  <2>1. ASSUME NEW i \in 1 .. n + 1, i + 0 >= n + 1
        PROVE  v[i] <=> w[i]
    <3>1. i > n
      BY <2>1
    <3> QED
      BY <1>2, <3>1
  <2> QED
    BY <2>1
<1>4. ASSUME NEW k \in T
      PROVE  k + 1 \in T
  <2>0. \A j \in 1 .. n + 1 : j + k >= n + 1 => (v[j] <=> w[j])
    OBVIOUS
  <2>1. ASSUME NEW i \in 1 .. n + 1, i + (k + 1) >= n + 1
        PROVE  v[i] <=> w[i]
    <3>1. CASE FormAt(s, i)
      <4>1. PICK l \in 0 .. 4 : l = ReadCodePointPrefix(SubSeq(s, i, Len(s))).length
        BY PrefixLength
      <4>2. l > 0 /\ i + l <= n + 1
        BY <1>1, <3>1, <4>1 DEF FormAt
      <4>3. GoOn(s, i) = i + l
        BY <4>1 DEF GoOn
      <4>4. i + l \in 1 .. n + 1 /\ (i + l) + k >= n + 1
        BY <2>1, <4>2
      <4>5. v[i + l] <=> w[i + l]
        BY <2>0, <4>4
      <4> QED
        BY <1>2, <4>3, <4>5
    <3>2. CASE ~ FormAt(s, i)
      BY <1>2, <3>2
    <3> QED
      BY <3>1, <3>2
  <2>2. k + 1 \in Nat
    OBVIOUS
  <2> QED
    BY <2>1, <2>2
<1>5. T = Nat
  <2>1. T \in SUBSET Nat /\ 0 \in T /\ \A k \in T : k + 1 \in T
    BY <1>3, <1>4
  <2> HIDE DEF T
  <2> QED
    BY <2>1, Induction
<1>6. n \in T
  BY <1>5
<1>7. \A i \in 1 .. n + 1 : i + n >= n + 1
  OBVIOUS
<1> QED
  BY <1>1, <1>6, <1>7

LEMMA ValidIs ==
  ASSUME NEW s \in Seq(Int), NEW v, ValidBy(v, s)
  PROVE  IsStructurallyValidUtf8(s) <=> v[1]
<1> DEFINE valid[i \in 1 .. Len(s) + 1] ==
             \/ i > Len(s)
             \/ LET p == ReadCodePointPrefix(SubSeq(s, i, Len(s)))
                IN  /\ p.length > 0 /\ IsScalarValue(p.codePoint)
                    /\ i + p.length <= Len(s) + 1
                    /\ WriteCodePointToBuffer(p.codePoint) = SubSeq(s, i, i + p.length - 1)
                    /\ valid[i + p.length]
<1>1. v = [i \in 1 .. Len(s) + 1 |->
             \/ i > Len(s)
             \/ LET p == ReadCodePointPrefix(SubSeq(s, i, Len(s)))
                IN  /\ p.length > 0 /\ IsScalarValue(p.codePoint)
                    /\ i + p.length <= Len(s) + 1
                    /\ WriteCodePointToBuffer(p.codePoint) = SubSeq(s, i, i + p.length - 1)
                    /\ v[i + p.length]]
  <2> DEFINE w == [i \in 1 .. Len(s) + 1 |->
             \/ i > Len(s)
             \/ LET p == ReadCodePointPrefix(SubSeq(s, i, Len(s)))
                IN  /\ p.length > 0 /\ IsScalarValue(p.codePoint)
                    /\ i + p.length <= Len(s) + 1
                    /\ WriteCodePointToBuffer(p.codePoint) = SubSeq(s, i, i + p.length - 1)
                    /\ v[i + p.length]]
             u == [i \in 1 .. Len(s) + 1 |-> i > Len(s) \/ (FormAt(s, i) /\ v[GoOn(s, i)])]
  <2>1. ASSUME NEW i \in 1 .. Len(s) + 1
        PROVE  w[i] = u[i]
    <3>1. w[i] = \/ i > Len(s)
                 \/ LET p == ReadCodePointPrefix(SubSeq(s, i, Len(s)))
                    IN  /\ p.length > 0 /\ IsScalarValue(p.codePoint)
                        /\ i + p.length <= Len(s) + 1
                        /\ WriteCodePointToBuffer(p.codePoint) = SubSeq(s, i, i + p.length - 1)
                        /\ v[i + p.length]
      OBVIOUS
    <3>2. u[i] = (i > Len(s) \/ (FormAt(s, i) /\ v[GoOn(s, i)]))
      OBVIOUS
    <3> QED
      BY <3>1, <3>2 DEF FormAt, GoOn
  <2>2. u = w
    BY <2>1
  <2>3. v = u
    BY DEF ValidBy
  <2> QED
    BY <2>2, <2>3
<1>2. valid = [i \in 1 .. Len(s) + 1 |->
             \/ i > Len(s)
             \/ LET p == ReadCodePointPrefix(SubSeq(s, i, Len(s)))
                IN  /\ p.length > 0 /\ IsScalarValue(p.codePoint)
                    /\ i + p.length <= Len(s) + 1
                    /\ WriteCodePointToBuffer(p.codePoint) = SubSeq(s, i, i + p.length - 1)
                    /\ valid[i + p.length]]
  BY <1>1, Zenon
<1>3. IsStructurallyValidUtf8(s) = valid[1]
  BY DEF IsStructurallyValidUtf8
<1> HIDE DEF valid
<1>4. ValidBy(valid, s)
  BY <1>2 DEF ValidBy, FormAt, GoOn
<1>5. 1 \in 1 .. Len(s) + 1
  OBVIOUS
<1>6. valid[1] <=> v[1]
  BY <1>4, <1>5, OneValid
<1> QED
  BY <1>3, <1>6

\* What a part of a text is.
PartSo(p, s, m, n) ==
  /\ p \in Seq(Int) /\ Len(p) = n - m
  /\ \A i \in 1 .. n - m : p[i] = s[m + i]

LEMMA PartIs ==
  ASSUME NEW s \in Seq(Int), NEW n \in 0 .. Len(s), NEW m \in 0 .. n
  PROVE  PartSo(SubSeq(s, m + 1, n), s, m, n)
BY DEF PartSo

\* A piece of what follows is a piece of the whole.
LEMMA PieceOfRest ==
  ASSUME NEW s \in Seq(Int), NEW k \in 0 .. Len(s), NEW i \in 1 .. Len(s) - k + 1,
         NEW j \in i - 1 .. Len(s) - k
  PROVE  SubSeq(From(s, k + 1), i, j) = SubSeq(s, i + k, j + k)
<1>1. PICK n \in Nat : n = Len(s)
  OBVIOUS
<1>2. PICK f : f = From(s, k + 1)
  OBVIOUS
<1>3. k + 1 \in 1 .. Len(s) + 1
  BY <1>1
<1>4. /\ f \in Seq(Int) /\ Len(f) = Len(s) + 1 - (k + 1)
      /\ \A l \in 1 .. Len(s) + 1 - (k + 1) : f[l] = s[((k + 1) - 1) + l]
  BY <1>2, <1>3, FromIs
<1>5. n + 1 - (k + 1) = n - k /\ (k + 1) - 1 = k
  BY <1>1
<1>6. Len(f) = n - k /\ \A l \in 1 .. n - k : f[l] = s[k + l]
  BY <1>1, <1>4, <1>5
<1>7. PICK a, b : a = SubSeq(f, i, j) /\ b = SubSeq(s, i + k, j + k)
  OBVIOUS
<1>8. /\ a \in Seq(Int) /\ Len(a) = j - i + 1
      /\ \A l \in 1 .. j - i + 1 : a[l] = f[i + l - 1]
  <2>1. PICK m \in Nat : m = i - 1
    BY <1>1
  <2>2. j \in 0 .. Len(f) /\ m \in 0 .. j
    BY <1>1, <1>6, <2>1
  <2>3. PartSo(SubSeq(f, m + 1, j), f, m, j)
    BY <1>4, <2>2, PartIs
  <2>4. m + 1 = i /\ j - m = j - i + 1 /\ \A l \in 1 .. j - i + 1 : m + l = i + l - 1
    BY <1>1, <2>1
  <2>5. a = SubSeq(f, m + 1, j)
    BY <1>7, <2>4
  <2>6. /\ a \in Seq(Int) /\ Len(a) = j - m
        /\ \A l \in 1 .. j - m : a[l] = f[m + l]
    BY <2>3, <2>5 DEF PartSo
  <2> QED
    BY <2>4, <2>6
<1>9. /\ b \in Seq(Int) /\ Len(b) = j - i + 1
      /\ \A l \in 1 .. j - i + 1 : b[l] = s[(i + k) + l - 1]
  <2>1. PICK m \in Nat : m = i + k - 1
    BY <1>1
  <2>2. j + k \in 0 .. Len(s) /\ m \in 0 .. j + k
    BY <1>1, <2>1
  <2>3. PartSo(SubSeq(s, m + 1, j + k), s, m, j + k)
    BY <2>2, PartIs
  <2>4. /\ m + 1 = i + k /\ (j + k) - m = j - i + 1
        /\ \A l \in 1 .. j - i + 1 : m + l = (i + k) + l - 1
    BY <1>1, <2>1
  <2>5. b = SubSeq(s, m + 1, j + k)
    BY <1>7, <2>4
  <2>6. /\ b \in Seq(Int) /\ Len(b) = (j + k) - m
        /\ \A l \in 1 .. (j + k) - m : b[l] = s[m + l]
    BY <2>3, <2>5 DEF PartSo
  <2> QED
    BY <2>4, <2>6
<1>10. ASSUME NEW l \in 1 .. j - i + 1
       PROVE  a[l] = b[l]
  <2>1. i + l - 1 \in 1 .. n - k /\ k + (i + l - 1) = (i + k) + l - 1
    BY <1>1
  <2>2. a[l] = f[i + l - 1]
    BY <1>8
  <2>3. f[i + l - 1] = s[k + (i + l - 1)]
    BY <1>6, <2>1
  <2> QED
    BY <1>9, <2>1, <2>2, <2>3
<1>11. a = b
  BY <1>8, <1>9, <1>10, SeqEqual
<1> QED
  BY <1>2, <1>7, <1>11

\* A string is valid if it is empty, or begins with a form that is followed by a valid
\* string.
ValidSo(s) ==
  IsStructurallyValidUtf8(s) <=>
    \/ s = <<>>
    \/ FormAt(s, 1) /\ IsStructurallyValidUtf8(From(s, ReadCodePointPrefix(s).length + 1))

LEMMA ValidUnfolds ==
  ASSUME NEW s \in Seq(Int)
  PROVE  ValidSo(s)
<1>1. PICK v : ValidBy(v, s)
  BY ValidExists
<1>2. PICK n \in Nat : n = Len(s)
  OBVIOUS
<1>3. \A i \in 1 .. n + 1 : v[i] = (i > n \/ (FormAt(s, i) /\ v[GoOn(s, i)]))
  BY <1>1, <1>2, Zenon DEF ValidBy
<1>4. IsStructurallyValidUtf8(s) <=> v[1]
  BY <1>1, ValidIs
<1>5. 1 \in 1 .. n + 1
  OBVIOUS
<1>6. v[1] <=> 1 > n \/ (FormAt(s, 1) /\ v[GoOn(s, 1)])
  BY <1>3, <1>5
<1>7. CASE n = 0
  <2>1. s = <<>>
    <3>1. Len(s) = 0
      BY <1>2, <1>7
    <3> QED
      BY <3>1
  <2>2. 1 > n
    BY <1>7
  <2> QED
    BY <1>4, <1>6, <2>1, <2>2 DEF ValidSo
<1>8. CASE n # 0
  <2>1. s # <<>> /\ ~ (1 > n)
    BY <1>2, <1>8
  <2>2. From(s, 1) = s
    BY FromFirst DEF FirstSo
  <2>3. SubSeq(s, 1, Len(s)) = s
    BY <2>2 DEF From
  <2>4. PICK k \in 0 .. 4 : k = ReadCodePointPrefix(s).length
    BY PrefixLength
  <2>5. GoOn(s, 1) = 1 + k
    BY <2>3, <2>4 DEF GoOn
  <2>6. CASE ~ FormAt(s, 1)
    BY <1>4, <1>6, <2>1, <2>6 DEF ValidSo
  <2>7. CASE FormAt(s, 1)
    <3>1. k > 0 /\ 1 + k <= n + 1
      BY <1>2, <2>3, <2>4, <2>7 DEF FormAt
    <3>2. k \in 0 .. Len(s) /\ k + 1 \in 1 .. Len(s) + 1
      BY <1>2, <3>1
    <3>3. PICK u : u = From(s, k + 1)
      OBVIOUS
    <3>4. u \in Seq(Int) /\ Len(u) = n - k
      <4>1. u \in Seq(Int) /\ Len(u) = Len(s) + 1 - (k + 1)
        BY <3>2, <3>3, FromIs
      <4>2. n + 1 - (k + 1) = n - k
        OBVIOUS
      <4> QED
        BY <1>2, <4>1, <4>2
    <3>5. ASSUME NEW i \in 1 .. n - k + 1
          PROVE  GoOn(s, i + k) = GoOn(u, i) + k /\ (FormAt(u, i) <=> FormAt(s, i + k))
      <4>1. i \in 1 .. Len(s) - k + 1 /\ Len(s) - k \in i - 1 .. Len(s) - k
        BY <1>2, <3>1
      <4>2. SubSeq(u, i, Len(s) - k) = SubSeq(s, i + k, (Len(s) - k) + k)
        BY <3>2, <3>3, <4>1, PieceOfRest
      <4>3. (Len(s) - k) + k = Len(s) /\ Len(s) - k = Len(u)
        BY <1>2, <3>4
      <4>4. SubSeq(u, i, Len(u)) = SubSeq(s, i + k, Len(s))
        BY <4>2, <4>3
      <4>5. PICK p : p = ReadCodePointPrefix(SubSeq(u, i, Len(u)))
        OBVIOUS
      <4>6. p = ReadCodePointPrefix(SubSeq(s, i + k, Len(s))) /\ p.length \in 0 .. 4
        BY <4>4, <4>5, PrefixLength
      <4>7. GoOn(s, i + k) = GoOn(u, i) + k
        <5>1. GoOn(s, i + k) = (i + k) + p.length /\ GoOn(u, i) = i + p.length
          BY <4>5, <4>6 DEF GoOn
        <5>2. (i + k) + p.length = (i + p.length) + k
          BY <4>6
        <5> QED
          BY <5>1, <5>2
      <4>8. (i + k) + p.length <= Len(s) + 1 <=> i + p.length <= Len(u) + 1
        <5>1. PICK l \in 0 .. 4 : l = p.length
          BY <4>6
        <5>2. (i + k) + l <= n + 1 <=> i + l <= n - k + 1
          OBVIOUS
        <5> QED
          BY <1>2, <3>4, <5>1, <5>2
      <4>9. ASSUME p.length > 0, i + p.length <= Len(u) + 1
            PROVE  SubSeq(u, i, i + p.length - 1) = SubSeq(s, i + k, (i + k) + p.length - 1)
        <5>1. i + p.length - 1 \in i - 1 .. Len(s) - k
          <6>1. PICK l \in 0 .. 4 : l = p.length
            BY <4>6
          <6>2. l > 0 /\ i + l <= (n - k) + 1
            BY <3>4, <4>9, <6>1
          <6>3. i + l - 1 \in i - 1 .. n - k
            BY <6>2
          <6> QED
            BY <1>2, <6>1, <6>3
        <5>2. SubSeq(u, i, i + p.length - 1) = SubSeq(s, i + k, (i + p.length - 1) + k)
          BY <3>2, <3>3, <4>1, <5>1, PieceOfRest
        <5>3. (i + p.length - 1) + k = (i + k) + p.length - 1
          BY <4>6
        <5> QED
          BY <5>2, <5>3
      <4>10. FormAt(u, i) <=>
               /\ p.length > 0 /\ IsScalarValue(p.codePoint) /\ i + p.length <= Len(u) + 1
               /\ WriteCodePointToBuffer(p.codePoint) = SubSeq(u, i, i + p.length - 1)
        BY <4>5 DEF FormAt
      <4>11. FormAt(s, i + k) <=>
               /\ p.length > 0 /\ IsScalarValue(p.codePoint) /\ (i + k) + p.length <= Len(s) + 1
               /\ WriteCodePointToBuffer(p.codePoint)
                    = SubSeq(s, i + k, (i + k) + p.length - 1)
        BY <4>6 DEF FormAt
      <4>12. FormAt(u, i) <=> FormAt(s, i + k)
        BY <4>8, <4>9, <4>10, <4>11
      <4> QED
        BY <4>7, <4>12
    <3> DEFINE w == [i \in 1 .. Len(u) + 1 |-> v[i + k]]
               x == [i \in 1 .. Len(u) + 1 |-> i > Len(u) \/ (FormAt(u, i) /\ w[GoOn(u, i)])]
    <3>6. ASSUME NEW i \in 1 .. n - k + 1
          PROVE  v[i + k] = (i > n - k \/ (FormAt(u, i) /\ w[GoOn(u, i)]))
      <4>1. i + k \in 1 .. n + 1 /\ (i + k > n <=> i > n - k)
        BY <3>1
      <4>2. v[i + k] = (i + k > n \/ (FormAt(s, i + k) /\ v[GoOn(s, i + k)]))
        BY <1>3, <4>1
      <4>3. FormAt(u, i) => GoOn(u, i) \in 1 .. Len(u) + 1
        <5>1. PICK l \in 0 .. 4 : l = ReadCodePointPrefix(SubSeq(u, i, Len(u))).length
          BY PrefixLength
        <5>2. GoOn(u, i) = i + l
          BY <5>1 DEF GoOn
        <5>3. FormAt(u, i) => l > 0 /\ i + l <= Len(u) + 1
          BY <5>1 DEF FormAt
        <5>4. i + l >= 1
          OBVIOUS
        <5> QED
          BY <3>4, <5>2, <5>3, <5>4
      <4>4. FormAt(u, i) => w[GoOn(u, i)] = v[GoOn(u, i) + k]
        BY <4>3
      <4> HIDE DEF w
      <4>5. v[i + k] = (i > n - k \/ (FormAt(u, i) /\ v[GoOn(u, i) + k]))
        BY <3>5, <4>1, <4>2
      <4>6. (FormAt(u, i) /\ v[GoOn(u, i) + k]) = (FormAt(u, i) /\ w[GoOn(u, i)])
        BY <4>4
      <4> QED
        BY <4>5, <4>6
    <3>7. w = x
      <4>1. ASSUME NEW i \in 1 .. Len(u) + 1
            PROVE  w[i] = x[i]
        <5>1. i \in 1 .. n - k + 1
          BY <3>4
        <5>2. w[i] = v[i + k]
          OBVIOUS
        <5>3. x[i] = (i > Len(u) \/ (FormAt(u, i) /\ w[GoOn(u, i)]))
          OBVIOUS
        <5> HIDE DEF w, x
        <5> QED
          BY <3>4, <3>6, <5>1, <5>2, <5>3
      <4> QED
        BY <4>1
    <3>8. w[1] = v[1 + k]
      BY <3>2, <3>4, <1>2
    <3> HIDE DEF w
    <3>9. ValidBy(w, u)
      BY <3>7 DEF ValidBy
    <3>10. IsStructurallyValidUtf8(u) <=> w[1]
      BY <3>4, <3>9, ValidIs
    <3>11. v[1] <=> v[GoOn(s, 1)]
      BY <1>6, <2>1, <2>7
    <3> QED
      BY <1>4, <2>1, <2>4, <2>5, <2>7, <3>3, <3>8, <3>10, <3>11 DEF ValidSo
  <2> QED
    BY <2>6, <2>7
<1> QED
  BY <1>7, <1>8

\* t begins with the form of c.
BeginsWith(t, c) ==
  LET form == WriteCodePointToBuffer(c)
  IN  Len(t) >= Len(form) /\ \A i \in 1 .. Len(form) : t[i] = form[i]

\* It is read as that code point, whatever follows.
LEMMA FormIsRead ==
  ASSUME NEW c \in Nat, c < 2097152, NEW t \in Seq(Int), BeginsWith(t, c)
  PROVE  ReadCodePointPrefix(t) = [length |-> Len(WriteCodePointToBuffer(c)), codePoint |-> c]
<1> DEFINE b1 == ByteAt(t, 1)
           b2 == ByteAt(t, 2)
           b3 == ByteAt(t, 3)
           b4 == ByteAt(t, 4)
<1>1. PICK form : form = WriteCodePointToBuffer(c)
  OBVIOUS
<1>2. Len(t) >= Len(form) /\ \A i \in 1 .. Len(form) : t[i] = form[i]
  BY <1>1 DEF BeginsWith
<1>3. CASE c < 128
  <2>1. form = <<c>>
    BY <1>1, <1>3 DEF WriteCodePointToBuffer
  <2>2. Len(form) = 1 /\ form[1] = c
    BY <2>1
  <2>3. b1 = c /\ ~ (Len(t) < 1)
    BY <1>2, <2>2 DEF ByteAt
  <2> HIDE DEF b1, b2, b3, b4
  <2>4. b1 \div 128 = 0
    BY <1>3, <2>3
  <2>5. ReadCodePointPrefix(t) = [length |-> 1, codePoint |-> b1]
    BY <2>3, <2>4, SMTT(30) DEF ReadCodePointPrefix, b1
  <2> QED
    BY <1>1, <2>2, <2>3, <2>5, SMTT(30)
<1>4. CASE c >= 128 /\ c < 2048
  <2> DEFINE e1 == c \div 64
             e2 == c % 64
  <2>1. form = <<e1 + 192, e2 + 128>>
    BY <1>1, <1>4 DEF WriteCodePointToBuffer, Continuation
  <2>2. e1 \in 2 .. 31 /\ e2 \in 0 .. 63 /\ c = e1 * 64 + e2
    BY <1>4, SMTT(30)
  <2> HIDE DEF e1, e2
  <2>3. Len(form) = 2 /\ form[1] = e1 + 192 /\ form[2] = e2 + 128
    BY <2>1, <2>2
  <2>4. b1 = e1 + 192 /\ b2 = e2 + 128 /\ ~ (Len(t) < 1) /\ ~ (Len(t) < 2)
    BY <1>2, <2>3 DEF ByteAt
  <2> HIDE DEF b1, b2, b3, b4
  <2>5. /\ b1 \div 128 # 0 /\ b1 \div 64 # 2 /\ b1 \div 32 = 6 /\ b1 % 32 = e1
        /\ b2 % 64 = e2
    BY <2>2, <2>4, SMTT(30)
  <2>6. IsContinuation(b2)
    BY <2>2, <2>4, SMTT(30) DEF IsContinuation
  <2>7. ReadCodePointPrefix(t) = [length |-> 2, codePoint |-> (b1 % 32) * 64 + (b2 % 64)]
    BY <2>4, <2>5, <2>6, SMTT(30) DEF ReadCodePointPrefix, b1, b2
  <2>8. (b1 % 32) * 64 + (b2 % 64) = c
    BY <2>2, <2>5, SMTT(30)
  <2> QED
    BY <1>1, <2>3, <2>7, <2>8, SMTT(30)
<1>5. CASE c >= 2048 /\ c < 65536
  <2> DEFINE e1 == c \div 4096
             e2 == (c \div 64) % 64
             e3 == c % 64
  <2>1. form = <<e1 + 224, e2 + 128, e3 + 128>>
    BY <1>1, <1>5 DEF WriteCodePointToBuffer, Continuation
  <2>2. e1 \in 0 .. 15 /\ e2 \in 0 .. 63 /\ e3 \in 0 .. 63 /\ c = e1 * 4096 + e2 * 64 + e3
    BY <1>5, SMTT(30)
  <2> HIDE DEF e1, e2, e3
  <2>3. Len(form) = 3 /\ form[1] = e1 + 224 /\ form[2] = e2 + 128 /\ form[3] = e3 + 128
    BY <2>1, <2>2
  <2>4. /\ b1 = e1 + 224 /\ b2 = e2 + 128 /\ b3 = e3 + 128
        /\ ~ (Len(t) < 1) /\ ~ (Len(t) < 2)
    BY <1>2, <2>3 DEF ByteAt
  <2> HIDE DEF b1, b2, b3, b4
  <2>5. /\ b1 \div 128 # 0 /\ b1 \div 64 # 2 /\ b1 \div 32 # 6 /\ b1 \div 16 = 14
        /\ b1 % 16 = e1 /\ b2 % 64 = e2 /\ b3 % 64 = e3
    BY <2>2, <2>4, SMTT(30)
  <2>6. IsContinuation(b2) /\ IsContinuation(b3)
    BY <2>2, <2>4, SMTT(30) DEF IsContinuation
  <2>7. ReadCodePointPrefix(t) =
          [length |-> 3, codePoint |-> (b1 % 16) * 4096 + (b2 % 64) * 64 + (b3 % 64)]
    BY <2>4, <2>5, <2>6, SMTT(30) DEF ReadCodePointPrefix, b1, b2, b3
  <2>8. (b1 % 16) * 4096 + (b2 % 64) * 64 + (b3 % 64) = c
    BY <2>2, <2>5, SMTT(30)
  <2> QED
    BY <1>1, <2>3, <2>7, <2>8, SMTT(30)
<1>6. CASE c >= 65536
  <2> DEFINE e1 == c \div 262144
             e2 == (c \div 4096) % 64
             e3 == (c \div 64) % 64
             e4 == c % 64
  <2>1. form = <<e1 + 240, e2 + 128, e3 + 128, e4 + 128>>
    BY <1>1, <1>6 DEF WriteCodePointToBuffer, Continuation
  <2>2. /\ e1 \in 0 .. 7 /\ e2 \in 0 .. 63 /\ e3 \in 0 .. 63 /\ e4 \in 0 .. 63
        /\ c = e1 * 262144 + e2 * 4096 + e3 * 64 + e4
    BY <1>6, SMTT(30)
  <2> HIDE DEF e1, e2, e3, e4
  <2>3. /\ Len(form) = 4 /\ form[1] = e1 + 240 /\ form[2] = e2 + 128
        /\ form[3] = e3 + 128 /\ form[4] = e4 + 128
    BY <2>1, <2>2
  <2>4. /\ b1 = e1 + 240 /\ b2 = e2 + 128 /\ b3 = e3 + 128 /\ b4 = e4 + 128
        /\ ~ (Len(t) < 1) /\ ~ (Len(t) < 2)
    BY <1>2, <2>3 DEF ByteAt
  <2> HIDE DEF b1, b2, b3, b4
  <2>5. /\ b1 \div 128 # 0 /\ b1 \div 64 # 2 /\ b1 \div 32 # 6 /\ b1 \div 16 # 14
        /\ b1 \div 8 = 30 /\ b1 % 8 = e1 /\ b2 % 64 = e2 /\ b3 % 64 = e3 /\ b4 % 64 = e4
    BY <2>2, <2>4, SMTT(30)
  <2>6. IsContinuation(b2) /\ IsContinuation(b3) /\ IsContinuation(b4)
    BY <2>2, <2>4, SMTT(30) DEF IsContinuation
  <2>7. ReadCodePointPrefix(t) =
          [length |-> 4, codePoint |-> (b1 % 8) * 262144 + (b2 % 64) * 4096
                                         + (b3 % 64) * 64 + (b4 % 64)]
    BY <2>4, <2>5, <2>6, SMTT(30) DEF ReadCodePointPrefix, b1, b2, b3, b4
  <2>8. (b1 % 8) * 262144 + (b2 % 64) * 4096 + (b3 % 64) * 64 + (b4 % 64) = c
    BY <2>2, <2>5, SMTT(30)
  <2> QED
    BY <1>1, <2>3, <2>7, <2>8, SMTT(30)
<1> QED
  BY <1>3, <1>4, <1>5, <1>6

\* The form of a code point that a text can hold.
FormType(form) ==
  /\ form \in Seq(Int) /\ Len(form) \in 1 .. 4
  /\ \A i \in 1 .. Len(form) : form[i] \in Byte

LEMMA ScalarForm ==
  ASSUME NEW c, IsScalarValue(c)
  PROVE  c \in Nat /\ c < 1114112 /\ FormType(WriteCodePointToBuffer(c))
<1>1. c \in Nat /\ c < 1114112
  BY SMTT(30) DEF IsScalarValue
<1>2. PICK form : form = WriteCodePointToBuffer(c)
  OBVIOUS
<1>3. ASSUME c < 128
      PROVE  FormType(form)
  <2>1. form = <<c>>
    BY <1>2, <1>3 DEF WriteCodePointToBuffer
  <2>2. c \in Byte
    BY <1>1, <1>3 DEF Byte
  <2>3. FormType(form)
    BY <1>1, <2>1, <2>2 DEF FormType
  <2> QED
    BY <2>3
<1>4. ASSUME c >= 128, c < 2048
      PROVE  FormType(form)
  <2>1. PICK x, y : x = (c \div 64) + 192 /\ y = (c % 64) + 128
    OBVIOUS
  <2>2. form = <<x, y>>
    BY <1>1, <1>2, <1>4, <2>1, SMTT(30) DEF WriteCodePointToBuffer, Continuation
  <2>3. x \in 0 .. 255 /\ y \in 0 .. 255
    BY <1>1, <1>4, <2>1, SMTT(30)
  <2>4. FormType(form)
    BY <2>2, <2>3 DEF FormType, Byte
  <2> QED
    BY <2>4
<1>5. ASSUME c >= 2048, c < 65536
      PROVE  FormType(form)
  <2>1. PICK x, y, z : /\ x = (c \div 4096) + 224 /\ y = ((c \div 64) % 64) + 128
                       /\ z = (c % 64) + 128
    OBVIOUS
  <2>2. form = <<x, y, z>>
    BY <1>1, <1>2, <1>5, <2>1, SMTT(30) DEF WriteCodePointToBuffer, Continuation
  <2>3. x \in 0 .. 255 /\ y \in 0 .. 255 /\ z \in 0 .. 255
    BY <1>1, <1>5, <2>1, SMTT(30)
  <2>4. FormType(form)
    BY <2>2, <2>3 DEF FormType, Byte
  <2> QED
    BY <2>4
<1>6. ASSUME c >= 65536
      PROVE  FormType(form)
  <2>1. PICK x, y, z, w : /\ x = (c \div 262144) + 240 /\ y = ((c \div 4096) % 64) + 128
                          /\ z = ((c \div 64) % 64) + 128 /\ w = (c % 64) + 128
    OBVIOUS
  <2>2. form = <<x, y, z, w>>
    BY <1>1, <1>2, <1>6, <2>1 DEF WriteCodePointToBuffer, Continuation
  <2>3. x \in 0 .. 255 /\ y \in 0 .. 255 /\ z \in 0 .. 255 /\ w \in 0 .. 255
    BY <1>1, <1>6, <2>1, SMTT(30)
  <2>4. FormType(form)
    BY <2>2, <2>3 DEF FormType, Byte
  <2> QED
    BY <2>4
<1>7. FormType(form)
  BY <1>1, <1>3, <1>4, <1>5, <1>6, SMTT(30)
<1> QED
  BY <1>1, <1>2, <1>7

\* What a concatenation is.
JoinSo(t, a, b) ==
  /\ t \in Seq(Int) /\ Len(t) = Len(a) + Len(b)
  /\ \A i \in 1 .. Len(a) : t[i] = a[i]
  /\ \A i \in 1 .. Len(b) : t[Len(a) + i] = b[i]

LEMMA JoinIs ==
  ASSUME NEW a \in Seq(Int), NEW b \in Seq(Int)
  PROVE  JoinSo(a \o b, a, b)
BY DEF JoinSo

\* A text is what comes up to a place and what comes after it.
SplitSo(s, k) ==
  /\ SubSeq(s, 1, k) \in Seq(Int) /\ Len(SubSeq(s, 1, k)) = k
  /\ From(s, k + 1) \in Seq(Int) /\ Len(From(s, k + 1)) = Len(s) - k
  /\ s = SubSeq(s, 1, k) \o From(s, k + 1)
  /\ \A i \in 1 .. k : SubSeq(s, 1, k)[i] = s[i]
  /\ \A i \in 1 .. Len(s) - k : From(s, k + 1)[i] = s[k + i]

LEMMA SplitAt ==
  ASSUME NEW s \in Seq(Int), NEW k \in 0 .. Len(s)
  PROVE  SplitSo(s, k)
<1>1. PICK n \in Nat : n = Len(s)
  OBVIOUS
<1>2. PICK a, b : a = SubSeq(s, 0 + 1, k) /\ b = From(s, k + 1)
  OBVIOUS
<1>3. a \in Seq(Int) /\ Len(a) = k /\ \A i \in 1 .. k : a[i] = s[i]
  <2>1. PartSo(a, s, 0, k)
    BY <1>2, PartIs
  <2>2. k - 0 = k /\ \A i \in 1 .. k : 0 + i = i
    OBVIOUS
  <2> QED
    BY <2>1, <2>2 DEF PartSo
<1>4. b \in Seq(Int) /\ Len(b) = n - k /\ \A i \in 1 .. n - k : b[i] = s[k + i]
  <2>1. k + 1 \in 1 .. Len(s) + 1
    BY <1>1
  <2>2. Follows(b, s, k + 1)
    BY <1>2, <2>1, FromFollows
  <2>3. n + 1 - (k + 1) = n - k /\ (k + 1) - 1 = k
    BY <1>1
  <2> QED
    BY <1>1, <2>2, <2>3 DEF Follows
<1>5. PICK t : t = a \o b
  OBVIOUS
<1>6. /\ t \in Seq(Int) /\ Len(t) = Len(a) + Len(b)
      /\ \A i \in 1 .. Len(a) : t[i] = a[i]
      /\ \A i \in 1 .. Len(b) : t[Len(a) + i] = b[i]
  <2>1. JoinSo(a \o b, a, b)
    BY <1>3, <1>4, JoinIs
  <2> QED
    BY <1>5, <2>1 DEF JoinSo
<1>7. Len(t) = n
  <2>1. Len(t) = k + (n - k)
    BY <1>3, <1>4, <1>6
  <2> QED
    BY <1>1, <2>1
<1>8. ASSUME NEW i \in 1 .. n
      PROVE  t[i] = s[i]
  <2>1. CASE i <= k
    <3>1. i \in 1 .. k
      BY <1>1, <2>1
    <3> QED
      BY <1>3, <1>6, <3>1
  <2>2. CASE ~ (i <= k)
    <3>1. PICK j \in 1 .. n - k : i = k + j
      <4>1. i - k \in 1 .. n - k /\ i = k + (i - k)
        BY <1>1, <2>2
      <4> QED
        BY <4>1
    <3>2. t[k + j] = b[j]
      BY <1>3, <1>4, <1>6
    <3> QED
      BY <1>4, <3>1, <3>2
  <2> QED
    BY <2>1, <2>2
<1>9. t = s
  BY <1>1, <1>6, <1>7, <1>8, SeqEqual
<1>10. a = SubSeq(s, 1, k)
  BY <1>2
<1> QED
  BY <1>1, <1>2, <1>3, <1>4, <1>5, <1>9, <1>10 DEF SplitSo

\* How a valid string begins.
StartsValid(s) ==
  LET p == ReadCodePointPrefix(s)
  IN  /\ p.length \in 1 .. 4 /\ p.length <= Len(s) /\ IsScalarValue(p.codePoint)
      /\ WriteCodePointToBuffer(p.codePoint) = SubSeq(s, 1, p.length)
      /\ IsStructurallyValidUtf8(From(s, p.length + 1))

LEMMA ValidStarts ==
  ASSUME NEW s \in Seq(Int), s # <<>>, IsStructurallyValidUtf8(s)
  PROVE  StartsValid(s)
<1>1. FormAt(s, 1) /\ IsStructurallyValidUtf8(From(s, ReadCodePointPrefix(s).length + 1))
  BY ValidUnfolds DEF ValidSo
<1>2. PICK p : p = ReadCodePointPrefix(s)
  OBVIOUS
<1>3. p.length \in 0 .. 4
  BY <1>2, PrefixLength
<1>4. SubSeq(s, 1, Len(s)) = s
  BY FromFirst DEF FirstSo, From
<1>5. /\ p.length > 0 /\ IsScalarValue(p.codePoint)
      /\ 1 + p.length <= Len(s) + 1
      /\ WriteCodePointToBuffer(p.codePoint) = SubSeq(s, 1, 1 + p.length - 1)
  BY <1>1, <1>2, <1>4 DEF FormAt
<1>6. PICK k \in 0 .. 4 : k = p.length
  BY <1>3
<1>7. k \in 1 .. 4 /\ k <= Len(s) /\ 1 + k - 1 = k
  BY <1>5, <1>6
<1> QED
  BY <1>1, <1>2, <1>5, <1>6, <1>7 DEF StartsValid

\* A form before a valid string makes a valid string.
LEMMA ValidGrows ==
  ASSUME NEW c, IsScalarValue(c), NEW s \in Seq(Int), IsStructurallyValidUtf8(s)
  PROVE  IsStructurallyValidUtf8(WriteCodePointToBuffer(c) \o s)
<1>1. PICK form : form = WriteCodePointToBuffer(c)
  OBVIOUS
<1>2. c \in Nat /\ c < 1114112 /\ form \in Seq(Int) /\ Len(form) \in 1 .. 4
  <2>1. c \in Nat /\ c < 1114112 /\ FormType(form)
    BY <1>1, ScalarForm
  <2> QED
    BY <2>1, SMTT(30) DEF FormType
<1>3. PICK t : t = form \o s
  OBVIOUS
<1>4. PICK k \in 1 .. 4 : k = Len(form)
  BY <1>2
<1>5. t \in Seq(Int) /\ Len(t) = k + Len(s) /\ From(t, k + 1) = s
  <2>1. AfterIt(form, s)
    BY <1>2, AfterPart
  <2> QED
    BY <1>3, <1>4, <2>1 DEF AfterIt
<1>6. \A i \in 1 .. k : t[i] = form[i]
  BY <1>2, <1>3, <1>4
<1>7. k <= Len(t) /\ 1 + k <= Len(t) + 1 /\ Len(s) \in Nat
  BY <1>5
<1>8. BeginsWith(t, c)
  BY <1>1, <1>4, <1>6, <1>7 DEF BeginsWith
<1>9. ReadCodePointPrefix(t) = [length |-> k, codePoint |-> c]
  <2>1. c < 2097152
    BY <1>2, SMTT(30)
  <2>2. c \in Nat
    BY <1>2, SMTT(30)
  <2> QED
    BY <1>1, <1>4, <1>5, <1>8, <2>1, <2>2, FormIsRead
<1>10. SubSeq(t, 1, Len(t)) = t
  BY <1>5, FromFirst DEF FirstSo, From
<1>11. form = SubSeq(t, 1, k)
  <2>1. k \in 0 .. Len(t)
    BY <1>7
  <2>2. SplitSo(t, k)
    BY <1>5, <2>1, SplitAt
  <2>3. PICK a : a = SubSeq(t, 1, k)
    OBVIOUS
  <2>4. a \in Seq(Int) /\ Len(a) = k /\ \A i \in 1 .. k : a[i] = t[i]
    BY <2>2, <2>3 DEF SplitSo
  <2>5. \A i \in 1 .. k : a[i] = form[i]
    BY <1>6, <2>4
  <2>6. a = form
    BY <1>2, <1>4, <2>4, <2>5, SeqEqual
  <2> QED
    BY <2>3, <2>6
<1>12. FormAt(t, 1)
  <2>1. PICK p : p = ReadCodePointPrefix(SubSeq(t, 1, Len(t)))
    OBVIOUS
  <2>2. p.length = k /\ p.codePoint = c
    <3>1. p = ReadCodePointPrefix(t)
      BY <1>10, <2>1
    <3>2. p = [length |-> k, codePoint |-> c]
      BY <1>9, <3>1
    <3> QED
      BY <3>2
  <2>3. k > 0 /\ 1 + k - 1 = k
    OBVIOUS
  <2> QED
    BY <1>1, <1>7, <1>11, <2>1, <2>2, <2>3 DEF FormAt
<1>13. ReadCodePointPrefix(t).length + 1 = k + 1
  BY <1>9
<1>14. ValidSo(t)
  BY <1>5, ValidUnfolds
<1> QED
  BY <1>1, <1>3, <1>5, <1>12, <1>13, <1>14 DEF ValidSo

\* Valid strings one after the other are a valid string.
LEMMA ValidJoins ==
  ASSUME NEW s \in Seq(Int), IsStructurallyValidUtf8(s),
         NEW t \in Seq(Int), IsStructurallyValidUtf8(t)
  PROVE  IsStructurallyValidUtf8(s \o t)
<1> DEFINE T == {n \in Nat : \A a \in Seq(Int) :
                   Len(a) <= n /\ IsStructurallyValidUtf8(a) => IsStructurallyValidUtf8(a \o t)}
<1>1. ASSUME NEW a \in Seq(Int), Len(a) <= 0
      PROVE  a \o t = t
  <2>1. Len(a) = 0
    BY <1>1
  <2>2. a = <<>>
    BY <2>1
  <2> QED
    BY <2>2
<1>2. 0 \in T
  BY <1>1
<1>3. ASSUME NEW n \in T
      PROVE  n + 1 \in T
  <2>1. ASSUME NEW a \in Seq(Int), Len(a) <= n + 1, IsStructurallyValidUtf8(a)
        PROVE  IsStructurallyValidUtf8(a \o t)
    <3>1. CASE a = <<>>
      <4>1. a \o t = t
        BY <3>1
      <4> QED
        BY <4>1
    <3>2. CASE a # <<>>
      <4>1. PICK p : p = ReadCodePointPrefix(a)
        OBVIOUS
      <4>2. /\ p.length \in 1 .. 4 /\ p.length <= Len(a) /\ IsScalarValue(p.codePoint)
            /\ WriteCodePointToBuffer(p.codePoint) = SubSeq(a, 1, p.length)
            /\ IsStructurallyValidUtf8(From(a, p.length + 1))
        BY <2>1, <3>2, <4>1, ValidStarts DEF StartsValid
      <4>3. PICK k \in 1 .. 4 : k = p.length
        BY <4>2
      <4>4. PICK form, u : form = SubSeq(a, 1, k) /\ u = From(a, k + 1)
        OBVIOUS
      <4>5. /\ form \in Seq(Int) /\ u \in Seq(Int) /\ Len(u) = Len(a) - k /\ a = form \o u
        <5>1. k \in 0 .. Len(a)
          BY <4>2, <4>3
        <5>2. SplitSo(a, k)
          BY <5>1, SplitAt
        <5> QED
          BY <4>4, <5>2 DEF SplitSo
      <4>6. Len(u) <= n
        <5>1. PICK l \in Nat : l = Len(a)
          OBVIOUS
        <5>2. l - k <= n
          BY <2>1, <5>1
        <5> QED
          BY <4>5, <5>1, <5>2
      <4>7. IsStructurallyValidUtf8(u \o t)
        <5>1. IsStructurallyValidUtf8(u)
          BY <4>2, <4>3, <4>4
        <5> QED
          BY <4>5, <4>6, <5>1
      <4>8. PICK v : v = u \o t
        OBVIOUS
      <4>9. v \in Seq(Int)
        <5>1. AfterIt(u, t)
          BY <4>5, AfterPart
        <5> QED
          BY <4>8, <5>1 DEF AfterIt
      <4>10. form = WriteCodePointToBuffer(p.codePoint)
        BY <4>2, <4>3, <4>4
      <4>11. IsStructurallyValidUtf8(form \o v)
        BY <4>2, <4>7, <4>8, <4>9, <4>10, ValidGrows
      <4>12. a \o t = form \o v
        <5>1. Together(form, u, t)
          BY <4>5, PartsTogether
        <5> QED
          BY <4>5, <4>8, <5>1 DEF Together
      <4> QED
        BY <4>11, <4>12
    <3> QED
      BY <3>1, <3>2
  <2>2. n + 1 \in Nat
    OBVIOUS
  <2> QED
    BY <2>1, <2>2
<1>4. T = Nat
  <2>1. T \in SUBSET Nat /\ 0 \in T /\ \A n \in T : n + 1 \in T
    BY <1>2, <1>3
  <2> HIDE DEF T
  <2> QED
    BY <2>1, Induction
<1>5. Len(s) \in T /\ Len(s) <= Len(s)
  BY <1>4
<1> QED
  BY <1>5

-----------------------------------------------------------------------------
(* Texts that spell a string, and what the reader finds in them.           *)

\* The ways to write in a text what the reader takes in one turn: a byte as it is, a
\* short escape, \u and four digits, and two of these; and the bytes they stand for.
FourDigits(c, x) ==
  /\ c \in Seq(Int) /\ Len(c) = 6 /\ c[1] = Backslash /\ c[2] = LetterU
  /\ IsHexDigit(c[3]) /\ IsHexDigit(c[4]) /\ IsHexDigit(c[5]) /\ IsHexDigit(c[6])
  /\ EscapeValue(c) = x

AsIs(c, d) == c \in Seq(Int) /\ Len(c) = 1 /\ c[1] \notin {Quote, Backslash} /\ d = c

Short(c, d) ==
  \E e \in ReaderEscapes :
    c \in Seq(Int) /\ Len(c) = 2 /\ c[1] = Backslash /\ c[2] = e[1] /\ d = <<e[2]>>

CodePoint(c, d) == \E x : FourDigits(c, x) /\ ~ IsHighSurrogate(x) /\ d = WriteCodePointToBuffer(x)

Pair(c, d) ==
  \E h, l, x, y :
    /\ FourDigits(h, x) /\ FourDigits(l, y) /\ IsHighSurrogate(x) /\ IsLowSurrogate(y)
    /\ c = h \o l /\ d = WriteCodePointToBuffer(DecodeSurrogatePair(x, y))

Chunk(c, d) ==
  /\ c \in Seq(Int) /\ d \in Seq(Int)
  /\ AsIs(c, d) \/ Short(c, d) \/ CodePoint(c, d) \/ Pair(c, d)

\* t is a text of chunks that stand for b.
ChunkByChunk(R) ==
  /\ <<<<>>, <<>>>> \in R
  /\ \A c, d, t, b : Chunk(c, d) /\ <<t, b>> \in R => <<c \o t, d \o b>> \in R

TextPairs == Seq(Int) \X Seq(Int)

Spells(t, b) ==
  /\ t \in Seq(Int) /\ b \in Seq(Int)
  /\ \A R \in SUBSET TextPairs : ChunkByChunk(R) => <<t, b>> \in R

LEMMA SpellsNothing == Spells(<<>>, <<>>)
<1>1. <<>> \in Seq(Int)
  OBVIOUS
<1> QED
  BY <1>1 DEF Spells, ChunkByChunk

LEMMA SpellsMore ==
  ASSUME NEW t, NEW b, Spells(t, b), NEW c, NEW d, Chunk(c, d)
  PROVE  Spells(c \o t, d \o b)
<1>1. c \o t \in Seq(Int) /\ d \o b \in Seq(Int)
  <2>1. t \in Seq(Int) /\ b \in Seq(Int)
    BY DEF Spells
  <2>2. c \in Seq(Int) /\ d \in Seq(Int)
    BY DEF Chunk
  <2>3. AfterIt(c, t) /\ AfterIt(d, b)
    BY <2>1, <2>2, AfterPart
  <2> QED
    BY <2>3 DEF AfterIt
<1>2. ASSUME NEW R \in SUBSET TextPairs, ChunkByChunk(R)
      PROVE  <<c \o t, d \o b>> \in R
  <2>1. <<t, b>> \in R
    BY <1>2 DEF Spells
  <2> QED
    BY <1>2, <2>1 DEF ChunkByChunk
<1> QED
  BY <1>1, <1>2 DEF Spells

\* A text that spells something is empty or begins with a chunk.
BeginsWithChunk(t, b) ==
  \E c, d, u, e : Chunk(c, d) /\ Spells(u, e) /\ t = c \o u /\ b = d \o e

LEMMA SpellsBegins ==
  ASSUME NEW t, NEW b, Spells(t, b)
  PROVE  (t = <<>> /\ b = <<>>) \/ BeginsWithChunk(t, b)
<1> DEFINE P(u, e) == (u = <<>> /\ e = <<>>) \/ BeginsWithChunk(u, e)
           R == {p \in TextPairs : Spells(p[1], p[2]) /\ P(p[1], p[2])}
<1>1. \A u, e : <<u, e>> \in R <=> u \in Seq(Int) /\ e \in Seq(Int) /\ Spells(u, e) /\ P(u, e)
  <2> HIDE DEF P
  <2> QED
    BY DEF TextPairs
<1>2. R \in SUBSET TextPairs
  OBVIOUS
<1> HIDE DEF R
<1>3. <<<<>>, <<>>>> \in R
  <2>1. <<>> \in Seq(Int)
    OBVIOUS
  <2> QED
    BY <1>1, <2>1, SpellsNothing
<1>4. ASSUME NEW c, NEW d, NEW u, NEW e, Chunk(c, d), <<u, e>> \in R
      PROVE  <<c \o u, d \o e>> \in R
  <2>1. Spells(u, e)
    BY <1>1, <1>4
  <2>2. PICK v, f : v = c \o u /\ f = d \o e
    OBVIOUS
  <2>3. Spells(v, f)
    <3>1. Spells(c \o u, d \o e)
      BY <1>4, <2>1, SpellsMore
    <3> QED
      BY <2>2, <3>1
  <2>4. v \in Seq(Int) /\ f \in Seq(Int)
    BY <2>3 DEF Spells
  <2>5. BeginsWithChunk(v, f)
    BY <1>4, <2>1, <2>2 DEF BeginsWithChunk
  <2> QED
    BY <1>1, <2>2, <2>3, <2>4, <2>5
<1>5. ChunkByChunk(R)
  BY <1>3, <1>4 DEF ChunkByChunk
<1>6. <<t, b>> \in R
  BY <1>2, <1>5 DEF Spells
<1>7. P(t, b)
  BY <1>1, <1>6
<1> QED
  BY <1>7

\* Texts one after the other spell what they spell, one after the other.
LEMMA SpellsJoin ==
  ASSUME NEW t, NEW b, Spells(t, b), NEW u, NEW e, Spells(u, e)
  PROVE  Spells(t \o u, b \o e)
<1>1. t \in Seq(Int) /\ b \in Seq(Int) /\ u \in Seq(Int) /\ e \in Seq(Int)
  BY DEF Spells
<1> DEFINE R == {p \in TextPairs : Spells(p[1] \o u, p[2] \o e)}
<1>2. \A v, f : <<v, f>> \in R <=> v \in Seq(Int) /\ f \in Seq(Int) /\ Spells(v \o u, f \o e)
  BY DEF TextPairs
<1>3. R \in SUBSET TextPairs
  OBVIOUS
<1> HIDE DEF R
<1>4. <<<<>>, <<>>>> \in R
  <2>1. <<>> \in Seq(Int) /\ <<>> \o u = u /\ <<>> \o e = e
    BY <1>1
  <2>2. PICK o : o = <<>>
    OBVIOUS
  <2>3. o \in Seq(Int) /\ Spells(o \o u, o \o e)
    BY <2>1, <2>2
  <2>4. <<o, o>> \in R
    BY <1>2, <2>3
  <2> QED
    BY <2>2, <2>4
<1>5. ASSUME NEW c, NEW d, NEW v, NEW f, Chunk(c, d), <<v, f>> \in R
      PROVE  <<c \o v, d \o f>> \in R
  <2>1. v \in Seq(Int) /\ f \in Seq(Int) /\ Spells(v \o u, f \o e)
    BY <1>2, <1>5
  <2>2. c \in Seq(Int) /\ d \in Seq(Int)
    BY <1>5 DEF Chunk
  <2>3. Spells(c \o (v \o u), d \o (f \o e))
    BY <1>5, <2>1, SpellsMore
  <2>4. Together(c, v, u) /\ Together(d, f, e)
    BY <1>1, <2>1, <2>2, PartsTogether
  <2>5. Spells((c \o v) \o u, (d \o f) \o e)
    BY <2>3, <2>4 DEF Together
  <2>6. c \o v \in Seq(Int) /\ d \o f \in Seq(Int)
    <3>1. AfterIt(c, v) /\ AfterIt(d, f)
      BY <2>1, <2>2, AfterPart
    <3> QED
      BY <3>1 DEF AfterIt
  <2> QED
    BY <1>2, <2>5, <2>6
<1>6. ChunkByChunk(R)
  BY <1>4, <1>5 DEF ChunkByChunk
<1>7. <<t, b>> \in R
  BY <1>3, <1>6 DEF Spells
<1> QED
  BY <1>2, <1>7

LEMMA SpellsChunk ==
  ASSUME NEW c, NEW d, Chunk(c, d)
  PROVE  Spells(c, d)
<1>1. Spells(c \o <<>>, d \o <<>>)
  BY SpellsNothing, SpellsMore
<1>2. c \in Seq(Int) /\ d \in Seq(Int)
  BY DEF Chunk
<1>3. c \o <<>> = c /\ d \o <<>> = d
  BY <1>2
<1> QED
  BY <1>1, <1>3

\* What a text begins with that goes on with v after \u and four digits.
EscapeSo(r, x, v) ==
  /\ r \in Seq(Int) /\ r # <<>> /\ Len(r) >= 6 /\ r[1] = Backslash /\ r[2] = LetterU
  /\ StartsEscape(r) /\ EscapeValue(r) = x /\ From(r, 7) = v

LEMMA EscapeIs ==
  ASSUME NEW c, NEW x, FourDigits(c, x), NEW v \in Seq(Int)
  PROVE  EscapeSo(c \o v, x, v)
<1>1. /\ c \in Seq(Int) /\ Len(c) = 6 /\ c[1] = Backslash /\ c[2] = LetterU
      /\ IsHexDigit(c[3]) /\ IsHexDigit(c[4]) /\ IsHexDigit(c[5]) /\ IsHexDigit(c[6])
      /\ EscapeValue(c) = x
  BY DEF FourDigits
<1>2. PICK r : r = c \o v
  OBVIOUS
<1>3. JoinSo(r, c, v)
  BY <1>1, <1>2, JoinIs
<1>4. /\ r \in Seq(Int) /\ Len(r) = 6 + Len(v)
      /\ \A i \in 1 .. 6 : r[i] = c[i]
  BY <1>1, <1>3 DEF JoinSo
<1>5. Len(v) \in Nat /\ Len(r) >= 6
  BY <1>4
<1>6. /\ r[1] = c[1] /\ r[2] = c[2] /\ r[3] = c[3] /\ r[4] = c[4] /\ r[5] = c[5]
      /\ r[6] = c[6]
  BY <1>4
<1>7. EscapeValue(r) = x
  BY <1>1, <1>6 DEF EscapeValue
<1>8. StartsEscape(r)
  <2>1. \A i \in 3 .. 6 : i = 3 \/ i = 4 \/ i = 5 \/ i = 6
    OBVIOUS
  <2>2. \A i \in 3 .. 6 : IsHexDigit(r[i])
    BY <1>1, <1>6, <2>1
  <2> QED
    BY <1>1, <1>5, <1>6, <2>2 DEF StartsEscape
<1>9. From(r, 7) = v
  <2>1. AfterIt(c, v)
    BY <1>1, AfterPart
  <2>2. Len(c) + 1 = 7
    BY <1>1
  <2> QED
    BY <1>2, <2>1, <2>2 DEF AfterIt
<1>10. r # <<>>
  <2>1. AtLeastOne(r)
    BY <1>4, <1>5, LongEnough
  <2> QED
    BY <2>1 DEF AtLeastOne
<1> QED
  BY <1>1, <1>2, <1>4, <1>5, <1>6, <1>7, <1>8, <1>9, <1>10 DEF EscapeSo

\* What the reader finds at a chunk: its kind, what it stands for, and where the text
\* goes on.
AsIsFound(r, d, v) ==
  /\ r # <<>> /\ Head(r) = r[1] /\ r[1] \notin {Quote, Backslash} /\ d = <<r[1]>>
  /\ From(r, 2) = v

ShortFound(r, d, v) ==
  /\ r # <<>> /\ Head(r) = Backslash /\ Len(r) >= 2
  /\ \E e \in ReaderEscapes : r[2] = e[1] /\ d = <<e[2]>>
  /\ From(r, 3) = v

CodePointFound(r, d, v) ==
  /\ r # <<>> /\ Head(r) = Backslash /\ r[2] = LetterU /\ StartsEscape(r)
  /\ ~ IsHighSurrogate(EscapeValue(r)) /\ d = WriteCodePointToBuffer(EscapeValue(r))
  /\ From(r, 7) = v

PairFound(r, d, v) ==
  /\ r # <<>> /\ Head(r) = Backslash /\ r[2] = LetterU /\ StartsEscape(r)
  /\ IsHighSurrogate(EscapeValue(r)) /\ StartsEscape(From(r, 7))
  /\ IsLowSurrogate(EscapeValue(From(r, 7)))
  /\ d = WriteCodePointToBuffer(DecodeSurrogatePair(EscapeValue(r), EscapeValue(From(r, 7))))
  /\ From(r, 13) = v

ChunkFound(r, d, v) ==
  AsIsFound(r, d, v) \/ ShortFound(r, d, v) \/ CodePointFound(r, d, v) \/ PairFound(r, d, v)

\* What follows what follows.
LEMMA FromFrom ==
  ASSUME NEW r \in Seq(Int), Len(r) >= 12
  PROVE  From(From(r, 7), 7) = From(r, 13)
<1>1. PICK n \in Nat : n = Len(r)
  OBVIOUS
<1>2. PICK f : f = From(r, 6 + 1)
  OBVIOUS
<1>3. 6 \in 0 .. Len(r) /\ 7 \in 1 .. Len(r) - 6 + 1 /\ Len(r) - 6 \in 7 - 1 .. Len(r) - 6
  BY <1>1
<1>4. SubSeq(f, 7, n - 6) = SubSeq(r, 7 + 6, (n - 6) + 6)
  BY <1>1, <1>2, <1>3, PieceOfRest
<1>5. Len(f) = n - 6
  <2>1. SplitSo(r, 6)
    BY <1>3, SplitAt
  <2> QED
    BY <1>1, <1>2, <2>1 DEF SplitSo
<1>6. (n - 6) + 6 = n /\ 7 + 6 = 13 /\ 6 + 1 = 7
  OBVIOUS
<1> QED
  BY <1>1, <1>2, <1>4, <1>5, <1>6 DEF From

LEMMA ChunkIsFound ==
  ASSUME NEW c, NEW d, Chunk(c, d), NEW v \in Seq(Int)
  PROVE  ChunkFound(c \o v, d, v)
<1>1. PICK r : r = c \o v
  OBVIOUS
<1>2. c \in Seq(Int) /\ d \in Seq(Int)
  BY DEF Chunk
<1>3. /\ r \in Seq(Int) /\ Len(r) = Len(c) + Len(v)
      /\ \A i \in 1 .. Len(c) : r[i] = c[i]
      /\ From(r, Len(c) + 1) = v
  <2>1. JoinSo(r, c, v)
    BY <1>1, <1>2, JoinIs
  <2>2. AfterIt(c, v)
    BY <1>2, AfterPart
  <2> QED
    BY <1>1, <2>1, <2>2 DEF JoinSo, AfterIt
<1>4. Len(v) \in Nat
  OBVIOUS
<1>5. CASE AsIs(c, d)
  <2>1. Len(c) = 1 /\ c[1] \notin {Quote, Backslash} /\ d = c
    BY <1>5 DEF AsIs
  <2>2. r[1] = c[1] /\ From(r, 2) = v /\ Len(r) >= 1
    <3>1. 1 \in 1 .. Len(c) /\ Len(c) + 1 = 2 /\ 1 + Len(v) >= 1
      BY <1>4, <2>1
    <3> QED
      BY <1>3, <2>1, <3>1
  <2>3. AtLeastOne(r)
    BY <1>3, <2>2, LongEnough
  <2>4. r # <<>> /\ Head(r) = r[1]
    BY <1>3, <2>3 DEF AtLeastOne
  <2>5. c = <<c[1]>>
    BY <1>2, <2>1
  <2>6. AsIsFound(r, d, v)
    BY <2>1, <2>2, <2>4, <2>5 DEF AsIsFound
  <2> QED
    BY <1>1, <2>6 DEF ChunkFound
<1>6. CASE Short(c, d)
  <2>1. PICK e \in ReaderEscapes : Len(c) = 2 /\ c[1] = Backslash /\ c[2] = e[1] /\ d = <<e[2]>>
    BY <1>6 DEF Short
  <2>2. r[1] = c[1] /\ r[2] = c[2] /\ From(r, 3) = v /\ Len(r) >= 2 /\ Len(r) >= 1
    <3>1. 1 \in 1 .. Len(c) /\ 2 \in 1 .. Len(c) /\ Len(c) + 1 = 3 /\ 2 + Len(v) >= 2
      BY <1>4, <2>1
    <3>2. 2 + Len(v) >= 1
      BY <1>4
    <3> QED
      BY <1>3, <2>1, <3>1, <3>2
  <2>3. AtLeastOne(r)
    BY <1>3, <2>2, LongEnough
  <2>4. r # <<>> /\ Head(r) = r[1]
    BY <1>3, <2>3 DEF AtLeastOne
  <2>6. ShortFound(r, d, v)
    BY <2>1, <2>2, <2>4 DEF ShortFound
  <2> QED
    BY <1>1, <2>6 DEF ChunkFound
<1>7. CASE CodePoint(c, d)
  <2>1. PICK x : FourDigits(c, x) /\ ~ IsHighSurrogate(x) /\ d = WriteCodePointToBuffer(x)
    BY <1>7 DEF CodePoint
  <2>2. EscapeSo(r, x, v)
    BY <1>1, <2>1, EscapeIs
  <2>3. /\ r \in Seq(Int) /\ r # <<>> /\ r[1] = Backslash /\ r[2] = LetterU
        /\ StartsEscape(r) /\ EscapeValue(r) = x /\ From(r, 7) = v
    BY <2>2 DEF EscapeSo
  <2>4. Head(r) = r[1]
    BY <2>3
  <2>5. CodePointFound(r, d, v)
    BY <2>1, <2>3, <2>4 DEF CodePointFound
  <2> QED
    BY <1>1, <2>5 DEF ChunkFound
<1>8. CASE Pair(c, d)
  <2>1. PICK h, l, x, y :
          /\ FourDigits(h, x) /\ FourDigits(l, y) /\ IsHighSurrogate(x) /\ IsLowSurrogate(y)
          /\ c = h \o l /\ d = WriteCodePointToBuffer(DecodeSurrogatePair(x, y))
    BY <1>8 DEF Pair
  <2>2. h \in Seq(Int) /\ l \in Seq(Int)
    BY <2>1 DEF FourDigits
  <2>3. PICK u : u = l \o v
    OBVIOUS
  <2>4. u \in Seq(Int)
    <3>1. AfterIt(l, v)
      BY <2>2, AfterPart
    <3> QED
      BY <2>3, <3>1 DEF AfterIt
  <2>5. r = h \o u
    <3>1. Together(h, l, v)
      BY <2>2, PartsTogether
    <3> QED
      BY <1>1, <2>1, <2>3, <3>1 DEF Together
  <2>6. EscapeSo(r, x, u)
    BY <2>1, <2>4, <2>5, EscapeIs
  <2>7. EscapeSo(u, y, v)
    BY <2>1, <2>3, EscapeIs
  <2>8. /\ r # <<>> /\ r[1] = Backslash /\ r[2] = LetterU
        /\ StartsEscape(r) /\ EscapeValue(r) = x /\ From(r, 7) = u
    BY <2>6 DEF EscapeSo
  <2>9. StartsEscape(u) /\ EscapeValue(u) = y /\ From(u, 7) = v /\ Len(u) >= 6
    BY <2>7 DEF EscapeSo
  <2>10. From(r, 13) = v
    <3>1. JoinSo(r, h, u)
      BY <2>2, <2>4, <2>5, JoinIs
    <3>2. Len(r) = 6 + Len(u)
      BY <2>1, <3>1 DEF JoinSo, FourDigits
    <3>3. Len(r) >= 12
      BY <2>4, <2>9, <3>2
    <3>4. From(From(r, 7), 7) = From(r, 13)
      BY <1>3, <3>3, FromFrom
    <3> QED
      BY <2>8, <2>9, <3>4
  <2>11. Head(r) = r[1]
    BY <1>3, <2>8
  <2>12. PairFound(r, d, v)
    BY <2>1, <2>8, <2>9, <2>10, <2>11 DEF PairFound
  <2> QED
    BY <1>1, <2>12 DEF ChunkFound
<1> QED
  BY <1>5, <1>6, <1>7, <1>8 DEF Chunk

\* One turn of the reader.
ReaderTurn ==
  \/ ReadClosingQuote \/ ReadAsIs \/ ReadShortEscape \/ ReadUnicodeEscape \/ ReadNothing

readerKeeps == <<str, escapeUnicode, allowControl, origin, offset, output>>

\* It takes the chunk, unless that is a control character and they are not allowed.
Taken(d, v) ==
  /\ UNCHANGED readerKeeps
  /\ \/ result' = result \o d /\ remaining' = v /\ phase' = phase
     \/ phase' = "failed" /\ ~ allowControl /\ remaining[1] < 32

LEMMA ChunkIsTaken ==
  ASSUME phase = "reading", NEW d, NEW v, remaining # <<>>, ChunkFound(remaining, d, v), ReaderTurn
  PROVE  Taken(d, v)
<1>1. First = <<Head(remaining)>>
  BY DEF First
<1>2. CASE AsIsFound(remaining, d, v)
  <2>1. /\ Head(remaining) = remaining[1] /\ remaining[1] \notin {Quote, Backslash}
        /\ d = <<remaining[1]>> /\ From(remaining, 2) = v
    BY <1>2 DEF AsIsFound
  <2>2. First # <<Quote>> /\ First # <<Backslash>> /\ First # <<>> /\ First = d
    BY <1>1, <2>1
  <2>3. ~ StartsEscape(remaining)
    BY <2>1 DEF StartsEscape
  <2>4. ReadAsIs
    BY <2>2, <2>3 DEF ReaderTurn, ReadClosingQuote, ReadShortEscape, ReadUnicodeEscape,
                      ReadNothing
  <2>5. \/ Head(remaining) < 32 /\ ~ allowControl /\ Ends("failed")
        \/ Read(First, 1)
    BY <2>4 DEF ReadAsIs
  <2>6. CASE Head(remaining) < 32 /\ ~ allowControl /\ Ends("failed")
    BY <2>1, <2>6 DEF Ends, Taken, readerKeeps
  <2>7. CASE Read(First, 1)
    <3>1. 1 + 1 = 2
      OBVIOUS
    <3>2. remaining' = From(remaining, 2) /\ result' = result \o d /\ phase' = phase
      BY <2>2, <2>7, <3>1 DEF Read, From
    <3> QED
      BY <2>1, <2>7, <3>2 DEF Read, Taken, readerKeeps
  <2> QED
    BY <2>5, <2>6, <2>7
<1>3. CASE ShortFound(remaining, d, v)
  <2>1. Head(remaining) = Backslash /\ Len(remaining) >= 2 /\ From(remaining, 3) = v
    BY <1>3 DEF ShortFound
  <2>2. PICK e \in ReaderEscapes : remaining[2] = e[1] /\ d = <<e[2]>>
    BY <1>3 DEF ShortFound
  <2>3. /\ First = <<Backslash>> /\ First # <<Quote>> /\ First # <<>>
    BY <1>1, <2>1 DEF Backslash, Quote
  <2>4. \A f \in ReaderEscapes : f[1] # LetterU /\ (f[1] = e[1] => f[2] = e[2])
    BY DEF ReaderEscapes, LetterU
  <2>5. ~ StartsEscape(remaining)
    BY <2>2, <2>4 DEF StartsEscape
  <2>6. ReadShortEscape
    BY <2>1, <2>2, <2>3, <2>5 DEF ReaderTurn, ReadClosingQuote, ReadAsIs, ReadUnicodeEscape,
                                  ReadNothing
  <2>7. PICK f \in ReaderEscapes : f[1] = remaining[2] /\ Read(<<f[2]>>, 2)
    BY <2>6 DEF ReadShortEscape
  <2>8. d = <<f[2]>>
    BY <2>2, <2>4, <2>7
  <2>9. 2 + 1 = 3
    OBVIOUS
  <2>10. remaining' = From(remaining, 3) /\ result' = result \o d /\ phase' = phase
    BY <2>7, <2>8, <2>9 DEF Read, From
  <2> QED
    BY <2>1, <2>7, <2>10 DEF Read, Taken, readerKeeps
<1>4. ASSUME Head(remaining) = Backslash, remaining[2] = LetterU, StartsEscape(remaining)
      PROVE  ReadUnicodeEscape
  <2>1. First = <<Backslash>> /\ First # <<Quote>> /\ First # <<>>
    BY <1>1, <1>4 DEF Backslash, Quote
  <2>2. \A f \in ReaderEscapes : f[1] # LetterU
    BY DEF ReaderEscapes, LetterU
  <2> QED
    BY <1>4, <2>1, <2>2 DEF ReaderTurn, ReadClosingQuote, ReadAsIs, ReadShortEscape, ReadNothing
<1>5. CASE CodePointFound(remaining, d, v)
  <2>1. /\ Head(remaining) = Backslash /\ remaining[2] = LetterU /\ StartsEscape(remaining)
        /\ ~ IsHighSurrogate(EscapeValue(remaining))
        /\ d = WriteCodePointToBuffer(EscapeValue(remaining))
        /\ From(remaining, 7) = v
    BY <1>5 DEF CodePointFound
  <2>2. Read(d, 6)
    BY <1>4, <2>1 DEF ReadUnicodeEscape
  <2>3. 6 + 1 = 7
    OBVIOUS
  <2>4. remaining' = From(remaining, 7) /\ result' = result \o d /\ phase' = phase
    BY <2>2, <2>3 DEF Read, From
  <2> QED
    BY <2>1, <2>2, <2>4 DEF Read, Taken, readerKeeps
<1>6. CASE PairFound(remaining, d, v)
  <2>1. /\ Head(remaining) = Backslash /\ remaining[2] = LetterU /\ StartsEscape(remaining)
        /\ IsHighSurrogate(EscapeValue(remaining)) /\ StartsEscape(From(remaining, 7))
        /\ IsLowSurrogate(EscapeValue(From(remaining, 7)))
        /\ d = WriteCodePointToBuffer(DecodeSurrogatePair(EscapeValue(remaining),
                                                          EscapeValue(From(remaining, 7))))
        /\ From(remaining, 13) = v
    BY <1>6 DEF PairFound
  <2>2. Read(d, 12)
    BY <1>4, <2>1 DEF ReadUnicodeEscape, From
  <2>3. 12 + 1 = 13
    OBVIOUS
  <2>4. remaining' = From(remaining, 13) /\ result' = result \o d /\ phase' = phase
    BY <2>2, <2>3 DEF Read, From
  <2> QED
    BY <2>1, <2>2, <2>4 DEF Read, Taken, readerKeeps
<1> QED
  BY <1>2, <1>3, <1>5, <1>6 DEF ChunkFound

\* What the reader finds where a text is cut within a chunk.
CutFound(r) ==
  /\ Head(r) = Backslash
  /\ Len(r) >= 2 => r[2] = LetterU
  /\ StartsEscape(r) => IsHighSurrogate(EscapeValue(r)) /\ ~ StartsEscape(From(r, 7))

LEMMA CutIsFound ==
  ASSUME NEW c, NEW d, Chunk(c, d), NEW r \in Seq(Int), r # <<>>, NEW u \in Seq(Int), u # <<>>,
         c = r \o u
  PROVE  CutFound(r)
<1>1. JoinSo(c, r, u)
  BY JoinIs
<1>2. /\ Len(c) = Len(r) + Len(u)
      /\ \A i \in 1 .. Len(r) : c[i] = r[i]
  BY <1>1 DEF JoinSo
<1>3. Len(r) \in Nat /\ Len(r) >= 1 /\ Len(u) \in Nat /\ Len(u) >= 1
  BY NotEmpty DEF AtLeastOne
<1>4. Head(r) = r[1] /\ c[1] = r[1] /\ Len(r) < Len(c) /\ Len(c) \in Nat
  BY <1>2, <1>3
<1>5. Len(r) >= 2 => c[2] = r[2]
  BY <1>2, <1>3
<1>6. CASE AsIs(c, d)
  <2>1. Len(c) = 1
    BY <1>6 DEF AsIs
  <2> QED
    BY <1>2, <1>3, <2>1
<1>7. CASE Short(c, d)
  <2>1. Len(c) = 2 /\ c[1] = Backslash
    BY <1>7 DEF Short
  <2>2. ~ (Len(r) >= 2) /\ ~ (Len(r) >= 6)
    BY <1>2, <1>3, <2>1
  <2>3. ~ StartsEscape(r)
    BY <2>2 DEF StartsEscape
  <2> QED
    BY <1>4, <2>1, <2>2, <2>3 DEF CutFound
<1>8. CASE CodePoint(c, d)
  <2>1. Len(c) = 6 /\ c[1] = Backslash /\ c[2] = LetterU
    BY <1>8 DEF CodePoint, FourDigits
  <2>2. ~ (Len(r) >= 6)
    BY <1>2, <1>3, <2>1
  <2>3. ~ StartsEscape(r)
    BY <2>2 DEF StartsEscape
  <2> QED
    BY <1>4, <1>5, <2>1, <2>3 DEF CutFound
<1>9. CASE Pair(c, d)
  <2>1. PICK h, l, x, y :
          /\ FourDigits(h, x) /\ FourDigits(l, y) /\ IsHighSurrogate(x)
          /\ c = h \o l
    BY <1>9 DEF Pair
  <2>2. /\ h \in Seq(Int) /\ Len(h) = 6 /\ l \in Seq(Int) /\ Len(l) = 6
        /\ h[1] = Backslash /\ h[2] = LetterU /\ EscapeValue(h) = x
    BY <2>1 DEF FourDigits
  <2>3. JoinSo(c, h, l)
    BY <2>1, <2>2, JoinIs
  <2>4. Len(c) = 12 /\ \A i \in 1 .. 6 : c[i] = h[i]
    <3>1. Len(c) = Len(h) + Len(l) /\ \A i \in 1 .. Len(h) : c[i] = h[i]
      BY <2>3 DEF JoinSo
    <3>2. Len(h) + Len(l) = 12
      BY <2>2
    <3>3. 1 .. Len(h) = 1 .. 6
      BY <2>2
    <3> QED
      BY <3>1, <3>2, <3>3
  <2>5. c[1] = Backslash /\ c[2] = LetterU
    <3>1. 1 \in 1 .. 6 /\ 2 \in 1 .. 6
      OBVIOUS
    <3>2. c[1] = h[1] /\ c[2] = h[2]
      BY <2>4, <3>1
    <3> QED
      BY <2>2, <3>2
  <2>6. ASSUME StartsEscape(r)
        PROVE  IsHighSurrogate(EscapeValue(r)) /\ ~ StartsEscape(From(r, 7))
    <3>1. Len(r) >= 6
      BY <2>6 DEF StartsEscape
    <3>2. \A i \in 1 .. 6 : r[i] = h[i]
      <4>1. \A i \in 1 .. 6 : i \in 1 .. Len(r)
        BY <1>3, <3>1
      <4> QED
        BY <1>2, <2>4, <4>1
    <3>3. r[3] = h[3] /\ r[4] = h[4] /\ r[5] = h[5] /\ r[6] = h[6]
      BY <3>2
    <3>4. EscapeValue(r) = x
      BY <2>2, <3>3 DEF EscapeValue
    <3>5. Len(r) < 12
      BY <1>4, <2>4
    <3>6. SplitSo(r, 6)
      <4>1. 6 \in 0 .. Len(r)
        BY <1>3, <3>1
      <4> QED
        BY <4>1, SplitAt
    <3>7. PICK f : f = From(r, 7)
      OBVIOUS
    <3>8. Len(f) = Len(r) - 6
      <4>1. 6 + 1 = 7
        OBVIOUS
      <4> QED
        BY <3>6, <3>7, <4>1 DEF SplitSo
    <3>9. ~ (Len(f) >= 6)
      BY <1>3, <3>5, <3>8
    <3>10. ~ StartsEscape(f)
      BY <3>9 DEF StartsEscape
    <3> QED
      BY <2>1, <3>4, <3>7, <3>10
  <2> QED
    BY <1>4, <1>5, <2>5, <2>6 DEF CutFound
<1> QED
  BY <1>6, <1>7, <1>8, <1>9 DEF Chunk

LEMMA CutFails ==
  ASSUME phase = "reading", remaining # <<>>, CutFound(remaining), ReaderTurn
  PROVE  phase' = "failed" /\ UNCHANGED readerKeeps
<1>1. First = <<Backslash>>
  BY DEF First, CutFound
<1>2. First # <<Quote>> /\ First # <<>>
  BY <1>1 DEF Backslash, Quote
<1>3. \A f \in ReaderEscapes : f[1] # LetterU
  BY DEF ReaderEscapes, LetterU
<1>4. ReadUnicodeEscape \/ ReadNothing
  BY <1>1, <1>2, <1>3 DEF ReaderTurn, ReadClosingQuote, ReadAsIs, ReadShortEscape, CutFound
<1>5. Ends("failed")
  <2>1. CASE ReadNothing
    BY <2>1 DEF ReadNothing
  <2>2. CASE ReadUnicodeEscape
    BY <2>2 DEF ReadUnicodeEscape, CutFound, From
  <2> QED
    BY <1>4, <2>1, <2>2
<1> QED
  BY <1>5 DEF Ends, readerKeeps

\* Where there is nothing left to read, the reader fails; at a quote it ends.
LEMMA NothingFails ==
  ASSUME phase = "reading", remaining = <<>>, ReaderTurn
  PROVE  phase' = "failed" /\ UNCHANGED readerKeeps
<1>1. First = <<>>
  BY DEF First
<1>2. <<>> # <<Quote>> /\ <<>> # <<Backslash>>
  OBVIOUS
<1>3. Len(remaining) = 0 /\ ~ (Len(remaining) >= 6)
  OBVIOUS
<1>4. ~ StartsEscape(remaining)
  BY <1>3 DEF StartsEscape
<1>5. ReadNothing
  BY <1>1, <1>2, <1>4 DEF ReaderTurn, ReadClosingQuote, ReadAsIs, ReadShortEscape,
                          ReadUnicodeEscape
<1> QED
  BY <1>5 DEF ReadNothing, Ends, readerKeeps

LEMMA QuoteEnds ==
  ASSUME phase = "reading", remaining = <<Quote>>, ReaderTurn
  PROVE  /\ phase' = IF IsStructurallyValidUtf8(result) THEN "read" ELSE "failed"
         /\ UNCHANGED <<readerKeeps, result>>
<1>1. First = <<Quote>> /\ First # <<Backslash>> /\ First # <<>>
  <2>1. remaining # <<>> /\ Head(remaining) = Quote
    OBVIOUS
  <2> QED
    BY <2>1 DEF First, Quote, Backslash
<1>2. ~ StartsEscape(remaining)
  <2>1. ~ (Len(remaining) >= 6)
    OBVIOUS
  <2> QED
    BY <2>1 DEF StartsEscape
<1>3. ReadClosingQuote
  BY <1>1, <1>2 DEF ReaderTurn, ReadAsIs, ReadShortEscape, ReadUnicodeEscape, ReadNothing
<1> QED
  BY <1>3 DEF ReadClosingQuote, Ends, readerKeeps

-----------------------------------------------------------------------------
(* What the writer makes of a string.                                      *)

\* A byte that is a digit, and what it stands for.
DigitFor(b, n) == b \in Int /\ b >= 32 /\ IsHexDigit(b) /\ ReadHexDigit(b) = n

LEMMA LowerDigit ==
  ASSUME NEW n \in 0 .. 15
  PROVE  DigitFor(IF n < 10 THEN 48 + n ELSE 87 + n, n)
BY SMTT(30) DEF DigitFor, IsHexDigit, ReadHexDigit

LEMMA UpperDigit ==
  ASSUME NEW n \in 0 .. 15
  PROVE  DigitFor(IF n < 10 THEN 48 + n ELSE n + 55, n)
BY SMTT(30) DEF DigitFor, IsHexDigit, ReadHexDigit

\* The four digits of a value of 16 bits.
FourHex(v, x, y, z, w) ==
  /\ x \in 0 .. 15 /\ y \in 0 .. 15 /\ z \in 0 .. 15 /\ w \in 0 .. 15
  /\ x * 4096 + y * 256 + z * 16 + w = v

SixteenBits(v) == v \in Nat /\ v < 65536

DigitsHas(v, x, y, z, w) ==
  x = (v \div 4096) % 16 /\ y = (v \div 256) % 16 /\ z = (v \div 16) % 16 /\ w = v % 16

LEMMA FourHexIs ==
  ASSUME NEW v, SixteenBits(v), NEW x, NEW y, NEW z, NEW w, DigitsHas(v, x, y, z, w)
  PROVE  FourHex(v, x, y, z, w)
BY SMTT(30) DEF FourHex, SixteenBits, DigitsHas

LEMMA TopDigit ==
  ASSUME NEW v, SixteenBits(v)
  PROVE  (v \div 4096) % 256 = (v \div 4096) % 16 /\ (v \div 1) % 16 = v % 16
BY SMTT(30) DEF SixteenBits

\* Texts that have no control characters.
Readable(t) == \A i \in 1 .. Len(t) : t[i] >= 32

LEMMA DigitsSpell ==
  ASSUME NEW v, NEW x, NEW y, NEW z, NEW w, FourHex(v, x, y, z, w),
         NEW a, NEW b, NEW c, NEW d,
         DigitFor(a, x), DigitFor(b, y), DigitFor(c, z), DigitFor(d, w)
  PROVE  /\ FourDigits(<<Backslash, LetterU, a, b, c, d>>, v)
         /\ Readable(<<Backslash, LetterU, a, b, c, d>>)
<1>1. PICK e : e = <<Backslash, LetterU, a, b, c, d>>
  OBVIOUS
<1>2. a \in Int /\ b \in Int /\ c \in Int /\ d \in Int /\ Backslash \in Int /\ LetterU \in Int
  BY DEF DigitFor, Backslash, LetterU
<1>3. e \in Seq(Int) /\ Len(e) = 6
  BY <1>1, <1>2
<1>4. /\ e[1] = Backslash /\ e[2] = LetterU /\ e[3] = a /\ e[4] = b /\ e[5] = c /\ e[6] = d
  BY <1>1
<1>5. EscapeValue(e) = v
  <2>1. EscapeValue(e) = x * 4096 + y * 256 + z * 16 + w
    BY <1>4 DEF EscapeValue, DigitFor
  <2> QED
    BY <2>1 DEF FourHex
<1>6. FourDigits(e, v)
  BY <1>3, <1>4, <1>5 DEF FourDigits, DigitFor
<1>7. Readable(e)
  <2>1. \A i \in 1 .. 6 : i = 1 \/ i = 2 \/ i = 3 \/ i = 4 \/ i = 5 \/ i = 6
    OBVIOUS
  <2>2. Backslash >= 32 /\ LetterU >= 32 /\ a >= 32 /\ b >= 32 /\ c >= 32 /\ d >= 32
    BY DEF DigitFor, Backslash, LetterU
  <2>3. \A i \in 1 .. 6 : e[i] >= 32
    BY <1>4, <2>1, <2>2
  <2> QED
    BY <1>3, <2>3 DEF Readable
<1> QED
  BY <1>1, <1>6, <1>7

\* What the writer makes of a value of 16 bits, and what others may.
EscapeFor(e, v) == FourDigits(e, v) /\ Readable(e)

LEMMA EscapedIs ==
  ASSUME NEW v, SixteenBits(v), NEW e \in Escaped(v)
  PROVE  EscapeFor(e, v)
<1>1. PICK x, y, z, w : DigitsHas(v, x, y, z, w)
  BY DEF DigitsHas
<1>2. FourHex(v, x, y, z, w)
  BY <1>1, FourHexIs
<1>3. (v \div 4096) % 256 = x
  BY <1>1, TopDigit DEF DigitsHas
<1>4. PICK a \in WriteHexDigit(x), b \in WriteHexDigit(y), c \in WriteHexDigit(z),
           d \in WriteHexDigit(w) : e = <<Backslash, LetterU, a, b, c, d>>
  BY <1>1, <1>3 DEF Escaped, DigitsHas
<1>5. \A n \in 0 .. 15 : \A f \in WriteHexDigit(n) : DigitFor(f, n)
  <2> SUFFICES ASSUME NEW n \in 0 .. 15, NEW f \in WriteHexDigit(n)
               PROVE  DigitFor(f, n)
    OBVIOUS
  <2>1. f = IF n < 10 THEN 48 + n ELSE 87 + n
    BY DEF WriteHexDigit, HexDigit
  <2> QED
    BY <2>1, LowerDigit
<1>6. DigitFor(a, x) /\ DigitFor(b, y) /\ DigitFor(c, z) /\ DigitFor(d, w)
  BY <1>2, <1>5 DEF FourHex
<1> QED
  BY <1>2, <1>4, <1>6, DigitsSpell DEF EscapeFor

LEMMA HexSpellingIs ==
  ASSUME NEW v, SixteenBits(v), NEW e \in HexSpelling(v)
  PROVE  EscapeFor(e, v)
<1>1. PICK x, y, z, w : DigitsHas(v, x, y, z, w)
  BY DEF DigitsHas
<1>2. FourHex(v, x, y, z, w)
  BY <1>1, FourHexIs
<1>3. (v \div 1) % 16 = w
  BY <1>1, TopDigit DEF DigitsHas
<1> DEFINE D(n, upper) == IF n < 10 THEN 48 + n ELSE n + (IF upper THEN 55 ELSE 87)
<1>4. PICK upper \in BOOLEAN :
        e = <<Backslash, LetterU, D(x, upper), D(y, upper), D(z, upper), D(w, upper)>>
  BY <1>1, <1>3 DEF HexSpelling, DigitsHas
<1>5. \A n \in 0 .. 15 : DigitFor(D(n, upper), n)
  <2> SUFFICES ASSUME NEW n \in 0 .. 15
               PROVE  DigitFor(D(n, upper), n)
    OBVIOUS
  <2>1. CASE upper
    <3>1. D(n, upper) = IF n < 10 THEN 48 + n ELSE n + 55
      BY <2>1
    <3> QED
      BY <3>1, UpperDigit
  <2>2. CASE ~ upper
    <3>1. D(n, upper) = IF n < 10 THEN 48 + n ELSE 87 + n
      BY <2>2
    <3> QED
      BY <3>1, LowerDigit
  <2> QED
    BY <2>1, <2>2
<1> HIDE DEF D
<1>6. /\ DigitFor(D(x, upper), x) /\ DigitFor(D(y, upper), y)
      /\ DigitFor(D(z, upper), z) /\ DigitFor(D(w, upper), w)
  BY <1>2, <1>5 DEF FourHex
<1> QED
  BY <1>2, <1>4, <1>6, DigitsSpell DEF EscapeFor

\* A text further on: where what follows goes on, and what has been gone through.
FurtherSo(s, k, l) ==
  /\ From(From(s, k + 1), l + 1) = From(s, k + l + 1)
  /\ SubSeq(s, 1, k + l) = SubSeq(s, 1, k) \o SubSeq(From(s, k + 1), 1, l)
  /\ k + l \in 0 .. Len(s)

LEMMA Further ==
  ASSUME NEW s \in Seq(Int), NEW k \in 0 .. Len(s), NEW l \in 0 .. Len(s) - k
  PROVE  FurtherSo(s, k, l)
<1>1. PICK n \in Nat : n = Len(s)
  OBVIOUS
<1>2. PICK f : f = From(s, k + 1)
  OBVIOUS
<1>3. k \in 0 .. n /\ l \in 0 .. n - k /\ k + l \in 0 .. n
  BY <1>1
<1>4. SplitSo(s, k)
  BY SplitAt
<1>5. f \in Seq(Int) /\ Len(f) = n - k /\ \A i \in 1 .. n - k : f[i] = s[k + i]
  BY <1>1, <1>2, <1>4 DEF SplitSo
<1>6. From(f, l + 1) = From(s, k + l + 1)
  <2>1. l + 1 \in 1 .. Len(s) - k + 1 /\ Len(s) - k \in (l + 1) - 1 .. Len(s) - k
    BY <1>1, <1>3
  <2>2. SubSeq(f, l + 1, Len(s) - k) = SubSeq(s, (l + 1) + k, (Len(s) - k) + k)
    BY <1>2, <2>1, PieceOfRest
  <2>3. (l + 1) + k = k + l + 1 /\ (n - k) + k = n
    BY <1>3
  <2> QED
    BY <1>1, <1>5, <2>2, <2>3 DEF From
<1>7. PICK a, b, c : a = SubSeq(s, 1, k + l) /\ b = SubSeq(s, 1, k) /\ c = SubSeq(f, 1, l)
  OBVIOUS
<1>8. a \in Seq(Int) /\ Len(a) = k + l /\ \A i \in 1 .. k + l : a[i] = s[i]
  <2>1. SplitSo(s, k + l)
    BY <1>1, <1>3, SplitAt
  <2> QED
    BY <1>7, <2>1 DEF SplitSo
<1>9. b \in Seq(Int) /\ Len(b) = k /\ \A i \in 1 .. k : b[i] = s[i]
  BY <1>4, <1>7 DEF SplitSo
<1>10. c \in Seq(Int) /\ Len(c) = l /\ \A i \in 1 .. l : c[i] = f[i]
  <2>1. l \in 0 .. Len(f)
    BY <1>3, <1>5
  <2>2. SplitSo(f, l)
    BY <1>5, <2>1, SplitAt
  <2> QED
    BY <1>7, <2>2 DEF SplitSo
<1>11. PICK d : d = b \o c
  OBVIOUS
<1>12. JoinSo(d, b, c)
  BY <1>9, <1>10, <1>11, JoinIs
<1>13. /\ d \in Seq(Int) /\ Len(d) = k + l
       /\ \A i \in 1 .. k : d[i] = b[i]
       /\ \A i \in 1 .. l : d[k + i] = c[i]
  BY <1>9, <1>10, <1>12 DEF JoinSo
<1>14. \A i \in 1 .. k + l : a[i] = d[i]
  <2> SUFFICES ASSUME NEW i \in 1 .. k + l
               PROVE  a[i] = d[i]
    OBVIOUS
  <2>1. a[i] = s[i]
    BY <1>8
  <2>2. CASE i <= k
    <3>1. i \in 1 .. k
      BY <1>3, <2>2
    <3> QED
      BY <1>9, <1>13, <2>1, <3>1
  <2>3. CASE i > k
    <3>1. PICK j \in 1 .. l : i = k + j
      <4>1. i - k \in 1 .. l /\ i = k + (i - k)
        BY <1>3, <2>3
      <4> QED
        BY <4>1
    <3>2. j \in 1 .. n - k
      BY <1>3
    <3>3. d[k + j] = c[j] /\ c[j] = f[j] /\ f[j] = s[k + j]
      BY <1>5, <1>10, <1>13, <3>2
    <3> QED
      BY <2>1, <3>1, <3>3
  <2> QED
    BY <1>3, <2>2, <2>3
<1>15. a = d
  BY <1>8, <1>13, <1>14, SeqEqual
<1> QED
  BY <1>1, <1>2, <1>3, <1>6, <1>7, <1>11, <1>15 DEF FurtherSo

\* The first byte of what follows.
HeadSo(s, k) ==
  LET f == From(s, k + 1)
  IN  /\ f # <<>> /\ f \in Seq(Int) /\ Len(f) = Len(s) - k
      /\ Head(f) = s[k + 1] /\ f[1] = s[k + 1] /\ SubSeq(f, 1, 1) = <<s[k + 1]>>

LEMMA HeadIs ==
  ASSUME NEW s \in Seq(Int), NEW k \in 0 .. Len(s), k < Len(s)
  PROVE  HeadSo(s, k)
<1>1. PICK n \in Nat : n = Len(s)
  OBVIOUS
<1>2. PICK f : f = From(s, k + 1)
  OBVIOUS
<1>3. SplitSo(s, k)
  BY SplitAt
<1>4. f \in Seq(Int) /\ Len(f) = n - k /\ \A i \in 1 .. n - k : f[i] = s[k + i]
  BY <1>1, <1>2, <1>3 DEF SplitSo
<1>5. n - k >= 1 /\ 1 \in 1 .. n - k
  BY <1>1
<1>6. f[1] = s[k + 1]
  BY <1>4, <1>5
<1>7. AtLeastOne(f)
  <2>1. Len(f) >= 1
    BY <1>4, <1>5
  <2> QED
    BY <1>4, <2>1, LongEnough
<1>8. f # <<>> /\ Head(f) = f[1]
  BY <1>4, <1>7 DEF AtLeastOne
<1>9. SubSeq(f, 1, 1) = <<f[1]>>
  <2>1. PICK g : g = SubSeq(f, 1, 1)
    OBVIOUS
  <2>2. 1 \in 0 .. Len(f) /\ 1 \in 1 .. 1
    BY <1>1, <1>4, <1>5
  <2>3. SplitSo(f, 1)
    BY <1>4, <2>2, SplitAt
  <2>4. g \in Seq(Int) /\ Len(g) = 1 /\ g[1] = f[1]
    BY <2>1, <2>2, <2>3 DEF SplitSo
  <2>5. g = <<g[1]>>
    BY <2>4
  <2> QED
    BY <2>1, <2>4, <2>5
<1> QED
  BY <1>1, <1>2, <1>4, <1>6, <1>8, <1>9 DEF HeadSo

\* A valid string that begins with a byte of ASCII is valid after it.
LEMMA AsciiStarts ==
  ASSUME NEW s \in Seq(Int), s # <<>>, IsStructurallyValidUtf8(s),
         NEW c \in Nat, c < 128, c = s[1]
  PROVE  IsStructurallyValidUtf8(From(s, 2))
<1>1. StartsValid(s)
  BY ValidStarts
<1>2. AtLeastOne(s)
  BY NotEmpty
<1>4. PICK form : form = WriteCodePointToBuffer(c)
  OBVIOUS
<1>5. ReadCodePointPrefix(s) = [length |-> 1, codePoint |-> c]
  <2>1. form = <<c>>
    BY <1>4 DEF WriteCodePointToBuffer
  <2>2. Len(form) = 1 /\ form[1] = s[1]
    BY <2>1
  <2>3. Len(s) >= Len(form) /\ \A i \in 1 .. Len(form) : s[i] = form[i]
    BY <1>2, <2>2 DEF AtLeastOne
  <2>4. BeginsWith(s, c)
    BY <1>4, <2>3 DEF BeginsWith
  <2>5. c < 2097152
    BY SMTT(30)
  <2>6. ReadCodePointPrefix(s) = [length |-> Len(form), codePoint |-> c]
    BY <1>4, <2>4, <2>5, FormIsRead, SMTT(30)
  <2> QED
    BY <2>2, <2>6
<1>6. PICK p : p = ReadCodePointPrefix(s)
  OBVIOUS
<1>7. p.length = 1
  <2>1. p = [length |-> 1, codePoint |-> c]
    BY <1>5, <1>6
  <2> QED
    BY <2>1
<1>8. 1 + 1 = 2
  OBVIOUS
<1> QED
  BY <1>1, <1>6, <1>7, <1>8 DEF StartsValid

\* A string without what has to be escaped spells itself.
AsItIs(s) == \A i \in 1 .. Len(s) : s[i] \notin {Quote, Backslash}

LEMMA SpellsItself ==
  ASSUME NEW s \in Seq(Int), AsItIs(s)
  PROVE  Spells(s, s)
<1> DEFINE T == {n \in Nat : \A a \in Seq(Int) : Len(a) <= n /\ AsItIs(a) => Spells(a, a)}
<1>1. ASSUME NEW a \in Seq(Int), Len(a) <= 0
      PROVE  Spells(a, a)
  <2>1. Len(a) = 0
    BY <1>1
  <2>2. a = <<>>
    BY <2>1
  <2> QED
    BY <2>2, SpellsNothing
<1>2. 0 \in T
  BY <1>1
<1>3. ASSUME NEW n \in T
      PROVE  n + 1 \in T
  <2>1. ASSUME NEW a \in Seq(Int), Len(a) <= n + 1, AsItIs(a)
        PROVE  Spells(a, a)
    <3>1. CASE a = <<>>
      BY <3>1, SpellsNothing
    <3>2. CASE a # <<>>
      <4>1. PICK m \in Nat : m = Len(a) /\ m >= 1
        BY <3>2, NotEmpty DEF AtLeastOne
      <4>2. 1 \in 0 .. Len(a) /\ 1 \in 1 .. m
        BY <4>1
      <4>3. SplitSo(a, 1)
        BY <4>2, SplitAt
      <4>4. PICK c, u : c = SubSeq(a, 1, 1) /\ u = From(a, 1 + 1)
        OBVIOUS
      <4>5. /\ c \in Seq(Int) /\ Len(c) = 1 /\ u \in Seq(Int) /\ Len(u) = m - 1
            /\ a = c \o u
        BY <4>1, <4>3, <4>4 DEF SplitSo
      <4>6. \A i \in 1 .. m - 1 : u[i] = a[1 + i]
        BY <4>1, <4>3, <4>4 DEF SplitSo
      <4>7. c[1] = a[1]
        <5>1. 1 \in 1 .. 1
          OBVIOUS
        <5> QED
          BY <4>3, <4>4, <5>1 DEF SplitSo
      <4>8. Chunk(c, c)
        <5>1. c[1] \notin {Quote, Backslash}
          BY <2>1, <4>1, <4>2, <4>7 DEF AsItIs
        <5>2. AsIs(c, c)
          BY <4>5, <5>1 DEF AsIs
        <5> QED
          BY <4>5, <5>2 DEF Chunk
      <4>9. AsItIs(u)
        <5>1. \A i \in 1 .. m - 1 : 1 + i \in 1 .. m
          BY <4>1
        <5>2. \A i \in 1 .. m - 1 : u[i] \notin {Quote, Backslash}
          BY <2>1, <4>1, <4>6, <5>1 DEF AsItIs
        <5> QED
          BY <4>5, <5>2 DEF AsItIs
      <4>10. Len(u) <= n
        BY <2>1, <4>1, <4>5
      <4>11. Spells(u, u)
        BY <4>5, <4>9, <4>10
      <4>12. Spells(c \o u, c \o u)
        BY <4>8, <4>11, SpellsMore
      <4> QED
        BY <4>5, <4>12
    <3> QED
      BY <3>1, <3>2
  <2>2. n + 1 \in Nat
    OBVIOUS
  <2> QED
    BY <2>1, <2>2
<1>4. T = Nat
  <2>1. T \in SUBSET Nat /\ 0 \in T /\ \A n \in T : n + 1 \in T
    BY <1>2, <1>3
  <2> HIDE DEF T
  <2> QED
    BY <2>1, Induction
<1>5. Len(s) \in T /\ Len(s) <= Len(s)
  BY <1>4
<1> QED
  BY <1>5

\* The chunks for a code point beyond ASCII.
LEMMA CodePointChunk ==
  ASSUME NEW c, IsScalarValue(c), ~ IsSurrogatePair(c), NEW e, EscapeFor(e, c)
  PROVE  Chunk(e, WriteCodePointToBuffer(c))
<1>1. FourDigits(e, c)
  BY DEF EscapeFor
<1>2. ~ IsHighSurrogate(c)
  BY DEF IsScalarValue
<1>3. WriteCodePointToBuffer(c) \in Seq(Int)
  BY ScalarForm DEF FormType
<1>4. CodePoint(e, WriteCodePointToBuffer(c))
  BY <1>1, <1>2 DEF CodePoint
<1>5. e \in Seq(Int)
  BY <1>1 DEF FourDigits
<1> QED
  BY <1>3, <1>4, <1>5 DEF Chunk

LEMMA ReadableJoin ==
  ASSUME NEW t \in Seq(Int), Readable(t), NEW u \in Seq(Int), Readable(u)
  PROVE  Readable(t \o u)
<1>1. PICK v : v = t \o u
  OBVIOUS
<1>2. JoinSo(v, t, u)
  BY <1>1, JoinIs
<1>3. PICK n \in Nat, m \in Nat : n = Len(t) /\ m = Len(u)
  OBVIOUS
<1>4. /\ Len(v) = n + m
      /\ \A i \in 1 .. n : v[i] = t[i]
      /\ \A i \in 1 .. m : v[n + i] = u[i]
  BY <1>2, <1>3 DEF JoinSo
<1>5. \A i \in 1 .. n + m : v[i] >= 32
  <2> SUFFICES ASSUME NEW i \in 1 .. n + m
               PROVE  v[i] >= 32
    OBVIOUS
  <2>1. CASE i <= n
    <3>1. i \in 1 .. n
      BY <2>1
    <3> QED
      BY <1>3, <1>4, <3>1 DEF Readable
  <2>2. CASE i > n
    <3>1. PICK j \in 1 .. m : i = n + j
      <4>1. i - n \in 1 .. m /\ i = n + (i - n)
        BY <2>2
      <4> QED
        BY <4>1
    <3>2. v[n + j] = u[j] /\ u[j] >= 32
      BY <1>3, <1>4 DEF Readable
    <3> QED
      BY <3>1, <3>2
  <2> QED
    BY <2>1, <2>2
<1> QED
  BY <1>1, <1>4, <1>5 DEF Readable

\* What two escapes make that are the halves of a code point.
PairFor(h, l, c) == Chunk(h \o l, WriteCodePointToBuffer(c)) /\ Readable(h \o l)

Halves(c, x, y) ==
  LET s == EncodeSurrogatePair(c) IN x = s[1] /\ y = s[2]

LEMMA HalvesAre ==
  ASSUME NEW c \in Nat, IsSurrogatePair(c), NEW x, NEW y, Halves(c, x, y)
  PROVE  /\ SixteenBits(x) /\ SixteenBits(y) /\ IsHighSurrogate(x) /\ IsLowSurrogate(y)
         /\ DecodeSurrogatePair(x, y) = c
BY SMTT(30) DEF Halves, EncodeSurrogatePair, SixteenBits, IsHighSurrogate, IsLowSurrogate,
                DecodeSurrogatePair, IsSurrogatePair

LEMMA PairChunk ==
  ASSUME NEW c, IsScalarValue(c), IsSurrogatePair(c), NEW x, NEW y, Halves(c, x, y),
         NEW h, NEW l, EscapeFor(h, x), EscapeFor(l, y)
  PROVE  PairFor(h, l, c)
<1>1. FourDigits(h, x) /\ FourDigits(l, y) /\ Readable(h) /\ Readable(l)
  BY DEF EscapeFor
<1>2. h \in Seq(Int) /\ l \in Seq(Int)
  BY <1>1 DEF FourDigits
<1>3. c \in Nat /\ WriteCodePointToBuffer(c) \in Seq(Int)
  BY ScalarForm DEF FormType
<1>4. IsHighSurrogate(x) /\ IsLowSurrogate(y) /\ DecodeSurrogatePair(x, y) = c
  BY <1>3, HalvesAre
<1>5. Pair(h \o l, WriteCodePointToBuffer(c))
  BY <1>1, <1>4 DEF Pair
<1>6. h \o l \in Seq(Int)
  BY <1>2, AfterPart DEF AfterIt
<1>7. Chunk(h \o l, WriteCodePointToBuffer(c))
  BY <1>3, <1>5, <1>6 DEF Chunk
<1>8. Readable(h \o l)
  BY <1>1, <1>2, ReadableJoin
<1> QED
  BY <1>7, <1>8 DEF PairFor

LEMMA BasicPlane ==
  ASSUME NEW c, IsScalarValue(c), ~ IsSurrogatePair(c)
  PROVE  SixteenBits(c)
BY SMTT(30) DEF IsScalarValue, IsSurrogatePair, SixteenBits

\* The forms of code points beyond ASCII have no byte of ASCII.
BeyondAscii(form) == \A i \in 1 .. Len(form) : form[i] >= 128

LEMMA FormBeyond ==
  ASSUME NEW c, IsScalarValue(c), c >= 128
  PROVE  BeyondAscii(WriteCodePointToBuffer(c))
<1>1. c \in Nat /\ c < 1114112
  BY SMTT(30) DEF IsScalarValue
<1>2. PICK form : form = WriteCodePointToBuffer(c)
  OBVIOUS
<1>4. ASSUME c < 2048
      PROVE  BeyondAscii(form)
  <2>1. PICK x, y : x = (c \div 64) + 192 /\ y = (c % 64) + 128
    OBVIOUS
  <2>2. form = <<x, y>>
    BY <1>1, <1>2, <1>4, <2>1, SMTT(30) DEF WriteCodePointToBuffer, Continuation
  <2>3. x >= 128 /\ y >= 128
    BY <1>1, <1>4, <2>1, SMTT(30)
  <2> QED
    BY <2>2, <2>3 DEF BeyondAscii
<1>5. ASSUME c >= 2048, c < 65536
      PROVE  BeyondAscii(form)
  <2>1. PICK x, y, z : /\ x = (c \div 4096) + 224 /\ y = ((c \div 64) % 64) + 128
                       /\ z = (c % 64) + 128
    OBVIOUS
  <2>2. form = <<x, y, z>>
    BY <1>1, <1>2, <1>5, <2>1, SMTT(30) DEF WriteCodePointToBuffer, Continuation
  <2>3. x >= 128 /\ y >= 128 /\ z >= 128
    BY <1>1, <1>5, <2>1, SMTT(30)
  <2> QED
    BY <2>2, <2>3 DEF BeyondAscii
<1>6. ASSUME c >= 65536
      PROVE  BeyondAscii(form)
  <2>1. PICK x, y, z, w : /\ x = (c \div 262144) + 240 /\ y = ((c \div 4096) % 64) + 128
                          /\ z = ((c \div 64) % 64) + 128 /\ w = (c % 64) + 128
    OBVIOUS
  <2>2. form = <<x, y, z, w>>
    BY <1>1, <1>2, <1>6, <2>1, SMTT(30) DEF WriteCodePointToBuffer, Continuation
  <2>3. x >= 128 /\ y >= 128 /\ z >= 128 /\ w >= 128
    BY <1>1, <1>6, <2>1, SMTT(30)
  <2> QED
    BY <2>2, <2>3 DEF BeyondAscii
<1>7. BeyondAscii(form)
  BY <1>1, <1>4, <1>5, <1>6, SMTT(30)
<1> QED
  BY <1>2, <1>7

-----------------------------------------------------------------------------
(* What others make of it.                                                 *)

LEMMA BytesAreIntegers ==
  ASSUME NEW s \in Seq(Byte)
  PROVE  s \in Seq(Int)
<1>1. Byte \in SUBSET Int
  BY DEF Byte
<1> QED
  BY <1>1, SeqMonotonic

\* A character of the contents that is UTF-8.
Character(char) ==
  /\ char \in Seq(Byte) /\ IsStructurallyValidUtf8(char)
  /\ char # <<>> /\ ReadCodePointPrefix(char).length = Len(char)

\* It is the form of its code point.
CharacterOf(char, c) ==
  IsScalarValue(c) /\ char = WriteCodePointToBuffer(c) /\ c = ReadCodePointPrefix(char).codePoint

LEMMA CharacterIs ==
  ASSUME NEW char, Character(char)
  PROVE  char \in Seq(Int) /\ \E c : CharacterOf(char, c)
<1>1. char \in Seq(Int)
  BY BytesAreIntegers DEF Character
<1>2. PICK p : p = ReadCodePointPrefix(char)
  OBVIOUS
<1>3. IsScalarValue(p.codePoint) /\ WriteCodePointToBuffer(p.codePoint) = SubSeq(char, 1, p.length)
  BY <1>1, <1>2, ValidStarts DEF Character, StartsValid
<1>4. p.length = Len(char)
  BY <1>2 DEF Character
<1>5. SubSeq(char, 1, Len(char)) = char
  BY <1>1, FromFirst DEF FirstSo, From
<1>6. CharacterOf(char, p.codePoint)
  BY <1>2, <1>3, <1>4, <1>5 DEF CharacterOf
<1> QED
  BY <1>1, <1>6

\* A spelling of a character, which has no control characters.
SpellingOf(e, char) == Spells(e, char) /\ Readable(e)

LEMMA SpellingIs ==
  ASSUME NEW char, Character(char), NEW e \in Spellings(char)
  PROVE  SpellingOf(e, char)
<1>1. char \in Seq(Int) /\ \E c : CharacterOf(char, c)
  BY CharacterIs
<1>2. PICK c : CharacterOf(char, c)
  BY <1>1
<1>3. /\ IsScalarValue(c) /\ char = WriteCodePointToBuffer(c)
      /\ c = ReadCodePointPrefix(char).codePoint
  BY <1>2 DEF CharacterOf
<1>4. c \in Nat
  BY <1>3, ScalarForm
<1>12. char = WriteCodePointToBuffer(c)
  BY <1>3
<1>5. PICK x, y : x = EncodeSurrogatePair(c)[1] /\ y = EncodeSurrogatePair(c)[2]
  OBVIOUS
<1>6. Halves(c, x, y)
  BY <1>5 DEF Halves
<1>7. \/ e = char /\ ~ (c < 32) /\ c # Quote /\ c # Backslash
      \/ \E f \in ReaderEscapes : f[2] = c /\ e = <<Backslash, f[1]>>
      \/ IsSurrogatePair(c) /\ \E h \in HexSpelling(x), l \in HexSpelling(y) : e = h \o l
      \/ ~ IsSurrogatePair(c) /\ e \in HexSpelling(c)
  BY <1>3, <1>5 DEF Spellings
<1>8. CASE e = char /\ ~ (c < 32) /\ c # Quote /\ c # Backslash
  <2>1. AsItIs(char) /\ Readable(char)
    <3>1. CASE c < 128
      <4>1. char = <<c>>
        BY <1>12, <3>1 DEF WriteCodePointToBuffer
      <4>2. Len(char) = 1 /\ char[1] = c
        BY <4>1
      <4>3. c >= 32
        BY <1>4, <1>8
      <4> QED
        BY <1>8, <4>2, <4>3 DEF AsItIs, Readable
    <3>2. CASE ~ (c < 128)
      <4>1. c >= 128
        BY <1>4, <3>2
      <4>2. BeyondAscii(char)
        BY <1>3, <4>1, FormBeyond
      <4>3. \A i \in 1 .. Len(char) : char[i] >= 128 /\ char[i] \in Int
        BY <1>1, <4>2 DEF BeyondAscii
      <4>4. \A i \in 1 .. Len(char) : char[i] >= 32 /\ char[i] # 34 /\ char[i] # 92
        BY <4>3
      <4> QED
        BY <4>4 DEF AsItIs, Readable, Quote, Backslash
    <3> QED
      BY <3>1, <3>2
  <2>2. Spells(char, char)
    BY <1>1, <2>1, SpellsItself
  <2> QED
    BY <1>8, <2>1, <2>2 DEF SpellingOf
<1>9. CASE \E f \in ReaderEscapes : f[2] = c /\ e = <<Backslash, f[1]>>
  <2>1. PICK f \in ReaderEscapes : f[2] = c /\ e = <<Backslash, f[1]>>
    BY <1>9
  <2>2. f[1] \in Int /\ f[1] >= 32 /\ f[2] \in Int /\ f[2] < 128
    BY DEF ReaderEscapes
  <2>3. char = <<f[2]>>
    <3>1. c < 128
      BY <2>1, <2>2
    <3>2. char = <<c>>
      BY <1>12, <3>1 DEF WriteCodePointToBuffer
    <3> QED
      BY <2>1, <3>2
  <2>4. e \in Seq(Int) /\ Len(e) = 2 /\ e[1] = Backslash /\ e[2] = f[1]
    BY <2>1, <2>2 DEF Backslash
  <2>5. Short(e, char)
    BY <2>3, <2>4 DEF Short
  <2>6. Chunk(e, char)
    BY <1>1, <2>4, <2>5 DEF Chunk
  <2>7. Spells(e, char)
    BY <2>6, SpellsChunk
  <2>8. Readable(e)
    <3>1. \A i \in 1 .. 2 : i = 1 \/ i = 2
      OBVIOUS
    <3>2. e[1] >= 32 /\ e[2] >= 32
      BY <2>2, <2>4 DEF Backslash
    <3> QED
      BY <2>4, <3>1, <3>2 DEF Readable
  <2> QED
    BY <2>7, <2>8 DEF SpellingOf
<1>10. CASE IsSurrogatePair(c) /\ \E h \in HexSpelling(x), l \in HexSpelling(y) : e = h \o l
  <2>1. PICK h \in HexSpelling(x), l \in HexSpelling(y) : e = h \o l
    BY <1>10
  <2>2. SixteenBits(x) /\ SixteenBits(y)
    BY <1>4, <1>6, <1>10, HalvesAre
  <2>3. EscapeFor(h, x) /\ EscapeFor(l, y)
    BY <2>2, HexSpellingIs
  <2>4. PairFor(h, l, c)
    BY <1>3, <1>6, <1>10, <2>3, PairChunk
  <2>5. Chunk(e, char) /\ Readable(e)
    BY <1>3, <2>1, <2>4 DEF PairFor
  <2> QED
    BY <2>5, SpellsChunk DEF SpellingOf
<1>11. CASE ~ IsSurrogatePair(c) /\ e \in HexSpelling(c)
  <2>1. SixteenBits(c)
    BY <1>3, <1>11, BasicPlane
  <2>2. EscapeFor(e, c)
    BY <1>11, <2>1, HexSpellingIs
  <2>3. Chunk(e, char)
    BY <1>3, <1>11, <2>2, CodePointChunk
  <2> QED
    BY <2>2, <2>3, SpellsChunk DEF SpellingOf, EscapeFor
<1> QED
  BY <1>7, <1>8, <1>9, <1>10, <1>11

\* The concatenation of a sequence of sequences, one after the other.
Concatenates(r, s) ==
  /\ r \in [0 .. Len(s) -> Seq(Int)] /\ r[0] = <<>>
  /\ \A k \in 0 .. Len(s) - 1 : r[k + 1] = r[k] \o s[k + 1]

LEMMA ConcatenationExists ==
  ASSUME NEW s \in Seq(Seq(Int))
  PROVE  \E r : Concatenates(r, s)
<1> DEFINE B == Seq(Int)
           F == [p \in B \X B |-> p[1] \o p[2]]
<1>1. F \in [B \X B -> B]
  <2>1. \A p \in B \X B : p[1] \in Seq(Int) /\ p[2] \in Seq(Int)
    OBVIOUS
  <2>2. \A a, b \in Seq(Int) : a \o b \in Seq(Int)
    OBVIOUS
  <2> QED
    BY <2>1, <2>2
<1>2. <<>> \in B
  OBVIOUS
<1>3. \A a \in B, b \in B : F[<<a, b>>] = a \o b
  OBVIOUS
<1> HIDE DEF F
<1>4. PICK r \in [0 .. Len(s) -> B] : Chain(r, F, <<>>, s)
  BY <1>1, <1>2, ChainExists
<1>5. ASSUME NEW k \in 0 .. Len(s) - 1
      PROVE  r[k + 1] = r[k] \o s[k + 1]
  <2>1. r[k + 1] = F[<<r[k], s[k + 1]>>]
    BY <1>4 DEF Chain
  <2>2. k \in 0 .. Len(s) /\ k + 1 \in 1 .. Len(s)
    OBVIOUS
  <2>3. r[k] \in B /\ s[k + 1] \in B
    BY <1>4, <2>2
  <2> QED
    BY <1>3, <2>1, <2>3
<1>6. Concatenates(r, s)
  BY <1>4, <1>5 DEF Concatenates, Chain
<1> QED
  BY <1>6

LEMMA FlattenIs ==
  ASSUME NEW s \in Seq(Seq(Int)), NEW r, Concatenates(r, s)
  PROVE  FlattenSeq(s) = r[Len(s)]
<1>1. PICK n \in Nat : n = Len(s)
  OBVIOUS
<1>2. CASE n = 0
  <2>1. s = <<>>
    <3>1. ~ (Len(s) >= 1)
      BY <1>1, <1>2
    <3> QED
      BY <3>1, NotEmpty DEF AtLeastOne
  <2> QED
    BY <1>1, <1>2, <2>1 DEF FlattenSeq, Concatenates
<1>3. CASE n # 0
  <2> DEFINE flatten[i \in 1 .. Len(s)] ==
               IF i = 1 THEN s[i] ELSE flatten[i - 1] \o s[i]
             h == [i \in 1 .. Len(s) |-> r[i]]
  <2>1. FlattenSeq(s) = flatten[Len(s)]
    BY <1>1, <1>3 DEF FlattenSeq
  <2>2. \A i \in 1 .. n : r[i] = IF i = 1 THEN s[i] ELSE r[i - 1] \o s[i]
    <3> SUFFICES ASSUME NEW i \in 1 .. n
                 PROVE  r[i] = IF i = 1 THEN s[i] ELSE r[i - 1] \o s[i]
      OBVIOUS
    <3>1. i - 1 \in 0 .. Len(s) - 1 /\ (i - 1) + 1 = i
      BY <1>1
    <3>2. r[i] = r[i - 1] \o s[i]
      BY <3>1 DEF Concatenates
    <3>3. CASE i = 1
      <4>1. PICK x \in Seq(Int) : x = s[i]
        BY <1>1
      <4>2. <<>> \o x = x
        OBVIOUS
      <4>3. r[i - 1] = <<>>
        BY <3>3 DEF Concatenates
      <4> QED
        BY <3>2, <3>3, <4>1, <4>2, <4>3
    <3> QED
      BY <3>2, <3>3
  <2>3. h = [i \in 1 .. Len(s) |-> IF i = 1 THEN s[i] ELSE h[i - 1] \o s[i]]
    <3>1. ASSUME NEW i \in 1 .. n
          PROVE  h[i] = IF i = 1 THEN s[i] ELSE h[i - 1] \o s[i]
      <4>1. h[i] = r[i]
        BY <1>1
      <4>2. i # 1 => i - 1 \in 1 .. n
        OBVIOUS
      <4>3. i # 1 => h[i - 1] = r[i - 1]
        BY <1>1, <4>2
      <4> QED
        BY <2>2, <4>1, <4>3
    <3> QED
      BY <1>1, <3>1
  <2>4. flatten = [i \in 1 .. Len(s) |-> IF i = 1 THEN s[i] ELSE flatten[i - 1] \o s[i]]
    <3> HIDE DEF h
    <3> QED
      BY <2>3, Zenon
  <2> HIDE DEF flatten, h
  <2> DEFINE T == {k \in Nat : k = 0 \/ flatten[k] = r[k]}
  <2>5. 0 \in T
    OBVIOUS
  <2>6. ASSUME NEW k \in 0 .. n - 1, k \in T
        PROVE  k + 1 \in T
    <3>1. k + 1 \in 1 .. n /\ k + 1 \in Nat /\ (k + 1) - 1 = k
      OBVIOUS
    <3>2. flatten[k + 1] = IF k + 1 = 1 THEN s[k + 1] ELSE flatten[k] \o s[k + 1]
      BY <1>1, <2>4, <3>1
    <3>3. r[k + 1] = IF k + 1 = 1 THEN s[k + 1] ELSE r[k] \o s[k + 1]
      BY <2>2, <3>1
    <3>4. k = 0 \/ flatten[k] = r[k]
      BY <2>6
    <3>5. flatten[k + 1] = r[k + 1]
      <4>1. CASE k = 0
        BY <3>2, <3>3, <4>1
      <4>2. CASE k # 0
        BY <3>2, <3>3, <3>4, <4>2
      <4> QED
        BY <4>1, <4>2
    <3> QED
      BY <3>1, <3>5
  <2> HIDE DEF T
  <2>7. \A k \in 0 .. n : k \in T
    BY <2>5, <2>6, InductionUpTo
  <2>8. n \in T
    BY <2>7
  <2> QED
    BY <1>1, <1>3, <2>1, <2>8 DEF T
<1> QED
  BY <1>2, <1>3

\* What holds of the parts of two sequences and is kept where they are put together holds
\* of the wholes.
KeptTogether(R) ==
  /\ R \in SUBSET TextPairs /\ <<<<>>, <<>>>> \in R
  /\ \A a, b, c, d : <<a, b>> \in R /\ <<c, d>> \in R => <<a \o c, b \o d>> \in R

LEMMA FlattenBoth ==
  ASSUME NEW s \in Seq(Seq(Int)), NEW t \in Seq(Seq(Int)), Len(s) = Len(t),
         NEW R, KeptTogether(R), \A i \in 1 .. Len(s) : <<s[i], t[i]>> \in R
  PROVE  <<FlattenSeq(s), FlattenSeq(t)>> \in R
<1>1. PICK n \in Nat : n = Len(s) /\ n = Len(t)
  OBVIOUS
<1>2. PICK q : Concatenates(q, s)
  BY ConcatenationExists
<1>3. PICK r : Concatenates(r, t)
  BY ConcatenationExists
<1> DEFINE T == {k \in Nat : <<q[k], r[k]>> \in R}
<1>4. 0 \in T
  <2>1. q[0] = <<>> /\ r[0] = <<>>
    BY <1>2, <1>3 DEF Concatenates
  <2> QED
    BY <2>1 DEF KeptTogether
<1>5. ASSUME NEW k \in 0 .. n - 1, k \in T
      PROVE  k + 1 \in T
  <2>1. q[k + 1] = q[k] \o s[k + 1] /\ r[k + 1] = r[k] \o t[k + 1]
    BY <1>1, <1>2, <1>3 DEF Concatenates
  <2>2. k + 1 \in 1 .. n /\ k + 1 \in Nat
    OBVIOUS
  <2>3. <<q[k], r[k]>> \in R /\ <<s[k + 1], t[k + 1]>> \in R
    BY <1>1, <1>5, <2>2
  <2>4. <<q[k] \o s[k + 1], r[k] \o t[k + 1]>> \in R
    BY <2>3 DEF KeptTogether
  <2> QED
    BY <2>1, <2>2, <2>4
<1> HIDE DEF T
<1>6. \A k \in 0 .. n : k \in T
  BY <1>4, <1>5, InductionUpTo
<1>7. n \in T
  BY <1>6
<1>8. FlattenSeq(s) = q[n] /\ FlattenSeq(t) = r[n]
  BY <1>1, <1>2, <1>3, FlattenIs
<1> QED
  BY <1>7, <1>8 DEF T

-----------------------------------------------------------------------------
(* The texts and the strings they stand for.                               *)

LEMMA ContentsAre ==
  ASSUME NEW contents \in Contents
  PROVE  contents \in Seq(Seq(Int)) /\ FlattenSeq(contents) \in Seq(Byte)
<1>1. contents \in Seq(Seq(Byte))
  BY ContentsAssumption
<1>2. \A i \in 1 .. Len(contents) : contents[i] \in Seq(Byte) /\ contents[i] \in Seq(Int)
  BY <1>1, BytesAreIntegers
<1>3. contents \in Seq(Seq(Int))
  <2>1. Seq(Byte) \in SUBSET Seq(Int)
    BY BytesAreIntegers
  <2> QED
    BY <1>1, <2>1, SeqMonotonic
<1> DEFINE R == {p \in TextPairs : p[1] \in Seq(Byte)}
<1>4. \A t, b : <<t, b>> \in R <=> t \in Seq(Int) /\ b \in Seq(Int) /\ t \in Seq(Byte)
  BY DEF TextPairs
<1>5. R \in SUBSET TextPairs
  OBVIOUS
<1> HIDE DEF R
<1>6. <<<<>>, <<>>>> \in R
  <2>1. <<>> \in Seq(Int) /\ <<>> \in Seq(Byte)
    OBVIOUS
  <2> QED
    BY <1>4, <2>1
<1>7. ASSUME NEW a, NEW b, NEW c, NEW d, <<a, b>> \in R, <<c, d>> \in R
      PROVE  <<a \o c, b \o d>> \in R
  <2>1. a \in Seq(Int) /\ b \in Seq(Int) /\ c \in Seq(Int) /\ d \in Seq(Int)
    BY <1>4, <1>7
  <2>2. a \in Seq(Byte) /\ c \in Seq(Byte)
    BY <1>4, <1>7
  <2>3. a \o c \in Seq(Int) /\ b \o d \in Seq(Int)
    BY <2>1, ConcatProperties
  <2>4. a \o c \in Seq(Byte)
    BY <2>2, ConcatProperties
  <2> QED
    BY <1>4, <2>3, <2>4
<1>8. KeptTogether(R)
  BY <1>5, <1>6, <1>7 DEF KeptTogether
<1>9. \A i \in 1 .. Len(contents) : <<contents[i], contents[i]>> \in R
  BY <1>2, <1>4
<1>10. <<FlattenSeq(contents), FlattenSeq(contents)>> \in R
  BY <1>3, <1>8, <1>9, FlattenBoth
<1> QED
  BY <1>3, <1>4, <1>10

\* A text that somebody has spelled.
SpelledFor(t, s) == Spells(t, s) /\ Readable(t) /\ IsStructurallyValidUtf8(s)

LEMMA NothingValid == IsStructurallyValidUtf8(<<>>)
<1>1. ValidSo(<<>>)
  <2>1. <<>> \in Seq(Int)
    OBVIOUS
  <2> QED
    BY <2>1, ValidUnfolds
<1> QED
  BY <1>1 DEF ValidSo

LEMMA SpelledTextIs ==
  ASSUME NEW contents \in Contents,
         \A i \in 1 .. Len(contents) : IsStructurallyValidUtf8(contents[i]),
         NEW t \in SpelledTexts(contents)
  PROVE  SpelledFor(t, FlattenSeq(contents))
<1>1. contents \in Seq(Seq(Int)) /\ contents \in Seq(Seq(Byte))
  BY ContentsAssumption, ContentsAre
<1>2. PICK n \in Nat : n = Len(contents)
  BY <1>1
<1>3. \A i \in 1 .. n : Character(contents[i])
  <2> SUFFICES ASSUME NEW i \in 1 .. n
               PROVE  Character(contents[i])
    OBVIOUS
  <2>1. contents[i] \in Seq(Byte)
    BY <1>1, <1>2
  <2>2. /\ IsStructurallyValidUtf8(contents[i])
        /\ contents[i] # <<>>
        /\ ReadCodePointPrefix(contents[i]).length = Len(contents[i])
    BY <1>2, ContentsAssumption
  <2> QED
    BY <2>1, <2>2 DEF Character
<1>4. PICK every, f :
        /\ f \in [1 .. n -> every] /\ \A i \in 1 .. n : f[i] \in Spellings(contents[i])
        /\ t = FlattenSeq(f)
  BY <1>2 DEF SpelledTexts
<1>5. \A i \in 1 .. n : SpellingOf(f[i], contents[i])
  BY <1>3, <1>4, SpellingIs
<1>6. f \in Seq(Seq(Int)) /\ Len(f) = n
  <2>1. \A i \in 1 .. n : f[i] \in Seq(Int)
    BY <1>5 DEF SpellingOf, Spells
  <2>2. f \in [1 .. n -> Seq(Int)]
    BY <1>4, <2>1
  <2> QED
    BY <2>2
<1> DEFINE R == {p \in TextPairs : SpelledFor(p[1], p[2])}
<1>7. \A u, b : <<u, b>> \in R <=> u \in Seq(Int) /\ b \in Seq(Int) /\ SpelledFor(u, b)
  BY DEF TextPairs
<1>8. R \in SUBSET TextPairs
  OBVIOUS
<1> HIDE DEF R
<1>9. <<<<>>, <<>>>> \in R
  <2>1. PICK o : o = <<>>
    OBVIOUS
  <2>2. o \in Seq(Int) /\ Len(o) = 0
    BY <2>1
  <2>3. Spells(o, o)
    BY <2>1, SpellsNothing
  <2>4. Readable(o)
    BY <2>2 DEF Readable
  <2>5. IsStructurallyValidUtf8(o)
    BY <2>1, NothingValid
  <2>6. <<o, o>> \in R
    BY <1>7, <2>2, <2>3, <2>4, <2>5 DEF SpelledFor
  <2> QED
    BY <2>1, <2>6
<1>10. ASSUME NEW a, NEW b, NEW c, NEW d, <<a, b>> \in R, <<c, d>> \in R
       PROVE  <<a \o c, b \o d>> \in R
  <2>1. a \in Seq(Int) /\ b \in Seq(Int) /\ c \in Seq(Int) /\ d \in Seq(Int)
    BY <1>7, <1>10
  <2>2. /\ Spells(a, b) /\ Readable(a) /\ IsStructurallyValidUtf8(b)
        /\ Spells(c, d) /\ Readable(c) /\ IsStructurallyValidUtf8(d)
    BY <1>7, <1>10 DEF SpelledFor
  <2>3. a \o c \in Seq(Int) /\ b \o d \in Seq(Int)
    BY <2>1, ConcatProperties
  <2>4. Spells(a \o c, b \o d)
    BY <2>2, SpellsJoin
  <2>5. Readable(a \o c)
    BY <2>1, <2>2, ReadableJoin
  <2>6. IsStructurallyValidUtf8(b \o d)
    BY <2>1, <2>2, ValidJoins
  <2>7. SpelledFor(a \o c, b \o d)
    BY <2>4, <2>5, <2>6 DEF SpelledFor
  <2> QED
    BY <1>7, <2>3, <2>7
<1>11. KeptTogether(R)
  BY <1>8, <1>9, <1>10 DEF KeptTogether
<1>12. \A i \in 1 .. n : <<f[i], contents[i]>> \in R
  <2> SUFFICES ASSUME NEW i \in 1 .. n
               PROVE  <<f[i], contents[i]>> \in R
    OBVIOUS
  <2>1. Spells(f[i], contents[i]) /\ Readable(f[i])
    BY <1>5 DEF SpellingOf
  <2>2. IsStructurallyValidUtf8(contents[i])
    BY <1>2
  <2>3. f[i] \in Seq(Int) /\ contents[i] \in Seq(Int)
    BY <2>1 DEF Spells
  <2>4. SpelledFor(f[i], contents[i])
    BY <2>1, <2>2 DEF SpelledFor
  <2> QED
    BY <1>7, <2>3, <2>4
<1>13. <<FlattenSeq(f), FlattenSeq(contents)>> \in R
  BY <1>1, <1>2, <1>6, <1>11, <1>12, FlattenBoth
<1> QED
  BY <1>4, <1>7, <1>13
\* Of these texts the reader makes the string again, unless a control character stops it.
Promised == origin = "spelled" \/ Valid \/ ~ escapeUnicode
Fine     == origin = "spelled" \/ allowControl \/ ~ HasRawControl

\* What is written so far spells what the writer has gone through.
WrittenSo(t) ==
  /\ output = <<Quote>> \o t /\ Spells(t, SubSeq(str, 1, offset))
  /\ ~ HasRawControl => Readable(t)

WritingInv ==
  phase = "writing" =>
    /\ origin = "written" /\ result = <<>>
    /\ Promised =>
         /\ offset \in 0 .. Len(str) /\ \E t : WrittenSo(t)
         /\ escapeUnicode => IsStructurallyValidUtf8(From(str, offset + 1))

\* What is left to read spells what is missing in the result.
LeftSo(t, b) ==
  /\ Spells(t, b) /\ remaining = t \o <<Quote>>
  /\ result \in Seq(Int) /\ str = result \o b
  /\ Fine => allowControl \/ Readable(t)

\* Or it is the beginning of such a text.
CutSo(t, u) ==
  /\ \E b : Spells(t, b)
  /\ remaining \in Seq(Int) /\ u \in Seq(Int) /\ t = remaining \o u

ReadingInv ==
  phase = "reading" =>
    /\ origin # "cut" /\ Promised => \E t, b : LeftSo(t, b)
    /\ origin = "cut" => \E t, u : CutSo(t, u)

EndInv ==
  /\ phase = "read" => origin # "cut" /\ (Promised => result = str /\ Valid)
  /\ phase = "failed" /\ origin # "cut" /\ Promised => ~ Valid \/ ~ Fine

StringsInv ==
  /\ str \in Seq(Byte)
  /\ origin = "spelled" => Valid
  /\ WritingInv /\ ReadingInv /\ EndInv

LEMMA StringsSaid == StringsInv => ReadsBack
<1> SUFFICES ASSUME StringsInv, Done
             PROVE  ReadsBack
  BY DEF ReadsBack
<1>1. phase = "read" \/ phase = "failed"
  BY DEF Done
<1>2. phase = "read" => origin # "cut" /\ (Promised => result = str /\ Valid)
  BY DEF StringsInv, EndInv
<1>3. phase = "failed" /\ origin # "cut" /\ Promised => ~ Valid \/ ~ Fine
  BY DEF StringsInv, EndInv
<1>4. origin = "spelled" => Valid
  BY DEF StringsInv
<1>5. phase = "read" => phase # "failed"
  OBVIOUS
<1>6. origin = "spelled" \/ origin = "written" => origin # "cut"
  OBVIOUS
<1>7. origin = "cut" => phase = "failed"
  BY <1>1, <1>2
<1>8. \/ origin = "spelled"
      \/ origin = "written" /\ Valid /\ (allowControl \/ ~ HasRawControl)
      => phase = "read" /\ result = str
  BY <1>1, <1>2, <1>3, <1>4, <1>6 DEF Promised, Fine
<1>9. origin = "written" /\ ~ Valid /\ ~ escapeUnicode => phase = "failed"
  BY <1>1, <1>2 DEF Promised
<1> QED
  BY <1>7, <1>8, <1>9 DEF ReadsBack

-----------------------------------------------------------------------------
(* Every text is read as its string.                                       *)

LEMMA StringsInit == TextsInit => StringsInv
<1> SUFFICES ASSUME TextsInit
             PROVE  StringsInv
  OBVIOUS
<1>1. CASE StringIdle
  <2>1. str = <<>> /\ origin = "none" /\ phase = "idle"
    BY <1>1 DEF StringIdle
  <2>2. str \in Seq(Byte)
    BY <2>1
  <2> QED
    BY <2>1, <2>2 DEF StringsInv, WritingInv, ReadingInv, EndInv
<1>2. CASE Init
  <2>1. PICK contents \in Contents :
          /\ str = FlattenSeq(contents)
          /\ \/ /\ origin = "written" /\ phase = "writing"
                /\ output = <<Quote>> /\ remaining = <<>>
             \/ /\ phase = "reading" /\ output = <<>>
                /\ \A i \in 1 .. Len(contents) : IsStructurallyValidUtf8(contents[i])
                /\ \E t \in SpelledTexts(contents) :
                     \/ origin = "spelled" /\ remaining = Append(t, Quote)
                     \/ /\ origin = "cut"
                        /\ \E length \in 0 .. Len(t) : remaining = SubSeq(t, 1, length)
    BY <1>2 DEF Init
  <2>2. offset = 0 /\ result = <<>>
    BY <1>2 DEF Init
  <2>3. str \in Seq(Byte) /\ str \in Seq(Int)
    BY <2>1, ContentsAre, BytesAreIntegers
  <2>4. CASE origin = "written" /\ phase = "writing" /\ output = <<Quote>>
    <3>1. PICK o : o = <<>>
      OBVIOUS
    <3>2. o \in Seq(Int) /\ Len(o) = 0 /\ <<Quote>> \o o = <<Quote>>
      BY <3>1 DEF Quote
    <3>3. SubSeq(str, 1, 0) = o
      BY <2>3, <3>1
    <3>4. Spells(o, o)
      BY <3>1, SpellsNothing
    <3>5. Readable(o)
      BY <3>2 DEF Readable
    <3>6. WrittenSo(o)
      BY <2>2, <2>4, <3>2, <3>3, <3>4, <3>5 DEF WrittenSo
    <3>7. From(str, offset + 1) = str
      BY <2>2, <2>3, FromFirst DEF FirstSo
    <3>8. Promised /\ escapeUnicode => IsStructurallyValidUtf8(From(str, offset + 1))
      BY <2>4, <3>7 DEF Promised, Valid
    <3>9. offset \in 0 .. Len(str)
      BY <2>2, <2>3
    <3>10. WritingInv
      BY <2>2, <2>4, <3>6, <3>8, <3>9 DEF WritingInv
    <3> QED
      BY <2>3, <2>4, <3>10 DEF StringsInv, ReadingInv, EndInv
  <2>5. CASE /\ phase = "reading"
             /\ \A i \in 1 .. Len(contents) : IsStructurallyValidUtf8(contents[i])
             /\ \E t \in SpelledTexts(contents) :
                  \/ origin = "spelled" /\ remaining = Append(t, Quote)
                  \/ /\ origin = "cut"
                     /\ \E length \in 0 .. Len(t) : remaining = SubSeq(t, 1, length)
    <3>1. PICK t \in SpelledTexts(contents) :
            \/ origin = "spelled" /\ remaining = Append(t, Quote)
            \/ /\ origin = "cut"
               /\ \E length \in 0 .. Len(t) : remaining = SubSeq(t, 1, length)
      BY <2>5
    <3>2. SpelledFor(t, str)
      BY <2>1, <2>5, SpelledTextIs
    <3>3. Spells(t, str) /\ Readable(t) /\ Valid
      BY <3>2 DEF SpelledFor, Valid
    <3>4. t \in Seq(Int)
      BY <3>3 DEF Spells
    <3>5. ASSUME origin = "spelled", remaining = Append(t, Quote)
          PROVE  ReadingInv
      <4>1. Append(t, Quote) = t \o <<Quote>>
        BY <3>4 DEF Quote
      <4>2. str = <<>> \o str /\ <<>> \in Seq(Int)
        BY <2>3
      <4>3. LeftSo(t, str)
        BY <2>2, <3>3, <3>5, <4>1, <4>2 DEF LeftSo
      <4> QED
        BY <3>5, <4>3 DEF ReadingInv
    <3>6. ASSUME origin = "cut", NEW length \in 0 .. Len(t), remaining = SubSeq(t, 1, length)
          PROVE  ReadingInv
      <4>1. SplitSo(t, length)
        BY <3>4, <3>6, SplitAt
      <4>2. CutSo(t, From(t, length + 1))
        BY <3>3, <3>6, <4>1 DEF CutSo, SplitSo
      <4> QED
        BY <3>6, <4>2 DEF ReadingInv
    <3>7. ReadingInv
      BY <3>1, <3>5, <3>6
    <3>8. WritingInv /\ EndInv
      BY <2>5 DEF WritingInv, EndInv
    <3> QED
      BY <2>3, <3>3, <3>7, <3>8 DEF StringsInv
  <2> QED
    BY <2>1, <2>4, <2>5
<1> QED
  BY <1>1, <1>2 DEF TextsInit

\* What the string's handling keeps to.
given == <<str, escapeUnicode, allowControl, origin>>

Same == /\ Promised' <=> Promised
        /\ Fine' <=> Fine
        /\ Valid' <=> Valid
        /\ HasRawControl' <=> HasRawControl

LEMMA GivenKept ==
  ASSUME UNCHANGED given
  PROVE  Same
BY DEF given, Same, Promised, Fine, Valid, HasRawControl

\* One step of the writer that writes a chunk.
LEMMA WriterGoesOn ==
  ASSUME StringsInv, Writing, Promised, NEW c, NEW l \in 1 .. Len(str) - offset,
         Chunk(c, SubSeq(From(str, offset + 1), 1, l)),
         ~ HasRawControl => Readable(c),
         escapeUnicode => IsStructurallyValidUtf8(From(From(str, offset + 1), l + 1)),
         Write(c, l)
  PROVE  WritingInv'
<1>1. /\ origin = "written" /\ result = <<>> /\ offset \in 0 .. Len(str)
      /\ \E t : WrittenSo(t)
  BY DEF StringsInv, WritingInv, Writing
<1>2. PICK t : WrittenSo(t)
  BY <1>1
<1>3. str \in Seq(Int)
  BY BytesAreIntegers DEF StringsInv
<1>4. PICK k \in Nat : k = offset /\ k \in 0 .. Len(str)
  BY <1>1, <1>3
<1>5. /\ output' = output \o c /\ offset' = k + l
      /\ UNCHANGED <<str, escapeUnicode, allowControl, origin, phase, result>>
  BY <1>4 DEF Write
<1>6. Same
  BY <1>5, GivenKept DEF given
<1>7. l \in 0 .. Len(str) - k
  BY <1>3, <1>4
<1>8. FurtherSo(str, k, l)
  BY <1>3, <1>4, <1>7, Further
<1>9. PICK d : d = SubSeq(From(str, k + 1), 1, l)
  OBVIOUS
<1>10. Chunk(c, d) /\ Spells(t, SubSeq(str, 1, k))
  BY <1>2, <1>4, <1>9 DEF WrittenSo
<1>11. Spells(t \o c, SubSeq(str, 1, k + l))
  <2>1. Spells(c, d)
    BY <1>10, SpellsChunk
  <2>2. Spells(t \o c, SubSeq(str, 1, k) \o d)
    BY <1>10, <2>1, SpellsJoin
  <2> QED
    BY <1>8, <1>9, <2>2 DEF FurtherSo
<1>12. t \in Seq(Int) /\ c \in Seq(Int)
  BY <1>10 DEF Spells, Chunk
<1>13. output' = <<Quote>> \o (t \o c)
  <2>1. <<Quote>> \in Seq(Int)
    BY DEF Quote
  <2>2. Together(<<Quote>>, t, c)
    BY <1>12, <2>1, PartsTogether
  <2>3. output = <<Quote>> \o t
    BY <1>2 DEF WrittenSo
  <2> QED
    BY <1>5, <2>2, <2>3 DEF Together
<1>14. ~ HasRawControl => Readable(t \o c)
  BY <1>2, <1>12, ReadableJoin DEF WrittenSo
<1>15. WrittenSo(t \o c)'
  BY <1>5, <1>6, <1>11, <1>13, <1>14 DEF WrittenSo, Same
<1>16. From(From(str, k + 1), l + 1) = From(str, k + l + 1) /\ k + l \in 0 .. Len(str)
  BY <1>8 DEF FurtherSo
<1>17. escapeUnicode' => IsStructurallyValidUtf8(From(str, offset + 1))'
  BY <1>4, <1>5, <1>16
<1>18. offset' \in 0 .. Len(str')
  BY <1>5, <1>16
<1> QED
  BY <1>1, <1>5, <1>15, <1>17, <1>18 DEF WritingInv

WriterTurn == WriteShortEscape \/ WriteAsIs \/ WriteCodePoint

\* The byte at which the writer is.
AtByte(h) ==
  /\ h \in Nat /\ h \in Byte /\ rest # <<>> /\ Head(rest) = h /\ rest[1] = h
  /\ rest \in Seq(Int) /\ Len(rest) = Len(str) - offset /\ SubSeq(rest, 1, 1) = <<h>>
  /\ 1 \in 1 .. Len(str) - offset
  /\ offset + 1 \in 1 .. Len(str) /\ str[offset + 1] = h

LEMMA AtByteIs ==
  ASSUME StringsInv, Writing, Promised
  PROVE  \E h : AtByte(h)
<1>1. str \in Seq(Byte) /\ str \in Seq(Int) /\ offset \in 0 .. Len(str)
  BY BytesAreIntegers DEF StringsInv, WritingInv, Writing
<1>2. PICK n \in Nat, k \in Nat : n = Len(str) /\ k = offset
  BY <1>1
<1>3. k \in 0 .. n /\ k < n
  BY <1>1, <1>2 DEF Writing
<1>4. HeadSo(str, k)
  BY <1>1, <1>2, <1>3, HeadIs
<1>5. PICK h : h = str[k + 1]
  OBVIOUS
<1>6. rest = From(str, k + 1)
  BY <1>2 DEF rest, From
<1>7. k + 1 \in 1 .. n /\ 1 \in 1 .. n - k
  BY <1>3
<1>8. h \in Byte
  BY <1>1, <1>2, <1>5, <1>7
<1>9. h \in Nat
  BY <1>8 DEF Byte
<1>10. /\ rest # <<>> /\ rest \in Seq(Int) /\ Len(rest) = Len(str) - k
       /\ Head(rest) = h /\ rest[1] = h /\ SubSeq(rest, 1, 1) = <<h>>
  BY <1>4, <1>5, <1>6 DEF HeadSo
<1>11. AtByte(h)
  BY <1>2, <1>5, <1>7, <1>8, <1>9, <1>10 DEF AtByte
<1> QED
  BY <1>11

LEMMA WriterKeeps ==
  ASSUME StringsInv, Writing, Promised, WriterTurn
  PROVE  WritingInv'
<1>1. PICK h : AtByte(h)
  BY AtByteIs
<1>2. /\ h \in Nat /\ h \in Byte /\ rest # <<>> /\ Head(rest) = h /\ rest[1] = h
      /\ rest \in Seq(Int) /\ Len(rest) = Len(str) - offset /\ SubSeq(rest, 1, 1) = <<h>>
      /\ 1 \in 1 .. Len(str) - offset
      /\ offset + 1 \in 1 .. Len(str) /\ str[offset + 1] = h
  BY <1>1 DEF AtByte
<1>3. rest = From(str, offset + 1)
  BY DEF rest, From
<1>4. escapeUnicode => IsStructurallyValidUtf8(rest)
  BY <1>3 DEF StringsInv, WritingInv, Writing
<1>5. h < 128 /\ escapeUnicode => IsStructurallyValidUtf8(From(rest, 1 + 1))
  <2>1. 1 + 1 = 2
    OBVIOUS
  <2> QED
    BY <1>2, <1>4, <2>1, AsciiStarts
<1>6. <<h>> \in Seq(Int)
  BY <1>2
<1>7. CASE WriteShortEscape
  <2>1. PICK e \in WriterEscapes : e[1] = h /\ Write(<<Backslash, e[2]>>, 1)
    BY <1>2, <1>7 DEF WriteShortEscape
  <2>2. /\ <<e[2], e[1]>> \in ReaderEscapes
        /\ e[2] \in Int /\ e[2] >= 32 /\ e[1] < 128
    BY DEF WriterEscapes, ReaderEscapes
  <2>3. PICK c : c = <<Backslash, e[2]>>
    OBVIOUS
  <2>4. c \in Seq(Int) /\ Len(c) = 2 /\ c[1] = Backslash /\ c[2] = e[2]
    BY <2>2, <2>3 DEF Backslash
  <2>5. Short(c, <<h>>)
    <3>1. PICK f \in ReaderEscapes : f = <<e[2], e[1]>>
      BY <2>2
    <3>2. f[1] = e[2] /\ f[2] = h
      BY <2>1, <3>1
    <3> QED
      BY <2>4, <3>2 DEF Short
  <2>6. Chunk(c, <<h>>)
    BY <1>6, <2>4, <2>5 DEF Chunk
  <2>7. Readable(c)
    <3>1. \A i \in 1 .. 2 : i = 1 \/ i = 2
      OBVIOUS
    <3>2. c[1] >= 32 /\ c[2] >= 32
      BY <2>2, <2>4 DEF Backslash
    <3> QED
      BY <2>4, <3>1, <3>2 DEF Readable
  <2>8. escapeUnicode => IsStructurallyValidUtf8(From(rest, 1 + 1))
    BY <1>5, <2>1, <2>2
  <2>9. Write(c, 1)
    BY <2>1, <2>3
  <2> QED
    BY <1>2, <1>3, <2>6, <2>7, <2>8, <2>9, WriterGoesOn
<1>8. CASE WriteAsIs
  <2>1. /\ ~ HasEscape /\ Write(<<h>>, 1)
        /\ ~ escapeUnicode \/ h < 128 \/ ReadCodePointPrefix(rest).length = 0
    BY <1>2, <1>8 DEF WriteAsIs
  <2>2. \A e \in WriterEscapes : e[1] # h
    BY <1>2, <2>1 DEF HasEscape
  <2>3. h # Quote /\ h # Backslash
    <3>1. <<34, 34>> \in WriterEscapes /\ <<92, 92>> \in WriterEscapes
      BY DEF WriterEscapes
    <3>2. <<34, 34>>[1] # h /\ <<92, 92>>[1] # h
      BY <2>2, <3>1
    <3> QED
      BY <3>2 DEF Quote, Backslash
  <2>4. PICK c : c = <<h>>
    OBVIOUS
  <2>5. c \in Seq(Int) /\ Len(c) = 1 /\ c[1] = h
    BY <1>6, <2>4
  <2>6. Chunk(c, <<h>>)
    <3>1. AsIs(c, c)
      BY <2>3, <2>5 DEF AsIs
    <3> QED
      BY <2>4, <2>5, <3>1 DEF Chunk
  <2>7. ~ HasRawControl => Readable(c)
    <3>1. ~ HasRawControl => ~ (h < 32)
      BY <1>2, <2>2 DEF HasRawControl
    <3>2. ~ (h < 32) => h >= 32
      BY <1>2
    <3> QED
      BY <2>5, <3>1, <3>2 DEF Readable
  <2>8. escapeUnicode => IsStructurallyValidUtf8(From(rest, 1 + 1))
    <3>1. ASSUME escapeUnicode
          PROVE  h < 128
      <4>1. StartsValid(rest)
        BY <1>2, <1>4, <3>1, ValidStarts
      <4>2. ReadCodePointPrefix(rest).length \in 1 .. 4
        BY <4>1 DEF StartsValid
      <4>3. ReadCodePointPrefix(rest).length # 0
        BY <4>2
      <4> QED
        BY <2>1, <3>1, <4>3
    <3> QED
      BY <1>5, <3>1
  <2>9. Write(c, 1)
    BY <2>1, <2>4
  <2> QED
    BY <1>2, <1>3, <2>6, <2>7, <2>8, <2>9, WriterGoesOn
<1>9. CASE WriteCodePoint
  <2>1. PICK p : p = ReadCodePointPrefix(rest)
    OBVIOUS
  <2>2. escapeUnicode
    BY <1>9 DEF WriteCodePoint
  <2>3. StartsValid(rest)
    BY <1>2, <1>4, <2>2, ValidStarts
  <2>4. /\ p.length \in 1 .. 4 /\ p.length <= Len(rest) /\ IsScalarValue(p.codePoint)
        /\ WriteCodePointToBuffer(p.codePoint) = SubSeq(rest, 1, p.length)
        /\ IsStructurallyValidUtf8(From(rest, p.length + 1))
    BY <2>1, <2>3 DEF StartsValid
  <2>5. PICK l \in 1 .. 4 : l = p.length
    BY <2>4
  <2>6. PICK v : v = p.codePoint
    OBVIOUS
  <2>7. /\ IsScalarValue(v) /\ WriteCodePointToBuffer(v) = SubSeq(rest, 1, l)
        /\ IsStructurallyValidUtf8(From(rest, l + 1))
    BY <2>4, <2>5, <2>6
  <2>8. l \in 1 .. Len(str) - offset
    <3>1. l <= Len(rest) /\ Len(rest) \in Nat
      BY <1>2, <2>4, <2>5
    <3> QED
      BY <1>2, <3>1
  <2>9. PICK x, y : x = EncodeSurrogatePair(v)[1] /\ y = EncodeSurrogatePair(v)[2]
    OBVIOUS
  <2>10. Halves(v, x, y)
    BY <2>9 DEF Halves
  <2>11. IF IsSurrogatePair(v)
           THEN \E high \in Escaped(x), low \in Escaped(y) : Write(high \o low, l)
           ELSE \E e \in Escaped(v) : Write(e, l)
    BY <1>9, <2>1, <2>5, <2>6, <2>9 DEF WriteCodePoint
  <2>12. \E c : Chunk(c, SubSeq(rest, 1, l)) /\ Readable(c) /\ Write(c, l)
    <3>1. CASE IsSurrogatePair(v)
      <4>1. PICK high \in Escaped(x), low \in Escaped(y) : Write(high \o low, l)
        BY <2>11, <3>1
      <4>2. v \in Nat
        BY <2>7, ScalarForm
      <4>3. SixteenBits(x) /\ SixteenBits(y)
        BY <2>10, <3>1, <4>2, HalvesAre
      <4>4. EscapeFor(high, x) /\ EscapeFor(low, y)
        BY <4>3, EscapedIs
      <4>5. PairFor(high, low, v)
        BY <2>7, <2>10, <3>1, <4>4, PairChunk
      <4>6. Chunk(high \o low, SubSeq(rest, 1, l)) /\ Readable(high \o low)
        BY <2>7, <4>5 DEF PairFor
      <4> QED
        BY <4>1, <4>6
    <3>2. CASE ~ IsSurrogatePair(v)
      <4>1. PICK e \in Escaped(v) : Write(e, l)
        BY <2>11, <3>2
      <4>2. SixteenBits(v)
        BY <2>7, <3>2, BasicPlane
      <4>3. EscapeFor(e, v)
        BY <4>2, EscapedIs
      <4>4. Chunk(e, WriteCodePointToBuffer(v))
        BY <2>7, <3>2, <4>3, CodePointChunk
      <4>5. Chunk(e, SubSeq(rest, 1, l)) /\ Readable(e)
        BY <2>7, <4>3, <4>4 DEF EscapeFor
      <4> QED
        BY <4>1, <4>5
    <3> QED
      BY <3>1, <3>2
  <2>13. PICK c : Chunk(c, SubSeq(rest, 1, l)) /\ Readable(c) /\ Write(c, l)
    BY <2>12
  <2> QED
    BY <1>3, <2>7, <2>8, <2>13, WriterGoesOn
<1> QED
  BY <1>7, <1>8, <1>9 DEF WriterTurn

LEMMA WriterNext ==
  ASSUME StringsInv, WriterTurn
  PROVE  StringsInv'
<1>1. Writing
  BY DEF WriterTurn, WriteShortEscape, WriteAsIs, WriteCodePoint
<1>2. PICK c, l : Write(c, l)
  BY DEF WriterTurn, WriteShortEscape, WriteAsIs, WriteCodePoint
<1>3. UNCHANGED <<str, escapeUnicode, allowControl, origin, phase, result>>
  BY <1>2 DEF Write
<1>4. Same
  BY <1>3, GivenKept DEF given
<1>5. phase = "writing" /\ phase' = "writing"
  BY <1>1, <1>3 DEF Writing
<1>6. WritingInv'
  <2>1. CASE Promised
    BY <1>1, <2>1, WriterKeeps
  <2>2. CASE ~ Promised
    <3>1. ~ Promised'
      BY <1>4, <2>2 DEF Same
    <3>2. origin' = "written" /\ result' = <<>>
      BY <1>3, <1>5 DEF StringsInv, WritingInv
    <3> QED
      BY <3>1, <3>2 DEF WritingInv
  <2> QED
    BY <2>1, <2>2
<1>7. ReadingInv' /\ EndInv'
  BY <1>5 DEF ReadingInv, EndInv
<1>8. str' \in Seq(Byte) /\ (origin' = "spelled" => Valid')
  BY <1>3, <1>4 DEF StringsInv, Same
<1> QED
  BY <1>6, <1>7, <1>8 DEF StringsInv

\* Of two ways to part a text, one goes further.
PrefixSo(a, b, c, d) ==
  \E w \in Seq(Int) : c = a \o w /\ b = w \o d /\ Len(c) = Len(a) + Len(w)

LEMMA PrefixIs ==
  ASSUME NEW a \in Seq(Int), NEW b \in Seq(Int), NEW c \in Seq(Int), NEW d \in Seq(Int),
         a \o b = c \o d, Len(a) <= Len(c)
  PROVE  PrefixSo(a, b, c, d)
<1>1. PICK t : t = a \o b /\ t = c \o d
  OBVIOUS
<1>2. PICK m \in Nat, n \in Nat : m = Len(a) /\ n = Len(c)
  OBVIOUS
<1>3. m <= n /\ m \in 0 .. Len(c)
  BY <1>2
<1>4. JoinSo(t, a, b) /\ JoinSo(t, c, d)
  BY <1>1, JoinIs
<1>5. (\A i \in 1 .. m : t[i] = a[i]) /\ (\A i \in 1 .. n : t[i] = c[i])
  BY <1>2, <1>4 DEF JoinSo
<1>6. PICK f, w : f = SubSeq(c, 1, m) /\ w = From(c, m + 1)
  OBVIOUS
<1>7. /\ f \in Seq(Int) /\ Len(f) = m /\ w \in Seq(Int) /\ Len(w) = n - m
      /\ c = f \o w /\ \A i \in 1 .. m : f[i] = c[i]
  <2>1. SplitSo(c, m)
    BY <1>3, SplitAt
  <2> QED
    BY <1>2, <1>6, <2>1 DEF SplitSo
<1>8. \A i \in 1 .. m : f[i] = a[i]
  <2>1. \A i \in 1 .. m : i \in 1 .. n
    BY <1>3
  <2> QED
    BY <1>5, <1>7, <2>1
<1>9. f = a
  <2>1. Len(f) = Len(a) /\ \A i \in 1 .. Len(f) : f[i] = a[i]
    BY <1>2, <1>7, <1>8
  <2> QED
    BY <1>7, <2>1, SeqEqual
<1>10. c = a \o w
  BY <1>7, <1>9
<1>11. Together(a, w, d)
  BY <1>7, PartsTogether
<1>12. t = a \o (w \o d)
  BY <1>1, <1>10, <1>11 DEF Together
<1>13. PICK x : x = w \o d
  OBVIOUS
<1>14. x \in Seq(Int)
  BY <1>7, <1>13, AfterPart DEF AfterIt
<1>15. AfterIt(a, b) /\ AfterIt(a, x)
  BY <1>14, AfterPart
<1>16. b = x
  <2>1. From(t, Len(a) + 1) = b
    BY <1>1, <1>15 DEF AfterIt
  <2>2. From(t, Len(a) + 1) = x
    BY <1>12, <1>13, <1>15 DEF AfterIt
  <2> QED
    BY <2>1, <2>2
<1>17. Len(c) = Len(a) + Len(w)
  BY <1>2, <1>3, <1>7
<1> QED
  BY <1>7, <1>10, <1>13, <1>16, <1>17 DEF PrefixSo

LEMMA ChunkIsSome ==
  ASSUME NEW c, NEW d, Chunk(c, d)
  PROVE  c # <<>>
<1>1. <<>> \in Seq(Int)
  OBVIOUS
<1>2. ChunkFound(c \o <<>>, d, <<>>)
  BY <1>1, ChunkIsFound
<1>3. c \o <<>> # <<>>
  BY <1>2 DEF ChunkFound, AsIsFound, ShortFound, CodePointFound, PairFound
<1>4. c \in Seq(Int)
  BY DEF Chunk
<1>5. c \o <<>> = c
  BY <1>4
<1> QED
  BY <1>3, <1>5

\* What the reader finds.
LEMMA FoundIsSome ==
  ASSUME NEW r, NEW d, NEW v, ChunkFound(r, d, v)
  PROVE  r # <<>>
BY DEF ChunkFound, AsIsFound, ShortFound, CodePointFound, PairFound

LEMMA QuoteNext ==
  ASSUME StringsInv, WriteClosingQuote
  PROVE  StringsInv'
<1>1. /\ phase = "writing" /\ offset = Len(str)
      /\ output' = Append(output, Quote)
      /\ phase' = "reading" /\ remaining' = Tail(output')
      /\ UNCHANGED <<str, escapeUnicode, allowControl, origin, offset, result>>
  BY DEF WriteClosingQuote
<1>2. Same
  BY <1>1, GivenKept DEF given
<1>3. origin = "written" /\ result = <<>>
  BY <1>1 DEF StringsInv, WritingInv
<1>4. ASSUME Promised
      PROVE  \E t, b : LeftSo(t, b)'
  <2>1. PICK t : WrittenSo(t)
    BY <1>1, <1>4 DEF StringsInv, WritingInv
  <2>2. output = <<Quote>> \o t /\ Spells(t, SubSeq(str, 1, offset))
    BY <2>1 DEF WrittenSo
  <2>3. str \in Seq(Int)
    BY BytesAreIntegers DEF StringsInv
  <2>4. SubSeq(str, 1, offset) = str
    BY <1>1, <2>3, FromFirst DEF FirstSo, From
  <2>5. Spells(t, str) /\ t \in Seq(Int)
    BY <2>2, <2>4 DEF Spells
  <2>6. PICK q : q = <<Quote>>
    OBVIOUS
  <2>7. q \in Seq(Int)
    BY <2>6 DEF Quote
  <2>8. PICK v : v = t \o q
    OBVIOUS
  <2>9. v \in Seq(Int)
    BY <2>5, <2>7, <2>8, AfterPart DEF AfterIt
  <2>10. output' = q \o v
    <3>1. output \in Seq(Int)
      BY <2>2, <2>5, <2>6, <2>7, AfterPart DEF AfterIt
    <3>2. Append(output, Quote) = output \o <<Quote>>
      BY <3>1 DEF Quote
    <3>3. Together(q, t, q)
      BY <2>5, <2>7, PartsTogether
    <3> QED
      BY <1>1, <2>2, <2>6, <2>8, <3>2, <3>3 DEF Together
  <2>11. remaining' = v
    <3>1. PICK o : o = output'
      OBVIOUS
    <3>2. AfterIt(q, v)
      BY <2>7, <2>9, AfterPart
    <3>3. Len(q) = 1 /\ 1 + 1 = 2
      BY <2>6
    <3>4. o \in Seq(Int) /\ From(o, 2) = v /\ Len(o) = 1 + Len(v)
      BY <2>10, <3>1, <3>2, <3>3 DEF AfterIt
    <3>5. AtLeastOne(o)
      <4>1. Len(o) >= 1
        BY <2>9, <3>4
      <4> QED
        BY <3>4, <4>1, LongEnough
    <3>6. Tail(o) = From(o, 2)
      BY <3>4, <3>5, FromFirst DEF FirstSo, AtLeastOne
    <3> QED
      BY <1>1, <3>1, <3>4, <3>6
  <2>12. str = <<>> \o str /\ <<>> \in Seq(Int)
    BY <2>3
  <2>13. Fine => allowControl \/ Readable(t)
    BY <1>3, <2>1 DEF Fine, WrittenSo
  <2>14. LeftSo(t, str)'
    <3>1. remaining' = t \o <<Quote>>
      BY <2>6, <2>8, <2>11
    <3>2. result' \in Seq(Int) /\ str' = result' \o str
      BY <1>1, <1>3, <2>12
    <3>3. Fine' => allowControl' \/ Readable(t)
      BY <1>1, <1>2, <2>13 DEF Same
    <3>5. Spells(t, str')
      BY <1>1, <2>5
    <3>6. str' = result' \o str'
      BY <1>1, <3>2
    <3> QED
      BY <3>1, <3>2, <3>3, <3>5, <3>6 DEF LeftSo
  <2> QED
    BY <2>14
<1>5. ReadingInv'
  BY <1>1, <1>2, <1>3, <1>4 DEF ReadingInv, Same
<1>6. WritingInv' /\ EndInv'
  BY <1>1 DEF WritingInv, EndInv
<1>7. str' \in Seq(Byte) /\ (origin' = "spelled" => Valid')
  BY <1>1, <1>2 DEF StringsInv, Same
<1> QED
  BY <1>5, <1>6, <1>7 DEF StringsInv

LEMMA ReaderPhases ==
  ASSUME ReaderTurn
  PROVE  /\ phase = "reading" /\ phase' \in {"reading", "read", "failed"}
         /\ UNCHANGED readerKeeps
<1>1. CASE ReadClosingQuote
  BY <1>1 DEF ReadClosingQuote, Ends, readerKeeps
<1>2. CASE ReadAsIs
  BY <1>2 DEF ReadAsIs, Ends, Read, readerKeeps
<1>3. CASE ReadShortEscape
  BY <1>3 DEF ReadShortEscape, Read, readerKeeps
<1>4. CASE ReadUnicodeEscape
  BY <1>4 DEF ReadUnicodeEscape, Ends, Read, readerKeeps
<1>5. CASE ReadNothing
  BY <1>5 DEF ReadNothing, Ends, readerKeeps
<1> QED
  BY <1>1, <1>2, <1>3, <1>4, <1>5 DEF ReaderTurn

\* The reader at a text of which it makes the string.
LEMMA WholeIsRead ==
  ASSUME StringsInv, ReaderTurn, origin # "cut", Promised
  PROVE  ReadingInv' /\ EndInv'
<1>1. phase = "reading" /\ phase' \in {"reading", "read", "failed"} /\ UNCHANGED readerKeeps
  BY ReaderPhases
<1>2. PICK t, b : LeftSo(t, b)
  BY <1>1 DEF StringsInv, ReadingInv
<1>3. /\ Spells(t, b) /\ remaining = t \o <<Quote>>
      /\ result \in Seq(Int) /\ str = result \o b
      /\ Fine => allowControl \/ Readable(t)
  BY <1>2 DEF LeftSo
<1>4. UNCHANGED <<str, escapeUnicode, allowControl, origin>>
  BY <1>1 DEF readerKeeps
<1>5. Same
  BY <1>4, GivenKept DEF given
<1>6. origin' # "cut" /\ Promised'
  BY <1>4, <1>5 DEF Same
<1>7. PICK q : q = <<Quote>>
  OBVIOUS
<1>8. q \in Seq(Int) /\ t \in Seq(Int) /\ b \in Seq(Int)
  BY <1>3, <1>7 DEF Quote, Spells
<1>9. CASE t = <<>> /\ b = <<>>
  <2>1. remaining = <<Quote>>
    <3>1. <<>> \o q = q
      BY <1>8
    <3> QED
      BY <1>3, <1>7, <1>9, <3>1
  <2>2. /\ phase' = IF IsStructurallyValidUtf8(result) THEN "read" ELSE "failed"
        /\ UNCHANGED <<readerKeeps, result>>
    BY <1>1, <2>1, QuoteEnds
  <2>3. str = result
    <3>1. result \o <<>> = result
      BY <1>3
    <3> QED
      BY <1>3, <1>9, <3>1
  <2>4. phase' = IF Valid THEN "read" ELSE "failed"
    BY <2>2, <2>3 DEF Valid
  <2>5. result' = str'
    BY <1>4, <2>2, <2>3
  <2>6. EndInv'
    BY <1>5, <1>6, <2>4, <2>5 DEF EndInv, Same
  <2>7. phase' # "reading"
    BY <2>4
  <2> QED
    BY <2>6, <2>7 DEF ReadingInv
<1>10. CASE BeginsWithChunk(t, b)
  <2>1. PICK c, d, u, e : Chunk(c, d) /\ Spells(u, e) /\ t = c \o u /\ b = d \o e
    BY <1>10 DEF BeginsWithChunk
  <2>2. c \in Seq(Int) /\ d \in Seq(Int) /\ u \in Seq(Int) /\ e \in Seq(Int) /\ c # <<>>
    BY <2>1, ChunkIsSome DEF Chunk, Spells
  <2>3. PICK v : v = u \o q
    OBVIOUS
  <2>4. v \in Seq(Int)
    BY <1>8, <2>2, <2>3, AfterPart DEF AfterIt
  <2>5. remaining = c \o v
    <3>1. Together(c, u, q)
      BY <1>8, <2>2, PartsTogether
    <3> QED
      BY <1>3, <1>7, <2>1, <2>3, <3>1 DEF Together
  <2>6. ChunkFound(remaining, d, v)
    BY <2>1, <2>4, <2>5, ChunkIsFound
  <2>7. remaining # <<>>
    BY <2>6, FoundIsSome
  <2>8. Taken(d, v)
    BY <1>1, <2>6, <2>7, ChunkIsTaken
  <2>9. PICK m \in Nat, n \in Nat : m = Len(c) /\ n = Len(u) /\ m >= 1
    BY <2>2, NotEmpty DEF AtLeastOne
  <2>10. /\ Len(t) = m + n /\ \A i \in 1 .. m : t[i] = c[i]
         /\ \A i \in 1 .. n : t[m + i] = u[i]
    <3>1. JoinSo(t, c, u)
      BY <2>1, <2>2, JoinIs
    <3> QED
      BY <2>9, <3>1 DEF JoinSo
  <2>11. CASE result' = result \o d /\ remaining' = v /\ phase' = phase
    <3>1. str' = result' \o e /\ result' \in Seq(Int)
      <4>1. Together(result, d, e)
        BY <1>3, <2>2, PartsTogether
      <4>2. result \o d \in Seq(Int)
        BY <1>3, <2>2, AfterPart DEF AfterIt
      <4> QED
        BY <1>3, <1>4, <2>1, <2>11, <4>1, <4>2 DEF Together
    <3>2. Readable(t) => Readable(u)
      <4>1. \A i \in 1 .. n : m + i \in 1 .. m + n
        OBVIOUS
      <4>2. Readable(t) => \A i \in 1 .. n : u[i] >= 32
        BY <2>10, <4>1 DEF Readable
      <4> QED
        BY <2>9, <4>2 DEF Readable
    <3>3. Fine' => allowControl' \/ Readable(u)
      BY <1>3, <1>4, <1>5, <3>2 DEF Same
    <3>4. remaining' = u \o <<Quote>>
      BY <1>7, <2>3, <2>11
    <3>5. LeftSo(u, e)'
      BY <2>1, <3>1, <3>3, <3>4 DEF LeftSo
    <3>6. ReadingInv'
      BY <1>6, <3>5 DEF ReadingInv
    <3>7. EndInv'
      BY <1>1, <2>11 DEF EndInv
    <3> QED
      BY <3>6, <3>7
  <2>12. CASE phase' = "failed" /\ ~ allowControl /\ remaining[1] < 32
    <3>1. remaining[1] = t[1]
      <4>1. JoinSo(remaining, c, v)
        BY <2>2, <2>4, <2>5, JoinIs
      <4>2. 1 \in 1 .. m
        BY <2>9
      <4>3. remaining[1] = c[1]
        BY <2>9, <4>1, <4>2 DEF JoinSo
      <4> QED
        BY <2>10, <4>2, <4>3
    <3>2. ~ Readable(t)
      <4>1. 1 \in 1 .. m + n
        BY <2>9
      <4>2. Readable(t) => t[1] >= 32
        BY <2>10, <4>1 DEF Readable
      <4>3. 1 \in 1 .. Len(t)
        BY <2>10, <4>1
      <4>4. t[1] \in Int
        BY <1>8, <4>3
      <4>5. ~ (t[1] >= 32)
        BY <2>12, <3>1, <4>4
      <4> QED
        BY <4>2, <4>5
    <3>3. ~ Fine'
      BY <1>3, <1>5, <2>12, <3>2 DEF Same
    <3> QED
      BY <2>12, <3>3 DEF EndInv, ReadingInv
  <2> QED
    BY <2>8, <2>11, <2>12 DEF Taken
<1> QED
  BY <1>3, <1>9, <1>10, SpellsBegins

\* The reader at a text that is cut short.
LEMMA CutIsRead ==
  ASSUME StringsInv, ReaderTurn, origin = "cut"
  PROVE  ReadingInv' /\ EndInv'
<1>1. phase = "reading" /\ phase' \in {"reading", "read", "failed"} /\ UNCHANGED readerKeeps
  BY ReaderPhases
<1>2. PICK t, u : CutSo(t, u)
  BY <1>1 DEF StringsInv, ReadingInv
<1>3. remaining \in Seq(Int) /\ u \in Seq(Int) /\ t = remaining \o u
  BY <1>2 DEF CutSo
<1>4. PICK b : Spells(t, b)
  BY <1>2 DEF CutSo
<1>5. origin' = "cut"
  BY <1>1 DEF readerKeeps
<1>6. ASSUME phase' = "failed"
      PROVE  ReadingInv' /\ EndInv'
  BY <1>5, <1>6 DEF ReadingInv, EndInv
<1>7. CASE remaining = <<>>
  <2>1. phase' = "failed"
    BY <1>1, <1>7, NothingFails
  <2> QED
    BY <1>6, <2>1
<1>8. CASE remaining # <<>>
  <2>1. BeginsWithChunk(t, b)
    <3>1. t # <<>>
      <4>1. PICK k \in Nat, l \in Nat : k = Len(remaining) /\ l = Len(u) /\ k >= 1
        BY <1>3, <1>8, NotEmpty DEF AtLeastOne
      <4>2. JoinSo(t, remaining, u)
        BY <1>3, JoinIs
      <4>3. t \in Seq(Int) /\ Len(t) = k + l
        BY <4>1, <4>2 DEF JoinSo
      <4>4. Len(t) >= 1
        BY <4>1, <4>3
      <4>5. AtLeastOne(t)
        BY <4>3, <4>4, LongEnough
      <4> QED
        BY <4>5 DEF AtLeastOne
    <3> QED
      BY <1>4, <3>1, SpellsBegins
  <2>2. PICK c, d, v, e : Chunk(c, d) /\ Spells(v, e) /\ t = c \o v /\ b = d \o e
    BY <2>1 DEF BeginsWithChunk
  <2>3. c \in Seq(Int) /\ v \in Seq(Int)
    BY <2>2 DEF Chunk, Spells
  <2>4. PICK k \in Nat, m \in Nat : k = Len(remaining) /\ m = Len(c)
    BY <1>3, <2>3
  <2>5. c \o v = remaining \o u
    BY <1>3, <2>2
  <2>6. CASE m <= k
    <3>1. PrefixSo(c, v, remaining, u)
      BY <1>3, <2>3, <2>4, <2>5, <2>6, PrefixIs
    <3>2. PICK w \in Seq(Int) : remaining = c \o w /\ v = w \o u
      BY <3>1 DEF PrefixSo
    <3>3. ChunkFound(remaining, d, w)
      BY <2>2, <3>2, ChunkIsFound
    <3>4. Taken(d, w)
      BY <1>1, <1>8, <3>3, ChunkIsTaken
    <3>5. CASE remaining' = w /\ phase' = phase
      <4>1. CutSo(v, u)'
        BY <1>3, <2>2, <3>2, <3>5 DEF CutSo
      <4> QED
        BY <1>1, <1>5, <3>5, <4>1 DEF ReadingInv, EndInv
    <3>6. CASE phase' = "failed"
      BY <1>6, <3>6
    <3> QED
      BY <3>4, <3>5, <3>6 DEF Taken
  <2>7. CASE ~ (m <= k)
    <3>1. k <= m
      BY <2>4, <2>7
    <3>2. PrefixSo(remaining, u, c, v)
      BY <1>3, <2>3, <2>4, <2>5, <3>1, PrefixIs
    <3>3. PICK w \in Seq(Int) : c = remaining \o w /\ Len(c) = Len(remaining) + Len(w)
      BY <3>2 DEF PrefixSo
    <3>4. w # <<>>
      <4>1. PICK n \in Nat : n = Len(w)
        OBVIOUS
      <4>2. m = k + n
        BY <2>4, <3>3, <4>1
      <4>3. Len(w) >= 1
        BY <2>7, <4>1, <4>2
      <4>4. AtLeastOne(w)
        BY <4>3, LongEnough
      <4> QED
        BY <4>4 DEF AtLeastOne
    <3>5. CutFound(remaining)
      BY <1>3, <1>8, <2>2, <3>3, <3>4, CutIsFound
    <3>6. phase' = "failed"
      BY <1>1, <1>8, <3>5, CutFails
    <3> QED
      BY <1>6, <3>6
  <2> QED
    BY <2>6, <2>7
<1> QED
  BY <1>7, <1>8

LEMMA ReaderNext ==
  ASSUME StringsInv, ReaderTurn
  PROVE  StringsInv'
<1>1. phase = "reading" /\ phase' \in {"reading", "read", "failed"} /\ UNCHANGED readerKeeps
  BY ReaderPhases
<1>2. UNCHANGED <<str, escapeUnicode, allowControl, origin>>
  BY <1>1 DEF readerKeeps
<1>3. Same
  BY <1>2, GivenKept DEF given
<1>4. ReadingInv' /\ EndInv'
  <2>1. CASE origin = "cut"
    BY <2>1, CutIsRead
  <2>2. CASE origin # "cut" /\ Promised
    BY <2>2, WholeIsRead
  <2>3. CASE origin # "cut" /\ ~ Promised
    <3>1. origin' # "cut" /\ ~ Promised'
      BY <1>2, <1>3, <2>3 DEF Same
    <3> QED
      BY <3>1 DEF ReadingInv, EndInv
  <2> QED
    BY <2>1, <2>2, <2>3
<1>5. WritingInv'
  BY <1>1 DEF WritingInv
<1>6. str' \in Seq(Byte) /\ (origin' = "spelled" => Valid')
  BY <1>2, <1>3 DEF StringsInv, Same
<1> QED
  BY <1>4, <1>5, <1>6 DEF StringsInv

LEMMA StringsStay ==
  ASSUME StringsInv, UNCHANGED vars
  PROVE  StringsInv'
<1>1. UNCHANGED <<str, escapeUnicode, allowControl, origin, phase, offset, output, remaining,
                  result>>
  BY DEF vars
<1>2. Same
  BY <1>1, GivenKept DEF given
<1>3. WritingInv'
  <2>1. \A t : WrittenSo(t) => WrittenSo(t)'
    BY <1>1, <1>2 DEF WrittenSo, Same
  <2> QED
    BY <1>1, <1>2, <2>1 DEF StringsInv, WritingInv, Same
<1>4. ReadingInv'
  <2>1. \A t, b : LeftSo(t, b) => LeftSo(t, b)'
    BY <1>1, <1>2 DEF LeftSo, Same
  <2>2. \A t, u : CutSo(t, u) => CutSo(t, u)'
    BY <1>1 DEF CutSo
  <2> QED
    BY <1>1, <1>2, <2>1, <2>2 DEF StringsInv, ReadingInv, Same
<1>5. EndInv'
  BY <1>1, <1>2 DEF StringsInv, EndInv, Same
<1>6. str' \in Seq(Byte) /\ (origin' = "spelled" => Valid')
  BY <1>1, <1>2 DEF StringsInv, Same
<1> QED
  BY <1>3, <1>4, <1>5, <1>6 DEF StringsInv

LEMMA StringsNext == StringsInv /\ [TextsNext]_<<vars, textVars>> => StringsInv'
<1> SUFFICES ASSUME StringsInv, [TextsNext]_<<vars, textVars>>
             PROVE  StringsInv'
  OBVIOUS
<1>1. CASE UNCHANGED vars
  BY <1>1, StringsStay
<1>2. CASE Next
  <2>1. WriterTurn \/ WriteClosingQuote \/ ReaderTurn
    BY <1>2 DEF Next, WriterTurn, ReaderTurn
  <2> QED
    BY <2>1, WriterNext, QuoteNext, ReaderNext
<1> QED
  BY <1>1, <1>2 DEF TextsNext

\* A string that is UTF-8 is read back as it was, however long it is and whoever spelled
\* it, and in however many escapes; one that is not UTF-8 is refused rather than
\* changed, and so is every text that is cut short.
THEOREM StringsReadBack == TextsSpec => []ReadsBack
<1>1. TextsInit => StringsInv
  BY StringsInit
<1>2. StringsInv /\ [TextsNext]_<<vars, textVars>> => StringsInv'
  BY StringsNext
<1>3. StringsInv => ReadsBack
  BY StringsSaid
<1> QED
  BY <1>1, <1>2, <1>3, PTL DEF TextsSpec

-----------------------------------------------------------------------------
(* The bytes behind a text and its percent escapes.                        *)

EscapeAt(s, i) == i + 2 <= Len(s) /\ IsHexDigit(s[i + 1]) /\ IsHexDigit(s[i + 2])

Escaped2(s, i) == ReadHexDigit(s[i + 1]) * 16 + ReadHexDigit(s[i + 2])

\* The function by which Unescaped is defined, where it is defined by the values behind.
UnescapedAt(g, s, i) ==
  IF i > Len(s) THEN <<>>
  ELSE IF s[i] # Percent THEN <<s[i]>> \o g[i + 1]
  ELSE IF ~ EscapeAt(s, i) THEN <<Malformed>>
  ELSE <<Escaped2(s, i)>> \o g[i + 3]

UnescapedFrom(g, s, m) ==
  /\ g \in [m .. Len(s) + 1 -> Seq(Int)]
  /\ \A i \in m .. Len(s) + 1 : g[i] = UnescapedAt(g, s, i)

LEMMA EscapedByte ==
  ASSUME NEW s \in Seq(Int), NEW i \in 1 .. Len(s), EscapeAt(s, i)
  PROVE  Escaped2(s, i) \in Int
<1>1. PICK h \in Int, l \in Int : h = s[i + 1] /\ l = s[i + 2]
  <2>1. i + 1 \in 1 .. Len(s) /\ i + 2 \in 1 .. Len(s)
    BY DEF EscapeAt
  <2>2. s[i + 1] \in Int /\ s[i + 2] \in Int
    BY <2>1
  <2> QED
    BY <2>2
<1>2. ReadHexDigit(h) \in Int /\ ReadHexDigit(l) \in Int
  BY DEF ReadHexDigit
<1> QED
  BY <1>1, <1>2 DEF Escaped2

LEMMA UnescapedExists ==
  ASSUME NEW s \in Seq(Int)
  PROVE  \E g : UnescapedFrom(g, s, 1)
<1>1. PICK n \in Nat : n = Len(s)
  OBVIOUS
<1> DEFINE T == {k \in Nat : \E g : UnescapedFrom(g, s, n + 1 - k)}
<1>2. 0 \in T
  <2> DEFINE g == [i \in n + 1 .. n + 1 |-> <<>>]
  <2>1. g \in [n + 1 .. n + 1 -> Seq(Int)]
    OBVIOUS
  <2>2. \A i \in n + 1 .. n + 1 : g[i] = <<>> /\ i > n
    OBVIOUS
  <2> HIDE DEF g
  <2>3. UnescapedFrom(g, s, n + 1)
    BY <1>1, <2>1, <2>2 DEF UnescapedFrom, UnescapedAt
  <2>4. n + 1 - 0 = n + 1
    OBVIOUS
  <2> QED
    BY <2>3, <2>4
<1>3. ASSUME NEW k \in 0 .. n - 1, k \in T
      PROVE  k + 1 \in T
  <2>1. PICK m \in 1 .. n : m = n - k
    OBVIOUS
  <2>2. n + 1 - k = m + 1 /\ n + 1 - (k + 1) = m /\ k + 1 \in Nat
    BY <2>1
  <2>3. PICK g : UnescapedFrom(g, s, m + 1)
    BY <1>3, <2>2
  <2>4. /\ g \in [m + 1 .. n + 1 -> Seq(Int)]
        /\ \A i \in m + 1 .. n + 1 : g[i] = UnescapedAt(g, s, i)
    BY <1>1, <2>3 DEF UnescapedFrom
  <2>5. PICK x \in Seq(Int) : x = UnescapedAt(g, s, m)
    <3>0. ~ (m > Len(s)) /\ m \in 1 .. Len(s)
      BY <1>1
    <3>1. CASE s[m] # Percent
      <4>1. s[m] \in Int /\ g[m + 1] \in Seq(Int)
        BY <1>1, <2>4
      <4>2. <<s[m]>> \o g[m + 1] \in Seq(Int)
        BY <4>1
      <4> QED
        BY <3>0, <3>1, <4>2 DEF UnescapedAt
    <3>2. CASE s[m] = Percent /\ ~ EscapeAt(s, m)
      <4>1. <<Malformed>> \in Seq(Int)
        BY DEF Malformed
      <4> QED
        BY <3>0, <3>2, <4>1 DEF UnescapedAt
    <3>3. CASE s[m] = Percent /\ EscapeAt(s, m)
      <4>1. m + 3 \in m + 1 .. n + 1
        BY <1>1, <3>3 DEF EscapeAt
      <4>2. g[m + 3] \in Seq(Int) /\ Escaped2(s, m) \in Int
        BY <2>4, <3>0, <3>3, <4>1, EscapedByte
      <4>3. <<Escaped2(s, m)>> \o g[m + 3] \in Seq(Int)
        BY <4>2
      <4> QED
        BY <3>0, <3>3, <4>3 DEF UnescapedAt
    <3> QED
      BY <3>1, <3>2, <3>3
  <2> DEFINE f == [i \in m .. n + 1 |-> IF i = m THEN x ELSE g[i]]
  <2>6. /\ f \in [m .. n + 1 -> Seq(Int)] /\ f[m] = x
        /\ \A i \in m + 1 .. n + 1 : f[i] = g[i]
    <3>1. \A i \in m .. n + 1 : i # m => i \in m + 1 .. n + 1
      OBVIOUS
    <3>2. \A i \in m + 1 .. n + 1 : i # m /\ i \in m .. n + 1
      OBVIOUS
    <3>3. m \in m .. n + 1
      OBVIOUS
    <3> QED
      BY <2>4, <3>1, <3>2, <3>3
  <2> HIDE DEF f
  <2>7. ASSUME NEW i \in m .. n + 1
        PROVE  UnescapedAt(f, s, i) = UnescapedAt(g, s, i)
    <3>1. i <= n => i + 1 \in m + 1 .. n + 1
      OBVIOUS
    <3>2. EscapeAt(s, i) => i + 3 \in m + 1 .. n + 1
      BY <1>1 DEF EscapeAt
    <3>3. i <= n => f[i + 1] = g[i + 1]
      BY <2>6, <3>1
    <3>4. EscapeAt(s, i) => f[i + 3] = g[i + 3]
      BY <2>6, <3>2
    <3> QED
      BY <1>1, <3>3, <3>4 DEF UnescapedAt
  <2>8. \A i \in m .. n + 1 : f[i] = UnescapedAt(f, s, i)
    <3> SUFFICES ASSUME NEW i \in m .. n + 1
                 PROVE  f[i] = UnescapedAt(f, s, i)
      OBVIOUS
    <3>1. CASE i = m
      BY <2>5, <2>6, <2>7, <3>1
    <3>2. CASE i # m
      <4>1. i \in m + 1 .. n + 1
        BY <3>2
      <4> QED
        BY <2>4, <2>6, <2>7, <4>1
    <3> QED
      BY <3>1, <3>2
  <2>9. UnescapedFrom(f, s, m)
    BY <1>1, <2>6, <2>8 DEF UnescapedFrom
  <2> QED
    BY <2>2, <2>9
<1>4. n \in T
  <2> HIDE DEF T
  <2>1. \A k \in 0 .. n : k \in T
    BY <1>2, <1>3, InductionUpTo
  <2> QED
    BY <2>1
<1>5. n + 1 - n = 1
  OBVIOUS
<1> QED
  BY <1>4, <1>5

\* What follows a place of a text is unescaped as it is there.
LEMMA UnescapedAgrees ==
  ASSUME NEW s \in Seq(Int), NEW k \in 0 .. Len(s), NEW u, u = From(s, k + 1),
         NEW g, UnescapedFrom(g, s, 1), NEW h, UnescapedFrom(h, u, 1)
  PROVE  \A i \in 1 .. Len(u) + 1 : h[i] = g[i + k]
<1>1. PICK n \in Nat, l \in Nat : n = Len(s) /\ l = n - k
  OBVIOUS
<1>2. /\ u \in Seq(Int) /\ Len(u) = l
      /\ \A j \in 1 .. l : u[j] = s[k + j]
  <2>1. k + 1 \in 1 .. Len(s) + 1
    BY <1>1
  <2>2. Follows(u, s, k + 1)
    BY <2>1, FromFollows
  <2>3. n + 1 - (k + 1) = l /\ (k + 1) - 1 = k
    BY <1>1
  <2> QED
    BY <1>1, <2>2, <2>3 DEF Follows
<1>3. /\ \A i \in 1 .. n + 1 : g[i] = UnescapedAt(g, s, i)
      /\ \A i \in 1 .. l + 1 : h[i] = UnescapedAt(h, u, i)
  BY <1>1, <1>2 DEF UnescapedFrom
<1> DEFINE T == {m \in Nat : \A i \in 1 .. l + 1 : i + m >= l + 1 => h[i] = g[i + k]}
<1>4. 0 \in T
  <2> SUFFICES ASSUME NEW i \in 1 .. l + 1, i + 0 >= l + 1
               PROVE  h[i] = g[i + k]
    OBVIOUS
  <2>1. i > l /\ i + k > n /\ i + k \in 1 .. n + 1
    BY <1>1
  <2>2. h[i] = <<>> /\ g[i + k] = <<>>
    BY <1>1, <1>2, <1>3, <2>1 DEF UnescapedAt
  <2> QED
    BY <2>2
<1>5. ASSUME NEW m \in T
      PROVE  m + 1 \in T
  <2>0. \A j \in 1 .. l + 1 : j + m >= l + 1 => h[j] = g[j + k]
    OBVIOUS
  <2>1. ASSUME NEW i \in 1 .. l + 1, i + (m + 1) >= l + 1
        PROVE  h[i] = g[i + k]
    <3>0. i + k \in 1 .. n + 1 /\ (i > l <=> i + k > n) /\ k + i = i + k
      BY <1>1
    <3>1. h[i] = UnescapedAt(h, u, i) /\ g[i + k] = UnescapedAt(g, s, i + k)
      BY <1>3, <3>0
    <3>2. CASE i > l
      BY <1>1, <1>2, <3>0, <3>1, <3>2 DEF UnescapedAt
    <3>3. CASE ~ (i > l)
      <4>0. i \in 1 .. l
        BY <3>3
      <4>1. u[i] = s[i + k]
        BY <1>2, <3>0, <4>0
      <4>2. h[i + 1] = g[(i + k) + 1]
        <5>1. i + 1 \in 1 .. l + 1 /\ (i + 1) + m >= l + 1 /\ (i + 1) + k = (i + k) + 1
          BY <2>1, <4>0
        <5> QED
          BY <2>0, <5>1
      <4>3. i + 2 <= l <=> (i + k) + 2 <= n
        BY <1>1
      <4>4. i + 2 <= l => /\ u[i + 1] = s[(i + k) + 1] /\ u[i + 2] = s[(i + k) + 2]
                          /\ h[i + 3] = g[(i + k) + 3]
        <5> SUFFICES ASSUME i + 2 <= l
                     PROVE  /\ u[i + 1] = s[(i + k) + 1] /\ u[i + 2] = s[(i + k) + 2]
                            /\ h[i + 3] = g[(i + k) + 3]
          OBVIOUS
        <5>1. /\ i + 1 \in 1 .. l /\ k + (i + 1) = (i + k) + 1
              /\ i + 2 \in 1 .. l /\ k + (i + 2) = (i + k) + 2
              /\ i + 3 \in 1 .. l + 1 /\ (i + 3) + k = (i + k) + 3 /\ (i + 3) + m >= l + 1
          BY <2>1
        <5>2. u[i + 1] = s[k + (i + 1)] /\ u[i + 2] = s[k + (i + 2)]
          BY <1>2, <5>1
        <5>3. h[i + 3] = g[(i + 3) + k]
          BY <2>0, <5>1
        <5> QED
          BY <5>1, <5>2, <5>3
      <4>5. EscapeAt(u, i) <=> EscapeAt(s, i + k)
        BY <1>1, <1>2, <4>3, <4>4 DEF EscapeAt
      <4>6. EscapeAt(u, i) => i + 2 <= l
        BY <1>2 DEF EscapeAt
      <4>7. EscapeAt(u, i) => Escaped2(u, i) = Escaped2(s, i + k)
        BY <4>4, <4>6 DEF Escaped2
      <4>8. ~ (i > Len(u)) /\ ~ (i + k > Len(s))
        BY <1>1, <1>2, <3>0, <4>0
      <4>9. CASE u[i] # Percent
        BY <3>1, <4>1, <4>2, <4>8, <4>9 DEF UnescapedAt
      <4>10. CASE u[i] = Percent /\ ~ EscapeAt(u, i)
        BY <3>1, <4>1, <4>5, <4>8, <4>10 DEF UnescapedAt
      <4>11. CASE u[i] = Percent /\ EscapeAt(u, i)
        BY <3>1, <4>1, <4>4, <4>5, <4>6, <4>7, <4>8, <4>11 DEF UnescapedAt
      <4> QED
        BY <4>9, <4>10, <4>11
    <3> QED
      BY <3>2, <3>3
  <2>2. m + 1 \in Nat
    OBVIOUS
  <2> QED
    BY <2>1, <2>2
<1>6. T = Nat
  <2>1. T \in SUBSET Nat /\ 0 \in T /\ \A m \in T : m + 1 \in T
    BY <1>4, <1>5
  <2> HIDE DEF T
  <2> QED
    BY <2>1, Induction
<1>7. l \in T
  BY <1>6
<1>8. \A i \in 1 .. l + 1 : i + l >= l + 1
  OBVIOUS
<1> QED
  BY <1>2, <1>7, <1>8

LEMMA UnescapedIs ==
  ASSUME NEW s \in Seq(Int), NEW g, UnescapedFrom(g, s, 1)
  PROVE  Unescaped(s) = g[1]
<1> DEFINE IsEscape(i) == /\ i + 2 <= Len(s)
                          /\ IsHexDigit(s[i + 1]) /\ IsHexDigit(s[i + 2])
           from[i \in 1 .. Len(s) + 1] ==
             IF i > Len(s) THEN <<>>
             ELSE IF s[i] # Percent THEN <<s[i]>> \o from[i + 1]
             ELSE IF ~IsEscape(i) THEN <<Malformed>>
             ELSE <<ReadHexDigit(s[i + 1]) * 16 + ReadHexDigit(s[i + 2])>> \o from[i + 3]
<1>1. g = [i \in 1 .. Len(s) + 1 |->
             IF i > Len(s) THEN <<>>
             ELSE IF s[i] # Percent THEN <<s[i]>> \o g[i + 1]
             ELSE IF ~IsEscape(i) THEN <<Malformed>>
             ELSE <<ReadHexDigit(s[i + 1]) * 16 + ReadHexDigit(s[i + 2])>> \o g[i + 3]]
  <2>1. g \in [1 .. Len(s) + 1 -> Seq(Int)]
    BY DEF UnescapedFrom
  <2>2. \A i \in 1 .. Len(s) + 1 :
          g[i] = IF i > Len(s) THEN <<>>
                 ELSE IF s[i] # Percent THEN <<s[i]>> \o g[i + 1]
                 ELSE IF ~IsEscape(i) THEN <<Malformed>>
                 ELSE <<ReadHexDigit(s[i + 1]) * 16 + ReadHexDigit(s[i + 2])>> \o g[i + 3]
    BY Zenon DEF UnescapedFrom, UnescapedAt, EscapeAt, Escaped2
  <2> QED
    BY <2>1, <2>2, Zenon
<1>2. from = [i \in 1 .. Len(s) + 1 |->
             IF i > Len(s) THEN <<>>
             ELSE IF s[i] # Percent THEN <<s[i]>> \o from[i + 1]
             ELSE IF ~IsEscape(i) THEN <<Malformed>>
             ELSE <<ReadHexDigit(s[i + 1]) * 16 + ReadHexDigit(s[i + 2])>> \o from[i + 3]]
  BY <1>1, Zenon
<1>3. Unescaped(s) = from[1]
  BY DEF Unescaped
<1> HIDE DEF from
<1>4. \A i \in 1 .. Len(s) + 1 : from[i] = UnescapedAt(from, s, i)
  BY <1>2, Zenon DEF UnescapedAt, EscapeAt, Escaped2
<1>5. from[1] = g[1]
  <2> DEFINE n == Len(s)
  <2>1. n \in Nat
    OBVIOUS
  <2>2. \A i \in 1 .. n + 1 : g[i] = UnescapedAt(g, s, i)
    BY DEF UnescapedFrom
  <2> DEFINE T == {m \in Nat : \A i \in 1 .. n + 1 : i + m >= n + 1 => from[i] = g[i]}
  <2>3. 0 \in T
    <3> SUFFICES ASSUME NEW i \in 1 .. n + 1, i + 0 >= n + 1
                 PROVE  from[i] = g[i]
      OBVIOUS
    <3>1. i > Len(s)
      OBVIOUS
    <3> QED
      BY <1>4, <2>2, <3>1 DEF UnescapedAt
  <2>4. ASSUME NEW m \in T
        PROVE  m + 1 \in T
    <3>0. \A j \in 1 .. n + 1 : j + m >= n + 1 => from[j] = g[j]
      OBVIOUS
    <3>1. ASSUME NEW i \in 1 .. n + 1, i + (m + 1) >= n + 1
          PROVE  from[i] = g[i]
      <4>1. i <= n => i + 1 \in 1 .. n + 1 /\ (i + 1) + m >= n + 1
        BY <2>1, <3>1
      <4>2. EscapeAt(s, i) => i + 3 \in 1 .. n + 1 /\ (i + 3) + m >= n + 1
        BY <2>1, <3>1 DEF EscapeAt
      <4>3. ~ (i > n) <=> i <= n
        BY <2>1
      <4>4. i <= n => from[i + 1] = g[i + 1]
        BY <3>0, <4>1
      <4>5. EscapeAt(s, i) => from[i + 3] = g[i + 3]
        BY <3>0, <4>2
      <4>6. UnescapedAt(from, s, i) = UnescapedAt(g, s, i)
        BY <4>3, <4>4, <4>5 DEF UnescapedAt
      <4> QED
        BY <1>4, <2>2, <4>6
    <3>2. m + 1 \in Nat
      OBVIOUS
    <3> QED
      BY <3>1, <3>2
  <2>5. T = Nat
    <3>1. T \in SUBSET Nat /\ 0 \in T /\ \A m \in T : m + 1 \in T
      BY <2>3, <2>4
    <3> HIDE DEF T
    <3> QED
      BY <3>1, Induction
  <2>6. n \in T
    BY <2>1, <2>5
  <2>7. 1 \in 1 .. n + 1 /\ 1 + n >= n + 1
    BY <2>1
  <2> QED
    BY <2>6, <2>7
<1> QED
  BY <1>3, <1>5

\* What Unescaped makes of a text, byte by byte.
UnescapedSo(s) ==
  /\ Unescaped(s) \in Seq(Int)
  /\ s = <<>> => Unescaped(s) = <<>>
  /\ s # <<>> /\ s[1] # Percent => Unescaped(s) = <<s[1]>> \o Unescaped(From(s, 2))
  /\ s # <<>> /\ s[1] = Percent /\ EscapeAt(s, 1) =>
       Unescaped(s) = <<Escaped2(s, 1)>> \o Unescaped(From(s, 4))

LEMMA UnescapedUnfolds ==
  ASSUME NEW s \in Seq(Int)
  PROVE  UnescapedSo(s)
<1>1. PICK g : UnescapedFrom(g, s, 1)
  BY UnescapedExists
<1>2. PICK n \in Nat : n = Len(s)
  OBVIOUS
<1>3. /\ \A i \in 1 .. n + 1 : g[i] \in Seq(Int)
      /\ \A i \in 1 .. n + 1 : g[i] = UnescapedAt(g, s, i)
  BY <1>1, <1>2 DEF UnescapedFrom
<1>4. 1 \in 1 .. n + 1
  OBVIOUS
<1>5. Unescaped(s) = g[1] /\ g[1] \in Seq(Int) /\ g[1] = UnescapedAt(g, s, 1)
  BY <1>1, <1>3, <1>4, UnescapedIs
<1>6. ASSUME NEW k \in 0 .. n
      PROVE  Unescaped(From(s, k + 1)) = g[1 + k]
  <2>1. PICK u : u = From(s, k + 1)
    OBVIOUS
  <2>2. u \in Seq(Int)
    <3>1. k + 1 \in 1 .. Len(s) + 1
      BY <1>2
    <3> QED
      BY <2>1, <3>1, FromIs
  <2>3. PICK h : UnescapedFrom(h, u, 1)
    BY <2>2, UnescapedExists
  <2>4. Unescaped(u) = h[1]
    BY <2>2, <2>3, UnescapedIs
  <2>5. k \in 0 .. Len(s)
    BY <1>2
  <2>6. \A i \in 1 .. Len(u) + 1 : h[i] = g[i + k]
    BY <1>1, <2>1, <2>3, <2>5, UnescapedAgrees
  <2>7. 1 \in 1 .. Len(u) + 1
    BY <2>2
  <2> QED
    BY <2>1, <2>4, <2>6, <2>7
<1>7. s = <<>> => Unescaped(s) = <<>>
  <2>1. s = <<>> => 1 > Len(s)
    OBVIOUS
  <2> QED
    BY <1>5, <2>1 DEF UnescapedAt
<1>8. s # <<>> => ~ (1 > Len(s)) /\ n >= 1
  <2>1. s # <<>> => AtLeastOne(s)
    BY NotEmpty
  <2> QED
    BY <1>2, <2>1 DEF AtLeastOne
<1>9. ASSUME s # <<>>, s[1] # Percent
      PROVE  Unescaped(s) = <<s[1]>> \o Unescaped(From(s, 2))
  <2>0. 1 \in 0 .. n
    BY <1>8, <1>9
  <2>1. Unescaped(From(s, 1 + 1)) = g[1 + 1]
    BY <1>6, <2>0
  <2>2. g[1] = <<s[1]>> \o g[1 + 1]
    BY <1>5, <1>8, <1>9 DEF UnescapedAt
  <2>3. 1 + 1 = 2
    OBVIOUS
  <2> QED
    BY <1>5, <2>1, <2>2, <2>3
<1>10. ASSUME s # <<>>, s[1] = Percent, EscapeAt(s, 1)
       PROVE  Unescaped(s) = <<Escaped2(s, 1)>> \o Unescaped(From(s, 4))
  <2>0. 3 \in 0 .. n
    BY <1>2, <1>10 DEF EscapeAt
  <2>1. Unescaped(From(s, 3 + 1)) = g[1 + 3]
    BY <1>6, <2>0
  <2>2. g[1] = <<Escaped2(s, 1)>> \o g[1 + 3]
    BY <1>5, <1>8, <1>10 DEF UnescapedAt
  <2>3. 3 + 1 = 4
    OBVIOUS
  <2> QED
    BY <1>5, <2>1, <2>2, <2>3
<1> QED
  BY <1>5, <1>7, <1>9, <1>10 DEF UnescapedSo

\* A percent sign without two digits makes it no text.
WrongAt(s, i) == i \in 1 .. Len(s) /\ s[i] = Percent /\ ~ EscapeAt(s, i)

LEMMA WrongEscape ==
  ASSUME NEW s \in Seq(Int), NEW w, WrongAt(s, w)
  PROVE  Contains(Unescaped(s), Malformed)
<1>1. PICK g : UnescapedFrom(g, s, 1)
  BY UnescapedExists
<1>2. PICK n \in Nat : n = Len(s)
  OBVIOUS
<1>3. /\ \A i \in 1 .. n + 1 : g[i] \in Seq(Int)
      /\ \A i \in 1 .. n + 1 : g[i] = UnescapedAt(g, s, i)
  BY <1>1, <1>2 DEF UnescapedFrom
<1>4. w \in 1 .. n /\ s[w] = Percent /\ ~ EscapeAt(s, w)
  BY <1>2 DEF WrongAt
<1>5. \A b \in Int, x \in Seq(Int) : Contains(x, Malformed) => Contains(<<b>> \o x, Malformed)
  <2> SUFFICES ASSUME NEW b \in Int, NEW x \in Seq(Int), Contains(x, Malformed)
               PROVE  Contains(<<b>> \o x, Malformed)
    OBVIOUS
  <2>1. PICK i \in 1 .. Len(x) : x[i] = Malformed
    BY DEF Contains
  <2>2. PICK y : y = <<b>> \o x
    OBVIOUS
  <2>3. Len(y) = 1 + Len(x) /\ y[1 + i] = x[i]
    BY <2>2
  <2>4. 1 + i \in 1 .. Len(y)
    BY <2>3
  <2> QED
    BY <2>1, <2>2, <2>3, <2>4 DEF Contains
<1> DEFINE T == {m \in Nat : \A i \in 1 .. w : i + m >= w => Contains(g[i], Malformed)}
<1>6. 0 \in T
  <2>1. ASSUME NEW i \in 1 .. w, i + 0 >= w
        PROVE  Contains(g[i], Malformed)
    <3>1. i = w /\ w \in 1 .. n + 1
      BY <1>4, <2>1
    <3>2. ~ (w > Len(s))
      BY <1>2, <1>4
    <3>3. g[w] = <<Malformed>>
      BY <1>3, <1>4, <3>1, <3>2 DEF UnescapedAt
    <3>4. Contains(<<Malformed>>, Malformed)
      BY DEF Contains
    <3> QED
      BY <3>1, <3>3, <3>4
  <2> QED
    BY <2>1
<1>7. ASSUME NEW m \in T
      PROVE  m + 1 \in T
  <2>0. \A j \in 1 .. w : j + m >= w => Contains(g[j], Malformed)
    OBVIOUS
  <2>1. ASSUME NEW i \in 1 .. w, i + (m + 1) >= w
        PROVE  Contains(g[i], Malformed)
    <3>1. i \in 1 .. n + 1 /\ ~ (i > Len(s)) /\ i \in 1 .. Len(s)
      BY <1>2, <1>4
    <3>2. CASE i = w
      <4>1. i + m >= w
        BY <3>2
      <4> QED
        BY <2>0, <4>1
    <3>3. CASE i # w
      <4>1. i + 1 \in 1 .. w /\ (i + 1) + m >= w /\ i + 1 \in 1 .. n + 1
        BY <1>4, <2>1, <3>3
      <4>2. CASE s[i] # Percent
        <5>1. g[i] = <<s[i]>> \o g[i + 1]
          BY <1>3, <3>1, <4>2 DEF UnescapedAt
        <5>2. s[i] \in Int /\ g[i + 1] \in Seq(Int)
          BY <1>3, <3>1, <4>1
        <5> QED
          BY <1>5, <2>0, <4>1, <5>1, <5>2
      <4>3. CASE s[i] = Percent /\ ~ EscapeAt(s, i)
        <5>1. g[i] = <<Malformed>>
          BY <1>3, <3>1, <4>3 DEF UnescapedAt
        <5>2. Contains(<<Malformed>>, Malformed)
          BY DEF Contains
        <5> QED
          BY <5>1, <5>2
      <4>4. CASE s[i] = Percent /\ EscapeAt(s, i)
        <5>1. g[i] = <<Escaped2(s, i)>> \o g[i + 3]
          BY <1>3, <3>1, <4>4 DEF UnescapedAt
        <5>2. IsHexDigit(s[i + 1]) /\ IsHexDigit(s[i + 2]) /\ i + 2 <= n
          BY <1>2, <4>4 DEF EscapeAt
        <5>3. i + 1 # w /\ i + 2 # w
          <6>1. ~ IsHexDigit(Percent)
            BY DEF IsHexDigit, Percent
          <6>2. ~ IsHexDigit(s[w])
            BY <1>4, <6>1
          <6> QED
            BY <5>2, <6>2
        <5>4. i + 3 \in 1 .. w /\ (i + 3) + m >= w /\ i + 3 \in 1 .. n + 1
          BY <1>4, <2>1, <3>3, <5>2, <5>3
        <5>5. Escaped2(s, i) \in Int /\ g[i + 3] \in Seq(Int)
          BY <1>3, <3>1, <4>4, <5>4, EscapedByte
        <5> QED
          BY <1>5, <2>0, <5>1, <5>4, <5>5
      <4> QED
        BY <4>2, <4>3, <4>4
    <3> QED
      BY <3>2, <3>3
  <2>2. m + 1 \in Nat
    OBVIOUS
  <2> QED
    BY <2>1, <2>2
<1>8. T = Nat
  <2>1. T \in SUBSET Nat /\ 0 \in T /\ \A m \in T : m + 1 \in T
    BY <1>6, <1>7
  <2> HIDE DEF T
  <2> QED
    BY <2>1, Induction
<1>9. w \in T
  <2> HIDE DEF T
  <2> QED
    BY <1>4, <1>8
<1>10. 1 \in 1 .. w /\ 1 + w >= w
  BY <1>4
<1>11. Contains(g[1], Malformed)
  BY <1>9, <1>10
<1> QED
  BY <1>1, <1>11, UnescapedIs

-----------------------------------------------------------------------------
(* Where a query is split.                                                 *)

PlusesSo(t) ==
  /\ PlusesToSpaces(t) \in Seq(Int) /\ Len(PlusesToSpaces(t)) = Len(t)
  /\ \A i \in 1 .. Len(t) :
       PlusesToSpaces(t)[i] = IF t[i] = PlusSign THEN Space ELSE t[i]

LEMMA PlusesAre ==
  ASSUME NEW t \in Seq(Int)
  PROVE  PlusesSo(t)
<1>1. \A i \in 1 .. Len(t) : (IF t[i] = PlusSign THEN Space ELSE t[i]) \in Int
  BY DEF Space
<1>2. Len(t) \in Nat
  OBVIOUS
<1>3. PICK p : p = PlusesToSpaces(t)
  OBVIOUS
<1>4. p = [i \in 1 .. Len(t) |-> IF t[i] = PlusSign THEN Space ELSE t[i]]
  BY <1>3 DEF PlusesToSpaces
<1>5. p \in Seq(Int) /\ Len(p) = Len(t)
  BY <1>1, <1>2, <1>4
<1> QED
  BY <1>3, <1>4, <1>5 DEF PlusesSo

LEMMA PlusesJoin ==
  ASSUME NEW a \in Seq(Int), NEW b \in Seq(Int)
  PROVE  PlusesToSpaces(a \o b) = PlusesToSpaces(a) \o PlusesToSpaces(b)
<1>1. PICK n \in Nat, m \in Nat : n = Len(a) /\ m = Len(b)
  OBVIOUS
<1>2. PICK t \in Seq(Int) : t = a \o b
  BY ConcatProperties
<1>3. /\ Len(t) = n + m
      /\ \A i \in 1 .. n : t[i] = a[i]
      /\ \A i \in 1 .. m : t[n + i] = b[i]
  <2>1. JoinSo(a \o b, a, b)
    BY JoinIs
  <2> QED
    BY <1>1, <1>2, <2>1 DEF JoinSo
<1>4. PICK p, q, r : p = PlusesToSpaces(t) /\ q = PlusesToSpaces(a) /\ r = PlusesToSpaces(b)
  OBVIOUS
<1>5. /\ p \in Seq(Int) /\ Len(p) = n + m
      /\ \A i \in 1 .. n + m : p[i] = IF t[i] = PlusSign THEN Space ELSE t[i]
      /\ q \in Seq(Int) /\ Len(q) = n
      /\ \A i \in 1 .. n : q[i] = IF a[i] = PlusSign THEN Space ELSE a[i]
      /\ r \in Seq(Int) /\ Len(r) = m
      /\ \A i \in 1 .. m : r[i] = IF b[i] = PlusSign THEN Space ELSE b[i]
  <2>1. PlusesSo(t) /\ PlusesSo(a) /\ PlusesSo(b)
    BY PlusesAre
  <2> QED
    BY <1>1, <1>3, <1>4, <2>1 DEF PlusesSo
<1>6. PICK s : s = q \o r
  OBVIOUS
<1>7. /\ s \in Seq(Int) /\ Len(s) = n + m
      /\ \A i \in 1 .. n : s[i] = q[i]
      /\ \A i \in 1 .. m : s[n + i] = r[i]
  <2>1. JoinSo(q \o r, q, r)
    BY <1>5, JoinIs
  <2> QED
    BY <1>5, <1>6, <2>1 DEF JoinSo
<1>8. ASSUME NEW i \in 1 .. n + m
      PROVE  p[i] = s[i]
  <2>1. CASE i <= n
    <3>1. i \in 1 .. n
      BY <2>1
    <3>2. t[i] = a[i] /\ p[i] = (IF t[i] = PlusSign THEN Space ELSE t[i])
      BY <1>3, <1>5, <3>1
    <3>3. s[i] = q[i] /\ q[i] = (IF a[i] = PlusSign THEN Space ELSE a[i])
      BY <1>5, <1>7, <3>1
    <3> QED
      BY <3>2, <3>3
  <2>2. CASE ~ (i <= n)
    <3>1. PICK j \in 1 .. m : i = n + j
      <4>1. i - n \in 1 .. m /\ i = n + (i - n)
        BY <2>2
      <4> QED
        BY <4>1
    <3>2. t[i] = b[j] /\ p[i] = (IF t[i] = PlusSign THEN Space ELSE t[i])
      BY <1>3, <1>5, <3>1
    <3>3. s[i] = r[j] /\ r[j] = (IF b[j] = PlusSign THEN Space ELSE b[j])
      BY <1>5, <1>7, <3>1
    <3> QED
      BY <3>2, <3>3
  <2> QED
    BY <2>1, <2>2
<1>9. p = s
  BY <1>5, <1>7, <1>8, SeqEqual
<1> QED
  BY <1>2, <1>4, <1>6, <1>9

\* A byte before a text.
OneBeforeSo(c, x, b) ==
  /\ c \in Seq(Int) /\ Len(c) = 1 + Len(b) /\ c[1] = x
  /\ \A i \in 1 .. Len(b) : c[1 + i] = b[i]

LEMMA OneBefore ==
  ASSUME NEW x \in Int, NEW b \in Seq(Int)
  PROVE  OneBeforeSo(<<x>> \o b, x, b)
<1>1. PICK e \in Seq(Int) : e = <<x>>
  <2>1. <<x>> \in Seq(Int)
    OBVIOUS
  <2> QED
    BY <2>1
<1>2. Len(e) = 1 /\ e[1] = x
  BY <1>1
<1>3. JoinSo(e \o b, e, b)
  BY JoinIs
<1>4. 1 \in 1 .. Len(e)
  BY <1>2
<1>5. (e \o b)[1] = e[1] /\ \A i \in 1 .. Len(b) : (e \o b)[1 + i] = b[i]
  BY <1>2, <1>3, <1>4 DEF JoinSo
<1>6. e \o b \in Seq(Int) /\ Len(e \o b) = 1 + Len(b)
  BY <1>2, <1>3 DEF JoinSo
<1> QED
  BY <1>1, <1>2, <1>5, <1>6 DEF OneBeforeSo

\* A text that is split by a byte: nothing before is that byte.
SplitBy(s, x, a, b) ==
  /\ a \in Seq(Int) /\ b \in Seq(Int) /\ s = a \o (<<x>> \o b)
  /\ \A i \in 1 .. Len(a) : a[i] # x

SplitFound(s, x, a, b) == Contains(s, x) /\ UpTo(s, x) = a /\ After(s, x) = b

LEMMA SplitIsFound ==
  ASSUME NEW s, NEW x \in Int, NEW a, NEW b, SplitBy(s, x, a, b)
  PROVE  SplitFound(s, x, a, b)
<1>1. a \in Seq(Int) /\ b \in Seq(Int) /\ \A i \in 1 .. Len(a) : a[i] # x
  BY DEF SplitBy
<1>2. PICK n \in Nat, m \in Nat : n = Len(a) /\ m = Len(b)
  BY <1>1
<1>3. PICK c \in Seq(Int) : c = <<x>> \o b
  <2>1. <<x>> \in Seq(Int)
    OBVIOUS
  <2> QED
    BY <1>1, <2>1, ConcatProperties
<1>4. Len(c) = 1 + m /\ c[1] = x /\ \A i \in 1 .. m : c[1 + i] = b[i]
  BY <1>1, <1>2, <1>3, OneBefore DEF OneBeforeSo
<1>5. s = a \o c
  BY <1>3 DEF SplitBy
<1>6. /\ s \in Seq(Int) /\ Len(s) = n + (1 + m)
      /\ \A i \in 1 .. n : s[i] = a[i]
      /\ \A i \in 1 .. 1 + m : s[n + i] = c[i]
  <2>1. JoinSo(a \o c, a, c)
    BY <1>1, JoinIs
  <2> QED
    BY <1>2, <1>4, <1>5, <2>1 DEF JoinSo
<1>7. n + 1 \in 1 .. Len(s) /\ s[n + 1] = x
  <2>1. 1 \in 1 .. 1 + m
    OBVIOUS
  <2>2. s[n + 1] = c[1]
    BY <1>6, <2>1
  <2> QED
    BY <1>4, <1>6, <2>2
<1>8. Contains(s, x)
  BY <1>7 DEF Contains
<1> DEFINE I == {i \in 1 .. Len(s) : s[i] = x}
<1>9. n + 1 \in I /\ \A i \in I : n + 1 <= i
  <2>1. ASSUME NEW i \in I
        PROVE  n + 1 <= i
    <3> SUFFICES ASSUME i <= n
                 PROVE  FALSE
      BY <1>6
    <3>1. i \in 1 .. n
      BY <1>6
    <3> QED
      BY <1>1, <1>2, <1>6, <3>1
  <2> QED
    BY <1>7, <2>1
<1>10. SelectInSeq(s, LAMBDA y : y = x) = n + 1
  <2>1. SelectInSeq(s, LAMBDA y : y = x) = Min(I)
    BY <1>9 DEF SelectInSeq
  <2>2. Min(I) \in I /\ \A y \in I : Min(I) <= y
    BY <1>9 DEF Min
  <2>3. I \in SUBSET Nat
    BY <1>6
  <2> HIDE DEF I
  <2>4. PICK k \in Nat : k = Min(I)
    BY <2>2, <2>3
  <2>5. k <= n + 1 /\ n + 1 <= k
    BY <1>9, <2>2, <2>4
  <2> QED
    BY <2>1, <2>4, <2>5
<1>11. UpTo(s, x) = SubSeq(s, 1, n)
  <2>1. (n + 1) - 1 = n
    OBVIOUS
  <2> QED
    BY <1>8, <1>10, <2>1 DEF UpTo
<1>12. SubSeq(s, 1, n) = a
  <2>1. n \in 0 .. Len(s)
    BY <1>6
  <2>2. SplitSo(s, n)
    BY <1>6, <2>1, SplitAt
  <2>3. /\ SubSeq(s, 1, n) \in Seq(Int) /\ Len(SubSeq(s, 1, n)) = n
        /\ \A i \in 1 .. n : SubSeq(s, 1, n)[i] = s[i]
    BY <2>2 DEF SplitSo
  <2> QED
    BY <1>1, <1>2, <1>6, <2>3, SeqEqual
<1>13. After(s, x) = From(s, n + 2)
  BY <1>2, <1>11, <1>12 DEF After, From
<1>14. From(s, n + 2) = b
  <2>1. n + 1 \in 0 .. Len(s) /\ (n + 1) + 1 = n + 2 /\ Len(s) - (n + 1) = m
    BY <1>6
  <2>2. SplitSo(s, n + 1)
    BY <1>6, <2>1, SplitAt
  <2>3. /\ From(s, n + 2) \in Seq(Int) /\ Len(From(s, n + 2)) = m
        /\ \A i \in 1 .. m : From(s, n + 2)[i] = s[(n + 1) + i]
    BY <2>1, <2>2 DEF SplitSo
  <2>4. \A i \in 1 .. m : s[(n + 1) + i] = b[i]
    <3> SUFFICES ASSUME NEW i \in 1 .. m
                 PROVE  s[(n + 1) + i] = b[i]
      OBVIOUS
    <3>1. 1 + i \in 1 .. 1 + m /\ n + (1 + i) = (n + 1) + i
      OBVIOUS
    <3> QED
      BY <1>4, <1>6, <3>1
  <2> QED
    BY <1>1, <1>2, <2>3, <2>4, SeqEqual
<1> QED
  BY <1>8, <1>11, <1>12, <1>13, <1>14 DEF SplitFound

\* A text which has the byte is split by it.
LEMMA SplitExists ==
  ASSUME NEW s \in Seq(Int), NEW x \in Int, Contains(s, x)
  PROVE  \E a, b : SplitBy(s, x, a, b)
<1>1. PICK n \in Nat : n = Len(s)
  OBVIOUS
<1> DEFINE I == {i \in 1 .. n : s[i] = x}
<1>2. I \in SUBSET Nat /\ I # {}
  BY <1>1 DEF Contains
<1>3. PICK k \in I : \A y \in I : k <= y
  BY <1>2, LeastNatural
<1>4. k \in 1 .. n /\ s[k] = x
  OBVIOUS
<1>5. PICK j \in Nat : j = k - 1
  BY <1>4
<1>6. j \in 0 .. Len(s) /\ j + 1 = k /\ k \in 0 .. Len(s)
  BY <1>1, <1>4, <1>5
<1>7. PICK a, b : a = SubSeq(s, 1, j) /\ b = From(s, k + 1)
  OBVIOUS
<1>8. /\ a \in Seq(Int) /\ Len(a) = j /\ \A i \in 1 .. j : a[i] = s[i]
      /\ b \in Seq(Int) /\ Len(b) = n - k /\ \A i \in 1 .. n - k : b[i] = s[k + i]
  <2>1. SplitSo(s, j) /\ SplitSo(s, k)
    BY <1>6, SplitAt
  <2> QED
    BY <1>1, <1>7, <2>1 DEF SplitSo
<1>9. \A i \in 1 .. Len(a) : a[i] # x
  <2> SUFFICES ASSUME NEW i \in 1 .. j, a[i] = x
               PROVE  FALSE
    BY <1>8
  <2>1. i \in 1 .. n /\ i < k
    BY <1>4, <1>5
  <2>2. i \in I
    BY <1>8, <2>1
  <2>3. k <= i
    BY <1>3, <2>2
  <2> QED
    BY <1>4, <2>1, <2>3
<1>10. PICK c \in Seq(Int) : c = <<x>> \o b
  <2>1. <<x>> \in Seq(Int)
    OBVIOUS
  <2> QED
    BY <1>8, <2>1, ConcatProperties
<1>11. Len(c) = 1 + (n - k) /\ c[1] = x /\ \A i \in 1 .. n - k : c[1 + i] = b[i]
  BY <1>8, <1>10, OneBefore DEF OneBeforeSo
<1>12. PICK t : t = a \o c
  OBVIOUS
<1>13. /\ t \in Seq(Int) /\ Len(t) = n
       /\ \A i \in 1 .. j : t[i] = a[i]
       /\ \A i \in 1 .. 1 + (n - k) : t[j + i] = c[i]
  <2>1. JoinSo(a \o c, a, c)
    BY <1>8, JoinIs
  <2>2. j + (1 + (n - k)) = n
    BY <1>4, <1>5
  <2> QED
    BY <1>8, <1>11, <1>12, <2>1, <2>2 DEF JoinSo
<1>14. ASSUME NEW i \in 1 .. n
       PROVE  t[i] = s[i]
  <2>1. CASE i <= j
    <3>1. i \in 1 .. j
      BY <2>1
    <3> QED
      BY <1>8, <1>13, <3>1
  <2>2. CASE i = k
    <3>1. 1 \in 1 .. 1 + (n - k) /\ j + 1 = i
      BY <1>4, <1>5, <2>2
    <3> QED
      BY <1>4, <1>11, <1>13, <2>2, <3>1
  <2>3. CASE i > k
    <3>1. PICK l \in 1 .. n - k : i = k + l
      <4>1. i - k \in 1 .. n - k /\ i = k + (i - k)
        BY <1>4, <2>3
      <4> QED
        BY <4>1
    <3>2. 1 + l \in 1 .. 1 + (n - k) /\ j + (1 + l) = i
      BY <1>4, <1>5, <3>1
    <3>3. t[j + (1 + l)] = c[1 + l]
      BY <1>13, <3>2
    <3>4. c[1 + l] = b[l] /\ b[l] = s[k + l]
      BY <1>8, <1>11
    <3> QED
      BY <3>1, <3>2, <3>3, <3>4
  <2> QED
    BY <1>4, <1>5, <2>1, <2>2, <2>3
<1>15. t = s
  BY <1>1, <1>13, <1>14, SeqEqual
<1>16. SplitBy(s, x, a, b)
  BY <1>8, <1>9, <1>10, <1>12, <1>15 DEF SplitBy
<1> QED
  BY <1>16

-----------------------------------------------------------------------------
(* The spelling of a name or of a value.                                   *)

\* A text without the bytes outside that is unescaped to b, whatever comes after it.
Stands(p, b, outside) ==
  /\ p \in Seq(Int) /\ b \in Seq(Int)
  /\ \A v \in Seq(Int) : Unescaped(p \o v) = b \o Unescaped(v)
  /\ \A i \in 1 .. Len(p) : p[i] \notin outside

LEMMA StandsNothing ==
  ASSUME NEW outside
  PROVE  Stands(<<>>, <<>>, outside)
<1>1. PICK o \in Seq(Int) : o = <<>>
  <2>1. <<>> \in Seq(Int)
    OBVIOUS
  <2> QED
    BY <2>1
<1>2. Len(o) = 0
  BY <1>1
<1>3. ASSUME NEW v \in Seq(Int)
      PROVE  Unescaped(o \o v) = o \o Unescaped(v)
  <2>1. Unescaped(v) \in Seq(Int)
    BY UnescapedUnfolds DEF UnescapedSo
  <2>2. o \o v = v /\ o \o Unescaped(v) = Unescaped(v)
    BY <1>1, <2>1
  <2> QED
    BY <2>2
<1> QED
  BY <1>1, <1>2, <1>3 DEF Stands

LEMMA StandsJoin ==
  ASSUME NEW outside, NEW p, NEW b, Stands(p, b, outside), NEW q, NEW c, Stands(q, c, outside)
  PROVE  Stands(p \o q, b \o c, outside)
<1>1. p \in Seq(Int) /\ b \in Seq(Int) /\ q \in Seq(Int) /\ c \in Seq(Int)
  BY DEF Stands
<1>2. p \o q \in Seq(Int) /\ b \o c \in Seq(Int)
  BY <1>1, ConcatProperties
<1>3. ASSUME NEW v \in Seq(Int)
      PROVE  Unescaped((p \o q) \o v) = (b \o c) \o Unescaped(v)
  <2>1. PICK w \in Seq(Int) : w = Unescaped(v)
    <3>1. Unescaped(v) \in Seq(Int)
      BY UnescapedUnfolds DEF UnescapedSo
    <3> QED
      BY <3>1
  <2>2. PICK x \in Seq(Int) : x = q \o v
    BY <1>1, ConcatProperties
  <2>3. Unescaped(x) = c \o w
    BY <2>1, <2>2 DEF Stands
  <2>4. Unescaped(p \o x) = b \o Unescaped(x)
    BY DEF Stands
  <2>5. Together(p, q, v) /\ Together(b, c, w)
    BY <1>1, PartsTogether
  <2>6. (p \o q) \o v = p \o x /\ (b \o c) \o w = b \o (c \o w)
    BY <2>2, <2>5 DEF Together
  <2> QED
    BY <2>1, <2>3, <2>4, <2>6
<1>4. ASSUME NEW i \in 1 .. Len(p \o q)
      PROVE  (p \o q)[i] \notin outside
  <2>1. PICK n \in Nat, m \in Nat : n = Len(p) /\ m = Len(q)
    BY <1>1
  <2>2. PICK t : t = p \o q
    OBVIOUS
  <2>3. /\ Len(t) = n + m
        /\ \A j \in 1 .. n : t[j] = p[j]
        /\ \A j \in 1 .. m : t[n + j] = q[j]
    <3>1. JoinSo(p \o q, p, q)
      BY <1>1, JoinIs
    <3> QED
      BY <2>1, <2>2, <3>1 DEF JoinSo
  <2>4. (\A j \in 1 .. n : p[j] \notin outside) /\ (\A j \in 1 .. m : q[j] \notin outside)
    BY <2>1 DEF Stands
  <2>5. i \in 1 .. n + m
    BY <2>2, <2>3
  <2>6. CASE i <= n
    <3>1. i \in 1 .. n
      BY <2>6
    <3> QED
      BY <2>2, <2>3, <2>4, <3>1
  <2>7. CASE ~ (i <= n)
    <3>1. PICK j \in 1 .. m : i = n + j
      <4>1. i - n \in 1 .. m /\ i = n + (i - n)
        BY <2>5, <2>7
      <4> QED
        BY <4>1
    <3>2. t[n + j] = q[j] /\ q[j] \notin outside
      BY <2>3, <2>4
    <3> QED
      BY <2>2, <3>1, <3>2
  <2> QED
    BY <2>6, <2>7
<1> QED
  BY <1>1, <1>2, <1>3, <1>4 DEF Stands

\* A byte that is no percent sign stands for itself.
LEMMA StandsOne ==
  ASSUME NEW b \in Int, NEW outside, b # Percent, b \notin outside
  PROVE  Stands(<<b>>, <<b>>, outside)
<1>1. PICK e \in Seq(Int) : e = <<b>>
  <2>1. <<b>> \in Seq(Int)
    OBVIOUS
  <2> QED
    BY <2>1
<1>2. Len(e) = 1 /\ e[1] = b
  BY <1>1
<1>3. ASSUME NEW v \in Seq(Int)
      PROVE  Unescaped(e \o v) = e \o Unescaped(v)
  <2>1. PICK s \in Seq(Int) : s = e \o v
    BY ConcatProperties
  <2>2. Len(s) = 1 + Len(v) /\ s[1] = b
    BY <1>1, <2>1, OneBefore DEF OneBeforeSo
  <2>3. s # <<>>
    BY <2>2
  <2>4. From(s, 2) = v
    <3>1. From(s, Len(e) + 1) = v
      BY <2>1, AfterPart DEF AfterIt
    <3>2. Len(e) + 1 = 2
      BY <1>2
    <3> QED
      BY <3>1, <3>2
  <2>5. Unescaped(s) = <<s[1]>> \o Unescaped(From(s, 2))
    BY <2>2, <2>3, UnescapedUnfolds DEF UnescapedSo
  <2> QED
    BY <1>1, <2>1, <2>2, <2>4, <2>5
<1>4. \A i \in 1 .. Len(e) : e[i] \notin outside
  <2>1. \A i \in 1 .. 1 : i = 1
    OBVIOUS
  <2> QED
    BY <1>2, <2>1
<1> QED
  BY <1>1, <1>3, <1>4 DEF Stands

\* An escape stands for a byte.
LEMMA StandsEscape ==
  ASSUME NEW h \in Int, NEW l \in Int, NEW b \in Int, NEW outside,
         IsHexDigit(h), IsHexDigit(l), ReadHexDigit(h) * 16 + ReadHexDigit(l) = b,
         outside \subseteq {Ampersand, EqualSign}
  PROVE  Stands(<<Percent, h, l>>, <<b>>, outside)
<1>1. PICK e \in Seq(Int) : e = <<Percent, h, l>>
  <2>1. <<Percent, h, l>> \in Seq(Int)
    BY DEF Percent
  <2> QED
    BY <2>1
<1>2. Len(e) = 3 /\ e[1] = Percent /\ e[2] = h /\ e[3] = l
  BY <1>1
<1>3. ASSUME NEW v \in Seq(Int)
      PROVE  Unescaped(e \o v) = <<b>> \o Unescaped(v)
  <2>1. PICK s \in Seq(Int) : s = e \o v
    BY ConcatProperties
  <2>2. JoinSo(s, e, v)
    BY <2>1, JoinIs
  <2>3. 1 \in 1 .. 3 /\ 2 \in 1 .. 3 /\ 3 \in 1 .. 3
    OBVIOUS
  <2>4. s[1] = Percent /\ s[2] = h /\ s[3] = l
    BY <1>2, <2>2, <2>3 DEF JoinSo
  <2>5. Len(s) = 3 + Len(v) /\ Len(v) \in Nat
    BY <1>2, <2>2 DEF JoinSo
  <2>6. s # <<>> /\ 1 + 2 <= Len(s) /\ 1 + 1 = 2 /\ 1 + 2 = 3
    BY <2>5
  <2>7. EscapeAt(s, 1) /\ Escaped2(s, 1) = b
    BY <2>4, <2>6 DEF EscapeAt, Escaped2
  <2>8. From(s, 4) = v
    <3>1. From(s, Len(e) + 1) = v
      BY <2>1, AfterPart DEF AfterIt
    <3>2. Len(e) + 1 = 4
      BY <1>2
    <3> QED
      BY <3>1, <3>2
  <2>9. Unescaped(s) = <<Escaped2(s, 1)>> \o Unescaped(From(s, 4))
    BY <2>4, <2>6, <2>7, UnescapedUnfolds DEF UnescapedSo
  <2> QED
    BY <2>1, <2>7, <2>8, <2>9
<1>4. \A i \in 1 .. Len(e) : e[i] \notin outside
  <2>1. \A i \in 1 .. 3 : i = 1 \/ i = 2 \/ i = 3
    OBVIOUS
  <2>2. Percent \notin outside /\ h \notin outside /\ l \notin outside
    BY DEF Percent, Ampersand, EqualSign, IsHexDigit
  <2> QED
    BY <1>2, <2>1, <2>2
<1>5. <<b>> \in Seq(Int)
  OBVIOUS
<1> QED
  BY <1>1, <1>3, <1>4, <1>5 DEF Stands

LEMMA PlusesOne ==
  ASSUME NEW b \in Int, NEW c, c = IF b = PlusSign THEN Space ELSE b
  PROVE  PlusesToSpaces(<<b>>) = <<c>>
<1>1. PICK e : e = <<b>>
  OBVIOUS
<1>2. Len(e) = 1 /\ e[1] = b /\ e \in Seq(Int)
  BY <1>1
<1>3. PICK p : p = PlusesToSpaces(e)
  OBVIOUS
<1>4. 1 \in 1 .. Len(e)
  BY <1>2
<1>5. p \in Seq(Int) /\ Len(p) = 1 /\ p[1] = c
  BY <1>2, <1>3, <1>4, PlusesAre DEF PlusesSo
<1>6. p = <<c>>
  BY <1>5
<1> QED
  BY <1>1, <1>3, <1>6

LEMMA NoPluses ==
  ASSUME NEW e \in Seq(Int), \A i \in 1 .. Len(e) : e[i] # PlusSign
  PROVE  PlusesToSpaces(e) = e
<1>1. PICK p : p = PlusesToSpaces(e)
  OBVIOUS
<1>2. p \in Seq(Int) /\ Len(p) = Len(e) /\ \A i \in 1 .. Len(e) : p[i] = e[i]
  BY <1>1, PlusesAre DEF PlusesSo
<1>3. p = e
  BY <1>2, SeqEqual
<1> QED
  BY <1>1, <1>3

\* The text of a byte stands for it when its pluses are blanks.
PlusesStand(t, b, outside) == t \in Seq(Int) /\ Stands(PlusesToSpaces(t), b, outside)

\* The bytes that are reserved have these, and those that must not be.
ReservedSo(reserved, outside) ==
  /\ Percent \in reserved /\ PlusSign \in reserved
  /\ outside \subseteq reserved /\ outside \subseteq {Ampersand, EqualSign}

LEMMA ByteStands ==
  ASSUME NEW reserved, NEW outside, ReservedSo(reserved, outside),
         NEW b \in Byte, NEW t \in ByteTexts(b, reserved)
  PROVE  PlusesStand(t, <<b>>, outside)
<1>1. b \in 0 .. 255
  BY DEF Byte
<1>2. ASSUME NEW h \in 48 .. 102, NEW l \in 48 .. 102, IsHexDigit(h), IsHexDigit(l),
             ReadHexDigit(h) = b \div 16, ReadHexDigit(l) = b % 16, t = <<Percent, h, l>>
      PROVE  PlusesStand(t, <<b>>, outside)
  <2>1. (b \div 16) * 16 + (b % 16) = b
    BY <1>1, SMTT(30)
  <2>2. Stands(t, <<b>>, outside)
    <3>1. h \in Int /\ l \in Int /\ b \in Int /\ outside \subseteq {Ampersand, EqualSign}
      BY <1>1 DEF ReservedSo
    <3>2. ReadHexDigit(h) * 16 + ReadHexDigit(l) = b
      BY <1>2, <2>1
    <3> QED
      BY <1>2, <3>1, <3>2, StandsEscape
  <2>3. t \in Seq(Int)
    BY <2>2 DEF Stands
  <2>4. \A i \in 1 .. Len(t) : t[i] # PlusSign
    <3>1. Len(t) = 3 /\ t[1] = Percent /\ t[2] = h /\ t[3] = l
      BY <1>2
    <3>2. \A i \in 1 .. 3 : i = 1 \/ i = 2 \/ i = 3
      OBVIOUS
    <3>3. Percent # PlusSign /\ h # PlusSign /\ l # PlusSign
      BY DEF Percent, PlusSign
    <3> QED
      BY <3>1, <3>2, <3>3
  <2>5. PlusesToSpaces(t) = t
    BY <2>3, <2>4, NoPluses
  <2> QED
    BY <2>2, <2>3, <2>5 DEF PlusesStand
<1>3. ASSUME b = Space, t = <<PlusSign>>
      PROVE  PlusesStand(t, <<b>>, outside)
  <2>1. PlusesToSpaces(t) = <<b>>
    <3>1. PlusSign \in Int
      BY DEF PlusSign
    <3> QED
      BY <1>3, <3>1, PlusesOne
  <2>2. b # Percent /\ b \notin outside /\ b \in Int
    BY <1>3 DEF Space, Percent, Ampersand, EqualSign, ReservedSo
  <2>3. Stands(<<b>>, <<b>>, outside)
    BY <2>2, StandsOne
  <2>4. t \in Seq(Int)
    BY <1>3 DEF PlusSign
  <2> QED
    BY <2>1, <2>3, <2>4 DEF PlusesStand
<1>4. ASSUME b \notin reserved, t = <<b>>
      PROVE  PlusesStand(t, <<b>>, outside)
  <2>1. b # PlusSign /\ b # Percent /\ b \notin outside /\ b \in Int
    BY <1>1, <1>4 DEF ReservedSo
  <2>2. PlusesToSpaces(t) = <<b>>
    BY <1>4, <2>1, PlusesOne
  <2>3. Stands(<<b>>, <<b>>, outside)
    BY <2>1, StandsOne
  <2>4. t \in Seq(Int)
    BY <1>4, <2>1
  <2> QED
    BY <2>2, <2>3, <2>4 DEF PlusesStand
<1>5. ASSUME ~ (b = Space /\ t = <<PlusSign>>), ~ (b \notin reserved /\ t = <<b>>)
      PROVE  PlusesStand(t, <<b>>, outside)
  <2> DEFINE Digits(d) == {h \in 48 .. 102 : IsHexDigit(h) /\ ReadHexDigit(h) = d}
             Escapes == {<<Percent, h, l>> : h \in Digits(b \div 16), l \in Digits(b % 16)}
  <2>1. t \in Escapes
    <3>1. t \in Escapes \cup (IF b = Space THEN {<<PlusSign>>} ELSE {})
                \cup (IF IsUrlByte(b) /\ b \notin reserved THEN {<<b>>} ELSE {})
      BY SMTT(30) DEF ByteTexts
    <3> HIDE DEF Escapes
    <3> QED
      BY <1>5, <3>1
  <2>2. PICK h \in Digits(b \div 16), l \in Digits(b % 16) : t = <<Percent, h, l>>
    BY <2>1, SMTT(30)
  <2>3. /\ h \in 48 .. 102 /\ IsHexDigit(h) /\ ReadHexDigit(h) = b \div 16
        /\ l \in 48 .. 102 /\ IsHexDigit(l) /\ ReadHexDigit(l) = b % 16
    BY <2>2, Zenon
  <2> QED
    BY <1>2, <2>2, <2>3, Zenon
<1> QED
  BY <1>3, <1>4, <1>5

\* A sequence is the concatenation of its elements.
LEMMA FlattenSingles ==
  ASSUME NEW b \in Seq(Int), NEW s, s = [i \in 1 .. Len(b) |-> <<b[i]>>]
  PROVE  s \in Seq(Seq(Int)) /\ FlattenSeq(s) = b
<1>1. PICK n \in Nat : n = Len(b)
  OBVIOUS
<1>2. s \in Seq(Seq(Int)) /\ Len(s) = n
  <2>1. \A i \in 1 .. n : <<b[i]>> \in Seq(Int)
    BY <1>1
  <2> QED
    BY <1>1, <2>1
<1>3. PICK r : r = [k \in 0 .. n |-> SubSeq(b, 1, k)]
  OBVIOUS
<1>4. \A k \in 0 .. n : r[k] = SubSeq(b, 1, k) /\ r[k] \in Seq(Int) /\ Len(r[k]) = k
                        /\ \A i \in 1 .. k : r[k][i] = b[i]
  <2> SUFFICES ASSUME NEW k \in 0 .. n
               PROVE  r[k] = SubSeq(b, 1, k) /\ r[k] \in Seq(Int) /\ Len(r[k]) = k
                        /\ \A i \in 1 .. k : r[k][i] = b[i]
    OBVIOUS
  <2>1. r[k] = SubSeq(b, 1, k)
    BY <1>3
  <2>2. SplitSo(b, k)
    BY <1>1, SplitAt
  <2> QED
    BY <2>1, <2>2 DEF SplitSo
<1>5. ASSUME NEW k \in 0 .. n - 1
      PROVE  r[k + 1] = r[k] \o s[k + 1]
  <2>1. PICK j \in 1 .. n : j = k + 1
    OBVIOUS
  <2>2. PICK x, y : x = r[k] /\ y = r[j]
    OBVIOUS
  <2>3. /\ x \in Seq(Int) /\ Len(x) = k /\ \A i \in 1 .. k : x[i] = b[i]
        /\ y \in Seq(Int) /\ Len(y) = j /\ \A i \in 1 .. j : y[i] = b[i]
    <3>1. k \in 0 .. n /\ j \in 0 .. n
      BY <2>1
    <3> QED
      BY <1>4, <2>2, <3>1
  <2>4. PICK e \in Seq(Int) : e = s[j]
    <3>1. s[j] \in Seq(Int)
      BY <1>2
    <3> QED
      BY <3>1
  <2>5. Len(e) = 1 /\ e[1] = b[j]
    <3>1. s[j] = <<b[j]>>
      BY <1>1
    <3> QED
      BY <2>4, <3>1
  <2>6. PICK z : z = x \o e
    OBVIOUS
  <2>7. /\ z \in Seq(Int) /\ Len(z) = k + 1
        /\ \A i \in 1 .. k : z[i] = x[i]
        /\ \A i \in 1 .. 1 : z[k + i] = e[i]
    <3>1. JoinSo(x \o e, x, e)
      BY <2>3, JoinIs
    <3> QED
      BY <2>3, <2>5, <2>6, <3>1 DEF JoinSo
  <2>8. ASSUME NEW i \in 1 .. j
        PROVE  y[i] = z[i]
    <3>1. CASE i = j
      <4>1. 1 \in 1 .. 1 /\ k + 1 = i
        BY <2>1, <3>1
      <4>2. z[i] = e[1]
        BY <2>7, <4>1
      <4> QED
        BY <2>3, <2>5, <3>1, <4>2
    <3>2. CASE i # j
      <4>1. i \in 1 .. k
        BY <2>1, <3>2
      <4>2. z[i] = x[i] /\ x[i] = b[i]
        BY <2>3, <2>7, <4>1
      <4> QED
        BY <2>3, <4>2
    <3> QED
      BY <3>1, <3>2
  <2>9. y = z
    BY <2>1, <2>3, <2>7, <2>8, SeqEqual
  <2> QED
    BY <2>1, <2>2, <2>4, <2>6, <2>9
<1>6. r[0] = <<>>
  <2>1. 0 \in 0 .. n
    OBVIOUS
  <2>2. r[0] \in Seq(Int) /\ Len(r[0]) = 0
    BY <1>4, <2>1
  <2>3. \A x \in Seq(Int) : Len(x) = 0 => x = <<>>
    OBVIOUS
  <2> QED
    BY <2>2, <2>3
<1>7. r \in [0 .. n -> Seq(Int)]
  BY <1>3, <1>4
<1>8. Concatenates(r, s)
  BY <1>2, <1>5, <1>6, <1>7 DEF Concatenates
<1>9. FlattenSeq(s) = r[n]
  BY <1>2, <1>8, FlattenIs
<1>10. r[n] = b
  <2>1. n \in 0 .. n
    OBVIOUS
  <2>2. r[n] \in Seq(Int) /\ Len(r[n]) = n /\ \A i \in 1 .. n : r[n][i] = b[i]
    BY <1>4, <2>1
  <2> QED
    BY <1>1, <2>2, SeqEqual
<1> QED
  BY <1>2, <1>9, <1>10

\* The bytes of a text one after the other stand for them all.
LEMMA BytesStand ==
  ASSUME NEW reserved, NEW outside, ReservedSo(reserved, outside),
         NEW b \in Seq(Byte), NEW f, DOMAIN f = 1 .. Len(b),
         f = [i \in 1 .. Len(b) |-> f[i]],
         \A i \in 1 .. Len(b) : f[i] \in ByteTexts(b[i], reserved)
  PROVE  PlusesStand(FlattenSeq(f), b, outside)
<1>1. PICK n \in Nat : n = Len(b)
  OBVIOUS
<1>2. b \in Seq(Int)
  BY BytesAreIntegers
<1>3. PICK s : s = [i \in 1 .. Len(b) |-> <<b[i]>>]
  OBVIOUS
<1>4. s \in Seq(Seq(Int)) /\ FlattenSeq(s) = b
  BY <1>2, <1>3, FlattenSingles
<1>5. Len(s) = n /\ \A i \in 1 .. n : s[i] = <<b[i]>>
  BY <1>1, <1>3
<1>6. \A i \in 1 .. n : PlusesStand(f[i], s[i], outside)
  <2> SUFFICES ASSUME NEW i \in 1 .. n
               PROVE  PlusesStand(f[i], s[i], outside)
    OBVIOUS
  <2>1. b[i] \in Byte /\ f[i] \in ByteTexts(b[i], reserved)
    BY <1>1
  <2> QED
    BY <1>5, <2>1, ByteStands
<1>7. f \in Seq(Seq(Int)) /\ Len(f) = n
  <2>1. \A i \in 1 .. n : f[i] \in Seq(Int)
    BY <1>6 DEF PlusesStand
  <2>2. f \in [1 .. n -> Seq(Int)]
    BY <1>1, <2>1
  <2> QED
    BY <2>2
<1> DEFINE R == {p \in TextPairs : PlusesStand(p[1], p[2], outside)}
<1>8. \A u, c : <<u, c>> \in R <=> u \in Seq(Int) /\ c \in Seq(Int) /\ PlusesStand(u, c, outside)
  BY DEF TextPairs
<1>9. R \in SUBSET TextPairs
  OBVIOUS
<1> HIDE DEF R
<1>10. <<<<>>, <<>>>> \in R
  <2>1. PICK o \in Seq(Int) : o = <<>>
    <3>1. <<>> \in Seq(Int)
      OBVIOUS
    <3> QED
      BY <3>1
  <2>2. \A i \in 1 .. Len(o) : o[i] # PlusSign
    BY <2>1
  <2>3. PlusesToSpaces(o) = o
    BY <2>2, NoPluses
  <2>4. Stands(o, o, outside)
    BY <2>1, StandsNothing
  <2>5. <<o, o>> \in R
    BY <1>8, <2>3, <2>4 DEF PlusesStand
  <2> QED
    BY <2>1, <2>5
<1>11. ASSUME NEW u, NEW c, NEW v, NEW d, <<u, c>> \in R, <<v, d>> \in R
       PROVE  <<u \o v, c \o d>> \in R
  <2>1. u \in Seq(Int) /\ c \in Seq(Int) /\ v \in Seq(Int) /\ d \in Seq(Int)
    BY <1>8, <1>11
  <2>2. Stands(PlusesToSpaces(u), c, outside) /\ Stands(PlusesToSpaces(v), d, outside)
    BY <1>8, <1>11 DEF PlusesStand
  <2>3. Stands(PlusesToSpaces(u) \o PlusesToSpaces(v), c \o d, outside)
    BY <2>2, StandsJoin
  <2>4. PlusesToSpaces(u \o v) = PlusesToSpaces(u) \o PlusesToSpaces(v)
    BY <2>1, PlusesJoin
  <2>5. u \o v \in Seq(Int) /\ c \o d \in Seq(Int)
    BY <2>1, ConcatProperties
  <2> QED
    BY <1>8, <2>3, <2>4, <2>5 DEF PlusesStand
<1>12. KeptTogether(R)
  BY <1>9, <1>10, <1>11 DEF KeptTogether
<1>13. \A i \in 1 .. n : <<f[i], s[i]>> \in R
  <2> SUFFICES ASSUME NEW i \in 1 .. n
               PROVE  <<f[i], s[i]>> \in R
    OBVIOUS
  <2>1. f[i] \in Seq(Int) /\ s[i] \in Seq(Int)
    BY <1>4, <1>5, <1>7
  <2> QED
    BY <1>6, <1>8, <2>1
<1>14. <<FlattenSeq(f), FlattenSeq(s)>> \in R
  BY <1>4, <1>5, <1>7, <1>12, <1>13, FlattenBoth
<1> QED
  BY <1>4, <1>8, <1>14

\* What somebody spells stands for what is meant.
LEMMA ComponentStands ==
  ASSUME NEW reserved, NEW outside, ReservedSo(reserved, outside),
         NEW b \in Seq(Byte), NEW t \in ComponentTexts(b, reserved)
  PROVE  PlusesStand(t, b, outside)
<1> DEFINE sets == [i \in 1 .. Len(b) |-> ByteTexts(b[i], reserved)]
<1>1. PICK f \in Chosen(sets) : t = FlattenSeq(f)
  BY DEF ComponentTexts
<1>2. /\ f \in [DOMAIN sets -> UNION {sets[i] : i \in DOMAIN sets}]
      /\ \A i \in DOMAIN sets : f[i] \in sets[i]
  BY <1>1, Zenon DEF Chosen
<1>3. DOMAIN sets = 1 .. Len(b) /\ \A i \in 1 .. Len(b) : sets[i] = ByteTexts(b[i], reserved)
  OBVIOUS
<1> HIDE DEF sets
<1>4. /\ DOMAIN f = 1 .. Len(b) /\ f = [i \in 1 .. Len(b) |-> f[i]]
      /\ \A i \in 1 .. Len(b) : f[i] \in ByteTexts(b[i], reserved)
  BY <1>2, <1>3
<1> QED
  BY <1>1, <1>4, BytesStand

\* So does what EncodeUriComponent writes.
LEMMA EncodedStands ==
  ASSUME NEW outside, outside \subseteq {Ampersand, EqualSign}, NEW b \in Seq(Byte)
  PROVE  PlusesStand(EncodeUriComponent(b), b, outside)
<1>1. PICK reserved : reserved = {Percent, PlusSign} \cup outside
  OBVIOUS
<1>2. ReservedSo(reserved, outside)
  BY <1>1 DEF ReservedSo
<1>3. PICK f : f = [i \in 1 .. Len(b) |->
                      IF IsUriUnescaped(b[i])
                        THEN <<b[i]>>
                        ELSE <<Percent, HexDigit(b[i] \div 16), HexDigit(b[i] % 16)>>]
  OBVIOUS
<1>4. EncodeUriComponent(b) = FlattenSeq(f)
  BY <1>3 DEF EncodeUriComponent
<1>5. ASSUME NEW i \in 1 .. Len(b)
      PROVE  f[i] \in ByteTexts(b[i], reserved)
  <2>1. PICK c \in 0 .. 255 : c = b[i]
    <3>1. b[i] \in Byte
      OBVIOUS
    <3> QED
      BY <3>1 DEF Byte
  <2>2. CASE IsUriUnescaped(c)
    <3>1. f[i] = <<c>>
      BY <1>3, <2>1, <2>2
    <3>2. IsUrlByte(c)
      BY <2>2 DEF IsUriUnescaped, IsUriMark, IsUrlByte
    <3>3. c # Percent /\ c # PlusSign /\ c # Ampersand /\ c # EqualSign
      BY <2>2 DEF IsUriUnescaped, IsUriMark, Percent, PlusSign, Ampersand, EqualSign
    <3>4. c \notin reserved
      BY <1>1, <3>3
    <3> QED
      BY <2>1, <3>1, <3>2, <3>4 DEF ByteTexts
  <2>3. CASE ~ IsUriUnescaped(c)
    <3>1. PICK h, l : h = HexDigit(c \div 16) /\ l = HexDigit(c % 16)
      OBVIOUS
    <3>2. c \div 16 \in 0 .. 15 /\ c % 16 \in 0 .. 15
      BY SMTT(30)
    <3>3. DigitFor(h, c \div 16) /\ DigitFor(l, c % 16)
      BY <3>1, <3>2, LowerDigit DEF HexDigit
    <3>4. h \in 48 .. 102 /\ l \in 48 .. 102
      BY <3>3 DEF DigitFor, IsHexDigit
    <3>5. f[i] = <<Percent, h, l>>
      BY <1>3, <2>1, <2>3, <3>1
    <3>6. h \in {x \in 48 .. 102 : IsHexDigit(x) /\ ReadHexDigit(x) = c \div 16}
      BY <3>3, <3>4 DEF DigitFor
    <3>7. l \in {x \in 48 .. 102 : IsHexDigit(x) /\ ReadHexDigit(x) = c % 16}
      BY <3>3, <3>4 DEF DigitFor
    <3> QED
      BY <2>1, <3>5, <3>6, <3>7 DEF ByteTexts
  <2> QED
    BY <2>2, <2>3
<1>6. DOMAIN f = 1 .. Len(b) /\ f = [i \in 1 .. Len(b) |-> f[i]]
  BY <1>3
<1> QED
  BY <1>2, <1>4, <1>5, <1>6, BytesStand

-----------------------------------------------------------------------------
(* What a piece of a query says.                                           *)

\* Two texts without a byte are together without it.
LEMMA JoinLacks ==
  ASSUME NEW a \in Seq(Int), NEW b \in Seq(Int), NEW x, ~ Contains(a, x), ~ Contains(b, x)
  PROVE  ~ Contains(a \o b, x)
<1>1. PICK n \in Nat, m \in Nat : n = Len(a) /\ m = Len(b)
  OBVIOUS
<1>2. PICK t : t = a \o b
  OBVIOUS
<1>3. /\ Len(t) = n + m
      /\ \A j \in 1 .. n : t[j] = a[j]
      /\ \A j \in 1 .. m : t[n + j] = b[j]
  <2>1. JoinSo(a \o b, a, b)
    BY JoinIs
  <2> QED
    BY <1>1, <1>2, <2>1 DEF JoinSo
<1>4. (\A j \in 1 .. n : a[j] # x) /\ (\A j \in 1 .. m : b[j] # x)
  BY <1>1 DEF Contains
<1>5. ASSUME NEW i \in 1 .. n + m
      PROVE  t[i] # x
  <2>1. CASE i <= n
    <3>1. i \in 1 .. n
      BY <2>1
    <3> QED
      BY <1>3, <1>4, <3>1
  <2>2. CASE ~ (i <= n)
    <3>1. PICK j \in 1 .. m : i = n + j
      <4>1. i - n \in 1 .. m /\ i = n + (i - n)
        BY <2>2
      <4> QED
        BY <4>1
    <3>2. t[n + j] = b[j] /\ b[j] # x
      BY <1>3, <1>4
    <3> QED
      BY <3>1, <3>2
  <2> QED
    BY <2>1, <2>2
<1> QED
  BY <1>2, <1>3, <1>5 DEF Contains

LEMMA StandsAlone ==
  ASSUME NEW p, NEW b, NEW outside, Stands(p, b, outside)
  PROVE  Unescaped(p) = b
<1>1. p \in Seq(Int) /\ b \in Seq(Int)
  BY DEF Stands
<1>2. PICK o \in Seq(Int) : o = <<>>
  <2>1. <<>> \in Seq(Int)
    OBVIOUS
  <2> QED
    BY <2>1
<1>3. Unescaped(o) = o
  BY <1>2, UnescapedUnfolds DEF UnescapedSo
<1>4. Unescaped(p \o o) = b \o Unescaped(o)
  BY DEF Stands
<1>5. p \o o = p /\ b \o o = b
  BY <1>1, <1>2
<1> QED
  BY <1>3, <1>4, <1>5

DecodedSo(b) == IsDecoded(b) <=> IsStructurallyValidUtf8(b)

LEMMA BytesDecode ==
  ASSUME NEW b \in Seq(Byte)
  PROVE  DecodedSo(b)
<1>1. \A i \in 1 .. Len(b) : b[i] # Malformed
  <2> SUFFICES ASSUME NEW i \in 1 .. Len(b)
               PROVE  b[i] # Malformed
    OBVIOUS
  <2>1. b[i] \in Byte
    OBVIOUS
  <2>2. \A x \in Byte : x # Malformed
    BY DEF Byte, Malformed
  <2> QED
    BY <2>1, <2>2
<1>2. ~ Contains(b, Malformed)
  BY <1>1 DEF Contains
<1> QED
  BY <1>2 DEF IsDecoded, DecodedSo

\* A text between ampersands that says of parameters what the piece means.
PieceSo(p, piece) ==
  p \in Seq(Int) /\ ~ Contains(p, Ampersand) /\ ParametersOf(p) = MeantBy(piece)

LEMMA PairIsRead ==
  ASSUME NEW piece, piece.type = "pair", piece.name \in Seq(Byte), piece.value \in Seq(Byte),
         NEW nm, PlusesStand(nm, piece.name, {Ampersand, EqualSign}),
         NEW vl, PlusesStand(vl, piece.value, {Ampersand}),
         NEW u, u = PairText(nm, vl)
  PROVE  u \in Seq(Int) /\ PieceSo(PlusesToSpaces(u), piece)
<1>1. PICK name, value : name = piece.name /\ value = piece.value
  OBVIOUS
<1>2. name \in Seq(Byte) /\ value \in Seq(Byte)
  BY <1>1
<1>3. PICK a, b : a = PlusesToSpaces(nm) /\ b = PlusesToSpaces(vl)
  OBVIOUS
<1>4. nm \in Seq(Int) /\ vl \in Seq(Int)
  BY DEF PlusesStand
<1>5. Stands(a, name, {Ampersand, EqualSign}) /\ Stands(b, value, {Ampersand})
  BY <1>1, <1>3 DEF PlusesStand
<1>6. /\ a \in Seq(Int) /\ b \in Seq(Int)
      /\ \A i \in 1 .. Len(a) : a[i] # Ampersand /\ a[i] # EqualSign
      /\ \A i \in 1 .. Len(b) : b[i] # Ampersand
  BY <1>5 DEF Stands
<1>7. PICK e \in Seq(Int) : e = <<EqualSign>>
  <2>1. <<EqualSign>> \in Seq(Int)
    BY DEF EqualSign
  <2> QED
    BY <2>1
<1>8. PlusesToSpaces(e) = e
  <2>1. EqualSign \in Int /\ EqualSign # PlusSign
    BY DEF EqualSign, PlusSign
  <2> QED
    BY <1>7, <2>1, PlusesOne
<1>9. u \in Seq(Int) /\ e \o vl \in Seq(Int) /\ u = nm \o (e \o vl)
  <2>1. nm \o e \in Seq(Int) /\ e \o vl \in Seq(Int)
    BY <1>4, ConcatProperties
  <2>2. u = (nm \o e) \o vl
    BY <1>7 DEF PairText
  <2>3. Together(nm, e, vl)
    BY <1>4, PartsTogether
  <2>4. u \in Seq(Int)
    BY <1>4, <2>1, <2>2, ConcatProperties
  <2> QED
    BY <2>1, <2>2, <2>3, <2>4 DEF Together
<1>10. PICK p : p = PlusesToSpaces(u)
  OBVIOUS
<1>11. p = a \o (e \o b)
  <2>1. p = a \o PlusesToSpaces(e \o vl)
    BY <1>3, <1>4, <1>9, <1>10, PlusesJoin
  <2>2. PlusesToSpaces(e \o vl) = e \o b
    BY <1>3, <1>4, <1>8, PlusesJoin
  <2> QED
    BY <2>1, <2>2
<1>12. e \o b \in Seq(Int) /\ p \in Seq(Int)
  BY <1>6, <1>11, ConcatProperties
<1>13. ~ Contains(p, Ampersand)
  <2>1. ~ Contains(a, Ampersand) /\ ~ Contains(b, Ampersand)
    BY <1>6 DEF Contains
  <2>2. ~ Contains(e, Ampersand)
    BY <1>7 DEF Contains, EqualSign, Ampersand
  <2>3. ~ Contains(e \o b, Ampersand)
    BY <1>6, <2>1, <2>2, JoinLacks
  <2> QED
    BY <1>6, <1>11, <1>12, <2>1, <2>3, JoinLacks
<1>14. Contains(p, EqualSign) /\ UpTo(p, EqualSign) = a /\ After(p, EqualSign) = b
  <2>1. SplitBy(p, EqualSign, a, b)
    BY <1>6, <1>7, <1>11 DEF SplitBy
  <2>2. EqualSign \in Int
    BY DEF EqualSign
  <2>3. SplitFound(p, EqualSign, a, b)
    BY <2>1, <2>2, SplitIsFound
  <2> QED
    BY <2>3 DEF SplitFound
<1>15. Unescaped(a) = name /\ Unescaped(b) = value
  BY <1>5, StandsAlone
<1>16. DecodedSo(name) /\ DecodedSo(value)
  BY <1>2, BytesDecode
<1>17. ParametersOf(p) =
         IF name # <<>> /\ IsDecoded(name) /\ IsDecoded(value)
           THEN <<[name |-> name, value |-> value]>> ELSE <<>>
  BY <1>14, <1>15 DEF ParametersOf
<1>18. MeantBy(piece) =
         IF name # <<>> /\ IsStructurallyValidUtf8(name) /\ IsStructurallyValidUtf8(value)
           THEN <<[name |-> name, value |-> value]>> ELSE <<>>
  BY <1>1 DEF MeantBy, IsText
<1>19. ParametersOf(p) = MeantBy(piece)
  BY <1>16, <1>17, <1>18 DEF DecodedSo
<1> QED
  BY <1>9, <1>10, <1>12, <1>13, <1>19 DEF PieceSo

\* A wrong escape stays one in the part of the text it is in.
LEMMA WrongInPart ==
  ASSUME NEW s, NEW x \in Int, NEW a, NEW b, SplitBy(s, x, a, b), x # Percent,
         NEW w, WrongAt(s, w)
  PROVE  (\E i : WrongAt(a, i)) \/ (\E i : WrongAt(b, i))
<1>1. a \in Seq(Int) /\ b \in Seq(Int)
  BY DEF SplitBy
<1>2. PICK n \in Nat, m \in Nat : n = Len(a) /\ m = Len(b)
  BY <1>1
<1>3. PICK c : c = <<x>> \o b
  OBVIOUS
<1>4. c \in Seq(Int) /\ Len(c) = 1 + m /\ c[1] = x /\ \A i \in 1 .. m : c[1 + i] = b[i]
  BY <1>1, <1>2, <1>3, OneBefore DEF OneBeforeSo
<1>5. /\ s \in Seq(Int) /\ Len(s) = n + (1 + m)
      /\ \A i \in 1 .. n : s[i] = a[i]
      /\ \A i \in 1 .. 1 + m : s[n + i] = c[i]
  <2>1. JoinSo(a \o c, a, c)
    BY <1>1, <1>4, JoinIs
  <2>2. s = a \o c
    BY <1>3 DEF SplitBy
  <2> QED
    BY <1>2, <1>4, <2>1, <2>2 DEF JoinSo
<1>6. \A i \in 1 .. m : s[(n + 1) + i] = b[i]
  <2> SUFFICES ASSUME NEW i \in 1 .. m
               PROVE  s[(n + 1) + i] = b[i]
    OBVIOUS
  <2>1. 1 + i \in 1 .. 1 + m /\ n + (1 + i) = (n + 1) + i
    OBVIOUS
  <2>2. s[n + (1 + i)] = c[1 + i]
    BY <1>5, <2>1
  <2> QED
    BY <1>4, <2>1, <2>2
<1>7. w \in 1 .. n + (1 + m) /\ s[w] = Percent /\ ~ EscapeAt(s, w)
  BY <1>5 DEF WrongAt
<1>8. CASE w <= n
  <2>1. w \in 1 .. n
    BY <1>7, <1>8
  <2>2. a[w] = Percent
    BY <1>5, <1>7, <2>1
  <2>3. ASSUME EscapeAt(a, w)
        PROVE  FALSE
    <3>1. w + 2 <= n /\ IsHexDigit(a[w + 1]) /\ IsHexDigit(a[w + 2])
      BY <1>2, <2>3 DEF EscapeAt
    <3>2. w + 1 \in 1 .. n /\ w + 2 \in 1 .. n /\ w + 2 <= Len(s)
      BY <1>5, <2>1, <3>1
    <3>3. s[w + 1] = a[w + 1] /\ s[w + 2] = a[w + 2]
      BY <1>5, <3>2
    <3> QED
      BY <1>7, <3>1, <3>2, <3>3 DEF EscapeAt
  <2>4. WrongAt(a, w)
    BY <1>2, <2>1, <2>2, <2>3 DEF WrongAt
  <2> QED
    BY <2>4
<1>9. CASE ~ (w <= n)
  <2>1. w # n + 1
    <3>1. 1 \in 1 .. 1 + m
      OBVIOUS
    <3>2. s[n + 1] = x
      BY <1>4, <1>5, <3>1
    <3> QED
      BY <1>7, <3>2
  <2>2. PICK j \in 1 .. m : w = (n + 1) + j
    <3>1. w - (n + 1) \in 1 .. m /\ w = (n + 1) + (w - (n + 1))
      BY <1>7, <1>9, <2>1
    <3> QED
      BY <3>1
  <2>3. b[j] = Percent
    BY <1>6, <1>7, <2>2
  <2>4. ASSUME EscapeAt(b, j)
        PROVE  FALSE
    <3>1. j + 2 <= m /\ IsHexDigit(b[j + 1]) /\ IsHexDigit(b[j + 2])
      BY <1>2, <2>4 DEF EscapeAt
    <3>2. j + 1 \in 1 .. m /\ j + 2 \in 1 .. m /\ w + 2 <= Len(s)
      BY <1>5, <2>2, <3>1
    <3>3. (n + 1) + (j + 1) = w + 1 /\ (n + 1) + (j + 2) = w + 2
      BY <2>2
    <3>4. s[(n + 1) + (j + 1)] = b[j + 1] /\ s[(n + 1) + (j + 2)] = b[j + 2]
      BY <1>6, <3>2
    <3> QED
      BY <1>7, <3>1, <3>2, <3>3, <3>4 DEF EscapeAt
  <2>5. WrongAt(b, j)
    BY <1>2, <2>3, <2>4 DEF WrongAt
  <2> QED
    BY <2>5
<1> QED
  BY <1>8, <1>9

LEMMA ScrapIsRead ==
  ASSUME NEW piece, piece.type = "scrap", NEW u \in Seq(Byte), IsScrap(u)
  PROVE  u \in Seq(Int) /\ PieceSo(PlusesToSpaces(u), piece)
<1>1. u \in Seq(Int)
  BY BytesAreIntegers
<1>2. PICK p : p = PlusesToSpaces(u)
  OBVIOUS
<1>3. /\ p \in Seq(Int) /\ Len(p) = Len(u)
      /\ \A i \in 1 .. Len(u) : p[i] = IF u[i] = PlusSign THEN Space ELSE u[i]
  BY <1>1, <1>2, PlusesAre DEF PlusesSo
<1>4. ~ Contains(p, Ampersand)
  <2>1. ASSUME NEW i \in 1 .. Len(u)
        PROVE  p[i] # Ampersand
    <3>1. u[i] # Ampersand
      BY DEF IsScrap
    <3>2. Space # Ampersand
      BY DEF Space, Ampersand
    <3> QED
      BY <1>3, <3>1, <3>2
  <2> QED
    BY <1>3, <2>1 DEF Contains
<1>5. MeantBy(piece) = <<>>
  BY DEF MeantBy
<1>6. ASSUME Contains(p, EqualSign)
      PROVE  ParametersOf(p) = <<>>
  <2>1. Contains(u, EqualSign)
    <3>1. PICK i \in 1 .. Len(u) : p[i] = EqualSign
      BY <1>3, <1>6 DEF Contains
    <3>2. Space # EqualSign
      BY DEF Space, EqualSign
    <3>3. u[i] = EqualSign
      BY <1>3, <3>1, <3>2
    <3> QED
      BY <3>3 DEF Contains
  <2>2. PICK w \in 1 .. Len(u) :
          /\ u[w] = Percent
          /\ ~ (w + 2 <= Len(u) /\ IsHexDigit(u[w + 1]) /\ IsHexDigit(u[w + 2]))
    BY <2>1 DEF IsScrap
  <2>3. WrongAt(p, w)
    <3>1. Percent # PlusSign
      BY DEF Percent, PlusSign
    <3>2. w \in 1 .. Len(p) /\ p[w] = Percent
      BY <1>3, <2>2, <3>1
    <3>3. ~ IsHexDigit(Space)
      BY DEF IsHexDigit, Space
    <3>4. ASSUME EscapeAt(p, w)
          PROVE  FALSE
      <4>1. w + 2 <= Len(u) /\ IsHexDigit(p[w + 1]) /\ IsHexDigit(p[w + 2])
        BY <1>3, <3>4 DEF EscapeAt
      <4>2. w + 1 \in 1 .. Len(u) /\ w + 2 \in 1 .. Len(u)
        BY <4>1
      <4>3. /\ p[w + 1] = IF u[w + 1] = PlusSign THEN Space ELSE u[w + 1]
            /\ p[w + 2] = IF u[w + 2] = PlusSign THEN Space ELSE u[w + 2]
        BY <1>3, <4>2
      <4>4. IsHexDigit(u[w + 1]) /\ IsHexDigit(u[w + 2])
        BY <3>3, <4>1, <4>3
      <4> QED
        BY <2>2, <4>1, <4>4
    <3> QED
      BY <3>2, <3>4 DEF WrongAt
  <2>4. EqualSign \in Int /\ EqualSign # Percent
    BY DEF EqualSign, Percent
  <2>5. PICK a, b : SplitBy(p, EqualSign, a, b)
    BY <1>3, <1>6, <2>4, SplitExists
  <2>6. UpTo(p, EqualSign) = a /\ After(p, EqualSign) = b
    BY <2>4, <2>5, SplitIsFound DEF SplitFound
  <2>7. a \in Seq(Int) /\ b \in Seq(Int)
    BY <2>5 DEF SplitBy
  <2>8. Contains(Unescaped(a), Malformed) \/ Contains(Unescaped(b), Malformed)
    <3>1. (\E i : WrongAt(a, i)) \/ (\E i : WrongAt(b, i))
      BY <2>3, <2>4, <2>5, WrongInPart
    <3> QED
      BY <2>7, <3>1, WrongEscape
  <2>9. ~ (IsDecoded(Unescaped(a)) /\ IsDecoded(Unescaped(b)))
    BY <2>8 DEF IsDecoded
  <2> QED
    BY <2>6, <2>9 DEF ParametersOf
<1>7. ASSUME ~ Contains(p, EqualSign)
      PROVE  ParametersOf(p) = <<>>
  BY <1>7 DEF ParametersOf
<1>8. ParametersOf(p) = MeantBy(piece)
  BY <1>5, <1>6, <1>7
<1> QED
  BY <1>1, <1>2, <1>3, <1>4, <1>8 DEF PieceSo

\* However a piece is written, the library reads what it means.
LEMMA PieceIsRead ==
  ASSUME NEW piece \in Piece, piece.type = "scrap" => IsScrap(piece.text),
         NEW u \in PieceTexts(piece)
  PROVE  u \in Seq(Int) /\ PieceSo(PlusesToSpaces(u), piece)
<1>1. CASE piece.type = "scrap"
  <2>1. piece.text \in Seq(Byte)
    BY <1>1 DEF Piece
  <2>2. u = piece.text
    BY <1>1 DEF PieceTexts
  <2> QED
    BY <1>1, <2>1, <2>2, ScrapIsRead
<1>2. CASE piece.type # "scrap"
  <2>1. piece.type = "pair" /\ piece.name \in Seq(Byte) /\ piece.value \in Seq(Byte)
    BY <1>2 DEF Piece
  <2>2. /\ ReservedSo(Reserved \cup {EqualSign}, {Ampersand, EqualSign})
        /\ ReservedSo(Reserved, {Ampersand})
    BY DEF ReservedSo, Reserved
  <2>3. PICK nm, vl :
          /\ PlusesStand(nm, piece.name, {Ampersand, EqualSign})
          /\ PlusesStand(vl, piece.value, {Ampersand})
          /\ u = PairText(nm, vl)
    <3>1. ASSUME NEW nm \in ComponentTexts(piece.name, Reserved \cup {EqualSign}),
                 NEW vl \in ComponentTexts(piece.value, Reserved),
                 u = PairText(nm, vl)
          PROVE  /\ PlusesStand(nm, piece.name, {Ampersand, EqualSign})
                 /\ PlusesStand(vl, piece.value, {Ampersand})
                 /\ u = PairText(nm, vl)
      <4>1. PlusesStand(nm, piece.name, {Ampersand, EqualSign})
        BY <2>1, <2>2, ComponentStands
      <4>2. PlusesStand(vl, piece.value, {Ampersand})
        BY <2>1, <2>2, ComponentStands
      <4> QED
        BY <3>1, <4>1, <4>2
    <3>2. ASSUME u = PairText(EncodeUriComponent(piece.name), EncodeUriComponent(piece.value))
          PROVE  \E nm, vl : /\ PlusesStand(nm, piece.name, {Ampersand, EqualSign})
                             /\ PlusesStand(vl, piece.value, {Ampersand})
                             /\ u = PairText(nm, vl)
      <4>1. PlusesStand(EncodeUriComponent(piece.name), piece.name, {Ampersand, EqualSign})
        BY <2>1, EncodedStands
      <4>2. PlusesStand(EncodeUriComponent(piece.value), piece.value, {Ampersand})
        BY <2>1, EncodedStands
      <4> QED
        BY <3>2, <4>1, <4>2
    <3>3. \/ u = PairText(EncodeUriComponent(piece.name), EncodeUriComponent(piece.value))
          \/ \E nm \in ComponentTexts(piece.name, Reserved \cup {EqualSign}),
                vl \in ComponentTexts(piece.value, Reserved) :
               u = PairText(nm, vl)
      BY <1>2 DEF PieceTexts
    <3> QED
      BY <3>1, <3>2, <3>3
  <2> QED
    BY <2>1, <2>3, PairIsRead
<1> QED
  BY <1>1, <1>2

-----------------------------------------------------------------------------
(* What a query says.                                                      *)

Parameters == Seq([name : Seq(Byte), value : Seq(Byte)])

AndMeant(all, piece) == all \o MeantBy(piece)

MeaningF == [p \in Parameters \X Piece |-> AndMeant(p[1], p[2])]

LEMMA MeantIsParameters ==
  ASSUME NEW piece \in Piece
  PROVE  MeantBy(piece) \in Parameters
<1>1. CASE piece.type = "pair"
  <2>1. piece.name \in Seq(Byte) /\ piece.value \in Seq(Byte)
    BY <1>1 DEF Piece
  <2>2. PICK x \in [name : Seq(Byte), value : Seq(Byte)] :
          x = [name |-> piece.name, value |-> piece.value]
    BY <2>1
  <2>3. <<x>> \in Parameters /\ <<>> \in Parameters
    BY DEF Parameters
  <2> QED
    BY <2>2, <2>3 DEF MeantBy
<1>2. CASE piece.type # "pair"
  BY <1>2 DEF MeantBy, Parameters
<1> QED
  BY <1>1, <1>2

LEMMA MeaningFIs ==
  /\ MeaningF \in [Parameters \X Piece -> Parameters]
  /\ \A all \in Parameters, piece \in Piece : MeaningF[<<all, piece>>] = AndMeant(all, piece)
<1>1. ASSUME NEW p \in Parameters \X Piece
      PROVE  AndMeant(p[1], p[2]) \in Parameters
  <2>1. p[1] \in Parameters /\ MeantBy(p[2]) \in Parameters
    BY MeantIsParameters
  <2> QED
    BY <2>1, ConcatProperties DEF Parameters, AndMeant
<1>2. ASSUME NEW all \in Parameters, NEW piece \in Piece
      PROVE  MeaningF[<<all, piece>>] = AndMeant(all, piece)
  BY DEF MeaningF
<1> QED
  BY <1>1, <1>2 DEF MeaningF

\* The parameters of the first pieces of a query, of none, of one and so on.
Meanings(m, query) ==
  /\ m[0] = <<>>
  /\ \A k \in 0 .. Len(query) - 1 : m[k + 1] = m[k] \o MeantBy(query[k + 1])
  /\ m[Len(query)] = FoldLeft(LAMBDA all, piece : all \o MeantBy(piece), <<>>, query)

LEMMA MeaningsExist ==
  ASSUME NEW query \in Seq(Piece)
  PROVE  \E m : Meanings(m, query)
<1>0. <<>> \in Parameters /\ MeaningF \in [Parameters \X Piece -> Parameters]
  <2>1. <<>> \in Parameters
    BY DEF Parameters
  <2> QED
    BY <2>1, MeaningFIs, Zenon
<1>1. PICK h \in [SUBSET DOMAIN query -> Parameters] : Folds(h, MeaningF, <<>>, query)
  BY <1>0, FoldExists
<1>2. ASSUME NEW S \in SUBSET DOMAIN query, S # {}
      PROVE  S \ {Max(S)} \in SUBSET DOMAIN query /\ query[Max(S)] \in Piece
  BY <1>2, FoldTakes
<1>3. h = [S \in SUBSET DOMAIN query |->
             IF S = {} THEN <<>> ELSE AndMeant(h[S \ {Max(S)}], query[Max(S)])]
  <2>1. h = [S \in SUBSET DOMAIN query |->
               IF S = {} THEN <<>> ELSE MeaningF[<<h[S \ {Max(S)}], query[Max(S)]>>]]
    BY <1>1 DEF Folds
  <2>2. ASSUME NEW S \in SUBSET DOMAIN query, S # {}
        PROVE  MeaningF[<<h[S \ {Max(S)}], query[Max(S)]>>]
                 = AndMeant(h[S \ {Max(S)}], query[Max(S)])
    BY <1>2, <2>2, MeaningFIs
  <2> QED
    BY <2>1, <2>2
<1> DEFINE iter[S \in SUBSET DOMAIN query] ==
      IF S = {} THEN <<>> ELSE AndMeant(iter[S \ {Max(S)}], query[Max(S)])
<1>4. FoldLeft(LAMBDA all, piece : all \o MeantBy(piece), <<>>, query) = iter[DOMAIN query]
  BY Zenon DEF FoldLeft, MapThenFoldSet, AndMeant
<1>5. iter = [S \in SUBSET DOMAIN query |->
                IF S = {} THEN <<>> ELSE AndMeant(iter[S \ {Max(S)}], query[Max(S)])]
  BY <1>3, Zenon
<1> HIDE DEF iter
<1>6. GoesOnBy(iter, MeaningF, <<>>, query, Parameters)
  <2>1. iter = [S \in SUBSET DOMAIN query |-> iter[S]]
    BY <1>5
  <2>2. iter[{}] = <<>>
    BY <1>5
  <2>3. ASSUME NEW S \in SUBSET DOMAIN query, S # {}, iter[S \ {Max(S)}] \in Parameters
        PROVE  iter[S] = MeaningF[<<iter[S \ {Max(S)}], query[Max(S)]>>]
    <3>1. iter[S] = AndMeant(iter[S \ {Max(S)}], query[Max(S)])
      BY <1>5, <2>3
    <3> QED
      BY <1>2, <2>3, <3>1, MeaningFIs
  <2> QED
    BY <2>1, <2>2, <2>3 DEF GoesOnBy
<1>7. PICK m \in [0 .. Len(query) -> Parameters] :
        Chain(m, MeaningF, <<>>, query) /\ EndsChain(iter, m, query)
  BY <1>0, <1>6, FoldStays
<1>8. ASSUME NEW k \in 0 .. Len(query) - 1
      PROVE  m[k + 1] = m[k] \o MeantBy(query[k + 1])
  <2>1. k \in 0 .. Len(query) /\ k + 1 \in 1 .. Len(query)
    OBVIOUS
  <2>2. m[k] \in Parameters /\ query[k + 1] \in Piece
    BY <1>7, <2>1
  <2>3. m[k + 1] = MeaningF[<<m[k], query[k + 1]>>]
    BY <1>7 DEF Chain
  <2> QED
    BY <2>2, <2>3, MeaningFIs DEF AndMeant
<1>9. m[0] = <<>>
  BY <1>7 DEF Chain
<1>10. m[Len(query)] = iter[DOMAIN query]
  BY <1>7 DEF EndsChain
<1>11. m[Len(query)] = FoldLeft(LAMBDA all, piece : all \o MeantBy(piece), <<>>, query)
  BY <1>4, <1>10, Zenon
<1> QED
  BY <1>8, <1>9, <1>11, Zenon DEF Meanings

-----------------------------------------------------------------------------
(* What is left of a query.                                                *)

\* The texts of the pieces, each after an ampersand.
Joined(s, w) ==
  /\ s \in Seq(Seq(Int)) /\ Len(s) = Len(w)
  /\ \A i \in 1 .. Len(w) : s[i] = <<Ampersand>> \o w[i]

\* After k pieces of n comes nothing, or another ampersand.
GoesOnSo(x, k, n) == x \in Seq(Int) /\ IF k < n THEN x # <<>> /\ x[1] = Ampersand ELSE x = <<>>

HasMore(w, r, k) == \E x : GoesOnSo(x, k, Len(w)) /\ r[Len(w)] = r[k] \o x

LEMMA QueryGoesOn ==
  ASSUME NEW w \in Seq(Seq(Int)), NEW s, Joined(s, w), NEW r, Concatenates(r, s),
         NEW k \in 0 .. Len(w)
  PROVE  HasMore(w, r, k)
<1>1. PICK n \in Nat : n = Len(w)
  OBVIOUS
<1>2. /\ s \in Seq(Seq(Int)) /\ Len(s) = n
      /\ \A i \in 1 .. n : s[i] = <<Ampersand>> \o w[i]
  BY <1>1 DEF Joined
<1>3. /\ r \in [0 .. n -> Seq(Int)]
      /\ \A i \in 0 .. n - 1 : r[i + 1] = r[i] \o s[i + 1]
  BY <1>2 DEF Concatenates
<1> DEFINE T == {m \in Nat : k + m <= n => \E x : GoesOnSo(x, 0, m) /\ r[k + m] = r[k] \o x}
<1>4. 0 \in T
  <2>1. PICK o \in Seq(Int) : o = <<>>
    <3>1. <<>> \in Seq(Int)
      OBVIOUS
    <3> QED
      BY <3>1
  <2>2. r[k] \in Seq(Int)
    BY <1>1, <1>3
  <2>3. r[k] = r[k] \o o /\ k + 0 = k /\ ~ (0 < 0)
    BY <2>1, <2>2
  <2>4. GoesOnSo(o, 0, 0)
    BY <2>1, <2>3 DEF GoesOnSo
  <2>5. 0 \in Nat
    OBVIOUS
  <2> QED
    BY <2>3, <2>4, <2>5
<1>5. ASSUME NEW m \in T
      PROVE  m + 1 \in T
  <2>1. ASSUME k + (m + 1) <= n
        PROVE  \E x : GoesOnSo(x, 0, m + 1) /\ r[k + (m + 1)] = r[k] \o x
    <3>1. PICK j \in 0 .. n - 1 : j = k + m
      BY <2>1
    <3>2. PICK x : GoesOnSo(x, 0, m) /\ r[j] = r[k] \o x
      <4>1. k + m <= n
        BY <2>1
      <4>2. \E x : GoesOnSo(x, 0, m) /\ r[k + m] = r[k] \o x
        BY <4>1
      <4> QED
        BY <3>1, <4>2
    <3>3. x \in Seq(Int)
      BY <3>2 DEF GoesOnSo
    <3>4. PICK v \in Seq(Int) : v = w[j + 1]
      <4>1. w[j + 1] \in Seq(Int)
        BY <1>1, <3>1
      <4> QED
        BY <4>1
    <3>5. PICK y \in Seq(Int) : y = s[j + 1] /\ y = <<Ampersand>> \o v
      <4>1. s[j + 1] \in Seq(Int) /\ s[j + 1] = <<Ampersand>> \o w[j + 1]
        BY <1>2, <3>1
      <4> QED
        BY <3>4, <4>1
    <3>6. Len(y) = 1 + Len(v) /\ y[1] = Ampersand
      <4>1. Ampersand \in Int
        BY DEF Ampersand
      <4> QED
        BY <3>4, <3>5, <4>1, OneBefore DEF OneBeforeSo
    <3>7. PICK z \in Seq(Int) : z = x \o y
      BY <3>3, ConcatProperties
    <3>8. r[j + 1] = r[k] \o z
      <4>1. r[j + 1] = (r[k] \o x) \o y
        BY <1>3, <3>1, <3>2, <3>5
      <4>2. r[k] \in Seq(Int)
        BY <1>1, <1>3
      <4>3. Together(r[k], x, y)
        BY <3>3, <4>2, PartsTogether
      <4> QED
        BY <3>7, <4>1, <4>3 DEF Together
    <3>9. z # <<>> /\ z[1] = Ampersand
      <4>1. JoinSo(z, x, y)
        BY <3>3, <3>7, JoinIs
      <4>2. Len(z) = Len(x) + Len(y) /\ Len(x) \in Nat /\ Len(v) \in Nat
        BY <3>3, <4>1 DEF JoinSo
      <4>3. Len(z) # 0
        BY <3>6, <4>2
      <4>4. CASE x = <<>>
        <5>1. z = y
          BY <3>7, <4>4
        <5> QED
          BY <3>6, <4>3, <5>1
      <4>5. CASE x # <<>>
        <5>1. x[1] = Ampersand
          BY <3>2, <4>5 DEF GoesOnSo
        <5>2. 1 \in 1 .. Len(x)
          BY <3>3, <4>5, NotEmpty DEF AtLeastOne
        <5>3. z[1] = x[1]
          BY <4>1, <5>2 DEF JoinSo
        <5> QED
          BY <4>3, <5>1, <5>3
      <4> QED
        BY <4>4, <4>5
    <3>10. GoesOnSo(z, 0, m + 1)
      <4>1. 0 < m + 1
        OBVIOUS
      <4> QED
        BY <3>9, <4>1 DEF GoesOnSo
    <3>11. k + (m + 1) = j + 1
      BY <3>1
    <3> QED
      BY <3>8, <3>10, <3>11
  <2>2. m + 1 \in Nat
    OBVIOUS
  <2> QED
    BY <2>1, <2>2
<1>6. T = Nat
  <2>1. T \in SUBSET Nat /\ 0 \in T /\ \A m \in T : m + 1 \in T
    BY <1>4, <1>5
  <2> HIDE DEF T
  <2> QED
    BY <2>1, Induction
<1>7. PICK m \in Nat : m = n - k
  <2>1. n - k \in Nat
    BY <1>1
  <2> QED
    BY <2>1
<1>8. m \in T
  <2> HIDE DEF T
  <2> QED
    BY <1>6
<1>9. k + m = n /\ (0 < m <=> k < n) /\ k + m <= n
  BY <1>1, <1>7
<1>10. PICK x : GoesOnSo(x, 0, m) /\ r[k + m] = r[k] \o x
  BY <1>8, <1>9
<1>11. GoesOnSo(x, k, n)
  BY <1>9, <1>10 DEF GoesOnSo
<1> QED
  BY <1>1, <1>9, <1>10, <1>11 DEF HasMore

\* A text that begins with an ampersand.
LEMMA AmpersandFirst ==
  ASSUME NEW x \in Seq(Int), x # <<>>, x[1] = Ampersand
  PROVE  \E z \in Seq(Int) : x = <<Ampersand>> \o z
<1>1. PICK n \in Nat : n = Len(x)
  OBVIOUS
<1>2. n >= 1 /\ 1 \in 0 .. Len(x) /\ 1 \in 1 .. 1
  BY <1>1, NotEmpty DEF AtLeastOne
<1>3. SplitSo(x, 1)
  BY <1>2, SplitAt
<1>4. PICK e, z : e = SubSeq(x, 1, 1) /\ z = From(x, 1 + 1)
  OBVIOUS
<1>5. e \in Seq(Int) /\ Len(e) = 1 /\ e[1] = x[1] /\ z \in Seq(Int) /\ x = e \o z
  BY <1>2, <1>3, <1>4 DEF SplitSo
<1>6. e = <<Ampersand>>
  BY <1>5
<1> QED
  BY <1>5, <1>6

LEMMA SameRest ==
  ASSUME NEW a \in Seq(Int), NEW x \in Seq(Int), NEW y \in Seq(Int), a \o x = a \o y
  PROVE  x = y
<1>1. From(a \o x, Len(a) + 1) = x
  BY AfterPart DEF AfterIt
<1>2. From(a \o y, Len(a) + 1) = y
  BY AfterPart DEF AfterIt
<1> QED
  BY <1>1, <1>2

\* A spelling of a query, piece by piece: w has the texts of the pieces, s these after
\* their ampersands, r what the first of these are together, and m what they mean.
Spelling(w, s, r, m, query) ==
  /\ query \in Seq(Piece) /\ query # <<>>
  /\ w \in Seq(Seq(Int)) /\ Len(w) = Len(query)
  /\ \A i \in 1 .. Len(query) : PieceSo(PlusesToSpaces(w[i]), query[i])
  /\ Joined(s, w) /\ Concatenates(r, s) /\ Meanings(m, query)

\* What is left when k pieces have been read.
LeftAfter(t, k, w, r) ==
  \E x \in Seq(Int) : r[Len(w)] = r[k] \o (<<Ampersand>> \o x) /\ t = PlusesToSpaces(x)

\* Every text of a query begins as one that has been spelled.
QueryStarts(t, query) ==
  \E w, s, r, m : Spelling(w, s, r, m, query) /\ LeftAfter(PlusesToSpaces(t), 0, w, r)

LEMMA QueryTextIs ==
  ASSUME NEW query \in Queries, NEW t \in QueryTexts(query)
  PROVE  QueryStarts(t, query)
<1>1. /\ query \in Seq(Piece) /\ query # <<>>
      /\ \A i \in 1 .. Len(query) : query[i].type = "scrap" => IsScrap(query[i].text)
  BY QueriesAssumption
<1>2. PICK n \in Nat : n = Len(query) /\ n >= 1
  <2>1. AtLeastOne(query)
    BY <1>1, NotEmpty
  <2> QED
    BY <2>1 DEF AtLeastOne
<1> DEFINE sets == [i \in 1 .. Len(query) |-> PieceTexts(query[i])]
<1>3. PICK w \in Chosen(sets) : t = Tail(FlattenSeq([i \in DOMAIN w |-> <<Ampersand>> \o w[i]]))
  BY DEF QueryTexts
<1>4. /\ w \in [DOMAIN sets -> UNION {sets[i] : i \in DOMAIN sets}]
      /\ \A i \in DOMAIN sets : w[i] \in sets[i]
  BY <1>3, Zenon DEF Chosen
<1>5. DOMAIN sets = 1 .. n /\ \A i \in 1 .. n : sets[i] = PieceTexts(query[i])
  BY <1>2
<1> HIDE DEF sets
<1>6. /\ DOMAIN w = 1 .. n /\ w = [i \in 1 .. n |-> w[i]]
      /\ \A i \in 1 .. n : w[i] \in PieceTexts(query[i])
  BY <1>4, <1>5
<1>7. \A i \in 1 .. n : w[i] \in Seq(Int) /\ PieceSo(PlusesToSpaces(w[i]), query[i])
  <2> SUFFICES ASSUME NEW i \in 1 .. n
               PROVE  w[i] \in Seq(Int) /\ PieceSo(PlusesToSpaces(w[i]), query[i])
    OBVIOUS
  <2>1. query[i] \in Piece /\ (query[i].type = "scrap" => IsScrap(query[i].text))
    BY <1>1, <1>2
  <2>2. w[i] \in PieceTexts(query[i])
    BY <1>6
  <2> QED
    BY <2>1, <2>2, PieceIsRead
<1>8. w \in Seq(Seq(Int)) /\ Len(w) = n
  <2>1. w \in [1 .. n -> Seq(Int)]
    BY <1>6, <1>7
  <2> QED
    BY <2>1
<1>9. PICK s : s = [i \in 1 .. n |-> <<Ampersand>> \o w[i]]
  OBVIOUS
<1>10. Joined(s, w)
  <2>1. ASSUME NEW i \in 1 .. n
        PROVE  <<Ampersand>> \o w[i] \in Seq(Int)
    <3>1. <<Ampersand>> \in Seq(Int)
      BY DEF Ampersand
    <3> QED
      BY <1>7, <3>1, ConcatProperties
  <2>2. s \in [1 .. n -> Seq(Int)] /\ \A i \in 1 .. n : s[i] = <<Ampersand>> \o w[i]
    BY <1>9, <2>1
  <2>3. s \in Seq(Seq(Int)) /\ Len(s) = n
    BY <2>2
  <2> QED
    BY <1>8, <2>2, <2>3 DEF Joined
<1>11. PICK r : Concatenates(r, s)
  BY <1>10, ConcatenationExists DEF Joined
<1>12. PICK m : Meanings(m, query)
  BY <1>1, MeaningsExist
<1>13. Spelling(w, s, r, m, query)
  BY <1>1, <1>2, <1>7, <1>8, <1>10, <1>11, <1>12 DEF Spelling
<1>14. FlattenSeq(s) = r[n]
  <2>1. s \in Seq(Seq(Int)) /\ Len(s) = n
    BY <1>8, <1>10 DEF Joined
  <2> QED
    BY <1>11, <2>1, FlattenIs
<1>15. t = Tail(r[n])
  BY <1>3, <1>6, <1>9, <1>14
<1>16. PICK x : GoesOnSo(x, 0, n) /\ r[n] = r[0] \o x
  <2>1. 0 \in 0 .. Len(w)
    BY <1>8
  <2> QED
    BY <1>8, <1>10, <1>11, <2>1, QueryGoesOn DEF HasMore
<1>17. x \in Seq(Int) /\ x # <<>> /\ x[1] = Ampersand
  BY <1>2, <1>16 DEF GoesOnSo
<1>18. PICK z \in Seq(Int) : x = <<Ampersand>> \o z
  BY <1>17, AmpersandFirst
<1>19. r[n] = x /\ r[0] = <<>>
  <2>1. r[0] = <<>>
    BY <1>11 DEF Concatenates
  <2>2. <<>> \o x = x
    BY <1>17
  <2> QED
    BY <1>16, <2>1, <2>2
<1>20. t = z
  <2>1. Tail(x) = From(x, 2)
    BY <1>17, FromFirst DEF FirstSo
  <2>2. PICK e \in Seq(Int) : e = <<Ampersand>>
    <3>1. <<Ampersand>> \in Seq(Int)
      BY DEF Ampersand
    <3> QED
      BY <3>1
  <2>3. Len(e) + 1 = 2
    BY <2>2
  <2>4. From(x, Len(e) + 1) = z
    BY <1>18, <2>2, AfterPart DEF AfterIt
  <2> QED
    BY <1>15, <1>19, <2>1, <2>3, <2>4
<1>21. LeftAfter(PlusesToSpaces(t), 0, w, r)
  <2>1. r[Len(w)] = r[0] \o (<<Ampersand>> \o z)
    BY <1>8, <1>16, <1>18
  <2> QED
    BY <1>20, <2>1 DEF LeftAfter
<1> QED
  BY <1>13, <1>21 DEF QueryStarts

\* One turn of the loop reads the next piece, and stops after the last.
TurnSo(t, k, w, r, m) ==
  /\ m[k + 1] = m[k] \o ParametersOf(UpTo(t, Ampersand))
  /\ IF Contains(t, Ampersand)
       THEN k + 1 < Len(w) /\ LeftAfter(After(t, Ampersand), k + 1, w, r)
       ELSE k + 1 = Len(w)

LEMMA QueryTurn ==
  ASSUME NEW w, NEW s, NEW r, NEW m, NEW query, Spelling(w, s, r, m, query),
         NEW k \in 0 .. Len(query) - 1, NEW t, LeftAfter(t, k, w, r)
  PROVE  TurnSo(t, k, w, r, m)
<1>1. /\ query \in Seq(Piece) /\ w \in Seq(Seq(Int)) /\ Len(w) = Len(query)
      /\ \A i \in 1 .. Len(query) : PieceSo(PlusesToSpaces(w[i]), query[i])
      /\ Joined(s, w) /\ Concatenates(r, s) /\ Meanings(m, query)
  BY DEF Spelling
<1>2. PICK n \in Nat : n = Len(query) /\ n = Len(w)
  BY <1>1
<1>3. PICK j \in 1 .. n : j = k + 1
  <2>1. k + 1 \in 1 .. n
    BY <1>2
  <2> QED
    BY <2>1
<1>4. PICK x \in Seq(Int) : r[n] = r[k] \o (<<Ampersand>> \o x) /\ t = PlusesToSpaces(x)
  BY <1>2 DEF LeftAfter
<1>5. /\ s \in Seq(Seq(Int)) /\ Len(s) = n
      /\ \A i \in 1 .. n : s[i] = <<Ampersand>> \o w[i]
  BY <1>1, <1>2 DEF Joined
<1>6. r[k] \in Seq(Int) /\ r[j] = r[k] \o s[j]
  <2>1. k \in 0 .. Len(s) /\ k \in 0 .. Len(s) - 1
    BY <1>2, <1>5
  <2>2. r \in [0 .. Len(s) -> Seq(Int)] /\ r[k + 1] = r[k] \o s[k + 1]
    BY <1>1, <2>1 DEF Concatenates
  <2> QED
    BY <1>3, <2>1, <2>2
<1>7. PICK v \in Seq(Int) : v = w[j]
  <2>1. w[j] \in Seq(Int)
    BY <1>1, <1>2
  <2> QED
    BY <2>1
<1>8. PICK u \in Seq(Int) : u = PlusesToSpaces(v)
  <2>1. PlusesToSpaces(v) \in Seq(Int)
    BY PlusesAre DEF PlusesSo
  <2> QED
    BY <2>1
<1>9. ~ Contains(u, Ampersand) /\ ParametersOf(u) = MeantBy(query[j])
  <2>1. PieceSo(PlusesToSpaces(w[j]), query[j])
    BY <1>1, <1>2
  <2> QED
    BY <1>7, <1>8, <2>1 DEF PieceSo
<1>10. PICK y : GoesOnSo(y, j, n) /\ r[n] = r[j] \o y
  <2>1. j \in 0 .. Len(w)
    BY <1>2
  <2>2. w \in Seq(Seq(Int)) /\ Joined(s, w) /\ Concatenates(r, s)
    BY <1>1
  <2>3. HasMore(w, r, j)
    BY <2>1, <2>2, QueryGoesOn
  <2> QED
    BY <1>2, <2>3 DEF HasMore
<1>11. y \in Seq(Int)
  BY <1>10 DEF GoesOnSo
<1>12. PICK e \in Seq(Int) : e = <<Ampersand>>
  <2>1. <<Ampersand>> \in Seq(Int)
    BY DEF Ampersand
  <2> QED
    BY <2>1
<1>13. x = v \o y
  <2>1. v \o y \in Seq(Int) /\ e \o v \in Seq(Int)
    BY <1>11, ConcatProperties
  <2>2. PICK a, b, c : a = e \o v /\ b = e \o (v \o y) /\ c = v \o y
    OBVIOUS
  <2>3. a \in Seq(Int) /\ c \in Seq(Int) /\ b \in Seq(Int)
    BY <2>2, <2>1, ConcatProperties
  <2>4. e \o x \in Seq(Int)
    BY ConcatProperties
  <2>5. r[n] = (r[k] \o a) \o y
    BY <1>5, <1>6, <1>7, <1>10, <1>12, <2>2
  <2>6. Together(r[k], a, y) /\ Together(e, v, y)
    BY <1>6, <1>11, <2>3, PartsTogether
  <2>7. r[n] = r[k] \o b
    BY <2>2, <2>5, <2>6 DEF Together
  <2>8. r[n] = r[k] \o (e \o x)
    BY <1>4, <1>12
  <2>9. e \o x = b
    BY <1>6, <2>4, <2>7, <2>8, <2>3, SameRest
  <2>10. x = c
    BY <2>2, <2>9, <2>3, SameRest
  <2> QED
    BY <2>2, <2>10
<1>14. t = u \o PlusesToSpaces(y)
  BY <1>4, <1>8, <1>11, <1>13, PlusesJoin
<1>15. m[j] = m[k] \o ParametersOf(u)
  <2>1. k \in 0 .. Len(query) - 1
    OBVIOUS
  <2>2. m[k + 1] = m[k] \o MeantBy(query[k + 1])
    BY <1>1, <2>1 DEF Meanings
  <2> QED
    BY <1>3, <1>9, <2>2
<1>16. CASE j = n
  <2>1. y = <<>>
    BY <1>10, <1>16 DEF GoesOnSo
  <2>2. \A i \in 1 .. Len(y) : y[i] # PlusSign
    BY <2>1
  <2>3. PlusesToSpaces(y) = y
    BY <1>11, <2>2, NoPluses
  <2>4. t = u
    BY <1>14, <2>1, <2>3
  <2>5. ~ Contains(t, Ampersand) /\ UpTo(t, Ampersand) = u
    BY <1>9, <2>4 DEF UpTo
  <2> QED
    BY <1>2, <1>3, <1>15, <1>16, <2>5 DEF TurnSo
<1>17. CASE j # n
  <2>1. j < n
    BY <1>17
  <2>2. y # <<>> /\ y[1] = Ampersand
    BY <1>10, <2>1 DEF GoesOnSo
  <2>3. PICK z \in Seq(Int) : y = <<Ampersand>> \o z
    BY <1>11, <2>2, AmpersandFirst
  <2>4. PICK p \in Seq(Int) : p = PlusesToSpaces(z)
    <3>1. PlusesToSpaces(z) \in Seq(Int)
      BY PlusesAre DEF PlusesSo
    <3> QED
      BY <3>1
  <2>5. Ampersand \in Int /\ Ampersand # PlusSign
    BY DEF Ampersand, PlusSign
  <2>6. PlusesToSpaces(e) = e
    BY <1>12, <2>5, PlusesOne
  <2>7. PlusesToSpaces(y) = e \o p
    BY <1>12, <2>3, <2>4, <2>6, PlusesJoin
  <2>8. SplitBy(t, Ampersand, u, p)
    <3>1. \A i \in 1 .. Len(u) : u[i] # Ampersand
      BY <1>9 DEF Contains
    <3> QED
      BY <1>12, <1>14, <2>7, <3>1 DEF SplitBy
  <2>9. Contains(t, Ampersand) /\ UpTo(t, Ampersand) = u /\ After(t, Ampersand) = p
    BY <2>5, <2>8, SplitIsFound DEF SplitFound
  <2>10. LeftAfter(p, j, w, r)
    <3>1. r[Len(w)] = r[j] \o (<<Ampersand>> \o z)
      BY <1>2, <1>10, <2>3
    <3> QED
      BY <2>4, <3>1 DEF LeftAfter
  <2> QED
    BY <1>2, <1>3, <1>15, <2>1, <2>9, <2>10 DEF TurnSo
<1> QED
  BY <1>16, <1>17

\* The parameters are those of the pieces that have been read; what is left is spelled by
\* the others, and when nothing is left there are no others.
QueryInv ==
  kind = "query" =>
    \E w, s, r, m :
      /\ Spelling(w, s, r, m, subject)
      /\ \/ finished /\ outcome = m[Len(subject)]
         \/ ~ finished /\ \E k \in 0 .. Len(subject) - 1 :
                            outcome = m[k] /\ LeftAfter(text, k, w, r)

LEMMA QueryInit == TextsInit => QueryInv
<1> SUFFICES ASSUME TextsInit, kind = "query"
             PROVE  QueryInv
  BY DEF QueryInv
<1>1. /\ subject \in Queries /\ outcome = <<>> /\ ~ finished
      /\ \E t \in QueryTexts(subject) : text = PlusesToSpaces(t)
  BY DEF TextsInit
<1>2. PICK t \in QueryTexts(subject) : text = PlusesToSpaces(t)
  BY <1>1
<1>3. PICK w, s, r, m : Spelling(w, s, r, m, subject) /\ LeftAfter(text, 0, w, r)
  BY <1>1, <1>2, QueryTextIs DEF QueryStarts
<1>4. m[0] = <<>>
  BY <1>3 DEF Spelling, Meanings
<1>5. 0 \in 0 .. Len(subject) - 1
  <2>1. AtLeastOne(subject)
    BY <1>3, NotEmpty DEF Spelling
  <2> QED
    BY <2>1 DEF AtLeastOne
<1> QED
  BY <1>1, <1>3, <1>4, <1>5 DEF QueryInv

LEMMA QueryNext == QueryInv /\ [TextsNext]_<<vars, textVars>> => QueryInv'
<1> SUFFICES ASSUME QueryInv, [TextsNext]_<<vars, textVars>>
             PROVE  QueryInv'
  OBVIOUS
<1>1. CASE UNCHANGED textVars
  BY <1>1 DEF QueryInv, textVars
<1>2. CASE WriteInteger
  BY <1>2 DEF WriteInteger, QueryInv
<1>3. CASE ReadNumberText
  BY <1>3 DEF ReadNumberText, QueryInv
<1>4. CASE ParsePair
  <2>1. /\ kind = "query" /\ ~ finished /\ subject' = subject
        /\ outcome' = outcome \o ParametersOf(UpTo(text, Ampersand))
        /\ text' = After(text, Ampersand)
        /\ finished' = ~ Contains(text, Ampersand)
    BY <1>4 DEF ParsePair
  <2>2. PICK w, s, r, m, k :
          /\ Spelling(w, s, r, m, subject)
          /\ k \in 0 .. Len(subject) - 1 /\ outcome = m[k] /\ LeftAfter(text, k, w, r)
    BY <2>1 DEF QueryInv
  <2>3. TurnSo(text, k, w, r, m)
    BY <2>2, QueryTurn
  <2>4. Len(w) = Len(subject) /\ Len(subject) \in Nat
    BY <2>2 DEF Spelling
  <2>5. outcome' = m[k + 1]
    BY <2>1, <2>2, <2>3 DEF TurnSo
  <2>6. CASE Contains(text, Ampersand)
    <3>1. ~ finished' /\ k + 1 < Len(subject) /\ LeftAfter(text', k + 1, w, r)
      BY <2>1, <2>3, <2>4, <2>6 DEF TurnSo
    <3>2. k + 1 \in 0 .. Len(subject) - 1
      BY <2>2, <2>4, <3>1
    <3> QED
      BY <2>1, <2>2, <2>5, <3>1, <3>2 DEF QueryInv
  <2>7. CASE ~ Contains(text, Ampersand)
    <3>1. finished' /\ k + 1 = Len(subject)
      BY <2>1, <2>3, <2>4, <2>7 DEF TurnSo
    <3> QED
      BY <2>1, <2>2, <2>5, <3>1 DEF QueryInv
  <2> QED
    BY <2>6, <2>7
<1>5. CASE AdvanceReader
  BY <1>5 DEF AdvanceReader, QueryInv
<1> QED
  BY <1>1, <1>2, <1>3, <1>4, <1>5 DEF TextsNext, textVars

LEMMA QuerySaid == QueryInv => QueryReadsBack
<1> SUFFICES ASSUME QueryInv, kind = "query", finished
             PROVE  outcome = FoldLeft(LAMBDA all, piece : all \o MeantBy(piece), <<>>, subject)
  BY Zenon DEF QueryReadsBack
<1>1. PICK w, s, r, m : Spelling(w, s, r, m, subject) /\ outcome = m[Len(subject)]
  BY DEF QueryInv
<1>2. Meanings(m, subject)
  BY <1>1 DEF Spelling
<1> QED
  BY <1>1, <1>2, Zenon DEF Meanings

\* Whatever the query of a URL is made of, however many parameters and scraps, and
\* whoever spelled their bytes, the library reads the parameters that are meant, in
\* their order, and leaves the scraps out alone.
THEOREM QueriesReadBack == TextsSpec => []QueryReadsBack
<1>1. TextsInit => QueryInv
  BY QueryInit
<1>2. QueryInv /\ [TextsNext]_<<vars, textVars>> => QueryInv'
  BY QueryNext
<1>3. QueryInv => QueryReadsBack
  BY QuerySaid
<1> QED
  BY <1>1, <1>2, <1>3, PTL DEF TextsSpec
=============================================================================
