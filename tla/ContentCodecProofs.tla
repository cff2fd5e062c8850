-------------------------- MODULE ContentCodecProofs --------------------------
(***************************************************************************)
(* What a client gets back of what it writes, for files and texts of any   *)
(* length: what it meant is stored, what it reads is the file, and what it *)
(* writes back changes nothing, but for the texts and bytes that the two   *)
(* handlers cannot tell apart.                                             *)
(***************************************************************************)
EXTENDS ContentCodec, SequenceTheorems, WellFoundedInduction, TLAPS

Byte == 0..255

-----------------------------------------------------------------------------
(***************************************************************************)
(* Induction along a sequence, with a set in the place of a predicate.     *)
(***************************************************************************)
LEMMA LessIsWellFounded ==
  \E R : IsWellFoundedOn(R, Nat) /\ \A x, y \in Nat : x < y => <<x, y>> \in R
<1>1. \A x, y \in Nat : x < y => <<x, y>> \in OpToRel(<, Nat)
  BY DEF OpToRel
<1> QED
  BY <1>1, NatLessThanWellFounded

LEMMA LeastNumber ==
  ASSUME NEW T \in SUBSET Nat, T # {}
  PROVE  \E n \in T : \A m \in T : n <= m
<1>1. PICK R : IsWellFoundedOn(R, Nat) /\ \A x, y \in Nat : x < y => <<x, y>> \in R
  BY LessIsWellFounded
<1>2. IsWellFoundedOn(R, Nat) /\ T \subseteq Nat /\ T # {}
  BY <1>1
<1>3. PICK n \in T : \A m \in T : ~(<<m, n>> \in R)
  BY <1>2, WFMin, Zenon
<1>4. \A x, y \in Nat : x < y => <<x, y>> \in R
  BY <1>1
<1>5. \A m \in T : ~(m < n)
  BY <1>3, <1>4
<1> QED
  BY <1>5

LEMMA Induction ==
  ASSUME NEW n \in Nat, NEW T, 0 \in T, \A i \in 0..n - 1 : i \in T => i + 1 \in T
  PROVE  n \in T
<1> SUFFICES ASSUME n \notin T PROVE FALSE
  OBVIOUS
<1> DEFINE U == (0..n) \ T
<1>1. U \in SUBSET Nat /\ U # {}
  OBVIOUS
<1>2. PICK k \in U : \A m \in U : k <= m
  <2> HIDE DEF U
  <2> QED
    BY <1>1, LeastNumber
<1>3. k - 1 \in 0..n - 1 /\ k - 1 \notin U
  BY <1>2
<1> QED
  BY <1>2, <1>3

-----------------------------------------------------------------------------
(***************************************************************************)
(* FlattenSeq, by the prefixes of its argument.                            *)
(***************************************************************************)

\* flat[i] is what the first i sequences of seqs make.
Flattens(flat, seqs) ==
  /\ flat[0] = <<>>
  /\ \A i \in 1..Len(seqs) : flat[i] = flat[i - 1] \o seqs[i]

LEMMA FlattenExists ==
  ASSUME NEW n \in Nat, NEW seqs
  PROVE  \E f : f = [i \in 1..n |-> IF i = 1 THEN seqs[i] ELSE f[i - 1] \o seqs[i]]
<1> DEFINE Ok(m) == \E f : f = [i \in 1..m |-> IF i = 1 THEN seqs[i] ELSE f[i - 1] \o seqs[i]]
           T == {m \in 0..n : Ok(m)}
<1>1. 0 \in T
  <2> DEFINE f == [i \in 1..0 |-> seqs[i]]
  <2>1. f = [i \in 1..0 |-> IF i = 1 THEN seqs[i] ELSE f[i - 1] \o seqs[i]]
    OBVIOUS
  <2>2. Ok(0)
    BY <2>1
  <2> HIDE DEF Ok
  <2> QED
    BY <2>2
<1>2. ASSUME NEW m \in 0..n - 1, m \in T PROVE m + 1 \in T
  <2>1. PICK f : f = [i \in 1..m |-> IF i = 1 THEN seqs[i] ELSE f[i - 1] \o seqs[i]]
    BY <1>2
  <2> DEFINE g == [i \in 1..m + 1 |->
                     IF i = 1 THEN seqs[i]
                     ELSE IF i <= m THEN f[i] ELSE f[m] \o seqs[i]]
  <2>2. \A i \in 1..m + 1 :
          g[i] = IF i = 1 THEN seqs[i] ELSE IF i <= m THEN f[i] ELSE f[m] \o seqs[i]
    OBVIOUS
  <2>3. g = [i \in 1..m + 1 |-> IF i = 1 THEN seqs[i] ELSE g[i - 1] \o seqs[i]]
    <3>1. ASSUME NEW i \in 1..m + 1 PROVE g[i] = IF i = 1 THEN seqs[i] ELSE g[i - 1] \o seqs[i]
      <4> HIDE DEF g
      <4>1. CASE i = 1
        BY <4>1, <2>2
      <4>2. CASE i # 1 /\ i <= m
        <5>1. i \in 1..m /\ i - 1 \in 1..m
          BY <4>2
        <5>2. f[i] = f[i - 1] \o seqs[i]
          BY <5>1, <4>2, <2>1
        <5>3. g[i] = f[i] /\ (i - 1 # 1 => g[i - 1] = f[i - 1]) /\ (i - 1 = 1 => g[i - 1] = seqs[1])
          BY <5>1, <4>2, <2>2
        <5>4. i - 1 = 1 => f[i - 1] = seqs[1]
          BY <5>1, <2>1
        <5> QED
          BY <5>2, <5>3, <5>4, <4>2
      <4>3. CASE i # 1 /\ i = m + 1
        <5>1. m \in 1..m /\ m \in 1..m + 1 /\ i - 1 = m /\ ~(i <= m)
          BY <4>3
        <5>2. g[m] = f[m]
          BY <5>1, <2>1, <2>2
        <5>3. g[i] = f[m] \o seqs[i]
          BY <5>1, <4>3, <2>2
        <5> QED
          BY <5>1, <5>2, <5>3, <4>3
      <4> QED
        BY <4>1, <4>2, <4>3
    <3> QED
      BY <3>1
  <2>4. Ok(m + 1)
    BY <2>3
  <2> HIDE DEF Ok
  <2> QED
    BY <2>4
<1>3. n \in T
  <2> HIDE DEF T
  <2> QED
    BY <1>1, <1>2, Induction
<1> QED
  BY <1>3

LEMMA FlattenSeqFlattens ==
  ASSUME NEW S, NEW seqs \in Seq(Seq(S))
  PROVE  \E flat : Flattens(flat, seqs) /\ FlattenSeq(seqs) = flat[Len(seqs)]
<1>1. CASE Len(seqs) = 0
  <2> DEFINE flat == [i \in {0} |-> <<>>]
  <2>1. Flattens(flat, seqs) /\ flat[Len(seqs)] = <<>>
    BY <1>1 DEF Flattens
  <2>2. FlattenSeq(seqs) = <<>>
    BY <1>1, EmptySeq DEF FlattenSeq
  <2> QED
    BY <2>1, <2>2
<1>2. CASE Len(seqs) # 0
  <2> DEFINE n == Len(seqs)
             Is(f) == f = [i \in 1..n |-> IF i = 1 THEN seqs[i] ELSE f[i - 1] \o seqs[i]]
             f == CHOOSE f : Is(f)
             flat == [i \in 0..n |-> IF i = 0 THEN <<>> ELSE f[i]]
  <2>1. n \in Nat \ {0}
    BY <1>2
  <2>2. Is(f)
    BY <2>1, FlattenExists
  <2>3. FlattenSeq(seqs) = f[n]
    BY <1>2 DEF FlattenSeq
  <2> HIDE DEF f
  <2>4. ASSUME NEW i \in 1..n PROVE flat[i] = flat[i - 1] \o seqs[i]
    <3>1. seqs[i] \in Seq(S)
      BY ElementOfSeq
    <3>2. CASE i = 1
      <4>1. flat[i] = seqs[i] /\ flat[i - 1] = <<>>
        BY <3>2, <2>1, <2>2
      <4> QED
        BY <4>1, <3>1, ConcatEmptySeq
    <3>3. CASE i # 1
      <4>1. flat[i] = f[i] /\ flat[i - 1] = f[i - 1]
        BY <3>3, <2>1
      <4> QED
        BY <4>1, <3>3, <2>2
    <3> QED
      BY <3>2, <3>3
  <2>5. flat[0] = <<>> /\ flat[n] = f[n]
    BY <2>1
  <2>6. Flattens(flat, seqs)
    BY <2>4, <2>5 DEF Flattens
  <2> QED
    BY <2>3, <2>5, <2>6
<1> QED
  BY <1>1, <1>2

LEMMA FlattensType ==
  ASSUME NEW S, NEW seqs \in Seq(Seq(S)), NEW flat, Flattens(flat, seqs)
  PROVE  \A i \in 0..Len(seqs) : flat[i] \in Seq(S)
<1> DEFINE T == {i \in 0..Len(seqs) : flat[i] \in Seq(S)}
<1>1. Len(seqs) \in Nat
  OBVIOUS
<1>2. 0 \in T
  <2>1. flat[0] = <<>> /\ <<>> \in Seq(S)
    BY EmptySeq DEF Flattens
  <2>2. flat[0] \in Seq(S)
    BY <2>1, Zenon
  <2> QED
    BY <1>1, <2>2
<1>3. ASSUME NEW n \in 0..Len(seqs), NEW i \in 0..n - 1, i \in T PROVE i + 1 \in T
  <2>1. i + 1 \in 1..Len(seqs) /\ (i + 1) - 1 = i
    BY <1>1
  <2>2. flat[i + 1] = flat[i] \o seqs[i + 1] /\ seqs[i + 1] \in Seq(S) /\ flat[i] \in Seq(S)
    BY <2>1, <1>3, ElementOfSeq DEF Flattens
  <2>3. flat[i + 1] \in Seq(S)
    BY <2>2, ConcatProperties
  <2> QED
    BY <2>1, <2>3
<1>4. ASSUME NEW n \in 0..Len(seqs) PROVE n \in T
  <2> HIDE DEF T
  <2> QED
    BY <1>1, <1>2, <1>3, Induction
<1> QED
  BY <1>4

LEMMA FlattenSeqType ==
  ASSUME NEW S, NEW seqs \in Seq(Seq(S))
  PROVE  FlattenSeq(seqs) \in Seq(S)
<1>1. PICK flat : Flattens(flat, seqs) /\ FlattenSeq(seqs) = flat[Len(seqs)]
  BY FlattenSeqFlattens
<1>2. Len(seqs) \in 0..Len(seqs)
  OBVIOUS
<1> QED
  BY <1>1, <1>2, FlattensType

\* Elements one by one make the sequence itself.
LEMMA FlattenSingles ==
  ASSUME NEW S, NEW c \in Seq(S)
  PROVE  FlattenSeq([i \in DOMAIN c |-> <<c[i]>>]) = c
<1> DEFINE n == Len(c)
           seqs == [i \in DOMAIN c |-> <<c[i]>>]
<1>1. n \in Nat /\ DOMAIN c = 1..n /\ \A i \in 1..n : c[i] \in S
  BY LenProperties, ElementOfSeq
<1>2. seqs \in Seq(Seq(S)) /\ Len(seqs) = n /\ \A i \in 1..n : seqs[i] = <<c[i]>>
  <2>1. \A i \in 1..n : <<c[i]>> \in Seq(S)
    BY <1>1
  <2>2. seqs \in [1..n -> Seq(S)]
    BY <2>1, <1>1
  <2> QED
    BY <2>2, <1>1, SeqDef, LenProperties
<1> HIDE DEF seqs
<1>3. PICK flat : Flattens(flat, seqs) /\ FlattenSeq(seqs) = flat[n]
  BY <1>2, FlattenSeqFlattens
<1>4. \A i \in 0..n : flat[i] \in Seq(S)
  BY <1>2, <1>3, FlattensType
<1> DEFINE T == {i \in 0..n : Len(flat[i]) = i /\ \A k \in 1..i : flat[i][k] = c[k]}
<1>5. 0 \in T
  BY <1>1, <1>3, EmptySeq DEF Flattens
<1>6. ASSUME NEW i \in 0..n - 1, i \in T PROVE i + 1 \in T
  <2>1. i \in 0..n /\ i + 1 \in 1..n /\ (i + 1) - 1 = i
    BY <1>1
  <2>2. flat[i + 1] = flat[i] \o <<c[i + 1]>> /\ flat[i] \in Seq(S) /\ c[i + 1] \in S
    BY <2>1, <1>1, <1>2, <1>3, <1>4 DEF Flattens
  <2>3. flat[i + 1] = Append(flat[i], c[i + 1])
    BY <2>2
  <2>4. Len(flat[i]) = i /\ \A k \in 1..i : flat[i][k] = c[k]
    BY <1>6
  <2> HIDE DEF T
  <2>5. /\ Len(flat[i + 1]) = Len(flat[i]) + 1
        /\ flat[i + 1][Len(flat[i]) + 1] = c[i + 1]
        /\ \A k \in 1..Len(flat[i]) : flat[i + 1][k] = flat[i][k]
    BY <2>2, <2>3, AppendProperties
  <2>6. \A k \in 1..i + 1 : flat[i + 1][k] = c[k]
    BY <2>1, <2>4, <2>5
  <2> QED
    BY <2>1, <2>4, <2>5, <2>6 DEF T
<1>7. n \in T
  <2> HIDE DEF T
  <2> QED
    BY <1>1, <1>5, <1>6, Induction
<1>8. flat[n] \in Seq(S) /\ Len(flat[n]) = n /\ \A k \in 1..n : flat[n][k] = c[k]
  BY <1>1, <1>4, <1>7
<1>9. flat[n] = c
  BY <1>1, <1>8, SeqEqual
<1> QED
  BY <1>3, <1>9 DEF seqs

\* What is kept of a content is a content, and a content without newlines
\* is kept as it is.
LEMMA StrippedIs ==
  ASSUME NEW t \in Seq(Byte)
  PROVE  /\ Stripped(t) \in Seq(Byte)
         /\ (\A i \in DOMAIN t : t[i] \notin Newlines) => Stripped(t) = t
<1> DEFINE seqs == [i \in DOMAIN t |-> IF t[i] \in Newlines THEN <<>> ELSE <<t[i]>>]
<1>1. Len(t) \in Nat /\ DOMAIN t = 1..Len(t) /\ \A i \in 1..Len(t) : t[i] \in Byte
  BY LenProperties, ElementOfSeq
<1>2. seqs \in [1..Len(t) -> Seq(Byte)]
  BY <1>1
<1>3. seqs \in Seq(Seq(Byte))
  BY <1>1, <1>2, SeqDef
<1>4. Stripped(t) \in Seq(Byte)
  BY <1>3, FlattenSeqType DEF Stripped
<1>5. ASSUME \A i \in DOMAIN t : t[i] \notin Newlines PROVE Stripped(t) = t
  <2>1. seqs = [i \in DOMAIN t |-> <<t[i]>>]
    BY <1>5
  <2> QED
    BY <2>1, FlattenSingles DEF Stripped
<1> QED
  BY <1>4, <1>5

-----------------------------------------------------------------------------
(***************************************************************************)
(* What JSON makes of a content.                                           *)
(***************************************************************************)
LEMMA ReplacementBytes ==
  /\ Replacement \in Seq(Byte) /\ Len(Replacement) = 3
  /\ Replacement[1] = 239 /\ Replacement[2] = 191 /\ Replacement[3] = 189
BY DEF Replacement, Byte

LEMMA WidthIs ==
  /\ \A b \in Byte : Width(b) \in 0..4
  /\ \A b \in Byte : b < 128 => Width(b) = 1
  /\ Width(239) = 3 /\ Followers(239) = 128..191
<1>1. \A b \in Byte : Width(b) \in 0..4
  BY SMT DEF Width, Byte
<1>2. \A b \in Byte : b < 128 => Width(b) = 1
  BY SMT DEF Width, Byte
<1>3. Width(239) = 3
  BY SMT DEF Width
<1>4. Followers(239) = 128..191
  BY SMT DEF Followers
<1> QED
  BY <1>1, <1>2, <1>3, <1>4

\* Two texts with the same bytes there have the same character.
LEMMA SameCharacter ==
  ASSUME NEW s \in Seq(Byte), NEW t \in Seq(Byte),
         NEW f \in 1..Len(s), NEW g \in 1..Len(t), IsCharacterAt(s, f),
         \A k \in 0..Width(s[f]) - 1 : g + k <= Len(t) /\ t[g + k] = s[f + k],
         Width(s[f]) > 0
  PROVE  IsCharacterAt(t, g) /\ Width(t[g]) = Width(s[f])
<1>1. PICK w \in 1..4 : w = Width(s[f])
  <2>1. s[f] \in Byte
    BY ElementOfSeq
  <2> QED
    BY <2>1, WidthIs
<1>2. t[g] = s[f]
  <2>1. 0 \in 0..w - 1 /\ g + 0 = g /\ f + 0 = f
    OBVIOUS
  <2> QED
    BY <1>1, <2>1
<1>3. g + w - 1 <= Len(t)
  <2>1. w - 1 \in 0..w - 1 /\ g + (w - 1) = g + w - 1
    OBVIOUS
  <2> QED
    BY <1>1, <2>1
<1>4. \A k \in 1..w - 1 : t[g + k] \in IF k = 1 THEN Followers(t[g]) ELSE 128..191
  <2>1. \A k \in 1..w - 1 : k \in 0..w - 1
    OBVIOUS
  <2>2. \A k \in 1..w - 1 : s[f + k] \in IF k = 1 THEN Followers(s[f]) ELSE 128..191
    BY <1>1 DEF IsCharacterAt
  <2>3. \A k \in 1..w - 1 : t[g + k] = s[f + k]
    BY <1>1, <2>1
  <2> QED
    BY <1>2, <2>2, <2>3
<1> QED
  BY <1>1, <1>2, <1>3, <1>4 DEF IsCharacterAt

LEMMA Extended ==
  ASSUME NEW s \in Seq(Byte), NEW t \in Seq(Byte), Len(s) <= Len(t),
         \A i \in 1..Len(s) : t[i] = s[i],
         NEW j \in 1..Len(s), IsUnicodeAt(s, j)
  PROVE  IsUnicodeAt(t, j)
<1>1. PICK f \in 1..j : IsCharacterAt(s, f) /\ j < f + Width(s[f])
  BY DEF IsUnicodeAt
<1>2. PICK m \in Nat, n \in Nat, w \in 0..4 :
        m = Len(s) /\ n = Len(t) /\ m <= n /\ w = Width(s[f])
  <2>1. f \in 1..Len(s)
    OBVIOUS
  <2>2. s[f] \in Byte
    BY <2>1, ElementOfSeq
  <2> QED
    BY <2>2, WidthIs, LenProperties
<1>3. f + w - 1 <= m
  BY <1>1, <1>2 DEF IsCharacterAt
<1>4. f \in 1..m /\ f \in 1..n /\ w > 0
  BY <1>1, <1>2
<1>5. \A k \in 0..w - 1 : f + k <= n /\ f + k \in 1..m
  BY <1>2, <1>3, <1>4
<1>6. \A k \in 0..w - 1 : f + k <= Len(t) /\ t[f + k] = s[f + k]
  BY <1>2, <1>5
<1>7. IsCharacterAt(t, f) /\ Width(t[f]) = w
  BY <1>1, <1>2, <1>4, <1>6, SameCharacter
<1> QED
  BY <1>1, <1>2, <1>7 DEF IsUnicodeAt

\* The character that begins at g has the byte i.
Covers(c, g, i) == IsCharacterAt(c, g) /\ i < g + Width(c[g])

\* The text s ends with the bytes of c from g to i.
Copied(s, c, g, i) ==
  /\ i - g + 1 <= Len(s)
  /\ \A k \in 0..i - g : s[Len(s) - (i - g) + k] = c[g + k]

\* What a character of the content c has up to i, the text s ends with; and
\* the bytes of s that are in no character of s are the beginning of one of c
\* that ends after i.
Ends(s, c, i) == \A g \in 1..i : Covers(c, g, i) => Copied(s, c, g, i)

Begun(s, c, i, j) == \E g \in 1..i : Covers(c, g, i + 1) /\ j > Len(s) - (i - g + 1)

Closed(s, c, i) == \A j \in 1..Len(s) : IsUnicodeAt(s, j) \/ Begun(s, c, i, j)

\* A character is copied whole.
LEMMA CopiedCharacter ==
  ASSUME NEW c \in Seq(Byte), NEW i \in 1..Len(c), NEW g \in 1..i, Covers(c, g, i),
         NEW s \in Seq(Byte), Copied(s, c, g, i),
         NEW j \in 1..Len(s), j > Len(s) - (i - g + 1)
  PROVE  IsUnicodeAt(s, j) \/ Begun(s, c, i, j)
<1>1. PICK n \in Nat, w \in 0..4 : n = Len(s) /\ w = Width(c[g])
  <2>1. g \in 1..Len(c)
    OBVIOUS
  <2>2. c[g] \in Byte
    BY <2>1, ElementOfSeq
  <2> QED
    BY <2>2, WidthIs, LenProperties
<1>2. IsCharacterAt(c, g) /\ i < g + w
  BY <1>1 DEF Covers
<1>3. CASE i + 1 < g + w
  BY <1>1, <1>2, <1>3 DEF Begun, Covers
<1>4. CASE ~(i + 1 < g + w)
  <2>1. i - g = w - 1 /\ w > 0
    BY <1>1, <1>2, <1>4
  <2>2. PICK h \in 1..n : h = n - (i - g)
    <3>1. i - g + 1 <= n
      BY <1>1 DEF Copied
    <3> QED
      BY <2>1, <3>1
  <2>3. \A k \in 0..w - 1 : h + k <= n /\ s[h + k] = c[g + k]
    <3>1. \A k \in 0..w - 1 : s[h + k] = c[g + k]
      BY <1>1, <2>1, <2>2 DEF Copied
    <3>2. \A k \in 0..w - 1 : h + k <= n
      BY <1>1, <2>1, <2>2
    <3> QED
      BY <3>1, <3>2
  <2>4. g \in 1..Len(c)
    OBVIOUS
  <2>5. IsCharacterAt(s, h) /\ Width(s[h]) = w
    BY <1>1, <1>2, <2>1, <2>3, <2>4, SameCharacter
  <2>6. h \in 1..j /\ j < h + w
    BY <1>1, <2>1, <2>2
  <2> QED
    BY <2>5, <2>6 DEF IsUnicodeAt
<1> QED
  BY <1>3, <1>4

LEMMA OneMoreByte ==
  ASSUME NEW s \in Seq(Byte), NEW b \in Byte
  PROVE  /\ s \o <<b>> \in Seq(Byte) /\ Len(s \o <<b>>) = Len(s) + 1
         /\ \A j \in 1..Len(s) : (s \o <<b>>)[j] = s[j]
         /\ (s \o <<b>>)[Len(s) + 1] = b
<1>1. s \o <<b>> = Append(s, b)
  OBVIOUS
<1> QED
  BY <1>1, AppendProperties

LEMMA ThreeMoreBytes ==
  ASSUME NEW s \in Seq(Byte), NEW r \in Seq(Byte), Len(r) = 3
  PROVE  /\ s \o r \in Seq(Byte) /\ Len(s \o r) = Len(s) + 3
         /\ \A j \in 1..Len(s) : (s \o r)[j] = s[j]
         /\ (s \o r)[Len(s) + 1] = r[1]
         /\ (s \o r)[Len(s) + 2] = r[2]
         /\ (s \o r)[Len(s) + 3] = r[3]
<1>1. /\ s \o r \in Seq(Byte) /\ Len(s \o r) = Len(s) + Len(r)
      /\ \A j \in 1..Len(s) + Len(r) :
           (s \o r)[j] = IF j <= Len(s) THEN s[j] ELSE r[j - Len(s)]
  BY ConcatProperties
<1>2. PICK t \in Seq(Byte), m \in Nat : t = s \o r /\ m = Len(s)
  <2>1. s \o r \in Seq(Byte) /\ Len(s) \in Nat
    BY <1>1
  <2> QED
    BY <2>1, Zenon
<1>3. /\ t \in Seq(Byte) /\ Len(t) = m + 3
      /\ \A j \in 1..m + 3 : t[j] = IF j <= m THEN s[j] ELSE r[j - m]
  BY <1>1, <1>2
<1>4. t[m + 1] = r[1] /\ t[m + 2] = r[2] /\ t[m + 3] = r[3]
  <2>1. t[m + 1] = r[m + 1 - m] /\ t[m + 2] = r[m + 2 - m] /\ t[m + 3] = r[m + 3 - m]
    BY <1>2, <1>3
  <2>2. m + 1 - m = 1 /\ m + 2 - m = 2 /\ m + 3 - m = 3
    BY <1>2
  <2> QED
    BY <2>1, <2>2
<1>5. \A j \in 1..m : t[j] = s[j]
  BY <1>2, <1>3
<1> QED
  BY <1>2, <1>3, <1>4, <1>5

\* One byte, or one replacement, more.
LEMMA ClosedAfterByte ==
  ASSUME NEW c \in Seq(Byte), NEW i \in 0..Len(c) - 1, IsUnicodeAt(c, i + 1),
         NEW s \in Seq(Byte), Ends(s, c, i), Closed(s, c, i)
  PROVE  Ends(s \o <<c[i + 1]>>, c, i + 1) /\ Closed(s \o <<c[i + 1]>>, c, i + 1)
<1>1. PICK k \in 1..Len(c), m \in Nat : k = i + 1 /\ m = Len(s)
  OBVIOUS
<1>2. PICK t \in Seq(Byte) :
        /\ t = s \o <<c[k]>> /\ Len(t) = m + 1 /\ t[m + 1] = c[k]
        /\ \A j \in 1..m : t[j] = s[j]
  <2>1. c[k] \in Byte
    BY ElementOfSeq
  <2> QED
    BY <1>1, <2>1, OneMoreByte
<1>3. \A g \in 1..Len(c) : Width(c[g]) \in 0..4
  BY ElementOfSeq, WidthIs
<1>4. Ends(t, c, k)
  <2>1. ASSUME NEW g \in 1..k, Covers(c, g, k) PROVE Copied(t, c, g, k)
    <3>1. CASE g = k
      <4>1. k - g + 1 <= Len(t) /\ \A l \in 0..k - g : Len(t) - (k - g) + l = m + 1 /\ g + l = k
        BY <1>1, <1>2, <3>1
      <4> QED
        BY <1>2, <4>1 DEF Copied
    <3>2. CASE g \in 1..i
      <4>1. Covers(c, g, i)
        <5>1. g \in 1..Len(c) /\ i < k
          BY <1>1
        <5> QED
          BY <1>1, <1>3, <2>1, <5>1 DEF Covers
      <4>2. Copied(s, c, g, i)
        BY <3>2, <4>1 DEF Ends
      <4>3. ASSUME NEW l \in 0..k - g PROVE t[Len(t) - (k - g) + l] = c[g + l]
        <5>1. CASE l = k - g
          <6>1. Len(t) - (k - g) + l = m + 1 /\ g + l = k
            BY <1>1, <1>2, <5>1
          <6> QED
            BY <1>2, <6>1
        <5>2. CASE l \in 0..i - g
          <6>1. Len(t) - (k - g) + l = m - (i - g) + l /\ m - (i - g) + l \in 1..m
            BY <1>1, <1>2, <3>2, <4>2, <5>2 DEF Copied
          <6>2. s[m - (i - g) + l] = c[g + l]
            BY <1>1, <4>2, <5>2 DEF Copied
          <6> QED
            BY <1>2, <6>1, <6>2
        <5> QED
          BY <1>1, <3>2, <5>1, <5>2
      <4>4. k - g + 1 <= Len(t)
        BY <1>1, <1>2, <3>2, <4>2 DEF Copied
      <4> QED
        BY <4>3, <4>4 DEF Copied
    <3> QED
      BY <1>1, <3>1, <3>2
  <2> QED
    BY <2>1 DEF Ends
<1>5. ASSUME NEW j \in 1..Len(t) PROVE IsUnicodeAt(t, j) \/ Begun(t, c, k, j)
  <2>1. CASE j = m + 1
    <3>1. PICK g \in 1..k : Covers(c, g, k)
      BY <1>1 DEF IsUnicodeAt, Covers
    <3>2. Copied(t, c, g, k)
      BY <1>4, <3>1 DEF Ends
    <3>3. j > Len(t) - (k - g + 1)
      BY <1>1, <1>2, <2>1
    <3> QED
      BY <3>1, <3>2, <3>3, CopiedCharacter
  <2>2. CASE j \in 1..m /\ IsUnicodeAt(s, j)
    <3>1. Len(s) <= Len(t) /\ j \in 1..Len(s) /\ \A l \in 1..Len(s) : t[l] = s[l]
      BY <1>1, <1>2, <2>2
    <3> QED
      BY <2>2, <3>1, Extended
  <2>3. CASE j \in 1..m /\ Begun(s, c, i, j)
    <3>1. PICK g \in 1..i : Covers(c, g, k) /\ j > m - (i - g + 1)
      BY <1>1, <2>3 DEF Begun
    <3>2. g \in 1..k
      BY <1>1
    <3>3. Copied(t, c, g, k)
      BY <1>4, <3>1, <3>2 DEF Ends
    <3>4. j > Len(t) - (k - g + 1)
      BY <1>1, <1>2, <3>1
    <3> QED
      BY <3>1, <3>2, <3>3, <3>4, CopiedCharacter
  <2>4. j = m + 1 \/ j \in 1..m
    BY <1>1, <1>2
  <2>5. \A l \in 1..m : IsUnicodeAt(s, l) \/ Begun(s, c, i, l)
    BY <1>1 DEF Closed
  <2> QED
    BY <2>1, <2>2, <2>3, <2>4, <2>5, Zenon
<1>6. Closed(t, c, k)
  BY <1>5 DEF Closed
<1> QED
  BY <1>1, <1>2, <1>4, <1>6

LEMMA ClosedAfterReplacement ==
  ASSUME NEW c \in Seq(Byte), NEW i \in 0..Len(c) - 1, ~IsUnicodeAt(c, i + 1),
         NEW s \in Seq(Byte), Ends(s, c, i), Closed(s, c, i)
  PROVE  Ends(s \o Replacement, c, i + 1) /\ Closed(s \o Replacement, c, i + 1)
<1>1. PICK k \in 1..Len(c), m \in Nat : k = i + 1 /\ m = Len(s)
  OBVIOUS
<1>2. PICK t \in Seq(Byte) : t = s \o Replacement
  BY ThreeMoreBytes, ReplacementBytes
<1>3. /\ Len(t) = m + 3
      /\ t[m + 1] = 239 /\ t[m + 2] = 191 /\ t[m + 3] = 189
      /\ \A j \in 1..m : t[j] = s[j]
  BY <1>1, <1>2, ThreeMoreBytes, ReplacementBytes
<1>4. \A g \in 1..k : ~Covers(c, g, k)
  BY <1>1 DEF IsUnicodeAt, Covers
<1>5. Ends(t, c, k)
  BY <1>4 DEF Ends
<1>6. IsCharacterAt(t, m + 1) /\ Width(t[m + 1]) = 3
  <2>1. Width(t[m + 1]) = 3 /\ Followers(t[m + 1]) = 128..191
    BY <1>3, WidthIs
  <2>2. m + 1 + 3 - 1 <= Len(t)
    BY <1>1, <1>3
  <2>3. \A l \in 1..3 - 1 : (l = 1 \/ l = 2) /\ t[m + 1 + l] \in 128..191
    <3>1. m + 1 + 1 = m + 2 /\ m + 1 + 2 = m + 3
      BY <1>1
    <3>2. t[m + 1 + 1] \in 128..191 /\ t[m + 1 + 2] \in 128..191
      BY <1>3, <3>1
    <3>3. \A l \in 1..3 - 1 : l = 1 \/ l = 2
      OBVIOUS
    <3> QED
      BY <3>2, <3>3
  <2> QED
    BY <2>1, <2>2, <2>3 DEF IsCharacterAt
<1>7. ASSUME NEW j \in 1..Len(t) PROVE IsUnicodeAt(t, j)
  <2>1. CASE j > m
    <3>1. m + 1 \in 1..j /\ j < m + 1 + Width(t[m + 1])
      BY <1>1, <1>3, <1>6, <1>7, <2>1
    <3> QED
      BY <1>6, <3>1 DEF IsUnicodeAt
  <2>2. CASE j \in 1..m
    <3>1. ~Begun(s, c, i, j)
      <4>1. \A g \in 1..i : g \in 1..k
        BY <1>1
      <4> QED
        BY <1>1, <1>4, <4>1 DEF Begun
    <3>2. IsUnicodeAt(s, j)
      BY <1>1, <2>2, <3>1 DEF Closed
    <3>3. Len(s) <= Len(t)
      BY <1>1, <1>3
    <3> QED
      BY <1>1, <1>3, <2>2, <3>2, <3>3, Extended
  <2> QED
    BY <1>1, <1>3, <2>1, <2>2
<1>8. Closed(t, c, k)
  BY <1>7 DEF Closed
<1> QED
  BY <1>1, <1>2, <1>5, <1>8

LEMMA MarshalStringIs ==
  ASSUME NEW c \in Seq(Byte)
  PROVE  /\ MarshalString(c) \in Seq(Byte)
         /\ IsUnicode(c) => MarshalString(c) = c
         /\ IsUnicode(MarshalString(c))
<1> DEFINE n == Len(c)
           seqs == [i \in DOMAIN c |-> IF IsUnicodeAt(c, i) THEN <<c[i]>> ELSE Replacement]
<1>1. n \in Nat /\ DOMAIN c = 1..n /\ \A i \in 1..n : c[i] \in Byte
  BY LenProperties, ElementOfSeq
<1>2. seqs \in Seq(Seq(Byte)) /\ Len(seqs) = n
  <2>1. \A i \in 1..n : <<c[i]>> \in Seq(Byte)
    BY <1>1
  <2>2. seqs \in [1..n -> Seq(Byte)]
    BY <2>1, <1>1, ReplacementBytes
  <2> QED
    BY <2>2, <1>1, SeqDef, LenProperties
<1>3. MarshalString(c) = FlattenSeq(seqs)
  BY DEF MarshalString
<1>4. MarshalString(c) \in Seq(Byte)
  BY <1>2, <1>3, FlattenSeqType
<1>5. ASSUME IsUnicode(c) PROVE MarshalString(c) = c
  <2>1. seqs = [i \in DOMAIN c |-> <<c[i]>>]
    BY <1>5 DEF IsUnicode
  <2> QED
    BY <2>1, <1>3, FlattenSingles
<1>6. \A i \in 1..n : seqs[i] = IF IsUnicodeAt(c, i) THEN <<c[i]>> ELSE Replacement
  BY <1>1
<1> HIDE DEF seqs
<1>7. PICK flat : Flattens(flat, seqs) /\ FlattenSeq(seqs) = flat[n]
  BY <1>2, FlattenSeqFlattens
<1>8. \A i \in 0..n : flat[i] \in Seq(Byte)
  BY <1>2, <1>7, FlattensType
<1> DEFINE T == {i \in 0..n : Ends(flat[i], c, i) /\ Closed(flat[i], c, i)}
<1>9. 0 \in T
  <2>1. flat[0] = <<>> /\ Len(<<>>) = 0
    BY <1>7, EmptySeq DEF Flattens
  <2>2. Ends(<<>>, c, 0) /\ Closed(<<>>, c, 0)
    BY <2>1 DEF Ends, Closed
  <2>3. Ends(flat[0], c, 0) /\ Closed(flat[0], c, 0)
    BY <2>1, <2>2, Zenon
  <2> QED
    BY <1>1, <2>3
<1>10. ASSUME NEW i \in 0..n - 1, i \in T PROVE i + 1 \in T
  <2>1. i \in 0..n /\ i + 1 \in 1..n /\ (i + 1) - 1 = i
    BY <1>1
  <2>2. flat[i] \in Seq(Byte) /\ flat[i + 1] = flat[i] \o seqs[i + 1]
    BY <2>1, <1>2, <1>7, <1>8 DEF Flattens
  <2>3. Ends(flat[i], c, i) /\ Closed(flat[i], c, i)
    BY <1>10
  <2>4. Ends(flat[i] \o seqs[i + 1], c, i + 1) /\ Closed(flat[i] \o seqs[i + 1], c, i + 1)
    <3>1. CASE IsUnicodeAt(c, i + 1)
      <4>1. seqs[i + 1] = <<c[i + 1]>>
        BY <3>1, <1>6, <2>1
      <4> QED
        BY <4>1, <3>1, <2>2, <2>3, ClosedAfterByte
    <3>2. CASE ~IsUnicodeAt(c, i + 1)
      <4>1. seqs[i + 1] = Replacement
        BY <3>2, <1>6, <2>1
      <4> QED
        BY <4>1, <3>2, <2>2, <2>3, ClosedAfterReplacement
    <3> QED
      BY <3>1, <3>2
  <2>5. Ends(flat[i + 1], c, i + 1) /\ Closed(flat[i + 1], c, i + 1)
    BY <2>2, <2>4
  <2> QED
    BY <2>1, <2>5
<1>11. n \in T
  <2> HIDE DEF T
  <2> QED
    BY <1>1, <1>9, <1>10, Induction
<1>12. IsUnicode(flat[n])
  <2>1. flat[n] \in Seq(Byte) /\ Closed(flat[n], c, n)
    BY <1>1, <1>8, <1>11
  <2>2. \A g \in 1..n : ~Covers(c, g, n + 1)
    <3>1. \A g \in 1..n : Width(c[g]) \in 0..4
      BY <1>1, WidthIs
    <3> QED
      BY <1>1, <3>1 DEF Covers, IsCharacterAt
  <2>3. \A j \in 1..Len(flat[n]) : IsUnicodeAt(flat[n], j)
    BY <2>1, <2>2 DEF Closed, Begun
  <2> QED
    BY <2>1, <2>3, LenProperties DEF IsUnicode
<1> QED
  BY <1>3, <1>4, <1>5, <1>7, <1>12

-----------------------------------------------------------------------------
(***************************************************************************)
(* Three bytes are four digits.                                            *)
(***************************************************************************)
LEMMA DigitIs ==
  /\ \A c \in 65..90 : Digit(c) = c - 65
  /\ \A c \in 97..122 : Digit(c) = c - 71
  /\ \A c \in 48..57 : Digit(c) = c + 4
  /\ Digit(43) = 62 /\ Digit(47) = 63 /\ Digit(Pad) = 0
<1>1. \A c \in 65..90 : Digit(c) = c - 65
  BY SMT DEF Digit, Pad
<1>2. \A c \in 97..122 : Digit(c) = c - 71
  BY SMT DEF Digit, Pad
<1>3. \A c \in 48..57 : Digit(c) = c + 4
  BY SMT DEF Digit, Pad
<1>4. Digit(43) = 62 /\ Digit(47) = 63
  BY SMT DEF Digit, Pad
<1>5. Digit(Pad) = 0
  BY SMT DEF Digit, Pad
<1> QED
  BY <1>1, <1>2, <1>3, <1>4, <1>5

LEMMA LettersAndDigits ==
  /\ \A d \in 0..63 : Letter(d) \in Alphabet /\ Digit(Letter(d)) = d
  /\ \A c \in Alphabet : Digit(c) \in 0..63 /\ Letter(Digit(c)) = c
<1>1. \A c \in Alphabet : Digit(c) \in 0..63
  BY DigitIs, SMT DEF Alphabet
<1>2. \A c, e \in Alphabet : Digit(c) = Digit(e) => c = e
  BY DigitIs, SMT DEF Alphabet
<1>3. ASSUME NEW d \in 0..63 PROVE \E c \in Alphabet : Digit(c) = d
  <2> DEFINE c == IF d <= 25 THEN d + 65 ELSE IF d <= 51 THEN d + 71
                  ELSE IF d <= 61 THEN d - 4 ELSE IF d = 62 THEN 43 ELSE 47
  <2>1. c \in Alphabet
    BY SMT DEF Alphabet
  <2>2. Digit(c) = d
    BY SMT DEF Digit, Pad
  <2> QED
    BY <2>1, <2>2
<1>4. ASSUME NEW d \in 0..63 PROVE Letter(d) \in Alphabet /\ Digit(Letter(d)) = d
  BY <1>3 DEF Letter
<1> QED
  BY <1>1, <1>2, <1>4

\* The number t has 24 bits: the digits j of base 64 and i of base 256.
Digit64(t, j) == (t \div Power(64, 3 - j)) % 64
Byte256(t, i) == (t \div Power(256, 2 - i)) % 256

FromDigits(d0, d1, d2, d3) == 64 * (64 * (64 * d0 + d1) + d2) + d3
FromBytes(b0, b1, b2) == 256 * (256 * b0 + b1) + b2

Word == {t \in Nat : t < 16777216}

LEMMA DigitsAre ==
  ASSUME NEW t \in Word
  PROVE  /\ Digit64(t, 0) = ((t \div 64) \div 64) \div 64
         /\ Digit64(t, 1) = ((t \div 64) \div 64) % 64
         /\ Digit64(t, 2) = (t \div 64) % 64
         /\ Digit64(t, 3) = t % 64
<1>1. t \in Nat /\ t < 16777216
  BY SMT DEF Word
<1>2. /\ Power(64, 3 - 0) = 262144 /\ Power(64, 3 - 1) = 4096
      /\ Power(64, 3 - 2) = 64 /\ Power(64, 3 - 3) = 1
  BY SMT DEF Power
<1>3. t \div 1 = t /\ t \div 4096 = (t \div 64) \div 64
  BY <1>1, SMT
<1>4. t \div 262144 = ((t \div 64) \div 64) \div 64
  BY <1>1, SMT
<1>5. t \div 262144 \in 0..63
  BY <1>1, SMT
<1>6. (t \div 262144) % 64 = t \div 262144
  BY <1>5, SMT
<1> QED
  BY <1>2, <1>3, <1>4, <1>6, SMT DEF Digit64

LEMMA WordFromDigits ==
  ASSUME NEW t \in Word
  PROVE  /\ \A j \in 0..3 : Digit64(t, j) \in 0..63
         /\ t = FromDigits(Digit64(t, 0), Digit64(t, 1), Digit64(t, 2), Digit64(t, 3))
<1>1. t \in Nat /\ t < 16777216
  BY SMT DEF Word
<1>2. PICK t1 \in Nat, t2 \in Nat, t3 \in Nat :
        t1 = t \div 64 /\ t2 = t1 \div 64 /\ t3 = t2 \div 64
  BY <1>1, SMT
<1>3. t = 64 * t1 + (t % 64) /\ t % 64 \in 0..63
  BY <1>1, <1>2, SMT
<1>4. t1 = 64 * t2 + (t1 % 64) /\ t1 % 64 \in 0..63
  BY <1>2, SMT
<1>5. t2 = 64 * t3 + (t2 % 64) /\ t2 % 64 \in 0..63
  BY <1>2, SMT
<1>6. t3 \in 0..63
  BY <1>1, <1>3, <1>4, <1>5, SMT
<1>7. /\ Digit64(t, 0) = t3 /\ Digit64(t, 1) = t2 % 64
      /\ Digit64(t, 2) = t1 % 64 /\ Digit64(t, 3) = t % 64
  BY <1>2, DigitsAre
<1>8. \A j \in 0..3 : j = 0 \/ j = 1 \/ j = 2 \/ j = 3
  OBVIOUS
<1>9. t = FromDigits(t3, t2 % 64, t1 % 64, t % 64)
  BY <1>3, <1>4, <1>5 DEF FromDigits
<1>10. \A j \in 0..3 : Digit64(t, j) \in 0..63
  BY <1>3, <1>4, <1>5, <1>6, <1>7, <1>8
<1> QED
  BY <1>7, <1>9, <1>10, Zenon

LEMMA DigitsOfWord ==
  ASSUME NEW d \in [0..3 -> 0..63], NEW t, t = FromDigits(d[0], d[1], d[2], d[3])
  PROVE  t \in Word /\ \A j \in 0..3 : Digit64(t, j) = d[j]
<1>1. PICK d0 \in 0..63, d1 \in 0..63, d2 \in 0..63, d3 \in 0..63 :
        d0 = d[0] /\ d1 = d[1] /\ d2 = d[2] /\ d3 = d[3]
  <2>1. d[0] \in 0..63 /\ d[1] \in 0..63 /\ d[2] \in 0..63 /\ d[3] \in 0..63
    OBVIOUS
  <2> QED
    BY <2>1
<1>2. PICK t1 \in Nat, t2 \in Nat, u \in Nat :
        t2 = 64 * d0 + d1 /\ t1 = 64 * t2 + d2 /\ u = 64 * t1 + d3
  BY SMT
<1>3. t = u
  BY <1>1, <1>2 DEF FromDigits
<1>4. u \in Word
  BY <1>2, SMT DEF Word
<1>5. u % 64 = d3 /\ u \div 64 = t1
  BY <1>2, SMT
<1>6. t1 % 64 = d2 /\ t1 \div 64 = t2
  BY <1>2, SMT
<1>7. t2 % 64 = d1 /\ t2 \div 64 = d0
  BY <1>2, SMT
<1>8. /\ Digit64(u, 0) = d0 /\ Digit64(u, 1) = d1
      /\ Digit64(u, 2) = d2 /\ Digit64(u, 3) = d3
  BY <1>4, <1>5, <1>6, <1>7, DigitsAre
<1>9. \A j \in 0..3 : j = 0 \/ j = 1 \/ j = 2 \/ j = 3
  OBVIOUS
<1> QED
  BY <1>1, <1>3, <1>4, <1>8, <1>9

LEMMA BytesAre ==
  ASSUME NEW t \in Word
  PROVE  /\ Byte256(t, 0) = (t \div 256) \div 256
         /\ Byte256(t, 1) = (t \div 256) % 256
         /\ Byte256(t, 2) = t % 256
<1>1. t \in Nat /\ t < 16777216
  BY SMT DEF Word
<1>2. Power(256, 2 - 0) = 65536 /\ Power(256, 2 - 1) = 256 /\ Power(256, 2 - 2) = 1
  BY SMT DEF Power
<1>3. t \div 1 = t /\ t \div 65536 = (t \div 256) \div 256 /\ t \div 65536 \in 0..255
  BY <1>1, SMT
<1>4. (t \div 65536) % 256 = t \div 65536
  BY <1>3, SMT
<1> QED
  BY <1>2, <1>3, <1>4, SMT DEF Byte256

LEMMA WordFromBytes ==
  ASSUME NEW t \in Word
  PROVE  /\ \A i \in 0..2 : Byte256(t, i) \in Byte
         /\ t = FromBytes(Byte256(t, 0), Byte256(t, 1), Byte256(t, 2))
<1>1. t \in Nat /\ t < 16777216
  BY SMT DEF Word
<1>2. PICK t1 \in Nat, t2 \in Nat : t1 = t \div 256 /\ t2 = t1 \div 256
  BY <1>1, SMT
<1>3. t = 256 * t1 + (t % 256) /\ t % 256 \in 0..255
  BY <1>1, <1>2, SMT
<1>4. t1 = 256 * t2 + (t1 % 256) /\ t1 % 256 \in 0..255
  BY <1>2, SMT
<1>5. t2 \in 0..255
  BY <1>1, <1>3, <1>4, SMT
<1>6. Byte256(t, 0) = t2 /\ Byte256(t, 1) = t1 % 256 /\ Byte256(t, 2) = t % 256
  BY <1>2, BytesAre
<1>7. \A i \in 0..2 : i = 0 \/ i = 1 \/ i = 2
  OBVIOUS
<1> QED
  BY <1>3, <1>4, <1>5, <1>6, <1>7, SMT DEF FromBytes, Byte

LEMMA BytesOfWord ==
  ASSUME NEW b0 \in Byte, NEW b1 \in Byte, NEW b2 \in Byte
  PROVE  LET t == FromBytes(b0, b1, b2)
         IN  /\ t \in Word
             /\ Byte256(t, 0) = b0 /\ Byte256(t, 1) = b1 /\ Byte256(t, 2) = b2
<1>1. b0 \in 0..255 /\ b1 \in 0..255 /\ b2 \in 0..255
  BY DEF Byte
<1>2. PICK t1 \in Nat, t \in Nat : t1 = 256 * b0 + b1 /\ t = 256 * t1 + b2
  BY <1>1, SMT
<1>3. t = FromBytes(b0, b1, b2)
  BY <1>2, SMT DEF FromBytes
<1>4. t \in Word
  BY <1>1, <1>2, SMT DEF Word
<1>5. t % 256 = b2 /\ t \div 256 = t1
  BY <1>1, <1>2, SMT
<1>6. t1 % 256 = b1 /\ t1 \div 256 = b0
  BY <1>1, <1>2, SMT
<1>7. Byte256(t, 0) = b0 /\ Byte256(t, 1) = b1 /\ Byte256(t, 2) = b2
  BY <1>4, <1>5, <1>6, BytesAre
<1> QED
  BY <1>3, <1>4, <1>7

\* The digits of a number of 24 bits, from its bytes.
LEMMA DigitsFromBytes ==
  ASSUME NEW t \in Word
  PROVE  /\ Digit64(t, 0) = Byte256(t, 0) \div 4
         /\ Digit64(t, 1) = ((256 * Byte256(t, 0) + Byte256(t, 1)) \div 16) % 64
         /\ Digit64(t, 2) = ((256 * Byte256(t, 1) + Byte256(t, 2)) \div 64) % 64
         /\ Digit64(t, 3) = Byte256(t, 2) % 64
<1>1. t \in Nat
  BY SMT DEF Word
<1>2. PICK y \in Nat, z \in Nat : y = t \div 256 /\ z = y \div 256
  BY <1>1, SMT
<1>3. PICK b0 \in Byte, b1 \in Byte, b2 \in Byte :
        b0 = Byte256(t, 0) /\ b1 = Byte256(t, 1) /\ b2 = Byte256(t, 2)
  <2>1. 0 \in 0..2 /\ 1 \in 0..2 /\ 2 \in 0..2
    OBVIOUS
  <2> QED
    BY <2>1, WordFromBytes
<1>4. b0 = z /\ b1 = y % 256 /\ b2 = t % 256
  BY <1>2, <1>3, BytesAre
<1>5. b0 \in Nat /\ b1 \in 0..255 /\ b2 \in 0..255
  BY SMT DEF Byte
<1>6. y = 256 * b0 + b1 /\ t = 256 * y + b2
  BY <1>1, <1>2, <1>4, SMT
<1>7. ((t \div 64) \div 64) \div 64 = b0 \div 4
  BY <1>1, <1>2, <1>4, SMT
<1>8. ((t \div 64) \div 64) % 64 = ((256 * b0 + b1) \div 16) % 64
  <2>1. (t \div 64) \div 64 = y \div 16
    BY <1>1, <1>2, SMT
  <2> QED
    BY <1>6, <2>1
<1>9. (t \div 64) % 64 = ((256 * b1 + b2) \div 64) % 64
  <2>1. t = 65536 * b0 + (256 * b1 + b2)
    BY <1>5, <1>6, SMT
  <2> QED
    BY <1>1, <1>5, <2>1, SMT
<1>10. t % 64 = b2 % 64
  BY <1>5, <1>6, SMT
<1>11. /\ Digit64(t, 0) = ((t \div 64) \div 64) \div 64
       /\ Digit64(t, 1) = ((t \div 64) \div 64) % 64
       /\ Digit64(t, 2) = (t \div 64) % 64
       /\ Digit64(t, 3) = t % 64
  BY DigitsAre
<1> QED
  BY <1>3, <1>7, <1>8, <1>9, <1>10, <1>11

\* A digit depends on the byte of its place and the one before.
LEMMA DigitsDepend ==
  ASSUME NEW t \in Word, NEW u \in Word, NEW j \in 0..3,
         \A i \in 0..2 : j - 1 <= i /\ i <= j => Byte256(t, i) = Byte256(u, i)
  PROVE  Digit64(t, j) = Digit64(u, j)
<1>1. /\ j = 0 => Byte256(t, 0) = Byte256(u, 0)
      /\ j = 1 => Byte256(t, 0) = Byte256(u, 0) /\ Byte256(t, 1) = Byte256(u, 1)
      /\ j = 2 => Byte256(t, 1) = Byte256(u, 1) /\ Byte256(t, 2) = Byte256(u, 2)
      /\ j = 3 => Byte256(t, 2) = Byte256(u, 2)
  OBVIOUS
<1>2. CASE j = 0
  BY <1>1, <1>2, DigitsFromBytes
<1>3. CASE j = 1
  BY <1>1, <1>3, DigitsFromBytes
<1>4. CASE j = 2
  BY <1>1, <1>4, DigitsFromBytes
<1>5. CASE j = 3
  BY <1>1, <1>5, DigitsFromBytes
<1> QED
  BY <1>2, <1>3, <1>4, <1>5

\* k counts from 0.
LEMMA Places ==
  /\ \A k \in Nat : k = 4 * (k \div 4) + (k % 4) /\ k \div 4 \in Nat /\ k % 4 \in 0..3
  /\ \A q \in Nat, j \in 0..3 : (4*q + j) \div 4 = q /\ (4*q + j) % 4 = j
  /\ \A k \in Nat : k = 3 * (k \div 3) + (k % 3) /\ k \div 3 \in Nat /\ k % 3 \in 0..2
  /\ \A q \in Nat, i \in 0..2 : (3*q + i) \div 3 = q /\ (3*q + i) % 3 = i
  BY SMT

LEMMA AtIs ==
  ASSUME NEW b \in Seq(Byte), NEW i \in Nat \ {0}
  PROVE  /\ At(b, i) \in Byte
         /\ i <= Len(b) => At(b, i) = b[i]
         /\ i > Len(b) => At(b, i) = 0
<1>1. Len(b) \in Nat /\ DOMAIN b = 1..Len(b)
  BY LenProperties
<1>2. 0 \in Byte
  BY DEF Byte
<1>3. CASE i <= Len(b)
  <2>1. i \in DOMAIN b /\ b[i] \in Byte
    BY <1>1, <1>3, ElementOfSeq
  <2> QED
    BY <1>1, <1>3, <2>1 DEF At
<1>4. CASE i > Len(b)
  <2>1. i \notin DOMAIN b
    BY <1>1, <1>4
  <2> QED
    BY <1>1, <1>2, <1>4, <2>1 DEF At
<1> QED
  BY <1>1, <1>3, <1>4

LEMMA TripleIs ==
  ASSUME NEW b \in Seq(Byte), NEW q \in Nat
  PROVE  /\ Triple(b, q) \in Word
         /\ \A i \in 0..2 : Byte256(Triple(b, q), i) = At(b, 3*q + i + 1)
<1>1. /\ 3*q + 1 \in Nat \ {0} /\ 3*q + 2 \in Nat \ {0} /\ 3*q + 3 \in Nat \ {0}
      /\ 3*q + 0 + 1 = 3*q + 1 /\ 3*q + 1 + 1 = 3*q + 2 /\ 3*q + 2 + 1 = 3*q + 3
  OBVIOUS
<1>2. At(b, 3*q + 1) \in Byte /\ At(b, 3*q + 2) \in Byte /\ At(b, 3*q + 3) \in Byte
  BY <1>1, AtIs
<1>3. Triple(b, q) = FromBytes(At(b, 3*q + 1), At(b, 3*q + 2), At(b, 3*q + 3))
  BY DEF Triple, FromBytes
<1>4. \A i \in 0..2 : i = 0 \/ i = 1 \/ i = 2
  OBVIOUS
<1>5. /\ Triple(b, q) \in Word
      /\ Byte256(Triple(b, q), 0) = At(b, 3*q + 1)
      /\ Byte256(Triple(b, q), 1) = At(b, 3*q + 2)
      /\ Byte256(Triple(b, q), 2) = At(b, 3*q + 3)
  BY <1>2, <1>3, BytesOfWord
<1> QED
  BY <1>1, <1>4, <1>5

LEMMA EncodeAt ==
  ASSUME NEW b \in Seq(Byte), NEW m \in Nat, m = (Len(b) + 2) \div 3
  PROVE  /\ Encode(b) \in Seq(Alphabet \cup {Pad})
         /\ Len(Encode(b)) = 4 * m
         /\ \A q \in 0..m - 1, j \in 0..3 :
              Encode(b)[4*q + j + 1] =
                IF 3*q + j > Len(b) THEN Pad ELSE Letter(Digit64(Triple(b, q), j))
<1>1. PICK n \in Nat : n = Len(b)
  BY LenProperties
<1> DEFINE At64(k) == LET q == (k - 1) \div 4
                          j == (k - 1) % 4
                      IN  IF 3*q + j > n THEN Pad ELSE Letter(Digit64(Triple(b, q), j))
<1>2. Encode(b) = [k \in 1..4 * m |-> At64(k)]
  BY <1>1 DEF Encode, Digit64
<1>3. ASSUME NEW k \in 1..4 * m PROVE At64(k) \in Alphabet \cup {Pad}
  <2>1. (k - 1) \div 4 \in Nat /\ (k - 1) % 4 \in 0..3
    BY <1>3, Places
  <2>2. \A q \in Nat, j \in 0..3 : Letter(Digit64(Triple(b, q), j)) \in Alphabet
    BY TripleIs, WordFromDigits, LettersAndDigits
  <2> QED
    BY <2>1, <2>2
<1>4. ASSUME NEW q \in 0..m - 1, NEW j \in 0..3
      PROVE  /\ 4*q + j + 1 \in 1..4 * m
             /\ At64(4*q + j + 1) =
                  IF 3*q + j > n THEN Pad ELSE Letter(Digit64(Triple(b, q), j))
  <2>1. 4*q + j + 1 \in 1..4 * m /\ (4*q + j + 1) - 1 = 4*q + j /\ q \in Nat
    BY <1>4
  <2>2. (4*q + j) \div 4 = q /\ (4*q + j) % 4 = j
    BY <2>1, Places
  <2> QED
    BY <2>1, <2>2
<1> HIDE DEF At64
<1>5. Encode(b) \in [1..4 * m -> Alphabet \cup {Pad}]
  BY <1>2, <1>3
<1>6. Encode(b) \in Seq(Alphabet \cup {Pad}) /\ Len(Encode(b)) = 4 * m
  BY <1>5, SeqDef, LenProperties
<1> QED
  BY <1>1, <1>2, <1>4, <1>6

LEMMA AlphabetIs ==
  /\ Alphabet \subseteq Byte /\ Pad \in Byte
  /\ Pad \notin Alphabet
  /\ \A c \in Alphabet \cup {Pad} : c < 128 /\ c \notin Newlines
  BY SMT DEF Alphabet, Pad, Byte, Newlines

\* The quanta that n bytes fill.
LEMMA Quanta ==
  ASSUME NEW n \in Nat, NEW m \in Nat, m = (n + 2) \div 3
  PROVE  3 * m - n \in 0..2
  BY SMT

\* Where the padding is: in the last quantum, after its bytes.
LEMMA PadsAre ==
  ASSUME NEW n \in Nat, NEW m \in Nat, 3 * m - n \in 0..2, NEW q \in 0..m - 1, NEW j \in 0..3
  PROVE  3*q + j > n <=> 4*q + j + 1 > 4 * m - (3 * m - n)
<1>1. CASE q = m - 1
  BY <1>1
<1>2. CASE q <= m - 2
  BY <1>2
<1> QED
  BY <1>1, <1>2

LEMMA EncodePads ==
  ASSUME NEW b \in Seq(Byte), NEW m \in Nat, m = (Len(b) + 2) \div 3
  PROVE  /\ 3 * m - Len(b) \in 0..2
         /\ Pads(Encode(b)) = 3 * m - Len(b)
<1>1. PICK n \in Nat, e \in Seq(Alphabet \cup {Pad}) : n = Len(b) /\ e = Encode(b)
  BY EncodeAt, LenProperties
<1>2. 3 * m - n \in 0..2
  BY <1>1, Quanta
<1>3. Len(e) = 4 * m
  BY <1>1, EncodeAt
<1>4. CASE m = 0
  BY <1>1, <1>2, <1>3, <1>4 DEF Pads
<1>5. CASE m > 0
  <2>1. PICK q \in 0..m - 1 : q = m - 1
    BY <1>5
  <2>2. \A j \in 0..3 : e[4*q + j + 1] = IF 3*q + j > n THEN Pad ELSE Letter(Digit64(Triple(b, q), j))
    BY <1>1, EncodeAt
  <2>3. \A j \in 0..3 : Letter(Digit64(Triple(b, q), j)) # Pad
    <3>1. q \in Nat
      BY <2>1
    <3> QED
      BY <3>1, TripleIs, WordFromDigits, LettersAndDigits, AlphabetIs
  <2>4. \A j \in 0..3 : e[4*q + j + 1] = Pad <=> 3*q + j > n
    BY <2>2, <2>3
  <2>5. 4*q + 3 + 1 = Len(e) /\ 4*q + 2 + 1 = Len(e) - 1 /\ Len(e) > 1
    BY <1>3, <1>5, <2>1
  <2>6. /\ e[Len(e)] = Pad <=> 3*q + 3 > n
        /\ e[Len(e) - 1] = Pad <=> 3*q + 2 > n
    <3>1. 3 \in 0..3 /\ 2 \in 0..3
      OBVIOUS
    <3> QED
      BY <2>4, <2>5, <3>1
  <2>7. \/ 3 * m - n = 0 /\ e[Len(e)] # Pad
        \/ 3 * m - n = 1 /\ e[Len(e)] = Pad /\ e[Len(e) - 1] # Pad
        \/ 3 * m - n = 2 /\ e[Len(e)] = Pad /\ e[Len(e) - 1] = Pad
    BY <1>2, <2>1, <2>6
  <2>8. Len(e) \in Nat
    BY <1>3
  <2>9. /\ e[Len(e)] # Pad => Pads(e) = 0
        /\ e[Len(e)] = Pad /\ e[Len(e) - 1] # Pad => Pads(e) = 1
        /\ e[Len(e)] = Pad /\ e[Len(e) - 1] = Pad => Pads(e) = 2
    BY <2>5, <2>8 DEF Pads
  <2>10. Pads(e) = 3 * m - n
    BY <2>7, <2>9
  <2> QED
    BY <1>1, <1>2, <2>10
<1> QED
  BY <1>4, <1>5

\* An encoding is base64, without newlines, in ASCII.
LEMMA EncodeIs ==
  ASSUME NEW b \in Seq(Byte)
  PROVE  /\ Encode(b) \in Seq(Byte)
         /\ Stripped(Encode(b)) = Encode(b)
         /\ IsUnicode(Encode(b))
         /\ IsBase64(Encode(b))
<1>1. PICK n \in Nat, m \in Nat : n = Len(b) /\ m = (n + 2) \div 3
  <2>1. Len(b) \in Nat
    BY LenProperties
  <2> QED
    BY <2>1, SMT
<1>2. PICK e \in Seq(Alphabet \cup {Pad}) : e = Encode(b)
  BY <1>1, EncodeAt
<1>3. Len(e) = 4 * m /\ DOMAIN e = 1..4 * m
  BY <1>1, <1>2, EncodeAt, LenProperties
<1>4. \A i \in 1..4 * m : e[i] \in Alphabet \cup {Pad}
  BY <1>2, <1>3, ElementOfSeq
<1>5. \A i \in DOMAIN e : e[i] \in Byte /\ e[i] < 128 /\ e[i] \notin Newlines
  BY <1>3, <1>4, AlphabetIs
<1>6. e \in Seq(Byte)
  <2>1. e \in [1..4 * m -> Byte]
    BY <1>2, <1>3, <1>5
  <2> QED
    BY <2>1, SeqDef
<1>7. Stripped(e) = e
  BY <1>5, <1>6, StrippedIs
<1>8. IsUnicode(e)
  <2>1. ASSUME NEW i \in DOMAIN e PROVE IsUnicodeAt(e, i)
    <3>1. Width(e[i]) = 1
      BY <1>5, WidthIs
    <3>2. i \in 1..i /\ i + 1 - 1 <= Len(e) /\ i < i + 1
      BY <1>3
    <3>3. \A k \in 1..1 - 1 : FALSE
      OBVIOUS
    <3>4. IsCharacterAt(e, i)
      BY <3>1, <3>2, <3>3 DEF IsCharacterAt
    <3> QED
      BY <3>1, <3>2, <3>4 DEF IsUnicodeAt
  <2> QED
    BY <2>1 DEF IsUnicode
<1>9. IsBase64(e)
  <2>1. 3 * m - n \in 0..2 /\ Pads(e) = 3 * m - n
    BY <1>1, <1>2, EncodePads
  <2>2. ASSUME NEW i \in 1..4 * m - (3 * m - n) PROVE e[i] \in Alphabet
    <3>1. PICK q \in 0..m - 1, j \in 0..3 : i = 4*q + j + 1
      <4>1. i - 1 \in Nat /\ i - 1 <= 4 * m - 1
        BY <2>1
      <4>2. PICK q \in Nat, j \in 0..3 : i - 1 = 4*q + j
        BY <4>1, Places
      <4>3. q \in 0..m - 1 /\ i = 4*q + j + 1
        BY <4>1, <4>2, <2>2
      <4> QED
        BY <4>3
    <3>2. ~(3*q + j > n)
      BY <2>1, <2>2, <3>1, PadsAre
    <3>3. e[i] = Letter(Digit64(Triple(b, q), j))
      BY <1>1, <1>2, <3>1, <3>2, EncodeAt
    <3>4. q \in Nat
      BY <3>1
    <3> QED
      BY <3>1, <3>3, <3>4, TripleIs, WordFromDigits, LettersAndDigits
  <2>3. (4 * m) % 4 = 0
    BY <1>1, SMT
  <2> QED
    BY <1>3, <2>1, <2>2, <2>3 DEF IsBase64
<1> QED
  BY <1>2, <1>6, <1>7, <1>8, <1>9

LEMMA PadsIs ==
  ASSUME NEW s \in Seq(Byte)
  PROVE  /\ Pads(s) \in 0..2 /\ Pads(s) <= Len(s)
         /\ \A i \in 1..Len(s) : i > Len(s) - Pads(s) => s[i] = Pad
<1>1. PICK n \in Nat : n = Len(s)
  BY LenProperties
<1>2. \/ Pads(s) = 0
      \/ Pads(s) = 1 /\ n > 0 /\ s[n] = Pad
      \/ Pads(s) = 2 /\ n > 1 /\ s[n] = Pad /\ s[n - 1] = Pad
  BY <1>1 DEF Pads
<1>3. ASSUME NEW i \in 1..n, i > n - Pads(s) PROVE s[i] = Pad
  <2>1. \/ Pads(s) = 1 /\ i = n
        \/ Pads(s) = 2 /\ (i = n \/ i = n - 1)
    BY <1>2, <1>3
  <2> QED
    BY <1>2, <2>1
<1> QED
  BY <1>1, <1>2, <1>3

LEMMA Base64Is ==
  ASSUME NEW s \in Seq(Byte), IsBase64(s)
  PROVE  \E n \in Nat : /\ Len(s) = 4 * n /\ Pads(s) <= 3 * n
                        /\ 3 * n - (3 * n - Pads(s)) \in 0..2
                        /\ n = ((3 * n - Pads(s)) + 2) \div 3
<1>1. PICK p \in 0..2, l \in Nat : p = Pads(s) /\ l = Len(s) /\ p <= l
  BY PadsIs, LenProperties
<1>2. l % 4 = 0
  BY <1>1 DEF IsBase64
<1>3. PICK n \in Nat : l = 4 * n
  <2>1. l \div 4 \in Nat /\ l = 4 * (l \div 4) + (l % 4)
    BY <1>1, Places
  <2> QED
    BY <1>2, <2>1
<1>4. p <= 3 * n /\ 3 * n - (3 * n - p) \in 0..2
  BY <1>1, <1>3
<1>5. n = ((3 * n - p) + 2) \div 3
  BY <1>1, SMT
<1> QED
  BY <1>1, <1>3, <1>4, <1>5

LEMMA QuantumIs ==
  ASSUME NEW s \in Seq(Byte), IsBase64(s), NEW n \in Nat, Len(s) = 4 * n, NEW q \in 0..n - 1
  PROVE  /\ Quantum(s, q) \in Word
         /\ \A j \in 0..3 : Digit64(Quantum(s, q), j) = Digit(s[4*q + j + 1])
<1> DEFINE d == [j \in 0..3 |-> Digit(s[4*q + j + 1])]
<1>1. \A i \in 1..4 * n : Digit(s[i]) \in 0..63
  <2>1. \A i \in 1..4 * n : s[i] \in Alphabet \cup {Pad}
    <3>1. \A i \in 1..4 * n : i <= 4 * n - Pads(s) \/ i > 4 * n - Pads(s)
      BY PadsIs
    <3>2. \A i \in 1..4 * n : i <= 4 * n - Pads(s) => i \in 1..(4 * n - Pads(s))
      BY PadsIs
    <3> QED
      BY <3>1, <3>2, PadsIs DEF IsBase64
  <2>2. Digit(Pad) \in 0..63
    BY DigitIs
  <2> QED
    BY <2>1, <2>2, LettersAndDigits
<1>2. \A j \in 0..3 : 4*q + j + 1 \in 1..4 * n
  OBVIOUS
<1>3. d \in [0..3 -> 0..63]
  BY <1>1, <1>2
<1>4. /\ 4*q + 0 + 1 = 4*q + 1 /\ 4*q + 1 + 1 = 4*q + 2
      /\ 4*q + 2 + 1 = 4*q + 3 /\ 4*q + 3 + 1 = 4*q + 4
  OBVIOUS
<1>5. \A j \in 0..3 : At(s, 4*q + j + 1) = s[4*q + j + 1]
  <2>1. \A i \in 1..4 * n : i \in Nat \ {0} /\ i <= Len(s)
    OBVIOUS
  <2> QED
    BY <1>2, <2>1, AtIs
<1>6. 0 \in 0..3 /\ 1 \in 0..3 /\ 2 \in 0..3 /\ 3 \in 0..3
  OBVIOUS
<1>7. /\ d[0] = Digit(At(s, 4*q + 1)) /\ d[1] = Digit(At(s, 4*q + 2))
      /\ d[2] = Digit(At(s, 4*q + 3)) /\ d[3] = Digit(At(s, 4*q + 4))
  BY <1>4, <1>5, <1>6
<1>8. \A j \in 0..3 : d[j] = Digit(s[4*q + j + 1])
  OBVIOUS
<1> HIDE DEF d
<1>9. Quantum(s, q) = FromDigits(d[0], d[1], d[2], d[3])
  BY <1>7 DEF Quantum, FromDigits
<1> QED
  BY <1>3, <1>8, <1>9, DigitsOfWord

LEMMA DecodeAt ==
  ASSUME NEW s \in Seq(Byte), IsBase64(s), NEW n \in Nat, Len(s) = 4 * n
  PROVE  /\ Decode(s) \in Seq(Byte)
         /\ Len(Decode(s)) = 3 * n - Pads(s)
         /\ \A k \in 1..3 * n - Pads(s) :
              Decode(s)[k] = Byte256(Quantum(s, (k - 1) \div 3), (k - 1) % 3)
<1>1. PICK p \in 0..2 : p = Pads(s) /\ 3 * n - p \in Nat
  BY PadsIs, Base64Is
<1>2. (4 * n) \div 4 = n
  BY SMT
<1>3. Decode(s) = [k \in 1..3 * n - p |-> Byte256(Quantum(s, (k - 1) \div 3), (k - 1) % 3)]
  <2>1. ((4 * n) \div 4) * 3 - p = 3 * n - p
    BY <1>1, <1>2
  <2> QED
    BY <1>1, <2>1 DEF Decode, Byte256
<1>4. ASSUME NEW k \in 1..3 * n - p
      PROVE  Byte256(Quantum(s, (k - 1) \div 3), (k - 1) % 3) \in Byte
  <2>1. (k - 1) \div 3 \in 0..n - 1 /\ (k - 1) % 3 \in 0..2
    <3>1. k - 1 \in Nat /\ k - 1 < 3 * n
      BY <1>1, <1>4
    <3> QED
      BY <3>1, Places
  <2> QED
    BY <2>1, QuantumIs, WordFromBytes
<1>5. Decode(s) \in [1..3 * n - p -> Byte]
  BY <1>3, <1>4
<1>6. Decode(s) \in Seq(Byte) /\ Len(Decode(s)) = 3 * n - p
  BY <1>1, <1>5, SeqDef, LenProperties
<1> QED
  BY <1>1, <1>3, <1>6

\* The digits that the padding stands for are 0: their bytes are.
LEMMA DigitsOfEncoding ==
  ASSUME NEW b \in Seq(Byte), NEW m \in Nat, m = (Len(b) + 2) \div 3,
         NEW q \in 0..m - 1, NEW j \in 0..3
  PROVE  Digit(Encode(b)[4*q + j + 1]) = Digit64(Triple(b, q), j)
<1>1. PICK n \in Nat, t \in Word : n = Len(b) /\ t = Triple(b, q)
  <2>1. q \in Nat
    OBVIOUS
  <2> QED
    BY <2>1, TripleIs, LenProperties
<1>2. 3 * m - n \in 0..2
  BY <1>1, EncodePads
<1>3. CASE 3*q + j > n
  <2>1. 0 \in Word /\ Digit64(0, j) = 0 /\ \A i \in 0..2 : Byte256(0, i) = 0
    <3>1. 0 \in Word
      BY SMT DEF Word
    <3>3. \A i \in 0..3 : i = 0 \/ i = 1 \/ i = 2 \/ i = 3
      OBVIOUS
    <3>4. \A i \in 0..2 : i = 0 \/ i = 1 \/ i = 2
      OBVIOUS
    <3>5. 0 \div 64 = 0 /\ 0 % 64 = 0 /\ 0 \div 256 = 0 /\ 0 % 256 = 0
      BY SMT
    <3>6. /\ Digit64(0, 0) = 0 /\ Digit64(0, 1) = 0 /\ Digit64(0, 2) = 0 /\ Digit64(0, 3) = 0
      BY <3>1, <3>5, DigitsAre
    <3>7. /\ Byte256(0, 0) = 0 /\ Byte256(0, 1) = 0 /\ Byte256(0, 2) = 0
      BY <3>1, <3>5, BytesAre
    <3> QED
      BY <3>1, <3>3, <3>4, <3>6, <3>7
  <2>2. ASSUME NEW i \in 0..2, j - 1 <= i PROVE Byte256(t, i) = 0
    <3>1. 3*q + i + 1 \in Nat \ {0} /\ 3*q + i + 1 > n /\ q \in Nat
      BY <1>1, <1>3, <2>2
    <3> QED
      BY <1>1, <3>1, TripleIs, AtIs
  <2>3. Digit64(t, j) = Digit64(0, j)
    BY <2>1, <2>2, DigitsDepend
  <2>4. Encode(b)[4*q + j + 1] = Pad
    BY <1>1, <1>3, EncodeAt
  <2> QED
    BY <1>1, <2>1, <2>3, <2>4, DigitIs
<1>4. CASE ~(3*q + j > n)
  <2>1. Encode(b)[4*q + j + 1] = Letter(Digit64(t, j))
    BY <1>1, <1>4, EncodeAt
  <2> QED
    BY <1>1, <2>1, WordFromDigits, LettersAndDigits
<1> QED
  BY <1>3, <1>4

\* What is encoded is decoded.
LEMMA DecodeEncode ==
  ASSUME NEW b \in Seq(Byte)
  PROVE  Decode(Encode(b)) = b
<1>1. PICK n \in Nat, m \in Nat, e \in Seq(Byte) :
        n = Len(b) /\ m = (n + 2) \div 3 /\ e = Encode(b)
  <2>1. Len(b) \in Nat
    BY LenProperties
  <2>2. \A n \in Nat : (n + 2) \div 3 \in Nat
    BY SMT
  <2> QED
    BY <2>1, <2>2, EncodeIs
<1>2. IsBase64(e) /\ Len(e) = 4 * m /\ Pads(e) = 3 * m - n /\ 3 * m - n \in 0..2
  BY <1>1, EncodeIs, EncodeAt, EncodePads
<1>3. ASSUME NEW q \in 0..m - 1 PROVE Quantum(e, q) = Triple(b, q)
  <2>1. Quantum(e, q) \in Word /\ Triple(b, q) \in Word
    <3>1. q \in Nat
      OBVIOUS
    <3> QED
      BY <3>1, <1>2, QuantumIs, TripleIs
  <2>2. \A j \in 0..3 : Digit64(Quantum(e, q), j) = Digit64(Triple(b, q), j)
    BY <1>1, <1>2, QuantumIs, DigitsOfEncoding
  <2>3. 0 \in 0..3 /\ 1 \in 0..3 /\ 2 \in 0..3 /\ 3 \in 0..3
    OBVIOUS
  <2>4. /\ Digit64(Quantum(e, q), 0) = Digit64(Triple(b, q), 0)
        /\ Digit64(Quantum(e, q), 1) = Digit64(Triple(b, q), 1)
        /\ Digit64(Quantum(e, q), 2) = Digit64(Triple(b, q), 2)
        /\ Digit64(Quantum(e, q), 3) = Digit64(Triple(b, q), 3)
    BY <2>2, <2>3
  <2> QED
    BY <2>1, <2>4, WordFromDigits
<1>4. Decode(e) \in Seq(Byte) /\ Len(Decode(e)) = n
  <2>1. 3 * m - (3 * m - n) = n
    BY <1>1
  <2> QED
    BY <1>2, <2>1, DecodeAt
<1>5. ASSUME NEW k \in 1..n PROVE Decode(e)[k] = b[k]
  <2>1. PICK q \in Nat, i \in 0..2 : q = (k - 1) \div 3 /\ i = (k - 1) % 3 /\ k - 1 = 3*q + i
    <3>1. k - 1 \in Nat
      OBVIOUS
    <3> QED
      BY <3>1, Places
  <2>2. q \in 0..m - 1
    BY <1>1, <1>2, <1>5, <2>1
  <2>3. Decode(e)[k] = Byte256(Quantum(e, q), i)
    <3>1. k \in 1..3 * m - Pads(e)
      BY <1>1, <1>2
    <3> QED
      BY <1>2, <2>1, <3>1, DecodeAt
  <2>4. Byte256(Triple(b, q), i) = At(b, 3*q + i + 1)
    BY TripleIs
  <2>5. 3*q + i + 1 = k /\ k \in Nat \ {0} /\ k <= Len(b)
    BY <1>1, <2>1
  <2> QED
    BY <1>3, <2>2, <2>3, <2>4, <2>5, AtIs
<1>6. DOMAIN Decode(e) = 1..n /\ DOMAIN b = 1..n
  BY <1>1, <1>4, LenProperties
<1> QED
  BY <1>1, <1>4, <1>5, <1>6, SeqEqual

\* What is decoded is encoded as it was, but for the bits of no byte.
LEMMA EncodeDecode ==
  ASSUME NEW s \in Seq(Byte), IsBase64(s)
  PROVE  SameBase64(Encode(Decode(s)), s)
<1>1. PICK m \in Nat, p \in 0..2 :
        /\ Len(s) = 4 * m /\ p = Pads(s) /\ p <= 3 * m
        /\ m = ((3 * m - p) + 2) \div 3
  BY Base64Is, PadsIs
<1>2. PICK n \in Nat, d \in Seq(Byte) : d = Decode(s) /\ Len(d) = n /\ n = 3 * m - p
  BY <1>1, DecodeAt
<1>3. PICK e \in Seq(Alphabet \cup {Pad}) : e = Encode(d) /\ Len(e) = 4 * m /\ Pads(e) = p
  <2>1. m = (Len(d) + 2) \div 3 /\ 3 * m - n = p
    BY <1>1, <1>2
  <2> QED
    BY <1>2, <2>1, EncodeAt, EncodePads
<1>4. ASSUME NEW q \in 0..m - 1, NEW j \in 0..3
      PROVE  \/ e[4*q + j + 1] = s[4*q + j + 1]
             \/ p > 0 /\ 4*q + j + 1 = 4 * m - p
  <2>1. 4*q + j + 1 \in 1..4 * m /\ q \in Nat /\ 3 * m - n = p
    BY <1>1, <1>2
  <2>2. 3*q + j > n <=> 4*q + j + 1 > 4 * m - p
    BY <1>1, <2>1, PadsAre
  <2>3. e[4*q + j + 1] = IF 3*q + j > n THEN Pad ELSE Letter(Digit64(Triple(d, q), j))
    <3>1. m = (Len(d) + 2) \div 3
      BY <1>1, <1>2
    <3>2. \A r \in 0..m - 1, k \in 0..3 :
            Encode(d)[4*r + k + 1] =
              IF 3*r + k > Len(d) THEN Pad ELSE Letter(Digit64(Triple(d, r), k))
      BY <1>2, <3>1, EncodeAt
    <3>3. Encode(d)[4*q + j + 1] =
            IF 3*q + j > Len(d) THEN Pad ELSE Letter(Digit64(Triple(d, q), j))
      BY <3>2, Zenon
    <3> QED
      BY <1>2, <1>3, <3>3, Zenon
  <2>4. CASE 3*q + j > n
    BY <1>1, <2>1, <2>2, <2>3, <2>4, PadsIs
  <2>5. CASE 3*q + j <= n /\ \A i \in 0..2 : i <= j => 3*q + i + 1 <= n
    <3>1. \A i \in 0..2 : i <= j => Byte256(Triple(d, q), i) = Byte256(Quantum(s, q), i)
      <4>1. ASSUME NEW i \in 0..2, i <= j
            PROVE  Byte256(Triple(d, q), i) = Byte256(Quantum(s, q), i)
        <5>1. PICK k \in 1..n : k = 3*q + i + 1
          BY <1>2, <2>1, <2>5, <4>1
        <5>2. (k - 1) \div 3 = q /\ (k - 1) % 3 = i
          <6>1. k - 1 = 3*q + i
            BY <2>1, <5>1
          <6> QED
            BY <2>1, <6>1, Places
        <5>3. d[k] = Byte256(Quantum(s, q), i)
          <6>1. k \in 1..3 * m - Pads(s)
            BY <1>1, <1>2
          <6>2. d[k] = Byte256(Quantum(s, (k - 1) \div 3), (k - 1) % 3)
            BY <1>1, <1>2, <6>1, DecodeAt
          <6> QED
            BY <5>2, <6>2, Zenon
        <5>4. At(d, k) = d[k]
          <6>1. k \in Nat \ {0} /\ k <= Len(d)
            BY <1>2
          <6> QED
            BY <6>1, AtIs
        <5>5. Byte256(Triple(d, q), i) = At(d, k)
          BY <2>1, <5>1, TripleIs
        <5> QED
          BY <5>3, <5>4, <5>5
      <4> QED
        BY <4>1
    <3>2. Triple(d, q) \in Word /\ Quantum(s, q) \in Word
      BY <1>1, <2>1, TripleIs, QuantumIs
    <3>3. Digit64(Triple(d, q), j) = Digit64(Quantum(s, q), j)
      BY <3>1, <3>2, DigitsDepend
    <3>4. Digit64(Quantum(s, q), j) = Digit(s[4*q + j + 1])
      BY <1>1, QuantumIs
    <3>5. s[4*q + j + 1] \in Alphabet
      <4>1. 4*q + j + 1 \in 1..(Len(s) - Pads(s))
        BY <1>1, <1>2, <2>1, <2>2, <2>5
      <4> QED
        BY <4>1 DEF IsBase64
    <3>6. e[4*q + j + 1] = Letter(Digit64(Triple(d, q), j))
      <4>1. ~(3*q + j > n)
        BY <1>2, <2>1, <2>5
      <4> QED
        BY <2>3, <4>1, Zenon
    <3> QED
      BY <3>3, <3>4, <3>5, <3>6, LettersAndDigits, Zenon
  <2>6. CASE 3*q + j <= n /\ ~\A i \in 0..2 : i <= j => 3*q + i + 1 <= n
    <3>1. 3*q + j = n /\ j <= 2
      BY <1>2, <2>1, <2>6
    <3>2. p > 0 /\ 4*q + j + 1 = 4 * m - p
      <4>1. 3*q + j = 3 * m - p
        BY <1>2, <3>1
      <4>2. q = m - 1
        BY <3>1, <4>1
      <4> QED
        BY <3>1, <4>1, <4>2
    <3> QED
      BY <3>2
  <2> QED
    BY <1>2, <2>1, <2>4, <2>5, <2>6
<1>5. ASSUME NEW k \in 1..4 * m
      PROVE  e[k] = s[k] \/ (p > 0 /\ k = 4 * m - p)
  <2>1. PICK q \in Nat, j \in 0..3 : k - 1 = 4*q + j
    <3>1. k - 1 \in Nat
      OBVIOUS
    <3> QED
      BY <3>1, Places
  <2>2. q \in 0..m - 1 /\ k = 4*q + j + 1
    BY <1>5, <2>1
  <2> QED
    BY <1>4, <2>2
<1>6. DOMAIN s = 1..4 * m
  BY <1>1, LenProperties
<1> QED
  BY <1>1, <1>2, <1>3, <1>5, <1>6 DEF SameBase64

-----------------------------------------------------------------------------
(***************************************************************************)
(* What HandlePut stores of a text, and what readFile shows of a file.     *)
(***************************************************************************)
LEMMA StoredIs ==
  ASSUME NEW text \in Seq(Byte)
  PROVE  /\ Stored(text) \in Seq(Byte)
         /\ Stored(text) = text \/ SameBase64(Encode(Stored(text)), Stripped(text))
<1>1. Stripped(text) \in Seq(Byte)
  BY StrippedIs
<1>2. CASE IsBase64(Stripped(text))
  <2>1. PICK n \in Nat : Len(Stripped(text)) = 4 * n
    BY <1>1, <1>2, Base64Is
  <2>2. Decode(Stripped(text)) \in Seq(Byte)
    BY <1>1, <1>2, <2>1, DecodeAt
  <2>3. SameBase64(Encode(Decode(Stripped(text))), Stripped(text))
    BY <1>1, <1>2, EncodeDecode
  <2> QED
    BY <1>2, <2>2, <2>3 DEF Stored
<1>3. CASE ~IsBase64(Stripped(text))
  BY <1>3 DEF Stored
<1> QED
  BY <1>2, <1>3

LEMMA StoredEncode ==
  ASSUME NEW b \in Seq(Byte)
  PROVE  Stored(Encode(b)) = b
  BY EncodeIs, DecodeEncode DEF Stored

LEMMA ShownIs ==
  ASSUME NEW b \in Seq(Byte)
  PROVE  /\ Shown(b).isText = IsText(b) /\ IsText(b) \in BOOLEAN
         /\ Shown(b).content \in Seq(Byte) /\ IsUnicode(Shown(b).content)
         /\ ~IsText(b) => Shown(b).content = Encode(b)
         /\ IsText(b) /\ IsUnicode(b) => Shown(b).content = b
<1>1. /\ Shown(b).isText = IsText(b)
      /\ Shown(b).content = IF IsText(b) THEN MarshalString(b) ELSE Encode(b)
  BY DEF Shown
<1>2. IsText(b) \in BOOLEAN
  BY DEF IsText
<1> QED
  BY <1>1, <1>2, MarshalStringIs, EncodeIs

-----------------------------------------------------------------------------
(***************************************************************************)
(* The invariant.  An answer is as good as the file it was read from: it   *)
(* is taken back before anything else is written.                          *)
(***************************************************************************)
CodecInv ==
  /\ file # NULL => file \in Seq(Byte)
  /\ meant # NULL => meant.bytes \in Seq(Byte) /\ meant.encoded \in BOOLEAN
  /\ shown # NULL => file # NULL /\ shown = Shown(file)
  /\ MeantIsStored

LEMMA TextsAre ==
  Texts \subseteq Seq(Byte) /\ Contents \subseteq Seq(Byte)
  BY CodecAssumption DEF Byte

LEMMA CodecInvInit ==
  ASSUME Init
  PROVE  CodecInv
  BY TextsAre DEF Init, CodecInv, MeantIsStored

LEMMA CodecInvStep ==
  ASSUME CodecInv, [Next]_vars
  PROVE  CodecInv'
<1> USE DEF CodecInv
<1>1. CASE PutText
  <2>1. PICK text \in Texts :
          file' = Stored(text) /\ meant' = [bytes |-> text, encoded |-> FALSE]
    BY <1>1 DEF PutText
  <2>2. text \in Seq(Byte)
    BY TextsAre
  <2>3. shown = NULL /\ shown' = NULL
    BY <1>1 DEF PutText
  <2> QED
    BY <2>1, <2>2, <2>3, StoredIs DEF MeantIsStored
<1>2. CASE PutEncoded
  <2>1. PICK content \in Contents :
          /\ file' = Stored(Encode(content))
          /\ meant' = [bytes |-> content, encoded |-> TRUE]
    BY <1>2 DEF PutEncoded
  <2>2. content \in Seq(Byte)
    BY TextsAre
  <2>3. file' = content
    BY <2>1, <2>2, StoredEncode
  <2>4. shown = NULL /\ shown' = NULL
    BY <1>2 DEF PutEncoded
  <2> QED
    BY <2>1, <2>2, <2>3, <2>4 DEF MeantIsStored
<1>3. CASE Get
  BY <1>3 DEF Get, MeantIsStored
<1>4. CASE PutBack
  <2>1. file \in Seq(Byte) /\ shown = Shown(file)
    BY <1>4 DEF PutBack
  <2>2. shown.content \in Seq(Byte)
    BY <2>1, ShownIs
  <2>3. file' \in Seq(Byte)
    BY <1>4, <2>2, StoredIs DEF PutBack
  <2> QED
    BY <1>4, <2>3 DEF PutBack, MeantIsStored
<1>5. CASE UNCHANGED vars
  BY <1>5 DEF vars, MeantIsStored
<1> QED
  BY <1>1, <1>2, <1>3, <1>4, <1>5 DEF Next

LEMMA CodecInvHolds == Spec => []CodecInv
<1>1. Init => CodecInv
  BY CodecInvInit
<1>2. CodecInv /\ [Next]_vars => CodecInv'
  BY CodecInvStep
<1> QED
  BY <1>1, <1>2, PTL DEF Spec

-----------------------------------------------------------------------------
\* A file holds bytes, whatever clients wrote (HandlePut), and what a GET
\* answers is a text that JSON can carry (readFile).
THEOREM CodecTypeCorrect == Spec => []CodecTypeOK
<1>1. CodecInv => CodecTypeOK
  <2> SUFFICES ASSUME CodecInv PROVE CodecTypeOK
    OBVIOUS
  <2>1. ASSUME NEW s \in Seq(Byte) PROVE IsBytes(s)
    BY ElementOfSeq, LenProperties DEF IsBytes, Byte
  <2>2. IsBytes(NULL)
    BY DEF IsBytes
  <2>3. ASSUME shown # NULL
        PROVE  shown.isText \in BOOLEAN /\ IsBytes(shown.content) /\ IsUnicode(shown.content)
    <3>1. file \in Seq(Byte) /\ shown = Shown(file)
      BY <2>3 DEF CodecInv
    <3> QED
      BY <2>1, <3>1, ShownIs
  <2> QED
    BY <2>1, <2>2, <2>3 DEF CodecInv, CodecTypeOK
<1> QED
  BY <1>1, CodecInvHolds, PTL

\* What a client meant to store is stored, of whatever length it is: every
\* content that it encoded as it was, and every text that is not base64
\* itself, which HandlePut decodes.
THEOREM MeantStored == Spec => []MeantIsStored
<1>1. CodecInv => MeantIsStored
  BY DEF CodecInv
<1> QED
  BY <1>1, CodecInvHolds, PTL

\* The answer of a GET is the file: readFile loses bytes only of a file that
\* is not Unicode and whose first bytes have no NUL.
THEOREM GetFaithful == Spec => []GetIsFaithful
<1>1. CodecInv => GetIsFaithful
  <2> SUFFICES ASSUME CodecInv, shown # NULL
               PROVE  \/ file = IF shown.isText THEN shown.content ELSE Decode(shown.content)
                      \/ ~IsUnicode(file) /\ \A i \in DOMAIN file : i <= TextWindow => file[i] # 0
    BY DEF GetIsFaithful
  <2>1. file \in Seq(Byte) /\ shown = Shown(file)
    BY DEF CodecInv
  <2>2. CASE ~IsText(file)
    BY <2>1, <2>2, ShownIs, DecodeEncode
  <2>3. CASE IsText(file) /\ IsUnicode(file)
    BY <2>1, <2>3, ShownIs
  <2>4. CASE IsText(file) /\ ~IsUnicode(file)
    BY <2>4 DEF IsText
  <2> QED
    BY <2>2, <2>3, <2>4
<1> QED
  BY <1>1, CodecInvHolds, PTL

\* Writing back what was read keeps the file, but for a text that JSON has
\* altered or that HandlePut takes for base64; a file that readFile shows
\* encoded is always kept.
THEOREM PutBackKept == Spec => PutBackKeeps
<1>1. CodecInv /\ [Next]_vars =>
        [shown # NULL /\ shown' = NULL =>
           \/ file' = file
           \/ shown.isText /\ (~IsUnicode(file) \/ SameBase64(Encode(file'), Stripped(file)))]_vars
  <2> SUFFICES ASSUME CodecInv, Next, shown # NULL, shown' = NULL
               PROVE  \/ file' = file
                      \/ shown.isText /\ (~IsUnicode(file) \/ SameBase64(Encode(file'), Stripped(file)))
    OBVIOUS
  <2>1. file \in Seq(Byte) /\ shown = Shown(file)
    BY DEF CodecInv
  <2>2. PutBack
    BY <2>1 DEF Next, PutText, PutEncoded, Get
  <2>3. file' = Stored(shown.content)
    BY <2>2 DEF PutBack
  <2>4. CASE ~IsText(file)
    BY <2>1, <2>3, <2>4, ShownIs, StoredEncode
  <2>5. CASE IsText(file) /\ IsUnicode(file)
    <3>1. shown.isText /\ file' = Stored(file)
      BY <2>1, <2>3, <2>5, ShownIs
    <3> QED
      BY <2>1, <3>1, StoredIs
  <2>6. CASE IsText(file) /\ ~IsUnicode(file)
    BY <2>1, <2>6, ShownIs
  <2> QED
    BY <2>4, <2>5, <2>6
<1> QED
  BY <1>1, CodecInvHolds, PTL DEF Spec, PutBackKeeps
=============================================================================
