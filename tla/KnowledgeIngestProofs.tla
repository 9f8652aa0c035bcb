-------------------------- MODULE KnowledgeIngestProofs --------------------------
(***************************************************************************)
(* Proofs about KnowledgeIngest, for any number of files and ingests and   *)
(* any texts.                                                              *)
(*                                                                         *)
(* The first part is about one document: what its passages say.  It goes   *)
(* through the chunker from the inside out - pieces packed into passages,  *)
(* a paragraph cut into pieces, lines gathered into sections - and shows   *)
(* of each loop what it keeps from one turn to the next.  The second part  *)
(* is about the store, whatever a document is cut into: nothing about      *)
(* ChunkDocument is needed there but that a row knows its source and its   *)
(* text.                                                                   *)
(***************************************************************************)
EXTENDS KnowledgeIngest, InductionLemmas

--------------------------------------------------------------------------------
\* Texts and their letters.

\* The letters of a text.
LEMMA LettersType ==
  ASSUME NEW text \in Seq(Int)
  PROVE  Letters(text) \in Seq(Letter) /\ Len(Letters(text)) \in 0 .. Len(text)
<1>1. PICK r \in Seq(Letter) : r = Selection(text, Letter)
  BY SelectionType
<1>2. Len(r) \in Nat /\ Len(r) <= Len(text)
  BY <1>1, SelectionLength
<1>. QED
  BY <1>1, <1>2 DEF Letters

\* The letters of two texts are those of the one, then of the other.
LEMMA LettersOfTwo ==
  ASSUME NEW s \in Seq(Int), NEW t \in Seq(Int)
  PROVE  s \o t \in Seq(Int) /\ Letters(s \o t) = Letters(s) \o Letters(t)
  BY SelectionConcat, ConcatProperties DEF Letters

\* Letters can be put together in any order.
LEMMA LettersTogether ==
  ASSUME NEW a \in Seq(Letter), NEW b \in Seq(Letter), NEW c \in Seq(Letter)
  PROVE  (a \o b) \o c = a \o (b \o c) /\ a \o b \in Seq(Letter) /\ a \o << >> = a /\ << >> \o a = a
  BY Associative, ConcatProperties, ConcatEmptySeq

\* As a fact of its own.
LEMMA LettersAssociate ==
  ASSUME NEW a \in Seq(Letter), NEW b \in Seq(Letter), NEW c \in Seq(Letter)
  PROVE  (a \o b) \o c = a \o (b \o c)
  BY LettersTogether

\* What comes after the first k letters.
LEMMA LettersRest ==
  ASSUME NEW a \in Seq(Letter), NEW b \in Seq(Letter), NEW k \in 0 .. Len(a)
  PROVE  /\ a \o b \in Seq(Letter) /\ Len(a \o b) = Len(a) + Len(b)
         /\ SubSeq(a \o b, 1, k) = SubSeq(a, 1, k)
         /\ SubSeq(a, k + 1, Len(a)) \in Seq(Letter) /\ Len(SubSeq(a, k + 1, Len(a))) = Len(a) - k
         /\ SubSeq(a \o b, k + 1, Len(a \o b)) = SubSeq(a, k + 1, Len(a)) \o b
  BY RestOfTwo

\* An empty text has no letters.
LEMMA LettersOfNothing == Letters(<< >>) = << >>
  BY SelectionOfNothing DEF Letters

\* A text without letters is one of blanks.
LEMMA WithoutLetters ==
  ASSUME NEW text \in Seq(Int)
  PROVE  Letters(text) = << >> <=> \A i \in 1 .. Len(text) : text[i] \notin Letter
<1>1. Letters(text) = << >> <=> ToSet(text) \cap Letter = {}
  BY NothingSelected DEF Letters
<1>2. DOMAIN text = 1 .. Len(text)
  OBVIOUS
<1>. QED
  BY <1>1, <1>2 DEF ToSet

\* A text cut in three.
LEMMA InThree ==
  ASSUME NEW text \in Seq(Int), NEW c \in Nat, NEW b \in Nat, c <= b, b <= Len(text)
  PROVE  /\ SubSeq(text, 1, c) \in Seq(Int) /\ Len(SubSeq(text, 1, c)) = c
         /\ \A i \in 1 .. c : SubSeq(text, 1, c)[i] = text[i]
         /\ SubSeq(text, c + 1, b) \in Seq(Int) /\ Len(SubSeq(text, c + 1, b)) = b - c
         /\ \A i \in 1 .. b - c : SubSeq(text, c + 1, b)[i] = text[c + i]
         /\ SubSeq(text, b + 1, Len(text)) \in Seq(Int)
         /\ Len(SubSeq(text, b + 1, Len(text))) = Len(text) - b
         /\ \A i \in 1 .. Len(text) - b : SubSeq(text, b + 1, Len(text))[i] = text[b + i]
         /\ text = (SubSeq(text, 1, c) \o SubSeq(text, c + 1, b)) \o SubSeq(text, b + 1, Len(text))
<1>1. /\ SubSeq(text, c + 1, b) \in Seq(Int)
      /\ Len(SubSeq(text, c + 1, b)) = b - c
      /\ \A i \in 1 .. b - c : SubSeq(text, c + 1, b)[i] = text[c + i]
      /\ SubSeq(text, 1, c) \in Seq(Int)
      /\ Len(SubSeq(text, 1, c)) = c
      /\ \A i \in 1 .. c : SubSeq(text, 1, c)[i] = text[i]
      /\ SubSeq(text, 1, c) \o SubSeq(text, c + 1, b) = SubSeq(text, 1, b)
  BY Parts
<1>2. /\ SubSeq(text, b + 1, Len(text)) \in Seq(Int)
      /\ Len(SubSeq(text, b + 1, Len(text))) = Len(text) - b
      /\ \A i \in 1 .. Len(text) - b : SubSeq(text, b + 1, Len(text))[i] = text[b + i]
      /\ SubSeq(text, 1, b) \o SubSeq(text, b + 1, Len(text)) = text
  BY CutInTwo
<1>. QED
  BY <1>1, <1>2

\* A hole in a part of a text is one in the text.
LEMMA HoleInPart ==
  ASSUME NEW text \in Seq(Int), NEW q \in Seq(Int), NEW c \in Nat, c + Len(q) <= Len(text),
         \A i \in 1 .. Len(q) : q[i] = text[c + i], HasHole(q)
  PROVE  HasHole(text)
<1>1. Len(q) \in Nat /\ Len(text) \in Nat /\ DOMAIN q = 1 .. Len(q) /\ DOMAIN text = 1 .. Len(text)
      /\ MaxChars \in Nat
  BY ChunkerAssumption
<1>2. PICK i \in 1 .. Len(q) :
          \A k \in i .. i + MaxChars - 1 : k \in 1 .. Len(q) /\ q[k] \notin Letter
  BY <1>1 DEF HasHole
<1>3. c + i \in 1 .. Len(text)
  BY <1>1
<1>4. ASSUME NEW k \in c + i .. c + i + MaxChars - 1
      PROVE  k \in 1 .. Len(text) /\ text[k] \notin Letter
  <2>1. k - c \in i .. i + MaxChars - 1 /\ c + (k - c) = k
    <3>1. i \in Nat
      BY <1>1
    <3>2. MaxChars \in Nat
      BY <1>1
    <3>. QED
      BY <3>1, <3>2, ShiftedRange
  <2>2. k - c \in 1 .. Len(q) /\ q[k - c] \notin Letter
    BY <1>2, <2>1
  <2>3. k \in 1 .. Len(text)
    BY <1>1, <2>1, <2>2
  <2>4. q[k - c] = text[c + (k - c)]
    BY <2>2
  <2>. QED
    BY <2>1, <2>2, <2>3, <2>4
<1>. QED
  BY <1>1, <1>3, <1>4 DEF HasHole

\* What remains of a text without the blanks around it.
LEMMA StripIs ==
  ASSUME NEW text \in Seq(Int)
  PROVE  /\ Strip(text) \in Seq(Int) /\ Letters(Strip(text)) = Letters(text)
         /\ Len(Strip(text)) <= Len(text)
         /\ Strip(text) = << >> <=> Letters(text) = << >>
         /\ Strip(text) # << >> =>
               Strip(text)[1] \in Letter /\ Strip(text)[Len(Strip(text))] \in Letter
         /\ HasHole(Strip(text)) => HasHole(text)
<1> DEFINE solid == {i \in DOMAIN text : text[i] \in Letter}
<1>1. DOMAIN text = 1 .. Len(text) /\ Len(text) \in Nat
  OBVIOUS
<1>2. CASE solid = {}
  <2>1. Strip(text) = << >> /\ << >> \in Seq(Int) /\ Len(<< >>) = 0 /\ DOMAIN << >> = {}
    BY <1>2 DEF Strip
  <2>2. Letters(text) = << >>
    BY <1>1, <1>2, WithoutLetters
  <2>3. ~HasHole(<< >>)
    BY <2>1 DEF HasHole
  <2>. QED
    BY <1>1, <2>1, <2>2, <2>3, LettersOfNothing
<1>3. CASE solid # {}
  <2>1. solid \subseteq Nat /\ IsFiniteSet(solid)
    <3>1. IsFiniteSet(1 .. Len(text))
      BY <1>1, FS_Interval
    <3>. QED
      BY <1>1, <3>1, FS_Subset
  <2>2. /\ Min(solid) \in solid /\ Max(solid) \in solid
        /\ \A k \in solid : Min(solid) <= k /\ Max(solid) >= k
    <3>. HIDE DEF solid
    <3>. QED
      BY <1>3, <2>1, MinIs, MaxIs
  <2>3. PICK a, b \in 1 .. Len(text) :
            /\ a = Min(solid) /\ b = Max(solid) /\ a <= b /\ text[a] \in Letter
                   /\ text[b] \in Letter
            /\ \A k \in solid : k \in a .. b
    <3>1. Min(solid) \in DOMAIN text /\ Max(solid) \in DOMAIN text
      BY <2>2
    <3>2. PICK a, b \in 1 .. Len(text) : a = Min(solid) /\ b = Max(solid)
      BY <1>1, <3>1
    <3>3. \A k \in solid : k \in Nat /\ a <= k /\ k <= b
      BY <2>1, <2>2, <3>2
    <3>4. a <= b /\ text[a] \in Letter /\ text[b] \in Letter
      BY <2>2, <3>2, <3>3
    <3>5. \A k \in solid : k \in a .. b
      BY <3>3
    <3>. HIDE DEF solid
    <3>. QED
      BY <3>2, <3>4, <3>5
  <2>4. Strip(text) = SubSeq(text, a, b)
    BY <1>3, <2>3 DEF Strip
  <2>5. \A i \in 1 .. Len(text) : i \notin a .. b => text[i] \notin Letter
    BY <1>1, <2>3
  <2>6. PICK c \in Nat : c = a - 1 /\ a = c + 1 /\ c <= b /\ b <= Len(text) /\ b - c >= 1
    <3>1. a - 1 \in Nat /\ a = (a - 1) + 1 /\ a - 1 <= b /\ b <= Len(text) /\ b - (a - 1) >= 1
      BY <1>1, <2>3
    <3>. QED
      BY <3>1
  <2>7. b \in Nat /\ Len(text) <= Len(text)
    BY <1>1
  <2>8. /\ SubSeq(text, 1, c) \in Seq(Int) /\ Len(SubSeq(text, 1, c)) = c
        /\ \A i \in 1 .. c : SubSeq(text, 1, c)[i] = text[i]
        /\ SubSeq(text, c + 1, b) \in Seq(Int) /\ Len(SubSeq(text, c + 1, b)) = b - c
        /\ \A i \in 1 .. b - c : SubSeq(text, c + 1, b)[i] = text[c + i]
        /\ SubSeq(text, b + 1, Len(text)) \in Seq(Int)
        /\ Len(SubSeq(text, b + 1, Len(text))) = Len(text) - b
        /\ \A i \in 1 .. Len(text) - b : SubSeq(text, b + 1, Len(text))[i] = text[b + i]
        /\ text = (SubSeq(text, 1, c) \o SubSeq(text, c + 1, b)) \o SubSeq(text, b + 1, Len(text))
    BY <2>6, <2>7, InThree
  <2>9. PICK p, q, r \in Seq(Int) :
           /\ Len(p) = c /\ \A i \in 1 .. c : p[i] = text[i]
           /\ q = SubSeq(text, c + 1, b) /\ Len(q) = b - c
           /\ \A i \in 1 .. b - c : q[i] = text[c + i]
           /\ Len(r) = Len(text) - b /\ \A i \in 1 .. Len(text) - b : r[i] = text[b + i]
           /\ text = (p \o q) \o r
    BY <2>8
  <2>10. Letters(p) = << >> /\ Letters(r) = << >>
    <3>1. \A i \in 1 .. Len(p) : p[i] \notin Letter
      <4>1. \A i \in 1 .. c : i \in 1 .. Len(text) /\ i \notin a .. b
        BY <1>1, <2>6
      <4>. QED
        BY <2>5, <2>9, <4>1
    <3>2. \A i \in 1 .. Len(r) : r[i] \notin Letter
      <4>1. PICK n \in Nat : n = Len(text)
        BY <1>1
      <4>2. \A i \in 1 .. Len(text) - b : b + i \in 1 .. Len(text) /\ b + i \notin a .. b
        <5>1. b \in Nat /\ a \in Nat
          BY <1>1, <2>3
        <5>2. \A i \in 1 .. n - b : b + i \in 1 .. n /\ b + i \notin a .. b
          BY <5>1
        <5>. QED
          BY <4>1, <5>2
      <4>. QED
        BY <2>5, <2>9, <4>2
    <3>. QED
      BY <3>1, <3>2, WithoutLetters
  <2>11. Letters(text) = Letters(q)
    <3>1. p \o q \in Seq(Int) /\ Letters(p \o q) = Letters(p) \o Letters(q)
      BY LettersOfTwo
    <3>2. Letters((p \o q) \o r) = Letters(p \o q) \o Letters(r)
      BY <3>1, LettersOfTwo
    <3>3. PICK l \in Seq(Letter) : l = Letters(q)
      BY LettersType
    <3>4. (<< >> \o l) \o << >> = l
      OBVIOUS
    <3>. QED
      BY <2>9, <2>10, <3>1, <3>2, <3>3, <3>4
  <2>12. /\ Strip(text) = q /\ q # << >> /\ Len(q) <= Len(text)
         /\ q[1] \in Letter /\ q[Len(q)] \in Letter
    <3>1. Strip(text) = q /\ Len(q) >= 1 /\ Len(q) <= Len(text)
      BY <1>1, <2>4, <2>6, <2>9
    <3>2. 1 \in 1 .. b - c /\ b - c \in 1 .. b - c /\ c + 1 = a /\ c + (b - c) = b
      BY <2>6, <2>7
    <3>3. q[1] = text[a] /\ q[b - c] = text[b]
      BY <2>9, <3>2
    <3>4. q[1] \in Letter /\ q[Len(q)] \in Letter
      BY <2>3, <2>9, <3>3
    <3>5. q # << >>
      BY <3>1
    <3>. QED
      BY <3>1, <3>4, <3>5
  <2>13. Letters(text) # << >>
    BY <2>3, WithoutLetters
  <2>14. HasHole(q) => HasHole(text)
    <3>1. c + Len(q) <= Len(text)
      BY <1>1, <2>6, <2>7, <2>9
    <3>. QED
      BY <2>9, <3>1, HoleInPart
  <2>. QED
    BY <2>11, <2>12, <2>13, <2>14
<1>. QED
  BY <1>2, <1>3

--------------------------------------------------------------------------------
\* The letters of several texts.
Content(texts) == Letters(FlattenSeq(texts))

\* The letters of texts that are put together.
LEMMA ContentIs ==
  /\ Content(<< >>) = << >>
  /\ \A t \in Seq(Int) : <<t>> \in Seq(Seq(Int)) /\ Content(<<t>>) = Letters(t)
  /\ \A a \in Seq(Seq(Int)) : Content(a) \in Seq(Letter)
  /\ \A a, b \in Seq(Seq(Int)) :
        a \o b \in Seq(Seq(Int)) /\ Content(a \o b) = Content(a) \o Content(b)
  /\ \A a \in Seq(Seq(Int)), t \in Seq(Int) :
        Append(a, t) \in Seq(Seq(Int)) /\ Content(Append(a, t)) = Content(a) \o Letters(t)
<1>1. Content(<< >>) = << >>
  BY FlattenOfNothing, LettersOfNothing DEF Content
<1>2. ASSUME NEW a \in Seq(Seq(Int)) PROVE Content(a) \in Seq(Letter)
  BY FlattenType, LettersType DEF Content
<1>3. ASSUME NEW a \in Seq(Seq(Int)), NEW b \in Seq(Seq(Int))
      PROVE  a \o b \in Seq(Seq(Int)) /\ Content(a \o b) = Content(a) \o Content(b)
  <2>1. PICK x, y \in Seq(Int) : x = FlattenSeq(a) /\ y = FlattenSeq(b)
    BY FlattenType
  <2>2. FlattenSeq(a \o b) = x \o y
    BY <2>1, FlattenConcat
  <2>3. Letters(x \o y) = Letters(x) \o Letters(y)
    BY LettersOfTwo
  <2>. QED
    BY <2>1, <2>2, <2>3, ConcatProperties DEF Content
<1>4. ASSUME NEW a \in Seq(Seq(Int)), NEW t \in Seq(Int)
      PROVE  Append(a, t) \in Seq(Seq(Int)) /\ Content(Append(a, t)) = Content(a) \o Letters(t)
  <2>1. PICK x \in Seq(Int) : x = FlattenSeq(a)
    BY FlattenType
  <2>2. FlattenSeq(Append(a, t)) = x \o t
    BY <2>1, FlattenAppend
  <2>3. Letters(x \o t) = Letters(x) \o Letters(t)
    BY LettersOfTwo
  <2>. QED
    BY <2>1, <2>2, <2>3, AppendProperties DEF Content
<1>5. ASSUME NEW t \in Seq(Int) PROVE <<t>> \in Seq(Seq(Int)) /\ Content(<<t>>) = Letters(t)
  <2>1. << >> \in Seq(Seq(Int)) /\ <<t>> = Append(<< >>, t)
    OBVIOUS
  <2>2. Content(Append(<< >>, t)) = << >> \o Letters(t) /\ Append(<< >>, t) \in Seq(Seq(Int))
    BY <1>1, <1>4, <2>1
  <2>3. << >> \o Letters(t) = Letters(t)
    BY LettersType, ConcatEmptySeq
  <2>. QED
    BY <2>1, <2>2, <2>3
<1>. QED
  BY <1>1, <1>2, <1>3, <1>4, <1>5

\* What the first of some texts say.
LEMMA ContentSoFar ==
  ASSUME NEW texts \in Seq(Seq(Int))
  PROVE  /\ Content(SubSeq(texts, 1, 0)) = << >> /\ SubSeq(texts, 1, Len(texts)) = texts
         /\ \A n \in 1 .. Len(texts) :
               /\ Content(SubSeq(texts, 1, n - 1)) \in Seq(Letter)
               /\ Letters(texts[n]) \in Seq(Letter)
               /\ Content(SubSeq(texts, 1, n)) =
                     Content(SubSeq(texts, 1, n - 1)) \o Letters(texts[n])
<1>1. SubSeq(texts, 1, 0) = << >> /\ SubSeq(texts, 1, Len(texts)) = texts
  BY SubSeqEmpty, SubSeqFull
<1>2. ASSUME NEW n \in 1 .. Len(texts)
      PROVE  /\ Content(SubSeq(texts, 1, n - 1)) \in Seq(Letter)
             /\ Letters(texts[n]) \in Seq(Letter)
             /\ Content(SubSeq(texts, 1, n)) =
                   Content(SubSeq(texts, 1, n - 1)) \o Letters(texts[n])
  <2>1. PICK m \in Int : m = n - 1
    OBVIOUS
  <2>2. texts[n] \in Seq(Int)
    OBVIOUS
  <2>3. /\ SubSeq(texts, 1, m) \in Seq(Seq(Int))
        /\ SubSeq(texts, 1, n) = Append(SubSeq(texts, 1, m), texts[n])
    BY <2>1, PrefixGrows
  <2>. QED
    BY <2>1, <2>2, <2>3, ContentIs, LettersType
<1>. QED
  BY <1>1, <1>2, ContentIs

--------------------------------------------------------------------------------
\* Passages that say what was told so far, one after the other.

\* A passage, and a letter told under a title.
Chunk == [section : Seq(Int), index : Nat, content : Seq(Int)]
Told == Seq(Int) \X Letter

\* What is told can be put together in any order.
LEMMA ToldTogether ==
  ASSUME NEW a \in Seq(Told), NEW b \in Seq(Told), NEW c \in Seq(Told)
  PROVE  (a \o b) \o c = a \o (b \o c) /\ a \o b \in Seq(Told) /\ a \o << >> = a /\ << >> \o a = a
  BY Associative, ConcatProperties, ConcatEmptySeq

\* Letters told under a title.
LEMMA UnderType ==
  ASSUME NEW title \in Seq(Int), NEW a \in Seq(Letter)
  PROVE  /\ Under(title, a) \in Seq(Told) /\ Len(Under(title, a)) = Len(a)
         /\ \A i \in 1 .. Len(a) : Under(title, a)[i] = <<title, a[i]>>
<1>1. DOMAIN a = 1 .. Len(a) /\ Len(a) \in Nat /\ \A i \in 1 .. Len(a) : a[i] \in Letter
  OBVIOUS
<1>2. \A i \in 1 .. Len(a) : <<title, a[i]>> \in Told
  BY <1>1 DEF Told
<1>3. PICK u : u = [i \in 1 .. Len(a) |-> <<title, a[i]>>]
  OBVIOUS
<1>4. u \in Seq(Told) /\ Len(u) = Len(a) /\ \A i \in 1 .. Len(a) : u[i] = <<title, a[i]>>
  <2>1. u \in [1 .. Len(a) -> Told] /\ \A i \in 1 .. Len(a) : u[i] = <<title, a[i]>>
    BY <1>2, <1>3
  <2>2. u \in Seq(Told)
    BY <1>1, <2>1
  <2>3. Len(u) = Len(a)
    BY <1>1, <2>1, <2>2
  <2>. QED
    BY <2>1, <2>2, <2>3
<1>. QED
  BY <1>1, <1>3, <1>4 DEF Under

\* What is told under one title is put together.
LEMMA UnderOfTwo ==
  ASSUME NEW title \in Seq(Int), NEW a \in Seq(Letter), NEW b \in Seq(Letter)
  PROVE  Under(title, a \o b) = Under(title, a) \o Under(title, b)
<1>1. PICK c \in Seq(Letter) :
          /\ c = a \o b /\ Len(c) = Len(a) + Len(b)
          /\ \A i \in 1 .. Len(a) : c[i] = a[i]
          /\ \A i \in 1 .. Len(b) : c[Len(a) + i] = b[i]
  <2>1. /\ a \o b \in Seq(Letter)
        /\ Len(a \o b) = Len(a) + Len(b)
        /\ \A i \in 1 .. Len(a) : (a \o b)[i] = a[i]
        /\ \A i \in 1 .. Len(b) : (a \o b)[Len(a) + i] = b[i]
    BY Joint
  <2>. QED
    BY <2>1
<1>2. PICK u \in Seq(Told) :
          u = Under(title, a) /\ Len(u) = Len(a) /\ \A i \in 1 .. Len(a) : u[i] = <<title, a[i]>>
  BY UnderType
<1>3. PICK v \in Seq(Told) :
          v = Under(title, b) /\ Len(v) = Len(b) /\ \A i \in 1 .. Len(b) : v[i] = <<title, b[i]>>
  BY UnderType
<1>4. PICK w \in Seq(Told) :
          w = Under(title, c) /\ Len(w) = Len(c) /\ \A i \in 1 .. Len(c) : w[i] = <<title, c[i]>>
  BY UnderType
<1>5. PICK x \in Seq(Told) :
          /\ x = u \o v /\ Len(x) = Len(u) + Len(v)
          /\ \A i \in 1 .. Len(u) : x[i] = u[i]
          /\ \A i \in 1 .. Len(v) : x[Len(u) + i] = v[i]
  <2>1. /\ u \o v \in Seq(Told)
        /\ Len(u \o v) = Len(u) + Len(v)
        /\ \A i \in 1 .. Len(u) : (u \o v)[i] = u[i]
        /\ \A i \in 1 .. Len(v) : (u \o v)[Len(u) + i] = v[i]
    BY Joint
  <2>. QED
    BY <2>1
<1>6. Len(a) \in Nat /\ Len(b) \in Nat /\ Len(w) = Len(x)
  BY <1>1, <1>2, <1>3, <1>4, <1>5
<1>7. ASSUME NEW i \in 1 .. Len(w) PROVE w[i] = x[i]
  <2>1. CASE i \in 1 .. Len(a)
    <3>1. i \in 1 .. Len(c) /\ i \in 1 .. Len(u)
      BY <1>1, <1>2, <1>4, <1>6, <2>1
    <3>. QED
      BY <1>1, <1>2, <1>4, <1>5, <2>1, <3>1
  <2>2. CASE i \notin 1 .. Len(a)
    <3>1. PICK j \in 1 .. Len(b) : i = Len(a) + j
      <4>1. i - Len(a) \in 1 .. Len(b) /\ i = Len(a) + (i - Len(a))
        BY <1>1, <1>4, <1>6, <2>2
      <4>. QED
        BY <4>1
    <3>2. i \in 1 .. Len(c) /\ j \in 1 .. Len(v)
      BY <1>3, <1>4
    <3>3. w[i] = <<title, c[i]>> /\ c[i] = b[j]
      BY <1>1, <1>4, <3>1, <3>2
    <3>4. x[i] = v[j] /\ v[j] = <<title, b[j]>>
      BY <1>2, <1>3, <1>5, <3>1, <3>2
    <3>. QED
      BY <3>3, <3>4
  <2>. QED
    BY <2>1, <2>2
<1>8. w = x
  BY <1>6, <1>7, SeqEqual
<1>. QED
  BY <1>1, <1>2, <1>3, <1>4, <1>5, <1>8

\* No letters tell nothing.
LEMMA UnderOfNothing ==
  ASSUME NEW title \in Seq(Int)
  PROVE  Under(title, << >>) = << >>
<1>1. << >> \in Seq(Letter) /\ Len(<< >>) = 0
  OBVIOUS
<1>2. Under(title, << >>) \in Seq(Told) /\ Len(Under(title, << >>)) = 0
  BY <1>1, UnderType
<1>. QED
  BY <1>2

\* More is told under a title.
LEMMA UnderFollows ==
  ASSUME NEW title \in Seq(Int), NEW told \in Seq(Told),
      NEW a \in Seq(Letter), NEW b \in Seq(Letter)
  PROVE  /\ told \o Under(title, a) \in Seq(Told)
         /\ (told \o Under(title, a)) \o Under(title, b) = told \o Under(title, a \o b)
<1>1. PICK x, y \in Seq(Told) : x = Under(title, a) /\ y = Under(title, b)
  BY UnderType
<1>2. told \o x \in Seq(Told) /\ (told \o x) \o y = told \o (x \o y)
  BY ToldTogether
<1>3. Under(title, a \o b) = x \o y
  BY <1>1, UnderOfTwo
<1>. QED
  BY <1>1, <1>2, <1>3

\* What a passage says that the one before did not.
LEMMA NewType ==
  ASSUME NEW chunk \in Chunk, NEW k \in Nat, k <= Len(Letters(chunk.content))
  PROVE  /\ New(chunk, k) \in Seq(Letter)
         /\ Len(New(chunk, k)) = Len(Letters(chunk.content)) - k
         /\ Under(chunk.section, New(chunk, k)) \in Seq(Told)
<1>1. PICK l \in Seq(Letter) : l = Letters(chunk.content)
  <2>1. chunk.content \in Seq(Int)
    BY DEF Chunk
  <2>. QED
    BY <2>1, LettersType
<1>2. Len(l) \in Nat /\ Len(l) <= Len(l) /\ k <= Len(l)
  BY <1>1
<1>3. SubSeq(l, k + 1, Len(l)) \in Seq(Letter) /\ Len(SubSeq(l, k + 1, Len(l))) = Len(l) - k
  BY <1>2, Parts
<1>4. New(chunk, k) \in Seq(Letter) /\ Len(New(chunk, k)) = Len(Letters(chunk.content)) - k
  BY <1>1, <1>3 DEF New
<1>5. chunk.section \in Seq(Int)
  BY DEF Chunk
<1>. QED
  BY <1>4, <1>5, UnderType

\* The passage n says something new and repeats no more than it may.
Proper(chunks, n, k, holes) ==
    /\ k <= Len(Letters(chunks[n].content))
    /\ k > 0 => n > 1 /\ Repeats(chunks[n - 1], chunks[n], k)
    /\ holes \/ New(chunks[n], k) # << >>
    /\ Len(chunks[n].content) <= MaxChars + 2

\* What each passage says that the one before did not.
Says(chunks, repeated) ==
    [n \in DOMAIN chunks |-> Under(chunks[n].section, New(chunks[n], repeated[n]))]

\* Passages that repeat no more than the overlap, and between them tell what they are to tell.
Chain(chunks, told, holes) ==
    /\ chunks \in Seq(Chunk)
    /\ \E repeated \in Seq(0 .. OverlapChars) :
           /\ Len(repeated) = Len(chunks)
           /\ \A n \in 1 .. Len(chunks) : Proper(chunks, n, repeated[n], holes)
           /\ FlattenSeq(Says(chunks, repeated)) = told

\* No passages tell nothing.
LEMMA ChainOfNothing ==
  ASSUME NEW holes
  PROVE  Chain(<< >>, << >>, holes)
<1>1. << >> \in Seq(Chunk) /\ << >> \in Seq(0 .. OverlapChars) /\ Len(<< >>) = 0 /\ 1 .. 0 = {}
  OBVIOUS
<1>2. Says(<< >>, << >>) = << >>
  BY DEF Says
<1>. QED
  BY <1>1, <1>2, FlattenOfNothing DEF Chain

\* What the passages say.
LEMMA SaysType ==
  ASSUME NEW chunks \in Seq(Chunk), NEW repeated \in Seq(0 .. OverlapChars),
         Len(repeated) = Len(chunks),
         \A n \in 1 .. Len(chunks) : repeated[n] <= Len(Letters(chunks[n].content))
  PROVE  /\ Says(chunks, repeated) \in Seq(Seq(Told))
         /\ Len(Says(chunks, repeated)) = Len(chunks)
         /\ \A n \in 1 .. Len(chunks) :
               Says(chunks, repeated)[n] = Under(chunks[n].section, New(chunks[n], repeated[n]))
<1> DEFINE Part(n) == Under(chunks[n].section, New(chunks[n], repeated[n]))
<1>1. DOMAIN chunks = 1 .. Len(chunks) /\ Len(chunks) \in Nat /\ DOMAIN repeated = 1 .. Len(chunks)
  OBVIOUS
<1>2. ASSUME NEW n \in 1 .. Len(chunks) PROVE Part(n) \in Seq(Told)
  <2>1. chunks[n] \in Chunk
    BY <1>1
  <2>2. repeated[n] \in 0 .. OverlapChars
    <3>1. n \in 1 .. Len(repeated)
      OBVIOUS
    <3>. QED
      BY <3>1, InSeq
  <2>3. repeated[n] \in Nat
    BY <2>2
  <2>. QED
    BY <2>1, <2>3, NewType
<1>3. Says(chunks, repeated) = [n \in 1 .. Len(chunks) |-> Part(n)]
  BY <1>1 DEF Says
<1>. HIDE DEF Part
<1>4. PICK f : f = [n \in 1 .. Len(chunks) |-> Part(n)]
  OBVIOUS
<1>5. f \in [1 .. Len(chunks) -> Seq(Told)] /\ \A n \in 1 .. Len(chunks) : f[n] = Part(n)
  BY <1>2, <1>4
<1>6. f \in Seq(Seq(Told))
  BY <1>1, <1>5
<1>7. Len(f) = Len(chunks)
  BY <1>1, <1>5, <1>6
<1>. QED
  BY <1>3, <1>4, <1>5, <1>6, <1>7 DEF Part

\* One more passage says what is new in it.
LEMMA ChainGrows ==
  ASSUME NEW chunks, NEW told, NEW holes, Chain(chunks, told, holes),
         NEW chunk \in Chunk, NEW k \in 0 .. OverlapChars,
         k <= Len(Letters(chunk.content)),
         k > 0 => chunks # << >> /\ Repeats(chunks[Len(chunks)], chunk, k),
         holes \/ New(chunk, k) # << >>,
         Len(chunk.content) <= MaxChars + 2
  PROVE  Chain(Append(chunks, chunk), told \o Under(chunk.section, New(chunk, k)), holes)
<1>1. PICK repeated \in Seq(0 .. OverlapChars) :
          /\ chunks \in Seq(Chunk) /\ Len(repeated) = Len(chunks)
          /\ \A n \in 1 .. Len(chunks) : Proper(chunks, n, repeated[n], holes)
          /\ FlattenSeq(Says(chunks, repeated)) = told
  BY DEF Chain
<1>2. PICK L \in Nat : L = Len(chunks) /\ L = Len(repeated)
  BY <1>1
<1>3. PICK more \in Seq(Chunk) :
          /\ more = Append(chunks, chunk) /\ Len(more) = L + 1 /\ more[L + 1] = chunk
          /\ \A n \in 1 .. L : more[n] = chunks[n]
  <2>1. chunks \in Seq(Chunk)
    BY <1>1
  <2>2. /\ Append(chunks, chunk) \in Seq(Chunk) /\ Len(Append(chunks, chunk)) = Len(chunks) + 1
        /\ Append(chunks, chunk)[Len(chunks) + 1] = chunk
        /\ \A n \in 1 .. Len(chunks) : Append(chunks, chunk)[n] = chunks[n]
    BY <2>1, OneAppended
  <2>. QED
    BY <1>2, <2>2
<1>4. PICK again \in Seq(0 .. OverlapChars) :
          /\ again = Append(repeated, k) /\ Len(again) = L + 1 /\ again[L + 1] = k
          /\ \A n \in 1 .. L : again[n] = repeated[n]
  <2>1. /\ Append(repeated, k) \in Seq(0 .. OverlapChars)
        /\ Len(Append(repeated, k)) = Len(repeated) + 1
        /\ Append(repeated, k)[Len(repeated) + 1] = k
        /\ \A n \in 1 .. Len(repeated) : Append(repeated, k)[n] = repeated[n]
    BY OneAppended
  <2>. QED
    BY <1>2, <2>1
<1>5. ASSUME NEW n \in 1 .. L + 1 PROVE Proper(more, n, again[n], holes)
  <2>1. CASE n \in 1 .. L
    <3>1. more[n] = chunks[n] /\ again[n] = repeated[n] /\ Proper(chunks, n, repeated[n], holes)
      BY <1>1, <1>2, <1>3, <1>4, <2>1
    <3>2. n > 1 => more[n - 1] = chunks[n - 1]
      <4>1. n > 1 => n - 1 \in 1 .. L
        BY <2>1
      <4>. QED
        BY <1>3, <4>1
    <3>. QED
      BY <3>1, <3>2 DEF Proper
  <2>2. CASE n = L + 1
    <3>1. more[n] = chunk /\ again[n] = k /\ n - 1 = L
      BY <1>2, <1>3, <1>4, <2>2
    <3>2. ASSUME k > 0 PROVE n > 1 /\ Repeats(more[n - 1], more[n], k)
      <4>1. L >= 1
        BY <1>1, <1>2, <3>2
      <4>2. L \in 1 .. L /\ n > 1
        BY <2>2, <4>1
      <4>. QED
        BY <1>2, <1>3, <3>1, <3>2, <4>2
    <3>. QED
      BY <3>1, <3>2 DEF Proper
  <2>. QED
    BY <2>1, <2>2
<1>6. PICK u \in Seq(Seq(Told)) :
          /\ u = Says(chunks, repeated) /\ Len(u) = L
          /\ \A n \in 1 .. L : u[n] = Under(chunks[n].section, New(chunks[n], repeated[n]))
  <2>1. \A n \in 1 .. Len(chunks) : repeated[n] <= Len(Letters(chunks[n].content))
    BY <1>1 DEF Proper
  <2>2. chunks \in Seq(Chunk) /\ Len(repeated) = Len(chunks)
    BY <1>1
  <2>3. /\ Says(chunks, repeated) \in Seq(Seq(Told))
        /\ Len(Says(chunks, repeated)) = Len(chunks)
        /\ \A n \in 1 .. Len(chunks) :
              Says(chunks, repeated)[n] = Under(chunks[n].section, New(chunks[n], repeated[n]))
    BY <2>1, <2>2, SaysType
  <2>. QED
    BY <1>2, <2>3
<1>7. PICK v \in Seq(Seq(Told)) :
          /\ v = Says(more, again) /\ Len(v) = L + 1
          /\ \A n \in 1 .. L + 1 : v[n] = Under(more[n].section, New(more[n], again[n]))
  <2>1. \A n \in 1 .. L + 1 : again[n] <= Len(Letters(more[n].content))
    BY <1>5 DEF Proper
  <2>2. Len(more) = L + 1 /\ Len(again) = Len(more)
    BY <1>3, <1>4
  <2>3. \A n \in 1 .. Len(more) : again[n] <= Len(Letters(more[n].content))
    BY <2>1, <2>2
  <2>4. /\ Says(more, again) \in Seq(Seq(Told))
        /\ Len(Says(more, again)) = Len(more)
        /\ \A n \in 1 .. Len(more) :
              Says(more, again)[n] = Under(more[n].section, New(more[n], again[n]))
    BY <2>2, <2>3, SaysType
  <2>. QED
    BY <2>2, <2>4
<1>8. PICK part \in Seq(Told) : part = Under(chunk.section, New(chunk, k))
  <2>1. k \in Nat
    OBVIOUS
  <2>. QED
    BY <2>1, NewType
<1>9. v = Append(u, part)
  <2>1. /\ Append(u, part) \in Seq(Seq(Told)) /\ Len(Append(u, part)) = Len(u) + 1
        /\ Append(u, part)[Len(u) + 1] = part
        /\ \A n \in 1 .. Len(u) : Append(u, part)[n] = u[n]
    BY OneAppended
  <2>2. /\ Append(u, part) \in Seq(Seq(Told)) /\ Len(Append(u, part)) = L + 1
        /\ Append(u, part)[L + 1] = part /\ \A n \in 1 .. L : Append(u, part)[n] = u[n]
    BY <1>6, <2>1
  <2>3. ASSUME NEW n \in 1 .. L + 1 PROVE v[n] = Append(u, part)[n]
    <3>1. CASE n \in 1 .. L
      BY <1>3, <1>4, <1>6, <1>7, <2>2, <3>1
    <3>2. CASE n = L + 1
      BY <1>3, <1>4, <1>7, <1>8, <2>2, <3>2
    <3>3. n \in 1 .. L \/ n = L + 1
      OBVIOUS
    <3>. QED
      BY <3>1, <3>2, <3>3
  <2>. QED
    BY <1>7, <2>2, <2>3, SeqEqual
<1>10. FlattenSeq(v) = told \o part
  BY <1>1, <1>6, <1>9, FlattenAppend
<1>. QED
  BY <1>3, <1>4, <1>5, <1>7, <1>8, <1>10 DEF Chain

\* What a chain is made of.
LEMMA ChainType ==
  ASSUME NEW chunks, NEW told, NEW holes, Chain(chunks, told, holes)
  PROVE  chunks \in Seq(Chunk) /\ told \in Seq(Told)
<1>1. PICK repeated \in Seq(0 .. OverlapChars) :
          /\ chunks \in Seq(Chunk) /\ Len(repeated) = Len(chunks)
          /\ \A n \in 1 .. Len(chunks) : Proper(chunks, n, repeated[n], holes)
          /\ FlattenSeq(Says(chunks, repeated)) = told
  BY DEF Chain
<1>2. \A n \in 1 .. Len(chunks) : repeated[n] <= Len(Letters(chunks[n].content))
  BY <1>1 DEF Proper
<1>3. Says(chunks, repeated) \in Seq(Seq(Told))
  BY <1>1, <1>2, SaysType
<1>. QED
  BY <1>1, <1>3, FlattenType

--------------------------------------------------------------------------------
\* Pieces are packed into passages.

\* The letters of one text are the last ones of another.
Ends(text, end) == \E before \in Seq(Letter) : Letters(text) = before \o Letters(end)

\* A text ends itself.
LEMMA EndsItself ==
  ASSUME NEW text \in Seq(Int)
  PROVE  Ends(text, text)
<1>1. PICK l \in Seq(Letter) : l = Letters(text)
  BY LettersType
<1>2. << >> \in Seq(Letter) /\ l = << >> \o l
  BY LettersTogether
<1>. QED
  BY <1>1, <1>2 DEF Ends

\* The end of an end is an end.
LEMMA EndsFurther ==
  ASSUME NEW a \in Seq(Int), NEW b \in Seq(Int), NEW c \in Seq(Int), Ends(a, b), Ends(b, c)
  PROVE  Ends(a, c)
<1>1. PICK x \in Seq(Letter) : Letters(a) = x \o Letters(b)
  BY DEF Ends
<1>2. PICK y \in Seq(Letter) : Letters(b) = y \o Letters(c)
  BY DEF Ends
<1>3. PICK z \in Seq(Letter) : z = Letters(c)
  BY LettersType
<1>4. x \o y \in Seq(Letter) /\ (x \o y) \o z = x \o (y \o z)
  BY LettersTogether
<1>5. Letters(a) = (x \o y) \o Letters(c)
  BY <1>1, <1>2, <1>3, <1>4
<1>. QED
  BY <1>4, <1>5 DEF Ends

\* What is left after the first c characters is an end.
LEMMA EndsOfText ==
  ASSUME NEW text \in Seq(Int), NEW c \in Nat, c <= Len(text)
  PROVE  /\ SubSeq(text, c + 1, Len(text)) \in Seq(Int)
         /\ Len(SubSeq(text, c + 1, Len(text))) = Len(text) - c
         /\ Ends(text, SubSeq(text, c + 1, Len(text)))
<1>1. /\ SubSeq(text, 1, c) \in Seq(Int)
      /\ SubSeq(text, c + 1, Len(text)) \in Seq(Int)
      /\ Len(SubSeq(text, c + 1, Len(text))) = Len(text) - c
      /\ SubSeq(text, 1, c) \o SubSeq(text, c + 1, Len(text)) = text
  BY CutInTwo
<1>2. PICK p, q \in Seq(Int) : q = SubSeq(text, c + 1, Len(text)) /\ p \o q = text
  BY <1>1
<1>3. Letters(text) = Letters(p) \o Letters(q)
  BY <1>2, LettersOfTwo
<1>4. Ends(text, q)
  BY <1>3, LettersType DEF Ends
<1>. QED
  BY <1>1, <1>2, <1>4

\* What is carried into the next passage are the last letters of the one that is closed.
LEMMA TailOverlapIs ==
  ASSUME NEW buffer \in Seq(Int)
  PROVE  /\ TailOverlap(buffer) \in Seq(Int) /\ Len(TailOverlap(buffer)) <= OverlapChars
         /\ Ends(buffer, TailOverlap(buffer))
<1> DEFINE tail == SubSeq(buffer, Len(buffer) - OverlapChars + 1, Len(buffer))
           blanks == {i \in DOMAIN tail : tail[i] = Space}
           words == IF blanks = {} THEN tail ELSE SubSeq(tail, Min(blanks) + 1, Len(tail))
<1>1. OverlapChars \in Nat /\ Len(buffer) \in Nat
  BY ChunkerAssumption
<1>2. TailOverlap(buffer) =
          IF OverlapChars = 0 \/ Len(buffer) <= OverlapChars THEN << >> ELSE Strip(words)
  BY DEF TailOverlap
<1>3. CASE OverlapChars = 0 \/ Len(buffer) <= OverlapChars
  <2>1. TailOverlap(buffer) = << >> /\ << >> \in Seq(Int) /\ Len(<< >>) = 0
    BY <1>2, <1>3
  <2>2. PICK l \in Seq(Letter) : l = Letters(buffer)
    BY LettersType
  <2>3. l = l \o << >>
    BY ConcatEmptySeq
  <2>4. Ends(buffer, << >>)
    BY <2>2, <2>3, LettersOfNothing DEF Ends
  <2>. QED
    BY <1>1, <2>1, <2>4
<1>4. CASE ~(OverlapChars = 0 \/ Len(buffer) <= OverlapChars)
  <2>1. PICK c \in Nat : c = Len(buffer) - OverlapChars /\ c <= Len(buffer)
    <3>1. Len(buffer) - OverlapChars \in Nat /\ Len(buffer) - OverlapChars <= Len(buffer)
      BY <1>1, <1>4
    <3>. QED
      BY <3>1
  <2>2. /\ SubSeq(buffer, c + 1, Len(buffer)) \in Seq(Int)
        /\ Len(SubSeq(buffer, c + 1, Len(buffer))) = Len(buffer) - c
        /\ Ends(buffer, SubSeq(buffer, c + 1, Len(buffer)))
    BY <2>1, EndsOfText
  <2>3. tail \in Seq(Int) /\ Len(tail) = OverlapChars /\ Ends(buffer, tail)
    <3>1. Len(buffer) - c = OverlapChars
      BY <1>1, <2>1
    <3>. QED
      BY <2>1, <2>2, <3>1
  <2>4. words \in Seq(Int) /\ Len(words) <= OverlapChars /\ Ends(tail, words)
    <3>1. CASE blanks = {}
      <4>1. words = tail
        <5>. HIDE DEF tail, blanks
        <5>. QED
          BY <3>1
      <4>. HIDE DEF words, tail
      <4>. QED
        BY <1>1, <2>3, <4>1, EndsItself
    <3>2. CASE blanks # {}
      <4>1. Min(blanks) \in Nat /\ Min(blanks) <= OverlapChars
        <5>1. blanks \subseteq 1 .. OverlapChars
          <6>. HIDE DEF tail
          <6>. QED
            BY <2>3
        <5>2. blanks \subseteq Nat
          BY <5>1
        <5>. HIDE DEF blanks
        <5>3. Min(blanks) \in blanks
          BY <3>2, <5>2, MinIs
        <5>4. Min(blanks) \in 1 .. OverlapChars
          BY <5>1, <5>3
        <5>. QED
          BY <5>4
      <4>2. words = SubSeq(tail, Min(blanks) + 1, Len(tail))
        <5>. HIDE DEF tail, blanks
        <5>. QED
          BY <3>2
      <4>. HIDE DEF words, tail, blanks
      <4>3. words \in Seq(Int) /\ Len(words) = OverlapChars - Min(blanks) /\ Ends(tail, words)
        BY <2>3, <4>1, <4>2, EndsOfText
      <4>4. OverlapChars - Min(blanks) <= OverlapChars
        BY <1>1, <4>1
      <4>. QED
        BY <4>3, <4>4
    <3>. QED
      BY <3>1, <3>2
  <2>. HIDE DEF words, tail
  <2>5. Ends(buffer, words)
    BY <2>3, <2>4, EndsFurther
  <2>6. TailOverlap(buffer) = Strip(words)
    BY <1>2, <1>4
  <2>7. /\ Strip(words) \in Seq(Int) /\ Letters(Strip(words)) = Letters(words)
        /\ Len(Strip(words)) <= Len(words)
    BY <2>4, StripIs
  <2>8. Len(Strip(words)) <= OverlapChars
    <3>1. Len(Strip(words)) \in Nat /\ Len(words) \in Nat
      BY <2>4, <2>7
    <3>. QED
      BY <1>1, <2>4, <2>7, <3>1
  <2>9. Ends(buffer, Strip(words))
    BY <2>5, <2>7 DEF Ends
  <2>. QED
    BY <2>6, <2>7, <2>8, <2>9
<1>. QED
  BY <1>3, <1>4

\* What a paragraph is cut into.
Piece(holes) ==
    {piece \in Seq(Int) : Len(piece) <= MaxChars /\ (holes \/ Letters(piece) # << >>)}

\* A packing of pieces, and the passages and buffer it keeps.
Packing == [chunks : Seq(Chunk), buffer : Seq(Int)]

\* The passage that the buffer would be closed to.
Draft(acc, title) ==
    [section |-> title, index |-> Len(acc.chunks), content |-> Strip(acc.buffer)]

\* The passages with what is in the buffer: k letters of it were said before.
Drafted(acc, title, before, k, holes) ==
    /\ Chain(acc.chunks, before, holes)
    /\ k <= Len(Letters(acc.buffer))
    /\ k > 0 => acc.chunks # << >> /\ Repeats(acc.chunks[Len(acc.chunks)], Draft(acc, title), k)
    /\ acc.buffer # << >> => holes \/ New(Draft(acc, title), k) # << >>

\* Half-way through a section: the passages and what is open in the buffer tell what was read.
Half(acc, title, told, holes) ==
    /\ acc \in Packing /\ Len(acc.buffer) <= MaxChars + 2
    /\ \E k \in 0 .. OverlapChars, before \in Seq(Told) :
           /\ Drafted(acc, title, before, k, holes)
           /\ told = before \o Under(title, New(Draft(acc, title), k))

\* Closing the buffer adds the draft, which has its letters (make_chunk).
LEMMA DraftIs ==
  ASSUME NEW acc \in Packing, NEW title \in Seq(Int)
  PROVE  /\ Draft(acc, title) \in Chunk
         /\ Draft(acc, title).section = title
         /\ Letters(Draft(acc, title).content) = Letters(acc.buffer)
         /\ Len(Draft(acc, title).content) <= Len(acc.buffer)
         /\ MakeChunk(acc, title) = Append(acc.chunks, Draft(acc, title))
<1>1. acc.buffer \in Seq(Int) /\ acc.chunks \in Seq(Chunk) /\ Len(acc.chunks) \in Nat
  BY DEF Packing
<1>. QED
  BY <1>1, StripIs DEF Draft, Chunk, MakeChunk

\* Packing a section begins with nothing in the buffer.
LEMMA HalfBegins ==
  ASSUME NEW chunks, NEW told, NEW holes, Chain(chunks, told, holes), NEW title \in Seq(Int)
  PROVE  Half([chunks |-> chunks, buffer |-> << >>], title, told, holes)
<1>1. chunks \in Seq(Chunk) /\ told \in Seq(Told)
  BY ChainType
<1>2. PICK acc \in Packing : acc = [chunks |-> chunks, buffer |-> << >>]
  <2>1. [chunks |-> chunks, buffer |-> << >>] \in Packing
    BY <1>1 DEF Packing
  <2>. QED
    BY <2>1
<1>3. acc.chunks = chunks /\ acc.buffer = << >> /\ Len(acc.buffer) = 0 /\ MaxChars \in Nat
      /\ OverlapChars \in Nat
  BY <1>2, ChunkerAssumption
<1>4. Letters(acc.buffer) = << >> /\ Len(Letters(acc.buffer)) = 0
  BY <1>3, LettersOfNothing
<1>5. PICK d \in Chunk : d = Draft(acc, title) /\ Len(Letters(d.content)) = 0
  BY <1>2, <1>4, DraftIs
<1>6. New(d, 0) = << >>
  <2>1. 0 \in Nat /\ 0 <= Len(Letters(d.content)) /\ Len(Letters(d.content)) - 0 = 0
    BY <1>5
  <2>2. New(d, 0) \in Seq(Letter) /\ Len(New(d, 0)) = 0
    BY <2>1, NewType
  <2>. QED
    BY <2>2
<1>7. told = told \o Under(title, New(d, 0))
  BY <1>1, <1>6, UnderOfNothing, ConcatEmptySeq
<1>8. Drafted(acc, title, told, 0, holes)
  BY <1>3, <1>4 DEF Drafted
<1>9. 0 \in 0 .. OverlapChars /\ Len(acc.buffer) <= MaxChars + 2
  BY <1>3
<1>. QED
  BY <1>1, <1>2, <1>5, <1>7, <1>8, <1>9 DEF Half

\* Closing the buffer.
LEMMA HalfCloses ==
  ASSUME NEW acc, NEW title \in Seq(Int), NEW told, NEW holes, Half(acc, title, told, holes),
         acc.buffer # << >>
  PROVE  Chain(MakeChunk(acc, title), told, holes)
<1>1. acc \in Packing /\ Len(acc.buffer) <= MaxChars + 2
  BY DEF Half
<1>2. PICK k \in 0 .. OverlapChars, before \in Seq(Told) :
          /\ Drafted(acc, title, before, k, holes)
          /\ told = before \o Under(title, New(Draft(acc, title), k))
  BY DEF Half
<1>3. PICK d \in Chunk :
          /\ d = Draft(acc, title) /\ d.section = title /\ Letters(d.content) = Letters(acc.buffer)
          /\ Len(d.content) <= Len(acc.buffer) /\ MakeChunk(acc, title) = Append(acc.chunks, d)
  BY <1>1, DraftIs
<1>4. Len(d.content) <= MaxChars + 2
  <2>1. Len(d.content) \in Nat /\ Len(acc.buffer) \in Nat /\ MaxChars \in Nat
    <3>1. d.content \in Seq(Int) /\ acc.buffer \in Seq(Int)
      BY <1>1 DEF Chunk, Packing
    <3>. QED
      BY <3>1, ChunkerAssumption
  <2>. QED
    BY <1>1, <1>3, <2>1
<1>5. /\ Chain(acc.chunks, before, holes)
      /\ k <= Len(Letters(d.content))
      /\ k > 0 => acc.chunks # << >> /\ Repeats(acc.chunks[Len(acc.chunks)], d, k)
      /\ holes \/ New(d, k) # << >>
  BY <1>2, <1>3 DEF Drafted
<1>6. Chain(Append(acc.chunks, d), before \o Under(d.section, New(d, k)), holes)
  BY <1>4, <1>5, ChainGrows
<1>. QED
  BY <1>2, <1>3, <1>6

\* A piece opens a buffer of its own.
LEMMA PieceOpens ==
  ASSUME NEW chunks, NEW told, NEW holes, Chain(chunks, told, holes), NEW title \in Seq(Int),
         NEW piece \in Piece(holes)
  PROVE  Half([chunks |-> chunks, buffer |-> piece], title,
              told \o Under(title, Letters(piece)), holes)
<1>1. chunks \in Seq(Chunk) /\ told \in Seq(Told) /\ piece \in Seq(Int) /\ Len(piece) <= MaxChars
      /\ Len(piece) \in Nat /\ MaxChars \in Nat /\ OverlapChars \in Nat
  BY ChainType, ChunkerAssumption DEF Piece
<1>2. PICK acc \in Packing : acc = [chunks |-> chunks, buffer |-> piece]
  <2>1. [chunks |-> chunks, buffer |-> piece] \in Packing
    BY <1>1 DEF Packing
  <2>. QED
    BY <2>1
<1>3. acc.chunks = chunks /\ acc.buffer = piece
  BY <1>2
<1>4. PICK l \in Seq(Letter) : l = Letters(piece)
  BY <1>1, LettersType
<1>5. PICK d \in Chunk : d = Draft(acc, title) /\ Letters(d.content) = l
  BY <1>2, <1>3, <1>4, DraftIs
<1>6. New(d, 0) = l
  <2>1. New(d, 0) = SubSeq(l, 1, Len(l))
    BY <1>5 DEF New
  <2>. QED
    BY <2>1, SubSeqFull
<1>7. Drafted(acc, title, told, 0, holes)
  <2>1. 0 <= Len(l)
    OBVIOUS
  <2>. QED
    BY <1>1, <1>3, <1>4, <1>5, <1>6, <2>1 DEF Drafted, Piece
<1>8. 0 \in 0 .. OverlapChars /\ Len(acc.buffer) <= MaxChars + 2
  BY <1>1, <1>3
<1>. QED
  BY <1>1, <1>2, <1>4, <1>5, <1>6, <1>7, <1>8 DEF Half

\* A separator between two texts has no letters.
LEMMA LettersJoined ==
  ASSUME NEW a \in Seq(Int), NEW b \in Seq(Int)
  PROVE  /\ a \o Separator \o b \in Seq(Int)
         /\ Len(a \o Separator \o b) = Len(a) + 2 + Len(b)
         /\ Letters(a \o Separator \o b) = Letters(a) \o Letters(b)
<1>1. Separator \in Seq(Int) /\ Len(Separator) = 2
          /\ \A i \in 1 .. Len(Separator) : Separator[i] \notin Letter
  BY DEF Separator, LineBreak, Letter
<1>2. Letters(Separator) = << >>
  BY <1>1, WithoutLetters
<1>3. PICK c \in Seq(Int) : c = a \o Separator /\ Len(c) = Len(a) + 2
          /\ Letters(c) = Letters(a) \o << >>
  <2>1. a \o Separator \in Seq(Int) /\ Len(a \o Separator) = Len(a) + Len(Separator)
    BY <1>1, ConcatProperties
  <2>. QED
    BY <1>1, <1>2, <2>1, LettersOfTwo
<1>4. Letters(a) \o << >> = Letters(a)
  BY LettersType, ConcatEmptySeq
<1>5. c \o b \in Seq(Int) /\ Len(c \o b) = Len(c) + Len(b)
          /\ Letters(c \o b) = Letters(c) \o Letters(b)
  BY LettersOfTwo, ConcatProperties
<1>. QED
  BY <1>3, <1>4, <1>5

\* What a passage says more with another piece in it.
WithPiece(d, e, old, piece) ==
    /\ d.section = e.section /\ Letters(d.content) = Letters(old)
    /\ Letters(e.content) = Letters(old) \o Letters(piece)

\* It says the letters of the piece more.
SaysMoreBy(d, e, piece, k) ==
    /\ New(e, k) = New(d, k) \o Letters(piece) /\ New(d, k) \in Seq(Letter)
    /\ k <= Len(Letters(e.content))
    /\ New(d, k) # << >> => New(e, k) # << >>
    /\ \A before : Repeats(before, d, k) => Repeats(before, e, k)

\* A passage with another piece says the letters of the piece more.
LEMMA SaysMore ==
  ASSUME NEW d \in Chunk, NEW e \in Chunk, NEW old \in Seq(Int), NEW piece \in Seq(Int),
         WithPiece(d, e, old, piece), NEW k \in Nat, k <= Len(Letters(old))
  PROVE  SaysMoreBy(d, e, piece, k)
<1>1. /\ d.section = e.section /\ Letters(d.content) = Letters(old)
      /\ Letters(e.content) = Letters(old) \o Letters(piece)
  BY DEF WithPiece
<1>2. PICK a, b \in Seq(Letter) : a = Letters(old) /\ b = Letters(piece)
  BY LettersType
<1>3. k \in 0 .. Len(a) /\ Len(a) \in Nat /\ Len(b) \in Nat
  BY <1>2
<1>4. /\ Len(a \o b) = Len(a) + Len(b) /\ SubSeq(a \o b, 1, k) = SubSeq(a, 1, k)
      /\ SubSeq(a, k + 1, Len(a)) \in Seq(Letter)
      /\ SubSeq(a \o b, k + 1, Len(a \o b)) = SubSeq(a, k + 1, Len(a)) \o b
  BY <1>3, LettersRest
<1>5. New(d, k) = SubSeq(a, k + 1, Len(a)) /\ New(e, k) = SubSeq(a \o b, k + 1, Len(a \o b))
  BY <1>1, <1>2 DEF New
<1>6. PICK new \in Seq(Letter) : new = New(d, k) /\ New(e, k) = new \o b
  BY <1>4, <1>5
<1>7. new # << >> => new \o b # << >>
  OBVIOUS
<1>8. k <= Len(a \o b)
  BY <1>3, <1>4
<1>9. ASSUME NEW before, Repeats(before, d, k) PROVE Repeats(before, e, k)
  BY <1>1, <1>2, <1>4, <1>8, <1>9 DEF Repeats
<1>. QED
  BY <1>1, <1>2, <1>6, <1>7, <1>8, <1>9 DEF SaysMoreBy

\* What is told ends with what is new under the title.
Tells(told, before, title, new) == told = before \o Under(title, new)

\* It goes on with the letters of a piece.
LEMMA ToldMore ==
  ASSUME NEW title \in Seq(Int), NEW told, NEW before \in Seq(Told),
         NEW new \in Seq(Letter), Tells(told, before, title, new), NEW piece \in Seq(Int)
  PROVE  Tells(told \o Under(title, Letters(piece)), before, title, new \o Letters(piece))
<1>1. PICK b \in Seq(Letter) : b = Letters(piece)
  BY LettersType
<1>2. (before \o Under(title, new)) \o Under(title, b) = before \o Under(title, new \o b)
  BY UnderFollows
<1>. QED
  BY <1>1, <1>2 DEF Tells

\* A packing with another buffer.
LEMMA PackingExcept ==
  ASSUME NEW acc \in Packing, NEW buffer
  PROVE  [acc EXCEPT !.buffer = buffer] = [chunks |-> acc.chunks, buffer |-> buffer]
  BY DEF Packing

\* A piece comes into the buffer.
LEMMA PieceJoins ==
  ASSUME NEW acc, NEW title \in Seq(Int), NEW told, NEW holes, Half(acc, title, told, holes),
         NEW piece \in Piece(holes), acc.buffer # << >>,
         Len(acc.buffer \o Separator \o piece) <= MaxChars
  PROVE  Half([acc EXCEPT !.buffer = acc.buffer \o Separator \o piece], title,
              told \o Under(title, Letters(piece)), holes)
<1>1. acc \in Packing /\ acc.buffer \in Seq(Int) /\ acc.chunks \in Seq(Chunk)
      /\ piece \in Seq(Int) /\ MaxChars \in Nat /\ OverlapChars \in Nat
  BY ChunkerAssumption DEF Half, Piece, Packing
<1>2. PICK k \in 0 .. OverlapChars, before \in Seq(Told) :
          /\ Drafted(acc, title, before, k, holes)
          /\ told = before \o Under(title, New(Draft(acc, title), k))
  BY DEF Half
<1>3. PICK buffer \in Seq(Int) :
          /\ buffer = acc.buffer \o Separator \o piece
          /\ Letters(buffer) = Letters(acc.buffer) \o Letters(piece)
          /\ Len(buffer) <= MaxChars /\ Len(buffer) \in Nat /\ buffer # << >>
  <2>1. acc.buffer \o Separator \o piece \in Seq(Int)
    BY <1>1, LettersJoined
  <2>2. Len(acc.buffer \o Separator \o piece) = Len(acc.buffer) + 2 + Len(piece)
    BY <1>1, LettersJoined
  <2>3. acc.buffer \o Separator \o piece # << >>
    BY <1>1, <2>1, <2>2
  <2>4. Letters(acc.buffer \o Separator \o piece) = Letters(acc.buffer) \o Letters(piece)
    BY <1>1, LettersJoined
  <2>5. Len(acc.buffer \o Separator \o piece) \in Nat
    BY <2>1
  <2>. QED
    BY <2>1, <2>3, <2>4, <2>5
<1>4. PICK more \in Packing : more = [acc EXCEPT !.buffer = buffer]
          /\ more.chunks = acc.chunks /\ more.buffer = buffer
  <2>1. [acc EXCEPT !.buffer = buffer] = [chunks |-> acc.chunks, buffer |-> buffer]
    BY <1>1, PackingExcept
  <2>2. [chunks |-> acc.chunks, buffer |-> buffer] \in Packing
    BY <1>1 DEF Packing
  <2>. QED
    BY <2>1, <2>2
<1>5. PICK d \in Chunk : d = Draft(acc, title) /\ d.section = title
          /\ Letters(d.content) = Letters(acc.buffer)
  BY <1>1, DraftIs
<1>6. PICK e \in Chunk : e = Draft(more, title) /\ e.section = title
          /\ Letters(e.content) = Letters(buffer)
  <2>1. /\ Draft(more, title) \in Chunk /\ Draft(more, title).section = title
        /\ Letters(Draft(more, title).content) = Letters(more.buffer)
    BY DraftIs
  <2>. QED
    BY <1>4, <2>1
<1>7. k \in Nat /\ k <= Len(Letters(acc.buffer))
  BY <1>1, <1>2 DEF Drafted
<1>8. SaysMoreBy(d, e, piece, k)
  <2>1. WithPiece(d, e, acc.buffer, piece)
    BY <1>3, <1>5, <1>6 DEF WithPiece
  <2>. QED
    BY <1>1, <1>7, <2>1, SaysMore
<1>9. Drafted(more, title, before, k, holes)
  <2>1. /\ Chain(more.chunks, before, holes)
        /\ holes \/ New(d, k) # << >>
        /\ k > 0 => /\ more.chunks # << >>
                    /\ Repeats(more.chunks[Len(more.chunks)], d, k)
    BY <1>2, <1>4, <1>5 DEF Drafted
  <2>2. k <= Len(Letters(more.buffer))
    BY <1>4, <1>6, <1>8 DEF SaysMoreBy
  <2>3. holes \/ New(e, k) # << >>
    BY <1>8, <2>1 DEF SaysMoreBy
  <2>4. k > 0 => more.chunks # << >> /\ Repeats(more.chunks[Len(more.chunks)], e, k)
    BY <1>8, <2>1 DEF SaysMoreBy
  <2>5. Chain(more.chunks, before, holes) /\ Draft(more, title) = e
    BY <1>6, <2>1
  <2>. QED
    BY <2>2, <2>3, <2>4, <2>5 DEF Drafted
<1>10. told \o Under(title, Letters(piece)) = before \o Under(title, New(e, k))
  <2>1. New(e, k) = New(d, k) \o Letters(piece) /\ New(d, k) \in Seq(Letter)
    BY <1>8 DEF SaysMoreBy
  <2>2. Tells(told, before, title, New(d, k))
    BY <1>2, <1>5 DEF Tells
  <2>3. Tells(told \o Under(title, Letters(piece)), before, title, New(d, k) \o Letters(piece))
    BY <1>1, <2>1, <2>2, ToldMore
  <2>. QED
    BY <2>1, <2>3 DEF Tells
<1>11. Len(more.buffer) <= MaxChars + 2
  BY <1>1, <1>3, <1>4
<1>12. Half(more, title, told \o Under(title, Letters(piece)), holes)
  BY <1>2, <1>4, <1>6, <1>9, <1>10, <1>11 DEF Half
<1>. QED
  BY <1>3, <1>4, <1>12

\* A piece follows what is carried over of the passage that was just closed.
LEMMA PieceFollows ==
  ASSUME NEW chunks \in Seq(Chunk), NEW told, NEW holes, NEW d \in Chunk, NEW title \in Seq(Int),
         Chain(Append(chunks, d), told, holes), d.section = title,
         NEW overlap \in Seq(Int), Len(overlap) <= OverlapChars,
         Ends(d.content, overlap),
         NEW piece \in Piece(holes), Len(overlap) + Len(piece) <= MaxChars
  PROVE  Half([chunks |-> Append(chunks, d), buffer |-> overlap \o Separator \o piece], title,
              told \o Under(title, Letters(piece)), holes)
<1>1. PICK before \in Seq(Letter) : Letters(d.content) = before \o Letters(overlap)
  BY DEF Ends
<1>2. told \in Seq(Told) /\ piece \in Seq(Int) /\ MaxChars \in Nat /\ OverlapChars \in Nat
      /\ Len(piece) \in Nat /\ Len(overlap) \in Nat
  BY ChainType, ChunkerAssumption DEF Piece
<1>3. PICK more \in Seq(Chunk) : more = Append(chunks, d) /\ more # << >> /\ more[Len(more)] = d
  <2>1. Append(chunks, d) \in Seq(Chunk)
    BY ChainType
  <2>2. Len(Append(chunks, d)) = Len(chunks) + 1 /\ Append(chunks, d)[Len(chunks) + 1] = d
    OBVIOUS
  <2>3. Append(chunks, d) # << >>
    <3>1. Len(chunks) \in Nat
      OBVIOUS
    <3>2. Len(Append(chunks, d)) # 0
      BY <2>2, <3>1
    <3>. QED
      BY <3>2, NotEmpty
  <2>. QED
    BY <2>1, <2>2, <2>3
<1>4. PICK buffer \in Seq(Int) :
          /\ buffer = overlap \o Separator \o piece
          /\ Letters(buffer) = Letters(overlap) \o Letters(piece)
          /\ Len(buffer) <= MaxChars + 2
  <2>1. overlap \o Separator \o piece \in Seq(Int)
    BY <1>2, LettersJoined
  <2>2. Len(overlap \o Separator \o piece) = Len(overlap) + 2 + Len(piece)
    BY <1>2, LettersJoined
  <2>3. Len(overlap \o Separator \o piece) <= MaxChars + 2
    BY <1>2, <2>2
  <2>. QED
    BY <1>2, <2>1, <2>3, LettersJoined
<1>5. PICK acc \in Packing : acc = [chunks |-> more, buffer |-> buffer]
                             /\ acc.chunks = more /\ acc.buffer = buffer
  <2>1. [chunks |-> more, buffer |-> buffer] \in Packing
    BY DEF Packing
  <2>. QED
    BY <2>1
<1>6. PICK e \in Chunk : e = Draft(acc, title) /\ e.section = title
          /\ Letters(e.content) = Letters(buffer)
  BY <1>5, DraftIs
<1>7. PICK a, b \in Seq(Letter) : a = Letters(overlap) /\ b = Letters(piece)
  BY <1>2, LettersType
<1>8. PICK k \in 0 .. OverlapChars : k = Len(a)
  <2>1. Len(a) \in 0 .. Len(overlap)
    BY <1>7, LettersType
  <2>. QED
    BY <1>2, <2>1
<1>9. /\ SubSeq(a \o b, k + 1, Len(a \o b)) = b /\ SubSeq(a \o b, 1, k) = a
      /\ Len(a \o b) = Len(a) + Len(b)
  <2>1. Len(a \o b) = Len(a) + Len(b)
    BY ConcatProperties
  <2>. QED
    BY <1>8, <2>1, EndOfTwo
<1>10. /\ SubSeq(before \o a, Len(before \o a) - k + 1, Len(before \o a)) = a
       /\ Len(before \o a) = Len(before) + Len(a)
  <2>1. Len(before \o a) = Len(before) + Len(a) /\ Len(before) \in Nat /\ Len(a) \in Nat
    BY ConcatProperties
  <2>2. Len(before \o a) - k + 1 = Len(before) + 1
    BY <1>8, <2>1
  <2>. QED
    BY <2>1, <2>2, EndOfTwo
<1>11. New(e, k) = b
  BY <1>4, <1>6, <1>7, <1>9 DEF New
<1>12. Repeats(d, e, k)
  <2>1. k <= Len(before \o a) /\ k <= Len(a \o b)
    <3>1. Len(before) \in Nat /\ Len(a) \in Nat /\ Len(b) \in Nat
      OBVIOUS
    <3>. QED
      BY <1>8, <1>9, <1>10, <3>1
  <2>. QED
    BY <1>1, <1>4, <1>6, <1>7, <1>9, <1>10, <2>1 DEF Repeats
<1>13. k <= Len(Letters(buffer))
  <2>1. Len(a) \in Nat /\ Len(b) \in Nat
    OBVIOUS
  <2>. QED
    BY <1>4, <1>7, <1>8, <1>9, <2>1
<1>14. holes \/ b # << >>
  BY <1>7 DEF Piece
<1>15. Drafted(acc, title, told, k, holes)
  BY <1>3, <1>5, <1>6, <1>11, <1>12, <1>13, <1>14 DEF Drafted
<1>16. Half(acc, title, told \o Under(title, b), holes)
  BY <1>2, <1>4, <1>5, <1>6, <1>11, <1>15 DEF Half
<1>. QED
  BY <1>3, <1>4, <1>5, <1>7, <1>16

\* One turn of the loop over the pieces: the piece is told, whichever way the buffer goes.
LEMMA PackPieceKeeps ==
  ASSUME NEW acc, NEW title \in Seq(Int), NEW told, NEW holes, Half(acc, title, told, holes),
         NEW piece \in Piece(holes)
  PROVE  Half(PackPiece(acc, piece, title), title, told \o Under(title, Letters(piece)), holes)
<1>1. acc \in Packing /\ acc.buffer \in Seq(Int) /\ acc.chunks \in Seq(Chunk)
  BY DEF Half, Packing
<1>2. CASE acc.buffer = << >>
  <2>1. PICK k \in 0 .. OverlapChars, before \in Seq(Told) :
            /\ Drafted(acc, title, before, k, holes)
            /\ told = before \o Under(title, New(Draft(acc, title), k))
    BY DEF Half
  <2>2. PICK d \in Chunk : d = Draft(acc, title) /\ Letters(d.content) = << >>
    BY <1>1, <1>2, DraftIs, LettersOfNothing
  <2>3. k = 0 /\ Chain(acc.chunks, before, holes) /\ Len(Letters(d.content)) = 0
    <3>1. Len(<< >>) = 0 /\ k \in Nat
      BY ChunkerAssumption
    <3>. QED
      BY <1>2, <2>1, <2>2, <3>1, LettersOfNothing DEF Drafted
  <2>4. New(d, k) = << >>
    <3>1. New(d, k) \in Seq(Letter) /\ Len(New(d, k)) = 0
      BY <2>3, NewType
    <3>. QED
      BY <3>1
  <2>5. told = before
    BY <2>1, <2>2, <2>4, UnderOfNothing, ConcatEmptySeq
  <2>6. PackPiece(acc, piece, title) = [chunks |-> acc.chunks, buffer |-> piece]
    <3>1. PackPiece(acc, piece, title) = [acc EXCEPT !.buffer = piece]
      BY <1>2 DEF PackPiece
    <3>. QED
      BY <1>1, <3>1 DEF Packing
  <2>. QED
    BY <2>3, <2>5, <2>6, PieceOpens
<1>3. CASE acc.buffer # << >> /\ Len(acc.buffer \o Separator \o piece) <= MaxChars
  <2>1. PackPiece(acc, piece, title) = [acc EXCEPT !.buffer = acc.buffer \o Separator \o piece]
    BY <1>3 DEF PackPiece
  <2>2. Half([acc EXCEPT !.buffer = acc.buffer \o Separator \o piece], title,
             told \o Under(title, Letters(piece)), holes)
    BY <1>3, PieceJoins
  <2>. QED
    BY <2>1, <2>2
<1>4. CASE acc.buffer # << >> /\ ~(Len(acc.buffer \o Separator \o piece) <= MaxChars)
  <2>1. PICK d \in Chunk :
            /\ d = Draft(acc, title) /\ d.section = title
                   /\ Letters(d.content) = Letters(acc.buffer)
            /\ MakeChunk(acc, title) = Append(acc.chunks, d)
    BY <1>1, DraftIs
  <2>2. Chain(Append(acc.chunks, d), told, holes)
    BY <1>4, <2>1, HalfCloses
  <2>3. PICK overlap \in Seq(Int) : overlap = TailOverlap(acc.buffer)
            /\ Len(overlap) <= OverlapChars
    BY <1>1, TailOverlapIs
  <2>4. Ends(d.content, overlap)
    <3>1. Ends(acc.buffer, overlap)
      BY <1>1, <2>3, TailOverlapIs
    <3>. QED
      BY <2>1, <3>1 DEF Ends
  <2>5. PackPiece(acc, piece, title) =
            [chunks |-> Append(acc.chunks, d),
             buffer |-> IF Carries(overlap, piece) THEN overlap \o Separator \o piece ELSE piece]
    BY <1>4, <2>1, <2>3 DEF PackPiece
  <2>6. CASE Carries(overlap, piece)
    <3>1. Len(overlap) + Len(piece) <= MaxChars
      BY <2>6 DEF Carries
    <3>2. Half([chunks |-> Append(acc.chunks, d), buffer |-> overlap \o Separator \o piece], title,
               told \o Under(title, Letters(piece)), holes)
      BY <1>1, <2>1, <2>2, <2>3, <2>4, <3>1, PieceFollows
    <3>. QED
      BY <2>5, <2>6, <3>2
  <2>7. CASE ~Carries(overlap, piece)
    BY <2>2, <2>5, <2>7, PieceOpens
  <2>. QED
    BY <2>6, <2>7
<1>. QED
  BY <1>2, <1>3, <1>4

\* The turns of the loop over the pieces.
PiecePacks(chunks, pieces, title, f) ==
    f = [n \in 0 .. Len(pieces) |->
            IF n = 0 THEN [chunks |-> chunks, buffer |-> << >>]
            ELSE PackPiece(f[n - 1], pieces[n], title)]

\* The turns, one after another.
LEMMA PiecePacksIs ==
  ASSUME NEW chunks, NEW pieces, NEW title, NEW f, PiecePacks(chunks, pieces, title, f)
  PROVE  \A n \in 0 .. Len(pieces) :
            f[n] = IF n = 0 THEN [chunks |-> chunks, buffer |-> << >>]
                   ELSE PackPiece(f[n - 1], pieces[n], title)
<1> DEFINE Turn(n) == IF n = 0 THEN [chunks |-> chunks, buffer |-> << >>]
                      ELSE PackPiece(f[n - 1], pieces[n], title)
<1>1. f = [n \in 0 .. Len(pieces) |-> Turn(n)]
  BY DEF PiecePacks
<1>. HIDE DEF Turn
<1>2. \A n \in 0 .. Len(pieces) : f[n] = Turn(n)
  BY <1>1
<1>. QED
  BY <1>2 DEF Turn

\* The whole loop over the pieces of a section.
LEMMA PackPiecesKeeps ==
  ASSUME NEW chunks, NEW told, NEW holes, Chain(chunks, told, holes), NEW title \in Seq(Int),
         NEW pieces \in Seq(Piece(holes))
  PROVE  Half(PackPieces(chunks, pieces, title), title,
              told \o Under(title, Content(pieces)), holes)
<1> DEFINE Said(n) == told \o Under(title, Content(SubSeq(pieces, 1, n)))
           start == [chunks |-> chunks, buffer |-> << >>]
<1>1. /\ pieces \in Seq(Seq(Int)) /\ told \in Seq(Told)
      /\ \A n \in 1 .. Len(pieces) : pieces[n] \in Piece(holes) /\ pieces[n] \in Seq(Int)
  <2>1. Piece(holes) \subseteq Seq(Int)
    BY DEF Piece
  <2>2. pieces \in Seq(Seq(Int))
    <3>. HIDE DEF Piece
    <3>. QED
      BY <2>1
  <2>3. \A n \in 1 .. Len(pieces) : pieces[n] \in Piece(holes)
    OBVIOUS
  <2>. QED
    BY <2>1, <2>2, <2>3, ChainType
<1>2. PICK N \in Nat : N = Len(pieces)
  OBVIOUS
<1>3. /\ Content(SubSeq(pieces, 1, 0)) = << >> /\ SubSeq(pieces, 1, N) = pieces
      /\ \A n \in 1 .. N :
            /\ Content(SubSeq(pieces, 1, n - 1)) \in Seq(Letter)
            /\ Letters(pieces[n]) \in Seq(Letter)
            /\ Content(SubSeq(pieces, 1, n)) =
                  Content(SubSeq(pieces, 1, n - 1)) \o Letters(pieces[n])
  BY <1>1, <1>2, ContentSoFar
<1>4. Said(0) = told /\ Half(start, title, Said(0), holes)
  <2>1. Said(0) = told \o << >>
    BY <1>3, UnderOfNothing
  <2>2. told \o << >> = told
    BY <1>1, ConcatEmptySeq
  <2>. QED
    BY <2>1, <2>2, HalfBegins
<1>5. ASSUME NEW n \in 1 .. N PROVE Said(n) = Said(n - 1) \o Under(title, Letters(pieces[n]))
  <2>1. PICK a, b \in Seq(Letter) :
            /\ a = Content(SubSeq(pieces, 1, n - 1)) /\ b = Letters(pieces[n])
            /\ Content(SubSeq(pieces, 1, n)) = a \o b
    BY <1>3
  <2>2. (told \o Under(title, a)) \o Under(title, b) = told \o Under(title, a \o b)
    BY <1>1, UnderFollows
  <2>. QED
    BY <2>1, <2>2
<1>6. PICK inv : inv = [n \in 0 .. N |-> {v \in Packing : Half(v, title, Said(n), holes)}]
  OBVIOUS
<1>7. PICK step : step = [n \in 1 .. N |-> [v \in Packing |-> PackPiece(v, pieces[n], title)]]
  OBVIOUS
<1>. HIDE DEF Said
<1>8. \A n \in 0 .. N : inv[n] \subseteq Packing
          /\ \A v : v \in inv[n] <=> Half(v, title, Said(n), holes)
  BY <1>6 DEF Half
<1>9. ASSUME NEW n \in 1 .. N, NEW v \in inv[n - 1]
      PROVE  step[n][v] = PackPiece(v, pieces[n], title)
          /\ PackPiece(v, pieces[n], title) \in inv[n]
  <2>1. n - 1 \in 0 .. N /\ n \in 0 .. N
    OBVIOUS
  <2>2. v \in Packing /\ Half(v, title, Said(n - 1), holes) /\ pieces[n] \in Piece(holes)
    BY <1>1, <1>2, <1>8, <2>1
  <2>3. Half(PackPiece(v, pieces[n], title), title, Said(n), holes)
    BY <1>5, <2>2, PackPieceKeeps
  <2>. QED
    BY <1>7, <1>8, <2>1, <2>2, <2>3
<1>10. start \in inv[0]
  BY <1>4, <1>8
<1>11. PICK h \in [0 .. N -> Packing] :
           h[0] = start /\ \A n \in 1 .. N : h[n - 1] \in inv[n - 1] /\ h[n] = step[n][h[n - 1]]
  <2>. HIDE DEF start
  <2>1. Ranges(inv, Packing, N) /\ Leads(inv, step, N)
    BY <1>8, <1>9 DEF Ranges, Leads
  <2>2. \E h \in [0 .. N -> Packing] : Runs(h, start, inv, step, N)
    BY <1>10, <2>1, LoopRuns
  <2>. QED
    BY <2>2 DEF Runs
<1>12. PiecePacks(chunks, pieces, title, h)
  <2>1. ASSUME NEW n \in 0 .. N
        PROVE  h[n] = IF n = 0 THEN start ELSE PackPiece(h[n - 1], pieces[n], title)
    <3>1. CASE n = 0
      BY <1>11, <3>1
    <3>2. CASE n # 0
      <4>1. n \in 1 .. N
        BY <3>2
      <4>. QED
        BY <1>9, <1>11, <3>2, <4>1
    <3>. QED
      BY <3>1, <3>2
  <2>2. h = [n \in 0 .. N |-> h[n]]
    BY <1>11
  <2>. QED
    BY <1>2, <2>1, <2>2 DEF PiecePacks
<1>13. PICK g : PiecePacks(chunks, pieces, title, g) /\ PackPieces(chunks, pieces, title) = g[N]
  <2>1. PICK g : g = CHOOSE e : PiecePacks(chunks, pieces, title, e)
    OBVIOUS
  <2>2. PiecePacks(chunks, pieces, title, g)
    BY <1>12, <2>1
  <2>3. PackPieces(chunks, pieces, title) = g[N]
    BY <1>2, <2>1 DEF PackPieces, PiecePacks
  <2>. QED
    BY <2>2, <2>3
<1>14. g[0] = start /\ \A n \in 1 .. N : g[n] = PackPiece(g[n - 1], pieces[n], title)
  <2>1. \A n \in 0 .. N : g[n] = IF n = 0 THEN start ELSE PackPiece(g[n - 1], pieces[n], title)
    BY <1>2, <1>13, PiecePacksIs
  <2>. QED
    BY <2>1
<1>15. g[N] \in inv[N]
  <2>1. g[0] \in inv[0]
    BY <1>10, <1>14
  <2>2. \A n \in 1 .. N : g[n - 1] \in inv[n - 1] => g[n] \in inv[n]
    BY <1>9, <1>14
  <2>. QED
    BY <2>1, <2>2, LoopKeeps
<1>16. Half(g[N], title, Said(N), holes)
  <2>1. N \in 0 .. N
    OBVIOUS
  <2>. QED
    BY <1>8, <1>15, <2>1
<1>17. Said(N) = told \o Under(title, Content(pieces))
  BY <1>3 DEF Said
<1>. QED
  BY <1>13, <1>16, <1>17

\* What is left in the buffer at the end of a section becomes its last passage.
LEMMA HalfEnds ==
  ASSUME NEW acc, NEW title \in Seq(Int), NEW told, NEW holes, Half(acc, title, told, holes)
  PROVE  Chain(IF Strip(acc.buffer) = << >> THEN acc.chunks ELSE MakeChunk(acc, title), told, holes)
<1>1. acc \in Packing /\ acc.buffer \in Seq(Int) /\ acc.chunks \in Seq(Chunk)
  BY DEF Half, Packing
<1>2. CASE Strip(acc.buffer) = << >>
  <2>1. Letters(acc.buffer) = << >>
    BY <1>1, <1>2, StripIs
  <2>2. PICK k \in 0 .. OverlapChars, before \in Seq(Told) :
            /\ Drafted(acc, title, before, k, holes)
            /\ told = before \o Under(title, New(Draft(acc, title), k))
    BY DEF Half
  <2>3. PICK d \in Chunk : d = Draft(acc, title) /\ Letters(d.content) = << >>
    BY <1>1, <2>1, DraftIs
  <2>4. Len(Letters(d.content)) = 0 /\ k = 0 /\ Chain(acc.chunks, before, holes)
    <3>1. Len(<< >>) = 0 /\ k \in Nat
      BY ChunkerAssumption
    <3>. QED
      BY <2>1, <2>2, <2>3, <3>1 DEF Drafted
  <2>5. New(d, k) = << >>
    <3>1. New(d, k) \in Seq(Letter) /\ Len(New(d, k)) = 0
      BY <2>4, NewType
    <3>. QED
      BY <3>1
  <2>6. told = before
    BY <2>2, <2>3, <2>5, UnderOfNothing, ConcatEmptySeq
  <2>. QED
    BY <1>2, <2>4, <2>6
<1>3. CASE Strip(acc.buffer) # << >>
  <2>1. acc.buffer # << >>
    <3>1. Strip(<< >>) = << >>
      <4>1. << >> \in Seq(Int)
        OBVIOUS
      <4>. QED
        BY <4>1, StripIs, LettersOfNothing
    <3>. QED
      BY <1>3, <3>1
  <2>. QED
    BY <1>3, <2>1, HalfCloses
<1>. QED
  BY <1>2, <1>3

--------------------------------------------------------------------------------
\* Long paragraphs.

\* Multiples of m.
LEMMA Multiples ==
  ASSUME NEW k \in Nat, k > 0, NEW n \in Nat, k <= n, NEW m \in Nat
  PROVE  (k - 1) * m \in Nat /\ k * m \in Nat /\ k * m = (k - 1) * m + m /\ k * m <= n * m
<1>1. (k - 1) * m \in Nat /\ k * m \in Nat /\ k * m = (k - 1) * m + m
  OBVIOUS
<1>2. n - k \in Nat /\ n * m = k * m + (n - k) * m /\ (n - k) * m \in Nat /\ n * m \in Nat
  OBVIOUS
<1>. QED
  BY <1>1, <1>2

\* The k-th slice of a text.
Slice(text, k) == SubSeq(text, (k - 1) * MaxChars + 1, k * MaxChars)

\* The k-th slice follows the ones before it.
LEMMA SliceIs ==
  ASSUME NEW text \in Seq(Int), NEW n \in Nat, n * MaxChars <= Len(text), NEW k \in 1 .. n
  PROVE  /\ Slice(text, k) \in Seq(Int) /\ Len(Slice(text, k)) = MaxChars
         /\ \A i \in 1 .. MaxChars : Slice(text, k)[i] = text[(k - 1) * MaxChars + i]
         /\ (k - 1) * MaxChars \in Nat /\ (k - 1) * MaxChars + MaxChars <= Len(text)
         /\ SubSeq(text, 1, (k - 1) * MaxChars) \in Seq(Int)
         /\ SubSeq(text, 1, k * MaxChars) = SubSeq(text, 1, (k - 1) * MaxChars) \o Slice(text, k)
<1>1. MaxChars \in Nat /\ Len(text) \in Nat
  BY ChunkerAssumption
<1>2. PICK b, e \in Nat :
          b = (k - 1) * MaxChars /\ e = k * MaxChars /\ e = b + MaxChars /\ e <= n * MaxChars
  BY <1>1, Multiples
<1>3. n * MaxChars \in Nat
  BY <1>1
<1>4. b <= e /\ e <= Len(text) /\ e - b = MaxChars
  BY <1>1, <1>2, <1>3
<1>5. Slice(text, k) = SubSeq(text, b + 1, e)
  BY <1>2 DEF Slice
<1>6. /\ SubSeq(text, b + 1, e) \in Seq(Int)
      /\ Len(SubSeq(text, b + 1, e)) = e - b
      /\ \A i \in 1 .. e - b : SubSeq(text, b + 1, e)[i] = text[b + i]
      /\ SubSeq(text, 1, b) \in Seq(Int)
      /\ SubSeq(text, 1, b) \o SubSeq(text, b + 1, e) = SubSeq(text, 1, e)
  BY <1>4, Parts
<1>. QED
  BY <1>2, <1>4, <1>5, <1>6

\* A slice has letters, or is a hole.
LEMMA SliceTells ==
  ASSUME NEW text \in Seq(Int), NEW n \in Nat, n * MaxChars <= Len(text), NEW k \in 1 .. n
  PROVE  HasHole(text) \/ Letters(Slice(text, k)) # << >>
<1>1. MaxChars \in Nat /\ MaxChars > 1 /\ Len(text) \in Nat
  BY ChunkerAssumption
<1>2. PICK b \in Nat : b = (k - 1) * MaxChars /\ b + MaxChars <= Len(text)
  BY SliceIs
<1>3. PICK s \in Seq(Int) :
          /\ s = Slice(text, k) /\ Len(s) = MaxChars /\ \A i \in 1 .. MaxChars : s[i] = text[b + i]
  BY <1>2, SliceIs
<1>4. SUFFICES ASSUME Letters(s) = << >> PROVE HasHole(text)
  BY <1>3
<1>5. HasHole(s)
  <2>1. \A i \in 1 .. MaxChars : s[i] \notin Letter
    BY <1>3, <1>4, WithoutLetters
  <2>2. DOMAIN s = 1 .. MaxChars /\ 1 \in DOMAIN s
    BY <1>1, <1>3
  <2>3. \A i \in 1 .. 1 + MaxChars - 1 : i \in 1 .. MaxChars
    BY <1>1
  <2>. QED
    BY <2>1, <2>2, <2>3 DEF HasHole
<1>. QED
  BY <1>2, <1>3, <1>5, HoleInPart

\* The first n slices.
Cuts(text, n) == [k \in 1 .. n |-> Slice(text, k)]

\* Put together, the slices are how the text begins (by induction on their number).
LEMMA SlicesMakeUp ==
  ASSUME NEW text \in Seq(Int), NEW n \in Nat, n * MaxChars <= Len(text)
  PROVE  Cuts(text, n) \in Seq(Seq(Int))
      /\ FlattenSeq(Cuts(text, n)) = SubSeq(text, 1, n * MaxChars)
<1> DEFINE Up(m) == /\ Cuts(text, m) \in Seq(Seq(Int))
                    /\ FlattenSeq(Cuts(text, m)) = SubSeq(text, 1, m * MaxChars)
           Done == {m \in 0 .. n : Up(m)}
<1>1. 0 \in Done
  <2>1. Cuts(text, 0) = << >> /\ 0 * MaxChars = 0 /\ << >> \in Seq(Seq(Int)) /\ 0 \in 0 .. n
    BY ChunkerAssumption DEF Cuts
  <2>. QED
    <3>1. SubSeq(text, 1, 0) = << >>
      BY SubSeqEmpty
    <3>. QED
      BY <2>1, <3>1, FlattenOfNothing
<1>2. ASSUME NEW m \in 1 .. n, m - 1 \in Done PROVE m \in Done
  <2>1. PICK before \in Seq(Seq(Int)) :
            /\ before = Cuts(text, m - 1) /\ Len(before) = m - 1
            /\ \A k \in 1 .. m - 1 : before[k] = Slice(text, k)
            /\ FlattenSeq(before) = SubSeq(text, 1, (m - 1) * MaxChars)
    <3>1. Up(m - 1)
      BY <1>2
    <3>2. PICK before \in Seq(Seq(Int)) : before = Cuts(text, m - 1)
      BY <3>1
    <3>3. DOMAIN before = 1 .. m - 1 /\ \A k \in 1 .. m - 1 : before[k] = Slice(text, k)
      BY <3>2 DEF Cuts
    <3>4. Len(before) = m - 1
      BY <3>3
    <3>. QED
      BY <3>1, <3>2, <3>3, <3>4
  <2>2. PICK s \in Seq(Int) :
            /\ s = Slice(text, m)
            /\ SubSeq(text, 1, m * MaxChars) = SubSeq(text, 1, (m - 1) * MaxChars) \o s
    BY SliceIs
  <2>3. PICK more \in Seq(Seq(Int)) :
            /\ more = Append(before, s) /\ Len(more) = m /\ more[m] = s
            /\ \A k \in 1 .. m - 1 : more[k] = before[k]
    <3>1. /\ Append(before, s) \in Seq(Seq(Int)) /\ Len(Append(before, s)) = Len(before) + 1
          /\ Append(before, s)[Len(before) + 1] = s
          /\ \A k \in 1 .. Len(before) : Append(before, s)[k] = before[k]
      BY OneAppended
    <3>2. Len(before) + 1 = m /\ Len(before) = m - 1
      BY <2>1
    <3>. QED
      BY <3>1, <3>2
  <2>4. Cuts(text, m) = more
    <3>1. \A k \in 1 .. m : k = m \/ k \in 1 .. m - 1
      OBVIOUS
    <3>2. \A k \in 1 .. m : more[k] = Slice(text, k)
      BY <2>1, <2>2, <2>3, <3>1
    <3>3. DOMAIN more = 1 .. m
      BY <2>3
    <3>4. more = [k \in 1 .. m |-> more[k]]
      BY <3>3
    <3>. QED
      BY <3>2, <3>4 DEF Cuts
  <2>5. FlattenSeq(more) = FlattenSeq(before) \o s
    BY <2>3, FlattenAppend
  <2>. QED
    <3>1. FlattenSeq(Cuts(text, m)) = SubSeq(text, 1, m * MaxChars)
      BY <2>1, <2>2, <2>4, <2>5
    <3>2. Cuts(text, m) \in Seq(Seq(Int)) /\ m \in 0 .. n
      BY <2>4
    <3>. QED
      BY <3>1, <3>2
<1>3. \A m \in 0 .. n : m \in Done
  <2>. HIDE DEF Done
  <2>. QED
    BY <1>1, <1>2, Induction
<1>. QED
  BY <1>3

\* How many slices come before the rest.
LEMMA Division ==
  ASSUME NEW l \in Nat, l > 0, NEW m \in Nat, m > 1
  PROVE  /\ (l - 1) \div m \in Nat /\ ((l - 1) \div m) * m \in Nat
         /\ ((l - 1) \div m) * m < l /\ l <= ((l - 1) \div m) * m + m
  OBVIOUS

\* An over-long sentence is cut into slices and a rest.
CutsInto(sentence, slices, rest, holes) ==
    /\ slices \in Nat /\ Cuts(sentence, slices) \in Seq(Piece(holes)) /\ rest \in Piece(FALSE)
    /\ Content(Cuts(sentence, slices)) \o Letters(rest) = Letters(sentence)
    /\ slices = 0 => Cuts(sentence, slices) = << >> /\ rest = sentence

\* A sentence is cut into full slices and a rest that is not empty.
LEMMA SentenceIsCut ==
  ASSUME NEW sentence \in Seq(Int), sentence # << >>, sentence[Len(sentence)] \in Letter,
         NEW holes, HasHole(sentence) => holes,
         NEW slices, slices = (Len(sentence) - 1) \div MaxChars,
         NEW rest, rest = SubSeq(sentence, slices * MaxChars + 1, Len(sentence))
  PROVE  CutsInto(sentence, slices, rest, holes)
<1>1. MaxChars \in Nat /\ MaxChars > 1 /\ Len(sentence) \in Nat /\ Len(sentence) > 0
  BY ChunkerAssumption
<1>2. slices \in Nat
  BY <1>1, Division
<1>3. PICK b \in Nat : b = slices * MaxChars /\ b < Len(sentence) /\ Len(sentence) <= b + MaxChars
  BY <1>1, Division
<1>4. \A k \in 1 .. slices : Slice(sentence, k) \in Piece(holes)
  <2>1. slices * MaxChars <= Len(sentence)
    BY <1>1, <1>3
  <2>2. ASSUME NEW k \in 1 .. slices PROVE Slice(sentence, k) \in Piece(holes)
    <3>1. Slice(sentence, k) \in Seq(Int) /\ Len(Slice(sentence, k)) = MaxChars
      BY <1>2, <2>1, SliceIs
    <3>2. holes \/ Letters(Slice(sentence, k)) # << >>
      BY <1>2, <2>1, SliceTells
    <3>3. Len(Slice(sentence, k)) <= MaxChars
      BY <1>1, <3>1
    <3>. QED
      BY <3>1, <3>2, <3>3 DEF Piece
  <2>. QED
    BY <2>2
<1>5. Cuts(sentence, slices) \in Seq(Piece(holes))
  <2>. HIDE DEF Piece
  <2>. QED
    BY <1>2, <1>4 DEF Cuts
<1>6. PICK p, q \in Seq(Int) :
          /\ p = SubSeq(sentence, 1, b) /\ q = SubSeq(sentence, b + 1, Len(sentence))
          /\ Len(q) = Len(sentence) - b
          /\ \A i \in 1 .. Len(sentence) - b : q[i] = sentence[b + i]
          /\ p \o q = sentence
  <2>1. b <= Len(sentence)
    BY <1>1, <1>3
  <2>2. /\ SubSeq(sentence, 1, b) \in Seq(Int)
        /\ SubSeq(sentence, b + 1, Len(sentence)) \in Seq(Int)
        /\ Len(SubSeq(sentence, b + 1, Len(sentence))) = Len(sentence) - b
        /\ \A i \in 1 .. Len(sentence) - b :
              SubSeq(sentence, b + 1, Len(sentence))[i] = sentence[b + i]
        /\ SubSeq(sentence, 1, b) \o SubSeq(sentence, b + 1, Len(sentence)) = sentence
    BY <2>1, CutInTwo
  <2>. QED
    BY <2>2
<1>7. rest = q
  BY <1>3, <1>6
<1>8. q \in Piece(FALSE)
  <2>1. Len(q) <= MaxChars /\ Len(q) \in 1 .. Len(q) /\ b + Len(q) = Len(sentence)
        /\ Len(q) \in 1 .. Len(sentence) - b
    BY <1>1, <1>3, <1>6
  <2>2. q[Len(q)] \in Letter
    BY <1>6, <2>1
  <2>3. Letters(q) # << >>
    BY <2>1, <2>2, WithoutLetters
  <2>. QED
    BY <2>1, <2>3 DEF Piece
<1>9. Content(Cuts(sentence, slices)) \o Letters(q) = Letters(sentence)
  <2>1. slices * MaxChars <= Len(sentence)
    BY <1>1, <1>3
  <2>2. FlattenSeq(Cuts(sentence, slices)) = p
    BY <1>2, <1>3, <1>6, <2>1, SlicesMakeUp
  <2>3. Letters(p \o q) = Letters(p) \o Letters(q)
    BY LettersOfTwo
  <2>. QED
    BY <1>6, <2>2, <2>3 DEF Content
<1>10. ASSUME slices = 0 PROVE Cuts(sentence, slices) = << >> /\ q = sentence
  <2>1. Cuts(sentence, 0) = << >>
    BY DEF Cuts
  <2>2. b = 0
    BY <1>1, <1>3, <1>10
  <2>3. q = SubSeq(sentence, 1, Len(sentence))
    BY <1>6, <2>2
  <2>. QED
    BY <1>10, <2>1, <2>3, SubSeqFull
<1>. QED
  BY <1>2, <1>5, <1>7, <1>8, <1>9, <1>10 DEF CutsInto

\* Pieces and an open one.
Packs == [pieces : Seq(Seq(Int)), buffer : Seq(Int)]

\* The pieces so far, with the open one, say these letters.
Packed(acc, letters, holes) ==
    /\ acc \in Packs /\ acc.pieces \in Seq(Piece(holes))
    /\ acc.buffer = << >> \/ acc.buffer \in Piece(FALSE)
    /\ Content(acc.pieces) \o Letters(acc.buffer) = letters

\* Pieces are texts.
LEMMA PieceType ==
  ASSUME NEW holes
  PROVE  /\ Piece(holes) \subseteq Seq(Int) /\ Seq(Piece(holes)) \subseteq Seq(Seq(Int))
         /\ Piece(FALSE) \subseteq Piece(holes) /\ << >> \notin Piece(FALSE)
<1>1. Piece(holes) \subseteq Seq(Int) /\ Piece(FALSE) \subseteq Piece(holes)
  BY DEF Piece
<1>2. << >> \notin Piece(FALSE)
  BY LettersOfNothing DEF Piece
<1>3. ASSUME NEW s \in Seq(Piece(holes)) PROVE s \in Seq(Seq(Int))
  <2>. HIDE DEF Piece
  <2>. QED
    BY <1>1
<1>. QED
  BY <1>1, <1>2, <1>3

\* What is closed, and what is left open, say what was open and the sentence.
Continues(closed, rest, buffer, sentence, holes) ==
    /\ closed \in Seq(Piece(holes)) /\ rest \in Piece(FALSE)
    /\ Content(closed) \o Letters(rest) = Letters(buffer) \o Letters(sentence)

\* Pieces are put together.
LEMMA PiecesTogether ==
  ASSUME NEW holes, NEW a \in Seq(Piece(holes)), NEW b \in Seq(Piece(holes))
  PROVE  a \o b \in Seq(Piece(holes)) /\ << >> \in Seq(Piece(holes)) /\ a \o << >> = a
<1>. HIDE DEF Piece
<1>. QED
  BY ConcatProperties, ConcatEmptySeq

\* One piece.
LEMMA PieceAlone ==
  ASSUME NEW holes, NEW piece \in Piece(holes)
  PROVE  <<piece>> \in Seq(Piece(holes))
<1>. HIDE DEF Piece
<1>. QED
  OBVIOUS

\* What goes on from a packing is one.
LEMMA PackedFurther ==
  ASSUME NEW acc, NEW letters, NEW holes, Packed(acc, letters, holes),
         NEW closed, NEW rest, NEW sentence \in Seq(Int),
         Continues(closed, rest, acc.buffer, sentence, holes)
  PROVE  Packed([pieces |-> acc.pieces \o closed, buffer |-> rest], letters \o Letters(sentence), holes)
<1>1. /\ acc.pieces \in Seq(Piece(holes)) /\ acc.pieces \in Seq(Seq(Int)) /\ acc.buffer \in Seq(Int)
      /\ closed \in Seq(Piece(holes)) /\ closed \in Seq(Seq(Int))
      /\ rest \in Piece(FALSE) /\ rest \in Seq(Int)
  BY PieceType DEF Packed, Packs, Continues
<1>2. PICK a, b, c, d, e \in Seq(Letter) :
          /\ a = Content(acc.pieces) /\ b = Letters(acc.buffer) /\ c = Content(closed)
          /\ d = Letters(rest) /\ e = Letters(sentence)
  BY <1>1, ContentIs, LettersType
<1>3. (a \o c) \o d = (a \o b) \o e
  <2>1. c \o d = b \o e
    BY <1>2 DEF Continues
  <2>2. (a \o c) \o d = a \o (c \o d)
    BY LettersAssociate
  <2>3. (a \o b) \o e = a \o (b \o e)
    BY LettersAssociate
  <2>. QED
    BY <2>1, <2>2, <2>3
<1>4. letters = a \o b
  BY <1>2 DEF Packed
<1>5. acc.pieces \o closed \in Seq(Piece(holes))
  BY <1>1, PiecesTogether
<1>6. acc.pieces \o closed \in Seq(Seq(Int)) /\ Content(acc.pieces \o closed) = a \o c
  BY <1>1, <1>2, ContentIs
<1>7. PICK new \in Packs : new = [pieces |-> acc.pieces \o closed, buffer |-> rest]
  <2>1. [pieces |-> acc.pieces \o closed, buffer |-> rest] \in Packs
    BY <1>1, <1>6 DEF Packs
  <2>. QED
    BY <2>1
<1>8. new.pieces = acc.pieces \o closed /\ new.buffer = rest
  BY <1>7
<1>9. Content(new.pieces) \o Letters(new.buffer) = letters \o Letters(sentence)
  BY <1>2, <1>3, <1>4, <1>6, <1>8
<1>. QED
  BY <1>1, <1>5, <1>7, <1>8, <1>9 DEF Packed

\* What is open is closed, if anything is, and slices follow.
LEMMA ClosesAndCuts ==
  ASSUME NEW holes, NEW buffer \in Seq(Int), buffer = << >> \/ buffer \in Piece(FALSE),
         NEW cut \in Seq(Piece(holes)), NEW rest \in Piece(FALSE), NEW sentence \in Seq(Int),
         Content(cut) \o Letters(rest) = Letters(sentence)
  PROVE  Continues(IF buffer # << >> THEN <<buffer>> \o cut ELSE cut, rest, buffer, sentence, holes)
<1>1. cut \in Seq(Seq(Int)) /\ rest \in Seq(Int)
  BY PieceType
<1>2. PICK b, c, d \in Seq(Letter) : b = Letters(buffer) /\ c = Content(cut) /\ d = Letters(rest)
  BY <1>1, ContentIs, LettersType
<1>3. CASE buffer # << >>
  <2>1. buffer \in Piece(holes)
    BY <1>3, PieceType
  <2>2. <<buffer>> \in Seq(Piece(holes))
    BY <2>1, PieceAlone
  <2>3. <<buffer>> \o cut \in Seq(Piece(holes))
    BY <2>2, PiecesTogether
  <2>4. <<buffer>> \in Seq(Seq(Int)) /\ Content(<<buffer>>) = b
    BY <1>2, ContentIs
  <2>5. Content(<<buffer>> \o cut) = b \o c
    BY <1>1, <1>2, <2>4, ContentIs
  <2>6. (b \o c) \o d = b \o (c \o d)
    BY LettersAssociate
  <2>. QED
    BY <1>2, <1>3, <2>3, <2>5, <2>6 DEF Continues
<1>4. CASE buffer = << >>
  <2>1. b = << >>
    BY <1>2, <1>4, LettersOfNothing
  <2>2. c \o d \in Seq(Letter) /\ << >> \o (c \o d) = c \o d
    <3>1. c \o d \in Seq(Letter)
      BY ConcatProperties
    <3>. QED
      BY <3>1, ConcatEmptySeq
  <2>3. Content(cut) \o Letters(rest) = Letters(buffer) \o Letters(sentence)
    BY <1>2, <2>1, <2>2
  <2>. QED
    BY <1>4, <2>3 DEF Continues
<1>. QED
  BY <1>3, <1>4

\* The blank between two sentences has no letters.
LEMMA SentenceJoins ==
  ASSUME NEW open \in Seq(Int), NEW rest \in Seq(Int)
  PROVE  /\ Strip(open \o <<Space>> \o rest) \in Seq(Int)
         /\ Letters(Strip(open \o <<Space>> \o rest)) = Letters(open) \o Letters(rest)
<1>1. <<Space>> \in Seq(Int) /\ Len(<<Space>>) = 1
          /\ \A i \in 1 .. Len(<<Space>>) : <<Space>>[i] \notin Letter
  BY DEF Space, Letter
<1>2. Letters(<<Space>>) = << >>
  BY <1>1, WithoutLetters
<1>3. PICK c \in Seq(Int) : c = open \o <<Space>> /\ Letters(c) = Letters(open) \o << >>
  <2>1. open \o <<Space>> \in Seq(Int)
    BY <1>1, ConcatProperties
  <2>. QED
    BY <1>1, <1>2, <2>1, LettersOfTwo
<1>4. Letters(open) \o << >> = Letters(open)
  BY LettersType, ConcatEmptySeq
<1>5. PICK d \in Seq(Int) : d = c \o rest /\ Letters(d) = Letters(c) \o Letters(rest)
  <2>1. c \o rest \in Seq(Int)
    BY ConcatProperties
  <2>. QED
    BY <2>1, LettersOfTwo
<1>. QED
  BY <1>3, <1>4, <1>5, StripIs

\* A sentence that needs no slicing.
LEMMA ShortSentence ==
  ASSUME NEW holes, NEW buffer \in Seq(Int), buffer = << >> \/ buffer \in Piece(FALSE),
         NEW sentence \in Piece(FALSE)
  PROVE  /\ buffer = << >> => Continues(<< >>, sentence, buffer, sentence, holes)
         /\ buffer # << >> => Continues(<<buffer>>, sentence, buffer, sentence, holes)
         /\ \A joined \in Seq(Int) :
               /\ Len(joined) <= MaxChars
               /\ Letters(joined) = Letters(buffer) \o Letters(sentence)
               => Continues(<< >>, joined, buffer, sentence, holes)
<1>1. sentence \in Seq(Int)
  BY PieceType
<1>2. PICK b, d \in Seq(Letter) : b = Letters(buffer) /\ d = Letters(sentence) /\ d # << >>
  BY <1>1, LettersType DEF Piece
<1>3. << >> \o d = d /\ << >> \in Seq(Piece(holes)) /\ Content(<< >>) = << >>
  <2>1. << >> \o d = d
    BY ConcatEmptySeq
  <2>2. << >> \in Seq(Piece(holes))
    OBVIOUS
  <2>. QED
    BY <2>1, <2>2, ContentIs
<1>4. ASSUME buffer = << >> PROVE Continues(<< >>, sentence, buffer, sentence, holes)
  BY <1>2, <1>3, <1>4, LettersOfNothing DEF Continues
<1>5. ASSUME buffer # << >> PROVE Continues(<<buffer>>, sentence, buffer, sentence, holes)
  <2>1. buffer \in Piece(holes)
    BY <1>5, PieceType
  <2>2. <<buffer>> \in Seq(Piece(holes))
    BY <2>1, PieceAlone
  <2>3. Content(<<buffer>>) = b
    BY <1>2, ContentIs
  <2>. QED
    BY <1>2, <2>2, <2>3 DEF Continues
<1>6. ASSUME NEW joined \in Seq(Int), Len(joined) <= MaxChars,
             Letters(joined) = Letters(buffer) \o Letters(sentence)
      PROVE  Continues(<< >>, joined, buffer, sentence, holes)
  <2>1. PICK l \in Seq(Letter) : l = Letters(joined) /\ l = b \o d
    BY <1>2, <1>6, LettersType
  <2>2. b \o d # << >>
    BY <1>2
  <2>3. joined \in Piece(FALSE)
    BY <1>6, <2>1, <2>2 DEF Piece
  <2>4. << >> \o l = l
    BY ConcatEmptySeq
  <2>. QED
    BY <1>3, <1>6, <2>1, <2>3, <2>4 DEF Continues
<1>. QED
  BY <1>4, <1>5, <1>6

\* One turn of the loop over the sentences: the sentence is packed.
LEMMA PackSentenceKeeps ==
  ASSUME NEW acc, NEW letters, NEW holes, Packed(acc, letters, holes),
         NEW sentence \in Seq(Int), sentence # << >>, sentence[Len(sentence)] \in Letter,
         HasHole(sentence) => holes
  PROVE  Packed(PackSentence(acc, sentence), letters \o Letters(sentence), holes)
<1>1. /\ acc \in Packs /\ acc.pieces \in Seq(Piece(holes))
      /\ acc.buffer \in Seq(Int) /\ (acc.buffer = << >> \/ acc.buffer \in Piece(FALSE))
      /\ MaxChars \in Nat
  BY ChunkerAssumption DEF Packed, Packs
<1>2. PICK slices, rest :
          /\ slices = (Len(sentence) - 1) \div MaxChars
          /\ rest = SubSeq(sentence, slices * MaxChars + 1, Len(sentence))
  OBVIOUS
<1>3. PICK cut : cut = Cuts(sentence, slices)
  OBVIOUS
<1>4. /\ slices \in Nat /\ cut \in Seq(Piece(holes)) /\ rest \in Piece(FALSE)
      /\ Content(cut) \o Letters(rest) = Letters(sentence)
      /\ slices = 0 => cut = << >> /\ rest = sentence
  <2>1. /\ slices \in Nat /\ Cuts(sentence, slices) \in Seq(Piece(holes)) /\ rest \in Piece(FALSE)
        /\ Content(Cuts(sentence, slices)) \o Letters(rest) = Letters(sentence)
        /\ slices = 0 => Cuts(sentence, slices) = << >> /\ rest = sentence
    <3>1. CutsInto(sentence, slices, rest, holes)
      BY <1>2, SentenceIsCut
    <3>. QED
      BY <3>1 DEF CutsInto
  <2>. QED
    BY <1>3, <2>1
<1>5. PICK closed : closed = IF slices > 0 /\ acc.buffer # << >> THEN <<acc.buffer>> \o cut ELSE cut
  OBVIOUS
<1>6. PICK open : open = IF slices > 0 THEN << >> ELSE acc.buffer
  OBVIOUS
<1>7. PICK joined : joined = IF open = << >> THEN rest ELSE Strip(open \o <<Space>> \o rest)
  OBVIOUS
<1>8. PackSentence(acc, sentence) =
          IF Len(joined) > MaxChars
          THEN [pieces |-> acc.pieces \o closed \o <<open>>, buffer |-> rest]
          ELSE [pieces |-> acc.pieces \o closed, buffer |-> joined]
  BY <1>2, <1>3, <1>5, <1>6, <1>7 DEF PackSentence, Cuts, Slice
<1>9. rest \in Seq(Int) /\ Len(rest) \in Nat /\ Len(rest) <= MaxChars /\ ~(Len(rest) > MaxChars)
  <2>1. rest \in Seq(Int) /\ Len(rest) <= MaxChars
    BY <1>4 DEF Piece
  <2>2. Len(rest) \in Nat
    BY <2>1
  <2>. QED
    BY <1>1, <2>1, <2>2
<1>10. CASE slices > 0
  <2>1. joined = rest
    BY <1>6, <1>7, <1>10
  <2>2. PackSentence(acc, sentence) = [pieces |-> acc.pieces \o closed, buffer |-> rest]
    BY <1>8, <1>9, <2>1
  <2>3. closed = IF acc.buffer # << >> THEN <<acc.buffer>> \o cut ELSE cut
    BY <1>5, <1>10
  <2>4. Continues(closed, rest, acc.buffer, sentence, holes)
    BY <1>1, <1>4, <2>3, ClosesAndCuts
  <2>. QED
    BY <2>2, <2>4, PackedFurther
<1>11. CASE ~(slices > 0)
  <2>1. cut = << >> /\ rest = sentence /\ closed = << >> /\ open = acc.buffer
            /\ sentence \in Piece(FALSE)
    <3>1. slices = 0
      BY <1>4, <1>11
    <3>. QED
      BY <1>4, <1>5, <1>6, <1>11, <3>1
  <2>2. acc.pieces \o << >> = acc.pieces
    BY <1>1, PiecesTogether
  <2>3. CASE acc.buffer = << >>
    <3>1. joined = sentence
      BY <1>7, <2>1, <2>3
    <3>2. PackSentence(acc, sentence) = [pieces |-> acc.pieces \o << >>, buffer |-> sentence]
      BY <1>8, <1>9, <2>1, <3>1
    <3>3. Continues(<< >>, sentence, acc.buffer, sentence, holes)
      BY <1>1, <2>1, <2>3, ShortSentence
    <3>. QED
      BY <3>2, <3>3, PackedFurther
  <2>4. CASE acc.buffer # << >>
    <3>1. joined = Strip(acc.buffer \o <<Space>> \o sentence)
      BY <1>7, <2>1, <2>4
    <3>2. joined \in Seq(Int) /\ Letters(joined) = Letters(acc.buffer) \o Letters(sentence)
      BY <1>1, <3>1, SentenceJoins
    <3>3. CASE Len(joined) > MaxChars
      <4>1. PackSentence(acc, sentence) =
                [pieces |-> acc.pieces \o <<acc.buffer>>, buffer |-> sentence]
        BY <1>8, <2>1, <2>2, <3>3
      <4>2. Continues(<<acc.buffer>>, sentence, acc.buffer, sentence, holes)
        BY <1>1, <2>1, <2>4, ShortSentence
      <4>. QED
        BY <4>1, <4>2, PackedFurther
    <3>4. CASE ~(Len(joined) > MaxChars)
      <4>1. PackSentence(acc, sentence) = [pieces |-> acc.pieces \o << >>, buffer |-> joined]
        BY <1>8, <2>1, <3>4
      <4>2. Len(joined) <= MaxChars
        BY <1>1, <3>2, <3>4
      <4>3. Continues(<< >>, joined, acc.buffer, sentence, holes)
        BY <1>1, <2>1, <3>2, <4>2, ShortSentence
      <4>. QED
        BY <4>1, <4>3, PackedFurther
    <3>. QED
      BY <3>3, <3>4
  <2>. QED
    BY <2>3, <2>4
<1>. QED
  BY <1>10, <1>11

\* The turns of the loop over the sentences.
SentencePacks(sentences, f) ==
    f = [n \in 0 .. Len(sentences) |->
            IF n = 0 THEN [pieces |-> << >>, buffer |-> << >>]
            ELSE PackSentence(f[n - 1], sentences[n])]

\* A sentence with its end.
Sentence(holes) ==
    {s \in Seq(Int) : s # << >> /\ s[Len(s)] \in Letter /\ (HasHole(s) => holes)}

\* Sentences are texts.
LEMMA SentenceType ==
  ASSUME NEW holes
  PROVE  Sentence(holes) \subseteq Seq(Int) /\ Seq(Sentence(holes)) \subseteq Seq(Seq(Int))
<1>1. Sentence(holes) \subseteq Seq(Int)
  BY DEF Sentence
<1>2. ASSUME NEW s \in Seq(Sentence(holes)) PROVE s \in Seq(Seq(Int))
  <2>. HIDE DEF Sentence
  <2>. QED
    BY <1>1
<1>. QED
  BY <1>1, <1>2

\* The turns, one after another.
LEMMA SentencePacksIs ==
  ASSUME NEW sentences, NEW f, SentencePacks(sentences, f)
  PROVE  \A n \in 0 .. Len(sentences) :
            f[n] = IF n = 0 THEN [pieces |-> << >>, buffer |-> << >>]
                   ELSE PackSentence(f[n - 1], sentences[n])
<1> DEFINE Turn(n) == IF n = 0 THEN [pieces |-> << >>, buffer |-> << >>]
                      ELSE PackSentence(f[n - 1], sentences[n])
<1>1. f = [n \in 0 .. Len(sentences) |-> Turn(n)]
  BY DEF SentencePacks
<1>. HIDE DEF Turn
<1>2. \A n \in 0 .. Len(sentences) : f[n] = Turn(n)
  BY <1>1
<1>. QED
  BY <1>2 DEF Turn

\* The whole loop over the sentences.
LEMMA PackSentencesKeeps ==
  ASSUME NEW holes, NEW sentences \in Seq(Sentence(holes))
  PROVE  Packed(PackSentences(sentences), Content(sentences), holes)
<1> DEFINE Said(n) == Content(SubSeq(sentences, 1, n))
           start == [pieces |-> << >>, buffer |-> << >>]
<1>1. /\ sentences \in Seq(Seq(Int))
      /\ \A n \in 1 .. Len(sentences) : sentences[n] \in Sentence(holes)
  <2>1. \A n \in 1 .. Len(sentences) : sentences[n] \in Sentence(holes)
    OBVIOUS
  <2>. QED
    BY <2>1, SentenceType
<1>2. PICK N \in Nat : N = Len(sentences)
  OBVIOUS
<1>3. /\ Content(SubSeq(sentences, 1, 0)) = << >> /\ SubSeq(sentences, 1, N) = sentences
      /\ \A n \in 1 .. N :
            /\ Content(SubSeq(sentences, 1, n - 1)) \in Seq(Letter)
            /\ Letters(sentences[n]) \in Seq(Letter)
            /\ Content(SubSeq(sentences, 1, n)) =
                  Content(SubSeq(sentences, 1, n - 1)) \o Letters(sentences[n])
  BY <1>1, <1>2, ContentSoFar
<1>4. Packed(start, Said(0), holes)
  <2>1. << >> \in Seq(Piece(holes)) /\ << >> \in Seq(Seq(Int)) /\ << >> \in Seq(Int)
    OBVIOUS
  <2>2. << >> = << >> \o << >>
    BY <2>1, ConcatEmptySeq
  <2>. QED
    BY <1>3, <2>1, <2>2, ContentIs, LettersOfNothing DEF Packed, Packs
<1>5. \A n \in 1 .. N : Said(n) = Said(n - 1) \o Letters(sentences[n])
  BY <1>3
<1>6. PICK inv : inv = [n \in 0 .. N |-> {v \in Packs : Packed(v, Said(n), holes)}]
  OBVIOUS
<1>7. PICK step : step = [n \in 1 .. N |-> [v \in Packs |-> PackSentence(v, sentences[n])]]
  OBVIOUS
<1>. HIDE DEF Said
<1>8. \A n \in 0 .. N : inv[n] \subseteq Packs /\ \A v : v \in inv[n] <=> Packed(v, Said(n), holes)
  BY <1>6 DEF Packed
<1>9. ASSUME NEW n \in 1 .. N, NEW v \in inv[n - 1]
      PROVE  step[n][v] = PackSentence(v, sentences[n]) /\ PackSentence(v, sentences[n]) \in inv[n]
  <2>1. n - 1 \in 0 .. N /\ n \in 0 .. N
    OBVIOUS
  <2>2. v \in Packs /\ Packed(v, Said(n - 1), holes)
    BY <1>8, <2>1
  <2>3. sentences[n] \in Sentence(holes)
    BY <1>1, <1>2
  <2>4. PICK s : s = sentences[n]
    OBVIOUS
  <2>5. /\ s \in Seq(Int)
        /\ s # << >>
        /\ s[Len(s)] \in Letter
        /\ (HasHole(s) => holes)
    BY <2>3, <2>4 DEF Sentence
  <2>6. Packed(PackSentence(v, s), Said(n - 1) \o Letters(s), holes)
    BY <2>2, <2>5, PackSentenceKeeps
  <2>. QED
    BY <1>5, <1>7, <1>8, <2>1, <2>2, <2>4, <2>6
<1>10. start \in inv[0]
  BY <1>4, <1>8
<1>11. PICK h \in [0 .. N -> Packs] :
           h[0] = start /\ \A n \in 1 .. N : h[n - 1] \in inv[n - 1] /\ h[n] = step[n][h[n - 1]]
  <2>. HIDE DEF start
  <2>1. Ranges(inv, Packs, N) /\ Leads(inv, step, N)
    BY <1>8, <1>9 DEF Ranges, Leads
  <2>2. \E h \in [0 .. N -> Packs] : Runs(h, start, inv, step, N)
    BY <1>10, <2>1, LoopRuns
  <2>. QED
    BY <2>2 DEF Runs
<1>12. SentencePacks(sentences, h)
  <2>1. ASSUME NEW n \in 0 .. N
        PROVE  h[n] = IF n = 0 THEN start ELSE PackSentence(h[n - 1], sentences[n])
    <3>1. CASE n = 0
      BY <1>11, <3>1
    <3>2. CASE n # 0
      <4>1. n \in 1 .. N
        BY <3>2
      <4>. QED
        BY <1>9, <1>11, <3>2, <4>1
    <3>. QED
      BY <3>1, <3>2
  <2>2. h = [n \in 0 .. N |-> h[n]]
    BY <1>11
  <2>. QED
    BY <1>2, <2>1, <2>2 DEF SentencePacks
<1>13. PICK g : SentencePacks(sentences, g) /\ PackSentences(sentences) = g[N]
  <2>1. PICK g : g = CHOOSE e : SentencePacks(sentences, e)
    OBVIOUS
  <2>2. SentencePacks(sentences, g)
    BY <1>12, <2>1
  <2>3. PackSentences(sentences) = g[N]
    BY <1>2, <2>1 DEF PackSentences, SentencePacks
  <2>. QED
    BY <2>2, <2>3
<1>14. g[0] = start /\ \A n \in 1 .. N : g[n] = PackSentence(g[n - 1], sentences[n])
  <2>1. \A n \in 0 .. N : g[n] = IF n = 0 THEN start ELSE PackSentence(g[n - 1], sentences[n])
    BY <1>2, <1>13, SentencePacksIs
  <2>. QED
    BY <2>1
<1>15. g[N] \in inv[N]
  <2>1. g[0] \in inv[0]
    BY <1>10, <1>14
  <2>2. \A n \in 1 .. N : g[n - 1] \in inv[n - 1] => g[n] \in inv[n]
    BY <1>9, <1>14
  <2>. QED
    BY <2>1, <2>2, LoopKeeps
<1>16. Packed(g[N], Said(N), holes)
  <2>1. N \in 0 .. N
    OBVIOUS
  <2>. QED
    BY <1>8, <1>15, <2>1
<1>17. Said(N) = Content(sentences)
  BY <1>3 DEF Said
<1>. QED
  BY <1>13, <1>16, <1>17

\* A gap begins after the end of a sentence.
LEMMA GapIs ==
  ASSUME NEW text \in Seq(Int), NEW n \in Gaps(text)
  PROVE  /\ n \in 1 .. Len(text) /\ text[n] \notin Letter
         /\ n - 1 \notin Gaps(text) => n > 1 /\ text[n - 1] \in Letter
<1>1. DOMAIN text = 1 .. Len(text) /\ Len(text) \in Nat
  OBVIOUS
<1>2. PICK j \in 1 .. n - 1 : IsStop(text[j]) /\ \A k \in j + 1 .. n : text[k] \notin Letter
  BY DEF Gaps
<1>3. n \in 1 .. Len(text) /\ n \in j + 1 .. n /\ n > 1
  BY <1>1, <1>2 DEF Gaps
<1>4. ASSUME n - 1 \notin Gaps(text) PROVE text[n - 1] \in Letter
  <2>1. n - 1 \in 1 .. Len(text)
    BY <1>1, <1>3
  <2>2. \A k \in j + 1 .. n - 1 : text[k] \notin Letter
    <3>1. \A k \in j + 1 .. n - 1 : k \in j + 1 .. n
      BY <1>3
    <3>. QED
      BY <1>2, <3>1
  <2>3. ~(j \in 1 .. (n - 1) - 1)
    BY <1>1, <1>2, <1>4, <2>1, <2>2 DEF Gaps
  <2>4. j = n - 1
    BY <1>3, <2>3
  <2>5. text[n - 1] \in Int /\ text[n - 1] > StopsFrom
    BY <1>2, <2>1, <2>4 DEF IsStop
  <2>. QED
    BY <2>5 DEF StopsFrom, Letter
<1>. QED
  BY <1>2, <1>3, <1>4

\* A part of a text with one character more.
LEMMA PartGrows ==
  ASSUME NEW text \in Seq(Int), NEW a \in Nat, NEW n \in Nat, a < n, n <= Len(text)
  PROVE  /\ SubSeq(text, a + 1, n - 1) \in Seq(Int) /\ SubSeq(text, a + 1, n) \in Seq(Int)
         /\ SubSeq(text, a + 1, n) = Append(SubSeq(text, a + 1, n - 1), text[n])
         /\ Len(SubSeq(text, a + 1, n)) = n - a
         /\ SubSeq(text, a + 1, n)[n - a] = text[n]
         /\ HasHole(SubSeq(text, a + 1, n)) => HasHole(text)
<1>1. Len(text) \in Nat /\ n \in 1 .. Len(text) /\ n - 1 \in Nat /\ a <= n - 1 /\ n - 1 <= Len(text)
      /\ a <= n
  OBVIOUS
<1>2. PICK p \in Seq(Int) :
          /\ p = SubSeq(text, a + 1, n - 1) /\ Len(p) = n - 1 - a
          /\ \A i \in 1 .. n - 1 - a : p[i] = text[a + i]
  <2>1. PICK m \in Nat : m = n - 1
    BY <1>1
  <2>2. /\ SubSeq(text, a + 1, m) \in Seq(Int)
        /\ Len(SubSeq(text, a + 1, m)) = m - a
        /\ \A i \in 1 .. m - a : SubSeq(text, a + 1, m)[i] = text[a + i]
    BY <1>1, <2>1, Parts
  <2>. QED
    BY <2>1, <2>2
<1>3. PICK q \in Seq(Int) :
          /\ q = SubSeq(text, a + 1, n) /\ Len(q) = n - a
          /\ \A i \in 1 .. n - a : q[i] = text[a + i]
  <2>1. /\ SubSeq(text, a + 1, n) \in Seq(Int)
        /\ Len(SubSeq(text, a + 1, n)) = n - a
        /\ \A i \in 1 .. n - a : SubSeq(text, a + 1, n)[i] = text[a + i]
    BY <1>1, Parts
  <2>. QED
    BY <2>1
<1>4. PICK r \in Seq(Int) :
          /\ r = Append(p, text[n]) /\ Len(r) = n - a /\ r[n - a] = text[n]
          /\ \A i \in 1 .. n - 1 - a : r[i] = p[i]
  <2>1. text[n] \in Int /\ Len(p) + 1 = n - a /\ Len(p) = n - 1 - a
    BY <1>1, <1>2
  <2>2. /\ Append(p, text[n]) \in Seq(Int) /\ Len(Append(p, text[n])) = Len(p) + 1
        /\ Append(p, text[n])[Len(p) + 1] = text[n]
        /\ \A i \in 1 .. Len(p) : Append(p, text[n])[i] = p[i]
    BY <2>1, OneAppended
  <2>. QED
    BY <2>1, <2>2
<1>5. \A i \in 1 .. n - a : q[i] = r[i]
  <2>1. \A i \in 1 .. n - a : i \in 1 .. n - 1 - a \/ (i = n - a /\ a + i = n)
    BY <1>1
  <2>. QED
    BY <1>2, <1>3, <1>4, <2>1
<1>6. q = r
  BY <1>3, <1>4, <1>5, SeqEqual
<1>7. HasHole(q) => HasHole(text)
  <2>1. a + Len(q) <= Len(text)
    BY <1>1, <1>3
  <2>. QED
    BY <1>3, <2>1, HoleInPart
<1>. QED
  BY <1>2, <1>3, <1>4, <1>6, <1>7

\* A character more, and the letter it may be.
LEMMA LettersGrow ==
  ASSUME NEW s \in Seq(Int), NEW c \in Int
  PROVE  /\ Append(s, c) \in Seq(Int) /\ <<c>> \in Seq(Int)
         /\ Letters(Append(s, c)) = Letters(s) \o Letters(<<c>>)
         /\ c \notin Letter => Letters(<<c>>) = << >>
<1>1. <<c>> \in Seq(Int) /\ Append(s, c) = s \o <<c>> /\ Len(<<c>>) = 1 /\ <<c>>[1] = c
  OBVIOUS
<1>2. c \notin Letter => Letters(<<c>>) = << >>
  <2>1. c \notin Letter => \A i \in 1 .. Len(<<c>>) : <<c>>[i] \notin Letter
    BY <1>1
  <2>. QED
    BY <1>1, <2>1, WithoutLetters
<1>. QED
  BY <1>1, <1>2, LettersOfTwo

\* The closed sentences and the open one, after n characters.
Parsed(acc, closed, open, text, n) ==
    /\ acc = Append(closed, open)
    /\ Content(closed) \o Letters(open) = Letters(SubSeq(text, 1, n))
    /\ open # << >> => \E a \in 0 .. n - 1 : open = SubSeq(text, a + 1, n)
    /\ open = << >> <=> n = 0 \/ n \in Gaps(text)

\* What was read of the first n characters, when some sentences are closed and one is open.
Reads(acc, text, n) ==
    \E closed \in Seq(Sentence(HasHole(text))), open \in Seq(Int)
        : Parsed(acc, closed, open, text, n)

\* One character more is read: in a gap, at the first letter after one, or within a sentence.
LEMMA ReadCharacterKeeps ==
  ASSUME NEW text \in Seq(Int), NEW n \in 1 .. Len(text), NEW acc, Reads(acc, text, n - 1)
  PROVE  Reads(ReadCharacter(acc, text, n), text, n)
<1>1. PICK closed \in Seq(Sentence(HasHole(text))), open \in Seq(Int) :
          Parsed(acc, closed, open, text, n - 1)
  BY DEF Reads
<1>2. /\ acc = Append(closed, open)
      /\ Content(closed) \o Letters(open) = Letters(SubSeq(text, 1, n - 1))
      /\ open # << >> => \E a \in 0 .. (n - 1) - 1 : open = SubSeq(text, a + 1, n - 1)
      /\ open = << >> <=> n - 1 = 0 \/ n - 1 \in Gaps(text)
  BY <1>1 DEF Parsed
<1>3. closed \in Seq(Seq(Int)) /\ Len(closed) \in Nat /\ n \in Nat /\ Len(text) \in Nat
      /\ n <= Len(text) /\ text[n] \in Int
  BY SentenceType
<1>4. /\ Len(acc) = Len(closed) + 1 /\ Last(acc) = open /\ acc \in Seq(Seq(Int))
      /\ acc[Len(acc)] = open /\ \A i \in 1 .. Len(closed) : acc[i] = closed[i]
  <2>1. /\ Append(closed, open) \in Seq(Seq(Int)) /\ Len(Append(closed, open)) = Len(closed) + 1
        /\ Append(closed, open)[Len(closed) + 1] = open
        /\ \A i \in 1 .. Len(closed) : Append(closed, open)[i] = closed[i]
    BY <1>3, OneAppended
  <2>. QED
    BY <1>2, <2>1 DEF Last
<1>5. PICK letter \in Seq(Letter) : letter = Letters(<<text[n]>>)
  BY <1>3, LettersGrow, LettersType
<1>6. Letters(SubSeq(text, 1, n)) = Letters(SubSeq(text, 1, n - 1)) \o letter
  <2>1. PICK m \in Nat : m = n - 1
    BY <1>3
  <2>2. SubSeq(text, 1, m) \in Seq(Int) /\ SubSeq(text, 1, n) = Append(SubSeq(text, 1, m), text[n])
    BY <2>1, PrefixGrows
  <2>. QED
    BY <1>3, <1>5, <2>1, <2>2, LettersGrow
<1>7. PICK x, y \in Seq(Letter) : x = Content(closed) /\ y = Letters(open)
  BY <1>3, ContentIs, LettersType
<1>8. CASE n \notin Gaps(text)
  <2>1. PICK more \in Seq(Int) : more = Append(open, text[n]) /\ more # << >>
            /\ Letters(more) = y \o letter
    <3>1. Append(open, text[n]) \in Seq(Int) /\ Append(open, text[n]) # << >>
      BY <1>3, AppendProperties
    <3>. QED
      BY <1>3, <1>5, <1>7, <3>1, LettersGrow
  <2>2. ReadCharacter(acc, text, n) = Append(closed, more)
    <3>1. ReadCharacter(acc, text, n) = [acc EXCEPT ![Len(acc)] = Append(open, text[n])]
      BY <1>4, <1>8 DEF ReadCharacter
    <3>2. PICK u \in Seq(Seq(Int)) :
              /\ u = Append(closed, more) /\ Len(u) = Len(closed) + 1 /\ u[Len(closed) + 1] = more
              /\ \A i \in 1 .. Len(closed) : u[i] = closed[i]
      <4>1. /\ Append(closed, more) \in Seq(Seq(Int)) /\ Len(Append(closed, more)) = Len(closed) + 1
            /\ Append(closed, more)[Len(closed) + 1] = more
            /\ \A i \in 1 .. Len(closed) : Append(closed, more)[i] = closed[i]
        BY <1>3, OneAppended
      <4>. QED
        BY <4>1
    <3>3. PICK v \in Seq(Seq(Int)) :
              /\ v = [acc EXCEPT ![Len(acc)] = more] /\ Len(v) = Len(acc) /\ v[Len(acc)] = more
              /\ \A i \in 1 .. Len(closed) : v[i] = acc[i]
      <4>1. DOMAIN acc = 1 .. Len(acc) /\ Len(acc) \in 1 .. Len(acc)
        BY <1>3, <1>4
      <4>2. [acc EXCEPT ![Len(acc)] = more] \in Seq(Seq(Int))
        BY <1>4, <4>1
      <4>3. Len([acc EXCEPT ![Len(acc)] = more]) = Len(acc)
        BY <1>4, <4>1
      <4>4. \A i \in 1 .. Len(closed) : i \in 1 .. Len(acc) /\ i # Len(acc)
        BY <1>3, <1>4
      <4>. QED
        BY <4>1, <4>2, <4>3, <4>4
    <3>4. \A i \in 1 .. Len(u) : u[i] = v[i]
      <4>1. \A i \in 1 .. Len(u) : i \in 1 .. Len(closed) \/ i = Len(closed) + 1
        BY <1>3, <3>2
      <4>. QED
        BY <1>4, <3>2, <3>3, <4>1
    <3>5. u = v
      <4>1. Len(u) = Len(v)
        BY <1>4, <3>2, <3>3
      <4>. QED
        BY <3>4, <4>1, SeqEqual
    <3>. QED
      BY <2>1, <3>1, <3>2, <3>3, <3>5
  <2>3. x \o (y \o letter) = (x \o y) \o letter
    BY LettersAssociate
  <2>4. \E a \in 0 .. n - 1 : more = SubSeq(text, a + 1, n)
    <3>1. CASE open = << >>
      <4>1. n - 1 \in Nat /\ n - 1 < n /\ n - 1 \in 0 .. n - 1
        BY <1>3
      <4>2. SubSeq(text, n - 1 + 1, n - 1) = << >>
        BY <1>3, SubSeqEmpty
      <4>3. SubSeq(text, n - 1 + 1, n) = Append(SubSeq(text, n - 1 + 1, n - 1), text[n])
        BY <1>3, <4>1, PartGrows
      <4>. QED
        BY <2>1, <3>1, <4>1, <4>2, <4>3
    <3>2. CASE open # << >>
      <4>1. PICK a \in 0 .. (n - 1) - 1 : open = SubSeq(text, a + 1, n - 1)
        BY <1>2, <3>2
      <4>2. a \in Nat /\ a < n /\ a \in 0 .. n - 1
        BY <1>3
      <4>3. SubSeq(text, a + 1, n) = Append(SubSeq(text, a + 1, n - 1), text[n])
        BY <1>3, <4>2, PartGrows
      <4>. QED
        BY <2>1, <4>1, <4>2, <4>3
    <3>. QED
      BY <3>1, <3>2
  <2>5. n # 0
    BY <1>3
  <2>6. Parsed(ReadCharacter(acc, text, n), closed, more, text, n)
    BY <1>2, <1>6, <1>7, <1>8, <2>1, <2>2, <2>3, <2>4, <2>5 DEF Parsed
  <2>. QED
    BY <2>6 DEF Reads
<1>9. CASE n \in Gaps(text)
  <2>1. text[n] \notin Letter /\ letter = << >>
    BY <1>3, <1>5, <1>9, GapIs, LettersGrow
  <2>2. Letters(SubSeq(text, 1, n)) = x \o y /\ x \o y \in Seq(Letter)
    <3>1. x \o y \in Seq(Letter)
      BY ConcatProperties
    <3>. QED
      BY <1>2, <1>6, <1>7, <2>1, <3>1, ConcatEmptySeq
  <2>3. CASE open = << >>
    <3>1. ReadCharacter(acc, text, n) = acc
      BY <1>4, <1>9, <2>3 DEF ReadCharacter
    <3>2. Parsed(acc, closed, open, text, n)
      BY <1>2, <1>7, <1>9, <2>2, <2>3 DEF Parsed
    <3>. QED
      BY <3>1, <3>2 DEF Reads
  <2>4. CASE open # << >>
    <3>1. ReadCharacter(acc, text, n) = Append(acc, << >>)
      BY <1>4, <1>9, <2>4 DEF ReadCharacter
    <3>2. n - 1 \notin Gaps(text) /\ n > 1 /\ text[n - 1] \in Letter
      BY <1>2, <1>9, <2>4, GapIs
    <3>3. PICK a \in 0 .. (n - 1) - 1 : open = SubSeq(text, a + 1, n - 1)
      BY <1>2, <2>4
    <3>4. /\ a \in Nat /\ n - 1 \in Nat /\ a < n - 1 /\ n - 1 <= Len(text)
      BY <1>3, <3>2
    <3>5. Len(open) = n - 1 - a /\ open[n - 1 - a] = text[n - 1] /\ (HasHole(open) => HasHole(text))
      BY <3>3, <3>4, PartGrows
    <3>6. open \in Sentence(HasHole(text))
      BY <2>4, <3>2, <3>5 DEF Sentence
    <3>7. acc \in Seq(Sentence(HasHole(text)))
      <4>. HIDE DEF Sentence
      <4>. QED
        BY <1>2, <3>6, AppendProperties
    <3>8. Content(acc) = x \o y
      BY <1>2, <1>3, <1>7, ContentIs
    <3>9. (x \o y) \o Letters(<< >>) = x \o y
      BY <2>2, LettersOfNothing, ConcatEmptySeq
    <3>10. << >> \in Seq(Int)
      OBVIOUS
    <3>11. Parsed(Append(acc, << >>), acc, << >>, text, n)
      BY <1>9, <2>2, <3>8, <3>9 DEF Parsed
    <3>. QED
      BY <3>1, <3>7, <3>10, <3>11 DEF Reads
  <2>. QED
    BY <2>3, <2>4
<1>. QED
  BY <1>8, <1>9

\* Sentences of a text with holes only where they are allowed.
LEMMA SentenceWidens ==
  ASSUME NEW holes, NEW text \in Seq(Int), HasHole(text) => holes
  PROVE  Seq(Sentence(HasHole(text))) \subseteq Seq(Sentence(holes))
<1>1. Sentence(HasHole(text)) \subseteq Sentence(holes)
  BY DEF Sentence
<1>. HIDE DEF Sentence
<1>. QED
  BY <1>1

\* The turns of the loop over the characters.
CharacterReads(text, f) ==
    f = [n \in 0 .. Len(text) |-> IF n = 0 THEN << << >> >> ELSE ReadCharacter(f[n - 1], text, n)]

\* The turns, one after another.
LEMMA CharacterReadsIs ==
  ASSUME NEW text, NEW f, CharacterReads(text, f)
  PROVE  \A n \in 0 .. Len(text) :
            f[n] = IF n = 0 THEN << << >> >> ELSE ReadCharacter(f[n - 1], text, n)
<1> DEFINE Turn(n) == IF n = 0 THEN << << >> >> ELSE ReadCharacter(f[n - 1], text, n)
<1>1. f = [n \in 0 .. Len(text) |-> Turn(n)]
  BY DEF CharacterReads
<1>. HIDE DEF Turn
<1>2. \A n \in 0 .. Len(text) : f[n] = Turn(n)
  BY <1>1
<1>. QED
  BY <1>2 DEF Turn

\* What was read are texts.
LEMMA ReadsType ==
  ASSUME NEW text \in Seq(Int), NEW acc, NEW n, Reads(acc, text, n)
  PROVE  acc \in Seq(Seq(Int))
<1>1. PICK closed \in Seq(Sentence(HasHole(text))), open \in Seq(Int)
          : Parsed(acc, closed, open, text, n)
  BY DEF Reads
<1>2. closed \in Seq(Seq(Int)) /\ acc = Append(closed, open)
  BY <1>1, SentenceType DEF Parsed
<1>. QED
  BY <1>2, OneAppended

\* At first nothing was read.
LEMMA ReadsNothing ==
  ASSUME NEW text \in Seq(Int)
  PROVE  Reads(<< << >> >>, text, 0)
<1>1. << << >> >> = Append(<< >>, << >>) /\ << >> \in Seq(Int)
  OBVIOUS
<1>2. << >> \in Seq(Sentence(HasHole(text)))
  <2>. HIDE DEF Sentence
  <2>. QED
    OBVIOUS
<1>3. SubSeq(text, 1, 0) = << >> /\ << >> \o << >> = << >>
  <2>1. << >> \in Seq(Int)
    OBVIOUS
  <2>. QED
    BY <2>1, SubSeqEmpty, ConcatEmptySeq
<1>4. Parsed(<< << >> >>, << >>, << >>, text, 0)
  BY <1>1, <1>3, ContentIs, LettersOfNothing DEF Parsed
<1>. QED
  BY <1>1, <1>2, <1>4 DEF Reads

\* What was read of a text that ends with a letter.
LEMMA ReadsAll ==
  ASSUME NEW text \in Seq(Int), text # << >>, text[Len(text)] \in Letter,
         NEW acc, Reads(acc, text, Len(text))
  PROVE  acc \in Seq(Sentence(HasHole(text))) /\ Content(acc) = Letters(text)
<1>1. PICK n \in Nat : n = Len(text) /\ n > 0 /\ text[n] \in Letter
  OBVIOUS
<1>2. PICK closed \in Seq(Sentence(HasHole(text))), open \in Seq(Int)
          : Parsed(acc, closed, open, text, n)
  BY <1>1 DEF Reads
<1>3. n \notin Gaps(text)
  BY <1>1, GapIs
<1>4. /\ acc = Append(closed, open) /\ open # << >>
      /\ Content(closed) \o Letters(open) = Letters(SubSeq(text, 1, n))
  BY <1>1, <1>2, <1>3 DEF Parsed
<1>5. PICK a \in 0 .. n - 1 : open = SubSeq(text, a + 1, n)
  BY <1>2, <1>4 DEF Parsed
<1>6. a \in Nat /\ a < n /\ n <= Len(text)
  BY <1>1
<1>7. Len(open) = n - a /\ open[n - a] = text[n] /\ (HasHole(open) => HasHole(text))
  BY <1>1, <1>5, <1>6, PartGrows
<1>8. open \in Sentence(HasHole(text))
  BY <1>1, <1>4, <1>7 DEF Sentence
<1>9. acc \in Seq(Sentence(HasHole(text)))
  <2>. HIDE DEF Sentence
  <2>. QED
    BY <1>4, <1>8, OneAppended
<1>10. closed \in Seq(Seq(Int)) /\ SubSeq(text, 1, n) = text
  BY <1>1, SentenceType, SubSeqFull
<1>. QED
  BY <1>4, <1>9, <1>10, ContentIs

\* The sentences of a text say its letters.
LEMMA SentencesIs ==
  ASSUME NEW text \in Seq(Int), text # << >>, text[Len(text)] \in Letter
  PROVE  Sentences(text) \in Seq(Sentence(HasHole(text)))
      /\ Content(Sentences(text)) = Letters(text)
<1> DEFINE start == << << >> >>
<1>1. PICK N \in Nat : N = Len(text)
  OBVIOUS
<1>2. Reads(start, text, 0)
  BY ReadsNothing
<1>3. PICK inv : inv = [n \in 0 .. N |-> {v \in Seq(Seq(Int)) : Reads(v, text, n)}]
  OBVIOUS
<1>4. PICK step : step = [n \in 1 .. N |-> [v \in Seq(Seq(Int)) |-> ReadCharacter(v, text, n)]]
  OBVIOUS
<1>5. \A n \in 0 .. N : inv[n] \subseteq Seq(Seq(Int)) /\ \A v : v \in inv[n] <=> Reads(v, text, n)
  BY <1>3, ReadsType
<1>6. ASSUME NEW n \in 1 .. N, NEW v \in inv[n - 1]
      PROVE  step[n][v] = ReadCharacter(v, text, n) /\ ReadCharacter(v, text, n) \in inv[n]
  <2>1. n - 1 \in 0 .. N /\ n \in 0 .. N /\ n \in 1 .. Len(text)
    BY <1>1
  <2>2. v \in Seq(Seq(Int)) /\ Reads(v, text, n - 1)
    BY <1>5, <2>1
  <2>3. Reads(ReadCharacter(v, text, n), text, n)
    BY <2>1, <2>2, ReadCharacterKeeps
  <2>. QED
    BY <1>4, <1>5, <2>1, <2>2, <2>3
<1>. HIDE DEF start
<1>7. start \in inv[0]
  BY <1>2, <1>5
<1>8. PICK h \in [0 .. N -> Seq(Seq(Int))] :
          h[0] = start /\ \A n \in 1 .. N : h[n - 1] \in inv[n - 1] /\ h[n] = step[n][h[n - 1]]
  <2>1. Ranges(inv, Seq(Seq(Int)), N) /\ Leads(inv, step, N)
    BY <1>5, <1>6 DEF Ranges, Leads
  <2>2. \E h \in [0 .. N -> Seq(Seq(Int))] : Runs(h, start, inv, step, N)
    BY <1>7, <2>1, LoopRuns
  <2>. QED
    BY <2>2 DEF Runs
<1>9. CharacterReads(text, h)
  <2>1. ASSUME NEW n \in 0 .. N
        PROVE  h[n] = IF n = 0 THEN start ELSE ReadCharacter(h[n - 1], text, n)
    <3>1. CASE n = 0
      BY <1>8, <3>1
    <3>2. CASE n # 0
      <4>1. n \in 1 .. N
        BY <3>2
      <4>. QED
        BY <1>6, <1>8, <3>2, <4>1
    <3>. QED
      BY <3>1, <3>2
  <2>2. h = [n \in 0 .. N |-> h[n]]
    BY <1>8
  <2>. QED
    BY <1>1, <2>1, <2>2 DEF CharacterReads, start
<1>10. PICK g : CharacterReads(text, g) /\ Sentences(text) = g[N]
  <2>1. PICK g : g = CHOOSE e : CharacterReads(text, e)
    OBVIOUS
  <2>2. CharacterReads(text, g)
    BY <1>9, <2>1
  <2>3. Sentences(text) = g[N]
    BY <1>1, <2>1 DEF Sentences, CharacterReads
  <2>. QED
    BY <2>2, <2>3
<1>11. g[0] = start /\ \A n \in 1 .. N : g[n] = ReadCharacter(g[n - 1], text, n)
  <2>1. \A n \in 0 .. N : g[n] = IF n = 0 THEN start ELSE ReadCharacter(g[n - 1], text, n)
    BY <1>1, <1>10, CharacterReadsIs DEF start
  <2>. QED
    BY <2>1
<1>12. g[N] \in inv[N]
  <2>1. g[0] \in inv[0]
    BY <1>7, <1>11
  <2>2. \A n \in 1 .. N : g[n - 1] \in inv[n - 1] => g[n] \in inv[n]
    BY <1>6, <1>11
  <2>. QED
    BY <2>1, <2>2, LoopKeeps
<1>13. Reads(g[N], text, N)
  <2>1. N \in 0 .. N
    OBVIOUS
  <2>. QED
    BY <1>5, <1>12, <2>1
<1>. QED
  BY <1>1, <1>10, <1>13, ReadsAll

\* A paragraph, like a sentence, ends with a letter; it is cut into pieces that say the same.
LEMMA SplitLongTextIs ==
  ASSUME NEW holes, NEW text \in Sentence(holes)
  PROVE  SplitLongText(text) \in Seq(Piece(holes)) /\ Content(SplitLongText(text)) = Letters(text)
<1>1. /\ text \in Seq(Int)
      /\ text # << >>
      /\ text[Len(text)] \in Letter
      /\ (HasHole(text) => holes)
  BY DEF Sentence
<1>2. CASE Len(text) <= MaxChars
  <2>1. SplitLongText(text) = <<text>>
    BY <1>2 DEF SplitLongText
  <2>2. Letters(text) # << >>
    <3>1. Len(text) \in 1 .. Len(text)
      BY <1>1
    <3>. QED
      BY <1>1, <3>1, WithoutLetters
  <2>3. text \in Piece(holes)
    BY <1>1, <1>2, <2>2 DEF Piece
  <2>4. <<text>> \in Seq(Piece(holes))
    BY <2>3, PieceAlone
  <2>. QED
    BY <1>1, <2>1, <2>4, ContentIs
<1>3. CASE ~(Len(text) <= MaxChars)
  <2>1. PICK sentences \in Seq(Sentence(holes)) :
            sentences = Sentences(text) /\ Content(sentences) = Letters(text)
    <3>1. Sentences(text) \in Seq(Sentence(HasHole(text)))
              /\ Content(Sentences(text)) = Letters(text)
      BY <1>1, SentencesIs
    <3>2. Seq(Sentence(HasHole(text))) \subseteq Seq(Sentence(holes))
      BY <1>1, SentenceWidens
    <3>. QED
      BY <3>1, <3>2
  <2>2. PICK packed : packed = PackSentences(sentences)
    OBVIOUS
  <2>3. Packed(packed, Letters(text), holes)
    BY <2>1, <2>2, PackSentencesKeeps
  <2>4. /\ packed.pieces \in Seq(Piece(holes)) /\ packed.pieces \in Seq(Seq(Int))
        /\ packed.buffer \in Seq(Int)
        /\ (packed.buffer = << >> \/ packed.buffer \in Piece(FALSE))
        /\ Content(packed.pieces) \o Letters(packed.buffer) = Letters(text)
    BY <2>3 DEF Packed, Packs
  <2>5. SplitLongText(text) = IF packed.buffer = << >> THEN packed.pieces
                              ELSE Append(packed.pieces, packed.buffer)
    BY <1>3, <2>1, <2>2 DEF SplitLongText
  <2>6. CASE packed.buffer = << >>
    <3>1. PICK c \in Seq(Letter) : c = Content(packed.pieces) /\ c \o << >> = c
      BY <2>4, ContentIs, ConcatEmptySeq
    <3>2. Content(packed.pieces) = Letters(text)
      BY <2>4, <2>6, <3>1, LettersOfNothing
    <3>. QED
      BY <2>4, <2>5, <2>6, <3>2
  <2>7. CASE packed.buffer # << >>
    <3>1. packed.buffer \in Piece(holes)
      BY <2>4, <2>7, PieceType
    <3>2. Append(packed.pieces, packed.buffer) \in Seq(Piece(holes))
      <4>. HIDE DEF Piece
      <4>. QED
        BY <2>4, <3>1, OneAppended
    <3>3. Content(Append(packed.pieces, packed.buffer)) = Letters(text)
      BY <2>4, ContentIs
    <3>. QED
      BY <2>5, <2>7, <3>2, <3>3
  <2>. QED
    BY <2>6, <2>7
<1>. QED
  BY <1>2, <1>3

\* A section has paragraphs, which like sentences end with a letter.
Section(holes) == [title : Seq(Int), paragraphs : Seq(Sentence(holes))]

\* The pieces of the paragraphs.
PiecesOf(paragraphs) == FlattenSeq([i \in DOMAIN paragraphs |-> SplitLongText(paragraphs[i])])

\* The pieces of a section say what its paragraphs do (by induction on their number).
LEMMA PiecesOfIs ==
  ASSUME NEW holes, NEW paragraphs \in Seq(Sentence(holes))
  PROVE  PiecesOf(paragraphs) \in Seq(Piece(holes))
      /\ Content(PiecesOf(paragraphs)) = Content(paragraphs)
<1>1. PICK N \in Nat : N = Len(paragraphs) /\ DOMAIN paragraphs = 1 .. N
  OBVIOUS
<1>2. \A n \in 1 .. N : paragraphs[n] \in Sentence(holes)
  <2>. HIDE DEF Sentence
  <2>. QED
    BY <1>1
<1>3. PICK f : f = [i \in 1 .. N |-> SplitLongText(paragraphs[i])]
  OBVIOUS
<1>4. \A n \in 1 .. N : f[n] \in Seq(Piece(holes)) /\ Content(f[n]) = Letters(paragraphs[n])
  BY <1>2, <1>3, SplitLongTextIs
<1>5. f \in Seq(Seq(Piece(holes))) /\ Len(f) = N
  <2>. HIDE DEF Piece
  <2>1. f \in [1 .. N -> Seq(Piece(holes))]
    BY <1>3, <1>4
  <2>2. f \in Seq(Seq(Piece(holes)))
    BY <2>1
  <2>. QED
    BY <2>1, <2>2
<1>6. PiecesOf(paragraphs) = FlattenSeq(f)
  BY <1>1, <1>3 DEF PiecesOf
<1>7. /\ FlattenSeq(SubSeq(f, 1, 0)) = << >> /\ SubSeq(f, 1, N) = f
      /\ \A n \in 1 .. N :
            /\ FlattenSeq(SubSeq(f, 1, n - 1)) \in Seq(Piece(holes))
            /\ FlattenSeq(SubSeq(f, 1, n)) = FlattenSeq(SubSeq(f, 1, n - 1)) \o f[n]
  <2>. HIDE DEF Piece
  <2>. QED
    BY <1>5, FlattenSoFar
<1>8. paragraphs \in Seq(Seq(Int))
  BY SentenceType
<1>9. /\ Content(SubSeq(paragraphs, 1, 0)) = << >> /\ SubSeq(paragraphs, 1, N) = paragraphs
      /\ \A n \in 1 .. N :
            Content(SubSeq(paragraphs, 1, n)) =
                Content(SubSeq(paragraphs, 1, n - 1)) \o Letters(paragraphs[n])
  BY <1>1, <1>8, ContentSoFar
<1> DEFINE Done == {n \in 0 .. N :
                      Content(FlattenSeq(SubSeq(f, 1, n))) = Content(SubSeq(paragraphs, 1, n))}
<1>10. 0 \in Done
  BY <1>7, <1>9, ContentIs
<1>11. ASSUME NEW n \in 1 .. N, n - 1 \in Done PROVE n \in Done
  <2>1. PICK s \in Seq(Seq(Int)) : s = FlattenSeq(SubSeq(f, 1, n - 1))
    BY <1>7, PieceType
  <2>2. PICK t \in Seq(Seq(Int)) : t = f[n]
    BY <1>4, PieceType
  <2>3. FlattenSeq(SubSeq(f, 1, n)) = s \o t
    BY <1>7, <2>1, <2>2
  <2>4. Content(s \o t) = Content(s) \o Content(t)
    BY ContentIs
  <2>5. Content(s) = Content(SubSeq(paragraphs, 1, n - 1))
    BY <1>11, <2>1
  <2>6. Content(FlattenSeq(SubSeq(f, 1, n))) = Content(SubSeq(paragraphs, 1, n))
    BY <1>4, <1>9, <2>2, <2>3, <2>4, <2>5
  <2>. QED
    BY <2>6
<1>12. \A n \in 0 .. N : n \in Done
  <2>. HIDE DEF Done
  <2>. QED
    BY <1>10, <1>11, Induction
<1>13. N \in Done
  <2>. HIDE DEF Done
  <2>. QED
    BY <1>12
<1>14. FlattenSeq(f) \in Seq(Piece(holes))
  <2>. HIDE DEF Piece
  <2>. QED
    BY <1>5, FlattenType
<1>. QED
  BY <1>6, <1>7, <1>9, <1>13, <1>14

\* A section is packed: its paragraphs are told under its title.
LEMMA PackSectionKeeps ==
  ASSUME NEW chunks, NEW told, NEW holes, Chain(chunks, told, holes), NEW section \in Section(holes)
  PROVE  Chain(PackSection(chunks, section),
               told \o Under(section.title, Content(section.paragraphs)), holes)
<1>1. PICK title \in Seq(Int) : title = section.title
  BY DEF Section
<1>2. section.paragraphs \in Seq(Sentence(holes))
  BY DEF Section
<1>3. PICK pieces \in Seq(Piece(holes)) :
          pieces = PiecesOf(section.paragraphs) /\ Content(pieces) = Content(section.paragraphs)
  <2>1. /\ PiecesOf(section.paragraphs) \in Seq(Piece(holes))
        /\ Content(PiecesOf(section.paragraphs)) = Content(section.paragraphs)
    BY <1>2, PiecesOfIs
  <2>. QED
    BY <2>1
<1>4. PICK packed : packed = PackPieces(chunks, pieces, title)
  OBVIOUS
<1>5. Half(packed, title, told \o Under(title, Content(pieces)), holes)
  BY <1>4, PackPiecesKeeps
<1>6. PackSection(chunks, section) =
          IF Strip(packed.buffer) = << >> THEN packed.chunks ELSE MakeChunk(packed, title)
  BY <1>1, <1>3, <1>4 DEF PackSection, PiecesOf
<1>7. PICK more : more = told \o Under(title, Content(pieces))
  OBVIOUS
<1>8. Chain(IF Strip(packed.buffer) = << >> THEN packed.chunks
          ELSE MakeChunk(packed, title), more, holes)
  BY <1>5, <1>7, HalfEnds
<1>. QED
  BY <1>1, <1>3, <1>6, <1>7, <1>8

--------------------------------------------------------------------------------
\* The passages of sections.

\* What a section says.
SaysOf(section) == Under(section.title, Content(section.paragraphs))

\* What a section says is told.
LEMMA SaysOfType ==
  ASSUME NEW holes, NEW section \in Section(holes)
  PROVE  SaysOf(section) \in Seq(Told)
<1>1. section.title \in Seq(Int) /\ section.paragraphs \in Seq(Seq(Int))
  BY SentenceType DEF Section
<1>2. Content(section.paragraphs) \in Seq(Letter)
  BY <1>1, ContentIs
<1>. QED
  BY <1>1, <1>2, UnderType DEF SaysOf

\* What the sections say.
SaysAll(sections) == FlattenSeq([i \in DOMAIN sections |-> SaysOf(sections[i])])

\* The turns of the loop over the sections.
SectionPacks(sections, f) ==
    f = [n \in 0 .. Len(sections) |->
            IF n = 0 THEN << >> ELSE PackSection(f[n - 1], sections[n])]

\* The turns, one after another.
LEMMA SectionPacksIs ==
  ASSUME NEW sections, NEW f, SectionPacks(sections, f)
  PROVE  \A n \in 0 .. Len(sections) :
            f[n] = IF n = 0 THEN << >> ELSE PackSection(f[n - 1], sections[n])
<1> DEFINE Turn(n) == IF n = 0 THEN << >> ELSE PackSection(f[n - 1], sections[n])
<1>1. f = [n \in 0 .. Len(sections) |-> Turn(n)]
  BY DEF SectionPacks
<1>. HIDE DEF Turn
<1>2. \A n \in 0 .. Len(sections) : f[n] = Turn(n)
  BY <1>1
<1>. QED
  BY <1>2 DEF Turn

\* The passages of a document tell what its sections say.
LEMMA ChunkDocumentIs ==
  ASSUME NEW lines, NEW holes, NEW sections \in Seq(Section(holes)), sections = SplitSections(lines)
  PROVE  Chain(ChunkDocument(lines), SaysAll(sections), holes)
<1>1. PICK N \in Nat : N = Len(sections) /\ DOMAIN sections = 1 .. N
  OBVIOUS
<1>2. \A n \in 1 .. N : sections[n] \in Section(holes)
  <2>. HIDE DEF Section
  <2>. QED
    BY <1>1
<1>3. PICK says : says = [i \in 1 .. N |-> SaysOf(sections[i])]
  OBVIOUS
<1>4. says \in Seq(Seq(Told)) /\ Len(says) = N /\ \A n \in 1 .. N : says[n] = SaysOf(sections[n])
  <2>1. \A n \in 1 .. N : SaysOf(sections[n]) \in Seq(Told)
    BY <1>2, SaysOfType
  <2>. HIDE DEF Told
  <2>2. says \in [1 .. N -> Seq(Told)]
    BY <1>3, <2>1
  <2>3. says \in Seq(Seq(Told))
    BY <2>2
  <2>. QED
    BY <1>3, <2>2, <2>3
<1>5. /\ FlattenSeq(SubSeq(says, 1, 0)) = << >> /\ SubSeq(says, 1, N) = says
      /\ \A n \in 1 .. N :
            FlattenSeq(SubSeq(says, 1, n)) = FlattenSeq(SubSeq(says, 1, n - 1)) \o says[n]
  BY <1>4, FlattenSoFar
<1>6. PICK told : told = [n \in 0 .. N |-> FlattenSeq(SubSeq(says, 1, n))]
  OBVIOUS
<1>7. /\ told[0] = << >> /\ told[N] = SaysAll(sections)
      /\ \A n \in 1 .. N : told[n] = told[n - 1] \o SaysOf(sections[n])
  <2>1. \A n \in 1 .. N : n \in 0 .. N /\ n - 1 \in 0 .. N
    OBVIOUS
  <2>2. 0 \in 0 .. N /\ N \in 0 .. N
    OBVIOUS
  <2>3. told[0] = << >> /\ told[N] = FlattenSeq(says)
    BY <1>5, <1>6, <2>2
  <2>4. SaysAll(sections) = FlattenSeq(says)
    BY <1>1, <1>3 DEF SaysAll
  <2>5. ASSUME NEW n \in 1 .. N PROVE told[n] = told[n - 1] \o SaysOf(sections[n])
    <3>1. told[n] = FlattenSeq(SubSeq(says, 1, n))
              /\ told[n - 1] = FlattenSeq(SubSeq(says, 1, n - 1))
      BY <1>6, <2>1
    <3>. QED
      BY <1>4, <1>5, <3>1
  <2>. QED
    BY <2>3, <2>4, <2>5
<1>8. Chain(<< >>, told[0], holes)
  BY <1>7, ChainOfNothing
<1>9. PICK inv : inv = [n \in 0 .. N |-> {v \in Seq(Chunk) : Chain(v, told[n], holes)}]
  OBVIOUS
<1>10. PICK step : step = [n \in 1 .. N |-> [v \in Seq(Chunk) |-> PackSection(v, sections[n])]]
  OBVIOUS
<1>11. \A n \in 0 .. N : inv[n] \subseteq Seq(Chunk)
           /\ \A v : v \in inv[n] <=> Chain(v, told[n], holes)
  BY <1>9 DEF Chain
<1>12. ASSUME NEW n \in 1 .. N, NEW v \in inv[n - 1]
       PROVE  step[n][v] = PackSection(v, sections[n]) /\ PackSection(v, sections[n]) \in inv[n]
  <2>1. n - 1 \in 0 .. N /\ n \in 0 .. N
    OBVIOUS
  <2>2. v \in Seq(Chunk) /\ Chain(v, told[n - 1], holes)
    BY <1>11, <2>1
  <2>3. PICK section \in Section(holes) : section = sections[n]
    BY <1>2
  <2>4. Chain(PackSection(v, section), told[n - 1] \o SaysOf(section), holes)
    BY <2>2, PackSectionKeeps DEF SaysOf
  <2>. QED
    BY <1>7, <1>10, <1>11, <2>1, <2>2, <2>3, <2>4
<1>13. << >> \in inv[0]
  BY <1>8, <1>11
<1>14. PICK h \in [0 .. N -> Seq(Chunk)] :
          h[0] = << >> /\ \A n \in 1 .. N : h[n - 1] \in inv[n - 1] /\ h[n] = step[n][h[n - 1]]
  <2>1. Ranges(inv, Seq(Chunk), N) /\ Leads(inv, step, N)
    BY <1>11, <1>12 DEF Ranges, Leads
  <2>2. \E h \in [0 .. N -> Seq(Chunk)] : Runs(h, << >>, inv, step, N)
    BY <1>13, <2>1, LoopRuns
  <2>. QED
    BY <2>2 DEF Runs
<1>15. SectionPacks(sections, h)
  <2>1. ASSUME NEW n \in 0 .. N
        PROVE  h[n] = IF n = 0 THEN << >> ELSE PackSection(h[n - 1], sections[n])
    <3>1. CASE n = 0
      BY <1>14, <3>1
    <3>2. CASE n # 0
      <4>1. n \in 1 .. N
        BY <3>2
      <4>. QED
        BY <1>12, <1>14, <3>2, <4>1
    <3>. QED
      BY <3>1, <3>2
  <2>2. h = [n \in 0 .. N |-> h[n]]
    BY <1>14
  <2>. QED
    BY <1>1, <2>1, <2>2 DEF SectionPacks
<1>16. PICK g : SectionPacks(sections, g) /\ ChunkDocument(lines) = g[N]
  <2>1. PICK g : g = CHOOSE e : SectionPacks(sections, e)
    OBVIOUS
  <2>2. SectionPacks(sections, g)
    BY <1>15, <2>1
  <2>3. ChunkDocument(lines) = g[N]
    BY <1>1, <2>1 DEF ChunkDocument, SectionPacks
  <2>. QED
    BY <2>2, <2>3
<1>17. g[0] = << >> /\ \A n \in 1 .. N : g[n] = PackSection(g[n - 1], sections[n])
  <2>1. \A n \in 0 .. N : g[n] = IF n = 0 THEN << >> ELSE PackSection(g[n - 1], sections[n])
    BY <1>1, <1>16, SectionPacksIs
  <2>. QED
    BY <2>1
<1>18. g[N] \in inv[N]
  <2>1. g[0] \in inv[0]
    BY <1>13, <1>17
  <2>2. \A n \in 1 .. N : g[n - 1] \in inv[n - 1] => g[n] \in inv[n]
    BY <1>12, <1>17
  <2>. QED
    BY <2>1, <2>2, LoopKeeps
<1>19. Chain(g[N], told[N], holes)
  <2>1. N \in 0 .. N
    OBVIOUS
  <2>. QED
    BY <1>11, <1>18, <2>1
<1>. QED
  BY <1>7, <1>16, <1>19

--------------------------------------------------------------------------------
\* Lines are joined into paragraphs.

\* The blank that joins two lines stands between letters, so it makes no hole.
LEMMA HoleInJoined ==
  ASSUME NEW a \in Seq(Int), NEW b \in Seq(Int), a # << >>, a[Len(a)] \in Letter,
         b # << >>, b[1] \in Letter, HasHole(a \o (<<Space>> \o b))
  PROVE  HasHole(a) \/ HasHole(b)
<1>1. PICK A, B, M \in Nat : A = Len(a) /\ B = Len(b) /\ M = MaxChars /\ A > 0 /\ B > 0 /\ M > 1
  BY ChunkerAssumption
<1>2. DOMAIN a = 1 .. A /\ DOMAIN b = 1 .. B
  BY <1>1
<1>3. PICK c \in Seq(Int) :
          c = <<Space>> \o b /\ Len(c) = B + 1 /\ c[1] = Space /\ \A j \in 1 .. B : c[1 + j] = b[j]
  <2>1. <<Space>> \in Seq(Int) /\ Len(<<Space>>) = 1 /\ <<Space>>[1] = Space /\ 1 \in 1 .. 1
    BY DEF Space
  <2>2. /\ <<Space>> \o b \in Seq(Int) /\ Len(<<Space>> \o b) = Len(<<Space>>) + Len(b)
        /\ \A i \in 1 .. Len(<<Space>>) : (<<Space>> \o b)[i] = <<Space>>[i]
        /\ \A i \in 1 .. Len(b) : (<<Space>> \o b)[Len(<<Space>>) + i] = b[i]
    BY <2>1, Joint
  <2>3. Len(<<Space>> \o b) = B + 1
    BY <1>1, <2>1, <2>2
  <2>4. (<<Space>> \o b)[1] = Space
    BY <2>1, <2>2
  <2>5. \A j \in 1 .. B : (<<Space>> \o b)[1 + j] = b[j]
    BY <1>1, <2>1, <2>2
  <2>. QED
    BY <2>2, <2>3, <2>4, <2>5
<1>4. PICK t \in Seq(Int) :
          /\ t = a \o c /\ Len(t) = A + (B + 1)
          /\ \A i \in 1 .. A : t[i] = a[i]
          /\ \A i \in 1 .. B + 1 : t[A + i] = c[i]
  <2>1. /\ a \o c \in Seq(Int) /\ Len(a \o c) = Len(a) + Len(c)
        /\ \A i \in 1 .. Len(a) : (a \o c)[i] = a[i]
        /\ \A i \in 1 .. Len(c) : (a \o c)[Len(a) + i] = c[i]
    BY Joint
  <2>2. Len(a \o c) = A + (B + 1)
    BY <1>1, <1>3, <2>1
  <2>3. \A i \in 1 .. A : (a \o c)[i] = a[i]
    BY <1>1, <2>1
  <2>4. \A i \in 1 .. B + 1 : (a \o c)[A + i] = c[i]
    BY <1>1, <1>3, <2>1
  <2>. QED
    BY <2>1, <2>2, <2>3, <2>4
<1>5. \A j \in 1 .. B : t[A + 1 + j] = b[j]
  <2>1. \A j \in 1 .. B : 1 + j \in 1 .. B + 1 /\ A + (1 + j) = A + 1 + j
    BY <1>1
  <2>. QED
    BY <1>3, <1>4, <2>1
<1>6. t[A] \in Letter /\ t[A + 2] \in Letter
  <2>1. A \in 1 .. A /\ 1 \in 1 .. B /\ A + 1 + 1 = A + 2
    BY <1>1
  <2>. QED
    BY <1>1, <1>4, <1>5, <2>1
<1>7. DOMAIN t = 1 .. A + (B + 1)
  BY <1>1, <1>4
<1>8. PICK i \in 1 .. A + (B + 1) :
          \A k \in i .. i + M - 1 : k \in 1 .. A + (B + 1) /\ t[k] \notin Letter
  BY <1>1, <1>3, <1>4, <1>7 DEF HasHole
<1>9. A \notin i .. i + M - 1 /\ A + 2 \notin i .. i + M - 1
  BY <1>6, <1>8
<1>10. CASE i + M - 1 < A
  <2>1. i \in 1 .. A /\ \A k \in i .. i + M - 1 : k \in 1 .. A
    BY <1>1, <1>10
  <2>2. \A k \in i .. i + M - 1 : k \in 1 .. A /\ a[k] \notin Letter
    BY <1>4, <1>8, <2>1
  <2>. QED
    BY <1>1, <1>2, <2>1, <2>2 DEF HasHole
<1>11. CASE ~(i + M - 1 < A)
  <2>1. i > A + 2
    BY <1>1, <1>9, <1>11
  <2>2. PICK h \in 1 .. B : i = A + 1 + h
    <3>1. i - (A + 1) \in 1 .. B /\ i = A + 1 + (i - (A + 1))
      BY <1>1, <2>1
    <3>. QED
      BY <3>1
  <2>3. ASSUME NEW k \in h .. h + M - 1 PROVE k \in 1 .. B /\ b[k] \notin Letter
    <3>1. A + 1 + k \in i .. i + M - 1
      BY <1>1, <2>2
    <3>2. A + 1 + k \in 1 .. A + (B + 1) /\ t[A + 1 + k] \notin Letter
      BY <1>8, <3>1
    <3>3. k \in 1 .. B
      BY <1>1, <2>2, <3>2
    <3>. QED
      BY <1>5, <3>2, <3>3
  <2>. QED
    BY <1>1, <1>2, <2>3 DEF HasHole
<1>. QED
  BY <1>10, <1>11

\* A line of a paragraph.
Prose(holes) == {s \in Seq(Int) : Strip(s) # << >> /\ (HasHole(Strip(s)) => holes)}

\* Lines are texts.
LEMMA ProseType ==
  ASSUME NEW holes
  PROVE  Prose(holes) \subseteq Seq(Int) /\ Seq(Prose(holes)) \subseteq Seq(Seq(Int))
<1>1. Prose(holes) \subseteq Seq(Int)
  BY DEF Prose
<1>2. ASSUME NEW s \in Seq(Prose(holes)) PROVE s \in Seq(Seq(Int))
  <2>. HIDE DEF Prose
  <2>. QED
    BY <1>1
<1>. QED
  BY <1>1, <1>2

\* A line without the blanks around it is like a sentence.
LEMMA ProseIs ==
  ASSUME NEW holes, NEW line \in Prose(holes)
  PROVE  /\ Strip(line) \in Sentence(holes) /\ Strip(line)[1] \in Letter
         /\ Letters(Strip(line)) = Letters(line)
<1>1. /\ line \in Seq(Int)
      /\ Strip(line) # << >>
      /\ (HasHole(Strip(line)) => holes)
  BY DEF Prose
<1>2. /\ Strip(line) \in Seq(Int) /\ Letters(Strip(line)) = Letters(line)
      /\ Strip(line)[1] \in Letter /\ Strip(line)[Len(Strip(line))] \in Letter
  BY <1>1, StripIs
<1>. QED
  BY <1>1, <1>2 DEF Sentence

\* So is a sentence.
LEMMA StripSentence ==
  ASSUME NEW holes, NEW text \in Sentence(holes)
  PROVE  Strip(text) \in Sentence(holes) /\ Letters(Strip(text)) = Letters(text)
<1>1. /\ text \in Seq(Int)
      /\ text # << >>
      /\ text[Len(text)] \in Letter
      /\ (HasHole(text) => holes)
  BY DEF Sentence
<1>2. Letters(text) # << >>
  <2>1. Len(text) \in 1 .. Len(text)
    BY <1>1
  <2>. QED
    BY <1>1, <2>1, WithoutLetters
<1>3. /\ Strip(text) \in Seq(Int) /\ Letters(Strip(text)) = Letters(text) /\ Strip(text) # << >>
      /\ Strip(text)[Len(Strip(text))] \in Letter
  BY <1>1, <1>2, StripIs
<1>4. HasHole(Strip(text)) => HasHole(text)
  BY <1>1, StripIs
<1>5. HasHole(Strip(text)) => holes
  BY <1>1, <1>4
<1>. QED
  BY <1>3, <1>5 DEF Sentence

\* One line more is joined to a paragraph.
LEMMA JoinOne ==
  ASSUME NEW holes, NEW text \in Sentence(holes), NEW line \in Prose(holes)
  PROVE  /\ text \o (<<Space>> \o Strip(line)) \in Sentence(holes)
         /\ Letters(text \o (<<Space>> \o Strip(line))) = Letters(text) \o Letters(line)
<1>1. /\ text \in Seq(Int)
      /\ text # << >>
      /\ text[Len(text)] \in Letter
      /\ (HasHole(text) => holes)
  BY DEF Sentence
<1>2. PICK more : more = Strip(line)
  OBVIOUS
<1>3. /\ more \in Seq(Int)
      /\ more # << >>
      /\ more[Len(more)] \in Letter /\ more[1] \in Letter /\ Letters(more) = Letters(line)
      /\ (HasHole(more) => holes)
  BY <1>2, ProseIs DEF Sentence
<1>4. <<Space>> \in Seq(Int) /\ Len(<<Space>>) = 1 /\ Letters(<<Space>>) = << >>
  <2>1. <<Space>> \in Seq(Int) /\ Len(<<Space>>) = 1
            /\ \A i \in 1 .. Len(<<Space>>) : <<Space>>[i] \notin Letter
    BY DEF Space, Letter
  <2>. QED
    BY <2>1, WithoutLetters
<1>5. PICK l \in Seq(Letter) : l = Letters(more) /\ << >> \o l = l
  BY <1>3, LettersType, ConcatEmptySeq
<1>6. PICK c \in Seq(Int) :
          /\ c = <<Space>> \o more /\ Letters(c) = l /\ Len(c) = Len(more) + 1
          /\ c[Len(more) + 1] = more[Len(more)]
  <2>1. /\ <<Space>> \o more \in Seq(Int) /\ Len(<<Space>> \o more) = Len(<<Space>>) + Len(more)
        /\ \A i \in 1 .. Len(more) : (<<Space>> \o more)[Len(<<Space>>) + i] = more[i]
    BY <1>3, <1>4, Joint
  <2>2. Letters(<<Space>> \o more) = Letters(<<Space>>) \o Letters(more)
    BY <1>3, <1>4, LettersOfTwo
  <2>3. Len(more) \in 1 .. Len(more) /\ 1 + Len(more) = Len(more) + 1
    BY <1>3
  <2>4. Len(<<Space>> \o more) = Len(more) + 1
            /\ (<<Space>> \o more)[Len(more) + 1] = more[Len(more)]
    BY <1>4, <2>1, <2>3
  <2>. QED
    BY <1>4, <1>5, <2>1, <2>2, <2>4
<1>7. PICK t \in Seq(Int) :
          /\ t = text \o c /\ Letters(t) = Letters(text) \o l /\ Len(t) = Len(text) + Len(c)
          /\ t[Len(text) + Len(c)] = c[Len(c)]
  <2>1. /\ text \o c \in Seq(Int) /\ Len(text \o c) = Len(text) + Len(c)
        /\ \A i \in 1 .. Len(c) : (text \o c)[Len(text) + i] = c[i]
    BY <1>1, Joint
  <2>2. Letters(text \o c) = Letters(text) \o Letters(c)
    BY <1>1, LettersOfTwo
  <2>3. Len(more) \in Nat
    BY <1>3
  <2>4. Len(c) \in 1 .. Len(c)
    BY <1>6, <2>3
  <2>. QED
    BY <1>6, <2>1, <2>2, <2>4
<1>8. t[Len(t)] \in Letter
  BY <1>3, <1>6, <1>7
<1>9. t # << >>
  <2>1. Len(t) # 0
    <3>1. Len(more) \in Nat /\ Len(text) \in Nat
      BY <1>1, <1>3
    <3>. QED
      BY <1>6, <1>7, <3>1
  <2>. QED
    BY <2>1, NotEmpty
<1>10. HasHole(t) => HasHole(text) \/ HasHole(more)
  BY <1>1, <1>3, <1>6, <1>7, HoleInJoined
<1>11. HasHole(t) => holes
  BY <1>1, <1>3, <1>10
<1>12. t \in Sentence(holes)
  BY <1>8, <1>9, <1>11 DEF Sentence
<1>. QED
  BY <1>2, <1>3, <1>5, <1>6, <1>7, <1>12

\* The lines of a paragraph joined say what the lines say (by induction on their number).
LEMMA JoinLinesIs ==
  ASSUME NEW holes, NEW paragraph \in Seq(Prose(holes)), paragraph # << >>
  PROVE  JoinLines(paragraph) \in Sentence(holes)
      /\ Letters(JoinLines(paragraph)) = Content(paragraph)
<1>1. PICK N \in Nat : N = Len(paragraph) /\ DOMAIN paragraph = 1 .. N /\ N > 0
  OBVIOUS
<1>2. paragraph \in Seq(Seq(Int)) /\ \A n \in 1 .. N : paragraph[n] \in Prose(holes)
  <2>1. paragraph \in Seq(Seq(Int))
    BY ProseType
  <2>. HIDE DEF Prose
  <2>2. \A n \in 1 .. N : paragraph[n] \in Prose(holes)
    BY <1>1
  <2>. QED
    BY <2>1, <2>2
<1>3. PICK f : f = [i \in 1 .. N |-> IF i = 1 THEN Strip(paragraph[i])
          ELSE <<Space>> \o Strip(paragraph[i])]
  OBVIOUS
<1>4. JoinLines(paragraph) = Strip(FlattenSeq(f))
  BY <1>1, <1>3 DEF JoinLines
<1>5. f \in Seq(Seq(Int)) /\ Len(f) = N
  <2>1. ASSUME NEW n \in 1 .. N PROVE f[n] \in Seq(Int)
    <3>1. Strip(paragraph[n]) \in Seq(Int)
      BY <1>2, ProseIs, SentenceType
    <3>2. <<Space>> \o Strip(paragraph[n]) \in Seq(Int)
      <4>1. <<Space>> \in Seq(Int)
        BY DEF Space
      <4>. QED
        BY <3>1, <4>1, ConcatProperties
    <3>. QED
      BY <1>3, <3>1, <3>2
  <2>2. f \in [1 .. N -> Seq(Int)]
    BY <1>3, <2>1
  <2>3. f \in Seq(Seq(Int))
    BY <2>2
  <2>. QED
    BY <2>2, <2>3
<1>6. /\ FlattenSeq(SubSeq(f, 1, 0)) = << >> /\ SubSeq(f, 1, N) = f
      /\ \A n \in 1 .. N : FlattenSeq(SubSeq(f, 1, n)) = FlattenSeq(SubSeq(f, 1, n - 1)) \o f[n]
  BY <1>5, FlattenSoFar
<1>7. /\ Content(SubSeq(paragraph, 1, 0)) = << >> /\ SubSeq(paragraph, 1, N) = paragraph
      /\ \A n \in 1 .. N :
            /\ Letters(paragraph[n]) \in Seq(Letter)
            /\ Content(SubSeq(paragraph, 1, n)) =
                  Content(SubSeq(paragraph, 1, n - 1)) \o Letters(paragraph[n])
  BY <1>1, <1>2, ContentSoFar
<1> DEFINE So(n) == FlattenSeq(SubSeq(f, 1, n))
           Joined(n) == So(n) \in Sentence(holes)
               /\ Letters(So(n)) = Content(SubSeq(paragraph, 1, n))
           Done == {n \in 0 .. N : n = 0 \/ Joined(n)}
<1>8. 0 \in Done
  OBVIOUS
<1>9. ASSUME NEW n \in 1 .. N, n - 1 \in Done PROVE n \in Done
  <2>1. CASE n = 1
    <3>1. Strip(paragraph[1]) \in Sentence(holes)
              /\ Letters(Strip(paragraph[1])) = Letters(paragraph[1])
      BY <1>2, <2>1, ProseIs
    <3>2. 1 \in 1 .. N /\ 1 - 1 = 0
      BY <2>1
    <3>3. So(1) = << >> \o Strip(paragraph[1])
      <4>1. f[1] = Strip(paragraph[1])
        BY <1>3, <3>2
      <4>2. FlattenSeq(SubSeq(f, 1, 1)) = FlattenSeq(SubSeq(f, 1, 0)) \o f[1]
        BY <1>6, <3>2
      <4>. QED
        BY <1>6, <4>1, <4>2
    <3>4. << >> \o Strip(paragraph[1]) = Strip(paragraph[1])
      <4>1. Strip(paragraph[1]) \in Seq(Int)
        BY <3>1, SentenceType
      <4>. QED
        BY <4>1, ConcatEmptySeq
    <3>5. Content(SubSeq(paragraph, 1, 1)) = Letters(paragraph[1])
      <4>1. Content(SubSeq(paragraph, 1, 1)) = Content(SubSeq(paragraph, 1, 0)) \o Letters(paragraph[1])
        BY <1>7, <3>2
      <4>2. Letters(paragraph[1]) \in Seq(Letter)
        BY <1>7, <3>2
      <4>. QED
        BY <1>7, <4>1, <4>2, ConcatEmptySeq
    <3>. HIDE DEF So
    <3>. QED
      BY <2>1, <3>1, <3>3, <3>4, <3>5
  <2>2. CASE n # 1
    <3>1. Joined(n - 1)
      <4>. HIDE DEF Joined
      <4>. QED
        BY <1>9, <2>2
    <3>2. PICK t \in Sentence(holes) :
              t = So(n - 1) /\ Letters(t) = Content(SubSeq(paragraph, 1, n - 1))
      BY <3>1
    <3>3. So(n) = t \o (<<Space>> \o Strip(paragraph[n]))
      BY <1>3, <1>6, <2>2, <3>2
    <3>4. PICK line \in Prose(holes) : line = paragraph[n]
      BY <1>2
    <3>5. /\ t \o (<<Space>> \o Strip(line)) \in Sentence(holes)
          /\ Letters(t \o (<<Space>> \o Strip(line))) = Letters(t) \o Letters(line)
      BY JoinOne
    <3>6. Joined(n)
      <4>. HIDE DEF So
      <4>. QED
        BY <1>7, <3>2, <3>3, <3>4, <3>5
    <3>. QED
      <4>. HIDE DEF Joined
      <4>. QED
        BY <3>6
  <2>. QED
    BY <2>1, <2>2
<1>10. \A n \in 0 .. N : n \in Done
  <2>. HIDE DEF Done
  <2>. QED
    BY <1>8, <1>9, Induction
<1>11. Joined(N)
  <2>1. N \in 0 .. N /\ N # 0
    BY <1>1
  <2>. HIDE DEF Joined
  <2>. QED
    BY <1>10, <2>1
<1>12. FlattenSeq(f) \in Sentence(holes) /\ Letters(FlattenSeq(f)) = Content(paragraph)
  BY <1>6, <1>7, <1>11
<1>. QED
  BY <1>4, <1>12, StripSentence

\* No lines, no text.
LEMMA JoinOfNothing == JoinLines(<< >>) = << >>
<1>1. DOMAIN << >> = {} /\ [i \in {} |-> IF i = 1 THEN Strip(<< >>[i])
          ELSE <<Space>> \o Strip(<< >>[i])] = << >>
  OBVIOUS
<1>2. JoinLines(<< >>) = Strip(FlattenSeq(<< >>))
  BY <1>1 DEF JoinLines
<1>3. << >> \in Seq(Int)
  OBVIOUS
<1>. QED
  BY <1>2, <1>3, FlattenOfNothing, LettersOfNothing, StripIs

--------------------------------------------------------------------------------
\* The lines of a document are gathered into sections.

\* What is gathered while the lines are read.
Gathering(holes) ==
    [sections : Seq(Section(holes)), title : Seq(Int), current : Seq(Sentence(holes)),
     paragraph : Seq(Prose(holes))]

\* The parts of it.
LEMMA GatheringIs ==
  ASSUME NEW holes, NEW acc \in Gathering(holes)
  PROVE  /\ acc.sections \in Seq(Section(holes)) /\ acc.title \in Seq(Int)
         /\ acc.current \in Seq(Sentence(holes)) /\ acc.current \in Seq(Seq(Int))
         /\ acc.paragraph \in Seq(Prose(holes)) /\ acc.paragraph \in Seq(Seq(Int))
         /\ Content(acc.current) \in Seq(Letter) /\ Content(acc.paragraph) \in Seq(Letter)
<1>1. /\ acc.sections \in Seq(Section(holes)) /\ acc.title \in Seq(Int)
      /\ acc.current \in Seq(Sentence(holes)) /\ acc.paragraph \in Seq(Prose(holes))
  BY DEF Gathering
<1>2. acc.current \in Seq(Seq(Int)) /\ acc.paragraph \in Seq(Seq(Int))
  BY <1>1, SentenceType, ProseType
<1>. QED
  BY <1>1, <1>2, ContentIs

\* What the lines so far say.
Gathered(acc) ==
    SaysAll(acc.sections) \o Under(acc.title, Content(acc.current) \o Content(acc.paragraph))

\* The paragraph is put to the section, and nothing said is lost.
FlushesParagraph(new, acc, holes) ==
    /\ new \in Gathering(holes) /\ new.paragraph = << >>
    /\ new.title = acc.title /\ new.sections = acc.sections
    /\ Content(new.current) = Content(acc.current) \o Content(acc.paragraph)

\* That is what flush_paragraph does.
LEMMA FlushParagraphIs ==
  ASSUME NEW holes, NEW acc \in Gathering(holes)
  PROVE  FlushesParagraph(FlushParagraph(acc), acc, holes)
<1>1. PICK joined : joined = JoinLines(acc.paragraph)
  OBVIOUS
<1>2. PICK current : current = IF joined = << >> THEN acc.current ELSE Append(acc.current, joined)
  OBVIOUS
<1>3. FlushParagraph(acc) = [acc EXCEPT !.paragraph = << >>, !.current = current]
  BY <1>1, <1>2 DEF FlushParagraph, Gathering
<1>4. current \in Seq(Sentence(holes))
          /\ Content(current) = Content(acc.current) \o Content(acc.paragraph)
  <2>1. CASE acc.paragraph = << >>
    <3>1. current = acc.current
      BY <1>1, <1>2, <2>1, JoinOfNothing
    <3>2. Content(acc.current) \o << >> = Content(acc.current)
      BY GatheringIs, ConcatEmptySeq
    <3>. QED
      BY <2>1, <3>1, <3>2, GatheringIs, ContentIs
  <2>2. CASE acc.paragraph # << >>
    <3>1. joined \in Sentence(holes) /\ Letters(joined) = Content(acc.paragraph)
      BY <1>1, <2>2, GatheringIs, JoinLinesIs
    <3>2. joined # << >> /\ joined \in Seq(Int)
      BY <3>1 DEF Sentence
    <3>3. current = Append(acc.current, joined)
      BY <1>2, <3>2
    <3>4. Append(acc.current, joined) \in Seq(Sentence(holes))
      <4>1. acc.current \in Seq(Sentence(holes))
        BY GatheringIs
      <4>. HIDE DEF Sentence
      <4>. QED
        BY <3>1, <4>1, OneAppended
    <3>5. Content(Append(acc.current, joined)) = Content(acc.current) \o Letters(joined)
      BY <3>2, GatheringIs, ContentIs
    <3>. QED
      BY <3>1, <3>3, <3>4, <3>5
  <2>. QED
    BY <2>1, <2>2
<1>5. PICK new : new = [acc EXCEPT !.paragraph = << >>, !.current = current]
  OBVIOUS
<1>6. << >> \in Seq(Prose(holes))
  <2>. HIDE DEF Prose
  <2>. QED
    OBVIOUS
<1>7. /\ new \in Gathering(holes) /\ new.paragraph = << >> /\ new.current = current
      /\ new.title = acc.title /\ new.sections = acc.sections
  BY <1>4, <1>5, <1>6 DEF Gathering
<1>. QED
  BY <1>3, <1>4, <1>5, <1>7 DEF FlushesParagraph

\* What sections say is told.
LEMMA SaysAllType ==
  ASSUME NEW holes, NEW sections \in Seq(Section(holes))
  PROVE  /\ [i \in DOMAIN sections |-> SaysOf(sections[i])] \in Seq(Seq(Told))
         /\ Len([i \in DOMAIN sections |-> SaysOf(sections[i])]) = Len(sections)
         /\ SaysAll(sections) \in Seq(Told)
<1>1. PICK N \in Nat : N = Len(sections) /\ DOMAIN sections = 1 .. N
  OBVIOUS
<1>2. \A n \in 1 .. N : SaysOf(sections[n]) \in Seq(Told)
  <2>1. \A n \in 1 .. N : sections[n] \in Section(holes)
    <3>. HIDE DEF Section
    <3>. QED
      BY <1>1
  <2>. QED
    BY <2>1, SaysOfType
<1>3. PICK f : f = [i \in 1 .. N |-> SaysOf(sections[i])]
  OBVIOUS
<1>4. f \in Seq(Seq(Told)) /\ Len(f) = N
  <2>. HIDE DEF Told
  <2>1. f \in [1 .. N -> Seq(Told)]
    BY <1>2, <1>3
  <2>2. f \in Seq(Seq(Told))
    BY <2>1
  <2>. QED
    BY <2>1, <2>2
<1>. QED
  BY <1>1, <1>3, <1>4, FlattenType DEF SaysAll

\* One section more is said.
LEMMA SaysAllGrows ==
  ASSUME NEW holes, NEW sections \in Seq(Section(holes)), NEW section \in Section(holes)
  PROVE  /\ Append(sections, section) \in Seq(Section(holes))
         /\ SaysAll(Append(sections, section)) = SaysAll(sections) \o SaysOf(section)
<1>1. PICK N \in Nat : N = Len(sections) /\ DOMAIN sections = 1 .. N
  OBVIOUS
<1>2. PICK more \in Seq(Section(holes)) :
          /\ more = Append(sections, section) /\ Len(more) = N + 1 /\ more[N + 1] = section
          /\ \A i \in 1 .. N : more[i] = sections[i]
  <2>. HIDE DEF Section
  <2>1. /\ Append(sections, section) \in Seq(Section(holes))
        /\ Len(Append(sections, section)) = Len(sections) + 1
        /\ Append(sections, section)[Len(sections) + 1] = section
        /\ \A i \in 1 .. Len(sections) : Append(sections, section)[i] = sections[i]
    BY OneAppended
  <2>. QED
    BY <1>1, <2>1
<1>3. PICK f \in Seq(Seq(Told)) :
          f = [i \in DOMAIN sections |-> SaysOf(sections[i])] /\ Len(f) = N
  BY <1>1, SaysAllType
<1>4. PICK g \in Seq(Seq(Told)) :
          g = [i \in DOMAIN more |-> SaysOf(more[i])] /\ Len(g) = N + 1
  BY <1>2, SaysAllType
<1>5. PICK s \in Seq(Told) : s = SaysOf(section)
  BY SaysOfType
<1>6. /\ Append(f, s) \in Seq(Seq(Told)) /\ Len(Append(f, s)) = N + 1 /\ Append(f, s)[N + 1] = s
      /\ \A i \in 1 .. N : Append(f, s)[i] = f[i]
  <2>1. /\ Append(f, s) \in Seq(Seq(Told)) /\ Len(Append(f, s)) = Len(f) + 1
        /\ Append(f, s)[Len(f) + 1] = s
        /\ \A i \in 1 .. Len(f) : Append(f, s)[i] = f[i]
    BY OneAppended
  <2>. QED
    BY <1>3, <2>1
<1>7. ASSUME NEW i \in 1 .. N + 1 PROVE g[i] = Append(f, s)[i]
  <2>1. DOMAIN more = 1 .. N + 1
    BY <1>2
  <2>2. g[i] = SaysOf(more[i])
    BY <1>4, <2>1
  <2>3. CASE i \in 1 .. N
    <3>1. more[i] = sections[i] /\ f[i] = SaysOf(sections[i]) /\ Append(f, s)[i] = f[i]
      BY <1>1, <1>2, <1>3, <1>6, <2>3
    <3>. QED
      BY <2>2, <3>1
  <2>4. CASE i = N + 1
    BY <1>2, <1>5, <1>6, <2>2, <2>4
  <2>5. i \in 1 .. N \/ i = N + 1
    OBVIOUS
  <2>. QED
    BY <2>3, <2>4, <2>5
<1>8. g = Append(f, s)
  BY <1>4, <1>6, <1>7, SeqEqual
<1>9. FlattenSeq(g) = FlattenSeq(f) \o s
  BY <1>8, FlattenAppend
<1>. QED
  BY <1>2, <1>3, <1>4, <1>5, <1>9 DEF SaysAll

\* The section is put to the others, and nothing said is lost.
FlushesSection(new, acc, holes) ==
    /\ new \in Gathering(holes) /\ new.paragraph = << >> /\ new.current = << >>
    /\ new.title = acc.title /\ SaysAll(new.sections) = Gathered(acc)

\* That is what flush_section does.
LEMMA FlushSectionIs ==
  ASSUME NEW holes, NEW acc \in Gathering(holes)
  PROVE  FlushesSection(FlushSection(acc), acc, holes)
<1>1. PICK flushed : flushed = FlushParagraph(acc)
  OBVIOUS
<1>2. /\ flushed \in Gathering(holes) /\ flushed.paragraph = << >>
      /\ flushed.title = acc.title /\ flushed.sections = acc.sections
      /\ Content(flushed.current) = Content(acc.current) \o Content(acc.paragraph)
  BY <1>1, FlushParagraphIs DEF FlushesParagraph
<1>3. PICK section : section = [title |-> acc.title, paragraphs |-> flushed.current]
  OBVIOUS
<1>4. PICK sections :
          sections = IF flushed.current = << >> THEN flushed.sections
              ELSE Append(flushed.sections, section)
  OBVIOUS
<1>5. FlushSection(acc) = [flushed EXCEPT !.current = << >>, !.sections = sections]
  BY <1>1, <1>2, <1>3, <1>4 DEF FlushSection, Gathering
<1>6. section \in Section(holes) /\ SaysOf(section) = Under(acc.title, Content(flushed.current))
  <2>1. acc.title \in Seq(Int) /\ flushed.current \in Seq(Sentence(holes))
    BY <1>2, GatheringIs
  <2>. QED
    BY <1>3, <2>1 DEF Section, SaysOf
<1>7. sections \in Seq(Section(holes)) /\ SaysAll(sections) = Gathered(acc)
  <2>1. CASE flushed.current = << >>
    <3>1. Under(acc.title, Content(flushed.current)) = << >>
      BY <2>1, GatheringIs, ContentIs, UnderOfNothing
    <3>2. SaysAll(acc.sections) \o << >> = SaysAll(acc.sections)
      BY GatheringIs, SaysAllType, ConcatEmptySeq
    <3>. QED
      BY <1>2, <1>4, <2>1, <3>1, <3>2, GatheringIs DEF Gathered
  <2>2. CASE flushed.current # << >>
    <3>1. acc.sections \in Seq(Section(holes))
      BY GatheringIs
    <3>2. /\ Append(acc.sections, section) \in Seq(Section(holes))
          /\ SaysAll(Append(acc.sections, section)) = SaysAll(acc.sections) \o SaysOf(section)
      BY <1>6, <3>1, SaysAllGrows
    <3>. QED
      BY <1>2, <1>4, <1>6, <2>2, <3>2 DEF Gathered
  <2>. QED
    BY <2>1, <2>2
<1>8. << >> \in Seq(Sentence(holes))
  <2>. HIDE DEF Sentence
  <2>. QED
    OBVIOUS
<1>9. PICK new : new = [flushed EXCEPT !.current = << >>, !.sections = sections]
  OBVIOUS
<1>10. /\ new \in Gathering(holes) /\ new.paragraph = << >> /\ new.current = << >>
       /\ new.title = acc.title /\ new.sections = sections
  <2>. HIDE DEF Section, Sentence, Prose
  <2>. QED
    BY <1>2, <1>7, <1>8, <1>9 DEF Gathering
<1>. QED
  BY <1>5, <1>7, <1>9, <1>10 DEF FlushesSection

\* What a line says under a title, and the title that the next one is under.
SaysLine(line, title) == IF IsHeading(line) THEN << >> ELSE Under(title, Letters(line.text))
TitleAfter(line, title) == IF IsHeading(line) THEN line.text ELSE title

\* A line whose words stand close enough, unless they need not.
Tight(line, holes) == IsHeading(line) \/ (HasHole(Strip(line.text)) => holes)

\* A line is read: what it says is said, and the title is the one it leaves.
Gathers(new, acc, line, holes) ==
    /\ new \in Gathering(holes) /\ new.title = TitleAfter(line, acc.title)
    /\ Gathered(new) = Gathered(acc) \o SaysLine(line, acc.title)

\* What was said is told.
LEMMA GatheredType ==
  ASSUME NEW holes, NEW acc \in Gathering(holes)
  PROVE  Gathered(acc) \in Seq(Told) /\ Gathered(acc) \o << >> = Gathered(acc)
<1>1. PICK said \in Seq(Told) : said = SaysAll(acc.sections)
  BY GatheringIs, SaysAllType
<1>2. PICK a, b \in Seq(Letter) : a = Content(acc.current) /\ b = Content(acc.paragraph)
  BY GatheringIs
<1>3. a \o b \in Seq(Letter) /\ acc.title \in Seq(Int)
  BY GatheringIs, ConcatProperties
<1>4. Under(acc.title, a \o b) \in Seq(Told)
  BY <1>3, UnderType
<1>5. said \o Under(acc.title, a \o b) \in Seq(Told)
  BY <1>4, ToldTogether
<1>6. PICK told \in Seq(Told) : told = Gathered(acc)
  BY <1>1, <1>2, <1>5 DEF Gathered
<1>. QED
  BY <1>6, ConcatEmptySeq

\* A heading ends the section.
LEMMA ReadHeadingKeeps ==
  ASSUME NEW holes, NEW acc \in Gathering(holes), NEW line \in Line, IsHeading(line)
  PROVE  Gathers(ReadLine(acc, line), acc, line, holes)
<1>1. PICK flushed : flushed = FlushSection(acc)
  OBVIOUS
<1>2. /\ flushed \in Gathering(holes) /\ flushed.paragraph = << >> /\ flushed.current = << >>
      /\ SaysAll(flushed.sections) = Gathered(acc)
  BY <1>1, FlushSectionIs DEF FlushesSection
<1>3. PICK new : new = [flushed EXCEPT !.title = line.text]
  OBVIOUS
<1>4. ReadLine(acc, line) = new
  BY <1>1, <1>3 DEF ReadLine, IsHeading
<1>5. line.text \in Seq(Int)
  BY DEF Line
<1>6. /\ new \in Gathering(holes) /\ new.paragraph = << >> /\ new.current = << >>
      /\ new.sections = flushed.sections /\ new.title = line.text
  <2>. HIDE DEF Section, Sentence, Prose
  <2>. QED
    BY <1>2, <1>3, <1>5 DEF Gathering
<1>7. Content(<< >>) \o Content(<< >>) = << >>
  <2>1. << >> \o << >> = << >>
    <3>1. << >> \in Seq(Letter)
      OBVIOUS
    <3>. QED
      BY <3>1, ConcatEmptySeq
  <2>. QED
    BY <2>1, ContentIs
<1>8. Gathered(new) = Gathered(acc) \o << >>
  BY <1>2, <1>5, <1>6, <1>7, UnderOfNothing DEF Gathered
<1>. QED
  BY <1>4, <1>6, <1>8 DEF Gathers, SaysLine, TitleAfter

\* A blank line ends the paragraph.
LEMMA ReadBlankKeeps ==
  ASSUME NEW holes, NEW acc \in Gathering(holes), NEW line \in Line, ~IsHeading(line),
         Strip(line.text) = << >>
  PROVE  Gathers(ReadLine(acc, line), acc, line, holes)
<1>1. PICK new : new = FlushParagraph(acc)
  OBVIOUS
<1>2. /\ new \in Gathering(holes) /\ new.paragraph = << >>
      /\ new.title = acc.title /\ new.sections = acc.sections
      /\ Content(new.current) = Content(acc.current) \o Content(acc.paragraph)
  BY <1>1, FlushParagraphIs DEF FlushesParagraph
<1>3. ReadLine(acc, line) = new
  BY <1>1 DEF ReadLine, IsHeading
<1>4. line.text \in Seq(Int)
  BY DEF Line
<1>5. Letters(line.text) = << >>
  BY <1>4, StripIs
<1>6. Under(acc.title, << >>) = << >>
  BY GatheringIs, UnderOfNothing
<1>7. Content(new.current) \o Content(new.paragraph) = Content(new.current)
  <2>1. Content(new.current) \o << >> = Content(new.current)
    BY <1>2, GatheringIs, ConcatEmptySeq
  <2>. QED
    BY <1>2, <2>1, ContentIs
<1>8. Gathered(new) = Gathered(acc)
  BY <1>2, <1>7 DEF Gathered
<1>9. Gathered(acc) \o << >> = Gathered(acc)
  BY GatheredType
<1>. QED
  BY <1>2, <1>3, <1>5, <1>6, <1>8, <1>9 DEF Gathers, SaysLine, TitleAfter

\* Any other line is put to the paragraph.
LEMMA ReadProseKeeps ==
  ASSUME NEW holes, NEW acc \in Gathering(holes), NEW line \in Line, ~IsHeading(line),
         Strip(line.text) # << >>, Tight(line, holes)
  PROVE  Gathers(ReadLine(acc, line), acc, line, holes)
<1>1. PICK text \in Seq(Int) : text = line.text
  BY DEF Line
<1>2. text \in Prose(holes)
  BY <1>1 DEF Prose, Tight
<1>3. PICK new : new = [acc EXCEPT !.paragraph = Append(acc.paragraph, text)]
  OBVIOUS
<1>4. ReadLine(acc, line) = new
  BY <1>1, <1>3 DEF ReadLine, IsHeading, Gathering
<1>5. Append(acc.paragraph, text) \in Seq(Prose(holes))
  <2>1. acc.paragraph \in Seq(Prose(holes))
    BY GatheringIs
  <2>. HIDE DEF Prose
  <2>. QED
    BY <1>2, <2>1, OneAppended
<1>6. /\ new \in Gathering(holes) /\ new.paragraph = Append(acc.paragraph, text)
      /\ new.current = acc.current /\ new.sections = acc.sections /\ new.title = acc.title
  <2>. HIDE DEF Section, Sentence, Prose
  <2>. QED
    BY <1>3, <1>5 DEF Gathering
<1>7. PICK a, b, c \in Seq(Letter) :
          a = Content(acc.current) /\ b = Content(acc.paragraph) /\ c = Letters(text)
  BY GatheringIs, LettersType
<1>8. Content(new.paragraph) = b \o c
  BY <1>6, <1>7, GatheringIs, ContentIs
<1>9. a \o (b \o c) = (a \o b) \o c /\ a \o b \in Seq(Letter)
  BY LettersTogether
<1>10. PICK said \in Seq(Told) : said = SaysAll(acc.sections)
  BY GatheringIs, SaysAllType
<1>11. (said \o Under(acc.title, a \o b)) \o Under(acc.title, c)
           = said \o Under(acc.title, (a \o b) \o c)
  <2>1. acc.title \in Seq(Int)
    BY GatheringIs
  <2>2. PICK ab \in Seq(Letter) : ab = a \o b
    BY <1>9
  <2>3. (said \o Under(acc.title, ab)) \o Under(acc.title, c) = said \o Under(acc.title, ab \o c)
    BY <2>1, UnderFollows
  <2>. QED
    BY <2>2, <2>3
<1>12. Gathered(new) = said \o Under(acc.title, a \o (b \o c))
  BY <1>6, <1>7, <1>8, <1>10 DEF Gathered
<1>13. Gathered(acc) = said \o Under(acc.title, a \o b)
  BY <1>7, <1>10 DEF Gathered
<1>14. Gathered(new) = Gathered(acc) \o Under(acc.title, Letters(line.text))
  BY <1>1, <1>7, <1>9, <1>11, <1>12, <1>13
<1>. QED
  BY <1>4, <1>6, <1>14 DEF Gathers, SaysLine, TitleAfter

\* So each line is read.
LEMMA ReadLineKeeps ==
  ASSUME NEW holes, NEW acc \in Gathering(holes), NEW line \in Line, Tight(line, holes)
  PROVE  Gathers(ReadLine(acc, line), acc, line, holes)
  BY ReadHeadingKeeps, ReadBlankKeeps, ReadProseKeeps

\* The title after a line is the last heading.
LEMMA TitleAtIs ==
  ASSUME NEW lines \in Seq(Line)
  PROVE  /\ TitleAt(lines, 0) = << >>
         /\ \A n \in 1 .. Len(lines) :
               /\ TitleAt(lines, n - 1) \in Seq(Int)
               /\ TitleAt(lines, n) = TitleAfter(lines[n], TitleAt(lines, n - 1))
<1> DEFINE Headings(n) == {j \in 1 .. n : IsHeading(lines[j])}
<1>1. \A n \in Nat : TitleAt(lines, n) = IF Headings(n) = {} THEN << >>
          ELSE lines[Max(Headings(n))].text
  BY DEF TitleAt
<1>2. ASSUME NEW n \in Nat
      PROVE  /\ Headings(n) \subseteq 1 .. n
             /\ Headings(n) # {} => /\ Max(Headings(n)) \in Headings(n)
                                    /\ \A k \in Headings(n) : Max(Headings(n)) >= k
  <2>1. Headings(n) \subseteq 1 .. n
    OBVIOUS
  <2>2. IsFiniteSet(1 .. n)
    BY FS_Interval
  <2>3. IsFiniteSet(Headings(n)) /\ Headings(n) \subseteq Nat
    <3>. HIDE DEF Headings
    <3>1. IsFiniteSet(Headings(n))
      BY <2>1, <2>2, FS_Subset
    <3>. QED
      BY <2>1, <3>1
  <2>. HIDE DEF Headings
  <2>. QED
    BY <2>1, <2>3, MaxIs
<1>3. TitleAt(lines, 0) = << >>
  <2>1. Headings(0) = {}
    OBVIOUS
  <2>. HIDE DEF Headings
  <2>. QED
    BY <1>1, <2>1
<1>4. ASSUME NEW n \in Nat, n <= Len(lines) PROVE TitleAt(lines, n) \in Seq(Int)
  <2>1. CASE Headings(n) = {}
    <3>. HIDE DEF Headings
    <3>1. TitleAt(lines, n) = << >>
      BY <1>1, <2>1
    <3>. QED
      BY <3>1
  <2>2. CASE Headings(n) # {}
    <3>. HIDE DEF Headings
    <3>1. Max(Headings(n)) \in 1 .. n
      BY <1>2, <2>2
    <3>2. PICK k \in 1 .. Len(lines) : k = Max(Headings(n))
      BY <1>4, <3>1
    <3>3. lines[k] \in Line
      BY <3>2
    <3>4. lines[k].text \in Seq(Int)
      BY <3>3 DEF Line
    <3>. QED
      BY <1>1, <2>2, <3>2, <3>4
  <2>. QED
    BY <2>1, <2>2
<1>5. ASSUME NEW n \in 1 .. Len(lines)
      PROVE  TitleAt(lines, n) = TitleAfter(lines[n], TitleAt(lines, n - 1))
  <2>1. n \in Nat /\ n - 1 \in Nat
    OBVIOUS
  <2>2. CASE IsHeading(lines[n])
    <3>1. n \in Headings(n)
      BY <2>1, <2>2
    <3>. HIDE DEF Headings
    <3>2. Max(Headings(n)) \in 1 .. n /\ Max(Headings(n)) >= n
      BY <1>2, <2>1, <3>1
    <3>3. Max(Headings(n)) = n
      BY <2>1, <3>2
    <3>. QED
      BY <1>1, <2>1, <2>2, <3>1, <3>3 DEF TitleAfter
  <2>3. CASE ~IsHeading(lines[n])
    <3>1. Headings(n) = Headings(n - 1)
      <4>1. \A j \in 1 .. n : j = n \/ j \in 1 .. n - 1
        OBVIOUS
      <4>2. \A j \in 1 .. n - 1 : j \in 1 .. n
        OBVIOUS
      <4>. QED
        BY <2>3, <4>1, <4>2
    <3>. HIDE DEF Headings
    <3>. QED
      BY <1>1, <2>1, <2>3, <3>1 DEF TitleAfter
  <2>. QED
    BY <2>2, <2>3
<1>6. \A n \in 1 .. Len(lines) : n - 1 \in Nat /\ n - 1 <= Len(lines)
  OBVIOUS
<1>. QED
  BY <1>3, <1>4, <1>5, <1>6

\* At first nothing is gathered.
LEMMA NothingGathered ==
  ASSUME NEW holes
  PROVE  /\ NothingSplit \in Gathering(holes) /\ NothingSplit.title = << >>
         /\ Gathered(NothingSplit) = << >>
<1>1. << >> \in Seq(Section(holes)) /\ << >> \in Seq(Sentence(holes)) /\ << >> \in Seq(Prose(holes))
      /\ << >> \in Seq(Int)
  <2>. HIDE DEF Section, Sentence, Prose
  <2>. QED
    OBVIOUS
<1>2. NothingSplit \in Gathering(holes)
  <2>. HIDE DEF Section, Sentence, Prose
  <2>. QED
    BY <1>1 DEF NothingSplit, Gathering
<1>3. /\ NothingSplit.title = << >> /\ NothingSplit.sections = << >> /\ NothingSplit.current = << >>
      /\ NothingSplit.paragraph = << >>
  BY DEF NothingSplit
<1>4. SaysAll(<< >>) = << >>
  <2>1. [i \in DOMAIN << >> |-> SaysOf(<< >>[i])] = << >>
    OBVIOUS
  <2>. QED
    BY <2>1, FlattenOfNothing DEF SaysAll
<1>5. << >> \o << >> = << >>
  BY <1>1, ConcatEmptySeq
<1>6. Under(<< >>, << >>) = << >>
  BY <1>1, UnderOfNothing
<1>. QED
  BY <1>2, <1>3, <1>4, <1>5, <1>6, ContentIs DEF Gathered

\* The turns of the loop over the lines.
LineReads(lines, f) ==
    f = [n \in 0 .. Len(lines) |-> IF n = 0 THEN NothingSplit ELSE ReadLine(f[n - 1], lines[n])]

\* The turns, one after another.
LEMMA LineReadsIs ==
  ASSUME NEW lines, NEW f, LineReads(lines, f)
  PROVE  \A n \in 0 .. Len(lines) :
            f[n] = IF n = 0 THEN NothingSplit ELSE ReadLine(f[n - 1], lines[n])
<1> DEFINE Turn(n) == IF n = 0 THEN NothingSplit ELSE ReadLine(f[n - 1], lines[n])
<1>1. f = [n \in 0 .. Len(lines) |-> Turn(n)]
  BY DEF LineReads
<1>. HIDE DEF Turn
<1>2. \A n \in 0 .. Len(lines) : f[n] = Turn(n)
  BY <1>1
<1>. QED
  BY <1>2 DEF Turn

\* What a document says line by line.
LEMMA LettersOfIs ==
  ASSUME NEW lines \in Seq(Line)
  PROVE  \E told : /\ told[0] = << >> /\ told[Len(lines)] = LettersOf(lines)
                   /\ \A n \in 1 .. Len(lines) :
                         told[n] = told[n - 1] \o SaysLine(lines[n], TitleAt(lines, n - 1))
<1>1. PICK N \in Nat : N = Len(lines) /\ DOMAIN lines = 1 .. N
  OBVIOUS
<1>2. PICK f : f = [i \in 1 .. N |-> IF IsHeading(lines[i]) THEN << >>
                                    ELSE Under(TitleAt(lines, i), Letters(lines[i].text))]
  OBVIOUS
<1>3. LettersOf(lines) = FlattenSeq(f)
  BY <1>1, <1>2 DEF LettersOf
<1>4. ASSUME NEW n \in 1 .. N
      PROVE  f[n] = SaysLine(lines[n], TitleAt(lines, n - 1)) /\ f[n] \in Seq(Told)
  <2>1. TitleAt(lines, n - 1) \in Seq(Int)
    BY <1>1, TitleAtIs
  <2>2. TitleAt(lines, n) = TitleAfter(lines[n], TitleAt(lines, n - 1))
    BY <1>1, TitleAtIs
  <2>3. lines[n].text \in Seq(Int)
    <3>1. lines[n] \in Line
      BY <1>1
    <3>. QED
      BY <3>1 DEF Line
  <2>4. f[n] = SaysLine(lines[n], TitleAt(lines, n - 1))
    BY <1>2, <2>2 DEF SaysLine, TitleAfter
  <2>5. Under(TitleAt(lines, n - 1), Letters(lines[n].text)) \in Seq(Told)
    BY <2>1, <2>3, LettersType, UnderType
  <2>6. << >> \in Seq(Told)
    <3>. HIDE DEF Told
    <3>. QED
      OBVIOUS
  <2>. QED
    BY <2>4, <2>5, <2>6 DEF SaysLine
<1>5. f \in Seq(Seq(Told)) /\ Len(f) = N
  <2>. HIDE DEF Told
  <2>1. f \in [1 .. N -> Seq(Told)]
    BY <1>2, <1>4
  <2>2. f \in Seq(Seq(Told))
    BY <2>1
  <2>. QED
    BY <2>1, <2>2
<1>6. /\ FlattenSeq(SubSeq(f, 1, 0)) = << >> /\ SubSeq(f, 1, N) = f
      /\ \A n \in 1 .. N : FlattenSeq(SubSeq(f, 1, n)) = FlattenSeq(SubSeq(f, 1, n - 1)) \o f[n]
  BY <1>5, FlattenSoFar
<1>7. PICK told : told = [n \in 0 .. N |-> FlattenSeq(SubSeq(f, 1, n))]
  OBVIOUS
<1>8. told[0] = << >> /\ told[N] = LettersOf(lines)
  <2>1. 0 \in 0 .. N /\ N \in 0 .. N
    OBVIOUS
  <2>. QED
    BY <1>3, <1>6, <1>7, <2>1
<1>9. ASSUME NEW n \in 1 .. N
      PROVE  told[n] = told[n - 1] \o SaysLine(lines[n], TitleAt(lines, n - 1))
  <2>1. n \in 0 .. N /\ n - 1 \in 0 .. N
    OBVIOUS
  <2>2. told[n] = FlattenSeq(SubSeq(f, 1, n)) /\ told[n - 1] = FlattenSeq(SubSeq(f, 1, n - 1))
    BY <1>7, <2>1
  <2>. QED
    BY <1>4, <1>6, <2>2
<1>. QED
  BY <1>1, <1>8, <1>9

\* The sections of a document say what its lines do.
LEMMA SplitSectionsIs ==
  ASSUME NEW lines \in Seq(Line), NEW holes, HasHoles(lines) => holes
  PROVE  /\ SplitSections(lines) \in Seq(Section(holes))
         /\ SaysAll(SplitSections(lines)) = LettersOf(lines)
<1>1. PICK N \in Nat : N = Len(lines) /\ DOMAIN lines = 1 .. N
  OBVIOUS
<1>2. ASSUME NEW n \in 1 .. N PROVE lines[n] \in Line /\ Tight(lines[n], holes)
  <2>1. lines[n] \in Line
    BY <1>1
  <2>2. ~IsHeading(lines[n]) /\ HasHole(Strip(lines[n].text)) => HasHoles(lines)
    BY <1>1 DEF HasHoles
  <2>. QED
    BY <2>1, <2>2 DEF Tight
<1>3. PICK told : /\ told[0] = << >> /\ told[N] = LettersOf(lines)
                  /\ \A n \in 1 .. N :
                        told[n] = told[n - 1] \o SaysLine(lines[n], TitleAt(lines, n - 1))
  BY <1>1, LettersOfIs
<1>4. /\ TitleAt(lines, 0) = << >>
      /\ \A n \in 1 .. N : TitleAt(lines, n) = TitleAfter(lines[n], TitleAt(lines, n - 1))
  BY <1>1, TitleAtIs
<1>5. PICK inv : inv = [n \in 0 .. N |->
                          {v \in Gathering(holes) : Gathered(v) = told[n]
                              /\ v.title = TitleAt(lines, n)}]
  OBVIOUS
<1>6. PICK step : step = [n \in 1 .. N |-> [v \in Gathering(holes) |-> ReadLine(v, lines[n])]]
  OBVIOUS
<1>7. \A n \in 0 .. N :
         /\ inv[n] \subseteq Gathering(holes)
         /\ \A v : v \in inv[n] <=>
                      v \in Gathering(holes) /\ Gathered(v) = told[n] /\ v.title = TitleAt(lines, n)
  BY <1>5
<1>8. ASSUME NEW n \in 1 .. N, NEW v \in inv[n - 1]
      PROVE  step[n][v] = ReadLine(v, lines[n]) /\ ReadLine(v, lines[n]) \in inv[n]
  <2>1. n - 1 \in 0 .. N /\ n \in 0 .. N
    OBVIOUS
  <2>2. v \in Gathering(holes) /\ Gathered(v) = told[n - 1] /\ v.title = TitleAt(lines, n - 1)
    BY <1>7, <2>1
  <2>3. Gathers(ReadLine(v, lines[n]), v, lines[n], holes)
    BY <1>2, <2>2, ReadLineKeeps
  <2>4. /\ ReadLine(v, lines[n]) \in Gathering(holes)
        /\ Gathered(ReadLine(v, lines[n])) = told[n]
        /\ ReadLine(v, lines[n]).title = TitleAt(lines, n)
    BY <1>3, <1>4, <2>2, <2>3 DEF Gathers
  <2>. QED
    BY <1>6, <1>7, <2>1, <2>2, <2>4
<1>9. NothingSplit \in inv[0]
  <2>1. 0 \in 0 .. N
    OBVIOUS
  <2>. QED
    BY <1>3, <1>4, <1>7, <2>1, NothingGathered
<1>10. PICK h \in [0 .. N -> Gathering(holes)] :
           h[0] = NothingSplit /\ \A n \in 1 .. N : h[n - 1] \in inv[n - 1]
               /\ h[n] = step[n][h[n - 1]]
  <2>1. Ranges(inv, Gathering(holes), N) /\ Leads(inv, step, N)
    BY <1>7, <1>8 DEF Ranges, Leads
  <2>2. \E h \in [0 .. N -> Gathering(holes)] : Runs(h, NothingSplit, inv, step, N)
    BY <1>9, <2>1, LoopRuns
  <2>. QED
    BY <2>2 DEF Runs
<1>11. LineReads(lines, h)
  <2>1. ASSUME NEW n \in 0 .. N
        PROVE  h[n] = IF n = 0 THEN NothingSplit ELSE ReadLine(h[n - 1], lines[n])
    <3>1. CASE n = 0
      BY <1>10, <3>1
    <3>2. CASE n # 0
      <4>1. n \in 1 .. N
        BY <3>2
      <4>. QED
        BY <1>8, <1>10, <3>2, <4>1
    <3>. QED
      BY <3>1, <3>2
  <2>2. h = [n \in 0 .. N |-> h[n]]
    BY <1>10
  <2>. QED
    BY <1>1, <2>1, <2>2 DEF LineReads
<1>12. PICK g : LineReads(lines, g) /\ SplitSections(lines) = FlushSection(g[N]).sections
  <2>1. PICK g : g = CHOOSE e : LineReads(lines, e)
    OBVIOUS
  <2>2. LineReads(lines, g)
    BY <1>11, <2>1
  <2>3. SplitSections(lines) = FlushSection(g[N]).sections
    BY <1>1, <2>1 DEF SplitSections, LineReads
  <2>. QED
    BY <2>2, <2>3
<1>13. g[0] = NothingSplit /\ \A n \in 1 .. N : g[n] = ReadLine(g[n - 1], lines[n])
  <2>1. \A n \in 0 .. N : g[n] = IF n = 0 THEN NothingSplit ELSE ReadLine(g[n - 1], lines[n])
    BY <1>1, <1>12, LineReadsIs
  <2>. QED
    BY <2>1
<1>14. g[N] \in inv[N]
  <2>1. g[0] \in inv[0]
    BY <1>9, <1>13
  <2>2. \A n \in 1 .. N : g[n - 1] \in inv[n - 1] => g[n] \in inv[n]
    BY <1>8, <1>13
  <2>. QED
    BY <2>1, <2>2, LoopKeeps
<1>15. g[N] \in Gathering(holes) /\ Gathered(g[N]) = told[N]
  <2>1. N \in 0 .. N
    OBVIOUS
  <2>. QED
    BY <1>7, <1>14, <2>1
<1>16. PICK new : new = FlushSection(g[N])
  OBVIOUS
<1>17. new \in Gathering(holes) /\ SaysAll(new.sections) = told[N]
  BY <1>15, <1>16, FlushSectionIs DEF FlushesSection
<1>. QED
  BY <1>3, <1>12, <1>16, <1>17, GatheringIs

\* The passages of a document cover it.
LEMMA DocumentIsCovered ==
  ASSUME NEW lines \in Seq(Line)
  PROVE  Covered(lines)
<1>1. PICK holes : holes = HasHoles(lines)
  OBVIOUS
<1>2. PICK sections : sections = SplitSections(lines)
  OBVIOUS
<1>3. sections \in Seq(Section(holes)) /\ SaysAll(sections) = LettersOf(lines)
  BY <1>1, <1>2, SplitSectionsIs
<1>4. PICK chunks : chunks = ChunkDocument(lines)
  OBVIOUS
<1>5. Chain(chunks, LettersOf(lines), holes)
  BY <1>2, <1>3, <1>4, ChunkDocumentIs
<1>6. PICK repeated \in Seq(0 .. OverlapChars) :
          /\ chunks \in Seq(Chunk) /\ Len(repeated) = Len(chunks)
          /\ \A n \in 1 .. Len(chunks) : Proper(chunks, n, repeated[n], holes)
          /\ FlattenSeq(Says(chunks, repeated)) = LettersOf(lines)
  BY <1>5 DEF Chain
<1>7. DOMAIN chunks = 1 .. Len(chunks) /\ repeated \in [DOMAIN chunks -> 0 .. OverlapChars]
  <2>1. DOMAIN chunks = 1 .. Len(chunks)
    BY <1>6
  <2>2. repeated \in [1 .. Len(repeated) -> 0 .. OverlapChars]
    BY AsFunction
  <2>. QED
    BY <1>6, <2>1, <2>2
<1>8. ASSUME NEW n \in DOMAIN chunks
      PROVE  /\ Len(chunks[n].content) <= MaxChars + 2
             /\ repeated[n] > 0 => n > 1 /\ Repeats(chunks[n - 1], chunks[n], repeated[n])
             /\ (holes \/ New(chunks[n], repeated[n]) # << >>)
  <2>1. Proper(chunks, n, repeated[n], holes)
    BY <1>6, <1>7
  <2>. QED
    BY <2>1 DEF Proper
<1>9. FlattenSeq([n \in DOMAIN chunks |-> Under(chunks[n].section, New(chunks[n], repeated[n]))])
          = LettersOf(lines)
  BY <1>6 DEF Says
<1>10. Len(Separator) = 2
  BY DEF Separator
<1>. QED
  BY <1>1, <1>4, <1>7, <1>8, <1>9, <1>10 DEF Covered

--------------------------------------------------------------------------------
\* The store and the ingests.

\* Every text a file ever has.
Texts == Editions \cup {Gone} \cup {directory[s] : directory \in Directories, s \in Sources}

\* The record of an ingest.
Ingest ==
    [at : {"idle", "load", "compare", "delete", "add", "done"},
     read : [Sources -> Texts], todo : SUBSET Sources, unedited : BOOLEAN]

\* The variables have their types.
Typed ==
    /\ files \in [Sources -> Texts]
    /\ collection \in Providers \cup {NoProvider}
    /\ configured \in [Ingesters -> Providers]
    /\ ingest \in [Ingesters -> Ingest]
    /\ overlapped \in BOOLEAN

Busy(k) == k.at \notin {"idle", "done"}
Replaces(k) == k.at \in {"compare", "delete", "add"}

\* Nothing is stored but in a collection of a provider, and nobody writes to one of another.
Provided(i, k) ==
    /\ Replaces(k) => collection = configured[i]
    /\ k.at = "done" => collection # NoProvider

Opened ==
    /\ collection = NoProvider => store = {}
    /\ \A i \in Ingesters : Provided(i, ingest[i])

\* What an ingest has read, while nobody edits, is what is on disk.
ReadsWell(k) ==
    /\ k.at = "load" /\ k.unedited => \A s \in Sources \ k.todo : k.read[s] = files[s]
    /\ Replaces(k) /\ k.unedited => \A s \in Sources : k.read[s] = files[s]
    /\ Replaces(k) => \A s \in k.todo : k.read[s] # Gone
    /\ k.at \in {"delete", "add"} => k.todo # {}

OneAtATime == \A i, j \in Ingesters : Running(i) /\ Running(j) => i = j

\* How far an ingest has come: what it has been through is stored as it was read, and
\* what it is replacing is stored otherwise, or not at all any more.
ComeFar(k) ==
    /\ Replaces(k) => \A s \in Sources \ k.todo :
           k.read[s] # Gone => StoredOf(s) = ChunksOf(s, k.read[s], collection)
    /\ k.at = "delete" => \A row \in StoredOf(Following(k.todo)) :
                              row.hash # k.read[Following(k.todo)]
    /\ k.at = "add" => StoredOf(Following(k.todo)) = {}

\* Nobody edited since a later ingest began, when nobody has since an earlier one did.
LaterReads ==
    \A i, j \in Ingesters :
        ingest[i].at = "done" /\ ingest[i].unedited /\ Running(j) => ingest[j].unedited

\* What an ingest leaves behind.
Settled(k) ==
    k.at = "done" /\ k.unedited =>
        \A s \in OnDisk : StoredOf(s) = ChunksOf(s, files[s], collection)

Whole(s) ==
    \/ StoredOf(s) = {}
    \/ \E row \in StoredOf(s) : StoredOf(s) = ChunksOf(s, row.hash, collection)

Alone ==
    /\ OneAtATime /\ LaterReads
    /\ \A i \in Ingesters : ComeFar(ingest[i]) /\ Settled(ingest[i])
    /\ \A s \in Sources : Whole(s)

IInv ==
    /\ Typed /\ Opened
    /\ \A i \in Ingesters : ReadsWell(ingest[i])
    /\ ~overlapped => Alone

--------------------------------------------------------------------------------
\* Rows, and the order of the names.

\* A row knows its source and its text.
LEMMA RowsKnow ==
  ASSUME NEW s, NEW text, NEW provider, NEW row \in ChunksOf(s, text, provider)
  PROVE  row.id[1] = s /\ row.hash = text
  BY DEF ChunksOf, Row

LEMMA FollowingIsOne ==
  ASSUME NEW todo \in SUBSET Sources, todo # {}
  PROVE  Following(todo) \in todo
<1>1. Cardinality(Sources) \in Nat
  BY KnowledgeAssumption, FS_CardinalityType
<1>2. todo \subseteq Nat
  BY <1>1, KnowledgeAssumption
<1>3. \E n \in todo : \A m \in todo : n <= m
  BY <1>2, Least
<1>. QED
  BY <1>3 DEF Following, Min

--------------------------------------------------------------------------------
\* One ingest goes on.

LEMMA Goes ==
  ASSUME IInv, NEW i \in Ingesters, NEW k \in Ingest, ingest' = [ingest EXCEPT ![i] = k],
         UNCHANGED <<files, collection>>, overlapped' \in BOOLEAN, overlapped => overlapped',
         configured' \in [Ingesters -> Providers],
         \A j \in Ingesters \ {i} : configured'[j] = configured[j],
         collection = NoProvider => store' = {},
         Provided(i, k)', ReadsWell(k),
         ~overlapped' =>
             /\ store' = store \/ Running(i)
             /\ Busy(k) => \A j \in Ingesters \ {i} : ~Running(j)
             /\ \A j \in Ingesters \ {i} :
                   /\ k.at = "done" /\ k.unedited /\ Running(j) => ingest[j].unedited
                   /\ Busy(k) /\ ingest[j].at = "done" /\ ingest[j].unedited => k.unedited
             /\ ComeFar(k)' /\ Settled(k)'
             /\ \A j \in Ingesters \ {i} : Settled(ingest[j])'
             /\ \A s \in Sources : Whole(s)'
  PROVE  IInv'
<1>1. /\ ingest \in [Ingesters -> Ingest] /\ ingest'[i] = k
      /\ \A j \in Ingesters \ {i} : ingest'[j] = ingest[j]
  BY DEF IInv, Typed
<1>2. Typed'
  BY DEF IInv, Typed
<1>3. Opened'
  BY <1>1 DEF IInv, Opened, Provided
<1>4. \A j \in Ingesters : ReadsWell(ingest[j])'
  BY <1>1 DEF IInv, ReadsWell
<1>5. ASSUME ~overlapped' PROVE Alone'
  <2>1. OneAtATime'
    BY <1>1, <1>5 DEF IInv, Alone, OneAtATime, Running, Busy
  <2>2. LaterReads'
    BY <1>1, <1>5 DEF IInv, Alone, LaterReads, Running, Busy
  <2>3. \A j \in Ingesters \ {i} : ComeFar(ingest[j])'
    <3>1. CASE store' = store
      BY <1>1, <1>5, <3>1 DEF IInv, Alone, ComeFar, StoredOf
    <3>2. CASE Running(i)
      <4>1. \A j \in Ingesters \ {i} : ~Running(j)
        BY <1>5, <3>2 DEF IInv, Alone, OneAtATime
      <4>. QED
        BY <1>1, <4>1 DEF ComeFar, Running, Replaces
    <3>. QED
      BY <1>5, <3>1, <3>2
  <2>4. \A j \in Ingesters \ {i} : Settled(ingest[j])'
    BY <1>1, <1>5
  <2>5. ComeFar(ingest[i])' /\ Settled(ingest[i])'
    BY <1>1, <1>5 DEF ComeFar, Settled
  <2>. QED
    BY <1>5, <2>1, <2>2, <2>3, <2>4, <2>5 DEF Alone
<1>. QED
  BY <1>2, <1>3, <1>4, <1>5 DEF IInv

\* It goes on without touching the store.
LEMMA GoesQuietly ==
  ASSUME IInv, NEW i \in Ingesters, NEW k \in Ingest, ingest' = [ingest EXCEPT ![i] = k],
         UNCHANGED <<files, collection, store>>, overlapped' \in BOOLEAN, overlapped => overlapped',
         configured' \in [Ingesters -> Providers],
         \A j \in Ingesters \ {i} : configured'[j] = configured[j],
         Provided(i, k)', ReadsWell(k),
         ~overlapped' =>
             /\ Busy(k) => \A j \in Ingesters \ {i} : ~Running(j)
             /\ \A j \in Ingesters \ {i} :
                   /\ k.at = "done" /\ k.unedited /\ Running(j) => ingest[j].unedited
                   /\ Busy(k) /\ ingest[j].at = "done" /\ ingest[j].unedited => k.unedited
             /\ ComeFar(k) /\ Settled(k)
  PROVE  IInv'
<1>1. collection = NoProvider => store' = {}
  BY DEF IInv, Opened
<1>2. ASSUME ~overlapped'
      PROVE  /\ ComeFar(k)' /\ Settled(k)'
             /\ \A j \in Ingesters \ {i} : Settled(ingest[j])'
             /\ \A s \in Sources : Whole(s)'
  <2>1. ComeFar(k)' /\ Settled(k)'
    BY <1>2 DEF ComeFar, Settled, OnDisk, StoredOf
  <2>2. \A j \in Ingesters \ {i} : Settled(ingest[j])'
    <3>1. \A j \in Ingesters \ {i} : Settled(ingest[j]) /\ ingest'[j] = ingest[j]
      BY <1>2 DEF IInv, Alone, Typed
    <3>. QED
      BY <3>1 DEF Settled, OnDisk, StoredOf
  <2>3. \A s \in Sources : Whole(s)'
    BY <1>2 DEF IInv, Alone, Whole, StoredOf
  <2>. QED
    BY <2>1, <2>2, <2>3
<1>. QED
  BY <1>1, <1>2, Goes

\* What a running ingest may rely on.
LEMMA Underway ==
  ASSUME IInv, NEW i \in Ingesters, Running(i)
  PROVE  /\ ingest[i] \in Ingest /\ ReadsWell(ingest[i]) /\ Provided(i, ingest[i])
         /\ overlapped \in BOOLEAN /\ configured \in [Ingesters -> Providers]
         /\ ~overlapped =>
               /\ \A j \in Ingesters \ {i} : ~Running(j)
               /\ \A j \in Ingesters : ingest[j].at = "done" /\ ingest[j].unedited =>
                      ingest[i].unedited
               /\ ComeFar(ingest[i])
<1>1. ingest[i] \in Ingest
  BY DEF IInv, Typed
<1>. QED
  BY <1>1 DEF IInv, Typed, Opened, Alone, OneAtATime, LaterReads

LEMMA Idles ==
  /\ Idle \in Ingest /\ Idle.at = "idle" /\ Idle.todo = {} /\ Idle.unedited = TRUE
  /\ Idle.read = NothingRead /\ NothingRead \in [Sources -> Texts]
<1>1. Gone \in Texts
  BY DEF Texts
<1>2. NothingRead \in [Sources -> Texts]
  BY <1>1 DEF NothingRead
<1>. QED
  BY <1>2 DEF Idle, Ingest

\* Edits of one field of a record.
LEMMA Edits ==
  ASSUME NEW k \in Ingest
  PROVE  /\ \A x \in {"idle", "load", "compare", "delete", "add", "done"} :
                [k EXCEPT !.at = x] \in Ingest
         /\ \A x \in [Sources -> Texts] : [k EXCEPT !.read = x] \in Ingest
         /\ \A x \in SUBSET Sources : [k EXCEPT !.todo = x] \in Ingest
         /\ \A x \in BOOLEAN : [k EXCEPT !.unedited = x] \in Ingest
  BY DEF Ingest

LEMMA StopKeeps ==
  ASSUME IInv, NEW i \in Ingesters, ingest' = [ingest EXCEPT ![i] = Idle],
         UNCHANGED <<files, collection, store, overlapped>>,
         configured' \in [Ingesters -> Providers],
         \A j \in Ingesters \ {i} : configured'[j] = configured[j]
  PROVE  IInv'
<1>1. PICK k \in Ingest : k = Idle /\ k.at = "idle"
  BY Idles
<1>2. ingest' = [ingest EXCEPT ![i] = k] /\ overlapped' \in BOOLEAN /\ (overlapped => overlapped')
  BY <1>1 DEF IInv, Typed
<1>3. /\ Provided(i, k)' /\ ReadsWell(k) /\ ~Busy(k) /\ k.at # "done" /\ ComeFar(k) /\ Settled(k)
  BY <1>1 DEF Provided, ReadsWell, ComeFar, Settled, Busy, Replaces
<1>. QED
  BY <1>2, <1>3, GoesQuietly

LEMMA AbortKeeps == ASSUME IInv, NEW i \in Ingesters, Abort(i) PROVE IInv'
  BY StopKeeps DEF Abort, Step, IInv, Typed

LEMMA ReconfigureKeeps ==
  ASSUME IInv, NEW i \in Ingesters, NEW p \in Providers, Reconfigure(i, p) PROVE IInv'
<1>1. /\ ingest' = [ingest EXCEPT ![i] = Idle] /\ UNCHANGED <<files, collection, store, overlapped>>
      /\ configured' = [configured EXCEPT ![i] = p]
  BY DEF Reconfigure, Step
<1>2. /\ configured' \in [Ingesters -> Providers]
      /\ \A j \in Ingesters \ {i} : configured'[j] = configured[j]
  BY <1>1 DEF IInv, Typed
<1>. QED
  BY <1>1, <1>2, StopKeeps

LEMMA StartIngestKeeps == ASSUME IInv, NEW i \in Ingesters, StartIngest(i) PROVE IInv'
<1>1. PICK fresh \in Ingest : fresh = [Idle EXCEPT !.at = "load"]
  BY Idles, Edits
<1>2. PICK k \in Ingest : k = [fresh EXCEPT !.todo = Sources]
  BY Edits
<1>3. k.at = "load" /\ k.todo = Sources /\ k.unedited = TRUE
  BY <1>1, <1>2, Idles DEF Ingest
<1>7. k = [Idle EXCEPT !.at = "load", !.todo = Sources]
  BY <1>1, <1>2
<1>4. /\ ingest' = [ingest EXCEPT ![i] = k] /\ UNCHANGED <<files, collection, store, configured>>
      /\ overlapped' = (overlapped \/ \E j \in Ingesters : Running(j))
  BY <1>7 DEF StartIngest, Step
<1>5. /\ overlapped' \in BOOLEAN /\ (overlapped => overlapped')
      /\ configured' \in [Ingesters -> Providers]
      /\ ~overlapped' => \A j \in Ingesters : ~Running(j)
  BY <1>4 DEF IInv, Typed
<1>6. Provided(i, k)' /\ ReadsWell(k) /\ ComeFar(k) /\ Settled(k)
  BY <1>3 DEF Provided, ReadsWell, ComeFar, Settled, Replaces
<1>. QED
  BY <1>3, <1>4, <1>5, <1>6, GoesQuietly

LEMMA LoadFileKeeps == ASSUME IInv, NEW i \in Ingesters, LoadFile(i) PROVE IInv'
<1> DEFINE s == Following(ingest[i].todo)
<1>1. /\ ingest[i].at = "load" /\ ingest[i].todo # {}
      /\ ingest' = [ingest EXCEPT ![i] = [ingest[i] EXCEPT !.read[s] = files[s], !.todo = @ \ {s}]]
      /\ UNCHANGED <<files, collection, store, configured, overlapped>>
  BY DEF LoadFile, Step, Others
<1>2. Running(i) /\ ingest[i] \in Ingest /\ files \in [Sources -> Texts]
  BY <1>1 DEF Running, IInv, Typed
<1>3. ingest[i].todo \in SUBSET Sources /\ ingest[i].read \in [Sources -> Texts]
          /\ s \in ingest[i].todo
  BY <1>1, <1>2, FollowingIsOne DEF Ingest
<1>4. PICK t \in Sources : t = s
  BY <1>3
<1>5. PICK read \in [Sources -> Texts] : read = [ingest[i].read EXCEPT ![t] = files[t]]
  BY <1>2, <1>3
<1>6. PICK todo \in SUBSET Sources : todo = ingest[i].todo \ {t}
  BY <1>3
<1>7. PICK one \in Ingest : one = [ingest[i] EXCEPT !.read = read]
  BY <1>2, Edits
<1>8. PICK k \in Ingest : k = [one EXCEPT !.todo = todo]
  BY Edits
<1>9. k.at = "load" /\ k.todo = todo /\ k.read = read /\ k.unedited = ingest[i].unedited
  BY <1>1, <1>2, <1>7, <1>8 DEF Ingest
<1>10. k = [ingest[i] EXCEPT !.read[t] = files[t], !.todo = @ \ {t}]
  BY <1>5, <1>6, <1>7, <1>8
<1>11. ingest' = [ingest EXCEPT ![i] = k]
  BY <1>1, <1>4, <1>10
<1>12. ReadsWell(k)
  <2>1. k.unedited => \A u \in Sources \ ingest[i].todo : ingest[i].read[u] = files[u]
    BY <1>1, <1>2, <1>9, Underway DEF ReadsWell
  <2>2. k.unedited => \A u \in Sources \ todo : read[u] = files[u]
    BY <1>3, <1>5, <1>6, <2>1
  <2>. QED
    BY <1>9, <2>2 DEF ReadsWell, Replaces
<1>13. Provided(i, k)' /\ ComeFar(k) /\ Settled(k) /\ k.at # "done"
  BY <1>9 DEF Provided, ComeFar, Settled, Replaces
<1>14. ~overlapped => /\ \A j \in Ingesters \ {i} : ~Running(j)
                      /\ \A j \in Ingesters : ingest[j].at = "done"
                             /\ ingest[j].unedited => k.unedited
  BY <1>2, <1>9, Underway
<1>15. /\ overlapped' \in BOOLEAN /\ (overlapped => overlapped') /\ (~overlapped' => ~overlapped)
       /\ configured' \in [Ingesters -> Providers]
  BY <1>1, <1>2, Underway
<1>. HIDE DEF s
<1>. QED
  BY <1>1, <1>11, <1>12, <1>13, <1>14, <1>15, GoesQuietly

LEMMA OpenStoreKeeps == ASSUME IInv, NEW i \in Ingesters, OpenStore(i) PROVE IInv'
<1>1. /\ ingest[i].at = "load" /\ ingest[i].todo = {}
      /\ UNCHANGED <<store, files, configured, overlapped>>
  BY DEF OpenStore, Others
<1>2. Running(i) /\ ingest[i] \in Ingest
  BY <1>1 DEF Running, IInv, Typed
<1>3. CASE ~Verified(i)
  BY <1>1, <1>2, <1>3, Underway, StopKeeps DEF OpenStore, Step
<1>4. CASE Verified(i)
  <2>1. PICK todo \in SUBSET Sources : todo = {s \in Sources : ingest[i].read[s] # Gone}
    OBVIOUS
  <2>2. PICK one \in Ingest : one = [ingest[i] EXCEPT !.at = "compare"]
    BY <1>2, Edits
  <2>3. PICK k \in Ingest : k = [one EXCEPT !.todo = todo]
    BY Edits
  <2>4. k.at = "compare" /\ k.todo = todo /\ k.read = ingest[i].read
            /\ k.unedited = ingest[i].unedited
    BY <1>2, <2>2, <2>3 DEF Ingest
  <2>5. k = [ingest[i] EXCEPT !.at = "compare", !.todo = {s \in Sources : ingest[i].read[s] # Gone}]
    BY <2>1, <2>2, <2>3
  <2>6. /\ ingest' = [ingest EXCEPT ![i] = k]
        /\ collection' = IF collection = NoProvider THEN configured[i] ELSE collection
    BY <1>4, <2>5 DEF OpenStore, Step
  <2>7. ReadsWell(k)
    <3>1. ReadsWell(ingest[i])
      BY <1>2, Underway
    <3>2. k.unedited => \A s \in Sources : k.read[s] = files[s]
      BY <1>1, <2>4, <3>1 DEF ReadsWell
    <3>. QED
      BY <2>1, <2>4, <3>2 DEF ReadsWell, Replaces
  <2>8. Settled(k) /\ k.at # "done"
    BY <2>4 DEF Settled
  <2>9. ~overlapped => /\ \A j \in Ingesters \ {i} : ~Running(j)
                       /\ \A j \in Ingesters : ingest[j].at = "done"
                              /\ ingest[j].unedited => k.unedited
    BY <1>2, <2>4, Underway
  <2>10. /\ overlapped' \in BOOLEAN /\ (overlapped => overlapped') /\ (~overlapped' => ~overlapped)
         /\ configured \in [Ingesters -> Providers] /\ configured' = configured
    BY <1>1, <1>2, Underway
  <2>11. /\ \A s \in Sources \ todo : k.read[s] = Gone
         /\ ComeFar(k) /\ ComeFar(k)'
    BY <2>1, <2>4 DEF ComeFar
  <2>12. CASE collection # NoProvider
    <3>1. collection' = collection /\ collection = configured[i]
      BY <1>4, <2>6, <2>12 DEF Verified
    <3>2. Provided(i, k)'
      BY <2>4, <2>10, <3>1 DEF Provided
    <3>. QED
      BY <1>1, <2>6, <2>7, <2>8, <2>9, <2>10, <2>11, <3>1, <3>2, GoesQuietly
  <2>13. CASE collection = NoProvider
    <3>1. /\ collection' = configured[i] /\ configured[i] \in Providers
          /\ NoProvider \notin Providers /\ store = {}
      BY <2>6, <2>10, <2>13, KnowledgeAssumption DEF IInv, Opened
    <3>2. \A j \in Ingesters : ~Replaces(ingest[j]) /\ ingest[j].at # "done"
      BY <2>10, <2>13, <3>1 DEF IInv, Opened, Provided
    <3>3. /\ ingest'[i] = k /\ ingest' \in [Ingesters -> Ingest]
          /\ \A j \in Ingesters \ {i} : ingest'[j] = ingest[j]
      BY <2>6 DEF IInv, Typed
    <3>4. Typed'
      BY <1>1, <2>10, <3>1, <3>3 DEF IInv, Typed
    <3>5. Opened'
      BY <1>1, <2>4, <2>10, <3>1, <3>2, <3>3 DEF Opened, Provided
    <3>6. \A j \in Ingesters : ReadsWell(ingest[j])'
      BY <1>1, <2>7, <3>3 DEF IInv, ReadsWell
    <3>7. ASSUME ~overlapped' PROVE Alone'
      <4>1. OneAtATime' /\ LaterReads'
        BY <2>8, <2>9, <2>10, <3>2, <3>3, <3>7 DEF OneAtATime, LaterReads, Running
      <4>2. \A j \in Ingesters : ComeFar(ingest[j])' /\ Settled(ingest[j])'
        BY <2>4, <2>11, <3>2, <3>3 DEF ComeFar, Settled, Replaces
      <4>3. \A s \in Sources : Whole(s)'
        BY <1>1, <3>1 DEF Whole, StoredOf
      <4>. QED
        BY <4>1, <4>2, <4>3 DEF Alone
    <3>. QED
      BY <3>4, <3>5, <3>6, <3>7 DEF IInv
  <2>. QED
    BY <2>12, <2>13
<1>. QED
  BY <1>3, <1>4

--------------------------------------------------------------------------------
\* One document.

LEMMA EndIngestKeeps == ASSUME IInv, NEW i \in Ingesters, EndIngest(i) PROVE IInv'
<1>1. /\ ingest[i].at = "compare" /\ ingest[i].todo = {}
      /\ ingest' = [ingest EXCEPT ![i] = [ingest[i] EXCEPT !.at = "done", !.read = NothingRead]]
      /\ UNCHANGED <<collection, store, files, configured, overlapped>>
  BY DEF EndIngest, Others, Step
<1>2. Running(i) /\ ingest[i] \in Ingest
  BY <1>1 DEF Running, IInv, Typed
<1>3. PICK one \in Ingest : one = [ingest[i] EXCEPT !.at = "done"]
  BY <1>2, Edits
<1>4. PICK k \in Ingest : k = [one EXCEPT !.read = NothingRead]
  BY Edits, Idles
<1>5. k.at = "done" /\ k.unedited = ingest[i].unedited
  BY <1>2, <1>3, <1>4 DEF Ingest
<1>6. k = [ingest[i] EXCEPT !.at = "done", !.read = NothingRead]
  BY <1>3, <1>4
<1>7. ingest' = [ingest EXCEPT ![i] = k]
  BY <1>1, <1>6
<1>8. /\ Provided(i, ingest[i]) /\ ReadsWell(ingest[i])
      /\ ~overlapped => ComeFar(ingest[i]) /\ \A j \in Ingesters \ {i} : ~Running(j)
  BY <1>2, Underway
<1>9. /\ overlapped' \in BOOLEAN /\ (overlapped => overlapped') /\ (~overlapped' => ~overlapped)
      /\ configured \in [Ingesters -> Providers] /\ configured' = configured
      /\ NoProvider \notin Providers
  BY <1>1, <1>2, Underway, KnowledgeAssumption
<1>10. Provided(i, k)' /\ ReadsWell(k) /\ ComeFar(k) /\ ~Busy(k)
  BY <1>1, <1>5, <1>8, <1>9 DEF Provided, ReadsWell, ComeFar, Replaces, Busy
<1>11. ~overlapped => Settled(k)
  BY <1>1, <1>5, <1>8 DEF ReadsWell, ComeFar, Replaces, Settled, OnDisk
<1>. QED
  BY <1>1, <1>7, <1>8, <1>9, <1>10, <1>11, GoesQuietly

LEMMA CompareKeeps == ASSUME IInv, NEW i \in Ingesters, Compare(i) PROVE IInv'
<1>1. /\ ingest[i].at = "compare" /\ ingest[i].todo # {}
      /\ UNCHANGED <<collection, store, files, configured, overlapped>>
  BY DEF Compare, Others
<1>2. Running(i) /\ ingest[i] \in Ingest
  BY <1>1 DEF Running, IInv, Typed
<1>3. PICK s : s = Following(ingest[i].todo)
  OBVIOUS
<1>4. s \in ingest[i].todo /\ s \in Sources /\ ingest[i].todo \in SUBSET Sources
  BY <1>1, <1>2, <1>3, FollowingIsOne DEF Ingest
<1>5. PICK hash \in Hashes(s) :
          ingest' = [ingest EXCEPT ![i] =
                        IF hash = ingest[i].read[s] THEN [ingest[i] EXCEPT !.todo = @ \ {s}]
                        ELSE [ingest[i] EXCEPT !.at = "delete"]]
  BY <1>3 DEF Compare, Step, UpToDate
<1>6. /\ Provided(i, ingest[i]) /\ ReadsWell(ingest[i])
      /\ ~overlapped => /\ ComeFar(ingest[i]) /\ \A j \in Ingesters \ {i} : ~Running(j)
                        /\ \A j \in Ingesters : ingest[j].at = "done" /\ ingest[j].unedited =>
                               ingest[i].unedited
  BY <1>2, Underway
<1>7. /\ overlapped' \in BOOLEAN /\ (overlapped => overlapped') /\ (~overlapped' => ~overlapped)
      /\ configured \in [Ingesters -> Providers] /\ configured' = configured
  BY <1>1, <1>2, Underway
<1>8. ingest[i].read[s] # Gone
  BY <1>1, <1>4, <1>6 DEF ReadsWell, Replaces
\* The hashes of a whole document are all the same.
<1>9. ~overlapped => \A row \in StoredOf(s) :
          StoredOf(s) = ChunksOf(s, row.hash, collection)
              /\ \A other \in StoredOf(s) : other.hash = row.hash
  <2>1. ~overlapped => \A row \in StoredOf(s) :
            \E one \in StoredOf(s) : StoredOf(s) = ChunksOf(s, one.hash, collection)
    BY <1>4 DEF IInv, Alone, Whole
  <2>. QED
    BY <2>1, RowsKnow
<1>10. CASE hash = ingest[i].read[s]
  <2>1. PICK todo \in SUBSET Sources : todo = ingest[i].todo \ {s}
    BY <1>4
  <2>2. PICK k \in Ingest : k = [ingest[i] EXCEPT !.todo = todo]
    BY <1>2, Edits
  <2>3. k.at = "compare" /\ k.todo = todo /\ k.read = ingest[i].read
            /\ k.unedited = ingest[i].unedited
    BY <1>1, <1>2, <2>2 DEF Ingest
  <2>4. ingest' = [ingest EXCEPT ![i] = k]
    BY <1>5, <1>10, <2>1, <2>2
  <2>5. StoredOf(s) # {} /\ \E row \in StoredOf(s) : row.hash = ingest[i].read[s]
    BY <1>8, <1>10 DEF Hashes
  <2>6. ~overlapped => StoredOf(s) = ChunksOf(s, ingest[i].read[s], collection)
    BY <1>9, <2>5
  <2>7. ~overlapped => ComeFar(k)
    BY <1>1, <1>6, <2>1, <2>3, <2>6 DEF ComeFar, Replaces
  <2>8. ReadsWell(k) /\ Provided(i, k)' /\ Settled(k) /\ k.at # "done"
    BY <1>1, <1>6, <1>7, <2>1, <2>3 DEF ReadsWell, Provided, Replaces, Settled
  <2>. QED
    BY <1>1, <1>6, <1>7, <2>3, <2>4, <2>7, <2>8, GoesQuietly
<1>11. CASE hash # ingest[i].read[s]
  <2>1. PICK k \in Ingest : k = [ingest[i] EXCEPT !.at = "delete"]
    BY <1>2, Edits
  <2>2. /\ k.at = "delete" /\ k.todo = ingest[i].todo /\ k.read = ingest[i].read
        /\ k.unedited = ingest[i].unedited
    BY <1>2, <2>1 DEF Ingest
  <2>3. ingest' = [ingest EXCEPT ![i] = k]
    BY <1>5, <1>11, <2>1
  <2>4. ~overlapped => \A row \in StoredOf(s) : row.hash # ingest[i].read[s]
    BY <1>9, <1>11 DEF Hashes
  <2>5. ~overlapped => ComeFar(k)
    BY <1>1, <1>3, <1>6, <2>2, <2>4 DEF ComeFar, Replaces
  <2>6. ReadsWell(k) /\ Provided(i, k)' /\ Settled(k) /\ k.at # "done"
    BY <1>1, <1>6, <1>7, <2>2 DEF ReadsWell, Provided, Replaces, Settled
  <2>. QED
    BY <1>1, <1>6, <1>7, <2>2, <2>3, <2>5, <2>6, GoesQuietly
<1>. QED
  BY <1>10, <1>11

\* While the rows of one document are replaced those of the others stay.
LEMMA DeleteSourceKeeps == ASSUME IInv, NEW i \in Ingesters, DeleteSource(i) PROVE IInv'
<1>1. /\ ingest[i].at = "delete"
      /\ UNCHANGED <<collection, files, configured, overlapped>>
  BY DEF DeleteSource, Others
<1>2. Running(i) /\ ingest[i] \in Ingest /\ ingest[i].todo # {}
  BY <1>1, Underway DEF Running, ReadsWell
<1>3. PICK s : s = Following(ingest[i].todo)
  OBVIOUS
<1>4. s \in ingest[i].todo /\ s \in Sources
  BY <1>2, <1>3, FollowingIsOne DEF Ingest
<1>5. PICK k \in Ingest : k = [ingest[i] EXCEPT !.at = "add"]
  BY <1>2, Edits
<1>6. /\ k.at = "add" /\ k.todo = ingest[i].todo /\ k.read = ingest[i].read
      /\ k.unedited = ingest[i].unedited
  BY <1>2, <1>5 DEF Ingest
<1>7. ingest' = [ingest EXCEPT ![i] = k] /\ store' = store \ StoredOf(s)
  BY <1>3, <1>5 DEF DeleteSource, Step, Deletes
<1>8. StoredOf(s)' = {} /\ \A t \in Sources \ {s} : StoredOf(t)' = StoredOf(t)
  BY <1>7 DEF StoredOf
<1>9. /\ Provided(i, ingest[i]) /\ ReadsWell(ingest[i])
      /\ ~overlapped => /\ ComeFar(ingest[i]) /\ \A j \in Ingesters \ {i} : ~Running(j)
                        /\ \A j \in Ingesters : ingest[j].at = "done" /\ ingest[j].unedited =>
                               ingest[i].unedited
  BY <1>2, Underway
<1>10. /\ overlapped' \in BOOLEAN /\ (overlapped => overlapped') /\ (~overlapped' => ~overlapped)
       /\ configured' \in [Ingesters -> Providers] /\ configured' = configured
  BY <1>1, <1>2, Underway
<1>11. /\ Provided(i, k)' /\ ReadsWell(k) /\ Settled(k)' /\ k.at # "done"
       /\ collection = NoProvider => store' = {}
  BY <1>1, <1>6, <1>7, <1>9, <1>10 DEF Provided, ReadsWell, Replaces, Settled, IInv, Opened
<1>12. ASSUME ~overlapped PROVE ComeFar(k)'
  BY <1>1, <1>3, <1>4, <1>6, <1>8, <1>9, <1>12 DEF ComeFar, Replaces
<1>13. ASSUME ~overlapped PROVE \A t \in Sources : Whole(t)'
  <2>1. \A t \in Sources : Whole(t)
    BY <1>13 DEF IInv, Alone
  <2>. QED
    BY <1>1, <1>8, <2>1 DEF Whole
<1>14. ASSUME ~overlapped, NEW j \in Ingesters \ {i} PROVE Settled(ingest[j])'
  <2>1. ingest'[j] = ingest[j] /\ Settled(ingest[j])
    BY <1>7, <1>14 DEF IInv, Alone, Typed
  <2>2. ASSUME ingest[j].at = "done", ingest[j].unedited, files[s] # Gone
        PROVE  ChunksOf(s, files[s], collection) = {}
    <3>1. StoredOf(s) = ChunksOf(s, files[s], collection)
      BY <1>4, <2>1, <2>2 DEF Settled, OnDisk
    <3>2. ingest[i].read[s] = files[s]
      BY <1>1, <1>4, <1>9, <1>14, <2>2 DEF ReadsWell, Replaces
    <3>3. \A row \in StoredOf(s) : row.hash # files[s]
      BY <1>1, <1>3, <1>9, <1>14, <3>2 DEF ComeFar
    <3>. QED
      BY <3>1, <3>3, RowsKnow
  <2>. QED
    BY <1>1, <1>8, <2>1, <2>2 DEF Settled, OnDisk
<1>. QED
  BY <1>1, <1>2, <1>6, <1>7, <1>9, <1>10, <1>11, <1>12, <1>13, <1>14, Goes

LEMMA AddChunksKeeps == ASSUME IInv, NEW i \in Ingesters, AddChunks(i) PROVE IInv'
<1>1. /\ ingest[i].at = "add"
      /\ UNCHANGED <<collection, files, configured, overlapped>>
  BY DEF AddChunks, Others
<1>2. Running(i) /\ ingest[i] \in Ingest /\ ingest[i].todo # {}
  BY <1>1, Underway DEF Running, ReadsWell
<1>3. PICK s : s = Following(ingest[i].todo)
  OBVIOUS
<1>4. s \in ingest[i].todo /\ s \in Sources /\ ingest[i].todo \in SUBSET Sources
  BY <1>2, <1>3, FollowingIsOne DEF Ingest
<1>5. PICK todo \in SUBSET Sources : todo = ingest[i].todo \ {s}
  BY <1>4
<1>6. PICK one \in Ingest : one = [ingest[i] EXCEPT !.at = "compare"]
  BY <1>2, Edits
<1>7. PICK k \in Ingest : k = [one EXCEPT !.todo = todo]
  BY Edits
<1>8. k.at = "compare" /\ k.todo = todo /\ k.read = ingest[i].read
          /\ k.unedited = ingest[i].unedited
  BY <1>2, <1>6, <1>7 DEF Ingest
<1>9. k = [ingest[i] EXCEPT !.at = "compare", !.todo = @ \ {s}]
  BY <1>5, <1>6, <1>7
<1>10. PICK new : new = ChunksOf(s, ingest[i].read[s], configured[i])
  OBVIOUS
<1>11. /\ ingest' = [ingest EXCEPT ![i] = k]
       /\ store' = store \cup {row \in new : \A old \in store : old.id # row.id}
  BY <1>3, <1>9, <1>10 DEF AddChunks, Step
<1>12. /\ Provided(i, ingest[i]) /\ ReadsWell(ingest[i])
       /\ ~overlapped => /\ ComeFar(ingest[i]) /\ \A j \in Ingesters \ {i} : ~Running(j)
                         /\ \A j \in Ingesters : ingest[j].at = "done" /\ ingest[j].unedited =>
                                ingest[i].unedited
  BY <1>2, Underway
<1>13. /\ overlapped' \in BOOLEAN /\ (overlapped => overlapped') /\ (~overlapped' => ~overlapped)
       /\ configured' \in [Ingesters -> Providers] /\ configured' = configured
       /\ configured[i] \in Providers /\ NoProvider \notin Providers
  BY <1>1, <1>2, Underway, KnowledgeAssumption
<1>14. collection = configured[i] /\ collection # NoProvider
  BY <1>1, <1>12, <1>13 DEF Provided, Replaces
<1>15. Provided(i, k)' /\ ReadsWell(k) /\ Settled(k)' /\ k.at # "done"
  BY <1>1, <1>5, <1>8, <1>12, <1>13, <1>14 DEF Provided, ReadsWell, Replaces, Settled
<1>16. \A row \in new : row.id[1] = s /\ row.hash = ingest[i].read[s]
  BY <1>10, RowsKnow
<1>17. \A t \in Sources \ {s} : StoredOf(t)' = StoredOf(t)
  BY <1>11, <1>16 DEF StoredOf
\* Nobody else keeps rows of the document, so each of the new ones is added.
<1>18. ASSUME ~overlapped PROVE StoredOf(s)' = ChunksOf(s, ingest[i].read[s], collection)
  <2>1. StoredOf(s) = {}
    BY <1>1, <1>3, <1>12, <1>18 DEF ComeFar
  <2>2. \A old \in store : old.id[1] # s
    BY <2>1 DEF StoredOf
  <2>3. \A row \in new, old \in store : old.id # row.id
    BY <1>16, <2>2
  <2>4. store' = store \cup new
    BY <1>11, <2>3
  <2>. QED
    BY <1>10, <1>14, <1>16, <2>2, <2>4 DEF StoredOf
<1>19. ASSUME ~overlapped PROVE ComeFar(k)'
  BY <1>1, <1>5, <1>8, <1>12, <1>17, <1>18, <1>19 DEF ComeFar, Replaces
<1>20. ASSUME ~overlapped PROVE \A t \in Sources : Whole(t)'
  <2>1. \A t \in Sources : Whole(t)
    BY <1>20 DEF IInv, Alone
  <2>2. Whole(s)'
    BY <1>1, <1>18, <1>20, RowsKnow DEF Whole
  <2>. QED
    BY <1>1, <1>17, <2>1, <2>2 DEF Whole
<1>21. ASSUME ~overlapped, NEW j \in Ingesters \ {i} PROVE Settled(ingest[j])'
  <2>1. ingest'[j] = ingest[j] /\ Settled(ingest[j])
    BY <1>11, <1>21 DEF IInv, Alone, Typed
  <2>2. ASSUME ingest[j].at = "done", ingest[j].unedited PROVE ingest[i].read[s] = files[s]
    BY <1>1, <1>4, <1>12, <1>21, <2>2 DEF ReadsWell, Replaces
  <2>. QED
    BY <1>1, <1>17, <1>18, <1>21, <2>1, <2>2 DEF Settled, OnDisk
<1>. QED
  BY <1>1, <1>2, <1>8, <1>11, <1>12, <1>13, <1>14, <1>15, <1>19, <1>20, <1>21, Goes

--------------------------------------------------------------------------------
\* The directory, the beginning, and every step.

LEMMA EditKeeps ==
  ASSUME IInv, NEW s \in Sources, NEW text \in Editions \cup {Gone}, Edit(s, text) PROVE IInv'
<1>1. /\ files' = [files EXCEPT ![s] = text]
      /\ ingest' = [i \in Ingesters |-> [ingest[i] EXCEPT !.unedited = FALSE]]
      /\ UNCHANGED <<collection, store, configured, overlapped>>
  BY DEF Edit
<1>2. \A i \in Ingesters :
          /\ ingest[i] \in Ingest /\ ingest'[i] \in Ingest
          /\ ingest'[i].at = ingest[i].at /\ ingest'[i].read = ingest[i].read
          /\ ingest'[i].todo = ingest[i].todo /\ ingest'[i].unedited = FALSE
  <2>1. ASSUME NEW i \in Ingesters
        PROVE  /\ ingest[i] \in Ingest /\ ingest'[i] \in Ingest
               /\ ingest'[i].at = ingest[i].at /\ ingest'[i].read = ingest[i].read
               /\ ingest'[i].todo = ingest[i].todo /\ ingest'[i].unedited = FALSE
    <3>1. ingest[i] \in Ingest
      BY DEF IInv, Typed
    <3>2. ingest'[i] = [ingest[i] EXCEPT !.unedited = FALSE]
      BY <1>1
    <3>. QED
      BY <3>1, <3>2 DEF Ingest
  <2>. QED
    BY <2>1
<1>3. Typed'
  <2>1. text \in Texts
    BY DEF Texts
  <2>2. ingest' \in [Ingesters -> Ingest]
    BY <1>1, <1>2
  <2>. QED
    BY <1>1, <2>1, <2>2 DEF IInv, Typed
<1>4. Opened'
  BY <1>1, <1>2 DEF IInv, Opened, Provided, Replaces
<1>5. \A i \in Ingesters : ReadsWell(ingest[i])'
  BY <1>2 DEF IInv, ReadsWell, Replaces
<1>6. ASSUME ~overlapped' PROVE Alone'
  <2>1. Alone
    BY <1>1, <1>6 DEF IInv
  <2>2. OneAtATime' /\ LaterReads'
    BY <1>2, <2>1 DEF Alone, OneAtATime, LaterReads, Running
  <2>3. \A i \in Ingesters : ComeFar(ingest[i])'
    BY <1>1, <1>2, <2>1 DEF Alone, ComeFar, Replaces, StoredOf
  <2>4. \A i \in Ingesters : Settled(ingest[i])'
    BY <1>2 DEF Settled
  <2>5. \A t \in Sources : Whole(t)'
    BY <1>1, <2>1 DEF Alone, Whole, StoredOf
  <2>. QED
    BY <2>2, <2>3, <2>4, <2>5 DEF Alone
<1>. QED
  BY <1>3, <1>4, <1>5, <1>6 DEF IInv

LEMMA IInvInit == Init => IInv
<1>1. SUFFICES ASSUME Init PROVE IInv
  OBVIOUS
<1>2. \A i \in Ingesters : ingest[i] = Idle /\ ingest[i].at = "idle"
  BY <1>1, Idles DEF Init
<1>3. Typed
  <2>1. files \in [Sources -> Texts]
    <3>1. files \in Directories /\ files = [s \in Sources |-> files[s]]
      BY <1>1, DirectoriesAssumption DEF Init
    <3>2. \A s \in Sources : files[s] \in Texts
      BY <3>1 DEF Texts
    <3>. QED
      BY <3>1, <3>2
  <2>. QED
    BY <1>1, <2>1, Idles DEF Init, Typed
<1>4. Opened /\ \A i \in Ingesters : ReadsWell(ingest[i])
  BY <1>1, <1>2 DEF Init, Opened, Provided, ReadsWell, Replaces
<1>5. Alone
  <2>1. \A s \in Sources : StoredOf(s) = {}
    BY <1>1 DEF Init, StoredOf
  <2>. QED
    BY <1>2, <2>1 DEF Alone, OneAtATime, LaterReads, Running, ComeFar, Replaces, Settled, Whole
<1>. QED
  BY <1>3, <1>4, <1>5 DEF IInv

LEMMA IInvStep == IInv /\ [Next]_vars => IInv'
<1>1. SUFFICES ASSUME IInv, [Next]_vars PROVE IInv'
  OBVIOUS
<1>2. CASE UNCHANGED vars
  <2>1. UNCHANGED <<files, collection, store, configured, ingest, overlapped>>
    BY <1>2 DEF vars
  <2>2. Typed' /\ Opened' /\ \A i \in Ingesters : ReadsWell(ingest[i])'
    BY <1>1, <2>1 DEF IInv, Typed, Opened, Provided, ReadsWell
  <2>3. ~overlapped' => Alone'
    BY <1>1, <2>1 DEF IInv, Alone, OneAtATime, Running, LaterReads, ComeFar, Settled, Whole, OnDisk, StoredOf
  <2>. QED
    BY <2>2, <2>3 DEF IInv
<1>3. ASSUME NEW i \in Ingesters,
             StartIngest(i) \/ Proceed(i) \/ Abort(i) \/ \E p \in Providers : Reconfigure(i, p)
      PROVE  IInv'
  BY <1>1, <1>3, StartIngestKeeps, LoadFileKeeps, OpenStoreKeeps, CompareKeeps, DeleteSourceKeeps,
     AddChunksKeeps, EndIngestKeeps, AbortKeeps, ReconfigureKeeps DEF Proceed
<1>4. ASSUME NEW s \in Sources, NEW text \in Editions \cup {Gone}, Edit(s, text) PROVE IInv'
  BY <1>1, <1>4, EditKeeps
<1>. QED
  BY <1>1, <1>2, <1>3, <1>4 DEF Next

\* Whatever is edited, aborted and configured, the store is where the ingest is.
THEOREM Inductive == Spec => []IInv
<1>1. Init => IInv
  BY IInvInit
<1>2. IInv /\ [Next]_vars => IInv'
  BY IInvStep
<1>. QED
  BY <1>1, <1>2, PTL DEF Spec

--------------------------------------------------------------------------------

\* As long as no two ingests have run at a time, what is stored of a document are all the
\* passages of one edition of it, or none: however many files and ingests there are, and
\* however often one dies between the delete and the add (VectorStore.replace_source).
THEOREM EditionsStayWhole == Spec => []OneEdition
<1>1. IInv => OneEdition
  BY DEF IInv, Alone, Whole, OneEdition
<1>. QED
  BY <1>1, Inductive, PTL

\* An ingest that ran to its end, alone and without an edit, has brought every file on disk
\* up to date, also one that an earlier ingest died in the middle of (RagService.ingest).
THEOREM EndsUpToDate == Spec => []CaughtUp
<1>1. IInv => CaughtUp
  BY DEF IInv, Alone, Settled, CaughtUp
<1>. QED
  BY <1>1, Inductive, PTL

\* Nothing of a document on disk is lost or told twice but the overlap, however long its
\* lines, sentences and words are and whatever CHUNK_MAX_CHARS and CHUNK_OVERLAP_CHARS: the
\* passages say its letters in order, each under its title (chunk_document).
THEOREM PassagesCover == Spec => []PassagesCoverDocument
<1>1. ASSUME IInv, NEW s \in OnDisk PROVE Covered(files[s])
  <2>1. s \in Sources /\ files[s] # Gone /\ files[s] \in Texts
    BY <1>1 DEF OnDisk, IInv, Typed
  <2>2. files[s] \in Seq(Line)
    BY <2>1, DirectoriesAssumption DEF Texts
  <2>. QED
    BY <2>2, DocumentIsCovered
<1>2. IInv => PassagesCoverDocument
  BY <1>1 DEF PassagesCoverDocument
<1>. QED
  BY <1>2, Inductive, PTL
================================================================================
