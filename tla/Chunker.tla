-------------------------------- MODULE Chunker --------------------------------
(***************************************************************************)
(* How a knowledge document is cut into passages (app/rag/chunker.py).     *)
(*                                                                         *)
(* A character is a number: 0 is a blank, LineBreak ends a line within a   *)
(* passage, letters are positive and those above StopsFrom end a sentence. *)
(***************************************************************************)
EXTENDS Subsequences, SequencesExt, FiniteSetsExt

CONSTANTS
    MaxChars,      \* CHUNK_MAX_CHARS
    OverlapChars   \* CHUNK_OVERLAP_CHARS

ASSUME ChunkerAssumption == MaxChars \in Nat /\ MaxChars > 1 /\ OverlapChars \in Nat

Space == 0
LineBreak == -1
Separator == <<LineBreak, LineBreak>>
StopsFrom == 100
Letter == Nat \ {0}
IsStop(c) == c > StopsFrom

Letters(text) == Selection(text, Letter)

Strip(text) ==
    LET solid == {i \in DOMAIN text : text[i] \in Letter}
    IN  IF solid = {} THEN << >> ELSE SubSeq(text, Min(solid), Max(solid))

\* A document is a sequence of lines, headings with their titles and others.
Heading(title) == [kind |-> "heading", text |-> title]
TextLine(text) == [kind |-> "text", text |-> text]
BlankLine == TextLine(<< >>)

Line == [kind : {"heading", "text"}, text : Seq(Int)]

(***************************************************************************)
(* Sections and paragraphs                                                 *)
(***************************************************************************)

\* The lines of a paragraph joined by blanks.
JoinLines(paragraph) ==
    Strip(FlattenSeq([i \in DOMAIN paragraph |->
                         IF i = 1 THEN Strip(paragraph[i]) ELSE <<Space>> \o Strip(paragraph[i])]))

FlushParagraph(acc) ==
    LET joined == JoinLines(acc.paragraph)
    IN  [acc EXCEPT !.paragraph = << >>,
                    !.current = IF joined = << >> THEN @ ELSE Append(@, joined)]

FlushSection(acc) ==
    LET flushed == FlushParagraph(acc)
    IN  [flushed EXCEPT
            !.current = << >>,
            !.sections = IF flushed.current = << >> THEN @
                         ELSE Append(@, [title |-> acc.title, paragraphs |-> flushed.current])]

ReadLine(acc, line) ==
    IF line.kind = "heading" THEN [FlushSection(acc) EXCEPT !.title = line.text]
    ELSE IF Strip(line.text) = << >> THEN FlushParagraph(acc)
    ELSE [acc EXCEPT !.paragraph = Append(@, line.text)]

NothingSplit == [sections |-> << >>, title |-> << >>, current |-> << >>, paragraph |-> << >>]

SplitSections(lines) ==
    LET after[n \in 0 .. Len(lines)] ==
            IF n = 0 THEN NothingSplit ELSE ReadLine(after[n - 1], lines[n])
    IN  FlushSection(after[Len(lines)]).sections

(***************************************************************************)
(* Long paragraphs                                                         *)
(***************************************************************************)

\* The blanks after the end of a sentence separate it from the next one.
Gaps(text) ==
    {i \in DOMAIN text :
        \E j \in 1 .. i - 1 : IsStop(text[j]) /\ \A k \in j + 1 .. i : text[k] \notin Letter}

\* The sentences so far, the last of them still open, and one more character.
ReadCharacter(acc, text, n) ==
    IF n \notin Gaps(text) THEN [acc EXCEPT ![Len(acc)] = Append(@, text[n])]
    ELSE IF Last(acc) = << >> THEN acc ELSE Append(acc, << >>)

Sentences(text) ==
    LET after[n \in 0 .. Len(text)] ==
            IF n = 0 THEN << << >> >> ELSE ReadCharacter(after[n - 1], text, n)
    IN  after[Len(text)]

\* Mutant: the open buffer is forgotten when an over-long sentence is sliced.
PackDroppingBuffer(acc, sentence) ==
    LET slices == (Len(sentence) - 1) \div MaxChars
        cut == [k \in 1 .. slices |-> SubSeq(sentence, (k - 1) * MaxChars + 1, k * MaxChars)]
        rest == SubSeq(sentence, slices * MaxChars + 1, Len(sentence))
        open == IF slices > 0 THEN << >> ELSE acc.buffer
        joined == IF open = << >> THEN rest ELSE Strip(open \o <<Space>> \o rest)
    IN  IF Len(joined) > MaxChars
        THEN [pieces |-> acc.pieces \o cut \o <<open>>, buffer |-> rest]
        ELSE [pieces |-> acc.pieces \o cut, buffer |-> joined]

\* One more sentence: an over-long one is sliced, after what was open is closed; what
\* is left of it joins the open piece when both fit.
PackSentence(acc, sentence) ==
    LET slices == (Len(sentence) - 1) \div MaxChars
        cut == [k \in 1 .. slices |-> SubSeq(sentence, (k - 1) * MaxChars + 1, k * MaxChars)]
        closed == IF slices > 0 /\ acc.buffer # << >> THEN <<acc.buffer>> \o cut ELSE cut
        rest == SubSeq(sentence, slices * MaxChars + 1, Len(sentence))
        open == IF slices > 0 THEN << >> ELSE acc.buffer
        joined == IF open = << >> THEN rest ELSE Strip(open \o <<Space>> \o rest)
    IN  IF Len(joined) > MaxChars
        THEN [pieces |-> acc.pieces \o closed \o <<open>>, buffer |-> rest]
        ELSE [pieces |-> acc.pieces \o closed, buffer |-> joined]

PackSentences(sentences) ==
    LET after[n \in 0 .. Len(sentences)] ==
            IF n = 0 THEN [pieces |-> << >>, buffer |-> << >>]
            ELSE PackSentence(after[n - 1], sentences[n])
    IN  after[Len(sentences)]

SplitLongText(text) ==
    LET packed == PackSentences(Sentences(text))
    IN  IF Len(text) <= MaxChars THEN <<text>>
        ELSE IF packed.buffer = << >> THEN packed.pieces
        ELSE Append(packed.pieces, packed.buffer)

(***************************************************************************)
(* Passages                                                                *)
(***************************************************************************)

\* The end of a closed passage from its first blank on, or all of it without one.
TailOverlap(buffer) ==
    LET tail == SubSeq(buffer, Len(buffer) - OverlapChars + 1, Len(buffer))
        blanks == {i \in DOMAIN tail : tail[i] = Space}
        words == IF blanks = {} THEN tail ELSE SubSeq(tail, Min(blanks) + 1, Len(tail))
    IN  IF OverlapChars = 0 \/ Len(buffer) <= OverlapChars THEN << >> ELSE Strip(words)

MakeChunk(acc, title) ==
    Append(acc.chunks, [section |-> title, index |-> Len(acc.chunks), content |-> Strip(acc.buffer)])

Carries(overlap, piece) == overlap # << >> /\ Len(overlap) + Len(piece) <= MaxChars

\* Pieces are packed as long as they fit, then the passage is closed - without a look at
\* whether it has letters - and its tail carried into the next.
PackPiece(acc, piece, title) ==
    LET candidate == IF acc.buffer = << >> THEN piece ELSE acc.buffer \o Separator \o piece
        overlap == TailOverlap(acc.buffer)
    IN  IF acc.buffer = << >> \/ Len(candidate) <= MaxChars
        THEN [acc EXCEPT !.buffer = candidate]
        ELSE [chunks |-> MakeChunk(acc, title),
              buffer |-> IF Carries(overlap, piece) THEN overlap \o Separator \o piece ELSE piece]

PackPieces(chunks, pieces, title) ==
    LET after[n \in 0 .. Len(pieces)] ==
            IF n = 0 THEN [chunks |-> chunks, buffer |-> << >>]
            ELSE PackPiece(after[n - 1], pieces[n], title)
    IN  after[Len(pieces)]

PackSection(chunks, section) ==
    LET pieces == FlattenSeq([i \in DOMAIN section.paragraphs |->
                                 SplitLongText(section.paragraphs[i])])
        packed == PackPieces(chunks, pieces, section.title)
    IN  IF Strip(packed.buffer) = << >> THEN packed.chunks ELSE MakeChunk(packed, section.title)

ChunkDocument(lines) ==
    LET sections == SplitSections(lines)
        after[n \in 0 .. Len(sections)] ==
            IF n = 0 THEN << >> ELSE PackSection(after[n - 1], sections[n])
    IN  after[Len(sections)]

(***************************************************************************)
(* What the passages of a document should be                               *)
(***************************************************************************)

IsHeading(line) == line.kind = "heading"

\* The title of the section that line i is in.
TitleAt(lines, i) ==
    LET headings == {j \in 1 .. i : IsHeading(lines[j])}
    IN  IF headings = {} THEN << >> ELSE lines[Max(headings)].text

Under(title, letters) == [i \in DOMAIN letters |-> <<title, letters[i]>>]

\* The letters of a document in order, each with the title it stands under.
LettersOf(lines) ==
    FlattenSeq([i \in DOMAIN lines |->
                   IF IsHeading(lines[i]) THEN << >>
                   ELSE Under(TitleAt(lines, i), Letters(lines[i].text))])

\* As many blanks in a row as a piece has characters: between words, not at an end.
HasHole(text) ==
    \E i \in DOMAIN text : \A k \in i .. i + MaxChars - 1 : k \in DOMAIN text /\ text[k] \notin Letter

HasHoles(lines) == \E i \in DOMAIN lines : ~IsHeading(lines[i]) /\ HasHole(Strip(lines[i].text))

\* The first k letters of a passage are the last of the one before it.
Repeats(before, chunk, k) ==
    LET old == Letters(before.content)
        new == Letters(chunk.content)
    IN  /\ before.section = chunk.section
        /\ k <= Len(old) /\ k <= Len(new)
        /\ SubSeq(new, 1, k) = SubSeq(old, Len(old) - k + 1, Len(old))

\* The letters of a passage after the first k.
New(chunk, k) == SubSeq(Letters(chunk.content), k + 1, Len(Letters(chunk.content)))

\* The passages of a document cover it: see PassagesCoverDocument of KnowledgeIngest.
Covered(lines) ==
    LET chunks == ChunkDocument(lines)
    IN  /\ \A n \in DOMAIN chunks : Len(chunks[n].content) <= MaxChars + Len(Separator)
        /\ \E repeated \in [DOMAIN chunks -> 0 .. OverlapChars] :
               /\ \A n \in DOMAIN chunks :
                      /\ repeated[n] > 0 => n > 1 /\ Repeats(chunks[n - 1], chunks[n], repeated[n])
                      /\ HasHoles(lines) \/ New(chunks[n], repeated[n]) # << >>
               /\ FlattenSeq([n \in DOMAIN chunks |->
                                 Under(chunks[n].section, New(chunks[n], repeated[n]))])
                      = LettersOf(lines)
================================================================================
