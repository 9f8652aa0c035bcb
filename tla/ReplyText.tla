------------------------------- MODULE ReplyText -------------------------------
(***************************************************************************)
(* From the Markdown an agent answers with to the text messages a customer *)
(* receives (app/whatsapp/formatting.py): line by line, then in chunks.    *)
(* Links, bold and italics within a line are part of its text.             *)
(*                                                                         *)
(* A character is a number: letters are positive, the negative ones are    *)
(* what the code inserts or looks for.                                     *)
(***************************************************************************)
EXTENDS Subsequences, SequencesExt, FiniteSetsExt

CONSTANT Limit  \* MAX_TEXT_LENGTH

ASSUME LimitAssumption == Limit \in Nat \ {0}

Space == 0
LineBreak == -1
Bullet == -2   \* in front of a list item
Colon == -3    \* between a header and a value
Dot == -4      \* between the values of a row
Dash == -5     \* what a separator row is made of

\* A line: text, perhaps marked as a heading or a list item, or a table row with what
\* stands between its bars - nothing at all (<< >>), a blank, or a value.
TextLine(text) == [kind |-> "text", text |-> text]
HeadingLine(text) == [kind |-> "heading", text |-> text]
ListLine(text) == [kind |-> "item", text |-> text]
TableRow(cells) == [kind |-> "row", cells |-> cells]

Line ==
    [kind : {"text", "heading", "item"}, text : Seq(Int)] \cup [kind : {"row"}, cells : Seq(Seq(Int))]

IsRow(line) == line.kind = "row"

(***************************************************************************)
(* format_reply_for_whatsapp                                               *)
(***************************************************************************)

Trim(cell) == IF cell = <<Space>> THEN << >> ELSE cell

\* The bars at both ends go, however many there are; a row of bars is one empty cell.
SplitTableRow(cells) ==
    LET solid == {i \in DOMAIN cells : cells[i] # << >>}
    IN  IF solid = {} THEN << << >> >>
        ELSE LET inner == SubSeq(cells, Min(solid), Max(solid))
             IN  [i \in DOMAIN inner |-> Trim(inner[i])]

\* Blank cells do not count, so a row of blanks is a separator, too.
IsSeparatorRow(cells) == \A i \in DOMAIN cells : ToSet(cells[i]) \subseteq {Dash}

Joined(pieces, separator) ==
    FlattenSeq([i \in DOMAIN pieces |->
                   IF i = 1 THEN pieces[i] ELSE <<separator>> \o pieces[i]])

\* Without headers the values; with headers the pairs, as far as both reach.
FormatTableRow(cells, headers) ==
    LET pairs == [i \in 1 .. Min({Len(headers), Len(cells)}) |->
                     headers[i] \o <<Colon>> \o cells[i]]
    IN  Joined(IF headers = << >> THEN cells ELSE pairs, Dot)

FlushTable(acc) ==
    LET rows == [i \in DOMAIN acc.table |-> SplitTableRow(acc.table[i])]
        headed == Len(rows) >= 2 /\ IsSeparatorRow(rows[2])
        headers == IF headed THEN rows[1] ELSE << >>
        values == IF headed THEN SubSeq(rows, 3, Len(rows)) ELSE rows
    IN  [formatted |-> acc.formatted \o [i \in DOMAIN values |-> FormatTableRow(values[i], headers)],
         table |-> << >>]

FormatLine(acc, line) ==
    IF IsRow(line) THEN [acc EXCEPT !.table = Append(@, line.cells)]
    ELSE LET text == IF line.kind = "item" THEN <<Bullet>> \o line.text ELSE line.text
         IN  [FlushTable(acc) EXCEPT !.formatted = Append(@, text)]

\* Mutant: a table at the end of a reply is forgotten.
FormattedSoFar(acc) == acc.formatted

Finished(acc) == FlushTable(acc).formatted

\* after[n]: the lines formatted, and the table collected, after n lines.
FormatReply(lines) ==
    LET after[n \in 0 .. Len(lines)] ==
            IF n = 0 THEN [formatted |-> << >>, table |-> << >>]
            ELSE FormatLine(after[n - 1], lines[n])
    IN  Joined(Finished(after[Len(lines)]), LineBreak)

(***************************************************************************)
(* chunk_text                                                              *)
(***************************************************************************)

\* The next chunk ends after the last paragraph within reach, else after the last line,
\* else where the limit is.
CutAtBoundary(text) ==
    LET window == SubSeq(text, 1, Min({Limit, Len(text)}))
        lineEnds == {i \in DOMAIN window : window[i] = LineBreak}
        paragraphEnds == {i \in lineEnds : i - 1 \in lineEnds}
    IN  IF paragraphEnds # {} THEN SubSeq(text, 1, Max(paragraphEnds))
        ELSE IF lineEnds # {} THEN SubSeq(text, 1, Max(lineEnds))
        ELSE window

TakeChunk(acc) ==
    LET take == CutAtBoundary(acc.remaining)
    IN  IF acc.remaining = << >> THEN acc
        ELSE [chunks |-> Append(acc.chunks, take),
              remaining |-> SubSeq(acc.remaining, Len(take) + 1, Len(acc.remaining))]

\* Every chunk takes a character at least, so there are no more rounds than characters.
ChunkText(text) ==
    LET after[n \in 0 .. Len(text)] ==
            IF n = 0 THEN [chunks |-> << >>, remaining |-> text]
            ELSE TakeChunk(after[n - 1])
    IN  IF Len(text) <= Limit THEN <<text>> ELSE after[Len(text)].chunks

ReplyChunks(lines) == ChunkText(FormatReply(lines))

(***************************************************************************)
(* What a customer should get to read                                      *)
(***************************************************************************)

Letter == Nat \ {0}

\* i and j are rows of one table.
SameTable(lines, i, j) == i <= j /\ \A k \in i .. j : k \in DOMAIN lines /\ IsRow(lines[k])

IsHeader(lines, i) ==
    /\ SameTable(lines, i, i + 1)
    /\ i > 1 => ~IsRow(lines[i - 1])
    /\ IsSeparatorRow(SplitTableRow(lines[i + 1].cells))

\* Tables with a header have values, and as many in each row as there are headers.
WellFormed(lines) ==
    \A i \in DOMAIN lines : IsHeader(lines, i) =>
        /\ SameTable(lines, i, i + 2)
        /\ \A j \in i + 2 .. Len(lines) : SameTable(lines, i, j) =>
               Len(SplitTableRow(lines[j].cells)) = Len(SplitTableRow(lines[i].cells))

Headers(lines) == {i \in DOMAIN lines : IsHeader(lines, i)}

Source(line) == IF IsRow(line) THEN FlattenSeq(line.cells) ELSE line.text

\* What the lines at some places say.
SourceOf(lines, places) ==
    FlattenSeq([i \in DOMAIN lines |-> IF i \in places THEN Source(lines[i]) ELSE << >>])

\* The letters of a well-formed reply are all there and in their order, and no others but
\* those of the headers, which may stand in every row.
ContentPreserved(lines) ==
    LET reply == FormatReply(lines)
        headers == Letter \cap ToSet(SourceOf(lines, Headers(lines)))
        others == SourceOf(lines, DOMAIN lines \ Headers(lines))
    IN  /\ Selection(reply, Letter \ headers) = Selection(others, Letter \ headers)
        /\ IsThinned(Selection(others, Letter), Selection(reply, Letter))
        /\ headers \subseteq ToSet(reply)

\* No chunk is too long, none empty unless the reply is, and a line is cut only where it
\* does not fit into a message of its own.
ChunksFit(text, chunks) ==
    \A i \in DOMAIN chunks :
        /\ Len(chunks[i]) <= Limit
        /\ text # << >> => chunks[i] # << >>
        /\ \/ i = Len(chunks)
           \/ Last(chunks[i]) = LineBreak
           \/ Len(chunks[i]) = Limit /\ LineBreak \notin ToSet(chunks[i])
================================================================================
