-------------------------- MODULE WhatsAppLedgerProofs --------------------------
(***************************************************************************)
(* Proofs about WhatsAppLedger, for any posts, settings and replies and    *)
(* any number of requests, with any combination of store faults, lost      *)
(* answers and crashes.                                                    *)
(***************************************************************************)
EXTENDS WhatsAppLedger, InductionLemmas

--------------------------------------------------------------------------------
\* The text of a reply is a text.

LEMMA JoinedType ==
  ASSUME NEW pieces \in Seq(Seq(Int)), NEW separator \in Int
  PROVE  Joined(pieces, separator) \in Seq(Int)
<1> DEFINE Piece(i) == IF i = 1 THEN pieces[i] ELSE <<separator>> \o pieces[i]
<1>1. \A i \in DOMAIN pieces : Piece(i) \in Seq(Int)
  <2>1. SUFFICES ASSUME NEW i \in DOMAIN pieces PROVE Piece(i) \in Seq(Int)
    OBVIOUS
  <2>2. pieces[i] \in Seq(Int) /\ <<separator>> \in Seq(Int)
    BY <2>1
  <2>3. <<separator>> \o pieces[i] \in Seq(Int)
    BY <2>2, ConcatProperties
  <2>. QED
    BY <2>2, <2>3
<1>. HIDE DEF Piece
<1>2. [i \in DOMAIN pieces |-> Piece(i)] \in Seq(Seq(Int))
  <2>1. DOMAIN pieces = 1 .. Len(pieces) /\ Len(pieces) \in Nat
    OBVIOUS
  <2>. QED
    BY <1>1, <2>1, IsASeq
<1>3. FlattenSeq([i \in DOMAIN pieces |-> Piece(i)]) \in Seq(Int)
  BY <1>2, FlattenType
<1>. QED
  BY <1>3 DEF Joined, Piece

LEMMA SplitType ==
  ASSUME NEW cells \in Seq(Seq(Int))
  PROVE  SplitTableRow(cells) \in Seq(Seq(Int))
<1> DEFINE solid == {i \in DOMAIN cells : cells[i] # << >>}
           inner == SubSeq(cells, Min(solid), Max(solid))
<1>1. CASE solid = {}
  BY <1>1 DEF SplitTableRow
<1>2. CASE solid # {}
  <2>1. DOMAIN cells = 1 .. Len(cells) /\ Len(cells) \in Nat
    OBVIOUS
  <2>2. solid \subseteq Nat /\ IsFiniteSet(solid)
    <3>1. IsFiniteSet(1 .. Len(cells))
      BY <2>1, FS_Interval
    <3>. QED
      BY <2>1, <3>1, FS_Subset
  <2>3. Min(solid) \in DOMAIN cells /\ Max(solid) \in DOMAIN cells
    <3>1. Min(solid) \in solid /\ Max(solid) \in solid
      <4>. HIDE DEF solid
      <4>. QED
        BY <1>2, <2>2, MinIs, MaxIs
    <3>. QED
      BY <3>1
  <2>4. PICK a, b \in 1 .. Len(cells) : a = Min(solid) /\ b = Max(solid)
    BY <2>1, <2>3
  <2>5. inner \in Seq(Seq(Int))
    <3>1. \A i \in a .. b : cells[i] \in Seq(Int)
      BY <2>1
    <3>2. SubSeq(cells, a, b) \in Seq(Seq(Int))
      BY <3>1, SubSeqProperties
    <3>. QED
      BY <2>4, <3>2
  <2>. HIDE DEF inner
  <2>6. [i \in DOMAIN inner |-> Trim(inner[i])] \in Seq(Seq(Int))
    <3>1. DOMAIN inner = 1 .. Len(inner) /\ Len(inner) \in Nat
      BY <2>5
    <3>2. \A i \in DOMAIN inner : Trim(inner[i]) \in Seq(Int)
      BY <2>5, <3>1 DEF Trim
    <3>. HIDE DEF Trim
    <3>. QED
      BY <3>1, <3>2, IsASeq
  <2>. QED
    BY <1>2, <2>6 DEF SplitTableRow, inner
<1>. QED
  BY <1>1, <1>2

LEMMA FormatRowType ==
  ASSUME NEW cells \in Seq(Seq(Int)), NEW headers \in Seq(Seq(Int))
  PROVE  FormatTableRow(cells, headers) \in Seq(Int)
<1>1. PICK n \in Nat : n = Min({Len(headers), Len(cells)}) /\ n <= Len(headers) /\ n <= Len(cells)
  <2>1. Len(headers) \in Nat /\ Len(cells) \in Nat
    OBVIOUS
  <2>. QED
    BY <2>1, MinIs
<1> DEFINE Pair(i) == headers[i] \o <<Colon>> \o cells[i]
<1>2. \A i \in 1 .. n : Pair(i) \in Seq(Int)
  <2>1. SUFFICES ASSUME NEW i \in 1 .. n PROVE Pair(i) \in Seq(Int)
    OBVIOUS
  <2>2. headers[i] \in Seq(Int) /\ cells[i] \in Seq(Int) /\ <<Colon>> \in Seq(Int)
    <3>1. i \in 1 .. Len(headers) /\ i \in 1 .. Len(cells)
      BY <1>1
    <3>2. Colon \in Int
      BY DEF Colon
    <3>. QED
      BY <3>1, <3>2
  <2>3. headers[i] \o <<Colon>> \in Seq(Int)
    BY <2>2, ConcatProperties
  <2>. QED
    BY <2>2, <2>3, ConcatProperties
<1>. HIDE DEF Pair
<1>3. [i \in 1 .. n |-> Pair(i)] \in Seq(Seq(Int))
  BY <1>2, IsASeq
<1>4. Dot \in Int
  BY DEF Dot
<1>5. Joined(cells, Dot) \in Seq(Int) /\ Joined([i \in 1 .. n |-> Pair(i)], Dot) \in Seq(Int)
  BY <1>3, <1>4, JoinedType
<1>. QED
  BY <1>1, <1>5 DEF FormatTableRow, Pair

\* The lines formatted so far, and the rows of the table that is not yet.
Formatting == [formatted : Seq(Seq(Int)), table : Seq(Seq(Seq(Int)))]

LEMMA FlushType ==
  ASSUME NEW acc \in Formatting
  PROVE  FlushTable(acc) \in Formatting
<1> DEFINE rows == [i \in DOMAIN acc.table |-> SplitTableRow(acc.table[i])]
           headed == Len(rows) >= 2 /\ IsSeparatorRow(rows[2])
           headers == IF headed THEN rows[1] ELSE << >>
           values == IF headed THEN SubSeq(rows, 3, Len(rows)) ELSE rows
           lines == [i \in DOMAIN values |-> FormatTableRow(values[i], headers)]
<1>1. /\ acc.formatted \in Seq(Seq(Int)) /\ acc.table \in Seq(Seq(Seq(Int)))
      /\ DOMAIN acc.table = 1 .. Len(acc.table) /\ Len(acc.table) \in Nat
  BY DEF Formatting
<1>2. rows \in Seq(Seq(Seq(Int)))
  <2>1. \A i \in 1 .. Len(acc.table) : SplitTableRow(acc.table[i]) \in Seq(Seq(Int))
    BY <1>1, SplitType
  <2>. QED
    BY <1>1, <2>1, IsASeq
<1>. HIDE DEF rows
<1>3. headers \in Seq(Seq(Int))
  BY <1>2
<1>4. values \in Seq(Seq(Seq(Int)))
  <2>1. \A i \in 3 .. Len(rows) : rows[i] \in Seq(Seq(Int))
    BY <1>2
  <2>2. SubSeq(rows, 3, Len(rows)) \in Seq(Seq(Seq(Int)))
    BY <1>2, <2>1, SubSeqProperties
  <2>. QED
    BY <1>2, <2>2
<1>. HIDE DEF headers, values
<1>5. lines \in Seq(Seq(Int))
  <2>1. DOMAIN values = 1 .. Len(values) /\ Len(values) \in Nat
    BY <1>4
  <2>2. \A i \in 1 .. Len(values) : FormatTableRow(values[i], headers) \in Seq(Int)
    BY <1>3, <1>4, FormatRowType
  <2>. QED
    BY <2>1, <2>2, IsASeq
<1>. HIDE DEF lines
<1>6. acc.formatted \o lines \in Seq(Seq(Int))
  BY <1>1, <1>5, ConcatProperties
<1>7. FlushTable(acc) = [formatted |-> acc.formatted \o lines, table |-> << >>]
  BY DEF FlushTable, lines, values, headers, rows
<1>. QED
  BY <1>6, <1>7 DEF Formatting

LEMMA FormatLineType ==
  ASSUME NEW acc \in Formatting, NEW line \in Line
  PROVE  FormatLine(acc, line) \in Formatting
<1>1. CASE IsRow(line)
  <2>1. line.cells \in Seq(Seq(Int))
    BY <1>1 DEF IsRow, Line
  <2>2. Append(acc.table, line.cells) \in Seq(Seq(Seq(Int)))
    BY <2>1, AppendProperties DEF Formatting
  <2>. QED
    BY <1>1, <2>2 DEF FormatLine, Formatting
<1>2. CASE ~IsRow(line)
  <2> DEFINE text == IF line.kind = "item" THEN <<Bullet>> \o line.text ELSE line.text
  <2>1. text \in Seq(Int)
    <3>1. line.text \in Seq(Int) /\ <<Bullet>> \in Seq(Int)
      BY <1>2 DEF IsRow, Line, Bullet
    <3>2. <<Bullet>> \o line.text \in Seq(Int)
      BY <3>1, ConcatProperties
    <3>. QED
      BY <3>1, <3>2
  <2>. HIDE DEF text
  <2>2. PICK flushed \in Formatting : flushed = FlushTable(acc)
    BY FlushType
  <2>3. Append(flushed.formatted, text) \in Seq(Seq(Int))
    BY <2>1, AppendProperties DEF Formatting
  <2>4. FormatLine(acc, line) = [flushed EXCEPT !.formatted = Append(@, text)]
    BY <1>2, <2>2 DEF FormatLine, text
  <2>. QED
    BY <2>3, <2>4 DEF Formatting
<1>. QED
  BY <1>1, <1>2

Formats(lines, f) ==
    f = [n \in 0 .. Len(lines) |->
            IF n = 0 THEN [formatted |-> << >>, table |-> << >>]
            ELSE FormatLine(f[n - 1], lines[n])]

\* A reply is what its last line leaves.
LEMMA FormatReplyIs ==
  ASSUME NEW lines \in Seq(Line)
  PROVE  \E g : /\ Formats(lines, g)
               /\ \A n \in 0 .. Len(lines) : g[n] \in Formatting
               /\ FormatReply(lines) = Joined(Finished(g[Len(lines)]), LineBreak)
<1>1. PICK N \in Nat : N = Len(lines)
  OBVIOUS
<1>2. PICK a \in Formatting : a = [formatted |-> << >>, table |-> << >>]
  <2>1. [formatted |-> << >>, table |-> << >>] \in Formatting
    BY DEF Formatting
  <2>. QED
    BY <2>1
<1>3. PICK step : step = [n \in 1 .. N |-> [v \in Formatting |-> FormatLine(v, lines[n])]]
  OBVIOUS
<1>4. \A n \in 1 .. N, v \in Formatting :
          step[n][v] = FormatLine(v, lines[n]) /\ step[n][v] \in Formatting
  <2>1. \A n \in 1 .. N : lines[n] \in Line
    BY <1>1
  <2>. QED
    BY <1>3, <2>1, FormatLineType
<1>5. PICK h \in [0 .. N -> Formatting] :
          h[0] = a /\ \A n \in 1 .. N : h[n] = step[n][h[n - 1]]
  <2>1. Steps(step, N, Formatting)
    BY <1>4 DEF Steps
  <2>2. PICK h \in [0 .. N -> Formatting] : Follows(h, a, step, N)
    BY <2>1, RecursionExists
  <2>. QED
    BY <2>2 DEF Follows
<1>6. Formats(lines, h)
  <2>1. ASSUME NEW n \in 0 .. N
        PROVE  h[n] = IF n = 0 THEN [formatted |-> << >>, table |-> << >>]
                      ELSE FormatLine(h[n - 1], lines[n])
    <3>1. CASE n = 0
      BY <1>2, <1>5, <3>1
    <3>2. CASE n # 0
      <4>1. n \in 1 .. N /\ h[n - 1] \in Formatting
        BY <1>5, <2>1, <3>2
      <4>. QED
        BY <1>4, <1>5, <3>2, <4>1
    <3>. QED
      BY <3>1, <3>2
  <2>2. h = [n \in 0 .. N |-> h[n]]
    BY <1>5
  <2>. QED
    BY <1>1, <2>1, <2>2 DEF Formats
<1>7. PICK g : Formats(lines, g) /\ FormatReply(lines) = Joined(Finished(g[Len(lines)]), LineBreak)
  <2>1. PICK g : g = CHOOSE e : Formats(lines, e)
    OBVIOUS
  <2>2. Formats(lines, g)
    BY <1>6, <2>1
  <2>3. FormatReply(lines) = Joined(Finished(g[Len(lines)]), LineBreak)
    BY <2>1 DEF FormatReply, Formats
  <2>. QED
    BY <2>2, <2>3
<1>8. \A n \in 0 .. N : g[n] \in Formatting
  <2> DEFINE Bad == {n \in 0 .. N : g[n] \notin Formatting}
  <2>1. SUFFICES ASSUME Bad # {} PROVE FALSE
    OBVIOUS
  <2>2. Bad \subseteq Nat
    OBVIOUS
  <2>3. PICK n \in Bad : \A k \in Bad : n <= k
    <3>. HIDE DEF Bad
    <3>. QED
      BY <2>1, <2>2, Least
  <2>4. g[n] = IF n = 0 THEN a ELSE FormatLine(g[n - 1], lines[n])
    BY <1>1, <1>2, <1>7, <2>3 DEF Formats
  <2>5. n # 0
    BY <2>3, <2>4
  <2>6. n - 1 \in 0 .. N /\ ~(n <= n - 1) /\ n \in 1 .. N
    BY <2>3, <2>5
  <2>7. g[n - 1] \in Formatting /\ lines[n] \in Line
    BY <1>1, <2>3, <2>6
  <2>. QED
    BY <2>3, <2>4, <2>5, <2>7, FormatLineType
<1>. QED
  BY <1>1, <1>7, <1>8

LEMMA FormatReplyType ==
  ASSUME NEW lines \in Seq(Line)
  PROVE  FormatReply(lines) \in Seq(Int)
<1>1. PICK g : /\ \A n \in 0 .. Len(lines) : g[n] \in Formatting
               /\ FormatReply(lines) = Joined(Finished(g[Len(lines)]), LineBreak)
  BY FormatReplyIs
<1>2. g[Len(lines)] \in Formatting
  BY <1>1
<1>3. Finished(g[Len(lines)]) \in Seq(Seq(Int))
  BY <1>2, FlushType DEF Finished, Formatting
<1>4. LineBreak \in Int
  BY DEF LineBreak
<1>. QED
  BY <1>1, <1>3, <1>4, JoinedType

--------------------------------------------------------------------------------
\* A text is cut into chunks without a loss.

\* A chunk of k characters may end here: with the text, with a line, or with the limit
\* where it holds no line break.
Boundary(text, k) ==
    \/ k = Len(text)
    \/ text[k] = LineBreak
    \/ k = Limit /\ \A i \in 1 .. k : text[i] # LineBreak

LEMMA CutIs ==
  ASSUME NEW text \in Seq(Int), text # << >>
  PROVE  \E k \in 1 .. Len(text) :
            k <= Limit /\ CutAtBoundary(text) = SubSeq(text, 1, k) /\ Boundary(text, k)
<1>1. PICK w \in 1 .. Len(text) :
          w = Min({Limit, Len(text)}) /\ w <= Limit /\ (w = Limit \/ w = Len(text))
  <2>1. Limit \in Nat \ {0} /\ Len(text) \in Nat \ {0}
    BY LimitAssumption
  <2>2. Min({Limit, Len(text)}) \in {Limit, Len(text)}
        /\ \A k \in {Limit, Len(text)} : Min({Limit, Len(text)}) <= k
    BY <2>1, MinIs
  <2>. QED
    BY <2>1, <2>2
<1> DEFINE window == SubSeq(text, 1, w)
           lineEnds == {i \in DOMAIN window : window[i] = LineBreak}
           paragraphEnds == {i \in lineEnds : i - 1 \in lineEnds}
<1>2. DOMAIN window = 1 .. w /\ \A i \in 1 .. w : window[i] = text[i]
  OBVIOUS
<1>3. IsFiniteSet(1 .. w) /\ 1 .. w \subseteq Nat /\ 1 .. w \subseteq 1 .. Len(text)
  BY FS_Interval
<1>4. /\ lineEnds \subseteq 1 .. w /\ IsFiniteSet(lineEnds)
      /\ \A i \in lineEnds : text[i] = LineBreak
  <2>1. lineEnds \subseteq 1 .. w
    BY <1>2
  <2>2. IsFiniteSet(lineEnds)
    BY <1>3, <2>1, FS_Subset
  <2>. QED
    BY <1>2, <2>1, <2>2
<1>5. lineEnds = {} => \A i \in 1 .. w : text[i] # LineBreak
  BY <1>2
<1>6. CutAtBoundary(text) =
          IF paragraphEnds # {} THEN SubSeq(text, 1, Max(paragraphEnds))
          ELSE IF lineEnds # {} THEN SubSeq(text, 1, Max(lineEnds))
          ELSE window
  BY <1>1 DEF CutAtBoundary
<1>. HIDE DEF lineEnds
<1>7. paragraphEnds \subseteq lineEnds /\ IsFiniteSet(paragraphEnds)
  BY <1>4, FS_Subset
<1>. HIDE DEF paragraphEnds, window
<1>8. CASE paragraphEnds # {}
  <2>1. Max(paragraphEnds) \in paragraphEnds
    BY <1>3, <1>4, <1>7, <1>8, MaxIs
  <2>2. PICK k \in 1 .. w : k = Max(paragraphEnds) /\ text[k] = LineBreak
    BY <1>4, <1>7, <2>1
  <2>. QED
    BY <1>1, <1>6, <1>8, <2>2, LimitAssumption DEF Boundary
<1>9. CASE paragraphEnds = {} /\ lineEnds # {}
  <2>1. Max(lineEnds) \in lineEnds
    BY <1>3, <1>4, <1>9, MaxIs
  <2>2. PICK k \in 1 .. w : k = Max(lineEnds) /\ text[k] = LineBreak
    BY <1>4, <2>1
  <2>. QED
    BY <1>1, <1>6, <1>9, <2>2, LimitAssumption DEF Boundary
<1>10. CASE paragraphEnds = {} /\ lineEnds = {}
  BY <1>1, <1>5, <1>6, <1>10 DEF Boundary, window
<1>. QED
  BY <1>8, <1>9, <1>10

\* The chunks taken so far, and what is left of the text.
Chunking == [chunks : Seq(Seq(Int)), remaining : Seq(Int)]

\* A chunk that ChunksFit accepts; no text follows the last one.
Fits(chunk, last) ==
    /\ Len(chunk) <= Limit
    /\ chunk # << >>
    /\ \/ last
       \/ Last(chunk) = LineBreak
       \/ Len(chunk) = Limit /\ LineBreak \notin ToSet(chunk)

LEMMA TakeChunkIs ==
  ASSUME NEW acc \in Chunking, acc.remaining # << >>
  PROVE  \E take, left \in Seq(Int) :
            /\ TakeChunk(acc) = [chunks |-> Append(acc.chunks, take), remaining |-> left]
            /\ take \o left = acc.remaining /\ Len(left) < Len(acc.remaining)
            /\ Fits(take, left = << >>)
<1>1. PICK text \in Seq(Int) : text = acc.remaining
  BY DEF Chunking
<1>2. PICK k \in 1 .. Len(text) :
          k <= Limit /\ CutAtBoundary(text) = SubSeq(text, 1, k) /\ Boundary(text, k)
  BY <1>1, CutIs
<1>3. PICK take, left \in Seq(Int) : take = SubSeq(text, 1, k) /\ left = SubSeq(text, k + 1, Len(text))
  <2>1. SubSeq(text, 1, k) \in Seq(Int) /\ SubSeq(text, k + 1, Len(text)) \in Seq(Int)
    OBVIOUS
  <2>. QED
    BY <2>1
<1>4. /\ Len(take) = k /\ Len(left) = Len(text) - k /\ Len(text) \in Nat
      /\ \A i \in 1 .. k : take[i] = text[i]
  BY <1>3
<1>5. TakeChunk(acc) = [chunks |-> Append(acc.chunks, take), remaining |-> left]
  BY <1>1, <1>2, <1>3, <1>4 DEF TakeChunk
<1>6. take \o left = text
  BY <1>3
<1>7. Fits(take, left = << >>)
  <2>1. Len(take) <= Limit /\ take # << >>
    BY <1>2, <1>4
  <2>2. CASE k = Len(text)
    BY <1>4, <2>1, <2>2 DEF Fits
  <2>3. CASE text[k] = LineBreak
    BY <1>4, <2>1, <2>3 DEF Fits, Last
  <2>4. CASE k = Limit /\ \A i \in 1 .. k : text[i] # LineBreak
    <3>1. LineBreak \notin ToSet(take)
      BY <1>4, <2>4 DEF ToSet
    <3>. QED
      BY <1>4, <2>1, <2>4, <3>1 DEF Fits
  <2>. QED
    BY <1>2, <2>2, <2>3, <2>4 DEF Boundary
<1>8. Len(left) < Len(text)
  BY <1>2, <1>4
<1>. QED
  BY <1>1, <1>5, <1>6, <1>7, <1>8

LEMMA TakeChunkType ==
  ASSUME NEW acc \in Chunking
  PROVE  TakeChunk(acc) \in Chunking
<1>1. CASE acc.remaining = << >>
  BY <1>1 DEF TakeChunk
<1>2. CASE acc.remaining # << >>
  <2>1. PICK take, left \in Seq(Int) :
            TakeChunk(acc) = [chunks |-> Append(acc.chunks, take), remaining |-> left]
    BY <1>2, TakeChunkIs
  <2>2. Append(acc.chunks, take) \in Seq(Seq(Int))
    BY AppendProperties DEF Chunking
  <2>. QED
    BY <2>1, <2>2 DEF Chunking
<1>. QED
  BY <1>1, <1>2

Cuts(text, f) ==
    f = [n \in 0 .. Len(text) |->
            IF n = 0 THEN [chunks |-> << >>, remaining |-> text] ELSE TakeChunk(f[n - 1])]

LEMMA CutsExist ==
  ASSUME NEW text \in Seq(Int)
  PROVE  \E f : Cuts(text, f)
<1>1. PICK N \in Nat : N = Len(text)
  OBVIOUS
<1>2. PICK a \in Chunking : a = [chunks |-> << >>, remaining |-> text]
  <2>1. [chunks |-> << >>, remaining |-> text] \in Chunking
    BY DEF Chunking
  <2>. QED
    BY <2>1
<1>3. PICK step : step = [n \in 1 .. N |-> [v \in Chunking |-> TakeChunk(v)]]
  OBVIOUS
<1>4. \A n \in 1 .. N, v \in Chunking :
          step[n][v] = TakeChunk(v) /\ step[n][v] \in Chunking
  BY <1>3, TakeChunkType
<1>5. PICK h \in [0 .. N -> Chunking] :
          h[0] = a /\ \A n \in 1 .. N : h[n] = step[n][h[n - 1]]
  <2>1. Steps(step, N, Chunking)
    BY <1>4 DEF Steps
  <2>2. PICK h \in [0 .. N -> Chunking] : Follows(h, a, step, N)
    BY <2>1, RecursionExists
  <2>. QED
    BY <2>2 DEF Follows
<1>6. ASSUME NEW n \in 0 .. N
      PROVE  h[n] = IF n = 0 THEN [chunks |-> << >>, remaining |-> text] ELSE TakeChunk(h[n - 1])
  <2>1. CASE n = 0
    BY <1>2, <1>5, <2>1
  <2>2. CASE n # 0
    <3>1. n \in 1 .. N /\ h[n - 1] \in Chunking
      BY <1>5, <1>6, <2>2
    <3>. QED
      BY <1>4, <1>5, <2>2, <3>1
  <2>. QED
    BY <2>1, <2>2
<1>7. h = [n \in 0 .. N |-> h[n]]
  BY <1>5
<1>. QED
  BY <1>1, <1>6, <1>7 DEF Cuts

\* After n rounds the chunks fit and make up the text with what is left of it, which is
\* shorter by n at least.
SoFar(text, n, acc) ==
    /\ acc \in Chunking
    /\ FlattenSeq(acc.chunks) \o acc.remaining = text
    /\ acc.remaining = << >> \/ Len(acc.remaining) + n <= Len(text)
    /\ \A i \in 1 .. Len(acc.chunks) :
          Fits(acc.chunks[i], i = Len(acc.chunks) /\ acc.remaining = << >>)

LEMMA TextsAssociate ==
  ASSUME NEW a \in Seq(Int), NEW b \in Seq(Int), NEW c \in Seq(Int)
  PROVE  (a \o b) \o c = a \o (b \o c)
  BY ConcatAssociative, SMTT(30)

LEMMA RoundKeeps ==
  ASSUME NEW text \in Seq(Int), NEW n \in Nat, NEW acc, SoFar(text, n, acc)
  PROVE  SoFar(text, n + 1, TakeChunk(acc))
<1>1. CASE acc.remaining = << >>
  BY <1>1 DEF SoFar, TakeChunk
<1>2. CASE acc.remaining # << >>
  <2>1. PICK take, left \in Seq(Int) :
            /\ TakeChunk(acc) = [chunks |-> Append(acc.chunks, take), remaining |-> left]
            /\ take \o left = acc.remaining /\ Len(left) < Len(acc.remaining)
            /\ Fits(take, left = << >>)
    BY <1>2, TakeChunkIs DEF SoFar
  <2>2. PICK chunks \in Seq(Seq(Int)) : chunks = acc.chunks
    BY DEF SoFar, Chunking
  <2>3. PICK more \in Seq(Seq(Int)) : more = Append(chunks, take)
    <3>1. Append(chunks, take) \in Seq(Seq(Int))
      BY AppendProperties
    <3>. QED
      BY <3>1
  <2>4. PICK next \in Chunking : next = [chunks |-> more, remaining |-> left]
    <3>1. [chunks |-> more, remaining |-> left] \in Chunking
      BY DEF Chunking
    <3>. QED
      BY <3>1
  <2>5. next.chunks = more /\ next.remaining = left /\ next = TakeChunk(acc)
    BY <2>1, <2>2, <2>3, <2>4
  <2>6. FlattenSeq(more) \o left = text
    <3>1. PICK b \in Seq(Int) : b = FlattenSeq(chunks)
      BY FlattenType
    <3>2. FlattenSeq(more) = b \o take
      BY <2>3, <3>1, FlattenAppend
    <3>3. (b \o take) \o left = b \o (take \o left)
      BY TextsAssociate
    <3>. QED
      BY <2>1, <2>2, <3>1, <3>2, <3>3 DEF SoFar
  <2>7. Len(left) + (n + 1) <= Len(text)
    <3>1. Len(acc.remaining) + n <= Len(text)
      BY <1>2 DEF SoFar
    <3>2. Len(acc.remaining) \in Nat /\ Len(left) \in Nat /\ Len(text) \in Nat
      BY DEF SoFar, Chunking
    <3>. QED
      BY <2>1, <3>1, <3>2
  <2>8. \A i \in 1 .. Len(more) : Fits(more[i], i = Len(more) /\ left = << >>)
    <3>1. SUFFICES ASSUME NEW i \in 1 .. Len(more)
                   PROVE  Fits(more[i], i = Len(more) /\ left = << >>)
      OBVIOUS
    <3>2. Len(more) = Len(chunks) + 1 /\ Len(chunks) \in Nat
      BY <2>3, AppendProperties
    <3>3. CASE i = Len(more)
      <4>1. more[i] = take
        BY <2>3, <3>2, <3>3, AppendProperties
      <4>. QED
        BY <2>1, <3>3, <4>1
    <3>4. CASE i # Len(more)
      <4>1. i \in 1 .. Len(chunks) /\ more[i] = chunks[i]
        BY <2>3, <3>1, <3>2, <3>4, AppendProperties
      <4>2. Fits(chunks[i], FALSE)
        BY <1>2, <2>2, <4>1 DEF SoFar, Fits
      <4>. QED
        BY <4>1, <4>2 DEF Fits
    <3>. QED
      BY <3>3, <3>4
  <2>. QED
    BY <2>5, <2>6, <2>7, <2>8 DEF SoFar
<1>. QED
  BY <1>1, <1>2

\* The chunks of a text fit, and put together they are the text (chunk_text).
LEMMA ChunksOf ==
  ASSUME NEW text \in Seq(Int)
  PROVE  /\ ChunkText(text) \in Seq(Seq(Int))
         /\ Len(ChunkText(text)) \in Nat \ {0}
         /\ FlattenSeq(ChunkText(text)) = text
         /\ ChunksFit(text, ChunkText(text))
<1>0. Limit \in Nat /\ Len(text) \in Nat
  BY LimitAssumption
<1>1. CASE Len(text) <= Limit
  <2>1. ChunkText(text) = <<text>>
    BY <1>1 DEF ChunkText
  <2>2. FlattenSeq(<<text>>) = text
    <3>1. << >> \in Seq(Seq(Int)) /\ Append(<< >>, text) = <<text>> /\ FlattenSeq(<< >>) = << >>
      BY DEF FlattenSeq
    <3>2. FlattenSeq(Append(<< >>, text)) = FlattenSeq(<< >>) \o text
      BY <3>1, FlattenAppend
    <3>. QED
      BY <3>1, <3>2, ConcatEmptySeq
  <2>3. ChunksFit(text, <<text>>)
    BY <1>1 DEF ChunksFit
  <2>. QED
    BY <2>1, <2>2, <2>3
<1>2. CASE Len(text) > Limit
  <2>1. PICK g : Cuts(text, g) /\ ChunkText(text) = g[Len(text)].chunks
    <3>1. PICK g : g = CHOOSE e : Cuts(text, e)
      OBVIOUS
    <3>2. Cuts(text, g)
      BY <3>1, CutsExist
    <3>3. ~(Len(text) <= Limit)
      BY <1>0, <1>2
    <3>4. ChunkText(text) = g[Len(text)].chunks
      BY <3>1, <3>3 DEF ChunkText, Cuts
    <3>. QED
      BY <3>2, <3>4
  <2>2. g[0] = [chunks |-> << >>, remaining |-> text]
    BY <1>0, <2>1 DEF Cuts
  <2>3. ASSUME NEW n \in 1 .. Len(text) PROVE g[n] = TakeChunk(g[n - 1])
    <3>1. n \in 0 .. Len(text) /\ n # 0
      BY <1>0
    <3>. QED
      BY <2>1, <3>1 DEF Cuts
  <2>4. SoFar(text, 0, g[0])
    <3>1. << >> \in Seq(Seq(Int)) /\ FlattenSeq(<< >>) = << >> /\ Len(<< >>) = 0
      BY DEF FlattenSeq
    <3>2. << >> \o text = text
      BY ConcatEmptySeq
    <3>. QED
      BY <1>0, <2>2, <3>1, <3>2 DEF SoFar, Chunking
  <2>5. \A n \in 0 .. Len(text) : SoFar(text, n, g[n])
    <3> DEFINE Bad == {n \in 0 .. Len(text) : ~SoFar(text, n, g[n])}
    <3>1. SUFFICES ASSUME Bad # {} PROVE FALSE
      OBVIOUS
    <3>2. Bad \subseteq Nat
      OBVIOUS
    <3>3. PICK n \in Bad : \A k \in Bad : n <= k
      <4>. HIDE DEF Bad
      <4>. QED
        BY <3>1, <3>2, Least
    <3>4. n # 0 /\ n \in 0 .. Len(text)
      BY <2>4, <3>3
    <3>5. n - 1 \in 0 .. Len(text) /\ ~(n <= n - 1) /\ n \in 1 .. Len(text) /\ n - 1 \in Nat
          /\ (n - 1) + 1 = n
      BY <1>0, <3>4
    <3>6. SoFar(text, n - 1, g[n - 1])
      BY <3>3, <3>5
    <3>7. SoFar(text, n, g[n])
      BY <2>3, <3>5, <3>6, RoundKeeps
    <3>. QED
      BY <3>3, <3>7
  <2>6. PICK acc \in Chunking : acc = g[Len(text)] /\ SoFar(text, Len(text), acc)
    <3>1. Len(text) \in 0 .. Len(text)
      BY <1>0
    <3>2. SoFar(text, Len(text), g[Len(text)])
      BY <2>5, <3>1
    <3>. QED
      BY <3>2 DEF SoFar
  <2>7. PICK chunks \in Seq(Seq(Int)) : chunks = acc.chunks /\ chunks = ChunkText(text)
    BY <2>1, <2>6 DEF Chunking
  <2>8. acc.remaining = << >>
    <3>1. acc.remaining \in Seq(Int)
      BY DEF Chunking
    <3>. QED
      BY <1>0, <2>6, <3>1 DEF SoFar
  <2>9. FlattenSeq(chunks) = text
    <3>1. FlattenSeq(chunks) \in Seq(Int)
      BY FlattenType
    <3>2. FlattenSeq(chunks) \o << >> = FlattenSeq(chunks)
      BY <3>1, ConcatEmptySeq
    <3>. QED
      BY <2>6, <2>7, <2>8, <3>2 DEF SoFar
  <2>10. Len(chunks) \in Nat \ {0}
    <3>1. Len(chunks) = 0 => FlattenSeq(chunks) = << >>
      BY DEF FlattenSeq
    <3>2. text # << >>
      BY <1>0, <1>2
    <3>. QED
      BY <2>9, <3>1, <3>2
  <2>11. ChunksFit(text, chunks)
    <3>1. DOMAIN chunks = 1 .. Len(chunks)
      OBVIOUS
    <3>2. \A i \in 1 .. Len(chunks) : Fits(chunks[i], i = Len(chunks))
      BY <2>6, <2>7, <2>8 DEF SoFar
    <3>3. SUFFICES ASSUME NEW i \in 1 .. Len(chunks)
                   PROVE  /\ Len(chunks[i]) <= Limit
                          /\ text # << >> => chunks[i] # << >>
                          /\ \/ i = Len(chunks)
                             \/ Last(chunks[i]) = LineBreak
                             \/ Len(chunks[i]) = Limit /\ LineBreak \notin ToSet(chunks[i])
      BY <3>1, Zenon DEF ChunksFit
    <3>4. Fits(chunks[i], i = Len(chunks))
      BY <3>2
    <3>. QED
      BY <3>4, Zenon DEF Fits
  <2>. QED
    BY <2>7, <2>9, <2>10, <2>11
<1>. QED
  BY <1>0, <1>1, <1>2

--------------------------------------------------------------------------------
\* Jobs, and the sequences they carry.

\* The idle job is a job.
LEMMA NoJobType == NoJob \in Job
  BY DEF NoJob, Job

\* Taking the head off a list of messages, and adding one at its end.
LEMMA TailOf ==
  ASSUME NEW q \in Seq(Messages), q # << >>
  PROVE  /\ Head(q) \in Messages /\ Head(q) = q[1] /\ 1 \in DOMAIN q
         /\ Tail(q) \in Seq(Messages)
         /\ \A i \in DOMAIN Tail(q) : i + 1 \in DOMAIN q /\ Tail(q)[i] = q[i + 1]
  BY HeadTailProperties, LenProperties

LEMMA AppendTo ==
  ASSUME NEW q \in Seq(Messages), NEW m \in Messages
  PROVE  /\ Append(q, m) \in Seq(Messages)
         /\ \A i \in DOMAIN Append(q, m) :
               \/ i \in DOMAIN q /\ Append(q, m)[i] = q[i]
               \/ i = Len(q) + 1 /\ Append(q, m)[i] = m
         /\ \A i \in DOMAIN q : i # Len(q) + 1
  BY AppendProperties, LenProperties

\* A request that works on a message has one in its hands.
Busy == {"run", "answer", "send", "mark"}

Sound(j) ==
    /\ j.pc = "idle" => j.claimed = << >>
    /\ j.pc = "claim" => j.post \in Posts
    /\ j.pc \in Busy => j.claimed # << >>
    /\ j.pc = "mark" => j.outcome \in Terminal

RepliesCut == \A m \in Messages : Len(replies[m].chunks) \in Nat \ {0}

Typed ==
    /\ TypeOK
    /\ inbox \in [Messages -> Seq(Nat)]
    /\ RepliesCut
    /\ \A r \in Requests : Sound(job[r])

\* The step gives request r another job.
Rewrites(r) == \E j \in Job : Sound(j) /\ job' = [job EXCEPT ![r] = j]

\* Rewriting one job soundly keeps every job typed and sound.
LEMMA RewriteTyped ==
  ASSUME Typed, NEW r \in Requests, Rewrites(r)
  PROVE  job' \in [Requests -> Job] /\ \A s \in Requests : Sound(job[s])'
  BY DEF Typed, TypeOK, Rewrites

\* After its claims, and after each mark, a request runs the next message or is done.
LEMMA ContinueJob ==
  ASSUME Typed, NEW r \in Requests, NEW left \in Seq(Messages), Continue(r, left)
  PROVE  /\ Rewrites(r)
         /\ job'[r].claimed = left
         /\ job'[r].pc = IF left = << >> THEN "idle" ELSE "run"
         /\ \A s \in Requests : s # r => job'[s] = job[s]
<1> DEFINE j == IF left = << >> THEN NoJob
                ELSE [job[r] EXCEPT !.pc = "run", !.claimed = left, !.part = 0, !.outcome = "none"]
<1>1. job[r] \in Job
  BY DEF Typed, TypeOK
<1>2. j \in Job
  BY <1>1, NoJobType DEF Job
<1>3. j.claimed = left /\ j.pc = IF left = << >> THEN "idle" ELSE "run"
  BY <1>1 DEF Job, NoJob
<1>4. Sound(j)
  BY <1>3 DEF Sound, Busy
<1>5. job' = [job EXCEPT ![r] = j]
  BY DEF Continue
<1>. HIDE DEF j
<1>6. job'[r] = j /\ \A s \in Requests : s # r => job'[s] = job[s]
  BY <1>5 DEF Typed, TypeOK
<1>. QED
  BY <1>2, <1>3, <1>4, <1>5, <1>6 DEF Rewrites

--------------------------------------------------------------------------------
\* The inductive invariant.

\* Nothing was done about a message yet.
Untouched(m) == runs[m] = 0 /\ parts[m] = 0 /\ inbox[m] = << >>

\* The messages a request has claimed read "received", and all but the one it works on
\* are untouched.
Holds(r) ==
    \A i \in DOMAIN job[r].claimed :
        /\ ledger[job[r].claimed[i]] = "received"
        /\ i # 1 \/ job[r].pc \in {"claim", "run"} => Untouched(job[r].claimed[i])

\* How far the request got with that one: the chunk to send next is the first the
\* customer does not have, and all of them arrived before it is marked processed.
InHand(r) ==
    LET j == job[r]
        m == job[r].claimed[1]
    IN  /\ j.pc = "answer" => runs[m] = 1 /\ parts[m] = 0 /\ inbox[m] = << >>
        /\ j.pc = "send" =>
              runs[m] = 1 /\ j.part = Len(inbox[m]) + 1 /\ j.part <= parts[m]
        /\ j.pc = "mark" =>
              /\ runs[m] = 1
              /\ j.outcome = "processed" => parts[m] > 0 /\ Len(inbox[m]) = parts[m]

\* No message is claimed twice, by one request or by two.
Alone(r) ==
    \A i, j \in DOMAIN job[r].claimed : job[r].claimed[i] = job[r].claimed[j] => i = j
Apart(r, s) ==
    \A i \in DOMAIN job[r].claimed, j \in DOMAIN job[s].claimed :
        job[r].claimed[i] # job[s].claimed[j]

Own(r) == Holds(r) /\ InHand(r) /\ Alone(r)

\* A message without a row is untouched, and none is run twice.
Accounted(m) == runs[m] \in {0, 1} /\ (ledger[m] = "absent" => Untouched(m))

IInv ==
    /\ Typed
    /\ \A r \in Requests : Own(r)
    /\ \A r, s \in Requests : r # s => Apart(r, s)
    /\ \A m \in Messages : Accounted(m)

\* Only m is touched, and nobody but r has m in its hands.
OnlyTouches(r, m) ==
    /\ \A n \in Messages \ {m} :
          /\ ledger'[n] = ledger[n] /\ runs'[n] = runs[n]
          /\ parts'[n] = parts[n] /\ inbox'[n] = inbox[n]
    /\ \A s \in Requests \ {r} : \A j \in DOMAIN job[s].claimed : job[s].claimed[j] # m

\* What a request knows survives the steps of others.
LEMMA OthersKeep ==
  ASSUME IInv, NEW r \in Requests, NEW m, OnlyTouches(r, m),
         NEW s \in Requests, s # r, job'[s] = job[s]
  PROVE  Own(s)'
<1>1. job[s] \in Job /\ Sound(job[s]) /\ Own(s)
  BY DEF IInv, Typed, TypeOK
<1>2. \A i \in DOMAIN job[s].claimed :
         job[s].claimed[i] \in Messages /\ job[s].claimed[i] # m
  BY <1>1, ElementOfSeq, LenProperties DEF Job, OnlyTouches
<1>3. job[s].pc \in Busy => 1 \in DOMAIN job[s].claimed
  BY <1>1, TailOf DEF Sound, Job
<1>4. Holds(s)'
  BY <1>1, <1>2 DEF Own, Holds, OnlyTouches, Untouched
<1>5. InHand(s)'
  BY <1>1, <1>2, <1>3 DEF Own, InHand, OnlyTouches, Busy
<1>6. Alone(s)'
  BY <1>1 DEF Own, Alone
<1>. QED
  BY <1>4, <1>5, <1>6 DEF Own

\* A step of one request about one message keeps the invariant, when it leaves the request
\* informed and hands it no message but its own and that one.
LEMMA StepKeeps ==
  ASSUME IInv, NEW r \in Requests, NEW m, OnlyTouches(r, m), Rewrites(r),
         TypeOK', inbox' \in [Messages -> Seq(Nat)], UNCHANGED replies,
         Own(r)', m \in Messages => Accounted(m)',
         \A i \in DOMAIN job'[r].claimed :
            \/ job'[r].claimed[i] = m
            \/ \E j \in DOMAIN job[r].claimed : job'[r].claimed[i] = job[r].claimed[j]
  PROVE  IInv'
<1>1. \A s \in Requests : s # r => job'[s] = job[s]
  BY DEF IInv, Typed, TypeOK, Rewrites
<1>2. Typed'
  BY RewriteTyped DEF IInv, Typed, RepliesCut
<1>3. \A s \in Requests : Own(s)'
  BY <1>1, OthersKeep
<1>4. \A s \in Requests : s # r => Apart(r, s)' /\ Apart(s, r)'
  <2>1. SUFFICES ASSUME NEW s \in Requests, s # r PROVE Apart(r, s)'
    BY DEF Apart
  <2>2. SUFFICES ASSUME NEW i \in DOMAIN job'[r].claimed, NEW j \in DOMAIN job'[s].claimed
                 PROVE  job'[r].claimed[i] # job'[s].claimed[j]
    BY DEF Apart
  <2>3. job'[s] = job[s] /\ Apart(r, s) /\ s \in Requests \ {r}
    BY <2>1, <1>1 DEF IInv
  <2>. QED
    BY <2>3 DEF Apart, OnlyTouches
<1>5. \A s, t \in Requests : s # t => Apart(s, t)'
  <2>1. SUFFICES ASSUME NEW s \in Requests, NEW t \in Requests, s # t, s # r, t # r
                 PROVE  Apart(s, t)'
    BY <1>4
  <2>. QED
    BY <2>1, <1>1 DEF IInv, Apart
<1>6. \A n \in Messages : Accounted(n)'
  BY DEF IInv, Accounted, OnlyTouches, Untouched
<1>. QED
  BY <1>2, <1>3, <1>5, <1>6 DEF IInv

\* A step that touches no message at all.
LEMMA QuietKeeps ==
  ASSUME IInv, NEW r \in Requests, Rewrites(r), Own(r)', acked' \subseteq Posts,
         UNCHANGED <<ledger, runs, parts, inbox, config, replies>>, dropped' \subseteq Messages,
         \A i \in DOMAIN job'[r].claimed :
            \E j \in DOMAIN job[r].claimed : job'[r].claimed[i] = job[r].claimed[j]
  PROVE  IInv'
<1>1. PICK m : m \notin Messages
  BY NoSetContainsEverything
<1>2. \A s \in Requests : \A j \in DOMAIN job[s].claimed : job[s].claimed[j] \in Messages
  BY ElementOfSeq, LenProperties DEF IInv, Typed, TypeOK, Job
<1>3. OnlyTouches(r, m)
  BY <1>1, <1>2 DEF OnlyTouches
<1>4. TypeOK' /\ inbox' \in [Messages -> Seq(Nat)]
  BY RewriteTyped DEF IInv, Typed, TypeOK
<1>. QED
  BY <1>1, <1>3, <1>4, StepKeeps

\* A request that is done, died, or was refused by the store holds nothing.
LEMMA IdleOwns ==
  ASSUME Typed, NEW r \in Requests, job' = [job EXCEPT ![r] = NoJob]
  PROVE  Rewrites(r) /\ Own(r)' /\ DOMAIN job'[r].claimed = {}
<1>1. job'[r] = NoJob /\ Sound(NoJob) /\ NoJob.claimed = << >> /\ NoJob.pc = "idle"
  BY DEF Typed, TypeOK, NoJob, Sound, Busy
<1>2. DOMAIN << >> = {}
  OBVIOUS
<1>. QED
  BY <1>1, <1>2, NoJobType DEF Rewrites, Own, Holds, InHand, Alone

\* Meta's post is admitted, with none of its messages claimed yet.
LEMMA DeliverKeeps ==
  ASSUME IInv, NEW r \in Requests, NEW post \in Posts, Deliver(r, post)
  PROVE  IInv'
<1> DEFINE j == [NoJob EXCEPT !.pc = "claim", !.post = post, !.todo = Extract[post]]
<1>1. Extract[post] \in Seq(Messages)
  BY ContentAssumption
<1>2. j \in Job /\ j.claimed = << >> /\ j.pc = "claim" /\ j.post = post
  <2>1. NoJob.claimed = << >>
    BY DEF NoJob
  <2>. QED
    BY <1>1, <2>1, NoJobType DEF Job
<1>3. Rewrites(r) /\ job'[r] = j
  BY <1>2 DEF Deliver, Rewrites, Sound, Busy, IInv, Typed, TypeOK
<1>4. Own(r)' /\ job'[r].claimed = << >>
  BY <1>2, <1>3 DEF Own, Holds, InHand, Alone
<1>5. /\ UNCHANGED <<ledger, runs, parts, inbox, config, replies>>
      /\ acked' \subseteq Posts /\ dropped' \subseteq Messages
  BY DEF Deliver, world, IInv, Typed, TypeOK
<1>6. DOMAIN job'[r].claimed = {}
  BY <1>4
<1>. HIDE DEF j
<1>. QED
  BY <1>3, <1>4, <1>5, <1>6, QuietKeeps

\* A new message is claimed, or a duplicate is skipped.
LEMMA ClaimKeeps ==
  ASSUME IInv, NEW r \in Requests, Claim(r)
  PROVE  IInv'
<1>1. job[r] \in Job /\ Sound(job[r]) /\ Own(r) /\ job[r].pc = "claim" /\ job[r].todo # << >>
  BY DEF IInv, Typed, TypeOK, Claim
<1>0. PICK m \in Messages : m = Head(job[r].todo)
  BY <1>1, TailOf DEF Job
<1>2. Tail(job[r].todo) \in Seq(Messages) /\ job[r].claimed \in Seq(Messages)
  BY <1>1, TailOf DEF Job
<1>3. CASE ~IsNew(m)
  <2> DEFINE j == [job[r] EXCEPT !.todo = Tail(@)]
  <2>1. j \in Job /\ j.claimed = job[r].claimed /\ j.pc = "claim" /\ j.post = job[r].post
    BY <1>1, <1>2 DEF Job
  <2>2. Rewrites(r) /\ job'[r] = j
    BY <1>0, <1>1, <1>3, <2>1 DEF Claim, Rewrites, Sound, Busy, IInv, Typed, TypeOK
  <2>3. Own(r)'
    BY <1>0, <1>1, <1>3, <2>1, <2>2 DEF Own, Holds, InHand, Alone, Claim, Untouched
  <2>. QED
    BY <1>0, <1>3, <2>1, <2>2, <2>3, QuietKeeps DEF Claim, world, IInv, Typed, TypeOK
<1>4. CASE IsNew(m)
  <2> DEFINE c == Append(job[r].claimed, m)
             j == [job[r] EXCEPT !.todo = Tail(@), !.claimed = c]
  <2>0. c \in Seq(Messages)
    BY <1>2, AppendTo
  <2>1. j \in Job /\ j.claimed = c /\ j.pc = "claim" /\ j.post = job[r].post
    BY <1>1, <1>2, <2>0 DEF Job
  <2>2. Rewrites(r) /\ job'[r] = j
    BY <1>0, <1>1, <1>4, <2>1 DEF Claim, WithClaimed, Rewrites, Sound, Busy, IInv, Typed, TypeOK
  <2>3. /\ ledger' = [ledger EXCEPT ![m] = "received"]
        /\ UNCHANGED <<runs, parts, inbox, acked, config, replies, dropped>>
    BY <1>0, <1>4 DEF Claim, world
  <2>4. \A s \in Requests : \A i \in DOMAIN job[s].claimed : job[s].claimed[i] # m
    BY <1>4 DEF IInv, Own, Holds, IsNew
  <2>5. ledger'[m] = "received" /\ \A n \in Messages \ {m} : ledger'[n] = ledger[n]
    BY <1>2, <2>3 DEF IInv, Typed, TypeOK
  <2>6. OnlyTouches(r, m)
    BY <2>3, <2>4, <2>5 DEF OnlyTouches
  <2>7. Untouched(m) /\ Accounted(m)'
    <3>1. Accounted(m) /\ ledger[m] = "absent"
      BY <1>2, <1>4 DEF IInv, IsNew
    <3>. QED
      BY <3>1, <2>3, <2>5 DEF Accounted, Untouched
  <2>8. \A i \in DOMAIN c :
          \/ i \in DOMAIN job[r].claimed /\ c[i] = job[r].claimed[i] /\ c[i] \in Messages \ {m}
          \/ i = Len(job[r].claimed) + 1 /\ c[i] = m
    BY <1>2, <2>4, AppendTo, ElementOfSeq, LenProperties
  <2>9. Holds(r)' /\ InHand(r)'
    BY <1>1, <2>1, <2>2, <2>3, <2>5, <2>7, <2>8 DEF Own, Holds, InHand, Untouched
  <2>10. Alone(r)'
    BY <1>1, <2>1, <2>2, <2>8 DEF Own, Alone
  <2>11. TypeOK' /\ inbox' \in [Messages -> Seq(Nat)]
    BY <2>2, <2>3, RewriteTyped DEF IInv, Typed, TypeOK, Statuses
  <2>12. \A i \in DOMAIN job'[r].claimed :
           \/ job'[r].claimed[i] = m
           \/ \E k \in DOMAIN job[r].claimed : job'[r].claimed[i] = job[r].claimed[k]
    <3>1. job'[r].claimed = c
      BY <2>1, <2>2
    <3>. QED
      BY <3>1, <2>8
  <2>. QED
    BY <2>2, <2>3, <2>6, <2>7, <2>9, <2>10, <2>11, <2>12, StepKeeps DEF Own
<1>. QED
  BY <1>3, <1>4

\* A claim that fails leaves nothing behind, or a row nobody works on.
LEMMA ClaimFailsKeeps ==
  ASSUME IInv, NEW r \in Requests, ClaimFails(r)
  PROVE  IInv'
<1>1. job[r] \in Job /\ job[r].todo # << >>
  BY DEF IInv, Typed, TypeOK, ClaimFails
<1>2. Rewrites(r) /\ Own(r)' /\ DOMAIN job'[r].claimed = {}
  <2>1. job' = [job EXCEPT ![r] = NoJob]
    BY DEF ClaimFails
  <2>. QED
    BY <2>1, IdleOwns DEF IInv
<1>3. PICK m \in Messages : m = Head(job[r].todo)
  BY <1>1, TailOf DEF Job
<1>4. CASE UNCHANGED ledger
  BY <1>2, <1>4, QuietKeeps DEF ClaimFails, world, IInv, Typed, TypeOK
<1>5. CASE IsNew(m) /\ ledger' = [ledger EXCEPT ![m] = "received"]
  <2>1. UNCHANGED <<runs, parts, inbox, acked, config, replies, dropped>>
    BY DEF ClaimFails, world
  <2>2. \A s \in Requests : \A i \in DOMAIN job[s].claimed : job[s].claimed[i] # m
    BY <1>5 DEF IInv, Own, Holds, IsNew
  <2>3. ledger'[m] = "received" /\ \A n \in Messages \ {m} : ledger'[n] = ledger[n]
    BY <1>5 DEF IInv, Typed, TypeOK
  <2>4. OnlyTouches(r, m)
    BY <2>1, <2>2, <2>3 DEF OnlyTouches
  <2>5. Accounted(m)'
    <3>1. Accounted(m)
      BY DEF IInv
    <3>. QED
      BY <3>1, <2>1, <2>3 DEF Accounted
  <2>6. TypeOK' /\ inbox' \in [Messages -> Seq(Nat)]
    BY <1>2, <1>5, <2>1, RewriteTyped DEF IInv, Typed, TypeOK, Statuses
  <2>. QED
    BY <1>2, <2>1, <2>4, <2>5, <2>6, StepKeeps
<1>. QED
  BY <1>3, <1>4, <1>5 DEF ClaimFails

\* The messages claimed go to the background tasks.
LEMMA AcknowledgeKeeps ==
  ASSUME IInv, NEW r \in Requests, Acknowledge(r)
  PROVE  IInv'
<1>1. /\ job[r] \in Job /\ Own(r) /\ job[r].pc = "claim" /\ Continue(r, job[r].claimed)
      /\ job[r].post \in Posts /\ job[r].claimed \in Seq(Messages)
  BY DEF IInv, Typed, TypeOK, Sound, Acknowledge, Job
<1>2. /\ Rewrites(r) /\ job'[r].claimed = job[r].claimed
      /\ job'[r].pc \in {"idle", "run"}
  BY <1>1, ContinueJob DEF IInv
<1>3. /\ UNCHANGED <<ledger, runs, parts, inbox, config, replies, dropped>>
      /\ acked' \subseteq Posts
  BY <1>1 DEF Acknowledge, world, IInv, Typed, TypeOK
<1>4. Own(r)'
  BY <1>1, <1>2, <1>3 DEF Own, Holds, InHand, Alone, Untouched
<1>. QED
  BY <1>2, <1>3, <1>4, QuietKeeps DEF IInv, Typed, TypeOK

\* A background task has its message to itself.
LEMMA Working ==
  ASSUME IInv, NEW r \in Requests, job[r].pc \in Busy
  PROVE  /\ job[r] \in Job /\ Own(r) /\ job[r].claimed \in Seq(Messages)
         /\ job[r].claimed # << >> /\ 1 \in DOMAIN job[r].claimed
         /\ Current(r) \in Messages /\ Current(r) = job[r].claimed[1]
         /\ ledger[Current(r)] = "received"
         /\ \A i \in DOMAIN job[r].claimed : i # 1 => job[r].claimed[i] # Current(r)
         /\ \A s \in Requests \ {r} : \A j \in DOMAIN job[s].claimed :
               job[s].claimed[j] # Current(r)
         /\ \A i \in DOMAIN job[r].claimed : job[r].claimed[i] \in Messages
<1>1. job[r] \in Job /\ Own(r) /\ job[r].claimed # << >> /\ job[r].claimed \in Seq(Messages)
  BY DEF IInv, Typed, TypeOK, Sound, Job
<1>2. /\ 1 \in DOMAIN job[r].claimed /\ Current(r) = job[r].claimed[1]
      /\ Current(r) \in Messages
  BY <1>1, TailOf DEF Current
<1>3. \A i \in DOMAIN job[r].claimed : i # 1 => job[r].claimed[i] # Current(r)
  BY <1>1, <1>2 DEF Own, Alone
<1>4. \A s \in Requests \ {r} : Apart(s, r)
  BY DEF IInv
<1>5. \A i \in DOMAIN job[r].claimed : job[r].claimed[i] \in Messages
  BY <1>1, ElementOfSeq, LenProperties
<1>. QED
  BY <1>1, <1>2, <1>3, <1>4, <1>5 DEF Apart, Own, Holds

\* A step of a background task about its message.
LEMMA WorkKeeps ==
  ASSUME IInv, NEW r \in Requests, NEW m \in Messages, job[r].pc \in Busy, m = Current(r),
         NEW j \in Job, job' = [job EXCEPT ![r] = j], j.claimed = job[r].claimed,
         j.pc \in Busy \ {"run"}, j.pc = "mark" => j.outcome \in Terminal,
         UNCHANGED <<ledger, acked, config, replies, dropped>>,
         runs' \in [Messages -> Nat], parts' \in [Messages -> Nat],
         inbox' \in [Messages -> Seq(Nat)], inbox'[m] \in Seq(1 .. parts'[m]),
         \A n \in Messages \ {m} :
            runs'[n] = runs[n] /\ parts'[n] = parts[n] /\ inbox'[n] = inbox[n],
         runs'[m] = 1,
         InHand(r)'
  PROVE  IInv'
<1>1. job'[r] = j /\ Rewrites(r)
  <2>1. Sound(j)
    BY Working DEF Sound, Busy
  <2>. QED
    BY <2>1 DEF Rewrites, IInv, Typed, TypeOK
<1>2. OnlyTouches(r, m)
  BY Working DEF OnlyTouches
<1>3. Own(r)'
  <2>1. Own(r) /\ \A i \in DOMAIN job[r].claimed :
           job[r].claimed[i] \in Messages /\ (i # 1 => job[r].claimed[i] # m)
    BY Working
  <2>2. job'[r].claimed = job[r].claimed /\ job'[r].pc \notin {"claim", "run"}
    BY <1>1 DEF Busy
  <2>3. Holds(r)'
    <3>1. \A i \in DOMAIN job[r].claimed : i # 1 => Untouched(job[r].claimed[i])
      BY <2>1 DEF Own, Holds
    <3>2. \A n \in Messages \ {m} : Untouched(n) => Untouched(n)'
      BY DEF Untouched
    <3>3. \A i \in DOMAIN job[r].claimed : ledger'[job[r].claimed[i]] = "received"
      BY <2>1 DEF Own, Holds
    <3>. QED
      BY <2>1, <2>2, <3>1, <3>2, <3>3 DEF Holds
  <2>4. Alone(r)'
    BY <2>1, <2>2 DEF Own, Alone
  <2>. QED
    BY <2>3, <2>4 DEF Own
<1>4. Accounted(m)'
  BY Working DEF Accounted
<1>5. TypeOK'
  BY <1>1, RewriteTyped DEF IInv, Typed, TypeOK
<1>. QED
  BY <1>1, <1>2, <1>3, <1>4, <1>5, StepKeeps

\* The agent is started for a message nothing was done about yet.
LEMMA StartRunKeeps ==
  ASSUME IInv, NEW r \in Requests, StartRun(r)
  PROVE  IInv'
<1>1. job[r].pc \in Busy /\ job[r].pc = "run"
  BY DEF StartRun, Busy
<1>2. PICK m \in Messages : m = Current(r)
  BY <1>1, Working
<1>3. job[r] \in Job /\ Untouched(m)
  BY <1>1, <1>2, Working DEF Own, Holds
<1> DEFINE j == [job[r] EXCEPT !.pc = "answer"]
<1>4. j \in Job /\ j.claimed = job[r].claimed /\ j.pc = "answer"
  BY <1>3 DEF Job
<1>5. /\ job' = [job EXCEPT ![r] = j]
      /\ runs' = [runs EXCEPT ![m] = @ + 1]
      /\ UNCHANGED <<ledger, parts, inbox, acked, config, replies, dropped>>
  BY <1>2 DEF StartRun, world
<1>6. /\ runs' \in [Messages -> Nat] /\ runs'[m] = 1
      /\ \A n \in Messages \ {m} : runs'[n] = runs[n]
  BY <1>3, <1>5 DEF IInv, Typed, TypeOK, Untouched
<1>7. InHand(r)'
  <2>1. job'[r] = j /\ job[r].claimed[1] = m
    BY <1>1, <1>2, <1>5, Working DEF IInv, Typed, TypeOK
  <2>. HIDE DEF j
  <2>. QED
    BY <1>3, <1>4, <1>5, <1>6, <2>1 DEF InHand, Untouched
<1>8. /\ parts \in [Messages -> Nat] /\ inbox \in [Messages -> Seq(Nat)]
      /\ inbox[m] \in Seq(1 .. parts[m])
  BY DEF IInv, Typed, TypeOK
<1>. QED
  BY <1>1, <1>2, <1>4, <1>5, <1>6, <1>7, <1>8, WorkKeeps DEF Busy

\* The agent answers, in one chunk at least, or raises.
LEMMA FinishRunKeeps ==
  ASSUME IInv, NEW r \in Requests, FinishRun(r)
  PROVE  IInv'
<1>1. job[r].pc \in Busy /\ job[r].pc = "answer"
  BY DEF FinishRun, Busy
<1>2. PICK m \in Messages : m = Current(r)
  BY <1>1, Working
<1>3. /\ job[r] \in Job /\ job[r].claimed[1] = m
      /\ runs[m] = 1 /\ parts[m] = 0 /\ inbox[m] = << >>
  BY <1>1, <1>2, Working DEF Own, InHand
<1>4. /\ UNCHANGED <<ledger, runs, inbox, acked, config, replies, dropped>>
      /\ runs \in [Messages -> Nat] /\ inbox \in [Messages -> Seq(Nat)]
      /\ parts \in [Messages -> Nat] /\ job \in [Requests -> Job]
      /\ Len(replies[m].chunks) \in Nat \ {0}
  BY DEF FinishRun, world, IInv, Typed, TypeOK, RepliesCut
<1>5. CASE /\ parts' = [parts EXCEPT ![m] = Len(replies[m].chunks)]
           /\ job' = [job EXCEPT ![r].pc = "send", ![r].part = 1]
  <2> DEFINE j == [job[r] EXCEPT !.pc = "send", !.part = 1]
  <2>1. j \in Job /\ j.claimed = job[r].claimed /\ j.pc = "send" /\ j.part = 1
    BY <1>3 DEF Job
  <2>2. job' = [job EXCEPT ![r] = j] /\ job'[r] = j
    BY <1>4, <1>5
  <2>3. /\ parts' \in [Messages -> Nat] /\ parts'[m] \in Nat \ {0}
        /\ \A n \in Messages \ {m} : parts'[n] = parts[n]
    BY <1>4, <1>5
  <2>. HIDE DEF j
  <2>4. InHand(r)'
    BY <1>3, <1>4, <2>1, <2>2, <2>3 DEF InHand
  <2>5. << >> \in Seq(1 .. parts'[m])
    OBVIOUS
  <2>. QED
    BY <1>1, <1>2, <1>3, <1>4, <2>1, <2>2, <2>3, <2>4, <2>5, WorkKeeps DEF Busy
<1>6. CASE ToMark(r, "failed") /\ UNCHANGED parts
  <2> DEFINE j == [job[r] EXCEPT !.pc = "mark", !.outcome = "failed"]
  <2>1. j \in Job /\ j.claimed = job[r].claimed /\ j.pc = "mark" /\ j.outcome = "failed"
    BY <1>3 DEF Job, Terminal
  <2>2. job' = [job EXCEPT ![r] = j] /\ job'[r] = j
    BY <1>4, <1>6 DEF ToMark
  <2>. HIDE DEF j
  <2>3. InHand(r)'
    BY <1>3, <1>4, <2>1, <2>2 DEF InHand
  <2>4. << >> \in Seq(1 .. parts[m])
    OBVIOUS
  <2>. QED
    BY <1>1, <1>2, <1>3, <1>4, <1>6, <2>1, <2>2, <2>3, <2>4, WorkKeeps DEF Busy, Terminal
<1>. QED
  BY <1>2, <1>5, <1>6 DEF FinishRun

\* What one POST of the next chunk may do: the customer gets it or not, and the request
\* goes to the next chunk or to the ledger.
LEMMA SendKeeps ==
  ASSUME IInv, NEW r \in Requests, NEW m \in Messages, m = Current(r), job[r].pc = "send",
         UNCHANGED <<ledger, runs, parts, acked, config, replies, dropped>>,
         NEW got \in Seq(Nat), got = inbox[m] \/ got = Received(r),
         inbox' = [inbox EXCEPT ![m] = got],
         \/ ToMark(r, "failed")
         \/ got = Received(r) /\ IsLast(r) /\ ToMark(r, "processed")
         \/ got = Received(r) /\ ~IsLast(r) /\ job' = [job EXCEPT ![r].part = @ + 1]
  PROVE  IInv'
<1>1. job[r].pc \in Busy
  BY DEF Busy
<1>2. /\ job[r] \in Job /\ job[r].claimed[1] = m
      /\ runs[m] = 1 /\ job[r].part = Len(inbox[m]) + 1 /\ job[r].part <= parts[m]
  BY <1>1, Working DEF Own, InHand
<1>3. /\ runs \in [Messages -> Nat] /\ inbox \in [Messages -> Seq(Nat)]
      /\ parts \in [Messages -> Nat] /\ job \in [Requests -> Job]
      /\ inbox[m] \in Seq(1 .. parts[m])
  BY DEF IInv, Typed, TypeOK
<1>4. job[r].part \in 1 .. parts[m] /\ Len(inbox[m]) \in Nat
  BY <1>2, <1>3, LenProperties
<1>5. /\ got \in Seq(1 .. parts[m])
      /\ got = Received(r) => Len(got) = job[r].part
  <2>1. CASE got = inbox[m] /\ got # Received(r)
    BY <1>3, <2>1
  <2>2. CASE got = Received(r)
    <3>1. got = Append(inbox[m], job[r].part)
      BY <2>2 DEF Received
    <3>. QED
      BY <1>2, <1>3, <1>4, <3>1, AppendProperties
  <2>. QED
    BY <2>1, <2>2
<1>6. /\ inbox' \in [Messages -> Seq(Nat)] /\ inbox'[m] = got
      /\ \A n \in Messages \ {m} : inbox'[n] = inbox[n]
  BY <1>3
<1>7. CASE ToMark(r, "failed")
  <2> DEFINE j == [job[r] EXCEPT !.pc = "mark", !.outcome = "failed"]
  <2>1. j \in Job /\ j.claimed = job[r].claimed /\ j.pc = "mark" /\ j.outcome = "failed"
    BY <1>2 DEF Job, Terminal
  <2>2. job' = [job EXCEPT ![r] = j] /\ job'[r] = j
    BY <1>3, <1>7 DEF ToMark
  <2>. HIDE DEF j
  <2>3. InHand(r)'
    BY <1>2, <2>1, <2>2 DEF InHand
  <2>. QED
    BY <1>1, <1>2, <1>3, <1>5, <1>6, <2>1, <2>2, <2>3, WorkKeeps DEF Busy, Terminal
<1>8. CASE got = Received(r) /\ IsLast(r) /\ ToMark(r, "processed")
  <2> DEFINE j == [job[r] EXCEPT !.pc = "mark", !.outcome = "processed"]
  <2>1. j \in Job /\ j.claimed = job[r].claimed /\ j.pc = "mark" /\ j.outcome = "processed"
    BY <1>2 DEF Job, Terminal
  <2>2. job' = [job EXCEPT ![r] = j] /\ job'[r] = j
    BY <1>3, <1>8 DEF ToMark
  <2>3. Len(got) = parts[m] /\ parts[m] > 0
    BY <1>3, <1>4, <1>5, <1>8 DEF IsLast
  <2>. HIDE DEF j
  <2>4. InHand(r)'
    BY <1>2, <1>6, <2>1, <2>2, <2>3 DEF InHand
  <2>. QED
    BY <1>1, <1>2, <1>3, <1>5, <1>6, <2>1, <2>2, <2>4, WorkKeeps DEF Busy, Terminal
<1>9. CASE got = Received(r) /\ ~IsLast(r) /\ job' = [job EXCEPT ![r].part = @ + 1]
  <2> DEFINE j == [job[r] EXCEPT !.part = @ + 1]
  <2>1. /\ j \in Job /\ j.claimed = job[r].claimed /\ j.pc = "send"
        /\ j.part = job[r].part + 1
    <3>1. job[r].part + 1 \in Nat
      BY <1>3, <1>4
    <3>. QED
      BY <1>2, <3>1 DEF Job
  <2>2. job' = [job EXCEPT ![r] = j] /\ job'[r] = j
    BY <1>3, <1>9
  <2>3. job[r].part + 1 = Len(got) + 1 /\ job[r].part + 1 <= parts[m]
    BY <1>3, <1>4, <1>5, <1>9 DEF IsLast
  <2>. HIDE DEF j
  <2>4. InHand(r)'
    BY <1>2, <1>6, <2>1, <2>2, <2>3 DEF InHand
  <2>. QED
    BY <1>1, <1>2, <1>3, <1>5, <1>6, <2>1, <2>2, <2>4, WorkKeeps DEF Busy
<1>. QED
  BY <1>7, <1>8, <1>9

\* A chunk that is posted and answered.
LEMMA SendTextKeeps ==
  ASSUME IInv, NEW r \in Requests, SendText(r)
  PROVE  IInv'
<1>1. job[r].pc \in Busy /\ job[r].pc = "send"
  BY DEF SendText, Busy
<1>2. PICK m \in Messages : m = Current(r)
  BY <1>1, Working
<1>3. Received(r) \in Seq(Nat)
  <2>1. inbox[m] \in Seq(Nat) /\ job[r].part \in Nat
    BY DEF IInv, Typed, TypeOK, Job
  <2>. QED
    BY <1>2, <2>1, AppendProperties DEF Received
<1>. QED
  BY <1>1, <1>2, <1>3, SendKeeps DEF SendText, world

\* A chunk whose POST fails, whether it reached the customer or not.
LEMMA SendFailsKeeps ==
  ASSUME IInv, NEW r \in Requests, SendFails(r)
  PROVE  IInv'
<1>1. job[r].pc \in Busy /\ job[r].pc = "send"
  BY DEF SendFails, Busy
<1>2. PICK m \in Messages : m = Current(r)
  BY <1>1, Working
<1>3. inbox \in [Messages -> Seq(Nat)] /\ Received(r) \in Seq(Nat)
  <2>1. inbox \in [Messages -> Seq(Nat)] /\ job[r].part \in Nat
    BY DEF IInv, Typed, TypeOK, Job
  <2>. QED
    BY <1>2, <2>1, AppendProperties DEF Received
<1>4. /\ ToMark(r, "failed")
      /\ UNCHANGED <<ledger, runs, parts, acked, config, replies, dropped>>
  BY DEF SendFails, world
<1>5. \/ inbox' = [inbox EXCEPT ![m] = inbox[m]]
      \/ inbox' = [inbox EXCEPT ![m] = Received(r)]
  BY <1>2, <1>3 DEF SendFails
<1>6. inbox[m] \in Seq(Nat)
  BY <1>3
<1>. QED
  BY <1>1, <1>2, <1>3, <1>4, <1>5, <1>6, SendKeeps

\* An exception that nobody catches: the customer has the chunk or not, and the messages
\* the request had claimed are in nobody's hands.
LEMMA SendEscapesKeeps ==
  ASSUME IInv, NEW r \in Requests, SendEscapes(r)
  PROVE  IInv'
<1>1. job[r].pc \in Busy /\ job[r].pc = "send" /\ job' = [job EXCEPT ![r] = NoJob]
  BY DEF SendEscapes, Busy
<1>2. PICK m \in Messages : m = Current(r)
  BY <1>1, Working
<1>3. Rewrites(r) /\ Own(r)' /\ DOMAIN job'[r].claimed = {}
  BY <1>1, IdleOwns DEF IInv
<1>4. /\ job[r] \in Job /\ runs[m] = 1
      /\ job[r].part = Len(inbox[m]) + 1 /\ job[r].part <= parts[m]
  BY <1>1, <1>2, Working DEF Own, InHand
<1>5. /\ inbox \in [Messages -> Seq(Nat)] /\ parts \in [Messages -> Nat]
      /\ inbox[m] \in Seq(1 .. parts[m])
  BY DEF IInv, Typed, TypeOK
<1>6. PICK got : /\ inbox' = [inbox EXCEPT ![m] = got]
                 /\ got \in Seq(1 .. parts[m]) /\ got \in Seq(Nat)
  <2>1. job[r].part \in 1 .. parts[m] /\ job[r].part \in Nat
    BY <1>4, <1>5, LenProperties
  <2>2. Received(r) \in Seq(1 .. parts[m]) /\ Received(r) \in Seq(Nat)
    BY <1>2, <1>5, <2>1, AppendProperties DEF Received
  <2>3. inbox = [inbox EXCEPT ![m] = inbox[m]] /\ inbox[m] \in Seq(Nat)
    BY <1>5
  <2>4. inbox' = inbox \/ inbox' = [inbox EXCEPT ![m] = Received(r)]
    BY <1>2 DEF SendEscapes
  <2>. QED
    BY <1>5, <2>2, <2>3, <2>4
<1>7. UNCHANGED <<ledger, runs, parts, acked, config, replies>>
  BY DEF SendEscapes
<1>8. /\ inbox' \in [Messages -> Seq(Nat)] /\ inbox'[m] \in Seq(1 .. parts[m])
      /\ \A n \in Messages \ {m} : inbox'[n] = inbox[n]
  BY <1>5, <1>6
<1>9. OnlyTouches(r, m)
  BY <1>1, <1>2, <1>7, <1>8, Working DEF OnlyTouches
<1>10. Accounted(m)'
  BY <1>1, <1>2, <1>4, <1>7, Working DEF Accounted
<1>11. dropped' \subseteq Messages
  <2>1. \A i \in DOMAIN job[r].claimed : job[r].claimed[i] \in Messages
    BY <1>1, Working
  <2>2. Range(job[r].claimed) \subseteq Messages
    BY <2>1 DEF Range
  <2>3. dropped \subseteq Messages /\ dropped' = dropped \cup Range(job[r].claimed)
    BY DEF SendEscapes, IInv, Typed, TypeOK
  <2>. QED
    BY <2>2, <2>3
<1>12. TypeOK'
  BY <1>3, <1>7, <1>8, <1>11, RewriteTyped DEF IInv, Typed, TypeOK
<1>. QED
  BY <1>3, <1>7, <1>8, <1>9, <1>10, <1>12, StepKeeps

\* The message is closed, if the store lets it, and the next one is run.
LEMMA MarkKeeps ==
  ASSUME IInv, NEW r \in Requests, Mark(r)
  PROVE  IInv'
<1>1. job[r].pc \in Busy /\ job[r].pc = "mark"
  BY DEF Mark, Busy
<1>2. PICK m \in Messages : m = Current(r)
  BY <1>1, Working
<1>3. /\ job[r] \in Job /\ Sound(job[r]) /\ Holds(r) /\ Alone(r)
      /\ job[r].claimed \in Seq(Messages) /\ job[r].claimed # << >>
      /\ ledger[m] = "received"
      /\ \A i \in DOMAIN job[r].claimed : i # 1 =>
            job[r].claimed[i] # m /\ job[r].claimed[i] \in Messages
      /\ \A s \in Requests \ {r} : \A j \in DOMAIN job[s].claimed : job[s].claimed[j] # m
  BY <1>1, <1>2, Working DEF Own, IInv, Typed
<1>4. /\ UNCHANGED <<runs, parts, inbox, acked, config, replies, dropped>>
      /\ Continue(r, Tail(job[r].claimed))
  BY DEF Mark, Left, world
<1>5. /\ ledger' \in [Messages -> Statuses]
      /\ ledger'[m] # "absent"
      /\ \A n \in Messages \ {m} : ledger'[n] = ledger[n]
  <2>1. job[r].outcome \in Terminal /\ ledger \in [Messages -> Statuses]
    BY <1>1, <1>3 DEF Sound, IInv, Typed, TypeOK
  <2>2. UNCHANGED ledger \/ ledger' = [ledger EXCEPT ![m] = job[r].outcome]
    BY <1>2 DEF Mark
  <2>. QED
    BY <2>1, <2>2, <1>3 DEF Statuses, Terminal
<1>6. /\ Tail(job[r].claimed) \in Seq(Messages)
      /\ \A i \in DOMAIN Tail(job[r].claimed) :
            /\ i + 1 \in DOMAIN job[r].claimed /\ i + 1 # 1 /\ i \in Nat
            /\ Tail(job[r].claimed)[i] = job[r].claimed[i + 1]
  BY <1>3, TailOf, LenProperties
<1>7. /\ Rewrites(r)
      /\ job'[r].claimed = Tail(job[r].claimed)
      /\ job'[r].pc \in {"idle", "run"}
  BY <1>4, <1>6, ContinueJob DEF IInv
<1>8. OnlyTouches(r, m)
  BY <1>3, <1>4, <1>5 DEF OnlyTouches
<1>9. Own(r)'
  <2>1. Holds(r)'
    BY <1>3, <1>4, <1>5, <1>6, <1>7 DEF Holds, Untouched
  <2>2. Alone(r)'
    BY <1>3, <1>6, <1>7 DEF Alone
  <2>3. InHand(r)'
    BY <1>7 DEF InHand
  <2>. QED
    BY <2>1, <2>2, <2>3 DEF Own
<1>10. Accounted(m)'
  <2>1. Accounted(m)
    BY DEF IInv
  <2>. QED
    BY <2>1, <1>4, <1>5 DEF Accounted
<1>11. TypeOK' /\ inbox' \in [Messages -> Seq(Nat)]
  BY <1>4, <1>5, <1>7, RewriteTyped DEF IInv, Typed, TypeOK
<1>12. \A i \in DOMAIN job'[r].claimed :
          \E k \in DOMAIN job[r].claimed : job'[r].claimed[i] = job[r].claimed[k]
  BY <1>6, <1>7
<1>. QED
  BY <1>4, <1>7, <1>8, <1>9, <1>10, <1>11, <1>12, StepKeeps

\* The process that serves a request dies: what it had claimed is in nobody's hands.
LEMMA CrashKeeps ==
  ASSUME IInv, NEW r \in Requests, Crash(r)
  PROVE  IInv'
<1>1. job' = [job EXCEPT ![r] = NoJob]
  BY DEF Crash
<1>2. Rewrites(r) /\ Own(r)' /\ DOMAIN job'[r].claimed = {}
  BY <1>1, IdleOwns DEF IInv
<1>. QED
  BY <1>2, QuietKeeps DEF Crash, world, IInv, Typed, TypeOK

\* The invariant holds before the first post.
LEMMA IInvInit == Init => IInv
<1> SUFFICES ASSUME Init PROVE IInv
  OBVIOUS
<1>1. \A r \in Requests : job[r] = NoJob /\ job[r].pc = "idle" /\ job[r].claimed = << >>
  BY DEF Init, NoJob
<1>2. \A m \in Messages : ledger[m] = "absent" /\ Untouched(m)
  BY DEF Init, Untouched
<1>3. RepliesCut
  <2>1. ASSUME NEW answers \in Conversations, NEW m \in Messages
        PROVE  Len(ReplyChunks(answers[m])) \in Nat \ {0}
    <3>1. FormatReply(answers[m]) \in Seq(Int)
      BY RepliesAssumption, FormatReplyType
    <3>. QED
      BY <3>1, ChunksOf DEF ReplyChunks
  <2>. QED
    BY <2>1 DEF Init, RepliesCut
<1>4. << >> \in Seq(Nat) /\ (\A n : << >> \in Seq(1 .. n)) /\ DOMAIN << >> = {}
  OBVIOUS
<1>5. Typed
  <2>1. TypeOK
    BY <1>4, NoJobType DEF Init, TypeOK, Statuses
  <2>. QED
    BY <2>1, <1>1, <1>3, <1>4 DEF Typed, Sound, Busy, Init
<1>6. \A r \in Requests : Own(r)
  BY <1>1, <1>4 DEF Own, Holds, InHand, Alone
<1>7. \A r, s \in Requests : Apart(r, s)
  BY <1>1, <1>4 DEF Apart
<1>. QED
  BY <1>2, <1>5, <1>6, <1>7 DEF IInv, Accounted, Untouched

\* The invariant is inductive.
LEMMA IInvStep == IInv /\ [Next]_vars => IInv'
<1> SUFFICES ASSUME IInv, [Next]_vars PROVE IInv'
  OBVIOUS
<1>1. CASE UNCHANGED vars
  BY <1>1
     DEF vars, IInv, Typed, TypeOK, RepliesCut, Own, Holds, InHand, Alone, Apart, Accounted,
         Untouched
<1>2. ASSUME NEW post \in Posts, Dismiss(post) PROVE IInv'
  <2>1. acked' \subseteq Posts /\ UNCHANGED <<ledger, job, runs, parts, inbox, config, replies, dropped>>
    BY <1>2 DEF Dismiss, world, IInv, Typed, TypeOK
  <2>. QED
    BY <2>1
       DEF IInv, Typed, TypeOK, RepliesCut, Own, Holds, InHand, Alone, Apart, Accounted,
           Untouched
<1>3. ASSUME NEW r \in Requests, Progress(r) PROVE IInv'
  BY <1>3, ClaimKeeps, ClaimFailsKeeps, AcknowledgeKeeps, StartRunKeeps, FinishRunKeeps,
     SendTextKeeps, SendFailsKeeps, SendEscapesKeeps, MarkKeeps DEF Progress
<1>. QED
  BY <1>1, <1>2, <1>3, DeliverKeeps, CrashKeeps DEF Next

\* So it holds of every reachable state.
LEMMA Inductive == Spec => []IInv
  BY IInvInit, IInvStep, PTL DEF Spec

\* Every reachable state of the ledger component has its type; in particular no chunk
\* number beyond the reply's last ever reaches a customer.
THEOREM TypeCorrect == Spec => []TypeOK
<1>1. IInv => TypeOK
  BY DEF IInv, Typed
<1>. QED
  BY <1>1, Inductive, PTL

\* However often and however concurrently Meta delivers a message, the agent runs at
\* most once for it, and one request at most has it in its hands.
THEOREM OneRunPerMessage == Spec => []RunOnce
<1>1. IInv => RunOnce
  <2> SUFFICES ASSUME IInv PROVE RunOnce
    OBVIOUS
  <2>1. \A m \in Messages : runs[m] <= IF ledger[m] = "absent" THEN 0 ELSE 1
    BY DEF IInv, Accounted, Untouched
  <2>2. SoleOwner
    BY DEF IInv, Own, Holds, Alone, Apart, SoleOwner
  <2>. QED
    BY <2>1, <2>2 DEF RunOnce
<1>. QED
  BY <1>1, Inductive, PTL

--------------------------------------------------------------------------------
\* The refinement: what every request does is what the customer was promised.

\* A claim takes the message up, its acknowledgement lost or not; a duplicate changes nothing.
LEMMA ClaimImplements ==
  ASSUME IInv, NEW r \in Requests, Claim(r) \/ ClaimFails(r)
  PROVE  [Promise!CorrespondenceNext]_(Promise!correspondenceVars)
<1>1. job[r] \in Job /\ job[r].todo # << >>
  BY DEF IInv, Typed, TypeOK, Claim, ClaimFails
<1>2. PICK m \in Messages : m = Head(job[r].todo)
  BY <1>1, TailOf DEF Job
<1>3. \/ UNCHANGED <<ledger, runs, parts, inbox>>
      \/ Promise!Take(m)
  BY <1>2 DEF Claim, ClaimFails, IsNew, Promise!Take
<1>. QED
  BY <1>3 DEF Promise!CorrespondenceNext, Promise!correspondenceVars

\* What a background task does with its message is one step of the promise, or none.
LEMMA WorkImplements ==
  ASSUME IInv, NEW r \in Requests,
         StartRun(r) \/ FinishRun(r) \/ SendText(r) \/ SendFails(r) \/ SendEscapes(r) \/ Mark(r)
  PROVE  [Promise!CorrespondenceNext]_(Promise!correspondenceVars)
<1>1. job[r].pc \in Busy
  BY DEF StartRun, FinishRun, SendText, SendFails, SendEscapes, Mark, Busy
<1>2. PICK m \in Messages : m = Current(r)
  BY <1>1, Working
<1>3. /\ ledger[m] = "received" /\ Holds(r) /\ InHand(r) /\ Sound(job[r])
      /\ job[r].claimed[1] = m /\ 1 \in DOMAIN job[r].claimed
      /\ parts \in [Messages -> Nat] /\ inbox \in [Messages -> Seq(Nat)]
  BY <1>1, <1>2, Working DEF Own, IInv, Typed, TypeOK
<1>4. CASE StartRun(r)
  <2>1. runs[m] = 0
    BY <1>3, <1>4 DEF Holds, Untouched, StartRun
  <2>2. runs' = [runs EXCEPT ![m] = 1] /\ UNCHANGED <<ledger, parts, inbox>>
    BY <1>2, <1>4, <2>1 DEF StartRun
  <2>. QED
    BY <1>3, <2>1, <2>2 DEF Promise!Run, Promise!CorrespondenceNext
<1>5. CASE FinishRun(r)
  <2>1. CASE UNCHANGED parts
    BY <1>5, <2>1 DEF FinishRun, Promise!correspondenceVars
  <2>2. CASE parts' = [parts EXCEPT ![m] = Len(replies[m].chunks)]
    <3>1. Len(replies[m].chunks) \in Nat \ {0}
      BY DEF IInv, Typed, RepliesCut
    <3>2. parts'[m] = Len(replies[m].chunks)
      BY <1>3, <2>2
    <3>3. runs[m] = 1 /\ parts[m] = 0 /\ UNCHANGED <<ledger, runs, inbox>>
      BY <1>3, <1>5 DEF InHand, FinishRun
    <3>4. parts' = [parts EXCEPT ![m] = parts'[m]]
      BY <2>2, <3>2
    <3>. QED
      BY <1>3, <3>1, <3>2, <3>3, <3>4 DEF Promise!Compose, Promise!CorrespondenceNext
  <2>. QED
    BY <1>2, <1>5, <2>1, <2>2 DEF FinishRun
<1>6. CASE SendText(r) \/ SendFails(r) \/ SendEscapes(r)
  <2>1. CASE UNCHANGED inbox
    BY <1>6, <2>1 DEF SendText, SendFails, SendEscapes, Promise!correspondenceVars
  <2>2. CASE inbox' = [inbox EXCEPT ![m] = Received(r)]
    <3>1. job[r].part = Len(inbox[m]) + 1 /\ job[r].part <= parts[m] /\ Len(inbox[m]) \in Nat
      BY <1>3, <1>6, LenProperties DEF InHand, SendText, SendFails, SendEscapes
    <3>2. Received(r) = Append(inbox[m], Len(inbox[m]) + 1)
      BY <1>2, <3>1 DEF Received
    <3>3. Len(inbox[m]) < parts[m]
      BY <1>3, <3>1
    <3>4. UNCHANGED <<ledger, runs, parts>>
      BY <1>6 DEF SendText, SendFails, SendEscapes
    <3>. QED
      BY <1>3, <2>2, <3>2, <3>3, <3>4 DEF Promise!Receive, Promise!CorrespondenceNext
  <2>. QED
    BY <1>2, <1>6, <2>1, <2>2 DEF SendText, SendFails, SendEscapes
<1>7. CASE Mark(r)
  <2>1. CASE UNCHANGED ledger
    BY <1>7, <2>1 DEF Mark, Promise!correspondenceVars
  <2>2. CASE ledger' = [ledger EXCEPT ![m] = job[r].outcome]
    <3>1. /\ job[r].outcome \in Terminal /\ runs[m] = 1
          /\ job[r].outcome = "processed" => parts[m] > 0 /\ Len(inbox[m]) = parts[m]
          /\ UNCHANGED <<runs, parts, inbox>>
      BY <1>3, <1>7 DEF InHand, Sound, Mark
    <3>. QED
      BY <1>3, <2>2, <3>1 DEF Terminal, Promise!Close, Promise!CorrespondenceNext
  <2>. QED
    BY <1>2, <1>7, <2>1, <2>2 DEF Mark
<1>. QED
  BY <1>4, <1>5, <1>6, <1>7

\* So is every step.
LEMMA StepImplements ==
  ASSUME IInv, [Next]_vars
  PROVE  [Promise!CorrespondenceNext]_(Promise!correspondenceVars)
<1>1. CASE UNCHANGED vars
  BY <1>1 DEF vars, Promise!correspondenceVars
<1>2. ASSUME NEW post \in Posts, Dismiss(post)
      PROVE  UNCHANGED Promise!correspondenceVars
  BY <1>2 DEF Dismiss, Promise!correspondenceVars
<1>3. ASSUME NEW r \in Requests,
             Crash(r) \/ Acknowledge(r) \/ \E post \in Posts : Deliver(r, post)
      PROVE  UNCHANGED Promise!correspondenceVars
  BY <1>3 DEF Crash, Acknowledge, Deliver, Promise!correspondenceVars
<1>. QED
  BY <1>1, <1>2, <1>3, ClaimImplements, WorkImplements DEF Next, Progress

\* Webhooks, redeliveries, lost answers and dying servers together keep what the customer
\* is promised: one run, one reply, its parts in order and none twice, and silence after
\* the message is closed.
THEOREM Implementation == Spec => ImplementsCorrespondence
<1>1. Init => Promise!CorrespondenceInit
  BY DEF Init, Promise!CorrespondenceInit
<1>2. IInv /\ [Next]_vars => [Promise!CorrespondenceNext]_(Promise!correspondenceVars)
  BY StepImplements
<1>. QED
  BY <1>1, <1>2, Inductive, PTL DEF Spec, ImplementsCorrespondence, Promise!CorrespondenceSpec

--------------------------------------------------------------------------------
\* What a customer reads.

\* The customer has the first chunks of the reply to m, and all of them once the ledger
\* says so.
Delivered(m) ==
    /\ replies[m].lines \in Seq(Line)
    /\ replies[m].chunks = ReplyChunks(replies[m].lines)
    /\ parts[m] \in {0, Len(replies[m].chunks)}
    /\ \A i \in DOMAIN inbox[m] : inbox[m][i] = i
    /\ ledger[m] = "processed" => Len(inbox[m]) = Len(replies[m].chunks)

AllDelivered == \A m \in Messages : Delivered(m)

\* The agent's replies are given, and each is as long as its chunks are many.
LEMMA RepliesStay ==
  ASSUME IInv, [Next]_vars
  PROVE  /\ UNCHANGED replies
         /\ \A m \in Messages : parts'[m] \in {parts[m], Len(replies[m].chunks)}
<1>1. UNCHANGED replies
  BY DEF Next, Progress, Dismiss, Deliver, Claim, ClaimFails, Acknowledge, StartRun, FinishRun,
         SendText, SendFails, SendEscapes, Mark, Crash, vars, world
<1>2. CASE UNCHANGED parts
  BY <1>1, <1>2
<1>3. ASSUME NEW r \in Requests, FinishRun(r)
      PROVE  \A m \in Messages : parts'[m] \in {parts[m], Len(replies[m].chunks)}
  <2>1. parts \in [Messages -> Nat]
    BY DEF IInv, Typed, TypeOK
  <2>2. \/ UNCHANGED parts
        \/ parts' = [parts EXCEPT ![Current(r)] = Len(replies[Current(r)].chunks)]
    BY <1>3 DEF FinishRun
  <2>. QED
    BY <2>1, <2>2
<1>4. UNCHANGED parts \/ \E r \in Requests : FinishRun(r)
  BY DEF Next, Progress, Dismiss, Deliver, Claim, ClaimFails, Acknowledge, StartRun,
         SendText, SendFails, SendEscapes, Mark, Crash, vars
<1>. QED
  BY <1>1, <1>2, <1>3, <1>4

LEMMA DeliveredInit == Init => AllDelivered
<1> SUFFICES ASSUME Init, NEW m \in Messages PROVE Delivered(m)
  BY DEF AllDelivered
<1>1. PICK answers \in Conversations :
          replies = [n \in Messages |-> [lines |-> answers[n], chunks |-> ReplyChunks(answers[n])]]
  BY DEF Init
<1>2. replies[m].lines \in Seq(Line) /\ replies[m].chunks = ReplyChunks(replies[m].lines)
  BY <1>1, RepliesAssumption
<1>3. parts[m] = 0 /\ inbox[m] = << >> /\ ledger[m] = "absent"
  BY DEF Init
<1>4. DOMAIN << >> = {}
  OBVIOUS
<1>. QED
  BY <1>2, <1>3, <1>4 DEF Delivered

\* What the promise allows keeps the chunks in order.
LEMMA DeliveredStep ==
  ASSUME IInv, AllDelivered, [Next]_vars
  PROVE  AllDelivered'
<1>1. SUFFICES ASSUME NEW m \in Messages PROVE Delivered(m)'
  BY DEF AllDelivered
<1>2. /\ UNCHANGED replies
      /\ parts'[m] \in {0, Len(replies[m].chunks)}
  BY <1>1, RepliesStay DEF AllDelivered, Delivered
<1>3. Delivered(m)
  BY <1>1 DEF AllDelivered
<1>4. /\ inbox \in [Messages -> Seq(Nat)] /\ inbox[m] \in Seq(Nat) /\ Len(inbox[m]) \in Nat
      /\ ledger \in [Messages -> Statuses]
  BY <1>1 DEF IInv, Typed, TypeOK
<1>5. CASE UNCHANGED <<ledger, inbox>>
  BY <1>2, <1>3, <1>5 DEF Delivered
<1>6. ASSUME NEW n \in Messages, Promise!Take(n) PROVE Delivered(m)'
  <2>1. UNCHANGED inbox /\ (ledger'[m] = "processed" => ledger[m] = "processed")
    BY <1>1, <1>4, <1>6 DEF Promise!Take
  <2>. QED
    BY <1>2, <1>3, <2>1 DEF Delivered
<1>7. ASSUME NEW n \in Messages, Promise!Receive(n) PROVE Delivered(m)'
  <2>1. CASE n # m
    <3>1. inbox'[m] = inbox[m] /\ ledger'[m] = ledger[m]
      BY <1>1, <1>4, <1>7, <2>1 DEF Promise!Receive
    <3>. QED
      BY <1>2, <1>3, <3>1 DEF Delivered
  <2>2. CASE n = m
    <3>1. /\ ledger'[m] # "processed"
          /\ inbox'[m] = Append(inbox[m], Len(inbox[m]) + 1)
      BY <1>1, <1>4, <1>7, <2>2 DEF Promise!Receive
    <3>2. \A i \in DOMAIN inbox[m] : inbox[m][i] = i
      BY <1>3 DEF Delivered
    <3>3. \A i \in DOMAIN inbox'[m] : inbox'[m][i] = i
      BY <1>4, <3>1, <3>2
    <3>. QED
      BY <1>2, <1>3, <3>1, <3>3 DEF Delivered
  <2>. QED
    BY <2>1, <2>2
<1>8. ASSUME NEW n \in Messages, Promise!Close(n) PROVE Delivered(m)'
  <2>1. UNCHANGED inbox
    BY <1>8 DEF Promise!Close
  <2>2. ledger'[m] = "processed" => Len(inbox[m]) = Len(replies[m].chunks)
    <3>1. CASE ledger'[m] = ledger[m]
      BY <1>3, <3>1 DEF Delivered
    <3>2. CASE ledger'[m] = "processed" /\ ledger'[m] # ledger[m]
      <4>1. parts[m] > 0 /\ Len(inbox[m]) = parts[m]
        BY <1>1, <1>4, <1>8, <3>2 DEF Promise!Close
      <4>. QED
        BY <1>3, <4>1 DEF Delivered
    <3>. QED
      BY <3>1, <3>2
  <2>. QED
    BY <1>2, <1>3, <2>1, <2>2 DEF Delivered
<1>9. [Promise!CorrespondenceNext]_(Promise!correspondenceVars)
  BY StepImplements
<1>10. CASE UNCHANGED Promise!correspondenceVars
  BY <1>5, <1>10 DEF Promise!correspondenceVars
<1>11. ASSUME NEW n \in Messages, Promise!Run(n) \/ Promise!Compose(n)
       PROVE  UNCHANGED <<ledger, inbox>>
  BY <1>11 DEF Promise!Run, Promise!Compose
<1>. QED
  BY <1>5, <1>6, <1>7, <1>8, <1>9, <1>10, <1>11 DEF Promise!CorrespondenceNext

\* The first chunks of a text are how it begins.
LEMMA FirstChunks ==
  ASSUME NEW text \in Seq(Int), NEW chunks \in Seq(Seq(Int)), FlattenSeq(chunks) = text,
         NEW k \in 0 .. Len(chunks)
  PROVE  LET read == FlattenSeq(SubSeq(chunks, 1, k))
         IN  /\ read = SubSeq(text, 1, Len(read))
             /\ k = Len(chunks) => read = text
<1>1. PICK start \in Seq(Seq(Int)) : start = SubSeq(chunks, 1, k)
  <2>1. \A i \in 1 .. k : chunks[i] \in Seq(Int)
    OBVIOUS
  <2>2. SubSeq(chunks, 1, k) \in Seq(Seq(Int))
    BY <2>1, SubSeqProperties
  <2>. QED
    BY <2>2
<1>2. PICK read \in Seq(Int) : read = FlattenSeq(start)
  BY FlattenType
<1>3. PICK rest \in Seq(Int) : text = read \o rest
  BY <1>1, <1>2, FlattenBegins
<1>4. read = SubSeq(read \o rest, 1, Len(read))
  OBVIOUS
<1>5. k = Len(chunks) => start = chunks
  BY <1>1
<1>. QED
  BY <1>1, <1>2, <1>3, <1>4, <1>5

\* What a customer reads of a reply is how it begins, in messages that fit, and the whole
\* of it once the message is closed as processed.
THEOREM TextArrives == Spec => []RepliesArriveWhole
<1>1. Init => IInv /\ AllDelivered
  BY IInvInit, DeliveredInit
<1>2. (IInv /\ AllDelivered) /\ [Next]_vars => (IInv /\ AllDelivered)'
  BY IInvStep, DeliveredStep
<1>3. IInv /\ AllDelivered => RepliesArriveWhole
  <2>1. SUFFICES ASSUME IInv, AllDelivered, NEW m \in Messages
                 PROVE  LET text == FormatReply(replies[m].lines)
                            chunks == replies[m].chunks
                            read == FlattenSeq([i \in DOMAIN inbox[m] |-> chunks[inbox[m][i]]])
                        IN  /\ ChunksFit(text, chunks)
                            /\ read = SubSeq(text, 1, Len(read))
                            /\ ledger[m] = "processed" => read = text
    BY DEF RepliesArriveWhole
  <2>2. Delivered(m)
    BY <2>1 DEF AllDelivered
  <2>3. PICK text \in Seq(Int) : text = FormatReply(replies[m].lines)
    BY <2>2, FormatReplyType DEF Delivered
  <2>4. PICK chunks \in Seq(Seq(Int)) :
            /\ chunks = replies[m].chunks
            /\ FlattenSeq(chunks) = text
            /\ ChunksFit(text, chunks)
    BY <2>2, <2>3, ChunksOf DEF Delivered, ReplyChunks
  <2>5. PICK got \in Seq(1 .. parts[m]) :
            got = inbox[m] /\ (\A i \in DOMAIN got : got[i] = i) /\ parts[m] \in {0, Len(chunks)}
    BY <2>1, <2>2, <2>4 DEF Delivered, IInv, Typed, TypeOK
  <2>6. PICK k \in 0 .. Len(chunks) : k = Len(got) /\ DOMAIN got = 1 .. k
    <3>1. Len(got) \in Nat /\ DOMAIN got = 1 .. Len(got) /\ Len(chunks) \in Nat
      OBVIOUS
    <3>2. CASE Len(got) = 0
      BY <3>1, <3>2
    <3>3. CASE Len(got) # 0
      <4>1. Len(got) \in DOMAIN got
        BY <3>1, <3>3
      <4>2. got[Len(got)] \in 1 .. parts[m] /\ got[Len(got)] = Len(got)
        BY <2>5, <4>1
      <4>3. Len(got) \in 0 .. Len(chunks)
        BY <2>5, <3>1, <4>2
      <4>. QED
        BY <3>1, <4>3
    <3>. QED
      BY <3>2, <3>3
  <2>7. [i \in DOMAIN inbox[m] |-> chunks[inbox[m][i]]] = SubSeq(chunks, 1, k)
    <3>1. SubSeq(chunks, 1, k) = [i \in 1 .. k |-> chunks[i]]
      OBVIOUS
    <3>2. [i \in DOMAIN got |-> chunks[got[i]]] = [i \in 1 .. k |-> chunks[i]]
      BY <2>5, <2>6
    <3>. QED
      BY <2>5, <3>1, <3>2
  <2>8. ledger[m] = "processed" => k = Len(chunks)
    BY <2>2, <2>4, <2>5, <2>6 DEF Delivered
  <2>9. PICK read : read = FlattenSeq(SubSeq(chunks, 1, k))
    OBVIOUS
  <2>10. read = SubSeq(text, 1, Len(read)) /\ (k = Len(chunks) => read = text)
    BY <2>4, <2>9, FirstChunks
  <2>11. read = FlattenSeq([i \in DOMAIN inbox[m] |-> replies[m].chunks[inbox[m][i]]])
    BY <2>4, <2>7, <2>9
  <2>. QED
    BY <2>3, <2>4, <2>8, <2>10, <2>11
<1>. QED
  BY <1>1, <1>2, <1>3, PTL DEF Spec

--------------------------------------------------------------------------------
\* What a reply says.

\* Two texts say the same, letter by letter and whichever letters are looked at.
SameLetters(s, t) == \A S \in SUBSET Letter : Selection(s, S) = Selection(t, S)

\* All that s says is in t, which adds nothing but letters of the headers.
Conveys(s, t, headers) ==
    /\ Selection(t, Letter \ headers) = Selection(s, Letter \ headers)
    /\ IsThinned(Selection(s, Letter), Selection(t, Letter))

LEMMA NoLetters ==
  ASSUME NEW s \in Seq(Int), ToSet(s) \cap Letter = {}
  PROVE  SameLetters(s, << >>)
<1>1. ASSUME NEW S \in SUBSET Letter PROVE Selection(s, S) = Selection(<< >>, S)
  <2>1. ToSet(s) \cap S = {}
    OBVIOUS
  <2>2. Selection(s, S) = << >>
    BY <2>1, NothingSelected
  <2>. QED
    BY <2>2, SelectionOfNothing
<1>. QED
  BY <1>1 DEF SameLetters

\* A letter that is in one of two texts that say the same is in the other.
LEMMA LetterStays ==
  ASSUME NEW s \in Seq(Int), NEW t \in Seq(Int), SameLetters(s, t), NEW c \in Letter
  PROVE  c \in ToSet(s) <=> c \in ToSet(t)
<1>1. Selection(s, {c}) = Selection(t, {c})
  <2>1. {c} \in SUBSET Letter
    OBVIOUS
  <2>. QED
    BY <2>1 DEF SameLetters
<1>2. Selection(s, {c}) = << >> <=> ToSet(s) \cap {c} = {}
  BY NothingSelected
<1>3. Selection(t, {c}) = << >> <=> ToSet(t) \cap {c} = {}
  BY NothingSelected
<1>. QED
  BY <1>1, <1>2, <1>3

LEMMA ConveysAlike ==
  ASSUME NEW s, NEW t, NEW p, NEW q, NEW headers,
         SameLetters(s, p), SameLetters(t, q), Conveys(p, q, headers)
  PROVE  Conveys(s, t, headers)
<1>1. Letter \ headers \in SUBSET Letter /\ Letter \in SUBSET Letter
  OBVIOUS
<1>. QED
  BY <1>1 DEF SameLetters, Conveys

LEMMA ConveysSelf ==
  ASSUME NEW s \in Seq(Int), NEW headers
  PROVE  Conveys(s, s, headers)
<1>1. PICK r \in Seq(Letter) : r = Selection(s, Letter)
  BY SelectionType
<1>2. IsThinned(r, r)
  BY ThinnedSelf
<1>. QED
  BY <1>1, <1>2 DEF Conveys

\* A text that says the same conveys it.
LEMMA SameConveys ==
  ASSUME NEW s \in Seq(Int), NEW t \in Seq(Int), NEW headers, SameLetters(s, t)
  PROVE  Conveys(s, t, headers)
<1>1. Conveys(t, t, headers) /\ SameLetters(t, t)
  BY ConveysSelf DEF SameLetters
<1>. QED
  BY <1>1, ConveysAlike

LEMMA ConveysConcat ==
  ASSUME NEW a \in Seq(Int), NEW b \in Seq(Int), NEW u \in Seq(Int), NEW v \in Seq(Int),
         NEW headers, Conveys(a, b, headers), Conveys(u, v, headers)
  PROVE  Conveys(a \o u, b \o v, headers)
<1>1. Selection(a \o u, Letter \ headers) = Selection(b \o v, Letter \ headers)
  BY ConcatAlike DEF Conveys
<1>2. IsThinned(Selection(a \o u, Letter), Selection(b \o v, Letter))
  BY ConcatAlike DEF Conveys
<1>. QED
  BY <1>1, <1>2 DEF Conveys

LEMMA FlattenConveys ==
  ASSUME NEW ss \in Seq(Seq(Int)), NEW tt \in Seq(Seq(Int)), Len(ss) = Len(tt), NEW headers,
         \A i \in 1 .. Len(ss) : Conveys(ss[i], tt[i], headers)
  PROVE  Conveys(FlattenSeq(ss), FlattenSeq(tt), headers)
<1>1. Selection(FlattenSeq(ss), Letter \ headers) = Selection(FlattenSeq(tt), Letter \ headers)
  <2>1. \A i \in 1 .. Len(ss) : Selection(ss[i], Letter \ headers) = Selection(tt[i], Letter \ headers)
    BY DEF Conveys
  <2>. QED
    BY <2>1, FlattenAlikeSelection
<1>2. IsThinned(Selection(FlattenSeq(ss), Letter), Selection(FlattenSeq(tt), Letter))
  <2>1. \A i \in 1 .. Len(ss) : IsThinned(Selection(ss[i], Letter), Selection(tt[i], Letter))
    BY DEF Conveys
  <2>. QED
    BY <2>1, FlattenAlikeThinned
<1>. QED
  BY <1>1, <1>2 DEF Conveys

LEMMA FlattenSame ==
  ASSUME NEW ss \in Seq(Seq(Int)), NEW tt \in Seq(Seq(Int)), Len(ss) = Len(tt),
         \A i \in 1 .. Len(ss) : SameLetters(ss[i], tt[i])
  PROVE  SameLetters(FlattenSeq(ss), FlattenSeq(tt))
<1>1. ASSUME NEW S \in SUBSET Letter
      PROVE  Selection(FlattenSeq(ss), S) = Selection(FlattenSeq(tt), S)
  <2>1. \A i \in 1 .. Len(ss) : Selection(ss[i], S) = Selection(tt[i], S)
    BY DEF SameLetters
  <2>. QED
    BY <2>1, FlattenAlikeSelection
<1>. QED
  BY <1>1 DEF SameLetters

\* Where no piece has letters the whole has none.
LEMMA FlattenNoLetters ==
  ASSUME NEW ss \in Seq(Seq(Int)), \A i \in 1 .. Len(ss) : ToSet(ss[i]) \cap Letter = {}
  PROVE  SameLetters(FlattenSeq(ss), << >>)
<1>1. FlattenSeq(ss) \in Seq(Int)
  BY FlattenType
<1>2. \A s \in ToSet(ss) : ToSet(s) \cap Letter = {}
  <2>1. DOMAIN ss = 1 .. Len(ss)
    OBVIOUS
  <2>2. ASSUME NEW s \in ToSet(ss) PROVE ToSet(s) \cap Letter = {}
    <3>1. PICK i \in DOMAIN ss : s = ss[i]
      BY DEF ToSet
    <3>. QED
      BY <2>1, <3>1
  <2>. QED
    BY <2>2
<1>3. ToSet(FlattenSeq(ss)) \cap Letter = {}
  <2>1. ToSet(FlattenSeq(ss)) = Members(ss)
    BY FlattenedSet
  <2>. QED
    BY <1>2, <2>1 DEF Members
<1>. QED
  BY <1>1, <1>3, NoLetters

\* What is not a letter says nothing.
LEMMA PrefixSame ==
  ASSUME NEW s \in Seq(Int), NEW x \in Int \ Letter
  PROVE  SameLetters(<<x>> \o s, s)
<1>1. PICK p \in Seq(Int) : p = <<x>>
  <2>1. x \in Int /\ <<x>> \in Seq(Int)
    OBVIOUS
  <2>. QED
    BY <2>1
<1>2. ToSet(p) \cap Letter = {}
  BY <1>1 DEF ToSet
<1>3. ASSUME NEW S \in SUBSET Letter PROVE Selection(<<x>> \o s, S) = Selection(s, S)
  <2>1. Selection(p \o s, S) = Selection(p, S) \o Selection(s, S)
    BY SelectionConcat
  <2>2. Selection(p, S) = << >>
    BY <1>2, NoLetters, SelectionOfNothing DEF SameLetters
  <2>3. PICK r \in Seq(S) : r = Selection(s, S)
    BY SelectionType
  <2>4. << >> \o r = r
    OBVIOUS
  <2>. QED
    BY <1>1, <2>1, <2>2, <2>3, <2>4
<1>. QED
  BY <1>3 DEF SameLetters

\* Separators do not matter.
LEMMA JoinedSame ==
  ASSUME NEW pieces \in Seq(Seq(Int)), NEW separator \in Int \ Letter
  PROVE  SameLetters(Joined(pieces, separator), FlattenSeq(pieces))
<1> DEFINE Piece(i) == IF i = 1 THEN pieces[i] ELSE <<separator>> \o pieces[i]
<1>1. DOMAIN pieces = 1 .. Len(pieces) /\ Len(pieces) \in Nat
  OBVIOUS
<1>2. \A i \in 1 .. Len(pieces) : Piece(i) \in Seq(Int) /\ SameLetters(Piece(i), pieces[i])
  <2>1. SUFFICES ASSUME NEW i \in 1 .. Len(pieces)
                 PROVE  Piece(i) \in Seq(Int) /\ SameLetters(Piece(i), pieces[i])
    OBVIOUS
  <2>2. PICK p \in Seq(Int) : p = pieces[i]
    BY <2>1
  <2>3. <<separator>> \in Seq(Int)
    OBVIOUS
  <2>4. <<separator>> \o p \in Seq(Int) /\ SameLetters(<<separator>> \o p, p)
    BY <2>3, PrefixSame, ConcatProperties
  <2>5. SameLetters(p, p)
    BY DEF SameLetters
  <2>. QED
    BY <2>2, <2>4, <2>5
<1>. HIDE DEF Piece
<1>3. PICK tt \in Seq(Seq(Int)) : tt = [i \in 1 .. Len(pieces) |-> Piece(i)]
  <2>1. [i \in 1 .. Len(pieces) |-> Piece(i)] \in Seq(Seq(Int))
    BY <1>1, <1>2, IsASeq
  <2>. QED
    BY <2>1
<1>4. Len(tt) = Len(pieces) /\ \A i \in 1 .. Len(tt) : SameLetters(tt[i], pieces[i])
  BY <1>1, <1>2, <1>3
<1>5. SameLetters(FlattenSeq(tt), FlattenSeq(pieces))
  BY <1>4, FlattenSame
<1>6. Joined(pieces, separator) = FlattenSeq(tt)
  BY <1>1, <1>3 DEF Joined, Piece
<1>. QED
  BY <1>5, <1>6

LEMMA SurroundedSame ==
  ASSUME NEW p \in Seq(Int), NEW q \in Seq(Int), NEW r \in Seq(Int),
         SameLetters(p, << >>), SameLetters(r, << >>)
  PROVE  SameLetters((p \o q) \o r, q)
<1>1. ASSUME NEW S \in SUBSET Letter PROVE Selection((p \o q) \o r, S) = Selection(q, S)
  <2>1. Selection(p, S) = << >> /\ Selection(r, S) = << >>
    BY SelectionOfNothing DEF SameLetters
  <2>2. PICK pq \in Seq(Int) : pq = p \o q
    BY ConcatProperties
  <2>3. Selection(pq \o r, S) = Selection(pq, S) \o Selection(r, S)
    BY SelectionConcat
  <2>4. Selection(p \o q, S) = Selection(p, S) \o Selection(q, S)
    BY SelectionConcat
  <2>5. PICK s \in Seq(S) : s = Selection(q, S)
    BY SelectionType
  <2>6. << >> \o s = s /\ s \o << >> = s
    OBVIOUS
  <2>. QED
    BY <2>1, <2>2, <2>3, <2>4, <2>5, <2>6
<1>. QED
  BY <1>1 DEF SameLetters

\* The bars and blanks of a row say nothing.
LEMMA TrimSame ==
  ASSUME NEW cell \in Seq(Int)
  PROVE  Trim(cell) \in Seq(Int) /\ SameLetters(cell, Trim(cell))
<1>1. CASE cell = <<Space>>
  <2>1. Space \notin Letter
    BY DEF Space, Letter
  <2>2. ToSet(cell) = {Space}
    BY <1>1 DEF ToSet
  <2>3. SameLetters(cell, << >>)
    BY <2>1, <2>2, NoLetters
  <2>4. Trim(cell) = << >> /\ << >> \in Seq(Int)
    BY <1>1 DEF Trim
  <2>. QED
    BY <2>3, <2>4
<1>2. CASE cell # <<Space>>
  BY <1>2 DEF Trim, SameLetters
<1>. QED
  BY <1>1, <1>2

\* Texts around which there is nothing but empty ones.
LEMMA MiddleSame ==
  ASSUME NEW cells \in Seq(Seq(Int)), NEW a \in 1 .. Len(cells), NEW b \in a .. Len(cells),
         \A i \in 1 .. Len(cells) : i \notin a .. b => cells[i] = << >>
  PROVE  SameLetters(FlattenSeq(cells), FlattenSeq(SubSeq(cells, a, b)))
<1>1. Len(cells) \in Nat /\ \A i \in 1 .. Len(cells) : cells[i] \in Seq(Int)
  OBVIOUS
<1>2. PICK before \in Seq(Seq(Int)) : before = SubSeq(cells, 1, a - 1)
  <2>1. \A i \in 1 .. a - 1 : cells[i] \in Seq(Int)
    BY <1>1
  <2>2. SubSeq(cells, 1, a - 1) \in Seq(Seq(Int))
    BY <2>1, SubSeqProperties
  <2>. QED
    BY <2>2
<1>3. PICK inner \in Seq(Seq(Int)) : inner = SubSeq(cells, a, b)
  <2>1. \A i \in a .. b : cells[i] \in Seq(Int)
    BY <1>1
  <2>2. SubSeq(cells, a, b) \in Seq(Seq(Int))
    BY <2>1, SubSeqProperties
  <2>. QED
    BY <2>2
<1>4. PICK behind \in Seq(Seq(Int)) : behind = SubSeq(cells, b + 1, Len(cells))
  <2>1. \A i \in b + 1 .. Len(cells) : cells[i] \in Seq(Int)
    BY <1>1
  <2>2. SubSeq(cells, b + 1, Len(cells)) \in Seq(Seq(Int))
    BY <2>1, SubSeqProperties
  <2>. QED
    BY <2>2
<1>5. cells = (before \o inner) \o behind
  <2>1. before \o inner = SubSeq(cells, 1, b)
    <3>1. 1 \in 1 .. Len(cells) + 1 /\ a - 1 \in 1 - 1 .. Len(cells) /\ b \in a - 1 .. Len(cells)
      BY <1>1
    <3>2. SubSeq(cells, 1, a - 1) \o SubSeq(cells, (a - 1) + 1, b) = SubSeq(cells, 1, b)
      BY <3>1, ConcatAdjacentSubSeq
    <3>3. (a - 1) + 1 = a
      OBVIOUS
    <3>. QED
      BY <1>2, <1>3, <3>2, <3>3
  <2>2. SubSeq(cells, 1, b) \o behind = SubSeq(cells, 1, Len(cells))
    <3>1. 1 \in 1 .. Len(cells) + 1 /\ b \in 1 - 1 .. Len(cells) /\ Len(cells) \in b .. Len(cells)
      BY <1>1
    <3>. QED
      BY <1>4, <3>1, ConcatAdjacentSubSeq
  <2>3. SubSeq(cells, 1, Len(cells)) = cells
    BY SubSeqFull
  <2>. QED
    BY <2>1, <2>2, <2>3
<1>6. SameLetters(FlattenSeq(before), << >>)
  <2>1. Len(before) = a - 1 /\ \A i \in 1 .. a - 1 : before[i] = cells[i]
    BY <1>1, <1>2
  <2>2. \A i \in 1 .. Len(before) : before[i] = << >>
    <3>1. SUFFICES ASSUME NEW i \in 1 .. Len(before) PROVE before[i] = << >>
      OBVIOUS
    <3>2. i \in 1 .. Len(cells) /\ i \notin a .. b /\ before[i] = cells[i]
      BY <1>1, <2>1
    <3>. QED
      BY <3>2
  <2>3. \A i \in 1 .. Len(before) : ToSet(before[i]) \cap Letter = {}
    BY <2>2 DEF ToSet
  <2>. QED
    BY <2>3, FlattenNoLetters
<1>7. SameLetters(FlattenSeq(behind), << >>)
  <2>1. Len(behind) = Len(cells) - b /\ \A i \in 1 .. Len(cells) - b : behind[i] = cells[b + i]
    <3>1. \A i \in b + 1 .. Len(cells) : cells[i] \in Seq(Int)
      BY <1>1
    <3>2. PICK z \in Nat : z = Len(cells) - b
      <4>1. Len(cells) - b \in Nat
        BY <1>1
      <4>. QED
        BY <4>1
    <3>3. Len(cells) \in Int /\ b + 1 \in Int
      BY <1>1
    <3>4. /\ Len(SubSeq(cells, b + 1, Len(cells))) =
                IF b + 1 <= Len(cells) THEN Len(cells) - (b + 1) + 1 ELSE 0
          /\ \A i \in 1 .. Len(cells) - (b + 1) + 1 :
                SubSeq(cells, b + 1, Len(cells))[i] = cells[b + 1 + i - 1]
      BY <3>1, <3>3, SubSeqProperties
    <3>5. /\ Len(cells) - (b + 1) + 1 = z
          /\ (IF b + 1 <= Len(cells) THEN Len(cells) - (b + 1) + 1 ELSE 0) = z
          /\ \A i \in 1 .. z : b + 1 + i - 1 = b + i
      BY <1>1, <3>2
    <3>. QED
      BY <1>4, <3>2, <3>4, <3>5
  <2>2. \A i \in 1 .. Len(behind) : behind[i] = << >>
    <3>1. SUFFICES ASSUME NEW i \in 1 .. Len(behind) PROVE behind[i] = << >>
      OBVIOUS
    <3>2. b + i \in 1 .. Len(cells) /\ b + i \notin a .. b /\ behind[i] = cells[b + i]
      BY <1>1, <2>1
    <3>. QED
      BY <3>2
  <2>3. \A i \in 1 .. Len(behind) : ToSet(behind[i]) \cap Letter = {}
    BY <2>2 DEF ToSet
  <2>. QED
    BY <2>3, FlattenNoLetters
<1>8. PICK p, q, r \in Seq(Int) :
          p = FlattenSeq(before) /\ q = FlattenSeq(inner) /\ r = FlattenSeq(behind)
  BY FlattenType
<1>9. FlattenSeq(cells) = (p \o q) \o r
  <2>1. before \o inner \in Seq(Seq(Int))
    BY ConcatProperties
  <2>2. FlattenSeq(before \o inner) = FlattenSeq(before) \o FlattenSeq(inner)
    BY FlattenConcat
  <2>3. FlattenSeq((before \o inner) \o behind) = FlattenSeq(before \o inner) \o FlattenSeq(behind)
    BY <2>1, FlattenConcat
  <2>. QED
    BY <1>5, <1>8, <2>2, <2>3
<1>10. SameLetters((p \o q) \o r, q)
  BY <1>6, <1>7, <1>8, SurroundedSame
<1>. QED
  BY <1>3, <1>8, <1>9, <1>10

\* What a row says is what is between its bars.
LEMMA SplitSame ==
  ASSUME NEW cells \in Seq(Seq(Int))
  PROVE  SameLetters(FlattenSeq(cells), FlattenSeq(SplitTableRow(cells)))
<1> DEFINE solid == {i \in DOMAIN cells : cells[i] # << >>}
<1>0. DOMAIN cells = 1 .. Len(cells) /\ Len(cells) \in Nat
  OBVIOUS
<1>1. CASE solid = {}
  <2>1. SplitTableRow(cells) = << << >> >>
    BY <1>1 DEF SplitTableRow
  <2>2. PICK one \in Seq(Seq(Int)) : one = << << >> >> /\ Len(one) = 1 /\ one[1] = << >>
    <3>1. << >> \in Seq(Int)
      OBVIOUS
    <3>2. << << >> >> \in Seq(Seq(Int)) /\ Len(<< << >> >>) = 1 /\ << << >> >>[1] = << >>
      BY <3>1
    <3>. QED
      BY <3>2
  <2>3. ToSet(<< >>) = {}
    BY DEF ToSet
  <2>4. \A i \in 1 .. Len(cells) : cells[i] = << >>
    BY <1>0, <1>1
  <2>5. SameLetters(FlattenSeq(cells), << >>)
    BY <2>3, <2>4, FlattenNoLetters
  <2>6. SameLetters(FlattenSeq(one), << >>)
    <3>1. \A i \in 1 .. Len(one) : ToSet(one[i]) \cap Letter = {}
      BY <2>2, <2>3
    <3>. QED
      BY <3>1, FlattenNoLetters
  <2>. QED
    BY <2>1, <2>2, <2>5, <2>6 DEF SameLetters
<1>2. CASE solid # {}
  <2>1. solid \subseteq Nat /\ IsFiniteSet(solid)
    <3>1. IsFiniteSet(1 .. Len(cells))
      BY <1>0, FS_Interval
    <3>. QED
      BY <1>0, <3>1, FS_Subset
  <2>2. /\ Min(solid) \in solid /\ Max(solid) \in solid
        /\ \A k \in solid : Min(solid) <= k /\ Max(solid) >= k
    <3>. HIDE DEF solid
    <3>. QED
      BY <1>2, <2>1, MinIs, MaxIs
  <2>3. PICK a, b \in 1 .. Len(cells) :
            a = Min(solid) /\ b = Max(solid) /\ a <= b /\ \A k \in solid : k \in a .. b
    <3>1. Min(solid) \in DOMAIN cells /\ Max(solid) \in DOMAIN cells
      BY <2>2
    <3>2. PICK a, b \in 1 .. Len(cells) : a = Min(solid) /\ b = Max(solid)
      BY <1>0, <3>1
    <3>3. \A k \in solid : k \in Nat /\ a <= k /\ k <= b
      BY <2>1, <2>2, <3>2
    <3>4. a <= b
      BY <2>2, <3>2, <3>3
    <3>5. \A k \in solid : k \in a .. b
      BY <3>3
    <3>. HIDE DEF solid
    <3>. QED
      BY <3>2, <3>4, <3>5
  <2>4. PICK inner \in Seq(Seq(Int)) : inner = SubSeq(cells, a, b)
    <3>1. \A i \in a .. b : cells[i] \in Seq(Int)
      BY <1>0
    <3>2. SubSeq(cells, a, b) \in Seq(Seq(Int))
      BY <3>1, SubSeqProperties
    <3>. QED
      BY <3>2
  <2>5. \A i \in 1 .. Len(cells) : i \notin a .. b => cells[i] = << >>
    BY <1>0, <2>3
  <2>6. b \in a .. Len(cells)
    BY <1>0, <2>3
  <2>7. SameLetters(FlattenSeq(cells), FlattenSeq(inner))
    BY <2>4, <2>5, <2>6, MiddleSame
  <2>8. DOMAIN inner = 1 .. Len(inner) /\ Len(inner) \in Nat
    OBVIOUS
  <2>9. \A i \in 1 .. Len(inner) : Trim(inner[i]) \in Seq(Int) /\ SameLetters(inner[i], Trim(inner[i]))
    <3>1. \A i \in 1 .. Len(inner) : inner[i] \in Seq(Int)
      OBVIOUS
    <3>. QED
      BY <3>1, TrimSame
  <2>10. PICK split \in Seq(Seq(Int)) : split = [i \in 1 .. Len(inner) |-> Trim(inner[i])]
    <3>1. [i \in 1 .. Len(inner) |-> Trim(inner[i])] \in Seq(Seq(Int))
      BY <2>8, <2>9, IsASeq
    <3>. QED
      BY <3>1
  <2>11. Len(split) = Len(inner) /\ \A i \in 1 .. Len(inner) : SameLetters(inner[i], split[i])
    BY <2>8, <2>9, <2>10
  <2>12. SameLetters(FlattenSeq(inner), FlattenSeq(split))
    BY <2>11, FlattenSame
  <2>13. SplitTableRow(cells) = split
    <3>1. SplitTableRow(cells) = [i \in DOMAIN inner |-> Trim(inner[i])]
      BY <1>2, <2>3, <2>4 DEF SplitTableRow
    <3>. QED
      BY <2>8, <2>10, <3>1
  <2>. QED
    BY <2>7, <2>12, <2>13 DEF SameLetters
<1>. QED
  BY <1>1, <1>2

\* A separator row says nothing.
LEMMA SeparatorSame ==
  ASSUME NEW cells \in Seq(Seq(Int)), IsSeparatorRow(SplitTableRow(cells))
  PROVE  SameLetters(FlattenSeq(cells), << >>)
<1>1. PICK split \in Seq(Seq(Int)) : split = SplitTableRow(cells)
  BY SplitType
<1>2. Dash \notin Letter
  BY DEF Dash, Letter
<1>3. \A i \in 1 .. Len(split) : ToSet(split[i]) \cap Letter = {}
  BY <1>1, <1>2 DEF IsSeparatorRow
<1>4. SameLetters(FlattenSeq(split), << >>)
  BY <1>3, FlattenNoLetters
<1>. QED
  BY <1>1, <1>4, SplitSame DEF SameLetters

--------------------------------------------------------------------------------
\* What the rows of a table say.

\* A header and a value.
Pair(header, cell) == header \o <<Colon>> \o cell

LEMMA PairConveys ==
  ASSUME NEW header \in Seq(Int), NEW cell \in Seq(Int), NEW headers,
         ToSet(header) \cap Letter \subseteq headers
  PROVE  /\ Pair(header, cell) \in Seq(Int)
         /\ Conveys(cell, Pair(header, cell), headers)
         /\ ToSet(header) \subseteq ToSet(Pair(header, cell))
<1>1. PICK colon \in Seq(Int) : colon = <<Colon>>
  <2>1. Colon \in Int /\ <<Colon>> \in Seq(Int)
    BY DEF Colon
  <2>. QED
    BY <2>1
<1>2. PICK front \in Seq(Int) : front = header \o colon
  BY ConcatProperties
<1>3. ToSet(front) = ToSet(header) \cup ToSet(colon)
  BY <1>2, ConcatSet
<1>4. ToSet(front) \cap (Letter \ headers) = {}
  <2>1. ToSet(colon) = {Colon} /\ Colon \notin Letter
    BY <1>1 DEF ToSet, Colon, Letter
  <2>. QED
    BY <1>3, <2>1
<1>5. Conveys(<< >>, front, headers)
  <2>1. Selection(front, Letter \ headers) = << >>
    BY <1>4, NothingSelected
  <2>2. PICK r \in Seq(Letter) : r = Selection(front, Letter)
    BY SelectionType
  <2>3. IsThinned(<< >>, r)
    BY NothingIsThinned
  <2>. QED
    BY <2>1, <2>2, <2>3, SelectionOfNothing DEF Conveys
<1>6. << >> \in Seq(Int) /\ << >> \o cell = cell
  OBVIOUS
<1>7. Conveys(cell, cell, headers)
  BY ConveysSelf
<1>8. Conveys(<< >> \o cell, front \o cell, headers)
  BY <1>5, <1>6, <1>7, ConveysConcat
<1>9. ToSet(front \o cell) = ToSet(front) \cup ToSet(cell) /\ front \o cell \in Seq(Int)
  BY ConcatSet, ConcatProperties
<1>. QED
  BY <1>1, <1>2, <1>3, <1>6, <1>8, <1>9 DEF Pair

\* A row without headers says what its cells say, one with headers says that, too, and
\* what its headers say.
LEMMA RowConveys ==
  ASSUME NEW cells \in Seq(Seq(Int)), NEW headers \in Seq(Seq(Int)), NEW letters,
         headers # << >> => Len(headers) = Len(cells),
         \A i \in 1 .. Len(headers) : ToSet(headers[i]) \cap Letter \subseteq letters
  PROVE  /\ Conveys(FlattenSeq(cells), FormatTableRow(cells, headers), letters)
         /\ \A i \in 1 .. Len(headers) :
               Letter \cap ToSet(headers[i]) \subseteq ToSet(FormatTableRow(cells, headers))
<1>1. Dot \in Int \ Letter
  BY DEF Dot, Letter
<1>2. FlattenSeq(cells) \in Seq(Int) /\ FormatTableRow(cells, headers) \in Seq(Int)
  BY FlattenType, FormatRowType
<1>3. CASE headers = << >>
  <2>1. FormatTableRow(cells, headers) = Joined(cells, Dot)
    BY <1>3 DEF FormatTableRow
  <2>2. SameLetters(FlattenSeq(cells), FormatTableRow(cells, headers))
    BY <1>1, <2>1, JoinedSame DEF SameLetters
  <2>3. 1 .. Len(headers) = {}
    BY <1>3
  <2>. QED
    BY <1>2, <2>2, <2>3, SameConveys
<1>4. CASE headers # << >>
  <2>1. PICK n \in Nat : n = Len(headers) /\ n = Len(cells)
    BY <1>4
  <2>2. Min({Len(headers), Len(cells)}) = n
    <3>1. {Len(headers), Len(cells)} = {n} /\ {n} \subseteq Nat /\ {n} # {}
      BY <2>1
    <3>2. Min({n}) \in {n}
      BY <3>1, MinIs
    <3>. QED
      BY <3>1, <3>2
  <2>3. \A i \in 1 .. n : /\ headers[i] \in Seq(Int) /\ cells[i] \in Seq(Int)
                          /\ ToSet(headers[i]) \cap Letter \subseteq letters
    <3>1. SUFFICES ASSUME NEW i \in 1 .. n
                   PROVE  /\ headers[i] \in Seq(Int) /\ cells[i] \in Seq(Int)
                          /\ ToSet(headers[i]) \cap Letter \subseteq letters
      OBVIOUS
    <3>2. i \in 1 .. Len(headers) /\ i \in 1 .. Len(cells)
      BY <2>1
    <3>3. headers[i] \in Seq(Int) /\ cells[i] \in Seq(Int)
      BY <3>2
    <3>. QED
      BY <3>2, <3>3
  <2>4. \A i \in 1 .. n : /\ Pair(headers[i], cells[i]) \in Seq(Int)
                          /\ Conveys(cells[i], Pair(headers[i], cells[i]), letters)
                          /\ ToSet(headers[i]) \subseteq ToSet(Pair(headers[i], cells[i]))
    BY <2>3, PairConveys
  <2>5. PICK pairs \in Seq(Seq(Int)) : pairs = [i \in 1 .. n |-> Pair(headers[i], cells[i])]
    <3>1. [i \in 1 .. n |-> Pair(headers[i], cells[i])] \in Seq(Seq(Int))
      BY <2>4, IsASeq
    <3>. QED
      BY <3>1
  <2>6. /\ Len(pairs) = n /\ DOMAIN pairs = 1 .. n
        /\ \A i \in 1 .. n : pairs[i] = Pair(headers[i], cells[i])
    BY <2>5
  <2>7. Conveys(FlattenSeq(cells), FlattenSeq(pairs), letters)
    BY <2>1, <2>4, <2>6, FlattenConveys
  <2>8. FormatTableRow(cells, headers) = Joined(pairs, Dot)
    BY <1>4, <2>2, <2>5 DEF FormatTableRow, Pair
  <2>9. SameLetters(FormatTableRow(cells, headers), FlattenSeq(pairs))
    BY <1>1, <2>8, JoinedSame
  <2>10. SameLetters(FlattenSeq(cells), FlattenSeq(cells))
    BY DEF SameLetters
  <2>11. FlattenSeq(pairs) \in Seq(Int)
    BY FlattenType
  <2>12. ASSUME NEW i \in 1 .. Len(headers), NEW c \in Letter, c \in ToSet(headers[i])
         PROVE  c \in ToSet(FormatTableRow(cells, headers))
    <3>1. i \in 1 .. n /\ c \in ToSet(pairs[i]) /\ pairs[i] \in ToSet(pairs)
      <4>1. i \in 1 .. n
        BY <2>1
      <4>2. c \in ToSet(pairs[i])
        BY <2>4, <2>6, <2>12, <4>1
      <4>3. pairs[i] \in ToSet(pairs)
        BY <2>6, <4>1 DEF ToSet
      <4>. QED
        BY <4>1, <4>2, <4>3
    <3>2. c \in Members(pairs)
      BY <3>1 DEF Members
    <3>3. c \in ToSet(FlattenSeq(pairs))
      BY <3>2, FlattenedSet
    <3>. QED
      BY <1>2, <2>9, <2>11, <3>3, LetterStays
  <2>13. Conveys(FlattenSeq(cells), FormatTableRow(cells, headers), letters)
    BY <2>7, <2>9, <2>10, ConveysAlike
  <2>. QED
    BY <2>12, <2>13
<1>. QED
  BY <1>3, <1>4

\* The letters of the parts of a row, between the bars and in the whole of it.
LEMMA CellLetters ==
  ASSUME NEW cells \in Seq(Seq(Int)), NEW c \in Letter
  PROVE  c \in ToSet(FlattenSeq(cells)) <=>
         \E i \in 1 .. Len(SplitTableRow(cells)) : c \in ToSet(SplitTableRow(cells)[i])
<1>1. PICK split \in Seq(Seq(Int)) : split = SplitTableRow(cells)
  BY SplitType
<1>2. FlattenSeq(cells) \in Seq(Int) /\ FlattenSeq(split) \in Seq(Int)
  BY FlattenType
<1>3. c \in ToSet(FlattenSeq(cells)) <=> c \in ToSet(FlattenSeq(split))
  BY <1>1, <1>2, SplitSame, LetterStays
<1>4. ToSet(FlattenSeq(split)) = Members(split)
  BY FlattenedSet
<1>5. c \in Members(split) <=> \E i \in 1 .. Len(split) : c \in ToSet(split[i])
  <2>1. DOMAIN split = 1 .. Len(split)
    OBVIOUS
  <2>2. ASSUME c \in Members(split) PROVE \E i \in 1 .. Len(split) : c \in ToSet(split[i])
    <3>1. PICK s \in ToSet(split) : c \in ToSet(s)
      BY <2>2 DEF Members
    <3>2. PICK i \in DOMAIN split : s = split[i]
      BY DEF ToSet
    <3>. QED
      BY <2>1, <3>1, <3>2
  <2>3. ASSUME NEW i \in 1 .. Len(split), c \in ToSet(split[i]) PROVE c \in Members(split)
    <3>1. split[i] \in ToSet(split)
      BY <2>1 DEF ToSet
    <3>. QED
      BY <2>3, <3>1 DEF Members
  <2>. QED
    BY <2>2, <2>3
<1>. QED
  BY <1>1, <1>3, <1>4, <1>5

--------------------------------------------------------------------------------
\* From the lines of a reply to its text.

\* What the lines say that are not headers, line by line.
Others(lines) == [i \in DOMAIN lines |->
                     IF i \in DOMAIN lines \ Headers(lines) THEN Source(lines[i]) ELSE << >>]

HeaderLetters(lines) == Letter \cap ToSet(SourceOf(lines, Headers(lines)))

LEMMA SourceType ==
  ASSUME NEW line \in Line
  PROVE  /\ Source(line) \in Seq(Int)
         /\ IsRow(line) => line.cells \in Seq(Seq(Int)) /\ Source(line) = FlattenSeq(line.cells)
         /\ ~IsRow(line) => line.text \in Seq(Int) /\ Source(line) = line.text
<1>1. CASE IsRow(line)
  <2>1. line.cells \in Seq(Seq(Int))
    BY <1>1 DEF IsRow, Line
  <2>2. FlattenSeq(line.cells) \in Seq(Int)
    BY <2>1, FlattenType
  <2>. QED
    BY <1>1, <2>1, <2>2 DEF Source
<1>2. CASE ~IsRow(line)
  <2>1. line.text \in Seq(Int)
    BY <1>2 DEF IsRow, Line
  <2>. QED
    BY <1>2, <2>1 DEF Source
<1>. QED
  BY <1>1, <1>2

LEMMA SourcesType ==
  ASSUME NEW lines \in Seq(Line), NEW places
  PROVE  LET pieces == [i \in DOMAIN lines |-> IF i \in places THEN Source(lines[i]) ELSE << >>]
         IN  /\ pieces \in Seq(Seq(Int))
             /\ Len(pieces) = Len(lines)
<1> DEFINE Piece(i) == IF i \in places THEN Source(lines[i]) ELSE << >>
<1>1. DOMAIN lines = 1 .. Len(lines) /\ Len(lines) \in Nat
  OBVIOUS
<1>2. \A i \in 1 .. Len(lines) : Piece(i) \in Seq(Int)
  <2>1. SUFFICES ASSUME NEW i \in 1 .. Len(lines) PROVE Piece(i) \in Seq(Int)
    OBVIOUS
  <2>2. Source(lines[i]) \in Seq(Int) /\ << >> \in Seq(Int)
    BY SourceType
  <2>. QED
    BY <2>2
<1>. HIDE DEF Piece
<1>3. [i \in 1 .. Len(lines) |-> Piece(i)] \in Seq(Seq(Int))
  BY <1>1, <1>2, IsASeq
<1>4. Len([i \in 1 .. Len(lines) |-> Piece(i)]) = Len(lines)
  BY <1>1
<1>. QED
  BY <1>1, <1>3, <1>4 DEF Piece

LEMMA OthersAre ==
  ASSUME NEW lines \in Seq(Line)
  PROVE  /\ Others(lines) \in Seq(Seq(Int)) /\ Len(Others(lines)) = Len(lines)
         /\ SourceOf(lines, DOMAIN lines \ Headers(lines)) = FlattenSeq(Others(lines))
         /\ \A i \in 1 .. Len(lines) :
               Others(lines)[i] = IF i \in Headers(lines) THEN << >> ELSE Source(lines[i])
<1>1. Others(lines) \in Seq(Seq(Int)) /\ Len(Others(lines)) = Len(lines)
  BY SourcesType DEF Others
<1>2. DOMAIN lines = 1 .. Len(lines)
  OBVIOUS
<1>. QED
  BY <1>1, <1>2 DEF Others, SourceOf

\* The letters of the headers are those of the lines that are headers.
LEMMA HeaderLettersAre ==
  ASSUME NEW lines \in Seq(Line), NEW c \in Letter
  PROVE  c \in HeaderLetters(lines) <=> \E i \in Headers(lines) : c \in ToSet(Source(lines[i]))
<1>1. PICK pieces \in Seq(Seq(Int)) :
          pieces = [i \in DOMAIN lines |-> IF i \in Headers(lines) THEN Source(lines[i]) ELSE << >>]
  <2>1. [i \in DOMAIN lines |-> IF i \in Headers(lines) THEN Source(lines[i]) ELSE << >>]
            \in Seq(Seq(Int))
    BY SourcesType
  <2>. QED
    BY <2>1
<1>2. /\ DOMAIN pieces = DOMAIN lines
      /\ \A i \in DOMAIN lines :
            pieces[i] = IF i \in Headers(lines) THEN Source(lines[i]) ELSE << >>
  BY <1>1
<1>3. c \in HeaderLetters(lines) <=> c \in Members(pieces)
  <2>1. SourceOf(lines, Headers(lines)) = FlattenSeq(pieces)
    BY <1>1 DEF SourceOf
  <2>2. ToSet(FlattenSeq(pieces)) = Members(pieces)
    BY FlattenedSet
  <2>. QED
    BY <2>1, <2>2 DEF HeaderLetters
<1>4. ASSUME c \in Members(pieces) PROVE \E i \in Headers(lines) : c \in ToSet(Source(lines[i]))
  <2>1. PICK s \in ToSet(pieces) : c \in ToSet(s)
    BY <1>4 DEF Members
  <2>2. PICK i \in DOMAIN pieces : s = pieces[i]
    BY DEF ToSet
  <2>3. ToSet(<< >>) = {}
    BY DEF ToSet
  <2>. QED
    BY <1>2, <2>1, <2>2, <2>3
<1>5. ASSUME NEW i \in Headers(lines), c \in ToSet(Source(lines[i])) PROVE c \in Members(pieces)
  <2>1. i \in DOMAIN lines /\ pieces[i] = Source(lines[i])
    BY <1>2 DEF Headers
  <2>2. pieces[i] \in ToSet(pieces)
    BY <1>2, <2>1 DEF ToSet
  <2>. QED
    BY <1>5, <2>1, <2>2 DEF Members
<1>. QED
  BY <1>3, <1>4, <1>5

\* The lines up to b are formatted, and so is what they say.
Told(lines, b, formatted) ==
    /\ formatted \in Seq(Seq(Int))
    /\ Conveys(FlattenSeq(SubSeq(Others(lines), 1, b)), FlattenSeq(formatted), HeaderLetters(lines))
    /\ \A i \in Headers(lines) : i <= b =>
          Letter \cap ToSet(Source(lines[i])) \subseteq ToSet(FlattenSeq(formatted))

\* The lines after b, up to n, are the rows of a table so far.
Collected(lines, b, n, table) ==
    /\ n \in 0 .. Len(lines) /\ b \in 0 .. n
    /\ b # 0 => ~IsRow(lines[b])
    /\ table \in Seq(Seq(Seq(Int))) /\ Len(table) = n - b
    /\ \A i \in 1 .. n - b : IsRow(lines[b + i]) /\ table[i] = lines[b + i].cells

\* No table goes on behind line n.
Ends(lines, n) == n = Len(lines) \/ ~IsRow(lines[n + 1])

\* Where the table ends after n, its first row is a header if a separator comes next;
\* there are values then, as many in a row as headers.  No other row is a header.
LEMMA TableHeads ==
  ASSUME NEW lines \in Seq(Line), WellFormed(lines), NEW n \in Nat, NEW b \in Nat, NEW table,
         Collected(lines, b, n, table), Ends(lines, n)
  PROVE  /\ b + 1 \in Headers(lines) <=>
               n - b >= 2 /\ IsSeparatorRow(SplitTableRow(lines[b + 2].cells))
         /\ \A i \in b + 2 .. n : i \notin Headers(lines)
         /\ b + 1 \in Headers(lines) =>
               /\ n - b >= 3
               /\ \A i \in b + 3 .. n :
                     Len(SplitTableRow(lines[i].cells)) = Len(SplitTableRow(lines[b + 1].cells))
<1>1. /\ DOMAIN lines = 1 .. Len(lines) /\ Len(lines) \in Nat /\ n \in Nat /\ b \in Nat
      /\ b <= n /\ n <= Len(lines)
  BY DEF Collected
<1>2. \A i \in b + 1 .. n : i \in DOMAIN lines /\ IsRow(lines[i])
  <2>1. SUFFICES ASSUME NEW i \in b + 1 .. n PROVE i \in DOMAIN lines /\ IsRow(lines[i])
    OBVIOUS
  <2>2. i - b \in 1 .. n - b /\ b + (i - b) = i /\ i \in DOMAIN lines
    BY <1>1
  <2>. QED
    BY <2>2 DEF Collected
<1>3. \A i \in Nat : SameTable(lines, b + 1, i) => i <= n
  <2>1. SUFFICES ASSUME NEW i \in Nat, SameTable(lines, b + 1, i), ~(i <= n) PROVE FALSE
    OBVIOUS
  <2>2. n + 1 \in b + 1 .. i
    BY <1>1, <2>1
  <2>3. n + 1 \in DOMAIN lines /\ IsRow(lines[n + 1])
    BY <2>1, <2>2 DEF SameTable
  <2>. QED
    BY <1>1, <2>3 DEF Ends
<1>4. \A i \in b + 1 .. n : SameTable(lines, b + 1, i)
  <2>1. SUFFICES ASSUME NEW i \in b + 1 .. n PROVE SameTable(lines, b + 1, i)
    OBVIOUS
  <2>2. b + 1 <= i /\ b + 1 .. i \subseteq b + 1 .. n
    BY <1>1
  <2>. QED
    BY <1>2, <2>2 DEF SameTable
<1>5. ASSUME b + 1 \in Headers(lines)
      PROVE  /\ n - b >= 3 /\ IsSeparatorRow(SplitTableRow(lines[b + 2].cells))
             /\ \A i \in b + 3 .. n :
                   Len(SplitTableRow(lines[i].cells)) = Len(SplitTableRow(lines[b + 1].cells))
  <2>1. b + 1 \in DOMAIN lines /\ IsHeader(lines, b + 1)
    BY <1>5 DEF Headers
  <2>2. /\ IsSeparatorRow(SplitTableRow(lines[(b + 1) + 1].cells))
        /\ SameTable(lines, b + 1, (b + 1) + 2)
        /\ \A j \in (b + 1) + 2 .. Len(lines) : SameTable(lines, b + 1, j) =>
              Len(SplitTableRow(lines[j].cells)) = Len(SplitTableRow(lines[b + 1].cells))
    BY <2>1 DEF WellFormed, IsHeader
  <2>3. (b + 1) + 1 = b + 2 /\ (b + 1) + 2 = b + 3 /\ b + 3 \in Nat
    BY <1>1
  <2>4. b + 3 <= n
    BY <1>3, <2>2, <2>3
  <2>5. \A i \in b + 3 .. n : i \in b + 3 .. Len(lines) /\ i \in b + 1 .. n
    BY <1>1
  <2>. QED
    BY <1>1, <1>4, <2>2, <2>3, <2>4, <2>5
<1>6. ASSUME n - b >= 2, IsSeparatorRow(SplitTableRow(lines[b + 2].cells))
      PROVE  b + 1 \in Headers(lines)
  <2>1. b + 1 \in b + 1 .. n /\ b + 2 \in b + 1 .. n /\ (b + 1) + 1 = b + 2 /\ (b + 1) - 1 = b
    BY <1>1, <1>6
  <2>2. SameTable(lines, b + 1, (b + 1) + 1)
    BY <1>4, <2>1
  <2>3. b + 1 > 1 => ~IsRow(lines[(b + 1) - 1])
    BY <1>1, <2>1 DEF Collected
  <2>. QED
    BY <1>2, <1>6, <2>1, <2>2, <2>3 DEF Headers, IsHeader
<1>7. ASSUME NEW i \in b + 2 .. n PROVE i \notin Headers(lines)
  <2>1. i - 1 \in b + 1 .. n /\ i > 1
    BY <1>1
  <2>. QED
    BY <1>2, <2>1 DEF Headers, IsHeader
<1>8. n - b >= 3 => n - b >= 2
  BY <1>1
<1>. QED
  BY <1>5, <1>6, <1>7, <1>8

\* Pieces of which the first two say nothing.
LEMMA SkipTwo ==
  ASSUME NEW pieces \in Seq(Seq(Int)), NEW added \in Seq(Seq(Int)), NEW letters,
         Len(pieces) = Len(added) + 2,
         SameLetters(pieces[1], << >>), SameLetters(pieces[2], << >>),
         \A i \in 1 .. Len(added) : Conveys(pieces[i + 2], added[i], letters)
  PROVE  Conveys(FlattenSeq(pieces), FlattenSeq(added), letters)
<1>1. PICK n \in Nat : n = Len(added) /\ Len(pieces) = n + 2
  OBVIOUS
<1>2. \A i \in 1 .. n + 2 : pieces[i] \in Seq(Int)
  BY <1>1
<1>3. PICK first \in Seq(Seq(Int)) :
          /\ first = SubSeq(pieces, 1, 2) /\ Len(first) = 2
          /\ first[1] = pieces[1] /\ first[2] = pieces[2]
  <2>1. \A i \in 1 .. 2 : pieces[i] \in Seq(Int)
    BY <1>2
  <2>2. /\ SubSeq(pieces, 1, 2) \in Seq(Seq(Int))
        /\ Len(SubSeq(pieces, 1, 2)) = IF 1 <= 2 THEN 2 - 1 + 1 ELSE 0
        /\ \A i \in 1 .. 2 - 1 + 1 : SubSeq(pieces, 1, 2)[i] = pieces[1 + i - 1]
    BY <2>1, SubSeqProperties
  <2>3. /\ (IF 1 <= 2 THEN 2 - 1 + 1 ELSE 0) = 2 /\ 1 \in 1 .. 2 - 1 + 1 /\ 2 \in 1 .. 2 - 1 + 1
        /\ 1 + 1 - 1 = 1 /\ 1 + 2 - 1 = 2
    OBVIOUS
  <2>4. SubSeq(pieces, 1, 2)[1] = pieces[1 + 1 - 1] /\ SubSeq(pieces, 1, 2)[2] = pieces[1 + 2 - 1]
    BY <2>2, <2>3
  <2>. QED
    BY <2>2, <2>3, <2>4
<1>4. PICK rest \in Seq(Seq(Int)) :
          /\ rest = SubSeq(pieces, 3, n + 2) /\ Len(rest) = n
          /\ \A i \in 1 .. n : rest[i] = pieces[i + 2]
  <2>1. \A i \in 3 .. n + 2 : pieces[i] \in Seq(Int)
    BY <1>2
  <2>2. n + 2 \in Int /\ 3 \in Int
    BY <1>1
  <2>3. /\ SubSeq(pieces, 3, n + 2) \in Seq(Seq(Int))
        /\ Len(SubSeq(pieces, 3, n + 2)) = IF 3 <= n + 2 THEN (n + 2) - 3 + 1 ELSE 0
        /\ \A i \in 1 .. (n + 2) - 3 + 1 : SubSeq(pieces, 3, n + 2)[i] = pieces[3 + i - 1]
    BY <2>1, <2>2, SubSeqProperties
  <2>4. /\ (IF 3 <= n + 2 THEN (n + 2) - 3 + 1 ELSE 0) = n /\ (n + 2) - 3 + 1 = n
        /\ \A i \in 1 .. n : 3 + i - 1 = i + 2
    BY <1>1
  <2>5. ASSUME NEW i \in 1 .. n PROVE SubSeq(pieces, 3, n + 2)[i] = pieces[i + 2]
    <3>1. i \in 1 .. (n + 2) - 3 + 1 /\ 3 + i - 1 = i + 2
      BY <2>4
    <3>2. SubSeq(pieces, 3, n + 2)[i] = pieces[3 + i - 1]
      BY <2>3, <3>1
    <3>. QED
      BY <3>1, <3>2
  <2>6. Len(SubSeq(pieces, 3, n + 2)) = n
    BY <2>3, <2>4
  <2>. QED
    BY <2>3, <2>5, <2>6
<1>5. pieces = first \o rest
  <2>1. 1 \in 1 .. Len(pieces) + 1 /\ 2 \in 1 - 1 .. Len(pieces) /\ Len(pieces) \in 2 .. Len(pieces)
    BY <1>1
  <2>2. SubSeq(pieces, 1, 2) \o SubSeq(pieces, 2 + 1, Len(pieces)) = SubSeq(pieces, 1, Len(pieces))
    BY <2>1, ConcatAdjacentSubSeq
  <2>3. SubSeq(pieces, 1, Len(pieces)) = pieces
    BY SubSeqFull
  <2>4. 2 + 1 = 3
    OBVIOUS
  <2>. QED
    BY <1>1, <1>3, <1>4, <2>2, <2>3, <2>4
<1>6. FlattenSeq(pieces) = FlattenSeq(first) \o FlattenSeq(rest)
  BY <1>5, FlattenConcat
<1>7. Conveys(FlattenSeq(rest), FlattenSeq(added), letters)
  <2>1. Len(rest) = Len(added) /\ \A i \in 1 .. Len(rest) : Conveys(rest[i], added[i], letters)
    BY <1>1, <1>4
  <2>. QED
    BY <2>1, FlattenConveys
<1>8. PICK s, t, v \in Seq(Int) : s = FlattenSeq(first) /\ t = FlattenSeq(rest) /\ v = FlattenSeq(added)
  BY FlattenType
<1>9. Conveys(s, << >>, letters)
  <2>1. PICK none \in Seq(Seq(Int)) : none = << << >>, << >> >> /\ Len(none) = 2 /\ FlattenSeq(none) = << >>
    <3>1. << >> \in Seq(Int) /\ << << >> >> \in Seq(Seq(Int)) /\ << >> \in Seq(Seq(Int))
      OBVIOUS
    <3>2. << << >>, << >> >> \in Seq(Seq(Int)) /\ Len(<< << >>, << >> >>) = 2
      BY <3>1
    <3>3. << << >>, << >> >> = Append(<< << >> >>, << >>) /\ << << >> >> = Append(<< >>, << >>)
      OBVIOUS
    <3>4. /\ FlattenSeq(Append(<< >>, << >>)) = FlattenSeq(<< >>) \o << >>
          /\ FlattenSeq(Append(<< << >> >>, << >>)) = FlattenSeq(<< << >> >>) \o << >>
      BY <3>1, FlattenAppend
    <3>5. << >> \o << >> = << >>
      OBVIOUS
    <3>. QED
      BY <3>2, <3>3, <3>4, <3>5, FlattenOfNothing
  <2>2. \A i \in 1 .. Len(first) : SameLetters(first[i], none[i])
    <3>1. none[1] = << >> /\ none[2] = << >>
      BY <2>1
    <3>2. \A i \in 1 .. 2 : i = 1 \/ i = 2
      OBVIOUS
    <3>. QED
      BY <1>3, <3>1, <3>2
  <2>3. SameLetters(FlattenSeq(first), FlattenSeq(none))
    BY <1>3, <2>1, <2>2, FlattenSame
  <2>4. << >> \in Seq(Int)
    OBVIOUS
  <2>. QED
    BY <1>8, <2>1, <2>3, <2>4, SameConveys
<1>10. Conveys(s \o t, << >> \o v, letters)
  <2>1. << >> \in Seq(Int)
    OBVIOUS
  <2>. QED
    BY <1>7, <1>8, <1>9, <2>1, ConveysConcat
<1>11. << >> \o v = v
  OBVIOUS
<1>. QED
  BY <1>6, <1>8, <1>10, <1>11

\* A row of a table, bars and all, is what its line conveys.
LEMMA CellsConvey ==
  ASSUME NEW cells \in Seq(Seq(Int)), NEW headers \in Seq(Seq(Int)), NEW letters,
         headers # << >> => Len(headers) = Len(SplitTableRow(cells)),
         \A i \in 1 .. Len(headers) : ToSet(headers[i]) \cap Letter \subseteq letters
  PROVE  /\ FormatTableRow(SplitTableRow(cells), headers) \in Seq(Int)
         /\ Conveys(FlattenSeq(cells), FormatTableRow(SplitTableRow(cells), headers), letters)
         /\ \A i \in 1 .. Len(headers) :
               Letter \cap ToSet(headers[i]) \subseteq ToSet(FormatTableRow(SplitTableRow(cells), headers))
<1>1. PICK split \in Seq(Seq(Int)) : split = SplitTableRow(cells)
  BY SplitType
<1>2. headers # << >> => Len(headers) = Len(split)
  BY <1>1
<1>3. /\ Conveys(FlattenSeq(split), FormatTableRow(split, headers), letters)
      /\ \A i \in 1 .. Len(headers) :
            Letter \cap ToSet(headers[i]) \subseteq ToSet(FormatTableRow(split, headers))
  BY <1>2, RowConveys
<1>4. FormatTableRow(split, headers) \in Seq(Int)
  BY FormatRowType
<1>5. SameLetters(FlattenSeq(cells), FlattenSeq(split))
  BY <1>1, SplitSame
<1>6. SameLetters(FormatTableRow(split, headers), FormatTableRow(split, headers))
  BY DEF SameLetters
<1>7. Conveys(FlattenSeq(cells), FormatTableRow(split, headers), letters)
  BY <1>3, <1>5, <1>6, ConveysAlike
<1>. QED
  BY <1>1, <1>3, <1>4, <1>7

\* A table has a header if its second row is a separator.
Headed(table) == Len(table) >= 2 /\ IsSeparatorRow(SplitTableRow(table[2]))

\* What the rows of a table become, without a header and with one.
PlainRows(table) == [i \in 1 .. Len(table) |-> FormatTableRow(SplitTableRow(table[i]), << >>)]

ValueRows(table) ==
    [i \in 1 .. Len(table) - 2 |-> FormatTableRow(SplitTableRow(table[i + 2]), SplitTableRow(table[1]))]

LEMMA FlushIs ==
  ASSUME NEW acc \in Formatting
  PROVE  FlushTable(acc) =
            [formatted |-> acc.formatted \o (IF Headed(acc.table) THEN ValueRows(acc.table)
                                             ELSE PlainRows(acc.table)),
             table |-> << >>]
<1> DEFINE rows == [i \in DOMAIN acc.table |-> SplitTableRow(acc.table[i])]
           headed == Len(rows) >= 2 /\ IsSeparatorRow(rows[2])
           headers == IF headed THEN rows[1] ELSE << >>
           values == IF headed THEN SubSeq(rows, 3, Len(rows)) ELSE rows
           added == [i \in DOMAIN values |-> FormatTableRow(values[i], headers)]
<1>1. PICK n \in Nat : n = Len(acc.table) /\ DOMAIN acc.table = 1 .. n
  BY DEF Formatting
<1>2. FlushTable(acc) = [formatted |-> acc.formatted \o added, table |-> << >>]
  BY DEF FlushTable
<1>3. rows \in Seq(Seq(Seq(Int)))
  <2>1. \A i \in 1 .. n : SplitTableRow(acc.table[i]) \in Seq(Seq(Int))
    BY <1>1, SplitType DEF Formatting
  <2>. QED
    BY <1>1, <2>1, IsASeq
<1>4. /\ Len(rows) = n /\ DOMAIN rows = 1 .. n
      /\ \A i \in 1 .. n : rows[i] = SplitTableRow(acc.table[i])
  BY <1>1
<1>. HIDE DEF rows
<1>5. headed <=> Headed(acc.table)
  BY <1>1, <1>4 DEF Headed
<1>6. CASE ~Headed(acc.table)
  <2>1. headers = << >> /\ values = rows
    BY <1>5, <1>6
  <2>2. added = [i \in 1 .. n |-> FormatTableRow(rows[i], << >>)]
    BY <1>4, <2>1
  <2>3. added = PlainRows(acc.table)
    BY <1>1, <1>4, <2>2 DEF PlainRows
  <2>. QED
    BY <1>2, <1>6, <2>3
<1>7. CASE Headed(acc.table)
  <2>1. n >= 2 /\ headers = rows[1] /\ values = SubSeq(rows, 3, n)
    BY <1>1, <1>4, <1>5, <1>7 DEF Headed
  <2>2. /\ DOMAIN values = 1 .. n - 2
        /\ \A i \in 1 .. n - 2 : values[i] = rows[i + 2]
    <3>1. \A i \in 3 .. n : rows[i] \in Seq(Seq(Int))
      BY <1>3, <1>4
    <3>2. n \in Int /\ 3 \in Int
      OBVIOUS
    <3>3. /\ SubSeq(rows, 3, n) \in Seq(Seq(Seq(Int)))
          /\ Len(SubSeq(rows, 3, n)) = IF 3 <= n THEN n - 3 + 1 ELSE 0
          /\ \A i \in 1 .. n - 3 + 1 : SubSeq(rows, 3, n)[i] = rows[3 + i - 1]
      BY <3>1, <3>2, SubSeqProperties
    <3>4. (IF 3 <= n THEN n - 3 + 1 ELSE 0) = n - 2
      BY <2>1
    <3>5. DOMAIN SubSeq(rows, 3, n) = 1 .. Len(SubSeq(rows, 3, n))
      BY <3>3
    <3>6. ASSUME NEW i \in 1 .. n - 2 PROVE SubSeq(rows, 3, n)[i] = rows[i + 2]
      <4>1. i \in 1 .. n - 3 + 1 /\ 3 + i - 1 = i + 2
        BY <2>1
      <4>2. SubSeq(rows, 3, n)[i] = rows[3 + i - 1]
        BY <3>3, <4>1
      <4>. QED
        BY <4>1, <4>2
    <3>. QED
      BY <2>1, <3>3, <3>4, <3>5, <3>6
  <2>. HIDE DEF values, headers
  <2>3. added = [i \in 1 .. n - 2 |-> FormatTableRow(rows[i + 2], rows[1])]
    BY <2>1, <2>2
  <2>4. /\ rows[1] = SplitTableRow(acc.table[1])
        /\ \A i \in 1 .. n - 2 : rows[i + 2] = SplitTableRow(acc.table[i + 2])
    <3>1. 1 \in 1 .. n /\ \A i \in 1 .. n - 2 : i + 2 \in 1 .. n
      BY <2>1
    <3>. QED
      BY <1>4, <3>1
  <2>5. added = ValueRows(acc.table)
    BY <1>1, <2>3, <2>4 DEF ValueRows
  <2>. QED
    BY <1>2, <1>7, <2>5
<1>. QED
  BY <1>6, <1>7

LEMMA PlainConvey ==
  ASSUME NEW table \in Seq(Seq(Seq(Int))), NEW pieces \in Seq(Seq(Int)), NEW letters,
         Len(pieces) = Len(table), \A i \in 1 .. Len(table) : pieces[i] = FlattenSeq(table[i])
  PROVE  /\ PlainRows(table) \in Seq(Seq(Int))
         /\ Conveys(FlattenSeq(pieces), FlattenSeq(PlainRows(table)), letters)
<1> DEFINE Row(i) == FormatTableRow(SplitTableRow(table[i]), << >>)
<1>1. PICK n \in Nat : n = Len(table) /\ n = Len(pieces)
  OBVIOUS
<1>2. \A i \in 1 .. n : Row(i) \in Seq(Int) /\ Conveys(pieces[i], Row(i), letters)
  <2>1. SUFFICES ASSUME NEW i \in 1 .. n PROVE Row(i) \in Seq(Int) /\ Conveys(pieces[i], Row(i), letters)
    OBVIOUS
  <2>2. PICK cells \in Seq(Seq(Int)) : cells = table[i]
    BY <1>1
  <2>3. pieces[i] = FlattenSeq(cells)
    BY <1>1, <2>2
  <2>4. PICK headers \in Seq(Seq(Int)) : headers = << >> /\ 1 .. Len(headers) = {}
    <3>1. << >> \in Seq(Seq(Int)) /\ 1 .. Len(<< >>) = {}
      OBVIOUS
    <3>. QED
      BY <3>1
  <2>5. /\ FormatTableRow(SplitTableRow(cells), headers) \in Seq(Int)
        /\ Conveys(FlattenSeq(cells), FormatTableRow(SplitTableRow(cells), headers), letters)
    BY <2>4, CellsConvey
  <2>. QED
    BY <2>2, <2>3, <2>4, <2>5
<1>. HIDE DEF Row
<1>3. PICK rows \in Seq(Seq(Int)) : rows = [i \in 1 .. n |-> Row(i)]
  <2>1. [i \in 1 .. n |-> Row(i)] \in Seq(Seq(Int))
    BY <1>2, IsASeq
  <2>. QED
    BY <2>1
<1>4. PlainRows(table) = rows
  BY <1>1, <1>3 DEF PlainRows, Row
<1>5. Len(pieces) = Len(rows) /\ \A i \in 1 .. Len(pieces) : Conveys(pieces[i], rows[i], letters)
  BY <1>1, <1>2, <1>3
<1>6. Conveys(FlattenSeq(pieces), FlattenSeq(rows), letters)
  BY <1>5, FlattenConveys
<1>. QED
  BY <1>4, <1>6

\* With a header every value stands behind its header, so that the header is there, too.
LEMMA ValuesConvey ==
  ASSUME NEW table \in Seq(Seq(Seq(Int))), NEW pieces \in Seq(Seq(Int)), NEW letters,
         NEW n \in Nat, n = Len(table), Len(pieces) = n, n >= 3,
         IsSeparatorRow(SplitTableRow(table[2])),
         \A i \in 3 .. n : Len(SplitTableRow(table[i])) = Len(SplitTableRow(table[1])),
         Letter \cap ToSet(FlattenSeq(table[1])) \subseteq letters,
         pieces[1] = << >>, \A i \in 2 .. n : pieces[i] = FlattenSeq(table[i])
  PROVE  /\ ValueRows(table) \in Seq(Seq(Int))
         /\ Conveys(FlattenSeq(pieces), FlattenSeq(ValueRows(table)), letters)
         /\ Letter \cap ToSet(FlattenSeq(table[1])) \subseteq ToSet(FlattenSeq(ValueRows(table)))
<1> DEFINE Row(i) == FormatTableRow(SplitTableRow(table[i + 2]), SplitTableRow(table[1]))
<1>1. PICK z \in Nat : z = n - 2 /\ n = z + 2 /\ 1 \in 1 .. z
  <2>1. n - 2 \in Nat /\ n = (n - 2) + 2 /\ 1 \in 1 .. n - 2
    OBVIOUS
  <2>. QED
    BY <2>1
<1>2. \A i \in 1 .. n : table[i] \in Seq(Seq(Int))
  OBVIOUS
<1>3. PICK first \in Seq(Seq(Int)) : first = table[1]
  <2>1. 1 \in 1 .. n
    OBVIOUS
  <2>. QED
    BY <1>2, <2>1
<1>4. PICK headers \in Seq(Seq(Int)) : headers = SplitTableRow(first)
  BY SplitType
<1>5. \A c \in Letter : c \in ToSet(FlattenSeq(first)) <=>
                        \E i \in 1 .. Len(headers) : c \in ToSet(headers[i])
  BY <1>4, CellLetters
<1>6. \A i \in 1 .. Len(headers) : ToSet(headers[i]) \cap Letter \subseteq letters
  BY <1>3, <1>5
<1>7. \A i \in 1 .. z : /\ Row(i) \in Seq(Int) /\ Conveys(pieces[i + 2], Row(i), letters)
                        /\ \A j \in 1 .. Len(headers) :
                              Letter \cap ToSet(headers[j]) \subseteq ToSet(Row(i))
  <2>1. SUFFICES ASSUME NEW i \in 1 .. z
                 PROVE  /\ Row(i) \in Seq(Int) /\ Conveys(pieces[i + 2], Row(i), letters)
                        /\ \A j \in 1 .. Len(headers) :
                              Letter \cap ToSet(headers[j]) \subseteq ToSet(Row(i))
    OBVIOUS
  <2>2. i + 2 \in 3 .. n /\ i + 2 \in 2 .. n /\ i + 2 \in 1 .. n
    BY <1>1
  <2>3. PICK cells \in Seq(Seq(Int)) : cells = table[i + 2]
    BY <1>2, <2>2
  <2>4. pieces[i + 2] = FlattenSeq(cells) /\ Len(headers) = Len(SplitTableRow(cells))
    BY <1>3, <1>4, <2>2, <2>3
  <2>5. Row(i) = FormatTableRow(SplitTableRow(cells), headers)
    BY <1>3, <1>4, <2>3
  <2>. HIDE DEF Row
  <2>6. /\ FormatTableRow(SplitTableRow(cells), headers) \in Seq(Int)
        /\ Conveys(FlattenSeq(cells), FormatTableRow(SplitTableRow(cells), headers), letters)
        /\ \A j \in 1 .. Len(headers) :
              Letter \cap ToSet(headers[j]) \subseteq ToSet(FormatTableRow(SplitTableRow(cells), headers))
    BY <1>6, <2>4, CellsConvey
  <2>. QED
    BY <2>4, <2>5, <2>6
<1>. HIDE DEF Row
<1>8. PICK rows \in Seq(Seq(Int)) : rows = [i \in 1 .. z |-> Row(i)]
  <2>1. \A i \in 1 .. z : Row(i) \in Seq(Int)
    BY <1>7
  <2>2. [i \in 1 .. z |-> Row(i)] \in Seq(Seq(Int))
    BY <2>1, IsASeq
  <2>. QED
    BY <2>2
<1>9. ValueRows(table) = rows
  BY <1>1, <1>8 DEF ValueRows, Row
<1>10. Len(rows) = z /\ DOMAIN rows = 1 .. z /\ \A i \in 1 .. z : rows[i] = Row(i)
  BY <1>8
<1>11. SameLetters(pieces[1], << >>) /\ SameLetters(pieces[2], << >>)
  <2>1. 2 \in 1 .. n /\ 2 \in 2 .. n
    OBVIOUS
  <2>2. PICK second \in Seq(Seq(Int)) : second = table[2]
    BY <1>2, <2>1
  <2>3. pieces[2] = FlattenSeq(second) /\ IsSeparatorRow(SplitTableRow(second))
    BY <2>1, <2>2
  <2>4. SameLetters(FlattenSeq(second), << >>)
    BY <2>3, SeparatorSame
  <2>. QED
    BY <2>3, <2>4 DEF SameLetters
<1>12. Conveys(FlattenSeq(pieces), FlattenSeq(rows), letters)
  <2>1. Len(pieces) = Len(rows) + 2
    BY <1>1, <1>10
  <2>2. \A i \in 1 .. Len(rows) : Conveys(pieces[i + 2], rows[i], letters)
    BY <1>7, <1>10
  <2>. QED
    BY <1>11, <2>1, <2>2, SkipTwo
<1>13. ASSUME NEW c \in Letter, c \in ToSet(FlattenSeq(first))
       PROVE  c \in ToSet(FlattenSeq(rows))
  <2>1. PICK j \in 1 .. Len(headers) : c \in ToSet(headers[j])
    BY <1>5, <1>13
  <2>2. c \in ToSet(rows[1])
    BY <1>1, <1>7, <1>10, <2>1
  <2>3. rows[1] \in ToSet(rows)
    BY <1>1, <1>10 DEF ToSet
  <2>4. c \in Members(rows)
    BY <2>2, <2>3 DEF Members
  <2>. QED
    BY <2>4, FlattenedSet
<1>. QED
  BY <1>3, <1>9, <1>12, <1>13

\* Some of the pieces of a text, one after the other.
LEMMA Pieces ==
  ASSUME NEW all \in Seq(Seq(Int)), NEW b \in Nat, NEW n \in Nat, b <= n, n <= Len(all)
  PROVE  /\ SubSeq(all, b + 1, n) \in Seq(Seq(Int))
         /\ Len(SubSeq(all, b + 1, n)) = n - b
         /\ \A i \in 1 .. n - b : SubSeq(all, b + 1, n)[i] = all[b + i]
         /\ SubSeq(all, 1, b) \in Seq(Seq(Int))
         /\ SubSeq(all, 1, b) \o SubSeq(all, b + 1, n) = SubSeq(all, 1, n)
<1>1. Len(all) \in Nat /\ \A i \in 1 .. Len(all) : all[i] \in Seq(Int)
  OBVIOUS
<1>2. /\ SubSeq(all, b + 1, n) \in Seq(Seq(Int))
      /\ Len(SubSeq(all, b + 1, n)) = IF b + 1 <= n THEN n - (b + 1) + 1 ELSE 0
      /\ \A i \in 1 .. n - (b + 1) + 1 : SubSeq(all, b + 1, n)[i] = all[b + 1 + i - 1]
  <2>1. \A i \in b + 1 .. n : all[i] \in Seq(Int)
    BY <1>1
  <2>2. b + 1 \in Int /\ n \in Int
    OBVIOUS
  <2>. QED
    BY <2>1, <2>2, SubSeqProperties
<1>3. (IF b + 1 <= n THEN n - (b + 1) + 1 ELSE 0) = n - b
  OBVIOUS
<1>4. ASSUME NEW i \in 1 .. n - b PROVE SubSeq(all, b + 1, n)[i] = all[b + i]
  <2>1. i \in 1 .. n - (b + 1) + 1 /\ b + 1 + i - 1 = b + i
    OBVIOUS
  <2>2. SubSeq(all, b + 1, n)[i] = all[b + 1 + i - 1]
    BY <1>2, <2>1
  <2>. QED
    BY <2>1, <2>2
<1>5. SubSeq(all, 1, b) \in Seq(Seq(Int))
  <2>1. \A i \in 1 .. b : all[i] \in Seq(Int)
    BY <1>1
  <2>2. 1 \in Int /\ b \in Int
    OBVIOUS
  <2>. QED
    BY <2>1, <2>2, SubSeqProperties
<1>6. SubSeq(all, 1, b) \o SubSeq(all, b + 1, n) = SubSeq(all, 1, n)
  <2>1. 1 \in 1 .. Len(all) + 1 /\ b \in 1 - 1 .. Len(all) /\ n \in b .. Len(all)
    BY <1>1
  <2>. QED
    BY <2>1, ConcatAdjacentSubSeq
<1>. QED
  BY <1>2, <1>3, <1>4, <1>5, <1>6

\* What is formatted of further lines is told after what is told already.
LEMMA TellMore ==
  ASSUME NEW lines \in Seq(Line), NEW b \in Nat, NEW n \in Nat, b <= n, n <= Len(lines),
         NEW formatted, Told(lines, b, formatted), NEW added \in Seq(Seq(Int)),
         Conveys(FlattenSeq(SubSeq(Others(lines), b + 1, n)), FlattenSeq(added), HeaderLetters(lines)),
         \A i \in Headers(lines) : i \in b + 1 .. n =>
            Letter \cap ToSet(Source(lines[i])) \subseteq ToSet(FlattenSeq(added))
  PROVE  Told(lines, n, formatted \o added)
<1>1. PICK all \in Seq(Seq(Int)) : all = Others(lines) /\ Len(all) = Len(lines)
  BY OthersAre
<1>2. PICK done \in Seq(Seq(Int)) : done = formatted
  BY DEF Told
<1>3. /\ SubSeq(all, b + 1, n) \in Seq(Seq(Int)) /\ SubSeq(all, 1, b) \in Seq(Seq(Int))
      /\ SubSeq(all, 1, b) \o SubSeq(all, b + 1, n) = SubSeq(all, 1, n)
  BY <1>1, Pieces
<1>4. PICK p, q \in Seq(Seq(Int)) : p = SubSeq(all, 1, b) /\ q = SubSeq(all, b + 1, n)
  BY <1>3
<1>5. FlattenSeq(SubSeq(all, 1, n)) = FlattenSeq(p) \o FlattenSeq(q)
  <2>1. FlattenSeq(p \o q) = FlattenSeq(p) \o FlattenSeq(q)
    BY FlattenConcat
  <2>. QED
    BY <1>3, <1>4, <2>1
<1>6. FlattenSeq(done \o added) = FlattenSeq(done) \o FlattenSeq(added)
  BY FlattenConcat
<1>7. /\ FlattenSeq(p) \in Seq(Int) /\ FlattenSeq(q) \in Seq(Int)
      /\ FlattenSeq(done) \in Seq(Int) /\ FlattenSeq(added) \in Seq(Int)
  BY FlattenType
<1>8. /\ Conveys(FlattenSeq(p), FlattenSeq(done), HeaderLetters(lines))
      /\ Conveys(FlattenSeq(q), FlattenSeq(added), HeaderLetters(lines))
  BY <1>1, <1>2, <1>4 DEF Told
<1>9. Conveys(FlattenSeq(p) \o FlattenSeq(q), FlattenSeq(done) \o FlattenSeq(added),
              HeaderLetters(lines))
  BY <1>7, <1>8, ConveysConcat
<1>10. ToSet(FlattenSeq(done) \o FlattenSeq(added)) =
          ToSet(FlattenSeq(done)) \cup ToSet(FlattenSeq(added))
  BY <1>7, ConcatSet
<1>11. ASSUME NEW i \in Headers(lines), i <= n
       PROVE  Letter \cap ToSet(Source(lines[i])) \subseteq ToSet(FlattenSeq(done \o added))
  <2>1. i \in Nat /\ (i <= b \/ i \in b + 1 .. n)
    <3>1. i \in 1 .. Len(lines)
      BY DEF Headers
    <3>. QED
      BY <1>11, <3>1
  <2>2. CASE i <= b
    BY <1>2, <1>6, <1>10, <2>2 DEF Told
  <2>3. CASE i \in b + 1 .. n
    BY <1>6, <1>10, <2>3
  <2>. QED
    BY <2>1, <2>2, <2>3
<1>12. done \o added \in Seq(Seq(Int))
  BY ConcatProperties
<1>. QED
  BY <1>1, <1>2, <1>5, <1>6, <1>9, <1>11, <1>12 DEF Told

\* The pieces of a table that ends: nothing for its header, what the row says for a row.
LEMMA TablePieces ==
  ASSUME NEW lines \in Seq(Line), WellFormed(lines), NEW n \in Nat, NEW b \in Nat, NEW table,
         Collected(lines, b, n, table), Ends(lines, n)
  PROVE  /\ Headed(table) <=> b + 1 \in Headers(lines)
         /\ \A i \in Headers(lines) : i \in b + 1 .. n => i = b + 1
         /\ \A i \in 1 .. n - b : Others(lines)[b + i] =
               IF i = 1 /\ Headed(table) THEN << >> ELSE FlattenSeq(table[i])
         /\ Headed(table) =>
               /\ n - b >= 3
               /\ \A i \in 3 .. n - b :
                     Len(SplitTableRow(table[i])) = Len(SplitTableRow(table[1]))
               /\ Source(lines[b + 1]) = FlattenSeq(table[1])
               /\ Letter \cap ToSet(FlattenSeq(table[1])) \subseteq HeaderLetters(lines)
<1>1. PICK k \in Nat : k = n - b /\ n = b + k /\ k = Len(table)
  <2>1. n - b \in Nat /\ n = b + (n - b) /\ n - b = Len(table)
    BY DEF Collected
  <2>. QED
    BY <2>1
<1>2. \A i \in 1 .. k : b + i \in 1 .. Len(lines) /\ b + i \in b + 1 .. n
  BY <1>1 DEF Collected
<1>3. \A i \in 1 .. k : IsRow(lines[b + i]) /\ table[i] = lines[b + i].cells
  BY <1>1 DEF Collected
<1>4. /\ b + 1 \in Headers(lines) <=>
            k >= 2 /\ IsSeparatorRow(SplitTableRow(lines[b + 2].cells))
      /\ \A i \in b + 2 .. n : i \notin Headers(lines)
      /\ b + 1 \in Headers(lines) =>
            /\ k >= 3
            /\ \A i \in b + 3 .. n :
                  Len(SplitTableRow(lines[i].cells)) = Len(SplitTableRow(lines[b + 1].cells))
  BY <1>1, TableHeads
<1>5. Headed(table) <=> b + 1 \in Headers(lines)
  <2>1. k >= 2 => 2 \in 1 .. k
    OBVIOUS
  <2>. QED
    BY <1>1, <1>3, <1>4, <2>1 DEF Headed
<1>6. \A i \in Headers(lines) : i \in b + 1 .. n => i = b + 1
  <2>1. SUFFICES ASSUME NEW i \in b + 1 .. n, i # b + 1 PROVE i \notin Headers(lines)
    OBVIOUS
  <2>2. i \in b + 2 .. n
    BY <2>1
  <2>. QED
    BY <1>4, <2>2
<1>7. \A i \in 1 .. k : Source(lines[b + i]) = FlattenSeq(table[i])
  BY <1>3 DEF Source
<1>8. ASSUME NEW i \in 1 .. k
      PROVE  Others(lines)[b + i] = IF i = 1 /\ Headed(table) THEN << >> ELSE FlattenSeq(table[i])
  <2>1. Others(lines)[b + i] = IF b + i \in Headers(lines) THEN << >> ELSE Source(lines[b + i])
    BY <1>2, OthersAre
  <2>2. b + i \in Headers(lines) <=> i = 1 /\ Headed(table)
    <3>1. b + i = b + 1 => i = 1
      OBVIOUS
    <3>. QED
      BY <1>2, <1>5, <1>6, <3>1
  <2>. QED
    BY <1>7, <2>1, <2>2
<1>9. ASSUME Headed(table)
      PROVE  /\ k >= 3
             /\ \A i \in 3 .. k : Len(SplitTableRow(table[i])) = Len(SplitTableRow(table[1]))
             /\ Source(lines[b + 1]) = FlattenSeq(table[1])
             /\ Letter \cap ToSet(FlattenSeq(table[1])) \subseteq HeaderLetters(lines)
  <2>1. k >= 3 /\ b + 1 \in Headers(lines)
    BY <1>4, <1>5, <1>9
  <2>2. 1 \in 1 .. k
    BY <2>1
  <2>3. Source(lines[b + 1]) = FlattenSeq(table[1]) /\ table[1] = lines[b + 1].cells
    BY <1>3, <1>7, <2>2
  <2>4. ASSUME NEW i \in 3 .. k
        PROVE  Len(SplitTableRow(table[i])) = Len(SplitTableRow(table[1]))
    <3>1. b + i \in b + 3 .. n /\ i \in 1 .. k
      BY <1>1
    <3>. QED
      BY <1>3, <1>4, <2>1, <2>3, <3>1
  <2>5. \A c \in Letter : c \in ToSet(FlattenSeq(table[1])) => c \in HeaderLetters(lines)
    BY <2>1, <2>3, HeaderLettersAre
  <2>. QED
    BY <2>1, <2>3, <2>4, <2>5
<1>. QED
  BY <1>1, <1>5, <1>6, <1>8, <1>9

LEMMA TableTold ==
  ASSUME NEW lines \in Seq(Line), WellFormed(lines), NEW n \in Nat, NEW b \in Nat,
         NEW table \in Seq(Seq(Seq(Int))), NEW formatted, Told(lines, b, formatted),
         Collected(lines, b, n, table), Ends(lines, n)
  PROVE  Told(lines, n, formatted \o (IF Headed(table) THEN ValueRows(table) ELSE PlainRows(table)))
<1>5. /\ Headed(table) <=> b + 1 \in Headers(lines)
      /\ \A i \in Headers(lines) : i \in b + 1 .. n => i = b + 1
      /\ \A i \in 1 .. n - b : Others(lines)[b + i] =
            IF i = 1 /\ Headed(table) THEN << >> ELSE FlattenSeq(table[i])
      /\ Headed(table) =>
            /\ n - b >= 3
            /\ \A i \in 3 .. n - b :
                  Len(SplitTableRow(table[i])) = Len(SplitTableRow(table[1]))
            /\ Source(lines[b + 1]) = FlattenSeq(table[1])
            /\ Letter \cap ToSet(FlattenSeq(table[1])) \subseteq HeaderLetters(lines)
  BY TablePieces
<1>1. b <= n /\ n <= Len(lines) /\ Len(table) = n - b
  BY DEF Collected
<1>3. PICK all \in Seq(Seq(Int)) : all = Others(lines) /\ Len(all) = Len(lines)
  BY OthersAre
<1>4. PICK pieces \in Seq(Seq(Int)) :
          /\ pieces = SubSeq(all, b + 1, n) /\ Len(pieces) = n - b
          /\ \A i \in 1 .. n - b : pieces[i] = all[b + i]
  <2>1. /\ SubSeq(all, b + 1, n) \in Seq(Seq(Int)) /\ Len(SubSeq(all, b + 1, n)) = n - b
        /\ \A i \in 1 .. n - b : SubSeq(all, b + 1, n)[i] = all[b + i]
    BY <1>1, <1>3, Pieces
  <2>. QED
    BY <2>1
<1>7. CASE ~Headed(table)
  <2>1. Len(pieces) = Len(table) /\ \A i \in 1 .. Len(table) : pieces[i] = FlattenSeq(table[i])
    BY <1>1, <1>3, <1>4, <1>5, <1>7
  <2>2. /\ PlainRows(table) \in Seq(Seq(Int))
        /\ Conveys(FlattenSeq(pieces), FlattenSeq(PlainRows(table)), HeaderLetters(lines))
    BY <2>1, PlainConvey
  <2>3. \A i \in Headers(lines) : i \notin b + 1 .. n
    BY <1>5, <1>7
  <2>4. Told(lines, n, formatted \o PlainRows(table))
    BY <1>1, <1>3, <1>4, <2>2, <2>3, TellMore
  <2>. QED
    BY <1>7, <2>4
<1>8. CASE Headed(table)
  <2>1. PICK k \in Nat : k = n - b /\ k = Len(table) /\ k = Len(pieces)
    <3>1. n - b \in Nat
      BY <1>1
    <3>. QED
      BY <1>1, <1>4, <3>1
  <2>2. k >= 3 /\ 1 \in 1 .. k
    BY <1>5, <1>8, <2>1
  <2>3. IsSeparatorRow(SplitTableRow(table[2]))
    BY <1>8 DEF Headed
  <2>4. pieces[1] = << >> /\ \A i \in 2 .. k : pieces[i] = FlattenSeq(table[i])
    <3>1. \A i \in 2 .. k : i \in 1 .. k /\ i # 1
      OBVIOUS
    <3>2. \A i \in 1 .. k : pieces[i] = IF i = 1 THEN << >> ELSE FlattenSeq(table[i])
      BY <1>3, <1>4, <1>5, <1>8, <2>1
    <3>. QED
      BY <2>2, <3>1, <3>2
  <2>5. \A i \in 3 .. k : Len(SplitTableRow(table[i])) = Len(SplitTableRow(table[1]))
    BY <1>5, <1>8, <2>1
  <2>6. /\ ValueRows(table) \in Seq(Seq(Int))
        /\ Conveys(FlattenSeq(pieces), FlattenSeq(ValueRows(table)), HeaderLetters(lines))
        /\ Letter \cap ToSet(FlattenSeq(table[1])) \subseteq ToSet(FlattenSeq(ValueRows(table)))
    BY <1>5, <1>8, <2>1, <2>2, <2>3, <2>4, <2>5, ValuesConvey
  <2>7. \A i \in Headers(lines) : i \in b + 1 .. n =>
            Letter \cap ToSet(Source(lines[i])) \subseteq ToSet(FlattenSeq(ValueRows(table)))
    BY <1>5, <1>8, <2>6
  <2>8. Told(lines, n, formatted \o ValueRows(table))
    BY <1>1, <1>3, <1>4, <2>6, <2>7, TellMore
  <2>. QED
    BY <1>8, <2>8
<1>. QED
  BY <1>7, <1>8

\* Where a table ends, it is told.
LEMMA FlushTold ==
  ASSUME NEW lines \in Seq(Line), WellFormed(lines), NEW n \in Nat, NEW b \in Nat,
         NEW acc \in Formatting, Told(lines, b, acc.formatted),
         Collected(lines, b, n, acc.table), Ends(lines, n)
  PROVE  Told(lines, n, FlushTable(acc).formatted)
<1>1. PICK table \in Seq(Seq(Seq(Int))), formatted \in Seq(Seq(Int)) :
          table = acc.table /\ formatted = acc.formatted
  BY DEF Formatting
<1>2. Told(lines, n, formatted \o (IF Headed(table) THEN ValueRows(table) ELSE PlainRows(table)))
  BY <1>1, TableTold
<1>3. FlushTable(acc) =
         [formatted |-> acc.formatted \o (IF Headed(acc.table) THEN ValueRows(acc.table)
                                          ELSE PlainRows(acc.table)),
          table |-> << >>]
  BY FlushIs
<1>. QED
  BY <1>1, <1>2, <1>3

\* A line of text is told as it stands.
LEMMA LineTold ==
  ASSUME NEW lines \in Seq(Line), NEW n \in Nat, n + 1 <= Len(lines), ~IsRow(lines[n + 1]),
         NEW formatted, Told(lines, n, formatted),
         NEW text \in Seq(Int), SameLetters(lines[n + 1].text, text)
  PROVE  Told(lines, n + 1, Append(formatted, text))
<1>1. n + 1 \in 1 .. Len(lines) /\ lines[n + 1] \in Line
  OBVIOUS
<1>2. n + 1 \notin Headers(lines)
  <2>1. n + 1 \in n + 1 .. (n + 1) + 1
    OBVIOUS
  <2>. QED
    BY <2>1 DEF Headers, IsHeader, SameTable
<1>3. /\ lines[n + 1].text \in Seq(Int)
      /\ Others(lines)[n + 1] = lines[n + 1].text
  BY <1>1, <1>2, OthersAre, SourceType
<1>4. PICK all \in Seq(Seq(Int)) : all = Others(lines) /\ Len(all) = Len(lines)
  BY OthersAre
<1>5. PICK pieces \in Seq(Seq(Int)) :
          pieces = SubSeq(all, n + 1, n + 1) /\ Len(pieces) = 1 /\ pieces[1] = all[n + 1]
  <2>1. n + 1 \in Nat /\ n <= n + 1 /\ n + 1 <= Len(all) /\ (n + 1) - n = 1 /\ 1 \in 1 .. (n + 1) - n
    BY <1>4
  <2>2. /\ SubSeq(all, n + 1, n + 1) \in Seq(Seq(Int))
        /\ Len(SubSeq(all, n + 1, n + 1)) = (n + 1) - n
        /\ \A i \in 1 .. (n + 1) - n : SubSeq(all, n + 1, n + 1)[i] = all[n + i]
    BY <2>1, Pieces
  <2>. QED
    BY <2>1, <2>2
<1>6. PICK added \in Seq(Seq(Int)) : added = <<text>> /\ Len(added) = 1 /\ added[1] = text
  <2>1. <<text>> \in Seq(Seq(Int)) /\ Len(<<text>>) = 1 /\ <<text>>[1] = text
    OBVIOUS
  <2>. QED
    BY <2>1
<1>7. Conveys(FlattenSeq(pieces), FlattenSeq(added), HeaderLetters(lines))
  <2>1. Conveys(lines[n + 1].text, text, HeaderLetters(lines))
    BY <1>3, SameConveys
  <2>2. \A i \in 1 .. Len(pieces) : Conveys(pieces[i], added[i], HeaderLetters(lines))
    <3>1. \A i \in 1 .. Len(pieces) : i = 1
      BY <1>5
    <3>. QED
      BY <1>3, <1>4, <1>5, <1>6, <2>1, <3>1
  <2>. QED
    BY <1>5, <1>6, <2>2, FlattenConveys
<1>8. \A i \in Headers(lines) : i \notin n + 1 .. n + 1
  <2>1. \A i \in n + 1 .. n + 1 : i = n + 1
    OBVIOUS
  <2>. QED
    BY <1>2, <2>1
<1>9. Told(lines, n + 1, formatted \o added)
  <2>1. n + 1 \in Nat /\ n <= n + 1
    OBVIOUS
  <2>. QED
    BY <1>4, <1>5, <1>7, <1>8, <2>1, TellMore
<1>10. Append(formatted, text) = formatted \o added
  <2>1. formatted \in Seq(Seq(Int))
    BY DEF Told
  <2>. QED
    BY <1>6, <2>1, AppendIsConcat
<1>. QED
  BY <1>9, <1>10

\* After n lines all up to some line are told, and those after it are a table's.
Tells(lines, n, acc) ==
    /\ acc \in Formatting
    /\ \E b \in 0 .. n : Told(lines, b, acc.formatted) /\ Collected(lines, b, n, acc.table)

LEMMA NothingTold ==
  ASSUME NEW lines \in Seq(Line)
  PROVE  Tells(lines, 0, [formatted |-> << >>, table |-> << >>])
<1>1. /\ << >> \in Seq(Seq(Int)) /\ << >> \in Seq(Seq(Seq(Int))) /\ << >> \in Seq(Int)
      /\ Len(<< >>) = 0 /\ 0 \in 0 .. 0 /\ 1 .. 0 = {}
  OBVIOUS
<1>2. [formatted |-> << >>, table |-> << >>] \in Formatting
  BY <1>1 DEF Formatting
<1>3. Told(lines, 0, << >>)
  <2>1. SubSeq(Others(lines), 1, 0) = << >>
    BY SubSeqEmpty
  <2>2. Conveys(<< >>, << >>, HeaderLetters(lines))
    BY <1>1, ConveysSelf
  <2>3. \A i \in Headers(lines) : ~(i <= 0)
    BY DEF Headers
  <2>. QED
    BY <1>1, <2>1, <2>2, <2>3, FlattenOfNothing DEF Told
<1>4. Collected(lines, 0, 0, << >>)
  <2>1. Len(lines) \in Nat /\ 0 \in 0 .. Len(lines) /\ 0 - 0 = 0
    OBVIOUS
  <2>. QED
    BY <1>1, <2>1 DEF Collected
<1>. QED
  BY <1>1, <1>2, <1>3, <1>4 DEF Tells

LEMMA FormatLineTells ==
  ASSUME NEW lines \in Seq(Line), WellFormed(lines), NEW n \in Nat, n + 1 <= Len(lines),
         NEW acc, Tells(lines, n, acc)
  PROVE  Tells(lines, n + 1, FormatLine(acc, lines[n + 1]))
<1>1. PICK b \in 0 .. n : Told(lines, b, acc.formatted) /\ Collected(lines, b, n, acc.table)
  BY DEF Tells
<1>2. /\ n + 1 \in 1 .. Len(lines) /\ n + 1 \in 0 .. Len(lines) /\ b \in 0 .. n + 1 /\ b \in Nat
      /\ n + 1 \in 0 .. n + 1 /\ n + 1 # 0
  OBVIOUS
<1>3. lines[n + 1] \in Line
  BY <1>2
<1>4. acc \in Formatting /\ FormatLine(acc, lines[n + 1]) \in Formatting
  BY <1>3, FormatLineType DEF Tells
<1>5. CASE IsRow(lines[n + 1])
  <2>1. PICK cells \in Seq(Seq(Int)) : cells = lines[n + 1].cells
    BY <1>3, <1>5, SourceType
  <2>2. PICK table \in Seq(Seq(Seq(Int))) : table = acc.table
    BY <1>4 DEF Formatting
  <2>3. PICK k \in Nat : k = Len(table) /\ n = b + k /\ k = n - b
    <3>1. Len(acc.table) = n - b /\ n - b \in Nat /\ n = b + (n - b)
      BY <1>1 DEF Collected
    <3>. QED
      BY <2>2, <3>1
  <2>4. /\ Append(table, cells) \in Seq(Seq(Seq(Int))) /\ Len(Append(table, cells)) = k + 1
        /\ \A i \in 1 .. k : Append(table, cells)[i] = table[i]
        /\ Append(table, cells)[k + 1] = cells
    BY <2>3, AppendProperties
  <2>5. ASSUME NEW i \in 1 .. k + 1
        PROVE  IsRow(lines[b + i]) /\ Append(table, cells)[i] = lines[b + i].cells
    <3>1. CASE i = k + 1
      <4>1. b + i = n + 1
        BY <2>3, <3>1
      <4>. QED
        BY <1>5, <2>1, <2>4, <3>1, <4>1
    <3>2. CASE i \in 1 .. k
      <4>1. \A j \in 1 .. n - b : IsRow(lines[b + j]) /\ acc.table[j] = lines[b + j].cells
        BY <1>1 DEF Collected
      <4>2. IsRow(lines[b + i]) /\ table[i] = lines[b + i].cells
        BY <2>2, <2>3, <3>2, <4>1
      <4>3. Append(table, cells)[i] = table[i]
        BY <2>4, <3>2
      <4>. QED
        BY <4>2, <4>3
    <3>3. i = k + 1 \/ i \in 1 .. k
      OBVIOUS
    <3>. QED
      BY <3>1, <3>2, <3>3
  <2>6. (n + 1) - b = k + 1
    BY <2>3
  <2>7. Collected(lines, b, n + 1, Append(table, cells))
    BY <1>1, <1>2, <2>4, <2>5, <2>6 DEF Collected
  <2>8. FormatLine(acc, lines[n + 1]) = [acc EXCEPT !.table = Append(@, lines[n + 1].cells)]
    BY <1>5 DEF FormatLine
  <2>9. /\ FormatLine(acc, lines[n + 1]).formatted = acc.formatted
        /\ FormatLine(acc, lines[n + 1]).table = Append(table, cells)
    BY <1>4, <2>1, <2>2, <2>8 DEF Formatting
  <2>. QED
    BY <1>1, <1>2, <1>4, <2>7, <2>9 DEF Tells
<1>6. CASE ~IsRow(lines[n + 1])
  <2> DEFINE text == IF lines[n + 1].kind = "item" THEN <<Bullet>> \o lines[n + 1].text
                     ELSE lines[n + 1].text
  <2>1. text \in Seq(Int) /\ SameLetters(lines[n + 1].text, text)
    <3>1. PICK t \in Seq(Int) : t = lines[n + 1].text
      BY <1>3, <1>6, SourceType
    <3>2. Bullet \in Int \ Letter
      BY DEF Bullet, Letter
    <3>3. SameLetters(<<Bullet>> \o t, t) /\ <<Bullet>> \o t \in Seq(Int)
      <4>1. <<Bullet>> \in Seq(Int)
        BY <3>2
      <4>. QED
        BY <3>2, <4>1, PrefixSame, ConcatProperties
    <3>. QED
      BY <3>1, <3>3 DEF SameLetters
  <2>. HIDE DEF text
  <2>2. PICK flushed \in Formatting : flushed = FlushTable(acc)
    BY <1>4, FlushType
  <2>3. Told(lines, n, flushed.formatted)
    BY <1>1, <1>2, <1>4, <1>6, <2>2, FlushTold DEF Ends
  <2>4. Told(lines, n + 1, Append(flushed.formatted, text))
    BY <1>6, <2>1, <2>3, LineTold
  <2>5. FormatLine(acc, lines[n + 1]) = [flushed EXCEPT !.formatted = Append(@, text)]
    BY <1>6, <2>2 DEF FormatLine, text
  <2>6. flushed.table = << >>
    BY <1>4, <2>2 DEF FlushTable
  <2>7. /\ FormatLine(acc, lines[n + 1]).formatted = Append(flushed.formatted, text)
        /\ FormatLine(acc, lines[n + 1]).table = << >>
    BY <2>5, <2>6 DEF Formatting
  <2>8. Collected(lines, n + 1, n + 1, << >>)
    <3>1. /\ << >> \in Seq(Seq(Seq(Int))) /\ Len(<< >>) = 0 /\ (n + 1) - (n + 1) = 0
          /\ 1 .. 0 = {}
      OBVIOUS
    <3>. QED
      BY <1>2, <1>6, <3>1 DEF Collected
  <2>. QED
    BY <1>2, <1>4, <2>4, <2>7, <2>8 DEF Tells
<1>. QED
  BY <1>5, <1>6

\* The letters of a well-formed reply are in its text.
LEMMA ContentKept ==
  ASSUME NEW lines \in Seq(Line), WellFormed(lines)
  PROVE  ContentPreserved(lines)
<1>1. PICK N \in Nat : N = Len(lines)
  OBVIOUS
<1>2. PICK g : /\ Formats(lines, g)
               /\ FormatReply(lines) = Joined(Finished(g[Len(lines)]), LineBreak)
  BY FormatReplyIs
<1>3. \A n \in 0 .. N : Tells(lines, n, g[n])
  <2> DEFINE Bad == {n \in 0 .. N : ~Tells(lines, n, g[n])}
  <2>1. SUFFICES ASSUME Bad # {} PROVE FALSE
    OBVIOUS
  <2>2. Bad \subseteq Nat
    OBVIOUS
  <2>3. PICK n \in Bad : \A k \in Bad : n <= k
    <3>. HIDE DEF Bad
    <3>. QED
      BY <2>1, <2>2, Least
  <2>4. g[n] = IF n = 0 THEN [formatted |-> << >>, table |-> << >>]
               ELSE FormatLine(g[n - 1], lines[n])
    BY <1>1, <1>2, <2>3 DEF Formats
  <2>5. n # 0
    BY <2>3, <2>4, NothingTold
  <2>6. n - 1 \in 0 .. N /\ ~(n <= n - 1) /\ n - 1 \in Nat /\ (n - 1) + 1 = n /\ n <= Len(lines)
    BY <1>1, <2>3, <2>5
  <2>7. Tells(lines, n - 1, g[n - 1])
    BY <2>3, <2>6
  <2>8. Tells(lines, (n - 1) + 1, FormatLine(g[n - 1], lines[(n - 1) + 1]))
    BY <2>6, <2>7, FormatLineTells
  <2>. QED
    BY <2>3, <2>4, <2>5, <2>6, <2>8
<1>4. PICK acc \in Formatting, b \in Nat :
          /\ acc = g[N] /\ Told(lines, b, acc.formatted) /\ Collected(lines, b, N, acc.table)
  <2>1. N \in 0 .. N
    OBVIOUS
  <2>. QED
    BY <1>3, <2>1 DEF Tells
<1>5. Told(lines, N, Finished(acc))
  <2>1. Ends(lines, N)
    BY <1>1 DEF Ends
  <2>. QED
    BY <1>4, <2>1, FlushTold DEF Finished
<1>6. PICK done \in Seq(Seq(Int)) : done = Finished(acc)
  BY <1>5 DEF Told
<1>7. LineBreak \in Int \ Letter
  BY DEF LineBreak, Letter
<1>8. PICK reply \in Seq(Int) : reply = FormatReply(lines) /\ reply = Joined(done, LineBreak)
  BY <1>1, <1>2, <1>4, <1>6, FormatReplyType
<1>9. PICK text \in Seq(Int) : text = FlattenSeq(done)
  BY FlattenType
<1>10. SameLetters(reply, text)
  BY <1>7, <1>8, <1>9, JoinedSame
<1>11. PICK others : others = SourceOf(lines, DOMAIN lines \ Headers(lines))
  OBVIOUS
<1>12. Conveys(others, text, HeaderLetters(lines))
  <2>1. PICK all \in Seq(Seq(Int)) :
            all = Others(lines) /\ Len(all) = N /\ others = FlattenSeq(all)
    BY <1>1, <1>11, OthersAre
  <2>2. SubSeq(all, 1, N) = all
    BY <2>1, SubSeqFull
  <2>. QED
    BY <1>5, <1>6, <1>9, <2>1, <2>2 DEF Told
<1>13. Conveys(others, reply, HeaderLetters(lines))
  <2>1. SameLetters(others, others)
    BY DEF SameLetters
  <2>. QED
    BY <1>10, <1>12, <2>1, ConveysAlike
<1>14. HeaderLetters(lines) \subseteq ToSet(reply)
  <2>1. ASSUME NEW c \in Letter, c \in HeaderLetters(lines) PROVE c \in ToSet(reply)
    <3>1. PICK i \in Headers(lines) : c \in ToSet(Source(lines[i]))
      BY <2>1, HeaderLettersAre
    <3>2. i <= N
      BY <1>1 DEF Headers
    <3>3. c \in ToSet(text)
      BY <1>5, <1>6, <1>9, <3>1, <3>2 DEF Told
    <3>. QED
      BY <1>10, <3>3, LetterStays
  <2>. QED
    BY <2>1 DEF HeaderLetters
<1>. QED
  BY <1>8, <1>11, <1>13, <1>14 DEF ContentPreserved, Conveys, HeaderLetters

\* Nothing of a reply with well-formed tables gets lost on the way to plain text, whatever
\* its lines are: its letters are all there, in their order, and no others but those of the
\* headers of its tables.
THEOREM ContentIsKept == Spec => []RepliesKeepContent
<1>1. Init => IInv /\ AllDelivered
  BY IInvInit, DeliveredInit
<1>2. (IInv /\ AllDelivered) /\ [Next]_vars => (IInv /\ AllDelivered)'
  BY IInvStep, DeliveredStep
<1>3. IInv /\ AllDelivered => RepliesKeepContent
  BY ContentKept DEF AllDelivered, Delivered, RepliesKeepContent
<1>. QED
  BY <1>1, <1>2, <1>3, PTL DEF Spec
================================================================================
