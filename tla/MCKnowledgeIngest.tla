--------------------------- MODULE MCKnowledgeIngest ---------------------------
\* Two files with texts of none, one or two passages; the first of them may be
\* any document of up to MaxShape characters, or a line with a hole, all of which are cut
\* but not taken any further.
EXTENDS KnowledgeIngest, TLC

MaxShape == 6
Kinds == {"letter", "stop", "blank", "newline", "heading"}
Shapes == UNION {[1 .. n -> Kinds] : n \in 0 .. MaxShape}

Solid(text) == Strip(text) # << >>
OpenLine(acc) == IF Solid(acc.open) THEN <<TextLine(acc.open)>> ELSE << >>

\* The character at place i of a shape is letter i.
ReadShape(acc, i, shape) ==
    LET kind == shape[i]
    IN  CASE kind = "letter" -> [acc EXCEPT !.open = Append(@, i)]
          [] kind = "stop" -> [acc EXCEPT !.open = Append(@, StopsFrom + i)]
          [] kind = "blank" -> [acc EXCEPT !.open = Append(@, Space)]
          [] kind = "newline" ->
                 [lines |-> acc.lines \o (IF Solid(acc.open) THEN OpenLine(acc) ELSE <<BlankLine>>),
                  open |-> << >>]
          [] kind = "heading" ->
                 [lines |-> acc.lines \o OpenLine(acc) \o <<Heading(<<i>>)>>, open |-> << >>]

DocumentOf(shape) ==
    LET ended == Append(shape, "newline")
    IN  FoldLeftDomain(LAMBDA acc, i : ReadShape(acc, i, ended),
                       [lines |-> << >>, open |-> << >>], ended).lines

\* One letter over and over, but for the blanks from place first to place last.
Apart(first, last) == <<TextLine([i \in 1 .. 9 |-> IF i \in first .. last THEN Space ELSE 1])>>

MCSamples ==
    {DocumentOf(shape) : shape \in Shapes} \cup {Apart(first, last) : first \in 2 .. 5, last \in 1 .. 8}

Short == <<TextLine(<<1>>)>>
Long == <<TextLine(<<2, 3>>), BlankLine, TextLine(<<4, 5>>)>>
MCEditions == {<< >>, Short, Long}
MCSources == 1 .. 2

MCDirectories ==
    {<<Short, Long>>, <<Long, << >>>>} \cup
    {<<document, Gone>> : document \in MCSamples}

\* The documents that are there for the chunker are not taken further than they are.
Explored == \A s \in Sources : files[s] \in Editions \cup {Gone}

\* Ingesters are interchangeable, and so are the providers.
MCSymmetry == Permutations(Ingesters) \cup Permutations(Providers)
================================================================================
