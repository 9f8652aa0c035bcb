---------------------------- MODULE MCWhatsAppLedger ----------------------------
\* A few posts, settings and replies; what the agent answers to the first message may
\* also be any reply of up to three lines, or of
\* four with a table; such a reply is formatted and cut but not sent.
EXTENDS WhatsAppLedger, TLC

CONSTANTS m1, m2, m3, r1, r2, r3

TextOf(m) == [id |-> m, type |-> "text", sender |-> TRUE, body |-> TRUE]
Image == [id |-> m1, type |-> "image", sender |-> TRUE, body |-> FALSE]
NoSender == [TextOf(m2) EXCEPT !.sender = FALSE]
Anonymous == [TextOf(m2) EXCEPT !.id = NoId]
BlankBody == [TextOf(m1) EXCEPT !.body = FALSE]

Envelope(entries) == [form |-> "envelope", signature |-> "right", entries |-> entries]
Forged == [Envelope(<< <<TextOf(m2)>> >>) EXCEPT !.signature = "wrong"]

\* Nothing to answer, one message among others, the same message twice, overlapping
\* batches in both orders, and posts that are refused.
MCPosts ==
    ("nothing" :> Envelope(<< << >>, <<Image, NoSender, Anonymous>> >>)) @@
    ("one" :> Envelope(<< <<Image, TextOf(m1)>>, <<BlankBody>> >>)) @@
    ("two" :> Envelope(<< <<TextOf(m1)>>, <<TextOf(m2)>> >>)) @@
    ("again" :> Envelope(<< <<TextOf(m2), TextOf(m1), TextOf(m2)>> >>)) @@
    ("forged" :> Forged) @@
    ("malformed" :> [Forged EXCEPT !.form = "malformed", !.signature = "missing"]) @@
    ("not json" :> [Forged EXCEPT !.form = "not json"])

\* A batch of three and its tail.
MCBatches ==
    ("batch" :> Envelope(<< <<TextOf(m1), TextOf(m2), TextOf(m3)>> >>)) @@
    ("tail" :> Envelope(<< <<TextOf(m3), TextOf(m2)>> >>))

MCPair ==
    ("pair" :> Envelope(<< <<TextOf(m1), TextOf(m2)>> >>)) @@
    ("second" :> Envelope(<< <<TextOf(m2)>> >>))

Live == [enabled |-> TRUE, secret |-> TRUE, canSend |-> TRUE]
MCLive == {Live}
MCSettings == {Live, [Live EXCEPT !.secret = FALSE, !.canSend = FALSE], [Live EXCEPT !.enabled = FALSE]}

\* A reply that fits, and one of two chunks.
Brief == <<TextLine(<<1>>)>>
Twofold == <<HeadingLine(<<1, 2>>), ListLine(<<3, 4>>)>>
MCReplies == {[m \in Messages |-> IF m = m1 THEN Twofold ELSE Brief]}

Separators ==
    {TableRow(<< << >> >>), TableRow(<< <<Dash>>, <<Dash, Dash>> >>), TableRow(<< <<Dash>> >>)}

\* Line i of a reply, as text, or as a row with cells that may be absent or blank or the
\* same in every row.
Lines(i) ==
    LET a == 10 * i + 1  b == 10 * i + 2  c == 10 * i + 3
    IN  {TextLine(<< >>), TextLine(<<a>>), TextLine(<<a, b, c>>), ListLine(<<a, b>>),
         TableRow(<< <<a>> >>), TableRow(<< <<a>>, <<1>> >>), TableRow(<< <<Space>>, <<b>> >>),
         TableRow(<< << >>, <<a>>, << >> >>)} \cup Separators

Samples ==
    UNION {{<< >>}, {<<a>> : a \in Lines(1)}, {<<a, b>> : a \in Lines(1), b \in Lines(2)},
           {<<a, b, c>> : a \in Lines(1), b \in Lines(2), c \in Lines(3)},
           {<<a, b, c, d>> : a \in Lines(1), b \in Separators, c \in Lines(3), d \in Lines(4)}}

MCConversations ==
    MCReplies \cup {[m \in Messages |-> IF m = m1 THEN reply ELSE Brief] : reply \in Samples}

\* Only the short conversation is taken further than its first state.
Explored == \E answers \in MCReplies : \A m \in Messages : replies[m].lines = answers[m]
================================================================================
