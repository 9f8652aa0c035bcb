------------------------------ MODULE Subsequences ------------------------------
\* What remains of a sequence when elements are left out, written with recursive
\* functions so that it can be reasoned about.
EXTENDS Integers, Sequences

\* The elements of s that are in the set S, in their order.
Selection(s, S) ==
    LET kept[n \in 0 .. Len(s)] ==
            IF n = 0 THEN << >>
            ELSE IF s[n] \in S THEN Append(kept[n - 1], s[n]) ELSE kept[n - 1]
    IN  kept[Len(s)]

\* s is t without some of its elements: the elements of t are gone through, and each of
\* them that is the next one of s is taken.
IsThinned(s, t) ==
    LET taken[n \in 0 .. Len(t)] ==
            IF n = 0 THEN 0
            ELSE IF taken[n - 1] < Len(s) /\ s[taken[n - 1] + 1] = t[n] THEN taken[n - 1] + 1
            ELSE taken[n - 1]
    IN  taken[Len(t)] = Len(s)
================================================================================
