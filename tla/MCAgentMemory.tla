----------------------------- MODULE MCAgentMemory -----------------------------
(***************************************************************************)
(* Instances of AgentMemory for TLC.                                       *)
(***************************************************************************)
EXTENDS AgentMemory, TLC

\* An owner who sometimes writes a blank after the name, and the default owner.
MCStrip == [k \in {"budi", "budi ", "", "default"} |->
                IF k = "budi " THEN "budi" ELSE k]
MCWritten == DOMAIN MCStrip
MCQueries == {NoQuery, {"oat"}, {"oat", "milk"}}
MCTokens == ("likes oat milk" :> {"oat", "milk"}) @@ ("milk on monday" :> {"milk"})
                @@ ("password" :> {"milk"})
MCSymmetry == Permutations(Requests)
================================================================================
