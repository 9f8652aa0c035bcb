-------------------------- MODULE MCApprovalExecution --------------------------
EXTENDS ApprovalExecution, TLC

CONSTANTS a1, a2, w1, w2, w3, good, other, broken

MCPayloads == {good, other, broken}
MCWellFormed == {good, other}

\* Approvals, workers and the two well-formed payloads are interchangeable.
Symmetry ==
    Permutations(ApprovalIds) \cup Permutations(Workers) \cup Permutations(MCWellFormed)
================================================================================
