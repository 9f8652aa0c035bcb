SPECIFICATION Spec
CONSTANTS
    a1 = a1  a2 = a2
    w1 = w1  w2 = w2  w3 = w3
    good = good  other = other  broken = broken
    NoPayload = NoPayload
    NoApproval = NoApproval
    ApprovalIds = {a1, a2}
    Workers = {w1, w2}
    Payloads <- MCPayloads
    WellFormed <- MCWellFormed
    StoreFaults = TRUE
    LostAcks = TRUE
    Crashes = TRUE
SYMMETRY Symmetry
INVARIANTS
    AnswersHold
    TypeOK
    EffectOnce
    OutcomeTruthful
    TimelineTruthful
PROPERTIES
    ImplementsLifecycle
