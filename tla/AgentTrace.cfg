SPECIFICATION FairSpec
CONSTANTS
    order = order  refund = refund  ghost = ghost
    Ordinary = {order}
    Sensitive = {refund}
    Unknown = {ghost}
    MaxToolIterations = 3
    MaxBlocks = 3
    MaxFaults = 2
    Crashes = TRUE
CHECK_DEADLOCK FALSE
INVARIANTS
    TypeOK
    BudgetHeld
    AnswerKnowsEffects
    TraceFaithful
    StatusTruthful
PROPERTIES
    RunEnds
