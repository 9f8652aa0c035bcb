SPECIFICATION ViewSpec
CONSTANTS
    ApprovalIds = {a1}
    Workers = {w1, w2}
    Payloads = {good, broken}
    WellFormed = {good}
    NoPayload = NoPayload
    NoApproval = NoApproval
    StoreFaults = FALSE
    LostAcks = FALSE
    Crashes = FALSE
    MaxLoads = 2
INVARIANTS
    ScreenIsPast
PROPERTIES
    ExecutionEnds
    ScreenSettles
