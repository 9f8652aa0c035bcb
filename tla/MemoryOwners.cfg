SPECIFICATION Spec
CONSTANTS
    Requests = {r1, r2}
    Written <- MCWritten
    Strip <- MCStrip
    Blank = ""
    Default = "default"
    Words = {"oat", "milk"}
    Queries <- MCQueries
    Contents = {"likes oat milk", "milk on monday", "password"}
    Tokens <- MCTokens
    Secrets = {"password"}
    MemoryTypes = {"preference"}
    Unlisted = "unlisted"
    MaxMemories = 2
    ContextLimit = 1
    ToolLimit = 2
    SearchCap = 2
    ListCap = 2
    MaxFaults = 1
SYMMETRY MCSymmetry
INVARIANTS
    TypeOK
    OwnersKeptApart
    ForgottenForGood
    RecallsTheBest
PROPERTIES
    OnlyOwnersChange
