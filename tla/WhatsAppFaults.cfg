SPECIFICATION Spec
CONSTANTS
    m1 = m1  m2 = m2  m3 = m3
    r1 = r1  r2 = r2  r3 = r3
    Messages = {m1, m2}
    Content <- MCPosts
    Settings <- MCSettings
    Conversations <- MCConversations
    Requests = {r1, r2}
    Limit = 3
    StoreFaults = TRUE
    LostAcks = TRUE
    Crashes = TRUE
CONSTRAINT Explored
INVARIANTS
    RepliesKeepContent
    RunOnce
    RepliesArriveWhole
PROPERTIES
    ImplementsCorrespondence
