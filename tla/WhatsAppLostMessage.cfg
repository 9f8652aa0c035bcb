SPECIFICATION Spec
CONSTANTS
    m1 = m1  m2 = m2  m3 = m3
    r1 = r1  r2 = r2  r3 = r3
    Messages = {m1, m2}
    Content <- MCPair
    Settings <- MCLive
    Conversations <- MCReplies
    Requests = {r1, r2}
    Limit = 9
    StoreFaults = TRUE
    LostAcks = FALSE
    Crashes = FALSE
INVARIANTS
    AckedIsHandled
