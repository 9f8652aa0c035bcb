SPECIFICATION FairSpec
CONSTANTS
    m1 = m1  m2 = m2  m3 = m3
    r1 = r1  r2 = r2  r3 = r3
    Messages = {m1, m2, m3}
    Content <- MCBatches
    Settings <- MCLive
    Conversations <- MCReplies
    Requests = {r1, r2}
    Limit = 9
    StoreFaults = FALSE
    LostAcks = FALSE
    Crashes = FALSE
PROPERTIES
    EveryMessageCloses
