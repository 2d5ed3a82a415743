SPECIFICATION FairSpec
CONSTANTS
    s1 = s1
    s2 = s2
    a1 = a1
    a2 = a2
    a3 = a3
    NoServer = NoServer
    Server = {s1}
    Jump <- DirectRoutes
    Attempt = {a1, a2}
    Shared = {}
    Deletable = {}
    Locks = FALSE
    MaxStarts = 2
    MaxEdits = 1
PROPERTIES LostServerIsRetried EditLiftsBlock
