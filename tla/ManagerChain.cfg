SPECIFICATION FairSpec
CONSTANTS
    s1 = s1
    s2 = s2
    a1 = a1
    a2 = a2
    a3 = a3
    NoServer = NoServer
    Server = {s1, s2}
    Jump <- ChainedRoutes
    Attempt = {a1, a2}
    Shared = {s1}
    Deletable = {s1}
    Locks = FALSE
    MaxStarts = 1
    MaxEdits = 0
PROPERTIES TargetFollowsJump
