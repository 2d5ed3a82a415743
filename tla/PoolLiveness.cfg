SPECIFICATION FairSpec
CONSTANTS
    u1 = u1
    u2 = u2
    u3 = u3
    Caller <- Callers2
    Operation = {"shell", "stream", "dial"}
    MaxTransports = 2
    MaxChannels = 1
    MaxSessions = 1
    MaxDials = 2
PROPERTIES ClosedPoolDrains
