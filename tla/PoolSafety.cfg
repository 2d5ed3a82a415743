SPECIFICATION Spec
CONSTANTS
    u1 = u1
    u2 = u2
    u3 = u3
    Caller <- Callers3
    Operation = {"shell", "stream", "dial"}
    MaxTransports = 2
    MaxChannels = 2
    MaxSessions = 1
    MaxDials = 2
SYMMETRY CallerSymmetry
INVARIANTS TypeOK ActiveCountsHolders NoConnectionLeak  TransportBudget
PROPERTIES RefusalNeverCutsOthers
