SPECIFICATION Spec
CONSTANTS
    u1 = u1
    u2 = u2
    u3 = u3
    Caller <- Callers2
    Operation = {"shell"}
    MaxTransports = 2
    MaxChannels = 2
    MaxSessions = 2
    MaxDials = 2
SYMMETRY CallerSymmetry
PROPERTIES ReusedWhileAccepting
