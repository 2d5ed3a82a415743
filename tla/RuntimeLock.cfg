SPECIFICATION Spec
CONSTANTS
    g1 = g1
    g2 = g2
    g3 = g3
    s1 = s1
    s2 = s2
    NoServer = NoServer
    NoGoroutine = NoGoroutine
    Goroutine = {g1, g2}
    Server = {s1}
    Jump <- DirectRoutes
    LocalKey = {}
    MaxClients = 1
INVARIANTS LockedMeansDisconnected
