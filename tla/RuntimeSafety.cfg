SPECIFICATION Spec
CONSTANTS
    g1 = g1
    g2 = g2
    g3 = g3
    s1 = s1
    s2 = s2
    NoServer = NoServer
    NoGoroutine = NoGoroutine
    Goroutine = {g1, g2, g3}
    Server = {s1, s2}
    Jump <- ChainedRoutes
    LocalKey = {s2}
    MaxClients = 3
SYMMETRY GoroutineSymmetry
INVARIANTS TypeOK NoConnectionLeak StoreFindsFreeSlot
PROPERTIES OnlyTheFailedClientGoes ImplementsManagedLinks
