SPECIFICATION Spec
CONSTANTS
    Hosts <- AllHosts
    Tables <- AllTables
    ZoneSets <- AllZoneSets
    MITMHosts <- Intercepted
    Conns = {k1, k2}
    Clients = {a1, a2}
    None = None
    MaxInputs = 3
INVARIANTS TypeOK RoutingPromises ClosedIsQuiet
PROPERTY CloseReturns
CHECK_DEADLOCK FALSE
