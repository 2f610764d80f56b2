CONSTANTS
    Conns = {c1, c2}
    LinkStates = {k1, k2}
    DialInfos = {"peer"}
    RemoveInfos = {"peer", "unix"}
    Addr <- UnixAddr
    None = None
SPECIFICATION FairSpec
INVARIANTS TypeOK NoGhostEntry OneHandlerPerLink NoOrphanConn PersistentStaysConfigured
PROPERTIES RemoveTakesEffect StopEndsLinks
CHECK_DEADLOCK FALSE
