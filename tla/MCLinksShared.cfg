CONSTANTS
    Conns = {c1, c2, c3}
    LinkStates = {k1, k2}
    DialInfos = {"peer"}
    RemoveInfos = {"peer"}
    Addr <- PeerAddr
    None = None
SPECIFICATION Spec
SYMMETRY LinkSymmetry
INVARIANT NoDuplicatePeering
CHECK_DEADLOCK FALSE
