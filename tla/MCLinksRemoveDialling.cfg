CONSTANTS
    Conns = {c1}
    LinkStates = {k1}
    DialInfos = {"peer"}
    RemoveInfos = {"peer"}
    Addr <- UnixAddr
    None = None
SPECIFICATION FairSpec
PROPERTY RemoveEndsLink
