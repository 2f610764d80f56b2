SPECIFICATION Spec
CONSTANTS
    Ifaces = {"eth0"}
    IfAddrs = {"fe80::1", "fe80::2"}
    Beaconing = {"eth0"}
    Listening = {"eth0"}
    None = None
    Conns = {c1, c2}
    Groups = {"list", "core", "multicast", "tun"}
    WebListen = TRUE
    LocalDNS = TRUE
    MaxInputs = 4
INVARIANT ListenersFollowInterfaces
PROPERTY ShutdownCompletes
CHECK_DEADLOCK FALSE
