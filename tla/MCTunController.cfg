SPECIFICATION Spec
CONSTANTS
    Packets <- TrafficPackets
    Endpoints = {"l", "r"}
    Configs <- TwoConfigs
    TcpTTL = 1
    UdpTTL = 1
    MaxTime = 2
    Clients = {c1, c2}
    NoCall = NoCall
    Devices = {d1, d2}
    NoDevice = NoDevice
    MTUs = {0, 3}
    DeviceMTU <- TwoMTUs
    IfMTU = 3
    MaxMTU = 2
    Named <- OneOverride
    ReportCap = 1
    QueueCap = 1
    MaxInputs = 3
    Types = {"native"}
INVARIANTS TypeOK NoLeakedDevice MTUInStep
PROPERTIES NoUnsolicited KeepsPromise CallsAnswered SessionsEnd
CHECK_DEADLOCK FALSE
