SPECIFICATION Spec
CONSTANTS
    Keys = {"k1", "k2"}
    Addrs = {"a1", "a2"}
    Subnets = {"s"}
    AddrForKey <- AddrOf
    SubnetForKey <- SubnetOf
    Debug = {"peers"}
    None = None
    MaxInputs = 4
INVARIANTS TypeOK NoPacketWaits AnswersReachTheirRequest
PROPERTIES OnlyOwnTimer EverythingExpires
CHECK_DEADLOCK FALSE
