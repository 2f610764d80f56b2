CONSTANTS
    Sock = {s1, s2}
    Callers = {c1}
    Admins = {a1, a2}
    Hosts = {"h1"}
    Patterns = {"exact", "glob", "other"}
    Networks = {n1}
    Schemes = {"tcp"}
    Transports = {t1}
    HostMatches <- MCHostMatches
    Score <- MCScore
    Wildcards <- MCWildcards
    SchemesOf <- MCSchemesOf
    MaxVersion = 4
    None = None
    Unmapped = Unmapped
    DefaultKey = DefaultKey
SPECIFICATION Spec
SYMMETRY Symmetry
INVARIANTS TypeOK SnapshotIsCurrent RoutedOrClosing AcceptedFollowsListener NoLeakedSocket
PROPERTY StrandedIsCollected
