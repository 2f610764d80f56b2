CONSTANTS
    Sock = {s1, s2, s3}
    Callers = {c1}
    Admins = {a1}
    Hosts = {"h1"}
    Patterns = {"glob"}
    Networks = {n1, n2}
    Schemes = {"tcp"}
    Transports = {t1}
    HostMatches <- MCHostMatches
    Score <- MCScore
    Wildcards <- MCWildcards
    SchemesOf <- MCSchemesOf
    MaxVersion = 3
    None = None
    Unmapped = Unmapped
    DefaultKey = DefaultKey
SPECIFICATION Spec
SYMMETRY Symmetry
INVARIANT NoResourceOnWrongNetwork
