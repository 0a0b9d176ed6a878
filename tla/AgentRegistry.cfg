CONSTANTS
    a = a
    b = b
    x = x
    Hosts = {a, b, x}
    Trusted = {a, b}
    Claims <- MCClaims
    Conns = {c1, c2, c3}
    Requests = {r1}
    NoHost = NoHost
    NoConn = NoConn
SPECIFICATION RegistryFairSpec
INVARIANTS
    RecordIsLive
    AsksOnlyItsHost
    ServedHostListed
PROPERTIES
    ListedOrDisplaced
CHECK_DEADLOCK FALSE
