CONSTANTS
    a = a
    b = b
    x = x
    Hosts = {a, x}
    Trusted = {a}
    Claims <- MCClaims
    Conns = {c1, c2, c3}
    Requests = {r1}
    NoHost = NoHost
    NoConn = NoConn
SPECIFICATION RegistryFairSpec
PROPERTIES
    HostListedAgain
CHECK_DEADLOCK FALSE
