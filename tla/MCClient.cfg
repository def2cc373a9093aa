CONSTANTS
    s1 = s1
    s2 = s2
    c1 = c1
    c2 = c2
    c3 = c3
    p1 = p1
    p2 = p2
    k1 = k1
    k2 = k2
    Session = {s1, s2}
    NoSession = NoSession
    MaxLookups = 2
    Client = {c1, c2, c3}
    NoClient = NoClient
    Port = {p1, p2}
    NoPort = NoPort
    DEFAULT_PORT = p1
    Key = {k1, k2}
    NoKey = NoKey
SYMMETRY MCObjects
SPECIFICATION Spec
INVARIANTS
    TypeOK
    Referenced
    OneListener
    Configured
