CONSTANTS
    IdBits = 3
    a0 = a0
    a1 = a1
    a2 = a2
    a3 = a3
    r1 = r1
    r2 = r2
    Addr = {a0, a1, a2, a3}
    SelfAddr = a0
    Result = {r1}
    Self <- MCSelf3
    Peers <- MCPeers3
    BootstrapAddr = {a1}
    RefreshTargets = {}
    Targets <- MCTargets3
    DHT_NODE_COUNT = 2
    DHT_LINGER = 1
    DHT_CONCURRENCY = 1
    MaxReply = 1
SPECIFICATION Spec
INVARIANTS
    SourcesCounted
    ConcurrencyBound
PROPERTY FailureIsExhaustive
