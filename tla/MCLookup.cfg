CONSTANTS
    IdBits = 2
    a0 = a0
    a1 = a1
    a2 = a2
    a3 = a3
    r1 = r1
    r2 = r2
    Addr = {a0, a1, a2}
    SelfAddr = a0
    Result = {r1, r2}
    Self <- MCSelf
    Peers <- MCPeers
    BootstrapAddr = {}
    RefreshTargets <- MCTargets
    Targets <- MCTargets
    DHT_NODE_COUNT = 2
    DHT_LINGER = 1
    DHT_CONCURRENCY = 2
    MaxReply = 1
SPECIFICATION LiveSpec
INVARIANTS
    TypeOK
    NoStalledLookup
    NoIdleSlot
    ResultOwned
PROPERTIES
    CompletedOnce
    Serves
