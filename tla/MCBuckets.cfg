CONSTANTS
    IdBits = 4
    a1 = a1
    a2 = a2
    a3 = a3
    a4 = a4
    Addr = {a1, a2, a3, a4}
    Self <- MCSelf
    Peers <- MCPeers
    DHT_NODE_COUNT = 3
    DHT_LINGER = 1
SPECIFICATION Spec
INVARIANTS
    TypeOK
    NodesInTheirBucket
    NoPeerTwice
    PeersNeverUnderflow
    SearchNearest
    BucketsBounded
PROPERTY OnlyDeadReplaced
