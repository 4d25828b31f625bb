SPECIFICATION FairSpec
CONSTANTS
    s1 = s1
    s2 = s2
    s3 = s3
    s4 = s4
    a = a
    b = b
    c = c
    none = none
    Sessions = {s1, s2, s3, s4}
    Hosts = {a, b, c}
    Starts <- MCStarts
    CacheCapacity = 2
CHECK_DEADLOCK FALSE
INVARIANTS
    PlaintextNeedsBothPeers
    ReplyAgreesWithRecord
    
PROPERTIES
    LeafCacheIsCoherent
    NothingWaitsForever
