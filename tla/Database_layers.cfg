CONSTANTS
    Workers = {w1, w2}
    Maint = m
    Keys = {k1, k2}
    Messages <- Datagrams
    LogSize = 2
    MaxRequests = 4
    NoKey = NoKey
SPECIFICATION Spec
INVARIANTS
    TypeOK
    GetIsFresh
    CacheAgrees
PROPERTIES
    ImplementsQueue
SYMMETRY DatabaseSymmetry
