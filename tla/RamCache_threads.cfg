CONSTANTS
    Threads = {t1, t2}
    k1 = k1
    k2 = k2
    k3 = k3
    k4 = k4
    Keys = {k1, k2, k3, k4}
    Hash <- HashOfKey
    NumBuckets = 2
    NumBlocks = 4
    EvictPoint = 2
    MinEvict = 1
    FragBytes = 3
    Writes <- ShortLongNewer
    MaxCalls = 4
    Nobody = Nobody
    NoKey = NoKey
SPECIFICATION Spec
INVARIANTS
    TypeOK
    ChainsIntact
    BlocksOnce
    UseIsExclusive
    FreeCount
    OneItemPerKey
SYMMETRY CacheSymmetry
\* A lock left behind, or a crash of the process, stops the threads.
CHECK_DEADLOCK FALSE
