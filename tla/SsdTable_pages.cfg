CONSTANTS
    Threads = {t1, t2}
    k1 = k1
    k2 = k2
    Keys = {k1, k2}
    Bucket <- OwnBuckets
    NumPages = 4
    PAGES_PER_CORE = 2
    PageSize = 6
    HeaderSize = 1
    MinEntry = 2
    Sizes = {1, 9}
    MaxSets = 3
    Nobody = Nobody
    NoKey = NoKey
SPECIFICATION FairSpec
INVARIANTS
    TypeOK
    PagesKept
    WritersExact
PROPERTIES
    ImplementsVersionStore
    SetReturns
\* After MaxSets sets the threads stop.
CHECK_DEADLOCK FALSE
