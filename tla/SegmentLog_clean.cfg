CONSTANTS
    Workers = {w1, w2}
    w1 = w1
    w2 = w2
    k1 = k1
    k2 = k2
    k3 = k3
    Keys = {k1, k2, k3}
    Size <- SmallLarge
    Bucket <- TwoBuckets
    NumSlots = 1
    SegMaxNum = 5
    SegSize = 10
    HeaderSize = 2
    CqSize = 1
    CleanMax = 1
    MaxRequests <- ThreeOne
    Nobody = Nobody
    Maint = Maint
    NoKey = NoKey
SPECIFICATION Spec
INVARIANTS
    TypeOK
    RefsExact
    SegmentsOnce
    TableHoldsNewest

CONSTRAINT Unharmed
