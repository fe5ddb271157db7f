CONSTANTS
    Workers = {w1}
    Maint = m
    Keys = {k1, k2}
    Values = {v1, v2}
    Slots = 3
    NoKey = NoKey
    NoSlot = NoSlot
    Absent = Absent
    Torn = Torn
SPECIFICATION HSpec
INVARIANTS
    GetAfterSetFinds
    LogHoldsNewest
    OnlyCompleteItemsClaimed
\* exit(0) ends the process: the system may stop.
CHECK_DEADLOCK FALSE
