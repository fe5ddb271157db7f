CONSTANTS
    Workers = {w1, w2}
    Maint = m
    Keys = {k1}
    Values = {v1}
    Slots = 3
    NoKey = NoKey
    NoSlot = NoSlot
    Absent = Absent
    Torn = Torn
SPECIFICATION HSpec
INVARIANTS
    GetAfterSetFinds
\* exit(0) ends the process: the system may stop.
CHECK_DEADLOCK FALSE
