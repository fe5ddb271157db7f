CONSTANTS
    Workers = {w1, w2}
    Maint = m
    Keys = {k1}
    Values = {v1}
    Slots = 2
    NoKey = NoKey
    NoSlot = NoSlot
    Absent = Absent
    Torn = Torn
SPECIFICATION FairSpec
PROPERTIES
    GetAnswered
    SomeSetGetsRoom
    ClaimReleased
\* exit(0) ends the process: the system may stop.
CHECK_DEADLOCK FALSE
