SPECIFICATION FairSpec
CONSTANTS
    s1 = s1
    k1 = k1
    k2 = k2
    Schedules = {s1}
    Checkers = {k1, k2}
    MaxSlots = 1
    MaxFaults = 1
CHECK_DEADLOCK FALSE
INVARIANTS
    OneRunPerTime
    FiresOnce
PROPERTIES
    DueFires
