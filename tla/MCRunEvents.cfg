SPECIFICATION FairSpec
CONSTANTS
    c1 = c1
    Clients = {c1}
    StepCount = 2
    MaxLost = 1
CHECK_DEADLOCK FALSE
INVARIANTS
    ToldOnlyAfterCommit
    CacheSettles
PROPERTIES
    StreamEnds
