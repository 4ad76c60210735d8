SPECIFICATION LoopSpec
CONSTANTS
    Runs = {r1}
    Daemons = {1, 2}
    Partitions = {p1, p2}
    Malformed <- MCMalformed
    Void <- MCVoid
    BatchSize = 2
    PauseInterval = 1
    LagThreshold = 1
    CacheSize = 2
    MaxErrors = 2
    MaxMsgs = 3
    MaxEvents = 2
INVARIANTS OneConsumer CommittedIsHandled
PROPERTIES NotTwice StopEnds
CHECK_DEADLOCK FALSE
