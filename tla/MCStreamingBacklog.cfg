SPECIFICATION LiveSpec
CONSTANTS
    Runs = {r1}
    Daemons = {1}
    Partitions = {p1}
    Malformed <- MCMalformed
    Void <- MCVoid
    BatchSize = 2
    PauseInterval = 1
    LagThreshold = 1
    CacheSize = 2
    MaxErrors = 2
    MaxMsgs = 3
    MaxEvents = 0
PROPERTY BacklogIsRead
CHECK_DEADLOCK FALSE
