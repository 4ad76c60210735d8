SPECIFICATION FairSpec
CONSTANTS
    Runs = {r1}
    Scheduled = {}
    Workers = {w1, w2}
    r1 = r1
    w1 = w1
    w2 = w2
    NoRun = NoRun
    AtLeastOnce = FALSE
    ResultsExpire = TRUE
    MaxCrashes = 2
INVARIANTS
    TypeOK
    OneWorkerPerRun
    StartedOnce
    VetoedNeverStarts
    FinishedHasResults
PROPERTIES
    SettledForever
    Converges
    ImplementsPipelineRun
