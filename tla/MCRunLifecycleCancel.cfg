SPECIFICATION Spec
CONSTANTS
    Runs = {r1}
    Scheduled = {}
    Workers = {w1}
    r1 = r1
    w1 = w1
    w2 = w2
    NoRun = NoRun
    AtLeastOnce = FALSE
    ResultsExpire = FALSE
    MaxCrashes = 0
PROPERTIES
    CancelWins
