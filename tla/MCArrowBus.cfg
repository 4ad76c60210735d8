SPECIFICATION Spec
CONSTANTS
    Runs = {r1, r2}
    Keys = {k1}
    Workers = {w1, w2}
    Evictors = {e1}
    MaxPuts = 3
    MaxFaults = 2
    None = None
INVARIANT NothingLeft
PROPERTY ReadsOwnTables
SYMMETRY Symmetric
CHECK_DEADLOCK FALSE
