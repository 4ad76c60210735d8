SPECIFICATION RunnerSpec
CONSTANTS
    n1 = n1
    n2 = n2
    n3 = n3
    n4 = n4
    StepKinds = {"load", "plain", "capable", "sql", "join"}
    FourKinds = {"load", "capable", "join"}
    Names <- MCNames
    Submitted <- Pipelines
    RowCounts = {1, 2, 3}
    DUCKDB_THRESHOLD = 2
CHECK_DEADLOCK FALSE
INVARIANTS
    TypeOK
    NoTableMissing
    RegistryExact
    ResultsArePrefix
