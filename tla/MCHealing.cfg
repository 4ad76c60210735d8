SPECIFICATION HealingSpec
CONSTANTS
    NULL = NULL
    Text = Text
    TextOrder <- MCTextOrder
    Unsafe = {}
    MAX_PIPELINE_STEPS = 4
    Texts <- MCTexts
    Files <- MCFiles
    Patches <- MCPatches
    Queries <- MCQueries
    MAX_HEALING_RETRIES = 3
    SANDBOX_SAMPLE_ROWS = 2
INVARIANTS AdmittedRuns HealedRuns AttemptsAreRecorded SqlGuard
CHECK_DEADLOCK FALSE
