SPECIFICATION Spec
CONSTANTS
    NULL = NULL
    Text = Text
    TextOrder <- MCTextOrder
    LoadTables <- MCLoadTables
    RightTable <- MCRightTable
    Policies <- MCPolicies
    Configs <- MCConfigs
    Promises <- MCPromises
    MaxSteps = 2
    MaxRows = 3
INVARIANTS  LineageCovers ChecksAgree
CHECK_DEADLOCK FALSE
