SPECIFICATION FairSpec
CONSTANTS
    s1 = s1
    s2 = s2
    Sessions <- MCSessions
    RoleOf <- MCRoleOf
    Limit <- MCLimit
    MaxProvider = 2
    MaxTool = 1
    MaxConcurrency = 2
    MaxTurns = 2
    MaxSessionTools = 1
    Amounts = {1}
CHECK_DEADLOCK FALSE
INVARIANTS
    CleanupNeverRefused
    LedgerSettled
    LittleAfterCancellation
PROPERTIES
    ImplementsBudget
    SessionsReturn
