SPECIFICATION Spec
CONSTANTS
    c1 = c1
    c2 = c2
    t1 = t1
    t2 = t2
    Calls <- MCCalls
    ToolCalls <- MCToolCalls
    CallRoles <- MCCallRoles
    Limit <- MCLimit
    MaxProvider = 2
    MaxTool = 1
    MaxConcurrency = 0
    Amounts = {1}
    MaxRejected = 1
    MaxCompleted = 1
CHECK_DEADLOCK FALSE
SYMMETRY Symmetry
INVARIANTS
    WithinLimits
    AccountsExact
    RoleAccountsBalance
PROPERTIES
    NothingGrantedAfterEnd
