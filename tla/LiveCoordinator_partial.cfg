SPECIFICATION Spec
CONSTANTS
    NumTasks = 2
    MaxBatchConcurrency = 2
    Needs = {1}
    BatchLimits = {1, 2}
    MaxHandle = 4
    OwnGeneration = 1
    Strategies = {"balanced"}
    Modes = {"auto"}
    Profiles = {"profile"}
    NoProfile = "none"
    Resolvable <- MCResolvable
    MaxGeneration = 2
CHECK_DEADLOCK FALSE
INVARIANTS
    CompletedRunIsWhole
