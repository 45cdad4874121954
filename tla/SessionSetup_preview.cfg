SPECIFICATION SetupSpec
CONSTANTS
    r1 = r1
    r2 = r2
    r3 = r3
    u1 = u1
    single = single
    manual = manual
    fast = fast
    deep = deep
    p1 = p1
    p2 = p2
    NoProfile = NoProfile
    NoRuntime = NoRuntime
    NoSelection = NoSelection
    Client = u1
    Single = single
    Runs <- MCRuns
    Updaters <- MCUpdaters
    Strategies <- MCStrategies
    Modes <- MCModes
    Profiles <- MCProfiles
    Resolvable <- MCResolvable
    Assemblable <- MCAssemblable
    MaxGeneration = 2
    HostResets = TRUE
    MaxEvents = 3
CHECK_DEADLOCK FALSE
PROPERTIES
    PreviewLeavesSession
