SPECIFICATION Spec
CONSTANTS
    r1 = r1
    r2 = r2
    r3 = r3
    u1 = u1
    u2 = u2
    sequential = sequential
    automatic = automatic
    balanced = balanced
    custom = custom
    p1 = p1
    NoProfile = NoProfile
    Runs <- MCRuns
    Updaters <- MCUpdaters
    Strategies <- MCStrategies
    Modes <- MCModes
    Profiles <- MCProfiles
    Resolvable <- MCResolvable
    MaxGeneration = 2
    HostResets = FALSE
CHECK_DEADLOCK FALSE
PROPERTIES
    RefusalMeansBusy
