SPECIFICATION Spec
CONSTANTS
    o1 = o1
    o2 = o2
    stale = stale
    g1 = g1
    g2 = g2
    Owners <- MCOwners
    GenerationOf <- MCGenerationOf
    OwnGeneration = g2
    MaxHandle = 3
CHECK_DEADLOCK FALSE
SYMMETRY Symmetry
INVARIANTS
    OpenIffGuarded
    CompleteIsQuiet
    CauseDominates
PROPERTIES
    CauseOnlyRises
