SPECIFICATION Spec
CONSTANTS
    MaxTurns = 2
CHECK_DEADLOCK FALSE
INVARIANTS
    FinalStatusAfterCleanup
