SPECIFICATION FairSpec
CONSTANTS
    MaxTurns = 2
CHECK_DEADLOCK FALSE
INVARIANTS
    UnregisteredRunIsCancelled
    TaskOnFileOrAborted
    ReturnedTurnRunsNothing
PROPERTIES
    TurnReleased
