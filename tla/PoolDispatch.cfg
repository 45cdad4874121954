SPECIFICATION FairSpec
CONSTANTS
    c1 = c1
    c2 = c2
    executor = executor
    verifier = verifier
    a = a
    b = b
    full = full
    edited = edited
    Pool = Pool
    None = None
    Callers <- MCCallers
    Roles <- MCRoles
    Targets <- MCTargets
    Editions <- MCEditions
    Members <- MCMembers
    Direct <- MCDirect
    Candidates <- MCCandidates
    MaxHint = 2
INVARIANTS
    OneTargetPerRole
    RotationFair
    RestHonoured
    NothingLeftToTry
    RouteReported
PROPERTIES
    CallsAnswered
