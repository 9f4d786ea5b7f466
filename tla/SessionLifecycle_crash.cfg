CONSTANTS
    MaxAttempts = 3
    MaxGeneration = 3
    MaxCrashes = 3
    SafetyTimer = FALSE
SPECIFICATION Spec
INVARIANTS
    TypeOK
    StoreLockHeldWhereUsed
    SavedSessionRestorable
    OpensOnlyItsOwnStore
    ChallengeKeepsItsStore
    LogoutErasesDeparted
    LiveSessionIntact
CHECK_DEADLOCK FALSE
