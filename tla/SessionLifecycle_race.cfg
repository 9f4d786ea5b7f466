CONSTANTS
    MaxAttempts = 2
    MaxGeneration = 3
    MaxCrashes = 2
    SafetyTimer = TRUE
SPECIFICATION FairSpec
INVARIANTS
    OnlyTheWindowHurts
PROPERTIES
    ScreensComeBack
    SignInSettles
CHECK_DEADLOCK FALSE
