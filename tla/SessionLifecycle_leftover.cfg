CONSTANTS
    MaxAttempts = 2
    MaxGeneration = 2
    MaxCrashes = 1
    SafetyTimer = FALSE
SPECIFICATION Spec
INVARIANT CleanupLeavesNoSecrets
CHECK_DEADLOCK FALSE
