SPECIFICATION Spec
CONSTANTS
    Images = 2
    MaxRun = 2
    MaxRetry = 1
    Carries = TRUE
    MaxRefused = 1
    MaxFault = 1
INVARIANT SeedlessIsAbsent
CHECK_DEADLOCK FALSE
