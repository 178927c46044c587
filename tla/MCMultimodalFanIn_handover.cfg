SPECIFICATION Spec
CONSTANTS
    Images = 2
    MaxRun = 2
    MaxRetry = 1
    Carries = TRUE
    MaxRefused = 1
    MaxFault = 1
PROPERTY FailedHandOverIsRetried
CHECK_DEADLOCK FALSE
