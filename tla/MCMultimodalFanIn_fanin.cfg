SPECIFICATION FairSpec
CONSTANTS
    Images = 2
    MaxRun = 2
    MaxRetry = 1
    Carries = TRUE
    MaxRefused = 1
    MaxFault = 1
INVARIANTS HandsOverLast HandsOverOnce HandOverIsDue
PROPERTIES FanInEnds
CHECK_DEADLOCK FALSE
