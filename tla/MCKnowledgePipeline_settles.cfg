SPECIFICATION FairSpec
CONSTANTS
    s1 = s1
    s2 = s2
    s3 = s3
    Slot <- One
    MaxReparse = 1
    MaxCancel = 2
    MaxRetry = 0
    MaxCrash = 1
    MaxRefused = 1
    MaxLost = 1
PROPERTIES
    CancelledStays
    Settles
\* A row that has settled stays as it is.
CHECK_DEADLOCK FALSE
