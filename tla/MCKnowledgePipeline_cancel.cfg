SPECIFICATION Spec
CONSTANTS
    s1 = s1
    s2 = s2
    s3 = s3
    Slot <- One
    MaxReparse = 0
    MaxCancel = 1
    MaxRetry = 0
    MaxCrash = 0
    MaxRefused = 0
    MaxLost = 0
PROPERTIES
    CancelSticks
\* A row that has settled stays as it is.
CHECK_DEADLOCK FALSE
