SPECIFICATION Spec
CONSTANTS
    s1 = s1
    s2 = s2
    s3 = s3
    Slot <- Two
    MaxReparse = 0
    MaxCancel = 0
    MaxRetry = 1
    MaxCrash = 1
    MaxRefused = 0
    MaxLost = 0
INVARIANTS
    DrainsOnce
\* A row that has settled stays as it is.
CHECK_DEADLOCK FALSE
