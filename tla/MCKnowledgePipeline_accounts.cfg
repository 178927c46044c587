SPECIFICATION WorkersSpec
CONSTANTS
    s1 = s1
    s2 = s2
    s3 = s3
    Slot <- Three
    MaxReparse = 0
    MaxCancel = 0
    MaxRetry = 2
    MaxCrash = 0
    MaxRefused = 2
    MaxLost = 0
INVARIANTS
    TypeOK
    SlotsOwned
    CompletedIsDrained
    ChunksAreCurrent
PROPERTIES
    FinalizingDrains
\* A row that has settled stays as it is.
CHECK_DEADLOCK FALSE
