SPECIFICATION FairSpec
CONSTANTS
    Row = {kept, deleted}
    Retract = {deleted}
    Cap = 1
    Batch = 1
    MaxTask = 5
    MaxFault = 2
    MaxKind = 1
INVARIANTS TypeOK Armed CapsHold
PROPERTIES RowsAreWorked
\* Every row may be done.
CHECK_DEADLOCK FALSE
