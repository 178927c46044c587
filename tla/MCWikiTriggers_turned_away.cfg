SPECIFICATION FairSpec
CONSTANTS
    Row = {deleted}
    Retract = {deleted}
    Cap = 1
    Batch = 1
    MaxTask = 5
    MaxFault = 1
    MaxKind = 1
PROPERTIES TurnedAwayDrain
CHECK_DEADLOCK FALSE
