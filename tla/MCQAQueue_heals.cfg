SPECIFICATION HealSpec
CONSTANTS
    i1 = i1
    i2 = i2
    u1 = u1
    u2 = u2
    q1 = q1
    q2 = q2
    None = None
    Instance = {i1}
    User = {u1}
    Request = {q1, q2}
    MaxSize = 1
    MaxPerUser = 2
    Workers = 2
    GlobalMax = 1
    MaxCut = 0
    MaxFault = 1
PROPERTIES GateHeals
CHECK_DEADLOCK FALSE
