SPECIFICATION Spec
CONSTANTS
    i1 = i1
    i2 = i2
    u1 = u1
    u2 = u2
    q1 = q1
    q2 = q2
    None = None
    Instance = {i1}
    User = {u1, u2}
    Request = {q1, q2}
    MaxSize = 1
    MaxPerUser = 1
    Workers = 2
    GlobalMax = 1
    MaxCut = 1
    MaxFault = 0
INVARIANTS GateHolds
CHECK_DEADLOCK FALSE
