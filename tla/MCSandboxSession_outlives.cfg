SPECIFICATION Spec
CONSTANTS
    r1 = r1
    r2 = r2
    r3 = r3
    t1 = t1
    t2 = t2
    Req = {r1, r2}
    Turn = {t1, t2}
    MaxBox = 3
    Adopts = TRUE
    MaxFault = 1
INVARIANTS DiesWithSession
\* Every request may have ended.
CHECK_DEADLOCK FALSE
