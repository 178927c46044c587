SPECIFICATION Spec
CONSTANTS
    r1 = r1
    r2 = r2
    r3 = r3
    t1 = t1
    t2 = t2
    Req = {r1, r2, r3}
    Turn = {t1}
    MaxBox = 4
    Adopts = TRUE
    MaxFault = 1
SYMMETRY Symmetry
INVARIANTS TypeOK LockIsOwn InUseIsKept OneSandbox NoOrphan
\* Every request may have ended.
CHECK_DEADLOCK FALSE
