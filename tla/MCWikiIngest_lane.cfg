SPECIFICATION Spec
CONSTANTS
    d1 = d1
    d2 = d2
    w1 = w1
    w2 = w2
    None = None
    Doc = {d1, d2}
    Worker = {w1, w2}
    MaxOps = 3
    MaxUser = 1
    MaxFails = 0
    Batch = 2
    MaxFault = 1
SYMMETRY Alike
INVARIANTS TypeOK DocAlone SlotHasRow DrainedOnce ContributionKept NoGhost
\* Every row may be settled.
CHECK_DEADLOCK FALSE
