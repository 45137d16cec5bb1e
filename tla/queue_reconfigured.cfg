SPECIFICATION Spec
CONSTANTS
    r1 = r1
    r2 = r2
    r3 = r3
    r4 = r4
    Requests <- Four
    Throwing = {r1}
    Configs <- Retunings
    InitialConfig <- TwoSlots
SYMMETRY Symmetry
INVARIANT NoDeadQueue
PROPERTY StartsWithinLimit
CHECK_DEADLOCK FALSE
