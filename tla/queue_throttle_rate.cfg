SPECIFICATION Spec
CONSTANTS
    r1 = r1
    r2 = r2
    r3 = r3
    r4 = r4
    Requests <- Four
    Throwing = {}
    Configs <- None
    InitialConfig <- TwoSlots
INVARIANT ThrottleRateRespected
CHECK_DEADLOCK FALSE
