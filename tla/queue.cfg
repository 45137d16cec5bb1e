SPECIFICATION FairSpec
CONSTANTS
    r1 = r1
    r2 = r2
    r3 = r3
    r4 = r4
    Requests <- Four
    Throwing = {r1}
    Configs <- None
    InitialConfig <- TwoSlots
INVARIANTS
    TypeOK
    ConcurrencyLimit
    SlotsAccounted
    LiveRequestsUnsettled
    NoLostWakeup
    ThrottleOvershoot
PROPERTIES
    EveryRequestAnswered
    ImplementsFairService
CHECK_DEADLOCK FALSE
