SPECIFICATION CEFairSpec
CONSTANTS
    Regs = {a, b}
    UsedKeys = {"event", "name"}
    PageLimit = 1
    MaxLedger = 2
    MaxEvents = 2
    NoKey = NoKey
INVARIANTS
    CETypeOK
    ListenersServed
PROPERTY EventuallyDelivered
CHECK_DEADLOCK FALSE
