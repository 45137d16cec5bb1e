SPECIFICATION Spec
CONSTANTS
    h1 = h1
    h2 = h2
    Hashes = {h1, h2}
    Timeouts <- TimeoutsMC
    MaxTime = 2
    MaxLoops <- LoopsMC
INVARIANT CancelRejectsNobody
CHECK_DEADLOCK FALSE
