SPECIFICATION FairSpec
CONSTANTS
    h1 = h1
    h2 = h2
    Hashes = {h1, h2}
    Timeouts <- TimeoutsMC
    MaxTime = 2
    MaxLoops <- LoopsMC
INVARIANTS
    TypeOK
    RegistryMatchesLoops
    OutcomesHonest
PROPERTIES
    HydrationFaithful
    NoQueryAfterStop
    EveryLoopEnds
CHECK_DEADLOCK FALSE
