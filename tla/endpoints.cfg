SPECIFICATION EMFairSpec
CONSTANTS
    e1 = e1
    e2 = e2
    Endpoints = {e1, e2}
    UnhealthyAfter = 2
    Entries <- EntriesMC
    Priority <- PriorityMC
    Calls = {c1}
    MaxRetries = 1
    Policies = {"round-robin", "weighted", "least-latency", "primary-fallback"}
    InitialPolicy = "round-robin"
    Period = 2
    NoEndpoint = NoEndpoint
INVARIANTS EMTypeOK EachEndpointTriedOnce
PROPERTIES GivesUpOnlyWhenExhausted EveryCallEnds ProbesContinue
