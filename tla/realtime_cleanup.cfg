SPECIFICATION SUSpec
CONSTANTS
    Subscriptions = {s1, s2}
    MaxReconnects = 2
    MaxAttempts = 2
    MaxSockets = 4
    MaxConnects = 2
INVARIANT CleanupReleasesSockets
CHECK_DEADLOCK FALSE
