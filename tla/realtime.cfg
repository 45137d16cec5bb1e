SPECIFICATION SUSpec
CONSTANTS
    Subscriptions = {s1, s2}
    MaxReconnects = 2
    MaxAttempts = 2
    MaxSockets = 5
    MaxConnects = 2
INVARIANTS
    SUTypeOK
    SubscriptionsRegistered
    OneConnection
    ConnectedIsTrue
    ReconnectsSurvive
PROPERTY NoSocketAfterDisconnect
CHECK_DEADLOCK FALSE
