------------------------- MODULE ReconnectionManager --------------------------
(***************************************************************************)
(* The connection state and backoff counter of                             *)
(* src/network/reconnectionManager.ts, which a SubscriptionService drives  *)
(* from the events of its WebSocketManager.  The delays themselves are not *)
(* modelled: a pending timer may fire in any state.                        *)
(***************************************************************************)
EXTENDS Naturals

CONSTANT MaxAttempts    \* config.maxAttempts

ASSUME MaxAttemptsAssumption == MaxAttempts \in Nat

VARIABLES
    rmState,        \* the state its listeners were last told
    rmAttempts,     \* attempts made since the last connection
    rmTimer         \* whether the reconnect timer is pending

rmVars == <<rmState, rmAttempts, rmTimer>>

RMTypeOK ==
    /\ rmState \in {"connected", "disconnected", "reconnecting"}
    /\ rmAttempts \in Nat
    /\ rmTimer \in BOOLEAN

RMInit == rmState = "disconnected" /\ rmAttempts = 0 /\ rmTimer = FALSE

\* markConnected
MarkConnected == rmState' = "connected" /\ rmAttempts' = 0 /\ rmTimer' = FALSE

\* Mutant: a lost connection is retried without being reported.
RetryUnreported ==
    /\ rmTimer' = (rmAttempts < MaxAttempts)
    /\ UNCHANGED <<rmState, rmAttempts>>

\* markDisconnected followed by scheduleReconnect, as the service calls them.
ReconnectLater ==
    /\ IF rmAttempts < MaxAttempts
       THEN rmState' = "reconnecting" /\ rmTimer' = TRUE
       ELSE rmState' = "disconnected" /\ rmTimer' = FALSE
    /\ UNCHANGED rmAttempts

\* reset
Reset == rmState' = "disconnected" /\ rmAttempts' = 0 /\ rmTimer' = FALSE

\* Mutant: an attempt is reported as a state of its own.
AttemptReported ==
    /\ rmTimer
    /\ rmTimer' = FALSE
    /\ rmAttempts' = rmAttempts + 1
    /\ rmState' = "connecting"

\* The timer's callback, up to its call of connectFn.
AttemptReconnect ==
    /\ rmTimer
    /\ rmTimer' = FALSE
    /\ rmAttempts' = rmAttempts + 1
    /\ UNCHANGED rmState
===============================================================================
