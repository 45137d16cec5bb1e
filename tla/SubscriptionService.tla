-------------------------- MODULE SubscriptionService -------------------------
(***************************************************************************)
(* A WebSocketManager with its owner: a SubscriptionService                *)
(* (src/subscriptions/subscriptionService.ts), whose ReconnectionManager   *)
(* follows the manager's connection changes and reconnects it a second     *)
(* way, or a StellarClient, which uses the manager alone.  The service's   *)
(* event dispatcher is not part of this module.                            *)
(***************************************************************************)
EXTENDS WebSocketManager, ReconnectionManager

CONSTANT MaxConnects    \* bound: calls of connect / start by the application

ASSUME MaxConnectsAssumption == MaxConnects \in Nat

VARIABLES
    managed,        \* whether the owner is a SubscriptionService
    connects        \* calls of connect or start so far

suVars == <<wsVars, rmVars, managed, connects>>

SUInit ==
    /\ WSInit
    /\ RMInit
    /\ managed \in BOOLEAN
    /\ connects = 0

\* start of the service, or connect of the manager.
StartService ==
    /\ connects < MaxConnects
    /\ connects' = connects + 1
    /\ ConnectCall
    /\ UNCHANGED <<rmVars, managed>>

\* stop of the service: disconnect, then reset; the close event of the socket
\* comes later.  (Cleanup timers belong to the dispatcher's subscriptions.)
StopService ==
    /\ ~isDestroyed
    /\ Disconnect
    /\ IF managed THEN Reset ELSE UNCHANGED rmVars
    /\ UNCHANGED <<managed, connects>>

\* onConnectionChange(true) and (false) reach the reconnection manager.
Opened(s) ==
    /\ OnOpen(s)
    /\ IF managed THEN MarkConnected ELSE UNCHANGED rmVars
    /\ UNCHANGED <<managed, connects>>

Closed(s) ==
    /\ OnClose(s)
    /\ IF managed THEN ReconnectLater ELSE UNCHANGED rmVars
    /\ UNCHANGED <<managed, connects>>

ManagerReconnects ==
    /\ ReconnectTimerFires
    /\ UNCHANGED <<rmVars, managed, connects>>

\* connectFn is the manager's connect, which does not throw for a valid URL.
ServiceReconnects ==
    /\ AttemptReconnect
    /\ ConnectCall
    /\ UNCHANGED <<managed, connects>>

\* The service subscribes at its dispatcher only; subscribe and unsubscribe of
\* the manager are called by its other owner.
Subscribing ==
    /\ ~managed
    /\ \E id \in Subscriptions : Subscribe(id) \/ Unsubscribe(id)
    /\ UNCHANGED <<rmVars, managed, connects>>

SUNext ==
    \/ StartService
    \/ StopService
    \/ \E s \in DOMAIN sockets : Opened(s) \/ Closed(s)
    \/ ManagerReconnects
    \/ ServiceReconnects
    \/ Subscribing

SUSpec == SUInit /\ [][SUNext]_suVars

-----------------------------------------------------------------------------
\* Type invariant.
SUTypeOK ==
    /\ WSTypeOK
    /\ RMTypeOK
    /\ managed \in BOOLEAN
    /\ connects \in 0..MaxConnects

\* A manager connected once by its owner and reconnecting by its own timer only
\* keeps to one live socket, has no timer it cannot cancel, counts no attempt
\* beyond the limit and beats exactly while that socket is open.
OneConnection ==
    (~managed /\ connects <= 1) =>
        /\ Cardinality({s \in DOMAIN sockets : Live(s)}) <= 1
        /\ strayTimers = 0
        /\ reconnectAttempts <= MaxReconnects
        /\ heartbeat <=> \E s \in DOMAIN sockets : sockets[s].state = "open"

\* Listeners told "connected" are told so while a socket is open or on its way
\* out: the two reconnecting timers never leave the service believing in a
\* connection it does not have.
ConnectedIsTrue ==
    rmState = "connected" => \E s \in DOMAIN sockets : sockets[s].state \in {"open", "closing"}

\* Listeners told "reconnecting" are not left waiting: until stop, a timer is
\* pending or a socket is connecting that will report its outcome.
ReconnectingIsLive ==
    (rmState = "reconnecting" /\ ~isDestroyed) =>
        \/ rmTimer
        \/ \E s \in DOMAIN sockets : sockets[s].state = "connecting"

\* A lost connection can come back: nothing is left without a timer or a socket
\* that will go on, and no flag of an old attempt blocks the next one.
ReconnectsSurvive == ReconnectStillPossible /\ ConnectingFlagHonest /\ ReconnectingIsLive
===============================================================================
