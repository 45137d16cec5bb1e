--------------------------- MODULE WebSocketManager ---------------------------
(***************************************************************************)
(* The real-time connection of src/client/websocket/websocketManager.ts.   *)
(*                                                                         *)
(* A WebSocket keeps the handlers it was given, so each socket ever        *)
(* created goes on calling back, whichever socket this.ws now refers to.   *)
(* A socket that fails fires its error and close events in one task.  What *)
(* the server does with messages is external: registered is the set of     *)
(* subscriptions whose subscribe message was sent on a socket and not      *)
(* followed by an unsubscribe.                                             *)
(***************************************************************************)
EXTENDS Naturals, FiniteSets, Sequences

CONSTANTS
    Subscriptions,      \* subscription ids
    MaxReconnects,      \* config.reconnectAttempts
    MaxSockets          \* bound: sockets ever created

ASSUME ReconnectsAssumption == MaxReconnects \in Nat /\ MaxSockets \in Nat

VARIABLES
    sockets,            \* every socket created, oldest first
    ws,                 \* this.ws: an index into sockets, or 0 for null
    isConnecting,
    isDestroyed,
    reconnectAttempts,
    reconnectTimer,     \* the timeout reconnectTimer refers to is pending
    strayTimers,        \* pending timeouts whose handle was overwritten
    heartbeat,          \* the heartbeat interval is running
    subscriptions       \* the local registry

wsVars == <<sockets, ws, isConnecting, isDestroyed, reconnectAttempts,
            reconnectTimer, strayTimers, heartbeat, subscriptions>>

SocketState == {"connecting", "open", "closing", "closed"}
Socket == [state: SocketState, registered: SUBSET Subscriptions]

Live(s) == sockets[s].state # "closed"

WSTypeOK ==
    /\ sockets \in Seq(Socket)
    /\ ws \in 0..Len(sockets)
    /\ isConnecting \in BOOLEAN
    /\ isDestroyed \in BOOLEAN
    /\ reconnectAttempts \in Nat
    /\ reconnectTimer \in BOOLEAN
    /\ strayTimers \in Nat
    /\ heartbeat \in BOOLEAN
    /\ subscriptions \subseteq Subscriptions

WSInit ==
    /\ sockets = <<>>
    /\ ws = 0
    /\ isConnecting = FALSE
    /\ isDestroyed = FALSE
    /\ reconnectAttempts = 0
    /\ reconnectTimer = FALSE
    /\ strayTimers = 0
    /\ heartbeat = FALSE
    /\ subscriptions = {}

-----------------------------------------------------------------------------
\* Mutant: a destroyed manager connects again.
ConnectDestroyed ==
    IF isConnecting
    THEN UNCHANGED <<sockets, ws, isConnecting>>
    ELSE /\ Len(sockets) < MaxSockets
         /\ sockets' = Append(sockets, [state |-> "connecting", registered |-> {}])
         /\ ws' = Len(sockets) + 1
         /\ isConnecting' = TRUE

\* connect: nothing while an attempt is under way or after disconnect; else a
\* new socket replaces this.ws, whatever state the old one is in.
Connect ==
    IF isConnecting \/ isDestroyed
    THEN UNCHANGED <<sockets, ws, isConnecting>>
    ELSE /\ Len(sockets) < MaxSockets
         /\ sockets' = Append(sockets, [state |-> "connecting", registered |-> {}])
         /\ ws' = Len(sockets) + 1
         /\ isConnecting' = TRUE

ConnectCall ==
    /\ Connect
    /\ UNCHANGED <<isDestroyed, reconnectAttempts, reconnectTimer, strayTimers,
                   heartbeat, subscriptions>>

\* A reconnect timer fires: the one reconnectTimer refers to or a stray one.
ReconnectTimerFires ==
    /\ \/ reconnectTimer /\ reconnectTimer' = FALSE /\ UNCHANGED strayTimers
       \/ strayTimers > 0 /\ strayTimers' = strayTimers - 1 /\ UNCHANGED reconnectTimer
    /\ reconnectAttempts' = reconnectAttempts + 1
    /\ Connect
    /\ UNCHANGED <<isDestroyed, heartbeat, subscriptions>>

\* Mutants: no resubscription; the attempt's flag is not lowered.
OnOpenSilently(s) ==
    /\ sockets[s].state = "connecting"
    /\ sockets' = [sockets EXCEPT ![s].state = "open"]
    /\ isConnecting' = FALSE
    /\ reconnectAttempts' = 0
    /\ heartbeat' = TRUE
    /\ UNCHANGED <<ws, isDestroyed, reconnectTimer, strayTimers, subscriptions>>

OnOpenKeepsFlag(s) ==
    /\ sockets[s].state = "connecting"
    /\ sockets' = [sockets EXCEPT ![s] = [state |-> "open", registered |-> subscriptions]]
    /\ reconnectAttempts' = 0
    /\ heartbeat' = TRUE
    /\ UNCHANGED <<ws, isConnecting, isDestroyed, reconnectTimer, strayTimers, subscriptions>>

\* onopen.  resubscribeAll sends on this.ws, which need not be the socket that
\* opened; a send on a socket that is still connecting throws, and one on a
\* socket that is closing or closed is discarded.
OnOpen(s) ==
    LET opened == [sockets EXCEPT ![s].state = "open"]
    IN  /\ sockets[s].state = "connecting"
        /\ sockets' = IF ws # 0 /\ opened[ws].state = "open"
                      THEN [opened EXCEPT ![ws].registered = @ \cup subscriptions]
                      ELSE opened
        /\ isConnecting' = FALSE
        /\ reconnectAttempts' = 0
        /\ heartbeat' = TRUE
        /\ UNCHANGED <<ws, isDestroyed, reconnectTimer, strayTimers, subscriptions>>

\* Mutants: a lost connection is not retried; it is retried without limit.
NoReconnect == UNCHANGED <<reconnectTimer, strayTimers>>

ReconnectForever ==
    IF isDestroyed
    THEN UNCHANGED <<reconnectTimer, strayTimers>>
    ELSE /\ reconnectTimer' = TRUE
         /\ strayTimers' = strayTimers + (IF reconnectTimer THEN 1 ELSE 0)

\* handleReconnect: reconnectTimer is overwritten, not cleared.
HandleReconnect ==
    IF isDestroyed \/ reconnectAttempts >= MaxReconnects
    THEN UNCHANGED <<reconnectTimer, strayTimers>>
    ELSE /\ reconnectTimer' = TRUE
         /\ strayTimers' = strayTimers + (IF reconnectTimer THEN 1 ELSE 0)

\* onclose, after onerror if the socket failed.
OnClose(s) ==
    /\ Live(s)
    /\ sockets' = [sockets EXCEPT ![s].state = "closed"]
    /\ isConnecting' = FALSE
    /\ heartbeat' = FALSE
    /\ HandleReconnect
    /\ UNCHANGED <<ws, isDestroyed, reconnectAttempts, subscriptions>>

Disconnect ==
    /\ isDestroyed' = TRUE
    /\ heartbeat' = FALSE
    /\ reconnectTimer' = FALSE
    /\ sockets' = IF ws # 0 /\ Live(ws) THEN [sockets EXCEPT ![ws].state = "closing"] ELSE sockets
    /\ ws' = 0
    /\ UNCHANGED <<isConnecting, reconnectAttempts, strayTimers, subscriptions>>

\* Whether this.ws is open, so that messages are sent on it.
IsConnected == ws # 0 /\ sockets[ws].state = "open"

Subscribe(id) ==
    /\ id \notin subscriptions
    /\ subscriptions' = subscriptions \cup {id}
    /\ sockets' = IF IsConnected THEN [sockets EXCEPT ![ws].registered = @ \cup {id}] ELSE sockets
    /\ UNCHANGED <<ws, isConnecting, isDestroyed, reconnectAttempts,
                   reconnectTimer, strayTimers, heartbeat>>

Unsubscribe(id) ==
    /\ id \in subscriptions
    /\ subscriptions' = subscriptions \ {id}
    /\ sockets' = IF IsConnected THEN [sockets EXCEPT ![ws].registered = @ \ {id}] ELSE sockets
    /\ UNCHANGED <<ws, isConnecting, isDestroyed, reconnectAttempts,
                   reconnectTimer, strayTimers, heartbeat>>

-----------------------------------------------------------------------------
(* Properties of the manager, whoever drives it.                            *)

\* While this.ws is open, the server knows exactly the local subscriptions,
\* however subscribing, unsubscribing, reconnecting and callbacks of replaced
\* sockets interleave.
SubscriptionsRegistered == IsConnected => sockets[ws].registered = subscriptions

\* After disconnect no timer, caller or late callback creates a socket.
NoSocketAfterDisconnect == [][isDestroyed => Len(sockets') = Len(sockets)]_wsVars

\* A connection that was lost is not forgotten: until disconnect, when every
\* socket is closed a reconnect timer is pending or the attempts are used up.
ReconnectStillPossible ==
    (~isDestroyed /\ sockets # <<>> /\ \A s \in DOMAIN sockets : ~Live(s)) =>
        reconnectTimer \/ strayTimers > 0 \/ reconnectAttempts >= MaxReconnects

\* isConnecting blocks every later connect, so it must not outlive the attempt:
\* it is raised only while the newest socket is still connecting.
ConnectingFlagHonest ==
    isConnecting => sockets # <<>> /\ sockets[Len(sockets)].state \in {"connecting", "closing"}

\* "Cleanup all asynchronous resources owned by this client"
\* (stellarClient.ts:2122): once disconnected, no socket is left open.
CleanupReleasesSockets ==
    isDestroyed => \A s \in DOMAIN sockets : sockets[s].state \in {"closing", "closed"}
===============================================================================
