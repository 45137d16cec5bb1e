------------------------- MODULE EnvironmentSwitching -------------------------
(***************************************************************************)
(* Environments (src/network/environmentManager.ts) and the client that    *)
(* follows them (src/client/stellarClient.ts).  switch tells its listeners *)
(* one after the other, synchronously; a listener may itself switch,       *)
(* register, or stop a client from following, so calls nest.               *)
(*                                                                         *)
(* A configuration is its environment, its kind and the number of its      *)
(* registration.  A "mistaken" one is refused by validate, a "blocked" one *)
(* (http with allowHttp false) by the constructor of rpc.Server only.      *)
(***************************************************************************)
EXTENDS Naturals, Sequences, SequencesExt, FiniteSets

CONSTANTS
    Environments,
    MaxRegistered,  \* bound: registrations
    MaxSwitches     \* bound: switches

ASSUME EnvironmentAssumption == MaxRegistered \in Nat /\ MaxSwitches \in Nat

VARIABLES
    registry,       \* registered environments and their configurations
    registered,     \* registrations so far
    active,         \* activeId, or NoEnvironment
    follows,        \* listeners, in order: the client's, and the application's
    client,         \* the client: the configuration of url and passphrase, and of its rpc
    calls,          \* calls of switch under way, innermost last: the configuration
                    \* switched to, the listeners yet to tell, whether the client called
                    \* it, and whether the application's listener is running
    switches,       \* switches so far
    nested          \* history: a listener has switched since the outermost call began

esVars == <<registry, registered, active, follows, client, calls, switches, nested>>

NoEnvironment == "none"
Kinds == {"sound", "blocked", "mistaken"}
NoConfig == [of |-> NoEnvironment, kind |-> "sound", number |-> 0]
Config == [of : Environments, kind : Kinds, number : 1..MaxRegistered] \cup {NoConfig}
Listeners == {"client", "application"}

ESInit ==
    /\ registry = [e \in {} |-> NoConfig]
    /\ registered = 0
    /\ active = NoEnvironment
    /\ follows = <<>>
    /\ client = [config |-> NoConfig, rpc |-> NoConfig]
    /\ calls = <<>>
    /\ switches = 0
    /\ nested = FALSE

\* All code is synchronous: while a switch is under way, the application acts
\* in its listener only.
Acting == calls # <<>> => Last(calls).inside

\* register, over an earlier environment of that id as well, also the active one.
RegisterEnvironment(e, kind) ==
    /\ Acting /\ registered < MaxRegistered
    /\ registered' = registered + 1
    /\ registry' = [d \in DOMAIN registry \cup {e} |->
                      IF d = e THEN [of |-> e, kind |-> kind, number |-> registered'] ELSE registry[d]]
    /\ UNCHANGED <<active, follows, client, calls, switches, nested>>

\* Mutant: the active environment may go, too.
UnregisterAny(e) ==
    /\ Acting /\ e \in DOMAIN registry
    /\ registry' = [d \in DOMAIN registry \ {e} |-> registry[d]]
    /\ UNCHANGED <<registered, active, follows, client, calls, switches, nested>>

UnregisterEnvironment(e) ==
    /\ Acting /\ e # active /\ e \in DOMAIN registry
    /\ registry' = [d \in DOMAIN registry \ {e} |-> registry[d]]
    /\ UNCHANGED <<registered, active, follows, client, calls, switches, nested>>

\* A listener is added at the end, where calls under way will come to it; one
\* that is taken away they pass over.
Follow(l) ==
    /\ Acting /\ l \notin ToSet(follows)
    /\ follows' = Append(follows, l)
    /\ calls' = [k \in DOMAIN calls |-> [calls[k] EXCEPT !.todo = Append(@, l)]]
    /\ UNCHANGED <<registry, registered, active, switches, nested>>

\* No listener is in a list twice.
Without(todo, l) ==
    IF l \in ToSet(todo) THEN RemoveAt(todo, CHOOSE k \in DOMAIN todo : todo[k] = l) ELSE todo

\* onChange's function, and disposeEnvironmentListener.
StopFollowing(l) ==
    /\ Acting /\ l \in ToSet(follows)
    /\ follows' = Without(follows, l)
    /\ calls' = [k \in DOMAIN calls |-> [calls[k] EXCEPT !.todo = Without(@, l)]]
    /\ UNCHANGED <<registry, registered, active, client, switches, nested>>

OnChange == Follow("application") /\ UNCHANGED client

\* A client is constructed, on the active environment or settings of its own
\* (bound: once no earlier one follows).
Construct ==
    /\ client' = IF active = NoEnvironment THEN client
                 ELSE [config |-> registry[active], rpc |-> registry[active]]
    /\ Follow("client")

\* applyEnvironmentConfig: the rpc stays the old one when its constructor throws.
Apply(config) ==
    client' = [config |-> config, rpc |-> IF config.kind = "blocked" THEN client.rpc ELSE config]

\* switch, of the manager or (own) by switchEnvironment of the client.
Switch(e, own) ==
    /\ Acting /\ switches < MaxSwitches
    /\ e \in DOMAIN registry /\ registry[e].kind # "mistaken"
    /\ own => "client" \in ToSet(follows) \/ client.config # NoConfig
    /\ active' = e
    /\ switches' = switches + 1
    /\ calls' = Append(calls, [config |-> registry[e], todo |-> follows, own |-> own, inside |-> FALSE])
    /\ nested' = (calls # <<>>)
    /\ UNCHANGED <<registry, registered, follows, client>>

\* The next listener of the innermost call hears of it.
Tell ==
    LET call == Last(calls)
        l    == Head(call.todo)
    IN  /\ ~Acting /\ call.todo # <<>>
        /\ calls' = [calls EXCEPT ![Len(calls)] = [call EXCEPT !.todo = Tail(@), !.inside = (l = "application")]]
        /\ IF l = "client" THEN Apply(call.config) ELSE UNCHANGED client
        /\ UNCHANGED <<registry, registered, active, follows, switches, nested>>

\* The application's listener returns, or throws, which is ignored.
ListenerReturns ==
    /\ calls # <<>> /\ Acting
    /\ calls' = [calls EXCEPT ![Len(calls)].inside = FALSE]
    /\ UNCHANGED <<registry, registered, active, follows, client, switches, nested>>

\* The call ends; that of the client applies the configuration, again.
SwitchReturns ==
    /\ ~Acting /\ Last(calls).todo = <<>>
    /\ IF Last(calls).own THEN Apply(Last(calls).config) ELSE UNCHANGED client
    /\ calls' = Front(calls)
    /\ UNCHANGED <<registry, registered, active, follows, switches, nested>>

ESSystem == Tell \/ ListenerReturns \/ SwitchReturns
ESNext ==
    \/ ESSystem \/ OnChange \/ Construct
    \/ \E l \in Listeners : StopFollowing(l)
    \/ \E e \in Environments :
          \/ UnregisterEnvironment(e)
          \/ \E kind \in Kinds : RegisterEnvironment(e, kind)
          \/ \E own \in BOOLEAN : Switch(e, own)

-------------------------------------------------------------------------------
ESTypeOK ==
    /\ registry \in [DOMAIN registry -> Config] /\ DOMAIN registry \subseteq Environments
    /\ registered \in 0..MaxRegistered
    /\ active \in DOMAIN registry \cup {NoEnvironment}
    /\ follows \in Seq(Listeners) /\ IsInjective(follows)
    /\ client \in [config : Config, rpc : Config]
    /\ calls \in Seq([config : Config, todo : Seq(Listeners), own : BOOLEAN, inside : BOOLEAN])
    /\ switches \in 0..MaxSwitches /\ nested \in BOOLEAN

\* Once all calls have returned, a client that follows is on the environment
\* the manager says is active, whoever switched and whatever listeners did, but
\* for a switch inside a listener, whose outer call tells its older result
\* later.  Its rpc is that of its passphrase, unless its constructor refused.
ClientFollows ==
    calls = <<>> /\ "client" \in ToSet(follows) =>
        /\ active # NoEnvironment /\ ~nested => client.config.of = active
        /\ client.config.kind # "blocked" => client.rpc = client.config
===============================================================================
