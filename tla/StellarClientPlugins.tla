------------------------- MODULE StellarClientPlugins -------------------------
(***************************************************************************)
(* A client with plugins (src/client/stellarClient.ts,                     *)
(* src/plugin/pluginManager.ts): the constructor fills the pipeline with   *)
(* the middleware of the plugins that are active, and a timer later the    *)
(* manager applies the active plugins to the client, one awaited hook      *)
(* after another, which registers their middleware once more.              *)
(*                                                                         *)
(* Each plugin has one middleware, named by its id.  The services and      *)
(* options plugins may replace are left out.                               *)
(***************************************************************************)
EXTENDS PluginManager, MiddlewarePipeline

CONSTANTS
    MaxClientCalls,     \* bound: calls of the manager in flight at once, next to a client
    RunsAfterFailure    \* bound: whether the pipeline is run when a plugin has failed

ASSUME ClientAssumption ==
    MaxClientCalls \in Nat /\ RunsAfterFailure \in BOOLEAN /\ Plugins \subseteq Names

VARIABLES
    withClient,     \* whether the application makes a client
    client,         \* "none", "constructed", "applying", "applied"
    snapshot        \* the plugins applyToClient has yet to go through

clVars == <<withClient, client, snapshot>>
vars == <<pmVars, mpVars, clVars>>

Manager == [ids |-> ids, state |-> state, plugins |-> plugins]

Init ==
    /\ PMInit
    /\ MPInit
    /\ withClient \in BOOLEAN
    /\ withClient => config.autoInstall /\ config.autoEnable    \* bound
    /\ client = "none"
    /\ snapshot = <<>>

\* The constructor, with getMiddleware.
Construct ==
    /\ withClient /\ client = "none"
    /\ client' = "constructed"
    /\ LET active == GetActive(Manager)
       IN  UseAll([k \in DOMAIN active |-> ids[active[k]]])
    /\ UNCHANGED <<pmVars, withClient, snapshot>>

\* applyToClient, called by the constructor's timer: getActive once.
ApplyToClient ==
    /\ client = "constructed"
    /\ snapshot' = GetActive(Manager)
    /\ client' = IF snapshot' = <<>> THEN "applied" ELSE "applying"
    /\ UNCHANGED <<pmVars, mpVars, withClient>>

\* applyPluginToClient after the plugin's afterClientInit has ended: whether it
\* failed or not, and in whatever state the plugin is by now.  If onError throws
\* as well, applyToClient rejects: this plugin's middleware and the plugins
\* after it are left out.
AfterClientInit(outcome) ==
    /\ client = "applying"
    /\ \/ outcome # "onErrorThrows" /\ UseAll(<<ids[Head(snapshot)]>>) /\ snapshot' = Tail(snapshot)
       \/ outcome = "onErrorThrows" /\ UNCHANGED mpVars /\ snapshot' = <<>>
    /\ client' = IF snapshot' = <<>> THEN "applied" ELSE "applying"
    /\ IF outcome = "settles" THEN UNCHANGED pmVars ELSE SetPluginError(Head(snapshot))
    /\ UNCHANGED withClient

\* Bounds next to a client: fewer callers, and the manager is at rest once the
\* client is applied or its pipeline in use, of which its calls are independent.
Callable ==
    {c \in Callers : withClient => Cardinality({d \in Callers \ {c} : ~Idle(d)}) < MaxClientCalls}
ManagerMoves == run.phase = "idle" /\ client # "applied"
ManagerRests == registering = {} /\ \A c \in Callers : Idle(c)

ManagerNext ==
    /\ ManagerMoves
    /\ \/ \E c \in Callable, p \in Plugins :
             \/ Register(c, p) \/ RegisterThrows(c, p) \/ Install(c, p) \/ Enable(c, p)
             \/ Disable(c, p) \/ Uninstall(c, p) \/ Unregister(c, p)
       \/ \E c \in Callable : InstallAll(c) \/ EnableAll(c) \/ Resume(c)
       \/ \E c \in Callable, outcome \in Outcomes : HookSettles(c, outcome)
       \/ \E i \in registering : OnRegisterSettles(i)
    /\ UNCHANGED <<mpVars, clVars>>

PipelineNext ==
    /\ \/ /\ client \in {"applying", "applied"} /\ ManagerRests
          /\ failed = {} \/ RunsAfterFailure
          /\ Execute
       \/ /\ run.phase \notin {"idle", "done", "failed"}
          /\ \/ /\ run.touched = {}
                /\ \/ \E n \in Names \ Plugins : UseAll(<<n>>)
                   \/ \E n \in Names : RemoveNamed(n)
                   \/ Clear
             \/ \E ok \in BOOLEAN : RunSettles(ok)
    /\ UNCHANGED <<pmVars, clVars>>

Next ==
    \/ ManagerNext
    \/ PipelineNext
    \/ Construct
    \/ ApplyToClient
    \/ \E outcome \in Outcomes : AfterClientInit(outcome)

Spec == Init /\ [][Next]_vars

-------------------------------------------------------------------------------
TypeOK ==
    /\ PMTypeOK
    /\ MPTypeOK
    /\ withClient \in BOOLEAN
    /\ client \in {"none", "constructed", "applying", "applied"}
    /\ snapshot \in Seq(DOMAIN ids)

\* A plugin that the manager has recorded as failed, whatever calls were under
\* way when it failed: it never comes to be installed, enabled or disabled
\* again, a new client does not take its middleware, and applyToClient does not
\* take it up.  A client that took it up before goes on to register its
\* middleware, be it that the failure is that of its afterClientInit
\* (pluginManager.ts:513), and what a pipeline has, it keeps.  An onRegister
\* that throws at once (pluginManager.ts:80) is not recorded.
FailedStaysOut ==
    [][/\ \A i \in failed : state'[i] \in {"Error", "Uninstalled"} /\ ~StartsHook(i)
       /\ \A e \in ToSet(middleware') \ ToSet(middleware) : e.name \in Plugins =>
             \E i \in DOMAIN ids : ids[i] = e.name /\ (i \in failed => i \in ToSet(snapshot))
       /\ ToSet(snapshot') \cap failed \subseteq ToSet(snapshot)]_vars
===============================================================================
