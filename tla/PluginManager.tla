----------------------------- MODULE PluginManager -----------------------------
(***************************************************************************)
(* The plugin manager (src/plugin/pluginManager.ts) and the transitions it *)
(* enforces (lifecycle.ts).  Lifecycle hooks are asynchronous: a call of   *)
(* the manager runs up to a hook, suspends, and goes on when the hook has  *)
(* settled, by which time other calls may have changed the same plugin or  *)
(* replaced it by another one of the same id.                              *)
(*                                                                         *)
(* A call is a stack of frames, one for each method entered, and what the  *)
(* top one waits for.  Every plugin has every hook: one that is missing    *)
(* acts like one that settles at once.  onRegister and onError are not     *)
(* awaited: one that throws at once throws out of what called it.  Cycles  *)
(* of dependencies, versions and the validation of a plugin's manifest are *)
(* left out.                                                               *)
(***************************************************************************)
EXTENDS Naturals, Sequences, FiniteSets, FiniteSetsExt, SequencesExt

CONSTANTS
    Plugins,        \* plugin ids
    Requires,       \* the required dependencies of each plugin
    Suggests,       \* its optional ones; together they have no cycle
    Configs,        \* the options a manager may be made with
    Callers,        \* bound: calls of the manager in flight at once
    MaxInstances    \* bound: registrations

ASSUME PluginAssumption ==
    /\ Requires \in [Plugins -> SUBSET Plugins]
    /\ Suggests \in [Plugins -> SUBSET Plugins]
    /\ IsFiniteSet(Plugins)
    /\ Configs \subseteq [autoInstall : BOOLEAN, autoEnable : BOOLEAN]
    /\ MaxInstances \in Nat

VARIABLES
    config,         \* autoInstall and autoEnable
    ids,            \* the id of each plugin instance, in the order of registration
    state,          \* its PluginLifecycleState
    plugins,        \* the instances in the manager's map
    calls,          \* per caller: its frames and what the top one waits for
    registering,    \* instances whose onRegister hook has yet to settle
    lastHook,       \* history: the last of onInstall, onEnable, onDisable started
    failed          \* history: instances that were in state Error

pmVars == <<config, ids, state, plugins, calls, registering, lastHook, failed>>

SwitchHooks == {"onInstall", "onEnable", "onDisable"}
Hooks == SwitchHooks \cup {"onUninstall"}
\* How an awaited hook ends: the last is a failure whose onError hook throws.
Outcomes == {"settles", "fails", "onErrorThrows"}
States == {"Registered", "Installed", "Active", "Disabled", "Error", "Uninstalled"}
Frame == [op : {"install", "enable", "disable", "uninstall", "unregister",
                "auto", "installAll", "enableAll"},
          inst : 0..MaxInstances, todo : Seq(Plugins)]

\* lifecycle.ts VALID_TRANSITIONS (a plugin starts here once it is Registered).
Transitions ==
    [Registered  |-> {"Installed", "Uninstalled"},
     Installed   |-> {"Active", "Disabled", "Uninstalled"},
     Active      |-> {"Disabled", "Uninstalled", "Error"},
     Disabled    |-> {"Active", "Uninstalled", "Error"},
     Error       |-> {"Registered", "Uninstalled"},
     Uninstalled |-> {}]

\* Mutants: what is uninstalled may be installed again; what failed, enabled.
ValidTransitionReinstall(from, to) == to \in Transitions[from] \/ <<from, to>> = <<"Uninstalled", "Installed">>
ValidTransitionRetry(from, to) == to \in Transitions[from] \/ <<from, to>> = <<"Error", "Active">>

ValidTransition(from, to) == to \in Transitions[from]

InstalledStates == {"Installed", "Active"}

\* this.plugins.get(id), in a world w: 0 is undefined.
Get(w, p) ==
    LET found == {i \in w.plugins : w.ids[i] = p}
    IN  IF found = {} THEN 0 ELSE CHOOSE i \in found : TRUE

\* getInstalled and getActive, the latter in the order of the map.
Installed(w) == {w.ids[i] : i \in {j \in w.plugins : w.state[j] \in InstalledStates}}
GetActive(w) ==
    LET active == {i \in w.plugins : w.state[i] = "Active"}
    IN  CHOOSE s \in [1..Cardinality(active) -> active] : \A k, l \in DOMAIN s : k < l => s[k] < s[l]

\* The world a call of caller c sees and changes.
World(c) == [ids |-> ids, state |-> state, plugins |-> plugins, frames |-> calls[c].frames, pc |-> calls[c].pc]

Return(w)  == [w EXCEPT !.pc = "returned"]
Throw(w)   == [w EXCEPT !.pc = "threw"]
Pop(w)     == [w EXCEPT !.frames = Tail(@)]
Push(w, op, i) == [w EXCEPT !.frames = <<[op |-> op, inst |-> i, todo |-> <<>>]>> \o @]
To(w, i, s) == [w EXCEPT !.state[i] = s]
Await(w, hook) == [w EXCEPT !.pc = hook]

-------------------------------------------------------------------------------
(* The methods, each up to the first hook it awaits.                         *)

\* Registering the dependencies first, as install goes on to, cannot happen:
\* one that is not installed has failed the check.
BeginInstall(w, p) ==
    LET i == Get(w, p)
    IN  IF i = 0 THEN Throw(w)
        ELSE IF w.state[i] \in InstalledStates THEN Return(w)
        ELSE IF Requires[p] \subseteq Installed(w) /\ ValidTransition(w.state[i], "Installed")
             THEN Await(Push(To(w, i, "Installed"), "install", i), "onInstall")
             ELSE Throw(w)

\* enable and disable: the state changes before the hook is run.
BeginSwitch(w, p, op, target, hook) ==
    LET i == Get(w, p)
    IN  IF i = 0 THEN Throw(w)
        ELSE IF w.state[i] = target THEN Return(w)
        ELSE IF ValidTransition(w.state[i], target)
             THEN Await(Push(To(w, i, target), op, i), hook)
             ELSE Throw(w)

BeginEnable(w, p)  == BeginSwitch(w, p, "enable", "Active", "onEnable")
BeginDisable(w, p) == BeginSwitch(w, p, "disable", "Disabled", "onDisable")

BeginUninstall(w, p) ==
    LET i == Get(w, p)
    IN  IF i = 0 THEN Throw(w)
        ELSE CASE w.state[i] = "Uninstalled" -> Return(w)
               [] w.state[i] = "Active" -> BeginDisable(Push(w, "uninstall", i), p)
               [] OTHER -> Await(Push(w, "uninstall", i), "onUninstall")

\* The end of unregister.  The entry is deleted by id.
EndUnregister(w, i) ==
    LET gone == IF ValidTransition(w.state[i], "Uninstalled") THEN To(w, i, "Uninstalled") ELSE w
    IN  Return([gone EXCEPT !.plugins = {j \in @ : w.ids[j] # w.ids[i]}])

Dependencies(p) == Requires[p] \cup Suggests[p]

Dependents(w, p) ==
    {i \in w.plugins : p \in Dependencies(w.ids[i]) /\ w.state[i] # "Uninstalled"}

BeginUnregister(w, p) ==
    LET i == Get(w, p)
    IN  IF i = 0 \/ Dependents(w, p) # {} THEN Throw(w)
        ELSE IF w.state[i] \in InstalledStates
             THEN BeginUninstall(Push(w, "unregister", i), p)
             ELSE EndUnregister(w, i)

\* getDependencySorted: each id in the map once and after its dependencies.  Which
\* of such orders depends on that of the dependencies in a manifest.
InstallOrders(w) ==
    {order \in [1..Cardinality(w.plugins) -> {w.ids[i] : i \in w.plugins}] :
        /\ IsInjective(order)
        /\ \A k, l \in DOMAIN order : order[l] \in Dependencies(order[k]) => l < k}

\* installAll and enableAll, from the item after the one they stand at.  The
\* former goes through ids sorted beforehand, the latter through the live map.
NextItem(w) ==
    LET f     == Head(w.frames)
        wants == {k \in DOMAIN f.todo : LET i == Get(w, f.todo[k])
                                        IN  i # 0 /\ w.state[i] \notin InstalledStates}
        on    == {i \in w.plugins : i > f.inst /\ w.state[i] = "Installed"}
    IN  CASE f.op = "installAll" /\ wants # {} ->
                 BeginInstall([w EXCEPT !.frames[1].todo = SubSeq(@, Min(wants) + 1, Len(@))],
                              f.todo[Min(wants)])
          [] f.op = "enableAll" /\ on # {} ->
                 BeginEnable([w EXCEPT !.frames[1].inst = Min(on)], w.ids[Min(on)])
          [] OTHER -> Pop(Return(w))

BeginInstallAll(w, order) == NextItem([Push(w, "installAll", 0) EXCEPT !.frames[1].todo = order])
BeginEnableAll(w)  == NextItem(Push(w, "enableAll", 0))

-------------------------------------------------------------------------------
(* The same methods, after a hook or a method they called.                   *)

\* After the hook of the top frame, which has ended (setPluginError on failure):
\* uninstall goes on after a failure, unless setPluginError throws.
AfterHook(w, outcome) ==
    LET f  == Head(w.frames)
        ok == outcome = "settles"
        v  == IF ok THEN w ELSE To(w, f.inst, "Error")
    IN  CASE w.pc = "onUninstall" ->
                 IF outcome # "onErrorThrows" /\ ValidTransition(v.state[f.inst], "Uninstalled")
                 THEN Pop(Return(To(v, f.inst, "Uninstalled")))
                 ELSE Pop(Throw(v))
          [] w.pc # "onUninstall" /\ ~ok -> Pop(Throw(v))
          [] w.pc = "onInstall" /\ ok /\ config.autoEnable -> BeginEnable(Pop(w), w.ids[f.inst])
          [] OTHER -> Pop(Return(w))

\* After a method the top frame awaited.  Nothing catches a rejection but the
\* handler of an automatic install.
AfterCall(w) ==
    LET f == Head(w.frames)
    IN  CASE w.pc = "threw" /\ f.op = "auto"         -> Pop(Return(To(w, f.inst, "Error")))
          [] w.pc = "threw" /\ f.op # "auto"         -> Pop(w)
          [] w.pc = "returned" /\ f.op = "uninstall" -> Await(w, "onUninstall")
          [] w.pc = "returned" /\ f.op = "unregister" -> Pop(EndUnregister(w, f.inst))
          [] w.pc = "returned" /\ f.op = "auto"      -> Pop(w)
          [] OTHER -> NextItem(w)

-------------------------------------------------------------------------------
NoCall == [frames |-> <<>>, pc |-> "returned"]

PMInit ==
    /\ config \in Configs
    /\ ids = <<>>
    /\ state = <<>>
    /\ plugins = {}
    /\ calls = [c \in Callers |-> NoCall]
    /\ registering = {}
    /\ lastHook = <<>>
    /\ failed = {}

\* The world w that caller c leaves becomes the state; a call that has returned
\* or thrown to its caller is over.
Commit(c, w) ==
    /\ ids' = w.ids
    /\ state' = w.state
    /\ plugins' = w.plugins
    /\ calls' = [calls EXCEPT ![c] =
                   IF w.frames = <<>> THEN NoCall ELSE [frames |-> w.frames, pc |-> w.pc]]
    /\ lastHook' = [i \in DOMAIN w.ids |->
                      CASE w.pc \in SwitchHooks /\ Head(w.frames).inst = i -> w.pc
                        [] OTHER -> IF i \in DOMAIN ids THEN lastHook[i] ELSE "none"]
    /\ failed' = failed \cup {i \in DOMAIN w.state : w.state[i] = "Error"}
    /\ UNCHANGED config

Idle(c) == calls[c] = NoCall

\* The world of caller c with a new instance of p in the map.
Entered(c, p) ==
    [World(c) EXCEPT !.ids = Append(@, p), !.state = Append(@, "Registered"),
                     !.plugins = @ \cup {Len(ids) + 1}]

\* Mutant: an id that is taken is registered again.
RegisterTwice(c, p) ==
    /\ Idle(c)
    /\ Len(ids) < MaxInstances
    /\ Commit(c, Entered(c, p))
    /\ registering' = registering \cup {Len(ids) + 1}

\* register, with its install when autoInstall is set.
Register(c, p) ==
    LET new == Len(ids) + 1
    IN  /\ Idle(c)
        /\ Get(World(c), p) = 0
        /\ new <= MaxInstances
        /\ Commit(c, IF config.autoInstall THEN BeginInstall(Push(Entered(c, p), "auto", new), p)
                     ELSE Entered(c, p))
        /\ registering' = registering \cup {new}

\* register whose onRegister throws at once: register throws in its turn, and
\* leaves the plugin in the map, neither failed nor installed.
RegisterThrows(c, p) ==
    /\ Idle(c)
    /\ Get(World(c), p) = 0
    /\ Len(ids) < MaxInstances
    /\ Commit(c, Entered(c, p))
    /\ UNCHANGED registering

\* The promise of an onRegister hook settles; setPluginError if it rejects.
OnRegisterSettles(i) ==
    /\ i \in registering
    /\ registering' = registering \ {i}
    /\ \/ UNCHANGED <<state, failed>>
       \/ state' = [state EXCEPT ![i] = "Error"] /\ failed' = failed \cup {i}
    /\ UNCHANGED <<config, ids, plugins, calls, lastHook>>

\* The application calls a method.
Call(c, begin) ==
    /\ Idle(c)
    /\ Commit(c, begin)
    /\ UNCHANGED registering

Install(c, p)    == Call(c, BeginInstall(World(c), p))
Enable(c, p)     == Call(c, BeginEnable(World(c), p))
Disable(c, p)    == Call(c, BeginDisable(World(c), p))
Uninstall(c, p)  == Call(c, BeginUninstall(World(c), p))
Unregister(c, p) == Call(c, BeginUnregister(World(c), p))
InstallAll(c)    == \E order \in InstallOrders(World(c)) : Call(c, BeginInstallAll(World(c), order))
EnableAll(c)     == Call(c, BeginEnableAll(World(c)))

\* Only after onUninstall does it matter whether onError throws.
HookSettles(c, outcome) ==
    /\ calls[c].pc \in Hooks
    /\ outcome = "onErrorThrows" => calls[c].pc = "onUninstall"
    /\ Commit(c, AfterHook(World(c), outcome))
    /\ UNCHANGED registering

Resume(c) ==
    /\ calls[c].frames # <<>>
    /\ calls[c].pc \in {"returned", "threw"}
    /\ Commit(c, AfterCall(World(c)))
    /\ UNCHANGED registering

\* setPluginError, for a failing hook of a client's.
SetPluginError(i) ==
    /\ state' = [state EXCEPT ![i] = "Error"]
    /\ failed' = failed \cup {i}
    /\ UNCHANGED <<config, ids, plugins, calls, registering, lastHook>>

-------------------------------------------------------------------------------
PMTypeOK ==
    LET Instances == DOMAIN ids
    IN  /\ ids \in Seq(Plugins) /\ Len(ids) <= MaxInstances
        /\ state \in [Instances -> States]
        /\ plugins \subseteq Instances
        /\ \A i, j \in plugins : ids[i] = ids[j] => i = j
        /\ calls \in [Callers -> [frames : Seq(Frame), pc : Hooks \cup {"returned", "threw"}]]
        /\ registering \subseteq Instances
        /\ lastHook \in [Instances -> SwitchHooks \cup {"none"}]
        /\ failed \subseteq Instances

\* A call comes to one of these hooks of plugin i.
StartsHook(i) ==
    \E c \in Callers :
        /\ calls'[c] # calls[c]
        /\ calls'[c].pc \in SwitchHooks
        /\ Head(calls'[c].frames).inst = i

\* However calls interleave, the hooks of one plugin come in a sensible order:
\* onInstall once and first, then onEnable and onDisable in turn.
HookOrder ==
    [][\A i \in DOMAIN lastHook : StartsHook(i) =>
          <<lastHook[i], lastHook'[i]>> \in
             {<<"none", "onInstall">>, <<"onInstall", "onEnable">>, <<"onInstall", "onDisable">>,
              <<"onEnable", "onDisable">>, <<"onDisable", "onEnable">>}]_pmVars

\* "Unregister a plugin. Uninstalls first if needed." (pluginManager.ts:97):
\* what leaves the manager's map is uninstalled.
RemovedIsUninstalled == [][\A i \in plugins \ plugins' : state'[i] = "Uninstalled"]_pmVars
===============================================================================
