---------------------- MODULE StellarClientPluginsProofs ----------------------
(***************************************************************************)
(* Theorems about StellarClientPlugins, for any plugins, dependencies,     *)
(* callers and orders of middleware.                                       *)
(*                                                                         *)
(* The manager.  Every call runs from one await to the next: it comes to a *)
(* switch hook by a transition lifecycle.ts allows, or it has at most      *)
(* recorded failures and removals (Leaves; proved of every method, and of  *)
(* every return to one that awaited another).  The invariant relates the   *)
(* state of a plugin to the hook last started for it (HooksMatch), so the  *)
(* transition allowed is one between hooks in a sensible order; and no     *)
(* transition allowed leaves Error for a state that serves (FailedAreOut). *)
(*                                                                         *)
(* The pipeline.  The array is in strictly ascending order (ArraySound),   *)
(* which sorting keeps since no two entries have the same sequence.  An    *)
(* execution's pre hooks have run of entries before all those it has yet   *)
(* to come to, unless one was added (PreSound); its back hooks run through *)
(* a copy in descending order (BackSound), which is the reverse of what    *)
(* the pre hooks ran through if nothing changed (LayersMatch).             *)
(*                                                                         *)
(* The two meet in the client, which hands the manager's active plugins    *)
(* to the pipeline: those it has yet to go through stay registered         *)
(* (ClientInv).                                                            *)
(***************************************************************************)
EXTENDS StellarClientPlugins, CommonLemmas

-------------------------------------------------------------------------------
(* The inductive invariant.                                                  *)

FramesOf(n) ==
    {f \in Frame : f.inst <= n /\ (f.op \notin {"installAll", "enableAll"} => f.inst # 0)}

CallsSound ==
    \A c \in Callers :
        /\ calls[c].frames \in Seq(FramesOf(Len(ids)))
        /\ calls[c].pc \in Hooks => calls[c].frames # <<>> /\ Head(calls[c].frames).inst # 0

HookOf ==
    [Registered |-> "none", Installed |-> "onInstall", Active |-> "onEnable", Disabled |-> "onDisable"]

HooksMatch == \A i \in DOMAIN ids : state[i] \in DOMAIN HookOf => lastHook[i] = HookOf[state[i]]

FailedAreOut == \A i \in failed : state[i] \in {"Error", "Uninstalled"}

ManagerInv == PMTypeOK /\ CallsSound /\ HooksMatch /\ FailedAreOut

Descending(s) == \A k, l \in DOMAIN s : k < l => Before(s[l], s[k])

ArraySound ==
    /\ Ascending(middleware)
    /\ \A k \in DOMAIN middleware : middleware[k].seq < nextSequence
    /\ \A k, l \in DOMAIN middleware : middleware[k].seq = middleware[l].seq => k = l

Runs == [phase : Phases, at : Nat, rest : Seq(Entry), pre : Seq(Entry), back : Seq(Entry),
         touched : SUBSET {"use", "remove"}]

PreSound ==
    "use" \notin run.touched =>
        /\ Ascending(run.pre)
        /\ run.phase = "pre" =>
              \A k \in DOMAIN run.pre, l \in DOMAIN middleware :
                  l > run.at => Before(run.pre[k], middleware[l])

BackSound ==
    /\ Descending(run.back \o run.rest)
    /\ run.phase \in {"done", "failed"} => run.rest = <<>>
    /\ run.phase \in {"idle", "pre", "next"} => run.back = <<>> /\ run.rest = <<>>

LayersMatch ==
    run.touched = {} =>
        CASE run.phase = "pre"  -> run.at <= Len(middleware) /\ run.pre = SubSeq(middleware, 1, run.at)
          [] run.phase = "next" -> run.pre = middleware
          [] run.phase \in {"post", "done"} -> run.back \o run.rest = Reverse(run.pre)
          [] OTHER -> TRUE

PipelineInv ==
    /\ middleware \in Seq(Entry) /\ nextSequence \in 0..MaxUses /\ run \in Runs
    /\ run.phase = "idle" => run = NoRun
    /\ ArraySound /\ PreSound /\ BackSound /\ LayersMatch

ClientInv ==
    /\ withClient \in BOOLEAN
    /\ client \in {"none", "constructed", "applying", "applied"}
    /\ snapshot \in Seq(DOMAIN ids)
    /\ client = "applying" => snapshot # <<>>
    /\ client \in {"none", "constructed"} => run.phase = "idle"

PluginsInv == ManagerInv /\ PipelineInv /\ ClientInv

-------------------------------------------------------------------------------
(* The methods of the manager.                                               *)

\* What a call with n instances registered may see and leave.
Worlds(n) ==
    [ids : [1..n -> Plugins], state : [1..n -> States], plugins : SUBSET (1..n),
     frames : Seq(FramesOf(n)), pc : Hooks \cup {"returned", "threw"}]

\* What a switch makes of a plugin.
TargetOf == [onInstall |-> "Installed", onEnable |-> "Active", onDisable |-> "Disabled"]

\* A method either comes to a switch, by a transition that is allowed, or
\* has at most recorded failures and removals.
Leaves(n, w, v) ==
    /\ v \in Worlds(n)
    /\ v.ids = w.ids
    /\ v.plugins \subseteq w.plugins
    /\ v.pc \in Hooks => v.frames # <<>> /\ Head(v.frames).inst # 0
    /\ IF v.pc \in SwitchHooks
       THEN LET i == Head(v.frames).inst
            IN  /\ v.state = [w.state EXCEPT ![i] = TargetOf[v.pc]]
                /\ TargetOf[v.pc] \in Transitions[w.state[i]]
       ELSE \A i \in 1..n : v.state[i] \in {w.state[i], "Error", "Uninstalled"}

\* What get finds is in the map under that id.
LEMMA GetFinds ==
    ASSUME NEW n \in Nat, NEW w \in Worlds(n), NEW p
    PROVE  Get(w, p) # 0 => /\ Get(w, p) \in w.plugins /\ Get(w, p) \in 1..n
                            /\ w.ids[Get(w, p)] = p
<1>1. w.plugins \subseteq 1..n
  BY DEF Worlds
<1> QED BY <1>1 DEF Get

\* The operations on worlds.
LEMMA WorldOperations ==
    ASSUME NEW n \in Nat, n <= MaxInstances, NEW w \in Worlds(n)
    PROVE  /\ Return(w) \in Worlds(n) /\ Throw(w) \in Worlds(n)
           /\ \A hook \in Hooks : Await(w, hook) \in Worlds(n)
           /\ \A i \in 1..n, s \in States : To(w, i, s) \in Worlds(n)
           /\ w.frames # <<>> => Pop(w) \in Worlds(n) /\ Head(w.frames) \in FramesOf(n)
           /\ \A i \in 1..n, op \in {"install", "enable", "disable", "uninstall", "unregister", "auto"} :
                 /\ Push(w, op, i) \in Worlds(n)
                 /\ Push(w, op, i).frames # <<>> /\ Head(Push(w, op, i).frames).inst = i
           /\ \A op \in {"installAll", "enableAll"} :
                 /\ Push(w, op, 0) \in Worlds(n)
                 /\ Push(w, op, 0).frames # <<>> /\ Head(Push(w, op, 0).frames).op = op
<1>1. Return(w) \in Worlds(n) /\ Throw(w) \in Worlds(n)
  BY DEF Return, Throw, Worlds
<1>2. \A hook \in Hooks : Await(w, hook) \in Worlds(n)
  BY DEF Await, Worlds
<1>3. ASSUME NEW i \in 1..n, NEW s \in States PROVE To(w, i, s) \in Worlds(n)
  BY DEF To, Worlds
<1>4. ASSUME w.frames # <<>> PROVE Pop(w) \in Worlds(n) /\ Head(w.frames) \in FramesOf(n)
  <2>1. w.frames \in Seq(FramesOf(n))
    BY DEF Worlds
  <2>2. Tail(w.frames) \in Seq(FramesOf(n)) /\ Head(w.frames) \in FramesOf(n)
    BY <1>4, <2>1, HeadTailProperties
  <2> QED BY <2>2 DEF Pop, Worlds
<1>5. ASSUME NEW f \in FramesOf(n)
      PROVE  /\ <<f>> \o w.frames \in Seq(FramesOf(n))
             /\ <<f>> \o w.frames # <<>> /\ Head(<<f>> \o w.frames) = f
  <2>1. <<f>> \in Seq(FramesOf(n)) /\ w.frames \in Seq(FramesOf(n)) /\ Len(<<f>>) = 1
    BY DEF Worlds
  <2>2. /\ <<f>> \o w.frames \in Seq(FramesOf(n))
        /\ Len(<<f>> \o w.frames) = 1 + Len(w.frames) /\ Len(w.frames) \in Nat
        /\ (<<f>> \o w.frames)[1] = f
    <3>1. Len(w.frames) \in Nat
      BY <2>1, LenProperties
    <3> QED BY <2>1, <3>1, ConcatProperties
  <2>3. <<f>> \o w.frames # <<>>
    BY <2>2, EmptySeq
  <2> QED BY <2>2, <2>3, HeadTailProperties
<1>6. ASSUME NEW i \in 0..n,
             NEW op \in {"install", "enable", "disable", "uninstall", "unregister",
                         "auto", "installAll", "enableAll"},
             op \notin {"installAll", "enableAll"} => i # 0
      PROVE  /\ Push(w, op, i) \in Worlds(n)
             /\ Push(w, op, i).frames # <<>>
             /\ Head(Push(w, op, i).frames).inst = i /\ Head(Push(w, op, i).frames).op = op
  <2> DEFINE f == [op |-> op, inst |-> i, todo |-> <<>>]
  <2>1. MaxInstances \in Nat
    BY PluginAssumption
  <2>2. <<>> \in Seq(Plugins)
    BY EmptySeq
  <2>3. f \in FramesOf(n)
    BY <1>6, <2>1, <2>2 DEF FramesOf, Frame
  <2>4. Push(w, op, i) = [w EXCEPT !.frames = <<f>> \o @]
    BY DEF Push
  <2> HIDE DEF f
  <2>5. Push(w, op, i) \in Worlds(n) /\ Push(w, op, i).frames = <<f>> \o w.frames
    BY <1>5, <2>3, <2>4 DEF Worlds
  <2>6. f.inst = i /\ f.op = op
    BY DEF f
  <2> QED BY <1>5, <2>3, <2>5, <2>6
<1>7. ASSUME NEW i \in 1..n,
             NEW op \in {"install", "enable", "disable", "uninstall", "unregister", "auto"}
      PROVE  /\ Push(w, op, i) \in Worlds(n)
             /\ Push(w, op, i).frames # <<>> /\ Head(Push(w, op, i).frames).inst = i
  <2>1. i \in 0..n /\ i # 0 /\ op \in {"install", "enable", "disable", "uninstall", "unregister",
                                     "auto", "installAll", "enableAll"}
    OBVIOUS
  <2> QED BY <1>6, <2>1
<1>8. ASSUME NEW op \in {"installAll", "enableAll"}
      PROVE  /\ Push(w, op, 0) \in Worlds(n)
             /\ Push(w, op, 0).frames # <<>> /\ Head(Push(w, op, 0).frames).op = op
  <2>1. 0 \in 0..n /\ op \in {"install", "enable", "disable", "uninstall", "unregister",
                               "auto", "installAll", "enableAll"}
    OBVIOUS
  <2> QED BY <1>6, <2>1
<1> QED BY <1>1, <1>2, <1>3, <1>4, <1>7, <1>8

\* A method that ends, having recorded failures and removals at most.
LEMMA EndLeaves ==
    ASSUME NEW n \in Nat, NEW w \in Worlds(n), NEW v \in Worlds(n), v.pc \in {"returned", "threw"},
           v.ids = w.ids, v.plugins \subseteq w.plugins,
           \A i \in 1..n : v.state[i] \in {w.state[i], "Error", "Uninstalled"}
    PROVE  Leaves(n, w, v)
BY DEF Leaves, Hooks, SwitchHooks

\* What a method does not look at makes no difference.
LEMMA SameLeaves ==
    ASSUME NEW n \in Nat, NEW w \in Worlds(n), NEW u \in Worlds(n), NEW v,
           u.ids = w.ids, u.plugins = w.plugins, u.state = w.state, Leaves(n, u, v)
    PROVE  Leaves(n, w, v)
BY DEF Leaves

\* A switch.
LEMMA SwitchLeaves ==
    ASSUME NEW n \in Nat, n <= MaxInstances, NEW w \in Worlds(n), NEW i \in 1..n,
           NEW hook \in SwitchHooks, NEW op \in {"install", "enable", "disable"},
           ValidTransition(w.state[i], TargetOf[hook])
    PROVE  Leaves(n, w, Await(Push(To(w, i, TargetOf[hook]), op, i), hook))
<1> DEFINE t == TargetOf[hook]
           a == To(w, i, t)
           b == Push(a, op, i)
           v == Await(b, hook)
<1>1. t \in States /\ hook \in Hooks
  BY DEF TargetOf, States, SwitchHooks, Hooks
<1>2. a \in Worlds(n) /\ a.ids = w.ids /\ a.plugins = w.plugins /\ a.state = [w.state EXCEPT ![i] = t]
  BY <1>1, WorldOperations DEF To, Worlds
<1> HIDE DEF a
<1>3. b \in Worlds(n) /\ b.frames # <<>> /\ Head(b.frames).inst = i
  BY <1>2, WorldOperations
<1>4. b.ids = a.ids /\ b.plugins = a.plugins /\ b.state = a.state
  BY <1>2 DEF Push, Worlds
<1> HIDE DEF b
<1>5. v \in Worlds(n) /\ v.ids = b.ids /\ v.plugins = b.plugins /\ v.state = b.state
      /\ v.frames = b.frames /\ v.pc = hook
  <2>1. v \in Worlds(n)
    BY <1>1, <1>3, WorldOperations
  <2> QED BY <1>3, <2>1 DEF Await, Worlds
<1> HIDE DEF v, t
<1>6. t \in Transitions[w.state[i]]
  BY DEF ValidTransition, t
<1>7. i # 0
  OBVIOUS
<1>8. Leaves(n, w, v)
  BY <1>1, <1>2, <1>3, <1>4, <1>5, <1>6, <1>7 DEF Leaves, t
<1> QED BY <1>8 DEF v, b, a, t

\* Returning and throwing at once.
LEMMA StopLeaves ==
    ASSUME NEW n \in Nat, n <= MaxInstances, NEW w \in Worlds(n)
    PROVE  Leaves(n, w, Return(w)) /\ Leaves(n, w, Throw(w))
<1>1. Return(w) \in Worlds(n) /\ Throw(w) \in Worlds(n)
  BY WorldOperations
<1>2. /\ Return(w).ids = w.ids /\ Return(w).plugins = w.plugins /\ Return(w).state = w.state
      /\ Return(w).pc = "returned"
      /\ Throw(w).ids = w.ids /\ Throw(w).plugins = w.plugins /\ Throw(w).state = w.state
      /\ Throw(w).pc = "threw"
  BY DEF Return, Throw, Worlds
<1> QED BY <1>1, <1>2, EndLeaves

LEMMA InstallLeaves ==
    ASSUME NEW n \in Nat, n <= MaxInstances, NEW w \in Worlds(n), NEW p \in Plugins
    PROVE  Leaves(n, w, BeginInstall(w, p))
<1> DEFINE i == Get(w, p)
<1>1. CASE i = 0 \/ w.state[i] \in InstalledStates \/ ~ValidTransition(w.state[i], "Installed")
           \/ ~(Requires[p] \subseteq Installed(w))
  <2>1. BeginInstall(w, p) = Return(w) \/ BeginInstall(w, p) = Throw(w)
    BY <1>1 DEF BeginInstall
  <2> QED BY <2>1, StopLeaves
<1>2. CASE ~(i = 0 \/ w.state[i] \in InstalledStates \/ ~ValidTransition(w.state[i], "Installed")
             \/ ~(Requires[p] \subseteq Installed(w)))
  <2>1. BeginInstall(w, p) = Await(Push(To(w, i, "Installed"), "install", i), "onInstall")
    BY <1>2 DEF BeginInstall
  <2>2. i \in 1..n /\ ValidTransition(w.state[i], "Installed")
    BY <1>2, GetFinds
  <2> HIDE DEF i
  <2>3. "onInstall" \in SwitchHooks /\ TargetOf["onInstall"] = "Installed"
        /\ "install" \in {"install", "enable", "disable"}
    BY DEF SwitchHooks, TargetOf
  <2>4. Leaves(n, w, Await(Push(To(w, i, TargetOf["onInstall"]), "install", i), "onInstall"))
    BY <2>2, <2>3, SwitchLeaves
  <2> QED BY <2>1, <2>3, <2>4
<1> QED BY <1>1, <1>2

LEMMA EnableDisableLeaves ==
    ASSUME NEW n \in Nat, n <= MaxInstances, NEW w \in Worlds(n), NEW p \in Plugins
    PROVE  Leaves(n, w, BeginEnable(w, p)) /\ Leaves(n, w, BeginDisable(w, p))
<1> DEFINE i == Get(w, p)
<1>1. ASSUME NEW hook \in SwitchHooks, NEW op \in {"install", "enable", "disable"}
      PROVE  Leaves(n, w, BeginSwitch(w, p, op, TargetOf[hook], hook))
  <2> DEFINE v == BeginSwitch(w, p, op, TargetOf[hook], hook)
  <2>1. CASE i = 0 \/ w.state[i] = TargetOf[hook] \/ ~ValidTransition(w.state[i], TargetOf[hook])
    <3>1. v = Return(w) \/ v = Throw(w)
      BY <2>1 DEF BeginSwitch
    <3> QED BY <3>1, StopLeaves
  <2>2. CASE ~(i = 0 \/ w.state[i] = TargetOf[hook] \/ ~ValidTransition(w.state[i], TargetOf[hook]))
    <3>1. v = Await(Push(To(w, i, TargetOf[hook]), op, i), hook)
      BY <2>2 DEF BeginSwitch
    <3>2. i \in 1..n /\ ValidTransition(w.state[i], TargetOf[hook])
      BY <2>2, GetFinds
    <3> HIDE DEF i, v
    <3>3. Leaves(n, w, v)
      BY <3>1, <3>2, SwitchLeaves
    <3> QED BY <3>3 DEF v
  <2> QED BY <2>1, <2>2
<1>2. /\ "onEnable" \in SwitchHooks /\ TargetOf["onEnable"] = "Active"
      /\ "onDisable" \in SwitchHooks /\ TargetOf["onDisable"] = "Disabled"
  BY DEF SwitchHooks, TargetOf
<1>3. Leaves(n, w, BeginEnable(w, p))
  BY <1>1, <1>2 DEF BeginEnable
<1>4. Leaves(n, w, BeginDisable(w, p))
  BY <1>1, <1>2 DEF BeginDisable
<1> QED BY <1>3, <1>4

LEMMA UninstallLeaves ==
    ASSUME NEW n \in Nat, n <= MaxInstances, NEW w \in Worlds(n), NEW p \in Plugins
    PROVE  Leaves(n, w, BeginUninstall(w, p))
<1> DEFINE i == Get(w, p)
           u == Push(w, "uninstall", i)
<1>1. CASE i = 0 \/ w.state[i] = "Uninstalled"
  <2>1. BeginUninstall(w, p) = Return(w) \/ BeginUninstall(w, p) = Throw(w)
    BY <1>1 DEF BeginUninstall
  <2> QED BY <2>1, StopLeaves
<1>2. CASE ~(i = 0 \/ w.state[i] = "Uninstalled")
  <2>1. BeginUninstall(w, p) = IF w.state[i] = "Active" THEN BeginDisable(u, p) ELSE Await(u, "onUninstall")
    BY <1>2 DEF BeginUninstall
  <2>2. i \in 1..n
    BY <1>2, GetFinds
  <2>3. u \in Worlds(n) /\ u.frames # <<>> /\ Head(u.frames).inst = i
    BY <2>2, WorldOperations
  <2>4. u.ids = w.ids /\ u.plugins = w.plugins /\ u.state = w.state
    BY DEF Push, Worlds
  <2> DEFINE v == Await(u, "onUninstall")
  <2> HIDE DEF u
  <2>5. Leaves(n, w, BeginDisable(u, p))
    BY <2>3, <2>4, EnableDisableLeaves, SameLeaves
  <2>6. Leaves(n, w, v)
    <3>1. v \in Worlds(n)
      BY <2>3, WorldOperations DEF Hooks
    <3>2. /\ v.ids = w.ids /\ v.plugins = w.plugins /\ v.state = w.state
          /\ v.frames = u.frames /\ v.pc = "onUninstall"
      BY <2>3, <2>4 DEF Await, Worlds
    <3> HIDE DEF v, i
    <3>3. "onUninstall" \notin SwitchHooks /\ i # 0
      BY <2>2 DEF SwitchHooks
    <3> QED BY <2>3, <3>1, <3>2, <3>3 DEF Leaves
  <2> QED BY <2>1, <2>5, <2>6
<1> QED BY <1>1, <1>2

LEMMA EndUnregisterLeaves ==
    ASSUME NEW n \in Nat, n <= MaxInstances, NEW w \in Worlds(n), NEW i \in 1..n
    PROVE  Leaves(n, w, EndUnregister(w, i))
<1> DEFINE g == IF ValidTransition(w.state[i], "Uninstalled") THEN To(w, i, "Uninstalled") ELSE w
           h == [g EXCEPT !.plugins = {j \in @ : w.ids[j] # w.ids[i]}]
<1>1. /\ g \in Worlds(n) /\ g.ids = w.ids /\ g.plugins = w.plugins
      /\ \A j \in 1..n : g.state[j] \in {w.state[j], "Uninstalled"}
  <2>1. To(w, i, "Uninstalled") \in Worlds(n)
    BY WorldOperations DEF States
  <2>2. /\ To(w, i, "Uninstalled").ids = w.ids /\ To(w, i, "Uninstalled").plugins = w.plugins
        /\ \A j \in 1..n : To(w, i, "Uninstalled").state[j] \in {w.state[j], "Uninstalled"}
    BY DEF To, Worlds
  <2> QED BY <2>1, <2>2
<1> HIDE DEF g
<1>2. h \in Worlds(n) /\ h.ids = w.ids /\ h.plugins \subseteq w.plugins /\ h.state = g.state
  BY <1>1 DEF Worlds
<1> HIDE DEF h
<1>3. Return(h) \in Worlds(n)
  BY <1>2, WorldOperations
<1>4. /\ Return(h).ids = w.ids /\ Return(h).plugins \subseteq w.plugins /\ Return(h).pc = "returned"
      /\ \A j \in 1..n : Return(h).state[j] \in {w.state[j], "Error", "Uninstalled"}
  BY <1>1, <1>2 DEF Return, Worlds
<1>5. EndUnregister(w, i) = Return(h)
  BY DEF EndUnregister, g, h
<1> QED BY <1>3, <1>4, <1>5, EndLeaves

LEMMA UnregisterLeaves ==
    ASSUME NEW n \in Nat, n <= MaxInstances, NEW w \in Worlds(n), NEW p \in Plugins
    PROVE  Leaves(n, w, BeginUnregister(w, p))
<1> DEFINE i == Get(w, p)
           u == Push(w, "unregister", i)
<1>1. CASE i = 0 \/ Dependents(w, p) # {}
  <2>1. BeginUnregister(w, p) = Throw(w)
    BY <1>1 DEF BeginUnregister
  <2> QED BY <2>1, StopLeaves
<1>2. CASE ~(i = 0 \/ Dependents(w, p) # {})
  <2>1. BeginUnregister(w, p) = IF w.state[i] \in InstalledStates
                                THEN BeginUninstall(u, p) ELSE EndUnregister(w, i)
    BY <1>2 DEF BeginUnregister
  <2>2. i \in 1..n
    BY <1>2, GetFinds
  <2>3. u \in Worlds(n)
    BY <2>2, WorldOperations
  <2>4. u.ids = w.ids /\ u.plugins = w.plugins /\ u.state = w.state
    BY DEF Push, Worlds
  <2> HIDE DEF u
  <2>5. Leaves(n, w, BeginUninstall(u, p))
    BY <2>3, <2>4, UninstallLeaves, SameLeaves
  <2>6. Leaves(n, w, EndUnregister(w, i))
    BY <2>2, EndUnregisterLeaves
  <2> QED BY <2>1, <2>5, <2>6
<1> QED BY <1>1, <1>2

\* A change of the top frame.
LEMMA TopFrameChanges ==
    ASSUME NEW n \in Nat, n <= MaxInstances, NEW w \in Worlds(n), w.frames # <<>>,
           NEW f \in FramesOf(n)
    PROVE  LET u == [w EXCEPT !.frames[1] = f]
           IN  /\ u \in Worlds(n)
               /\ u.ids = w.ids /\ u.plugins = w.plugins /\ u.state = w.state
<1>1. w.frames \in Seq(FramesOf(n)) /\ 1 \in DOMAIN w.frames
  BY NonEmpty DEF Worlds
<1>2. [w.frames EXCEPT ![1] = f] \in Seq(FramesOf(n))
  BY <1>1, ExceptSeq
<1> QED BY <1>2 DEF Worlds

LEMMA NextItemLeaves ==
    ASSUME NEW n \in Nat, n <= MaxInstances, NEW w \in Worlds(n), w.frames # <<>>
    PROVE  Leaves(n, w, NextItem(w))
<1> DEFINE f     == Head(w.frames)
           wants == {k \in DOMAIN f.todo : LET i == Get(w, f.todo[k])
                                           IN  i # 0 /\ w.state[i] \notin InstalledStates}
           on    == {i \in w.plugins : i > f.inst /\ w.state[i] = "Installed"}
           u1    == [w EXCEPT !.frames[1].todo = SubSeq(@, Min(wants) + 1, Len(@))]
           u2    == [w EXCEPT !.frames[1].inst = Min(on)]
<1>1. f \in FramesOf(n) /\ f = w.frames[1] /\ 1 \in DOMAIN w.frames
  <2>1. w.frames \in Seq(FramesOf(n))
    BY DEF Worlds
  <2> QED BY <2>1, HeadTailProperties, NonEmpty
<1>2. NextItem(w) = CASE f.op = "installAll" /\ wants # {} -> BeginInstall(u1, f.todo[Min(wants)])
                      [] f.op = "enableAll" /\ on # {} -> BeginEnable(u2, w.ids[Min(on)])
                      [] OTHER -> Pop(Return(w))
  BY DEF NextItem
<1>3. /\ f \in Frame /\ f.todo \in Seq(Plugins) /\ f.inst <= n /\ f.inst \in Nat
      /\ f.op \notin {"installAll", "enableAll"} => f.inst # 0
  <2>1. MaxInstances \in Nat
    BY PluginAssumption
  <2> HIDE DEF f
  <2> QED BY <1>1, <2>1 DEF FramesOf, Frame
<1>4. ASSUME f.op = "installAll", wants # {} PROVE Leaves(n, w, BeginInstall(u1, f.todo[Min(wants)]))
  <2>1. Len(f.todo) \in Nat /\ DOMAIN f.todo = 1..Len(f.todo)
    BY <1>3, LenProperties
  <2>2. wants \in SUBSET Nat /\ wants \subseteq DOMAIN f.todo
    BY <2>1
  <2>3. Min(wants) \in DOMAIN f.todo
    BY <1>4, <2>2, MinIsLeast
  <2> DEFINE m == Min(wants)
             todo == SubSeq(f.todo, m + 1, Len(f.todo))
             g == [f EXCEPT !.todo = todo]
  <2>4. u1 = [w EXCEPT !.frames[1] = g]
    BY <1>1
  <2>4a. m \in DOMAIN f.todo
    BY <2>3
  <2> HIDE DEF m, u1, f
  <2>5. m \in 1..Len(f.todo) /\ f.todo[m] \in Plugins
    BY <1>3, <2>1, <2>4a
  <2>6. todo \in Seq(Plugins)
    <3>1. \A k \in (m + 1)..Len(f.todo) : f.todo[k] \in Plugins
      BY <1>3, <2>1, <2>5
    <3> QED BY <1>3, <2>1, <2>5, <3>1, SubSeqProperties
  <2> HIDE DEF todo
  <2>7. g \in FramesOf(n)
    BY <1>3, <2>6 DEF FramesOf, Frame
  <2> HIDE DEF g
  <2>8. u1 \in Worlds(n) /\ u1.ids = w.ids /\ u1.plugins = w.plugins /\ u1.state = w.state
    BY <2>4, <2>7, TopFrameChanges
  <2>9. Leaves(n, u1, BeginInstall(u1, f.todo[m]))
    BY <2>5, <2>8, InstallLeaves
  <2>10. Leaves(n, w, BeginInstall(u1, f.todo[m]))
    BY <2>8, <2>9, SameLeaves
  <2> QED BY <2>10 DEF m
<1>5. ASSUME f.op = "enableAll", on # {} PROVE Leaves(n, w, BeginEnable(u2, w.ids[Min(on)]))
  <2>1. w.plugins \subseteq 1..n
    BY DEF Worlds
  <2>2. on \in SUBSET Nat
    BY <2>1
  <2>3. Min(on) \in on
    BY <1>5, <2>2, MinIsLeast
  <2> DEFINE m == Min(on)
             g == [f EXCEPT !.inst = m]
  <2>4. u2 = [w EXCEPT !.frames[1] = g]
    BY <1>1
  <2>5. m \in 1..n
    BY <2>1, <2>3
  <2>6. w.ids[m] \in Plugins
    BY <2>5 DEF Worlds
  <2> HIDE DEF m, u2, f
  <2>7. g \in FramesOf(n)
    <3>1. MaxInstances \in Nat
      BY PluginAssumption
    <3> QED BY <1>3, <2>5, <3>1 DEF FramesOf, Frame
  <2> HIDE DEF g
  <2>8. u2 \in Worlds(n) /\ u2.ids = w.ids /\ u2.plugins = w.plugins /\ u2.state = w.state
    BY <2>4, <2>7, TopFrameChanges
  <2>9. Leaves(n, u2, BeginEnable(u2, w.ids[m]))
    BY <2>6, <2>8, EnableDisableLeaves
  <2>10. Leaves(n, w, BeginEnable(u2, w.ids[m]))
    BY <2>8, <2>9, SameLeaves
  <2> QED BY <2>10 DEF m
<1>6. Leaves(n, w, Pop(Return(w)))
  <2>1. Return(w) \in Worlds(n) /\ Return(w).frames = w.frames /\ Return(w).pc = "returned"
        /\ Return(w).ids = w.ids /\ Return(w).plugins = w.plugins /\ Return(w).state = w.state
    BY WorldOperations DEF Return, Worlds
  <2>2. Pop(Return(w)) \in Worlds(n)
    BY <2>1, WorldOperations
  <2>3. /\ Pop(Return(w)).pc = "returned" /\ Pop(Return(w)).ids = w.ids
        /\ Pop(Return(w)).plugins = w.plugins /\ Pop(Return(w)).state = w.state
    BY <2>1 DEF Pop, Worlds
  <2> QED BY <2>2, <2>3, EndLeaves
<1> QED
  <2> HIDE DEF f, wants, on, u1, u2
  <2>1. CASE f.op = "installAll" /\ wants # {}
    BY <1>2, <1>4, <2>1
  <2>2. CASE f.op = "enableAll" /\ on # {}
    BY <1>2, <1>5, <2>2
  <2>3. CASE ~(f.op = "installAll" /\ wants # {}) /\ ~(f.op = "enableAll" /\ on # {})
    BY <1>2, <1>6, <2>3
  <2> QED BY <2>1, <2>2, <2>3

LEMMA AllLeave ==
    ASSUME NEW n \in Nat, n <= MaxInstances, NEW w \in Worlds(n)
    PROVE  /\ Leaves(n, w, BeginEnableAll(w))
           /\ \A order \in InstallOrders(w) : Leaves(n, w, BeginInstallAll(w, order))
<1>1. ASSUME NEW op \in {"installAll", "enableAll"}
      PROVE  /\ Push(w, op, 0) \in Worlds(n) /\ Push(w, op, 0).frames # <<>>
             /\ Push(w, op, 0).ids = w.ids /\ Push(w, op, 0).plugins = w.plugins
             /\ Push(w, op, 0).state = w.state
  <2>1. Push(w, op, 0) \in Worlds(n) /\ Push(w, op, 0).frames # <<>>
    BY WorldOperations
  <2>2. /\ Push(w, op, 0).ids = w.ids /\ Push(w, op, 0).plugins = w.plugins
        /\ Push(w, op, 0).state = w.state
    BY DEF Push, Worlds
  <2> QED BY <2>1, <2>2
<1>2. Leaves(n, w, BeginEnableAll(w))
  BY <1>1, NextItemLeaves, SameLeaves DEF BeginEnableAll
<1>3. ASSUME NEW order \in InstallOrders(w) PROVE Leaves(n, w, BeginInstallAll(w, order))
  <2> DEFINE a == Push(w, "installAll", 0)
             u == [a EXCEPT !.frames[1].todo = order]
  <2>1. order \in Seq(Plugins)
    <3>1. w.plugins \subseteq 1..n /\ \A i \in 1..n : w.ids[i] \in Plugins
      BY DEF Worlds
    <3>2. IsFiniteSet(1..n)
      BY FS_Interval
    <3>3. Cardinality(w.plugins) \in Nat
      BY <3>1, <3>2, FS_Subset, FS_CardinalityType
    <3>4. order \in [1..Cardinality(w.plugins) -> Plugins]
      BY <3>1 DEF InstallOrders
    <3> QED BY <3>3, <3>4, FunctionIsSeq
  <2>2. a \in Worlds(n) /\ a.frames # <<>> /\ a.ids = w.ids /\ a.plugins = w.plugins /\ a.state = w.state
    BY <1>1
  <2> HIDE DEF a
  <2> DEFINE g == [a.frames[1] EXCEPT !.todo = order]
  <2>3. u = [a EXCEPT !.frames[1] = g]
    OBVIOUS
  <2>4. a.frames[1] \in FramesOf(n) /\ 1 \in DOMAIN a.frames
    <3>1. a.frames \in Seq(FramesOf(n))
      BY <2>2 DEF Worlds
    <3> QED BY <2>2, <3>1, NonEmpty
  <2>5. g \in FramesOf(n)
    BY <2>1, <2>4 DEF FramesOf, Frame
  <2>6. u.frames # <<>>
    <3>1. a.frames \in Seq(FramesOf(n)) /\ u.frames = [a.frames EXCEPT ![1] = g]
      BY <2>2, <2>3 DEF Worlds
    <3>2. u.frames \in Seq(FramesOf(n)) /\ Len(u.frames) = Len(a.frames)
      BY <2>2, <2>5, <3>1, NonEmpty, ExceptSeq
    <3> QED BY <2>2, <3>1, <3>2, NonEmpty
  <2> HIDE DEF g
  <2>7. u \in Worlds(n) /\ u.ids = w.ids /\ u.plugins = w.plugins /\ u.state = w.state
    BY <2>2, <2>3, <2>5, TopFrameChanges
  <2>8. BeginInstallAll(w, order) = NextItem(u)
    BY DEF BeginInstallAll, a
  <2> HIDE DEF u
  <2>9. Leaves(n, u, NextItem(u))
    BY <2>6, <2>7, NextItemLeaves
  <2> QED BY <2>7, <2>8, <2>9, SameLeaves
<1> QED BY <1>2, <1>3

\* A method that pops its frame and ends.
LEMMA PopLeaves ==
    ASSUME NEW n \in Nat, n <= MaxInstances, NEW w \in Worlds(n), NEW v \in Worlds(n), v.frames # <<>>,
           v.ids = w.ids, v.plugins \subseteq w.plugins,
           \A i \in 1..n : v.state[i] \in {w.state[i], "Error", "Uninstalled"}
    PROVE  /\ Leaves(n, w, Pop(Return(v))) /\ Leaves(n, w, Pop(Throw(v)))
           /\ v.pc \in {"returned", "threw"} => Leaves(n, w, Pop(v))
<1>1. ASSUME NEW u \in Worlds(n), u.frames # <<>>, u.pc \in {"returned", "threw"},
             u.ids = v.ids, u.plugins = v.plugins, u.state = v.state
      PROVE  Leaves(n, w, Pop(u))
  <2>1. Pop(u) \in Worlds(n)
    BY <1>1, WorldOperations
  <2>2. Pop(u).pc = u.pc /\ Pop(u).ids = u.ids /\ Pop(u).plugins = u.plugins /\ Pop(u).state = u.state
    BY <1>1 DEF Pop, Worlds
  <2> QED BY <1>1, <2>1, <2>2, EndLeaves
<1>2. /\ Return(v) \in Worlds(n) /\ Return(v).frames = v.frames /\ Return(v).pc = "returned"
      /\ Return(v).ids = v.ids /\ Return(v).plugins = v.plugins /\ Return(v).state = v.state
  BY WorldOperations DEF Return, Worlds
<1>3. /\ Throw(v) \in Worlds(n) /\ Throw(v).frames = v.frames /\ Throw(v).pc = "threw"
      /\ Throw(v).ids = v.ids /\ Throw(v).plugins = v.plugins /\ Throw(v).state = v.state
  BY WorldOperations DEF Throw, Worlds
<1>4. Leaves(n, w, Pop(Return(v)))
  BY <1>1, <1>2
<1>5. Leaves(n, w, Pop(Throw(v)))
  BY <1>1, <1>3
<1>6. v.pc \in {"returned", "threw"} => Leaves(n, w, Pop(v))
  BY <1>1
<1> QED BY <1>4, <1>5, <1>6

\* A failure or a removal recorded.
LEMMA ToStops ==
    ASSUME NEW n \in Nat, n <= MaxInstances, NEW w \in Worlds(n), NEW i \in 1..n,
           NEW s \in {"Error", "Uninstalled"}
    PROVE  /\ To(w, i, s) \in Worlds(n) /\ To(w, i, s).ids = w.ids /\ To(w, i, s).plugins = w.plugins
           /\ To(w, i, s).frames = w.frames /\ To(w, i, s).pc = w.pc
           /\ \A j \in 1..n : To(w, i, s).state[j] \in {w.state[j], "Error", "Uninstalled"}
<1>1. To(w, i, s) \in Worlds(n)
  BY WorldOperations DEF States
<1>2. /\ To(w, i, s).ids = w.ids /\ To(w, i, s).plugins = w.plugins
      /\ To(w, i, s).frames = w.frames /\ To(w, i, s).pc = w.pc
      /\ \A j \in 1..n : To(w, i, s).state[j] \in {w.state[j], "Error", "Uninstalled"}
  BY DEF To, Worlds
<1> QED BY <1>1, <1>2

LEMMA AfterHookLeaves ==
    ASSUME NEW n \in Nat, n <= MaxInstances, NEW w \in Worlds(n), NEW outcome \in Outcomes,
           w.pc \in Hooks, w.frames # <<>>, Head(w.frames).inst # 0
    PROVE  Leaves(n, w, AfterHook(w, outcome))
<1> DEFINE f == Head(w.frames)
           ok == outcome = "settles"
           v == IF ok THEN w ELSE To(w, f.inst, "Error")
           x == To(v, f.inst, "Uninstalled")
<1>1. f.inst \in 1..n
  <2>1. f \in FramesOf(n) /\ MaxInstances \in Nat
    BY WorldOperations, PluginAssumption
  <2> HIDE DEF f
  <2>2. f.inst \in Nat /\ f.inst <= n
    BY <2>1 DEF FramesOf, Frame
  <2>3. f.inst # 0
    BY DEF f
  <2> QED BY <2>2, <2>3
<1>2. /\ v \in Worlds(n) /\ v.ids = w.ids /\ v.plugins = w.plugins /\ v.frames = w.frames /\ v.pc = w.pc
      /\ \A j \in 1..n : v.state[j] \in {w.state[j], "Error", "Uninstalled"}
  <2> HIDE DEF f, ok
  <2>1. CASE ok
    BY <2>1
  <2>2. CASE ~ok
    BY <1>1, <2>2, ToStops
  <2> QED BY <2>1, <2>2
<1>3. AfterHook(w, outcome) =
        CASE w.pc = "onUninstall" ->
                IF outcome # "onErrorThrows" /\ ValidTransition(v.state[f.inst], "Uninstalled")
                THEN Pop(Return(x)) ELSE Pop(Throw(v))
          [] w.pc # "onUninstall" /\ ~ok -> Pop(Throw(v))
          [] w.pc = "onInstall" /\ ok /\ config.autoEnable -> BeginEnable(Pop(w), w.ids[f.inst])
          [] OTHER -> Pop(Return(w))
  BY DEF AfterHook
<1> HIDE DEF f, ok, v
<1>4. /\ x \in Worlds(n) /\ x.ids = w.ids /\ x.plugins = w.plugins /\ x.frames = w.frames
      /\ \A j \in 1..n : x.state[j] \in {w.state[j], "Error", "Uninstalled"}
  <2>1. /\ x \in Worlds(n) /\ x.ids = v.ids /\ x.plugins = v.plugins /\ x.frames = v.frames
        /\ \A j \in 1..n : x.state[j] \in {v.state[j], "Error", "Uninstalled"}
    BY <1>1, <1>2, ToStops
  <2> HIDE DEF x
  <2> QED BY <1>2, <2>1
<1> HIDE DEF x
<1>5. Leaves(n, w, Pop(Return(x))) /\ Leaves(n, w, Pop(Throw(v))) /\ Leaves(n, w, Pop(Return(w)))
  BY <1>2, <1>4, PopLeaves
<1>6. Leaves(n, w, BeginEnable(Pop(w), w.ids[f.inst]))
  <2>1. Pop(w) \in Worlds(n)
    BY WorldOperations
  <2>2. Pop(w).ids = w.ids /\ Pop(w).plugins = w.plugins /\ Pop(w).state = w.state
    BY DEF Pop, Worlds
  <2>3. w.ids[f.inst] \in Plugins
    BY <1>1 DEF Worlds
  <2> QED BY <2>1, <2>2, <2>3, EnableDisableLeaves, SameLeaves
<1> QED
  <2>1. CASE w.pc = "onUninstall"
    BY <1>3, <1>5, <2>1
  <2>2. CASE w.pc # "onUninstall" /\ ~ok
    BY <1>3, <1>5, <2>2
  <2>3. CASE w.pc # "onUninstall" /\ ok
    <3>1. CASE w.pc = "onInstall" /\ config.autoEnable
      BY <1>3, <1>6, <2>3, <3>1
    <3>2. CASE ~(w.pc = "onInstall" /\ config.autoEnable)
      BY <1>3, <1>5, <2>3, <3>2
    <3> QED BY <3>1, <3>2
  <2> QED BY <2>1, <2>2, <2>3

LEMMA AfterCallLeaves ==
    ASSUME NEW n \in Nat, n <= MaxInstances, NEW w \in Worlds(n),
           w.pc \in {"returned", "threw"}, w.frames # <<>>
    PROVE  Leaves(n, w, AfterCall(w))
<1> DEFINE f == Head(w.frames)
           x == To(w, f.inst, "Error")
           e == EndUnregister(w, f.inst)
           a == Await(w, "onUninstall")
<1>1. AfterCall(w) =
        CASE w.pc = "threw" /\ f.op = "auto"         -> Pop(Return(x))
          [] w.pc = "threw" /\ f.op # "auto"         -> Pop(w)
          [] w.pc = "returned" /\ f.op = "uninstall" -> a
          [] w.pc = "returned" /\ f.op = "unregister" -> Pop(e)
          [] w.pc = "returned" /\ f.op = "auto"      -> Pop(w)
          [] OTHER -> NextItem(w)
  BY DEF AfterCall
<1>2. ASSUME f.op \notin {"installAll", "enableAll"} PROVE f.inst \in 1..n /\ f.inst # 0
  <2>1. f \in FramesOf(n) /\ MaxInstances \in Nat
    BY WorldOperations, PluginAssumption
  <2> HIDE DEF f
  <2>2. f.inst \in Nat /\ f.inst <= n /\ f.inst # 0
    BY <1>2, <2>1 DEF FramesOf, Frame
  <2> QED BY <2>2
<1>3. Leaves(n, w, NextItem(w)) /\ Leaves(n, w, Pop(w))
  BY NextItemLeaves, PopLeaves
<1>4. ASSUME f.op = "auto" PROVE Leaves(n, w, Pop(Return(x)))
  <2>1. f.inst \in 1..n
    BY <1>2, <1>4
  <2> HIDE DEF f
  <2>2. /\ x \in Worlds(n) /\ x.ids = w.ids /\ x.plugins = w.plugins /\ x.frames = w.frames
        /\ \A j \in 1..n : x.state[j] \in {w.state[j], "Error", "Uninstalled"}
    BY <2>1, ToStops
  <2> HIDE DEF x
  <2> QED BY <2>2, PopLeaves
<1>5. ASSUME f.op = "uninstall" PROVE Leaves(n, w, a)
  <2>1. f.inst # 0
    BY <1>2, <1>5
  <2>2. a \in Worlds(n)
    BY WorldOperations DEF Hooks
  <2>3. /\ a.ids = w.ids /\ a.plugins = w.plugins /\ a.state = w.state
        /\ a.frames = w.frames /\ a.pc = "onUninstall"
    BY DEF Await, Worlds
  <2> HIDE DEF a
  <2>4. a.pc \notin SwitchHooks
    BY <2>3 DEF SwitchHooks
  <2> QED BY <2>1, <2>2, <2>3, <2>4 DEF Leaves
<1>6. ASSUME f.op = "unregister" PROVE Leaves(n, w, Pop(e))
  <2>1. f.inst \in 1..n
    BY <1>2, <1>6
  <2> HIDE DEF f
  <2>2. Leaves(n, w, e)
    BY <2>1, EndUnregisterLeaves
  <2>3. e.pc = "returned" /\ e.frames = w.frames
    BY DEF EndUnregister, Return, To, Worlds
  <2> HIDE DEF e
  <2>4. /\ e \in Worlds(n) /\ e.ids = w.ids /\ e.plugins \subseteq w.plugins
        /\ \A j \in 1..n : e.state[j] \in {w.state[j], "Error", "Uninstalled"}
    BY <2>2, <2>3 DEF Leaves, SwitchHooks
  <2> QED BY <2>3, <2>4, PopLeaves
<1> QED
  <2> HIDE DEF f, x, e, a
  <2>1. CASE w.pc = "threw"
    BY <1>1, <1>3, <1>4, <2>1
  <2>2. CASE w.pc = "returned"
    BY <1>1, <1>3, <1>5, <1>6, <2>2
  <2> QED BY <2>1, <2>2

-------------------------------------------------------------------------------
(* The steps of the manager.                                                 *)

HookPairs ==
    {<<"none", "onInstall">>, <<"onInstall", "onEnable">>, <<"onInstall", "onDisable">>,
     <<"onEnable", "onDisable">>, <<"onDisable", "onEnable">>}

\* What is proved of a step, next to the invariant.
HooksInOrder ==
    /\ \A i \in DOMAIN lastHook : StartsHook(i) =>
          <<lastHook[i], lastHook'[i]>> \in HookPairs /\ state[i] \notin {"Error", "Uninstalled"}
    /\ failed \subseteq failed'

\* A switch to a state goes out from those of the plugin's hook before.
LEMMA SwitchPairs ==
    ASSUME NEW hook \in SwitchHooks, NEW s \in States, TargetOf[hook] \in Transitions[s]
    PROVE  s \in DOMAIN HookOf /\ <<HookOf[s], hook>> \in HookPairs /\ s \notin {"Error", "Uninstalled"}
           /\ HookOf[TargetOf[hook]] = hook /\ TargetOf[hook] \notin {"Error", "Uninstalled"}
           /\ TargetOf[hook] \in DOMAIN HookOf
<1>1. /\ DOMAIN HookOf = {"Registered", "Installed", "Active", "Disabled"}
      /\ HookOf["Registered"] = "none" /\ HookOf["Installed"] = "onInstall"
      /\ HookOf["Active"] = "onEnable" /\ HookOf["Disabled"] = "onDisable"
  BY DEF HookOf
<1>2. /\ TargetOf["onInstall"] = "Installed" /\ TargetOf["onEnable"] = "Active"
      /\ TargetOf["onDisable"] = "Disabled"
  BY DEF TargetOf
<1>3. /\ Transitions["Registered"] = {"Installed", "Uninstalled"}
      /\ Transitions["Installed"] = {"Active", "Disabled", "Uninstalled"}
      /\ Transitions["Active"] = {"Disabled", "Uninstalled", "Error"}
      /\ Transitions["Disabled"] = {"Active", "Uninstalled", "Error"}
      /\ Transitions["Error"] = {"Registered", "Uninstalled"}
      /\ Transitions["Uninstalled"] = {}
  BY DEF Transitions
<1>4. hook \in {"onInstall", "onEnable", "onDisable"}
  BY DEF SwitchHooks
<1>5. s \in {"Registered", "Installed", "Active", "Disabled", "Error", "Uninstalled"}
  BY DEF States
<1>6. CASE hook = "onInstall"
  <2>1. s = "Registered"
    BY <1>2, <1>3, <1>5, <1>6
  <2> QED BY <1>1, <1>2, <1>6, <2>1 DEF HookPairs
<1>7. CASE hook = "onEnable"
  <2>1. s = "Installed" \/ s = "Disabled"
    BY <1>2, <1>3, <1>5, <1>7
  <2> QED BY <1>1, <1>2, <1>7, <2>1 DEF HookPairs
<1>8. CASE hook = "onDisable"
  <2>1. s = "Installed" \/ s = "Active"
    BY <1>2, <1>3, <1>5, <1>8
  <2> QED BY <1>1, <1>2, <1>8, <2>1 DEF HookPairs
<1> QED BY <1>4, <1>6, <1>7, <1>8

\* What one more instance leaves of the frames there are.
LEMMA FramesStay ==
    ASSUME NEW m \in Nat, NEW n \in Nat, m <= n, NEW q \in Seq(FramesOf(m))
    PROVE  q \in Seq(FramesOf(n)) /\ q \in Seq(Frame)
<1>1. MaxInstances \in Nat
  BY PluginAssumption
<1>2. FramesOf(m) \subseteq FramesOf(n) /\ FramesOf(m) \subseteq Frame
  BY <1>1 DEF FramesOf, Frame
<1> QED BY <1>2, WiderSeq

LEMMA CommitKeeps ==
    ASSUME ManagerInv, NEW c \in Callers, NEW n \in Nat, Len(ids) <= n, n <= MaxInstances,
           NEW w \in Worlds(n), NEW v, Leaves(n, w, v), Commit(c, v), registering' \subseteq 1..n,
           \A i \in 1..Len(ids) : w.ids[i] = ids[i] /\ w.state[i] = state[i],
           \A i \in (Len(ids) + 1)..n : w.state[i] = "Registered",
           \A i, j \in w.plugins : w.ids[i] = w.ids[j] => i = j
    PROVE  ManagerInv' /\ HooksInOrder /\ Len(ids') = n
<1> DEFINE m == Len(ids)
           h == Head(v.frames).inst
<1>1. /\ ids \in Seq(Plugins) /\ m \in Nat /\ DOMAIN ids = 1..m
      /\ state \in [1..m -> States]
      /\ calls \in [Callers -> [frames : Seq(Frame), pc : Hooks \cup {"returned", "threw"}]]
      /\ lastHook \in [1..m -> SwitchHooks \cup {"none"}]
      /\ failed \subseteq 1..m
  <2>1. ids \in Seq(Plugins)
    BY DEF ManagerInv, PMTypeOK
  <2>2. m \in Nat /\ DOMAIN ids = 1..m
    BY <2>1, LenProperties
  <2> QED BY <2>1, <2>2 DEF ManagerInv, PMTypeOK
<1>2. /\ v \in Worlds(n) /\ v.ids = w.ids /\ v.plugins \subseteq w.plugins
      /\ v.ids \in [1..n -> Plugins] /\ v.state \in [1..n -> States] /\ v.plugins \subseteq 1..n
      /\ v.frames \in Seq(FramesOf(n)) /\ v.pc \in Hooks \cup {"returned", "threw"}
      /\ v.pc \in Hooks => v.frames # <<>> /\ Head(v.frames).inst # 0
  BY DEF Leaves, Worlds
<1>3. /\ ids' = v.ids /\ state' = v.state /\ plugins' = v.plugins
      /\ ids' \in Seq(Plugins) /\ Len(ids') = n /\ DOMAIN ids' = 1..n
  <2>1. ids' = v.ids /\ state' = v.state /\ plugins' = v.plugins
    BY DEF Commit
  <2> QED BY <1>2, <2>1, FunctionIsSeq
<1> HIDE DEF m
<1>4. lastHook' = [i \in 1..n |-> CASE v.pc \in SwitchHooks /\ h = i -> v.pc
                                    [] OTHER -> IF i \in 1..m THEN lastHook[i] ELSE "none"]
  BY <1>1, <1>3 DEF Commit
<1>5. calls' = [calls EXCEPT ![c] = IF v.frames = <<>> THEN NoCall ELSE [frames |-> v.frames, pc |-> v.pc]]
  BY DEF Commit
<1>6. failed' = failed \cup {i \in 1..n : v.state[i] = "Error"}
  BY <1>2 DEF Commit
<1>7. m <= n
  BY DEF m
<1>8. v.pc \in SwitchHooks =>
         /\ h \in 1..n /\ v.frames # <<>>
         /\ v.state = [w.state EXCEPT ![h] = TargetOf[v.pc]]
         /\ TargetOf[v.pc] \in Transitions[w.state[h]]
  <2> SUFFICES ASSUME v.pc \in SwitchHooks
               PROVE  /\ h \in 1..n /\ v.frames # <<>>
                      /\ v.state = [w.state EXCEPT ![h] = TargetOf[v.pc]]
                      /\ TargetOf[v.pc] \in Transitions[w.state[h]]
    OBVIOUS
  <2>1. v.pc \in Hooks
    BY DEF Hooks
  <2>2. v.frames # <<>> /\ h # 0
    BY <1>2, <2>1
  <2>3. Head(v.frames) \in FramesOf(n)
    BY <1>2, <2>2, HeadTailProperties
  <2>4. h \in Nat /\ h <= n
    BY <2>3, PluginAssumption DEF FramesOf, Frame
  <2> QED BY <2>2, <2>4 DEF Leaves
<1>9. v.pc \notin SwitchHooks => \A i \in 1..n : v.state[i] \in {w.state[i], "Error", "Uninstalled"}
  BY DEF Leaves
<1> HIDE DEF h
<1>10. w.state \in [1..n -> States]
  BY DEF Worlds
<1>11. \A i \in 1..m : w.state[i] = state[i]
  BY DEF m
<1>12. \A i \in 1..n : i \notin 1..m => w.state[i] = "Registered"
  <2> SUFFICES ASSUME NEW i \in 1..n, i \notin 1..m PROVE i \in (Len(ids) + 1)..n
    OBVIOUS
  <2> QED BY <1>1 DEF m
<1>13. v.pc \in SwitchHooks =>
          /\ w.state[h] \in DOMAIN HookOf /\ <<HookOf[w.state[h]], v.pc>> \in HookPairs
          /\ w.state[h] \notin {"Error", "Uninstalled"} /\ HookOf[TargetOf[v.pc]] = v.pc
          /\ TargetOf[v.pc] \notin {"Error", "Uninstalled"} /\ TargetOf[v.pc] \in DOMAIN HookOf
  BY <1>8, <1>10, SwitchPairs
<1>14. PMTypeOK'
  <2>1. calls' \in [Callers -> [frames : Seq(Frame), pc : Hooks \cup {"returned", "threw"}]]
    <3>1. v.frames \in Seq(Frame)
      BY <1>2, FramesStay
    <3>2. <<>> \in Seq(Frame)
      BY EmptySeq
    <3>3. NoCall \in [frames : Seq(Frame), pc : Hooks \cup {"returned", "threw"}]
      BY <3>2 DEF NoCall
    <3> QED BY <1>1, <1>2, <1>5, <3>1, <3>3
  <2>2. lastHook' \in [1..n -> SwitchHooks \cup {"none"}]
    BY <1>1, <1>4
  <2>3. failed' \subseteq 1..n
    <3>1. 1..m \subseteq 1..n
      BY <1>1, <1>7
    <3> QED BY <1>1, <1>6, <3>1
  <2>4. \A i, j \in plugins' : ids'[i] = ids'[j] => i = j
    BY <1>2, <1>3
  <2>5. state' \in [1..n -> States] /\ plugins' \subseteq 1..n
    BY <1>2, <1>3
  <2> QED BY <1>3, <2>1, <2>2, <2>3, <2>4, <2>5 DEF PMTypeOK
<1>15. CallsSound'
  <2> SUFFICES ASSUME NEW d \in Callers
               PROVE  /\ calls'[d].frames \in Seq(FramesOf(n))
                      /\ calls'[d].pc \in Hooks => calls'[d].frames # <<>> /\ Head(calls'[d].frames).inst # 0
    BY <1>3 DEF CallsSound
  <2>1. CASE d # c
    <3>1. calls'[d] = calls[d]
      BY <1>1, <1>5, <2>1
    <3>2. /\ calls[d].frames \in Seq(FramesOf(m))
          /\ calls[d].pc \in Hooks => calls[d].frames # <<>> /\ Head(calls[d].frames).inst # 0
      BY DEF ManagerInv, CallsSound, m
    <3>3. calls[d].frames \in Seq(FramesOf(n))
      BY <1>1, <1>7, <3>2, FramesStay
    <3> QED BY <3>1, <3>2, <3>3
  <2>2. CASE d = c /\ v.frames = <<>>
    <3>1. calls'[d] = NoCall
      BY <1>1, <1>5, <2>2
    <3>2. <<>> \in Seq(FramesOf(n))
      BY EmptySeq
    <3> QED BY <3>1, <3>2 DEF NoCall, Hooks, SwitchHooks
  <2>3. CASE d = c /\ v.frames # <<>>
    <3>1. calls'[d] = [frames |-> v.frames, pc |-> v.pc]
      BY <1>1, <1>5, <2>3
    <3> QED BY <1>2, <3>1
  <2> QED BY <2>1, <2>2, <2>3
<1>16. HooksMatch'
  <2> SUFFICES ASSUME NEW i \in 1..n, v.state[i] \in DOMAIN HookOf PROVE lastHook'[i] = HookOf[v.state[i]]
    BY <1>3 DEF HooksMatch
  <2>1. DOMAIN HookOf = {"Registered", "Installed", "Active", "Disabled"} /\ HookOf["Registered"] = "none"
    BY DEF HookOf
  <2>2. CASE v.pc \in SwitchHooks /\ h = i
    <3>1. v.state[i] = TargetOf[v.pc] /\ lastHook'[i] = v.pc
      BY <1>4, <1>8, <1>10, <2>2
    <3> QED BY <1>13, <2>2, <3>1
  <2>3. CASE ~(v.pc \in SwitchHooks /\ h = i)
    <3>1. v.state[i] = w.state[i]
      <4>1. CASE v.pc \in SwitchHooks
        BY <1>8, <1>10, <2>3, <4>1
      <4>2. CASE v.pc \notin SwitchHooks
        BY <1>9, <2>1, <4>2
      <4> QED BY <4>1, <4>2
    <3>2. lastHook'[i] = IF i \in 1..m THEN lastHook[i] ELSE "none"
      BY <1>4, <2>3
    <3>3. CASE i \in 1..m
      <4>1. state[i] = v.state[i] /\ i \in DOMAIN ids
        BY <1>1, <1>11, <3>1, <3>3
      <4> QED BY <3>2, <3>3, <4>1 DEF ManagerInv, HooksMatch
    <3>4. CASE i \notin 1..m
      BY <1>12, <2>1, <3>1, <3>2, <3>4
    <3> QED BY <3>3, <3>4
  <2> QED BY <2>2, <2>3
<1>17. FailedAreOut'
  <2> SUFFICES ASSUME NEW i \in failed' PROVE v.state[i] \in {"Error", "Uninstalled"}
    BY <1>3 DEF FailedAreOut
  <2>1. CASE v.state[i] = "Error"
    BY <2>1
  <2>2. CASE v.state[i] # "Error"
    <3>1. i \in failed /\ i \in 1..m /\ i \in 1..n
      BY <1>1, <1>6, <1>7, <2>2
    <3>2. w.state[i] \in {"Error", "Uninstalled"}
      BY <1>11, <3>1 DEF ManagerInv, FailedAreOut
    <3>3. CASE v.pc \in SwitchHooks
      <4>1. h # i
        BY <1>13, <3>2, <3>3
      <4> QED BY <1>8, <1>10, <3>1, <3>2, <3>3, <4>1
    <3>4. CASE v.pc \notin SwitchHooks
      BY <1>9, <3>1, <3>2, <3>4
    <3> QED BY <3>3, <3>4
  <2> QED BY <2>1, <2>2
<1>18. HooksInOrder
  <2> SUFFICES ASSUME NEW i \in DOMAIN lastHook, StartsHook(i)
               PROVE  <<lastHook[i], lastHook'[i]>> \in HookPairs /\ state[i] \notin {"Error", "Uninstalled"}
    BY <1>6 DEF HooksInOrder
  <2>1. PICK d \in Callers : /\ calls'[d] # calls[d] /\ calls'[d].pc \in SwitchHooks
                             /\ Head(calls'[d].frames).inst = i
    BY DEF StartsHook
  <2>2. d = c
    BY <1>1, <1>5, <2>1
  <2>3. CASE v.frames = <<>>
    <3>1. calls'[d] = NoCall
      BY <1>1, <1>5, <2>2, <2>3
    <3> QED BY <2>1, <3>1 DEF NoCall, SwitchHooks
  <2>4. CASE v.frames # <<>>
    <3>1. calls'[d] = [frames |-> v.frames, pc |-> v.pc]
      BY <1>1, <1>5, <2>2, <2>4
    <3>2. v.pc \in SwitchHooks /\ h = i
      BY <2>1, <3>1 DEF h
    <3>3. i \in 1..m /\ i \in 1..n
      BY <1>1, <1>8, <3>2
    <3>4. lastHook'[i] = v.pc
      BY <1>4, <3>2, <3>3
    <3>5. w.state[i] = state[i] /\ i \in DOMAIN ids
      BY <1>1, <1>11, <3>3
    <3>6. lastHook[i] = HookOf[w.state[i]]
      BY <1>13, <3>2, <3>5 DEF ManagerInv, HooksMatch
    <3> QED BY <1>13, <3>2, <3>4, <3>5, <3>6
  <2> QED BY <2>3, <2>4
<1> QED BY <1>3, <1>14, <1>15, <1>16, <1>17, <1>18 DEF ManagerInv

\* The world of a caller.
LEMMA WorldOf ==
    ASSUME ManagerInv, NEW c \in Callers
    PROVE  /\ Len(ids) \in Nat /\ Len(ids) <= MaxInstances /\ DOMAIN ids = 1..Len(ids)
           /\ ids \in [1..Len(ids) -> Plugins] /\ state \in [1..Len(ids) -> States]
           /\ plugins \subseteq 1..Len(ids)
           /\ World(c) \in Worlds(Len(ids))
           /\ calls[c].pc \in Hooks => calls[c].frames # <<>> /\ Head(calls[c].frames).inst # 0
<1>1. ids \in Seq(Plugins)
  BY DEF ManagerInv, PMTypeOK
<1>2. Len(ids) \in Nat /\ DOMAIN ids = 1..Len(ids) /\ ids \in [1..Len(ids) -> Plugins]
  BY <1>1, LenProperties
<1>3. /\ Len(ids) <= MaxInstances /\ state \in [1..Len(ids) -> States] /\ plugins \subseteq 1..Len(ids)
      /\ calls[c].pc \in Hooks \cup {"returned", "threw"}
      /\ calls[c].frames \in Seq(FramesOf(Len(ids)))
      /\ calls[c].pc \in Hooks => calls[c].frames # <<>> /\ Head(calls[c].frames).inst # 0
  BY <1>2 DEF ManagerInv, PMTypeOK, CallsSound
<1>4. World(c) \in Worlds(Len(ids))
  BY <1>2, <1>3 DEF World, Worlds
<1> QED BY <1>2, <1>3, <1>4

\* A step of a call under way, or of one that registers nothing.
LEMMA StepKeeps ==
    ASSUME ManagerInv, NEW c \in Callers, NEW v, Leaves(Len(ids), World(c), v), Commit(c, v),
           UNCHANGED registering
    PROVE  ManagerInv' /\ HooksInOrder /\ Len(ids') = Len(ids)
<1>1. /\ Len(ids) \in Nat /\ Len(ids) <= MaxInstances /\ World(c) \in Worlds(Len(ids))
      /\ DOMAIN ids = 1..Len(ids)
  BY WorldOf
<1>2. World(c).ids = ids /\ World(c).state = state /\ World(c).plugins = plugins
  BY DEF World
<1>3. registering' \subseteq 1..Len(ids)
  BY <1>1 DEF ManagerInv, PMTypeOK
<1>4. \A i, j \in World(c).plugins : World(c).ids[i] = World(c).ids[j] => i = j
  BY <1>2 DEF ManagerInv, PMTypeOK
<1>5. \A i \in (Len(ids) + 1)..Len(ids) : World(c).state[i] = "Registered"
  BY <1>1
<1>6. Len(ids) <= Len(ids)
  BY <1>1
<1> QED BY <1>1, <1>2, <1>3, <1>4, <1>5, <1>6, CommitKeeps

LEMMA CallsKeep ==
    ASSUME ManagerInv, NEW c \in Callers,
           \/ \E p \in Plugins : Install(c, p) \/ Enable(c, p) \/ Disable(c, p)
                                \/ Uninstall(c, p) \/ Unregister(c, p)
           \/ InstallAll(c)
           \/ EnableAll(c)
    PROVE  ManagerInv' /\ HooksInOrder /\ Len(ids') = Len(ids)
<1>1. Len(ids) \in Nat /\ Len(ids) <= MaxInstances /\ World(c) \in Worlds(Len(ids))
  BY WorldOf
<1>2. ASSUME NEW v, Call(c, v), Leaves(Len(ids), World(c), v)
      PROVE  ManagerInv' /\ HooksInOrder /\ Len(ids') = Len(ids)
  BY <1>2, StepKeeps DEF Call
<1>3. ASSUME NEW p \in Plugins, Install(c, p)
      PROVE  ManagerInv' /\ HooksInOrder /\ Len(ids') = Len(ids)
  BY <1>1, <1>2, <1>3, InstallLeaves DEF Install
<1>4. ASSUME NEW p \in Plugins, Enable(c, p)
      PROVE  ManagerInv' /\ HooksInOrder /\ Len(ids') = Len(ids)
  BY <1>1, <1>2, <1>4, EnableDisableLeaves DEF Enable
<1>5. ASSUME NEW p \in Plugins, Disable(c, p)
      PROVE  ManagerInv' /\ HooksInOrder /\ Len(ids') = Len(ids)
  BY <1>1, <1>2, <1>5, EnableDisableLeaves DEF Disable
<1>6. ASSUME NEW p \in Plugins, Uninstall(c, p)
      PROVE  ManagerInv' /\ HooksInOrder /\ Len(ids') = Len(ids)
  BY <1>1, <1>2, <1>6, UninstallLeaves DEF Uninstall
<1>7. ASSUME NEW p \in Plugins, Unregister(c, p)
      PROVE  ManagerInv' /\ HooksInOrder /\ Len(ids') = Len(ids)
  BY <1>1, <1>2, <1>7, UnregisterLeaves DEF Unregister
<1>8. CASE InstallAll(c)
  <2>1. PICK order \in InstallOrders(World(c)) : Call(c, BeginInstallAll(World(c), order))
    BY <1>8 DEF InstallAll
  <2>2. Leaves(Len(ids), World(c), BeginInstallAll(World(c), order))
    BY <1>1, AllLeave
  <2> QED BY <1>2, <2>1, <2>2
<1>9. CASE EnableAll(c)
  BY <1>1, <1>2, <1>9, AllLeave DEF EnableAll
<1> QED BY <1>3, <1>4, <1>5, <1>6, <1>7, <1>8, <1>9

LEMMA TurnsKeep ==
    ASSUME ManagerInv, NEW c \in Callers, Resume(c) \/ \E outcome \in Outcomes : HookSettles(c, outcome)
    PROVE  ManagerInv' /\ HooksInOrder /\ Len(ids') = Len(ids)
<1>1. /\ Len(ids) \in Nat /\ Len(ids) <= MaxInstances /\ World(c) \in Worlds(Len(ids))
      /\ calls[c].pc \in Hooks => calls[c].frames # <<>> /\ Head(calls[c].frames).inst # 0
  BY WorldOf
<1>2. World(c).frames = calls[c].frames /\ World(c).pc = calls[c].pc
  BY DEF World
<1>3. CASE Resume(c)
  <2>1. Leaves(Len(ids), World(c), AfterCall(World(c)))
    BY <1>1, <1>2, <1>3, AfterCallLeaves DEF Resume
  <2> QED BY <1>3, <2>1, StepKeeps DEF Resume
<1>4. ASSUME NEW outcome \in Outcomes, HookSettles(c, outcome)
      PROVE  ManagerInv' /\ HooksInOrder /\ Len(ids') = Len(ids)
  <2>1. calls[c].pc \in Hooks /\ Commit(c, AfterHook(World(c), outcome)) /\ UNCHANGED registering
    BY <1>4 DEF HookSettles
  <2>2. Leaves(Len(ids), World(c), AfterHook(World(c), outcome))
    BY <1>1, <1>2, <2>1, AfterHookLeaves
  <2> QED BY <2>1, <2>2, StepKeeps
<1> QED BY <1>3, <1>4

\* One element more.
LEMMA OneMore ==
    ASSUME NEW m \in Nat
    PROVE  /\ 1..m \subseteq 1..(m + 1) /\ m + 1 \in 1..(m + 1)
           /\ \A S : \A f \in [1..m -> S], e \in S :
                 /\ Append(f, e) \in [1..(m + 1) -> S] /\ Append(f, e)[m + 1] = e
                 /\ \A i \in 1..m : Append(f, e)[i] = f[i]
<1>1. 1..m \subseteq 1..(m + 1) /\ m + 1 \in 1..(m + 1)
  OBVIOUS
<1>2. ASSUME NEW S, NEW f \in [1..m -> S], NEW e \in S
      PROVE  /\ Append(f, e) \in [1..(m + 1) -> S] /\ Append(f, e)[m + 1] = e
             /\ \A i \in 1..m : Append(f, e)[i] = f[i]
  <2>1. f \in Seq(S) /\ Len(f) = m
    BY FunctionIsSeq
  <2>2. /\ Append(f, e) \in Seq(S) /\ Len(Append(f, e)) = m + 1 /\ Append(f, e)[m + 1] = e
        /\ \A i \in 1..m : Append(f, e)[i] = f[i]
    BY <2>1, AppendProperties
  <2> QED BY <2>2, LenProperties
<1> QED BY <1>1, <1>2

LEMMA RegisterKeeps ==
    ASSUME ManagerInv, NEW c \in Callers, NEW p \in Plugins, Register(c, p) \/ RegisterThrows(c, p)
    PROVE  ManagerInv' /\ HooksInOrder /\ Len(ids') = Len(ids) + 1
<1> DEFINE m == Len(ids)
           n == m + 1
           w == Entered(c, p)
           u == Push(w, "auto", n)
           installs == Register(c, p) /\ config.autoInstall
           v == IF installs THEN BeginInstall(u, p) ELSE w
<1>1. /\ m \in Nat /\ n \in Nat /\ n <= MaxInstances /\ m <= n
      /\ DOMAIN ids = 1..m /\ ids \in [1..m -> Plugins] /\ state \in [1..m -> States]
      /\ plugins \subseteq 1..m /\ World(c) \in Worlds(m)
  <2>1. n <= MaxInstances
    <3>1. m \in Nat /\ MaxInstances \in Nat
      BY WorldOf, PluginAssumption
    <3> QED BY <3>1 DEF Register, RegisterThrows
  <2> QED BY <2>1, WorldOf
<1>2. Idle(c) /\ Get(World(c), p) = 0 /\ Commit(c, v) /\ registering' \subseteq registering \cup {n}
  <2>1. CASE Register(c, p)
    BY <2>1 DEF Register
  <2>2. CASE ~Register(c, p)
    BY <2>2 DEF RegisterThrows
  <2> QED BY <2>1, <2>2
<1>3. World(c) = [ids |-> ids, state |-> state, plugins |-> plugins,
                  frames |-> calls[c].frames, pc |-> "returned"]
  BY <1>2 DEF World, Idle, NoCall
<1>4. /\ Append(ids, p) \in [1..n -> Plugins] /\ Append(ids, p)[n] = p
      /\ \A i \in 1..m : Append(ids, p)[i] = ids[i]
  <2>1. \A f \in [1..m -> Plugins], e \in Plugins :
           /\ Append(f, e) \in [1..(m + 1) -> Plugins] /\ Append(f, e)[m + 1] = e
           /\ \A i \in 1..m : Append(f, e)[i] = f[i]
    BY <1>1, OneMore
  <2> HIDE DEF m
  <2> QED BY <1>1, <2>1
<1>5. /\ Append(state, "Registered") \in [1..n -> States] /\ Append(state, "Registered")[n] = "Registered"
      /\ \A i \in 1..m : Append(state, "Registered")[i] = state[i]
  <2>1. "Registered" \in States
    BY DEF States
  <2> QED BY <1>1, <2>1, OneMore
<1>6. calls[c].frames \in Seq(FramesOf(n))
  <2>1. calls[c].frames \in Seq(FramesOf(m))
    BY <1>1 DEF Worlds, World
  <2> HIDE DEF m, n
  <2> QED BY <1>1, <2>1, FramesStay
<1>7. /\ w.ids = Append(ids, p) /\ w.state = Append(state, "Registered") /\ w.plugins = plugins \cup {n}
      /\ w.frames = calls[c].frames /\ w.pc = "returned"
      /\ w = [ids |-> Append(ids, p), state |-> Append(state, "Registered"), plugins |-> plugins \cup {n},
              frames |-> calls[c].frames, pc |-> "returned"]
  <2>1. w = [ids |-> Append(ids, p), state |-> Append(state, "Registered"), plugins |-> plugins \cup {n},
             frames |-> calls[c].frames, pc |-> "returned"]
    <3> DEFINE r == [ids |-> ids, state |-> state, plugins |-> plugins,
                     frames |-> calls[c].frames, pc |-> "returned"]
    <3>1. w = [r EXCEPT !.ids = Append(@, p), !.state = Append(@, "Registered"), !.plugins = @ \cup {n}]
      BY <1>3 DEF Entered
    <3> HIDE DEF w, n
    <3> QED BY <3>1
  <2> HIDE DEF w, n
  <2> QED BY <2>1
<1>8. plugins \cup {n} \subseteq 1..n
  BY <1>1, OneMore
<1> HIDE DEF w
<1>9. w \in Worlds(n)
  <2> HIDE DEF n
  <2> QED BY <1>4, <1>5, <1>6, <1>7, <1>8 DEF Worlds
<1>10. /\ \A i \in 1..m : w.ids[i] = ids[i] /\ w.state[i] = state[i]
       /\ \A i \in (m + 1)..n : w.state[i] = "Registered"
  <2>1. \A i \in (m + 1)..n : i = n
    BY <1>1
  <2> QED BY <1>4, <1>5, <1>7, <2>1
<1>11. \A i, j \in w.plugins : w.ids[i] = w.ids[j] => i = j
  <2>1. \A i \in plugins : ids[i] # p
    <3> SUFFICES ASSUME NEW i \in plugins, ids[i] = p PROVE FALSE
      OBVIOUS
    <3> DEFINE found == {j \in plugins : ids[j] = p}
    <3>1. found # {} /\ \A j \in found : j # 0
      BY <1>1
    <3>2. Get(World(c), p) = CHOOSE j \in found : TRUE
      BY <1>3, <3>1 DEF Get
    <3> HIDE DEF found
    <3>3. Get(World(c), p) \in found
      BY <3>1, <3>2
    <3> QED BY <1>2, <3>1, <3>3
  <2>2. \A i, j \in plugins : ids[i] = ids[j] => i = j
    BY DEF ManagerInv, PMTypeOK
  <2>3. \A i \in plugins : w.ids[i] = ids[i]
    BY <1>1, <1>10
  <2>4. w.ids[n] = p
    BY <1>4, <1>7
  <2>5. w.plugins = plugins \cup {n}
    BY <1>7
  <2> HIDE DEF n
  <2>6. \A i \in w.plugins : i \in plugins \/ i = n
    BY <2>5
  <2> QED BY <2>1, <2>2, <2>3, <2>4, <2>6
<1>12. Leaves(n, w, v)
  <2>1. CASE installs
    <3>1. n \in 1..n
      BY <1>1
    <3>2. u \in Worlds(n)
      BY <1>1, <1>9, <3>1, WorldOperations
    <3>3. u.ids = w.ids /\ u.plugins = w.plugins /\ u.state = w.state
      BY <1>9 DEF Push, Worlds
    <3> HIDE DEF u, n
    <3>4. Leaves(n, u, BeginInstall(u, p))
      BY <1>1, <3>2, InstallLeaves
    <3> QED BY <1>1, <1>9, <2>1, <3>2, <3>3, <3>4, SameLeaves
  <2>2. CASE ~installs
    <3> HIDE DEF n
    <3>1. Leaves(n, w, w)
      BY <1>1, <1>7, <1>9, EndLeaves
    <3> QED BY <2>2, <3>1
  <2> QED BY <2>1, <2>2
<1>13. registering' \subseteq 1..n
  <2>1. registering \subseteq 1..m
    BY <1>1 DEF ManagerInv, PMTypeOK
  <2>2. 1..m \subseteq 1..n /\ n \in 1..n
    BY <1>1, OneMore
  <2> HIDE DEF m, n
  <2> QED BY <1>2, <2>1, <2>2
<1> HIDE DEF v
<1>14. ManagerInv' /\ HooksInOrder /\ Len(ids') = n
  <2>1. \A k \in Nat : k = n => ManagerInv' /\ HooksInOrder /\ Len(ids') = k
    BY <1>1, <1>2, <1>9, <1>10, <1>11, <1>12, <1>13, CommitKeeps
  <2> QED BY <1>1, <2>1
<1> QED BY <1>14

\* A plugin's failure, outside of a call.
LEMMA ErrorKeeps ==
    ASSUME ManagerInv, NEW i \in DOMAIN ids, registering' \subseteq registering,
           \/ UNCHANGED <<state, failed>>
           \/ state' = [state EXCEPT ![i] = "Error"] /\ failed' = failed \cup {i},
           UNCHANGED <<ids, plugins, calls, lastHook>>
    PROVE  ManagerInv' /\ HooksInOrder /\ Len(ids') = Len(ids)
<1>1. state \in [DOMAIN ids -> States]
  BY DEF ManagerInv, PMTypeOK
<1>2. /\ state' \in [DOMAIN ids -> States]
      /\ \A j \in DOMAIN ids : state'[j] \in {state[j], "Error"}
      /\ \A j \in failed' : j \in failed \/ state'[j] = "Error"
      /\ failed' \subseteq DOMAIN ids
  <2>1. failed \subseteq DOMAIN ids /\ "Error" \in States
    BY DEF ManagerInv, PMTypeOK, States
  <2> QED BY <1>1, <2>1
<1>3. PMTypeOK'
  BY <1>2 DEF ManagerInv, PMTypeOK
<1>4. CallsSound'
  BY DEF ManagerInv, CallsSound
<1>5. HooksMatch'
  <2>1. "Error" \notin DOMAIN HookOf
    BY DEF HookOf
  <2> QED BY <1>2, <2>1 DEF ManagerInv, HooksMatch
<1>6. FailedAreOut'
  <2>1. failed \subseteq DOMAIN ids
    BY DEF ManagerInv, PMTypeOK
  <2> QED BY <1>2, <2>1 DEF ManagerInv, FailedAreOut
<1>7. HooksInOrder
  BY DEF HooksInOrder, StartsHook
<1> QED BY <1>3, <1>4, <1>5, <1>6, <1>7 DEF ManagerInv

-------------------------------------------------------------------------------
(* The pipeline.                                                             *)

\* The entries a step brings to the array.
Brought == ToSet(middleware') \ ToSet(middleware)

\* The order of the pipeline is strict, and total on entries of different sequence.
LEMMA BeforeIsStrict ==
    ASSUME NEW a \in Entry, NEW b \in Entry
    PROVE  /\ ~Before(a, a)
           /\ a.seq # b.seq => Before(a, b) \/ Before(b, a)
           /\ \A c \in Entry : Before(a, b) /\ Before(b, c) => Before(a, c)
<1>1. \A e \in Entry : Order[e.name] \in Nat /\ e.seq \in Nat
  BY PipelineAssumption DEF Entry
<1> QED BY <1>1 DEF Before

\* Sorting entries of different sequences orders them.
LEMMA SortOrders ==
    ASSUME NEW q \in Seq(Entry), \A k, l \in DOMAIN q : q[k].seq = q[l].seq => k = l
    PROVE  LET r == SortMiddleware(q)
           IN  /\ r \in Seq(Entry) /\ Len(r) = Len(q) /\ DOMAIN r = DOMAIN q
               /\ \A k \in DOMAIN r : r[k] \in ToSet(q)
               /\ Ascending(r)
               /\ \A k, l \in DOMAIN r : r[k].seq = r[l].seq => k = l
<1> DEFINE S == ToSet(q)
           R == {p \in S \X S : Before(p[1], p[2])}
           r == SortMiddleware(q)
<1>1. /\ Len(q) \in Nat /\ DOMAIN q = 1..Len(q) /\ S \subseteq Entry
  BY LenProperties DEF ToSet
<1>2. IsInjective(q)
  BY DEF IsInjective
<1>3. Cardinality(S) = Len(q)
  BY <1>2, DistinctCount
<1>4. IsFiniteSet(S)
  <2>1. IsFiniteSet(1..Len(q))
    BY <1>1, FS_Interval
  <2>2. q \in Surjection(1..Len(q), S)
    BY <1>1, LenProperties DEF Surjection, ToSet
  <2> QED BY <2>1, <2>2, FS_Surjection
<1>5. \A a, b \in S : a.seq = b.seq => a = b
  BY DEF ToSet
<1>6. \A a, b \in S : <<a, b>> \in R <=> Before(a, b)
  OBVIOUS
<1> HIDE DEF S, R
<1>7. /\ \A a \in S : <<a, a>> \notin R
      /\ \A a, b, c \in S : <<a, b>> \in R /\ <<b, c>> \in R => <<a, c>> \in R
      /\ \A a, b \in S : a # b => <<a, b>> \in R \/ <<b, a>> \in R
  BY <1>1, <1>5, <1>6, BeforeIsStrict
<1>8. \E s \in [1..Cardinality(S) -> S] :
         \A k, l \in 1..Cardinality(S) : k < l => <<s[k], s[l]>> \in R
  BY <1>4, <1>7, SortExists
<1>9. \E s \in [DOMAIN q -> S] : Ascending(s)
  <2>1. PICK s \in [DOMAIN q -> S] : \A k, l \in DOMAIN q : k < l => <<s[k], s[l]>> \in R
    BY <1>1, <1>3, <1>8
  <2>2. Ascending(s)
    BY <1>6, <2>1 DEF Ascending
  <2> QED BY <2>2
<1>10. r \in [DOMAIN q -> S] /\ Ascending(r)
  BY <1>9 DEF SortMiddleware, S
<1> HIDE DEF r
<1>11. r \in Seq(Entry) /\ Len(r) = Len(q) /\ DOMAIN r = DOMAIN q
  <2>1. r \in [1..Len(q) -> Entry]
    BY <1>1, <1>10
  <2> QED BY <1>1, <2>1, FunctionIsSeq
<1>12. ASSUME NEW k \in DOMAIN r, NEW l \in DOMAIN r, r[k].seq = r[l].seq PROVE k = l
  <2>1. r[k] = r[l] /\ r[k] \in Entry
    BY <1>1, <1>5, <1>10, <1>12
  <2>2. ~Before(r[k], r[l]) /\ ~Before(r[l], r[k])
    BY <2>1, BeforeIsStrict
  <2>3. ~(k < l) /\ ~(l < k)
    BY <1>10, <2>2 DEF Ascending
  <2> QED BY <1>1, <1>11, <2>3
<1>13. \A k \in DOMAIN r : r[k] \in S
  BY <1>10
<1> QED BY <1>10, <1>11, <1>12, <1>13 DEF r, S

\* A sequence is in descending order if its reverse is in ascending order.
LEMMA ReverseDescends ==
    ASSUME NEW q \in Seq(Entry)
    PROVE  /\ Reverse(q) \in Seq(Entry)
           /\ Ascending(q) => Descending(Reverse(q))
           /\ Descending(q) => Ascending(Reverse(q))
<1> DEFINE r == Reverse(q)
           n == Len(q)
<1>1. n \in Nat /\ DOMAIN q = 1..n /\ \A k \in 1..n : q[k] \in Entry
  BY LenProperties
<1>2. r = [k \in 1..n |-> q[(n - k) + 1]]
  BY DEF Reverse
<1>3. \A k \in 1..n : (n - k) + 1 \in 1..n
  BY <1>1
<1>4. r \in [1..n -> Entry]
  BY <1>1, <1>2, <1>3
<1> HIDE DEF r, n
<1>5. r \in Seq(Entry) /\ DOMAIN r = 1..n
  BY <1>1, <1>4, FunctionIsSeq
<1>6. ASSUME NEW k \in 1..n, NEW l \in 1..n, k < l
      PROVE  /\ (n - l) + 1 \in 1..n /\ (n - k) + 1 \in 1..n /\ (n - l) + 1 < (n - k) + 1
             /\ r[k] = q[(n - k) + 1] /\ r[l] = q[(n - l) + 1]
  BY <1>1, <1>2, <1>6
<1>7. Ascending(q) => Descending(r)
  BY <1>1, <1>5, <1>6 DEF Ascending, Descending
<1>8. Descending(q) => Ascending(r)
  BY <1>1, <1>5, <1>6 DEF Ascending, Descending
<1> QED BY <1>5, <1>7, <1>8 DEF r

\* A part of a descending sequence, and the move of its next entry.
LEMMA DescendingParts ==
    ASSUME NEW a \in Seq(Entry), NEW b \in Seq(Entry)
    PROVE  /\ a \o b \in Seq(Entry)
           /\ a \o <<>> = a /\ <<>> \o a = a
           /\ Descending(a \o b) => Descending(a)
           /\ b # <<>> => /\ Append(a, Head(b)) \in Seq(Entry) /\ Tail(b) \in Seq(Entry)
                          /\ Append(a, Head(b)) \o Tail(b) = a \o b
<1>1. /\ Len(a) \in Nat /\ Len(b) \in Nat /\ DOMAIN a = 1..Len(a)
      /\ a \o b \in Seq(Entry) /\ Len(a \o b) = Len(a) + Len(b)
      /\ DOMAIN (a \o b) = 1..(Len(a) + Len(b))
      /\ \A i \in 1..(Len(a) + Len(b)) : (a \o b)[i] = IF i <= Len(a) THEN a[i] ELSE b[i - Len(a)]
  BY LenProperties, ConcatProperties
<1>2. a \o <<>> = a /\ <<>> \o a = a
  BY ConcatEmptySeq
<1>3. ASSUME Descending(a \o b) PROVE Descending(a)
  <2>1. \A i \in DOMAIN a : i \in DOMAIN (a \o b) /\ (a \o b)[i] = a[i]
    BY <1>1
  <2>2. \A i \in DOMAIN a : i \in Nat
    BY <1>1
  <2> HIDE DEF Before
  <2> QED BY <1>3, <2>1, <2>2 DEF Descending
<1>4. ASSUME b # <<>>
      PROVE  /\ Append(a, Head(b)) \in Seq(Entry) /\ Tail(b) \in Seq(Entry)
             /\ Append(a, Head(b)) \o Tail(b) = a \o b
  <2>1. Head(b) \in Entry /\ Tail(b) \in Seq(Entry) /\ b = <<Head(b)>> \o Tail(b)
    BY <1>4, HeadTailProperties, ConcatProperties, SeqEqual
  <2>2. Append(a, Head(b)) \in Seq(Entry) /\ Append(a, Head(b)) = a \o <<Head(b)>>
    BY <2>1, AppendProperties, AppendIsConcat
  <2>3. (a \o <<Head(b)>>) \o Tail(b) = a \o (<<Head(b)>> \o Tail(b))
    <3>1. <<Head(b)>> \in Seq(Entry)
      BY <2>1
    <3> QED BY <2>1, <3>1, ConcatAssociative
  <2> QED BY <2>1, <2>2, <2>3
<1> QED BY <1>1, <1>2, <1>3, <1>4

\* use, of several entries.
LEMMA UseKeeps ==
    ASSUME PipelineInv, NEW names \in Seq(Names), UseAll(names), names = <<>> => run.phase = "idle"
    PROVE  PipelineInv' /\ \A e \in Brought : \E k \in DOMAIN names : e.name = names[k]
<1> DEFINE m == Len(middleware)
           added == [k \in DOMAIN names |-> [name |-> names[k], seq |-> nextSequence + k - 1]]
           all == middleware \o added
<1>1. /\ middleware \in Seq(Entry) /\ m \in Nat /\ DOMAIN middleware = 1..m
      /\ nextSequence \in 0..MaxUses /\ MaxUses \in Nat /\ run \in Runs
      /\ Len(names) \in Nat /\ DOMAIN names = 1..Len(names) /\ \A k \in 1..Len(names) : names[k] \in Names
      /\ nextSequence + Len(names) <= MaxUses
  BY LenProperties, PipelineAssumption DEF PipelineInv, UseAll
<1>2. added \in Seq(Entry) /\ Len(added) = Len(names)
  <2>1. added \in [1..Len(names) -> Entry]
    BY <1>1 DEF Entry
  <2> HIDE DEF added
  <2> QED BY <1>1, <2>1, FunctionIsSeq
<1>3. \A k \in 1..Len(names) : added[k].seq = nextSequence + k - 1 /\ added[k].name = names[k]
  BY <1>1
<1> HIDE DEF added
<1>4. /\ all \in Seq(Entry) /\ DOMAIN all = 1..(m + Len(names))
      /\ \A i \in 1..m : all[i] = middleware[i]
      /\ \A i \in 1..(m + Len(names)) : i > m => i - m \in 1..Len(names) /\ all[i] = added[i - m]
  <2>1. /\ all \in Seq(Entry) /\ Len(all) = m + Len(names)
        /\ \A i \in 1..(m + Len(names)) : all[i] = IF i <= m THEN middleware[i] ELSE added[i - m]
    <3>1. middleware \in Seq(Entry) /\ added \in Seq(Entry)
      BY <1>1, <1>2
    <3>2. /\ all \in Seq(Entry) /\ Len(all) = Len(middleware) + Len(added)
          /\ \A i \in 1..(Len(middleware) + Len(added)) :
                all[i] = IF i <= Len(middleware) THEN middleware[i] ELSE added[i - Len(middleware)]
      BY <3>1, ConcatProperties
    <3> QED BY <1>2, <3>2
  <2> HIDE DEF all, m
  <2>2. DOMAIN all = 1..(m + Len(names))
    BY <2>1, LenProperties
  <2>3. 1..m \subseteq 1..(m + Len(names)) /\ \A i \in 1..m : i <= m
    BY <1>1
  <2>4. \A i \in 1..m : all[i] = middleware[i]
    BY <2>1, <2>3
  <2>5. \A i \in 1..(m + Len(names)) : i > m => i - m \in 1..Len(names) /\ ~(i <= m)
    BY <1>1
  <2> QED BY <2>1, <2>2, <2>4, <2>5
<1>5. /\ nextSequence' = nextSequence + Len(names) /\ middleware' = SortMiddleware(all)
      /\ IF names = <<>> THEN UNCHANGED run ELSE Touch("use")
  BY DEF UseAll, added, all
<1> HIDE DEF all, m
<1>6. ASSUME NEW i \in DOMAIN all
      PROVE  /\ i \in Nat /\ all[i].seq \in Nat /\ all[i].seq < nextSequence + Len(names)
             /\ i <= m => i \in DOMAIN middleware /\ all[i] = middleware[i] /\ all[i].seq < nextSequence
             /\ i > m => all[i].seq = nextSequence + (i - m) - 1
  <2>1. i \in Nat /\ i \in 1..(m + Len(names))
    BY <1>1, <1>4
  <2>2. CASE i <= m
    <3>1. i \in DOMAIN middleware /\ all[i] = middleware[i]
      BY <1>1, <1>4, <2>1, <2>2
    <3>2. middleware[i] \in Entry
      BY <1>1, <3>1
    <3>3. middleware[i].seq \in Nat /\ middleware[i].seq < nextSequence
      BY <1>1, <3>1, <3>2 DEF PipelineInv, ArraySound, Entry
    <3> QED BY <1>1, <2>1, <2>2, <3>1, <3>3
  <2>3. CASE i > m
    <3>1. i - m \in 1..Len(names) /\ all[i] = added[i - m]
      BY <1>4, <2>1, <2>3
    <3>2. all[i].seq = nextSequence + (i - m) - 1
      BY <1>3, <3>1
    <3> QED BY <1>1, <2>1, <2>3, <3>1, <3>2
  <2> QED BY <1>1, <2>1, <2>2, <2>3
<1>7. ASSUME NEW i \in DOMAIN all, NEW j \in DOMAIN all, all[i].seq = all[j].seq PROVE i = j
  <2>1. /\ i \in Nat
        /\ i <= m => all[i] = middleware[i] /\ i \in DOMAIN middleware /\ all[i].seq < nextSequence
        /\ i > m => all[i].seq = nextSequence + (i - m) - 1
    BY <1>6
  <2>2. /\ j \in Nat
        /\ j <= m => all[j] = middleware[j] /\ j \in DOMAIN middleware /\ all[j].seq < nextSequence
        /\ j > m => all[j].seq = nextSequence + (j - m) - 1
    BY <1>6
  <2>3. CASE i <= m /\ j <= m
    BY <1>7, <2>1, <2>2, <2>3 DEF PipelineInv, ArraySound
  <2>4. all[i].seq \in Nat /\ all[j].seq \in Nat
    BY <1>6
  <2>5. CASE i > m /\ j > m
    BY <1>1, <1>7, <2>1, <2>2, <2>5
  <2>6. CASE i <= m /\ j > m
    BY <1>1, <1>7, <2>1, <2>2, <2>4, <2>6
  <2>7. CASE i > m /\ j <= m
    BY <1>1, <1>7, <2>1, <2>2, <2>4, <2>7
  <2> QED BY <1>1, <2>1, <2>2, <2>3, <2>5, <2>6, <2>7
<1>8. /\ middleware' \in Seq(Entry) /\ Ascending(middleware')
      /\ \A k \in DOMAIN middleware' : middleware'[k] \in ToSet(all)
      /\ \A k, l \in DOMAIN middleware' : middleware'[k].seq = middleware'[l].seq => k = l
  BY <1>4, <1>7, <1>5, SortOrders
<1>9. ArraySound'
  <2>1. \A e \in ToSet(all) : e.seq < nextSequence'
    BY <1>6, <1>5 DEF ToSet
  <2> QED BY <1>8, <2>1 DEF ArraySound, Ascending
<1>10. nextSequence' \in 0..MaxUses
  BY <1>1, <1>5
<1>11. ASSUME run.phase \in {"idle", "done", "failed"} PROVE PipelineInv'
  <2>1. run' = run
    BY <1>1, <1>5, <1>11 DEF Touch, Runs
  <2>2. PreSound'
    BY <1>11, <2>1 DEF PipelineInv, PreSound, Ascending
  <2>3. BackSound'
    BY <2>1 DEF PipelineInv, BackSound, Descending
  <2>4. LayersMatch'
    BY <1>11, <2>1 DEF PipelineInv, LayersMatch
  <2> QED BY <1>8, <1>9, <1>10, <2>1, <2>2, <2>3, <2>4 DEF PipelineInv
<1>12. ASSUME run.phase \notin {"idle", "done", "failed"} PROVE PipelineInv'
  <2>1. run' = [run EXCEPT !.touched = @ \cup {"use"}]
    BY <1>5, <1>12 DEF Touch
  <2>2. run' \in Runs /\ run'.touched # {} /\ "use" \in run'.touched
        /\ run'.phase = run.phase /\ run'.back = run.back /\ run'.rest = run.rest
    BY <1>1, <2>1 DEF Runs
  <2>3. PreSound' /\ LayersMatch'
    BY <2>2 DEF PreSound, LayersMatch
  <2>4. BackSound'
    BY <2>2 DEF PipelineInv, BackSound, Descending
  <2> QED BY <1>8, <1>9, <1>10, <1>12, <2>2, <2>3, <2>4 DEF PipelineInv
<1>13. ASSUME NEW e \in Brought PROVE \E k \in DOMAIN names : e.name = names[k]
  <2>1. PICK i \in DOMAIN all : e = all[i]
    BY <1>8, <1>13 DEF Brought, ToSet
  <2>2. ~(i <= m)
    BY <1>6, <1>13, <2>1 DEF Brought, ToSet
  <2>3. i - m \in 1..Len(names) /\ e = added[i - m]
    BY <1>1, <1>4, <2>1, <2>2
  <2> QED BY <1>1, <1>3, <2>3
<1> QED BY <1>11, <1>12, <1>13

\* A removal, of one entry or of all: those left keep their order and move up at most.
LEMMA RemovalKeeps ==
    ASSUME PipelineInv, middleware' \in Seq(Entry), Touch("remove"), UNCHANGED nextSequence,
           NEW s, \A l \in DOMAIN middleware' : /\ s[l] \in DOMAIN middleware /\ s[l] >= l
                                                 /\ middleware'[l] = middleware[s[l]],
           \A k, l \in DOMAIN middleware' : k < l => s[k] < s[l]
    PROVE  PipelineInv' /\ Brought = {}
<1>1. /\ middleware \in Seq(Entry) /\ DOMAIN middleware \subseteq Nat /\ DOMAIN middleware' \subseteq Nat
      /\ run \in Runs
  BY LenProperties DEF PipelineInv
<1>2. ArraySound'
  <2>1. Ascending(middleware')
    BY DEF PipelineInv, ArraySound, Ascending
  <2>2. \A k \in DOMAIN middleware' : middleware'[k].seq < nextSequence
    BY DEF PipelineInv, ArraySound
  <2>3. ASSUME NEW k \in DOMAIN middleware', NEW l \in DOMAIN middleware',
               middleware'[k].seq = middleware'[l].seq
        PROVE  k = l
    <3>1. s[k] = s[l] /\ s[k] \in Nat /\ s[l] \in Nat
      BY <1>1, <2>3 DEF PipelineInv, ArraySound
    <3>2. ~(k < l) /\ ~(l < k)
      BY <3>1
    <3> QED BY <1>1, <3>2
  <2> QED BY <2>1, <2>2, <2>3 DEF ArraySound, Ascending
<1>3. /\ run' \in Runs /\ run'.phase = run.phase /\ run'.at = run.at /\ run'.pre = run.pre
      /\ run'.back = run.back /\ run'.rest = run.rest
      /\ "use" \in run.touched => "use" \in run'.touched
      /\ IF run.phase \in {"idle", "done", "failed"} THEN run' = run ELSE run'.touched # {}
  BY <1>1 DEF Touch, Runs
<1>4. PreSound'
  <2> SUFFICES ASSUME "use" \notin run'.touched
               PROVE  /\ Ascending(run.pre)
                      /\ run.phase = "pre" =>
                            \A k \in DOMAIN run.pre, l \in DOMAIN middleware' :
                                l > run.at => Before(run.pre[k], middleware'[l])
    BY <1>3 DEF PreSound, Ascending
  <2>1. /\ Ascending(run.pre)
        /\ run.phase = "pre" =>
              \A k \in DOMAIN run.pre, l \in DOMAIN middleware :
                  l > run.at => Before(run.pre[k], middleware[l])
    BY <1>3 DEF PipelineInv, PreSound
  <2>2. \A l \in DOMAIN middleware' : l > run.at => s[l] \in DOMAIN middleware /\ s[l] > run.at
    <3>1. run.at \in Nat
      BY <1>1 DEF Runs
    <3> QED BY <1>1, <3>1
  <2> QED BY <2>1, <2>2
<1>5. BackSound'
  BY <1>3 DEF PipelineInv, BackSound, Descending
<1>6. LayersMatch'
  BY <1>3 DEF PipelineInv, LayersMatch
<1>7. Brought = {}
  BY DEF Brought, ToSet
<1> QED BY <1>2, <1>3, <1>4, <1>5, <1>6, <1>7 DEF PipelineInv

LEMMA RemoveNamedKeeps ==
    ASSUME PipelineInv, NEW n \in Names, RemoveNamed(n)
    PROVE  PipelineInv' /\ Brought = {}
<1> DEFINE found == {k \in DOMAIN middleware : middleware[k].name = n}
           k == CHOOSE k \in found : \A l \in found : k <= l
           s == [l \in 1..(Len(middleware) - 1) |-> IF l < k THEN l ELSE l + 1]
<1>1. /\ found # {} /\ middleware' = RemoveAt(middleware, k) /\ Touch("remove") /\ UNCHANGED nextSequence
  BY DEF RemoveNamed
<1>2. /\ middleware \in Seq(Entry) /\ Len(middleware) \in Nat /\ DOMAIN middleware = 1..Len(middleware)
  BY LenProperties DEF PipelineInv
<1>3. k \in 1..Len(middleware)
  <2>1. found \in SUBSET Nat
    BY <1>2
  <2>2. \E x \in found : \A y \in found : x <= y
    BY <1>1, <2>1, LeastNatural
  <2>3. k \in found
    BY <2>2
  <2> QED BY <1>2, <2>3
<1> HIDE DEF found, k
<1>4. /\ middleware' \in Seq(Entry) /\ DOMAIN middleware' = 1..(Len(middleware) - 1)
      /\ \A l \in 1..(Len(middleware) - 1) : middleware'[l] = middleware[IF l < k THEN l ELSE l + 1]
  BY <1>1, <1>2, <1>3, RemoveAtShifts
<1>5. \A l \in DOMAIN middleware' : /\ s[l] \in DOMAIN middleware /\ s[l] >= l
                                    /\ middleware'[l] = middleware[s[l]]
  BY <1>2, <1>3, <1>4
<1>6. \A i, l \in DOMAIN middleware' : i < l => s[i] < s[l]
  BY <1>2, <1>3, <1>4
<1> HIDE DEF s
<1> QED BY <1>1, <1>4, <1>5, <1>6, RemovalKeeps

LEMMA ClearKeeps ==
    ASSUME PipelineInv, Clear
    PROVE  PipelineInv' /\ Brought = {}
<1>1. middleware' = <<>> /\ Touch("remove") /\ UNCHANGED nextSequence
  BY DEF Clear
<1>2. middleware' \in Seq(Entry) /\ DOMAIN middleware' = {}
  BY <1>1, EmptySeq
<1> DEFINE s == <<>>
<1>3. \A l \in DOMAIN middleware' : /\ s[l] \in DOMAIN middleware /\ s[l] >= l
                                    /\ middleware'[l] = middleware[s[l]]
  BY <1>2
<1>4. \A k, l \in DOMAIN middleware' : k < l => s[k] < s[l]
  BY <1>2
<1> HIDE DEF s
<1> QED BY <1>1, <1>2, <1>3, <1>4, RemovalKeeps

\* The pre hook of the next entry, or next after the last one.
LEMMA PreFromKeeps ==
    ASSUME PipelineInv, NEW r \in Runs, r.back = <<>>, r.rest = <<>>,
           "use" \notin r.touched =>
              /\ Ascending(r.pre)
              /\ \A k \in DOMAIN r.pre, l \in DOMAIN middleware :
                    l > r.at => Before(r.pre[k], middleware[l]),
           r.touched = {} => r.at <= Len(middleware) /\ r.pre = SubSeq(middleware, 1, r.at),
           run' = PreFrom(r, r.at + 1), UNCHANGED <<middleware, nextSequence>>
    PROVE  PipelineInv'
<1> DEFINE n == r.at + 1
           m == Len(r.pre)
           e == middleware[n]
<1>1. /\ middleware \in Seq(Entry) /\ Len(middleware) \in Nat /\ DOMAIN middleware = 1..Len(middleware)
      /\ middleware' = middleware /\ nextSequence' \in 0..MaxUses /\ ArraySound'
      /\ Ascending(middleware)
  BY LenProperties DEF PipelineInv, ArraySound, Ascending
<1>2. r.at \in Nat /\ r.pre \in Seq(Entry) /\ m \in Nat /\ DOMAIN r.pre = 1..m
  BY LenProperties DEF Runs
<1>3. ASSUME run'.back = <<>>, run'.rest = <<>>, run'.phase \notin {"done", "failed"} PROVE BackSound'
  <2>1. <<>> \o <<>> = <<>> /\ DOMAIN <<>> = {}
    BY EmptySeq, ConcatEmptySeq
  <2> QED BY <1>3, <2>1 DEF BackSound, Descending
<1>4. CASE n <= Len(middleware)
  <2>1. n \in 1..Len(middleware) /\ n \in DOMAIN middleware /\ e \in Entry /\ n \in Nat /\ n > r.at
    BY <1>1, <1>2, <1>4
  <2>2. run' = [r EXCEPT !.phase = "pre", !.at = n, !.pre = Append(@, e)]
    BY <1>4 DEF PreFrom
  <2>3. r.touched = {} => Append(r.pre, e) = SubSeq(middleware, 1, n)
    <3> SUFFICES ASSUME r.touched = {} PROVE Append(r.pre, e) = SubSeq(middleware, 1, n)
      OBVIOUS
    <3>1. 1 \in 1..Len(middleware) /\ n \in 1..Len(middleware) /\ n - 1 = r.at
      BY <1>1, <1>2, <1>4
    <3>2. SubSeq(middleware, 1, n) = SubSeq(middleware, 1, n - 1) \o <<e>>
      BY <1>1, <3>1, SubSeqRecursiveSecond
    <3>3. Append(r.pre, e) = r.pre \o <<e>>
      BY <1>2, <2>1, AppendIsConcat
    <3> QED BY <3>1, <3>2, <3>3
  <2>4. \A l \in DOMAIN middleware : l > n => l > r.at /\ Before(e, middleware[l])
    BY <1>1, <1>2, <2>1 DEF Ascending
  <2> HIDE DEF e, n
  <2>5. /\ Append(r.pre, e) \in Seq(Entry) /\ DOMAIN Append(r.pre, e) = 1..(m + 1)
        /\ Append(r.pre, e)[m + 1] = e /\ \A k \in 1..m : Append(r.pre, e)[k] = r.pre[k]
    <3>1. Append(r.pre, e) \in Seq(Entry) /\ Len(Append(r.pre, e)) = m + 1
      BY <1>2, <2>1, AppendProperties
    <3>2. DOMAIN Append(r.pre, e) = 1..(m + 1)
      BY <3>1, LenProperties
    <3> QED BY <1>2, <2>1, <3>1, <3>2, AppendProperties
  <2>6. /\ run' \in Runs /\ run'.phase = "pre" /\ run'.at = n /\ run'.pre = Append(r.pre, e)
        /\ run'.back = <<>> /\ run'.rest = <<>> /\ run'.touched = r.touched
    BY <2>1, <2>2, <2>5 DEF Runs, Phases
  <2>7. PreSound'
    <3> SUFFICES ASSUME "use" \notin r.touched
                 PROVE  /\ Ascending(run'.pre)
                        /\ \A k \in DOMAIN run'.pre, l \in DOMAIN middleware :
                              l > n => Before(run'.pre[k], middleware[l])
      BY <1>1, <2>6 DEF PreSound, Ascending
    <3>1. \A k \in 1..(m + 1) : k \in Nat /\ (k \in 1..m \/ k = m + 1)
      BY <1>2
    <3>2. \A k, l \in 1..(m + 1) : k < l => k \in 1..m /\ (l \in 1..m \/ l = m + 1)
      BY <1>2
    <3>3. \A k \in 1..m : Before(r.pre[k], e)
      BY <1>2, <2>1 DEF e
    <3>4. \A k, l \in 1..m : k < l => Before(r.pre[k], r.pre[l])
      BY <1>2 DEF Ascending
    <3>5. \A k, l \in 1..(m + 1) : k < l => Before(Append(r.pre, e)[k], Append(r.pre, e)[l])
      BY <2>5, <3>2, <3>3, <3>4
    <3>6. ASSUME NEW k \in 1..(m + 1), NEW l \in DOMAIN middleware, l > n
          PROVE  Before(Append(r.pre, e)[k], middleware[l])
      <4>1. CASE k = m + 1
        BY <2>4, <2>5, <3>6, <4>1
      <4>2. CASE k \in 1..m
        BY <1>2, <2>4, <2>5, <3>6, <4>2
      <4> QED BY <3>1, <4>1, <4>2
    <3> QED BY <2>5, <2>6, <3>5, <3>6 DEF Ascending
  <2>8. BackSound'
    BY <1>3, <2>6
  <2>9. LayersMatch'
    BY <1>1, <1>4, <2>3, <2>6 DEF LayersMatch
  <2> QED BY <1>1, <2>6, <2>7, <2>8, <2>9 DEF PipelineInv
<1>5. CASE ~(n <= Len(middleware))
  <2>1. run' = [r EXCEPT !.phase = "next", !.at = 0]
    BY <1>5 DEF PreFrom
  <2>2. /\ run' \in Runs /\ run'.phase = "next" /\ run'.pre = r.pre
        /\ run'.back = <<>> /\ run'.rest = <<>> /\ run'.touched = r.touched
    <3>1. "next" \in Phases /\ 0 \in Nat
      BY DEF Phases
    <3>2. [r EXCEPT !.phase = "next"] \in Runs
      BY <3>1 DEF Runs
    <3> QED BY <2>1, <3>1, <3>2 DEF Runs
  <2>3. PreSound'
    BY <2>2 DEF PreSound, Ascending
  <2>4. BackSound'
    BY <1>3, <2>2
  <2>5. LayersMatch'
    <3> SUFFICES ASSUME r.touched = {} PROVE r.pre = middleware
      BY <1>1, <2>2 DEF LayersMatch
    <3>1. r.at = Len(middleware)
      BY <1>1, <1>2, <1>5
    <3> QED BY <1>1, <3>1, SubSeqFull
  <2> QED BY <1>1, <2>2, <2>3, <2>4, <2>5 DEF PipelineInv
<1> QED BY <1>4, <1>5

\* The hook of the next entry of a reversed copy, or the end after the last one.
LEMMA BackKeeps ==
    ASSUME PipelineInv, NEW r \in Runs, NEW copy \in Seq(Entry), Descending(r.back \o copy),
           NEW phase \in {"post", "error"}, NEW end,
           phase = "post" => end = "done", phase = "error" => end = "failed",
           "use" \notin r.touched => Ascending(r.pre),
           phase = "post" /\ r.touched = {} => r.back \o copy = Reverse(r.pre),
           run' = Back(r, phase, copy, end), UNCHANGED <<middleware, nextSequence>>
    PROVE  PipelineInv'
<1>1. /\ middleware' = middleware /\ middleware' \in Seq(Entry) /\ nextSequence' \in 0..MaxUses /\ ArraySound'
  BY DEF PipelineInv, ArraySound, Ascending
<1>2. r.back \in Seq(Entry) /\ r.back \o <<>> = r.back
  BY DescendingParts DEF Runs
<1>3. /\ run' \in Runs /\ run'.pre = r.pre /\ run'.touched = r.touched
      /\ run'.phase \in {phase, end} /\ run'.back \o run'.rest = r.back \o copy
      /\ run'.phase = end => run'.rest = <<>>
  <2>1. CASE copy = <<>>
    <3>1. run' = [r EXCEPT !.phase = end, !.rest = <<>>]
      BY <2>1 DEF Back
    <3>2. <<>> \in Seq(Entry) /\ end \in Phases
      BY EmptySeq DEF Phases
    <3> QED BY <1>2, <2>1, <3>1, <3>2 DEF Runs
  <2>2. CASE copy # <<>>
    <3>1. run' = [r EXCEPT !.phase = phase, !.rest = Tail(copy), !.back = Append(@, Head(copy))]
      BY <2>2 DEF Back
    <3>2. /\ Append(r.back, Head(copy)) \in Seq(Entry) /\ Tail(copy) \in Seq(Entry)
          /\ Append(r.back, Head(copy)) \o Tail(copy) = r.back \o copy
      BY <1>2, <2>2, DescendingParts
    <3>3. phase \in Phases /\ phase # end
      BY DEF Phases
    <3> DEFINE x == Append(r.back, Head(copy))
               y == Tail(copy)
    <3>4. x \in Seq(Entry) /\ y \in Seq(Entry) /\ run' = [r EXCEPT !.phase = phase, !.rest = y, !.back = x]
      BY <3>1, <3>2
    <3> HIDE DEF x, y
    <3>5. /\ run' \in Runs /\ run'.pre = r.pre /\ run'.touched = r.touched
          /\ run'.phase = phase /\ run'.rest = y /\ run'.back = x
      BY <3>3, <3>4 DEF Runs
    <3> QED BY <3>2, <3>3, <3>5 DEF x, y
  <2> QED BY <2>1, <2>2
<1>4. run'.phase \in {"post", "done", "error", "failed"} /\ (run'.phase \in {"done", "failed"} => run'.phase = end)
      /\ (run'.phase \in {"post", "done"} => phase = "post")
  BY <1>3
<1>5. PreSound'
  BY <1>3, <1>4 DEF PreSound, Ascending
<1>6. BackSound'
  BY <1>3, <1>4 DEF BackSound, Descending
<1>7. LayersMatch'
  BY <1>3, <1>4 DEF LayersMatch
<1> QED BY <1>1, <1>3, <1>4, <1>5, <1>6, <1>7 DEF PipelineInv

LEMMA ExecuteKeeps ==
    ASSUME PipelineInv, Execute
    PROVE  PipelineInv'
<1>1. <<>> \in Seq(Entry) /\ DOMAIN <<>> = {}
  BY EmptySeq
<1>2. NoRun \in Runs
  BY <1>1 DEF NoRun, Runs, Phases
<1>3. Ascending(<<>>)
  BY <1>1 DEF Ascending
<1>4. SubSeq(middleware, 1, 0) = <<>> /\ 0 <= Len(middleware)
  <2>1. Len(middleware) \in Nat
    BY LenProperties DEF PipelineInv
  <2> QED BY <2>1, SubSeqEmpty
<1>5. NoRun.at + 1 = 1 /\ NoRun.at = 0 /\ NoRun.pre = <<>> /\ NoRun.back = <<>> /\ NoRun.rest = <<>>
  BY DEF NoRun
<1>6. run' = PreFrom(NoRun, NoRun.at + 1) /\ UNCHANGED <<middleware, nextSequence>>
  BY <1>5 DEF Execute
<1> QED BY <1>1, <1>2, <1>3, <1>4, <1>5, <1>6, PreFromKeeps

LEMMA SettlesKeeps ==
    ASSUME PipelineInv, NEW ok \in BOOLEAN, RunSettles(ok)
    PROVE  PipelineInv'
<1>1. /\ middleware \in Seq(Entry) /\ run \in Runs /\ run.phase \in {"pre", "next", "post", "error"}
      /\ UNCHANGED <<middleware, nextSequence>>
      /\ run.back \in Seq(Entry) /\ run.rest \in Seq(Entry)
  BY DEF PipelineInv, RunSettles, Settles, Runs
<1>2. /\ Descending(run.back \o run.rest) /\ Ascending(middleware)
      /\ "use" \notin run.touched => Ascending(run.pre)
      /\ run.phase \in {"pre", "next"} => run.back = <<>> /\ run.rest = <<>>
  BY DEF PipelineInv, BackSound, PreSound, ArraySound
<1>3. /\ Reverse(middleware) \in Seq(Entry) /\ Descending(Reverse(middleware))
      /\ <<>> \o Reverse(middleware) = Reverse(middleware)
  BY <1>1, <1>2, ReverseDescends, ConcatEmptySeq
<1>4. CASE ~ok /\ run.phase \in {"pre", "next", "post"}
  <2> DEFINE r == [run EXCEPT !.at = 0, !.back = <<>>]
  <2>1. run' = Back(r, "error", Reverse(middleware), "failed")
    BY <1>4 DEF RunSettles, Settles, ToError
  <2>2. <<>> \in Seq(Entry) /\ 0 \in Nat
    BY EmptySeq
  <2>3. r \in Runs /\ r.back = <<>> /\ r.pre = run.pre /\ r.touched = run.touched
    BY <1>1, <2>2 DEF Runs
  <2> HIDE DEF r
  <2>4. Descending(r.back \o Reverse(middleware))
    BY <1>3, <2>3
  <2> QED BY <1>1, <1>2, <1>3, <2>1, <2>3, <2>4, BackKeeps
<1>5. CASE ~ok /\ run.phase = "error"
  <2>1. run' = [run EXCEPT !.phase = "failed", !.rest = <<>>]
    BY <1>5 DEF RunSettles, Settles
  <2>2. <<>> \in Seq(Entry) /\ "failed" \in Phases
    BY EmptySeq DEF Phases
  <2>3. /\ run' \in Runs /\ run'.phase = "failed" /\ run'.rest = <<>> /\ run'.back = run.back
        /\ run'.pre = run.pre /\ run'.touched = run.touched
    BY <1>1, <2>1, <2>2 DEF Runs
  <2>4. run.back \o <<>> = run.back /\ Descending(run.back)
    BY <1>1, <1>2, DescendingParts
  <2>5. BackSound'
    BY <2>3, <2>4 DEF BackSound, Descending
  <2>6. PreSound' /\ LayersMatch'
    BY <1>2, <2>3 DEF PreSound, LayersMatch, Ascending
  <2>7. middleware' \in Seq(Entry) /\ nextSequence' \in 0..MaxUses /\ ArraySound'
    BY <1>1 DEF PipelineInv, ArraySound, Ascending
  <2> QED BY <2>3, <2>5, <2>6, <2>7 DEF PipelineInv
<1>6. CASE ok /\ run.phase = "pre"
  <2>1. run' = PreFrom(run, run.at + 1)
    BY <1>6 DEF RunSettles, Settles
  <2>2. "use" \notin run.touched =>
           /\ Ascending(run.pre)
           /\ \A k \in DOMAIN run.pre, l \in DOMAIN middleware :
                 l > run.at => Before(run.pre[k], middleware[l])
    BY <1>6 DEF PipelineInv, PreSound
  <2>3. run.touched = {} => run.at <= Len(middleware) /\ run.pre = SubSeq(middleware, 1, run.at)
    BY <1>6 DEF PipelineInv, LayersMatch
  <2> QED BY <1>1, <1>2, <1>6, <2>1, <2>2, <2>3, PreFromKeeps
<1>7. CASE ok /\ run.phase = "next"
  <2>1. run' = Back(run, "post", Reverse(middleware), "done")
    BY <1>7 DEF RunSettles, Settles
  <2>2. run.back \o Reverse(middleware) = Reverse(middleware)
    BY <1>2, <1>3, <1>7
  <2>3. run.touched = {} => run.pre = middleware
    BY <1>7 DEF PipelineInv, LayersMatch
  <2> QED BY <1>1, <1>2, <1>3, <2>1, <2>2, <2>3, BackKeeps
<1>8. CASE ok /\ run.phase = "post"
  <2>1. run' = Back(run, "post", run.rest, "done")
    BY <1>8 DEF RunSettles, Settles
  <2>2. run.touched = {} => run.back \o run.rest = Reverse(run.pre)
    BY <1>8 DEF PipelineInv, LayersMatch
  <2> QED BY <1>1, <1>2, <2>1, <2>2, BackKeeps
<1>9. CASE ok /\ run.phase = "error"
  <2>1. run' = Back(run, "error", run.rest, "failed")
    BY <1>9 DEF RunSettles, Settles
  <2> QED BY <1>1, <1>2, <2>1, BackKeeps
<1> QED BY <1>1, <1>4, <1>5, <1>6, <1>7, <1>8, <1>9

-------------------------------------------------------------------------------
(* The client.                                                               *)

\* What a step hands of the manager's plugins to the client.
HandsOver ==
    /\ \A e \in Brought : e.name \in Plugins =>
          \E i \in DOMAIN ids : ids[i] = e.name /\ (i \in failed => i \in ToSet(snapshot))
    /\ ToSet(snapshot') \cap failed \subseteq ToSet(snapshot)

\* getActive gives instances of the manager, none of which has failed.
LEMMA ActiveInstances ==
    ASSUME ManagerInv
    PROVE  /\ GetActive(Manager) \in Seq(DOMAIN ids)
           /\ \A k \in DOMAIN GetActive(Manager) :
                 GetActive(Manager)[k] \in DOMAIN ids /\ GetActive(Manager)[k] \notin failed
<1> DEFINE active == {i \in plugins : state[i] = "Active"}
           R == {p \in active \X active : p[1] < p[2]}
           s == CHOOSE s \in [1..Cardinality(active) -> active] : \A k, l \in DOMAIN s : k < l => s[k] < s[l]
<1>1. Len(ids) \in Nat /\ DOMAIN ids = 1..Len(ids) /\ active \subseteq 1..Len(ids)
  BY LenProperties DEF ManagerInv, PMTypeOK
<1>2. IsFiniteSet(active)
  <2>1. IsFiniteSet(1..Len(ids))
    BY <1>1, FS_Interval
  <2> HIDE DEF active
  <2> QED BY <1>1, <2>1, FS_Subset
<1>3. Cardinality(active) \in Nat
  BY <1>2, FS_CardinalityType
<1>4. active \subseteq Nat
  BY <1>1
<1>5. GetActive(Manager) = s
  BY DEF GetActive, Manager
<1>12. \A i \in active : i \notin failed
  BY DEF ManagerInv, FailedAreOut
<1> HIDE DEF active
<1>6. \A a, b \in active : <<a, b>> \in R <=> a < b
  OBVIOUS
<1> HIDE DEF R
<1>7. /\ \A a \in active : <<a, a>> \notin R
      /\ \A a, b, c \in active : <<a, b>> \in R /\ <<b, c>> \in R => <<a, c>> \in R
      /\ \A a, b \in active : a # b => <<a, b>> \in R \/ <<b, a>> \in R
  BY <1>4, <1>6
<1>8. \E t \in [1..Cardinality(active) -> active] :
         \A k, l \in 1..Cardinality(active) : k < l => <<t[k], t[l]>> \in R
  BY <1>2, <1>7, SortExists
<1>9. \E t \in [1..Cardinality(active) -> active] : \A k, l \in DOMAIN t : k < l => t[k] < t[l]
  <2>1. PICK t \in [1..Cardinality(active) -> active] :
            \A k, l \in 1..Cardinality(active) : k < l => <<t[k], t[l]>> \in R
    BY <1>8
  <2>2. \A k, l \in DOMAIN t : k < l => t[k] < t[l]
    BY <1>6, <2>1
  <2> QED BY <2>2
<1>10. s \in [1..Cardinality(active) -> active]
  BY <1>9
<1> HIDE DEF s
<1>11. s \in Seq(active)
  BY <1>3, <1>10, FunctionIsSeq
<1>13. s \in Seq(DOMAIN ids)
  BY <1>1, <1>11, WiderSeq
<1> QED BY <1>1, <1>5, <1>10, <1>12, <1>13

-------------------------------------------------------------------------------
(* The invariant is inductive.                                               *)

LEMMA InitHolds == Init => PluginsInv
<1> SUFFICES ASSUME Init PROVE PluginsInv
  OBVIOUS
<1> USE DEF Init, PMInit, MPInit
<1>1. /\ \A S : <<>> \in Seq(S)
      /\ Len(<<>>) = 0 /\ DOMAIN <<>> = {} /\ <<>> \o <<>> = <<>> /\ 1..0 = {}
      /\ \A S : <<>> \in [{} -> S]
  BY EmptySeq, ConcatEmptySeq
<1>2. MaxInstances \in Nat /\ MaxUses \in Nat
  BY PluginAssumption, PipelineAssumption
<1>3. NoCall \in [frames : Seq(Frame), pc : Hooks \cup {"returned", "threw"}]
  BY <1>1 DEF NoCall
<1>4. PMTypeOK
  BY <1>1, <1>2, <1>3 DEF PMTypeOK
<1>5. CallsSound
  BY <1>1 DEF CallsSound, NoCall, Hooks, SwitchHooks
<1>6. HooksMatch /\ FailedAreOut
  BY <1>1 DEF HooksMatch, FailedAreOut
<1>7. run \in Runs
  BY <1>1 DEF NoRun, Runs, Phases
<1>8. ArraySound
  BY <1>1 DEF ArraySound, Ascending
<1>9. PreSound /\ BackSound /\ LayersMatch
  BY <1>1 DEF NoRun, PreSound, BackSound, LayersMatch, Ascending, Descending
<1>10. PipelineInv
  BY <1>1, <1>2, <1>7, <1>8, <1>9 DEF PipelineInv
<1>11. ClientInv
  BY <1>1 DEF ClientInv, NoRun
<1> QED BY <1>4, <1>5, <1>6, <1>10, <1>11 DEF PluginsInv, ManagerInv

LEMMA ManagerStays ==
    ASSUME ManagerInv, UNCHANGED pmVars
    PROVE  ManagerInv' /\ HooksInOrder /\ ids' = ids
<1> USE DEF pmVars
<1>1. PMTypeOK' /\ CallsSound' /\ HooksMatch' /\ FailedAreOut'
  BY DEF ManagerInv, PMTypeOK, CallsSound, HooksMatch, FailedAreOut
<1>2. HooksInOrder
  BY DEF HooksInOrder, StartsHook
<1> QED BY <1>1, <1>2 DEF ManagerInv

LEMMA PipelineStays ==
    ASSUME PipelineInv, UNCHANGED mpVars
    PROVE  PipelineInv'
BY DEF mpVars, PipelineInv, ArraySound, PreSound, BackSound, LayersMatch, Ascending, Descending

\* The instances the client goes through are still instances when there are more.
LEMMA SnapshotStays ==
    ASSUME ManagerInv, ManagerInv', Len(ids') >= Len(ids), NEW s \in Seq(DOMAIN ids)
    PROVE  s \in Seq(DOMAIN ids')
<1>1. ids \in Seq(Plugins) /\ ids' \in Seq(Plugins)
  BY DEF ManagerInv, PMTypeOK
<1>2. /\ Len(ids) \in Nat /\ Len(ids') \in Nat
      /\ DOMAIN ids = 1..Len(ids) /\ DOMAIN ids' = 1..Len(ids')
  BY <1>1, LenProperties
<1>3. DOMAIN ids \subseteq DOMAIN ids'
  BY <1>2
<1> QED BY <1>3, WiderSeq

LEMMA ManagerStep ==
    ASSUME PluginsInv, ManagerNext
    PROVE  PluginsInv' /\ HooksInOrder /\ HandsOver
<1>1. Callable \subseteq Callers
  BY DEF Callable
<1>2. ManagerInv /\ PipelineInv /\ ClientInv /\ Len(ids) \in Nat
  <2>1. ids \in Seq(Plugins)
    BY DEF PluginsInv, ManagerInv, PMTypeOK
  <2> QED BY <2>1, LenProperties DEF PluginsInv
<1>3. ManagerInv' /\ HooksInOrder /\ (Len(ids') = Len(ids) \/ Len(ids') = Len(ids) + 1)
  <2>1. ASSUME NEW c \in Callable, NEW p \in Plugins,
               \/ Register(c, p) \/ RegisterThrows(c, p) \/ Install(c, p) \/ Enable(c, p)
               \/ Disable(c, p) \/ Uninstall(c, p) \/ Unregister(c, p)
        PROVE  ManagerInv' /\ HooksInOrder /\ (Len(ids') = Len(ids) \/ Len(ids') = Len(ids) + 1)
    <3>1. c \in Callers
      BY <1>1
    <3>2. CASE Register(c, p) \/ RegisterThrows(c, p)
      BY <1>2, <3>1, <3>2, RegisterKeeps
    <3>3. CASE Install(c, p) \/ Enable(c, p) \/ Disable(c, p) \/ Uninstall(c, p) \/ Unregister(c, p)
      BY <1>2, <3>1, <3>3, CallsKeep
    <3> QED BY <2>1, <3>2, <3>3
  <2>2. ASSUME NEW c \in Callable, InstallAll(c) \/ EnableAll(c) \/ Resume(c)
        PROVE  ManagerInv' /\ HooksInOrder /\ Len(ids') = Len(ids)
    <3>1. c \in Callers
      BY <1>1
    <3>2. CASE InstallAll(c) \/ EnableAll(c)
      BY <1>2, <3>1, <3>2, CallsKeep
    <3>3. CASE Resume(c)
      BY <1>2, <3>1, <3>3, TurnsKeep
    <3> QED BY <2>2, <3>2, <3>3
  <2>3. ASSUME NEW c \in Callable, NEW outcome \in Outcomes, HookSettles(c, outcome)
        PROVE  ManagerInv' /\ HooksInOrder /\ Len(ids') = Len(ids)
    <3>1. c \in Callers
      BY <1>1
    <3> QED BY <1>2, <2>3, <3>1, TurnsKeep
  <2>4. ASSUME NEW i \in registering, OnRegisterSettles(i)
        PROVE  ManagerInv' /\ HooksInOrder /\ Len(ids') = Len(ids)
    <3>1. i \in DOMAIN ids
      BY <1>2 DEF ManagerInv, PMTypeOK
    <3>2. /\ registering' \subseteq registering
          /\ \/ UNCHANGED <<state, failed>>
             \/ state' = [state EXCEPT ![i] = "Error"] /\ failed' = failed \cup {i}
          /\ UNCHANGED <<ids, plugins, calls, lastHook>>
      BY <2>4 DEF OnRegisterSettles
    <3> QED BY <1>2, <3>1, <3>2, ErrorKeeps
  <2> QED BY <2>1, <2>2, <2>3, <2>4 DEF ManagerNext
<1>4. UNCHANGED mpVars /\ UNCHANGED clVars
  BY DEF ManagerNext
<1>5. PipelineInv'
  BY <1>2, <1>4, PipelineStays
<1>6. ClientInv'
  <2>1. snapshot \in Seq(DOMAIN ids')
    <3>1. snapshot \in Seq(DOMAIN ids) /\ Len(ids') >= Len(ids)
      BY <1>2, <1>3 DEF ClientInv
    <3> QED BY <1>2, <1>3, <3>1, SnapshotStays
  <2> QED BY <1>2, <1>4, <2>1 DEF ClientInv, clVars, mpVars
<1>7. HandsOver
  BY <1>4 DEF HandsOver, Brought, clVars, mpVars
<1> QED BY <1>3, <1>5, <1>6, <1>7 DEF PluginsInv

LEMMA PipelineStep ==
    ASSUME PluginsInv, PipelineNext
    PROVE  PluginsInv' /\ HooksInOrder /\ HandsOver
<1>1. ManagerInv /\ PipelineInv /\ ClientInv
  BY DEF PluginsInv
<1>2. UNCHANGED pmVars /\ UNCHANGED clVars
  BY DEF PipelineNext
<1>3. ManagerInv' /\ HooksInOrder /\ ids' = ids
  BY <1>1, <1>2, ManagerStays
<1>4. client \in {"applying", "applied"}
  <2>1. run.phase # "idle" => client \in {"applying", "applied"}
    BY <1>1 DEF ClientInv
  <2> QED BY <2>1 DEF PipelineNext
<1>5. PipelineInv' /\ \A e \in Brought : e.name \notin Plugins
  <2>1. CASE Execute
    <3>1. Brought = {}
      BY <2>1 DEF Execute, Brought
    <3> QED BY <1>1, <2>1, <3>1, ExecuteKeeps
  <2>2. ASSUME NEW n \in Names \ Plugins, UseAll(<<n>>)
        PROVE  PipelineInv' /\ \A e \in Brought : e.name \notin Plugins
    <3>1. <<n>> \in Seq(Names) /\ <<n>> # <<>> /\ \A k \in DOMAIN <<n>> : <<n>>[k] = n
      OBVIOUS
    <3> QED BY <1>1, <2>2, <3>1, UseKeeps
  <2>3. ASSUME NEW n \in Names, RemoveNamed(n) PROVE PipelineInv' /\ Brought = {}
    BY <1>1, <2>3, RemoveNamedKeeps
  <2>4. CASE Clear
    BY <1>1, <2>4, ClearKeeps
  <2>5. ASSUME NEW ok \in BOOLEAN, RunSettles(ok) PROVE PipelineInv' /\ Brought = {}
    <3>1. Brought = {}
      BY <2>5 DEF RunSettles, Settles, Brought
    <3> QED BY <1>1, <2>5, <3>1, SettlesKeeps
  <2> QED BY <2>1, <2>2, <2>3, <2>4, <2>5 DEF PipelineNext
<1>6. ClientInv'
  BY <1>1, <1>2, <1>3, <1>4 DEF ClientInv, clVars
<1>7. HandsOver
  BY <1>2, <1>5 DEF HandsOver, clVars
<1> QED BY <1>3, <1>5, <1>6, <1>7 DEF PluginsInv

LEMMA ConstructStep ==
    ASSUME PluginsInv, Construct
    PROVE  PluginsInv' /\ HooksInOrder /\ HandsOver
<1> DEFINE active == GetActive(Manager)
           names == [k \in DOMAIN active |-> ids[active[k]]]
<1>1. ManagerInv /\ PipelineInv /\ ClientInv
  BY DEF PluginsInv
<1>2. UNCHANGED pmVars /\ client = "none" /\ client' = "constructed"
      /\ UNCHANGED <<withClient, snapshot>> /\ UseAll(names)
  BY DEF Construct
<1>3. ManagerInv' /\ HooksInOrder /\ ids' = ids
  BY <1>1, <1>2, ManagerStays
<1>4. /\ active \in Seq(DOMAIN ids)
      /\ \A k \in DOMAIN active : active[k] \in DOMAIN ids /\ active[k] \notin failed
  BY <1>1, ActiveInstances
<1>5. ids \in Seq(Plugins) /\ \A i \in DOMAIN ids : ids[i] \in Names
  <2>1. ids \in Seq(Plugins)
    BY <1>1 DEF ManagerInv, PMTypeOK
  <2>2. \A i \in DOMAIN ids : ids[i] \in Plugins
    BY <2>1, LenProperties
  <2> QED BY <2>1, <2>2, ClientAssumption
<1> HIDE DEF active
<1>6. names \in Seq(Names)
  <2>1. Len(active) \in Nat /\ DOMAIN active = 1..Len(active) /\ \A k \in DOMAIN active : active[k] \in DOMAIN ids
    BY <1>4, LenProperties
  <2>2. names \in [1..Len(active) -> Names]
    BY <1>5, <2>1
  <2> HIDE DEF names
  <2> QED BY <2>1, <2>2, FunctionIsSeq
<1>11. DOMAIN names = DOMAIN active /\ \A k \in DOMAIN active : names[k] = ids[active[k]]
  OBVIOUS
<1> HIDE DEF names
<1>7. run.phase = "idle"
  BY <1>1, <1>2 DEF ClientInv
<1>8. PipelineInv' /\ \A e \in Brought : \E k \in DOMAIN names : e.name = names[k]
  BY <1>1, <1>2, <1>6, <1>7, UseKeeps
<1>9. run' = run
  BY <1>1, <1>2, <1>7 DEF UseAll, Touch, PipelineInv, Runs
<1>10. ClientInv'
  BY <1>1, <1>2, <1>3, <1>7, <1>9 DEF ClientInv
<1>12. HandsOver
  BY <1>2, <1>4, <1>8, <1>11 DEF HandsOver
<1> QED BY <1>3, <1>8, <1>10, <1>12 DEF PluginsInv

LEMMA ApplyStep ==
    ASSUME PluginsInv, ApplyToClient
    PROVE  PluginsInv' /\ HooksInOrder /\ HandsOver
<1>1. ManagerInv /\ PipelineInv /\ ClientInv
  BY DEF PluginsInv
<1>2. /\ UNCHANGED pmVars /\ UNCHANGED mpVars /\ UNCHANGED withClient
      /\ snapshot' = GetActive(Manager)
      /\ client' = IF snapshot' = <<>> THEN "applied" ELSE "applying"
  BY DEF ApplyToClient
<1>3. ManagerInv' /\ HooksInOrder /\ ids' = ids
  BY <1>1, <1>2, ManagerStays
<1>4. PipelineInv'
  BY <1>1, <1>2, PipelineStays
<1>5. snapshot' \in Seq(DOMAIN ids) /\ \A k \in DOMAIN snapshot' : snapshot'[k] \notin failed
  BY <1>1, <1>2, ActiveInstances
<1>6. ClientInv'
  BY <1>1, <1>2, <1>3, <1>5 DEF ClientInv
<1>7. HandsOver
  BY <1>2, <1>5 DEF HandsOver, Brought, mpVars, ToSet
<1> QED BY <1>3, <1>4, <1>6, <1>7 DEF PluginsInv

LEMMA AfterClientInitStep ==
    ASSUME PluginsInv, NEW outcome \in Outcomes, AfterClientInit(outcome)
    PROVE  PluginsInv' /\ HooksInOrder /\ HandsOver
<1> DEFINE i == Head(snapshot)
<1>1. ManagerInv /\ PipelineInv /\ ClientInv
  BY DEF PluginsInv
<1>2. /\ client = "applying" /\ UNCHANGED withClient
      /\ \/ UseAll(<<ids[i]>>) /\ snapshot' = Tail(snapshot)
         \/ UNCHANGED mpVars /\ snapshot' = <<>>
      /\ client' = IF snapshot' = <<>> THEN "applied" ELSE "applying"
      /\ UNCHANGED pmVars \/ SetPluginError(i)
  BY DEF AfterClientInit
<1>3. snapshot \in Seq(DOMAIN ids) /\ snapshot # <<>>
  BY <1>1, <1>2 DEF ClientInv
<1>4. /\ i \in DOMAIN ids /\ snapshot' \in Seq(DOMAIN ids)
      /\ i \in ToSet(snapshot) /\ ToSet(snapshot') \subseteq ToSet(snapshot)
  <2>1. /\ i \in DOMAIN ids /\ Tail(snapshot) \in Seq(DOMAIN ids)
        /\ i \in ToSet(snapshot) /\ ToSet(Tail(snapshot)) \subseteq ToSet(snapshot)
    BY <1>3, HeadTailProperties, LenProperties DEF ToSet
  <2>2. <<>> \in Seq(DOMAIN ids) /\ ToSet(<<>>) = {}
    BY EmptySeq DEF ToSet
  <2> QED BY <1>2, <2>1, <2>2
<1> HIDE DEF i
<1>5. ids[i] \in Names
  <2>1. ids \in Seq(Plugins)
    BY <1>1 DEF ManagerInv, PMTypeOK
  <2>2. ids[i] \in Plugins
    BY <1>4, <2>1, LenProperties
  <2> QED BY <2>2, ClientAssumption
<1>6. ManagerInv' /\ HooksInOrder /\ ids' = ids
  <2>1. CASE UNCHANGED pmVars
    BY <1>1, <2>1, ManagerStays
  <2>2. CASE SetPluginError(i)
    <3>1. /\ state' = [state EXCEPT ![i] = "Error"] /\ failed' = failed \cup {i}
          /\ UNCHANGED <<ids, plugins, calls, lastHook>> /\ registering' \subseteq registering
      BY <2>2 DEF SetPluginError
    <3> QED BY <1>1, <1>4, <3>1, ErrorKeeps
  <2> QED BY <1>2, <2>1, <2>2
<1>7. PipelineInv' /\ \A e \in Brought : e.name = ids[i]
  <2>1. PICK n \in Names : n = ids[i]
    BY <1>5
  <2>2. CASE UseAll(<<n>>)
    <3>1. <<n>> \in Seq(Names) /\ <<n>> # <<>> /\ \A k \in DOMAIN <<n>> : <<n>>[k] = n
      OBVIOUS
    <3> QED BY <1>1, <2>1, <2>2, <3>1, UseKeeps
  <2>3. CASE UNCHANGED mpVars
    <3>1. Brought = {}
      BY <2>3 DEF Brought, mpVars
    <3> QED BY <1>1, <2>3, <3>1, PipelineStays
  <2> QED BY <1>2, <2>1, <2>2, <2>3
<1>8. ClientInv'
  BY <1>1, <1>2, <1>4, <1>6 DEF ClientInv
<1>9. HandsOver
  BY <1>4, <1>7 DEF HandsOver
<1> QED BY <1>6, <1>7, <1>8, <1>9 DEF PluginsInv

LEMMA StepHolds == PluginsInv /\ [Next]_vars => PluginsInv' /\ HooksInOrder /\ HandsOver
<1> SUFFICES ASSUME PluginsInv, [Next]_vars PROVE PluginsInv' /\ HooksInOrder /\ HandsOver
  OBVIOUS
<1>1. CASE ManagerNext
  BY <1>1, ManagerStep
<1>2. CASE PipelineNext
  BY <1>2, PipelineStep
<1>3. CASE Construct
  BY <1>3, ConstructStep
<1>4. CASE ApplyToClient
  BY <1>4, ApplyStep
<1>5. ASSUME NEW outcome \in Outcomes, AfterClientInit(outcome)
      PROVE  PluginsInv' /\ HooksInOrder /\ HandsOver
  BY <1>5, AfterClientInitStep
<1>6. CASE UNCHANGED vars
  <2>1. UNCHANGED pmVars /\ UNCHANGED mpVars /\ UNCHANGED clVars
    BY <1>6 DEF vars
  <2>2. ManagerInv' /\ HooksInOrder /\ ids' = ids /\ PipelineInv'
    BY <2>1, ManagerStays, PipelineStays DEF PluginsInv
  <2>3. ClientInv'
    BY <2>1, <2>2 DEF PluginsInv, ClientInv, clVars, mpVars
  <2>4. HandsOver
    BY <2>1 DEF HandsOver, Brought, clVars, mpVars
  <2> QED BY <2>2, <2>3, <2>4 DEF PluginsInv
<1> QED BY <1>1, <1>2, <1>3, <1>4, <1>5, <1>6 DEF Next

LEMMA PluginsAreSound == Spec => []PluginsInv
<1>1. PluginsInv /\ [Next]_vars => PluginsInv'
  BY StepHolds
<1> QED BY InitHolds, <1>1, PTL DEF Spec

-------------------------------------------------------------------------------
(* The theorems.                                                             *)

\* Manager, pipeline and client stay in the states they are declared with; at
\* most one instance of an id is in the manager's map.
THEOREM TypeCorrect == Spec => []TypeOK
<1>1. PluginsInv => TypeOK
  <2> SUFFICES ASSUME PluginsInv PROVE TypeOK
    OBVIOUS
  <2>1. run \in Runs /\ middleware \in Seq(Entry) /\ nextSequence \in 0..MaxUses
    BY DEF PluginsInv, PipelineInv
  <2>2. MPTypeOK
    BY <2>1 DEF MPTypeOK, Runs
  <2> QED BY <2>2 DEF PluginsInv, ManagerInv, ClientInv, TypeOK
<1> QED BY <1>1, PluginsAreSound, PTL

\* A plugin pluginManager.ts has recorded as failed comes into service no more,
\* whatever calls were under way: none of its lifecycle hooks but onUninstall
\* starts, no client takes it up, and of a client's middleware only what
\* applyToClient had begun to apply before is still registered.
THEOREM FailedStayOut == Spec => FailedStaysOut
<1> DEFINE Out == /\ \A i \in failed : state'[i] \in {"Error", "Uninstalled"} /\ ~StartsHook(i)
                  /\ \A e \in ToSet(middleware') \ ToSet(middleware) : e.name \in Plugins =>
                        \E i \in DOMAIN ids :
                           ids[i] = e.name /\ (i \in failed => i \in ToSet(snapshot))
                  /\ ToSet(snapshot') \cap failed \subseteq ToSet(snapshot)
<1>1. PluginsInv /\ [Next]_vars => [Out]_vars
  <2> SUFFICES ASSUME PluginsInv, [Next]_vars PROVE Out
    OBVIOUS
  <2>1. PluginsInv' /\ HooksInOrder /\ HandsOver
    BY StepHolds
  <2>2. \A i \in failed : state'[i] \in {"Error", "Uninstalled"}
    BY <2>1 DEF HooksInOrder, PluginsInv, ManagerInv, FailedAreOut
  <2>3. \A i \in failed : i \in DOMAIN lastHook /\ state[i] \in {"Error", "Uninstalled"}
    BY DEF PluginsInv, ManagerInv, PMTypeOK, FailedAreOut
  <2>4. \A i \in failed : ~StartsHook(i)
    BY <2>1, <2>3 DEF HooksInOrder
  <2> QED BY <2>1, <2>2, <2>4 DEF HandsOver, Brought
<1> QED BY <1>1, PluginsAreSound, PTL DEF Spec, FailedStaysOut

\* The hooks of one plugin start in a sensible order, however calls of the
\* manager interleave between the hooks they await.
THEOREM HooksComeInOrder == Spec => HookOrder
<1> DEFINE Ordered == \A i \in DOMAIN lastHook : StartsHook(i) =>
                         <<lastHook[i], lastHook'[i]>> \in
                            {<<"none", "onInstall">>, <<"onInstall", "onEnable">>,
                             <<"onInstall", "onDisable">>, <<"onEnable", "onDisable">>,
                             <<"onDisable", "onEnable">>}
<1>1. PluginsInv /\ [Next]_vars => [Ordered]_pmVars
  BY StepHolds DEF HooksInOrder, HookPairs
<1> QED BY <1>1, PluginsAreSound, PTL DEF Spec, HookOrder

\* The hooks of the middleware of pipeline.ts wrap a call like the layers of an
\* onion, whatever is added and removed while they run.
THEOREM LayersInOrder == Spec => []OnionOrder
<1>1. PluginsInv => OnionOrder
  <2> SUFFICES ASSUME PluginsInv PROVE OnionOrder
    OBVIOUS
  <2>1. run \in Runs /\ PreSound /\ BackSound /\ LayersMatch
    BY DEF PluginsInv, PipelineInv
  <2>2. run.back \in Seq(Entry) /\ run.rest \in Seq(Entry)
    BY <2>1 DEF Runs
  <2>3. Ascending(Reverse(run.back))
    BY <2>1, <2>2, DescendingParts, ReverseDescends DEF BackSound
  <2>4. "use" \notin run.touched => Ascending(run.pre)
    BY <2>1 DEF PreSound
  <2>5. run.phase = "done" /\ run.touched = {} => run.back = Reverse(run.pre)
    <3>1. run.back \o <<>> = run.back
      BY <2>2, ConcatEmptySeq
    <3> QED BY <2>1, <3>1 DEF BackSound, LayersMatch
  <2> QED BY <2>3, <2>4, <2>5 DEF OnionOrder
<1> QED BY <1>1, PluginsAreSound, PTL
===============================================================================
