--------------------------- MODULE PluginDependencies ---------------------------
(***************************************************************************)
(* The registry of plugin manifests (src/plugin/registry.ts) and the       *)
(* searches over the dependencies they declare (src/plugin/validation.ts): *)
(* what a plugin needs, cycles, and the order installAll goes by.          *)
(*                                                                         *)
(* A manifest is the ids it depends on, in order.  That a dependency is    *)
(* optional changes none of this.  Sources and loaded marks are left out.  *)
(***************************************************************************)
EXTENDS Naturals, Sequences, SequencesExt, FiniteSets, FiniteSetsExt

CONSTANTS
    PluginIds,
    MaxDependencies     \* bound: dependencies of a manifest

ASSUME DependencyAssumption == IsFiniteSet(PluginIds) /\ MaxDependencies \in Nat

VARIABLES
    listed,         \* entries: the ids, in order of registration
    dependsOn,      \* and what their manifests depend on
    met             \* history: pairs of a listed id and a dependency that was listed with it

pdVars == <<listed, dependsOn, met>>

\* Any id may be named, registered or not, and the manifest's own.
DependencyLists == {d \in SeqOf(PluginIds, MaxDependencies) : IsInjective(d)}
Registered == ToSet(listed)
DependenciesOf(id) == IF id \in Registered THEN dependsOn[id] ELSE <<>>
Needs(a, b) == b \in ToSet(DependenciesOf(a))

PDInit ==
    /\ listed = <<>>
    /\ dependsOn = [id \in {} |-> <<>>]
    /\ met = {}

MetNow == {p \in Registered \X Registered : Needs(p[1], p[2])}

RegisterManifest(id, dependencies) ==
    /\ id \notin Registered
    /\ listed' = Append(listed, id)
    /\ dependsOn' = [i \in Registered \cup {id} |-> IF i = id THEN dependencies ELSE dependsOn[i]]
    /\ met' = met \cup MetNow'

UnregisterManifest(id) ==
    /\ id \in Registered
    /\ \A other \in Registered : ~Needs(other, id)
    /\ listed' = RemoveFirst(listed, id)
    /\ dependsOn' = [i \in Registered \ {id} |-> dependsOn[i]]
    /\ met' = {p \in met : p[1] # id}

PDNext ==
    \E id \in PluginIds :
        \/ UnregisterManifest(id)
        \/ \E dependencies \in DependencyLists : RegisterManifest(id, dependencies)

-------------------------------------------------------------------------------
\* The searches go depth first over the same ids in the same order.  path is where one
\* is, the ids whose call of visit (or resolve, or dfs) is under way; seen, those that
\* were ever called; sorted, the registered ones in the order their calls ended; and
\* cycles, what closed on the way, the order of which nobody asks for.
DepthStates == [path : Seq(PluginIds), seen : SUBSET PluginIds, sorted : Seq(PluginIds),
                cycles : SUBSET Seq(PluginIds)]

\* What the innermost call goes through, or the loop around all calls, and the places
\* of it that are left: whatever comes before the first id not seen is passed over.
Upcoming(s, roots) == IF s.path = <<>> THEN roots ELSE DependenciesOf(Last(s.path))
Unseen(s, roots) == {k \in DOMAIN Upcoming(s, roots) : Upcoming(s, roots)[k] \notin s.seen}

\* A dependency that is on the path closes a cycle.
CyclesClosed(path) ==
    {Append(SubSeq(path, k, Len(path)), path[k]) : k \in {j \in DOMAIN path : Needs(Last(path), path[j])}}

\* The call for an id, and the end of the innermost one.
CallEntered(s, id) ==
    LET path == Append(s.path, id)
    IN  [path |-> path, seen |-> s.seen \cup {id}, sorted |-> s.sorted, cycles |-> s.cycles \cup CyclesClosed(path)]
CallEnded(s) ==
    LET id == Last(s.path)
    IN  [path |-> Front(s.path), seen |-> s.seen, cycles |-> s.cycles,
         sorted |-> IF id \in Registered THEN Append(s.sorted, id) ELSE s.sorted]

DepthFirst(roots) ==
    LET search[s \in DepthStates] ==
            IF Unseen(s, roots) # {} THEN search[CallEntered(s, Upcoming(s, roots)[Min(Unseen(s, roots))])]
            ELSE IF s.path # <<>> THEN search[CallEnded(s)]
            ELSE s
    IN  search[[path |-> <<>>, seen |-> {}, sorted |-> <<>>, cycles |-> {}]]

ResolveDependencies(id) == DepthFirst(<<id>>).sorted
DetectCircularDependencies == DepthFirst(listed).cycles
TopologicalOrder == DepthFirst(listed).sorted

\* Mutant: the test for cycles is the wrong way round.
DependencySortedInverted == IF DetectCircularDependencies = {} THEN listed ELSE TopologicalOrder

\* getDependencySorted: topologicalSort throws when there is a cycle.
DependencySorted == IF DetectCircularDependencies # {} THEN listed ELSE TopologicalOrder

-------------------------------------------------------------------------------
PDTypeOK ==
    /\ listed \in Seq(PluginIds) /\ IsInjective(listed)
    /\ dependsOn \in [Registered -> DependencyLists]
    /\ met \subseteq PluginIds \X PluginIds

\* What the searches are to find: the registered ids no set closed under
\* dependencies can do without, and whether the ids can be ranked.
Needed(id) ==
    {b \in Registered :
        \A S \in SUBSET PluginIds :
            id \in S /\ (\A a \in S : ToSet(DependenciesOf(a)) \subseteq S) => b \in S}
Acyclic ==
    \E rank \in [PluginIds -> 1..Cardinality(PluginIds)] :
        \A a, b \in PluginIds : Needs(a, b) => rank[b] < rank[a]
DependenciesFirst(sorted) ==
    \A i, j \in DOMAIN sorted : Needs(sorted[i], sorted[j]) => j < i

\* A resolution lists, once each, what the plugin needs and is registered, the
\* plugin last, and dependencies first when nothing is circular; a cycle is
\* reported if and only if there is one, and is one; the order of installation
\* puts dependencies first whenever it can, and leaves nobody out.  A dependency
\* that was once there stays as long as its dependent does.
DependenciesResolved ==
    LET cycles == DetectCircularDependencies
        sorted == DependencySorted
        acyclic == Acyclic
    IN  /\ \A id \in Registered :
              LET found == ResolveDependencies(id)
              IN  /\ IsInjective(found) /\ ToSet(found) = Needed(id) /\ Last(found) = id
                  /\ acyclic => DependenciesFirst(found)
        /\ (cycles = {}) = acyclic
        /\ \A cycle \in cycles :
              /\ Len(cycle) > 1 /\ Head(cycle) = Last(cycle) /\ IsInjective(Front(cycle))
              /\ \A i \in 1..(Len(cycle) - 1) : Needs(cycle[i], cycle[i + 1])
        /\ IsInjective(sorted) /\ ToSet(sorted) = Registered
        /\ acyclic => DependenciesFirst(sorted)
        /\ \A p \in met : p[1] \in Registered => p[2] \in Registered
===============================================================================
