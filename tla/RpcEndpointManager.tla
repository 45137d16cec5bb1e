-------------------------- MODULE RpcEndpointManager --------------------------
(***************************************************************************)
(* The load balancer of src/network/rpcEndpointManager.ts over the health  *)
(* monitor: execute() picks an endpoint, and on failure sleeps and picks   *)
(* another, while health checks, other calls and the administrator change  *)
(* what may be picked.                                                     *)
(***************************************************************************)
EXTENDS RpcHealthMonitor, FiniteSets, SequencesExt

CONSTANTS
    Entries,        \* the endpoints as configured, in order
    Priority,       \* and their priorities
    Calls,          \* concurrent users of execute
    MaxRetries,
    Policies,       \* the policies in use; the first is InitialPolicy
    InitialPolicy,
    NoEndpoint,
    Period          \* a common multiple of the pool sizes: rrIndex is kept modulo it

ASSUME EntriesAssumption ==
    Entries \in Seq(Endpoints) /\ IsInjective(Entries) /\ ToSet(Entries) = Endpoints
ASSUME PriorityAssumption == Priority \in [Endpoints -> Nat]
ASSUME MaxRetriesAssumption == MaxRetries \in Nat
ASSUME PoliciesAssumption ==
    /\ Policies \subseteq {"round-robin", "weighted", "least-latency", "primary-fallback"}
    /\ InitialPolicy \in Policies
ASSUME NoEndpointAssumption == NoEndpoint \notin Endpoints
ASSUME PeriodAssumption == Period \in Nat \ {0} /\ \A n \in 1..Len(Entries) : Period % n = 0

VARIABLES
    enabled,
    policy,
    rrIndex,
    call        \* [pc, endpoint, skipped, attempt] of each call of execute

managerVars == <<enabled, policy, rrIndex, call>>
emVars == <<monitorVars, managerVars>>

EMInit ==
    /\ MonitorInit
    /\ enabled = Endpoints
    /\ policy = InitialPolicy
    /\ rrIndex = 0
    /\ call = [c \in Calls |-> [pc |-> "idle", endpoint |-> NoEndpoint, skipped |-> {}, attempt |-> 0]]

-----------------------------------------------------------------------------

\* Mutant: endpoints that failed this call stay in its pool.
CandidatesAgain(skipped) == {e \in enabled : state[e] # "unhealthy"}

Candidates(skipped) == {e \in enabled \ skipped : state[e] # "unhealthy"}

\* The pool is in the order of Entries; Rank is an endpoint's index in it.
Rank(pool, e) ==
    Cardinality({f \in pool : \E j \in DOMAIN Entries : \E i \in 1..(j - 1) :
                    Entries[i] = f /\ Entries[j] = e})

\* The endpoints pick may return for this pool.  A weighted choice may return
\* any of them (weights are positive), and so may least-latency among those
\* measured.
Picks(pool) ==
    CASE policy = "round-robin"      -> {e \in pool : Rank(pool, e) = rrIndex % Cardinality(pool)}
      [] policy = "weighted"         -> pool
      [] policy = "least-latency"    -> IF pool \cap measured = {}
                                        THEN {e \in pool : Rank(pool, e) = 0} ELSE pool \cap measured
      [] policy = "primary-fallback" ->
             {e \in pool : \A f \in pool :
                  \/ Priority[e] < Priority[f]
                  \/ Priority[e] = Priority[f] /\ Rank(pool, e) <= Rank(pool, f)}

Rotated == IF policy = "round-robin" THEN (rrIndex + 1) % Period ELSE rrIndex

\* One round of execute's loop, up to the await of fn.
NextAttempt(c, skipped, attempt) ==
    \/ /\ Candidates(skipped) = {}
       /\ call' = [call EXCEPT ![c] = [pc |-> "failed", endpoint |-> NoEndpoint,
                                       skipped |-> skipped, attempt |-> attempt]]
       /\ UNCHANGED rrIndex
    \/ /\ Candidates(skipped) # {}
       /\ \E e \in Picks(Candidates(skipped)) :
             call' = [call EXCEPT ![c] = [pc |-> "calling", endpoint |-> e,
                                          skipped |-> skipped, attempt |-> attempt]]
       /\ rrIndex' = Rotated

Execute(c) ==
    /\ call[c].pc \in {"idle", "ok", "failed"}
    /\ NextAttempt(c, {}, 0)
    /\ UNCHANGED <<monitorVars, enabled, policy>>

FnResolves(c) ==
    /\ call[c].pc = "calling"
    /\ call' = [call EXCEPT ![c].pc = "ok"]
    /\ UNCHANGED <<monitorVars, enabled, policy, rrIndex>>

\* Mutant: the last retry is dropped.
FnRejectsEarly(c) ==
    /\ call[c].pc = "calling"
    /\ call' = [call EXCEPT ![c].skipped = @ \cup {call[c].endpoint},
                            ![c].endpoint = NoEndpoint,
                            ![c].pc = IF call[c].attempt + 1 < MaxRetries THEN "sleeping" ELSE "failed"]
    /\ UNCHANGED <<monitorVars, enabled, policy, rrIndex>>

\* Mutant: every failure is slept on and retried.
FnRejectsAndSleeps(c) ==
    /\ call[c].pc = "calling"
    /\ call' = [call EXCEPT ![c].skipped = @ \cup {call[c].endpoint},
                            ![c].endpoint = NoEndpoint,
                            ![c].pc = "sleeping"]
    /\ UNCHANGED <<monitorVars, enabled, policy, rrIndex>>

\* The catch clause: no sleep after the last attempt, which ends the loop.
FnRejects(c) ==
    /\ call[c].pc = "calling"
    /\ call' = [call EXCEPT ![c].skipped = @ \cup {call[c].endpoint},
                            ![c].endpoint = NoEndpoint,
                            ![c].pc = IF call[c].attempt < MaxRetries THEN "sleeping" ELSE "failed"]
    /\ UNCHANGED <<monitorVars, enabled, policy, rrIndex>>

\* Mutant: an empty pool is waited out.
WakesIfAvailable(c) ==
    /\ call[c].pc = "sleeping"
    /\ Candidates(call[c].skipped) # {}
    /\ NextAttempt(c, call[c].skipped, call[c].attempt + 1)
    /\ UNCHANGED <<monitorVars, enabled, policy>>

\* The retry delay is over: health and enablement are read anew.
Wakes(c) ==
    /\ call[c].pc = "sleeping"
    /\ NextAttempt(c, call[c].skipped, call[c].attempt + 1)
    /\ UNCHANGED <<monitorVars, enabled, policy>>

\* getActiveEndpoint, a getter that advances the rotation.
GetActiveEndpoint ==
    /\ Candidates({}) # {}
    /\ policy = "round-robin"
    /\ rrIndex' = Rotated
    /\ UNCHANGED <<monitorVars, enabled, policy, call>>

SetPolicy(p) ==
    /\ policy' = p
    /\ rrIndex' = 0
    /\ UNCHANGED <<monitorVars, enabled, call>>

EnableEndpoint(e) ==
    /\ enabled' = enabled \cup {e}
    /\ UNCHANGED <<monitorVars, policy, rrIndex, call>>

DisableEndpoint(e) ==
    /\ enabled' = enabled \ {e}
    /\ UNCHANGED <<monitorVars, policy, rrIndex, call>>

EMNext ==
    \/ MonitorNext /\ UNCHANGED managerVars
    \/ \E c \in Calls : Execute(c) \/ FnResolves(c) \/ FnRejects(c) \/ Wakes(c)
    \/ GetActiveEndpoint
    \/ \E p \in Policies : SetPolicy(p)
    \/ \E e \in Endpoints : EnableEndpoint(e) \/ DisableEndpoint(e)

EMSpec == EMInit /\ [][EMNext]_emVars

\* Timers fire, probes are bounded by withTimeout, and the function given to
\* execute settles.  Nothing obliges the user to call anything.
EMFairness ==
    /\ WF_emVars(intervalOn /\ RunHealthChecks /\ UNCHANGED managerVars)
    /\ \A e \in Endpoints : WF_emVars(CheckEnds(e) /\ UNCHANGED managerVars)
    /\ \A c \in Calls : WF_emVars(FnResolves(c) \/ FnRejects(c)) /\ WF_emVars(Wakes(c))

EMFairSpec == EMSpec /\ EMFairness

-----------------------------------------------------------------------------

\* Type invariant of the manager and the monitor under it.
EMTypeOK ==
    /\ MonitorTypeOK
    /\ enabled \subseteq Endpoints
    /\ policy \in Policies
    /\ rrIndex \in 0..(Period - 1)
    /\ call \in [Calls -> [pc: {"idle", "calling", "sleeping", "ok", "failed"},
                           endpoint: Endpoints \cup {NoEndpoint},
                           skipped: SUBSET Endpoints, attempt: 0..MaxRetries]]

\* Failover goes to a fresh endpoint every time: a call never returns to one
\* that failed it, whatever recovers, is enabled again or is retried by other
\* calls while it sleeps.
EachEndpointTriedOnce ==
    \A c \in Calls :
        /\ call[c].endpoint \notin call[c].skipped
        /\ call[c].pc = "calling"  => Cardinality(call[c].skipped) = call[c].attempt
        /\ call[c].pc = "sleeping" => Cardinality(call[c].skipped) = call[c].attempt + 1

\* A call gives up only when it used all its attempts or, at that moment, every
\* enabled endpoint that is not unhealthy has failed it.
GivesUpOnlyWhenExhausted ==
    [][\A c \in Calls : call[c].pc # "failed" /\ call'[c].pc = "failed" =>
          \/ Cardinality(call'[c].skipped) = MaxRetries + 1
          \/ \A e \in enabled \ call'[c].skipped : state[e] = "unhealthy"]_emVars

\* Every call of execute comes to an end.
EveryCallEnds ==
    \A c \in Calls : call[c].pc \in {"calling", "sleeping"} ~> call[c].pc \in {"ok", "failed"}

\* While the monitor stays started no endpoint is left with a verdict of the
\* past: every one is probed, and every probe ends, again and again, so that an
\* unhealthy endpoint can come back.
ProbesContinue ==
    \A e \in Endpoints :
        <>[]intervalOn => []<>(e \in checking) /\ []<>(e \notin checking)
===============================================================================
