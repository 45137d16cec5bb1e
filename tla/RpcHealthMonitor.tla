--------------------------- MODULE RpcHealthMonitor ---------------------------
(***************************************************************************)
(* The health monitor of src/monitoring/rpcHealthMonitor.ts: an interval   *)
(* that probes every endpoint of a pool at once and keeps the state the    *)
(* endpoint manager routes by.  Latencies are abstracted to whether a      *)
(* probe was slow; the failure counter is only compared with its           *)
(* threshold, so it saturates there.                                       *)
(***************************************************************************)
EXTENDS Naturals

CONSTANTS
    Endpoints,
    UnhealthyAfter      \* unhealthyAfterFailures

ASSUME EndpointsAssumption == Endpoints # {}
ASSUME UnhealthyAfterAssumption == UnhealthyAfter \in Nat \ {0}

VARIABLES
    state,                  \* status.state of each endpoint
    consecutiveFailures,    \* up to UnhealthyAfter
    measured,               \* endpoints with an averageLatencyMs
    intervalOn,             \* intervalHandle is set
    checkInProgress,
    checking                \* endpoints whose getHealth is awaited

monitorVars == <<state, consecutiveFailures, measured, intervalOn, checkInProgress, checking>>

HealthStates == {"unknown", "healthy", "degraded", "unhealthy"}

MonitorInit ==
    /\ state = [e \in Endpoints |-> "unknown"]
    /\ consecutiveFailures = [e \in Endpoints |-> 0]
    /\ measured = {}
    /\ intervalOn = FALSE
    /\ checkInProgress = FALSE
    /\ checking = {}

\* runHealthChecks up to Promise.all: a round still in progress is not joined.
StartRound ==
    /\ checkInProgress' = TRUE
    /\ checking' = IF checkInProgress THEN checking ELSE Endpoints

Start ==
    /\ ~intervalOn
    /\ intervalOn' = TRUE
    /\ StartRound
    /\ UNCHANGED <<state, consecutiveFailures, measured>>

\* stop() leaves the round in progress to end on its own.
Stop ==
    /\ intervalOn
    /\ intervalOn' = FALSE
    /\ UNCHANGED <<state, consecutiveFailures, measured, checkInProgress, checking>>

\* The interval's callback, and runHealthChecks called by the user.
RunHealthChecks ==
    /\ ~checkInProgress
    /\ StartRound
    /\ UNCHANGED <<state, consecutiveFailures, measured, intervalOn>>

\* Mutant: no finally clause, the flag is only reset when every probe answered.
RoundOverUnlessFailed(e) ==
    /\ checking' = checking \ {e}
    /\ checkInProgress' = (checking' # {} \/ state'[e] = "unhealthy")

\* checkEndpoint never rejects, so Promise.all waits for the last probe and the
\* finally clause follows in the same turn.
RoundOver(e) ==
    /\ checking' = checking \ {e}
    /\ checkInProgress' = (checking' # {})

\* getHealth answers in time.  A response that reports an unhealthy node is a
\* successful check too and resets the failure counter.
RecordSuccess(e, s) ==
    /\ e \in checking
    /\ state' = [state EXCEPT ![e] = s]
    /\ consecutiveFailures' = [consecutiveFailures EXCEPT ![e] = 0]
    /\ measured' = measured \cup {e}
    /\ RoundOver(e)
    /\ UNCHANGED intervalOn

\* getHealth fails, or withTimeout abandons it: its late answer changes nothing.
RecordFailure(e) ==
    /\ e \in checking
    /\ LET failures == consecutiveFailures[e] + 1
           unhealthy == failures >= UnhealthyAfter
       IN  /\ state' = [state EXCEPT ![e] = IF unhealthy THEN "unhealthy" ELSE "degraded"]
           /\ consecutiveFailures' =
                 [consecutiveFailures EXCEPT ![e] = IF unhealthy THEN UnhealthyAfter ELSE failures]
    /\ RoundOver(e)
    /\ UNCHANGED <<measured, intervalOn>>

CheckEnds(e) ==
    \/ \E s \in {"healthy", "degraded", "unhealthy"} : RecordSuccess(e, s)
    \/ RecordFailure(e)

MonitorNext ==
    \/ Start
    \/ Stop
    \/ RunHealthChecks
    \/ \E e \in Endpoints : CheckEnds(e)

-----------------------------------------------------------------------------

MonitorTypeOK ==
    /\ state \in [Endpoints -> HealthStates]
    /\ consecutiveFailures \in [Endpoints -> 0..UnhealthyAfter]
    /\ measured \subseteq Endpoints
    /\ intervalOn \in BOOLEAN
    /\ checkInProgress \in BOOLEAN
    /\ checking \subseteq Endpoints
===============================================================================
