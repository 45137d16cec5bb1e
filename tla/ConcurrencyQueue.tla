--------------------------- MODULE ConcurrencyQueue ---------------------------
(***************************************************************************)
(* The request queue of src/utils/concurrencyQueue.ts, which every RPC     *)
(* call of a client configured with a concurrency limit goes through.      *)
(*                                                                         *)
(* JavaScript runs one synchronous turn at a time, so a turn is one step   *)
(* here: a call of the public API, a timer callback, or the continuation   *)
(* of a request's promise.  No time passes within a turn.  Wall-clock time *)
(* enters only through what the code can tell apart: whether the throttle  *)
(* interval has elapsed since lastThrottleReset (intervalOver), and        *)
(* whether a pending throttle timer is due.  A queue timeout may fire in   *)
(* any state in which its timer is armed.                                  *)
(***************************************************************************)
EXTENDS Naturals, FiniteSets, SequencesExt

CONSTANTS
    Requests,       \* the calls ever made through the queue
    Throwing,       \* those whose function throws before returning a promise
    Configs,        \* the configurations updateConfig may install
    InitialConfig   \* the configuration given to the constructor

\* queueTimeout is whether a (non-zero) queue timeout is configured.
ConcurrencyConfig ==
    [maxConcurrentRequests: Nat \ {0}, queueTimeout: BOOLEAN,
     enableThrottling: BOOLEAN, throttleRate: Nat, throttleInterval: Nat]

ASSUME RequestsAssumption == IsFiniteSet(Requests) /\ Throwing \subseteq Requests
ASSUME ConfigAssumption == Configs \subseteq ConcurrencyConfig /\ InitialConfig \in ConcurrencyConfig

VARIABLES
    config,
    queue,                      \* requests waiting, oldest first
    running,                    \* requests whose function is awaited
    activeRequests,             \* the counter the limit is enforced on
    outcome,                    \* how the caller's promise was settled
    timers,                     \* requests with a live queue-timeout timer
    throttleTimer,              \* "off", "armed", "due", or "stray": armed for an
                                \* interval that updateConfig has since changed
    requestsInCurrentInterval,
    intervalOver                \* now - lastThrottleReset >= throttleInterval

vars == <<config, queue, running, activeRequests, outcome, timers,
          throttleTimer, requestsInCurrentInterval, intervalOver>>

Settled == {"resolved", "rejected", "timedOut", "cleared"}

Init ==
    /\ config = InitialConfig
    /\ queue = <<>>
    /\ running = {}
    /\ activeRequests = 0
    /\ outcome = [r \in Requests |-> "pending"]
    /\ timers = {}
    /\ throttleTimer = "off"
    /\ requestsInCurrentInterval = 0
    /\ intervalOver = FALSE

\* A promise is settled by the first call of resolve or reject; later calls
\* have no effect.
Settle(out, S, how) ==
    [r \in Requests |-> IF r \in S /\ out[r] = "pending" THEN how ELSE out[r]]

-----------------------------------------------------------------------------
(* processQueue.                                                            *)

\* Mutant: the throttle looks at the requests in flight, not at the count.
ThrottledOnActive(count) ==
    config.enableThrottling /\ activeRequests >= config.throttleRate

\* isThrottled, without its reset of an interval that is over.
Throttled(count) ==
    config.enableThrottling /\ count >= config.throttleRate

\* What the counter is once isThrottled has run at the head of processQueue.
CountAtEntry ==
    IF config.enableThrottling /\ intervalOver THEN 0 ELSE requestsInCurrentInterval

\* The first n requests of q, those that hold a slot once started, and those
\* whose function throws and so gives its slot back within the same turn.
Taken(q, n) == {q[i] : i \in 1..n}
Holding(q, n) == Taken(q, n) \ Throwing

\* Mutant: one slot too many.
HasSlotOffByOne(active, q, n) == active + Cardinality(Holding(q, n)) <= config.maxConcurrentRequests

HasSlot(active, q, n) == active + Cardinality(Holding(q, n)) < config.maxConcurrentRequests

\* The while loop stops after n requests: every one of them found a free slot,
\* and after the last the queue is empty or the slots are taken.
LoopStopsAfter(active, q, n) ==
    /\ \A m \in 0..(n - 1) : HasSlot(active, q, m)
    /\ n < Len(q) => ~HasSlot(active, q, n)

\* A request that throws reaches executeRequest's finally clause inside the
\* loop; the nested processQueue re-arms the throttle timer if the rate is now
\* used up, and the loop goes on all the same.
Rearmed(q, n) ==
    \E i \in 1..n : q[i] \in Throwing /\ Throttled(CountAtEntry + i)

\* processQueue called with the queue, running set, slot count, outcomes and
\* throttle timer its caller has just left.
ProcessQueue(q, run, active, out, timer) ==
    IF ~intervalOver /\ Throttled(requestsInCurrentInterval)
    THEN /\ queue' = q
         /\ running' = run
         /\ activeRequests' = active
         /\ outcome' = out
         /\ throttleTimer' = "armed"
         /\ UNCHANGED <<requestsInCurrentInterval, intervalOver>>
    ELSE \E n \in 0..Len(q) :
         /\ LoopStopsAfter(active, q, n)
         /\ queue' = SubSeq(q, n + 1, Len(q))
         /\ running' = run \cup Holding(q, n)
         /\ activeRequests' = active + Cardinality(Holding(q, n))
         /\ outcome' = Settle(out, Taken(q, n) \cap Throwing, "rejected")
         /\ throttleTimer' = IF Rearmed(q, n) THEN "armed" ELSE timer
         /\ requestsInCurrentInterval' = CountAtEntry + n
         /\ intervalOver' = (intervalOver /\ ~config.enableThrottling)

\* Mutant: the loop does not clear the timers.
KeepAllTimers(ts) == ts

\* Timers of requests taken from the queue are cleared in the loop.
KeepTimers(ts) == ts \cap ToSet(queue')

-----------------------------------------------------------------------------
(* The public API.                                                          *)

\* The request has not been handed to execute yet.
Fresh(r) == r \notin ToSet(queue) \cup running /\ outcome[r] = "pending"

Execute(r) ==
    /\ Fresh(r)
    /\ ProcessQueue(Append(queue, r), running, activeRequests, outcome, throttleTimer)
    /\ timers' = KeepTimers(timers \cup (IF config.queueTimeout THEN {r} ELSE {}))
    /\ UNCHANGED config

\* Mutant: clearing the queue also resets the slot counter.
ClearQueueFreesSlots ==
    /\ outcome' = Settle(outcome, ToSet(queue), "cleared")
    /\ timers' = timers \ ToSet(queue)
    /\ queue' = <<>>
    /\ throttleTimer' = "off"
    /\ activeRequests' = 0
    /\ UNCHANGED <<config, running, requestsInCurrentInterval, intervalOver>>

\* clearQueue, and destroy, which clears the (already cleared) timer again.
ClearQueue ==
    /\ outcome' = Settle(outcome, ToSet(queue), "cleared")
    /\ timers' = timers \ ToSet(queue)
    /\ queue' = <<>>
    /\ throttleTimer' = "off"
    /\ UNCHANGED <<config, running, activeRequests, requestsInCurrentInterval, intervalOver>>

\* updateConfig installs the configuration and does not process the queue.  A
\* shorter interval may be over at once and a longer one no longer be; the timer
\* set for the old one stays as it is.
UpdateConfig(c) ==
    /\ config' = c
    /\ intervalOver' \in BOOLEAN
    /\ c.throttleInterval >= config.throttleInterval => (intervalOver' => intervalOver)
    /\ c.throttleInterval <= config.throttleInterval => (intervalOver => intervalOver')
    /\ throttleTimer' = IF throttleTimer = "armed" /\ c.throttleInterval # config.throttleInterval
                        THEN "stray" ELSE throttleTimer
    /\ UNCHANGED <<queue, running, activeRequests, outcome, timers, requestsInCurrentInterval>>

\* getQueueStatus, a read for monitoring, calls isThrottled and so resets an
\* interval that is over.
GetQueueStatus ==
    /\ config.enableThrottling /\ intervalOver
    /\ requestsInCurrentInterval' = 0
    /\ intervalOver' = FALSE
    /\ UNCHANGED <<config, queue, running, activeRequests, outcome, timers, throttleTimer>>

-----------------------------------------------------------------------------
(* Callbacks.                                                               *)

\* Mutant: a completion that does not process the queue.
CompleteSilently(r, how) ==
    /\ r \in running
    /\ running' = running \ {r}
    /\ activeRequests' = activeRequests - 1
    /\ outcome' = Settle(outcome, {r}, how)
    /\ UNCHANGED <<config, queue, timers, throttleTimer, requestsInCurrentInterval, intervalOver>>

\* The awaited function settles: resolve or reject, then the finally clause
\* releases the slot and processes the queue.
Complete(r, how) ==
    /\ r \in running
    /\ ProcessQueue(queue, running \ {r}, activeRequests - 1,
                    Settle(outcome, {r}, how), throttleTimer)
    /\ timers' = KeepTimers(timers)
    /\ UNCHANGED config

\* Mutants: fill the gap with the newest request; leave the request queued.
RemoveBySwap(r) ==
    LET last == Len(queue)
    IN  SubSeq([i \in 1..last |-> IF queue[i] = r THEN queue[last] ELSE queue[i]], 1, last - 1)

RemoveNothing(r) == queue

\* removeFromQueue: the first request with this id, if it is still queued.
RemoveFromQueue(r) == RemoveFirst(queue, r)

QueueTimeout(r) ==
    /\ r \in timers
    /\ queue' = RemoveFromQueue(r)
    /\ timers' = timers \ {r}
    /\ outcome' = Settle(outcome, {r}, "timedOut")
    /\ UNCHANGED <<config, running, activeRequests, throttleTimer,
                   requestsInCurrentInterval, intervalOver>>

\* Mutant: the timer's callback does not process the queue.
ThrottleTimerForgets ==
    /\ throttleTimer = "due"
    /\ throttleTimer' = "off"
    /\ UNCHANGED <<config, queue, running, activeRequests, outcome, timers,
                   requestsInCurrentInterval, intervalOver>>

ThrottleTimerFires ==
    /\ throttleTimer = "due"
    /\ ProcessQueue(queue, running, activeRequests, outcome, "off")
    /\ timers' = KeepTimers(timers)
    /\ UNCHANGED config

\* Time reaches lastThrottleReset + throttleInterval, for which a timer armed
\* by scheduleNextProcess in this interval was set.
IntervalElapses ==
    /\ ~intervalOver
    /\ intervalOver' = TRUE
    /\ throttleTimer' = IF throttleTimer = "armed" THEN "due" ELSE throttleTimer
    /\ UNCHANGED <<config, queue, running, activeRequests, outcome, timers,
                   requestsInCurrentInterval>>

\* A timer set for another interval comes due when that one would have ended.
StrayTimerDue ==
    /\ throttleTimer = "stray"
    /\ throttleTimer' = "due"
    /\ UNCHANGED <<config, queue, running, activeRequests, outcome, timers,
                   requestsInCurrentInterval, intervalOver>>

Next ==
    \/ \E r \in Requests : Execute(r)
    \/ ClearQueue
    \/ \E c \in Configs : UpdateConfig(c)
    \/ GetQueueStatus
    \/ \E r \in Requests, how \in {"resolved", "rejected"} : Complete(r, how)
    \/ \E r \in Requests : QueueTimeout(r)
    \/ ThrottleTimerFires
    \/ IntervalElapses
    \/ StrayTimerDue

Spec == Init /\ [][Next]_vars

\* The event loop runs due timers and time passes.  Nothing is assumed of
\* callers, of queue timeouts or of the requests themselves: rpc.Server has no
\* timeout (serviceContainer.ts:20), and a running request has none here, so one
\* that hangs holds its slot for ever.
Fairness ==
    /\ WF_vars(ThrottleTimerFires)
    /\ WF_vars(IntervalElapses)
    /\ WF_vars(StrayTimerDue)

FairSpec == Spec /\ Fairness

-----------------------------------------------------------------------------
(* Properties.                                                              *)

\* Type invariant of every field of the queue.
TypeOK ==
    /\ config \in ConcurrencyConfig
    /\ queue \in Seq(Requests)
    /\ running \subseteq Requests
    /\ activeRequests \in Nat
    /\ outcome \in [Requests -> Settled \cup {"pending"}]
    /\ timers \subseteq Requests
    /\ throttleTimer \in {"off", "armed", "stray", "due"}
    /\ requestsInCurrentInterval \in Nat
    /\ intervalOver \in BOOLEAN

\* While the configuration is not changed, the requests in flight never exceed
\* maxConcurrentRequests, through any mix of nested and deferred processQueue
\* calls.  (The "Hard Limit" of CONCURRENCY_CONTROL.md.)
ConcurrencyLimit ==
    Configs = {} => Cardinality(running) <= config.maxConcurrentRequests

\* activeRequests counts exactly the requests whose promise is outstanding: no
\* path through timeouts, clearing or synchronous throws leaks a slot or
\* releases one twice.
SlotsAccounted == activeRequests = Cardinality(running)

\* A request that is waiting or in flight has an unsettled caller, is waiting
\* only once, is not waiting and in flight together, and a queue timeout is
\* live only while its request waits: a caller is never told of a timeout while
\* its request runs, nor does a request run after its caller was refused.
LiveRequestsUnsettled ==
    /\ \A r \in ToSet(queue) \cup running : outcome[r] = "pending"
    /\ IsInjective(queue)
    /\ ToSet(queue) \cap running = {}
    /\ timers \subseteq ToSet(queue)

\* Work conservation: with a fixed configuration, requests wait only because
\* every slot is taken or because a throttle timer will process the queue.
NoLostWakeup ==
    (Configs = {} /\ queue # <<>>) =>
        \/ activeRequests = config.maxConcurrentRequests
        \/ throttleTimer # "off"

\* The same under reconfiguration: whatever updateConfig did, a waiting request
\* has a completion or a throttle timer that will process the queue again.
NoDeadQueue == queue # <<>> => activeRequests > 0 \/ throttleTimer # "off"

\* A slot is only ever handed out within the limit in force at that moment, also
\* while updateConfig has lowered the limit below the number in flight.
StartsWithinLimit ==
    [][~(running' \subseteq running) =>
           Cardinality(running') <= config.maxConcurrentRequests]_vars

\* Throttling tests the rate once per processQueue and not in its loop.  Even so
\* one interval admits no more requests than the larger of throttleRate and
\* maxConcurrentRequests, next to those that throw synchronously and so take no
\* slot: a backlog to drain in one go builds up only while throttled, and meets
\* a fresh count.
ThrottleOvershoot ==
    LET unslotted == Cardinality(Throwing)
    IN  (Configs = {} /\ config.enableThrottling) =>
            \/ requestsInCurrentInterval <= config.throttleRate + unslotted
            \/ requestsInCurrentInterval <= config.maxConcurrentRequests + unslotted

\* "Requests per second when throttling is enabled" (concurrencyQueue.ts:5): the
\* requests admitted in one throttle interval do not exceed throttleRate.
ThrottleRateRespected ==
    config.enableThrottling => requestsInCurrentInterval <= config.throttleRate

\* Some requests may hang for ever: those of a set smaller than the slots.
MayHang == {H \in SUBSET Requests : Cardinality(H) < InitialConfig.maxConcurrentRequests}

\* No starvation: as long as fewer requests hang than there are slots, every
\* other request that waits or runs has its caller answered, with throttling on,
\* other requests competing and no queue timeout to rescue it.  Nothing is
\* promised once as many hang as there are slots.
EveryRequestAnswered ==
    \A H \in MayHang :
        (\A r \in Requests \ H : []<>(r \notin running))
            => \A r \in Requests \ H :
                   (r \in ToSet(queue) \cup running) ~> (outcome[r] \in Settled)

\* The service a client sees: who waits, who is served, who has been answered how.
Service ==
    INSTANCE BoundedFifoService WITH
        Limit     <- InitialConfig.maxConcurrentRequests,
        waiting   <- queue,
        executing <- running,
        finished  <- {r \in Requests : outcome[r] \in {"resolved", "rejected"}},
        refused   <- {r \in Requests : outcome[r] \in {"timedOut", "cleared"}}

\* The queue, with its throttle, timers and counters, is a first-in first-out
\* service of maxConcurrentRequests servers that never leaves a waiting request
\* and a free slot alone for ever, however many requests hang.
ImplementsFairService == Service!FairSpec
===============================================================================
