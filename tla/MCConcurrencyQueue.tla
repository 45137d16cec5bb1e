-------------------------- MODULE MCConcurrencyQueue --------------------------
(* Instances of ConcurrencyQueue for TLC.                                    *)
EXTENDS ConcurrencyQueue, TLC

CONSTANTS r1, r2, r3, r4

Conf(max, timeout, throttle, rate, interval) ==
    [maxConcurrentRequests |-> max, queueTimeout |-> timeout, enableThrottling |-> throttle,
     throttleRate |-> rate, throttleInterval |-> interval]

\* Two slots, queue timeouts, one request per interval: fewer than the slots.
TwoSlots == Conf(2, TRUE, TRUE, 1, 2)

\* The configurations updateConfig moves between: fewer or more slots,
\* throttling on or off, a shorter or a longer interval.
Retunings == {Conf(1, TRUE, TRUE, 1, 3), Conf(2, FALSE, FALSE, 1, 2), Conf(3, TRUE, TRUE, 2, 1)}

None == {}
Four == {r1, r2, r3, r4}

\* Requests that neither throw nor are named by a configuration are alike.
Symmetry == Permutations(Requests \ Throwing)
===============================================================================
