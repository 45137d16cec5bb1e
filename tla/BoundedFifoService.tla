-------------------------- MODULE BoundedFifoService --------------------------
(***************************************************************************)
(* What a client with a concurrency limit is promised: requests are served *)
(* in the order they were made, at most Limit at a time; each is finished  *)
(* once or, only while it still waits, refused.  Why the service lets      *)
(* requests wait (throttling) and why it refuses them (queue timeouts,     *)
(* clearing) is left open.                                                 *)
(***************************************************************************)
EXTENDS Naturals, FiniteSets, SequencesExt

CONSTANTS
    Requests,
    Limit       \* how many requests are served at a time, at least one

VARIABLES waiting, executing, finished, refused

serviceVars == <<waiting, executing, finished, refused>>

Init ==
    /\ waiting = <<>>
    /\ executing = {}
    /\ finished = {}
    /\ refused = {}

Known == ToSet(waiting) \cup executing \cup finished \cup refused

\* Start the n oldest requests of q next to those already executing; some, F,
\* may fail at once.
ServeFirst(n, q, exec, fin) ==
    \E F \in SUBSET {q[i] : i \in 1..n} :
        /\ waiting' = SubSeq(q, n + 1, Len(q))
        /\ executing' = exec \cup ({q[i] : i \in 1..n} \ F)
        /\ finished' = fin \cup F
        /\ Cardinality(executing') <= Limit

Serve(q, exec, fin) == \E n \in 0..Len(q) : ServeFirst(n, q, exec, fin)

Submit(r) ==
    /\ r \notin Known
    /\ Serve(Append(waiting, r), executing, finished)
    /\ UNCHANGED refused

Finish(r) ==
    /\ r \in executing
    /\ Serve(waiting, executing \ {r}, finished \cup {r})
    /\ UNCHANGED refused

Resume ==
    /\ Cardinality(executing) < Limit
    /\ \E n \in 1..Len(waiting) : ServeFirst(n, waiting, executing, finished)
    /\ UNCHANGED refused

\* A request gives up waiting, or all of them are told to.
Refuse(r) ==
    /\ r \in ToSet(waiting)
    /\ waiting' = RemoveFirst(waiting, r)
    /\ refused' = refused \cup {r}
    /\ UNCHANGED <<executing, finished>>

RefuseAll ==
    /\ waiting' = <<>>
    /\ refused' = refused \cup ToSet(waiting)
    /\ UNCHANGED <<executing, finished>>

Next ==
    \/ \E r \in Requests : Submit(r) \/ Finish(r) \/ Refuse(r)
    \/ Resume
    \/ RefuseAll

Spec == Init /\ [][Next]_serviceVars

\* The service does not leave a free slot idle for ever while requests wait.
\* That what it executes ever finishes is not its to promise.
FairSpec == Spec /\ WF_serviceVars(Resume)
===============================================================================
