-------------------------- MODULE TransactionTracker --------------------------
(***************************************************************************)
(* The pending-transaction registry of src/client/stellarClient.ts:        *)
(* trackTransaction and its polling loop, cancel handles, and the          *)
(* exportState / importState pair that carries the registry over a page    *)
(* refresh.                                                                *)
(*                                                                         *)
(* A polling loop is a suspended async function.  It yields in two places, *)
(* the await of getTransaction and the sleep between polls; everything     *)
(* between two yields is one step.  getTransaction retries on its own and  *)
(* ends in an answer or an error, or hangs: rpc.Server has no timeout.     *)
(* The network is external: it finalises a transaction at some moment, and *)
(* answers a query, if it does, with the status it had when it served the  *)
(* query, which may be old by the time it arrives.                         *)
(***************************************************************************)
EXTENDS Naturals, FiniteSets, SequencesExt

CONSTANTS
    Hashes,     \* transaction hashes
    Timeouts,   \* the timeoutMs values callers pass, in clock ticks
    MaxTime,    \* bound: the clock stops here
    MaxLoops    \* bound: polling loops ever started for each hash

ASSUME HashesAssumption == IsFiniteSet(Hashes)
ASSUME BoundsAssumption == Timeouts \subseteq 0..MaxTime /\ MaxTime \in Nat
                           /\ MaxLoops \in [Hashes -> Nat]

VARIABLES
    now,        \* Date.now()
    onChain,    \* the hashes the network has finalised
    loops,      \* for each hash, the polling loops ever started, oldest first
    pending,    \* pendingTransactions: for each hash, its loop's index, or 0
    saved       \* the snapshot the dApp keeps in storage

vars == <<now, onChain, loops, pending, saved>>

\* Where a loop is: it awaits getTransaction with the request still under way
\* ("asking") or served ("NOT_FOUND", "FINAL", "error"), it sleeps, or it has
\* settled its promise; a refresh loses it with its page.
Awaiting == {"asking", "NOT_FOUND", "FINAL", "error"}
Alive == Awaiting \cup {"sleeping"}
Ended == {"resolved", "failed", "timedOut", "cancelled", "lost"}

Loop == [deadline: Nat, cancelled: BOOLEAN, pc: Alive \cup Ended]
Snapshot == [hash: Hashes, deadline: Nat]

Init ==
    /\ now = 0
    /\ onChain = {}
    /\ loops = [h \in Hashes |-> <<>>]
    /\ pending = [h \in Hashes |-> 0]
    /\ saved = {}

-----------------------------------------------------------------------------
(* Starting loops.                                                          *)

\* The loop runs up to its first await within trackTransaction; one whose
\* deadline has already passed ends there and leaves no entry.
NewLoop(deadline) ==
    [deadline |-> deadline, cancelled |-> FALSE,
     pc |-> IF now < deadline THEN "asking" ELSE "timedOut"]

Tracked(h) == pending[h] # 0

\* trackTransaction for every hash of S that is not yet tracked, with the
\* deadlines given.
Track(S, deadline) ==
    LET new == {h \in S : ~Tracked(h)}
    IN  /\ \A h \in new : Len(loops[h]) < MaxLoops[h]
        /\ loops' = [h \in Hashes |->
                IF h \in new THEN Append(loops[h], NewLoop(deadline[h])) ELSE loops[h]]
        /\ pending' = [h \in Hashes |->
                IF h \in new /\ now < deadline[h] THEN Len(loops[h]) + 1 ELSE pending[h]]

TrackTransaction(h, timeout) ==
    /\ now + timeout <= MaxTime
    /\ Track({h}, [g \in {h} |-> now + timeout])
    /\ UNCHANGED <<now, onChain, saved>>

\* Mutant: cancel takes the entry out of the registry at once.
CancelDeletes(h, k) ==
    /\ loops[h][k].pc \in Alive /\ ~loops[h][k].cancelled
    /\ loops' = [loops EXCEPT ![h][k].cancelled = TRUE]
    /\ pending' = [pending EXCEPT ![h] = 0]
    /\ UNCHANGED <<now, onChain, saved>>

\* Cancel is a handle on one loop: it only raises that loop's flag, which a
\* loop that has ended no longer reads.
Cancel(h, k) ==
    /\ loops[h][k].pc \in Alive /\ ~loops[h][k].cancelled
    /\ loops' = [loops EXCEPT ![h][k].cancelled = TRUE]
    /\ UNCHANGED <<now, onChain, pending, saved>>

-----------------------------------------------------------------------------
(* The polling loop.                                                        *)

\* The loop's promise settles and its finally clause deletes the hash.
End(h, k, how) ==
    /\ loops' = [loops EXCEPT ![h][k].pc = how]
    /\ pending' = [pending EXCEPT ![h] = 0]

\* Mutant: an unvalidated answer without a status.
ServedUnvalidated(h, k) ==
    /\ loops[h][k].pc = "asking"
    /\ loops' = [loops EXCEPT ![h][k].pc = "undefined"]
    /\ UNCHANGED <<now, onChain, pending, saved>>

\* The network serves the query, or every retry of it fails.
Served(h, k) ==
    /\ loops[h][k].pc = "asking"
    /\ \E answer \in {IF h \in onChain THEN "FINAL" ELSE "NOT_FOUND", "error"} :
         loops' = [loops EXCEPT ![h][k].pc = answer]
    /\ UNCHANGED <<now, onChain, pending, saved>>

\* Mutant: any status ends the loop, NOT_FOUND too.
ArriveAnyStatus(h, k) ==
    /\ \/ loops[h][k].pc \in {"FINAL", "NOT_FOUND"} /\ End(h, k, "resolved")
       \/ loops[h][k].pc = "error" /\ End(h, k, "failed")
    /\ UNCHANGED <<now, onChain, saved>>

\* The answer arrives: a final status resolves the promise whatever happened
\* to the deadline or the cancel flag meanwhile; an error ends the loop.
Arrive(h, k) ==
    /\ \/ loops[h][k].pc = "FINAL" /\ End(h, k, "resolved")
       \/ loops[h][k].pc = "error" /\ End(h, k, "failed")
       \/ /\ loops[h][k].pc = "NOT_FOUND"
          /\ loops' = [loops EXCEPT ![h][k].pc = "sleeping"]
          /\ UNCHANGED pending
    /\ UNCHANGED <<now, onChain, saved>>

\* Mutants: give up when the next poll would be too late; poll on for ever.
WakeGivesUp(h, k) ==
    LET loop == loops[h][k]
    IN  /\ loop.pc = "sleeping"
        /\ \/ loop.cancelled /\ End(h, k, "cancelled")
           \/ ~loop.cancelled /\ now + 1 >= loop.deadline /\ End(h, k, "timedOut")
           \/ /\ ~loop.cancelled /\ now + 1 < loop.deadline
              /\ loops' = [loops EXCEPT ![h][k].pc = "asking"]
              /\ UNCHANGED pending
        /\ UNCHANGED <<now, onChain, saved>>

WakeForever(h, k) ==
    /\ loops[h][k].pc = "sleeping"
    /\ loops' = [loops EXCEPT ![h][k].pc = "asking"]
    /\ UNCHANGED <<now, onChain, pending, saved>>

\* The sleep is over: test the loop condition, then poll again or reject.
Wake(h, k) ==
    LET loop == loops[h][k]
    IN  /\ loop.pc = "sleeping"
        /\ \/ loop.cancelled /\ End(h, k, "cancelled")
           \/ ~loop.cancelled /\ now >= loop.deadline /\ End(h, k, "timedOut")
           \/ /\ ~loop.cancelled /\ now < loop.deadline
              /\ loops' = [loops EXCEPT ![h][k].pc = "asking"]
              /\ UNCHANGED pending
        /\ UNCHANGED <<now, onChain, saved>>

-----------------------------------------------------------------------------
(* Hydration.                                                               *)

\* exportState, whose result the dApp stores.
ExportState ==
    /\ saved' = {[hash |-> h, deadline |-> loops[h][pending[h]].deadline] :
                    h \in {g \in Hashes : Tracked(g)}}
    /\ UNCHANGED <<now, onChain, loops, pending>>

\* The page is reloaded: the registry and every suspended loop are gone.
PageRefresh ==
    /\ loops' = [h \in Hashes |-> [k \in DOMAIN loops[h] |->
            IF loops[h][k].pc \in Alive THEN [loops[h][k] EXCEPT !.pc = "lost"] ELSE loops[h][k]]]
    /\ pending' = [h \in Hashes |-> 0]
    /\ UNCHANGED <<now, onChain, saved>>

\* The entries importState hands to trackTransaction: those not expired.
Unexpired == {e \in saved : e.deadline > now}

\* Mutant: a restored entry gets a new timeout instead of its saved deadline.
ImportProlongs ==
    /\ LET hashes == {e.hash : e \in Unexpired}
       IN  Track(hashes, [h \in hashes |-> MaxTime + 1])
    /\ UNCHANGED <<now, onChain, saved>>

\* importState; a snapshot has one entry per hash.
ImportState ==
    /\ LET deadline == [h \in {e.hash : e \in Unexpired} |->
                            (CHOOSE e \in Unexpired : e.hash = h).deadline]
       IN  Track({e.hash : e \in Unexpired}, deadline)
    /\ UNCHANGED <<now, onChain, saved>>

-----------------------------------------------------------------------------
(* The environment.                                                         *)

Finalise(h) ==
    /\ h \notin onChain
    /\ onChain' = onChain \cup {h}
    /\ UNCHANGED <<now, loops, pending, saved>>

Tick ==
    /\ now < MaxTime
    /\ now' = now + 1
    /\ UNCHANGED <<onChain, loops, pending, saved>>

PollStep(h, k) == Served(h, k) \/ Arrive(h, k) \/ Wake(h, k)

Next ==
    \/ \E h \in Hashes, timeout \in Timeouts : TrackTransaction(h, timeout)
    \/ \E h \in Hashes : \E k \in DOMAIN loops[h] : Cancel(h, k) \/ PollStep(h, k)
    \/ ExportState
    \/ PageRefresh
    \/ ImportState
    \/ \E h \in Hashes : Finalise(h)
    \/ Tick

Spec == Init /\ [][Next]_vars

\* The clock advances, sleeps end, and what has been answered arrives.  That a
\* query is answered at all is not assumed.
Fairness ==
    /\ WF_vars(Tick)
    /\ \A h \in Hashes : \A k \in 1..MaxLoops[h] :
         WF_vars(k \in DOMAIN loops[h] /\ (Arrive(h, k) \/ Wake(h, k)))

FairSpec == Spec /\ Fairness

-----------------------------------------------------------------------------
(* Properties.                                                              *)

LoopOf(h, k) == loops[h][k]

\* Type invariant.
TypeOK ==
    /\ now \in 0..MaxTime
    /\ onChain \subseteq Hashes
    /\ loops \in [Hashes -> Seq(Loop)]
    /\ pending \in [Hashes -> Nat]
    /\ saved \subseteq Snapshot

\* The registry lists exactly the polling loops that are alive: no hash is
\* polled by two loops, however tracking, cancelling, importing and refreshing
\* interleave; no loop polls without an entry that exportState would save; and
\* no entry is left behind by a loop that has ended.
RegistryMatchesLoops ==
    \A h \in Hashes :
        {k \in DOMAIN loops[h] : LoopOf(h, k).pc \in Alive} =
            (IF Tracked(h) THEN {pending[h]} ELSE {})

\* A loop ends with a timeout no earlier than the deadline it was started with,
\* also when that was carried over one or more page refreshes.  A caller that
\* joins a loop (stellarClient.ts:1487) waits for that loop's deadline, which may
\* come before its own timeout (documented at :1480).
NoEarlyTimeout ==
    \A h \in Hashes : \A k \in DOMAIN loops[h] :
        LoopOf(h, k).pc = "timedOut" => now >= LoopOf(h, k).deadline

\* A resolved promise means that the network has finalised the transaction.
ResolvedIsFinal ==
    \A h \in Hashes : \A k \in DOMAIN loops[h] :
        LoopOf(h, k).pc = "resolved" => h \in onChain

\* What becomes of a polling loop is true: a timeout has not come early, and a
\* result is final.
OutcomesHonest == NoEarlyTimeout /\ ResolvedIsFinal

\* Hydration neither drops nor prolongs: after importState every saved entry
\* whose deadline lies ahead is tracked, and a loop the import itself starts
\* has the deadline of a loop of an earlier page.
HydrationFaithful ==
    [][ImportState =>
         \A e \in saved : e.deadline > now =>
            /\ pending'[e.hash] # 0
            /\ ~Tracked(e.hash) =>
                 LET restored == loops'[e.hash][pending'[e.hash]]
                 IN  \E k \in DOMAIN loops[e.hash] :
                        LoopOf(e.hash, k).deadline = restored.deadline]_vars

\* Once cancelled, or once its deadline has passed, a loop sends no new query.
NoQueryAfterStop ==
    [][\A h \in Hashes : \A k \in DOMAIN loops[h] :
         (LoopOf(h, k).cancelled \/ now >= LoopOf(h, k).deadline) =>
            ~(LoopOf(h, k).pc # "asking" /\ loops'[h][k].pc = "asking")]_vars

\* A polling loop whose own queries are all answered in the end leaves the
\* registry, whatever becomes of the queries of the others, of cancels, imports
\* and refreshes.  A query that hangs is outlasted by no deadline: the loop
\* condition is not tested while getTransaction is awaited.
EveryLoopEnds ==
    \A h \in Hashes : \A k \in 1..MaxLoops[h] :
        LET has(states) == k \in DOMAIN loops[h] /\ LoopOf(h, k).pc \in states
        IN  []<>~has({"asking"}) => (has(Alive) ~> has(Ended))

\* "Cancels the polling loop without rejecting outstanding awaiters."
\* (stellarClient.ts:152): no awaiter is rejected because of a cancel.
CancelRejectsNobody ==
    \A h \in Hashes : \A k \in DOMAIN loops[h] : LoopOf(h, k).pc # "cancelled"
===============================================================================
