------------------------- MODULE TransactionLifecycle -------------------------
(***************************************************************************)
(* The lifecycle of a tracked transaction (src/transactions/               *)
(* transactionLifecycleManager.ts, src/lifecycle/stateMachine.ts) and the  *)
(* listeners told of it (src/events/lifecycleEvents.ts).  Everything is    *)
(* synchronous: a listener may itself move the transaction on, so calls    *)
(* nest, and what it throws goes to the caller of the transition.          *)
(*                                                                         *)
(* One transaction is modelled: records share nothing but the listeners.   *)
(* An event is its number.  A listener hears of every transition, or of    *)
(* the last one only (a filter by type).  The first listener is subscribed *)
(* from the beginning and stays (bound).                                   *)
(***************************************************************************)
EXTENDS Naturals, Sequences, SequencesExt, FiniteSets

CONSTANTS
    MaxEvents,      \* bound: events
    MaxDepth        \* bound: calls inside one another

ASSUME LifecycleAssumption == MaxEvents \in Nat /\ MaxDepth \in Nat

VARIABLES
    record,         \* the tracked state, or NoRecord
    emitted,        \* history: the states events told of
    subscribed,     \* listeners, in order
    since,          \* history: events before each listener's subscription
    emits,          \* calls of emit under way, innermost last: the event, the listeners
                    \* yet to hear it, and the one that is running, or NoListener
    heard,          \* history: events heard by each listener, in order
    cut             \* history: events some listener may have missed as another one threw

tlVars == <<record, emitted, subscribed, since, emits, heard, cut>>

NoRecord == "none"
NoListener == "none"
Subscribers == {"first", "second", "last"}
Order == <<"created", "simulating", "simulated", "signing", "signed",
           "submitting", "submitted", "confirming", "confirmed", "completed">>
Terminal == {"completed", "failed"}

\* The first listener is subscribed when the transaction has come far; another
\* one may be created after it.
TLInit ==
    /\ record = "confirmed"
    /\ emitted = <<>>
    /\ subscribed = <<"first">>
    /\ since = [l \in Subscribers |-> 0]
    /\ emits = <<>>
    /\ heard = [l \in Subscribers |-> <<>>]
    /\ cut = {}

\* The application acts at the top level or in a listener.
Running == emits # <<>> => Last(emits).running # NoListener

\* matchesFilter: the last listener wants the types completed and failed.
Matches(l, state) == l = "last" => state \in Terminal

Emit(state) ==
    /\ Len(emitted) < MaxEvents /\ Len(emits) < MaxDepth
    /\ emitted' = Append(emitted, state)
    /\ emits' = Append(emits, [event |-> Len(emitted'), todo |-> subscribed, running |-> NoListener])

Create ==
    /\ Running /\ record = NoRecord
    /\ record' = "created"
    /\ Emit("created")
    /\ UNCHANGED <<subscribed, since, heard, cut>>

\* canTransition.
CanTransition(from, to) ==
    /\ from \notin Terminal
    /\ to = "failed" \/ \E k \in 1..(Len(Order) - 1) : Order[k] = from /\ Order[k + 1] = to

Transition(to) ==
    /\ Running /\ record # NoRecord
    /\ CanTransition(record, to)
    /\ record' = to
    /\ Emit(to)
    /\ UNCHANGED <<subscribed, since, heard, cut>>

\* remove, clear.
Forgotten ==
    /\ Running /\ record # NoRecord
    /\ record' = NoRecord
    /\ UNCHANGED <<emitted, subscribed, since, emits, heard, cut>>

\* The listeners are iterated live: calls under way come to a new one, and
\* pass over one that is gone.
Subscribe(l) ==
    /\ Running /\ l \notin ToSet(subscribed)
    /\ subscribed' = Append(subscribed, l)
    /\ since' = [since EXCEPT ![l] = Len(emitted)]
    /\ emits' = [k \in DOMAIN emits |-> [emits[k] EXCEPT !.todo = Append(@, l)]]
    /\ UNCHANGED <<record, emitted, heard, cut>>

\* No listener is in a list twice.
Gone(todo, l) ==
    IF l \in ToSet(todo) THEN RemoveAt(todo, CHOOSE k \in DOMAIN todo : todo[k] = l) ELSE todo

Unsubscribe(l) ==
    /\ Running /\ l \in ToSet(subscribed) /\ l # "first"
    /\ subscribed' = Gone(subscribed, l)
    /\ emits' = [k \in DOMAIN emits |-> [emits[k] EXCEPT !.todo = Gone(@, l)]]
    /\ heard' = [heard EXCEPT ![l] = <<>>]
    /\ since' = [since EXCEPT ![l] = 0]
    /\ UNCHANGED <<record, emitted, cut>>

\* The next listener of the innermost emit: it is called, if its filter matches.
Dispatch ==
    LET emit == Last(emits)
        l    == Head(emit.todo)
        call == Matches(l, emitted[emit.event])
    IN  /\ ~Running /\ emit.todo # <<>>
        /\ emits' = [emits EXCEPT ![Len(emits)] =
                       [emit EXCEPT !.todo = Tail(@), !.running = IF call THEN l ELSE NoListener]]
        /\ heard' = IF call THEN [heard EXCEPT ![l] = Append(@, emit.event)] ELSE heard
        /\ UNCHANGED <<record, emitted, subscribed, since, cut>>

Returns ==
    /\ emits # <<>> /\ Running
    /\ emits' = [emits EXCEPT ![Len(emits)].running = NoListener]
    /\ UNCHANGED <<record, emitted, subscribed, since, heard, cut>>

\* A listener throws: the emission ends, and the transition, which has been
\* made, throws in turn; a listener that made it may throw on or not.
Throws ==
    /\ emits # <<>> /\ Running
    /\ cut' = cut \cup {Last(emits).event}
    /\ emits' = Front(emits)
    /\ UNCHANGED <<record, emitted, subscribed, since, heard>>

EmitReturns ==
    /\ ~Running /\ Last(emits).todo = <<>>
    /\ emits' = Front(emits)
    /\ UNCHANGED <<record, emitted, subscribed, since, heard, cut>>

TLNext ==
    \/ Create \/ Forgotten \/ Dispatch \/ Returns \/ Throws \/ EmitReturns
    \/ \E to \in ToSet(Order) \cup {"failed"} : Transition(to)
    \/ \E l \in Subscribers : Subscribe(l) \/ Unsubscribe(l)

-------------------------------------------------------------------------------
TLTypeOK ==
    /\ record \in ToSet(Order) \cup {"failed", NoRecord}
    /\ emitted \in Seq(ToSet(Order) \cup {"failed"})
    /\ subscribed \in Seq(Subscribers) /\ IsInjective(subscribed) /\ subscribed[1] = "first"
    /\ since \in [Subscribers -> 0..MaxEvents]
    /\ emits \in Seq([event : 1..MaxEvents, todo : Seq(Subscribers),
                      running : Subscribers \cup {NoListener}])
    /\ heard \in [Subscribers -> Seq(1..MaxEvents)]
    /\ cut \subseteq 1..MaxEvents

\* Once all calls have returned, each listener has heard of each transition it
\* asked for once, also of those made inside listeners, but for transitions at
\* which another listener threw; and the first one heard of them in order.
TransitionsHeard ==
    /\ emits = <<>> => \A k \in DOMAIN subscribed :
          LET l == subscribed[k] IN
          \A e \in (since[l] + 1)..Len(emitted) :
             e \notin cut /\ Matches(l, emitted[e]) => e \in ToSet(heard[l])
    /\ \A l \in Subscribers : IsInjective(heard[l])
    /\ \A i, j \in DOMAIN heard["first"] : i < j => heard["first"][i] < heard["first"][j]
===============================================================================
