----------------------------- MODULE EventDelivery -----------------------------
(***************************************************************************)
(* The delivery of an event to its subscribers, by the dispatcher          *)
(* (src/events/eventDispatcher.ts) or by the WebSocketManager's            *)
(* handleMessage (src/client/websocket/websocketManager.ts).  Both go      *)
(* through a Map while the callbacks they call change it: an entry that is *)
(* gone is passed over, a new one is come to, and one set again under its  *)
(* id stays where it was.  The dispatcher ignores what a callback throws,  *)
(* the manager goes no further.                                            *)
(*                                                                         *)
(* An entry of the Map is its place, in the order of insertion.  Events    *)
(* and filters are abstracted to which filter lets which event through.    *)
(***************************************************************************)
EXTENDS Naturals, FiniteSets

CONSTANTS
    SubscriptionIds,
    EventKinds,
    MaxPlaces       \* bound: insertions

ASSUME DeliveryAssumption == MaxPlaces \in Nat /\ SubscriptionIds # {}

VARIABLES
    byDispatcher,   \* who delivers: the dispatcher, or the manager
    entries,        \* subscriptions: from places to [id, filter]
    places,         \* insertions so far
    eventCounts,    \* ids the dispatcher has a count for
    eventKind,      \* of the event being delivered, or NoKind
    visited,        \* the last place the iteration has come to
    calling,        \* the place whose callback is running, or 0
    caller,         \* the id of the subscription called last
    untouched,      \* history: the entries there since the event came
    timesHeard,     \* history: how often each place has heard the event
    leftInside      \* history: ids unsubscribed in their own callbacks

edVars == <<byDispatcher, entries, places, eventCounts, eventKind, visited, calling, caller,
            untouched, timesHeard, leftInside>>

NoKind == "none"
NoEntries == [p \in {} |-> 0]
Filters == SUBSET EventKinds \ {{}}
Subscribed == {entries[p].id : p \in DOMAIN entries}
PlaceOf(id) == CHOOSE p \in DOMAIN entries : entries[p].id = id

EDInit ==
    /\ byDispatcher \in BOOLEAN
    /\ entries = NoEntries
    /\ places = 0
    /\ eventCounts = {}
    /\ eventKind = NoKind
    /\ visited = 0
    /\ calling = 0
    /\ caller = CHOOSE id \in SubscriptionIds : TRUE
    /\ untouched = {}
    /\ timesHeard = NoEntries
    /\ leftInside = {}

\* All code is synchronous: during a delivery the application acts in callbacks.
MayAct == eventKind # NoKind => calling # 0

\* subscribe: the manager makes an id of its own, the dispatcher is given one,
\* which may be there already (it can make none: generateId throws).
SubscribeTo(id, filter) ==
    /\ MayAct
    /\ IF id \in Subscribed
       THEN /\ byDispatcher
            /\ entries' = [entries EXCEPT ![PlaceOf(id)].filter = filter]
            /\ untouched' = untouched \ {PlaceOf(id)}
            /\ UNCHANGED places
       ELSE /\ places < MaxPlaces
            /\ places' = places + 1
            /\ entries' = [p \in DOMAIN entries \cup {places'} |->
                             IF p = places' THEN [id |-> id, filter |-> filter] ELSE entries[p]]
            /\ UNCHANGED untouched
    /\ UNCHANGED <<byDispatcher, eventCounts, eventKind, visited, calling, caller, timesHeard, leftInside>>

UnsubscribeFrom(id) ==
    /\ MayAct /\ id \in Subscribed
    /\ entries' = [p \in DOMAIN entries \ {PlaceOf(id)} |-> entries[p]]
    /\ eventCounts' = eventCounts \ {id}
    /\ untouched' = untouched \ {PlaceOf(id)}
    /\ leftInside' = IF calling # 0 /\ id = caller THEN leftInside \cup {id} ELSE leftInside
    /\ UNCHANGED <<byDispatcher, places, eventKind, visited, calling, caller, timesHeard>>

\* dispatch, and handleMessage with an event.
EventArrives(k) ==
    /\ eventKind = NoKind
    /\ eventKind' = k
    /\ visited' = 0
    /\ untouched' = DOMAIN entries
    /\ timesHeard' = NoEntries
    /\ UNCHANGED <<byDispatcher, entries, places, eventCounts, calling, caller, leftInside>>

Ahead == {p \in DOMAIN entries : p > visited}

Call(p) ==
    /\ calling' = p
    /\ caller' = entries[p].id
    /\ timesHeard' = [q \in DOMAIN timesHeard \cup {p} |->
                        (IF q \in DOMAIN timesHeard THEN timesHeard[q] ELSE 0) + (IF q = p THEN 1 ELSE 0)]

\* The iteration comes to the next entry there is: it is called, if its filter
\* matches.
Visit ==
    \E p \in Ahead :
        /\ eventKind # NoKind /\ calling = 0 /\ \A q \in Ahead : p <= q
        /\ visited' = p
        /\ IF eventKind \in entries[p].filter THEN Call(p) ELSE UNCHANGED <<calling, caller, timesHeard>>
        /\ UNCHANGED <<byDispatcher, entries, places, eventCounts, eventKind, untouched, leftInside>>

\* The callback returns; the dispatcher counts, whether the id is still there or not.
CallbackReturns ==
    /\ calling # 0
    /\ calling' = 0
    /\ eventCounts' = IF byDispatcher THEN eventCounts \cup {caller} ELSE eventCounts
    /\ UNCHANGED <<byDispatcher, entries, places, eventKind, visited, caller, untouched, timesHeard, leftInside>>

CallbackThrows ==
    /\ calling # 0
    /\ calling' = 0
    /\ eventKind' = IF byDispatcher THEN eventKind ELSE NoKind
    /\ UNCHANGED <<byDispatcher, entries, places, eventCounts, visited, caller, untouched, timesHeard, leftInside>>

DeliveryEnds ==
    /\ eventKind # NoKind /\ calling = 0 /\ Ahead = {}
    /\ eventKind' = NoKind
    /\ UNCHANGED <<byDispatcher, entries, places, eventCounts, visited, calling, caller,
                   untouched, timesHeard, leftInside>>

EDNext ==
    \/ \E id \in SubscriptionIds :
          UnsubscribeFrom(id) \/ \E filter \in Filters : SubscribeTo(id, filter)
    \/ \E k \in EventKinds : EventArrives(k)
    \/ Visit \/ CallbackReturns \/ CallbackThrows \/ DeliveryEnds

-------------------------------------------------------------------------------
EDTypeOK ==
    /\ byDispatcher \in BOOLEAN
    /\ places \in 0..MaxPlaces /\ DOMAIN entries \cup untouched \cup {visited, calling} \subseteq 0..places
    /\ entries \in [DOMAIN entries -> [id : SubscriptionIds, filter : Filters]]
    /\ eventCounts \cup leftInside \cup {caller} \subseteq SubscriptionIds
    /\ eventKind \in EventKinds \cup {NoKind}

\* Whatever callbacks subscribe and unsubscribe while an event is delivered, each
\* id has one entry and each entry hears the event at most once; a delivery that
\* comes to its end has reached every entry that was there all the time and whose
\* filter matches, and no other of these; and counts do not outlive subscriptions,
\* but for those that end in their own callbacks.
DeliveredOnce ==
    /\ \A p, q \in DOMAIN entries : entries[p].id = entries[q].id => p = q
    /\ \A p \in DOMAIN timesHeard : timesHeard[p] = 1
    /\ eventKind # NoKind /\ calling = 0 /\ Ahead = {} =>
          \A p \in untouched : p \in DOMAIN timesHeard <=> eventKind \in entries[p].filter
    /\ eventCounts \subseteq Subscribed \cup leftInside
===============================================================================
