------------------------- MODULE ContractEventEmitter -------------------------
(***************************************************************************)
(* The polling event emitter of src/contracts/ContractEventEmitter.ts.     *)
(*                                                                         *)
(* A poll suspends at each request.  When a page of events arrives it is   *)
(* delivered within one turn, but the listeners called in it may add and   *)
(* remove listeners or close the emitter, so that turn is taken one        *)
(* listener at a time; timers and answers wait until it is over.  A call   *)
(* of the API made in that turn is one made by the listener just called.   *)
(*                                                                         *)
(* The node is external: it closes ledgers with events of the contract in  *)
(* them, and serves a request with what it then has, or fails it.          *)
(***************************************************************************)
EXTENDS Naturals, Integers, FiniteSets, SequencesExt

CONSTANTS
    Regs,           \* registrations: an event name with a callback
    UsedKeys,       \* bound: the event names listeners are registered for
    PageLimit,      \* events in one answer of the node, at most
    MaxLedger,      \* bound: ledgers closed
    MaxEvents,      \* bound: events of the contract
    NoKey           \* the key of a registration not made yet

ASSUME RegsAssumption == IsFiniteSet(Regs)
ASSUME LimitsAssumption == {PageLimit, MaxLedger} \subseteq Nat \ {0} /\ MaxEvents \in Nat

\* One event name is told apart, "name".  An event has it, another one or none,
\* or its topics are not among those the emitter was created for.
Kinds == {"named", "other", "nameless", "filtered"}
NameKeys == {"name", "event:name"}
Keys == {"event", "*", "otherName", "event:otherName"} \cup NameKeys

ASSUME KeysAssumption == UsedKeys \subseteq Keys /\ NoKey \notin Keys

VARIABLES
    ledger,         \* the latest closed ledger
    chain,          \* the contract's events, oldest first
    listeners,      \* the registrations of each event name, oldest first
    key,            \* the event name of each registration
    isOnce,         \* those made by once
    interval,       \* the poll timer is set
    isClosed,
    poll,           \* where the poll is; isPolling is poll # "idle"
    answer,         \* what the node served it with, a ledger or events
    lastLedger,     \* 0 for undefined
    lastCursor,     \* events up to this one were read, or NoCursor
    emits,          \* names left to emit the current event under
    calls,          \* callbacks left of the current emission
    delivered       \* what each registration of one name was called with

nodeVars == <<ledger, chain>>
apiVars == <<listeners, key, isOnce, interval, isClosed>>
pollVars == <<poll, answer, lastLedger, lastCursor>>
turnVars == <<emits, calls, delivered>>
ceVars == <<nodeVars, apiVars, pollVars, turnVars>>

NoCursor == -1

\* The events of an answer are those after "at" up to "cursor"; as they are
\* delivered, "at" is the current one.
NoAnswer == [ledger |-> 0, at |-> 0, cursor |-> NoCursor]
Event == [ledger: 1..MaxLedger, kind: Kinds]

\* Constructed by subscribeToEvents, which starts it, or directly.
CEInit ==
    /\ ledger = 1 /\ chain = <<>>
    /\ listeners = [k \in Keys |-> <<>>]
    /\ key = [r \in Regs |-> NoKey]
    /\ isOnce = {}
    /\ interval \in BOOLEAN
    /\ isClosed = FALSE
    /\ poll = "idle" /\ answer = NoAnswer
    /\ lastLedger = 0 /\ lastCursor = NoCursor
    /\ emits = <<>> /\ calls = <<>>
    /\ delivered = [r \in Regs |-> <<>>]

-----------------------------------------------------------------------------
(* The API: called between turns, or by a listener in the middle of one.    *)

Close ==
    /\ isClosed' = TRUE
    /\ interval' = FALSE
    /\ listeners' = [k \in Keys |-> <<>>]

\* The listeners left after a removal; without any the emitter closes.
CloseIfEmpty(left) ==
    IF \A k \in Keys : left[k] = <<>>
    THEN Close
    ELSE listeners' = left /\ UNCHANGED <<interval, isClosed>>

\* on and once; a closed emitter ignores them.
On(r, k) ==
    /\ key[r] = NoKey
    /\ ~isClosed
    /\ key' = [key EXCEPT ![r] = k]
    /\ isOnce' \in {isOnce, isOnce \cup {r}}
    /\ listeners' = [listeners EXCEPT ![k] = Append(@, r)]
    /\ interval' = TRUE
    /\ UNCHANGED <<isClosed, nodeVars, pollVars, turnVars>>

\* A registration is made once, so it is listed once.
Listed(r) == key[r] # NoKey /\ r \in ToSet(listeners[key[r]])

Without(r) ==
    IF Listed(r)
    THEN [listeners EXCEPT ![key[r]] = RemoveAt(@, CHOOSE n \in DOMAIN @ : @[n] = r)]
    ELSE listeners

\* off, of a registration that may be gone already or never have been made: one
\* made by once is registered as a wrapper its caller does not have.
Off(r) ==
    /\ ~isClosed
    /\ CloseIfEmpty(IF r \in isOnce THEN listeners ELSE Without(r))
    /\ UNCHANGED <<key, isOnce, nodeVars, pollVars, turnVars>>

RemoveAllListeners(k) ==
    /\ ~isClosed
    /\ CloseIfEmpty([listeners EXCEPT ![k] = <<>>])
    /\ UNCHANGED <<key, isOnce, nodeVars, pollVars, turnVars>>

Start ==
    /\ ~isClosed
    /\ interval' = TRUE
    /\ UNCHANGED <<listeners, key, isOnce, isClosed, nodeVars, pollVars, turnVars>>

Stop ==
    /\ interval' = FALSE
    /\ UNCHANGED <<listeners, key, isOnce, isClosed, nodeVars, pollVars, turnVars>>

\* close, unsubscribe, removeAllListeners without a name or by the client.
CloseCall ==
    /\ ~isClosed
    /\ Close
    /\ UNCHANGED <<key, isOnce, nodeVars, pollVars, turnVars>>

ApiCall ==
    \/ \E r \in Regs : (\E k \in UsedKeys : On(r, k)) \/ Off(r)
    \/ \E k \in UsedKeys : RemoveAllListeners(k)
    \/ Start
    \/ Stop
    \/ CloseCall

-----------------------------------------------------------------------------
(* Polling.                                                                 *)

\* The interval's callback, up to the first request.
Tick ==
    /\ interval /\ poll = "idle" /\ ~isClosed
    /\ poll' = IF lastLedger = 0 /\ lastCursor = NoCursor THEN "askLedger" ELSE "askEvents"
    /\ UNCHANGED <<answer, lastLedger, lastCursor, nodeVars, apiVars, turnVars>>

\* The events the node has from the place asked for, and the cursor it returns.
Page ==
    LET wanted == {i \in DOMAIN chain : IF lastCursor = NoCursor
                                        THEN chain[i].ledger >= lastLedger
                                        ELSE i > lastCursor}
        first  == Min(wanted \cup {Len(chain) + 1})
    IN  [ledger |-> 0,
         at     |-> first - 1,
         cursor |-> Min({first - 1 + PageLimit, Len(chain)})]

ServeLedger ==
    /\ poll = "askLedger"
    /\ poll' = "ledger" /\ answer' = [NoAnswer EXCEPT !.ledger = ledger]
    /\ UNCHANGED <<lastLedger, lastCursor, nodeVars, apiVars, turnVars>>

ServeEvents ==
    /\ poll = "askEvents"
    /\ poll' = "events" /\ answer' = Page
    /\ UNCHANGED <<lastLedger, lastCursor, nodeVars, apiVars, turnVars>>

\* Mutant: isPolling is not lowered when a request fails.
FailKeepsFlag ==
    /\ poll \in {"askLedger", "askEvents"}
    /\ poll' = "failed"
    /\ UNCHANGED <<answer, lastLedger, lastCursor, nodeVars, apiVars, turnVars>>

\* A request fails: logged, and the poll is over.  What was learnt is kept.
Fail ==
    /\ poll \in {"askLedger", "askEvents"}
    /\ poll' = "idle"
    /\ UNCHANGED <<answer, lastLedger, lastCursor, nodeVars, apiVars, turnVars>>

\* The next request is sent at once, closed or not.
LedgerArrives ==
    /\ poll = "ledger"
    /\ lastLedger' = answer.ledger
    /\ poll' = "askEvents" /\ answer' = NoAnswer
    /\ UNCHANGED <<lastCursor, nodeVars, apiVars, turnVars>>

\* The names an event is emitted under, in order.
KeysOf(kind) ==
    CASE kind = "named"    -> <<"event", "*", "name", "event:name">>
      [] kind = "other"    -> <<"event", "*", "otherName", "event:otherName">>
      [] kind = "nameless" -> <<"event", "*">>
      [] kind = "filtered" -> <<>>

\* The page arrives: the cursor moves before its events are emitted.
EventsArrive ==
    /\ poll = "events"
    /\ lastCursor' = answer.cursor
    /\ poll' = "delivering"
    /\ UNCHANGED <<answer, lastLedger, nodeVars, apiVars, turnVars>>

\* The next event of the page is taken up.
NextEvent ==
    /\ poll = "delivering" /\ calls = <<>> /\ emits = <<>>
    /\ answer.at < answer.cursor
    /\ answer' = [answer EXCEPT !.at = @ + 1]
    /\ lastLedger' = Max({lastLedger, chain[answer'.at].ledger})
    /\ emits' = KeysOf(chain[answer'.at].kind)
    /\ UNCHANGED <<poll, lastCursor, calls, delivered, nodeVars, apiVars>>

\* emit copies the listeners of the name, of "event" and of "*" as they are now;
\* the name may itself be "event" or "*".
Emit ==
    /\ calls = <<>> /\ emits # <<>>
    /\ calls' = listeners[Head(emits)] \o listeners["event"] \o listeners["*"]
    /\ emits' = Tail(emits)
    /\ UNCHANGED <<delivered, nodeVars, apiVars, pollVars>>

Named(r) == key[r] \in NameKeys

Record(r) ==
    delivered' = IF Named(r) THEN [delivered EXCEPT ![r] = Append(@, answer.at)] ELSE delivered

\* Mutant: once forgets to remove its listener.
CallAgain ==
    /\ calls # <<>>
    /\ calls' = Tail(calls)
    /\ Record(Head(calls))
    /\ UNCHANGED <<apiVars, emits, nodeVars, pollVars>>

\* The next callback is called.  The wrapper of once first takes itself off,
\* and with the last listener closes the emitter.
Call ==
    /\ calls # <<>>
    /\ calls' = Tail(calls)
    /\ Record(Head(calls))
    /\ IF Head(calls) \in isOnce /\ ~isClosed
       THEN CloseIfEmpty(Without(Head(calls)))
       ELSE UNCHANGED <<listeners, interval, isClosed>>
    /\ UNCHANGED <<key, isOnce, emits, nodeVars, pollVars>>

\* The page is delivered; the finally clause lowers isPolling.
FinishPoll ==
    /\ poll = "delivering" /\ calls = <<>> /\ emits = <<>>
    /\ answer.at = answer.cursor
    /\ poll' = "idle" /\ answer' = NoAnswer
    /\ UNCHANGED <<lastLedger, lastCursor, nodeVars, apiVars, turnVars>>

\* The next ledger closes, with up to two events of the contract in it.
CloseLedger ==
    /\ ledger < MaxLedger
    /\ ledger' = ledger + 1
    /\ \E n \in 0..2 :
         /\ Len(chain) + n <= MaxEvents
         /\ \E kinds \in [1..n -> Kinds] :
              chain' = chain \o [i \in 1..n |-> [ledger |-> ledger + 1, kind |-> kinds[i]]]
    /\ UNCHANGED <<apiVars, pollVars, turnVars>>

Serve == ServeLedger \/ ServeEvents
Turn == LedgerArrives \/ EventsArrive \/ NextEvent \/ Emit \/ Call \/ FinishPoll

CENext == ApiCall \/ Tick \/ Serve \/ Fail \/ Turn \/ CloseLedger

CESpec == CEInit /\ [][CENext]_ceVars

\* The timer fires, turns are taken, and the node, asked again and again, does
\* not fail for ever.  Nothing is assumed of the application.
CEFairness ==
    /\ WF_ceVars(Tick)
    /\ WF_ceVars(Turn)
    /\ SF_ceVars(Serve)

CEFairSpec == CESpec /\ CEFairness

-----------------------------------------------------------------------------
(* Properties.                                                              *)

\* Type invariant.
CETypeOK ==
    /\ ledger \in 1..MaxLedger
    /\ chain \in Seq(Event) /\ Len(chain) <= MaxEvents
    /\ listeners \in [Keys -> Seq(Regs)]
    /\ key \in [Regs -> UsedKeys \cup {NoKey}]
    /\ isOnce \subseteq Regs
    /\ interval \in BOOLEAN /\ isClosed \in BOOLEAN
    /\ poll \in {"idle", "askLedger", "ledger", "askEvents", "events", "delivering"}
    /\ answer \in [ledger: 0..MaxLedger, at: 0..MaxEvents, cursor: NoCursor..MaxEvents]
    /\ lastLedger \in 0..MaxLedger
    /\ lastCursor \in NoCursor..MaxEvents
    /\ emits \in Seq(Keys)
    /\ calls \in Seq(Regs)
    /\ delivered \in [Regs -> Seq(1..MaxEvents)]

\* The events a listener of "name" or "event:name" is there for.
Matching == {i \in DOMAIN chain : chain[i].kind = "named"}

\* A listener of one event name is called in order, once for each matching event
\* and without a gap, from its first to the last the emitter has read (to its
\* last, once removed or while a page is being delivered): over pages, failed
\* requests, stops and restarts, and whatever the listeners called with it do.
NamedInOrderWithoutGaps ==
    \A r \in Regs : Named(r) /\ delivered[r] # <<>> =>
        LET first == Head(delivered[r])
            last  == IF Listed(r) /\ poll # "delivering" THEN lastCursor ELSE Last(delivered[r])
        IN  /\ \A m, n \in DOMAIN delivered[r] : m < n => delivered[r][m] < delivered[r][n]
            /\ ToSet(delivered[r]) = {i \in Matching : first <= i /\ i <= last}

\* A listener of one event name added by once is called once at most.
NamedOnceCalledOnce == \A r \in isOnce : Named(r) => Len(delivered[r]) <= 1

\* A closed emitter has let go of its timer and its listeners for good.
ClosedIsReleased == isClosed => ~interval /\ \A k \in Keys : listeners[k] = <<>>

\* Listeners get what they were added for and no more: each event of their name
\* once and in order, one event for those added by once, none after close.
ListenersServed == NamedInOrderWithoutGaps /\ NamedOnceCalledOnce /\ ClosedIsReleased

\* An event the emitter has yet to read.
Due(i) ==
    /\ i \in Matching
    /\ IF lastCursor = NoCursor
       THEN lastLedger # 0 /\ chain[i].ledger >= lastLedger
       ELSE i > lastCursor

\* No event is lost: one that happens once polling has begun reaches every
\* listener of its name that was there, unless that listener is removed or the
\* emitter stopped.
EventuallyDelivered ==
    \A r \in Regs, i \in 1..MaxEvents :
        (Due(i) /\ Named(r) /\ Listed(r))
            ~> (i \in ToSet(delivered[r]) \/ ~Listed(r) \/ ~interval)
===============================================================================
