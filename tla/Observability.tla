----------------------------- MODULE Observability -----------------------------
(***************************************************************************)
(* What the SDK keeps about its own work, the events of its telemetry and  *)
(* the spans of its tracer, of which memory holds only so many.            *)
(***************************************************************************)
EXTENDS Naturals, Sequences, SequencesExt, FiniteSets, FiniteSetsExt

(***************************************************************************)
(* TelemetryService (src/telemetry/telemetryService.ts): a buffer flushed  *)
(* when it is full, by a timer, and when the service is destroyed.         *)
(*                                                                         *)
(* Everything is synchronous.  A flush empties the buffer before it calls  *)
(* the handler and does nothing after, so what a handler does is as if     *)
(* done next.  Events are numbers in the order of tracking; their content  *)
(* is left out.                                                            *)
(***************************************************************************)
CONSTANTS
    BufferSizes,    \* values of bufferSize
    MaxTracked      \* bound: events tracked

ASSUME TelemetryAssumption == BufferSizes \subseteq Nat /\ MaxTracked \in Nat

VARIABLES
    collecting,     \* config: [enabled, size]
    tracked,        \* eventCounter
    buffered,       \* events
    handler,        \* a flush handler has been set
    telemetryTimer, \* there is an interval in flushTimer
    intervals,      \* history: intervals that have been set and not cleared
    handedOver,     \* history: events given to the handler
    discarded,      \* history: events flushed when there was none
    destroyed       \* history: destroy has been called since the last start of the timer

tmVars == <<collecting, tracked, buffered, handler, telemetryTimer, intervals, handedOver, discarded, destroyed>>

TMInit ==
    /\ collecting \in [enabled : BOOLEAN, size : BufferSizes]
    /\ tracked = 0
    /\ buffered = <<>>
    /\ handler = FALSE
    /\ telemetryTimer = collecting.enabled
    /\ intervals = IF telemetryTimer THEN 1 ELSE 0
    /\ handedOver = {}
    /\ discarded = {}
    /\ destroyed = FALSE

\* flush, of a buffer just added to or not.  What the handler throws is ignored.
FlushEvents(events) ==
    /\ buffered' = <<>>
    /\ IF handler THEN handedOver' = handedOver \cup ToSet(events) /\ UNCHANGED discarded
       ELSE discarded' = discarded \cup ToSet(events) /\ UNCHANGED handedOver
KeepEvents(events) == buffered' = events /\ UNCHANGED <<handedOver, discarded>>

StopTimer ==
    /\ telemetryTimer' = FALSE
    /\ intervals' = IF telemetryTimer THEN intervals - 1 ELSE intervals
StartTimer ==
    /\ telemetryTimer' = TRUE
    /\ intervals' = (IF telemetryTimer THEN intervals - 1 ELSE intervals) + 1
    /\ destroyed' = FALSE

Track ==
    /\ collecting.enabled /\ tracked < MaxTracked
    /\ tracked' = tracked + 1
    /\ LET events == Append(buffered, tracked')
       IN  IF Len(events) >= collecting.size THEN FlushEvents(events) ELSE KeepEvents(events)
    /\ UNCHANGED <<collecting, handler, telemetryTimer, intervals, destroyed>>

SetEnabled(enabled) ==
    /\ collecting' = [collecting EXCEPT !.enabled = enabled]
    /\ IF enabled THEN StartTimer ELSE StopTimer /\ UNCHANGED destroyed
    /\ UNCHANGED <<tracked, buffered, handler, handedOver, discarded>>

\* updateConfig flushes what was collected when it ends collecting, as
\* setEnabled does not.  A timer that runs keeps its interval.
UpdateTelemetry(config) ==
    /\ collecting' = config
    /\ CASE ~collecting.enabled /\ config.enabled -> StartTimer /\ KeepEvents(buffered)
         [] collecting.enabled /\ ~config.enabled -> StopTimer /\ FlushEvents(buffered) /\ UNCHANGED destroyed
         [] OTHER -> UNCHANGED <<telemetryTimer, intervals, destroyed>> /\ KeepEvents(buffered)
    /\ UNCHANGED <<tracked, handler>>

OnFlush ==
    /\ handler' = TRUE
    /\ UNCHANGED <<collecting, tracked, buffered, telemetryTimer, intervals, handedOver, discarded, destroyed>>

FlushByCaller ==
    /\ FlushEvents(buffered)
    /\ UNCHANGED <<collecting, tracked, handler, telemetryTimer, intervals, destroyed>>

FlushTimerFires ==
    /\ intervals > 0 /\ buffered # <<>>
    /\ FlushEvents(buffered)
    /\ UNCHANGED <<collecting, tracked, handler, telemetryTimer, intervals, destroyed>>

\* destroy leaves the service enabled: what is tracked next is still collected.
DestroyTelemetry ==
    /\ StopTimer
    /\ FlushEvents(buffered)
    /\ destroyed' = TRUE
    /\ UNCHANGED <<collecting, tracked, handler>>

TMNext ==
    \/ Track \/ OnFlush \/ FlushByCaller \/ FlushTimerFires \/ DestroyTelemetry
    \/ \E enabled \in BOOLEAN : SetEnabled(enabled)
    \/ \E config \in [enabled : BOOLEAN, size : BufferSizes] : UpdateTelemetry(config)

\* Nothing waits that a timer will not flush.
TMOver == buffered = <<>> \/ intervals = 0

-------------------------------------------------------------------------------
Tracked == 1..MaxTracked

TMTypeOK ==
    /\ collecting \in [enabled : BOOLEAN, size : BufferSizes]
    /\ tracked \in 0..MaxTracked /\ buffered \in Seq(Tracked)
    /\ {handler, telemetryTimer, destroyed} \subseteq BOOLEAN /\ intervals \in Nat
    /\ handedOver \subseteq Tracked /\ discarded \subseteq Tracked

Accounted(handed, lost, events, n) ==
    /\ handed \cup lost \cup ToSet(events) = 1..n
    /\ \A d \in lost, e \in handed \cup ToSet(events) : d < e
    /\ \A h \in handed, e \in ToSet(events) : h < e
    /\ \A i, j \in DOMAIN events : i < j => events[i] < events[j]

\* Every event tracked is buffered, has been handed over, or was flushed before
\* there was a handler, and only one of these; the buffer holds the latest, in
\* order, and what had no handler was earlier than all that had one.  Exactly one
\* interval runs while the service collects, until it is destroyed; none is lost
\* track of.
EventsAccounted ==
    /\ Accounted(handedOver, discarded, buffered, tracked)
    /\ intervals = IF telemetryTimer THEN 1 ELSE 0
    /\ telemetryTimer => collecting.enabled
    /\ collecting.enabled => telemetryTimer \/ destroyed

-------------------------------------------------------------------------------
(***************************************************************************)
(* The tracer and the methods it traces (src/observability/tracer.ts):     *)
(* a call begins a span and ends it when it returns, throws or settles.    *)
(*                                                                         *)
(* Calls and spans are numbers in the order of their beginning, which is   *)
(* that of their start times; times may be the same.  Tags are left out.   *)
(***************************************************************************)
CONSTANTS
    MaxSpans,
    MaxCalls        \* bound: traced calls

ASSUME TracerAssumption == MaxSpans \in Nat /\ MaxCalls \in Nat

VARIABLES
    tracing,        \* level is not "off"
    spanCounter,
    startTimes,     \* of the spans begun, in order
    activeSpans,
    spans,          \* those that have ended, in the order of the map
    running,        \* traced calls under way: the span each has, or NoSpan
    peak            \* history: the most spans active at once since the last clear

trVars == <<tracing, spanCounter, startTimes, activeSpans, spans, running, peak>>

NoSpan == 0
Spans == 1..spanCounter

TRInit ==
    /\ tracing \in BOOLEAN
    /\ spanCounter = 0
    /\ startTimes = <<>>
    /\ activeSpans = {}
    /\ spans = <<>>
    /\ running = <<>>
    /\ peak = 0

\* evictOldest: the first in the map of those that started first.
WithoutOldest(ended) ==
    LET time == Min({startTimes'[s] : s \in ToSet(ended)})
    IN  RemoveAt(ended, SelectInSeq(ended, LAMBDA s : startTimes'[s] = time))

\* startSpan.  The clock stands or goes on.
StartSpan ==
    /\ spanCounter' = spanCounter + 1
    /\ \E tick \in {0, 1} :
          startTimes' = Append(startTimes, (IF startTimes = <<>> THEN 0 ELSE Last(startTimes)) + tick)
    /\ activeSpans' = activeSpans \cup {spanCounter'}
    /\ spans' = IF Cardinality(activeSpans') + Len(spans) > MaxSpans /\ spans # <<>>
                THEN WithoutOldest(spans) ELSE spans
    /\ peak' = Max({peak, Cardinality(activeSpans')})

BeginTraced ==
    /\ Len(running) < MaxCalls
    /\ IF tracing THEN StartSpan /\ running' = Append(running, spanCounter')
       ELSE running' = Append(running, NoSpan) /\ UNCHANGED <<spanCounter, startTimes, activeSpans, spans, peak>>
    /\ UNCHANGED tracing

Over == MaxCalls + 1

\* The call is over: endSpan.
EndTraced(c) ==
    /\ c \in DOMAIN running /\ running[c] # Over
    /\ IF running[c] \in activeSpans
       THEN activeSpans' = activeSpans \ {running[c]} /\ spans' = Append(spans, running[c])
       ELSE UNCHANGED <<activeSpans, spans>>
    /\ running' = [running EXCEPT ![c] = Over]
    /\ UNCHANGED <<tracing, spanCounter, startTimes, peak>>

SetLevel(on) ==
    /\ tracing' = on
    /\ UNCHANGED <<spanCounter, startTimes, activeSpans, spans, running, peak>>

ClearSpans ==
    /\ activeSpans' = {} /\ spans' = <<>> /\ peak' = 0
    /\ UNCHANGED <<tracing, spanCounter, startTimes, running>>

TRNext ==
    \/ BeginTraced \/ ClearSpans
    \/ \E c \in 1..MaxCalls : EndTraced(c)
    \/ \E on \in BOOLEAN : SetLevel(on)

-------------------------------------------------------------------------------
TRTypeOK ==
    /\ tracing \in BOOLEAN /\ spanCounter \in 0..MaxCalls /\ peak \in 0..MaxCalls
    /\ startTimes \in [Spans -> Nat]
    /\ activeSpans \subseteq Spans /\ spans \in Seq(Spans) /\ IsInjective(spans)
    /\ running \in Seq({NoSpan, Over} \cup Spans)

\* Whatever overlaps, a span that is active is that of a call under way, and none
\* is both active and ended.  A call whose span is evicted has ended, so the tracer
\* holds no more than maxSpans but when more were active at once, and then no more
\* than those.
SpansOfRunningCalls ==
    /\ activeSpans \subseteq ToSet(running)
    /\ activeSpans \cap ToSet(spans) = {}
    /\ Cardinality(activeSpans) + Len(spans) <= Max({MaxSpans, peak})
===============================================================================
