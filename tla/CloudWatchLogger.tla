--------------------------- MODULE CloudWatchLogger ---------------------------
(***************************************************************************)
(* Shipping of log entries (src/utils/logging/cloudwatch/                  *)
(* cloudWatchLogger.ts).  log, the interval timer and destroy flush the    *)
(* queue, and nothing keeps one flush from starting while another waits    *)
(* for its answer; the same goes for the initialization, which every log   *)
(* awaits until one of them is done.                                       *)
(*                                                                         *)
(* An entry is its number, in the order log was called.  The service is    *)
(* external: it stores a batch and answers, stores it and the answer is    *)
(* lost, or does not store it.  Sequence tokens are left out.              *)
(***************************************************************************)
EXTENDS Naturals, Sequences, SequencesExt, FiniteSets, FiniteSetsExt

CONSTANTS
    MaxEntries,     \* bound: calls of log
    BatchLimit,     \* batchSize
    MaxAttempts,    \* maxRetries: attempts to put a batch
    MaxFlushes      \* bound: flushes at once

ASSUME LoggerAssumption ==
    /\ MaxEntries \in Nat /\ MaxFlushes \in Nat
    /\ BatchLimit \in Nat \ {0} /\ MaxAttempts \in Nat \ {0}

VARIABLES
    logged,         \* calls of log so far
    initializing,   \* entries whose log awaits its own initialization, and how far that is
    hasClient,      \* client is set
    isInitialized,
    isDestroyed,
    flushTimer,
    logQueue,
    flushes,        \* flushes under way: batch, attempt, whether its request is out, and
                    \* whether destroy awaits it
    delivered,      \* history: batches the service has stored
    rejected        \* history: entries whose log failed

lgVars == <<logged, initializing, hasClient, isInitialized, isDestroyed, flushTimer,
            logQueue, flushes, delivered, rejected>>

Entries == 1..MaxEntries
NoEntry == 0

LGInit ==
    /\ logged = 0
    /\ initializing = [e \in {} |-> "importing"]
    /\ hasClient = FALSE
    /\ isInitialized = FALSE
    /\ isDestroyed = FALSE
    /\ flushTimer = FALSE
    /\ logQueue = <<>>
    /\ flushes = <<>>
    /\ delivered = {}
    /\ rejected = {}

\* flush of a queue: what stays, and what is in flight.
TakeBatch(queue) == SubSeq(queue, 1, Min({BatchLimit, Len(queue)}))
Flush(queue, closing) ==
    IF ~hasClient \/ queue = <<>>
    THEN logQueue' = queue /\ UNCHANGED flushes
    ELSE /\ Len(flushes) < MaxFlushes
         /\ logQueue' = SubSeq(queue, Len(TakeBatch(queue)) + 1, Len(queue))
         /\ flushes' = Append(flushes, [batch |-> TakeBatch(queue), attempt |-> 1, sent |-> FALSE,
                                     closing |-> closing])

\* The end of log: the entry joins the queue.
Push(e) ==
    LET queue == Append(logQueue, e)
    IN  IF Len(queue) >= BatchLimit THEN Flush(queue, FALSE)
        ELSE logQueue' = queue /\ UNCHANGED flushes

\* log: it awaits initialize, which returns at once after destroy.
Log ==
    /\ logged < MaxEntries
    /\ logged' = logged + 1
    /\ IF isInitialized \/ isDestroyed
       THEN Push(logged') /\ UNCHANGED initializing
       ELSE /\ initializing' = [e \in DOMAIN initializing \cup {logged'} |->
                                  IF e = logged' THEN "importing" ELSE initializing[e]]
            /\ UNCHANGED <<logQueue, flushes>>
    /\ UNCHANGED <<hasClient, isInitialized, isDestroyed, flushTimer, delivered, rejected>>

Forget(e) == initializing' = [f \in DOMAIN initializing \ {e} |-> initializing[f]]

\* initialize after the import: the client is there before the log stream is.
ClientCreated(e) ==
    /\ e \in DOMAIN initializing /\ initializing[e] = "importing"
    /\ initializing' = [initializing EXCEPT ![e] = "ensuring"]
    /\ hasClient' = TRUE
    /\ UNCHANGED <<logged, isInitialized, isDestroyed, flushTimer, logQueue, flushes, delivered, rejected>>

\* initialize ends, also after a destroy meanwhile, and log goes on.
Initialized(e) ==
    /\ e \in DOMAIN initializing /\ initializing[e] = "ensuring"
    /\ flushTimer' = TRUE
    /\ isInitialized' = TRUE
    /\ Push(e)
    /\ Forget(e)
    /\ UNCHANGED <<logged, hasClient, isDestroyed, delivered, rejected>>

\* The import or a request fails (the client may be gone), and log with it.
InitializeFails(e) ==
    /\ e \in DOMAIN initializing
    /\ rejected' = rejected \cup {e}
    /\ Forget(e)
    /\ UNCHANGED <<logged, hasClient, isInitialized, isDestroyed, flushTimer, logQueue, flushes, delivered>>

TimerFires ==
    /\ flushTimer /\ logQueue # <<>>
    /\ Flush(logQueue, FALSE)
    /\ UNCHANGED <<logged, initializing, hasClient, isInitialized, isDestroyed, flushTimer,
                   delivered, rejected>>

\* destroy, up to the flush it awaits; with nothing to flush it ends at once.
Destroy ==
    /\ ~isDestroyed
    /\ isDestroyed' = TRUE
    /\ flushTimer' = FALSE
    /\ Flush(logQueue, TRUE)
    /\ hasClient' = (hasClient /\ logQueue # <<>>)
    /\ UNCHANGED <<logged, initializing, isInitialized, delivered, rejected>>

FlushOver(k) ==
    /\ flushes' = RemoveAt(flushes, k)
    /\ hasClient' = (hasClient /\ ~flushes[k].closing)

\* Mutant: a batch that failed is not queued again.
RequeueNot(batch) == UNCHANGED logQueue

Requeue(batch) == logQueue' = batch \o logQueue

\* putLogEventsWithRetry makes its request, later than it is called.
PutSent(k) ==
    /\ k \in DOMAIN flushes /\ ~flushes[k].sent /\ hasClient
    /\ flushes' = [flushes EXCEPT ![k].sent = TRUE]
    /\ UNCHANGED <<logged, initializing, hasClient, isInitialized, isDestroyed, flushTimer,
                   logQueue, delivered, rejected>>

\* The answer: the batch is stored.
PutSucceeds(k) ==
    /\ k \in DOMAIN flushes /\ flushes[k].sent
    /\ delivered' = delivered \cup {flushes[k].batch}
    /\ FlushOver(k)
    /\ UNCHANGED <<logged, initializing, isInitialized, isDestroyed, flushTimer, logQueue, rejected>>

\* The request fails, maybe after the batch was stored, or it cannot be made
\* without a client.  It is repeated; after the last attempt the batch goes back,
\* and so it does when the token of a refused request cannot be looked up.
PutFails(k, again) ==
    /\ k \in DOMAIN flushes
    /\ again => flushes[k].attempt < MaxAttempts
    /\ again \/ flushes[k].attempt = MaxAttempts \/ flushes[k].sent
    /\ \/ (flushes[k].sent \/ ~hasClient) /\ UNCHANGED delivered
       \/ flushes[k].sent /\ delivered' = delivered \cup {flushes[k].batch}
    /\ IF again
       THEN /\ flushes' = [flushes EXCEPT ![k].attempt = @ + 1, ![k].sent = FALSE]
            /\ UNCHANGED <<hasClient, logQueue>>
       ELSE FlushOver(k) /\ Requeue(flushes[k].batch)
    /\ UNCHANGED <<logged, initializing, isInitialized, isDestroyed, flushTimer, rejected>>

LGSystem ==
    \/ \E e \in Entries : ClientCreated(e) \/ Initialized(e) \/ InitializeFails(e)
    \/ TimerFires
    \/ \E k \in 1..MaxFlushes : PutSent(k) \/ PutSucceeds(k) \/ \E again \in BOOLEAN : PutFails(k, again)

LGNext == LGSystem \/ Log \/ Destroy

-------------------------------------------------------------------------------
InFlight == UNION {ToSet(flushes[k].batch) : k \in DOMAIN flushes}

LGTypeOK ==
    /\ logged \in 0..MaxEntries
    /\ initializing \in [DOMAIN initializing -> {"importing", "ensuring"}]
    /\ DOMAIN initializing \subseteq 1..logged
    /\ logQueue \in Seq(Entries)
    /\ flushes \in Seq([batch : Seq(Entries), attempt : 1..MaxAttempts,
                        sent : BOOLEAN, closing : BOOLEAN])
    /\ delivered \subseteq Seq(Entries) /\ rejected \subseteq Entries
    /\ {hasClient, isInitialized, isDestroyed, flushTimer} \subseteq BOOLEAN

\* However initializations, flushes and destroy overlap, an entry whose log has
\* not failed is in one place (its call, the queue, a batch in flight) until a
\* batch with it has been stored, and never in two.
EntriesKept ==
    /\ 1..logged \subseteq DOMAIN initializing \cup ToSet(logQueue) \cup InFlight
                           \cup (UNION {ToSet(b) : b \in delivered}) \cup rejected
    /\ Cardinality(ToSet(logQueue)) = Len(logQueue)
    /\ ToSet(logQueue) \cap InFlight = {}
    /\ \A k, l \in DOMAIN flushes :
          k # l => ToSet(flushes[k].batch) \cap ToSet(flushes[l].batch) = {}
===============================================================================
