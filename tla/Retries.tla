-------------------------------- MODULE Retries --------------------------------
(***************************************************************************)
(* The two ways the SDK repeats what has failed: withRetry, a loop around  *)
(* any call, and the HTTP client that sends its requests again.            *)
(***************************************************************************)
EXTENDS Integers, FiniteSets, FiniteSetsExt

(***************************************************************************)
(* withRetry (src/retry/withRetry.ts) under its policies                   *)
(* (src/retry/policies.ts).  retry of src/utils/httpInterceptor.ts is the  *)
(* same loop without a budget, a signal and a cap of its own.              *)
(*                                                                         *)
(* An attempt answers after any time up to SlowestAttempt; a timer may     *)
(* fire a unit late.  An error is retryable or not.                        *)
(***************************************************************************)
CONSTANTS
    Caps,           \* caps to choose from, of the policy and of the call
    Budgets,        \* time budgets to choose from
    BaseDelay, MaxDelay,
    SlowestAttempt  \* bound: how long an attempt may take

ASSUME RetryAssumption ==
    /\ Caps \subseteq Nat \ {0} /\ Budgets \subseteq Nat
    /\ BaseDelay \in Nat /\ MaxDelay \in Nat /\ SlowestAttempt \in Nat

VARIABLES
    limits,         \* [policy, call, budget]
    attempt,
    elapsed,        \* time since the call
    wakeAt,         \* when the sleep is to end
    signalled,      \* the signal is aborted
    retryable,      \* history: the last error was
    late,           \* history: an attempt was begun after the abort
    rtPhase         \* "none", "head", "attempting", "sleeping", or the outcome:
                    \* "resolved", "failed", "timedOut", "aborted", "hookThrew"

rtVars == <<limits, attempt, elapsed, wakeAt, signalled, retryable, late, rtPhase>>

\* The cap of a call and its budget may not be set.
Unbounded == -1
Limits == [policy : Caps, call : Caps \cup {Unbounded}, budget : Budgets \cup {Unbounded}]

RTInit ==
    /\ limits \in Limits
    /\ attempt = 1
    /\ elapsed = 0
    /\ wakeAt = 0
    /\ signalled = FALSE
    /\ retryable = TRUE
    /\ late = FALSE
    /\ rtPhase = "none"

WithRetry ==
    /\ rtPhase = "none"
    /\ rtPhase' = "head"
    /\ UNCHANGED <<limits, attempt, elapsed, wakeAt, signalled, retryable, late>>

Attempt ==
    /\ rtPhase = "head"
    /\ rtPhase' = IF signalled THEN "aborted" ELSE "attempting"
    /\ late' = (late \/ (signalled /\ rtPhase' = "attempting"))
    /\ UNCHANGED <<limits, attempt, elapsed, wakeAt, signalled, retryable>>

Succeed ==
    /\ rtPhase = "attempting"
    /\ rtPhase' = "resolved"
    /\ UNCHANGED <<limits, attempt, elapsed, wakeAt, signalled, retryable, late>>

\* nextDelayMs: the exponential delay, capped, with any jitter.
Delays(n) == {delay \in 0..MaxDelay : delay <= BaseDelay * 2 ^ (n - 1)}

Capped == attempt >= limits.policy \/ (limits.call # Unbounded /\ attempt >= limits.call)

\* The attempt fails.  The loop gives up, is out of time, or sleeps, no longer
\* than to the end of its budget; onRetry may throw, and an abort that came
\* during the attempt ends the sleep before it begins.
Fail ==
    /\ rtPhase = "attempting"
    /\ \E took \in 0..SlowestAttempt : elapsed' = elapsed + took
    /\ retryable' \in BOOLEAN
    /\ IF Capped \/ ~retryable'
       THEN rtPhase' = "failed" /\ UNCHANGED wakeAt
       ELSE IF limits.budget # Unbounded /\ elapsed' >= limits.budget
       THEN rtPhase' = "timedOut" /\ UNCHANGED wakeAt
       ELSE /\ rtPhase' \in {"hookThrew", IF signalled THEN "aborted" ELSE "sleeping"}
            /\ \E delay \in Delays(attempt) :
                  wakeAt' = IF limits.budget = Unbounded THEN elapsed' + delay
                            ELSE Min({elapsed' + delay, limits.budget})
    /\ UNCHANGED <<limits, attempt, signalled, late>>

Wake ==
    /\ rtPhase = "sleeping"
    /\ rtPhase' = "head"
    /\ elapsed' \in {wakeAt, wakeAt + 1}
    /\ attempt' = attempt + 1
    /\ UNCHANGED <<limits, wakeAt, signalled, retryable, late>>

\* The signal ends a sleep at once, and is noticed elsewhere at the next look.
Abort ==
    /\ ~signalled
    /\ signalled' = TRUE
    /\ rtPhase' = IF rtPhase = "sleeping" THEN "aborted" ELSE rtPhase
    /\ UNCHANGED <<limits, attempt, elapsed, wakeAt, retryable, late>>

AttemptSettles == Succeed \/ Fail
RTSystem == Attempt \/ AttemptSettles \/ Wake
RTNext == RTSystem \/ WithRetry \/ Abort
RTOver == rtPhase \notin {"head", "attempting", "sleeping"}

-------------------------------------------------------------------------------
RTTypeOK ==
    /\ limits \in Limits /\ attempt \in Nat \ {0}
    /\ elapsed \in Nat /\ wakeAt \in Nat
    /\ {signalled, retryable, late} \subseteq BOOLEAN
    /\ rtPhase \in {"none", "head", "attempting", "sleeping",
                    "resolved", "failed", "timedOut", "aborted", "hookThrew"}

\* The loop keeps to its limits: no more attempts than the stricter cap, no
\* sleep past the budget, no attempt after an abort; and it gives up for a
\* reason: an error that is not retryable, a cap, the budget or the signal.
RetryKeepsLimits ==
    /\ attempt <= limits.policy
    /\ limits.call # Unbounded => attempt <= limits.call
    /\ rtPhase = "sleeping" /\ limits.budget # Unbounded => wakeAt <= limits.budget
    /\ ~late
    /\ rtPhase = "failed" /\ retryable => attempt \in {limits.policy, limits.call}
    /\ rtPhase = "timedOut" => elapsed >= limits.budget
    /\ rtPhase = "aborted" => signalled

-------------------------------------------------------------------------------
(***************************************************************************)
(* The HTTP client that retries by itself: createHttpClientWithRetry of    *)
(* src/utils/httpInterceptor.ts, and its variant in packages/core, which   *)
(* jitters its delays and obeys a Retry-After.  Each request has its own   *)
(* _retryCount, so one request is enough.                                  *)
(*                                                                         *)
(* A server may carry out a request and its answer still be an error, or   *)
(* be lost.  Times are in tenths.                                          *)
(***************************************************************************)
CONSTANTS
    Methods, RetryableMethods,
    MaxRetries,
    HttpBaseDelay, HttpMaxDelay,
    RetryAfters         \* delays a server may ask for

ASSUME HttpAssumption ==
    /\ RetryableMethods \subseteq Methods
    /\ MaxRetries \in Nat /\ HttpBaseDelay \in Nat /\ HttpMaxDelay \in Nat
    /\ RetryAfters \subseteq Nat

VARIABLES
    variant,        \* [enabled, obeys]: the configuration, and whether it is that of packages/core
    httpRequest,    \* method of the request
    sends,          \* times it has been sent
    retryCount,     \* _retryCount
    carriedOut,     \* history: times the server has carried it out
    answer,         \* the last answer: [status, after]
    waiting,        \* the delay before the next time
    hrPhase         \* "none", "sent", "waiting", "resolved", "rejected"

hrVars == <<variant, httpRequest, sends, retryCount, carriedOut, answer, waiting, hrPhase>>

\* A status: success, one of retryableStatusCodes (429 apart), another, or none,
\* when there is no answer.
Statuses == {"ok", "busy", "429", "other", "none"}
NotAsked == -1
Answers == [status : Statuses, after : RetryAfters \cup {NotAsked}]

HRInit ==
    /\ variant \in [enabled : BOOLEAN, obeys : BOOLEAN]
    /\ httpRequest \in Methods
    /\ sends = 0
    /\ retryCount = 0
    /\ carriedOut = 0
    /\ answer = [status |-> "none", after |-> NotAsked]
    /\ waiting = 0
    /\ hrPhase = "none"

SendRequest ==
    /\ hrPhase \in {"none", "waiting"}
    /\ hrPhase' = "sent"
    /\ sends' = sends + 1
    /\ UNCHANGED <<variant, httpRequest, retryCount, carriedOut, answer, waiting>>

IsRetryable(status) ==
    /\ variant.enabled
    /\ httpRequest \in RetryableMethods
    /\ status \in {"busy", "429"}

\* The delay after so many retries, uncapped: baseDelayMs * 2 ^ n.
Exponential[n \in 0..MaxRetries] == IF n = 0 THEN HttpBaseDelay ELSE 2 * Exponential[n - 1]

\* calculateDelay, capped after the jitter of up to a tenth.
CalculateDelay(n) ==
    LET delay == Exponential[n - 1]
        jitters == IF variant.obeys THEN {-delay, 0, delay} ELSE {0}
    IN  {Min({10 * delay + jitter, 10 * HttpMaxDelay}) : jitter \in jitters}

DelaysAfter(a, n) ==
    IF variant.obeys /\ a.status = "429" /\ a.after # NotAsked
    THEN {10 * Min({a.after, HttpMaxDelay})}
    ELSE CalculateDelay(n)

Answered(a) ==
    /\ hrPhase = "sent"
    /\ answer' = a
    /\ carriedOut' \in CASE a.status = "ok" -> {carriedOut + 1}
                         [] a.status = "429" -> {carriedOut}
                         [] OTHER -> {carriedOut, carriedOut + 1}
    /\ IF a.status = "ok" THEN hrPhase' = "resolved" /\ UNCHANGED <<retryCount, waiting>>
       ELSE IF ~IsRetryable(a.status) \/ retryCount >= MaxRetries
       THEN hrPhase' = "rejected" /\ UNCHANGED <<retryCount, waiting>>
       ELSE /\ retryCount' = retryCount + 1
            /\ waiting' \in DelaysAfter(a, retryCount')
            /\ hrPhase' = "waiting"
    /\ UNCHANGED <<variant, httpRequest, sends>>

HRSystem == (hrPhase = "waiting" /\ SendRequest) \/ \E a \in Answers : Answered(a)
HRNext == HRSystem \/ SendRequest
HROver == hrPhase \notin {"sent", "waiting"}

-------------------------------------------------------------------------------
HRTypeOK ==
    /\ variant \in [enabled : BOOLEAN, obeys : BOOLEAN] /\ httpRequest \in Methods
    /\ {sends, retryCount, carriedOut} \subseteq Nat /\ waiting \in Nat
    /\ answer \in Answers
    /\ hrPhase \in {"none", "sent", "waiting", "resolved", "rejected"}

\* A request of another method than those to repeat is carried out once at most,
\* however its answer is lost, and any other is sent once more than there are
\* retries at most.  It resolves if the server has carried it out and said so;
\* it is given up for an error retrying cannot mend, or after all its retries.
\* No delay exceeds the cap, nor falls short of what the server asks for within it.
RequestsRepeatSafely ==
    /\ httpRequest \notin RetryableMethods => carriedOut <= 1
    /\ sends <= MaxRetries + 1 /\ carriedOut <= sends
    /\ hrPhase = "resolved" => carriedOut > 0 /\ answer.status = "ok"
    /\ hrPhase = "rejected" => answer.status # "ok" /\ (IsRetryable(answer.status) => sends = MaxRetries + 1)
    /\ waiting <= 10 * HttpMaxDelay
    /\ hrPhase = "waiting" /\ variant.obeys /\ answer.status = "429" =>
          waiting >= 10 * Min({answer.after, HttpMaxDelay})
===============================================================================
