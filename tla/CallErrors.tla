------------------------------- MODULE CallErrors -------------------------------
(***************************************************************************)
(* What a failure of the network becomes on its way through the client,    *)
(* and how often a call is made again for it.                              *)
(*                                                                         *)
(* Two loops are nested: inside an operation of StellarClient              *)
(* (src/client/stellarClient.ts) runs retry (src/utils/httpInterceptor.ts), *)
(* which judges by the status of the raw failure; around the operation     *)
(* runs withRetry of the application (src/retry), which judges by the      *)
(* error the operation made of it (src/errors/axionveraError.ts).          *)
(*                                                                         *)
(* Delays are left out, as is the middleware of the client.                *)
(***************************************************************************)
EXTENDS Integers, FiniteSets

CONSTANTS
    FailureStatuses,    \* HTTP statuses a failure may carry
    InnerRetries,       \* maxRetries to choose from; 0 is also a retry that is not enabled
    MaxRounds           \* attempts of the outer loop

ASSUME CallErrorsAssumption ==
    /\ FailureStatuses \subseteq Nat \ {0} /\ MaxRounds \in Nat \ {0}
    /\ InnerRetries \subseteq Nat /\ InnerRetries # {}

VARIABLES
    rpcCall,        \* [operation, meta, retries], once made
    lastAnswer,          \* the last answer, until the call is sent again
    tries,          \* of the inner loop, in this round
    rounds,         \* of the outer loop
    timesSent,      \* history
    rejection,      \* the error the operation rejected with, until then
    repeatedAfter,  \* history: kinds of answers after which the call was sent again
    ecPhase         \* "none", "asking", "waiting" in the inner loop, "sleeping" in the
                    \* outer one, "resolved", "rejected"

ecVars == <<rpcCall, lastAnswer, tries, rounds, timesSent, rejection, repeatedAfter, ecPhase>>

NoStatus == 0
Retrying == {"getHealth", "getNetwork", "getLatestLedger", "getAccount", "getTransaction"}
RpcOperations == Retrying \cup {"simulateTransaction", "prepareTransaction", "prepareFeeBump", "sendTransaction",
                                   "fundAccount"}
RpcCalls == [operation : RpcOperations, meta : BOOLEAN, retries : InnerRetries]

\* A failure has a status or none, may have a code like ECONNRESET and a request
\* id, and its message speaks of a timeout, of funds, of a signature or of none.
FailureWords == {"timeout", "funds", "signature", "other"}
Failures == [kind : {"failure"}, status : FailureStatuses \cup {NoStatus}, coded : BOOLEAN,
             words : FailureWords, identified : BOOLEAN]
Plain(kind) == [kind |-> kind, status |-> NoStatus, coded |-> FALSE, words |-> "other", identified |-> FALSE]

\* What may come back: success, a failure, an answer of the wrong shape where the
\* shape is looked at, or a simulation the contract refused.
RpcAnswers(operation) ==
    Failures \cup {Plain("success")}
    \cup {Plain("mismatch") : o \in {operation} \cap
            {"getHealth", "getTransaction", "simulateTransaction", "prepareTransaction"}}
    \cup {Plain("refused") : o \in {operation} \cap {"simulateTransaction", "prepareTransaction"}}

SdkError(name, status, identified) == [name |-> name, status |-> status, identified |-> identified]
NotRejected == SdkError("none", NoStatus, FALSE)

ToAxionveraError(raw) ==
    SdkError(CASE raw.status \in {401, 403} -> "AuthenticationError"
               [] raw.status = 429 -> "RateLimitError"
               [] raw.status \in 400..499 \ {401, 403, 429} -> "ValidationError"
               [] raw.status = NoStatus \/ raw.status >= 500 -> "NetworkError"
               [] OTHER -> IF raw.coded THEN "NetworkError" ELSE "AxionveraError",
             raw.status, raw.identified)

NormalizeTransactionError(raw) ==
    SdkError(CASE raw.words = "funds" -> "InsufficientFundsError"
               [] raw.words = "signature" -> "InvalidSignatureError"
               [] raw.words = "timeout" -> "TimeoutError"
               [] raw.words = "other" -> "TransactionError", NoStatus, FALSE)

\* validateRpcResponse throws; what is not a failure is left to the operation.
FromAnswer(given) ==
    IF given.kind = "failure" THEN ToAxionveraError(given)
    ELSE SdkError("RPCValidationMismatchError", NoStatus, FALSE)

GetHealthError(given, meta) ==
    LET error == FromAnswer(given) IN
    IF meta /\ ~error.identified THEN SdkError("AxionveraRPCError", error.status, TRUE) ELSE error

SimulationError(given, meta) ==
    IF given.kind = "mismatch" /\ ~meta THEN FromAnswer(given)
    ELSE SdkError("SimulationFailedError", NoStatus, meta)

\* fundAccount of src/client/faucetClient.ts, on a network that has a faucet.
FaucetError(raw) ==
    SdkError(IF raw.status = 429 THEN "FaucetRateLimitError" ELSE "AxionveraError", raw.status, FALSE)

\* The error an operation rejects with.
Rejects(call, given) ==
    CASE call.operation = "getHealth" -> GetHealthError(given, call.meta)
      [] call.operation \in {"getNetwork", "getLatestLedger"} ->
            SdkError("AxionveraRPCError", NoStatus, call.meta)
      [] call.operation \in {"getAccount", "getTransaction", "prepareFeeBump"} -> FromAnswer(given)
      [] call.operation = "simulateTransaction" -> SimulationError(given, call.meta)
      [] call.operation = "prepareTransaction" -> SimulationError(given, FALSE)
      [] call.operation = "sendTransaction" -> NormalizeTransactionError(given)
      [] call.operation = "fundAccount" -> FaucetError(given)

HttpRetryable == {429, 500, 502, 503, 504}

\* RETRYABLE_STATUS_CODES, and the names that settle the matter before them.
RetryableStatusCodes == {408, 425, 429, 500, 502, 503, 504}
RetryableNames ==
    {"NetworkError", "TimeoutError", "TransactionTimeoutError", "RateLimitError",
     "FaucetRateLimitError", "RpcError", "AxionveraRPCError"}
NonRetryableNames ==
    {"ValidationError", "AuthenticationError", "InvalidXDRError", "InvalidSignatureError",
     "InsufficientFundsError", "NetworkMismatchError", "InsecureNetworkError",
     "WalletNotInstalledError", "ContractError"}

ErrorRetryable(error) ==
    /\ error.name \notin NonRetryableNames
    /\ error.name \in RetryableNames \/ error.status \in RetryableStatusCodes

ECInit ==
    /\ rpcCall = [operation |-> "getHealth", meta |-> FALSE, retries |-> CHOOSE n \in InnerRetries : TRUE]
    /\ lastAnswer = Plain("success")
    /\ tries = 0 /\ rounds = 0 /\ timesSent = 0
    /\ rejection = NotRejected
    /\ repeatedAfter = {}
    /\ ecPhase = "none"

MakeCall(call) ==
    /\ ecPhase = "none"
    /\ rpcCall' = call
    /\ tries' = 1 /\ rounds' = 1 /\ timesSent' = 1
    /\ ecPhase' = "asking"
    /\ UNCHANGED <<lastAnswer, rejection, repeatedAfter>>

\* retry waits if the status is one to wait for and tries are left; otherwise the
\* operation rejects, and withRetry sleeps or gives up.
AnswerComes(given) ==
    /\ ecPhase = "asking"
    /\ lastAnswer' = given
    /\ IF given.kind = "success" THEN ecPhase' = "resolved" /\ UNCHANGED rejection
       ELSE IF /\ rpcCall.operation \in Retrying
               /\ given.status \in HttpRetryable
               /\ tries <= rpcCall.retries
       THEN ecPhase' = "waiting" /\ UNCHANGED rejection
       ELSE /\ rejection' = Rejects(rpcCall, given)
            /\ ecPhase' = IF rounds < MaxRounds /\ ErrorRetryable(rejection') THEN "sleeping" ELSE "rejected"
    /\ UNCHANGED <<rpcCall, tries, rounds, timesSent, repeatedAfter>>

\* Transient is what the lists of statuses, the lack of one, or the code of a lost
\* connection say of a failure, and any failure of the server's own: 501 and the
\* like are on no list, but become a NetworkError.
Kind(given) ==
    [transient |-> /\ given.kind = "failure"
                   /\ \/ given.status \in RetryableStatusCodes \cup {NoStatus} \/ given.status >= 500
                      \/ given.coded /\ given.status \notin 400..499,
     timedOut |-> given.words = "timeout"]

SendAgain ==
    /\ ecPhase \in {"waiting", "sleeping"}
    /\ IF ecPhase = "waiting" THEN tries' = tries + 1 /\ UNCHANGED rounds
       ELSE tries' = 1 /\ rounds' = rounds + 1
    /\ timesSent' = timesSent + 1
    /\ repeatedAfter' = repeatedAfter \cup {Kind(lastAnswer)}
    /\ lastAnswer' = Plain("success") /\ rejection' = NotRejected
    /\ ecPhase' = "asking"
    /\ UNCHANGED rpcCall

CallAnswered == \E given \in RpcAnswers(rpcCall.operation) : AnswerComes(given)
ECSystem == SendAgain \/ CallAnswered
ECNext == ECSystem \/ \E call \in RpcCalls : MakeCall(call)
ECOver == ecPhase \notin {"asking", "waiting", "sleeping"}

-------------------------------------------------------------------------------
\* The errors an operation may reject with, and none.
ErrorNames ==
    RetryableNames \cup NonRetryableNames
    \cup {"none", "AxionveraError", "TransactionError", "RPCValidationMismatchError", "SimulationFailedError"}
SdkErrors == [name : ErrorNames, status : FailureStatuses \cup {NoStatus}, identified : BOOLEAN]

ECTypeOK ==
    /\ rpcCall \in RpcCalls
    /\ lastAnswer \in RpcAnswers(rpcCall.operation)
    /\ {tries, rounds, timesSent} \subseteq Nat
    /\ rejection \in SdkErrors
    /\ repeatedAfter \subseteq [transient : BOOLEAN, timedOut : BOOLEAN]
    /\ ecPhase \in {"none", "asking", "waiting", "sleeping", "resolved", "rejected"}

\* Operations that make an AxionveraRPCError of whatever they meet, which is
\* retryable by its name.
Disguised(call) == call.operation \in {"getNetwork", "getLatestLedger"} \/ (call.operation = "getHealth" /\ call.meta)

\* Through both loops: a call is repeated only for what is transient, unless its
\* operation disguises what it met; a transaction is sent again only after errors
\* that speak of a timeout, and simulated once only.  The loops together send no
\* more often than the product of what each may.  Of a call that failed, the
\* error still has the status it failed with, unless the operation drops it, and
\* a read is not given up on a server that is overloaded while attempts are left.
FailuresJudged ==
    /\ \A kind \in repeatedAfter :
          IF rpcCall.operation = "sendTransaction" THEN kind.timedOut
          ELSE Disguised(rpcCall) \/ kind.transient
    /\ rpcCall.operation \in {"simulateTransaction", "prepareTransaction"} => timesSent <= 1
    /\ timesSent <= MaxRounds * (IF rpcCall.operation \in Retrying THEN rpcCall.retries + 1 ELSE 1)
    /\ ecPhase = "rejected" =>
          /\ rpcCall.operation \in {"getHealth", "getAccount", "getTransaction", "prepareFeeBump", "fundAccount"} =>
                rejection.status = lastAnswer.status
          /\ rpcCall.operation \in Retrying /\ lastAnswer.status \in HttpRetryable =>
                timesSent >= MaxRounds + rpcCall.retries
===============================================================================
