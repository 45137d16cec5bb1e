---------------------------- MODULE ClientWorkflows ----------------------------
(***************************************************************************)
(* The parts of the SDK that share nothing with one another, in one        *)
(* specification: a behaviour is that of one of them, the subject, while   *)
(* the others stay as they were constructed.                               *)
(***************************************************************************)
EXTENDS BatchExecutor, MigrationRunner, EventRanges, CloudWatchLogger,
        AccountSequences, EnvironmentSwitching, TransactionLifecycle, Sessions, Retries,
        EventDelivery, AbiDetection, WalletProvider, VaultHook, TransactionFees,
        PluginDependencies, Observability, TestDoubles, CallErrors, OfflineSigning, Registries

VARIABLE subject

vars == <<subject, btVars, mgVars, erVars, lgVars, asVars, esVars, tlVars, ssVars, rtVars,
          edVars, adVars, wpVars, vhVars, tfVars, pdVars, hrVars, tmVars, xcVars, irVars,
          trVars, mkVars, ecVars, osVars, cdVars, arVars, ffVars>>

Subjects == {"batch", "migration", "events", "logger", "account", "environment", "lifecycle",
             "sessions", "retry", "delivery", "abi", "wallet", "hook", "fees",
             "dependencies", "http", "telemetry", "xdr", "replay", "tracing", "mock",
             "calls", "signing", "capabilities", "adapters", "flags"}

\* The parts that are not the subject start in one of their initial states only.
Init ==
    /\ subject \in Subjects
    /\ BTInit /\ MGInit /\ ERInit /\ LGInit /\ ASInit /\ ESInit /\ TLInit /\ SSInit /\ VHInit
    /\ RTInit /\ (subject # "retry" => limits = CHOOSE l \in Limits : TRUE)
    /\ EDInit /\ (subject # "delivery" => byDispatcher)
    /\ ADInit
    /\ subject # "abi" => /\ <<descriptors, order>> = CHOOSE r \in Registries : TRUE
                         /\ <<deployed, fallback>> = CHOOSE d \in Contract \X Fallbacks : TRUE
    /\ WPInit /\ (subject # "wallet" => usesFreighter /\ wallet = CHOOSE w \in Wallet : TRUE)
    /\ TFInit
    /\ subject # "fees" => /\ multiplier = CHOOSE m \in Multipliers : TRUE
                          /\ maxFeeLimit = NoLimit
    /\ PDInit /\ XCInit /\ IRInit /\ MKInit
    /\ HRInit /\ (subject # "http" => variant.enabled /\ variant.obeys /\ httpRequest = CHOOSE m \in Methods : TRUE)
    /\ TMInit
    /\ subject # "telemetry" => /\ ~collecting.enabled
                               /\ collecting.size = CHOOSE n \in BufferSizes : TRUE
    /\ TRInit /\ (subject # "tracing" => ~tracing)
    /\ ECInit /\ CDInit
    /\ OSInit /\ (subject # "signing" => builders[2] = builders[1])
    /\ ARInit /\ (subject # "adapters" => supporting = {} /\ configured = NoName)
    /\ FFInit
    /\ subject # "flags" => /\ definitions = [k \in BuiltInKeys |-> "stable"]
                           /\ overrides = <<>> /\ policy = DefaultPolicy

Next ==
    /\ UNCHANGED subject
    /\ IF subject = "batch" THEN BTNext ELSE UNCHANGED btVars
    /\ IF subject = "migration" THEN MGNext ELSE UNCHANGED mgVars
    /\ IF subject = "events" THEN ERNext ELSE UNCHANGED erVars
    /\ IF subject = "logger" THEN LGNext ELSE UNCHANGED lgVars
    /\ IF subject = "account" THEN ASNext ELSE UNCHANGED asVars
    /\ IF subject = "environment" THEN ESNext ELSE UNCHANGED esVars
    /\ IF subject = "lifecycle" THEN TLNext ELSE UNCHANGED tlVars
    /\ IF subject = "sessions" THEN SSNext ELSE UNCHANGED ssVars
    /\ IF subject = "retry" THEN RTNext ELSE UNCHANGED rtVars
    /\ IF subject = "delivery" THEN EDNext ELSE UNCHANGED edVars
    /\ IF subject = "abi" THEN ADNext ELSE UNCHANGED adVars
    /\ IF subject = "wallet" THEN WPNext ELSE UNCHANGED wpVars
    /\ IF subject = "hook" THEN VHNext ELSE UNCHANGED vhVars
    /\ IF subject = "fees" THEN TFNext ELSE UNCHANGED tfVars
    /\ IF subject = "dependencies" THEN PDNext ELSE UNCHANGED pdVars
    /\ IF subject = "http" THEN HRNext ELSE UNCHANGED hrVars
    /\ IF subject = "telemetry" THEN TMNext ELSE UNCHANGED tmVars
    /\ IF subject = "xdr" THEN XCNext ELSE UNCHANGED xcVars
    /\ IF subject = "replay" THEN IRNext ELSE UNCHANGED irVars
    /\ IF subject = "tracing" THEN TRNext ELSE UNCHANGED trVars
    /\ IF subject = "mock" THEN MKNext ELSE UNCHANGED mkVars
    /\ IF subject = "calls" THEN ECNext ELSE UNCHANGED ecVars
    /\ IF subject = "signing" THEN OSNext ELSE UNCHANGED osVars
    /\ IF subject = "capabilities" THEN CDNext ELSE UNCHANGED cdVars
    /\ IF subject = "adapters" THEN ARNext ELSE UNCHANGED arVars
    /\ IF subject = "flags" THEN FFNext ELSE UNCHANGED ffVars

\* What the SDK does by itself: loops go on, and timers fire, with them the timeout
\* of an account fetch and that of the HTTP client (httpInterceptor.ts:65).  Nothing
\* is assumed of what others are to do: answers of rpc.Server, which has no timeout
\* (serviceContainer.ts:20), of wallets, and of functions the SDK has been given.
Fairness ==
    /\ WF_btVars(subject = "batch" /\ (Skip \/ Unmet \/ Build))
    /\ \A f \in Fetches : WF_asVars(subject = "account" /\ FetchEnds(f))
    /\ WF_rtVars(subject = "retry" /\ (Attempt \/ Wake))
    /\ \A c \in 1..AbiCalls : WF_adVars(subject = "abi" /\ UseVersion(c))
    /\ \A e \in Executions : WF_vhVars(subject = "hook" /\ NextPoll(e))
    /\ WF_hrVars(subject = "http" /\ HRSystem)
    /\ WF_tmVars(subject = "telemetry" /\ FlushTimerFires)
    /\ WF_ecVars(subject = "calls" /\ SendAgain)

Spec == Init /\ [][Next]_vars /\ Fairness

-------------------------------------------------------------------------------
\* Every variable of every part keeps its type.
TypeOK ==
    /\ subject \in Subjects
    /\ BTTypeOK /\ MGTypeOK /\ ERTypeOK /\ LGTypeOK /\ ASTypeOK /\ ESTypeOK
    /\ TLTypeOK /\ SSTypeOK /\ RTTypeOK /\ EDTypeOK /\ ADTypeOK /\ WPTypeOK /\ VHTypeOK
    /\ TFTypeOK /\ PDTypeOK /\ HRTypeOK /\ TMTypeOK /\ XCTypeOK /\ IRTypeOK /\ TRTypeOK /\ MKTypeOK
    /\ ECTypeOK /\ OSTypeOK /\ CDTypeOK /\ ARTypeOK /\ FFTypeOK

\* What the workflows of many steps report, to their callers or on the screen, is
\* what happened, however their steps fail: batches, reads of a range of events,
\* retries, of HTTP requests too, the hooks that show a wallet and a transaction,
\* replays and the mock server they are tested with, and the spans of traced calls;
\* the errors that are thrown for a failure, what is looked up of capabilities,
\* adapters and flags, and migrations from one version to another.
OutcomesTruthful ==
    /\ BatchTruthful
    /\ RangeTruthful
    /\ RetryKeepsLimits
    /\ WalletShown
    /\ HookTruthful
    /\ RequestsRepeatSafely
    /\ ReplayJudged
    /\ MockDeterministic
    /\ SpansOfRunningCalls
    /\ FailuresJudged
    /\ CapabilitiesCurrent /\ AdapterFound /\ FlagsFollowDecisions
    /\ MigrationTruthful

\* What is handed over stays in somebody's hands: a log entry until it has been
\* stored, an open session until it is closed, a tracked event until it is flushed.
\* And what is told reaches everyone, though listeners that act on what they hear
\* might keep the others from hearing: of environments, of the transitions of a
\* transaction, and of contract events.
NothingLost ==
    /\ EntriesKept /\ SessionsKept /\ EventsAccounted
    /\ ClientFollows /\ TransitionsHeard /\ DeliveredOnce

\* What a transaction is made from can be relied on: the sequence number, though
\* fetches, fallbacks and submissions overlap, the ABI version detected of its
\* contract, the fees, the network it is signed for, and the values decoded from
\* XDR, of which the cache keeps those used last.
TransactionInputsSound ==
    /\ NumbersUsable /\ VersionCurrent /\ FeesBuffered /\ FeeValidated /\ CacheKeepsLatest
    /\ SignedForItsNetwork

\* A workflow that has begun ends if what it asks of others is answered in the
\* end, well or badly: a batch, a migration with its rollbacks, the read of a range,
\* a sequential submission, a loop of retries, a call with its retries, a replay and
\* the search for an adapter.  (Of the premises only the subject's says anything.)
AnsweredOperationsEnd ==
    /\ WF_btVars(subject = "batch" /\ Simulated)
    /\ WF_mgVars(subject = "migration" /\ MGSystem)
    /\ WF_erVars(subject = "events" /\ ERSystem)
    /\ WF_asVars(subject = "account" /\ ASSystem)
    /\ WF_rtVars(subject = "retry" /\ AttemptSettles)
    /\ WF_ecVars(subject = "calls" /\ CallAnswered)
    /\ WF_irVars(subject = "replay" /\ IRSystem)
    /\ WF_arVars(subject = "adapters" /\ Supports)
    => []<>(BTOver /\ MGOver /\ EROver /\ sending = <<>> /\ RTOver /\ ECOver /\ IROver /\ AROver)

\* A call that detects a version, a read of a wallet, and a deposit or withdrawal
\* end if what they ask themselves is answered: that the request of another one
\* hangs, which may share the cache or the screen with them, holds up none.
OverlappingOperationsEnd ==
    \A n \in 1..Max({AbiCalls, MaxReads, MaxExecutions}) :
        /\ WF_adVars(subject = "abi" /\ n \in 1..AbiCalls /\ ProbeAnswered(n))
        /\ WF_wpVars(subject = "wallet" /\ ReadAnswered(n))
        /\ WF_vhVars(subject = "hook" /\ n \in Executions /\ ExecutionAnswered(n))
        => []<>((n \in 1..AbiCalls => ADOver(n)) /\ ReadNotUnderWay(n) /\ n \notin UnderWay)

\* A timer ends the fetch of an account and an HTTP request whether or not an answer
\* comes, and no event waits that a timer is there for.
TimedOperationsEnd == []<>((\A f \in Fetches : FetchOver(f)) /\ HROver /\ TMOver)

\* Workflows end, as far as that lies with the SDK.
OperationsEnd == AnsweredOperationsEnd /\ OverlappingOperationsEnd /\ TimedOperationsEnd
===============================================================================
