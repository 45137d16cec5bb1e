------------------------- MODULE ClientWorkflowsProofs -------------------------
(***************************************************************************)
(* The theorems about the workflows, for every size, limit and number of   *)
(* actors: the invariants of the parts, proved in WorkflowOutcomesProofs,  *)
(* WorkflowKeepingProofs and WorkflowInputsProofs, hold of the part that   *)
(* is the subject and of those that are not.                               *)
(***************************************************************************)
EXTENDS ClientWorkflows, WorkflowOutcomesProofs, WorkflowKeepingProofs, WorkflowInputsProofs

\* Whatever overlaps, a log entry is in somebody's hands until it has been stored
\* and in no two, an open session stays registered, within the room there is, and
\* an event tracked is buffered until it is flushed, once.  Whatever listeners do when
\* they are told, and however often one throws: once all calls have returned, a client
\* that follows is on the environment that is active, unless a listener itself had
\* switched; each listener of transitions has heard of all it asked for, once, the
\* first one in order, but for those another one threw at; and a subscription nobody
\* touches hears a contract event once.
THEOREM NothingIsLost == Spec => []NothingLost
<1> DEFINE Inv == LGInv /\ SSInv /\ TMInv /\ ESInv /\ TLInv /\ EDInv
<1>1. Init => Inv
  BY LGInitInv, SSInitInv, TMInitInv, ESInitInv, TLInitInv, EDInitInv DEF Init
<1>2. Inv /\ [Next]_vars => Inv'
  <2>1. [Next]_vars => /\ [LGNext]_lgVars /\ [SSNext]_ssVars /\ [TMNext]_tmVars
                       /\ [ESNext]_esVars /\ [TLNext]_tlVars /\ [EDNext]_edVars
    BY DEF Next, vars
  <2> QED BY <2>1, LGNextInv, SSNextInv, TMNextInv, ESNextInv, TLNextInv, EDNextInv
<1>3. Inv => NothingLost
  BY LGInvKeeps, OpenFitTheRoom, ESInvFollows, TLInvHears, EDInvDelivers DEF NothingLost, TMInv
<1> QED BY <1>1, <1>2, <1>3, PTL DEF Spec

\* Whatever fails, and whatever happens meanwhile, what is reported has happened: a
\* batch builds on transactions that succeeded, a range of events is read in order
\* and whole but for what a split loses, a loop of retries keeps to its limits and
\* repeats what may be repeated only, for the reasons it is repeated for; what is shown
\* of the wallet is so unless it changed since the read shown began, and what the hook
\* says is so for an execution that has it to itself; a replay is judged by what was
\* recorded, and the mock server finds each transaction pending as often as was said
\* and final after that; spans are those of calls that run; lookups of
\* capabilities, adapters and flags find what was registered and decided last; and a
\* migration goes through a shortest chain of steps, whole, or back to where it began.
THEOREM OutcomesAreTruthful == Spec => []OutcomesTruthful
<1> DEFINE Inv == /\ BTInv /\ ERInv /\ RTInv /\ HRInv /\ WPInv /\ VHInv /\ ECInv
                  /\ IRInv /\ MKInv /\ TRInv /\ CDInv /\ ARInv /\ FFInv /\ MGInv
<1>1. Init => Inv
  BY BTInitInv, ERInitInv, RTInitInv, HRInitInv, WPInitInv, VHInitInv, ECInitInv,
     IRInitInv, MKInitInv, TRInitInv, CDInitInv, ARInitInv, FFInitInv, MGInitInv DEF Init
<1>2. Inv /\ [Next]_vars => Inv'
  <2>1. [Next]_vars =>
          /\ [BTNext]_btVars /\ [ERNext]_erVars /\ [RTNext]_rtVars /\ [HRNext]_hrVars
          /\ [WPNext]_wpVars /\ [VHNext]_vhVars /\ [ECNext]_ecVars /\ [IRNext]_irVars
          /\ [MKNext]_mkVars /\ [TRNext]_trVars /\ [CDNext]_cdVars /\ [ARNext]_arVars
          /\ [FFNext]_ffVars /\ [MGNext]_mgVars
    BY DEF Next, vars
  <2> QED BY <2>1, BTNextInv, ERNextInv, RTNextInv, HRNextInv, WPNextInv, VHNextInv, ECNextInv,
             IRNextInv, MKNextInv, TRNextInv, CDNextInv, ARNextInv, FFNextInv, MGNextInv
<1>3. Inv => /\ BatchTruthful /\ RangeTruthful /\ RetryKeepsLimits /\ RequestsRepeatSafely
             /\ WalletShown /\ HookTruthful /\ FailuresJudged
  BY BTInvTruthful, RTInvKeeps, HRInvRepeats, ECInvJudged DEF ERInv, WPInv, VHInv
<1>4. Inv => /\ ReplayJudged /\ MockDeterministic /\ SpansOfRunningCalls
             /\ CapabilitiesCurrent /\ AdapterFound /\ FlagsFollowDecisions /\ MigrationTruthful
  BY IRInvJudged, MKInvDeterministic, CDInvCurrent, ARInvFound, FFInvDecided, MGInvTruthful DEF TRInv
<1>5. Inv => OutcomesTruthful
  BY <1>3, <1>4 DEF OutcomesTruthful
<1> QED BY <1>1, <1>2, <1>5, PTL DEF Spec

\* Whatever overlaps, a transaction is made from what can be relied on: numbers of
\* the cache leave no gap, and come twice only if the node was asked in between; the
\* ABI version detected is that of the contract as it was deployed, unless something
\* has changed since; fees are enlarged by exactly the multiplier, and within the
\* limits; what no station took to be of another network is signed for its own
\* only; and the values asked for last are cached.
THEOREM InputsAreSound == Spec => []TransactionInputsSound
<1> DEFINE Inv == ASInv /\ ADInv /\ TFInv /\ OSInv /\ XCInv
<1>1. Init => Inv
  BY ASInitInv, ADInitInv, TFInitInv, OSInitInv, XCInitInv DEF Init
<1>2. Inv /\ [Next]_vars => Inv'
  <2>1. [Next]_vars => [ASNext]_asVars /\ [ADNext]_adVars /\ [TFNext]_tfVars /\ [OSNext]_osVars /\ [XCNext]_xcVars
    BY DEF Next, vars
  <2> QED BY <2>1, ASNextInv, ADNextInv, TFNextInv, OSNextInv, XCNextInv
<1>3. Inv => TransactionInputsSound
  BY ASInvUsable, ADInvCurrent, TFInvBuffers, OSInvSigned, XCInvKeeps DEF TransactionInputsSound, TFInv
<1> QED BY <1>1, <1>2, <1>3, PTL DEF Spec

\* Resolutions, cycles and orders of plugins: a resolution lists once each what the
\* plugin needs, a cycle is reported when there is one and only then, installations
\* put dependencies first whenever they can, and no dependency goes before its
\* dependent does (registry.ts, validation.ts, PluginManager.ts).
THEOREM DependenciesAreResolved == Spec => []DependenciesResolved
<1>1. Init => PDInv
  BY PDInitInv DEF Init
<1>2. PDInv /\ [Next]_vars => PDInv'
  <2>1. [Next]_vars => [PDNext]_pdVars
    BY DEF Next, vars
  <2> QED BY <2>1, PDNextInv
<1>3. PDInv => DependenciesResolved
  BY PDInvResolved
<1> QED BY <1>1, <1>2, <1>3, PTL DEF Spec

-----------------------------------------------------------------------------
(* Types.  Most parts' invariants have their types in them; those of the   *)
(* others keep their types by what the invariants bound.                    *)

\* What an operation rejects with is one of the SDK's errors.
LEMMA ErrorTyped ==
    ASSUME NEW call \in RpcCalls, NEW given_ \in RpcAnswers(call.operation), given_.kind # "success"
    PROVE  Rejects(call, given_) \in SdkErrors
<1>1. call.operation \in RpcOperations /\ call.meta \in BOOLEAN
  BY DEF RpcCalls
<1>2. given_.words \in FailureWords /\ given_.identified \in BOOLEAN
  BY <1>1, AnswerShape
<1>3. given_.status \in FailureStatuses \cup {NoStatus} /\ NoStatus \in FailureStatuses \cup {NoStatus}
  BY DEF RpcAnswers, Failures, Plain
<1>4. ASSUME NEW name \in ErrorNames, NEW status \in FailureStatuses \cup {NoStatus}, NEW identified \in BOOLEAN
      PROVE  SdkError(name, status, identified) \in SdkErrors
  BY <1>4 DEF SdkError, SdkErrors
<1>5. ToAxionveraError(given_) \in SdkErrors
  <2>1. {"AuthenticationError", "RateLimitError", "ValidationError", "NetworkError", "AxionveraError"}
           \subseteq ErrorNames
    BY DEF ErrorNames, RetryableNames, NonRetryableNames
  <2>2. given_.status \in Nat
    BY <1>1, AnswerShape
  <2>3. \A name \in ErrorNames : SdkError(name, given_.status, given_.identified) \in SdkErrors
    BY <1>2, <1>3, <1>4
  <2> QED BY <2>1, <2>2, <2>3 DEF ToAxionveraError
<1>6. FromAnswer(given_) \in SdkErrors
  BY <1>3, <1>4, <1>5 DEF FromAnswer, ErrorNames
<1>7. NormalizeTransactionError(given_) \in SdkErrors
  <2>1. \E name \in ErrorNames : NormalizeTransactionError(given_) = SdkError(name, NoStatus, FALSE)
    BY <1>2 DEF NormalizeTransactionError, FailureWords, ErrorNames, RetryableNames, NonRetryableNames
  <2> QED BY <1>3, <1>4, <2>1
<1>8. GetHealthError(given_, call.meta) \in SdkErrors
  <2>1. FromAnswer(given_).status \in FailureStatuses \cup {NoStatus}
    BY <1>6 DEF SdkErrors
  <2>2. "AxionveraRPCError" \in ErrorNames
    BY DEF ErrorNames, RetryableNames
  <2> QED BY <1>4, <1>6, <2>1, <2>2 DEF GetHealthError
<1>9. ASSUME NEW meta \in BOOLEAN PROVE SimulationError(given_, meta) \in SdkErrors
  BY <1>3, <1>4, <1>6, <1>9 DEF SimulationError, ErrorNames
<1>10. FaucetError(given_) \in SdkErrors
  <2>1. {"FaucetRateLimitError", "AxionveraError"} \subseteq ErrorNames
    BY DEF ErrorNames, RetryableNames
  <2>2. \A name \in ErrorNames : SdkError(name, given_.status, FALSE) \in SdkErrors
    BY <1>3, <1>4
  <2>3. CASE given_.status = 429
    <3>1. FaucetError(given_) = SdkError("FaucetRateLimitError", given_.status, FALSE)
      BY <2>3 DEF FaucetError
    <3> QED BY <2>1, <2>2, <3>1
  <2>4. CASE given_.status # 429
    <3>1. FaucetError(given_) = SdkError("AxionveraError", given_.status, FALSE)
      BY <2>4 DEF FaucetError
    <3> QED BY <2>1, <2>2, <3>1
  <2> QED BY <2>3, <2>4
<1>11. SdkError("AxionveraRPCError", NoStatus, call.meta) \in SdkErrors
  <2>1. "AxionveraRPCError" \in ErrorNames
    BY DEF ErrorNames, RetryableNames
  <2> QED BY <1>1, <1>3, <1>4, <2>1
<1>12. SimulationError(given_, call.meta) \in SdkErrors /\ SimulationError(given_, FALSE) \in SdkErrors
  BY <1>1, <1>9
<1> QED BY <1>1, <1>6, <1>7, <1>8, <1>10, <1>11, <1>12 DEF Rejects, RpcOperations, Retrying

\* A rejection is an error, the counts of attempts keep to their limits.
LEMMA ECKeepsTypes ==
    ASSUME ECTypeOK, ECInv', [ECNext]_ecVars
    PROVE  ECTypeOK'
<1>1. /\ rpcCall' \in RpcCalls /\ lastAnswer' \in RpcAnswers(rpcCall.operation)'
      /\ ecPhase' \in {"none", "asking", "waiting", "sleeping", "resolved", "rejected"}
      /\ ({tries, rounds, timesSent} \subseteq Nat)'
  BY DEF ECInv, RoundsCounted
<1>2. rejection' \in SdkErrors /\ repeatedAfter' \subseteq [transient : BOOLEAN, timedOut : BOOLEAN]
  <2>1. CASE UNCHANGED ecVars
    BY <2>1 DEF ecVars, ECTypeOK
  <2>2. CASE \E call \in RpcCalls : MakeCall(call)
    BY <2>2 DEF MakeCall, ECTypeOK
  <2>3. ASSUME NEW given_ \in RpcAnswers(rpcCall.operation), AnswerComes(given_)
        PROVE  rejection' \in SdkErrors /\ repeatedAfter' \subseteq [transient : BOOLEAN, timedOut : BOOLEAN]
    <3>1. rpcCall \in RpcCalls /\ rejection \in SdkErrors
          /\ repeatedAfter \subseteq [transient : BOOLEAN, timedOut : BOOLEAN]
      BY DEF ECTypeOK
    <3> QED BY <2>3, <3>1, ErrorTyped DEF AnswerComes
  <2>4. CASE SendAgain
    <3>1. NotRejected \in SdkErrors
      BY DEF NotRejected, SdkError, SdkErrors, ErrorNames
    <3>2. Kind(lastAnswer) \in [transient : BOOLEAN, timedOut : BOOLEAN]
      BY DEF Kind
    <3> QED BY <2>4, <3>1, <3>2 DEF SendAgain, ECTypeOK
  <2> QED BY <2>1, <2>2, <2>3, <2>4 DEF ECNext, ECSystem, CallAnswered
<1> QED BY <1>1, <1>2 DEF ECTypeOK

\* A recording has an id within the bound, and so have those settled since.
LEMMA IRKeepsTypes ==
    ASSUME IRTypeOK, IRInv', [IRNext]_irVars
    PROVE  IRTypeOK'
<1>1. /\ recordings' \in Seq(Outcomes \cup {"running"})
      /\ interactions' \in Seq(Interaction) /\ exported' \in Seq(Interaction)
      /\ replay' \in [session : Seq(Interaction), stopOnFailure : BOOLEAN, running : BOOLEAN,
                      results : Seq([id : 1..MaxRecorded, outcome : Outcomes \cup {NoHandler}])]
  BY DEF IRInv, Told, ReplayResult
<1>2. recordings \in Seq(Outcomes \cup {"running"}) /\ Len(recordings) <= MaxRecorded
      /\ settledSince \in Seq(1..MaxRecorded) /\ imported \in BOOLEAN /\ MaxRecorded \in Nat
  BY ReplayAssumption DEF IRTypeOK
<1>3. Len(recordings') <= MaxRecorded /\ settledSince' \in Seq(1..MaxRecorded) /\ imported' \in BOOLEAN
  <2>1. CASE UNCHANGED irVars
    BY <1>2, <2>1 DEF irVars
  <2>2. CASE IRSystem
    BY <1>2, <2>2 DEF IRSystem, ReplayOne
  <2>3. CASE BeginRecord
    BY <1>2, <2>3 DEF BeginRecord
  <2>4. CASE ClearInteractions
    <3>1. recordings' = recordings /\ settledSince' = <<>> /\ imported' = FALSE
      BY <2>4 DEF ClearInteractions
    <3>2. <<>> \in Seq(1..MaxRecorded)
      OBVIOUS
    <3> QED BY <1>2, <3>1, <3>2
  <2>5. CASE ExportSession
    BY <1>2, <2>5 DEF ExportSession
  <2>6. CASE ImportSession
    BY <1>2, <2>6 DEF ImportSession
  <2>7. ASSUME NEW id \in 1..MaxRecorded, NEW outcome \in Outcomes, RecordSettled(id, outcome)
        PROVE  Len(recordings') <= MaxRecorded /\ settledSince' \in Seq(1..MaxRecorded) /\ imported' \in BOOLEAN
    <3>1. Len([recordings EXCEPT ![id] = outcome]) = Len(recordings)
      BY <1>2, <2>7, ExceptSeq DEF RecordSettled
    <3> QED BY <1>2, <2>7, <3>1 DEF RecordSettled
  <2>8. CASE \E stopOnFailure \in BOOLEAN : BeginReplay(stopOnFailure)
    BY <1>2, <2>8 DEF BeginReplay
  <2> QED BY <2>1, <2>2, <2>3, <2>4, <2>5, <2>6, <2>7, <2>8 DEF IRNext
<1> QED BY <1>1, <1>3 DEF IRTypeOK

\* A snapshot can be restored.
SnapshotTyped == snapshot.ledger \in Ledgers /\ DOMAIN snapshot.transactions \subseteq Hashes

\* What the mock server is restored to was a state of it.
LEMMA MKKeepsTypes ==
    ASSUME MKTypeOK, MKInv, MKInv', [MKNext]_mkVars, SnapshotTyped
    PROVE  MKTypeOK' /\ SnapshotTyped'
<1>1. (mocked \in Seq(MockEntry))'
  BY DEF MKInv
<1>2. /\ (transactions \in [DOMAIN transactions -> DOMAIN mocked])'
      /\ (snapshot.transactions \in [DOMAIN snapshot.transactions -> DOMAIN mocked])'
  BY <1>1, LenProperties DEF MKInv, MapSound
<1>3. /\ (mockLedger \in Ledgers)' /\ (DOMAIN transactions \subseteq Hashes)' /\ (injected \in Seq(Injectable))'
      /\ SnapshotTyped'
  <2> DEFINE Typed == /\ mockLedger \in Ledgers /\ DOMAIN transactions \subseteq Hashes /\ injected \in Seq(Injectable)
                      /\ SnapshotTyped
  <2>1. Typed
    BY DEF MKTypeOK
  <2>2. 0 \in Ledgers /\ GivenHash \in Hashes /\ MaxMockEntries \in Nat
    BY MockAssumption DEF GivenHash, Hashes
  <2>3. SentHash \in Hashes
    <3>1. Cardinality(DOMAIN transactions) \in 0..MaxMockEntries
      BY <2>2, FS_CardinalityType, LenProperties DEF MKInv, MapSound
    <3> QED BY <2>1, <3>1 DEF SentHash, Hashes
  <2>4. ASSUME NEW hash \in Hashes, NEW n, NEW final, NewEntry(hash, n, final), UNCHANGED <<mockLedger, snapshot, injected>>
        PROVE  Typed'
    BY <2>1, <2>4 DEF NewEntry, SnapshotTyped
  <2>5. CASE UNCHANGED mkVars
    BY <2>1, <2>5 DEF mkVars, SnapshotTyped
  <2>6. CASE SendToMock
    BY <2>1, <2>3, <2>4, <2>6 DEF SendToMock, NoError, SnapshotTyped
  <2>7. CASE TakeSnapshot
    BY <2>1, <2>7 DEF TakeSnapshot, SnapshotTyped
  <2>8. CASE RestoreSnapshot
    BY <2>1, <2>8 DEF RestoreSnapshot, SnapshotTyped
  <2>9. CASE ResetMock
    BY <2>1, <2>2, <2>9 DEF ResetMock, NoTransactions, SnapshotTyped
  <2>10. CASE \E n \in PendingPolls, final \in Finals : AddTransaction(n, final)
    BY <2>2, <2>4, <2>10 DEF AddTransaction
  <2>11. ASSUME NEW m \in Injectable, InjectError(m) PROVE Typed'
    BY <2>1, <2>11 DEF InjectError, SnapshotTyped
  <2>12. ASSUME NEW m \in Injectable, ErrorThrown(m) PROVE Typed'
    <3>1. RemoveFirst(injected, m) \in Seq(Injectable)
      BY <2>1, RemoveFirstRemoves, RemoveAtShifts
    <3> QED BY <2>1, <2>12, <3>1 DEF ErrorThrown, SnapshotTyped
  <2>13. ASSUME NEW hash \in Hashes, PollMock(hash) PROVE Typed'
    BY <2>1, <2>13 DEF PollMock, NoError, SnapshotTyped
  <2>14. CASE \E l \in Ledgers : SetLedger(l)
    BY <2>1, <2>14 DEF SetLedger, SnapshotTyped
  <2> QED BY <2>5, <2>6, <2>7, <2>8, <2>9, <2>10, <2>11, <2>12, <2>13, <2>14 DEF MKNext
<1> QED BY <1>1, <1>2, <1>3 DEF MKTypeOK, MockEntry

\* Each span begun belongs to a traced call.
SpansCounted == spanCounter <= Len(running) /\ Len(running) <= MaxCalls /\ peak <= spanCounter

\* A span of each traced call; no more open at once than were begun.
LEMMA TRKeepsTypes ==
    ASSUME TRTypeOK, TRInv, TRInv', [TRNext]_trVars, SpansCounted
    PROVE  TRTypeOK' /\ SpansCounted'
<1>1. /\ spanCounter \in Nat /\ peak \in Nat /\ running \in Seq(Nat) /\ Len(running) \in Nat /\ MaxCalls \in Nat
      /\ activeSpans \in SUBSET (1..spanCounter) /\ spans \in Seq(1..spanCounter)
      /\ running \in Seq({NoSpan, Over} \cup Spans) /\ tracing \in BOOLEAN /\ IsInjective(spans)
      /\ spanCounter <= Len(running) /\ Len(running) <= MaxCalls /\ peak <= spanCounter
      /\ startTimes \in Seq(Nat) /\ Len(startTimes) = spanCounter
  BY TracerAssumption, LenProperties DEF TRInv, TRTypeOK, Spans, SpansCounted
<1>2. /\ spanCounter' \in Nat /\ peak' \in Nat /\ startTimes' \in [Spans -> Nat]'
      /\ (activeSpans \subseteq Spans)' /\ (spans \in Seq(Spans))'
  <2>1. (startTimes \in Seq(Nat))' /\ (Len(startTimes) = spanCounter)'
    BY DEF TRInv
  <2>2. startTimes' \in [1..Len(startTimes') -> Nat]
    BY <2>1, LenProperties
  <2> QED BY <2>1, <2>2 DEF TRInv, Spans
<1> DEFINE Rest == /\ tracing' \in BOOLEAN /\ IsInjective(spans)' /\ running' \in Seq({NoSpan, Over} \cup Spans)'
                   /\ SpansCounted'
<1>3. Rest
  <2>1. CASE UNCHANGED trVars
    BY <1>1, <2>1 DEF trVars, SpansCounted, Spans, IsInjective
  <2>2. CASE BeginTraced /\ ~tracing
    <3>1. running' = Append(running, NoSpan) /\ UNCHANGED <<spanCounter, spans, peak, tracing>> /\ Len(running) < MaxCalls
      BY <2>2 DEF BeginTraced
    <3>2. running' \in Seq({NoSpan, Over} \cup Spans) /\ Len(running') = Len(running) + 1
      BY <1>1, <3>1, AppendProperties
    <3> QED BY <1>1, <3>1, <3>2 DEF SpansCounted, Spans, IsInjective
  <2>3. CASE BeginTraced /\ tracing
    <3> DEFINE n == spanCounter + 1
               S == {NoSpan, Over} \cup 1..n
               opened == activeSpans \cup {n}
    <3>1. /\ running' = Append(running, n) /\ spanCounter' = n /\ UNCHANGED tracing /\ Len(running) < MaxCalls
          /\ activeSpans' = opened /\ peak' = Max({peak, Cardinality(opened)})
          /\ spans' = spans \/ (spans # <<>> /\ spans' = WithoutOldest(spans))
      BY <2>3 DEF BeginTraced, StartSpan
    <3>2. running \in Seq(S) /\ n \in S
      BY <1>1, WiderSeq DEF Spans
    <3>3. running' \in Seq(S) /\ Len(running') = Len(running) + 1
      <4> HIDE DEF n, S
      <4> QED BY <3>1, <3>2, AppendProperties
    <3>4. IsFiniteSet(opened) /\ Cardinality(opened) \in Nat /\ Cardinality(opened) <= n
      <4>1. opened \subseteq 1..n /\ n \in Nat /\ n >= 1
        BY <1>1
      <4> HIDE DEF n, opened
      <4>2. IsFiniteSet(1..n) /\ Cardinality(1..n) = n
        BY <4>1, FS_Interval
      <4>3. IsFiniteSet(opened) /\ Cardinality(opened) <= Cardinality(1..n)
        BY <4>1, <4>2, FS_Subset
      <4> QED BY <4>2, <4>3, FS_CardinalityType
    <3>5. peak' <= n
      <4> DEFINE count == Cardinality(opened)
      <4>1. peak' = Max({peak, count}) /\ count \in Nat /\ count <= n
        BY <3>1, <3>4
      <4> HIDE DEF count
      <4>2. Max({peak, count}) = IF peak >= count THEN peak ELSE count
        BY <1>1, <4>1, MaxOfTwo
      <4> QED BY <1>1, <4>1, <4>2
    <3>6. IsInjective(spans')
      BY <1>1, <1>2, <3>1, OldestLeaves DEF TRInv
    <3> QED BY <1>1, <3>1, <3>3, <3>5, <3>6 DEF SpansCounted, Spans
  <2>4. CASE ClearSpans
    BY <1>1, <2>4 DEF ClearSpans, SpansCounted, Spans, IsInjective
  <2>5. ASSUME NEW c \in 1..MaxCalls, EndTraced(c) PROVE Rest
    <3>1. /\ c \in DOMAIN running /\ running' = [running EXCEPT ![c] = Over]
          /\ UNCHANGED <<tracing, spanCounter, peak>>
          /\ spans' = spans \/ (running[c] \in activeSpans /\ spans' = Append(spans, running[c]))
      BY <2>5 DEF EndTraced
    <3>2. running' \in Seq({NoSpan, Over} \cup Spans) /\ Len(running') = Len(running)
      BY <1>1, <3>1, ExceptSeq, LenProperties
    <3>3. IsInjective(spans')
      <4>1. activeSpans \cap ToSet(spans) = {}
        BY DEF TRInv, SpansOfRunningCalls
      <4> QED BY <1>1, <3>1, <4>1, AppendDistinct
    <3> QED BY <1>1, <3>1, <3>2, <3>3 DEF SpansCounted, Spans
  <2>6. CASE \E on \in BOOLEAN : SetLevel(on)
    BY <1>1, <2>6 DEF SetLevel, SpansCounted, Spans, IsInjective
  <2> QED BY <2>1, <2>2, <2>3, <2>4, <2>5, <2>6 DEF TRNext
<1>4. spanCounter' \in 0..MaxCalls /\ peak' \in 0..MaxCalls
  <2>1. Len(running') \in Nat
    BY DEF TRInv
  <2> QED BY <1>1, <1>2, <1>3, <2>1 DEF SpansCounted
<1> QED BY <1>2, <1>3, <1>4 DEF TRTypeOK

\* What is buffered or gone was tracked.
LEMMA TMKeepsTypes ==
    ASSUME TMTypeOK, TMInv', [TMNext]_tmVars
    PROVE  TMTypeOK'
<1>1. tracked' <= MaxTracked /\ destroyed' \in BOOLEAN
  <2>1. tracked \in Nat /\ tracked <= MaxTracked /\ MaxTracked \in Nat /\ destroyed \in BOOLEAN
    BY TelemetryAssumption DEF TMTypeOK
  <2>2. CASE UNCHANGED <<tracked, destroyed>>
    BY <2>1, <2>2
  <2>3. CASE Track
    BY <2>1, <2>3 DEF Track
  <2>4. CASE DestroyTelemetry
    BY <2>1, <2>4 DEF DestroyTelemetry
  <2>5. CASE \E enabled \in BOOLEAN : SetEnabled(enabled)
    BY <2>1, <2>5 DEF SetEnabled, StartTimer
  <2>6. CASE \E config \in [enabled : BOOLEAN, size : BufferSizes] : UpdateTelemetry(config)
    BY <2>1, <2>6 DEF UpdateTelemetry, StartTimer
  <2> QED BY <2>2, <2>3, <2>4, <2>5, <2>6 DEF TMNext, tmVars, OnFlush, FlushByCaller, FlushTimerFires
<1>2. /\ collecting' \in [enabled : BOOLEAN, size : BufferSizes] /\ tracked' \in Nat
      /\ handler' \in BOOLEAN /\ telemetryTimer' \in BOOLEAN /\ buffered' \in Seq(Nat)
      /\ intervals' = IF telemetryTimer' THEN 1 ELSE 0
      /\ handedOver' \cup discarded' \cup ToSet(buffered') = 1..tracked'
  BY DEF TMInv, EventsAccounted, Accounted
<1>3. 1..tracked' \subseteq Tracked
  BY <1>1, <1>2, TelemetryAssumption DEF Tracked
<1>4. buffered' \in Seq(Tracked)
  <2>1. \A i \in DOMAIN buffered' : buffered'[i] \in Tracked
    BY <1>2, <1>3 DEF ToSet
  <2>2. Len(buffered') \in Nat /\ DOMAIN buffered' = 1..Len(buffered') /\ buffered' = [i \in 1..Len(buffered') |-> buffered'[i]]
    BY <1>2, LenProperties
  <2>3. buffered' \in [1..Len(buffered') -> Tracked]
    BY <2>1, <2>2
  <2> QED BY <2>2, <2>3, FunctionIsSeq
<1> QED BY <1>1, <1>2, <1>3, <1>4, TelemetryAssumption DEF TMTypeOK

\* A capability cached is one of its descriptor.
LEMMA CDInvTyped == CDInv => CDTypeOK
<1> SUFFICES ASSUME CDInv PROVE CDTypeOK
  OBVIOUS
<1>1. registrations \in Seq(Descriptors) /\ \A i \in DOMAIN registrations : registrations[i] \in Descriptors
  BY LenProperties DEF CDInv, RegistrationsSound
<1>2. \A k \in DOMAIN knownContracts : knownContracts[k] \in Descriptors
  BY <1>1 DEF CDInv, RegistrationsSound
<1>3. \A key \in DOMAIN detections : \E a \in ToSet(askedOf) : a.key = key
  BY DEF CDInv, DetectionsSound, FirstAsked, ToSet
<1> QED BY <1>1, <1>2, <1>3 DEF CDTypeOK, Range

\* Adapters, places and searches are what the invariant says of them.
LEMMA ARInvTyped == ARInv => ARTypeOK
<1> SUFFICES ASSUME ARInv PROVE ARTypeOK
  OBVIOUS
<1>1. AdapterPlace \subseteq [name : AdapterNames, adapter : 0..MaxAdapters]
  BY AdaptersAssumption DEF ARInv, PlacesSound, AdapterPlace
<1>2. adapters \in Seq([name : AdapterNames, adapter : 0..MaxAdapters])
  BY <1>1, WiderSeq DEF ARInv, PlacesSound
<1> QED BY <1>2 DEF ARTypeOK, ARInv, PlacesSound, DefaultSound, SearchSound, Search

\* Flags, overrides and policies likewise.
LEMMA FFInvTyped == FFInv => FFTypeOK
BY DEF FFInv, FFTypeOK, Range

\* An entry delivered or rejected was in a batch, which was of the queue.
LEMMA LGKeepsTypes ==
    ASSUME LGTypeOK, LGInv', [LGNext]_lgVars
    PROVE  LGTypeOK'
<1>1. /\ logged' \in 0..MaxEntries /\ (logQueue \in Seq(Entries))' /\ DOMAIN initializing' \subseteq 1..logged'
      /\ (flushes \in Seq([batch : Seq(Entries), attempt : 1..MaxAttempts, sent : BOOLEAN, closing : BOOLEAN]))'
  BY DEF LGInv, Placed, HeldIsLogged, FlushState
<1> DEFINE Rest == /\ initializing \in [DOMAIN initializing -> {"importing", "ensuring"}]
                   /\ delivered \subseteq Seq(Entries) /\ rejected \subseteq Entries
                   /\ {hasClient, isInitialized, isDestroyed, flushTimer} \subseteq BOOLEAN
<1>2. Rest'
  <2>1. Rest
    BY DEF LGTypeOK
  <2>2. CASE UNCHANGED lgVars
    BY <2>1, <2>2 DEF lgVars
  <2>3. CASE Log
    BY <2>1, <2>3 DEF Log
  <2>4. CASE Destroy
    BY <2>1, <2>4 DEF Destroy
  <2>5. CASE TimerFires
    BY <2>1, <2>5 DEF TimerFires
  <2>6. ASSUME NEW e \in Entries, ClientCreated(e) PROVE Rest'
    BY <2>1, <2>6 DEF ClientCreated
  <2>7. ASSUME NEW e \in Entries, Initialized(e) PROVE Rest'
    BY <2>1, <2>7 DEF Initialized, Forget
  <2>8. ASSUME NEW e \in Entries, InitializeFails(e) PROVE Rest'
    BY <2>1, <2>8 DEF InitializeFails, Forget
  <2>9. \A k \in DOMAIN flushes : flushes[k].batch \in Seq(Entries) /\ flushes[k].closing \in BOOLEAN
    <3> DEFINE F == [batch : Seq(Entries), attempt : 1..MaxAttempts, sent : BOOLEAN, closing : BOOLEAN]
    <3>1. flushes \in Seq(F)
      BY DEF LGTypeOK
    <3>2. \A x \in F : x.batch \in Seq(Entries) /\ x.closing \in BOOLEAN
      OBVIOUS
    <3> HIDE DEF F
    <3> QED BY <3>1, <3>2, LenProperties
  <2>10. ASSUME NEW k \in 1..MaxFlushes, PutSent(k) PROVE Rest'
    BY <2>1, <2>10 DEF PutSent
  <2>11. ASSUME NEW k \in 1..MaxFlushes, PutSucceeds(k) PROVE Rest'
    <3>1. k \in DOMAIN flushes /\ delivered' = delivered \cup {flushes[k].batch} /\ hasClient' \in BOOLEAN
      BY <2>11 DEF PutSucceeds, FlushOver
    <3>2. UNCHANGED <<initializing, isInitialized, isDestroyed, flushTimer, rejected>>
      BY <2>11 DEF PutSucceeds
    <3>3. delivered' \subseteq Seq(Entries)
      BY <2>1, <2>9, <3>1
    <3> QED BY <2>1, <3>1, <3>2, <3>3
  <2>12. ASSUME NEW k \in 1..MaxFlushes, NEW again \in BOOLEAN, PutFails(k, again) PROVE Rest'
    <3>1. delivered' \subseteq Seq(Entries) /\ hasClient' \in BOOLEAN
      BY <2>1, <2>9, <2>12 DEF PutFails, FlushOver
    <3>2. UNCHANGED <<initializing, isInitialized, isDestroyed, flushTimer, rejected>>
      BY <2>12 DEF PutFails
    <3> QED BY <2>1, <3>1, <3>2
  <2> QED BY <2>2, <2>3, <2>4, <2>5, <2>6, <2>7, <2>8, <2>10, <2>11, <2>12 DEF LGNext, LGSystem
<1> QED BY <1>1, <1>2 DEF LGTypeOK

\* A session is registered under the id it was created with.
LEMMA SSKeepsTypes ==
    ASSUME SSTypeOK, SSInv', [SSNext]_ssVars
    PROVE  SSTypeOK'
<1>1. /\ (sessions \in Seq([id : Ids, status : {"active", "suspended", "closed"}, contracts : SUBSET Names]))'
      /\ managed' \in [DOMAIN managed' -> Constructed']
  BY DEF SSInv, Session, RegistryFits, Constructed
<1>2. counter' \in 0..MaxSessions /\ DOMAIN managed' \subseteq Ids
  <2>1. counter \in 0..MaxSessions /\ DOMAIN managed \subseteq Ids /\ MaxSessions \in Nat
    BY SessionAssumption DEF SSTypeOK
  <2>2. CASE UNCHANGED ssVars
    BY <2>1, <2>2 DEF ssVars
  <2>3. ASSUME NEW chosen \in {0} \cup Ids, NEW contracts \in SUBSET Names, CreateSession(chosen, contracts)
        PROVE  counter' \in 0..MaxSessions /\ DOMAIN managed' \subseteq Ids
    BY <2>1, <2>3 DEF CreateSession, Ids
  <2>4. ASSUME NEW s \in 1..MaxSessions,
               \/ \E name \in Names : RegisterContract(s, name) \/ UnregisterContract(s, name)
               \/ Suspend(s) \/ Resume(s) \/ CloseByHolder(s)
        PROVE  counter' \in 0..MaxSessions /\ DOMAIN managed' \subseteq Ids
    BY <2>1, <2>4 DEF RegisterContract, UnregisterContract, Suspend, Resume, CloseByHolder
  <2>5. CASE (\E id \in Ids : CloseSession(id)) \/ CloseAll
    BY <2>1, <2>5 DEF CloseSession, CloseAll
  <2> QED BY <2>2, <2>3, <2>4, <2>5 DEF SSNext
<1> QED BY <1>1, <1>2 DEF SSTypeOK

\* The environment of a client or of a notification has been registered.
LEMMA ESKeepsTypes ==
    ASSUME ESTypeOK, ESInv', [ESNext]_esVars
    PROVE  ESTypeOK'
<1>1. /\ (registered \in 0..MaxRegistered)' /\ (DOMAIN registry \subseteq Environments)'
      /\ (active \in DOMAIN registry \cup {NoEnvironment})'
      /\ (follows \in Seq(Listeners) /\ IsInjective(follows))' /\ (client \in [config : Config, rpc : Config])'
      /\ (calls \in Seq([config : Config, todo : Seq(Listeners), own : BOOLEAN, inside : BOOLEAN]))'
      /\ \A e \in DOMAIN registry' : registry'[e] \in Config
  BY DEF ESInv, CallState
<1> DEFINE Rest == /\ registry = [e \in DOMAIN registry |-> registry[e]]
                   /\ switches \in 0..MaxSwitches /\ nested \in BOOLEAN
<1>2. Rest'
  <2>1. Rest /\ MaxSwitches \in Nat
    BY EnvironmentAssumption DEF ESTypeOK
  <2>2. CASE UNCHANGED <<registry, switches, nested>>
    BY <2>1, <2>2
  <2>3. CASE OnChange \/ Construct
    BY <2>2, <2>3 DEF OnChange, Construct, Follow
  <2>4. CASE ESSystem
    BY <2>2, <2>4 DEF ESSystem, Tell, ListenerReturns, SwitchReturns
  <2>5. CASE \E l \in Listeners : StopFollowing(l)
    BY <2>2, <2>5 DEF StopFollowing
  <2>6. ASSUME NEW e \in Environments, UnregisterEnvironment(e) PROVE Rest'
    BY <2>1, <2>6 DEF UnregisterEnvironment
  <2>7. ASSUME NEW e \in Environments, NEW kind \in Kinds, RegisterEnvironment(e, kind) PROVE Rest'
    BY <2>1, <2>7 DEF RegisterEnvironment
  <2>8. ASSUME NEW e \in Environments, NEW own \in BOOLEAN, Switch(e, own) PROVE Rest'
    BY <2>1, <2>8 DEF Switch
  <2> QED BY <2>2, <2>3, <2>4, <2>5, <2>6, <2>7, <2>8 DEF ESNext, esVars
<1>3. registry' \in [DOMAIN registry' -> Config]
  BY <1>1, <1>2
<1> QED BY <1>1, <1>2, <1>3 DEF ESTypeOK

\* Events come one after another as long as there is room for another one.
TLBounded == Len(emitted) <= MaxEvents /\ \A l \in Subscribers : since[l] <= Len(emitted)

\* What is emitted stays within the bound, and nobody has listened for longer.
LEMMA TLKeepsTypes ==
    ASSUME TLTypeOK, TLInv, TLInv', [TLNext]_tlVars, TLBounded
    PROVE  TLTypeOK' /\ TLBounded'
<1>1. States = ToSet(Order) \cup {"failed"} /\ "created" \in ToSet(Order)
  <2>1. Order[1] = "created" /\ 1 \in DOMAIN Order
    BY DEF Order
  <2>2. "created" \in ToSet(Order)
    BY <2>1 DEF ToSet
  <2> QED BY <2>2 DEF States
<1>2. /\ emitted \in Seq(States) /\ Len(emitted) \in Nat /\ MaxEvents \in Nat
      /\ emits \in Seq(EmitState) /\ since \in [Subscribers -> 0..MaxEvents]
      /\ record \in States \cup {NoRecord} /\ cut \subseteq 1..MaxEvents
  BY <1>1, LenProperties, LifecycleAssumption DEF TLInv, TLTyped, TLTypeOK
<1> DEFINE Rest == /\ record \in States \cup {NoRecord} /\ cut \subseteq 1..MaxEvents
                   /\ TLBounded /\ since \in [Subscribers -> 0..MaxEvents]
<1>3. ASSUME NEW state \in States, Emit(state)
      PROVE  Len(emitted') = Len(emitted) + 1 /\ Len(emitted') <= MaxEvents
  BY <1>2, <1>3, AppendProperties DEF Emit
<1>4. Rest'
  <2>1. CASE UNCHANGED <<record, cut, emitted, since>>
    BY <1>2, <2>1 DEF TLBounded
  <2>2. CASE Create
    <3>1. record' \in States /\ UNCHANGED <<since, cut>>
      BY <1>1, <2>2 DEF Create
    <3>2. Len(emitted') = Len(emitted) + 1 /\ Len(emitted') <= MaxEvents
      BY <1>1, <1>3, <2>2 DEF Create
    <3> QED BY <1>2, <3>1, <3>2 DEF TLBounded
  <2>3. ASSUME NEW to \in States, Transition(to) PROVE Rest'
    <3>1. record' \in States /\ UNCHANGED <<since, cut>>
      BY <2>3 DEF Transition
    <3>2. Len(emitted') = Len(emitted) + 1 /\ Len(emitted') <= MaxEvents
      BY <1>3, <2>3 DEF Transition
    <3> QED BY <1>2, <3>1, <3>2 DEF TLBounded
  <2>4. CASE Forgotten
    BY <1>2, <2>4 DEF Forgotten, TLBounded
  <2>5. ASSUME NEW l \in Subscribers, Subscribe(l) PROVE Rest'
    BY <1>2, <2>5 DEF Subscribe, TLBounded
  <2>6. ASSUME NEW l \in Subscribers, Unsubscribe(l) PROVE Rest'
    BY <1>2, <2>6 DEF Unsubscribe, TLBounded
  <2>7. CASE Throws
    <3>1. Last(emits).event \in 1..Len(emitted)
      <4>1. Len(emits) \in DOMAIN emits /\ Last(emits) = emits[Len(emits)]
        BY <1>2, <2>7, FrontLast DEF Throws
      <4> QED BY <4>1 DEF TLInv, EmitsSound
    <3>2. Last(emits).event \in 1..MaxEvents
      BY <1>2, <3>1 DEF TLBounded
    <3>3. cut' = cut \cup {Last(emits).event} /\ UNCHANGED <<record, emitted, since>>
      BY <2>7 DEF Throws
    <3> QED BY <1>2, <3>2, <3>3 DEF TLBounded
  <2>8. CASE Dispatch \/ Returns \/ EmitReturns
    BY <2>1, <2>8 DEF Dispatch, Returns, EmitReturns
  <2> QED BY <1>1, <2>1, <2>2, <2>3, <2>4, <2>5, <2>6, <2>7, <2>8 DEF TLNext, tlVars
<1>5. /\ emitted' \in Seq(States) /\ Len(emitted') \in Nat /\ 1..Len(emitted') \subseteq 1..MaxEvents
      /\ emits' \in Seq(EmitState)
  BY <1>2, <1>4, LenProperties DEF TLInv, TLTyped, TLBounded
<1>6. emits' \in Seq([event : 1..MaxEvents, todo : Seq(Subscribers), running : Subscribers \cup {NoListener}])
  <2> DEFINE T == [event : 1..MaxEvents, todo : Seq(Subscribers), running : Subscribers \cup {NoListener}]
  <2>1. \A k \in DOMAIN emits' : emits'[k] \in EmitState /\ emits'[k].event \in 1..Len(emitted')
    BY DEF TLInv, EmitsSound
  <2>2. \A k \in DOMAIN emits' : emits'[k] \in T
    BY <1>5, <2>1 DEF EmitState
  <2>3. Len(emits') \in Nat /\ DOMAIN emits' = 1..Len(emits') /\ emits' = [k \in 1..Len(emits') |-> emits'[k]]
    BY <1>5, LenProperties
  <2> HIDE DEF T
  <2>4. emits' \in [1..Len(emits') -> T]
    BY <2>2, <2>3
  <2>5. emits' \in Seq(T)
    BY <2>3, <2>4, FunctionIsSeq
  <2> QED BY <2>5 DEF T
<1>7. heard' \in [Subscribers -> Seq(1..MaxEvents)]
  <2>1. heard' \in [Subscribers -> Seq(Nat)]
    BY DEF TLInv, TLTyped
  <2>2. ASSUME NEW l \in Subscribers PROVE heard'[l] \in Seq(1..MaxEvents)
    <3> DEFINE h == heard'[l]
    <3>1. h \in Seq(Nat) /\ ToSet(h) \subseteq 1..MaxEvents
      BY <1>5, <2>1 DEF TLInv, HeardOnce
    <3> HIDE DEF h
    <3>2. Len(h) \in Nat /\ DOMAIN h = 1..Len(h) /\ h = [k \in 1..Len(h) |-> h[k]]
      BY <3>1, LenProperties
    <3>3. h \in [1..Len(h) -> 1..MaxEvents]
      BY <3>1, <3>2 DEF ToSet
    <3>4. h \in Seq(1..MaxEvents)
      BY <3>2, <3>3, FunctionIsSeq
    <3> QED BY <3>4 DEF h
  <2> QED BY <2>1, <2>2
<1>8. (subscribed \in Seq(Subscribers) /\ IsInjective(subscribed) /\ subscribed[1] = "first")'
  BY DEF TLInv, TLTyped
<1> QED BY <1>1, <1>4, <1>5, <1>6, <1>7, <1>8 DEF TLTypeOK

\* An entry is of one of the ids, at a place within the bound.
LEMMA EDKeepsTypes ==
    ASSUME EDTypeOK, [EDNext]_edVars
    PROVE  EDTypeOK'
<1>1. /\ byDispatcher \in BOOLEAN /\ places \in 0..MaxPlaces /\ MaxPlaces \in Nat
      /\ DOMAIN entries \cup untouched \cup {visited, calling} \subseteq 0..places
      /\ entries \in [DOMAIN entries -> [id : SubscriptionIds, filter : Filters]]
      /\ eventCounts \cup leftInside \cup {caller} \subseteq SubscriptionIds
      /\ eventKind \in EventKinds \cup {NoKind}
  BY DeliveryAssumption DEF EDTypeOK
<1>2. CASE UNCHANGED edVars
  BY <1>2 DEF edVars, EDTypeOK
<1>3. ASSUME NEW id \in SubscriptionIds, UnsubscribeFrom(id) PROVE EDTypeOK'
  BY <1>1, <1>3 DEF UnsubscribeFrom, EDTypeOK
<1>4. ASSUME NEW id \in SubscriptionIds, NEW filter \in Filters, SubscribeTo(id, filter) PROVE EDTypeOK'
  <2>1. CASE id \in Subscribed
    BY <1>1, <1>4, <2>1 DEF SubscribeTo, EDTypeOK
  <2>2. CASE id \notin Subscribed
    <3>1. /\ places' = places + 1 /\ places' \in 0..MaxPlaces /\ DOMAIN entries' = DOMAIN entries \cup {places'}
          /\ UNCHANGED <<untouched, byDispatcher, eventCounts, eventKind, visited, calling, caller, leftInside>>
      BY <1>1, <1>4, <2>2 DEF SubscribeTo
    <3>2. entries' \in [DOMAIN entries' -> [id : SubscriptionIds, filter : Filters]]
      BY <1>1, <1>4, <2>2 DEF SubscribeTo
    <3>3. 0..places \subseteq 0..places' /\ places' \in 0..places'
      BY <1>1, <3>1
    <3> QED BY <1>1, <3>1, <3>2, <3>3 DEF EDTypeOK
  <2> QED BY <2>1, <2>2
<1>5. ASSUME NEW k \in EventKinds, EventArrives(k) PROVE EDTypeOK'
  BY <1>1, <1>5 DEF EventArrives, EDTypeOK
<1>6. CASE Visit
  <2>1. PICK p \in Ahead :
           /\ visited' = p
           /\ IF eventKind \in entries[p].filter THEN Call(p) ELSE UNCHANGED <<calling, caller, timesHeard>>
           /\ UNCHANGED <<byDispatcher, entries, places, eventCounts, eventKind, untouched, leftInside>>
    BY <1>6 DEF Visit
  <2>2. p \in 0..places /\ entries[p].id \in SubscriptionIds
    BY <1>1 DEF Ahead
  <2>3. calling' \in 0..places /\ caller' \in SubscriptionIds
    BY <1>1, <2>1, <2>2 DEF Call
  <2> QED BY <1>1, <2>1, <2>2, <2>3 DEF EDTypeOK
<1>7. CASE CallbackReturns
  BY <1>1, <1>7 DEF CallbackReturns, EDTypeOK
<1>8. CASE CallbackThrows
  BY <1>1, <1>8 DEF CallbackThrows, EDTypeOK
<1>9. CASE DeliveryEnds
  BY <1>1, <1>9 DEF DeliveryEnds, EDTypeOK
<1> QED BY <1>2, <1>3, <1>4, <1>5, <1>6, <1>7, <1>8, <1>9 DEF EDNext

\* A fee, buffered or validated, is a number, as digits and multipliers are.
LEMMA TFKeepsTypes ==
    ASSUME TFTypeOK, [TFNext]_tfVars
    PROVE  TFTypeOK'
<1>1. /\ multiplier \in Multipliers /\ maxFeeLimit \in FeeLimits /\ asked \in Asked \cup {NoRequest}
      /\ preparation \in [outcome : {"none", "prepared", "refused"}, base : Nat, resource : Nat, resources : Nat]
  BY DEF TFTypeOK
<1>2. CASE UNCHANGED tfVars
  BY <1>2 DEF tfVars, TFTypeOK
<1>3. ASSUME NEW fee \in FeeAmounts, NEW min \in FeeAmounts, NEW max \in FeeAmounts,
             NEW advice \in FeeAmounts \cup {NoAdvice}, ValidateFee(fee, min, max, advice)
      PROVE  TFTypeOK'
  <2>1. fee \in Nat /\ min \in Nat /\ max \in Nat /\ advice \in Nat \cup {NoAdvice}
    BY FeeAssumption
  <2>2. advice # NoAdvice => advice \in Nat
    BY <2>1
  <2>3. validation' \in [outcome : {"none", "refused", "accepted"}, fee : Nat, min : Nat, max : Nat,
                      advice : Nat \cup {NoAdvice}, advised : Nat]
    BY <1>3, <2>1, <2>2 DEF ValidateFee
  <2>4. UNCHANGED <<multiplier, maxFeeLimit, asked, preparation>>
    BY <1>3 DEF ValidateFee
  <2> QED BY <1>1, <2>3, <2>4 DEF TFTypeOK
<1>4. ASSUME NEW a \in Asked, PrepareTransaction(a) PROVE TFTypeOK'
  <2> DEFINE total == a.base + a.resource
             base == MultiplyAndCeil(IF total > a.resource THEN total - a.resource ELSE 0)
             P == [outcome : {"none", "prepared", "refused"}, base : Nat, resource : Nat, resources : Nat]
  <2>1. a.base \in Nat /\ a.resource \in Nat /\ a.resources \in Nat
    BY FeeAssumption DEF Asked
  <2>2. base \in Nat /\ MultiplyAndCeil(a.resource) \in Nat /\ MultiplyAndCeil(a.resources) \in Nat
    <3>1. (IF total > a.resource THEN total - a.resource ELSE 0) \in Nat
      BY <2>1
    <3> QED BY <1>1, <2>1, <3>1, MultiplyAndCeilRounds
  <2>3. \A x, y, z \in Nat : Prepared(x, y, z) \in P
    BY DEF Prepared
  <2>4. Refused \in P
    BY <1>1 DEF Refused
  <2>5. Buffered(a) \in P
    <3>1. Buffered(a) = Refused \/ Buffered(a) = Prepared(base, MultiplyAndCeil(a.resource), MultiplyAndCeil(a.resources))
      BY DEF Buffered
    <3> HIDE DEF base, P
    <3> QED BY <2>2, <2>3, <2>4, <3>1
  <2>6. preparation' \in P
    <3> HIDE DEF P
    <3> QED BY <1>4, <2>1, <2>3, <2>5 DEF PrepareTransaction
  <2>7. asked' = a /\ UNCHANGED <<multiplier, maxFeeLimit, validation>>
    BY <1>4 DEF PrepareTransaction
  <2> QED BY <1>1, <2>6, <2>7 DEF TFTypeOK
<1> QED BY <1>2, <1>3, <1>4 DEF TFNext

\* As long as the read goes on there is a range to read.
RangesRead == erPhase = "reading" => ranges # <<>>

\* A range is cut within its ends, and tokens are of events read.
LEMMA ERKeepsTypes ==
    ASSUME ERTypeOK, RangesRead, [ERNext]_erVars
    PROVE  ERTypeOK' /\ RangesRead'
<1>1. /\ request \in Requests /\ ranges \in Seq(LedgerRange) /\ cursor \in {None} \cup Events
      /\ page \in Seq(Events) /\ output \in Seq(Events)
      /\ seenTokens \subseteq Events /\ dropped \subseteq Events
      /\ erPhase \in {"none", "reading", "finished", "failed"}
  BY DEF ERTypeOK
<1>2. cursor \in Nat
  BY <1>1, LedgerFacts DEF None
<1>3. ToSet(page) \subseteq Events
  BY <1>1, LenProperties DEF ToSet
<1>4. CASE UNCHANGED erVars
  BY <1>4 DEF erVars, ERTypeOK, RangesRead
<1>5. ASSUME NEW r \in Requests, GetContractEvents(r) PROVE ERTypeOK' /\ RangesRead'
  <2> DEFINE lo == Min({r.start, r.end})  hi == Max({r.start, r.end})
  <2>1. r.start \in 1..MaxLedger /\ r.end \in 1..MaxLedger /\ r.cursor \in {None} \cup Events
    BY DEF Requests
  <2>2. lo \in 1..MaxLedger /\ hi \in 1..MaxLedger
    <3>1. r.start \in Int /\ r.end \in Int
      BY <2>1
    <3>2. lo = (IF r.start <= r.end THEN r.start ELSE r.end) /\ hi = (IF r.start >= r.end THEN r.start ELSE r.end)
      BY <3>1, MinOfTwo, MaxOfTwo
    <3> HIDE DEF lo, hi
    <3> QED BY <2>1, <3>2
  <2>3. request' = [r EXCEPT !.start = lo, !.end = hi]
    BY <1>5 DEF GetContractEvents
  <2> HIDE DEF lo, hi
  <2>4. request' \in Requests /\ request'.start = lo /\ request'.end = hi
    BY <2>2, <2>3 DEF Requests
  <2>5. /\ ranges' = <<[start |-> lo, end |-> hi]>> /\ cursor' = r.cursor /\ erPhase' = "reading"
        /\ UNCHANGED <<page, seenTokens, output, dropped>>
    BY <1>5, <2>4 DEF GetContractEvents
  <2>6. ranges' \in Seq(LedgerRange) /\ ranges' # <<>>
    BY <2>2, <2>5 DEF LedgerRange
  <2> QED BY <1>1, <2>1, <2>4, <2>5, <2>6 DEF ERTypeOK, RangesRead
<1>6. CASE PageArrives
  <2> DEFINE a == Answer
  <2>1. PICK token \in Tokens(a) :
           IF ~request.fetchAll \/ token = None \/ token \in seenTokens
           THEN RangeDone(page \o a)
           ELSE /\ page' = page \o a
                /\ seenTokens' = seenTokens \cup {token}
                /\ cursor' = token
                /\ UNCHANGED <<request, ranges, output, dropped, erPhase>>
    BY <1>6 DEF PageArrives
  <2>2. ranges # <<>> /\ erPhase = "reading"
    BY <1>6 DEF PageArrives, RangesRead
  <2>3. Head(ranges) \in LedgerRange /\ Tail(ranges) \in Seq(LedgerRange)
    BY <1>1, <2>2
  <2>4. a \in Seq(Events) /\ (a # <<>> => Last(a) \in ToSet(a))
    BY <1>2, <2>3, AnswerSound
  <2> HIDE DEF a
  <2>5. token \in {None} \cup Events
    <3>1. a # <<>> => Last(a) \in Events
      BY <2>4, LenProperties DEF ToSet
    <3> QED BY <1>1, <2>1, <3>1 DEF Tokens
  <2>6. page \o a \in Seq(Events)
    BY <1>1, <2>4, ConcatProperties
  <2>7. CASE RangeDone(page \o a)
    <3>1. output' \in Seq(Events) /\ page' = <<>>
      BY <1>1, <2>6, <2>7, ConcatProperties DEF RangeDone
    <3>2. ranges' \in Seq(LedgerRange) /\ cursor' = None /\ seenTokens' = {} /\ UNCHANGED <<request, dropped>>
      BY <2>3, <2>7 DEF RangeDone
    <3>3. erPhase' \in {"none", "reading", "finished", "failed"} /\ RangesRead'
      BY <2>7 DEF RangeDone, RangesRead
    <3>4. <<>> \in Seq(Events)
      OBVIOUS
    <3> QED BY <1>1, <3>1, <3>2, <3>3, <3>4 DEF ERTypeOK
  <2>8. CASE ~RangeDone(page \o a)
    BY <1>1, <2>1, <2>2, <2>5, <2>6, <2>8 DEF ERTypeOK, RangesRead
  <2> QED BY <2>7, <2>8
<1>7. CASE TooLarge
  <2> DEFINE r == Head(ranges)  h == Halves(r)
  <2>1. ranges # <<>> /\ erPhase = "reading" /\ r.start < r.end
    BY <1>7 DEF TooLarge, RangesRead
  <2>2. r \in LedgerRange /\ Tail(ranges) \in Seq(LedgerRange)
    BY <1>1, <2>1
  <2>3. r.start \in 1..MaxLedger /\ r.end \in 1..MaxLedger /\ MaxLedger \in Nat
    BY <2>2, LedgerFacts DEF LedgerRange
  <2>4. Midpoint(r) \in 1..MaxLedger /\ Midpoint(r) + 1 \in 1..MaxLedger
    BY <2>1, <2>3 DEF Midpoint
  <2>5. h \in Seq(LedgerRange) /\ h # <<>>
    BY <2>2, <2>4 DEF Halves, LedgerRange
  <2>6. /\ ranges' = h \o Tail(ranges) /\ page' = <<>> /\ dropped' = dropped \cup ToSet(page)
        /\ seenTokens' = {} /\ UNCHANGED <<request, cursor, output, erPhase>>
    BY <1>7 DEF TooLarge
  <2> HIDE DEF h
  <2>7. ranges' \in Seq(LedgerRange) /\ Len(ranges') = Len(h) + Len(Tail(ranges))
    BY <2>2, <2>5, <2>6, ConcatProperties
  <2>8. ranges' # <<>>
    <3>1. Len(h) \in Nat \ {0} /\ Len(Tail(ranges)) \in Nat
      BY <2>2, <2>5, LenProperties, NonEmpty
    <3> QED BY <2>7, <3>1, NonEmpty
  <2>9. <<>> \in Seq(Events)
    OBVIOUS
  <2> QED BY <1>1, <1>3, <2>6, <2>7, <2>8, <2>9 DEF ERTypeOK, RangesRead
<1>8. CASE RequestFails
  BY <1>1, <1>8 DEF RequestFails, ERTypeOK, RangesRead
<1> QED BY <1>4, <1>5, <1>6, <1>7, <1>8 DEF ERNext, ERSystem

\* A range asked for, before it is read.
LEMMA ERInitTyped == ERInit => ERTypeOK /\ RangesRead
<1>1. 1 \in 1..MaxLedger
  BY EventRangesAssumption
<1>2. <<>> \in Seq(LedgerRange) /\ <<>> \in Seq(Events)
  OBVIOUS
<1> QED BY <1>1, <1>2, LedgerFacts DEF ERInit, ERTypeOK, RangesRead, Requests

\* The first states of those parts have their types,
LEMMA OthersInitTyped ==
    Init => /\ LGTypeOK /\ SSTypeOK /\ ESTypeOK /\ TLTypeOK /\ TLBounded /\ TFTypeOK
<1> SUFFICES ASSUME Init PROVE /\ LGTypeOK /\ SSTypeOK /\ ESTypeOK /\ TLTypeOK /\ TLBounded /\ TFTypeOK
  OBVIOUS
<1>1. LGTypeOK
  <2>1. LGInit
    BY DEF Init
  <2>2. DOMAIN initializing = {} /\ initializing \in [DOMAIN initializing -> {"importing", "ensuring"}]
    BY <2>1 DEF LGInit
  <2>3. logged \in 0..MaxEntries /\ logQueue = <<>> /\ flushes = <<>> /\ delivered = {} /\ rejected = {}
    BY <2>1, LoggerAssumption DEF LGInit
  <2>4. {hasClient, isInitialized, isDestroyed, flushTimer} \subseteq BOOLEAN
    BY <2>1 DEF LGInit
  <2>5. <<>> \in Seq(Entries) /\ <<>> \in Seq([batch : Seq(Entries), attempt : 1..MaxAttempts, sent : BOOLEAN, closing : BOOLEAN])
    OBVIOUS
  <2> QED BY <2>2, <2>3, <2>4, <2>5 DEF LGTypeOK
<1>2. SSTypeOK
  BY SessionAssumption DEF Init, SSInit, SSTypeOK
<1>3. ESTypeOK
  <2>1. <<>> \in Seq(Listeners) /\ IsInjective(<<>>) /\ <<>> \in Seq([config : Config, todo : Seq(Listeners), own : BOOLEAN, inside : BOOLEAN])
    BY DEF IsInjective
  <2>2. NoConfig \in Config
    BY DEF Config
  <2>3. ESInit
    BY DEF Init
  <2>4. DOMAIN registry = {} /\ registry \in [DOMAIN registry -> Config]
    BY <2>3 DEF ESInit
  <2>5. client \in [config : Config, rpc : Config]
    BY <2>2, <2>3 DEF ESInit
  <2>6. registered \in 0..MaxRegistered /\ switches \in 0..MaxSwitches /\ nested \in BOOLEAN /\ active = NoEnvironment
    <3>1. registered = 0 /\ switches = 0 /\ nested = FALSE /\ active = NoEnvironment
      BY <2>3 DEF ESInit
    <3>2. 0 \in 0..MaxRegistered /\ 0 \in 0..MaxSwitches
      BY EnvironmentAssumption
    <3> QED BY <3>1, <3>2
  <2>7. follows = <<>> /\ calls = <<>>
    BY <2>3 DEF ESInit
  <2> QED BY <2>1, <2>4, <2>5, <2>6, <2>7 DEF ESTypeOK
<1>4. TLTypeOK /\ TLBounded
  <2>1. TLInit
    BY DEF Init
  <2>2. "confirmed" \in ToSet(Order)
    <3>1. Order[9] = "confirmed" /\ 9 \in DOMAIN Order
      BY DEF Order
    <3> QED BY <3>1 DEF ToSet
  <2>3. /\ <<>> \in Seq(ToSet(Order) \cup {"failed"}) /\ <<>> \in Seq(1..MaxEvents) /\ Len(<<>>) = 0
        /\ <<>> \in Seq([event : 1..MaxEvents, todo : Seq(Subscribers), running : Subscribers \cup {NoListener}])
    OBVIOUS
  <2>4. subscribed \in Seq(Subscribers) /\ IsInjective(subscribed) /\ subscribed[1] = "first"
    <3>1. subscribed = <<"first">> /\ "first" \in Subscribers
      BY <2>1 DEF TLInit, Subscribers
    <3> QED BY <3>1 DEF IsInjective
  <2> QED BY <2>1, <2>2, <2>3, <2>4, LifecycleAssumption DEF TLInit, TLTypeOK, TLBounded
<1>5. TFTypeOK
  BY DEF Init, TFInit, TFTypeOK, NoValidation
<1> QED BY <1>1, <1>2, <1>3, <1>4, <1>5

\* and so have those of the others.
LEMMA MoreInitTyped ==
    Init => /\ ECTypeOK /\ IRTypeOK /\ MKTypeOK /\ SnapshotTyped /\ TRTypeOK /\ SpansCounted
            /\ TMTypeOK /\ PDTypeOK /\ EDTypeOK
<1> SUFFICES ASSUME Init
             PROVE  /\ ECTypeOK /\ IRTypeOK /\ MKTypeOK /\ SnapshotTyped /\ TRTypeOK /\ SpansCounted
                    /\ TMTypeOK /\ PDTypeOK /\ EDTypeOK
  OBVIOUS
<1>1. ECTypeOK
  <2>1. ECInit /\ ECInv
    BY ECInitInv DEF Init
  <2>2. NotRejected \in SdkErrors
    BY DEF NotRejected, SdkError, SdkErrors, ErrorNames
  <2>3. /\ tries = 0 /\ rounds = 0 /\ timesSent = 0 /\ rejection = NotRejected /\ repeatedAfter = {}
    BY <2>1 DEF ECInit
  <2> QED BY <2>1, <2>2, <2>3 DEF ECInv, ECTypeOK
<1>2. IRTypeOK
  <2>1. IRInit /\ IRInv
    BY IRInitInv DEF Init
  <2>2. Len(recordings) <= MaxRecorded /\ settledSince \in Seq(1..MaxRecorded) /\ imported \in BOOLEAN
    <3>1. recordings = <<>> /\ settledSince = <<>> /\ imported = FALSE
      BY <2>1 DEF IRInit
    <3>2. Len(<<>>) = 0 /\ <<>> \in Seq(1..MaxRecorded)
      OBVIOUS
    <3>3. 0 <= MaxRecorded
      BY ReplayAssumption
    <3> QED BY <3>1, <3>2, <3>3
  <2> QED BY <2>1, <2>2 DEF IRInv, IRTypeOK, Told, ReplayResult
<1>3. MKTypeOK /\ SnapshotTyped
  <2>1. MKInit /\ MKInv
    BY MKInitInv DEF Init
  <2>2. /\ mockLedger = 0 /\ mocked = <<>> /\ transactions = NoTransactions /\ snapshot = NoSnapshot /\ injected = <<>>
    BY <2>1 DEF MKInit
  <2>3. DOMAIN NoTransactions = {} /\ NoTransactions \in [{} -> DOMAIN mocked]
    BY DEF NoTransactions
  <2>4. 0 \in Ledgers /\ <<>> \in Seq(Injectable)
    BY MockAssumption
  <2> QED BY <2>1, <2>2, <2>3, <2>4 DEF MKInv, MKTypeOK, MockEntry, SnapshotTyped, NoSnapshot
<1>4. TRTypeOK /\ SpansCounted
  <2>1. TRInit
    BY DEF Init
  <2>2. /\ tracing \in BOOLEAN /\ spanCounter = 0 /\ startTimes = <<>> /\ activeSpans = {} /\ spans = <<>>
        /\ running = <<>> /\ peak = 0 /\ MaxCalls \in Nat /\ Spans = {}
    BY <2>1, TracerAssumption DEF TRInit, Spans
  <2>3. <<>> \in [{} -> Nat] /\ <<>> \in Seq(Spans) /\ IsInjective(<<>>) /\ <<>> \in Seq({NoSpan, Over} \cup Spans) /\ Len(<<>>) = 0
    BY DEF IsInjective
  <2> QED BY <2>2, <2>3 DEF TRTypeOK, SpansCounted
<1>5. TMTypeOK
  <2>1. TMInit
    BY DEF Init
  <2>2. <<>> \in Seq(Tracked) /\ MaxTracked \in Nat
    BY TelemetryAssumption
  <2>3. /\ collecting \in [enabled : BOOLEAN, size : BufferSizes] /\ tracked = 0 /\ buffered = <<>>
        /\ handler = FALSE /\ handedOver = {} /\ discarded = {} /\ destroyed = FALSE
    BY <2>1 DEF TMInit
  <2>4. telemetryTimer \in BOOLEAN /\ intervals \in Nat
    BY <2>1 DEF TMInit
  <2>5. 0 \in 0..MaxTracked
    BY <2>2
  <2> QED BY <2>2, <2>3, <2>4, <2>5 DEF TMTypeOK
<1>6. PDTypeOK
  BY PDInitInv DEF Init, PDInv
<1>7. EDTypeOK
  <2>1. EDInit
    BY DEF Init
  <2>2. DOMAIN entries = {} /\ entries \in [DOMAIN entries -> [id : SubscriptionIds, filter : Filters]]
    BY <2>1 DEF EDInit, NoEntries
  <2>3. caller \in SubscriptionIds /\ places = 0 /\ 0 \in 0..MaxPlaces
    BY <2>1, DeliveryAssumption DEF EDInit
  <2>4. byDispatcher \in BOOLEAN /\ untouched = {} /\ visited = 0 /\ calling = 0 /\ eventCounts = {} /\ leftInside = {}
        /\ eventKind = NoKind
    BY <2>1 DEF EDInit
  <2> QED BY <2>2, <2>3, <2>4 DEF EDTypeOK
<1> QED BY <1>1, <1>2, <1>3, <1>4, <1>5, <1>6, <1>7

\* Whatever happens, every variable of every workflow keeps its type.
THEOREM WorkflowsTypeCorrect == Spec => []TypeOK
<1> DEFINE Kept == /\ BTInv /\ RTInv /\ HRInv /\ WPInv /\ VHInv /\ ASInv /\ ADInv /\ OSInv
                   /\ XCInv /\ CDInv /\ ARInv /\ FFInv
                   /\ LGInv /\ SSInv /\ ESInv /\ TLInv /\ TMInv /\ ECInv /\ IRInv /\ MKInv /\ TRInv /\ MGInv
           Typed == /\ ERTypeOK /\ RangesRead /\ LGTypeOK /\ SSTypeOK /\ ESTypeOK /\ TLTypeOK /\ TLBounded
                    /\ TMTypeOK /\ ECTypeOK /\ IRTypeOK /\ MKTypeOK /\ SnapshotTyped /\ TRTypeOK /\ SpansCounted
                    /\ TFTypeOK /\ PDTypeOK /\ EDTypeOK
           Inv == Kept /\ Typed /\ subject \in Subjects
<1>1. Init => Inv
  <2>1. Init => Kept
    BY BTInitInv, RTInitInv, HRInitInv, WPInitInv, VHInitInv, ASInitInv, ADInitInv, OSInitInv, XCInitInv,
       CDInitInv, ARInitInv, FFInitInv, LGInitInv, SSInitInv, ESInitInv, TLInitInv, TMInitInv, ECInitInv,
       IRInitInv, MKInitInv, TRInitInv, MGInitInv DEF Init
  <2>2. Init => Typed
    BY ERInitTyped, OthersInitTyped, MoreInitTyped DEF Init
  <2> QED BY <2>1, <2>2 DEF Init
<1>2. Inv /\ [Next]_vars => Inv'
  <2> SUFFICES ASSUME Inv, [Next]_vars PROVE Inv'
    OBVIOUS
  <2>1. /\ [BTNext]_btVars /\ [RTNext]_rtVars /\ [HRNext]_hrVars /\ [WPNext]_wpVars /\ [VHNext]_vhVars
        /\ [ASNext]_asVars /\ [ADNext]_adVars /\ [OSNext]_osVars /\ [XCNext]_xcVars /\ [CDNext]_cdVars
        /\ [ARNext]_arVars /\ [FFNext]_ffVars
        /\ [LGNext]_lgVars /\ [SSNext]_ssVars /\ [ESNext]_esVars /\ [TLNext]_tlVars /\ [TMNext]_tmVars
        /\ [ECNext]_ecVars /\ [IRNext]_irVars /\ [MKNext]_mkVars /\ [TRNext]_trVars /\ [MGNext]_mgVars
        /\ [ERNext]_erVars /\ [TFNext]_tfVars /\ [PDNext]_pdVars /\ [EDNext]_edVars
        /\ UNCHANGED subject
    BY DEF Next, vars
  <2>2. Kept'
    BY <2>1, BTNextInv, RTNextInv, HRNextInv, WPNextInv, VHNextInv, ASNextInv, ADNextInv, OSNextInv, XCNextInv,
       CDNextInv, ARNextInv, FFNextInv, LGNextInv, SSNextInv, ESNextInv, TLNextInv, TMNextInv, ECNextInv,
       IRNextInv, MKNextInv, TRNextInv, MGNextInv
  <2>3. Typed'
    BY <2>1, <2>2, ERKeepsTypes, LGKeepsTypes, SSKeepsTypes, ESKeepsTypes, TLKeepsTypes, TMKeepsTypes,
       ECKeepsTypes, IRKeepsTypes, MKKeepsTypes, TRKeepsTypes, TFKeepsTypes, PDKeepsTypes, EDKeepsTypes
  <2> QED BY <2>1, <2>2, <2>3
<1>3. Inv => TypeOK
  BY CDInvTyped, ARInvTyped, FFInvTyped
     DEF BTInv, RTInv, HRInv, WPInv, VHInv, ASInv, ADInv, OSInv, MGInv, XCInv, XCTypeOK, TypeOK
<1> QED BY <1>1, <1>2, <1>3, PTL DEF Spec
===============================================================================
