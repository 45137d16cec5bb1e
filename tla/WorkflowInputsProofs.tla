-------------------------- MODULE WorkflowInputsProofs --------------------------
(***************************************************************************)
(* Proofs that what a transaction is made from can be relied on: sequence  *)
(* numbers, ABI versions, fees, the network it is signed for, and decoded  *)
(* values, part by part, and the order plugins are installed in;           *)
(* ClientWorkflowsProofs puts them together.  All for every size, limit    *)
(* and number of actors.                                                   *)
(*                                                                         *)
(* Sequence numbers leave no gap because what the node has answered is of  *)
(* now or of before, and what is cached was given out last.  A detection   *)
(* finds the deployed version because none of those it has passed tells.   *)
(* Fees are compared with products of fractions, of which the numerator is *)
(* a recursive function of the digits, as the worth is.  A signed          *)
(* transaction keeps to its network because packages do while they travel. *)
(* The cache is the end of what was decoded, and so loses its first only.  *)
(* A depth-first search has, of those it is done with, nothing left to     *)
(* call, and unless a cycle was closed each after what it needs; with each *)
(* call or end, fewer are left.                                            *)
(***************************************************************************)
EXTENDS AccountSequences, AbiDetection, TransactionFees, OfflineSigning, Registries, PluginDependencies,
        CommonLemmas

-----------------------------------------------------------------------------
(* The numbers of an account.                                               *)

\* The node's answers are of now or of before.
AnswersPast ==
    \A f \in Fetches : /\ fetch[f].number <= chain
                       /\ fetch[f].stage = "answered" => fetch[f].number # NoNumber

\* What is cached was given out last.
CachedLast == cached # NoNumber => given # <<>> /\ cached = Last(given).number

\* Between the node's number and one given out each was given out before.
NoGaps ==
    \A k \in DOMAIN given : \A n \in chain..(given[k].number - 1) :
        \E j \in 1..(k - 1) : given[j].number = n

\* Numbers rise as long as the node is not asked.
OfflineRises ==
    \A k \in DOMAIN given, j \in DOMAIN given :
        j < k /\ (\A i \in (j + 1)..k : given[i].offline) => given[j].number < given[k].number

ASInv == ASTypeOK /\ AnswersPast /\ CachedLast /\ NoGaps /\ OfflineRises

GivenNumber == [number : Numbers, offline : BOOLEAN]

LEMMA GivenTyped == ASInv => given \in Seq(GivenNumber) /\ \A k \in DOMAIN given : given[k].number \in Numbers
<1> SUFFICES ASSUME ASInv PROVE given \in Seq(GivenNumber) /\ \A k \in DOMAIN given : given[k].number \in Numbers
  OBVIOUS
<1>1. given \in Seq(GivenNumber)
  BY DEF ASInv, ASTypeOK, GivenNumber
<1>2. \A k \in DOMAIN given : given[k] \in GivenNumber
  BY <1>1
<1> QED BY <1>1, <1>2 DEF GivenNumber

LEMMA ASInvUsable == ASInv => NumbersUsable
<1> SUFFICES ASSUME ASInv, NEW k \in DOMAIN given
             PROVE  /\ \A n \in chain..(given[k].number - 1) : \E j \in 1..(k - 1) : given[j].number = n
                    /\ given[k].offline =>
                          \A j \in 1..(k - 1) :
                             given[j].number = given[k].number => \E i \in (j + 1)..k : ~given[i].offline
  BY DEF NumbersUsable
<1>1. given \in Seq(GivenNumber) /\ \A l \in DOMAIN given : given[l].number \in Numbers
  BY GivenTyped
<1>2. ASSUME NEW j \in 1..(k - 1), given[j].number = given[k].number
      PROVE  \E i \in (j + 1)..k : ~given[i].offline
  <2>1. j \in DOMAIN given /\ j < k
    BY <1>1
  <2>2. given[j].number \in Numbers
    BY <1>1, <2>1
  <2>3. ~(given[j].number < given[k].number)
    BY <1>2, <2>2, AccountAssumption DEF Numbers
  <2> QED BY <2>1, <2>3 DEF ASInv, OfflineRises
<1> QED BY <1>2 DEF ASInv, NoGaps

LEMMA ASInitInv == ASInit => ASInv
BY AccountAssumption DEF ASInit, ASInv, ASTypeOK, AnswersPast, CachedLast, NoGaps, OfflineRises, Numbers, NoNumber

\* A number that is the node's or follows the cached one may be given out.
LEMMA GiveOutKeeps ==
    ASSUME ASInv, NEW f \in Fetches, NEW number \in Numbers, NEW offline \in BOOLEAN,
           GiveOut(f, number, offline), UNCHANGED <<chain, sending>>,
           IF offline THEN cached # NoNumber /\ number = cached + 1 ELSE number <= chain
    PROVE  ASInv'
<1> DEFINE entry == [number |-> number, offline |-> offline]
           last == Len(given) + 1
<1>1. /\ given \in Seq(GivenNumber) /\ chain \in Numbers /\ cached \in Numbers \cup {NoNumber}
      /\ sending \in Seq(1..(MaxSequence + 1))
      /\ \A k \in DOMAIN given : given[k].number \in Numbers
  BY GivenTyped DEF ASInv, ASTypeOK
<1>2. /\ fetch' = [fetch EXCEPT ![f].stage = "over"] /\ cached' = number
      /\ given' = Append(given, entry)
  BY DEF GiveOut
<1>3. entry \in GivenNumber /\ entry.number = number /\ entry.offline = offline
  BY DEF GivenNumber
<1> HIDE DEF entry
<1>4. /\ given' \in Seq(GivenNumber) /\ DOMAIN given' = DOMAIN given \cup {last} /\ given' # <<>>
      /\ DOMAIN given = 1..(last - 1) /\ last \in Nat \ {0} /\ Len(given') = last
      /\ \A k \in DOMAIN given : given'[k] = given[k] /\ k < last /\ k \in Nat
      /\ given'[last] = entry
  BY <1>1, <1>2, <1>3
<1>5. /\ fetch' \in [Fetches -> [stage : {"idle", "asked", "answered", "over"}, number : Numbers \cup {NoNumber}]]
      /\ \A g \in Fetches : fetch'[g].number = fetch[g].number
      /\ \A g \in Fetches : fetch'[g].stage = "answered" => fetch[g].stage = "answered"
  BY <1>2 DEF ASInv, ASTypeOK
<1>6. ASTypeOK'
  BY <1>1, <1>2, <1>4, <1>5 DEF ASTypeOK, GivenNumber
<1>7. AnswersPast'
  BY <1>5 DEF ASInv, AnswersPast
<1>8. CachedLast'
  BY <1>2, <1>3, <1>4 DEF CachedLast, Last
<1>9. offline => last # 1 /\ cached = given[last - 1].number /\ last - 1 \in DOMAIN given
  <2>1. offline => given # <<>> /\ cached = Last(given).number
    BY DEF ASInv, CachedLast
  <2>2. last # 1 => last - 1 \in DOMAIN given
    BY <1>4
  <2>3. given # <<>> => last # 1
    BY <1>1
  <2> QED BY <2>1, <2>2, <2>3 DEF Last
<1> HIDE DEF last
<1>10. NoGaps'
  <2>1. ASSUME NEW k \in DOMAIN given, NEW n \in chain..(given[k].number - 1)
        PROVE  \E j \in 1..(k - 1) : given'[j].number = n
    <3>1. PICK j \in 1..(k - 1) : given[j].number = n
      BY <2>1 DEF ASInv, NoGaps
    <3>2. j \in DOMAIN given
      BY <1>4, <3>1
    <3> QED BY <1>4, <3>1, <3>2
  <2>2. ASSUME NEW n \in chain..(number - 1)
        PROVE  \E j \in 1..(last - 1) : given'[j].number = n
    <3>1. offline /\ number = cached + 1
      BY <1>1, <2>2, AccountAssumption DEF Numbers
    <3>2. last - 1 \in DOMAIN given /\ given'[last - 1].number = cached /\ cached \in Numbers
      BY <1>1, <1>4, <1>9, <3>1
    <3>3. CASE n = cached
      BY <1>4, <3>2, <3>3
    <3>4. CASE n # cached
      <4>1. n \in chain..(given[last - 1].number - 1)
        BY <1>1, <1>9, <3>1, <3>2, <3>4, AccountAssumption DEF Numbers
      <4>2. PICK j \in 1..((last - 1) - 1) : given'[j].number = n
        BY <2>1, <3>2, <4>1
      <4> QED BY <1>4, <4>2
    <3> QED BY <3>3, <3>4
  <2>3. ASSUME NEW k \in DOMAIN given', NEW n \in chain..(given'[k].number - 1)
        PROVE  \E j \in 1..(k - 1) : given'[j].number = n
    <3>1. CASE k = last
      <4>1. n \in chain..(number - 1)
        BY <1>3, <1>4, <2>3, <3>1
      <4> QED BY <2>2, <3>1, <4>1
    <3>2. CASE k # last
      <4>1. k \in DOMAIN given /\ n \in chain..(given[k].number - 1)
        BY <1>4, <2>3, <3>2
      <4> QED BY <2>1, <4>1
    <3> QED BY <3>1, <3>2
  <2> QED BY <2>3 DEF NoGaps
<1>11. OfflineRises'
  <2>1. ASSUME NEW k \in DOMAIN given', NEW j \in DOMAIN given', j < k,
               \A i \in (j + 1)..k : given'[i].offline
        PROVE  given'[j].number < given'[k].number
    <3>1. j \in DOMAIN given /\ j \in Nat /\ k \in Nat
      BY <1>4, <2>1
    <3>2. CASE k \in DOMAIN given
      <4>1. \A i \in (j + 1)..k : i \in DOMAIN given
        BY <1>4, <3>1, <3>2
      <4>2. \A i \in (j + 1)..k : given[i].offline
        BY <1>4, <2>1, <4>1
      <4> QED BY <1>4, <2>1, <3>1, <3>2, <4>2 DEF ASInv, OfflineRises
    <3>3. CASE k = last
      <4>1. offline /\ number = cached + 1
        <5>1. k \in (j + 1)..k
          BY <2>1, <3>1
        <5> QED BY <1>3, <1>4, <2>1, <3>3, <5>1
      <4>2. last - 1 \in DOMAIN given /\ given[last - 1].number = cached /\ cached \in Numbers
        BY <1>1, <1>9, <4>1
      <4>3. given[j].number <= cached
        <5>1. CASE j = last - 1
          BY <4>2, <5>1, AccountAssumption DEF Numbers
        <5>2. CASE j # last - 1
          <6>1. j < last - 1
            BY <1>4, <3>1, <5>2
          <6>2. \A i \in (j + 1)..(last - 1) : i \in DOMAIN given /\ i \in (j + 1)..k
            BY <1>4, <3>1, <3>3
          <6>3. \A i \in (j + 1)..(last - 1) : given[i].offline
            BY <1>4, <2>1, <6>2
          <6>4. given[j].number < given[last - 1].number
            BY <3>1, <4>2, <6>1, <6>3 DEF ASInv, OfflineRises
          <6>5. given[j].number \in Nat /\ cached \in Nat
            BY <1>1, <3>1, <4>2, AccountAssumption DEF Numbers
          <6> QED BY <4>2, <6>4, <6>5
        <5> QED BY <5>1, <5>2
      <4>4. given[j].number \in Numbers /\ given'[j] = given[j] /\ given'[k].number = cached + 1
        BY <1>1, <1>3, <1>4, <3>1, <3>3, <4>1
      <4> QED BY <4>2, <4>3, <4>4, AccountAssumption DEF Numbers
    <3> QED BY <1>4, <3>2, <3>3
  <2> QED BY <2>1 DEF OfflineRises
<1> QED BY <1>6, <1>7, <1>8, <1>10, <1>11 DEF ASInv

\* The node's number only rises, which nothing minds.
LEMMA ChainRises ==
    ASSUME ASInv, chain' \in Numbers, chain <= chain', UNCHANGED <<fetch, given>>,
           cached' = cached \/ cached' = NoNumber, sending' \in Seq(1..(MaxSequence + 1))
    PROVE  ASInv'
<1>1. ASTypeOK'
  BY DEF ASInv, ASTypeOK
<1>2. chain \in Int /\ chain' \in Int /\ \A f \in Fetches : fetch[f].number \in Int
  BY AccountAssumption DEF ASInv, ASTypeOK, Numbers, NoNumber
<1>3. AnswersPast'
  BY <1>2 DEF ASInv, AnswersPast
<1>4. CachedLast'
  BY DEF ASInv, CachedLast
<1>5. NoGaps'
  <2>1. ASSUME NEW k \in DOMAIN given, NEW n \in chain'..(given[k].number - 1)
        PROVE  n \in chain..(given[k].number - 1)
    <3>1. given[k].number \in Numbers
      BY GivenTyped
    <3> QED BY <1>2, <2>1, <3>1, AccountAssumption DEF Numbers
  <2> QED BY <2>1 DEF ASInv, NoGaps
<1>6. OfflineRises'
  BY DEF ASInv, OfflineRises
<1> QED BY <1>1, <1>3, <1>4, <1>5, <1>6 DEF ASInv

\* A call moves on, with an answer of now if any.
LEMMA CallMoves ==
    ASSUME ASInv, UNCHANGED <<chain, given, sending>>, cached' = cached \/ cached' = NoNumber,
           fetch' \in [Fetches -> [stage : {"idle", "asked", "answered", "over"},
                                   number : Numbers \cup {NoNumber}]],
           \A f \in Fetches : \/ fetch'[f] = fetch[f]
                              \/ fetch'[f].number = fetch[f].number /\ fetch'[f].stage # "answered"
                              \/ fetch'[f].number = chain
    PROVE  ASInv'
<1>1. ASTypeOK'
  BY DEF ASInv, ASTypeOK
<1>2. AnswersPast'
  <2>1. chain <= chain /\ chain # NoNumber
    BY AccountAssumption DEF ASInv, ASTypeOK, Numbers, NoNumber
  <2> QED BY <2>1 DEF ASInv, AnswersPast
<1>3. CachedLast'
  BY DEF ASInv, CachedLast
<1> QED BY <1>1, <1>2, <1>3 DEF ASInv, NoGaps, OfflineRises

LEMMA ASNextInv == ASInv /\ [ASNext]_asVars => ASInv'
<1> SUFFICES ASSUME ASInv, [ASNext]_asVars PROVE ASInv'
  OBVIOUS
<1> DEFINE Calls == [stage : {"idle", "asked", "answered", "over"}, number : Numbers \cup {NoNumber}]
<1>0. /\ fetch \in [Fetches -> Calls] /\ chain \in Numbers /\ cached \in Numbers \cup {NoNumber}
      /\ sending \in Seq(1..(MaxSequence + 1)) /\ given \in Seq([number : Numbers, offline : BOOLEAN])
  BY DEF ASInv, ASTypeOK
<1>1. ASSUME NEW f \in Fetches, GetAccountWithCache(f) PROVE ASInv'
  BY <1>0, <1>1, CallMoves DEF GetAccountWithCache
<1>2. ASSUME NEW f \in Fetches, NodeReads(f) PROVE ASInv'
  BY <1>0, <1>2, CallMoves DEF NodeReads
<1>3. ASSUME NEW f \in Fetches, FetchSucceeds(f) PROVE ASInv'
  <2>1. fetch[f].number <= chain /\ GiveOut(f, fetch[f].number, FALSE) /\ UNCHANGED <<chain, sending>>
    BY <1>3 DEF ASInv, AnswersPast, FetchSucceeds
  <2>2. fetch[f].number \in Numbers
    <3>1. fetch[f].number # NoNumber
      BY <1>3 DEF ASInv, AnswersPast, FetchSucceeds
    <3> QED BY <1>0, <3>1
  <2> QED BY <2>1, <2>2, GiveOutKeeps
<1>4. ASSUME NEW f \in Fetches, FallBack(f) PROVE ASInv'
  <2>1. cached # NoNumber /\ cached < MaxSequence /\ GiveOut(f, cached + 1, TRUE) /\ UNCHANGED <<chain, sending>>
    BY <1>4 DEF FallBack
  <2>2. cached + 1 \in Numbers
    BY <1>0, <2>1, AccountAssumption DEF Numbers
  <2> QED BY <2>1, <2>2, GiveOutKeeps
<1>5. ASSUME NEW f \in Fetches, FetchFails(f) PROVE ASInv'
  BY <1>0, <1>5, CallMoves DEF FetchFails
<1>6. CASE ClearCache
  BY <1>0, <1>6, CallMoves DEF ClearCache
<1>7. CASE SubmitSequentially
  <2>1. PICK i \in DOMAIN given :
            sending' = [k \in DOMAIN SubSeq(given, i, Len(given)) |-> SubSeq(given, i, Len(given))[k].number + 1]
    BY <1>7 DEF SubmitSequentially
  <2> DEFINE s == SubSeq(given, i, Len(given))
  <2>2. s \in Seq(GivenNumber)
    BY GivenTyped
  <2>3. \A k \in DOMAIN s : s[k].number + 1 \in 1..(MaxSequence + 1)
    <3>1. \A e \in GivenNumber : e.number + 1 \in 1..(MaxSequence + 1)
      BY AccountAssumption DEF GivenNumber, Numbers
    <3>2. \A k \in DOMAIN s : s[k] \in GivenNumber
      <4> HIDE DEF s
      <4> QED BY <2>2
    <3> HIDE DEF s
    <3> QED BY <3>1, <3>2
  <2>4. sending' = [k \in 1..Len(s) |-> s[k].number + 1] /\ Len(s) \in Nat
    <3>1. DOMAIN s = 1..Len(s) /\ Len(s) \in Nat
      BY <2>2
    <3> QED BY <2>1, <3>1
  <2> HIDE DEF s
  <2>5. sending' \in Seq(1..(MaxSequence + 1))
    <3>1. \A k \in 1..Len(s) : s[k].number + 1 \in 1..(MaxSequence + 1)
      BY <2>2, <2>3
    <3> QED BY <2>4, <3>1
  <2>6. chain \in Numbers /\ chain <= chain /\ UNCHANGED <<chain, cached, fetch, given>>
    BY <1>0, <1>7, AccountAssumption DEF SubmitSequentially, Numbers
  <2> QED BY <1>0, <2>5, <2>6, ChainRises
<1>8. CASE MadeElsewhere
  <2>1. chain' \in Numbers /\ chain <= chain'
    BY <1>0, <1>8, AccountAssumption DEF MadeElsewhere, Numbers
  <2> QED BY <1>0, <1>8, <2>1, ChainRises DEF MadeElsewhere
<1>9. CASE Sent \/ SendThrows
  <2>1. sending # <<>> /\ sending' \in {Tail(sending), <<>>}
        /\ cached' \in {cached, NoNumber} /\ UNCHANGED <<fetch, given>>
        /\ (Taken(Head(sending)) \/ UNCHANGED chain)
    BY <1>9 DEF Sent, SendThrows
  <2>2. chain' \in Numbers /\ chain <= chain'
    <3> DEFINE Rest == 1..(MaxSequence + 1)
    <3>1. Head(sending) \in Rest
      <4>1. sending \in Seq(Rest) /\ sending # <<>>
        BY <1>0, <2>1
      <4> HIDE DEF Rest
      <4> QED BY <4>1
    <3> QED BY <1>0, <2>1, <3>1, AccountAssumption DEF Taken, Numbers
  <2>3. sending' \in Seq(1..(MaxSequence + 1))
    <3> DEFINE Rest == 1..(MaxSequence + 1)
    <3>1. sending \in Seq(Rest) /\ sending # <<>>
      BY <1>0, <2>1
    <3> HIDE DEF Rest
    <3>2. Tail(sending) \in Seq(Rest) /\ <<>> \in Seq(Rest)
      BY <3>1
    <3> QED BY <2>1, <3>2 DEF Rest
  <2> QED BY <2>1, <2>2, <2>3, ChainRises
<1>10. CASE UNCHANGED asVars
  BY <1>10 DEF asVars, ASInv, ASTypeOK, AnswersPast, CachedLast, NoGaps, OfflineRises
<1> QED BY <1>1, <1>2, <1>3, <1>4, <1>5, <1>6, <1>7, <1>8, <1>9, <1>10 DEF ASNext, ASSystem, FetchEnds

-----------------------------------------------------------------------------
(* The versions of an ABI.                                                  *)

AbiCall == [stage : {"idle", "tag", "probing", "resolved", "over", "unsupported"},
            left : Seq(AbiVersions), toProbe : SUBSET RawMethods,
            version : AbiVersions \cup {NoVersion}, began : 0..MaxChanges]

OrderSound == IsInjective(order) /\ ToSet(order) = DOMAIN descriptors

\* What is to be probed of the version at a place, of which nothing was missing.
ProbingSound(k, toProbe) ==
    /\ k \in Probable(order)
    /\ toProbe # {} /\ toProbe \subseteq descriptors[order[k]]
    /\ descriptors[order[k]] \ toProbe \subseteq deployed.methods

\* A call that probes, while nothing changes, goes backwards through the order:
\* no version behind it tells, and the tag does not either.
LeftSound(call) ==
    LET m == Len(call.left) IN
    /\ deployed.tag \notin DOMAIN descriptors
    /\ m \in 1..Len(order)
    /\ \A k \in 1..m : call.left[k] = order[m + 1 - k]
    /\ \A k \in Telling : k <= m
    /\ ProbingSound(m, call.toProbe)

CallsSound ==
    \A c \in 1..AbiCalls :
        /\ abiCall[c].began <= changes
        /\ abiCall[c].stage = "probing" => abiCall[c].left # <<>>
        /\ abiCall[c].stage = "probing" /\ abiCall[c].began = changes => LeftSound(abiCall[c])

CacheSound ==
    /\ detectedAfter <= changes
    /\ detected # NoVersion /\ detectedAfter = changes => detected = Deployed

ADInv == ADTypeOK /\ OrderSound /\ CallsSound /\ CacheSound

LEMMA ADInvCurrent == ADInv => VersionCurrent
BY DEF ADInv, OrderSound, CacheSound, VersionCurrent

\* The calls that have nothing left to detect are of the right type.
LEMMA EndedTyped ==
    /\ NewCall \in AbiCall
    /\ \A stage \in {"over", "unsupported"} :
          /\ [NewCall EXCEPT !.stage = stage] \in AbiCall
          /\ [NewCall EXCEPT !.stage = stage].stage = stage
          /\ [NewCall EXCEPT !.stage = stage].began = 0
    /\ \A v \in AbiVersions :
          /\ [NewCall EXCEPT !.stage = "resolved", !.version = v] \in AbiCall
          /\ [NewCall EXCEPT !.stage = "resolved", !.version = v].stage = "resolved"
          /\ [NewCall EXCEPT !.stage = "resolved", !.version = v].began = 0
<1> DEFINE Ended(stage, v) == [stage |-> stage, left |-> <<>>, toProbe |-> {}, version |-> v, began |-> 0]
<1>1. <<>> \in Seq(AbiVersions) /\ 0 \in 0..MaxChanges /\ {} \in SUBSET RawMethods
  BY AbiAssumption
<1>2. \A stage \in {"idle", "over", "unsupported", "resolved"}, v \in AbiVersions \cup {NoVersion} :
         Ended(stage, v) \in AbiCall
  <2> DEFINE left == <<>>
  <2>1. left \in Seq(AbiVersions)
    BY <1>1
  <2>2. \A stage, v : Ended(stage, v) = [stage |-> stage, left |-> left, toProbe |-> {}, version |-> v, began |-> 0]
    OBVIOUS
  <2> HIDE DEF left, Ended
  <2> QED BY <1>1, <2>1, <2>2 DEF AbiCall
<1>3. NewCall = Ended("idle", NoVersion)
  BY DEF NewCall
<1>4. ASSUME NEW stage, NEW none, NEW nothing, NEW begun
      PROVE  [[stage |-> "idle", left |-> none, toProbe |-> nothing, version |-> NoVersion, began |-> begun]
                 EXCEPT !.stage = stage]
             = [stage |-> stage, left |-> none, toProbe |-> nothing, version |-> NoVersion, began |-> begun]
  OBVIOUS
<1>5. ASSUME NEW v, NEW none, NEW nothing, NEW begun
      PROVE  [[stage |-> "resolved", left |-> none, toProbe |-> nothing, version |-> NoVersion, began |-> begun]
                 EXCEPT !.version = v]
             = [stage |-> "resolved", left |-> none, toProbe |-> nothing, version |-> v, began |-> begun]
  OBVIOUS
<1>6. \A stage : [NewCall EXCEPT !.stage = stage] = Ended(stage, NoVersion)
  BY <1>4 DEF NewCall
<1>7. ASSUME NEW v PROVE [NewCall EXCEPT !.stage = "resolved", !.version = v] = Ended("resolved", v)
  <2>1. [NewCall EXCEPT !.stage = "resolved"] = Ended("resolved", NoVersion)
    BY <1>6
  <2>2. [Ended("resolved", NoVersion) EXCEPT !.version = v] = Ended("resolved", v)
    BY <1>5
  <2> HIDE DEF Ended, NewCall
  <2> QED BY <2>1, <2>2
<1>8. \A stage, v : Ended(stage, v).stage = stage /\ Ended(stage, v).began = 0
  OBVIOUS
<1> HIDE DEF Ended, NewCall
<1>9. ASSUME NEW stage \in {"over", "unsupported"}
      PROVE  /\ [NewCall EXCEPT !.stage = stage] \in AbiCall
             /\ [NewCall EXCEPT !.stage = stage].stage = stage
             /\ [NewCall EXCEPT !.stage = stage].began = 0
  <2> DEFINE call == [NewCall EXCEPT !.stage = stage]
  <2>1. call = Ended(stage, NoVersion)
    BY <1>6
  <2> HIDE DEF call
  <2>2. call \in AbiCall /\ call.stage = stage /\ call.began = 0
    BY <1>2, <1>8, <2>1
  <2> QED BY <2>2 DEF call
<1>10. ASSUME NEW v \in AbiVersions
       PROVE  /\ [NewCall EXCEPT !.stage = "resolved", !.version = v] \in AbiCall
              /\ [NewCall EXCEPT !.stage = "resolved", !.version = v].stage = "resolved"
              /\ [NewCall EXCEPT !.stage = "resolved", !.version = v].began = 0
  <2> DEFINE call == [NewCall EXCEPT !.stage = "resolved", !.version = v]
  <2>1. call = Ended("resolved", v)
    BY <1>7
  <2> HIDE DEF call
  <2>2. call \in AbiCall /\ call.stage = "resolved" /\ call.began = 0
    BY <1>2, <1>8, <2>1
  <2> QED BY <2>2 DEF call
<1>11. NewCall \in AbiCall
  BY <1>2, <1>3
<1> QED BY <1>9, <1>10, <1>11

LEMMA ADInitInv == ADInit => ADInv
<1> SUFFICES ASSUME ADInit PROVE ADInv
  OBVIOUS
<1>1. PICK v \in AbiVersions, methods \in MethodSets : descriptors = [w \in {v} |-> methods] /\ order = <<v>>
  <2>1. PICK r \in Registries : descriptors = r[1] /\ order = r[2]
    BY DEF ADInit
  <2>2. PICK v \in AbiVersions, methods \in MethodSets : r = <<[w \in {v} |-> methods], <<v>>>>
    BY DEF Registries
  <2> DEFINE d == [w \in {v} |-> methods]  o == <<v>>
  <2>3. r = <<d, o>>
    BY <2>2
  <2> HIDE DEF d, o
  <2>4. descriptors = d /\ order = o
    BY <2>1, <2>3
  <2> QED BY <2>4 DEF d, o
<1>2. OrderSound
  BY <1>1 DEF OrderSound, IsInjective, ToSet
<1>3. NewCall \in AbiCall
  BY EndedTyped
<1>4. ADTypeOK
  <2>1. abiCall \in [1..AbiCalls -> AbiCall]
    BY <1>3 DEF ADInit
  <2>2. {changes, detectedAfter} \subseteq 0..MaxChanges
    BY AbiAssumption DEF ADInit
  <2>3. {fallback, detected} \subseteq AbiVersions \cup {NoVersion}
    BY AbiAssumption DEF ADInit
  <2> QED BY <1>1, <2>1, <2>2, <2>3 DEF ADInit, ADTypeOK, AbiCall
<1>5. CallsSound
  BY DEF ADInit, CallsSound, NewCall
<1>6. CacheSound
  BY DEF ADInit, CacheSound
<1> QED BY <1>2, <1>4, <1>5, <1>6 DEF ADInv

LEMMA ADTyped ==
    ASSUME ADInv
    PROVE  /\ abiCall \in [1..AbiCalls -> AbiCall] /\ order \in Seq(AbiVersions)
           /\ DOMAIN order = 1..Len(order) /\ Len(order) \in Nat
           /\ changes \in Nat /\ detectedAfter \in Nat /\ changes <= MaxChanges /\ detectedAfter <= MaxChanges
           /\ \A c \in 1..AbiCalls : abiCall[c] \in AbiCall
<1>1. abiCall \in [1..AbiCalls -> AbiCall] /\ order \in Seq(AbiVersions)
  BY DEF ADInv, ADTypeOK, AbiCall
<1>2. changes \in 0..MaxChanges /\ detectedAfter \in 0..MaxChanges
  BY DEF ADInv, ADTypeOK
<1> QED BY <1>1, <1>2, AbiAssumption

\* A change outdates all that was detected or is being detected.
LEMMA ChangeOutdates ==
    ASSUME ADInv, CountChange, UNCHANGED <<fallback, detected, abiCall, detectedAfter>>,
           descriptors' \in [DOMAIN descriptors' -> MethodSets], DOMAIN descriptors' \subseteq AbiVersions,
           order' \in Seq(AbiVersions), deployed' \in Contract, OrderSound'
    PROVE  ADInv'
<1>1. changes' = changes + 1 /\ changes' \in 0..MaxChanges
  BY ADTyped, AbiAssumption DEF CountChange
<1>2. ADTypeOK'
  BY <1>1 DEF ADInv, ADTypeOK
<1>3. \A c \in 1..AbiCalls : abiCall[c].began \in Nat /\ abiCall[c].began <= changes
  BY ADTyped DEF ADInv, CallsSound, AbiCall
<1>4. CallsSound'
  <2>1. \A c \in 1..AbiCalls : abiCall[c].began <= changes' /\ abiCall[c].began # changes'
    BY <1>1, <1>3, ADTyped
  <2> QED BY <2>1 DEF CallsSound, ADInv
<1>5. CacheSound'
  BY <1>1, ADTyped DEF ADInv, CacheSound
<1> QED BY <1>2, <1>4, <1>5 DEF ADInv

\* A call changes, and with it the cache or not.
LEMMA CallChanges ==
    ASSUME ADInv, NEW c \in 1..AbiCalls, NEW call \in AbiCall, SetCall(c, call),
           UNCHANGED <<descriptors, order, deployed, fallback, changes>>,
           call.began <= changes, call.stage = "probing" => call.left # <<>>,
           call.stage = "probing" /\ call.began = changes => LeftSound(call),
           \/ UNCHANGED <<detected, detectedAfter>>
           \/ /\ detected' \in AbiVersions /\ detectedAfter' = abiCall[c].began
              /\ detectedAfter' = changes => detected' = Deployed
    PROVE  ADInv'
<1>1. abiCall' = [abiCall EXCEPT ![c] = call]
  BY DEF SetCall
<1>2. abiCall' \in [1..AbiCalls -> AbiCall] /\ \A d \in 1..AbiCalls : abiCall'[d] = IF d = c THEN call ELSE abiCall[d]
  BY <1>1, ADTyped
<1>3. abiCall[c].began \in 0..MaxChanges /\ abiCall[c].began <= changes
  BY ADTyped DEF ADInv, CallsSound, AbiCall
<1>4. detected' \in AbiVersions \cup {NoVersion} /\ detectedAfter' \in 0..MaxChanges
  BY <1>3 DEF ADInv, ADTypeOK
<1>5. ADTypeOK'
  BY <1>2, <1>4 DEF ADInv, ADTypeOK, AbiCall
<1>6. \A x \in AbiCall : LeftSound(x)' <=> LeftSound(x)
  BY DEF LeftSound, ProbingSound, Telling, Probable
<1>7. CallsSound'
  <2>1. ASSUME NEW d \in 1..AbiCalls
        PROVE  /\ abiCall'[d].began <= changes
               /\ abiCall'[d].stage = "probing" => abiCall'[d].left # <<>>
               /\ abiCall'[d].stage = "probing" /\ abiCall'[d].began = changes => LeftSound(abiCall[d])'
    <3>1. CASE d = c
      BY <1>2, <3>1 DEF LeftSound, ProbingSound, Telling, Probable
    <3>2. CASE d # c
      <4>1. abiCall'[d] = abiCall[d] /\ abiCall[d] \in AbiCall
        BY <1>2, <3>2, ADTyped
      <4> QED BY <1>6, <4>1 DEF ADInv, CallsSound
    <3> QED BY <3>1, <3>2
  <2> QED BY <2>1 DEF CallsSound
<1>8. CacheSound'
  <2>1. Deployed' = Deployed
    BY DEF Deployed, Telling, Probable
  <2> QED BY <1>3, <2>1 DEF ADInv, CacheSound
<1>9. OrderSound'
  BY DEF ADInv, OrderSound
<1> QED BY <1>5, <1>7, <1>8, <1>9 DEF ADInv

\* A detection that ends, with what it should find unless it is outdated.
LEMMA DetectedKeeps ==
    ASSUME ADInv, NEW c \in 1..AbiCalls, NEW v \in AbiVersions, Detected(c, v),
           UNCHANGED <<descriptors, order, deployed, fallback, changes>>,
           abiCall[c].began = changes => v = Deployed
    PROVE  ADInv'
<1> DEFINE call == [NewCall EXCEPT !.stage = "resolved", !.version = v]
<1>1. call \in AbiCall /\ call.began = 0 /\ call.stage = "resolved"
  BY EndedTyped
<1>2. SetCall(c, call) /\ detected' = v /\ detectedAfter' = abiCall[c].began
  BY DEF Detected
<1> HIDE DEF call
<1> QED BY <1>1, <1>2, CallChanges, ADTyped

LEMMA UndetectedKeeps ==
    ASSUME ADInv, NEW c \in 1..AbiCalls, Undetected(c),
           UNCHANGED <<descriptors, order, deployed, fallback, changes>>,
           abiCall[c].began = changes => fallback = Deployed
    PROVE  ADInv'
<1>1. CASE fallback # NoVersion
  <2>1. fallback \in AbiVersions
    BY <1>1 DEF ADInv, ADTypeOK
  <2> QED BY <1>1, <2>1, DetectedKeeps DEF Undetected
<1>2. CASE fallback = NoVersion
  <2> DEFINE call == [NewCall EXCEPT !.stage = "over"]
  <2>1. call \in AbiCall /\ call.began = 0 /\ call.stage = "over"
    BY EndedTyped
  <2>2. SetCall(c, call) /\ UNCHANGED <<detected, detectedAfter>>
    BY <1>2 DEF Undetected
  <2> HIDE DEF call
  <2> QED BY <2>1, <2>2, CallChanges, ADTyped
<1> QED BY <1>1, <1>2

\* The next version to probe is the first that can be, of those left; those before
\* it have nothing to tell.
LEMMA TryNextKeeps ==
    ASSUME ADInv, NEW c \in 1..AbiCalls, NEW versions \in Seq(AbiVersions), TryNext(c, versions),
           UNCHANGED <<descriptors, order, deployed, fallback, changes>>,
           abiCall[c].began = changes =>
               LET m == Len(versions) IN
               /\ deployed.tag \notin DOMAIN descriptors
               /\ m <= Len(order)
               /\ \A k \in 1..m : versions[k] = order[m + 1 - k]
               /\ \A k \in Telling : k <= m
    PROVE  ADInv'
<1> DEFINE m == Len(versions)
<1>0. /\ m \in Nat /\ DOMAIN versions = 1..m /\ \A k \in 1..m : versions[k] \in AbiVersions
      /\ DOMAIN order = 1..Len(order) /\ Len(order) \in Nat
  BY ADTyped
<1>1. abiCall[c].began = changes =>
        /\ deployed.tag \notin DOMAIN descriptors
        /\ m <= Len(order)
        /\ \A k \in 1..m : versions[k] = order[m + 1 - k]
        /\ \A k \in Telling : k <= m
  OBVIOUS
<1>2. Probable(versions) \subseteq 1..m
  BY <1>0 DEF Probable
<1> HIDE DEF m
\* A telling version is among those left, at the mirrored place.
<1>3. ASSUME abiCall[c].began = changes, NEW k \in Telling
      PROVE  k \in Nat /\ m + 1 - k \in 1..m /\ m + 1 - k \in Probable(versions)
  <2>1. k \in 1..Len(order) /\ k <= m
    BY <1>0, <1>1, <1>3 DEF Telling, Probable
  <2>2. m + 1 - k \in 1..m /\ m + 1 - (m + 1 - k) = k
    BY <1>0, <2>1
  <2>3. versions[m + 1 - k] = order[k]
    BY <1>1, <1>3, <2>2
  <2> QED BY <1>0, <1>3, <2>1, <2>2, <2>3 DEF Telling, Probable
<1>4. CASE Probable(versions) = {}
  <2>1. Undetected(c)
    BY <1>4 DEF TryNext
  <2>2. abiCall[c].began = changes => fallback = Deployed
    BY <1>1, <1>3, <1>4 DEF Deployed
  <2> QED BY <2>1, <2>2, UndetectedKeeps
<1>5. CASE Probable(versions) # {}
  <2> DEFINE next == Min(Probable(versions))
             rest == SubSeq(versions, next, m)
             probe == descriptors[versions[next]]
             call == [abiCall[c] EXCEPT !.stage = "probing", !.toProbe = probe, !.left = rest]
  <2>1. next \in Probable(versions) /\ \A k \in Probable(versions) : next <= k
    <3>1. Probable(versions) \in SUBSET Nat
      BY <1>2
    <3> QED BY <1>5, <3>1, MinIsLeast
  <2>2. SetCall(c, call) /\ UNCHANGED <<detected, detectedAfter>>
    BY <1>5 DEF TryNext, m
  <2>3. next \in 1..m /\ versions[next] \in DOMAIN descriptors /\ probe # {}
    BY <1>2, <2>1 DEF Probable
  <2> HIDE DEF next
  <2>4. /\ rest \in Seq(AbiVersions) /\ Len(rest) = m + 1 - next
        /\ \A k \in 1..(m + 1 - next) : rest[k] = versions[next + k - 1]
    BY <1>0, <2>3 DEF m
  <2>5. probe \subseteq RawMethods
    BY <2>3, AbiAssumption DEF ADInv, ADTypeOK
  <2> HIDE DEF rest, probe
  <2>6. call \in AbiCall /\ call.began = abiCall[c].began /\ call.left = rest /\ call.toProbe = probe
    <3> DEFINE before == abiCall[c]
    <3>1. before \in AbiCall
      BY ADTyped
    <3> HIDE DEF before
    <3>2. /\ [before EXCEPT !.stage = "probing", !.toProbe = probe, !.left = rest] \in AbiCall
          /\ [before EXCEPT !.stage = "probing", !.toProbe = probe, !.left = rest].began = before.began
          /\ [before EXCEPT !.stage = "probing", !.toProbe = probe, !.left = rest].left = rest
          /\ [before EXCEPT !.stage = "probing", !.toProbe = probe, !.left = rest].toProbe = probe
      BY <2>4, <2>5, <3>1 DEF AbiCall
    <3> QED BY <3>2 DEF before
  <2> HIDE DEF call
  <2>7. ASSUME call.began = changes PROVE LeftSound(call)
    <3> DEFINE l == m + 1 - next
    <3>1. l \in 1..m /\ m <= Len(order) /\ l \in 1..Len(order) /\ Len(call.left) = l
      BY <1>0, <1>1, <2>3, <2>4, <2>6, <2>7
    <3>2. ASSUME NEW k \in 1..l PROVE call.left[k] = order[l + 1 - k]
      <4>1. next + k - 1 \in 1..m /\ m + 1 - (next + k - 1) = l + 1 - k
        BY <1>0, <2>3
      <4>2. versions[next + k - 1] = order[m + 1 - (next + k - 1)]
        BY <1>1, <2>6, <2>7, <4>1
      <4> QED BY <2>4, <2>6, <4>1, <4>2
    <3>3. ASSUME NEW k \in Telling PROVE k <= l
      <4>1. k \in Nat /\ m + 1 - k \in Probable(versions)
        BY <1>3, <2>6, <2>7, <3>3
      <4>2. next <= m + 1 - k
        BY <2>1, <4>1
      <4> QED BY <1>0, <2>3, <4>1, <4>2
    <3>4. versions[next] = order[l]
      BY <1>1, <2>3, <2>6, <2>7
    <3>5. ProbingSound(l, call.toProbe)
      BY <1>0, <2>3, <2>6, <3>1, <3>4 DEF ProbingSound, Probable, probe
    <3>6. deployed.tag \notin DOMAIN descriptors
      BY <1>1, <2>6, <2>7
    <3> HIDE DEF l
    <3> QED BY <3>1, <3>2, <3>3, <3>5, <3>6 DEF LeftSound
  <2>8. call.began <= changes /\ call.left # <<>>
    <3>1. Len(rest) # 0
      BY <1>0, <2>3, <2>4
    <3>2. rest # <<>>
      BY <3>1, <2>4, NonEmpty
    <3> QED BY <2>6, <3>2 DEF ADInv, CallsSound
  <2> QED BY <2>2, <2>6, <2>7, <2>8, CallChanges
<1> QED BY <1>4, <1>5

LEMMA TagAnswersKeeps ==
    ASSUME ADInv, NEW c \in 1..AbiCalls, TagAnswers(c)
    PROVE  ADInv'
<1>1. CASE deployed.tag \in DOMAIN descriptors
  <2>1. deployed.tag \in AbiVersions /\ deployed.tag = Deployed
    BY <1>1 DEF ADInv, ADTypeOK, Deployed
  <2> QED BY <1>1, <2>1, DetectedKeeps DEF TagAnswers
<1>2. CASE deployed.tag \notin DOMAIN descriptors
  <2> DEFINE versions == Reverse(order)
  <2>1. /\ versions \in Seq(AbiVersions) /\ Len(versions) = Len(order)
        /\ \A k \in 1..Len(order) : versions[k] = order[Len(order) + 1 - k]
    <3>1. versions = [k \in 1..Len(order) |-> order[Len(order) + 1 - k]]
      BY ADTyped DEF Reverse
    <3>2. \A k \in 1..Len(order) : Len(order) + 1 - k \in DOMAIN order /\ order[Len(order) + 1 - k] \in AbiVersions
      BY ADTyped
    <3>3. versions \in [1..Len(order) -> AbiVersions]
      BY <3>1, <3>2
    <3> HIDE DEF versions
    <3> QED BY <3>1, <3>3, ADTyped, FunctionIsSeq
  <2>2. \A k \in Telling : k <= Len(order)
    BY ADTyped DEF Telling, Probable
  <2>3. TryNext(c, versions) /\ UNCHANGED <<descriptors, order, deployed, fallback, changes>>
    BY <1>2 DEF TagAnswers
  <2> HIDE DEF versions
  <2>4. Len(versions) <= Len(order)
    BY <2>1, ADTyped
  <2> QED BY <1>2, <2>1, <2>2, <2>3, <2>4, TryNextKeeps
<1> QED BY <1>1, <1>2

LEMMA MethodAnswersKeeps ==
    ASSUME ADInv, NEW c \in 1..AbiCalls, NEW m \in RawMethods, MethodAnswers(c, m)
    PROVE  ADInv'
<1> DEFINE left == abiCall[c].left  l == Len(left)
<1>1. /\ abiCall[c] \in AbiCall /\ left \in Seq(AbiVersions) /\ l \in Nat
      /\ abiCall[c].stage = "probing" /\ m \in abiCall[c].toProbe
      /\ UNCHANGED <<descriptors, order, deployed, fallback, changes>>
      /\ abiCall[c].began <= changes
  BY ADTyped DEF MethodAnswers, ADInv, CallsSound, AbiCall
<1>2. abiCall[c].began = changes =>
        /\ deployed.tag \notin DOMAIN descriptors
        /\ l \in 1..Len(order)
        /\ \A k \in 1..l : left[k] = order[l + 1 - k]
        /\ \A k \in Telling : k <= l
        /\ ProbingSound(l, abiCall[c].toProbe)
  BY <1>1 DEF ADInv, CallsSound, LeftSound
<1>3. DOMAIN order = 1..Len(order) /\ Len(order) \in Nat
  BY ADTyped
<1>4. left # <<>> /\ Head(left) \in AbiVersions
  BY <1>1 DEF ADInv, CallsSound
<1>5. abiCall[c].began = changes => Head(left) = order[l]
  <2>1. l \in Nat \ {0} => Head(left) = left[1]
    BY <1>1
  <2>2. ASSUME abiCall[c].began = changes PROVE 1 \in 1..l /\ l + 1 - 1 = l /\ l # 0
    BY <1>2, <1>3, <2>2
  <2>3. ASSUME abiCall[c].began = changes PROVE left[1] = order[l + 1 - 1]
    BY <1>2, <2>2, <2>3
  <2> QED BY <1>1, <2>1, <2>2, <2>3
<1> HIDE DEF left, l
<1>6. CASE m \notin deployed.methods
  <2> DEFINE rest == Tail(left)
  <2>1. TryNext(c, rest)
    BY <1>1, <1>6 DEF MethodAnswers, left
  <2>2. rest \in Seq(AbiVersions) /\ Len(rest) = l - 1 /\ \A k \in 1..(l - 1) : rest[k] = left[k + 1]
    BY <1>1, <1>4 DEF l
  <2> HIDE DEF rest
  <2>3. ASSUME abiCall[c].began = changes
        PROVE  /\ deployed.tag \notin DOMAIN descriptors
               /\ Len(rest) <= Len(order)
               /\ \A k \in 1..Len(rest) : rest[k] = order[Len(rest) + 1 - k]
               /\ \A k \in Telling : k <= Len(rest)
    <3>1. l \in 1..Len(order)
      BY <1>2, <2>3
    <3>2. ASSUME NEW k \in 1..Len(rest) PROVE rest[k] = order[Len(rest) + 1 - k]
      <4>1. k + 1 \in 1..l /\ k \in 1..(l - 1) /\ l + 1 - (k + 1) = Len(rest) + 1 - k
        BY <1>1, <2>2
      <4> QED BY <1>2, <2>2, <2>3, <4>1
    <3>3. l \notin Telling
      BY <1>1, <1>2, <1>6, <2>3 DEF Telling, ProbingSound, AbiCall
    <3>4. ASSUME NEW k \in Telling PROVE k <= Len(rest)
      <4>1. k \in 1..Len(order) /\ k <= l /\ k # l
        BY <1>2, <1>3, <2>3, <3>3 DEF Telling, Probable
      <4> QED BY <1>1, <2>2, <4>1
    <3> QED BY <1>2, <1>3, <2>2, <2>3, <3>1, <3>2, <3>4
  <2> QED BY <1>1, <2>1, <2>2, <2>3, TryNextKeeps
<1>7. CASE m \in deployed.methods /\ abiCall[c].toProbe = {m}
  <2>1. Detected(c, Head(left))
    BY <1>1, <1>7 DEF MethodAnswers, left
  <2>2. ASSUME abiCall[c].began = changes PROVE Head(left) = Deployed
    <3>1. l \in Telling /\ \A k \in Telling : k <= l
      BY <1>2, <1>7, <2>2 DEF Telling, ProbingSound
    <3>2. Max(Telling) = l
      <4>1. Telling \subseteq 0..Len(order)
        BY <1>3 DEF Telling, Probable
      <4>2. Max(Telling) \in Telling /\ Max(Telling) >= l
        BY <1>3, <3>1, <4>1, MaxIsGreatest
      <4>3. Max(Telling) \in 0..Len(order) /\ Max(Telling) <= l
        BY <3>1, <4>1, <4>2
      <4> QED BY <1>1, <4>2, <4>3
    <3> QED BY <1>2, <1>5, <2>2, <3>1, <3>2 DEF Deployed
  <2> QED BY <1>1, <1>4, <2>1, <2>2, DetectedKeeps
<1>8. CASE m \in deployed.methods /\ abiCall[c].toProbe # {m}
  <2> DEFINE probe == abiCall[c].toProbe \ {m}
             call == [abiCall[c] EXCEPT !.toProbe = probe]
  <2>1. SetCall(c, call) /\ UNCHANGED <<detected, detectedAfter>>
    BY <1>1, <1>8 DEF MethodAnswers
  <2>2. probe # {} /\ probe \subseteq RawMethods
    BY <1>1, <1>8 DEF AbiCall
  <2> HIDE DEF probe
  <2>3. /\ call \in AbiCall /\ call.toProbe = probe /\ call.left = left
        /\ call.began = abiCall[c].began /\ call.stage = "probing"
    BY <1>1, <2>2 DEF AbiCall, left
  <2> HIDE DEF call
  <2>4. ASSUME call.began = changes PROVE LeftSound(call)
    <3>1. ProbingSound(l, probe)
      BY <1>2, <1>8, <2>2, <2>3, <2>4 DEF ProbingSound, probe
    <3> QED BY <1>2, <2>3, <2>4, <3>1 DEF LeftSound, l
  <2> QED BY <1>1, <1>4, <2>1, <2>3, <2>4, CallChanges
<1> QED BY <1>6, <1>7, <1>8

\* A call that begins, fails or is over detects nothing.
LEMMA OtherCallsKeep ==
    ASSUME ADInv, NEW c \in 1..AbiCalls, BeginCall(c) \/ ProbeFails(c) \/ UseVersion(c)
    PROVE  ADInv'
<1>1. PICK call \in AbiCall : /\ SetCall(c, call) /\ call.stage # "probing" /\ call.began <= changes
                              /\ UNCHANGED <<descriptors, order, deployed, fallback, detected, changes, detectedAfter>>
  <2>0. abiCall[c] \in AbiCall /\ abiCall[c].began <= changes /\ changes \in 0..MaxChanges
        /\ detected \in AbiVersions \cup {NoVersion}
    BY ADTyped DEF ADInv, ADTypeOK, CallsSound
  <2>1. CASE BeginCall(c)
    <3>1. CASE detected # NoVersion
      <4> DEFINE call == [abiCall[c] EXCEPT !.stage = "resolved", !.version = detected]
      <4>1. call \in AbiCall /\ call.stage = "resolved" /\ call.began = abiCall[c].began
        BY <2>0 DEF AbiCall
      <4> QED BY <2>0, <2>1, <3>1, <4>1 DEF BeginCall
    <3>2. CASE detected = NoVersion
      <4> DEFINE call == [abiCall[c] EXCEPT !.stage = "tag", !.began = changes]
      <4>1. call \in AbiCall /\ call.stage = "tag" /\ call.began = changes
        BY <2>0 DEF AbiCall
      <4>2. changes <= changes
        BY ADTyped
      <4> QED BY <2>1, <3>2, <4>1, <4>2 DEF BeginCall
    <3> QED BY <3>1, <3>2
  <2>2. ASSUME NEW stage \in {"over", "unsupported"}
        PROVE  LET call == [NewCall EXCEPT !.stage = stage]
               IN  call \in AbiCall /\ call.stage # "probing" /\ call.began <= changes
    <3> DEFINE call == [NewCall EXCEPT !.stage = stage]
    <3>1. call \in AbiCall /\ call.stage = stage /\ call.began = 0
      BY EndedTyped
    <3> HIDE DEF call
    <3>2. call.stage # "probing" /\ call.began <= changes
      BY <3>1, ADTyped
    <3> QED BY <3>1, <3>2 DEF call
  <2>3. CASE ProbeFails(c)
    BY <2>2, <2>3 DEF ProbeFails
  <2>4. CASE UseVersion(c)
    BY <2>2, <2>4 DEF UseVersion
  <2> QED BY <2>1, <2>3, <2>4
<1> QED BY <1>1, CallChanges

LEMMA RegistryKeeps ==
    ASSUME ADInv, NEW v \in AbiVersions,
           UnregisterVersion(v) \/ \E methods \in MethodSets : RegisterVersion(v, methods)
    PROVE  ADInv'
<1>0. /\ order \in Seq(AbiVersions) /\ IsInjective(order) /\ ToSet(order) = DOMAIN descriptors
      /\ descriptors \in [DOMAIN descriptors -> MethodSets] /\ DOMAIN descriptors \subseteq AbiVersions
      /\ deployed \in Contract
  BY DEF ADInv, ADTypeOK, OrderSound
<1>1. ASSUME NEW methods \in MethodSets, RegisterVersion(v, methods) PROVE ADInv'
  <2>1. /\ DOMAIN descriptors' = DOMAIN descriptors \cup {v}
        /\ descriptors' \in [DOMAIN descriptors' -> MethodSets]
    BY <1>0, <1>1 DEF RegisterVersion
  <2>2. order' \in Seq(AbiVersions) /\ IsInjective(order') /\ ToSet(order') = ToSet(order) \cup {v}
    BY <1>0, <1>1, AppendDistinct DEF RegisterVersion
  <2>3. CountChange /\ UNCHANGED <<deployed, fallback, detected, abiCall, detectedAfter>>
    BY <1>1 DEF RegisterVersion
  <2> QED BY <1>0, <2>1, <2>2, <2>3, ChangeOutdates DEF OrderSound
<1>2. CASE UnregisterVersion(v)
  <2>1. /\ DOMAIN descriptors' = DOMAIN descriptors \ {v}
        /\ descriptors' \in [DOMAIN descriptors' -> MethodSets]
    BY <1>0, <1>2 DEF UnregisterVersion
  <2> DEFINE k == CHOOSE k \in DOMAIN order : order[k] = v
  <2>2. k \in DOMAIN order /\ order[k] = v
    BY <1>0, <1>2 DEF UnregisterVersion, ToSet
  <2>3. order' = RemoveAt(order, k) /\ CountChange
        /\ UNCHANGED <<deployed, fallback, detected, abiCall, detectedAfter>>
    BY <1>2 DEF UnregisterVersion
  <2> HIDE DEF k
  <2>4. order' \in Seq(AbiVersions) /\ IsInjective(order') /\ ToSet(order') = ToSet(order) \ {v}
    BY <1>0, <2>2, <2>3, RemoveAtDistinct
  <2> QED BY <1>0, <2>1, <2>3, <2>4, ChangeOutdates DEF OrderSound
<1> QED BY <1>1, <1>2

LEMMA ADNextInv == ADInv /\ [ADNext]_adVars => ADInv'
<1> SUFFICES ASSUME ADInv, [ADNext]_adVars PROVE ADInv'
  OBVIOUS
<1>1. ASSUME NEW c \in 1..AbiCalls, TagAnswers(c) PROVE ADInv'
  BY <1>1, TagAnswersKeeps
<1>2. ASSUME NEW c \in 1..AbiCalls, NEW m \in RawMethods, MethodAnswers(c, m) PROVE ADInv'
  BY <1>2, MethodAnswersKeeps
<1>3. ASSUME NEW c \in 1..AbiCalls, BeginCall(c) \/ ProbeFails(c) \/ UseVersion(c) PROVE ADInv'
  BY <1>3, OtherCallsKeep
<1>4. CASE Invalidate
  <2>1. ADTypeOK'
    BY <1>4, AbiAssumption DEF ADInv, ADTypeOK, Invalidate
  <2>2. CacheSound'
    BY <1>4, ADTyped DEF CacheSound, Invalidate
  <2>3. OrderSound' /\ CallsSound'
    BY <1>4 DEF ADInv, OrderSound, CallsSound, Invalidate, LeftSound, ProbingSound, Telling, Probable
  <2> QED BY <2>1, <2>2, <2>3 DEF ADInv
<1>5. ASSUME NEW v \in AbiVersions,
             UnregisterVersion(v) \/ \E methods \in MethodSets : RegisterVersion(v, methods)
      PROVE  ADInv'
  BY <1>5, RegistryKeeps
<1>6. ASSUME NEW methods \in MethodSets, NEW tag \in Tags, Upgrade(methods, tag) PROVE ADInv'
  <2>1. CountChange /\ UNCHANGED <<descriptors, order, fallback, detected, abiCall, detectedAfter>>
        /\ deployed' \in Contract
    BY <1>6 DEF Upgrade, Contract
  <2>2. /\ descriptors' \in [DOMAIN descriptors' -> MethodSets] /\ DOMAIN descriptors' \subseteq AbiVersions
        /\ order' \in Seq(AbiVersions) /\ OrderSound'
    BY <2>1 DEF ADInv, ADTypeOK, OrderSound
  <2> QED BY <2>1, <2>2, ChangeOutdates
<1>7. CASE UNCHANGED adVars
  BY <1>7 DEF adVars, ADInv, ADTypeOK, OrderSound, CallsSound, CacheSound, Deployed, LeftSound, ProbingSound,
              Telling, Probable
<1> QED BY <1>1, <1>2, <1>3, <1>4, <1>5, <1>6, <1>7 DEF ADNext, ADSystem, ProbeAnswered

-----------------------------------------------------------------------------
(* The fees of a transaction.                                               *)

LEMMA TenToRecursion ==
    /\ TenTo \in [0..MaxDigits -> Nat] /\ TenTo[0] = 1
    /\ \A n \in 1..MaxDigits : TenTo[n] = 10 * TenTo[n - 1]
<1> DEFINE advance == [n \in 1..MaxDigits |-> [x \in Nat |-> 10 * x]]
           Ten(f) == f = [n \in 0..MaxDigits |-> IF n = 0 THEN 1 ELSE 10 * f[n - 1]]
<1>1. advance \in [1..MaxDigits -> [Nat -> Nat]] /\ MaxDigits \in Nat
  BY FeeAssumption
<1>2. PICK f \in [0..MaxDigits -> Nat] : Recurs(f, MaxDigits, 1, advance)
  <2> HIDE DEF advance
  <2> QED BY <1>1, RecursionExists
<1>3. Ten(f)
  <2>1. ASSUME NEW n \in 0..MaxDigits PROVE f[n] = IF n = 0 THEN 1 ELSE 10 * f[n - 1]
    <3>1. CASE n = 0
      BY <1>2, <3>1 DEF Recurs
    <3>2. CASE n # 0
      <4>1. n \in 1..MaxDigits /\ n - 1 \in 0..MaxDigits
        BY <1>1, <3>2
      <4>2. f[n - 1] \in Nat
        BY <4>1
      <4> QED BY <1>2, <3>2, <4>1, <4>2 DEF Recurs
    <3> QED BY <3>1, <3>2
  <2> QED BY <2>1
<1>4. Ten(TenTo)
  BY <1>3 DEF TenTo
<1> HIDE DEF TenTo
<1>5. /\ TenTo = [n \in 0..MaxDigits |-> TenTo[n]] /\ TenTo[0] = 1
      /\ \A n \in 1..MaxDigits : TenTo[n] = 10 * TenTo[n - 1]
  <2>1. 0 \in 0..MaxDigits /\ \A n \in 1..MaxDigits : n \in 0..MaxDigits /\ n # 0
    BY <1>1
  <2> QED BY <1>4, <2>1
<1>6. \A n \in 1..MaxDigits : TenTo[n - 1] \in Nat => TenTo[n] = advance[n][TenTo[n - 1]]
  BY <1>5
<1>7. TenTo \in [0..MaxDigits -> Nat]
  <2> DEFINE base == 1
  <2>1. /\ MaxDigits \in Nat /\ base \in Nat
        /\ TenTo = [n \in 0..MaxDigits |-> TenTo[n]] /\ TenTo[0] = base
    BY <1>1, <1>5
  <2>2. advance \in [1..MaxDigits -> [Nat -> Nat]]
    BY <1>1
  <2> HIDE DEF advance, base
  <2> QED BY <1>6, <2>1, <2>2, RecursionTyped, Zenon
<1> QED BY <1>5, <1>7

\* The digits of a multiplier, one after the other.
LEMMA NumeratorRecursion ==
    ASSUME NEW m \in Multipliers
    PROVE  \E u \in [0..Len(m.digits) -> Nat] :
              /\ u[0] = m.whole
              /\ \A n \in 1..Len(m.digits) : u[n] = 10 * u[n - 1] + m.digits[n]
              /\ Numerator(m) = u[Len(m.digits)]
<1> DEFINE l == Len(m.digits)
           advance == [n \in 1..l |-> [x \in Nat |-> 10 * x + m.digits[n]]]
           Up(f) == f = [n \in 0..l |-> IF n = 0 THEN m.whole ELSE 10 * f[n - 1] + m.digits[n]]
           U == CHOOSE f : Up(f)
<1>1. l \in Nat /\ m.whole \in Nat /\ \A n \in 1..l : m.digits[n] \in Nat
  BY FeeAssumption
<1>2. advance \in [1..l -> [Nat -> Nat]]
  BY <1>1
<1>3. Numerator(m) = U[l]
  BY DEF Numerator
<1> HIDE DEF l
<1>4. PICK f \in [0..l -> Nat] : Recurs(f, l, m.whole, advance)
  <2> HIDE DEF advance
  <2> QED BY <1>1, <1>2, RecursionExists
<1>5. Up(f)
  <2>1. ASSUME NEW n \in 0..l PROVE f[n] = IF n = 0 THEN m.whole ELSE 10 * f[n - 1] + m.digits[n]
    <3>1. CASE n = 0
      BY <1>4, <3>1 DEF Recurs
    <3>2. CASE n # 0
      <4>1. n \in 1..l /\ n - 1 \in 0..l
        BY <1>1, <3>2
      <4>2. f[n - 1] \in Nat
        BY <4>1
      <4> QED BY <1>4, <3>2, <4>1, <4>2 DEF Recurs
    <3> QED BY <3>1, <3>2
  <2> QED BY <2>1
<1>6. Up(U)
  BY <1>5
<1> HIDE DEF U
<1>7. U = [n \in 0..l |-> U[n]] /\ U[0] = m.whole /\ \A n \in 1..l : U[n] = 10 * U[n - 1] + m.digits[n]
  <2>1. 0 \in 0..l /\ \A n \in 1..l : n \in 0..l /\ n # 0
    BY <1>1
  <2> QED BY <1>6, <2>1
<1>8. \A n \in 1..l : U[n - 1] \in Nat => U[n] = advance[n][U[n - 1]]
  BY <1>7
<1>9. U \in [0..l -> Nat]
  <2> DEFINE base == m.whole
  <2>1. l \in Nat /\ base \in Nat /\ U = [n \in 0..l |-> U[n]] /\ U[0] = base
    BY <1>1, <1>7
  <2> HIDE DEF advance, base
  <2> QED BY <1>2, <1>8, <2>1, RecursionTyped, Zenon
<1> QED BY <1>3, <1>7, <1>9 DEF l

LEMMA WorthRecursion ==
    ASSUME NEW m \in Multipliers
    PROVE  \E u \in [0..Len(m.digits) -> Nat] :
              /\ u[0] = m.whole * TenTo[MaxDigits]
              /\ \A n \in 1..Len(m.digits) : u[n] = u[n - 1] + m.digits[n] * TenTo[MaxDigits - n]
              /\ Worth(m) = u[Len(m.digits)]
<1> DEFINE l == Len(m.digits)
           base == m.whole * TenTo[MaxDigits]
           add(n) == m.digits[n] * TenTo[MaxDigits - n]
           advance == [n \in 1..l |-> [x \in Nat |-> x + add(n)]]
           Up(f) == f = [n \in 0..l |-> IF n = 0 THEN base ELSE f[n - 1] + add(n)]
           U == CHOOSE f : Up(f)
<1>0. Worth(m) = U[l]
  BY DEF Worth
<1>1. l \in Nat /\ base \in Nat /\ \A n \in 1..l : add(n) \in Nat
  <2>1. /\ l \in Nat /\ l <= MaxDigits /\ MaxDigits \in Nat /\ m.whole \in Nat
        /\ \A n \in 1..l : m.digits[n] \in Nat
    BY FeeAssumption
  <2> HIDE DEF l
  <2>2. /\ MaxDigits \in 0..MaxDigits
        /\ \A n \in 1..l : MaxDigits - n \in 0..MaxDigits
    BY <2>1
  <2>3. TenTo[MaxDigits] \in Nat /\ \A n \in 1..l : TenTo[MaxDigits - n] \in Nat
    BY <2>2, TenToRecursion
  <2>4. \A x, y \in Nat : x * y \in Nat
    OBVIOUS
  <2> QED BY <2>1, <2>3, <2>4
<1> HIDE DEF add, base, l
<1>2. advance \in [1..l -> [Nat -> Nat]]
  BY <1>1
<1>4. PICK f \in [0..l -> Nat] : Recurs(f, l, base, advance)
  <2> HIDE DEF advance
  <2> QED BY <1>1, <1>2, RecursionExists
<1>5. Up(f)
  <2>1. ASSUME NEW n \in 0..l PROVE f[n] = IF n = 0 THEN base ELSE f[n - 1] + add(n)
    <3>1. CASE n = 0
      BY <1>4, <3>1 DEF Recurs
    <3>2. CASE n # 0
      <4>1. n \in 1..l /\ n - 1 \in 0..l
        BY <1>1, <3>2
      <4>2. f[n - 1] \in Nat
        BY <4>1
      <4> QED BY <1>4, <3>2, <4>1, <4>2 DEF Recurs
    <3> QED BY <3>1, <3>2
  <2> QED BY <2>1
<1>6. Up(U)
  BY <1>5
<1> HIDE DEF U
<1>7. U = [n \in 0..l |-> U[n]] /\ U[0] = base /\ \A n \in 1..l : U[n] = U[n - 1] + add(n)
  <2>1. 0 \in 0..l /\ \A n \in 1..l : n \in 0..l /\ n # 0
    BY <1>1
  <2> QED BY <1>6, <2>1
<1>8. \A n \in 1..l : U[n - 1] \in Nat => U[n] = advance[n][U[n - 1]]
  BY <1>7
<1>9. U \in [0..l -> Nat]
  <2>1. l \in Nat /\ base \in Nat /\ U = [n \in 0..l |-> U[n]] /\ U[0] = base
    BY <1>1, <1>7
  <2> HIDE DEF advance, base
  <2> QED BY <1>2, <1>8, <2>1, RecursionTyped, Zenon
<1> QED BY <1>0, <1>7, <1>9 DEF l, base, add

LEMMA TenToProduct ==
    /\ \A n \in 0..MaxDigits : TenTo[n] >= 1
    /\ \A n \in 0..MaxDigits : TenTo[MaxDigits - n] * TenTo[n] = TenTo[MaxDigits]
<1>1. MaxDigits \in Nat
  BY FeeAssumption
<1>2. /\ TenTo[0] = 1 /\ \A n \in 0..MaxDigits : TenTo[n] \in Nat
      /\ \A n \in 1..MaxDigits : TenTo[n] = 10 * TenTo[n - 1]
  BY TenToRecursion
<1>3. \A n \in 0..MaxDigits : MaxDigits - n \in 0..MaxDigits
  BY <1>1
<1> DEFINE Fine(n) == TenTo[n] >= 1 /\ TenTo[MaxDigits - n] * TenTo[n] = TenTo[MaxDigits]
           bad == {n \in 0..MaxDigits : ~Fine(n)}
<1>4. bad = {}
  <2> SUFFICES ASSUME bad # {} PROVE FALSE
    OBVIOUS
  <2>1. PICK k \in bad : \A j \in bad : k <= j
    <3>1. bad \in SUBSET Nat
      OBVIOUS
    <3> HIDE DEF bad
    <3> QED BY <3>1, LeastNatural
  <2>2. k \in 0..MaxDigits /\ ~Fine(k)
    BY <2>1
  <2> HIDE DEF bad
  <2>3. k # 0
    <3>1. MaxDigits - 0 = MaxDigits /\ MaxDigits \in 0..MaxDigits
      BY <1>1
    <3>2. TenTo[MaxDigits] \in Nat
      BY <1>2, <3>1
    <3>3. Fine(0)
      BY <1>2, <3>1, <3>2
    <3> QED BY <2>2, <3>3
  <2>4. k \in 1..MaxDigits /\ k - 1 \in 0..MaxDigits /\ ~(k <= k - 1)
    BY <1>1, <2>2, <2>3
  <2>5. Fine(k - 1)
    BY <2>1, <2>4 DEF bad
  <2> DEFINE a == TenTo[k - 1]  b == TenTo[MaxDigits - k]  c == TenTo[MaxDigits - (k - 1)]
  <2>6. MaxDigits - (k - 1) \in 1..MaxDigits /\ MaxDigits - (k - 1) - 1 = MaxDigits - k
    BY <1>1, <2>4
  <2>7. a \in Nat /\ b \in Nat /\ c = 10 * b /\ TenTo[k] = 10 * a /\ a >= 1 /\ c * a = TenTo[MaxDigits]
    BY <1>2, <1>3, <2>2, <2>4, <2>5, <2>6
  <2> HIDE DEF a, b, c
  <2>8. b * (10 * a) = (10 * b) * a /\ 10 * a >= 1
    BY <2>7
  <2>9. Fine(k)
    BY <2>7, <2>8 DEF b
  <2> QED BY <2>2, <2>9
<1> QED BY <1>4

\* What a multiplier is worth is its numerator over its denominator, in the unit of
\* the worth, and at least one.
LEMMA WorthIsFraction ==
    ASSUME NEW m \in Multipliers
    PROVE  /\ Numerator(m) \in Nat /\ Denominator(m) \in Nat \ {0}
           /\ TenTo[MaxDigits] \in Nat \ {0}
           /\ Worth(m) \in Nat /\ Worth(m) >= TenTo[MaxDigits]
           /\ Worth(m) * Denominator(m) = Numerator(m) * TenTo[MaxDigits]
<1> DEFINE l == Len(m.digits)  P == TenTo[MaxDigits]
<1>1. /\ l \in Nat /\ l <= MaxDigits /\ MaxDigits \in Nat /\ m.whole \in Nat \ {0}
      /\ \A n \in 1..l : m.digits[n] \in Nat
  BY FeeAssumption
<1>2. PICK u \in [0..l -> Nat] :
          /\ u[0] = m.whole
          /\ \A n \in 1..l : u[n] = 10 * u[n - 1] + m.digits[n]
          /\ Numerator(m) = u[l]
  BY NumeratorRecursion
<1>3. PICK w \in [0..l -> Nat] :
          /\ w[0] = m.whole * P
          /\ \A n \in 1..l : w[n] = w[n - 1] + m.digits[n] * TenTo[MaxDigits - n]
          /\ Worth(m) = w[l]
  BY WorthRecursion
<1>4. Denominator(m) = TenTo[l]
  BY DEF Denominator
<1> HIDE DEF l
<1>5. /\ P \in Nat /\ P >= 1
      /\ \A n \in 0..l : /\ TenTo[n] \in Nat /\ TenTo[n] >= 1
                         /\ TenTo[MaxDigits - n] \in Nat
                         /\ TenTo[MaxDigits - n] * TenTo[n] = P
      /\ \A n \in 1..l : TenTo[n] = 10 * TenTo[n - 1]
      /\ TenTo[0] = 1
  <2>1. /\ MaxDigits \in 0..MaxDigits /\ \A n \in 0..l : n \in 0..MaxDigits /\ MaxDigits - n \in 0..MaxDigits
        /\ \A n \in 1..l : n \in 1..MaxDigits
    BY <1>1
  <2> QED BY <2>1, TenToRecursion, TenToProduct
<1> HIDE DEF P
<1> DEFINE Fine(n) == w[n] * TenTo[n] = u[n] * P /\ w[n] >= P
           bad == {n \in 0..l : ~Fine(n)}
<1>6. bad = {}
  <2> SUFFICES ASSUME bad # {} PROVE FALSE
    OBVIOUS
  <2>1. PICK k \in bad : \A j \in bad : k <= j
    <3>1. bad \in SUBSET Nat
      OBVIOUS
    <3> HIDE DEF bad
    <3> QED BY <3>1, LeastNatural
  <2>2. k \in 0..l /\ ~Fine(k)
    BY <2>1
  <2> HIDE DEF bad
  <2>3. k # 0
    <3>1. \A a \in Nat \ {0}, b \in Nat : (a * b) * 1 = a * b /\ a * b >= b
      OBVIOUS
    <3>2. Fine(0)
      BY <1>1, <1>2, <1>3, <1>5, <3>1
    <3> QED BY <2>2, <3>2
  <2>4. k \in 1..l /\ k - 1 \in 0..l /\ ~(k <= k - 1)
    BY <1>1, <2>2, <2>3
  <2>5. Fine(k - 1)
    BY <2>1, <2>4 DEF bad
  <2> DEFINE x == w[k - 1]  y == u[k - 1]  t == TenTo[k - 1]  d == m.digits[k]  e == TenTo[MaxDigits - k]
  <2>6. /\ x \in Nat /\ y \in Nat /\ t \in Nat /\ d \in Nat /\ e \in Nat
        /\ w[k] = x + d * e /\ u[k] = 10 * y + d /\ TenTo[k] = 10 * t
        /\ e * (10 * t) = P
        /\ x * t = y * P /\ x >= P
    BY <1>1, <1>2, <1>3, <1>5, <2>2, <2>4, <2>5
  <2> HIDE DEF x, y, t, d, e
  <2>7. (x + d * e) * (10 * t) = 10 * (x * t) + d * (e * (10 * t))
    BY <2>6
  <2>8. 10 * (y * P) + d * P = (10 * y + d) * P
    BY <1>5, <2>6
  <2>9. d * e \in Nat
    BY <2>6
  <2>10. Fine(k)
    BY <1>5, <2>6, <2>7, <2>8, <2>9
  <2> QED BY <2>2, <2>10
<1>7. Fine(l)
  BY <1>1, <1>6
<1>8. u[l] \in Nat /\ w[l] \in Nat /\ TenTo[l] \in Nat \ {0} /\ P \in Nat \ {0}
  BY <1>1, <1>2, <1>3, <1>5
<1> QED BY <1>2, <1>3, <1>4, <1>7, <1>8 DEF P

-----------------------------------------------------------------------------
\* Comparison with a product is the same after division by the one denominator and
\* multiplication with the other.
LEMMA SameRatio ==
    ASSUME NEW n \in Int, NEW v \in Nat, NEW N \in Nat, NEW D \in Nat \ {0},
           NEW W \in Nat, NEW P \in Nat \ {0}, W * D = N * P
    PROVE  /\ n * D >= v * N => n * P >= v * W
           /\ n * D < v * N => n * P < v * W
<1>1. ASSUME NEW x \in Int, NEW y \in Int, x * D >= y * D PROVE x >= y
  <2>1. ASSUME x < y PROVE FALSE
    <3>1. (y - x) * D >= 1
      <4>1. \A k, d \in Nat \ {0} : k * d >= 1
        OBVIOUS
      <4>2. y - x \in Nat \ {0}
        BY <2>1
      <4> QED BY <4>1, <4>2
    <3>2. (y - x) * D = y * D - x * D
      OBVIOUS
    <3>3. x * D \in Int /\ y * D \in Int
      OBVIOUS
    <3> QED BY <1>1, <3>1, <3>2, <3>3
  <2> QED BY <2>1
<1>2. (n * P) * D = (n * D) * P
  OBVIOUS
<1>3. (v * W) * D = (v * N) * P
  <2>1. (v * W) * D = v * (W * D) /\ (v * N) * P = v * (N * P)
    OBVIOUS
  <2> QED BY <2>1
<1>4. n * P \in Int /\ v * W \in Int /\ n * D \in Int /\ v * N \in Int
  OBVIOUS
<1>5. ASSUME n * D >= v * N PROVE n * P >= v * W
  <2>1. \A x, y \in Int : x >= y => x * P >= y * P
    <3>1. \A k \in Nat : k * P >= 0
      OBVIOUS
    <3>2. \A x, y \in Int : x * P - y * P = (x - y) * P /\ x * P \in Int /\ y * P \in Int
      OBVIOUS
    <3> QED BY <3>1, <3>2
  <2>2. (n * D) * P >= (v * N) * P
    BY <1>4, <1>5, <2>1
  <2>3. (n * P) * D >= (v * W) * D
    BY <1>2, <1>3, <2>2
  <2> QED BY <1>1, <1>4, <2>3
<1>6. ASSUME n * D < v * N, n * P >= v * W PROVE FALSE
  <2>1. \A x, y \in Int : x < y => x * P < y * P
    <3>1. \A k, d \in Nat \ {0} : k * d >= 1
      OBVIOUS
    <3>2. \A x, y \in Int : y * P - x * P = (y - x) * P /\ x * P \in Int /\ y * P \in Int
      OBVIOUS
    <3> QED BY <3>1, <3>2
  <2>2. (n * P) * D < (v * W) * D
    BY <1>2, <1>3, <1>4, <1>6, <2>1
  <2>3. (n * P) * D >= (v * W) * D
    <3>1. \A k, d \in Nat : k * d >= 0
      OBVIOUS
    <3>2. \A x, y \in Int : x * D - y * D = (x - y) * D /\ x * D \in Int /\ y * D \in Int
      OBVIOUS
    <3> QED BY <1>4, <1>6, <3>1, <3>2
  <2>4. (n * P) * D \in Int /\ (v * W) * D \in Int
    BY <1>4
  <2> QED BY <2>2, <2>3, <2>4
<1> QED BY <1>4, <1>5, <1>6

\* Division after adding the divisor less one rounds up.
LEMMA CeilOf ==
    ASSUME NEW a \in Nat, NEW D \in Nat \ {0}
    PROVE  LET n == (a + D - 1) \div D
           IN  n \in Nat /\ n * D >= a /\ (n - 1) * D < a
<1> DEFINE b == a + D - 1  n == b \div D
<1>1. b \in Nat
  OBVIOUS
<1>2. n \in Nat /\ b = D * n + (b % D) /\ b % D \in 0..(D - 1)
  <2> HIDE DEF b
  <2> QED BY <1>1
<1> DEFINE r == b % D
<1> HIDE DEF n, r
<1>3. D * n = n * D /\ (n - 1) * D = n * D - D /\ n * D \in Int
  BY <1>2
<1>4. r \in 0..(D - 1) /\ a + D - 1 = n * D + r
  BY <1>2, <1>3 DEF r
<1>5. n * D >= a /\ (n - 1) * D < a
  <2> DEFINE z == n * D
  <2>1. z \in Int /\ (n - 1) * D = z - D /\ a + D - 1 = z + r
    BY <1>3, <1>4
  <2> HIDE DEF z
  <2>2. z >= a /\ z - D < a
    BY <1>4, <2>1
  <2> QED BY <2>1, <2>2 DEF z
<1> QED BY <1>2, <1>5 DEF n

LEMMA MultiplyAndCeilRounds ==
    ASSUME multiplier \in Multipliers, NEW v \in Nat
    PROVE  /\ MultiplyAndCeil(v) \in Nat
           /\ MultiplyAndCeil(v) * Denominator(multiplier) >= v * Numerator(multiplier)
           /\ (MultiplyAndCeil(v) - 1) * Denominator(multiplier) < v * Numerator(multiplier)
<1> DEFINE N == Numerator(multiplier)  D == Denominator(multiplier)
<1>1. N \in Nat /\ D \in Nat \ {0}
  BY WorthIsFraction
<1>2. MultiplyAndCeil(v) = (v * N + D - 1) \div D
  BY DEF MultiplyAndCeil
<1> HIDE DEF N, D
<1>3. v * N \in Nat
  BY <1>1
<1> QED BY <1>1, <1>2, <1>3, CeilOf DEF N, D

LEMMA RoundedNotBelow ==
    ASSUME multiplier \in Multipliers, NEW v \in Nat
    PROVE  LeastNotBelow(MultiplyAndCeil(v), v)
<1> DEFINE n == MultiplyAndCeil(v)
           N == Numerator(multiplier)  D == Denominator(multiplier)
           W == Worth(multiplier)  P == TenTo[MaxDigits]
<1>1. n \in Nat /\ n * D >= v * N /\ (n - 1) * D < v * N
  BY MultiplyAndCeilRounds
<1>2. N \in Nat /\ D \in Nat \ {0} /\ W \in Nat /\ P \in Nat \ {0} /\ W * D = N * P
  BY WorthIsFraction
<1> HIDE DEF n, N, D, W, P
<1>3. n \in Int /\ n - 1 \in Int
  BY <1>1
<1>4. n * P >= v * W /\ (n - 1) * P < v * W
  BY <1>1, <1>2, <1>3, SameRatio
<1> QED BY <1>4 DEF LeastNotBelow, n, W, P

\* Two roundings add up to one, or to one more.
LEMMA RoundedTogether ==
    ASSUME multiplier \in Multipliers, NEW x \in Nat, NEW y \in Nat
    PROVE  LET n == MultiplyAndCeil(x) + MultiplyAndCeil(y)
           IN  /\ n \in Nat
               /\ \E spare \in {0, 1} : LeastNotBelow(n - spare, x + y)
               /\ (n - 2) * TenTo[MaxDigits] < (x + y) * Worth(multiplier)
<1> DEFINE b == MultiplyAndCeil(x)  r == MultiplyAndCeil(y)  n == b + r
           N == Numerator(multiplier)  D == Denominator(multiplier)
           W == Worth(multiplier)  P == TenTo[MaxDigits]
<1>1. /\ b \in Nat /\ b * D >= x * N /\ (b - 1) * D < x * N
      /\ r \in Nat /\ r * D >= y * N /\ (r - 1) * D < y * N
  BY MultiplyAndCeilRounds
<1>2. N \in Nat /\ D \in Nat \ {0} /\ W \in Nat /\ P \in Nat \ {0} /\ W * D = N * P
  BY WorthIsFraction
<1>3. \A m : LeastNotBelow(m, x + y) <=> /\ m * P >= (x + y) * W
                                         /\ m = 0 \/ (m - 1) * P < (x + y) * W
  BY DEF LeastNotBelow
<1> HIDE DEF b, r, N, D, W, P
<1>4. /\ b * D \in Int /\ r * D \in Int /\ x * N \in Int /\ y * N \in Int
      /\ (b - 1) * D = b * D - D /\ (r - 1) * D = r * D - D
      /\ (b + r) * D = b * D + r * D /\ ((b + r) - 1) * D = b * D + r * D - D
      /\ ((b + r) - 2) * D = b * D + r * D - D - D
      /\ (x + y) * N = x * N + y * N
  BY <1>1, <1>2
<1>5. n \in Nat /\ n - 1 \in Int /\ n - 2 \in Int /\ x + y \in Nat /\ n \in Int
  BY <1>1
<1>6. n * D >= (x + y) * N /\ (n - 2) * D < (x + y) * N
  <2> DEFINE bd == b * D  rd == r * D  xn == x * N  yn == y * N
  <2>1. bd \in Int /\ rd \in Int /\ xn \in Int /\ yn \in Int /\ D \in Int
        /\ bd >= xn /\ rd >= yn /\ bd - D < xn /\ rd - D < yn
    BY <1>1, <1>2, <1>4
  <2>2. n * D = bd + rd /\ (n - 2) * D = bd + rd - D - D /\ (x + y) * N = xn + yn
    BY <1>4
  <2> HIDE DEF bd, rd, xn, yn, n
  <2>3. bd + rd >= xn + yn /\ bd + rd - D - D < xn + yn
    BY <2>1
  <2> QED BY <2>2, <2>3
<1> HIDE DEF n
<1>7. n * P >= (x + y) * W /\ (n - 2) * P < (x + y) * W
  BY <1>2, <1>5, <1>6, SameRatio
<1>8. \E spare \in {0, 1} : LeastNotBelow(n - spare, x + y)
  <2>1. CASE (n - 1) * D >= (x + y) * N
    <3>1. (n - 1) * P >= (x + y) * W
      BY <1>2, <1>5, <2>1, SameRatio
    <3>2. n - 1 - 1 = n - 2
      BY <1>5
    <3>3. LeastNotBelow(n - 1, x + y)
      BY <1>3, <1>7, <3>1, <3>2
    <3> QED BY <3>3
  <2>2. CASE (n - 1) * D < (x + y) * N
    <3>1. (n - 1) * P < (x + y) * W
      BY <1>2, <1>5, <2>2, SameRatio
    <3>2. LeastNotBelow(n, x + y) /\ n - 0 = n
      BY <1>3, <1>5, <1>7, <3>1
    <3> QED BY <3>2
  <2>3. (n - 1) * D \in Int /\ (x + y) * N \in Int
    BY <1>2, <1>5
  <2> QED BY <2>1, <2>2, <2>3
<1> QED BY <1>5, <1>7, <1>8 DEF n, b, r, P, W

-----------------------------------------------------------------------------
\* What has been prepared is what applyFeeBuffer makes of what was asked for.
TFInv ==
    /\ multiplier \in Multipliers /\ maxFeeLimit \in FeeLimits
    /\ asked \in Asked \cup {NoRequest}
    /\ asked.kind = "soroban" =>
          LET base      == MultiplyAndCeil(asked.base)
              resource  == MultiplyAndCeil(asked.resource)
              exceeding == \/ maxFeeLimit < asked.base + asked.resource
                           \/ base + resource > maxFeeLimit
          IN  \/ /\ preparation.outcome = "refused"
                 /\ multiplier.whole >= HugeFrom \/ (maxFeeLimit # NoLimit /\ exceeding)
              \/ /\ preparation = Prepared(base, resource, MultiplyAndCeil(asked.resources))
                 /\ maxFeeLimit # NoLimit => ~exceeding
    /\ FeeValidated

LEMMA FeesTyped ==
    ASSUME TFInv, asked.kind = "soroban"
    PROVE  /\ asked.base \in Nat /\ asked.resource \in Nat /\ asked.resources \in Nat
           /\ maxFeeLimit \in Nat /\ multiplier.whole \in Nat /\ HugeFrom \in Nat
<1>1. asked \in Asked
  BY DEF TFInv, NoRequest
<1> QED BY <1>1, FeeAssumption DEF TFInv, Asked

LEMMA TFInvBuffers == TFInv => FeesBuffered
<1> SUFFICES ASSUME TFInv, asked.kind = "soroban"
             PROVE  /\ preparation.outcome = "prepared" =>
                       /\ LeastNotBelow(preparation.base, asked.base)
                       /\ LeastNotBelow(preparation.resource, asked.resource)
                       /\ LeastNotBelow(preparation.resources, asked.resources)
                       /\ maxFeeLimit # NoLimit => preparation.base + preparation.resource <= maxFeeLimit
                       /\ \E spare \in {0, 1} :
                             LeastNotBelow(preparation.base + preparation.resource - spare, asked.base + asked.resource)
                    /\ preparation.outcome = "refused" /\ multiplier.whole < HugeFrom =>
                          (asked.base + asked.resource) * Worth(multiplier) > (maxFeeLimit - 1) * TenTo[MaxDigits]
  BY DEF FeesBuffered
<1> DEFINE x == asked.base  y == asked.resource  z == asked.resources
           b == MultiplyAndCeil(x)  r == MultiplyAndCeil(y)
           W == Worth(multiplier)  P == TenTo[MaxDigits]
<1>1. /\ x \in Nat /\ y \in Nat /\ z \in Nat
      /\ maxFeeLimit \in Nat /\ multiplier.whole \in Nat /\ HugeFrom \in Nat
      /\ multiplier \in Multipliers
  BY FeesTyped DEF TFInv
<1>2. b \in Nat /\ r \in Nat
  BY <1>1, MultiplyAndCeilRounds
<1>3. LeastNotBelow(b, x) /\ LeastNotBelow(r, y) /\ LeastNotBelow(MultiplyAndCeil(z), z)
  BY <1>1, RoundedNotBelow
<1>4. (\E spare \in {0, 1} : LeastNotBelow(b + (r - spare), x + y)) /\ ((b + r) - 2) * P < (x + y) * W
  <2>1. \E spare \in {0, 1} : LeastNotBelow((b + r) - spare, x + y)
    BY <1>1, RoundedTogether
  <2>2. ((b + r) - 2) * P < (x + y) * W
    BY <1>1, RoundedTogether
  <2> HIDE DEF b, r, x, y, W, P
  <2>3. \A spare \in {0, 1} : (b + r) - spare = b + (r - spare)
    BY <1>2
  <2> QED BY <2>1, <2>2, <2>3
<1>5. /\ W \in Nat /\ P \in Nat \ {0} /\ W >= P
  BY <1>1, WorthIsFraction
<1>6. \/ /\ preparation.outcome = "refused"
         /\ \/ multiplier.whole >= HugeFrom
            \/ maxFeeLimit # NoLimit /\ (maxFeeLimit < x + y \/ b + r > maxFeeLimit)
      \/ /\ preparation = Prepared(b, r, MultiplyAndCeil(z))
         /\ maxFeeLimit # NoLimit => ~(maxFeeLimit < x + y \/ b + r > maxFeeLimit)
  BY DEF TFInv
<1> HIDE DEF x, y, z, b, r, W, P
<1>7. ASSUME preparation.outcome = "prepared"
      PROVE  /\ preparation = Prepared(b, r, MultiplyAndCeil(z))
             /\ maxFeeLimit # NoLimit => ~(b + r > maxFeeLimit)
  BY <1>6, <1>7
<1>8. ASSUME preparation.outcome = "prepared"
      PROVE  /\ LeastNotBelow(preparation.base, x)
             /\ LeastNotBelow(preparation.resource, y)
             /\ LeastNotBelow(preparation.resources, z)
             /\ maxFeeLimit # NoLimit => preparation.base + preparation.resource <= maxFeeLimit
             /\ \E spare \in {0, 1} : LeastNotBelow(preparation.base + preparation.resource - spare, x + y)
  <2>1. preparation.base = b /\ preparation.resource = r /\ preparation.resources = MultiplyAndCeil(z)
    BY <1>7, <1>8 DEF Prepared
  <2>2. maxFeeLimit # NoLimit => b + r <= maxFeeLimit
    BY <1>1, <1>2, <1>7, <1>8
  <2> QED BY <1>3, <1>4, <2>1, <2>2
<1>9. ASSUME preparation.outcome = "refused", multiplier.whole < HugeFrom
      PROVE  (x + y) * W > (maxFeeLimit - 1) * P
  <2>1. preparation.outcome # "prepared" /\ \A p : preparation = p => p.outcome = "refused"
    BY <1>9
  <2>2. maxFeeLimit # NoLimit /\ (maxFeeLimit < x + y \/ b + r > maxFeeLimit)
    BY <1>1, <1>6, <1>9, <2>1 DEF Prepared
  <2>3. maxFeeLimit \in Nat \ {0}
    BY <1>1, <2>2 DEF NoLimit
  <2>4. \A k \in Nat, d, e \in Int : d >= e => k * d >= k * e
    <3>1. \A k, d \in Nat : k * d >= 0
      OBVIOUS
    <3>2. \A k \in Nat, d, e \in Int : k * d - k * e = k * (d - e) /\ k * d \in Int /\ k * e \in Int
      OBVIOUS
    <3> QED BY <3>1, <3>2
  <2>5. CASE maxFeeLimit < x + y
    <3>1. P * (x + y) >= P * maxFeeLimit
      BY <1>1, <1>5, <2>4, <2>5
    <3>2. (x + y) * W >= (x + y) * P
      BY <1>1, <1>5, <2>4
    <3>3. /\ (x + y) * P = P * (x + y) /\ (maxFeeLimit - 1) * P = P * maxFeeLimit - P
          /\ P * maxFeeLimit \in Int /\ (x + y) * W \in Int /\ P * (x + y) \in Int
      BY <1>1, <1>5
    <3> DEFINE p1 == (x + y) * W  p2 == (x + y) * P  p3 == P * (x + y)  p4 == P * maxFeeLimit
               p5 == (maxFeeLimit - 1) * P
    <3>4. p1 \in Int /\ p3 \in Int /\ p4 \in Int /\ p3 >= p4 /\ p1 >= p2 /\ p2 = p3 /\ p5 = p4 - P
      BY <3>1, <3>2, <3>3
    <3> HIDE DEF p1, p2, p3, p4, p5
    <3>5. p1 > p5
      BY <1>5, <3>4
    <3> QED BY <3>5 DEF p1, p5
  <2>6. CASE b + r > maxFeeLimit
    <3>1. (b + r) - 2 >= maxFeeLimit - 1 /\ (b + r) - 2 \in Int /\ maxFeeLimit - 1 \in Int
      BY <1>1, <1>2, <2>6
    <3>2. P * ((b + r) - 2) >= P * (maxFeeLimit - 1)
      BY <1>5, <2>4, <3>1
    <3>3. /\ P * ((b + r) - 2) = ((b + r) - 2) * P /\ P * (maxFeeLimit - 1) = (maxFeeLimit - 1) * P
          /\ ((b + r) - 2) * P \in Int /\ (maxFeeLimit - 1) * P \in Int /\ (x + y) * W \in Int
      BY <1>1, <1>5, <3>1
    <3> QED BY <1>4, <3>2, <3>3
  <2> QED BY <2>2, <2>5, <2>6
<1> QED BY <1>8, <1>9 DEF x, y, z, W, P

LEMMA TFInitInv == TFInit => TFInv
BY DEF TFInit, TFInv, NoRequest, NoValidation, FeeValidated

LEMMA PrepareKeeps ==
    ASSUME TFInv, NEW a \in Asked, PrepareTransaction(a)
    PROVE  TFInv'
<1> DEFINE x == a.base  y == a.resource
           b == MultiplyAndCeil(x)  r == MultiplyAndCeil(y)
           exceeding == maxFeeLimit < x + y \/ b + r > maxFeeLimit
<1>1. asked' = a /\ UNCHANGED <<multiplier, maxFeeLimit, validation>>
  BY DEF PrepareTransaction
<1>2. \A v : MultiplyAndCeil(v)' = MultiplyAndCeil(v)
  BY <1>1 DEF MultiplyAndCeil
<1>3. x \in Nat /\ y \in Nat
  BY FeeAssumption DEF Asked
<1>4. (IF x + y > y THEN (x + y) - y ELSE 0) = x
  <2> HIDE DEF x, y
  <2> QED BY <1>3
<1>5. ASSUME a.kind = "soroban"
      PROVE  \/ /\ preparation'.outcome = "refused"
                /\ multiplier.whole >= HugeFrom \/ (maxFeeLimit # NoLimit /\ exceeding)
             \/ /\ preparation' = Prepared(b, r, MultiplyAndCeil(a.resources))
                /\ maxFeeLimit # NoLimit => ~exceeding
  <2>1. preparation' = Buffered(a)
    BY <1>5 DEF PrepareTransaction
  <2>2. Buffered(a) = IF multiplier.whole >= HugeFrom \/ (maxFeeLimit # NoLimit /\ exceeding)
                      THEN Refused ELSE Prepared(b, r, MultiplyAndCeil(a.resources))
    BY <1>4 DEF Buffered
  <2>3. Refused.outcome = "refused"
    BY DEF Refused
  <2> QED BY <2>1, <2>2, <2>3
<1>6. FeeValidated'
  BY <1>1 DEF TFInv, FeeValidated
<1> QED BY <1>1, <1>2, <1>5, <1>6 DEF TFInv, Prepared

LEMMA ValidateKeeps ==
    ASSUME TFInv, NEW fee \in FeeAmounts, NEW min \in FeeAmounts, NEW max \in FeeAmounts,
           NEW advice \in FeeAmounts \cup {NoAdvice}, ValidateFee(fee, min, max, advice)
    PROVE  TFInv'
<1>1. UNCHANGED <<multiplier, maxFeeLimit, asked, preparation>>
  BY DEF ValidateFee
<1>2. fee \in Nat /\ min \in Nat /\ max \in Nat /\ advice \in Int
  BY FeeAssumption DEF NoAdvice
<1> DEFINE inLimits == min <= fee /\ fee <= max
           advised  == IF advice # NoAdvice /\ 5 * advice > 6 * fee THEN advice ELSE fee
<1>3. validation' = [outcome |-> IF inLimits THEN "accepted" ELSE "refused",
                     fee |-> fee, min |-> min, max |-> max, advice |-> advice,
                     advised |-> IF inLimits THEN advised ELSE 0]
  BY DEF ValidateFee
<1>4. inLimits => /\ min <= advised
                  /\ max < advised => advised = advice
                  /\ 6 * advised >= 5 * advice
  BY <1>2 DEF NoAdvice
<1> HIDE DEF inLimits, advised
<1>5. FeeValidated'
  BY <1>3, <1>4 DEF FeeValidated
<1>6. \A v : MultiplyAndCeil(v)' = MultiplyAndCeil(v)
  BY <1>1 DEF MultiplyAndCeil
<1> QED BY <1>1, <1>5, <1>6 DEF TFInv, Prepared

LEMMA TFNextInv == TFInv /\ [TFNext]_tfVars => TFInv'
<1> SUFFICES ASSUME TFInv, [TFNext]_tfVars PROVE TFInv'
  OBVIOUS
<1>1. ASSUME NEW a \in Asked, PrepareTransaction(a) PROVE TFInv'
  BY <1>1, PrepareKeeps
<1>2. ASSUME NEW fee \in FeeAmounts, NEW min \in FeeAmounts, NEW max \in FeeAmounts,
             NEW advice \in FeeAmounts \cup {NoAdvice}, ValidateFee(fee, min, max, advice)
      PROVE  TFInv'
  BY <1>2, ValidateKeeps
<1>3. CASE UNCHANGED tfVars
  BY <1>3 DEF tfVars, TFInv, MultiplyAndCeil, Prepared, FeeValidated
<1> QED BY <1>1, <1>2, <1>3 DEF TFNext

-----------------------------------------------------------------------------
(* Transactions to sign.                                                    *)

HomeNetwork(tx) == builders[tx.builder].network
AllSignatures(envelope) == ToSet(envelope.signatures) \cup ToSet(envelope.outer)

\* What holds of every transaction: its number is the one every builder gives out,
\* a fee bump wraps signatures, and unless it strayed all of it is of its home.
AsMade(tx) ==
    /\ tx.envelope.sequence = GivenSequence + 1
    /\ tx.envelope.bumped => tx.envelope.signatures # <<>>
    /\ ~tx.strayed => tx.network = HomeNetwork(tx) /\ AllSignatures(tx.envelope) \subseteq {HomeNetwork(tx)}

\* A package is of a transaction, and bears no other signatures than that may.
PackagesSound ==
    \A package \in packages :
        /\ package.envelope.sequence = GivenSequence + 1
        /\ ~Made(package.of).strayed => AllSignatures(package.envelope) \subseteq {HomeNetwork(Made(package.of))}

\* A ledger that has accepted one transaction wants another number.
LedgersMoveOn ==
    /\ \A k \in DOMAIN accepted : ledgers[accepted[k].network] > GivenSequence
    /\ IsInjective(accepted)

OSInv == OSTypeOK /\ (\A i \in DOMAIN txs : AsMade(Made(i))) /\ PackagesSound /\ LedgersMoveOn

LEMMA SignaturesTogether ==
    ASSUME NEW envelope \in Envelopes
    PROVE  ToSet(envelope.signatures \o envelope.outer) = AllSignatures(envelope)
<1>1. envelope.signatures \in Seq(Passphrases) /\ envelope.outer \in Seq(Passphrases)
  BY DEF Envelopes
<1> QED BY <1>1, ConcatElements DEF AllSignatures

LEMMA TransactionsTyped ==
    ASSUME OSInv, NEW i \in DOMAIN txs
    PROVE  /\ Made(i) = txs[i] /\ Made(i) \in Transactions /\ Made(i).envelope \in Envelopes
           /\ Made(i).builder \in Builders /\ AsMade(Made(i))
<1>1. txs \in Seq(Transactions) /\ AsMade(Made(i))
  BY DEF OSInv, OSTypeOK
<1>2. txs[i] \in Transactions
  BY <1>1
<1> QED BY <1>1, <1>2 DEF Made, Transactions

LEMMA OSInvSigned == OSInv => SignedForItsNetwork
<1> SUFFICES ASSUME OSInv PROVE SignedForItsNetwork
  OBVIOUS
<1>1. ASSUME NEW i \in DOMAIN txs
      PROVE  LET tx == txs[i] IN
             /\ ~tx.strayed => /\ tx.network = builders[tx.builder].network
                               /\ ToSet(tx.envelope.signatures \o tx.envelope.outer) \subseteq {tx.network}
             /\ tx.envelope.bumped => tx.envelope.signatures # <<>>
  <2>1. txs[i].envelope \in Envelopes
    BY <1>1, TransactionsTyped
  <2> QED BY <1>1, <2>1, SignaturesTogether, TransactionsTyped DEF AsMade, HomeNetwork
<1> QED BY <1>1 DEF OSInv, LedgersMoveOn, SignedForItsNetwork

LEMMA OSInitInv == OSInit => OSInv
<1> SUFFICES ASSUME OSInit PROVE OSInv
  OBVIOUS
<1>1. OSTypeOK
  <2>1. builders \in [Builders -> [network : Passphrases, operations : 0..MaxOperations + 1]]
    BY SigningAssumption DEF OSInit
  <2> QED BY <2>1 DEF OSInit, OSTypeOK, GivenSequence
<1> QED BY <1>1 DEF OSInit, OSInv, PackagesSound, LedgersMoveOn, IsInjective

\* One more transaction, which may be sent to anyone.
LEMMA KeepKeepsOSInv ==
    ASSUME OSInv, NEW tx \in Transactions, AsMade(tx), Keep(tx), UNCHANGED <<builders, packages, ledgers, accepted>>
    PROVE  OSInv'
<1>1. /\ txs \in Seq(Transactions) /\ txs' = Append(txs, tx)
      /\ txs' \in Seq(Transactions)
      /\ DOMAIN txs' = DOMAIN txs \cup {Len(txs) + 1}
      /\ DOMAIN txs \subseteq DOMAIN txs'
      /\ \A i \in DOMAIN txs : txs'[i] = txs[i]
      /\ txs'[Len(txs) + 1] = tx
  BY DEF OSInv, OSTypeOK, Keep
<1>2. OSTypeOK'
  <2>1. packages' \subseteq [envelope : Envelopes, network : Passphrases, of : DOMAIN txs']
    BY <1>1 DEF OSInv, OSTypeOK
  <2> QED BY <1>1, <2>1 DEF OSInv, OSTypeOK
<1>3. \A i \in DOMAIN txs' : AsMade(Made(i))'
  <2>1. ASSUME NEW i \in DOMAIN txs' PROVE AsMade(txs[i])'
    <3>1. /\ i \in DOMAIN txs => AsMade(txs[i]) /\ txs'[i] = txs[i]
          /\ i \notin DOMAIN txs => txs'[i] = tx
      BY <1>1, <2>1 DEF OSInv, Made
    <3> QED BY <3>1 DEF AsMade, HomeNetwork
  <2> QED BY <2>1 DEF Made
<1>4. PackagesSound'
  BY <1>1 DEF OSInv, OSTypeOK, PackagesSound, Made, HomeNetwork
<1>5. LedgersMoveOn'
  BY DEF OSInv, LedgersMoveOn
<1> QED BY <1>2, <1>3, <1>4, <1>5 DEF OSInv

\* A transaction parsed of an envelope of another is sound.
LEMMA FromXdrSound ==
    ASSUME OSInv, NEW envelope \in Envelopes, NEW network \in Passphrases, NEW like \in Transactions,
           envelope.sequence = GivenSequence + 1,
           envelope.bumped => envelope.signatures # <<>>,
           ~like.strayed => AllSignatures(envelope) \subseteq {HomeNetwork(like)}
    PROVE  /\ FromXdr(envelope, network, like) \in Transactions
           /\ AsMade(FromXdr(envelope, network, like))
<1> DEFINE tx == FromXdr(envelope, network, like)
<1>1. /\ like.builder \in Builders /\ like.strayed \in BOOLEAN
      /\ builders[like.builder].network \in Passphrases
  BY DEF OSInv, OSTypeOK, Transactions
<1>2. tx \in Transactions
  BY <1>1 DEF FromXdr, Transactions
<1>3. tx.envelope = envelope /\ tx.network = network /\ tx.builder = like.builder
      /\ (~tx.strayed => ~like.strayed /\ network = builders[like.builder].network)
  BY DEF FromXdr
<1> HIDE DEF tx
<1>4. AsMade(tx)
  BY <1>3 DEF AsMade, HomeNetwork
<1> QED BY <1>2, <1>4 DEF tx

\* Signing adds the network the transaction is taken to be of.
LEMMA SignedSound ==
    ASSUME OSInv, NEW tx \in Transactions, AsMade(tx)
    PROVE  /\ Signed(tx) \in Transactions /\ AsMade(Signed(tx))
           /\ Signed(tx).builder = tx.builder /\ Signed(tx).strayed = tx.strayed
<1> DEFINE s == tx.envelope.signatures  o == tx.envelope.outer  n == tx.network
<1>1. /\ tx.envelope \in Envelopes /\ n \in Passphrases
      /\ s \in Seq(Passphrases) /\ o \in Seq(Passphrases)
      /\ tx.envelope.bumped \in BOOLEAN
  BY DEF Transactions, Envelopes
<1>2. \A q \in Seq(Passphrases) : /\ Append(q, n) \in Seq(Passphrases) /\ Append(q, n) # <<>>
                                  /\ ToSet(Append(q, n)) = ToSet(q) \cup {n}
  <2>1. TAKE q \in Seq(Passphrases)
  <2>2. /\ Append(q, n) \in Seq(Passphrases) /\ DOMAIN Append(q, n) = DOMAIN q \cup {Len(q) + 1}
        /\ \A k \in DOMAIN q : Append(q, n)[k] = q[k]
        /\ Append(q, n)[Len(q) + 1] = n /\ Len(Append(q, n)) = Len(q) + 1 /\ Len(q) \in Nat
    BY <1>1
  <2>3. Append(q, n) # <<>>
    BY <2>2
  <2> QED BY <2>2, <2>3 DEF ToSet
<1>3. CASE tx.envelope.bumped
  <2> DEFINE e == [tx.envelope EXCEPT !.outer = Append(@, n)]
  <2>1. Signed(tx) = [tx EXCEPT !.envelope = e]
    BY <1>3 DEF Signed, Transactions, Envelopes
  <2>2. e \in Envelopes /\ e.outer = Append(o, n) /\ e.signatures = s
        /\ e.sequence = tx.envelope.sequence /\ e.bumped = tx.envelope.bumped
    BY <1>1, <1>2 DEF Envelopes
  <2>3. AllSignatures(e) = AllSignatures(tx.envelope) \cup {n}
    BY <1>1, <1>2, <2>2 DEF AllSignatures
  <2> HIDE DEF e
  <2> QED BY <2>1, <2>2, <2>3, <1>1 DEF AsMade, HomeNetwork, Transactions
<1>4. CASE ~tx.envelope.bumped
  <2> DEFINE e == [tx.envelope EXCEPT !.signatures = Append(@, n)]
  <2>1. Signed(tx) = [tx EXCEPT !.envelope = e]
    BY <1>4 DEF Signed, Transactions, Envelopes
  <2>2. e \in Envelopes /\ e.signatures = Append(s, n) /\ e.outer = o
        /\ e.sequence = tx.envelope.sequence /\ e.bumped = tx.envelope.bumped
    BY <1>1, <1>2 DEF Envelopes
  <2>3. AllSignatures(e) = AllSignatures(tx.envelope) \cup {n}
    BY <1>1, <1>2, <2>2 DEF AllSignatures
  <2> HIDE DEF e
  <2> QED BY <2>1, <2>2, <2>3, <1>1, <1>4 DEF AsMade, HomeNetwork, Transactions
<1> QED BY <1>3, <1>4

LEMMA BuildKeepsOSInv ==
    ASSUME OSInv, NEW b \in Builders, BuildOffline(b)
    PROVE  OSInv'
<1> DEFINE e == [sequence |-> GivenSequence + 1, operations |-> builders[b].operations,
                 signatures |-> <<>>, bumped |-> FALSE, outer |-> <<>>]
           tx == [envelope |-> e, network |-> builders[b].network, builder |-> b, strayed |-> FALSE]
<1>1. builders[b].network \in Passphrases /\ builders[b].operations \in 1..MaxOperations
  BY DEF OSInv, OSTypeOK, BuildOffline
<1>2. e \in Envelopes /\ AllSignatures(e) = {}
  BY <1>1 DEF Envelopes, GivenSequence, AllSignatures, ToSet
<1>3. tx \in Transactions /\ AsMade(tx)
  BY <1>1, <1>2 DEF Transactions, AsMade, HomeNetwork
<1>4. Keep(tx) /\ UNCHANGED <<builders, packages, ledgers, accepted>>
  BY DEF BuildOffline
<1> HIDE DEF tx
<1> QED BY <1>3, <1>4, KeepKeepsOSInv

LEMMA CopyKeepsOSInv ==
    ASSUME OSInv, NEW i \in DOMAIN txs, NEW network \in Passphrases,
           ParseTransactionXdr(i, network) \/ SignTransaction(i, network) \/ BumpTransactionFee(i, network)
    PROVE  OSInv'
<1> DEFINE e == Made(i).envelope  f == [e EXCEPT !.bumped = TRUE]
<1>1. Made(i) \in Transactions /\ e \in Envelopes /\ AsMade(Made(i))
  BY TransactionsTyped
<1>2. /\ e.sequence = GivenSequence + 1 /\ (e.bumped => e.signatures # <<>>)
      /\ ~Made(i).strayed => AllSignatures(e) \subseteq {HomeNetwork(Made(i))}
  BY <1>1 DEF AsMade
<1>3. FromXdr(e, network, Made(i)) \in Transactions /\ AsMade(FromXdr(e, network, Made(i)))
  <2> HIDE DEF e
  <2> QED BY <1>1, <1>2, FromXdrSound
<1>4. CASE ParseTransactionXdr(i, network)
  BY <1>3, <1>4, KeepKeepsOSInv DEF ParseTransactionXdr
<1>5. CASE SignTransaction(i, network)
  BY <1>3, <1>5, SignedSound, KeepKeepsOSInv DEF SignTransaction
<1>6. CASE BumpTransactionFee(i, network)
  <2>1. /\ f \in Envelopes /\ f.sequence = e.sequence /\ f.signatures = e.signatures /\ f.outer = e.outer
        /\ e.signatures # <<>>
    BY <1>1, <1>6 DEF Envelopes, BumpTransactionFee
  <2>2. AllSignatures(f) = AllSignatures(e)
    BY <2>1 DEF AllSignatures
  <2>3. Keep(FromXdr(f, network, Made(i))) /\ UNCHANGED <<builders, packages, ledgers, accepted>>
    BY <1>6 DEF BumpTransactionFee
  <2> HIDE DEF e, f
  <2>4. FromXdr(f, network, Made(i)) \in Transactions /\ AsMade(FromXdr(f, network, Made(i)))
    BY <1>1, <1>2, <2>1, <2>2, FromXdrSound
  <2> QED BY <2>3, <2>4, KeepKeepsOSInv
<1> QED BY <1>4, <1>5, <1>6

LEMMA ImportKeepsOSInv ==
    ASSUME OSInv, NEW package \in packages, Import(package)
    PROVE  OSInv'
<1>1. /\ package.envelope \in Envelopes /\ package.network \in Passphrases
      /\ package.of \in DOMAIN txs /\ Made(package.of) \in Transactions
  BY DEF OSInv, OSTypeOK, Made
<1>2. /\ package.envelope.sequence = GivenSequence + 1 /\ ~package.envelope.bumped
      /\ ~Made(package.of).strayed => AllSignatures(package.envelope) \subseteq {HomeNetwork(Made(package.of))}
  BY DEF OSInv, PackagesSound, Import
<1> DEFINE tx == FromXdr(package.envelope, package.network, Made(package.of))
<1>3. tx \in Transactions /\ AsMade(tx)
  BY <1>1, <1>2, FromXdrSound
<1>4. Keep(tx) /\ UNCHANGED <<builders, packages, ledgers, accepted>>
  BY DEF Import
<1> HIDE DEF tx
<1> QED BY <1>3, <1>4, KeepKeepsOSInv

LEMMA SignKeepsOSInv ==
    ASSUME OSInv, NEW i \in DOMAIN txs, SignWithKeypair(i)
    PROVE  OSInv'
<1> DEFINE tx == Signed(txs[i])
<1>1. txs[i] \in Transactions /\ AsMade(txs[i]) /\ txs \in Seq(Transactions)
  BY DEF OSInv, OSTypeOK, Made
<1>2. tx \in Transactions /\ AsMade(tx) /\ tx.builder = txs[i].builder /\ tx.strayed = txs[i].strayed
  BY <1>1, SignedSound
<1>3. txs' = [txs EXCEPT ![i] = tx] /\ UNCHANGED <<builders, packages, ledgers, accepted>>
  BY DEF SignWithKeypair
<1> HIDE DEF tx
<1>4. /\ txs' \in Seq(Transactions) /\ DOMAIN txs' = DOMAIN txs
      /\ \A j \in DOMAIN txs : txs'[j] = IF j = i THEN tx ELSE txs[j]
  BY <1>1, <1>2, <1>3
<1>5. \A j \in DOMAIN txs' : txs'[j].builder = txs[j].builder /\ txs'[j].strayed = txs[j].strayed
  BY <1>2, <1>4
<1>6. \A j \in DOMAIN txs' : AsMade(Made(j))'
  BY <1>2, <1>3, <1>4 DEF OSInv, AsMade, Made, HomeNetwork
<1>7. OSTypeOK'
  BY <1>3, <1>4 DEF OSInv, OSTypeOK
<1>8. PackagesSound'
  BY <1>3, <1>4, <1>5 DEF OSInv, OSTypeOK, PackagesSound, Made, HomeNetwork
<1> QED BY <1>3, <1>6, <1>7, <1>8 DEF OSInv, LedgersMoveOn

LEMMA ExportKeepsOSInv ==
    ASSUME OSInv, NEW b \in Builders, NEW i \in DOMAIN txs, Export(b, i)
    PROVE  OSInv'
<1> DEFINE package == [envelope |-> Made(i).envelope, network |-> builders[b].network, of |-> i]
<1>1. package \in [envelope : Envelopes, network : Passphrases, of : DOMAIN txs] /\ AsMade(Made(i))
  <2>1. builders[b].network \in Passphrases
    BY DEF OSInv, OSTypeOK
  <2> QED BY <2>1, TransactionsTyped
<1>2. packages' = packages \cup {package} /\ UNCHANGED <<builders, txs, ledgers, accepted>>
  BY DEF Export
<1>3. OSTypeOK'
  BY <1>1, <1>2 DEF OSInv, OSTypeOK
<1>4. PackagesSound'
  BY <1>1, <1>2 DEF OSInv, PackagesSound, AsMade, Made, HomeNetwork
<1> QED BY <1>2, <1>3, <1>4 DEF OSInv, LedgersMoveOn, AsMade, Made, HomeNetwork

LEMMA SendKeepsOSInv ==
    ASSUME OSInv, NEW i \in DOMAIN txs, NEW network \in Passphrases, Send(i, network)
    PROVE  OSInv'
<1> DEFINE entry == [network |-> network, builder |-> Made(i).builder]
<1>1. ledgers \in [Passphrases -> Nat] /\ accepted \in Seq([network : Passphrases, builder : Builders])
  BY DEF OSInv, OSTypeOK
<1>2. ledgers[network] = GivenSequence /\ entry \in [network : Passphrases, builder : Builders]
  <2>1. AsMade(Made(i)) /\ Made(i).builder \in Builders
    BY TransactionsTyped
  <2>2. Made(i).envelope.sequence = ledgers[network] + 1 /\ ledgers[network] \in Nat
    BY <1>1 DEF Send
  <2> QED BY <2>1, <2>2 DEF AsMade, GivenSequence
<1>3. /\ ledgers' = [ledgers EXCEPT ![network] = @ + 1] /\ accepted' = Append(accepted, entry)
      /\ UNCHANGED <<builders, txs, packages>>
  BY DEF Send
<1>4. entry.network = network
  OBVIOUS
<1> HIDE DEF entry
<1>5. /\ accepted' \in Seq([network : Passphrases, builder : Builders])
      /\ DOMAIN accepted' = DOMAIN accepted \cup {Len(accepted) + 1}
      /\ \A k \in DOMAIN accepted : accepted'[k] = accepted[k] /\ accepted[k].network \in Passphrases
      /\ accepted'[Len(accepted) + 1] = entry
  <2> DEFINE Listed == [network : Passphrases, builder : Builders]
  <2>1. \A e \in Listed : e.network \in Passphrases
    OBVIOUS
  <2>2. accepted \in Seq(Listed) /\ entry \in Listed
    BY <1>1, <1>2
  <2> HIDE DEF Listed
  <2>3. /\ accepted' \in Seq(Listed)
        /\ DOMAIN accepted' = DOMAIN accepted \cup {Len(accepted) + 1}
        /\ \A k \in DOMAIN accepted : accepted'[k] = accepted[k] /\ accepted[k] \in Listed
        /\ accepted'[Len(accepted) + 1] = entry
    BY <1>3, <2>2
  <2> QED BY <2>1, <2>3 DEF Listed
<1>6. OSTypeOK'
  BY <1>1, <1>3, <1>5 DEF OSInv, OSTypeOK
<1>7. /\ \A p \in Passphrases : ledgers[p] > GivenSequence => ledgers'[p] > GivenSequence
      /\ ledgers'[network] > GivenSequence
  BY <1>1, <1>2, <1>3 DEF GivenSequence
<1>8. \A k \in DOMAIN accepted : accepted[k] # entry
  BY <1>2, <1>4 DEF OSInv, LedgersMoveOn, GivenSequence
<1>9. LedgersMoveOn'
  BY <1>4, <1>5, <1>7, <1>8 DEF OSInv, LedgersMoveOn, IsInjective
<1> QED BY <1>3, <1>6, <1>9 DEF OSInv, PackagesSound, AsMade, Made, HomeNetwork

LEMMA AddKeepsOSInv ==
    ASSUME OSInv, NEW b \in Builders, AddOperation(b)
    PROVE  OSInv'
<1>1. /\ builders' \in [Builders -> [network : Passphrases, operations : 0..MaxOperations + 1]]
      /\ \A c \in Builders : builders'[c].network = builders[c].network
      /\ UNCHANGED <<txs, packages, ledgers, accepted>>
  <2>1. builders \in [Builders -> [network : Passphrases, operations : 0..MaxOperations + 1]]
        /\ builders[b].operations <= MaxOperations
    BY DEF OSInv, OSTypeOK, AddOperation
  <2> DEFINE new == [builders[b] EXCEPT !.operations = @ + 1]
  <2>2. new \in [network : Passphrases, operations : 0..MaxOperations + 1] /\ new.network = builders[b].network
    BY <2>1, SigningAssumption
  <2>3. builders' = [builders EXCEPT ![b] = new] /\ UNCHANGED <<txs, packages, ledgers, accepted>>
    BY <2>1 DEF AddOperation
  <2> HIDE DEF new
  <2> QED BY <2>1, <2>2, <2>3
<1>2. OSTypeOK'
  BY <1>1 DEF OSInv, OSTypeOK
<1>3. \A tx \in Transactions : HomeNetwork(tx)' = HomeNetwork(tx) /\ (AsMade(tx) => AsMade(tx)')
  BY <1>1 DEF HomeNetwork, Transactions, AsMade
<1>4. \A i \in DOMAIN txs : txs[i] \in Transactions
  BY DEF OSInv, OSTypeOK
<1>5. \A i \in DOMAIN txs' : AsMade(Made(i))'
  BY <1>1, <1>3, <1>4 DEF OSInv, Made, AsMade, HomeNetwork, Transactions
<1>6. PackagesSound'
  BY <1>1, <1>3, <1>4 DEF OSInv, OSTypeOK, PackagesSound, Made, HomeNetwork, Transactions
<1> QED BY <1>1, <1>2, <1>5, <1>6 DEF OSInv, LedgersMoveOn

LEMMA OSNextInv == OSInv /\ [OSNext]_osVars => OSInv'
<1> SUFFICES ASSUME OSInv, [OSNext]_osVars PROVE OSInv'
  OBVIOUS
<1>1. ASSUME NEW b \in Builders, AddOperation(b) PROVE OSInv'
  BY <1>1, AddKeepsOSInv
<1>2. ASSUME NEW b \in Builders, BuildOffline(b) PROVE OSInv'
  BY <1>2, BuildKeepsOSInv
<1>3. ASSUME NEW b \in Builders, NEW i \in DOMAIN txs, Export(b, i) PROVE OSInv'
  BY <1>3, ExportKeepsOSInv
<1>4. ASSUME NEW package \in packages, Import(package) PROVE OSInv'
  BY <1>4, ImportKeepsOSInv
<1>5. ASSUME NEW i \in DOMAIN txs, SignWithKeypair(i) PROVE OSInv'
  BY <1>5, SignKeepsOSInv
<1>6. ASSUME NEW i \in DOMAIN txs, NEW network \in Passphrases,
             ParseTransactionXdr(i, network) \/ SignTransaction(i, network) \/ BumpTransactionFee(i, network)
      PROVE  OSInv'
  BY <1>6, CopyKeepsOSInv
<1>7. ASSUME NEW i \in DOMAIN txs, NEW network \in Passphrases, Send(i, network) PROVE OSInv'
  BY <1>7, SendKeepsOSInv
<1>8. CASE UNCHANGED osVars
  BY <1>8 DEF OSInv, OSTypeOK, PackagesSound, LedgersMoveOn, AsMade, Made, HomeNetwork, osVars
<1> QED BY <1>1, <1>2, <1>3, <1>4, <1>5, <1>6, <1>7, <1>8 DEF OSNext

-----------------------------------------------------------------------------
(* The cache of decoded XDR.                                                *)

\* The cache is the end of what has been decoded, as far as there is room.
XCInv ==
    /\ xdrCache \in Seq(XdrInputs) /\ decodes \in Seq(XdrInputs \ Undecodable)
    /\ IsInjective(decodes)
    /\ Len(xdrCache) <= MaxCacheSize /\ Len(xdrCache) <= Len(decodes)
    /\ Len(xdrCache) < MaxCacheSize => Len(xdrCache) = Len(decodes)
    /\ \A k \in 1..Len(xdrCache) : xdrCache[k] = decodes[Len(decodes) - Len(xdrCache) + k]

\* What moves to the end leaves its place p, or comes from behind the others, and
\* what was behind that place moves up.
MovesLast(q, r, x, p) ==
    /\ p \in 1..(Len(q) + 1)
    /\ p <= Len(q) => q[p] = x
    /\ p = Len(q) + 1 => x \notin ToSet(q)
    /\ Len(r) = IF p <= Len(q) THEN Len(q) ELSE Len(q) + 1
    /\ \A i \in 1..(Len(r) - 1) : r[i] = q[IF i < p THEN i ELSE i + 1]
    /\ r[Len(r)] = x

LEMMA MoveLastElements ==
    ASSUME NEW S, NEW q \in Seq(S), IsInjective(q), NEW x \in S
    PROVE  /\ MoveLast(q, x) \in Seq(S) /\ IsInjective(MoveLast(q, x))
           /\ \E p \in 1..(Len(q) + 1) : MovesLast(q, MoveLast(q, x), x, p)
<1> DEFINE r == MoveLast(q, x)
           n == Len(q)
           at == {k \in DOMAIN q : q[k] = x}
           rest == IF at = {} THEN q ELSE RemoveAt(q, Min(at))
<1>1. n \in Nat /\ DOMAIN q = 1..n
  BY LenProperties
<1>2. r = Append(rest, x)
  BY DEF MoveLast
<1>3. CASE at = {}
  <2>1. x \notin ToSet(q) /\ rest = q
    BY <1>3 DEF ToSet
  <2>2. r \in Seq(S) /\ IsInjective(r)
    BY <1>2, <2>1, AppendDistinct
  <2>3. r = Append(q, x)
    BY <1>2, <2>1
  <2> HIDE DEF r
  <2>4. Len(r) = n + 1 /\ r[n + 1] = x /\ \A i \in 1..n : r[i] = q[i]
    BY <2>3, AppendProperties
  <2> HIDE DEF n
  <2>5. n + 1 \in 1..(n + 1) /\ ~(n + 1 <= n) /\ \A i \in 1..(n + 1 - 1) : i < n + 1 /\ i \in 1..n
    BY <1>1
  <2>6. \A i \in 1..(n + 1 - 1) : r[i] = q[IF i < n + 1 THEN i ELSE i + 1]
    BY <2>4, <2>5
  <2>7. MovesLast(q, r, x, n + 1)
    BY <2>1, <2>4, <2>5, <2>6 DEF MovesLast, n
  <2> QED BY <2>2, <2>5, <2>7 DEF r, n
<1>4. CASE at # {}
  <2> DEFINE p == Min(at)
  <2>1. p \in at
    <3>1. at \in SUBSET Nat
      BY <1>1
    <3> QED BY <1>4, <3>1, MinIsLeast
  <2>2. rest = RemoveAt(q, p)
    BY <1>4
  <2>3. p \in DOMAIN q /\ q[p] = x
    BY <2>1
  <2> HIDE DEF p, at, rest
  <2>4. /\ rest \in Seq(S) /\ IsInjective(rest) /\ ToSet(rest) = ToSet(q) \ {x}
        /\ DOMAIN rest = 1..(n - 1)
        /\ \A i \in 1..(n - 1) : rest[i] = q[IF i < p THEN i ELSE i + 1]
    BY <2>2, <2>3, RemoveAtDistinct, RemoveAtShifts
  <2>5. r \in Seq(S) /\ IsInjective(r)
    BY <1>2, <2>4, AppendDistinct
  <2>6. n \in Nat \ {0} /\ p \in 1..n
    BY <1>1, <2>3
  <2>7. Len(rest) = n - 1
    BY <2>4, <2>6, LenProperties
  <2>8. Len(r) = n /\ r[n] = x /\ \A i \in 1..(n - 1) : r[i] = rest[i]
    BY <1>2, <2>4, <2>6, <2>7, AppendProperties, LenProperties
  <2> HIDE DEF r, n
  <2>9. p \in 1..(n + 1) /\ p <= n /\ p # n + 1
    BY <2>6
  <2>10. MovesLast(q, r, x, p)
    BY <2>3, <2>4, <2>8, <2>9 DEF MovesLast, n
  <2> QED BY <2>5, <2>9, <2>10 DEF r, n
<1> QED BY <1>3, <1>4

LEMMA XCInvKeeps == XCInv => CacheKeepsLatest
<1> SUFFICES ASSUME XCInv PROVE CacheKeepsLatest
  OBVIOUS
<1> DEFINE l == Len(decodes)
           c == Len(xdrCache)
<1>1. /\ l \in Nat /\ DOMAIN decodes = 1..l /\ c \in Nat
      /\ c <= MaxCacheSize /\ c <= l /\ (c < MaxCacheSize => c = l) /\ MaxCacheSize \in Nat
      /\ \A k \in 1..c : xdrCache[k] = decodes[l - c + k]
      /\ \A k \in 1..l : decodes[k] \in XdrInputs
  BY LenProperties, XdrAssumption DEF XCInv
<1>2. xdrCache = [k \in 1..c |-> xdrCache[k]]
  BY LenProperties DEF XCInv
<1> HIDE DEF l, c
<1>3. Max({0, l - MaxCacheSize}) = l - c
  <2> DEFINE T == {0, l - MaxCacheSize}
  <2>1. l - c \in T /\ \A y \in T : l - c >= y
    BY <1>1
  <2>2. Max(T) \in T /\ \A y \in T : Max(T) >= y
    BY <2>1 DEF Max
  <2> QED BY <1>1, <2>1, <2>2
<1>4. SubSeq(decodes, l - c + 1, l) = [k \in 1..c |-> decodes[l - c + k]]
  <2>1. SubSeq(decodes, l - c + 1, l) = [k \in 1..(l - (l - c + 1) + 1) |-> decodes[k + (l - c + 1) - 1]]
    BY <1>1
  <2>2. l - (l - c + 1) + 1 = c /\ \A k \in 1..c : k + (l - c + 1) - 1 = l - c + k
    BY <1>1
  <2> QED BY <2>1, <2>2
<1> QED BY <1>1, <1>2, <1>3, <1>4 DEF CacheKeepsLatest, l

LEMMA XCInitInv == XCInit => XCInv
BY XdrAssumption DEF XCInit, XCInv, IsInjective

LEMMA DecodeXdrKeeps ==
    ASSUME XCInv, NEW input \in XdrInputs, DecodeXdr(input)
    PROVE  XCInv'
<1> DEFINE Good == XdrInputs \ Undecodable
           l == Len(decodes)
           c == Len(xdrCache)
<1>1. /\ decodes \in Seq(Good) /\ IsInjective(decodes) /\ xdrCache \in Seq(XdrInputs)
      /\ l \in Nat /\ DOMAIN decodes = 1..l /\ c \in Nat /\ DOMAIN xdrCache = 1..c
      /\ c <= MaxCacheSize /\ c <= l /\ (c < MaxCacheSize => c = l) /\ MaxCacheSize \in Nat \ {0}
      /\ \A k \in 1..c : xdrCache[k] = decodes[l - c + k]
      /\ \A k \in 1..l : decodes[k] \in Good
  BY LenProperties, XdrAssumption DEF XCInv
<1> HIDE DEF l, c
<1>n. /\ l \in Nat /\ c \in Nat /\ MaxCacheSize \in Nat \ {0}
      /\ c <= MaxCacheSize /\ c <= l /\ (c < MaxCacheSize => c = l)
  BY <1>1
<1>s. decodes \in Seq(Good) /\ IsInjective(decodes) /\ xdrCache \in Seq(XdrInputs)
  BY <1>1
<1>2. input \in Good /\ decodes' = MoveLast(decodes, input)
  <2>1. CASE input \in ToSet(xdrCache)
    <3>1. PICK k \in 1..c : xdrCache[k] = input
      BY <1>1, <2>1 DEF ToSet
    <3>2. l - c + k \in 1..l
      BY <1>1
    <3> QED BY <1>1, <3>1, <3>2 DEF DecodeXdr
  <2> QED BY <2>1 DEF DecodeXdr
<1> HIDE DEF Good
<1> DEFINE moved == Len(decodes')
<1>3. decodes' \in Seq(Good) /\ IsInjective(decodes')
  BY <1>s, <1>2, MoveLastElements
<1>4. PICK p \in 1..(l + 1) :
          /\ p <= l => decodes[p] = input
          /\ p = l + 1 => input \notin ToSet(decodes)
          /\ moved = IF p <= l THEN l ELSE l + 1
          /\ \A i \in 1..(moved - 1) : decodes'[i] = decodes[IF i < p THEN i ELSE i + 1]
          /\ decodes'[moved] = input
  <2>1. PICK p \in 1..(l + 1) : MovesLast(decodes, decodes', input, p)
    BY <1>s, <1>2, MoveLastElements DEF l
  <2> QED BY <2>1 DEF MovesLast, l
\* It is enough that the cache is the end of what has been decoded then.
<1>e. ASSUME NEW n \in Nat, xdrCache' \in Seq(XdrInputs), Len(xdrCache') = n,
             n <= MaxCacheSize, n <= moved, n < MaxCacheSize => n = moved,
             \A k \in 1..n : xdrCache'[k] = decodes'[moved - n + k]
      PROVE  XCInv'
  BY <1>3, <1>e DEF XCInv, Good
<1> HIDE DEF moved
\* The cache, too, has the input at its end, and what was behind its place or the
\* first one moves up.
<1>5. CASE input \in ToSet(xdrCache)
  <2> DEFINE n == Len(xdrCache')
  <2>1. IsInjective(xdrCache)
    <3>1. ASSUME NEW i \in 1..c, NEW j \in 1..c, xdrCache[i] = xdrCache[j] PROVE i = j
      <4>1. l - c + i \in 1..l /\ l - c + j \in 1..l
        BY <1>n
      <4>2. decodes[l - c + i] = decodes[l - c + j]
        BY <1>1, <3>1
      <4>3. l - c + i = l - c + j
        <5> HIDE DEF l, c
        <5> QED BY <1>s, <1>1, <4>1, <4>2, Zenon DEF IsInjective
      <4> QED BY <1>n, <4>3
    <3> QED BY <1>1, <3>1 DEF IsInjective
  <2>2. xdrCache' = MoveLast(xdrCache, input)
    BY <1>5, Zenon DEF DecodeXdr
  <2>3. xdrCache' \in Seq(XdrInputs)
    BY <1>1, <2>1, <2>2, MoveLastElements
  <2>4. PICK q \in 1..(c + 1) :
          /\ q <= c => xdrCache[q] = input
          /\ q = c + 1 => input \notin ToSet(xdrCache)
          /\ n = IF q <= c THEN c ELSE c + 1
          /\ \A i \in 1..(n - 1) : xdrCache'[i] = xdrCache[IF i < q THEN i ELSE i + 1]
          /\ xdrCache'[n] = input
    <3>1. PICK q \in 1..(c + 1) : MovesLast(xdrCache, xdrCache', input, q)
      BY <1>s, <2>1, <2>2, MoveLastElements DEF c
    <3> QED BY <3>1 DEF MovesLast, c
  <2> HIDE DEF n
  <2>5. q \in 1..c /\ xdrCache[q] = input /\ n = c
    BY <1>1, <1>5, <2>4
  <2>6. p = l - c + q
    <3>1. l - c + q \in 1..l /\ decodes[l - c + q] = input
      BY <1>1, <2>5
    <3>2. p # l + 1
      BY <1>1, <1>4, <3>1 DEF ToSet
    <3>3. p \in 1..l /\ p <= l
      BY <1>1, <3>2
    <3>4. decodes[p] = input
      BY <1>4, <3>3
    <3> QED BY <1>1, <3>1, <3>3, <3>4 DEF IsInjective
  <2>7. moved = l
    BY <1>n, <1>4, <2>5, <2>6
  <2>8. ASSUME NEW k \in 1..n PROVE xdrCache'[k] = decodes'[moved - n + k]
    <3>1. CASE k = n
      <4>1. moved - n + k = moved
        BY <1>1, <2>5, <2>7, <3>1
      <4> QED BY <1>4, <2>4, <3>1, <4>1
    <3>2. CASE k # n
      <4>1. k \in 1..(n - 1) /\ k \in 1..c /\ k + 1 \in 1..c
        BY <1>1, <2>5, <3>2
      <4>2. l - c + k \in 1..(l - 1) /\ (k < q <=> l - c + k < p) /\ l - c + k + 1 = l - c + (k + 1)
        BY <1>1, <2>5, <2>6, <4>1
      <4>3. xdrCache'[k] = IF k < q THEN decodes[l - c + k] ELSE decodes[l - c + (k + 1)]
        BY <1>1, <2>4, <4>1
      <4>4. decodes'[l - c + k] = IF k < q THEN decodes[l - c + k] ELSE decodes[l - c + (k + 1)]
        BY <1>4, <2>7, <4>2
      <4> QED BY <2>5, <2>7, <4>3, <4>4
    <3> QED BY <3>1, <3>2
  <2>9. n <= MaxCacheSize /\ n <= moved /\ (n < MaxCacheSize => n = moved)
    BY <1>n, <2>5, <2>7
  <2>10. n \in Nat /\ Len(xdrCache') = n
    BY <1>1, <2>5 DEF n
  <2> QED BY <1>e, <2>3, <2>8, <2>9, <2>10
<1>6. CASE input \notin ToSet(xdrCache) /\ c < MaxCacheSize
  <2>1. xdrCache' = Append(xdrCache, input)
    BY <1>n, <1>6 DEF DecodeXdr, c
  <2>2. /\ xdrCache' \in Seq(XdrInputs) /\ Len(xdrCache') = c + 1
        /\ \A k \in 1..c : xdrCache'[k] = xdrCache[k]
        /\ xdrCache'[c + 1] = input
    <3>1. xdrCache \in Seq(XdrInputs)
      BY <1>1
    <3> DEFINE longer == Append(xdrCache, input)
    <3>2. /\ longer \in Seq(XdrInputs) /\ Len(longer) = Len(xdrCache) + 1
          /\ \A k \in 1..Len(xdrCache) : longer[k] = xdrCache[k]
          /\ longer[Len(xdrCache) + 1] = input
      BY <3>1, AppendProperties
    <3>3. xdrCache' = longer
      BY <2>1
    <3> HIDE DEF longer
    <3> QED BY <3>2, <3>3 DEF c
  <2>3. c = l /\ \A k \in 1..c : l - c + k = k
    BY <1>1, <1>6
  <2>4. p = l + 1
    <3>1. \A k \in 1..l : decodes[k] # input
      BY <1>1, <1>6, <2>3 DEF ToSet
    <3> QED BY <1>1, <1>4, <3>1
  <2>5. moved = c + 1
    BY <1>1, <1>4, <2>3, <2>4
  <2>6. ASSUME NEW k \in 1..(c + 1) PROVE xdrCache'[k] = decodes'[moved - (c + 1) + k]
    <3>1. moved - (c + 1) + k = k
      BY <1>1, <2>5
    <3>2. CASE k = c + 1
      BY <1>4, <2>2, <2>5, <3>1, <3>2
    <3>3. CASE k # c + 1
      <4>1. k \in 1..c /\ k \in 1..(moved - 1) /\ k < p
        BY <1>1, <2>3, <2>4, <2>5, <3>3
      <4> QED BY <1>1, <1>4, <2>2, <2>3, <3>1, <4>1
    <3> QED BY <3>2, <3>3
  <2>7. c + 1 <= MaxCacheSize /\ c + 1 <= moved
    BY <1>n, <1>6, <2>5
  <2>8. c + 1 \in Nat /\ (c + 1 < MaxCacheSize => c + 1 = moved)
    BY <1>n, <2>5
  <2> QED BY <1>e, <2>2, <2>6, <2>7, <2>8
<1>7. CASE input \notin ToSet(xdrCache) /\ c = MaxCacheSize
  <2> DEFINE rest == Tail(xdrCache)
  <2>1. xdrCache' = Append(rest, input)
    BY <1>n, <1>7 DEF DecodeXdr, c
  <2>2. rest \in Seq(XdrInputs) /\ Len(rest) = c - 1 /\ \A k \in 1..(c - 1) : rest[k] = xdrCache[k + 1]
    <3>1. xdrCache # <<>>
      BY <1>1, <1>7, NonEmpty DEF c
    <3> QED BY <1>1, <3>1, HeadTailProperties DEF c
  <2> HIDE DEF rest
  <2>3. /\ xdrCache' \in Seq(XdrInputs) /\ Len(xdrCache') = c
        /\ \A k \in 1..(c - 1) : xdrCache'[k] = xdrCache[k + 1]
        /\ xdrCache'[c] = input
    <3>1. c - 1 + 1 = c
      BY <1>1
    <3> QED BY <2>1, <2>2, <3>1, AppendProperties
  <2>4. p <= l - c \/ p = l + 1
    <3>1. ASSUME p \in (l - c + 1)..l PROVE FALSE
      <4>1. p - (l - c) \in 1..c /\ l - c + (p - (l - c)) = p /\ p <= l
        BY <1>1, <3>1
      <4>2. xdrCache[p - (l - c)] = input
        BY <1>1, <1>4, <4>1
      <4> QED BY <1>1, <1>7, <4>1, <4>2 DEF ToSet
    <3> QED BY <1>1, <3>1
  <2>5. moved \in Nat /\ moved >= c /\ (moved = l \/ moved = l + 1) /\ (moved = l <=> p <= l)
    BY <1>1, <1>4, <2>4
  <2>6. ASSUME NEW k \in 1..c PROVE xdrCache'[k] = decodes'[moved - c + k]
    <3>1. CASE k = c
      <4>1. moved - c + k = moved
        BY <1>1, <2>5, <3>1
      <4> QED BY <1>4, <2>3, <3>1, <4>1
    <3>2. CASE k # c
      <4>1. k \in 1..(c - 1) /\ k + 1 \in 1..c
        BY <1>1, <3>2
      <4>2. moved - c + k \in 1..(moved - 1)
        BY <1>1, <2>5, <4>1
      <4>3. (IF moved - c + k < p THEN moved - c + k ELSE moved - c + k + 1) = l - c + (k + 1)
        BY <1>1, <1>4, <2>4, <2>5, <4>1
      <4>4. decodes'[moved - c + k] = decodes[l - c + (k + 1)]
        BY <1>4, <4>2, <4>3
      <4>5. xdrCache'[k] = decodes[l - c + (k + 1)]
        BY <1>1, <2>3, <4>1
      <4> QED BY <4>4, <4>5
    <3> QED BY <3>1, <3>2
  <2>7. c \in Nat /\ c <= MaxCacheSize /\ c <= moved /\ (c < MaxCacheSize => c = moved)
    BY <1>n, <1>7, <2>5
  <2> QED BY <1>e, <2>3, <2>6, <2>7
<1>8. c < MaxCacheSize \/ c = MaxCacheSize
  BY <1>1
<1> QED BY <1>5, <1>6, <1>7, <1>8

LEMMA XCNextInv == XCInv /\ [XCNext]_xcVars => XCInv'
<1> SUFFICES ASSUME XCInv, [XCNext]_xcVars PROVE XCInv'
  OBVIOUS
<1>1. CASE ClearXdrCache
  BY <1>1, XdrAssumption DEF ClearXdrCache, XCInv, IsInjective
<1>2. ASSUME NEW input \in XdrInputs, DecodeXdr(input) PROVE XCInv'
  BY <1>2, DecodeXdrKeeps
<1>3. CASE UNCHANGED xcVars
  BY <1>3 DEF xcVars, XCInv
<1> QED BY <1>1, <1>2, <1>3 DEF XCNext

-----------------------------------------------------------------------------
(* The order of plugins.                                                    *)

\* Dependencies are ids, and there are none of an id that is not registered.
LEMMA DependenciesTyped ==
    ASSUME PDTypeOK, NEW a
    PROVE  /\ DependenciesOf(a) \in Seq(PluginIds) /\ Registered \subseteq PluginIds
           /\ \A b : Needs(a, b) => a \in Registered /\ b \in PluginIds
<1>1. Registered \subseteq PluginIds
  BY LenProperties DEF PDTypeOK, Registered, ToSet
<1>2. CASE a \notin Registered
  <2>1. DependenciesOf(a) = <<>> /\ ToSet(DependenciesOf(a)) = {}
    BY <1>2 DEF DependenciesOf, ToSet
  <2> QED BY <1>1, <2>1 DEF Needs
<1>3. CASE a \in Registered
  <2>1. DependenciesOf(a) = dependsOn[a] /\ dependsOn[a] \in SeqOf(PluginIds, MaxDependencies)
    BY <1>3 DEF PDTypeOK, DependenciesOf, DependencyLists
  <2>2. PICK m \in 0..MaxDependencies : dependsOn[a] \in [1..m -> PluginIds]
    BY <2>1 DEF SeqOf
  <2>3. DependenciesOf(a) \in Seq(PluginIds)
    BY <2>1, <2>2, DependencyAssumption, FunctionIsSeq
  <2>4. ToSet(DependenciesOf(a)) \subseteq PluginIds
    BY <2>3, LenProperties DEF ToSet
  <2> QED BY <1>1, <1>3, <2>3, <2>4 DEF Needs
<1> QED BY <1>2, <1>3

\* A cycle: an id that comes to itself by way of others.
Cycle(c) ==
    /\ c \in Seq(PluginIds) /\ Len(c) > 1 /\ Head(c) = Last(c) /\ IsInjective(Front(c))
    /\ \A i \in 1..(Len(c) - 1) : Needs(c[i], c[i + 1])

\* A path each id of which needs the next, none twice.
DependencyPath(path) ==
    /\ path \in Seq(PluginIds) /\ IsInjective(path)
    /\ \A i \in 1..(Len(path) - 1) : Needs(path[i], path[i + 1])

\* An id that needs one on the path to it closes a cycle.
LEMMA CyclesAreClosed ==
    ASSUME NEW path, DependencyPath(path), NEW c \in CyclesClosed(path)
    PROVE  Cycle(c)
<1> DEFINE n == Len(path)
<1>1. PICK k \in DOMAIN path : Needs(Last(path), path[k]) /\ c = Append(SubSeq(path, k, n), path[k])
  <2> DEFINE K == {j \in DOMAIN path : Needs(Last(path), path[j])}
             closing(k) == Append(SubSeq(path, k, n), path[k])
  <2>1. c \in {closing(k) : k \in K}
    BY Zenon DEF CyclesClosed
  <2>2. \E k \in K : c = closing(k)
    <3> HIDE DEF closing, K
    <3> QED BY <2>1
  <2> QED BY <2>2
<1> DEFINE part == SubSeq(path, k, n)
           m == n - k + 1
<1>2. n \in Nat /\ DOMAIN path = 1..n /\ k \in 1..n /\ m \in Nat /\ m >= 1 /\ Last(path) = path[n]
      /\ \A i \in 1..n : path[i] \in PluginIds
  BY LenProperties DEF DependencyPath, Last
<1>3. part \in Seq(PluginIds) /\ Len(part) = m /\ \A i \in 1..m : part[i] = path[k + i - 1]
  <2>1. \A i \in k..n : path[i] \in PluginIds
    BY <1>2
  <2>2. /\ part \in Seq(PluginIds) /\ Len(part) = IF k <= n THEN n - k + 1 ELSE 0
        /\ \A i \in 1..(n - k + 1) : part[i] = path[k + i - 1]
    BY <1>2, <2>1, SubSeqProperties
  <2> QED BY <1>2, <2>2
<1> HIDE DEF part
<1>4. /\ c \in Seq(PluginIds) /\ Len(c) = m + 1 /\ c[m + 1] = path[k]
      /\ \A i \in 1..m : c[i] = path[k + i - 1]
  <2>1. c = Append(part, path[k]) /\ path[k] \in PluginIds
    BY <1>1, <1>2 DEF part
  <2>2. c \in Seq(PluginIds) /\ Len(c) = m + 1 /\ c[m + 1] = path[k] /\ \A i \in 1..m : c[i] = part[i]
    BY <1>3, <2>1, AppendedTo
  <2> QED BY <1>3, <2>2
<1>5. Head(c) = Last(c) /\ c # <<>>
  <2>1. c # <<>> /\ Head(c) = c[1]
    BY <1>2, <1>4, NonEmpty, TakenFrom
  <2>2. c[1] = path[k] /\ Last(c) = c[m + 1]
    BY <1>2, <1>4 DEF Last
  <2> QED BY <1>4, <2>1, <2>2
<1>6. IsInjective(Front(c))
  <2>1. DOMAIN Front(c) = 1..m /\ \A i \in 1..m : Front(c)[i] = path[k + i - 1]
    <3>1. DOMAIN Front(c) = 1..(Len(c) - 1) /\ \A i \in 1..(Len(c) - 1) : Front(c)[i] = c[i]
      BY <1>4, <1>5, FrontLast
    <3>2. Len(c) - 1 = m
      BY <1>2, <1>4
    <3> QED BY <1>4, <3>1, <3>2
  <2>2. \A i \in 1..m : k + i - 1 \in 1..n
    BY <1>2
  <2> QED BY <1>2, <2>1, <2>2 DEF IsInjective, DependencyPath
<1>7. ASSUME NEW i \in 1..(Len(c) - 1) PROVE Needs(c[i], c[i + 1])
  <2>1. i \in 1..m /\ c[i] = path[k + i - 1]
    BY <1>2, <1>4
  <2>2. CASE i = m
    <3>1. k + i - 1 = n
      BY <1>2, <2>2
    <3> QED BY <1>1, <1>2, <1>4, <2>1, <2>2, <3>1
  <2>3. CASE i # m
    <3>1. i + 1 \in 1..m /\ k + i - 1 \in 1..(n - 1) /\ k + (i + 1) - 1 = k + i - 1 + 1
      BY <1>2, <2>1, <2>3
    <3>2. c[i + 1] = path[k + i - 1 + 1]
      BY <1>4, <3>1
    <3> QED BY <2>1, <3>1, <3>2 DEF DependencyPath
  <2> QED BY <2>2, <2>3
<1> QED BY <1>2, <1>4, <1>5, <1>6, <1>7 DEF Cycle

\* What holds of a search on its way.  The ids that were called and are not on the path
\* any more have nothing left that was not called, and are sorted in the order their
\* calls ended.  Nothing is called that the first ids can do without.  As long as no
\* cycle closed, what is on the path needs nothing before it, so whatever ends has what it
\* needs sorted already.
DependencyClosed(S) == \A a \in S : ToSet(DependenciesOf(a)) \subseteq S
SortedBefore(sorted) ==
    \A j \in DOMAIN sorted : \A b \in Registered :
        Needs(sorted[j], b) => \E i \in 1..(j - 1) : sorted[i] = b
PathStraight(path) == \A k \in DOMAIN path : \A i \in 1..k : ~Needs(path[k], path[i])
FirstEndsLast(s, roots) ==
    \A id \in Registered : roots = <<id>> =>
        \/ s.seen = {} /\ s.path = <<>>
        \/ s.path # <<>> /\ s.path[1] = id
        \/ s.path = <<>> /\ s.sorted # <<>> /\ Last(s.sorted) = id /\ id \in s.seen
DepthInv(s, roots) ==
    LET path == s.path  seen == s.seen  sorted == s.sorted IN
    /\ s \in DepthStates
    /\ DependencyPath(path) /\ ToSet(path) \subseteq seen
    /\ IsInjective(sorted) /\ ToSet(sorted) = (seen \ ToSet(path)) \cap Registered
    /\ \A a \in seen \ ToSet(path) : ToSet(DependenciesOf(a)) \subseteq seen
    /\ \A S \in SUBSET PluginIds : ToSet(roots) \subseteq S /\ DependencyClosed(S) => seen \subseteq S
    /\ \A c \in s.cycles : Cycle(c)
    /\ s.cycles = {} => PathStraight(path) /\ SortedBefore(sorted)
    /\ FirstEndsLast(s, roots)

\* Nothing is called at first.
LEMMA DepthBegins ==
    ASSUME NEW roots
    PROVE  DepthInv([path |-> <<>>, seen |-> {}, sorted |-> <<>>, cycles |-> {}], roots)
<1>1. <<>> \in Seq(PluginIds) /\ DOMAIN <<>> = {} /\ Len(<<>>) = 0
  BY EmptySeq
<1>2. IsInjective(<<>>) /\ ToSet(<<>>) = {}
  BY <1>1 DEF IsInjective, ToSet
<1>3. \A i \in 1..(0 - 1) : FALSE
  OBVIOUS
<1> QED BY <1>1, <1>2, <1>3 DEF DepthInv, DepthStates, DependencyPath, PathStraight, SortedBefore, FirstEndsLast

\* What the innermost call goes through are ids.
LEMMA UpcomingTyped ==
    ASSUME PDTypeOK, NEW roots \in Seq(PluginIds), NEW s \in DepthStates
    PROVE  /\ Upcoming(s, roots) \in Seq(PluginIds) /\ Unseen(s, roots) \in SUBSET Nat
           /\ Unseen(s, roots) # {} => LET id == Upcoming(s, roots)[Min(Unseen(s, roots))]
                                       IN  /\ id \in PluginIds /\ id \notin s.seen
                                           /\ id \in ToSet(Upcoming(s, roots))
<1> DEFINE ids == Upcoming(s, roots)
           left == Unseen(s, roots)
<1>1. ids \in Seq(PluginIds)
  BY DependenciesTyped DEF Upcoming
<1>2. left = {k \in DOMAIN ids : ids[k] \notin s.seen}
  BY DEF Unseen
<1> HIDE DEF ids, left
<1>3. left \in SUBSET Nat /\ DOMAIN ids \subseteq Nat /\ \A k \in DOMAIN ids : ids[k] \in PluginIds
  BY <1>1, <1>2, LenProperties
<1>4. left # {} => Min(left) \in left
  BY <1>3, MinIsLeast
<1>5. left # {} => ids[Min(left)] \in PluginIds /\ ids[Min(left)] \notin s.seen /\ ids[Min(left)] \in ToSet(ids)
  BY <1>2, <1>3, <1>4 DEF ToSet
<1> QED BY <1>1, <1>3, <1>5 DEF ids, left

\* A call of an id that was not called before.
LEMMA CallKeepsOrder ==
    ASSUME PDTypeOK, NEW roots \in Seq(PluginIds), NEW s, DepthInv(s, roots),
           NEW id \in PluginIds, id \notin s.seen, id \in ToSet(Upcoming(s, roots))
    PROVE  DepthInv(CallEntered(s, id), roots)
<1> DEFINE path == s.path
           seen == s.seen
           path2 == Append(path, id)
           seen2 == seen \cup {id}
           cycles2 == s.cycles \cup CyclesClosed(path2)
           t == CallEntered(s, id)
           n == Len(path)
<1>1. /\ path \in Seq(PluginIds) /\ IsInjective(path) /\ ToSet(path) \subseteq seen /\ seen \subseteq PluginIds
      /\ s.sorted \in Seq(PluginIds) /\ s.cycles \subseteq Seq(PluginIds)
      /\ n \in Nat /\ DOMAIN path = 1..n /\ id \notin ToSet(path)
  BY LenProperties DEF DepthInv, DepthStates, DependencyPath
<1>2. t = [path |-> path2, seen |-> seen2, sorted |-> s.sorted, cycles |-> cycles2]
  BY DEF CallEntered
<1>3. t.path = path2 /\ t.seen = seen2 /\ t.sorted = s.sorted /\ t.cycles = cycles2
  BY <1>2
<1>4. /\ path2 \in Seq(PluginIds) /\ ToSet(path2) = ToSet(path) \cup {id} /\ IsInjective(path2)
      /\ path2 # <<>> /\ (path # <<>> => path2[1] = path[1])
  BY <1>1, AppendDistinct
<1>5. Len(path2) = n + 1 /\ path2[n + 1] = id /\ (\A k \in 1..n : path2[k] = path[k]) /\ DOMAIN path2 = 1..(n + 1)
  BY <1>1, <1>4, AppendedTo, LenProperties
<1>6. Last(path2) = id
  BY <1>5 DEF Last
<1>7. \/ path = <<>> /\ n = 0 /\ id \in ToSet(roots)
      \/ path # <<>> /\ n \in 1..n /\ Needs(path[n], id) /\ path[n] \in seen
  <2>1. CASE path = <<>>
    BY <1>1, <2>1, NonEmpty DEF Upcoming
  <2>2. CASE path # <<>>
    <3>1. n \in DOMAIN path /\ Last(path) = path[n]
      BY <1>1, <2>2, FrontLast
    <3>2. path[n] \in seen
      BY <1>1, <3>1 DEF ToSet
    <3> QED BY <1>1, <2>2, <3>1, <3>2 DEF Upcoming, Needs
  <2> QED BY <2>1, <2>2
<1>8. DependencyPath(path2)
  <2> SUFFICES ASSUME NEW i \in 1..(Len(path2) - 1) PROVE Needs(path2[i], path2[i + 1])
    BY <1>4 DEF DependencyPath
  <2>1. i \in 1..n
    BY <1>1, <1>5
  <2>2. CASE i = n
    BY <1>1, <1>5, <1>7, <2>1, <2>2
  <2>3. CASE i # n
    <3>1. i + 1 \in 1..n /\ i \in 1..(n - 1)
      BY <1>1, <2>1, <2>3
    <3> QED BY <1>5, <2>1, <3>1 DEF DepthInv, DependencyPath
  <2> QED BY <2>2, <2>3
<1>9. \A c \in cycles2 : Cycle(c)
  <2> HIDE DEF path2
  <2> QED BY <1>8, CyclesAreClosed DEF DepthInv
<1>10. t \in DepthStates
  <2>1. cycles2 \subseteq Seq(PluginIds)
    BY <1>9 DEF Cycle
  <2> HIDE DEF path2, cycles2, seen2
  <2>2. seen2 \subseteq PluginIds
    BY <1>1 DEF seen2
  <2> QED BY <1>1, <1>2, <1>4, <2>1, <2>2 DEF DepthStates
<1>11. seen2 \ ToSet(path2) = seen \ ToSet(path) /\ ToSet(path2) \subseteq seen2
  BY <1>1, <1>4
<1>12. ASSUME NEW S \in SUBSET PluginIds, ToSet(roots) \subseteq S, DependencyClosed(S) PROVE seen2 \subseteq S
  <2>1. seen \subseteq S
    BY <1>12 DEF DepthInv
  <2>2. id \in S
    BY <1>7, <1>12, <2>1 DEF DependencyClosed, Needs
  <2> QED BY <2>1, <2>2
<1>13. ASSUME cycles2 = {} PROVE PathStraight(path2) /\ SortedBefore(s.sorted)
  <2>1. s.cycles = {} /\ PathStraight(path) /\ SortedBefore(s.sorted)
    BY <1>13 DEF DepthInv
  <2>2. \A i \in 1..(n + 1) : ~Needs(id, path2[i])
    <3> SUFFICES ASSUME NEW i \in DOMAIN path2, Needs(Last(path2), path2[i]) PROVE FALSE
      BY <1>5, <1>6
    <3>1. Append(SubSeq(path2, i, Len(path2)), path2[i]) \in CyclesClosed(path2)
      <4> HIDE DEF path2
      <4> QED BY DEF CyclesClosed
    <3> QED BY <1>13, <3>1
  <2>3. ASSUME NEW k \in 1..(n + 1), NEW i \in 1..k PROVE ~Needs(path2[k], path2[i])
    <3>1. CASE k = n + 1
      BY <1>5, <2>2, <3>1
    <3>2. CASE k # n + 1
      <4>1. k \in 1..n /\ i \in 1..n
        BY <1>1, <3>2
      <4> QED BY <1>1, <1>5, <2>1, <4>1 DEF PathStraight
    <3> QED BY <3>1, <3>2
  <2> QED BY <1>5, <2>1, <2>3 DEF PathStraight
<1>14. FirstEndsLast(t, roots)
  <2> SUFFICES ASSUME NEW r \in Registered, roots = <<r>> PROVE path2 # <<>> /\ path2[1] = r
    BY <1>3 DEF FirstEndsLast
  <2>1. ToSet(roots) = {r}
    BY DEF ToSet
  <2>2. CASE path = <<>>
    <3>1. id = r /\ n = 0
      BY <1>7, <2>1, <2>2
    <3> QED BY <1>4, <1>5, <3>1
  <2>3. CASE path # <<>>
    <3>1. path[1] = r
      BY <2>3 DEF DepthInv, FirstEndsLast
    <3> QED BY <1>4, <2>3, <3>1
  <2> QED BY <2>2, <2>3
<1>15. \A a \in seen2 \ ToSet(path2) : ToSet(DependenciesOf(a)) \subseteq seen2
  BY <1>11 DEF DepthInv
<1>16. IsInjective(s.sorted) /\ ToSet(s.sorted) = (seen2 \ ToSet(path2)) \cap Registered
  BY <1>11 DEF DepthInv
<1>17. DepthInv(t, roots)
  <2> HIDE DEF t, path2, seen2, cycles2
  <2> QED BY <1>3, <1>8, <1>9, <1>10, <1>11, <1>12, <1>13, <1>14, <1>15, <1>16 DEF DepthInv
<1> QED BY <1>17

\* The innermost call, whose dependencies were all called, ends.
LEMMA EndKeepsOrder ==
    ASSUME PDTypeOK, NEW roots \in Seq(PluginIds), NEW s, DepthInv(s, roots),
           s.path # <<>>, Unseen(s, roots) = {}
    PROVE  DepthInv(CallEnded(s), roots) /\ Len(CallEnded(s).path) = Len(s.path) - 1
<1> DEFINE path == s.path
           seen == s.seen
           id == Last(path)
           path2 == Front(path)
           sorted2 == IF id \in Registered THEN Append(s.sorted, id) ELSE s.sorted
           t == CallEnded(s)
           n == Len(path)
           m == Len(s.sorted)
<1>1. /\ path \in Seq(PluginIds) /\ IsInjective(path) /\ ToSet(path) \subseteq seen /\ seen \subseteq PluginIds
      /\ s.sorted \in Seq(PluginIds) /\ s.cycles \subseteq Seq(PluginIds) /\ path # <<>>
      /\ DOMAIN path = 1..n /\ m \in Nat /\ DOMAIN s.sorted = 1..m
      /\ IsInjective(s.sorted) /\ ToSet(s.sorted) = (seen \ ToSet(path)) \cap Registered
  BY LenProperties DEF DepthInv, DepthStates, DependencyPath
<1>2. /\ t.path = path2 /\ t.seen = seen /\ t.sorted = sorted2 /\ t.cycles = s.cycles
      /\ t = [path |-> path2, seen |-> seen, cycles |-> s.cycles, sorted |-> sorted2]
  BY DEF CallEnded
<1>3. /\ n \in Nat \ {0} /\ n \in DOMAIN path /\ id = path[n] /\ id \in PluginIds
      /\ path2 \in Seq(PluginIds) /\ Len(path2) = n - 1 /\ DOMAIN path2 = 1..(n - 1)
      /\ \A i \in 1..(n - 1) : path2[i] = path[i]
  <2>1. path \in Seq(PluginIds) /\ path # <<>>
    BY <1>1
  <2> HIDE DEF path
  <2> QED BY <2>1, FrontLast
<1> HIDE DEF path2, id
<1>4. /\ IsInjective(path2) /\ ToSet(path2) = ToSet(path) \ {id} /\ id \in ToSet(path) /\ id \in seen
  <2>1. \A i, j \in 1..n : path[i] = path[j] => i = j
    BY <1>1 DEF IsInjective
  <2>2. IsInjective(path2)
    BY <1>3, <2>1 DEF IsInjective
  <2>3. ToSet(path2) \subseteq ToSet(path) \ {id}
    BY <1>1, <1>3, <2>1 DEF ToSet
  <2>4. ASSUME NEW i \in 1..n, path[i] # id PROVE path[i] \in ToSet(path2)
    <3>1. i \in 1..(n - 1)
      BY <1>3, <2>4
    <3> QED BY <1>3, <3>1 DEF ToSet
  <2>5. ToSet(path) \ {id} \subseteq ToSet(path2)
    BY <1>1, <2>4 DEF ToSet
  <2>6. id \in ToSet(path)
    BY <1>3 DEF ToSet
  <2> QED BY <1>1, <2>2, <2>3, <2>5, <2>6
<1>5. ToSet(DependenciesOf(id)) \subseteq seen
  <2>1. \A k \in DOMAIN DependenciesOf(id) : DependenciesOf(id)[k] \in seen
    BY <1>1 DEF Unseen, Upcoming, id
  <2> QED BY <2>1 DEF ToSet
<1>6. seen \ ToSet(path2) = (seen \ ToSet(path)) \cup {id}
  BY <1>4
<1>7. /\ sorted2 \in Seq(PluginIds) /\ IsInjective(sorted2)
      /\ ToSet(sorted2) = (seen \ ToSet(path2)) \cap Registered
  <2>1. CASE id \in Registered
    <3>1. sorted2 = Append(s.sorted, id) /\ id \notin ToSet(s.sorted)
      BY <1>1, <1>4, <2>1
    <3>2. sorted2 \in Seq(PluginIds) /\ ToSet(sorted2) = ToSet(s.sorted) \cup {id} /\ IsInjective(sorted2)
      BY <1>1, <1>3, <3>1, AppendDistinct
    <3> QED BY <1>1, <1>6, <2>1, <3>2
  <2>2. CASE id \notin Registered
    <3>1. sorted2 = s.sorted
      BY <2>2
    <3> QED BY <1>1, <1>6, <2>2, <3>1
  <2> QED BY <2>1, <2>2
<1>8. DependencyPath(path2)
  <2> SUFFICES ASSUME NEW i \in 1..(Len(path2) - 1) PROVE Needs(path2[i], path2[i + 1])
    BY <1>3, <1>4 DEF DependencyPath
  <2>1. i \in 1..(n - 1) /\ i + 1 \in 1..(n - 1)
    BY <1>3
  <2> QED BY <1>3, <2>1 DEF DepthInv, DependencyPath
<1>9. \A a \in seen \ ToSet(path2) : ToSet(DependenciesOf(a)) \subseteq seen
  BY <1>5, <1>6 DEF DepthInv
<1>10. ASSUME s.cycles = {} PROVE PathStraight(path2) /\ SortedBefore(sorted2)
  <2>1. PathStraight(path) /\ SortedBefore(s.sorted)
    BY <1>10 DEF DepthInv
  <2>2. PathStraight(path2)
    <3> SUFFICES ASSUME NEW k \in 1..(n - 1), NEW i \in 1..k PROVE ~Needs(path2[k], path2[i])
      BY <1>3 DEF PathStraight
    <3>1. k \in 1..n /\ i \in 1..(n - 1)
      BY <1>3
    <3> QED BY <1>1, <1>3, <2>1, <3>1 DEF PathStraight
  <2>3. CASE id \notin Registered
    BY <2>1, <2>2, <2>3
  <2>4. CASE id \in Registered
    <3>1. /\ sorted2 = Append(s.sorted, id) /\ Len(sorted2) = m + 1 /\ DOMAIN sorted2 = 1..(m + 1)
          /\ sorted2[m + 1] = id /\ \A j \in 1..m : sorted2[j] = s.sorted[j]
      BY <1>1, <1>3, <1>7, <2>4, AppendedTo, LenProperties
    <3> HIDE DEF sorted2
    <3>2. ASSUME NEW j \in 1..(m + 1), NEW b \in Registered, Needs(sorted2[j], b)
          PROVE  \E i \in 1..(j - 1) : sorted2[i] = b
      <4>1. CASE j = m + 1
        <5>1. Needs(id, b) /\ b \in seen
          BY <1>5, <3>1, <3>2, <4>1 DEF Needs
        <5>2. b \notin ToSet(path)
          <6>1. \A i \in 1..n : ~Needs(id, path[i])
            BY <1>3, <2>1 DEF PathStraight
          <6> QED BY <1>1, <5>1, <6>1 DEF ToSet
        <5>3. b \in ToSet(s.sorted)
          BY <1>1, <5>1, <5>2
        <5>4. PICK i \in 1..m : s.sorted[i] = b
          BY <1>1, <5>3 DEF ToSet
        <5>5. i \in 1..(j - 1)
          BY <1>1, <4>1
        <5> QED BY <3>1, <5>4, <5>5
      <4>2. CASE j # m + 1
        <5>1. j \in 1..m
          BY <1>1, <4>2
        <5>2. PICK i \in 1..(j - 1) : s.sorted[i] = b
          BY <1>1, <2>1, <3>1, <3>2, <5>1 DEF SortedBefore
        <5>3. i \in 1..m
          BY <1>1, <5>1
        <5> QED BY <3>1, <5>2, <5>3
      <4> QED BY <4>1, <4>2
    <3>3. SortedBefore(sorted2)
      BY <3>1, <3>2 DEF SortedBefore
    <3> QED BY <2>2, <3>3
  <2> QED BY <2>3, <2>4
<1>11. FirstEndsLast(t, roots)
  <2> SUFFICES ASSUME NEW r \in Registered, roots = <<r>>
               PROVE  \/ path2 # <<>> /\ path2[1] = r
                      \/ path2 = <<>> /\ sorted2 # <<>> /\ Last(sorted2) = r /\ r \in seen
    BY <1>2 DEF FirstEndsLast
  <2>1. path[1] = r
    BY <1>1 DEF DepthInv, FirstEndsLast
  <2>2. CASE path2 # <<>>
    <3>1. 1 \in 1..(n - 1)
      BY <1>3, <2>2, NonEmpty
    <3> QED BY <1>3, <2>1, <2>2, <3>1
  <2>3. CASE path2 = <<>>
    <3>1. n = 1
      BY <1>3, <2>3, NonEmpty
    <3>2. id = r /\ r \in seen
      BY <1>3, <1>4, <2>1, <3>1
    <3>3. sorted2 = Append(s.sorted, r)
      BY <3>2
    <3>4. s.sorted \in Seq(PluginIds) /\ r \in PluginIds
      BY <1>1, <1>3, <3>2
    <3> HIDE DEF sorted2
    <3>5. sorted2 # <<>>
      BY <3>3, <3>4, AppendDistinct
    <3>6. Len(sorted2) = m + 1 /\ sorted2[m + 1] = r
      BY <3>3, <3>4, AppendedTo
    <3>7. Last(sorted2) = r
      BY <3>6 DEF Last
    <3> QED BY <2>3, <3>2, <3>5, <3>7
  <2> QED BY <2>2, <2>3
<1>12. t \in DepthStates
  <2> HIDE DEF sorted2, t
  <2> QED BY <1>1, <1>2, <1>3, <1>7 DEF DepthStates
<1>13. ToSet(path2) \subseteq seen
  BY <1>1, <1>4
<1>14. DepthInv(t, roots)
  <2> HIDE DEF t, sorted2
  <2> QED BY <1>2, <1>7, <1>8, <1>9, <1>10, <1>11, <1>12, <1>13 DEF DepthInv
<1> QED BY <1>2, <1>3, <1>14

\* What closes on a path is a sequence of ids.
LEMMA ClosedTyped == ASSUME NEW path \in Seq(PluginIds) PROVE CyclesClosed(path) \subseteq Seq(PluginIds)
<1> DEFINE closing(k) == Append(SubSeq(path, k, Len(path)), path[k])
<1>1. ASSUME NEW k \in DOMAIN path PROVE closing(k) \in Seq(PluginIds)
  <2>1. Len(path) \in Nat /\ DOMAIN path = 1..Len(path) /\ \A i \in 1..Len(path) : path[i] \in PluginIds
    BY LenProperties
  <2>2. \A i \in k..Len(path) : path[i] \in PluginIds
    BY <2>1
  <2>3. SubSeq(path, k, Len(path)) \in Seq(PluginIds)
    BY <2>1, <2>2, SubSeqProperties
  <2> QED BY <2>1, <2>3, AppendProperties
<1> DEFINE K == {j \in DOMAIN path : Needs(Last(path), path[j])}
<1>2. CyclesClosed(path) = {closing(k) : k \in K}
  BY Zenon DEF CyclesClosed
<1>3. K \subseteq DOMAIN path
  OBVIOUS
<1> HIDE DEF closing, K
<1> QED BY <1>1, <1>2, <1>3

\* A state of a search leads to a state.
LEMMA DepthTyped ==
    ASSUME PDTypeOK, NEW roots \in Seq(PluginIds), NEW s \in DepthStates
    PROVE  /\ \A id \in PluginIds : CallEntered(s, id) \in DepthStates
           /\ s.path # <<>> => CallEnded(s) \in DepthStates
<1>1. /\ s.path \in Seq(PluginIds) /\ s.seen \subseteq PluginIds /\ s.sorted \in Seq(PluginIds)
      /\ s.cycles \subseteq Seq(PluginIds)
  BY DEF DepthStates
<1>2. ASSUME NEW id \in PluginIds PROVE CallEntered(s, id) \in DepthStates
  <2> DEFINE path == Append(s.path, id)
             closed == s.cycles \cup CyclesClosed(path)
             seen == s.seen \cup {id}
  <2>1. path \in Seq(PluginIds)
    BY <1>1, AppendProperties
  <2>2. closed \subseteq Seq(PluginIds) /\ seen \subseteq PluginIds
    <3> HIDE DEF path
    <3> QED BY <1>1, <2>1, ClosedTyped
  <2>3. CallEntered(s, id) = [path |-> path, seen |-> seen, sorted |-> s.sorted, cycles |-> closed]
    BY DEF CallEntered
  <2> HIDE DEF path, closed, seen
  <2> QED BY <1>1, <2>1, <2>2, <2>3 DEF DepthStates
<1>3. ASSUME s.path # <<>> PROVE CallEnded(s) \in DepthStates
  <2> DEFINE id == Last(s.path)
             sorted == IF id \in Registered THEN Append(s.sorted, id) ELSE s.sorted
             path == Front(s.path)
  <2>1. id \in PluginIds /\ path \in Seq(PluginIds)
    BY <1>1, <1>3, FrontLast
  <2>2. CallEnded(s) = [path |-> path, seen |-> s.seen, cycles |-> s.cycles, sorted |-> sorted]
    BY DEF CallEnded
  <2> HIDE DEF id, path
  <2>3. sorted \in Seq(PluginIds)
    BY <1>1, <2>1, AppendProperties
  <2> HIDE DEF sorted
  <2> QED BY <1>1, <2>1, <2>2, <2>3 DEF DepthStates
<1> QED BY <1>2, <1>3

\* Every search ends: an id is called once, and each call ends.
LEMMA DepthFirstEnds ==
    ASSUME PDTypeOK, NEW roots \in Seq(PluginIds)
    PROVE  LET s == DepthFirst(roots)
           IN  DepthInv(s, roots) /\ s.path = <<>> /\ ToSet(roots) \subseteq s.seen
<1> DEFINE S == DepthStates
           Body(g, s) == IF Unseen(s, roots) # {} THEN g[CallEntered(s, Upcoming(s, roots)[Min(Unseen(s, roots))])]
                         ELSE IF s.path # <<>> THEN g[CallEnded(s)]
                         ELSE s
           F == CHOOSE g : g = [s \in S |-> Body(g, s)]
           first == [path |-> <<>>, seen |-> {}, sorted |-> <<>>, cycles |-> {}]
           D == {s \in S : Unseen(s, roots) = {} /\ s.path = <<>>}
           r == [s \in D |-> s]
           f == [s \in S \ D |-> IF Unseen(s, roots) # {} THEN CallEntered(s, Upcoming(s, roots)[Min(Unseen(s, roots))])
                                 ELSE CallEnded(s)]
           Good(s) == DepthInv(s, roots) /\ s.path = <<>> /\ ToSet(roots) \subseteq s.seen
<1>1. DepthFirst(roots) = F[first]
  BY DEF DepthFirst
<1>2. f \in [S \ D -> S]
  <2> SUFFICES ASSUME NEW s \in S \ D PROVE f[s] \in S
    OBVIOUS
  <2>1. CASE Unseen(s, roots) # {}
    <3>1. Upcoming(s, roots)[Min(Unseen(s, roots))] \in PluginIds
      BY <2>1, UpcomingTyped
    <3>2. f[s] = CallEntered(s, Upcoming(s, roots)[Min(Unseen(s, roots))])
      BY <2>1
    <3> HIDE DEF f, D
    <3> QED BY <3>1, <3>2, DepthTyped
  <2>2. CASE Unseen(s, roots) = {}
    <3>1. f[s] = CallEnded(s) /\ s.path # <<>>
      BY <2>2
    <3> HIDE DEF f, D
    <3> QED BY <3>1, DepthTyped
  <2> QED BY <2>1, <2>2
<1>3. \A g : \A s \in S : Body(g, s) = IF s \in D THEN r[s] ELSE g[f[s]]
  <2> SUFFICES ASSUME NEW g, NEW s \in S PROVE Body(g, s) = IF s \in D THEN r[s] ELSE g[f[s]]
    OBVIOUS
  <2> HIDE DEF S
  <2>1. CASE Unseen(s, roots) # {}
    BY <2>1
  <2>2. CASE Unseen(s, roots) = {} /\ s.path # <<>>
    BY <2>2
  <2>3. CASE Unseen(s, roots) = {} /\ s.path = <<>>
    BY <2>3
  <2> QED BY <2>1, <2>2, <2>3
<1>4. F = [s \in S |-> Body(F, s)]
  <2>1. PICK g : g = [s \in S |-> g[s]] /\ \A s \in S : g[s] = IF s \in D THEN r[s] ELSE g[f[s]]
    <3> HIDE DEF r, f
    <3>1. D \in SUBSET S
      OBVIOUS
    <3> HIDE DEF D, S, Body
    <3>2. IsLoop(Loop(S, D, f, r), S, D, f, r)
      BY <1>2, <3>1, LoopExists
    <3> QED BY <3>2 DEF IsLoop
  <2> HIDE DEF S, D, r, f, Body
  <2>2. \A s \in S : g[s] = Body(g, s)
    BY <1>3, <2>1
  <2>3. g = [s \in S |-> Body(g, s)]
    BY <2>1, <2>2
  <2> QED BY <2>3
<1>5. \A s \in S : F[s] = IF s \in D THEN r[s] ELSE F[f[s]]
  <2> HIDE DEF S, D, r, f, Body, F
  <2> QED BY <1>3, <1>4
<1>6. ASSUME NEW s, DepthInv(s, roots) PROVE Good(F[s])
  <2> DEFINE rest(x) == Cardinality(PluginIds \ x.seen)
             work(x) == 2 * rest(x) + Len(x.path)
             bad == {x \in S : DepthInv(x, roots) /\ ~Good(F[x])}
             works == {work(x) : x \in bad}
  <2>0. s \in S
    BY <1>6 DEF DepthInv
  <2>1. ASSUME NEW x \in S
        PROVE  /\ x.seen \subseteq PluginIds /\ IsFiniteSet(PluginIds \ x.seen) /\ rest(x) \in Nat
               /\ Len(x.path) \in Nat /\ work(x) \in Nat
    <3>1. x.seen \subseteq PluginIds /\ x.path \in Seq(PluginIds)
      BY DEF DepthStates
    <3>2. IsFiniteSet(PluginIds \ x.seen)
      BY DependencyAssumption, FS_Subset
    <3>3. rest(x) \in Nat /\ Len(x.path) \in Nat
      BY <3>1, <3>2, FS_CardinalityType, LenProperties
    <3> HIDE DEF rest
    <3> QED BY <3>1, <3>2, <3>3
  <2>2. SUFFICES ASSUME bad # {} PROVE FALSE
    <3> HIDE DEF Good, F
    <3> QED BY <1>6, <2>0
  <2>3. works \in SUBSET Nat /\ works # {}
    <3> HIDE DEF Good, F, work
    <3> QED BY <2>1, <2>2
  <2>4. PICK l \in works : \A k \in works : l <= k
    <3> HIDE DEF works
    <3> QED BY <2>3, LeastNatural
  <2>5. PICK x \in bad : work(x) = l
    <3> HIDE DEF bad, work
    <3> QED BY <2>4
  <2>6. x \in S /\ DepthInv(x, roots) /\ ~Good(F[x]) /\ \A y \in bad : work(x) <= work(y)
    <3>1. \A y \in bad : work(y) \in works
      OBVIOUS
    <3> HIDE DEF works, work
    <3> QED BY <2>4, <2>5, <3>1
  <2>7. CASE x \in D
    <3>1. F[x] = x
      <4>1. r[x] = x
        BY <2>7
      <4> HIDE DEF D, r, f, F, S
      <4> QED BY <1>5, <2>6, <2>7, <4>1
    <3>2. x.path = <<>> /\ ToSet(roots) \subseteq x.seen
      BY <2>7 DEF Unseen, Upcoming, ToSet
    <3> HIDE DEF F
    <3> QED BY <2>6, <3>1, <3>2
  <2>8. ASSUME NEW y, F[x] = F[y], DepthInv(y, roots), work(y) < work(x) PROVE FALSE
    <3>1. y \in bad
      <4> HIDE DEF F
      <4> QED BY <2>6, <2>8 DEF DepthInv
    <3>2. work(x) <= work(y) /\ work(x) \in Nat /\ work(y) \in Nat
      <4> HIDE DEF work
      <4> QED BY <2>1, <2>6, <3>1
    <3>3. work(y) < work(x)
      BY <2>8
    <3> HIDE DEF work, bad, works
    <3> QED BY <3>2, <3>3
  <2> HIDE DEF bad, works
  <2>9. CASE Unseen(x, roots) # {}
    <3> DEFINE id == Upcoming(x, roots)[Min(Unseen(x, roots))]
               y == CallEntered(x, id)
    <3>1. F[x] = F[y]
      <4>1. x \notin D /\ f[x] = y
        BY <2>6, <2>9
      <4> HIDE DEF D, r, f, F, S
      <4> QED BY <1>5, <2>6, <4>1
    <3>2. id \in PluginIds /\ id \notin x.seen /\ id \in ToSet(Upcoming(x, roots))
      BY <2>6, <2>9, UpcomingTyped
    <3> HIDE DEF id
    <3>3. DepthInv(y, roots)
      BY <2>6, <3>2, CallKeepsOrder
    <3>4. y.seen = x.seen \cup {id} /\ y.path = Append(x.path, id)
      BY DEF CallEntered
    <3>5. work(y) < work(x)
      <4> DEFINE U == PluginIds \ x.seen
                 W == PluginIds \ y.seen
      <4>1. W = U \ {id} /\ id \in U /\ IsFiniteSet(U)
        BY <2>1, <2>6, <3>2, <3>4
      <4>2. Cardinality(W) = Cardinality(U) - 1
        <5> HIDE DEF U, W
        <5> QED BY <4>1, FS_RemoveElement
      <4>3. Len(y.path) = Len(x.path) + 1
        <5>1. x.path \in Seq(PluginIds)
          BY <2>6 DEF DepthStates
        <5>2. y.path = Append(x.path, id) /\ id \in PluginIds
          BY <3>2, <3>4
        <5>3. Len(Append(x.path, id)) = Len(x.path) + 1
          BY <5>1, <5>2, AppendedTo
        <5> HIDE DEF y
        <5> QED BY <5>2, <5>3
      <4>4. Cardinality(U) \in Nat /\ Len(x.path) \in Nat
        BY <2>1, <2>6
      <4> HIDE DEF U, W, y
      <4>5. 2 * Cardinality(W) + Len(y.path) < 2 * Cardinality(U) + Len(x.path)
        BY <4>2, <4>3, <4>4
      <4> QED BY <4>5 DEF U, W
    <3> HIDE DEF y, work, F
    <3> QED BY <2>8, <3>1, <3>3, <3>5
  <2>10. CASE Unseen(x, roots) = {} /\ x \notin D
    <3> DEFINE y == CallEnded(x)
    <3>1. x.path # <<>>
      BY <2>6, <2>10
    <3>2. F[x] = F[y]
      <4>1. f[x] = y
        BY <2>6, <2>10
      <4> HIDE DEF D, r, f, F, S
      <4> QED BY <1>5, <2>6, <2>10, <4>1
    <3>3. DepthInv(y, roots) /\ Len(y.path) = Len(x.path) - 1
      BY <2>6, <2>10, <3>1, EndKeepsOrder
    <3>4. y.seen = x.seen
      BY DEF CallEnded
    <3>5. work(y) < work(x)
      <4>1. rest(y) = rest(x) /\ rest(x) \in Nat /\ Len(x.path) \in Nat
        BY <2>1, <2>6, <3>4
      <4>2. Len(y.path) = Len(x.path) - 1
        BY <3>3
      <4> HIDE DEF rest, y
      <4> QED BY <4>1, <4>2
    <3> HIDE DEF y, work, F
    <3> QED BY <2>8, <3>2, <3>3, <3>5
  <2> QED BY <2>7, <2>9, <2>10
<1>7. Good(F[first])
  <2> HIDE DEF F, Good, first
  <2> QED BY <1>6, DepthBegins DEF first
<1> HIDE DEF F, first
<1> QED BY <1>1, <1>7

\* Along a cycle ranks would fall and come back.
LEMMA CycleHasNoRank == ASSUME PDTypeOK, NEW c, Cycle(c), Acyclic PROVE FALSE
<1>1. PICK rank \in [PluginIds -> 1..Cardinality(PluginIds)] :
         \A a, b \in PluginIds : Needs(a, b) => rank[b] < rank[a]
  BY DEF Acyclic
<1> DEFINE n == Len(c)
<1>2. /\ n \in Nat /\ n > 1 /\ DOMAIN c = 1..n /\ (\A i \in 1..n : c[i] \in PluginIds) /\ c[1] = c[n]
      /\ \A i \in 1..(n - 1) : Needs(c[i], c[i + 1])
  <2>1. c \in Seq(PluginIds) /\ n \in Nat /\ n > 1
    BY LenProperties DEF Cycle
  <2>2. c # <<>>
    BY <2>1, NonEmpty
  <2>3. Head(c) = c[1] /\ Last(c) = c[n]
    BY <2>1, <2>2, TakenFrom, FrontLast
  <2> QED BY <2>1, <2>3, LenProperties DEF Cycle
<1>3. \A a \in PluginIds : rank[a] \in Nat
  BY <1>1, FS_CardinalityType, DependencyAssumption
<1> DEFINE bad == {i \in 2..n : ~(rank[c[i]] < rank[c[1]])}
<1>4. bad \in SUBSET Nat /\ n \in bad
  BY <1>2, <1>3
<1>5. PICK i \in bad : \A j \in bad : i <= j
  <2> HIDE DEF bad
  <2> QED BY <1>4, LeastNatural
<1>6. i - 1 \in 1..(n - 1) /\ i - 1 + 1 = i /\ i \in 1..n /\ 1 \in 1..n /\ i - 1 \in 1..n
  BY <1>2, <1>5
<1>7. rank[c[i]] < rank[c[i - 1]]
  BY <1>1, <1>2, <1>6
<1>8. /\ rank[c[i]] \in Nat /\ rank[c[i - 1]] \in Nat /\ rank[c[1]] \in Nat
      /\ ~(rank[c[i]] < rank[c[1]])
  BY <1>2, <1>3, <1>5, <1>6
<1>9. CASE i = 2
  BY <1>7, <1>8, <1>9
<1>10. CASE i # 2
  <2>1. i - 1 \in 2..n /\ ~(i <= i - 1)
    BY <1>2, <1>6, <1>10
  <2>2. i - 1 \notin bad
    BY <1>5, <2>1
  <2>3. rank[c[i - 1]] < rank[c[1]]
    BY <2>1, <2>2
  <2> QED BY <1>7, <1>8, <2>3
<1> QED BY <1>9, <1>10

\* What is sorted after what it needs can be ranked by its place, above whatever is not
\* registered.
LEMMA SortedIsRanked ==
    ASSUME PDTypeOK, NEW sorted \in Seq(PluginIds), IsInjective(sorted),
           ToSet(sorted) = Registered, SortedBefore(sorted)
    PROVE  Acyclic
<1> DEFINE n == Len(sorted)
           others == PluginIds \ Registered
           u == Cardinality(others)
           place(a) == CHOOSE j \in 1..n : sorted[j] = a
           rank == [a \in PluginIds |-> IF a \in Registered THEN u + place(a) ELSE 1]
           N == Cardinality(PluginIds)
<1>1. n \in Nat /\ DOMAIN sorted = 1..n
  BY LenProperties
<1>2. Registered \subseteq PluginIds /\ IsFiniteSet(PluginIds) /\ IsFiniteSet(others) /\ IsFiniteSet(Registered)
  BY DependenciesTyped, DependencyAssumption, FS_Subset
<1>3. u \in Nat /\ Cardinality(Registered) = n
  <2> HIDE DEF others
  <2> QED BY <1>2, FS_CardinalityType, DistinctCount
<1>4. N = u + n
  <2>1. PluginIds = others \cup Registered /\ others \cap Registered = {}
    BY <1>2
  <2> HIDE DEF others
  <2>2. Cardinality(others \cup Registered) = Cardinality(others) + Cardinality(Registered) - Cardinality(others \cap Registered)
    BY <1>2, FS_Union
  <2>3. Cardinality({}) = 0
    BY FS_EmptySet
  <2>4. N = Cardinality(others \cup Registered) /\ Cardinality(others \cap Registered) = 0
    BY <2>1, <2>3, Zenon
  <2> HIDE DEF N
  <2> QED BY <1>1, <1>3, <2>2, <2>4
<1>5. ASSUME NEW a \in Registered PROVE place(a) \in 1..n /\ sorted[place(a)] = a
  <2>1. \E j \in 1..n : sorted[j] = a
    BY <1>1 DEF ToSet
  <2> QED BY <2>1
<1>6. ASSUME NEW a \in others PROVE u >= 1
  <2> HIDE DEF others
  <2>1. others # {}
    BY <1>6
  <2>2. u # 0
    BY <1>2, <2>1, FS_EmptySet
  <2> QED BY <1>3, <2>2
<1>7. rank \in [PluginIds -> 1..N]
  <2> SUFFICES ASSUME NEW a \in PluginIds PROVE (IF a \in Registered THEN u + place(a) ELSE 1) \in 1..N
    OBVIOUS
  <2> HIDE DEF place, u, N, n
  <2>1. CASE a \in Registered
    BY <1>1, <1>3, <1>4, <1>5, <2>1
  <2>2. CASE a \notin Registered
    <3>1. u >= 1
      BY <1>6, <2>2
    <3> QED BY <1>1, <1>3, <1>4, <2>2, <3>1
  <2> QED BY <2>1, <2>2
<1>8. ASSUME NEW a \in PluginIds, NEW b \in PluginIds, Needs(a, b) PROVE rank[b] < rank[a]
  <2>1. a \in Registered
    BY <1>8, DependenciesTyped
  <2>2. rank[a] = u + place(a) /\ place(a) \in 1..n /\ sorted[place(a)] = a
    BY <1>5, <2>1
  <2>3. CASE b \notin Registered
    <3>1. rank[b] = 1 /\ u >= 1
      BY <1>6, <2>3
    <3> HIDE DEF rank, place, u, n
    <3> QED BY <1>1, <1>3, <2>2, <3>1
  <2>4. CASE b \in Registered
    <3>1. PICK i \in 1..(place(a) - 1) : sorted[i] = b
      <4> HIDE DEF place
      <4> QED BY <1>1, <1>8, <2>2, <2>4 DEF SortedBefore
    <3>2. rank[b] = u + place(b) /\ place(b) \in 1..n /\ sorted[place(b)] = b
      BY <1>5, <2>4
    <3> HIDE DEF rank, place, u, n
    <3>3. i \in 1..n
      BY <1>1, <2>2, <3>1
    <3>4. place(b) = i
      BY <1>1, <3>1, <3>2, <3>3 DEF IsInjective
    <3> QED BY <1>1, <1>3, <2>2, <3>1, <3>2, <3>4
  <2> QED BY <2>3, <2>4
<1> HIDE DEF rank
<1> QED BY <1>7, <1>8 DEF Acyclic

\* It puts dependencies first.
LEMMA SortedIsOrdered ==
    ASSUME NEW sorted \in Seq(PluginIds), IsInjective(sorted), ToSet(sorted) \subseteq Registered,
           SortedBefore(sorted)
    PROVE  DependenciesFirst(sorted)
<1> SUFFICES ASSUME NEW i \in DOMAIN sorted, NEW j \in DOMAIN sorted, Needs(sorted[i], sorted[j])
             PROVE  j < i
  BY DEF DependenciesFirst
<1>1. Len(sorted) \in Nat /\ DOMAIN sorted = 1..Len(sorted) /\ sorted[j] \in Registered
  BY LenProperties DEF ToSet
<1>2. PICK k \in 1..(i - 1) : sorted[k] = sorted[j]
  BY <1>1 DEF SortedBefore
<1>3. k \in DOMAIN sorted /\ k < i
  BY <1>1
<1>4. k = j
  BY <1>2, <1>3 DEF IsInjective
<1> QED BY <1>3, <1>4

\* What a search has come to at its end.
LEMMA SearchedDeep ==
    ASSUME PDTypeOK, NEW roots \in Seq(PluginIds)
    PROVE  LET s == DepthFirst(roots)
           IN  /\ s.sorted \in Seq(PluginIds) /\ IsInjective(s.sorted)
               /\ ToSet(s.sorted) = s.seen \cap Registered /\ s.seen \in SUBSET PluginIds
               /\ ToSet(roots) \subseteq s.seen /\ DependencyClosed(s.seen)
               /\ \A S \in SUBSET PluginIds : ToSet(roots) \subseteq S /\ DependencyClosed(S) => s.seen \subseteq S
               /\ \A c \in s.cycles : Cycle(c)
               /\ s.cycles = {} => SortedBefore(s.sorted)
               /\ Acyclic => s.cycles = {} /\ DependenciesFirst(s.sorted)
               /\ \A id \in Registered : roots = <<id>> => s.sorted # <<>> /\ Last(s.sorted) = id
<1> DEFINE s == DepthFirst(roots)
<1>1. DepthInv(s, roots) /\ s.path = <<>> /\ ToSet(roots) \subseteq s.seen
  BY DepthFirstEnds
<1> HIDE DEF s
<1>2. ToSet(s.path) = {}
  BY <1>1 DEF ToSet
<1>3. /\ s.sorted \in Seq(PluginIds) /\ IsInjective(s.sorted) /\ s.seen \in SUBSET PluginIds
      /\ ToSet(s.sorted) = s.seen \cap Registered /\ DependencyClosed(s.seen)
      /\ \A c \in s.cycles : Cycle(c)
      /\ s.cycles = {} => SortedBefore(s.sorted)
      /\ \A S \in SUBSET PluginIds : ToSet(roots) \subseteq S /\ DependencyClosed(S) => s.seen \subseteq S
  BY <1>1, <1>2 DEF DepthInv, DepthStates, DependencyClosed
<1>4. Acyclic => s.cycles = {}
  BY <1>3, CycleHasNoRank
<1>5. Acyclic => DependenciesFirst(s.sorted)
  BY <1>3, <1>4, SortedIsOrdered
<1>6. ASSUME NEW id \in Registered, roots = <<id>> PROVE s.sorted # <<>> /\ Last(s.sorted) = id
  <2>1. id \in s.seen
    BY <1>1, <1>6 DEF ToSet
  <2> QED BY <1>1, <1>6, <2>1 DEF DepthInv, FirstEndsLast
<1> QED BY <1>1, <1>3, <1>4, <1>5, <1>6 DEF s

\* A dependency that was there with its dependent still is.
PDInv == PDTypeOK /\ met \subseteq MetNow

\* What the searches find is what they are to find.
LEMMA PDInvResolved == PDInv => DependenciesResolved
<1> SUFFICES ASSUME PDInv PROVE DependenciesResolved
  OBVIOUS
<1>1. PDTypeOK /\ listed \in Seq(PluginIds) /\ IsInjective(listed) /\ Registered \subseteq PluginIds
      /\ ToSet(listed) = Registered
  BY DependenciesTyped DEF PDInv, PDTypeOK, Registered
<1>2. ASSUME NEW id \in Registered
      PROVE  LET found == ResolveDependencies(id)
             IN  /\ IsInjective(found) /\ ToSet(found) = Needed(id) /\ Last(found) = id
                 /\ Acyclic => DependenciesFirst(found)
  <2> DEFINE s == DepthFirst(<<id>>)
             roots == <<id>>
  <2>1. roots \in Seq(PluginIds) /\ ToSet(roots) = {id}
    BY <1>1 DEF ToSet
  <2>2. /\ IsInjective(s.sorted) /\ ToSet(s.sorted) = s.seen \cap Registered /\ s.seen \in SUBSET PluginIds
        /\ ToSet(roots) \subseteq s.seen /\ DependencyClosed(s.seen)
        /\ \A S \in SUBSET PluginIds : ToSet(roots) \subseteq S /\ DependencyClosed(S) => s.seen \subseteq S
        /\ Acyclic => DependenciesFirst(s.sorted)
        /\ Last(s.sorted) = id
    BY <1>1, <2>1, SearchedDeep
  <2> HIDE DEF s
  <2>3. Needed(id) = s.seen \cap Registered
    <3>1. Needed(id) = {b \in Registered : \A S \in SUBSET PluginIds : id \in S /\ DependencyClosed(S) => b \in S}
      BY DEF Needed, DependencyClosed
    <3> QED BY <2>1, <2>2, <3>1
  <2> QED BY <2>2, <2>3 DEF ResolveDependencies, s
<1> DEFINE s == DepthFirst(listed)
<1>3. /\ s.sorted \in Seq(PluginIds) /\ IsInjective(s.sorted) /\ ToSet(s.sorted) = Registered
      /\ \A c \in s.cycles : Cycle(c)
      /\ s.cycles = {} => SortedBefore(s.sorted)
      /\ Acyclic => s.cycles = {} /\ DependenciesFirst(s.sorted)
  BY <1>1, SearchedDeep
<1>4. DetectCircularDependencies = s.cycles /\ TopologicalOrder = s.sorted
  BY DEF DetectCircularDependencies, TopologicalOrder
<1> HIDE DEF s
<1>5. s.cycles = {} <=> Acyclic
  BY <1>1, <1>3, SortedIsRanked
<1>6. DependencySorted = IF s.cycles # {} THEN listed ELSE s.sorted
  BY <1>4 DEF DependencySorted
<1>7. /\ IsInjective(DependencySorted) /\ ToSet(DependencySorted) = Registered
      /\ Acyclic => DependenciesFirst(DependencySorted)
  BY <1>1, <1>3, <1>5, <1>6
<1>8. \A p \in met : p[1] \in Registered => p[2] \in Registered
  BY DEF PDInv, MetNow
<1>9. (DetectCircularDependencies = {}) = Acyclic
  BY <1>4, <1>5, Zenon DEF Acyclic
<1> QED BY <1>2, <1>3, <1>4, <1>7, <1>8, <1>9 DEF DependenciesResolved, Cycle

\* Nothing is listed and nothing met to begin with.
LEMMA PDInitInv == PDInit => PDInv
<1> SUFFICES ASSUME PDInit PROVE PDInv
  OBVIOUS
<1>1. listed = <<>> /\ dependsOn = [id \in {} |-> <<>>] /\ met = {}
  BY DEF PDInit
<1>2. <<>> \in Seq(PluginIds) /\ IsInjective(<<>>)
  BY DEF IsInjective
<1>3. Registered = {}
  BY <1>1 DEF Registered, ToSet
<1> QED BY <1>1, <1>2, <1>3 DEF PDTypeOK, PDInv

\* A manifest is listed once, and its list of dependencies is kept.
LEMMA PDKeepsTypes ==
    ASSUME PDTypeOK, [PDNext]_pdVars
    PROVE  PDTypeOK'
<1>1. listed \in Seq(PluginIds) /\ IsInjective(listed) /\ dependsOn \in [Registered -> DependencyLists]
      /\ met \subseteq PluginIds \X PluginIds
  BY DEF PDTypeOK
<1>2. Registered \subseteq PluginIds
  BY <1>1, LenProperties DEF Registered, ToSet
<1>3. CASE UNCHANGED pdVars
  BY <1>3 DEF pdVars, PDTypeOK, Registered, IsInjective
<1>4. ASSUME NEW id \in PluginIds, UnregisterManifest(id) PROVE PDTypeOK'
  <2> DEFINE left == RemoveFirst(listed, id)
  <2>1. listed' = left /\ dependsOn' = [i \in Registered \ {id} |-> dependsOn[i]] /\ met' \subseteq met
    BY <1>4 DEF UnregisterManifest
  <2>2. left \in Seq(PluginIds) /\ IsInjective(left) /\ ToSet(left) = Registered \ {id}
    BY <1>1, RemoveFirstDistinct DEF Registered
  <2> QED BY <1>1, <2>1, <2>2 DEF PDTypeOK, Registered
<1>5. ASSUME NEW id \in PluginIds, NEW deps \in DependencyLists, RegisterManifest(id, deps) PROVE PDTypeOK'
  <2>1. /\ id \notin Registered /\ listed' = Append(listed, id) /\ met' = met \cup MetNow'
        /\ dependsOn' = [i \in Registered \cup {id} |-> IF i = id THEN deps ELSE dependsOn[i]]
    BY <1>5 DEF RegisterManifest
  <2>2. listed' \in Seq(PluginIds) /\ IsInjective(listed') /\ Registered' = Registered \cup {id}
    BY <1>1, <2>1, AppendDistinct DEF Registered
  <2>3. dependsOn' \in [Registered' -> DependencyLists]
    BY <1>1, <2>1, <2>2
  <2>4. MetNow' \subseteq PluginIds \X PluginIds
    BY <1>2, <2>2 DEF MetNow
  <2> QED BY <1>1, <2>1, <2>2, <2>3, <2>4 DEF PDTypeOK
<1> QED BY <1>3, <1>4, <1>5 DEF PDNext

\* Only what nothing depends on is unregistered, and what is registered anew was there for
\* nobody.
LEMMA PDNextInv == PDInv /\ [PDNext]_pdVars => PDInv'
<1> SUFFICES ASSUME PDInv, [PDNext]_pdVars PROVE PDInv'
  OBVIOUS
<1>1. PDTypeOK' /\ met \subseteq MetNow /\ dependsOn \in [Registered -> DependencyLists]
  BY PDKeepsTypes DEF PDInv, PDTypeOK
<1>2. CASE UNCHANGED pdVars
  BY <1>1, <1>2 DEF PDInv, pdVars, MetNow, Registered, Needs, DependenciesOf
<1>3. ASSUME NEW id \in PluginIds, UnregisterManifest(id) PROVE met' \subseteq MetNow'
  <2> SUFFICES ASSUME NEW p \in met, p[1] # id PROVE p \in MetNow'
    BY <1>3 DEF UnregisterManifest
  <2>1. p \in Registered \X Registered /\ Needs(p[1], p[2])
    BY <1>1 DEF MetNow
  <2>2. p[2] # id
    BY <1>3, <2>1 DEF UnregisterManifest
  <2>3. Registered' = Registered \ {id} /\ dependsOn' = [i \in Registered \ {id} |-> dependsOn[i]]
    BY <1>3, RemoveFirstDistinct DEF UnregisterManifest, Registered, PDInv, PDTypeOK
  <2>4. Needs(p[1], p[2])' /\ p \in (Registered \X Registered)'
    BY <2>1, <2>2, <2>3 DEF Needs, DependenciesOf
  <2> QED BY <2>4 DEF MetNow
<1>4. ASSUME NEW id \in PluginIds, NEW deps \in DependencyLists, RegisterManifest(id, deps) PROVE met' \subseteq MetNow'
  <2> SUFFICES ASSUME NEW p \in met PROVE p \in MetNow'
    BY <1>4 DEF RegisterManifest
  <2>1. p \in Registered \X Registered /\ Needs(p[1], p[2])
    BY <1>1 DEF MetNow
  <2>2. /\ id \notin Registered /\ Registered' = Registered \cup {id}
        /\ dependsOn' = [i \in Registered \cup {id} |-> IF i = id THEN deps ELSE dependsOn[i]]
    BY <1>4, AppendDistinct DEF RegisterManifest, Registered, PDInv, PDTypeOK
  <2>3. Needs(p[1], p[2])' /\ p \in (Registered \X Registered)'
    BY <2>1, <2>2 DEF Needs, DependenciesOf
  <2> QED BY <2>3 DEF MetNow
<1> QED BY <1>1, <1>2, <1>3, <1>4 DEF PDNext, PDInv
===============================================================================
