------------------------- MODULE WorkflowOutcomesProofs -------------------------
(***************************************************************************)
(* Proofs that the workflows of many steps report what happened, part by   *)
(* part; ClientWorkflowsProofs puts them together.  All for every size,    *)
(* limit and number of steps.                                              *)
(*                                                                         *)
(* A batch knows of each transaction what those before it came to.  Ranges *)
(* yet to read follow one another, and everything before where reading     *)
(* goes on has been read or was lost; answers come in order, so an output  *)
(* rises.  A loop of retries has counted its attempts and the waits after  *)
(* them, and each repetition was of a failure it is made for.  Reads of a  *)
(* wallet began before now, which tells those a change has made old.  A    *)
(* replay's results are those of the first of its interactions, one by     *)
(* one, which is what makes a comparison by id one of equals.  What is     *)
(* cached for a key was made for a descriptor of that key, and what a      *)
(* search has passed was not what is looked for.                           *)
(***************************************************************************)
EXTENDS BatchExecutor, EventRanges, Retries, WalletProvider, VaultHook, CallErrors,
        TestDoubles, Observability, Registries, CommonLemmas

-----------------------------------------------------------------------------
(* Batches.                                                                 *)

Results == {"success", "failed", "unmet", "skipped"}

\* A transaction that succeeded has what it depends on; one that is unmet stands on
\* a failure; and of those skipped and built, in a batch that is to stop.
ResultsSound ==
    \A i \in DOMAIN results :
        /\ results[i] = "success" => batch.deps[i] \subseteq Completed
        /\ results[i] = "unmet" => \E j \in Ancestors(i) : j \in DOMAIN results /\ results[j] = "failed"
        /\ results[i] = "skipped" => batch.stopOnFailure
        /\ sequences[i] # 0 /\ batch.stopOnFailure => \A j \in 1..(i - 1) : results[j] = "success"

BTInv ==
    /\ BTTypeOK
    /\ Size <= BatchSize
    /\ batchPhase \in {"none", "rejected"} => results = <<>>
    /\ batchPhase \in {"running", "simulating", "finished"} => Valid(batch.deps)
    /\ batchPhase \in {"running", "simulating"} => Len(results) < Size
    /\ sequence <= IF batchPhase = "simulating" THEN Len(results) + 1 ELSE Len(results)
    /\ batchPhase = "simulating" => ~StopNow /\ batch.deps[Index] \subseteq Completed
    /\ ResultsSound

LEMMA BTTyped ==
    ASSUME BTTypeOK
    PROVE  /\ Len(results) \in Nat /\ DOMAIN results = 1..Len(results) /\ Index \in Nat \ {0}
           /\ \A i \in DOMAIN results : results[i] \in Results
           /\ Len(sequences) = Len(results) /\ DOMAIN sequences = 1..Len(results)
           /\ Size \in Nat /\ DOMAIN batch.deps = 1..Size /\ batch.stopOnFailure \in BOOLEAN
           /\ sequence \in Nat /\ BatchSize \in Nat
<1>1. results \in Seq(Results) /\ sequences \in Seq(Nat) /\ batch.deps \in Seq(SUBSET (1..BatchSize))
      /\ batch.stopOnFailure \in BOOLEAN /\ BatchSize \in Nat
  BY BatchAssumption DEF BTTypeOK, Results
<1> QED BY <1>1, LenProperties, BatchAssumption DEF BTTypeOK, Index, Size

\* What a transaction depends on it stands on, and on what that stands on.
LEMMA AncestorsOf ==
    ASSUME NEW i, NEW j \in 1..Size, j \in batch.deps[i]
    PROVE  j \in Ancestors(i) /\ Ancestors(j) \subseteq Ancestors(i)
BY DEF Ancestors

LEMMA BTInvTruthful == BTInv => BatchTruthful
<1> SUFFICES ASSUME BTInv, NEW i \in DOMAIN results
             PROVE  /\ results[i] = "success" => Ancestors(i) \subseteq Completed
                    /\ results[i] = "unmet" => \E j \in Ancestors(i) : results[j] = "failed"
                    /\ sequences[i] # 0 /\ batch.stopOnFailure => \A j \in 1..(i - 1) : results[j] = "success"
  BY DEF BatchTruthful
<1>1. ASSUME results[i] = "success" PROVE Ancestors(i) \subseteq Completed
  <2>1. Completed \subseteq 1..Size
    BY BTTyped DEF BTInv, BTTypeOK, Completed
  <2>2. \A k \in Completed : batch.deps[k] \subseteq Completed
    BY DEF BTInv, ResultsSound, Completed
  <2>3. batch.deps[i] \subseteq Completed
    BY <1>1 DEF BTInv, ResultsSound
  <2> QED BY <2>1, <2>2, <2>3 DEF Ancestors
<1> QED BY <1>1 DEF BTInv, ResultsSound

LEMMA BTInitInv == BTInit => BTInv
<1> SUFFICES ASSUME BTInit PROVE BTInv
  OBVIOUS
<1>1. batch.deps = <<>> /\ results = <<>> /\ sequences = <<>> /\ batchPhase = "none" /\ sequence = 0
      /\ batch \in [deps : Seq(SUBSET (1..BatchSize)), stopOnFailure : BOOLEAN]
  BY DEF BTInit
<1>2. Len(results) = 0 /\ Len(sequences) = 0 /\ Size = 0 /\ DOMAIN results = {}
  BY <1>1 DEF Size
<1>3. BTTypeOK
  BY <1>1, <1>2, BatchAssumption DEF BTTypeOK
<1> QED BY <1>1, <1>2, <1>3, BatchAssumption DEF BTInv, ResultsSound

LEMMA SubmitKeeps == ASSUME BTInv, NEW b \in Batches, Submit(b) PROVE BTInv'
<1>1. batchPhase = "none" /\ batch' = b /\ UNCHANGED <<results, sequences, sequence>>
      /\ batchPhase' = IF Valid(b.deps) THEN "running" ELSE "rejected"
  BY DEF Submit
<1>2. PICK n \in 0..BatchSize : b \in [deps : [1..n -> SUBSET (1..n)], stopOnFailure : BOOLEAN]
  BY DEF Batches
<1>3. n \in Nat /\ n <= BatchSize /\ b.deps \in [1..n -> SUBSET (1..BatchSize)]
  BY <1>2, BatchAssumption
<1>4. b.deps \in Seq(SUBSET (1..BatchSize)) /\ Len(b.deps) = n
  BY <1>3, FunctionIsSeq
<1>5. results = <<>> /\ Len(results) = 0 /\ DOMAIN results = {}
  BY <1>1 DEF BTInv
<1>6. Size' = n
  BY <1>1, <1>4 DEF Size
<1>7. batch' \in [deps : Seq(SUBSET (1..BatchSize)), stopOnFailure : BOOLEAN]
  BY <1>1, <1>2, <1>4
<1>8. BTTypeOK'
  BY <1>1, <1>3, <1>5, <1>6, <1>7 DEF BTInv, BTTypeOK
<1>9. Valid(b.deps) => 0 < n
  <2>1. n = 0 => b.deps = <<>>
    BY <1>4, EmptySeq
  <2> QED BY <1>3, <2>1 DEF Valid
<1>10. ResultsSound'
  BY <1>1, <1>5 DEF ResultsSound
<1>11. sequence = 0
  BY <1>1, <1>5, BTTyped DEF BTInv
<1> QED BY <1>1, <1>3, <1>5, <1>6, <1>8, <1>9, <1>10, <1>11 DEF BTInv

\* A result is recorded, of which the invariant asks this much.
LEMMA RecordKeeps ==
    ASSUME BTInv, NEW result \in Results, NEW taken \in Nat, Record(result, taken), UNCHANGED sequence,
           batchPhase \in {"running", "simulating"},
           result = "success" => batch.deps[Index] \subseteq Completed,
           result = "unmet" => \E j \in Ancestors(Index) : j \in DOMAIN results /\ results[j] = "failed",
           result = "skipped" => batch.stopOnFailure,
           taken # 0 => ~StopNow
    PROVE  BTInv'
<1> DEFINE n == Len(results)
<1>1. /\ results' = Append(results, result) /\ sequences' = Append(sequences, taken)
      /\ batch' = batch /\ sequence' = sequence
      /\ batchPhase' = IF Index = Size THEN "finished" ELSE "running"
  BY DEF Record
<1>2. /\ BTTypeOK /\ n \in Nat /\ DOMAIN results = 1..n /\ Len(sequences) = n /\ Index = n + 1
      /\ Size \in Nat /\ n < Size /\ BatchSize \in Nat /\ Size <= BatchSize
  BY BTTyped DEF BTInv, Index
<1>3. /\ results' \in Seq(Results) /\ Len(results') = n + 1 /\ DOMAIN results' = 1..(n + 1)
      /\ results'[n + 1] = result /\ \A i \in 1..n : results'[i] = results[i]
  BY <1>1, <1>2, AppendProperties, LenProperties DEF BTTypeOK, Results
<1>4. /\ sequences' \in Seq(Nat) /\ Len(sequences') = n + 1
      /\ sequences'[n + 1] = taken /\ \A i \in 1..n : sequences'[i] = sequences[i]
  BY <1>1, <1>2, AppendProperties, LenProperties DEF BTTypeOK
<1> HIDE DEF n
<1>5. Size' = Size
  BY <1>1 DEF Size
<1>6. BTTypeOK'
  BY <1>1, <1>2, <1>3, <1>4, <1>5 DEF BTTypeOK, Results
<1>7. Completed \subseteq Completed'
  BY <1>2, <1>3 DEF Completed
<1>8. \A i : Ancestors(i)' = Ancestors(i)
  BY <1>1, <1>5 DEF Ancestors
<1>9. ASSUME NEW i \in DOMAIN results'
      PROVE  /\ results'[i] = "success" => batch'.deps[i] \subseteq Completed'
             /\ results'[i] = "unmet" => \E j \in Ancestors(i)' : j \in DOMAIN results' /\ results'[j] = "failed"
             /\ results'[i] = "skipped" => batch'.stopOnFailure
             /\ sequences'[i] # 0 /\ batch'.stopOnFailure => \A j \in 1..(i - 1) : results'[j] = "success"
  <2>1. CASE i \in 1..n
    <3>1. results'[i] = results[i] /\ sequences'[i] = sequences[i] /\ i \in DOMAIN results
      BY <1>2, <1>3, <1>4, <2>1
    <3>2. \A j \in 1..(i - 1) : j \in 1..n
      BY <1>2, <2>1
    <3> QED BY <1>1, <1>2, <1>3, <1>7, <1>8, <3>1, <3>2 DEF BTInv, ResultsSound
  <2>2. CASE i = n + 1
    <3>1. results'[i] = result /\ sequences'[i] = taken /\ i = Index
      BY <1>2, <1>3, <1>4, <2>2
    <3>2. ASSUME taken # 0, batch.stopOnFailure PROVE \A j \in 1..n : results'[j] = "success"
      <4>1. Completed = DOMAIN results
        BY <3>2 DEF StopNow
      <4> QED BY <1>2, <1>3, <4>1 DEF Completed
    <3>3. i - 1 = n
      BY <1>2, <2>2
    <3> QED BY <1>1, <1>2, <1>3, <1>7, <1>8, <3>1, <3>2, <3>3
  <2> QED BY <1>2, <1>3, <2>1, <2>2
<1>10. ResultsSound'
  BY <1>9 DEF ResultsSound
<1>11. sequence <= n + 1
  BY <1>2, BTTyped DEF BTInv, n
<1>12. batchPhase' \in {"running", "finished"} /\ (batchPhase' = "running" => n + 1 < Size)
  BY <1>1, <1>2
<1>13. Valid(batch.deps)'
  BY <1>1 DEF BTInv, Valid
<1> QED BY <1>1, <1>2, <1>3, <1>5, <1>6, <1>10, <1>11, <1>12, <1>13 DEF BTInv

LEMMA BTNextInv == BTInv /\ [BTNext]_btVars => BTInv'
<1> SUFFICES ASSUME BTInv, [BTNext]_btVars PROVE BTInv'
  OBVIOUS
<1>1. BTTypeOK
  BY DEF BTInv
<1>2. CASE UNCHANGED btVars
  <2>1. BTTypeOK' /\ Size' = Size
    BY <1>1, <1>2 DEF btVars, BTTypeOK, Size, Index
  <2>2. Completed' = Completed /\ (\A i : Ancestors(i)' = Ancestors(i))
    BY <1>2, <2>1 DEF btVars, Completed, Ancestors
  <2>3. ResultsSound'
    BY <1>2, <2>2 DEF btVars, BTInv, ResultsSound
  <2>4. /\ UNCHANGED <<batch, batchPhase, results, sequence>>
        /\ Valid(batch.deps)' <=> Valid(batch.deps)
    BY <1>2 DEF btVars, Valid
  <2>5. StopNow' <=> StopNow
    BY <2>2, <2>4 DEF StopNow
  <2>6. Index' = Index
    BY <2>4 DEF Index
  <2> QED BY <2>1, <2>2, <2>3, <2>4, <2>5, <2>6, Zenon DEF BTInv
<1>3. CASE Skip
  BY <1>3, RecordKeeps DEF Skip, StopNow, Results
<1>4. CASE Unmet
  <2>1. PICK j \in batch.deps[Index] : j \notin Completed
    BY <1>4 DEF Unmet
  <2>2. Index \in 1..Size /\ Index - 1 = Len(results)
    BY <1>1, <1>4, BTTyped DEF BTInv, Unmet, Index
  <2>3. j \in 1..Len(results) /\ j \in DOMAIN results /\ j \in 1..Size
    <3>1. batch.deps[Index] \subseteq 1..(Index - 1)
      BY <1>1, <1>4, <2>2, BTTyped DEF BTInv, Unmet, Valid
    <3> QED BY <1>1, <2>1, <2>2, <3>1, BTTyped DEF BTInv
  <2>4. results[j] # "skipped"
    BY <1>1, <1>4, <2>1, <2>3, BTTyped DEF BTInv, ResultsSound, Unmet, StopNow
  <2>5. \E k \in Ancestors(Index) : k \in DOMAIN results /\ results[k] = "failed"
    <3>1. CASE results[j] = "failed"
      BY <2>1, <2>3, <3>1, AncestorsOf
    <3>2. CASE results[j] = "unmet"
      BY <2>1, <2>3, <3>2, AncestorsOf DEF BTInv, ResultsSound
    <3> QED BY <1>1, <2>1, <2>3, <2>4, <3>1, <3>2, BTTyped DEF Results, Completed
  <2> QED BY <1>4, <2>5, RecordKeeps DEF Unmet, Results
<1>5. CASE Build
  <2>1. /\ sequence' = sequence + 1 /\ batchPhase' = "simulating" /\ batchPhase = "running" /\ ~StopNow
        /\ batch.deps[Index] \subseteq Completed /\ UNCHANGED <<batch, results, sequences>>
    BY <1>5 DEF Build
  <2>2. sequence + 1 <= Len(results) + 1 /\ Len(results) + 1 <= Size /\ Size <= BatchSize /\ sequence + 1 \in 0..BatchSize
    BY <1>1, <2>1, BTTyped DEF BTInv
  <2>3. BTTypeOK'
    BY <1>1, <2>1, <2>2 DEF BTTypeOK, Size
  <2> QED BY <2>1, <2>2, <2>3 DEF BTInv, ResultsSound, Size, Index, Completed, StopNow, Valid, Ancestors
<1>6. CASE Simulated
  <2>1. PICK result \in {"success", "failed"} : Record(result, sequence)
    BY <1>6 DEF Simulated
  <2> QED BY <1>1, <1>6, <2>1, BTTyped, RecordKeeps DEF Simulated, BTInv, Results
<1> QED BY <1>2, <1>3, <1>4, <1>5, <1>6, SubmitKeeps DEF BTNext, BTSystem

-----------------------------------------------------------------------------
(* Ranges of events.                                                        *)

Rising(q) == \A k, l \in DOMAIN q : k < l => q[k] < q[l]

\* The ranges to read follow one another, to the end of what was asked for.
RangesFollow(rs) ==
    /\ rs \in Seq(LedgerRange) /\ rs # <<>>
    /\ \A k \in DOMAIN rs : rs[k].start <= rs[k].end
    /\ rs[1].start >= request.start /\ rs[Len(rs)].end = request.end
    /\ \A k \in 1..(Len(rs) - 1) : rs[k].end + 1 = rs[k + 1].start

\* What has been read lies before where reading goes on, and all that lies before
\* has been read, or was lost.
ReadSoFar(rs) ==
    /\ cursor \in Nat /\ seenTokens \subseteq 0..cursor
    /\ output \in Seq(Events) /\ page \in Seq(Events) /\ Rising(output) /\ Rising(page)
    /\ \A i \in ToSet(output) : request.start <= Ledger[i] /\ Ledger[i] < rs[1].start
    /\ \A i \in ToSet(page) : rs[1].start <= Ledger[i] /\ Ledger[i] <= rs[1].end /\ i <= cursor
    /\ \A i \in InRange(request, request.cursor) :
          \/ i \in ToSet(output) \cup ToSet(page) \cup dropped
          \/ i > cursor /\ Ledger[i] >= rs[1].start

ERInv ==
    /\ erPhase # "none" => request \in Requests
    /\ erPhase = "none" => page = <<>> /\ output = <<>> /\ seenTokens = {}
    /\ erPhase = "reading" /\ request.fetchAll => RangesFollow(ranges) /\ ReadSoFar(ranges)
    /\ RangeTruthful

LEMMA LedgerFacts ==
    /\ Len(Ledger) \in Nat /\ Events = 1..Len(Ledger) /\ Events \subseteq Nat
    /\ \A i \in Events : Ledger[i] \in Nat
    /\ \A i, j \in Events : i <= j => Ledger[i] <= Ledger[j]
    /\ PageSize \in Nat \ {0} /\ MaxLedger \in Nat
<1>1. Ledger \in Seq(1..MaxLedger) /\ PageSize \in Nat \ {0} /\ MaxLedger \in Nat
  BY EventRangesAssumption
<1>2. Len(Ledger) \in Nat /\ Events = 1..Len(Ledger) /\ \A i \in Events : Ledger[i] \in 1..MaxLedger
  BY <1>1, LenProperties DEF Events
<1>3. \A i, j \in Events : i < j => Ledger[i] <= Ledger[j]
  BY EventRangesAssumption DEF Events
<1>4. \A i \in Events : Ledger[i] \in Nat
  BY <1>1, <1>2
<1>5. \A i, j \in Events : i <= j => Ledger[i] <= Ledger[j]
  BY <1>2, <1>3, <1>4
<1> QED BY <1>1, <1>2, <1>4, <1>5

LEMMA RisingConcat ==
    ASSUME NEW a \in Seq(Nat), NEW b \in Seq(Nat), Rising(a), Rising(b),
           \A x \in ToSet(a), y \in ToSet(b) : x < y
    PROVE  Rising(a \o b)
<1> DEFINE c == a \o b
           m == Len(a)
           n == Len(b)
<1>1. /\ m \in Nat /\ n \in Nat /\ DOMAIN a = 1..m /\ DOMAIN b = 1..n /\ DOMAIN c = 1..(m + n)
      /\ \A k \in 1..(m + n) : c[k] = IF k <= m THEN a[k] ELSE b[k - m]
  BY ConcatProperties, LenProperties
<1> HIDE DEF c, m, n
<1>2. ASSUME NEW k \in 1..(m + n), NEW l \in 1..(m + n), k < l PROVE c[k] < c[l]
  <2>1. CASE l <= m
    <3>1. k \in 1..m /\ l \in 1..m /\ k <= m
      BY <1>1, <1>2, <2>1
    <3> QED BY <1>1, <1>2, <2>1, <3>1 DEF Rising
  <2>2. CASE k > m
    <3>1. k - m \in 1..n /\ l - m \in 1..n /\ k - m < l - m /\ ~(k <= m) /\ ~(l <= m)
      BY <1>1, <1>2, <2>2
    <3> QED BY <1>1, <3>1 DEF Rising
  <2>3. CASE k <= m /\ l > m
    <3>1. k \in 1..m /\ l - m \in 1..n /\ ~(l <= m)
      BY <1>1, <1>2, <2>3
    <3>2. c[k] = a[k] /\ c[l] = b[l - m] /\ a[k] \in ToSet(a) /\ b[l - m] \in ToSet(b)
      BY <1>1, <2>3, <3>1 DEF ToSet
    <3> QED BY <3>2
  <2> QED BY <1>1, <2>1, <2>2, <2>3
<1> QED BY <1>1, <1>2 DEF Rising, c

\* The answer has the first of what is left.
LEMMA AnswerSound ==
    ASSUME NEW r \in LedgerRange, Head(ranges) = r, cursor \in Nat
    PROVE  /\ Answer \in Seq(Events) /\ Rising(Answer)
           /\ ToSet(Answer) \subseteq InRange(r, cursor)
           /\ Answer = <<>> <=> InRange(r, cursor) = {}
           /\ Answer # <<>> =>
                /\ Last(Answer) \in ToSet(Answer) /\ \A i \in ToSet(Answer) : i <= Last(Answer)
                /\ \A i \in InRange(r, cursor) : i \in ToSet(Answer) \/ i > Last(Answer)
<1> DEFINE left == InRange(r, cursor)
           lo == Min(left)
           hi == Max(left)
           size == Min({PageSize, hi - lo + 1})
           a == [k \in 1..size |-> lo + k - 1]
<1>1. left \in SUBSET Events /\ left \in SUBSET Nat /\ left \in SUBSET (0..Len(Ledger))
  <2>1. left \in SUBSET Events
    BY DEF InRange
  <2> QED BY <2>1, LedgerFacts
<1>2. CASE left = {}
  <2>1. Answer = <<>>
    BY <1>2 DEF Answer
  <2> QED BY <1>2, <2>1 DEF Rising, ToSet
<1>3. CASE left # {}
  <2>1. Answer = a
    BY <1>3 DEF Answer
  <2>2. lo \in left /\ \A i \in left : lo <= i
    BY <1>1, <1>3, MinIsLeast
  <2>3. hi \in left /\ \A i \in left : i <= hi
    <3>1. hi \in left /\ \A i \in left : hi >= i
      BY <1>1, <1>3, LedgerFacts, MaxIsGreatest
    <3> QED BY <1>1, <3>1
  <2> HIDE DEF lo, hi
  <2>4. ASSUME NEW i \in lo..hi PROVE i \in left
    <3>1. i \in Events /\ lo \in Events /\ hi \in Events /\ lo <= i /\ i <= hi /\ lo > cursor
      BY <1>1, <2>2, <2>3, LedgerFacts DEF InRange
    <3>2. Ledger[lo] <= Ledger[i] /\ Ledger[i] <= Ledger[hi] /\ Ledger[lo] \in Nat /\ Ledger[i] \in Nat /\ Ledger[hi] \in Nat
      BY <3>1, LedgerFacts
    <3>3. r.start <= Ledger[lo] /\ Ledger[hi] <= r.end
      BY <2>2, <2>3 DEF InRange
    <3>4. r.start \in Int /\ r.end \in Int
      BY DEF LedgerRange
    <3>5. r.start <= Ledger[i] /\ Ledger[i] <= r.end /\ i > cursor
      <4>1. i \in Nat /\ lo \in Nat
        BY <1>1, <2>2, <3>1, LedgerFacts
      <4> QED BY <3>1, <3>2, <3>3, <3>4, <4>1
    <3> QED BY <3>1, <3>5 DEF InRange
  <2>5. lo \in Nat /\ hi \in Nat /\ lo <= hi /\ PageSize \in Nat \ {0}
    BY <1>1, <2>2, <2>3, LedgerFacts
  <2>6. size \in Nat \ {0} /\ size <= hi - lo + 1
    <3>1. size = IF PageSize <= hi - lo + 1 THEN PageSize ELSE hi - lo + 1
      BY <2>5, MinOfTwo
    <3> HIDE DEF size
    <3> QED BY <2>5, <3>1
  <2> HIDE DEF size
  <2>7. \A k \in 1..size : a[k] = lo + k - 1 /\ a[k] \in lo..hi
    BY <2>5, <2>6
  <2>8. a \in [1..size -> Events]
    BY <1>1, <2>4, <2>7
  <2>9. a \in Seq(Events) /\ Len(a) = size /\ DOMAIN a = 1..size
    BY <2>6, <2>8, FunctionIsSeq
  <2>10. Rising(a)
    <3>1. \A k, l \in 1..size : k < l => lo + k - 1 < lo + l - 1
      BY <2>5, <2>6
    <3> QED BY <2>7, <2>9, <3>1 DEF Rising
  <2>11. ToSet(a) \subseteq left
    BY <2>4, <2>7, <2>9 DEF ToSet
  <2>12. a # <<>> /\ Last(a) = a[size]
    <3> HIDE DEF a
    <3>1. a # <<>>
      BY <2>6, <2>9, NonEmpty
    <3> QED BY <2>9, <3>1, FrontLast
  <2> HIDE DEF a, left
  <2>13. Last(a) = lo + size - 1 /\ Last(a) \in ToSet(a)
    BY <2>6, <2>7, <2>9, <2>12 DEF ToSet
  <2>14. \A i \in ToSet(a) : i <= Last(a)
    BY <2>5, <2>6, <2>7, <2>9, <2>13 DEF ToSet
  <2>15. ASSUME NEW i \in left PROVE i \in ToSet(a) \/ i > Last(a)
    <3> SUFFICES ASSUME ~(i > Last(a)) PROVE i \in ToSet(a)
      OBVIOUS
    <3>1. i \in Nat /\ lo <= i
      BY <1>1, <2>2
    <3>2. i - lo + 1 \in 1..size /\ lo + (i - lo + 1) - 1 = i
      BY <2>5, <2>6, <2>13, <3>1
    <3>3. a[i - lo + 1] = i
      BY <2>7, <3>2
    <3> QED BY <2>9, <3>2, <3>3 DEF ToSet
  <2> QED BY <1>3, <2>1, <2>9, <2>10, <2>11, <2>12, <2>13, <2>14, <2>15 DEF left
<1> QED BY <1>2, <1>3

LEMMA ERInitInv == ERInit => ERInv
BY DEF ERInit, ERInv, RangeTruthful

LEMMA RangeEnds ==
    ASSUME NEW rs, RangesFollow(rs)
    PROVE  /\ Len(rs) \in Nat \ {0} /\ DOMAIN rs = 1..Len(rs) /\ Head(rs) = rs[1] /\ rs[1] \in LedgerRange
           /\ rs[1].start \in Nat /\ rs[1].end \in Nat
<1>1. rs \in Seq(LedgerRange) /\ rs # <<>>
  BY DEF RangesFollow
<1>2. Len(rs) \in Nat /\ DOMAIN rs = 1..Len(rs) /\ Len(rs) # 0
  BY <1>1, LenProperties, NonEmpty
<1>3. Head(rs) = rs[1] /\ Head(rs) \in LedgerRange
  BY <1>1, TailDistinct
<1>4. rs[1].start \in Nat /\ rs[1].end \in Nat
  BY <1>3 DEF LedgerRange
<1> QED BY <1>2, <1>3, <1>4

LEMMA TailFollows ==
    ASSUME NEW rs, RangesFollow(rs), Tail(rs) # <<>>, request.start \in Nat
    PROVE  RangesFollow(Tail(rs)) /\ Tail(rs)[1].start = rs[1].end + 1
<1> DEFINE n == Len(rs)
           t == Tail(rs)
<1>1. rs \in Seq(LedgerRange) /\ rs # <<>>
  BY DEF RangesFollow
<1>2. t \in Seq(LedgerRange) /\ Len(t) = n - 1 /\ (\A k \in 1..(n - 1) : t[k] = rs[k + 1])
  BY <1>1, HeadTailProperties
<1>3. n \in Nat \ {0} /\ DOMAIN rs = 1..n /\ DOMAIN t = 1..(n - 1) /\ n - 1 # 0
  BY <1>2, RangeEnds, LenProperties, NonEmpty
<1> HIDE DEF n, t
<1>4. /\ \A k \in 1..n : rs[k].start <= rs[k].end
      /\ rs[1].start >= request.start /\ rs[n].end = request.end
      /\ \A k \in 1..(n - 1) : rs[k].end + 1 = rs[k + 1].start
  BY <1>3 DEF RangesFollow, n
<1>5. \A k \in 1..(n - 1) : k + 1 \in 1..n
  BY <1>3
<1>6. 1 \in 1..(n - 1) /\ n - 1 \in 1..(n - 1) /\ 1 \in 1..n /\ (n - 1) + 1 = n
  BY <1>3
<1>7. \A k \in 1..(n - 1) : t[k].start <= t[k].end
  BY <1>2, <1>4, <1>5
<1>8. t[n - 1].end = request.end
  BY <1>2, <1>4, <1>6
<1>9. t[1].start = rs[1].end + 1
  BY <1>2, <1>4, <1>6
<1>10. t[1].start >= request.start
  <2>1. rs[1].start \in Nat /\ rs[1].end \in Nat
    BY RangeEnds
  <2>2. rs[1].start <= rs[1].end
    BY <1>4, <1>6
  <2> HIDE DEF RangesFollow
  <2> QED BY <1>4, <1>9, <2>1, <2>2
<1>11. ASSUME NEW k \in 1..((n - 1) - 1) PROVE t[k].end + 1 = t[k + 1].start
  <2>1. k \in 1..(n - 1) /\ k + 1 \in 1..(n - 1)
    BY <1>3
  <2> QED BY <1>2, <1>4, <2>1
<1> QED BY <1>2, <1>3, <1>7, <1>8, <1>9, <1>10, <1>11 DEF RangesFollow, n, t

LEMMA HalvesFollow ==
    ASSUME NEW rs, RangesFollow(rs), rs[1].start < rs[1].end
    PROVE  /\ RangesFollow(Halves(rs[1]) \o Tail(rs))
           /\ (Halves(rs[1]) \o Tail(rs))[1].start = rs[1].start
<1> DEFINE n == Len(rs)
           t == Tail(rs)
           m == Midpoint(rs[1])
           lower == [rs[1] EXCEPT !.end = m]
           upper == [rs[1] EXCEPT !.start = m + 1]
           h == <<lower, upper>>
           c == h \o t
<1>1. rs \in Seq(LedgerRange) /\ rs # <<>>
  BY DEF RangesFollow
<1>2. n \in Nat \ {0} /\ DOMAIN rs = 1..n /\ rs[1] \in LedgerRange
  BY RangeEnds
<1>3. t \in Seq(LedgerRange) /\ Len(t) = n - 1 /\ (\A k \in 1..(n - 1) : t[k] = rs[k + 1])
  BY <1>1, HeadTailProperties
<1>4. m \in Nat /\ rs[1].start <= m /\ m < rs[1].end /\ m + 1 <= rs[1].end
  <2>1. rs[1].start \in Nat /\ rs[1].end \in Nat
    BY RangeEnds
  <2> QED BY <2>1 DEF Midpoint
<1> HIDE DEF m
<1>5. /\ lower \in LedgerRange /\ lower.start = rs[1].start /\ lower.end = m
      /\ upper \in LedgerRange /\ upper.start = m + 1 /\ upper.end = rs[1].end
  <2>1. rs[1].start \in 1..MaxLedger /\ rs[1].end \in 1..MaxLedger
    BY <1>2 DEF LedgerRange
  <2>2. m \in 1..MaxLedger /\ m + 1 \in 1..MaxLedger
    BY <1>4, <2>1, EventRangesAssumption
  <2> DEFINE p == m + 1
  <2>3. p \in 1..MaxLedger
    BY <2>2
  <2> HIDE DEF p
  <2>4. /\ lower \in LedgerRange /\ lower.start = rs[1].start /\ lower.end = m
        /\ [rs[1] EXCEPT !.start = p] \in LedgerRange
        /\ [rs[1] EXCEPT !.start = p].start = p /\ [rs[1] EXCEPT !.start = p].end = rs[1].end
    BY <1>2, <2>2, <2>3 DEF LedgerRange
  <2> QED BY <2>4 DEF p
<1> HIDE DEF lower, upper
<1>6. h \in Seq(LedgerRange) /\ Len(h) = 2 /\ h[1] = lower /\ h[2] = upper
  BY <1>5
<1> HIDE DEF h
<1>7. /\ c \in Seq(LedgerRange) /\ Len(c) = n + 1
      /\ \A k \in 1..(n + 1) : c[k] = IF k <= 2 THEN h[k] ELSE t[k - 2]
  <2>1. /\ c \in Seq(LedgerRange) /\ Len(c) = Len(h) + Len(t)
        /\ \A k \in 1..(Len(h) + Len(t)) : c[k] = IF k <= Len(h) THEN h[k] ELSE t[k - Len(h)]
    <3>1. h \in Seq(LedgerRange) /\ t \in Seq(LedgerRange)
      BY <1>3, <1>6
    <3> HIDE DEF t
    <3> QED BY <3>1, ConcatProperties
  <2>2. Len(h) = 2 /\ Len(h) + Len(t) = n + 1
    BY <1>2, <1>3, <1>6
  <2> QED BY <2>1, <2>2
<1>8. DOMAIN c = 1..(n + 1) /\ c # <<>>
  BY <1>2, <1>7, LenProperties, NonEmpty
<1> HIDE DEF c, t, n
<1>9. c[1] = lower /\ c[2] = upper /\ 1 \in 1..(n + 1) /\ 2 \in 1..(n + 1)
  BY <1>2, <1>6, <1>7
<1>10. ASSUME NEW k \in 3..(n + 1) PROVE c[k] = rs[k - 1]
  <2>1. ~(k <= 2) /\ k \in 1..(n + 1) /\ k - 2 \in 1..(n - 1) /\ (k - 2) + 1 = k - 1
    BY <1>2
  <2> QED BY <1>3, <1>7, <2>1
<1>11. /\ \A k \in 1..n : rs[k].start <= rs[k].end
       /\ rs[1].start >= request.start /\ rs[n].end = request.end
       /\ \A k \in 1..(n - 1) : rs[k].end + 1 = rs[k + 1].start
  BY <1>2 DEF RangesFollow, n
<1>12. ASSUME NEW k \in 1..(n + 1) PROVE c[k].start <= c[k].end
  <2>1. CASE k = 1
    BY <1>4, <1>5, <1>9, <2>1
  <2>2. CASE k = 2
    BY <1>4, <1>5, <1>9, <2>2
  <2>3. CASE k \in 3..(n + 1)
    <3>1. k - 1 \in 1..n
      BY <1>2, <2>3
    <3> QED BY <1>10, <1>11, <2>3, <3>1
  <2>4. k = 1 \/ k = 2 \/ k \in 3..(n + 1)
    BY <1>2
  <2> QED BY <2>1, <2>2, <2>3, <2>4
<1>13. c[n + 1].end = request.end
  <2>1. CASE n = 1
    BY <1>5, <1>9, <1>11, <2>1
  <2>2. CASE n # 1
    <3>1. n + 1 \in 3..(n + 1) /\ (n + 1) - 1 = n
      BY <1>2, <2>2
    <3> QED BY <1>10, <1>11, <3>1
  <2> QED BY <2>1, <2>2
<1>14. ASSUME NEW k \in 1..n PROVE c[k].end + 1 = c[k + 1].start
  <2>1. CASE k = 1
    BY <1>5, <1>9, <2>1
  <2>2. CASE k = 2
    <3>1. 3 \in 3..(n + 1) /\ 1 \in 1..(n - 1)
      BY <1>2, <2>2
    <3>2. c[3] = rs[2] /\ rs[1].end + 1 = rs[2].start
      BY <1>10, <1>11, <3>1
    <3> QED BY <1>5, <1>9, <2>2, <3>2
  <2>3. CASE k \in 3..n
    <3>1. k \in 3..(n + 1) /\ k + 1 \in 3..(n + 1) /\ k - 1 \in 1..(n - 1) /\ (k - 1) + 1 = (k + 1) - 1
      BY <1>2, <2>3
    <3>2. c[k] = rs[k - 1] /\ c[k + 1] = rs[(k - 1) + 1]
      BY <1>10, <3>1
    <3> QED BY <1>11, <3>1, <3>2
  <2>4. k = 1 \/ k = 2 \/ k \in 3..n
    BY <1>2
  <2> QED BY <2>1, <2>2, <2>3, <2>4
<1>15. c[1].start >= request.start /\ c[1].start = rs[1].start
  BY <1>5, <1>9, <1>11
<1>16. Len(c) - 1 = n
  BY <1>2, <1>7
<1>17. RangesFollow(c)
  BY <1>7, <1>8, <1>12, <1>13, <1>14, <1>15, <1>16 DEF RangesFollow
<1>18. c = Halves(rs[1]) \o Tail(rs)
  BY DEF c, h, t, lower, upper, m, Halves
<1> QED BY <1>15, <1>17, <1>18

LEMMA GetContractEventsKeeps ==
    ASSUME NEW r \in Requests, GetContractEvents(r), ERInv
    PROVE  ERInv'
<1> DEFINE lo == Min({r.start, r.end})
           hi == Max({r.start, r.end})
           first == [start |-> lo, end |-> hi]
<1>1. r.start \in 1..MaxLedger /\ r.end \in 1..MaxLedger /\ r.cursor \in {None} \cup Events
  BY DEF Requests
<1>2. lo \in 1..MaxLedger /\ hi \in 1..MaxLedger /\ lo <= hi
  <2>1. r.start \in Int /\ r.end \in Int
    BY <1>1
  <2>2. lo = (IF r.start <= r.end THEN r.start ELSE r.end) /\ hi = (IF r.start >= r.end THEN r.start ELSE r.end)
    BY <2>1, MinOfTwo, MaxOfTwo
  <2> HIDE DEF lo, hi
  <2> QED BY <1>1, <2>2
<1>3. request' = [r EXCEPT !.start = lo, !.end = hi]
  BY DEF GetContractEvents
<1> HIDE DEF lo, hi
<1>4. /\ request' \in Requests /\ request'.start = lo /\ request'.end = hi
      /\ request'.cursor = r.cursor
  BY <1>2, <1>3 DEF Requests
<1>5. ranges' = <<first>> /\ cursor' = r.cursor /\ erPhase' = "reading"
  BY <1>4 DEF GetContractEvents
<1>6. page' = <<>> /\ output' = <<>> /\ seenTokens' = {} /\ dropped' = dropped
  BY DEF GetContractEvents, ERInv
<1>7. first \in LedgerRange /\ first.start = lo /\ first.end = hi
  BY <1>2 DEF LedgerRange
<1> HIDE DEF first
<1>8. ranges' \in Seq(LedgerRange) /\ ranges' # <<>> /\ Len(ranges') = 1 /\ ranges'[1] = first /\ DOMAIN ranges' = {1}
  <2>1. ranges' \in Seq(LedgerRange) /\ Len(ranges') = 1 /\ ranges'[1] = first
    BY <1>5, <1>7
  <2>2. DOMAIN ranges' = 1..1
    BY <2>1, LenProperties
  <2> QED BY <2>1, <2>2, NonEmpty
<1>9. RangesFollow(ranges)'
  <2>1. lo \in Nat /\ hi \in Nat
    BY <1>2
  <2>2. \A k \in DOMAIN ranges' : ranges'[k].start <= ranges'[k].end
    BY <1>2, <1>7, <1>8
  <2>3. ranges'[1].start >= request'.start /\ ranges'[Len(ranges')].end = request'.end
    BY <1>4, <1>7, <1>8, <2>1
  <2>4. 1..(Len(ranges') - 1) = {}
    BY <1>8
  <2> QED BY <1>8, <2>2, <2>3, <2>4 DEF RangesFollow
<1>10. ReadSoFar(ranges)'
  <2>1. cursor' \in Nat
    BY <1>1, <1>5, LedgerFacts DEF None
  <2>2. <<>> \in Seq(Events) /\ Rising(<<>>) /\ ToSet(<<>>) = {}
    BY DEF Rising, ToSet
  <2>3. ASSUME NEW i \in InRange(request', request'.cursor)
        PROVE  i > cursor' /\ Ledger[i] >= ranges'[1].start
    <3>1. i \in Events /\ lo <= Ledger[i] /\ i > r.cursor
      BY <1>4 DEF InRange
    <3>2. Ledger[i] \in Nat /\ lo \in Nat
      BY <1>2, <3>1, LedgerFacts
    <3> QED BY <1>5, <1>7, <1>8, <3>1, <3>2
  <2> QED BY <1>6, <2>1, <2>2, <2>3 DEF ReadSoFar
<1> QED BY <1>4, <1>5, <1>9, <1>10 DEF ERInv, RangeTruthful

LEMMA PageArrivesKeeps ==
    ASSUME PageArrives, ERInv
    PROVE  ERInv'
<1>1. PICK token \in Tokens(Answer) :
         IF ~request.fetchAll \/ token = None \/ token \in seenTokens
         THEN RangeDone(page \o Answer)
         ELSE /\ page' = page \o Answer
              /\ seenTokens' = seenTokens \cup {token}
              /\ cursor' = token
              /\ UNCHANGED <<request, ranges, output, dropped, erPhase>>
  BY DEF PageArrives
<1>2. erPhase = "reading" /\ request \in Requests /\ request' = request /\ dropped' = dropped
  <2>1. erPhase = "reading" /\ request \in Requests
    BY DEF PageArrives, ERInv
  <2> QED BY <1>1, <2>1 DEF RangeDone
<1>3. CASE ~request.fetchAll
  <2>1. erPhase' = "finished"
    BY <1>1, <1>3 DEF RangeDone
  <2> QED BY <1>2, <1>3, <2>1 DEF ERInv, RangeTruthful
<1>4. CASE request.fetchAll
  <2> DEFINE a == Answer
             now == ranges[1]
  <2>1. RangesFollow(ranges) /\ ReadSoFar(ranges)
    BY <1>2, <1>4 DEF ERInv
  <2>2. /\ now \in LedgerRange /\ Head(ranges) = now /\ now.start \in Nat /\ now.end \in Nat
        /\ now.start <= now.end /\ now.start >= request.start
    <3>1. 1 \in DOMAIN ranges
      BY <2>1, NonEmpty DEF RangesFollow
    <3> QED BY <2>1, <3>1, RangeEnds DEF RangesFollow
  <2>3. request.start \in Nat /\ request.end \in Nat
    BY <1>2 DEF Requests
  <2>4. /\ cursor \in Nat /\ seenTokens \subseteq 0..cursor
        /\ output \in Seq(Events) /\ page \in Seq(Events) /\ Rising(output) /\ Rising(page)
        /\ \A i \in ToSet(output) : request.start <= Ledger[i] /\ Ledger[i] < now.start
        /\ \A i \in ToSet(page) : now.start <= Ledger[i] /\ Ledger[i] <= now.end /\ i <= cursor
        /\ \A i \in InRange(request, request.cursor) :
              \/ i \in ToSet(output) \cup ToSet(page) \cup dropped
              \/ i > cursor /\ Ledger[i] >= now.start
    BY <2>1 DEF ReadSoFar
  <2>5. /\ a \in Seq(Events) /\ Rising(a)
        /\ ToSet(a) \subseteq InRange(now, cursor)
        /\ a = <<>> <=> InRange(now, cursor) = {}
        /\ a # <<>> =>
             /\ Last(a) \in ToSet(a) /\ \A i \in ToSet(a) : i <= Last(a)
             /\ \A i \in InRange(now, cursor) : i \in ToSet(a) \/ i > Last(a)
    BY <2>2, <2>4, AnswerSound
  <2>6. token \in Tokens(a)
    BY <1>1
  <2> HIDE DEF a, now
  <2>7. ToSet(output) \subseteq Events /\ ToSet(page) \subseteq Events /\ ToSet(a) \subseteq Events
    BY <2>4, <2>5, LenProperties DEF ToSet
  <2>8. page \o a \in Seq(Events) /\ ToSet(page \o a) = ToSet(page) \cup ToSet(a)
    BY <2>4, <2>5, ConcatElements, ConcatProperties
  <2>9. \A i \in ToSet(a) : i \in Nat /\ now.start <= Ledger[i] /\ Ledger[i] <= now.end /\ i > cursor
    BY <2>5, <2>7, LedgerFacts DEF InRange
  <2>10. Rising(page \o a)
    <3>1. page \in Seq(Nat) /\ a \in Seq(Nat)
      BY <2>4, <2>5, WiderSeq, LedgerFacts
    <3>2. \A x \in ToSet(page), y \in ToSet(a) : x < y
      BY <2>4, <2>7, <2>9, LedgerFacts
    <3> QED BY <2>4, <2>5, <3>1, <3>2, RisingConcat
  <2>11. CASE token = None \/ token \in seenTokens
    <3>1. a = <<>>
      <4>1. SUFFICES ASSUME a # <<>> PROVE FALSE
        OBVIOUS
      <4>2. token = Last(a) /\ Last(a) \in ToSet(a)
        BY <2>5, <2>6, <4>1 DEF Tokens
      <4>3. token \in Nat /\ token > cursor
        BY <2>9, <4>2
      <4> QED BY <2>4, <2>11, <4>3 DEF None
    <3>2. page \o a = page
      BY <2>4, <3>1, ConcatEmptySeq
    <3>3. RangeDone(page)
      BY <1>1, <2>11, <3>2 DEF a
    <3>4. output' = output \o page
      BY <3>3 DEF RangeDone
    <3>5. output' \in Seq(Events) /\ ToSet(output') = ToSet(output) \cup ToSet(page)
      BY <2>4, <3>4, ConcatElements, ConcatProperties
    <3>6. Rising(output')
      <4>1. output \in Seq(Nat) /\ page \in Seq(Nat)
        BY <2>4, WiderSeq, LedgerFacts
      <4>2. ASSUME NEW x \in ToSet(output), NEW y \in ToSet(page) PROVE x < y
        <5>1. x \in Nat /\ y \in Nat /\ x \in Events /\ y \in Events /\ Ledger[x] \in Nat /\ Ledger[y] \in Nat
          BY <2>7, LedgerFacts
        <5>2. Ledger[x] < now.start /\ now.start <= Ledger[y]
          BY <2>4
        <5>3. ~(y <= x)
          BY <2>2, <5>1, <5>2, LedgerFacts
        <5> QED BY <5>1, <5>3
      <4> QED BY <2>4, <3>4, <4>1, <4>2, RisingConcat
    <3>7. \A i \in ToSet(output') : request.start <= Ledger[i] /\ Ledger[i] < now.end + 1
      <4>1. ASSUME NEW i \in ToSet(output') PROVE request.start <= Ledger[i] /\ Ledger[i] < now.end + 1
        <5>1. Ledger[i] \in Nat
          BY <2>7, <3>5, LedgerFacts
        <5>2. CASE i \in ToSet(output)
          BY <2>2, <2>3, <2>4, <5>1, <5>2
        <5>3. CASE i \in ToSet(page)
          BY <2>2, <2>3, <2>4, <5>1, <5>3
        <5> QED BY <3>5, <5>2, <5>3
      <4> QED BY <4>1
    <3>8. ASSUME NEW i \in InRange(request, request.cursor)
          PROVE  i \in ToSet(output') \cup dropped \/ Ledger[i] >= now.end + 1
      <4>1. SUFFICES ASSUME i \notin ToSet(output') \cup dropped PROVE Ledger[i] >= now.end + 1
        OBVIOUS
      <4>2. i \in Events /\ i > cursor /\ Ledger[i] >= now.start
        BY <2>4, <3>5, <4>1 DEF InRange
      <4>3. i \notin InRange(now, cursor)
        BY <2>5, <3>1
      <4>4. Ledger[i] \in Nat
        BY <4>2, LedgerFacts
      <4>5. ~(Ledger[i] <= now.end)
        BY <2>2, <4>2, <4>3, <4>4 DEF InRange
      <4> QED BY <2>2, <4>4, <4>5
    <3>9. CASE Tail(ranges) # <<>>
      <4>1. /\ erPhase' = "reading" /\ ranges' = Tail(ranges) /\ cursor' = None /\ page' = <<>>
            /\ seenTokens' = {}
        BY <1>4, <3>3, <3>9 DEF RangeDone
      <4>2. RangesFollow(Tail(ranges)) /\ Tail(ranges)[1].start = now.end + 1
        BY <2>1, <2>3, <3>9, TailFollows DEF now
      <4>3. RangesFollow(ranges)'
        BY <1>2, <4>1, <4>2 DEF RangesFollow
      <4>4. <<>> \in Seq(Events) /\ Rising(<<>>) /\ ToSet(<<>>) = {}
        BY DEF Rising, ToSet
      <4>5. ASSUME NEW i \in InRange(request', request'.cursor)
            PROVE  \/ i \in ToSet(output') \cup ToSet(page') \cup dropped'
                   \/ i > cursor' /\ Ledger[i] >= ranges'[1].start
        <5>1. i > 0
          BY LedgerFacts DEF InRange
        <5> QED BY <1>2, <3>8, <4>1, <4>2, <5>1 DEF None
      <4>6. ReadSoFar(ranges)'
        <5>1. cursor' \in Nat
          BY <4>1 DEF None
        <5> QED BY <1>2, <3>5, <3>6, <3>7, <4>1, <4>2, <4>4, <4>5, <5>1 DEF ReadSoFar
      <4> QED BY <1>2, <4>1, <4>3, <4>6 DEF ERInv, RangeTruthful
    <3>10. CASE Tail(ranges) = <<>>
      <4>1. erPhase' = "finished"
        BY <3>3, <3>10 DEF RangeDone
      <4>2. now.end = request.end
        <5>1. ranges \in Seq(LedgerRange) /\ ranges # <<>>
          BY <2>1 DEF RangesFollow
        <5>2. Len(Tail(ranges)) = Len(ranges) - 1 /\ Len(ranges) \in Nat
          BY <5>1, HeadTailProperties, LenProperties
        <5>3. Len(ranges) = 1
          <6>1. Len(Tail(ranges)) = 0
            BY <3>10, <5>1, HeadTailProperties, NonEmpty
          <6> QED BY <5>2, <6>1
        <5> QED BY <2>1, <5>3 DEF RangesFollow, now
      <4>3. ToSet(output') \subseteq InRange(request, None)
        <5>1. ASSUME NEW i \in ToSet(output') PROVE i \in InRange(request, None)
          <6>1. i \in Events /\ Ledger[i] \in Nat /\ i > 0
            BY <2>7, <3>5, LedgerFacts
          <6> QED BY <2>3, <3>7, <4>2, <6>1 DEF InRange, None
        <5> QED BY <5>1
      <4>4. InRange(request, request.cursor) \subseteq ToSet(output') \cup dropped
        <5>1. ASSUME NEW i \in InRange(request, request.cursor) PROVE i \in ToSet(output') \cup dropped
          <6>1. Ledger[i] \in Nat /\ Ledger[i] <= request.end
            BY LedgerFacts DEF InRange
          <6> QED BY <2>3, <3>8, <4>2, <6>1
        <5> QED BY <5>1
      <4>5. RangeTruthful'
        BY <1>2, <3>6, <4>3, <4>4 DEF RangeTruthful, Rising
      <4> QED BY <1>2, <4>1, <4>5 DEF ERInv
    <3> QED BY <3>9, <3>10
  <2>12. CASE ~(token = None \/ token \in seenTokens)
    <3>1. /\ page' = page \o a /\ seenTokens' = seenTokens \cup {token} /\ cursor' = token
          /\ UNCHANGED <<ranges, output, erPhase>>
      BY <1>1, <1>4, <2>12 DEF a
    <3>2. token \in Nat /\ cursor <= token /\ \A i \in ToSet(page) \cup ToSet(a) : i <= token
      <4>1. CASE a = <<>>
        <5>1. token = cursor /\ ToSet(a) = {}
          BY <2>6, <2>12, <4>1 DEF Tokens, ToSet
        <5> QED BY <2>4, <5>1
      <4>2. CASE a # <<>>
        <5>1. token = Last(a) /\ token \in ToSet(a) /\ \A i \in ToSet(a) : i <= token
          BY <2>5, <2>6, <4>2 DEF Tokens
        <5>2. token \in Nat /\ cursor < token
          BY <2>4, <2>9, <5>1
        <5>3. \A i \in ToSet(page) : i <= token
          BY <2>4, <2>7, <5>2, LedgerFacts
        <5> QED BY <2>4, <5>1, <5>2, <5>3
      <4> QED BY <4>1, <4>2
    <3>3. RangesFollow(ranges)'
      BY <1>2, <2>1, <3>1 DEF RangesFollow
    <3>4. ASSUME NEW i \in InRange(request, request.cursor), i \notin ToSet(output) \cup ToSet(page \o a) \cup dropped
          PROVE  i > token /\ Ledger[i] >= now.start
      <4>1. i \in Events /\ i \in Nat /\ Ledger[i] \in Nat /\ i > cursor /\ Ledger[i] >= now.start
        BY <2>4, <2>8, <3>4, LedgerFacts DEF InRange
      <4>2. CASE a = <<>>
        <5>1. token = cursor
          BY <2>6, <2>12, <4>2 DEF Tokens
        <5> QED BY <4>1, <5>1
      <4>3. CASE a # <<>>
        <5>1. token = Last(a) /\ token \in ToSet(a)
          BY <2>5, <2>6, <4>3 DEF Tokens
        <5>2. CASE i \in InRange(now, cursor)
          BY <2>5, <2>8, <3>4, <4>1, <4>3, <5>1, <5>2
        <5>3. CASE i \notin InRange(now, cursor)
          <6>1. ~(Ledger[i] <= now.end)
            BY <2>2, <4>1, <5>3 DEF InRange
          <6>2. Ledger[token] <= now.end /\ token \in Events /\ Ledger[token] \in Nat
            BY <2>7, <2>9, <5>1, LedgerFacts
          <6>3. ~(i <= token)
            BY <2>2, <4>1, <6>1, <6>2, LedgerFacts
          <6> QED BY <3>2, <4>1, <6>3
        <5> QED BY <5>2, <5>3
      <4> QED BY <4>2, <4>3
    <3>5. seenTokens' \subseteq 0..token
      BY <2>4, <3>1, <3>2
    <3>6. \A i \in ToSet(page') : now.start <= Ledger[i] /\ Ledger[i] <= now.end /\ i <= token
      BY <2>4, <2>8, <2>9, <3>1, <3>2
    <3>7. ReadSoFar(ranges)'
      BY <1>2, <2>4, <2>8, <2>10, <3>1, <3>2, <3>4, <3>5, <3>6 DEF ReadSoFar, now
    <3> QED BY <1>2, <3>1, <3>3, <3>7 DEF ERInv, RangeTruthful
  <2> QED BY <2>11, <2>12
<1> QED BY <1>3, <1>4

LEMMA TooLargeKeeps ==
    ASSUME TooLarge, ERInv
    PROVE  ERInv'
<1>1. erPhase = "reading" /\ request' = request /\ request \in Requests /\ erPhase' = "reading"
  BY DEF TooLarge, ERInv
<1>2. CASE ~request.fetchAll
  BY <1>1, <1>2 DEF ERInv, RangeTruthful
<1>3. CASE request.fetchAll
  <2>1. RangesFollow(ranges) /\ ReadSoFar(ranges)
    BY <1>1, <1>3 DEF ERInv
  <2>2. Head(ranges) = ranges[1] /\ ranges[1].start \in Nat /\ ranges[1].end \in Nat
    BY <2>1, RangeEnds
  <2>3. /\ ranges[1].start < ranges[1].end
        /\ ranges' = Halves(ranges[1]) \o Tail(ranges)
        /\ page' = <<>> /\ dropped' = dropped \cup ToSet(page)
        /\ seenTokens' = {} /\ cursor' = cursor /\ output' = output
    BY <2>2 DEF TooLarge
  <2>4. RangesFollow(Halves(ranges[1]) \o Tail(ranges)) /\ ranges'[1].start = ranges[1].start
    BY <2>1, <2>3, HalvesFollow
  <2>5. RangesFollow(ranges)'
    BY <1>1, <2>3, <2>4 DEF RangesFollow
  <2>6. ReadSoFar(ranges)'
    <3>1. <<>> \in Seq(Events) /\ Rising(<<>>) /\ ToSet(<<>>) = {}
      BY DEF Rising, ToSet
    <3> QED BY <1>1, <2>1, <2>3, <2>4, <3>1 DEF ReadSoFar
  <2> QED BY <1>1, <2>5, <2>6 DEF ERInv, RangeTruthful
<1> QED BY <1>2, <1>3

LEMMA ERNextInv == ERInv /\ [ERNext]_erVars => ERInv'
<1> SUFFICES ASSUME ERInv, [ERNext]_erVars PROVE ERInv'
  OBVIOUS
<1>1. CASE \E r \in Requests : GetContractEvents(r)
  BY <1>1, GetContractEventsKeeps
<1>2. CASE PageArrives
  BY <1>2, PageArrivesKeeps
<1>3. CASE TooLarge
  BY <1>3, TooLargeKeeps
<1>4. CASE RequestFails
  BY <1>4 DEF RequestFails, ERInv, RangeTruthful
<1>5. CASE UNCHANGED erVars
  BY <1>5 DEF erVars, ERInv, RangesFollow, ReadSoFar, RangeTruthful
<1> QED BY <1>1, <1>2, <1>3, <1>4, <1>5 DEF ERNext, ERSystem

-----------------------------------------------------------------------------
(* Retries.                                                                 *)

\* A sleep is followed by an attempt there is room for; the loop gives up for a reason.
RTInv ==
    /\ RTTypeOK
    /\ attempt <= limits.policy /\ (limits.call # Unbounded => attempt <= limits.call)
    /\ rtPhase = "sleeping" =>
          ~Capped /\ ~signalled /\ (limits.budget # Unbounded => wakeAt <= limits.budget)
    /\ ~late
    /\ rtPhase = "failed" /\ retryable => Capped
    /\ rtPhase = "timedOut" => limits.budget # Unbounded /\ elapsed >= limits.budget
    /\ rtPhase = "aborted" => signalled

LEMMA LimitsTyped ==
    ASSUME limits \in Limits
    PROVE  /\ limits.policy \in Nat \ {0}
           /\ limits.call # Unbounded => limits.call \in Nat \ {0}
           /\ limits.budget # Unbounded => limits.budget \in Nat
BY RetryAssumption DEF Limits

LEMMA RTInvKeeps == RTInv => RetryKeepsLimits
<1> SUFFICES ASSUME RTInv PROVE RetryKeepsLimits
  OBVIOUS
<1>1. attempt \in Nat /\ limits \in Limits
  BY DEF RTInv, RTTypeOK
<1> QED BY <1>1, LimitsTyped DEF RTInv, RetryKeepsLimits, Capped

LEMMA RTInitInv == RTInit => RTInv
<1> SUFFICES ASSUME RTInit PROVE RTInv
  OBVIOUS
<1>1. 1 <= limits.policy /\ (limits.call # Unbounded => 1 <= limits.call)
  BY LimitsTyped DEF RTInit
<1>2. RTTypeOK
  <2>1. limits \in Limits /\ attempt = 1 /\ elapsed = 0 /\ wakeAt = 0 /\ rtPhase = "none"
    BY DEF RTInit
  <2>2. {signalled, retryable, late} \subseteq BOOLEAN
    BY DEF RTInit
  <2> QED BY <2>1, <2>2 DEF RTTypeOK
<1>3. attempt = 1 /\ rtPhase = "none" /\ ~late
  BY DEF RTInit
<1> QED BY <1>1, <1>2, <1>3 DEF RTInv

LEMMA FailKeeps == RTInv /\ Fail => RTInv'
<1> SUFFICES ASSUME RTInv, Fail PROVE RTInv'
  OBVIOUS
<1>1. UNCHANGED <<limits, attempt, signalled, late>> /\ limits \in Limits /\ elapsed \in Nat /\ wakeAt \in Nat
      /\ retryable' \in BOOLEAN /\ Capped' = Capped
  BY DEF Fail, RTInv, RTTypeOK, Capped
<1>2. elapsed' \in Nat
  BY <1>1, RetryAssumption DEF Fail
<1>3. CASE Capped \/ ~retryable'
  <2>1. rtPhase' = "failed" /\ wakeAt' = wakeAt
    BY <1>3 DEF Fail
  <2> QED BY <1>1, <1>2, <1>3, <2>1 DEF RTInv, RTTypeOK
<1>4. CASE ~Capped /\ retryable' /\ limits.budget # Unbounded /\ elapsed' >= limits.budget
  <2>1. rtPhase' = "timedOut" /\ wakeAt' = wakeAt
    BY <1>4 DEF Fail
  <2> QED BY <1>1, <1>2, <1>4, <2>1 DEF RTInv, RTTypeOK
<1>5. CASE ~Capped /\ retryable' /\ ~(limits.budget # Unbounded /\ elapsed' >= limits.budget)
  <2>1. rtPhase' \in {"hookThrew", IF signalled THEN "aborted" ELSE "sleeping"}
    BY <1>5 DEF Fail
  <2>2. PICK delay \in 0..MaxDelay : wakeAt' = IF limits.budget = Unbounded THEN elapsed' + delay
                                               ELSE Min({elapsed' + delay, limits.budget})
    <3>1. Delays(attempt) \subseteq 0..MaxDelay
      BY Zenon DEF Delays
    <3>2. \E delay \in Delays(attempt) : wakeAt' = IF limits.budget = Unbounded THEN elapsed' + delay
                                                   ELSE Min({elapsed' + delay, limits.budget})
      BY <1>5, Zenon DEF Fail
    <3> QED BY <3>1, <3>2, Zenon
  <2>3. elapsed' + delay \in Nat
    <3>1. MaxDelay \in Nat
      BY RetryAssumption
    <3>2. delay \in Nat
      BY <3>1
    <3>3. elapsed' \in Nat
      BY <1>2
    <3> DEFINE e == elapsed'
    <3>4. e \in Nat
      BY <3>3
    <3> HIDE DEF e
    <3>5. e + delay \in Nat
      BY <3>2, <3>4
    <3> QED BY <3>5 DEF e
  <2>4. wakeAt' \in Nat /\ (limits.budget # Unbounded => wakeAt' <= limits.budget)
    <3>1. CASE limits.budget = Unbounded
      BY <2>2, <2>3, <3>1
    <3>2. CASE limits.budget # Unbounded
      <4>1. limits.budget \in Nat
        BY <1>1, <3>2, LimitsTyped
      <4>2. wakeAt' = IF elapsed' + delay <= limits.budget THEN elapsed' + delay ELSE limits.budget
        BY <2>2, <2>3, <3>2, <4>1, MinOfTwo
      <4> QED BY <2>3, <4>1, <4>2
    <3> QED BY <3>1, <3>2
  <2> QED BY <1>1, <1>2, <1>5, <2>1, <2>4 DEF RTInv, RTTypeOK
<1> QED BY <1>3, <1>4, <1>5

LEMMA RTNextInv == RTInv /\ [RTNext]_rtVars => RTInv'
<1> SUFFICES ASSUME RTInv, [RTNext]_rtVars PROVE RTInv'
  OBVIOUS
<1>1. CASE UNCHANGED rtVars
  BY <1>1 DEF rtVars, RTInv, RTTypeOK, Capped
<1>2. CASE WithRetry
  BY <1>2 DEF WithRetry, RTInv, RTTypeOK, Capped
<1>3. CASE Attempt
  BY <1>3 DEF Attempt, RTInv, RTTypeOK, Capped
<1>4. CASE Succeed
  BY <1>4 DEF Succeed, RTInv, RTTypeOK, Capped
<1>5. CASE Wake
  <2>1. UNCHANGED <<limits, wakeAt, signalled, retryable, late>> /\ attempt' = attempt + 1 /\ rtPhase' = "head"
        /\ ~Capped /\ limits \in Limits /\ attempt \in Nat \ {0}
    BY <1>5 DEF Wake, RTInv, RTTypeOK
  <2>2. attempt' \in Nat \ {0} /\ attempt' <= limits.policy /\ (limits.call # Unbounded => attempt' <= limits.call)
    BY <2>1, LimitsTyped DEF Capped
  <2>3. elapsed' \in Nat
    BY <1>5 DEF Wake, RTInv, RTTypeOK
  <2> QED BY <2>1, <2>2, <2>3 DEF RTInv, RTTypeOK
<1>6. CASE Abort
  BY <1>6 DEF Abort, RTInv, RTTypeOK, Capped
<1> QED BY <1>1, <1>2, <1>3, <1>4, <1>5, <1>6, FailKeeps DEF RTNext, RTSystem, AttemptSettles

-----------------------------------------------------------------------------
(* The HTTP client that retries.                                            *)

LEMMA ExponentialTyped == Exponential \in [0..MaxRetries -> Nat]
<1> DEFINE advance == [n \in 1..MaxRetries |-> [x \in Nat |-> 2 * x]]
           Doubles(f) == f = [n \in 0..MaxRetries |-> IF n = 0 THEN HttpBaseDelay ELSE 2 * f[n - 1]]
<1>1. advance \in [1..MaxRetries -> [Nat -> Nat]] /\ MaxRetries \in Nat /\ HttpBaseDelay \in Nat
  BY HttpAssumption
<1>2. PICK f \in [0..MaxRetries -> Nat] : Recurs(f, MaxRetries, HttpBaseDelay, advance)
  <2> HIDE DEF advance
  <2> QED BY <1>1, RecursionExists
<1>3. Doubles(f)
  <2>1. ASSUME NEW n \in 0..MaxRetries PROVE f[n] = IF n = 0 THEN HttpBaseDelay ELSE 2 * f[n - 1]
    <3>1. CASE n = 0
      BY <1>2, <3>1 DEF Recurs
    <3>2. CASE n # 0
      <4>1. n \in 1..MaxRetries /\ n - 1 \in 0..MaxRetries
        BY <1>1, <3>2
      <4>2. f[n - 1] \in Nat
        BY <4>1
      <4> QED BY <1>2, <3>2, <4>1, <4>2 DEF Recurs
    <3> QED BY <3>1, <3>2
  <2> QED BY <2>1
<1>4. Doubles(Exponential)
  BY <1>3 DEF Exponential
<1> HIDE DEF Exponential
<1>5. /\ Exponential = [n \in 0..MaxRetries |-> Exponential[n]] /\ Exponential[0] = HttpBaseDelay
      /\ \A n \in 1..MaxRetries : Exponential[n] = 2 * Exponential[n - 1]
  <2>1. 0 \in 0..MaxRetries /\ \A n \in 1..MaxRetries : n \in 0..MaxRetries /\ n # 0
    BY <1>1
  <2> QED BY <1>4, <2>1
<1>6. \A n \in 1..MaxRetries : Exponential[n - 1] \in Nat => Exponential[n] = advance[n][Exponential[n - 1]]
  BY <1>5
<1> DEFINE base == HttpBaseDelay
<1>7. /\ MaxRetries \in Nat /\ base \in Nat
      /\ Exponential = [n \in 0..MaxRetries |-> Exponential[n]] /\ Exponential[0] = base
  BY <1>1, <1>5
<1>8. advance \in [1..MaxRetries -> [Nat -> Nat]]
  BY <1>1
<1> HIDE DEF advance, base
<1> QED BY <1>6, <1>7, <1>8, RecursionTyped, Zenon

\* Delays are within the cap, and no shorter than what the server asks for within it.
LEMMA DelaysBounded ==
    ASSUME HRTypeOK, NEW a \in Answers, NEW n \in 1..MaxRetries, NEW delay \in DelaysAfter(a, n)
    PROVE  /\ delay \in 0..(10 * HttpMaxDelay)
           /\ variant.obeys /\ a.status = "429" => delay >= 10 * Min({a.after, HttpMaxDelay})
<1>1. /\ HttpMaxDelay \in Nat /\ MaxRetries \in Nat /\ a.after \in Nat \cup {NotAsked}
      /\ n - 1 \in 0..MaxRetries
  <2>1. a.after \in RetryAfters \cup {NotAsked}
    BY DEF Answers
  <2>2. MaxRetries \in Nat /\ n \in 1..MaxRetries
    BY HttpAssumption
  <2>3. n - 1 \in 0..MaxRetries
    BY <2>2
  <2> QED BY <2>1, <2>2, <2>3, HttpAssumption
<1>2. Min({a.after, HttpMaxDelay}) = IF a.after <= HttpMaxDelay THEN a.after ELSE HttpMaxDelay
  BY <1>1, MinOfTwo DEF NotAsked
<1>3. CASE variant.obeys /\ a.status = "429" /\ a.after # NotAsked
  <2>1. delay = 10 * Min({a.after, HttpMaxDelay})
    BY <1>3 DEF DelaysAfter
  <2> QED BY <1>1, <1>2, <1>3, <2>1
<1>4. CASE ~(variant.obeys /\ a.status = "429" /\ a.after # NotAsked)
  <2> DEFINE e == Exponential[n - 1]
  <2>1. e \in Nat
    BY <1>1, ExponentialTyped
  <2>2. PICK jitter \in {-e, 0, e} : delay = Min({10 * e + jitter, 10 * HttpMaxDelay})
    BY <1>4 DEF DelaysAfter, CalculateDelay
  <2> HIDE DEF e
  <2>3. 10 * e + jitter \in Nat /\ 10 * HttpMaxDelay \in Nat
    BY <1>1, <2>1
  <2>4. delay = IF 10 * e + jitter <= 10 * HttpMaxDelay THEN 10 * e + jitter ELSE 10 * HttpMaxDelay
    BY <2>2, <2>3, MinOfTwo
  <2>5. delay \in 0..(10 * HttpMaxDelay)
    BY <2>3, <2>4
  <2>6. variant.obeys /\ a.status = "429" => 10 * Min({a.after, HttpMaxDelay}) <= 0
    BY <1>1, <1>2, <1>4 DEF NotAsked
  <2> QED BY <1>1, <1>2, <2>5, <2>6 DEF NotAsked
<1> QED BY <1>3, <1>4

\* A request is under way for the first time, or one more than it was repeated.
HRInv ==
    /\ HRTypeOK
    /\ retryCount <= MaxRetries /\ (retryCount > 0 => httpRequest \in RetryableMethods)
    /\ hrPhase = "none" => retryCount = 0
    /\ sends = IF hrPhase \in {"none", "waiting"} THEN retryCount ELSE retryCount + 1
    /\ carriedOut <= IF hrPhase \in {"resolved", "rejected"} THEN retryCount + 1 ELSE retryCount
    /\ hrPhase = "resolved" => carriedOut > 0 /\ answer.status = "ok"
    /\ hrPhase = "rejected" => answer.status # "ok" /\ (IsRetryable(answer.status) => retryCount = MaxRetries)
    /\ waiting <= 10 * HttpMaxDelay
    /\ hrPhase = "waiting" => httpRequest \in RetryableMethods
    /\ hrPhase = "waiting" /\ variant.obeys /\ answer.status = "429" =>
          waiting >= 10 * Min({answer.after, HttpMaxDelay})

LEMMA HRInvRepeats == HRInv => RequestsRepeatSafely
<1> SUFFICES ASSUME HRInv PROVE RequestsRepeatSafely
  OBVIOUS
<1>1. {sends, retryCount, carriedOut} \subseteq Nat /\ MaxRetries \in Nat
  BY HttpAssumption DEF HRInv, HRTypeOK
<1> QED BY <1>1 DEF HRInv, HRTypeOK, RequestsRepeatSafely

LEMMA HRInitInv == HRInit => HRInv
BY HttpAssumption DEF HRInit, HRInv, HRTypeOK, Answers, Statuses, NotAsked

LEMMA AnsweredKeeps == ASSUME HRInv, NEW a \in Answers, Answered(a) PROVE HRInv'
<1>1. /\ UNCHANGED <<variant, httpRequest, sends>> /\ answer' = a /\ hrPhase = "sent"
      /\ {sends, retryCount, carriedOut} \subseteq Nat /\ sends = retryCount + 1 /\ carriedOut <= retryCount
      /\ waiting \in Nat /\ MaxRetries \in Nat /\ a.status \in Statuses /\ HttpMaxDelay \in Nat
      /\ retryCount <= MaxRetries
  BY HttpAssumption DEF Answered, HRInv, HRTypeOK, Answers
<1>2. carriedOut' \in {carriedOut, carriedOut + 1} /\ (a.status = "ok" => carriedOut' = carriedOut + 1)
  BY <1>1 DEF Answered, Statuses
<1>3. CASE a.status = "ok"
  <2>1. hrPhase' = "resolved" /\ UNCHANGED <<retryCount, waiting>>
    BY <1>3 DEF Answered
  <2> QED BY <1>1, <1>2, <1>3, <2>1 DEF HRInv, HRTypeOK
<1>4. CASE a.status # "ok" /\ (~IsRetryable(a.status) \/ retryCount >= MaxRetries)
  <2>1. hrPhase' = "rejected" /\ UNCHANGED <<retryCount, waiting>>
    BY <1>4 DEF Answered
  <2>2. IsRetryable(a.status)' = IsRetryable(a.status)
    BY <1>1 DEF IsRetryable
  <2>3. IsRetryable(answer.status)' => retryCount' = MaxRetries
    BY <1>1, <1>4, <2>1, <2>2 DEF IsRetryable
  <2> QED BY <1>1, <1>2, <1>4, <2>1, <2>3 DEF HRInv, HRTypeOK
<1>5. CASE a.status # "ok" /\ IsRetryable(a.status) /\ ~(retryCount >= MaxRetries)
  <2>1. retryCount' = retryCount + 1 /\ hrPhase' = "waiting" /\ waiting' \in DelaysAfter(a, retryCount')
    BY <1>5 DEF Answered
  <2>2. retryCount' \in 1..MaxRetries
    BY <1>1, <1>5, <2>1
  <2>3. /\ waiting' \in 0..(10 * HttpMaxDelay)
        /\ variant.obeys /\ a.status = "429" => waiting' >= 10 * Min({a.after, HttpMaxDelay})
    <3> DEFINE n == retryCount'  w == waiting'
    <3>1. n \in 1..MaxRetries /\ w \in DelaysAfter(a, n) /\ HRTypeOK
      BY <2>1, <2>2 DEF HRInv
    <3> HIDE DEF n, w
    <3>2. /\ w \in 0..(10 * HttpMaxDelay)
          /\ variant.obeys /\ a.status = "429" => w >= 10 * Min({a.after, HttpMaxDelay})
      BY <3>1, DelaysBounded
    <3> QED BY <3>2 DEF w
  <2>4. httpRequest \in RetryableMethods
    BY <1>5 DEF IsRetryable
  <2>5. waiting' \in Nat /\ waiting' <= 10 * HttpMaxDelay
    BY <1>1, <2>3
  <2> QED BY <1>1, <1>2, <2>1, <2>2, <2>3, <2>4, <2>5 DEF HRInv, HRTypeOK
<1> QED BY <1>3, <1>4, <1>5

LEMMA HRNextInv == HRInv /\ [HRNext]_hrVars => HRInv'
<1> SUFFICES ASSUME HRInv, [HRNext]_hrVars PROVE HRInv'
  OBVIOUS
<1>1. CASE UNCHANGED hrVars
  BY <1>1 DEF hrVars, HRInv, HRTypeOK, IsRetryable
<1>2. CASE SendRequest
  BY <1>2 DEF SendRequest, HRInv, HRTypeOK
<1> QED BY <1>1, <1>2, AnsweredKeeps DEF HRNext, HRSystem

-----------------------------------------------------------------------------
(* The wallet provider.                                                     *)

WalletRead == [stage : {"availability", "address", "over"}, requireAccess : BOOLEAN,
               began : 0..MaxWalletChanges]
WalletStates == [publicKey : Accounts \cup {NoAccount}, isAvailable : BOOLEAN,
                 isConnected : BOOLEAN, isLoading : BOOLEAN, error : BOOLEAN]

\* Of the wallet, what a read or report has said; and reads began before now.
WPInv ==
    /\ WPTypeOK
    /\ WalletShown
    /\ shownAfter <= walletChanges
    /\ \A r \in DOMAIN walletReads : walletReads[r].began <= walletChanges

LEMMA WPTyped ==
    ASSUME WPTypeOK
    PROVE  /\ walletChanges \in Nat /\ shownAfter \in Nat /\ MaxWalletChanges \in Nat
           /\ wallet \in Wallet /\ walletState \in WalletStates /\ walletReads \in Seq(WalletRead)
           /\ DOMAIN walletReads = 1..Len(walletReads) /\ Len(walletReads) \in Nat
           /\ \A r \in DOMAIN walletReads : walletReads[r] \in WalletRead /\ walletReads[r].began \in Nat
<1>1. walletReads \in Seq(WalletRead) /\ walletState \in WalletStates /\ wallet \in Wallet
  BY DEF WPTypeOK, WalletRead, WalletStates
<1>2. walletChanges \in Nat /\ shownAfter \in Nat /\ MaxWalletChanges \in Nat
  BY WalletAssumption DEF WPTypeOK
<1>3. DOMAIN walletReads = 1..Len(walletReads) /\ Len(walletReads) \in Nat
      /\ \A r \in DOMAIN walletReads : walletReads[r] \in WalletRead
  BY <1>1, LenProperties
<1>4. \A r \in DOMAIN walletReads : walletReads[r].began \in Nat
  BY <1>2, <1>3 DEF WalletRead
<1> QED BY <1>1, <1>2, <1>3, <1>4

LEMMA WPInitInv == WPInit => WPInv
<1> SUFFICES ASSUME WPInit PROVE WPInv
  OBVIOUS
<1>1. /\ usesFreighter \in BOOLEAN /\ wallet \in Wallet /\ walletChanges = 0 /\ shownAfter = 0
      /\ mounting = "rendered" /\ watcher = "none"
      /\ walletState = [publicKey |-> NoAccount, isAvailable |-> TRUE, isConnected |-> FALSE,
                        isLoading |-> TRUE, error |-> FALSE]
      /\ walletReads = <<>>
  BY DEF WPInit
<1>2. walletReads \in Seq(WalletRead) /\ DOMAIN walletReads = {}
  BY <1>1
<1>3. walletState \in WalletStates /\ ~walletState.isConnected /\ walletState.publicKey = NoAccount
  BY <1>1 DEF WalletStates
<1>4. 0 \in 0..MaxWalletChanges
  BY WalletAssumption
<1>5. WPTypeOK
  BY <1>1, <1>2, <1>3, <1>4 DEF WPTypeOK, WalletRead, WalletStates
<1> QED BY <1>1, <1>2, <1>3, <1>5 DEF WPInv, WalletShown

\* A read begins.
LEMMA BeginReadKeeps ==
    ASSUME WPInv, NEW requireAccess \in BOOLEAN, BeginRead(requireAccess),
           UNCHANGED <<usesFreighter, wallet, walletChanges, shownAfter>>,
           mounting' = "mounted", watcher' \in {"none", "loading", "watching"}
    PROVE  WPInv'
<1> DEFINE read == [stage |-> IF usesFreighter THEN "availability" ELSE "address",
                    requireAccess |-> requireAccess, began |-> walletChanges]
<1>1. WPTypeOK /\ walletChanges \in 0..MaxWalletChanges
  BY DEF WPInv, WPTypeOK
<1>2. read \in WalletRead /\ read.stage # "over" /\ read.began = walletChanges
  BY <1>1 DEF WalletRead
<1>3. walletReads' = Append(walletReads, read) /\ walletState' = [walletState EXCEPT !.isLoading = TRUE]
  BY DEF BeginRead
<1> HIDE DEF read
<1>4. /\ walletReads' \in Seq(WalletRead) /\ DOMAIN walletReads' = 1..(Len(walletReads) + 1)
      /\ \A r \in 1..Len(walletReads) : walletReads'[r] = walletReads[r]
      /\ walletReads'[Len(walletReads) + 1] = read
  BY <1>1, <1>2, <1>3, WPTyped, AppendProperties, LenProperties
<1>5. /\ walletState' \in WalletStates /\ walletState'.isConnected = walletState.isConnected
      /\ walletState'.publicKey = walletState.publicKey
  BY <1>1, <1>3, WPTyped DEF WalletStates
<1>6. WPTypeOK'
  BY <1>1, <1>4, <1>5 DEF WPTypeOK, WalletRead, WalletStates
<1>7. ~WPOver'
  <2>1. Len(walletReads) + 1 \in DOMAIN walletReads'
    BY <1>1, <1>4, WPTyped
  <2> QED BY <1>2, <1>4, <2>1 DEF WPOver
<1>8. Readable' = Readable
  BY DEF Readable
<1>9. walletChanges <= walletChanges /\ DOMAIN walletReads = 1..Len(walletReads) /\ Len(walletReads) \in Nat
  BY <1>1, WPTyped
<1>10. \A r \in DOMAIN walletReads' : walletReads'[r].began <= walletChanges
  BY <1>2, <1>4, <1>9 DEF WPInv
<1> QED BY <1>5, <1>6, <1>7, <1>8, <1>10 DEF WPInv, WalletShown

\* A read ends, and what it shows is the wallet, or no account.
LEMMA EndReadKeeps ==
    ASSUME WPInv, NEW r \in DOMAIN walletReads, ReadOver(r), UNCHANGED <<usesFreighter, mounting, watcher>>,
           wallet' \in Wallet, walletChanges' \in walletChanges..MaxWalletChanges,
           shownAfter' \in 0..walletChanges',
           walletState' \in WalletStates, ~walletState'.isLoading,
           walletState'.isConnected <=> walletState'.publicKey # NoAccount,
           walletState'.isConnected /\ shownAfter' = walletChanges' => walletState'.publicKey = Readable'
    PROVE  WPInv'
<1>1. WPTypeOK
  BY DEF WPInv
<1> DEFINE ended == [walletReads[r] EXCEPT !.stage = "over", !.began = 0]
<1>2. ended \in WalletRead /\ ended.began = 0
  <2>1. walletReads[r] \in WalletRead /\ 0 \in 0..MaxWalletChanges
    BY <1>1, WPTyped
  <2> QED BY <2>1 DEF WalletRead
<1>3. walletReads' = [walletReads EXCEPT ![r] = ended]
  BY DEF ReadOver
<1> HIDE DEF ended
<1>4. walletReads' \in Seq(WalletRead) /\ DOMAIN walletReads' = DOMAIN walletReads
      /\ \A s \in DOMAIN walletReads : walletReads'[s] = IF s = r THEN ended ELSE walletReads[s]
  BY <1>1, <1>2, <1>3, WPTyped, ExceptSeq
<1>5. walletChanges' \in Nat /\ walletChanges <= walletChanges' /\ walletChanges' \in 0..MaxWalletChanges
  BY <1>1, WPTyped
<1>6. shownAfter' <= walletChanges' /\ shownAfter' \in 0..MaxWalletChanges
  BY <1>1, <1>5, WPTyped
<1>7. WPTypeOK'
  BY <1>1, <1>4, <1>5, <1>6 DEF WPTypeOK, WalletRead, WalletStates
<1>8. \A s \in DOMAIN walletReads' : walletReads'[s].began <= walletChanges'
  <2> SUFFICES ASSUME NEW s \in DOMAIN walletReads PROVE walletReads'[s].began <= walletChanges'
    BY <1>4
  <2>1. walletReads[s].began \in Nat /\ walletReads[s].began <= walletChanges /\ walletChanges \in Nat
    BY <1>1, WPTyped DEF WPInv
  <2> DEFINE c == walletChanges'
  <2>2. c \in Nat /\ walletChanges <= c
    BY <1>5
  <2> HIDE DEF c
  <2>3. walletReads'[s].began \in {0, walletReads[s].began}
    BY <1>2, <1>4
  <2>4. 0 <= c /\ walletReads[s].began <= c
    BY <2>1, <2>2
  <2> QED BY <2>3, <2>4 DEF c
<1> QED BY <1>6, <1>7, <1>8 DEF WPInv, WalletShown

LEMMA AvailabilityAnsweredKeeps ==
    ASSUME WPInv, NEW r, AvailabilityAnswered(r) PROVE WPInv'
<1>1. /\ r \in DOMAIN walletReads /\ walletReads[r].stage = "availability"
      /\ UNCHANGED <<usesFreighter, wallet, walletChanges, mounting, watcher>>
      /\ WPTypeOK
  BY DEF AvailabilityAnswered, WPInv
<1>2. CASE wallet.installed /\ (walletReads[r].requireAccess \/ wallet.allowed)
  <2> DEFINE next == [walletReads[r] EXCEPT !.stage = "address"]
  <2>1. walletReads' = [walletReads EXCEPT ![r] = next] /\ UNCHANGED <<walletState, shownAfter>>
    BY <1>2 DEF AvailabilityAnswered
  <2>2. next \in WalletRead /\ next.began = walletReads[r].began /\ next.stage = "address"
    <3>1. walletReads[r] \in WalletRead
      BY <1>1, WPTyped
    <3> QED BY <3>1 DEF WalletRead
  <2> HIDE DEF next
  <2>3. walletReads' \in Seq(WalletRead) /\ DOMAIN walletReads' = DOMAIN walletReads
        /\ \A s \in DOMAIN walletReads : walletReads'[s] = IF s = r THEN next ELSE walletReads[s]
    BY <1>1, <2>1, <2>2, WPTyped, ExceptSeq
  <2>4. WPTypeOK'
    BY <1>1, <2>1, <2>3 DEF WPTypeOK, WalletRead
  <2>5. ~WPOver' /\ Readable' = Readable
    BY <1>1, <2>2, <2>3 DEF WPOver, Readable
  <2>6. \A s \in DOMAIN walletReads' : walletReads'[s].began <= walletChanges'
    BY <1>1, <2>2, <2>3 DEF WPInv
  <2> QED BY <1>1, <2>1, <2>4, <2>5, <2>6 DEF WPInv, WalletShown
<1>3. CASE ~(wallet.installed /\ (walletReads[r].requireAccess \/ wallet.allowed))
  <2>1. /\ ReadOver(r) /\ shownAfter' = walletReads[r].began
        /\ walletState' = [publicKey |-> NoAccount, isAvailable |-> wallet.installed,
                           isConnected |-> FALSE, isLoading |-> FALSE, error |-> FALSE]
    BY <1>3 DEF AvailabilityAnswered, Show
  <2>2. wallet.installed \in BOOLEAN /\ wallet' \in Wallet
    BY <1>1, WPTyped DEF Wallet
  <2>3. walletState' \in WalletStates /\ ~walletState'.isLoading /\ ~walletState'.isConnected
        /\ walletState'.publicKey = NoAccount
    BY <2>1, <2>2 DEF WalletStates
  <2>4. walletChanges' \in walletChanges..MaxWalletChanges /\ shownAfter' \in 0..walletChanges'
    <3>1. walletReads[r].began \in Nat /\ walletReads[r].began <= walletChanges /\ walletChanges \in 0..MaxWalletChanges
      BY <1>1, WPTyped DEF WPInv, WPTypeOK
    <3>2. walletChanges \in walletChanges..MaxWalletChanges /\ walletReads[r].began \in 0..walletChanges
      BY <1>1, <3>1, WPTyped
    <3> QED BY <1>1, <2>1, <3>2
  <2> QED BY <1>1, <2>1, <2>2, <2>3, <2>4, EndReadKeeps
<1> QED BY <1>2, <1>3

LEMMA AddressAnsweredKeeps ==
    ASSUME WPInv, NEW r, AddressAnswered(r) PROVE WPInv'
<1> DEFINE grants == usesFreighter /\ walletReads[r].requireAccess /\ wallet.installed /\ ~wallet.allowed
<1>1. /\ r \in DOMAIN walletReads /\ ReadOver(r) /\ UNCHANGED <<usesFreighter, mounting, watcher>>
      /\ wallet' = [wallet EXCEPT !.allowed = @ \/ grants]
      /\ WPTypeOK
  BY DEF AddressAnswered, WPInv
<1>2. wallet \in Wallet /\ walletChanges \in 0..MaxWalletChanges /\ MaxWalletChanges \in Nat
      /\ walletReads[r].began \in Nat /\ walletReads[r].began <= walletChanges
  BY <1>1, WPTyped DEF WPInv, WPTypeOK
<1>3. wallet' \in Wallet /\ wallet'.installed = wallet.installed /\ wallet'.account = wallet.account
      /\ (wallet'.allowed <=> wallet.allowed \/ grants)
  <2> HIDE DEF grants
  <2> QED BY <1>1, <1>2 DEF Wallet
<1>4. wallet.account \in Accounts \cup {NoAccount} /\ Readable \in Accounts \cup {NoAccount}
  BY <1>2 DEF Wallet, Readable
<1>5. ASSUME NEW account \in Accounts \cup {NoAccount}, Show(account, TRUE)
      PROVE  /\ walletState' \in WalletStates /\ ~walletState'.isLoading
             /\ walletState'.isConnected <=> walletState'.publicKey # NoAccount
             /\ walletState'.publicKey = account
  BY <1>5 DEF Show, WalletStates
<1>6. CASE grants
  <2>1. /\ walletChanges < MaxWalletChanges /\ walletChanges' = walletChanges + 1
        /\ shownAfter' = walletChanges' /\ Show(wallet.account, TRUE)
    BY <1>6 DEF AddressAnswered
  <2>2. walletChanges' \in walletChanges..MaxWalletChanges
    BY <1>2, <2>1
  <2>3. shownAfter' \in 0..walletChanges'
    BY <1>2, <2>1
  <2>4. Readable' = wallet.account
    BY <1>1, <1>3, <1>6 DEF Readable
  <2> HIDE DEF grants
  <2> QED BY <1>1, <1>3, <1>4, <1>5, <2>1, <2>2, <2>3, <2>4, EndReadKeeps
<1>7. CASE ~grants
  <2>1. shownAfter' = walletReads[r].began /\ Show(Readable, TRUE) /\ walletChanges' = walletChanges
    BY <1>7 DEF AddressAnswered
  <2>2. walletChanges' \in walletChanges..MaxWalletChanges /\ shownAfter' \in 0..walletChanges'
    <3>1. walletChanges \in walletChanges..MaxWalletChanges /\ walletReads[r].began \in 0..walletChanges
      BY <1>2
    <3> QED BY <2>1, <3>1
  <2>3. Readable' = Readable
    <3>1. wallet'.allowed <=> wallet.allowed
      BY <1>3, <1>7
    <3> QED BY <1>1, <1>3, <3>1 DEF Readable
  <2> HIDE DEF grants
  <2> QED BY <1>1, <1>3, <1>4, <1>5, <2>1, <2>2, <2>3, EndReadKeeps
<1> QED BY <1>6, <1>7

LEMMA ReadFailsKeeps == ASSUME WPInv, NEW r, ReadFails(r) PROVE WPInv'
<1>1. /\ r \in DOMAIN walletReads /\ ReadOver(r)
      /\ UNCHANGED <<usesFreighter, wallet, walletChanges, mounting, watcher, shownAfter>>
      /\ WPTypeOK
  BY DEF ReadFails, WPInv
<1>2. PICK available \in BOOLEAN :
         walletState' = [publicKey |-> NoAccount, isAvailable |-> available, isConnected |-> FALSE,
                         isLoading |-> FALSE, error |-> TRUE]
  BY DEF ReadFails
<1>3. walletState' \in WalletStates /\ ~walletState'.isLoading /\ ~walletState'.isConnected
      /\ walletState'.publicKey = NoAccount
  BY <1>2 DEF WalletStates
<1>4. wallet' \in Wallet
  BY <1>1, WPTyped
<1>5. walletChanges' \in walletChanges..MaxWalletChanges /\ shownAfter' \in 0..walletChanges'
  <2>1. walletChanges \in 0..MaxWalletChanges /\ shownAfter \in Nat /\ shownAfter <= walletChanges
    BY <1>1, WPTyped DEF WPInv, WPTypeOK
  <2>2. walletChanges \in walletChanges..MaxWalletChanges /\ shownAfter \in 0..walletChanges
    BY <1>1, <2>1, WPTyped
  <2> QED BY <1>1, <2>2
<1> QED BY <1>1, <1>3, <1>4, <1>5, EndReadKeeps

LEMMA WPNextInv == WPInv /\ [WPNext]_wpVars => WPInv'
<1> SUFFICES ASSUME WPInv, [WPNext]_wpVars PROVE WPInv'
  OBVIOUS
<1>1. WPTypeOK /\ wallet \in Wallet /\ walletState \in WalletStates
  BY WPTyped DEF WPInv
<1>2. CASE UNCHANGED <<usesFreighter, wallet, walletChanges, walletState, walletReads, shownAfter>>
           /\ mounting' \in {"rendered", "mounted", "unmounted"} /\ watcher' \in {"none", "loading", "watching"}
           /\ (mounting' # "rendered" => mounting # "rendered")
  BY <1>2 DEF WPInv, WPTypeOK, WalletShown, WPOver, Readable
<1>3. CASE Mount
  BY <1>3, BeginReadKeeps DEF Mount
<1>4. ASSUME NEW requireAccess \in BOOLEAN, ReadWallet(requireAccess) PROVE WPInv'
  BY <1>1, <1>4, BeginReadKeeps DEF ReadWallet, WPTypeOK
<1>5. CASE WatcherFails
  <2>1. PICK error_ \in BOOLEAN : walletState' = [walletState EXCEPT !.isAvailable = error_, !.isLoading = FALSE,
                                                                    !.error = error_]
    BY <1>5 DEF WatcherFails
  <2>2. walletState' \in WalletStates /\ ~walletState'.isLoading
        /\ walletState'.isConnected = walletState.isConnected /\ walletState'.publicKey = walletState.publicKey
    BY <1>1, <2>1 DEF WalletStates
  <2>3. UNCHANGED <<usesFreighter, wallet, walletChanges, mounting, walletReads, shownAfter>> /\ watcher' = "none"
    BY <1>5 DEF WatcherFails
  <2> QED BY <2>2, <2>3 DEF WPInv, WPTypeOK, WalletStates, WalletShown, Readable
<1>6. CASE WatcherReports
  <2>1. UNCHANGED <<usesFreighter, wallet, walletChanges, mounting, watcher, walletReads>> /\ shownAfter' = walletChanges
        /\ walletState' = [publicKey |-> Readable, isAvailable |-> TRUE, isConnected |-> Readable # NoAccount,
                           isLoading |-> FALSE, error |-> FALSE]
    BY <1>6 DEF WatcherReports, Show
  <2>2. Readable \in Accounts \cup {NoAccount}
    BY <1>1 DEF Wallet, Readable
  <2>3. walletState' \in WalletStates /\ ~walletState'.isLoading /\ walletState'.publicKey = Readable
        /\ (walletState'.isConnected <=> Readable # NoAccount)
    BY <2>1, <2>2 DEF WalletStates
  <2>4. Readable' = Readable /\ walletChanges <= walletChanges
    BY <1>1, <2>1, WPTyped DEF Readable
  <2> QED BY <2>1, <2>3, <2>4 DEF WPInv, WPTypeOK, WalletStates, WalletShown
<1>7. CASE UserChangesWallet
  <2>1. UNCHANGED <<usesFreighter, walletState, mounting, watcher, walletReads, shownAfter>>
        /\ walletChanges' = walletChanges + 1 /\ walletChanges < MaxWalletChanges /\ wallet' \in Wallet
    BY <1>7 DEF UserChangesWallet
  <2>2. walletChanges \in Nat /\ shownAfter \in Nat /\ MaxWalletChanges \in Nat
        /\ \A r \in DOMAIN walletReads : walletReads[r].began \in Nat
    BY <1>1, WPTyped
  <2> DEFINE c == walletChanges'
  <2>3. c = walletChanges + 1
    BY <2>1
  <2> HIDE DEF c
  <2>4. c \in 0..MaxWalletChanges /\ shownAfter <= c /\ shownAfter # c
        /\ \A r \in DOMAIN walletReads : walletReads[r].began <= c
    BY <2>1, <2>2, <2>3 DEF WPInv
  <2> QED BY <2>1, <2>4 DEF WPInv, WPTypeOK, WalletShown, WPOver, c
<1>8. CASE Unmount
  BY <1>2, <1>8 DEF Unmount
<1>9. CASE WatcherLoaded
  BY <1>1, <1>2, <1>9 DEF WatcherLoaded, WPTypeOK
<1>10. CASE UNCHANGED wpVars
  BY <1>1, <1>2, <1>10 DEF wpVars, WPTypeOK
<1> QED BY <1>3, <1>4, <1>5, <1>6, <1>7, <1>8, <1>9, <1>10,
           AvailabilityAnsweredKeeps, AddressAnsweredKeeps, ReadFailsKeeps DEF WPNext, WPSystem, ReadAnswered

-----------------------------------------------------------------------------
(* The hook.                                                                *)

\* Executions begin in order.  One that has the hook to itself is the last to have
\* begun, and the hook is at its step.
VHInv ==
    /\ VHTypeOK
    /\ \A d, e \in Executions : d < e /\ executions[e] # "idle" => executions[d] # "idle"
    /\ \A e \in Executions : executions[e] \in {"idle", "acting"} => onChain[e] = "none"
    /\ alone => \A e \in Executions :
          /\ e \in UnderWay => \A d \in Executions : d > e => executions[d] = "idle"
          /\ executions[e] = "acting" => step = "idle" /\ txHash = 0 /\ ~error
          /\ executions[e] \in {"asking", "sleeping"} => step = "submitted" /\ txHash = e
    /\ HookTruthful

LEMMA VHInitInv == VHInit => VHInv
<1> SUFFICES ASSUME VHInit PROVE VHInv
  OBVIOUS
<1>1. MaxExecutions \in Nat /\ MaxPolls \in Nat
  BY HookAssumption
<1>2. UnderWay = {}
  BY DEF VHInit, UnderWay
<1>3. VHTypeOK
  <2>1. step = "idle" /\ txHash \in 0..MaxExecutions /\ executions \in [Executions -> {"idle"}]
        /\ onChain \in [Executions -> {"none"}] /\ polls \in [Executions -> 0..MaxPolls]
    BY <1>1 DEF VHInit
  <2>2. {isLoading, error, alone} \subseteq BOOLEAN
    BY DEF VHInit
  <2> QED BY <2>1, <2>2 DEF VHTypeOK
<1>4. HookTruthful
  BY <1>2 DEF VHInit, HookTruthful
<1>5. \A e \in Executions : executions[e] = "idle" /\ onChain[e] = "none"
  BY DEF VHInit
<1> QED BY <1>2, <1>3, <1>4, <1>5 DEF VHInv

LEMMA VHTyped ==
    ASSUME VHTypeOK
    PROVE  /\ MaxExecutions \in Nat /\ \A e \in Executions : e \in Nat \ {0}
           /\ txHash \in Nat /\ executions \in [Executions -> {"idle", "acting", "asking", "sleeping", "over"}]
           /\ onChain \in [Executions -> {"none", "pending", "SUCCESS", "FAILED"}]
           /\ polls \in [Executions -> 0..MaxPolls]
BY HookAssumption DEF VHTypeOK, Executions

LEMMA OneUnderWay ==
    ASSUME VHInv, alone, NEW e \in UnderWay
    PROVE  UnderWay = {e}
<1>1. ASSUME NEW d \in UnderWay, d # e PROVE FALSE
  <2>1. d \in Nat /\ e \in Nat /\ d \in Executions /\ e \in Executions
    BY VHTyped DEF VHInv, UnderWay
  <2>2. d > e \/ e > d
    BY <1>1, <2>1
  <2> QED BY <2>1, <2>2 DEF VHInv, UnderWay
<1> QED BY <1>1

LEMMA ExecuteKeeps == ASSUME VHInv, NEW e \in Executions, Execute(e) PROVE VHInv'
<1>1. VHTypeOK /\ executions[e] = "idle" /\ \A d \in 1..(e - 1) : executions[d] # "idle"
  BY DEF Execute, VHInv
<1>2. /\ step' = "idle" /\ isLoading' = TRUE /\ error' = FALSE /\ txHash' = 0
      /\ executions' = [executions EXCEPT ![e] = "acting"] /\ UNCHANGED <<polls, onChain>>
      /\ alone' = (UnderWay = {})
  BY DEF Execute
<1>3. /\ executions' \in [Executions -> {"idle", "acting", "asking", "sleeping", "over"}] /\ executions'[e] = "acting"
      /\ \A d \in Executions : d # e => executions'[d] = executions[d]
  BY <1>1, <1>2, VHTyped
<1>4. \A d \in Executions : d > e => executions[d] = "idle"
  BY <1>1 DEF VHInv
<1>5. UnderWay' = UnderWay \cup {e}
  BY <1>2, <1>3 DEF UnderWay
<1>6. VHTypeOK'
  <2>1. 0 \in 0..MaxExecutions
    BY <1>1, VHTyped
  <2>2. {isLoading, error, alone}' \subseteq BOOLEAN
    BY <1>2, Zenon
  <2>3. step' \in {"idle", "submitted", "confirmed"} /\ txHash' \in 0..MaxExecutions
        /\ polls' \in [Executions -> 0..MaxPolls] /\ onChain' \in [Executions -> {"none", "pending", "SUCCESS", "FAILED"}]
    BY <1>1, <1>2, <2>1 DEF VHTypeOK
  <2> QED BY <1>3, <2>2, <2>3 DEF VHTypeOK
<1>7. \A d, f \in Executions : d < f /\ executions'[f] # "idle" => executions'[d] # "idle"
  <2> SUFFICES ASSUME NEW d \in Executions, NEW f \in Executions, d < f, executions'[f] # "idle"
               PROVE  executions'[d] # "idle"
    OBVIOUS
  <2>1. CASE f = e
    <3>1. d \in 1..(e - 1)
      BY <1>1, <2>1, VHTyped
    <3> QED BY <1>1, <1>3, <2>1, <3>1
  <2>2. CASE f # e
    <3>1. executions[d] # "idle"
      BY <1>3, <2>2 DEF VHInv
    <3> QED BY <1>1, <1>3, <3>1
  <2> QED BY <2>1, <2>2
<1>8. \A f \in Executions : executions'[f] \in {"idle", "acting"} => onChain'[f] = "none"
  BY <1>1, <1>2, <1>3 DEF VHInv
<1>9. ASSUME UnderWay = {}, NEW f \in Executions
      PROVE  /\ f \in UnderWay' => \A d \in Executions : d > f => executions'[d] = "idle"
             /\ executions'[f] = "acting" => step' = "idle" /\ txHash' = 0 /\ ~error'
             /\ executions'[f] \notin {"asking", "sleeping"}
  <2>1. \A d \in Executions : d > e => d # e
    BY <1>1, VHTyped
  <2>2. f \in UnderWay' => f = e
    BY <1>5, <1>9
  <2>3. executions'[f] \notin {"asking", "sleeping"}
    BY <1>3, <1>9 DEF UnderWay
  <2> QED BY <1>2, <1>3, <1>4, <2>1, <2>2, <2>3
<1>10. HookTruthful'
  <2>1. UnderWay' # {}
    BY <1>5
  <2> QED BY <1>2, <2>1 DEF HookTruthful
<1> QED BY <1>2, <1>6, <1>7, <1>8, <1>9, <1>10 DEF VHInv

\* An execution that is under way goes on, or ends.
LEMMA ExecutionMoves ==
    ASSUME VHInv, NEW e \in UnderWay, NEW to \in {"asking", "sleeping", "over"},
           executions' = [executions EXCEPT ![e] = to], UNCHANGED alone,
           onChain' \in [Executions -> {"none", "pending", "SUCCESS", "FAILED"}],
           \A d \in Executions : d # e => onChain'[d] = onChain[d],
           onChain[e] = "SUCCESS" => onChain'[e] = "SUCCESS",
           step' \in {"idle", "submitted", "confirmed"}, {isLoading, error}' \subseteq BOOLEAN,
           txHash' \in 0..MaxExecutions, polls' \in [Executions -> 0..MaxPolls],
           step' = "confirmed" => onChain'[e] = "SUCCESS" \/ (step = "confirmed" /\ onChain' = onChain),
           to = "over" => ~isLoading',
           alone => /\ isLoading' <=> to # "over"
                    /\ step' = "confirmed" => txHash' = e /\ onChain'[e] = "SUCCESS"
                    /\ step' = "submitted" => to # "over"
                    /\ error' => step' = "idle"
                    /\ txHash' \in {0, e}
                    /\ to # "over" => step' = "submitted" /\ txHash' = e
    PROVE  VHInv'
<1>1. VHTypeOK /\ e \in Executions /\ executions[e] \in {"acting", "asking", "sleeping"}
  BY DEF VHInv, UnderWay
<1>2. /\ executions' \in [Executions -> {"idle", "acting", "asking", "sleeping", "over"}] /\ executions'[e] = to
      /\ \A d \in Executions : d # e => executions'[d] = executions[d]
  BY <1>1, VHTyped
<1>3. VHTypeOK'
  <2>1. {isLoading, error, alone}' \subseteq BOOLEAN
    BY <1>1, Zenon DEF VHTypeOK
  <2> QED BY <1>2, <2>1 DEF VHTypeOK
<1>4. \A d, f \in Executions : d < f /\ executions'[f] # "idle" => executions'[d] # "idle"
  BY <1>1, <1>2 DEF VHInv
<1>5. \A f \in Executions : executions'[f] \in {"idle", "acting"} => onChain'[f] = "none"
  BY <1>1, <1>2 DEF VHInv
<1>6. UnderWay' = IF to = "over" THEN UnderWay \ {e} ELSE UnderWay
  BY <1>1, <1>2 DEF UnderWay
<1>7. step' = "confirmed" => \E f \in Executions : onChain'[f] = "SUCCESS"
  BY <1>1 DEF VHInv, HookTruthful
<1>8. ~isLoading' \/ UnderWay' # {}
  BY <1>6
<1>9. ASSUME alone, NEW f \in Executions
      PROVE  /\ f \in UnderWay' => f = e /\ to # "over"
             /\ f > e => executions'[f] = "idle"
             /\ executions'[f] \in {"acting", "asking", "sleeping"} => f \in UnderWay'
             /\ executions'[f] # "acting"
  <2>1. UnderWay = {e}
    BY <1>9, OneUnderWay
  <2>2. f > e => f # e /\ executions[f] = "idle"
    BY <1>1, <1>9, VHTyped DEF VHInv
  <2>3. executions'[f] \in {"acting", "asking", "sleeping"} => f \in UnderWay'
    BY DEF UnderWay
  <2>4. f \in UnderWay' => f = e /\ to # "over"
    BY <1>6, <2>1
  <2>5. executions'[f] # "acting"
    BY <1>2, <2>3, <2>4
  <2> QED BY <1>2, <2>2, <2>3, <2>4, <2>5
<1>10. ASSUME alone
       PROVE  /\ isLoading' <=> UnderWay' # {}
              /\ step' = "confirmed" => txHash' # 0 /\ onChain'[txHash'] = "SUCCESS"
              /\ step' = "submitted" => isLoading' /\ txHash' \in UnderWay'
              /\ error' => step' = "idle"
              /\ txHash' # 0 => \A f \in Executions : f > txHash' => executions'[f] = "idle"
  <2>1. UnderWay' = IF to = "over" THEN {} ELSE {e}
    BY <1>6, <1>10, OneUnderWay
  <2>2. e # 0
    BY <1>1, VHTyped
  <2>3. txHash' # 0 => txHash' = e
    BY <1>10
  <2>4. txHash' # 0 => \A f \in Executions : f > txHash' => executions'[f] = "idle"
    BY <1>9, <1>10, <2>3
  <2>5. step' = "submitted" => isLoading' /\ txHash' \in UnderWay'
    BY <1>10, <2>1
  <2>6. step' = "confirmed" => txHash' # 0 /\ onChain'[txHash'] = "SUCCESS"
    BY <1>10, <2>2
  <2> QED BY <1>10, <2>1, <2>4, <2>5, <2>6
<1>11. HookTruthful'
  BY <1>7, <1>8, <1>10 DEF HookTruthful
<1>12. ASSUME alone, NEW f \in Executions
       PROVE  /\ f \in UnderWay' => \A d \in Executions : d > f => executions'[d] = "idle"
              /\ executions'[f] = "acting" => step' = "idle" /\ txHash' = 0 /\ ~error'
              /\ executions'[f] \in {"asking", "sleeping"} => step' = "submitted" /\ txHash' = f
  BY <1>9, <1>12
<1> QED BY <1>3, <1>4, <1>5, <1>11, <1>12 DEF VHInv

LEMMA VHSystemKeeps == ASSUME VHInv, NEW e \in Executions,
                              \/ ActionReturns(e) \/ ActionThrows(e) \/ Confirmed(e) \/ PollFails(e)
                              \/ NotFound(e) \/ NextPoll(e)
                       PROVE  VHInv'
<1>1. VHTypeOK /\ HookTruthful /\ e \in Nat \ {0} /\ e \in 0..MaxExecutions
  BY VHTyped DEF VHInv, Executions
<1>2. CASE ActionReturns(e)
  <2>1. /\ e \in UnderWay /\ executions' = [executions EXCEPT ![e] = "asking"] /\ step' = "submitted" /\ txHash' = e
        /\ polls' = [polls EXCEPT ![e] = 1] /\ onChain' = [onChain EXCEPT ![e] = "pending"]
        /\ UNCHANGED <<isLoading, error, alone>> /\ executions[e] = "acting"
    BY <1>2 DEF ActionReturns, UnderWay
  <2>2. onChain[e] = "none"
    BY <2>1 DEF VHInv
  <2>3. /\ onChain' \in [Executions -> {"none", "pending", "SUCCESS", "FAILED"}]
        /\ \A d \in Executions : d # e => onChain'[d] = onChain[d]
        /\ polls' \in [Executions -> 0..MaxPolls]
    BY <1>1, <2>1, VHTyped, HookAssumption
  <2>4. {isLoading, error}' \subseteq BOOLEAN
    BY <1>1, <2>1, Zenon DEF VHTypeOK
  <2>5. alone => isLoading /\ ~error
    BY <1>1, <2>1 DEF HookTruthful, VHInv
  <2> QED BY <1>1, <2>1, <2>2, <2>3, <2>4, <2>5, ExecutionMoves
<1>3. ASSUME executions[e] \in {"acting", "asking", "sleeping"}, Failed(e), UNCHANGED <<polls, onChain, alone>>
      PROVE  VHInv'
  <2>1. /\ error' = TRUE /\ step' = "idle" /\ isLoading' = FALSE /\ UNCHANGED txHash
        /\ executions' = [executions EXCEPT ![e] = "over"] /\ e \in UnderWay
    BY <1>3 DEF Failed, UnderWay
  <2>2. {isLoading, error}' \subseteq BOOLEAN
    BY <2>1
  <2>3. alone => txHash \in {0, e}
    BY <1>3 DEF VHInv
  <2> QED BY <1>1, <1>3, <2>1, <2>2, <2>3, VHTyped, ExecutionMoves DEF VHTypeOK
<1>4. CASE Confirmed(e)
  <2>1. /\ step' = "confirmed" /\ isLoading' = FALSE /\ executions' = [executions EXCEPT ![e] = "over"]
        /\ UNCHANGED <<error, txHash, polls, onChain, alone>> /\ onChain[e] = "SUCCESS"
        /\ executions[e] = "asking" /\ e \in UnderWay
    BY <1>4 DEF Confirmed, UnderWay
  <2>2. {isLoading, error}' \subseteq BOOLEAN
    BY <1>1, <2>1, Zenon DEF VHTypeOK
  <2>3. alone => txHash = e /\ ~error
    BY <1>1, <2>1 DEF VHInv, HookTruthful
  <2> QED BY <1>1, <2>1, <2>2, <2>3, VHTyped, ExecutionMoves DEF VHTypeOK
<1>5. ASSUME NEW to \in {"asking", "sleeping"}, executions[e] \in {"asking", "sleeping"},
             executions' = [executions EXCEPT ![e] = to], UNCHANGED <<step, isLoading, error, txHash, onChain, alone>>,
             polls' \in [Executions -> 0..MaxPolls]
      PROVE  VHInv'
  <2>1. e \in UnderWay
    BY <1>5 DEF UnderWay
  <2>2. {isLoading, error}' \subseteq BOOLEAN
    BY <1>1, <1>5, Zenon DEF VHTypeOK
  <2>3. alone => isLoading /\ step = "submitted" /\ txHash = e /\ ~error
    BY <1>1, <1>5, <2>1 DEF VHInv, HookTruthful
  <2> QED BY <1>1, <1>5, <2>1, <2>2, <2>3, VHTyped, ExecutionMoves DEF VHTypeOK
<1>6. CASE NotFound(e)
  BY <1>1, <1>5, <1>6, VHTyped DEF NotFound
<1>7. CASE NextPoll(e)
  <2>1. CASE Failed(e) /\ UNCHANGED polls
    BY <1>3, <1>7, <2>1 DEF NextPoll
  <2>2. CASE ~(Failed(e) /\ UNCHANGED polls)
    <3>1. /\ polls[e] < MaxPolls /\ polls' = [polls EXCEPT ![e] = @ + 1] /\ executions[e] = "sleeping"
          /\ executions' = [executions EXCEPT ![e] = "asking"]
          /\ UNCHANGED <<step, isLoading, error, txHash, onChain, alone>>
      BY <1>7, <2>2 DEF NextPoll
    <3>2. polls[e] + 1 \in 0..MaxPolls
      BY <1>1, <3>1, VHTyped, HookAssumption
    <3>3. polls' \in [Executions -> 0..MaxPolls]
      BY <1>1, <3>1, <3>2, VHTyped
    <3> QED BY <1>5, <3>1, <3>3
  <2> QED BY <2>1, <2>2
<1> QED BY <1>2, <1>3, <1>4, <1>6, <1>7 DEF ActionThrows, PollFails

LEMMA ResetHookKeeps == VHInv /\ ResetHook => VHInv'
<1> SUFFICES ASSUME VHInv, ResetHook PROVE VHInv'
  OBVIOUS
<1>1. /\ step' = "idle" /\ isLoading' = FALSE /\ error' = FALSE /\ txHash' = 0
      /\ alone' = (alone /\ UnderWay = {}) /\ UNCHANGED <<executions, polls, onChain>> /\ VHTypeOK
  BY DEF ResetHook, VHInv
<1>2. UnderWay' = UnderWay
  BY <1>1 DEF UnderWay
<1>3. VHTypeOK'
  <2>1. {isLoading, error, alone}' \subseteq BOOLEAN
    BY <1>1, Zenon
  <2>2. 0 \in 0..MaxExecutions
    BY <1>1, VHTyped
  <2> QED BY <1>1, <2>1, <2>2 DEF VHTypeOK
<1>4. alone' => \A e \in Executions : executions'[e] \notin {"acting", "asking", "sleeping"}
  BY <1>1 DEF UnderWay
<1>5. HookTruthful'
  BY <1>1, <1>2 DEF HookTruthful
<1>6. alone' => UnderWay' = {}
  BY <1>1, <1>2
<1> QED BY <1>1, <1>3, <1>4, <1>5, <1>6 DEF VHInv

LEMMA SettlesKeeps == ASSUME VHInv, NEW e \in Executions, Settles(e) PROVE VHInv'
<1>1. PICK status \in {"SUCCESS", "FAILED"} : onChain' = [onChain EXCEPT ![e] = status]
  BY DEF Settles
<1>2. /\ UNCHANGED <<step, isLoading, error, txHash, executions, polls, alone>> /\ onChain[e] = "pending" /\ VHTypeOK
  BY DEF Settles, VHInv
<1>3. onChain' \in [Executions -> {"none", "pending", "SUCCESS", "FAILED"}]
      /\ \A d \in Executions : d # e => onChain'[d] = onChain[d]
  BY <1>1, <1>2, VHTyped
<1>4. VHTypeOK'
  BY <1>2, <1>3 DEF VHTypeOK
<1>5. UnderWay' = UnderWay
  BY <1>2 DEF UnderWay
<1>6. \A d \in Executions : onChain[d] \in {"SUCCESS", "none"} => onChain'[d] = onChain[d]
  BY <1>2, <1>3
<1>7. \A d \in Executions : executions'[d] \in {"idle", "acting"} => onChain'[d] = "none"
  BY <1>2, <1>6 DEF VHInv
<1>8. txHash # 0 => txHash \in Executions
  BY <1>2, VHTyped DEF VHTypeOK, Executions
<1>9. HookTruthful'
  BY <1>2, <1>5, <1>6, <1>8 DEF VHInv, HookTruthful
<1> QED BY <1>2, <1>4, <1>5, <1>7, <1>9 DEF VHInv

LEMMA VHNextInv == VHInv /\ [VHNext]_vhVars => VHInv'
<1> SUFFICES ASSUME VHInv, [VHNext]_vhVars PROVE VHInv'
  OBVIOUS
<1>1. CASE UNCHANGED vhVars
  BY <1>1 DEF vhVars, VHInv, VHTypeOK, HookTruthful, UnderWay
<1> QED BY <1>1, ExecuteKeeps, VHSystemKeeps, ResetHookKeeps, SettlesKeeps DEF VHNext, VHSystem, ExecutionAnswered

-----------------------------------------------------------------------------
(* Failures on their way through the client.                                *)

\* How often one round sends, at most, and with what a round can end.
SendsPerRound(call) == IF call.operation \in Retrying THEN call.retries + 1 ELSE 1

RoundsCounted ==
    /\ {tries, rounds, timesSent} \subseteq Nat
    /\ ecPhase = "none" => timesSent = 0
    /\ ecPhase # "none" =>
          /\ rounds \in 1..MaxRounds /\ tries \in 1..SendsPerRound(rpcCall)
          /\ timesSent <= (rounds - 1) * SendsPerRound(rpcCall) + tries
          /\ timesSent >= rounds - 1 + tries
    /\ ecPhase = "waiting" => tries < SendsPerRound(rpcCall)
    /\ ecPhase = "sleeping" => rounds < MaxRounds

\* What a call waits for, and what it was given up for.
WaitsAndRejects ==
    /\ ecPhase = "none" => lastAnswer = Plain("success")
    /\ ecPhase = "waiting" => rpcCall.operation \in Retrying /\ lastAnswer.status \in HttpRetryable
    /\ ecPhase \in {"sleeping", "rejected"} =>
          /\ rejection = Rejects(rpcCall, lastAnswer) /\ lastAnswer.kind # "success"
          /\ rpcCall.operation \in Retrying /\ lastAnswer.status \in HttpRetryable => tries = SendsPerRound(rpcCall)
    /\ ecPhase = "sleeping" => ErrorRetryable(rejection)
    /\ ecPhase = "rejected" => rounds = MaxRounds \/ ~ErrorRetryable(rejection)

RepeatsJudged ==
    /\ ecPhase = "none" => repeatedAfter = {}
    /\ \A kind \in repeatedAfter :
          IF rpcCall.operation = "sendTransaction" THEN kind.timedOut
          ELSE Disguised(rpcCall) \/ kind.transient
    /\ rpcCall.operation \in {"simulateTransaction", "prepareTransaction"} => timesSent <= 1

ECInv ==
    /\ rpcCall \in RpcCalls /\ lastAnswer \in RpcAnswers(rpcCall.operation)
    /\ ecPhase \in {"none", "asking", "waiting", "sleeping", "resolved", "rejected"}
    /\ RoundsCounted /\ WaitsAndRejects /\ RepeatsJudged

LEMMA AnswerShape ==
    ASSUME NEW operation \in RpcOperations, NEW given_ \in RpcAnswers(operation)
    PROVE  /\ given_.kind \in {"success", "failure", "mismatch", "refused"}
           /\ given_.status \in Nat /\ given_.words \in FailureWords
           /\ given_.coded \in BOOLEAN /\ given_.identified \in BOOLEAN
           /\ given_.kind # "failure" => given_ = Plain(given_.kind) /\ given_.status = NoStatus
           /\ given_.kind = "mismatch" =>
                operation \in {"getHealth", "getTransaction", "simulateTransaction", "prepareTransaction"}
           /\ given_.kind = "refused" => operation \in {"simulateTransaction", "prepareTransaction"}
<1>1. CASE given_ \in Failures
  <2>1. /\ given_.kind = "failure" /\ given_.status \in FailureStatuses \cup {NoStatus} /\ given_.words \in FailureWords
        /\ given_.coded \in BOOLEAN /\ given_.identified \in BOOLEAN
    BY <1>1 DEF Failures
  <2>2. given_.status \in Nat
    <3>1. FailureStatuses \subseteq Nat /\ NoStatus \in Nat
      BY CallErrorsAssumption DEF NoStatus
    <3> QED BY <2>1, <3>1, Zenon
  <2> QED BY <2>1, <2>2
<1>2. ASSUME NEW kind, given_ = Plain(kind), kind \in {"success", "mismatch", "refused"}
      PROVE  /\ given_.kind = kind
             /\ given_.status = NoStatus /\ given_.words \in FailureWords
             /\ given_.coded \in BOOLEAN /\ given_.identified \in BOOLEAN /\ given_ = Plain(given_.kind)
  BY <1>2 DEF Plain, FailureWords
<1>3. NoStatus \in Nat
  BY DEF NoStatus
<1>4. CASE given_ = Plain("success")
  BY <1>2, <1>3, <1>4
<1>5. CASE /\ given_ = Plain("mismatch")
           /\ operation \in {"getHealth", "getTransaction", "simulateTransaction", "prepareTransaction"}
  BY <1>2, <1>3, <1>5
<1>6. CASE given_ = Plain("refused") /\ operation \in {"simulateTransaction", "prepareTransaction"}
  BY <1>2, <1>3, <1>6
<1> QED BY <1>1, <1>4, <1>5, <1>6 DEF RpcAnswers

\* A raw failure becomes an error to repeat for only if it was transient.
LEMMA RetryableWasTransient ==
    ASSUME NEW raw, raw.status \in Nat, raw.coded \in BOOLEAN, raw.kind = "failure",
           ErrorRetryable(ToAxionveraError(raw))
    PROVE  Kind(raw).transient
<1> DEFINE e == ToAxionveraError(raw)
<1>1. e.status = raw.status
  BY DEF ToAxionveraError, SdkError
<1>2. CASE raw.status \in 400..499
  <2>1. raw.status # 429 => e.name \in {"AuthenticationError", "ValidationError"}
    <3> DEFINE others == 400..499 \ {401, 403, 429}
    <3>1. raw.status \in {401, 403} \/ raw.status = 429 \/ raw.status \in others
      BY <1>2
    <3>2. ~(raw.status \in {401, 403} /\ raw.status \in others) /\ ~(raw.status = 429 /\ raw.status \in others)
          /\ raw.status # NoStatus /\ ~(raw.status >= 500)
      BY <1>2 DEF NoStatus
    <3> HIDE DEF others
    <3>3. e = SdkError(CASE raw.status \in {401, 403} -> "AuthenticationError"
                        [] raw.status = 429 -> "RateLimitError"
                        [] raw.status \in others -> "ValidationError"
                        [] raw.status = NoStatus \/ raw.status >= 500 -> "NetworkError"
                        [] OTHER -> IF raw.coded THEN "NetworkError" ELSE "AxionveraError",
                      raw.status, raw.identified)
      BY Zenon DEF ToAxionveraError, others
    <3> QED BY <3>1, <3>2, <3>3 DEF SdkError
  <2>2. raw.status = 429
    BY <2>1 DEF ErrorRetryable, NonRetryableNames
  <2> QED BY <2>2 DEF Kind, RetryableStatusCodes
<1>3. CASE raw.status = NoStatus \/ raw.status >= 500
  BY <1>3 DEF Kind
<1>4. CASE raw.status \notin 400..499 /\ raw.status # NoStatus /\ raw.status < 500
  <2>1. raw.status \notin RetryableStatusCodes
    BY <1>4 DEF RetryableStatusCodes
  <2>2. ~raw.coded => e.name = "AxionveraError"
    BY <1>4 DEF ToAxionveraError, SdkError
  <2>3. raw.coded
    BY <1>1, <2>1, <2>2 DEF ErrorRetryable, RetryableNames
  <2> QED BY <1>4, <2>3 DEF Kind
<1> QED BY <1>2, <1>3, <1>4

\* What an operation makes of an answer, where the outer loop would go on.
LEMMA RepeatedFor ==
    ASSUME NEW call \in RpcCalls, NEW given_ \in RpcAnswers(call.operation), given_.kind # "success",
           ErrorRetryable(Rejects(call, given_))
    PROVE  /\ IF call.operation = "sendTransaction" THEN Kind(given_).timedOut
              ELSE Disguised(call) \/ Kind(given_).transient
           /\ call.operation \notin {"simulateTransaction", "prepareTransaction"}
<1>0. call.operation \in RpcOperations /\ call.meta \in BOOLEAN
  BY DEF RpcCalls
<1> DEFINE e == Rejects(call, given_)
<1>1. /\ given_.kind \in {"failure", "mismatch", "refused"} /\ given_.status \in Nat /\ given_.words \in FailureWords
      /\ given_.coded \in BOOLEAN
      /\ given_.kind # "failure" => given_.status = NoStatus /\ given_.words = "other"
      /\ given_.kind = "mismatch" =>
           call.operation \in {"getHealth", "getTransaction", "simulateTransaction", "prepareTransaction"}
      /\ given_.kind = "refused" => call.operation \in {"simulateTransaction", "prepareTransaction"}
  <2>1. given_.kind # "failure" => given_.words = "other"
    BY <1>0, AnswerShape DEF Plain
  <2> QED BY <1>0, <2>1, AnswerShape
<1>2. FromAnswer(given_).name = "RPCValidationMismatchError" => ~ErrorRetryable(FromAnswer(given_))
  BY DEF ErrorRetryable, RetryableNames, RetryableStatusCodes, FromAnswer, ToAxionveraError, SdkError, NoStatus
<1>3. ErrorRetryable(FromAnswer(given_)) => Kind(given_).transient
  <2>1. given_.kind # "failure" => FromAnswer(given_).name = "RPCValidationMismatchError"
    BY DEF FromAnswer, SdkError
  <2>2. given_.kind = "failure" => FromAnswer(given_) = ToAxionveraError(given_)
    BY DEF FromAnswer
  <2> QED BY <1>1, <1>2, <2>1, <2>2, RetryableWasTransient
<1>4. CASE call.operation = "getHealth"
  <2>1. ~call.meta => e = FromAnswer(given_)
    BY <1>4 DEF Rejects, GetHealthError
  <2> QED BY <1>0, <1>3, <1>4, <2>1 DEF Disguised
<1>5. CASE call.operation \in {"getNetwork", "getLatestLedger"}
  BY <1>5 DEF Disguised
<1>6. CASE call.operation \in {"getAccount", "getTransaction", "prepareFeeBump"}
  <2>1. e = FromAnswer(given_)
    BY <1>6 DEF Rejects
  <2> QED BY <1>3, <1>6, <2>1
<1>7. CASE call.operation \in {"simulateTransaction", "prepareTransaction"}
  <2>1. \A meta : /\ SimulationError(given_, meta).name \in {"SimulationFailedError", "RPCValidationMismatchError"}
                  /\ SimulationError(given_, meta).status = NoStatus
    BY DEF SimulationError, FromAnswer, SdkError
  <2>2. e.name \in {"SimulationFailedError", "RPCValidationMismatchError"} /\ e.status = NoStatus
    BY <1>7, <2>1 DEF Rejects
  <2> QED BY <2>2 DEF ErrorRetryable, RetryableNames, RetryableStatusCodes, NoStatus
<1>8. CASE call.operation = "sendTransaction"
  <2>1. e = NormalizeTransactionError(given_)
    BY <1>8 DEF Rejects
  <2>2. e.status = NoStatus
    BY <2>1 DEF NormalizeTransactionError, SdkError
  <2>3. given_.words # "timeout" => e.name \in {"InsufficientFundsError", "InvalidSignatureError", "TransactionError"}
    BY <1>1, <2>1 DEF NormalizeTransactionError, SdkError, FailureWords
  <2>4. given_.words = "timeout"
    BY <2>2, <2>3 DEF ErrorRetryable, RetryableNames, NonRetryableNames, RetryableStatusCodes, NoStatus
  <2> QED BY <1>8, <2>4 DEF Kind
<1>9. CASE call.operation = "fundAccount"
  <2>1. e = FaucetError(given_) /\ given_.kind = "failure"
    BY <1>1, <1>9 DEF Rejects
  <2>2. given_.status # 429 => e.name = "AxionveraError" /\ e.status = given_.status
    BY <2>1 DEF FaucetError, SdkError
  <2>3. given_.status \in RetryableStatusCodes
    BY <2>2 DEF ErrorRetryable, RetryableNames, RetryableStatusCodes
  <2> QED BY <1>9, <2>1, <2>3 DEF Kind
<1> QED BY <1>0, <1>4, <1>5, <1>6, <1>7, <1>8, <1>9 DEF RpcOperations, Retrying

\* An overloaded server is repeated for by the outer loop, whatever read met it.
LEMMA OverloadIsRetryable ==
    ASSUME NEW call \in RpcCalls, NEW given_ \in RpcAnswers(call.operation), given_.status \in HttpRetryable,
           call.operation \in Retrying
    PROVE  ErrorRetryable(Rejects(call, given_))
<1>0. call.operation \in RpcOperations
  BY DEF RpcCalls
<1>1. given_.kind = "failure" /\ given_.status \in {429, 500, 502, 503, 504}
  BY <1>0, AnswerShape DEF HttpRetryable, NoStatus
<1>2. FromAnswer(given_).name \in {"RateLimitError", "NetworkError"}
  BY <1>1 DEF FromAnswer, ToAxionveraError, SdkError
<1>3. Rejects(call, given_).name \in {"RateLimitError", "NetworkError", "AxionveraRPCError"}
  <2>1. CASE call.operation = "getHealth"
    <3>1. GetHealthError(given_, call.meta).name \in {"RateLimitError", "NetworkError", "AxionveraRPCError"}
      BY <1>2 DEF GetHealthError, SdkError
    <3> QED BY <2>1, <3>1 DEF Rejects
  <2>2. CASE call.operation \in {"getNetwork", "getLatestLedger"}
    BY <2>2 DEF Rejects, SdkError
  <2>3. CASE call.operation \in {"getAccount", "getTransaction"}
    BY <1>2, <2>3 DEF Rejects
  <2> QED BY <2>1, <2>2, <2>3 DEF Retrying
<1> QED BY <1>3 DEF ErrorRetryable, RetryableNames, NonRetryableNames

LEMMA StatusKept ==
    ASSUME NEW call, NEW given_ \in RpcAnswers(call.operation),
           call.operation \in {"getHealth", "getAccount", "getTransaction", "prepareFeeBump", "fundAccount"}
    PROVE  Rejects(call, given_).status = given_.status
<1>0. call.operation \in RpcOperations
  BY DEF RpcOperations, Retrying
<1>1. FromAnswer(given_).status = given_.status
  BY <1>0, AnswerShape DEF FromAnswer, ToAxionveraError, SdkError
<1>2. GetHealthError(given_, call.meta).status = given_.status
  BY <1>1 DEF GetHealthError, SdkError
<1>3. FaucetError(given_).status = given_.status
  BY DEF FaucetError, SdkError
<1> QED BY <1>1, <1>2, <1>3 DEF Rejects

LEMMA RoundsFitProduct ==
    ASSUME NEW m \in Nat, NEW r \in 1..m, NEW k \in Nat, NEW t \in 1..k
    PROVE  (r - 1) * k + t <= m * k /\ (r - 1) * k + k = r * k
<1>1. PICK d \in Nat : m = r + d
  BY Z3
<1>2. m * k = r * k + d * k /\ d * k >= 0 /\ (r - 1) * k + k = r * k
  BY <1>1, Z3
<1>3. (r - 1) * k \in Int /\ r * k \in Int /\ m * k \in Int /\ d * k \in Int
  OBVIOUS
<1> QED BY <1>2, <1>3

LEMMA SendsTyped ==
    ASSUME NEW call \in RpcCalls
    PROVE  call.retries \in Nat /\ SendsPerRound(call) \in Nat \ {0}
<1>1. call.retries \in InnerRetries
  BY DEF RpcCalls
<1>2. call.retries \in Nat
  BY <1>1, CallErrorsAssumption
<1> QED BY <1>2 DEF SendsPerRound

LEMMA ECInvJudged == ECInv => FailuresJudged
<1> SUFFICES ASSUME ECInv PROVE FailuresJudged
  OBVIOUS
<1> DEFINE k == SendsPerRound(rpcCall)
<1>1. /\ rpcCall \in RpcCalls /\ rpcCall.retries \in Nat /\ lastAnswer \in RpcAnswers(rpcCall.operation)
      /\ k \in Nat \ {0} /\ MaxRounds \in Nat \ {0}
  BY CallErrorsAssumption, SendsTyped DEF ECInv
<1>2. timesSent <= MaxRounds * k
  <2>1. CASE ecPhase = "none"
    <3>1. timesSent = 0 /\ MaxRounds * k >= 0
      BY <1>1, <2>1 DEF ECInv, RoundsCounted
    <3> QED BY <3>1
  <2>2. CASE ecPhase # "none"
    <3>1. /\ rounds \in 1..MaxRounds /\ tries \in 1..k /\ timesSent \in Nat
          /\ timesSent <= (rounds - 1) * k + tries
      BY <2>2 DEF ECInv, RoundsCounted
    <3> HIDE DEF k
    <3>2. (rounds - 1) * k + tries <= MaxRounds * k
      BY <1>1, <3>1, RoundsFitProduct
    <3> QED BY <1>1, <3>1, <3>2
  <2> QED BY <2>1, <2>2
<1>3. ASSUME ecPhase = "rejected",
             rpcCall.operation \in {"getHealth", "getAccount", "getTransaction", "prepareFeeBump", "fundAccount"}
      PROVE  rejection.status = lastAnswer.status
  BY <1>1, <1>3, StatusKept DEF ECInv, WaitsAndRejects
<1>4. ASSUME ecPhase = "rejected", rpcCall.operation \in Retrying, lastAnswer.status \in HttpRetryable
      PROVE  timesSent >= MaxRounds + rpcCall.retries
  <2>1. ErrorRetryable(rejection) /\ tries = rpcCall.retries + 1
    BY <1>1, <1>4, OverloadIsRetryable DEF ECInv, WaitsAndRejects, SendsPerRound
  <2>2. rounds = MaxRounds
    BY <1>4, <2>1 DEF ECInv, WaitsAndRejects
  <2>3. timesSent >= rounds - 1 + tries /\ timesSent \in Nat
    BY <1>4 DEF ECInv, RoundsCounted
  <2> QED BY <1>1, <2>1, <2>2, <2>3
<1>5. timesSent <= MaxRounds * (IF rpcCall.operation \in Retrying THEN rpcCall.retries + 1 ELSE 1)
  BY <1>2 DEF SendsPerRound
<1> QED BY <1>3, <1>4, <1>5 DEF FailuresJudged, ECInv, RepeatsJudged

LEMMA ECInitInv == ECInit => ECInv
<1> SUFFICES ASSUME ECInit PROVE ECInv
  OBVIOUS
<1>1. (CHOOSE n \in InnerRetries : TRUE) \in InnerRetries
  BY CallErrorsAssumption
<1>2. rpcCall \in RpcCalls /\ rpcCall.operation = "getHealth"
  BY <1>1 DEF ECInit, RpcCalls, RpcOperations, Retrying
<1>3. lastAnswer \in RpcAnswers(rpcCall.operation)
  BY DEF ECInit, RpcAnswers
<1>4. tries = 0 /\ rounds = 0 /\ timesSent = 0 /\ repeatedAfter = {} /\ ecPhase = "none"
  BY DEF ECInit
<1>5. lastAnswer = Plain("success")
  BY DEF ECInit
<1>6. RoundsCounted
  BY <1>4 DEF RoundsCounted
<1>7. WaitsAndRejects /\ RepeatsJudged
  BY <1>4, <1>5 DEF WaitsAndRejects, RepeatsJudged
<1> QED BY <1>2, <1>3, <1>4, <1>6, <1>7 DEF ECInv

LEMMA MakeCallKeeps ==
    ASSUME ECInv, NEW call \in RpcCalls, MakeCall(call) PROVE ECInv'
<1> DEFINE k == SendsPerRound(call)
<1>1. /\ rpcCall' = call /\ tries' = 1 /\ rounds' = 1 /\ timesSent' = 1 /\ ecPhase' = "asking"
      /\ repeatedAfter' = {} /\ lastAnswer' = Plain("success")
  BY DEF MakeCall, ECInv, RepeatsJudged, WaitsAndRejects
<1>2. lastAnswer' \in RpcAnswers(rpcCall'.operation)
  BY <1>1 DEF RpcAnswers
<1>3. k \in Nat \ {0} /\ 1 \in 1..MaxRounds
  BY CallErrorsAssumption, SendsTyped
<1> HIDE DEF k
<1>4. (1 - 1) * k = 0 /\ 1 \in 1..k
  BY <1>3
<1>5. /\ {tries', rounds', timesSent'} \subseteq Nat /\ rounds' \in 1..MaxRounds /\ tries' \in 1..k
      /\ timesSent' <= (rounds' - 1) * k + tries' /\ timesSent' >= rounds' - 1 + tries'
  BY <1>1, <1>3, <1>4
<1>6. RoundsCounted'
  BY <1>1, <1>5 DEF RoundsCounted, k
<1>7. WaitsAndRejects' /\ RepeatsJudged'
  BY <1>1 DEF WaitsAndRejects, RepeatsJudged
<1> QED BY <1>1, <1>2, <1>6, <1>7 DEF ECInv

LEMMA AnswerComesKeeps ==
    ASSUME ECInv, NEW given_ \in RpcAnswers(rpcCall.operation), AnswerComes(given_) PROVE ECInv'
<1> DEFINE k == SendsPerRound(rpcCall)
           waits == /\ rpcCall.operation \in Retrying /\ given_.status \in HttpRetryable
                    /\ tries <= rpcCall.retries
           again == rounds < MaxRounds /\ ErrorRetryable(Rejects(rpcCall, given_))
<1>1. /\ ecPhase = "asking" /\ lastAnswer' = given_ /\ UNCHANGED <<rpcCall, tries, rounds, timesSent, repeatedAfter>>
      /\ rpcCall \in RpcCalls /\ rpcCall.retries \in Nat
      /\ {tries, rounds, timesSent} \subseteq Nat /\ rounds \in 1..MaxRounds /\ tries \in 1..k
      /\ timesSent <= (rounds - 1) * k + tries /\ timesSent >= rounds - 1 + tries
      /\ RepeatsJudged /\ MaxRounds \in Nat
  BY CallErrorsAssumption, SendsTyped DEF AnswerComes, ECInv, RoundsCounted
<1>2. \/ ecPhase' = "resolved"
      \/ ecPhase' = "waiting" /\ waits
      \/ /\ given_.kind # "success" /\ ~waits /\ rejection' = Rejects(rpcCall, given_)
         /\ ecPhase' = IF again THEN "sleeping" ELSE "rejected"
  BY <1>1 DEF AnswerComes
<1>3. waits => tries < k
  BY <1>1 DEF SendsPerRound
<1>4. rpcCall.operation \in Retrying /\ given_.status \in HttpRetryable /\ ~waits => tries = k
  BY <1>1 DEF SendsPerRound
<1>5. k' = k
  BY <1>1
<1>6. ecPhase' \in {"resolved", "waiting", "sleeping", "rejected"}
  BY <1>2
<1>7. (ecPhase' = "waiting" => tries' < k') /\ (ecPhase' = "sleeping" => rounds' < MaxRounds)
  BY <1>1, <1>2, <1>3, <1>5
<1>8. RoundsCounted'
  <2> HIDE DEF k
  <2>1. /\ {tries', rounds', timesSent'} \subseteq Nat /\ rounds' \in 1..MaxRounds /\ tries' \in 1..k'
        /\ timesSent' <= (rounds' - 1) * k' + tries' /\ timesSent' >= rounds' - 1 + tries'
    BY <1>1, <1>5
  <2> QED BY <1>6, <1>7, <2>1 DEF RoundsCounted, k
<1>9. WaitsAndRejects'
  <2> HIDE DEF k
  <2>1. ecPhase' \in {"sleeping", "rejected"} =>
          /\ rejection' = Rejects(rpcCall', lastAnswer') /\ lastAnswer'.kind # "success"
          /\ rpcCall'.operation \in Retrying /\ lastAnswer'.status \in HttpRetryable => tries' = k'
    BY <1>1, <1>2, <1>4, <1>5
  <2>2. ecPhase' = "waiting" => rpcCall'.operation \in Retrying /\ lastAnswer'.status \in HttpRetryable
    BY <1>1, <1>2
  <2>3. ecPhase' = "sleeping" => ErrorRetryable(rejection')
    BY <1>2
  <2>4. ecPhase' = "rejected" => rounds' = MaxRounds \/ ~ErrorRetryable(rejection')
    <3> DEFINE err == ErrorRetryable(Rejects(rpcCall, given_))
    <3>1. ASSUME ecPhase' = "rejected" PROVE rejection' = Rejects(rpcCall, given_) /\ ~(rounds < MaxRounds /\ err)
      BY <1>2, <3>1
    <3> HIDE DEF err
    <3>2. ecPhase' = "rejected" => rounds = MaxRounds \/ ~err
      BY <1>1, <3>1
    <3> QED BY <1>1, <3>1, <3>2 DEF err
  <2> QED BY <1>6, <2>1, <2>2, <2>3, <2>4 DEF WaitsAndRejects, k
<1>10. RepeatsJudged'
  BY <1>1, <1>6 DEF RepeatsJudged
<1> QED BY <1>1, <1>6, <1>8, <1>9, <1>10 DEF ECInv

LEMMA SendAgainKeeps ==
    ASSUME ECInv, SendAgain PROVE ECInv'
<1> DEFINE k == SendsPerRound(rpcCall)
<1>0. /\ ecPhase \in {"waiting", "sleeping"} /\ ecPhase' = "asking"
      /\ UNCHANGED rpcCall /\ timesSent' = timesSent + 1 /\ lastAnswer' = Plain("success")
      /\ repeatedAfter' = repeatedAfter \cup {Kind(lastAnswer)}
  BY DEF SendAgain
<1>1. /\ ecPhase \in {"waiting", "sleeping"} /\ ecPhase' = "asking"
      /\ UNCHANGED rpcCall /\ timesSent' = timesSent + 1 /\ lastAnswer' = Plain("success")
      /\ repeatedAfter' = repeatedAfter \cup {Kind(lastAnswer)}
      /\ rpcCall \in RpcCalls /\ rpcCall.retries \in Nat /\ lastAnswer \in RpcAnswers(rpcCall.operation)
      /\ {tries, rounds, timesSent} \subseteq Nat /\ rounds \in 1..MaxRounds /\ tries \in 1..k
      /\ timesSent <= (rounds - 1) * k + tries /\ timesSent >= rounds - 1 + tries
      /\ RepeatsJudged /\ MaxRounds \in Nat /\ k \in Nat /\ k' = k
  BY <1>0, CallErrorsAssumption, SendsTyped DEF ECInv, RoundsCounted
<1>2. lastAnswer' \in RpcAnswers(rpcCall'.operation)
  BY <1>1 DEF RpcAnswers
<1>3. CASE ecPhase = "waiting"
  <2>1. /\ tries' = tries + 1 /\ rounds' = rounds /\ tries < k
        /\ rpcCall.operation \in Retrying /\ lastAnswer.status \in HttpRetryable
    BY <1>3 DEF SendAgain, ECInv, RoundsCounted, WaitsAndRejects
  <2> HIDE DEF k
  <2>2. (rounds - 1) * k \in Int
    BY <1>1
  <2>3. /\ {tries', rounds', timesSent'} \subseteq Nat /\ rounds' \in 1..MaxRounds /\ tries' \in 1..k
        /\ timesSent' <= (rounds' - 1) * k + tries' /\ timesSent' >= rounds' - 1 + tries'
    BY <1>1, <2>1, <2>2
  <2>4. RoundsCounted'
    BY <1>1, <2>3 DEF RoundsCounted, k
  <2>5. Kind(lastAnswer).transient
    <3>1. rpcCall.operation \in RpcOperations
      BY <1>1 DEF RpcCalls
    <3>2. lastAnswer.kind = "failure"
      BY <1>1, <2>1, <3>1, AnswerShape DEF HttpRetryable, NoStatus
    <3>3. lastAnswer.status \in RetryableStatusCodes
      BY <2>1 DEF HttpRetryable, RetryableStatusCodes
    <3> QED BY <3>2, <3>3 DEF Kind
  <2>6. rpcCall.operation \notin {"sendTransaction", "simulateTransaction", "prepareTransaction"}
    BY <2>1 DEF Retrying
  <2>7. RepeatsJudged'
    BY <1>1, <2>5, <2>6 DEF RepeatsJudged
  <2>8. WaitsAndRejects'
    BY <1>1 DEF WaitsAndRejects
  <2> QED BY <1>1, <1>2, <2>4, <2>7, <2>8 DEF ECInv
<1>4. CASE ecPhase = "sleeping"
  <2>1. /\ tries' = 1 /\ rounds' = rounds + 1 /\ rounds < MaxRounds
        /\ lastAnswer.kind # "success" /\ ErrorRetryable(Rejects(rpcCall, lastAnswer))
    BY <1>4 DEF SendAgain, ECInv, RoundsCounted, WaitsAndRejects
  <2> DEFINE kind_ == Kind(lastAnswer)
  <2>2. /\ IF rpcCall.operation = "sendTransaction" THEN kind_.timedOut
           ELSE Disguised(rpcCall) \/ kind_.transient
        /\ rpcCall.operation \notin {"simulateTransaction", "prepareTransaction"}
    BY <1>1, <2>1, RepeatedFor
  <2> HIDE DEF k, kind_
  <2>3. (rounds - 1) * k + k = rounds * k /\ (rounds - 1) * k \in Int /\ rounds * k \in Int
    BY <1>1, RoundsFitProduct
  <2>4. timesSent + 1 <= rounds * k + 1
    BY <1>1, <2>3
  <2>5. (rounds + 1) - 1 = rounds
    BY <1>1
  <2>6. /\ {tries', rounds', timesSent'} \subseteq Nat /\ rounds' \in 1..MaxRounds /\ tries' \in 1..k
        /\ timesSent' <= (rounds' - 1) * k + tries' /\ timesSent' >= rounds' - 1 + tries'
    BY <1>1, <2>1, <2>3, <2>4, <2>5
  <2>7. RoundsCounted'
    BY <1>1, <2>6 DEF RoundsCounted, k
  <2>8. RepeatsJudged'
    BY <1>1, <2>2 DEF RepeatsJudged, kind_
  <2>9. WaitsAndRejects'
    BY <1>1 DEF WaitsAndRejects
  <2> QED BY <1>1, <1>2, <2>7, <2>8, <2>9 DEF ECInv
<1> QED BY <1>1, <1>3, <1>4

LEMMA ECNextInv == ECInv /\ [ECNext]_ecVars => ECInv'
<1> SUFFICES ASSUME ECInv, [ECNext]_ecVars PROVE ECInv'
  OBVIOUS
<1>1. CASE UNCHANGED ecVars
  BY <1>1 DEF ecVars, ECInv, RoundsCounted, WaitsAndRejects, RepeatsJudged
<1> QED BY <1>1, MakeCallKeeps, AnswerComesKeeps, SendAgainKeeps DEF ECNext, ECSystem, CallAnswered

-----------------------------------------------------------------------------
(* Recordings and replays.                                                  *)

ReplayResult == [id : 1..MaxRecorded, outcome : Outcomes \cup {NoHandler}]

\* A list of interactions tells of calls that have settled.
Told(list) ==
    /\ list \in Seq(Interaction)
    /\ \A i \in DOMAIN list : list[i].id \in DOMAIN recordings /\ list[i].outcome = recordings[list[i].id]

\* The results are those of the first interactions of the session, all of them when
\* the replay is over, or up to a failure that stops it.
Replays(session, stopOnFailure, replies, going) ==
    /\ session \in Seq(Interaction) /\ replies \in Seq(ReplayResult) /\ Len(replies) <= Len(session)
    /\ \A j \in DOMAIN replies : replies[j].id = session[j].id
    /\ going =>
          /\ Len(replies) < Len(session)
          /\ stopOnFailure => \A j \in DOMAIN replies : replies[j].outcome \in ReplayResults
    /\ ~going /\ Len(replies) < Len(session) =>
          /\ stopOnFailure
          /\ \A j \in DOMAIN replies : replies[j].outcome \in ReplayResults <=> j < Len(replies)

IRInv ==
    /\ recordings \in Seq(Outcomes \cup {"running"})
    /\ Told(interactions) /\ Told(exported)
    /\ ~imported => settledSince = [i \in DOMAIN interactions |-> interactions[i].id]
    /\ replay \in [session : Seq(Interaction), stopOnFailure : BOOLEAN, results : Seq(ReplayResult), running : BOOLEAN]
    /\ Replays(replay.session, replay.stopOnFailure, replay.results, replay.running)

\* The last result with an id is of an interaction with it.
LEMMA ReplayJudges ==
    ASSUME NEW session, NEW stopOnFailure, NEW replies, Replays(session, stopOnFailure, replies, FALSE)
    PROVE  LET passes == Validate(session, replies)
               unique == \A i, j \in DOMAIN session : session[i].id = session[j].id => i = j
           IN  /\ unique => \A i \in DOMAIN session :
                     passes[i] <=> i \in DOMAIN replies /\ CompareOne(session[i].outcome, replies[i].outcome)
               /\ \A i \in DOMAIN session :
                     passes[i] => \E j \in DOMAIN replies : /\ replies[j].id = session[i].id
                                                            /\ CompareOne(session[i].outcome, replies[j].outcome)
<1> DEFINE Same(i) == {j \in DOMAIN replies : replies[j].id = session[i].id}
           passes == Validate(session, replies)
<1>1. /\ DOMAIN session = 1..Len(session) /\ DOMAIN replies = 1..Len(replies) /\ Len(session) \in Nat
      /\ Len(replies) \in Nat /\ Len(replies) <= Len(session)
      /\ \A j \in DOMAIN replies : replies[j].id = session[j].id
  BY LenProperties DEF Replays
<1>2. \A i \in DOMAIN session :
         passes[i] = (/\ \E j \in DOMAIN replies : replies[j].id = session[i].id
                      /\ CompareOne(session[i].outcome, replies[Max(Same(i))].outcome))
  BY Zenon DEF Validate
<1>3. ASSUME NEW i \in DOMAIN session, NEW j \in DOMAIN replies, replies[j].id = session[i].id
      PROVE  Max(Same(i)) \in Same(i)
  <2>1. Same(i) \in SUBSET (0..Len(replies)) /\ Same(i) # {}
    BY <1>1, <1>3
  <2> QED BY <1>1, <2>1, MaxIsGreatest
<1> HIDE DEF passes
<1>4. ASSUME NEW i \in DOMAIN session, passes[i]
      PROVE  \E j \in DOMAIN replies : /\ replies[j].id = session[i].id
                                       /\ CompareOne(session[i].outcome, replies[j].outcome)
  <2>1. Max(Same(i)) \in Same(i)
    BY <1>2, <1>3, <1>4
  <2> QED BY <1>2, <1>4, <2>1
<1>5. ASSUME \A i, j \in DOMAIN session : session[i].id = session[j].id => i = j,
             NEW i \in DOMAIN session
      PROVE  passes[i] <=> i \in DOMAIN replies /\ CompareOne(session[i].outcome, replies[i].outcome)
  <2>1. \A j \in DOMAIN replies : j \in DOMAIN session /\ (replies[j].id = session[i].id <=> j = i)
    BY <1>1, <1>5
  <2>2. CASE i \in DOMAIN replies
    <3>1. Max(Same(i)) \in Same(i)
      BY <1>1, <1>3, <2>2
    <3>2. Max(Same(i)) = i
      BY <2>1, <3>1
    <3> QED BY <1>2, <2>1, <2>2, <3>2
  <2>3. CASE i \notin DOMAIN replies
    BY <1>2, <2>1, <2>3
  <2> QED BY <2>2, <2>3
<1> QED BY <1>4, <1>5 DEF passes

LEMMA IRInvJudged == IRInv => ReplayJudged
<1> SUFFICES ASSUME IRInv PROVE ReplayJudged
  OBVIOUS
<1>1. \A i \in DOMAIN interactions : interactions[i].outcome = recordings[interactions[i].id]
  BY DEF IRInv, Told
<1>2. ~imported => [i \in DOMAIN interactions |-> interactions[i].id] = settledSince
  BY DEF IRInv
<1>3. ASSUME ~replay.running
      PROVE  LET session == replay.session
                 replies == replay.results
                 passes  == Validate(session, replies)
                 unique  == \A i, j \in DOMAIN session : session[i].id = session[j].id => i = j
             IN  /\ unique => \A i \in DOMAIN session :
                       passes[i] <=> i \in DOMAIN replies /\ CompareOne(session[i].outcome, replies[i].outcome)
                 /\ \A i \in DOMAIN session :
                       passes[i] => \E j \in DOMAIN replies : /\ replies[j].id = session[i].id
                                                              /\ CompareOne(session[i].outcome, replies[j].outcome)
                 /\ Len(replies) < Len(session) =>
                       /\ replay.stopOnFailure
                       /\ \A j \in DOMAIN replies : replies[j].outcome \in ReplayResults <=> j < Len(replies)
  <2>1. Replays(replay.session, replay.stopOnFailure, replay.results, FALSE)
    BY <1>3 DEF IRInv, Replays
  <2> DEFINE session == replay.session
             replies == replay.results
  <2>2. Len(replies) < Len(session) =>
          /\ replay.stopOnFailure
          /\ \A j \in DOMAIN replies : replies[j].outcome \in ReplayResults <=> j < Len(replies)
    BY <2>1 DEF Replays
  <2> QED BY <2>1, <2>2, ReplayJudges, Zenon
<1> QED BY <1>1, <1>2, <1>3, Zenon DEF ReplayJudged, IROver

LEMMA IRInitInv == IRInit => IRInv
<1> SUFFICES ASSUME IRInit PROVE IRInv
  OBVIOUS
<1>1. /\ recordings = <<>> /\ interactions = <<>> /\ settledSince = <<>> /\ exported = <<>>
      /\ replay.session = <<>> /\ replay.results = <<>> /\ replay.running = FALSE
  BY DEF IRInit, NoReplay
<1>2. Told(<<>>)
  BY DEF Told
<1>3. Replays(<<>>, replay.stopOnFailure, <<>>, FALSE)
  BY DEF Replays
<1>4. settledSince = [i \in DOMAIN interactions |-> interactions[i].id]
  BY <1>1
<1>5. replay \in [session : Seq(Interaction), stopOnFailure : BOOLEAN, results : Seq(ReplayResult), running : BOOLEAN]
  BY DEF IRInit, NoReplay
<1>6. Replays(replay.session, replay.stopOnFailure, replay.results, replay.running)
  BY <1>1, <1>3
<1>7. Told(interactions) /\ Told(exported) /\ recordings \in Seq(Outcomes \cup {"running"})
  BY <1>1, <1>2
<1> QED BY <1>4, <1>5, <1>6, <1>7 DEF IRInv

\* Recorded calls begin and settle, and what has been told of others stays true.
LEMMA ToldStays ==
    ASSUME NEW list, Told(list), \A c \in DOMAIN recordings :
               /\ c \in DOMAIN recordings'
               /\ recordings[c] # "running" => recordings'[c] = recordings[c]
    PROVE  /\ list \in Seq(Interaction)
           /\ \A i \in DOMAIN list : list[i].id \in DOMAIN recordings' /\ list[i].outcome = recordings'[list[i].id]
<1>1. list \in Seq(Interaction)
  BY DEF Told
<1>2. \A i \in DOMAIN list : list[i] \in Interaction
  BY <1>1, LenProperties
<1>3. \A i \in DOMAIN list : list[i].outcome # "running"
  BY <1>2, ReplayAssumption DEF Interaction, Outcomes
<1> QED BY <1>1, <1>3 DEF Told

LEMMA RecorderKeeps ==
    ASSUME IRInv, BeginRecord \/ (\E id \in 1..MaxRecorded, outcome \in Outcomes : RecordSettled(id, outcome))
    PROVE  IRInv'
<1>0. recordings \in Seq(Outcomes \cup {"running"}) /\ DOMAIN recordings = 1..Len(recordings) /\ Len(recordings) \in Nat
  BY LenProperties DEF IRInv
<1>1. CASE BeginRecord
  <2>1. recordings' = Append(recordings, "running") /\ UNCHANGED <<interactions, settledSince, exported, imported, replay>>
    BY <1>1 DEF BeginRecord, Recorder
  <2>2. /\ recordings' \in Seq(Outcomes \cup {"running"}) /\ Len(recordings') = Len(recordings) + 1
        /\ \A c \in 1..Len(recordings) : recordings'[c] = recordings[c]
    BY <1>0, <2>1, AppendProperties
  <2>3. \A c \in DOMAIN recordings : c \in DOMAIN recordings' /\ recordings'[c] = recordings[c]
    BY <1>0, <2>2, LenProperties
  <2>4. Told(interactions)' /\ Told(exported)'
    BY <2>1, <2>3, ToldStays DEF IRInv, Told
  <2> QED BY <2>1, <2>2, <2>4 DEF IRInv, Replays
<1>2. ASSUME NEW id \in 1..MaxRecorded, NEW outcome \in Outcomes, RecordSettled(id, outcome) PROVE IRInv'
  <2> DEFINE new == [id |-> id, outcome |-> outcome]
             n == Len(interactions)
  <2>1. /\ id \in DOMAIN recordings /\ recordings[id] = "running" /\ recordings' = [recordings EXCEPT ![id] = outcome]
        /\ interactions' = Append(interactions, new) /\ settledSince' = Append(settledSince, id)
        /\ UNCHANGED <<exported, imported, replay>>
    BY <1>2 DEF RecordSettled, Recorder
  <2>2. /\ recordings' \in Seq(Outcomes \cup {"running"}) /\ DOMAIN recordings' = DOMAIN recordings
        /\ recordings'[id] = outcome /\ \A c \in DOMAIN recordings : c # id => recordings'[c] = recordings[c]
    BY <1>0, <2>1, ExceptSeq
  <2>3. \A c \in DOMAIN recordings : c \in DOMAIN recordings' /\ (recordings[c] # "running" => recordings'[c] = recordings[c])
    BY <2>1, <2>2
  <2>4. Told(exported)'
    <3>1. Told(exported)
      BY DEF IRInv
    <3>2. /\ exported \in Seq(Interaction)
          /\ \A i \in DOMAIN exported :
               exported[i].id \in DOMAIN recordings' /\ exported[i].outcome = recordings'[exported[i].id]
      BY <2>3, <3>1, ToldStays, Zenon
    <3> QED BY <2>1, <3>2, Zenon DEF Told
  <2>5. /\ n \in Nat /\ DOMAIN interactions = 1..n /\ interactions \in Seq(Interaction)
        /\ \A i \in 1..n : interactions[i].id \in DOMAIN recordings' /\ interactions[i].outcome = recordings'[interactions[i].id]
    <3>1. Told(interactions)
      BY DEF IRInv
    <3>2. /\ interactions \in Seq(Interaction)
          /\ \A i \in DOMAIN interactions :
               interactions[i].id \in DOMAIN recordings' /\ interactions[i].outcome = recordings'[interactions[i].id]
      BY <2>3, <3>1, ToldStays, Zenon
    <3>3. n \in Nat /\ DOMAIN interactions = 1..n
      BY <3>2, LenProperties
    <3> HIDE DEF n
    <3> QED BY <3>2, <3>3, Zenon
  <2>6. new \in Interaction /\ new.id = id /\ new.outcome = outcome
    BY DEF Interaction
  <2> HIDE DEF new, n
  <2>7. /\ interactions' \in Seq(Interaction) /\ DOMAIN interactions' = 1..(n + 1)
        /\ interactions'[n + 1] = new /\ \A i \in 1..n : interactions'[i] = interactions[i]
    BY <2>1, <2>5, <2>6, AppendProperties, LenProperties DEF n
  <2>8. Told(interactions)'
    <3>1. ASSUME NEW i \in 1..(n + 1)
          PROVE  interactions'[i].id \in DOMAIN recordings' /\ interactions'[i].outcome = recordings'[interactions'[i].id]
      <4>1. CASE i = n + 1
        BY <2>1, <2>2, <2>6, <2>7, <4>1
      <4>2. CASE i # n + 1
        <5>1. i \in 1..n
          BY <2>5, <4>2
        <5> QED BY <2>5, <2>7, <5>1
      <4> QED BY <4>1, <4>2
    <3> QED BY <2>7, <3>1 DEF Told
  <2>9. ~imported' => settledSince' = [i \in DOMAIN interactions' |-> interactions'[i].id]
    <3> SUFFICES ASSUME ~imported PROVE settledSince' = [i \in DOMAIN interactions' |-> interactions'[i].id]
      BY <2>1
    <3> DEFINE ids == [i \in 1..n |-> interactions[i].id]
    <3>1. settledSince = ids
      BY <2>5 DEF IRInv
    <3>2. \A i \in 1..n : interactions[i].id \in 1..MaxRecorded
      <4>1. \A i \in 1..n : interactions[i] \in Interaction
        BY <2>5, LenProperties
      <4> QED BY <4>1 DEF Interaction
    <3>3. ids \in [1..n -> 1..MaxRecorded]
      BY <3>2
    <3>4. ids \in Seq(1..MaxRecorded) /\ Len(ids) = n
      BY <2>5, <3>3, FunctionIsSeq
    <3> DEFINE longer == Append(settledSince, id)
    <3>5. /\ longer \in Seq(1..MaxRecorded) /\ Len(longer) = n + 1 /\ longer[n + 1] = id
          /\ \A i \in 1..n : longer[i] = settledSince[i]
      <4>1. settledSince \in Seq(1..MaxRecorded) /\ Len(settledSince) = n
        BY <3>1, <3>4
      <4> HIDE DEF ids, longer
      <4> QED BY <4>1, AppendProperties DEF longer
    <3> HIDE DEF longer
    <3>6. longer = [i \in 1..(n + 1) |-> longer[i]]
      BY <3>5, LenProperties
    <3>7. \A i \in 1..(n + 1) : longer[i] = interactions'[i].id
      <4> TAKE i \in 1..(n + 1)
      <4>1. CASE i = n + 1
        BY <2>6, <2>7, <3>5, <4>1
      <4>2. CASE i # n + 1
        <5>1. i \in 1..n
          BY <2>5, <4>2
        <5> QED BY <2>7, <3>1, <3>5, <5>1
      <4> QED BY <4>1, <4>2
    <3> QED BY <2>1, <2>7, <3>6, <3>7 DEF longer
  <2> QED BY <2>1, <2>2, <2>4, <2>8, <2>9 DEF IRInv, Replays
<1> QED BY <1>1, <1>2

LEMMA ReplayOneKeeps ==
    ASSUME IRInv, NEW outcome \in Outcomes \cup {NoHandler}, ReplayOne(outcome) PROVE IRInv'
<1> DEFINE session == replay.session
           replies == replay.results
           n == Len(replies)
           new == [id |-> session[n + 1].id, outcome |-> outcome]
           longer == Append(replies, new)
           stops == replay.stopOnFailure /\ outcome \notin ReplayResults
           going == ~stops /\ Len(longer) < Len(session)
<1>1. /\ replay.running /\ UNCHANGED <<recordings, interactions, settledSince, exported, imported>>
      /\ replay' = [replay EXCEPT !.results = longer, !.running = going]
  BY DEF ReplayOne
<1>2. /\ session \in Seq(Interaction) /\ replies \in Seq(ReplayResult) /\ n < Len(session)
      /\ n \in Nat /\ Len(session) \in Nat /\ DOMAIN replies = 1..n /\ DOMAIN session = 1..Len(session)
      /\ \A j \in 1..n : replies[j].id = session[j].id
      /\ replay.stopOnFailure => \A j \in 1..n : replies[j].outcome \in ReplayResults
  BY <1>1, LenProperties DEF IRInv, Replays
<1>3. replay \in [session : Seq(Interaction), stopOnFailure : BOOLEAN, results : Seq(ReplayResult), running : BOOLEAN]
  BY DEF IRInv
<1>4. new \in ReplayResult /\ new.id = session[n + 1].id /\ new.outcome = outcome
  <2>1. n + 1 \in DOMAIN session
    BY <1>2
  <2>2. session[n + 1] \in Interaction
    BY <1>2, <2>1, LenProperties
  <2>3. session[n + 1].id \in 1..MaxRecorded
    BY <2>2 DEF Interaction
  <2> QED BY <2>3 DEF ReplayResult
<1>5. going \in BOOLEAN
  OBVIOUS
<1> HIDE DEF new
<1>6. /\ longer \in Seq(ReplayResult) /\ Len(longer) = n + 1 /\ DOMAIN longer = 1..(n + 1)
      /\ longer[n + 1] = new /\ \A j \in 1..n : longer[j] = replies[j]
  BY <1>2, <1>4, AppendProperties, LenProperties
<1> HIDE DEF longer, going
<1>7. /\ replay' \in [session : Seq(Interaction), stopOnFailure : BOOLEAN, results : Seq(ReplayResult), running : BOOLEAN]
      /\ replay'.session = session /\ replay'.stopOnFailure = replay.stopOnFailure
      /\ replay'.results = longer /\ replay'.running = going
  BY <1>1, <1>3, <1>5, <1>6
<1> HIDE DEF session, replies, n
<1>8. \A j \in 1..(n + 1) : longer[j].id = session[j].id
  <2> TAKE j \in 1..(n + 1)
  <2>1. CASE j = n + 1
    BY <1>4, <1>6, <2>1
  <2>2. CASE j # n + 1
    <3>1. j \in 1..n
      BY <1>2, <2>2
    <3> QED BY <1>2, <1>6, <3>1
  <2> QED BY <2>1, <2>2
<1>9. ASSUME going
      PROVE  /\ Len(longer) < Len(session)
             /\ replay.stopOnFailure => \A j \in DOMAIN longer : longer[j].outcome \in ReplayResults
  <2>1. ~stops /\ Len(longer) < Len(session)
    BY <1>9 DEF going
  <2>2. ASSUME replay.stopOnFailure, NEW j \in 1..(n + 1) PROVE longer[j].outcome \in ReplayResults
    <3>1. CASE j = n + 1
      BY <1>4, <1>6, <2>1, <2>2, <3>1
    <3>2. CASE j # n + 1
      <4>1. j \in 1..n
        BY <1>2, <3>2
      <4> QED BY <1>2, <1>6, <2>2, <4>1
    <3> QED BY <3>1, <3>2
  <2> QED BY <1>6, <2>1, <2>2
<1>10. ASSUME ~going, Len(longer) < Len(session)
       PROVE  /\ replay.stopOnFailure
              /\ \A j \in DOMAIN longer : longer[j].outcome \in ReplayResults <=> j < Len(longer)
  <2>1. replay.stopOnFailure /\ outcome \notin ReplayResults
    BY <1>10 DEF going
  <2>2. ASSUME NEW j \in 1..(n + 1) PROVE longer[j].outcome \in ReplayResults <=> j < n + 1
    <3>1. CASE j = n + 1
      BY <1>2, <1>4, <1>6, <2>1, <3>1
    <3>2. CASE j # n + 1
      <4>1. j \in 1..n /\ j < n + 1
        BY <1>2, <3>2
      <4> QED BY <1>2, <1>6, <2>1, <4>1
    <3> QED BY <3>1, <3>2
  <2> QED BY <1>6, <2>1, <2>2
<1>11. Len(longer) <= Len(session)
  BY <1>2, <1>6
<1>12. Replays(session, replay.stopOnFailure, longer, going)
  BY <1>2, <1>6, <1>8, <1>9, <1>10, <1>11 DEF Replays
<1>13. Replays(replay'.session, replay'.stopOnFailure, replay'.results, replay'.running)
  BY <1>7, <1>12
<1>14. Told(interactions)' /\ Told(exported)'
  BY <1>1 DEF IRInv, Told
<1> QED BY <1>1, <1>7, <1>13, <1>14 DEF IRInv, Replays

LEMMA IRNextInv == IRInv /\ [IRNext]_irVars => IRInv'
<1> SUFFICES ASSUME IRInv, [IRNext]_irVars PROVE IRInv'
  OBVIOUS
<1>1. CASE UNCHANGED irVars
  BY <1>1 DEF irVars, IRInv, Told, Replays
<1>2. CASE ClearInteractions
  <2>1. /\ interactions' = <<>> /\ settledSince' = <<>> /\ UNCHANGED <<recordings, exported, replay>>
    BY <1>2 DEF ClearInteractions, Recorder
  <2>2. Told(interactions)' /\ settledSince' = [i \in DOMAIN interactions' |-> interactions'[i].id]
    BY <2>1 DEF Told
  <2> QED BY <2>1, <2>2 DEF IRInv, Told, Replays
<1>3. CASE ExportSession
  BY <1>3 DEF ExportSession, Recorder, IRInv, Told, Replays
<1>4. CASE ImportSession
  <2> DEFINE list == interactions \o exported
  <2>1. interactions' = list /\ imported' = TRUE /\ UNCHANGED <<recordings, settledSince, exported, replay>>
    BY <1>4 DEF ImportSession, Recorder
  <2>2. interactions \in Seq(Interaction) /\ exported \in Seq(Interaction)
    BY DEF IRInv, Told
  <2>3. ToSet(list) = ToSet(interactions) \cup ToSet(exported) /\ list \in Seq(Interaction)
    BY <2>2, ConcatElements, ConcatProperties
  <2>4. \A x \in ToSet(interactions) \cup ToSet(exported) : x.id \in DOMAIN recordings /\ x.outcome = recordings[x.id]
    BY DEF IRInv, Told, ToSet
  <2>5. \A i \in DOMAIN list : list[i] \in ToSet(list)
    BY DEF ToSet
  <2> HIDE DEF list
  <2>6. \A i \in DOMAIN list : list[i].id \in DOMAIN recordings /\ list[i].outcome = recordings[list[i].id]
    BY <2>3, <2>4, <2>5
  <2> QED BY <2>1, <2>3, <2>6 DEF IRInv, Told, Replays
<1>5. ASSUME NEW stopOnFailure \in BOOLEAN, BeginReplay(stopOnFailure) PROVE IRInv'
  <2>1. /\ exported # <<>> /\ UNCHANGED <<recordings, interactions, settledSince, exported, imported>>
        /\ replay' = [session |-> exported, stopOnFailure |-> stopOnFailure, results |-> <<>>, running |-> TRUE]
    BY <1>5 DEF BeginReplay
  <2>2. exported \in Seq(Interaction) /\ Len(exported) \in Nat /\ Len(exported) # 0 /\ <<>> \in Seq(ReplayResult)
    BY <2>1, NonEmpty, LenProperties DEF IRInv, Told
  <2>3. Replays(exported, stopOnFailure, <<>>, TRUE)
    BY <2>2 DEF Replays
  <2>4. /\ replay' \in [session : Seq(Interaction), stopOnFailure : BOOLEAN, results : Seq(ReplayResult), running : BOOLEAN]
        /\ replay'.session = exported /\ replay'.stopOnFailure = stopOnFailure
        /\ replay'.results = <<>> /\ replay'.running = TRUE
    BY <2>1, <2>2
  <2>5. Replays(replay'.session, replay'.stopOnFailure, replay'.results, replay'.running)
    BY <2>3, <2>4
  <2>6. Told(interactions)' /\ Told(exported)'
    BY <2>1 DEF IRInv, Told
  <2> QED BY <2>1, <2>4, <2>5, <2>6 DEF IRInv, Replays
<1> QED BY <1>1, <1>2, <1>3, <1>4, <1>5, RecorderKeeps, ReplayOneKeeps DEF IRNext, IRSystem

-----------------------------------------------------------------------------
(* The mock server.                                                         *)

MockEntry == [status : {"PENDING"} \cup Finals, polls : Nat, final : Finals, given : Nat, found : Nat]

\* A map, of now or of a snapshot, stands for each entry once; a hash tells how many
\* there were before, unless it was given by the caller.
MapSound(map, n) ==
    /\ map \in [DOMAIN map -> 1..n] /\ IsInjective(map)
    /\ IsFiniteSet(DOMAIN map) /\ Cardinality(DOMAIN map) <= n
    /\ \A h \in DOMAIN map : h = GivenHash \/ (h.size \in Nat /\ h.size < Cardinality(DOMAIN map))

EntryCounted(e) ==
    /\ e.found + e.polls = e.given
    /\ e.status # "PENDING" => e.polls = 0 /\ e.status = e.final

MKInv ==
    /\ mocked \in Seq(MockEntry) /\ Len(mocked) <= MaxMockEntries
    /\ \A i \in DOMAIN mocked : EntryCounted(mocked[i])
    /\ MapSound(transactions, Len(mocked)) /\ MapSound(snapshot.transactions, Len(mocked))

LEMMA MKInvDeterministic == MKInv => MockDeterministic
<1> SUFFICES ASSUME MKInv PROVE MockDeterministic
  OBVIOUS
<1> DEFINE n == Cardinality(DOMAIN transactions)
<1>1. n \in Nat /\ n <= Len(mocked) /\ Len(mocked) <= MaxMockEntries /\ Len(mocked) \in Nat /\ MaxMockEntries \in Nat
  BY FS_CardinalityType, LenProperties, MockAssumption DEF MKInv, MapSound
<1>2. \A h \in DOMAIN transactions : h = GivenHash \/ (h.size \in Nat /\ h.size < n)
  BY DEF MKInv, MapSound
<1>3. SentHash.size = n /\ GivenHash.size = MaxMockEntries + 1
  BY DEF SentHash, GivenHash
<1> HIDE DEF n
<1>4. SentHash \notin DOMAIN transactions
  <2> SUFFICES ASSUME SentHash \in DOMAIN transactions PROVE FALSE
    OBVIOUS
  <2>1. CASE SentHash = GivenHash
    BY <1>1, <1>3, <2>1
  <2>2. CASE SentHash # GivenHash
    <3>1. SentHash.size < n
      BY <1>2, <2>2
    <3> QED BY <1>1, <1>3, <3>1
  <2> QED BY <2>1, <2>2
<1>5. IsInjective(transactions) /\ IsInjective(snapshot.transactions)
  BY DEF MKInv, MapSound
<1>6. \A e \in DOMAIN mocked : EntryCounted(mocked[e])
  BY DEF MKInv
<1> QED BY <1>4, <1>5, <1>6 DEF MockDeterministic, EntryCounted

LEMMA EmptyMapSound == ASSUME NEW n \in Nat PROVE MapSound(NoTransactions, n)
<1>1. DOMAIN NoTransactions = {} /\ NoTransactions \in [{} -> 1..n]
  BY DEF NoTransactions
<1>2. IsFiniteSet({}) /\ Cardinality({}) = 0
  BY FS_EmptySet
<1> QED BY <1>1, <1>2 DEF MapSound, IsInjective

\* Entries are added, or change, and a map that has none of the new ones stays sound.
LEMMA MapStaysSound ==
    ASSUME NEW map, NEW n \in Nat, NEW m \in Nat, n <= m, MapSound(map, n) PROVE MapSound(map, m)
<1>1. Cardinality(DOMAIN map) \in Nat
  BY FS_CardinalityType DEF MapSound
<1>2. Cardinality(DOMAIN map) <= m
  BY <1>1 DEF MapSound
<1>3. map \in [DOMAIN map -> 1..m]
  <2>1. \A h \in DOMAIN map : map[h] \in 1..m
    BY DEF MapSound
  <2> QED BY <2>1 DEF MapSound
<1> QED BY <1>2, <1>3 DEF MapSound

LEMMA NewEntryKeeps ==
    ASSUME MKInv, NEW hash, NEW waits \in Nat, NEW final \in Finals, NewEntry(hash, waits, final), UNCHANGED snapshot,
           hash = GivenHash \/ (hash = SentHash /\ SentHash \notin DOMAIN transactions)
    PROVE  MKInv'
<1> DEFINE e == [status |-> "PENDING", polls |-> waits, final |-> final, given |-> waits, found |-> 0]
           n == Len(mocked)
           map == [h \in DOMAIN transactions \cup {hash} |-> IF h = hash THEN n + 1 ELSE transactions[h]]
           count == Cardinality(DOMAIN transactions)
<1>1. /\ n \in Nat /\ n < MaxMockEntries /\ MaxMockEntries \in Nat /\ DOMAIN mocked = 1..n
      /\ mocked \in Seq(MockEntry) /\ mocked' = Append(mocked, e)
      /\ transactions' = [h \in DOMAIN transactions \cup {hash} |-> IF h = hash THEN Len(mocked') ELSE transactions[h]]
  BY LenProperties, MockAssumption DEF NewEntry, MKInv
<1>2. e \in MockEntry /\ EntryCounted(e)
  BY DEF MockEntry, EntryCounted, Finals
<1> HIDE DEF e
<1>3. /\ mocked' \in Seq(MockEntry) /\ Len(mocked') = n + 1 /\ DOMAIN mocked' = 1..(n + 1)
      /\ mocked'[n + 1] = e /\ \A i \in 1..n : mocked'[i] = mocked[i]
  <2>1. /\ mocked' \in Seq(MockEntry) /\ Len(mocked') = n + 1
        /\ mocked'[n + 1] = e /\ \A i \in 1..n : mocked'[i] = mocked[i]
    BY <1>1, <1>2, AppendProperties
  <2>2. DOMAIN mocked' = 1..(n + 1)
    BY <2>1, LenProperties
  <2> QED BY <2>1, <2>2
<1>4. transactions' = map
  BY <1>1, <1>3
<1> HIDE DEF n
<1>5. \A i \in DOMAIN mocked' : EntryCounted(mocked'[i])
  <2> SUFFICES ASSUME NEW i \in DOMAIN mocked' PROVE EntryCounted(mocked'[i])
    OBVIOUS
  <2>1. CASE i = n + 1
    BY <1>2, <1>3, <2>1
  <2>2. CASE i # n + 1
    <3>1. i \in 1..n
      BY <1>1, <1>3, <2>2
    <3>2. EntryCounted(mocked[i])
      BY <1>1, <3>1 DEF MKInv
    <3>3. mocked'[i] = mocked[i]
      BY <1>3, <3>1
    <3> HIDE DEF EntryCounted
    <3> QED BY <3>2, <3>3
  <2> QED BY <2>1, <2>2
<1>6. /\ transactions \in [DOMAIN transactions -> 1..n] /\ IsInjective(transactions)
      /\ IsFiniteSet(DOMAIN transactions) /\ count <= n /\ count \in Nat
      /\ \A h \in DOMAIN transactions : h = GivenHash \/ (h.size \in Nat /\ h.size < count)
  BY FS_CardinalityType DEF MKInv, MapSound, n
<1>7. MapSound(map, n + 1)
  <2>1. DOMAIN map = DOMAIN transactions \cup {hash} /\ map[hash] = n + 1
        /\ \A h \in DOMAIN transactions : h # hash => map[h] = transactions[h]
    OBVIOUS
  <2> DEFINE total == Cardinality(DOMAIN transactions \cup {hash})
  <2>2. /\ IsFiniteSet(DOMAIN transactions \cup {hash})
        /\ total = IF hash \in DOMAIN transactions THEN count ELSE count + 1
    BY <1>6, FS_AddElement
  <2> HIDE DEF total, count
  <2>3. total \in Nat /\ count <= total /\ total <= n + 1
    BY <1>1, <1>6, <2>2
  <2>4. \A h \in DOMAIN map : map[h] \in 1..(n + 1)
    <3>1. \A h \in DOMAIN transactions : transactions[h] \in 1..(n + 1)
      BY <1>1, <1>6
    <3> QED BY <1>1, <2>1, <3>1
  <2>5. IsInjective(map)
    <3>1. ASSUME NEW a \in DOMAIN map, NEW b \in DOMAIN map, map[a] = map[b] PROVE a = b
      <4>1. \A h \in DOMAIN transactions : h # hash => map[h] \in 1..n /\ map[h] # n + 1
        BY <1>1, <1>6, <2>1
      <4>2. CASE a = hash \/ b = hash
        BY <2>1, <3>1, <4>1, <4>2
      <4>3. CASE a # hash /\ b # hash
        BY <1>6, <2>1, <3>1, <4>3 DEF IsInjective
      <4> QED BY <4>2, <4>3
    <3> QED BY <3>1 DEF IsInjective
  <2>6. \A h \in DOMAIN map : h = GivenHash \/ (h.size \in Nat /\ h.size < total)
    <3> SUFFICES ASSUME NEW h \in DOMAIN map, h # GivenHash PROVE h.size \in Nat /\ h.size < total
      OBVIOUS
    <3>1. CASE h \in DOMAIN transactions
      BY <1>6, <2>3, <3>1
    <3>2. CASE h \notin DOMAIN transactions
      <4>1. h = SentHash /\ hash \notin DOMAIN transactions
        BY <2>1, <3>2
      <4>2. h.size = count
        BY <4>1 DEF SentHash, count
      <4> QED BY <1>6, <2>2, <4>1, <4>2
    <3> QED BY <3>1, <3>2
  <2> HIDE DEF map
  <2>7. map \in [DOMAIN map -> 1..(n + 1)]
    <3>1. map = [h \in DOMAIN map |-> map[h]]
      BY DEF map
    <3> QED BY <2>4, <3>1
  <2> QED BY <2>1, <2>2, <2>3, <2>5, <2>6, <2>7 DEF MapSound, total
<1>8. MapSound(snapshot.transactions, n + 1)
  <2>1. MapSound(snapshot.transactions, n) /\ n <= n + 1 /\ n + 1 \in Nat
    BY <1>1 DEF MKInv, n
  <2> QED BY <1>1, <2>1, MapStaysSound
<1>9. Len(mocked') <= MaxMockEntries
  BY <1>1, <1>3
<1> HIDE DEF map
<1>10. MapSound(transactions', Len(mocked')) /\ MapSound(snapshot'.transactions, Len(mocked'))
  BY <1>3, <1>4, <1>7, <1>8
<1> QED BY <1>3, <1>5, <1>9, <1>10 DEF MKInv, MapSound, GivenHash

LEMMA PollKeeps ==
    ASSUME MKInv, NEW hash, PollMock(hash) PROVE MKInv'
<1> DEFINE e == transactions[hash]
           x == mocked[e]
           polled == [x EXCEPT !.polls = @ - 1, !.found = @ + 1]
           settled == [x EXCEPT !.status = x.final]
<1>1. /\ hash \in DOMAIN transactions /\ x.status = "PENDING" /\ UNCHANGED <<transactions, snapshot>>
      /\ mocked' = IF x.polls > 0 THEN [mocked EXCEPT ![e].polls = @ - 1, ![e].found = @ + 1]
                   ELSE [mocked EXCEPT ![e].status = x.final]
  BY DEF PollMock, NoError
<1>2. /\ Len(mocked) \in Nat /\ DOMAIN mocked = 1..Len(mocked) /\ mocked \in Seq(MockEntry)
      /\ e \in DOMAIN mocked
  BY <1>1, LenProperties DEF MKInv, MapSound
<1>3. x \in MockEntry /\ EntryCounted(x)
  BY <1>2, LenProperties DEF MKInv
<1>4. x.polls > 0 => polled \in MockEntry /\ EntryCounted(polled)
  <2> SUFFICES ASSUME x.polls > 0 PROVE polled \in MockEntry /\ EntryCounted(polled)
    OBVIOUS
  <2> HIDE DEF x
  <2>1. /\ x.polls \in Nat \ {0} /\ x.found \in Nat /\ x.given \in Nat /\ x.found + x.polls = x.given
    BY <1>3 DEF MockEntry, EntryCounted
  <2>2. polled \in MockEntry /\ polled.polls = x.polls - 1 /\ polled.found = x.found + 1 /\ polled.given = x.given
        /\ polled.status = "PENDING"
    <3> DEFINE fewer == x.polls - 1
               more == x.found + 1
    <3>1. fewer \in Nat /\ more \in Nat
      BY <2>1
    <3> HIDE DEF fewer, more
    <3>2. polled = [x EXCEPT !.polls = fewer, !.found = more]
      BY DEF fewer, more
    <3>3. polled \in MockEntry /\ polled.polls = fewer /\ polled.found = more /\ polled.given = x.given
          /\ polled.status = x.status
      BY <1>3, <3>1, <3>2 DEF MockEntry
    <3> QED BY <1>1, <3>3 DEF fewer, more, x
  <2> HIDE DEF polled
  <2>3. polled.found + polled.polls = polled.given
    BY <2>1, <2>2
  <2> QED BY <2>2, <2>3 DEF EntryCounted
<1>5. ~(x.polls > 0) => settled \in MockEntry /\ EntryCounted(settled)
  <2> SUFFICES ASSUME ~(x.polls > 0) PROVE settled \in MockEntry /\ EntryCounted(settled)
    OBVIOUS
  <2> HIDE DEF x
  <2>1. x.polls \in Nat /\ x.polls = 0
    BY <1>3 DEF MockEntry
  <2>2. settled \in MockEntry /\ settled.polls = x.polls /\ settled.found = x.found /\ settled.given = x.given
        /\ settled.status = x.final /\ settled.final = x.final
    BY <1>3 DEF MockEntry
  <2> HIDE DEF settled
  <2> QED BY <1>3, <2>1, <2>2 DEF EntryCounted
<1> DEFINE new == IF x.polls > 0 THEN polled ELSE settled
<1>6. mocked' = [mocked EXCEPT ![e] = new]
  BY <1>1
<1>7. new \in MockEntry /\ EntryCounted(new)
  BY <1>4, <1>5
<1> HIDE DEF new, e, x, polled, settled
<1>8. mocked' \in Seq(MockEntry) /\ Len(mocked') = Len(mocked) /\ DOMAIN mocked' = DOMAIN mocked
      /\ \A i \in DOMAIN mocked : mocked'[i] = IF i = e THEN new ELSE mocked[i]
  BY <1>2, <1>6, <1>7, ExceptSeq
<1>9. \A i \in DOMAIN mocked' : EntryCounted(mocked'[i])
  BY <1>7, <1>8 DEF MKInv
<1>10. MapSound(transactions', Len(mocked')) /\ MapSound(snapshot'.transactions, Len(mocked'))
  BY <1>1, <1>8 DEF MKInv
<1> QED BY <1>8, <1>9, <1>10 DEF MKInv, MapSound, GivenHash

LEMMA MKInitInv == MKInit => MKInv
<1> SUFFICES ASSUME MKInit PROVE MKInv
  OBVIOUS
<1>1. mocked = <<>> /\ transactions = NoTransactions /\ snapshot.transactions = NoTransactions
  BY DEF MKInit, NoSnapshot
<1>2. Len(mocked) = 0 /\ DOMAIN mocked = {} /\ mocked \in Seq(MockEntry)
  BY <1>1
<1>3. MapSound(NoTransactions, 0)
  BY EmptyMapSound
<1> QED BY <1>1, <1>2, <1>3, MockAssumption DEF MKInv

LEMMA MKNextInv == MKInv /\ [MKNext]_mkVars => MKInv'
<1> SUFFICES ASSUME MKInv, [MKNext]_mkVars PROVE MKInv'
  OBVIOUS
<1>1. CASE UNCHANGED <<mocked, transactions, snapshot>>
  BY <1>1 DEF MKInv, MapSound, GivenHash
<1>2. CASE SendToMock
  <2>1. CASE SentHash \in DOMAIN transactions
    BY <1>1, <1>2, <2>1 DEF SendToMock, NoError
  <2>2. CASE SentHash \notin DOMAIN transactions
    <3>1. NewEntry(SentHash, 1, "SUCCESS") /\ UNCHANGED snapshot
      BY <1>2, <2>2 DEF SendToMock, NoError
    <3>2. "SUCCESS" \in Finals /\ 1 \in Nat
      BY DEF Finals
    <3> QED BY <2>2, <3>1, <3>2, NewEntryKeeps
  <2> QED BY <2>1, <2>2
<1>3. CASE TakeSnapshot
  <2>1. UNCHANGED <<mocked, transactions>> /\ snapshot'.transactions = transactions
    BY <1>3 DEF TakeSnapshot
  <2> QED BY <2>1 DEF MKInv, MapSound, GivenHash
<1>4. CASE RestoreSnapshot
  <2>1. UNCHANGED <<mocked, snapshot>> /\ transactions' = snapshot.transactions
    BY <1>4 DEF RestoreSnapshot
  <2> QED BY <2>1 DEF MKInv, MapSound, GivenHash
<1>5. CASE ResetMock
  <2>1. UNCHANGED <<mocked, snapshot>> /\ transactions' = NoTransactions
    BY <1>5 DEF ResetMock
  <2>2. MapSound(NoTransactions, Len(mocked))
    BY EmptyMapSound, LenProperties DEF MKInv
  <2>3. MapSound(transactions, Len(mocked))'
    BY <2>1, <2>2
  <2> QED BY <2>1, <2>3 DEF MKInv
<1>6. ASSUME NEW waits \in PendingPolls, NEW final \in Finals, AddTransaction(waits, final) PROVE MKInv'
  <2>1. NewEntry(GivenHash, waits, final) /\ UNCHANGED snapshot /\ waits \in Nat
    BY <1>6, MockAssumption DEF AddTransaction
  <2> QED BY <2>1, NewEntryKeeps
<1>7. ASSUME NEW m \in Injectable, InjectError(m) \/ ErrorThrown(m) PROVE MKInv'
  BY <1>1, <1>7 DEF InjectError, ErrorThrown
<1>8. ASSUME NEW hash \in Hashes, PollMock(hash) PROVE MKInv'
  BY <1>8, PollKeeps
<1>9. ASSUME NEW l \in Ledgers, SetLedger(l) PROVE MKInv'
  BY <1>1, <1>9 DEF SetLedger
<1> QED BY <1>1, <1>2, <1>3, <1>4, <1>5, <1>6, <1>7, <1>8, <1>9 DEF MKNext, mkVars

-----------------------------------------------------------------------------
(* Spans.                                                                   *)

TRInv ==
    /\ spanCounter \in Nat /\ peak \in Nat /\ running \in Seq(Nat)
    /\ startTimes \in Seq(Nat) /\ Len(startTimes) = spanCounter
    /\ activeSpans \in SUBSET Spans /\ spans \in Seq(Spans)
    /\ SpansOfRunningCalls

LEMMA OldestLeaves ==
    ASSUME NEW n \in Nat, NEW ended \in Seq(1..n), ended # <<>>, startTimes' \in Seq(Nat), Len(startTimes') >= n
    PROVE  /\ WithoutOldest(ended) \in Seq(1..n) /\ Len(WithoutOldest(ended)) = Len(ended) - 1
           /\ ToSet(WithoutOldest(ended)) \subseteq ToSet(ended)
           /\ IsInjective(ended) => IsInjective(WithoutOldest(ended))
<1> DEFINE times == {startTimes'[s] : s \in ToSet(ended)}
           time == Min(times)
           I == {i \in 1..Len(ended) : startTimes'[ended[i]] = time}
           k == Min(I)
<1>1. /\ DOMAIN ended = 1..Len(ended) /\ Len(ended) \in Nat \ {0} /\ \A i \in DOMAIN ended : ended[i] \in 1..n
      /\ Len(startTimes') \in Nat /\ \A s \in 1..n : startTimes'[s] \in Nat
  <2>1. Len(startTimes') \in Nat /\ DOMAIN startTimes' = 1..Len(startTimes')
        /\ \A s \in DOMAIN startTimes' : startTimes'[s] \in Nat
    BY LenProperties
  <2>2. \A s \in 1..n : s \in 1..Len(startTimes')
    BY <2>1
  <2> QED BY <2>1, <2>2, LenProperties, NonEmpty
<1>2. times \in SUBSET Nat /\ times # {}
  <2>1. \A s \in ToSet(ended) : s \in 1..n
    BY <1>1 DEF ToSet
  <2>2. 1 \in DOMAIN ended
    BY <1>1
  <2>3. ended[1] \in ToSet(ended)
    BY <2>2 DEF ToSet
  <2> QED BY <1>1, <2>1, <2>3
<1>3. time \in times
  BY <1>2, MinIsLeast
<1> HIDE DEF time
<1>4. I \in SUBSET Nat /\ I # {}
  BY <1>1, <1>3 DEF ToSet
<1>5. k \in I
  BY <1>4, MinIsLeast
<1>6. WithoutOldest(ended) = RemoveAt(ended, k)
  BY <1>4 DEF WithoutOldest, SelectInSeq, time
<1>7. k \in DOMAIN ended
  BY <1>1, <1>5
<1> HIDE DEF k, I
<1> DEFINE r == RemoveAt(ended, k)
<1>8. r \in Seq(1..n) /\ DOMAIN r = 1..(Len(ended) - 1)
      /\ \A i \in 1..(Len(ended) - 1) : r[i] = ended[IF i < k THEN i ELSE i + 1]
  BY <1>7, RemoveAtShifts
<1> HIDE DEF r
<1>9. Len(r) = Len(ended) - 1
  <2>1. Len(r) \in Nat /\ DOMAIN r = 1..Len(r)
    BY <1>8, LenProperties
  <2>2. Len(ended) \in Nat \ {0}
    BY <1>1
  <2> QED BY <1>8, <2>1, <2>2
<1>10. \A i \in 1..(Len(ended) - 1) : (IF i < k THEN i ELSE i + 1) \in DOMAIN ended
  BY <1>1, <1>7
<1>11. ToSet(r) \subseteq ToSet(ended)
  BY <1>8, <1>10 DEF ToSet
<1>12. IsInjective(ended) => IsInjective(r)
  BY <1>7, RemoveAtDistinct DEF r
<1> QED BY <1>6, <1>8, <1>9, <1>11, <1>12 DEF r

LEMMA TRInitInv == TRInit => TRInv
<1> SUFFICES ASSUME TRInit PROVE TRInv
  OBVIOUS
<1>1. /\ spanCounter = 0 /\ startTimes = <<>> /\ activeSpans = {} /\ spans = <<>> /\ running = <<>> /\ peak = 0
  BY DEF TRInit
<1>2. ToSet(<<>>) = {} /\ Len(<<>>) = 0 /\ Cardinality({}) = 0
  BY FS_EmptySet DEF ToSet
<1>3. Max({MaxSpans, peak}) >= 0
  BY <1>1, MaxOfTwo, TracerAssumption
<1>4. SpansOfRunningCalls
  BY <1>1, <1>2, <1>3 DEF SpansOfRunningCalls
<1> QED BY <1>1, <1>2, <1>4 DEF TRInv

LEMMA TracerFacts ==
    ASSUME TRInv
    PROVE  /\ IsFiniteSet(activeSpans) /\ Cardinality(activeSpans) \in Nat /\ Len(spans) \in Nat
           /\ DOMAIN running = 1..Len(running) /\ Len(running) \in Nat
           /\ DOMAIN spans = 1..Len(spans)
           /\ MaxSpans \in Nat
           /\ Cardinality(activeSpans) + Len(spans) <= MaxSpans \/ Cardinality(activeSpans) + Len(spans) <= peak
<1>1. IsFiniteSet(activeSpans)
  <2>1. IsFiniteSet(1..spanCounter)
    BY FS_Interval DEF TRInv
  <2> QED BY <2>1, FS_Subset DEF TRInv, Spans
<1>2. Cardinality(activeSpans) \in Nat
  BY <1>1, FS_CardinalityType
<1>3. /\ Len(spans) \in Nat /\ DOMAIN running = 1..Len(running) /\ Len(running) \in Nat /\ DOMAIN spans = 1..Len(spans)
  BY LenProperties DEF TRInv
<1>4. MaxSpans \in Nat /\ peak \in Nat
  BY TracerAssumption DEF TRInv
<1>5. Cardinality(activeSpans) + Len(spans) <= Max({MaxSpans, peak})
  BY DEF TRInv, SpansOfRunningCalls
<1> HIDE DEF TRInv
<1>6. Max({MaxSpans, peak}) = MaxSpans \/ Max({MaxSpans, peak}) = peak
  BY <1>4, MaxOfTwo
<1> QED BY <1>1, <1>2, <1>3, <1>4, <1>5, <1>6

LEMMA StartSpanKeeps ==
    ASSUME TRInv, BeginTraced, tracing PROVE TRInv'
<1> DEFINE n == spanCounter
           opened == activeSpans \cup {n + 1}
           count == Cardinality(activeSpans)
<1>1. /\ spanCounter' = n + 1 /\ activeSpans' = opened /\ running' = Append(running, n + 1)
      /\ spans' = IF Cardinality(opened) + Len(spans) > MaxSpans /\ spans # <<>> THEN WithoutOldest(spans) ELSE spans
      /\ peak' = Max({peak, Cardinality(opened)})
  BY DEF BeginTraced, StartSpan
<1>2. PICK tick \in {0, 1} : startTimes' = Append(startTimes, (IF startTimes = <<>> THEN 0 ELSE Last(startTimes)) + tick)
  BY DEF BeginTraced, StartSpan
<1>3. startTimes' \in Seq(Nat) /\ Len(startTimes') = n + 1
  <2>1. startTimes = <<>> \/ Last(startTimes) \in Nat
    BY FrontLast DEF TRInv
  <2> QED BY <1>2, <2>1, AppendProperties DEF TRInv
<1>4. /\ n \in Nat /\ IsFiniteSet(activeSpans) /\ count \in Nat /\ Len(spans) \in Nat /\ MaxSpans \in Nat
      /\ activeSpans \in SUBSET (1..n) /\ peak \in Nat
      /\ count + Len(spans) <= MaxSpans \/ count + Len(spans) <= peak
      /\ spans \in Seq(1..n) /\ running \in Seq(Nat)
      /\ activeSpans \subseteq ToSet(running) /\ activeSpans \cap ToSet(spans) = {}
  BY TracerFacts DEF TRInv, Spans, SpansOfRunningCalls
<1>5. n + 1 \notin activeSpans /\ n + 1 \notin ToSet(spans)
  <2>1. \A i \in DOMAIN spans : spans[i] \in 1..n
    BY <1>4, LenProperties
  <2> QED BY <1>4, <2>1 DEF ToSet
<1>6. Cardinality(opened) = count + 1
  BY <1>4, <1>5, FS_AddElement
<1> HIDE DEF opened, count, n
<1>7. peak' \in Nat /\ peak' >= peak /\ peak' >= count + 1
  <2>1. peak \in Int /\ count + 1 \in Int
    BY <1>4
  <2>2. Max({peak, count + 1}) = IF peak >= count + 1 THEN peak ELSE count + 1
    BY <2>1, MaxOfTwo
  <2>3. peak' = Max({peak, count + 1})
    BY <1>1, <1>6
  <2> HIDE DEF count
  <2> QED BY <1>4, <2>2, <2>3
<1>8. /\ spans' \in Seq(1..(n + 1)) /\ ToSet(spans') \subseteq ToSet(spans)
      /\ Len(spans') = IF count + 1 + Len(spans) > MaxSpans /\ spans # <<>> THEN Len(spans) - 1 ELSE Len(spans)
  <2>1. spans \in Seq(1..(n + 1))
    BY <1>4, WiderSeq
  <2>2. CASE count + 1 + Len(spans) > MaxSpans /\ spans # <<>>
    <3>1. spans' = WithoutOldest(spans) /\ n + 1 \in Nat /\ Len(startTimes') >= n + 1
      BY <1>1, <1>3, <1>4, <1>6, <2>2
    <3> QED BY <1>3, <2>1, <2>2, <3>1, OldestLeaves
  <2>3. CASE ~(count + 1 + Len(spans) > MaxSpans /\ spans # <<>>)
    BY <1>1, <1>6, <2>1, <2>3
  <2> QED BY <2>2, <2>3
<1>9. running' \in Seq(Nat) /\ ToSet(running') = ToSet(running) \cup {n + 1}
  <2> DEFINE x == n + 1
  <2>1. running \in Seq(Nat) /\ x \in Nat /\ running' = Append(running, x)
    BY <1>1, <1>4
  <2> HIDE DEF x
  <2> QED BY <2>1, AppendDistinct DEF x
<1>10. activeSpans' \in SUBSET (1..(n + 1)) /\ activeSpans' \subseteq ToSet(running')
  BY <1>1, <1>4, <1>9 DEF opened
<1>11. activeSpans' \cap ToSet(spans') = {}
  BY <1>1, <1>4, <1>5, <1>8 DEF opened
<1>12. Cardinality(activeSpans') + Len(spans') <= Max({MaxSpans, peak'})
  <2> DEFINE bound == Max({MaxSpans, peak'})
  <2>0. MaxSpans \in Int /\ peak' \in Int
    BY <1>4, <1>7
  <2>1. bound = IF MaxSpans >= peak' THEN MaxSpans ELSE peak'
    BY <2>0, MaxOfTwo
  <2> HIDE DEF bound
  <2>2. bound \in Nat /\ bound >= MaxSpans /\ bound >= count + 1 /\ bound >= peak
    BY <1>4, <1>7, <2>1
  <2>3. spans = <<>> => Len(spans) = 0
    OBVIOUS
  <2> DEFINE left == Len(spans')
             had == Len(spans)
  <2>4. left = IF count + 1 + had > MaxSpans /\ spans # <<>> THEN had - 1 ELSE had
    BY <1>8
  <2>5. had \in Nat /\ (count + had <= MaxSpans \/ count + had <= peak) /\ (spans = <<>> => had = 0)
    BY <1>4, <2>3
  <2> HIDE DEF left, had
  <2>6. count + 1 + left <= bound
    BY <1>4, <2>2, <2>4, <2>5
  <2> QED BY <1>1, <1>6, <2>6 DEF bound, left
<1> QED BY <1>1, <1>3, <1>4, <1>7, <1>8, <1>9, <1>10, <1>11, <1>12 DEF TRInv, SpansOfRunningCalls, Spans

LEMMA EndTracedKeeps ==
    ASSUME TRInv, NEW c \in DOMAIN running, EndTraced(c) PROVE TRInv'
<1> DEFINE span == running[c]
           count == Cardinality(activeSpans)
<1>1. /\ UNCHANGED <<spanCounter, startTimes, peak>> /\ running' = [running EXCEPT ![c] = Over]
      /\ IF span \in activeSpans THEN activeSpans' = activeSpans \ {span} /\ spans' = Append(spans, span)
         ELSE activeSpans' = activeSpans /\ spans' = spans
  BY DEF EndTraced
<1>2. /\ spanCounter \in Nat /\ IsFiniteSet(activeSpans) /\ count \in Nat /\ Len(spans) \in Nat /\ MaxSpans \in Nat
      /\ activeSpans \in SUBSET Spans /\ peak \in Nat /\ spans \in Seq(Spans) /\ running \in Seq(Nat)
      /\ activeSpans \subseteq ToSet(running) /\ activeSpans \cap ToSet(spans) = {}
      /\ count + Len(spans) <= Max({MaxSpans, peak})
  BY TracerFacts DEF TRInv, SpansOfRunningCalls
<1>3. running' \in Seq(Nat) /\ DOMAIN running' = DOMAIN running
  <2>1. Over \in Nat
    BY TracerAssumption DEF Over
  <2> QED BY <1>1, <1>2, <2>1, ExceptSeq
<1>4. \A s \in activeSpans' : s \in activeSpans /\ s # span
  BY <1>1
<1>5. activeSpans' \subseteq ToSet(running')
  <2> SUFFICES ASSUME NEW s \in activeSpans' PROVE s \in ToSet(running')
    OBVIOUS
  <2>1. PICK d \in DOMAIN running : running[d] = s
    BY <1>2, <1>4 DEF ToSet
  <2>2. running'[d] = s
    BY <1>1, <1>4, <2>1
  <2> QED BY <1>3, <2>1, <2>2 DEF ToSet
<1> HIDE DEF span
<1>6. CASE span \in activeSpans
  <2>1. activeSpans' = activeSpans \ {span} /\ spans' = Append(spans, span) /\ span \in Spans
    BY <1>1, <1>2, <1>6
  <2>2. Cardinality(activeSpans') = count - 1
    BY <1>2, <1>6, <2>1, FS_RemoveElement
  <2>3. spans' \in Seq(Spans) /\ Len(spans') = Len(spans) + 1 /\ ToSet(spans') = ToSet(spans) \cup {span}
    BY <1>2, <2>1, AppendProperties, AppendDistinct
  <2>4. Cardinality(activeSpans') + Len(spans') <= Max({MaxSpans, peak})
    <3> HIDE DEF count
    <3>1. count - 1 + (Len(spans) + 1) = count + Len(spans)
      BY <1>2
    <3> QED BY <1>2, <2>2, <2>3, <3>1
  <2>5. activeSpans' \cap ToSet(spans') = {} /\ activeSpans' \in SUBSET Spans
    BY <1>2, <2>1, <2>3
  <2> QED BY <1>1, <1>2, <1>3, <1>5, <2>3, <2>4, <2>5 DEF TRInv, SpansOfRunningCalls, Spans
<1>7. CASE span \notin activeSpans
  <2>1. activeSpans' = activeSpans /\ spans' = spans
    BY <1>1, <1>7
  <2> QED BY <1>1, <1>2, <1>3, <1>5, <2>1 DEF TRInv, SpansOfRunningCalls, Spans
<1> QED BY <1>6, <1>7

LEMMA TRNextInv == TRInv /\ [TRNext]_trVars => TRInv'
<1> SUFFICES ASSUME TRInv, [TRNext]_trVars PROVE TRInv'
  OBVIOUS
<1>1. CASE UNCHANGED trVars
  BY <1>1 DEF trVars, TRInv, SpansOfRunningCalls, Spans
<1>2. CASE BeginTraced /\ ~tracing
  <2>1. /\ running' = Append(running, NoSpan)
        /\ UNCHANGED <<spanCounter, startTimes, activeSpans, spans, peak>>
    BY <1>2 DEF BeginTraced
  <2>2. running' \in Seq(Nat) /\ ToSet(running') = ToSet(running) \cup {NoSpan}
    BY <2>1, AppendDistinct DEF TRInv, NoSpan
  <2> QED BY <2>1, <2>2 DEF TRInv, SpansOfRunningCalls, Spans
<1>3. CASE ClearSpans
  <2>1. /\ activeSpans' = {} /\ spans' = <<>> /\ peak' = 0 /\ UNCHANGED <<spanCounter, startTimes, running>>
    BY <1>3 DEF ClearSpans
  <2>2. ToSet(<<>>) = {} /\ Len(<<>>) = 0 /\ Cardinality({}) = 0 /\ <<>> \in Seq(Spans)
    BY FS_EmptySet DEF ToSet
  <2>3. Max({MaxSpans, 0}) >= 0
    BY MaxOfTwo, TracerAssumption
  <2> QED BY <2>1, <2>2, <2>3 DEF TRInv, SpansOfRunningCalls, Spans
<1>4. ASSUME NEW c \in 1..MaxCalls, EndTraced(c) PROVE TRInv'
  <2>1. c \in DOMAIN running
    BY <1>4 DEF EndTraced
  <2> QED BY <1>4, <2>1, EndTracedKeeps
<1>5. ASSUME NEW on \in BOOLEAN, SetLevel(on) PROVE TRInv'
  BY <1>5 DEF SetLevel, TRInv, SpansOfRunningCalls, Spans
<1> QED BY <1>1, <1>2, <1>3, <1>4, <1>5, StartSpanKeeps DEF TRNext

-----------------------------------------------------------------------------
(* Capabilities.                                                            *)

Named(k, d) == k \in {d.type, d.id}
LastNamed(i, k) == Named(k, registrations[i]) /\ \A j \in DOMAIN registrations : Named(k, registrations[j]) => j <= i
FirstAsked(i, key) == askedOf[i].key = key /\ \A j \in 1..(i - 1) : askedOf[j].key # key
Keys == {<<given_, {}>> : given_ \in CacheKeys} \cup {CacheKeyFor(d, abi) : d \in Descriptors, abi \in Abis}
AskedEntry == [key : Keys, descriptor : Descriptors, abi : Abis]
KeyOf(custom, key, descriptor, abi) ==
    IF custom THEN \E given_ \in CacheKeys : key = <<given_, {}>> ELSE key = CacheKeyFor(descriptor, abi)

RegistrationsSound ==
    /\ registrations \in Seq(Descriptors)
    /\ \A k \in DOMAIN knownContracts :
          \E i \in DOMAIN registrations : knownContracts[k] = registrations[i] /\ LastNamed(i, k)
    /\ \A i \in DOMAIN registrations :
          {registrations[i].type, registrations[i].id} \ {NoContractId} \subseteq DOMAIN knownContracts

\* The cache has of each key what was asked first.
DetectionsSound ==
    /\ askedOf \in Seq(AskedEntry)
    /\ \A i \in DOMAIN askedOf :
          /\ askedOf[i].key \in DOMAIN detections
          /\ \E custom \in BOOLEAN : KeyOf(custom, askedOf[i].key, askedOf[i].descriptor, askedOf[i].abi)
    /\ \A key \in DOMAIN detections :
          \E i \in DOMAIN askedOf : /\ FirstAsked(i, key)
                                    /\ detections[key] = BuildResult(askedOf[i].descriptor, askedOf[i].abi)
    /\ detection # NoDetection =>
          /\ detection.key \in DOMAIN detections /\ detection.result = detections[detection.key]
          /\ detection.descriptor \in Descriptors
          /\ KeyOf(detection.custom, detection.key, detection.descriptor, detection.abi)

CDInv == RegistrationsSound /\ DetectionsSound

\* A key made by default tells the ABI, and the id, or the type where there is none.
LEMMA KeyTells ==
    ASSUME NEW d \in Descriptors, NEW e \in Descriptors, NEW a, NEW b, NEW custom \in BOOLEAN,
           KeyOf(custom, CacheKeyFor(d, a), e, b)
    PROVE  e.id = d.id /\ b = a /\ (d.id = NoContractId => e.type = d.type)
<1> DEFINE scope(x) == IF x.id # NoContractId THEN x.id ELSE x.type
<1>1. CacheKeyFor(d, a) = <<scope(d), a>> /\ CacheKeyFor(e, b) = <<scope(e), b>>
  BY DEF CacheKeyFor
<1>2. ~custom
  <2> SUFFICES ASSUME custom PROVE FALSE
    OBVIOUS
  <2>1. PICK g \in CacheKeys : <<scope(d), a>> = <<g, {}>>
    BY <1>1 DEF KeyOf
  <2> QED BY <2>1, CapabilityAssumption
<1>3. <<scope(d), a>> = <<scope(e), b>>
  BY <1>1, <1>2 DEF KeyOf
<1>4. scope(d) = scope(e) /\ a = b
  BY <1>3
<1> QED BY <1>4, CapabilityAssumption

LEMMA CDInvCurrent == CDInv => CapabilitiesCurrent
<1> SUFFICES ASSUME CDInv PROVE CapabilitiesCurrent
  OBVIOUS
<1>1. ASSUME NEW k \in DOMAIN knownContracts
      PROVE  \E i \in DOMAIN registrations :
                /\ knownContracts[k] = registrations[i] /\ k \in {registrations[i].type, registrations[i].id}
                /\ \A j \in DOMAIN registrations : k \in {registrations[j].type, registrations[j].id} => j <= i
  BY DEF CDInv, RegistrationsSound, LastNamed, Named
<1>2. \A d \in ToSet(registrations) : {d.type, d.id} \ {NoContractId} \subseteq DOMAIN knownContracts
  BY DEF CDInv, RegistrationsSound, ToSet
<1>3. ASSUME detection # NoDetection
      PROVE  \E i \in DOMAIN askedOf :
              LET first == askedOf[i] IN
              /\ first.key = detection.key /\ \A j \in 1..(i - 1) : askedOf[j].key # detection.key
              /\ detection.result = BuildResult(first.descriptor, first.abi)
              /\ ~detection.custom =>
                    /\ first.abi = detection.abi
                    /\ first.descriptor.id = detection.descriptor.id
                    /\ detection.descriptor.id = NoContractId => first.descriptor.type = detection.descriptor.type
  <2>1. PICK i \in DOMAIN askedOf : /\ FirstAsked(i, detection.key)
                                    /\ detection.result = BuildResult(askedOf[i].descriptor, askedOf[i].abi)
    BY <1>3 DEF CDInv, DetectionsSound
  <2>2. askedOf[i].key = detection.key /\ \A j \in 1..(i - 1) : askedOf[j].key # detection.key
    BY <2>1 DEF FirstAsked
  <2>3. ASSUME ~detection.custom
        PROVE  /\ askedOf[i].abi = detection.abi
               /\ askedOf[i].descriptor.id = detection.descriptor.id
               /\ detection.descriptor.id = NoContractId => askedOf[i].descriptor.type = detection.descriptor.type
    <3>1. detection.key = CacheKeyFor(detection.descriptor, detection.abi) /\ detection.descriptor \in Descriptors
      BY <1>3, <2>3 DEF CDInv, DetectionsSound, KeyOf
    <3>2. askedOf[i] \in AskedEntry
      BY LenProperties DEF CDInv, DetectionsSound
    <3>3. askedOf[i].descriptor \in Descriptors
      BY <3>2 DEF AskedEntry
    <3>4. PICK custom \in BOOLEAN : KeyOf(custom, askedOf[i].key, askedOf[i].descriptor, askedOf[i].abi)
      BY DEF CDInv, DetectionsSound
    <3> QED BY <2>2, <3>1, <3>3, <3>4, KeyTells
  <2> QED BY <2>1, <2>2, <2>3
<1> QED BY <1>1, <1>2, <1>3 DEF CapabilitiesCurrent

LEMMA CDInitInv == CDInit => CDInv
<1> SUFFICES ASSUME CDInit PROVE CDInv
  OBVIOUS
<1>1. registrations = <<>> /\ askedOf = <<>> /\ knownContracts = <<>> /\ detections = <<>> /\ detection = NoDetection
  BY DEF CDInit
<1>2. DOMAIN registrations = {} /\ DOMAIN askedOf = {} /\ DOMAIN knownContracts = {} /\ DOMAIN detections = {}
      /\ registrations \in Seq(Descriptors) /\ askedOf \in Seq(AskedEntry)
  BY <1>1
<1> QED BY <1>1, <1>2 DEF CDInv, RegistrationsSound, DetectionsSound

LEMMA RegisterDescriptorKeeps ==
    ASSUME CDInv, NEW descriptor \in Descriptors, RegisterDescriptor(descriptor) PROVE CDInv'
<1> DEFINE n == Len(registrations)
<1>1. /\ registrations' = Append(registrations, descriptor) /\ UNCHANGED <<detections, askedOf, detection>>
      /\ DOMAIN knownContracts' = DOMAIN knownContracts \cup ({descriptor.type, descriptor.id} \ {NoContractId})
      /\ \A k \in DOMAIN knownContracts' :
            knownContracts'[k] = IF k \in {descriptor.type, descriptor.id} THEN descriptor ELSE knownContracts[k]
  BY DEF RegisterDescriptor
<1>2. n \in Nat /\ DOMAIN registrations = 1..n /\ registrations \in Seq(Descriptors)
  BY LenProperties DEF CDInv, RegistrationsSound
<1>3. /\ registrations' \in Seq(Descriptors) /\ DOMAIN registrations' = 1..(n + 1)
      /\ registrations'[n + 1] = descriptor /\ \A i \in 1..n : registrations'[i] = registrations[i]
  BY <1>1, <1>2, AppendProperties, LenProperties
<1>10. PICK last \in DOMAIN registrations' :
           registrations'[last] = descriptor /\ \A j \in DOMAIN registrations' : j <= last
  BY <1>2, <1>3
<1> HIDE DEF n
<1>4. ASSUME NEW k \in DOMAIN knownContracts'
      PROVE  \E i \in DOMAIN registrations' : knownContracts'[k] = registrations'[i] /\ LastNamed(i, k)'
  <2>1. CASE k \in {descriptor.type, descriptor.id}
    <3>1. LastNamed(last, k)'
      BY <1>10, <2>1 DEF LastNamed, Named
    <3>2. knownContracts'[k] = registrations'[last]
      BY <1>1, <1>10, <2>1
    <3> QED BY <1>10, <3>1, <3>2
  <2>2. CASE k \notin {descriptor.type, descriptor.id}
    <3>1. k \in DOMAIN knownContracts /\ knownContracts'[k] = knownContracts[k]
      BY <1>1, <2>2
    <3>2. PICK i \in 1..n : knownContracts[k] = registrations[i] /\ LastNamed(i, k)
      BY <1>2, <3>1 DEF CDInv, RegistrationsSound
    <3>3. LastNamed(i, k)'
      <4>1. Named(k, registrations'[i])
        BY <1>3, <3>2 DEF LastNamed
      <4>2. ASSUME NEW j \in 1..(n + 1), Named(k, registrations'[j]) PROVE j <= i
        <5>1. j # n + 1
          BY <1>3, <2>2, <4>2 DEF Named
        <5>2. j \in 1..n
          BY <1>2, <5>1
        <5> QED BY <1>2, <1>3, <3>2, <4>2, <5>2 DEF LastNamed
      <4> QED BY <1>3, <4>1, <4>2 DEF LastNamed
    <3>4. i \in 1..(n + 1) /\ registrations'[i] = registrations[i]
      BY <1>2, <1>3
    <3> QED BY <1>3, <3>1, <3>2, <3>3, <3>4
  <2> QED BY <2>1, <2>2
<1>5. ASSUME NEW i \in DOMAIN registrations'
      PROVE  {registrations'[i].type, registrations'[i].id} \ {NoContractId} \subseteq DOMAIN knownContracts'
  <2>1. CASE i = n + 1
    BY <1>1, <1>3, <2>1
  <2>2. CASE i # n + 1
    <3>1. i \in 1..n
      BY <1>2, <1>3, <2>2
    <3> QED BY <1>1, <1>2, <1>3, <3>1 DEF CDInv, RegistrationsSound
  <2> QED BY <2>1, <2>2
<1>6. RegistrationsSound'
  BY <1>3, <1>4, <1>5 DEF RegistrationsSound
<1>7. DetectionsSound'
  BY <1>1 DEF CDInv, DetectionsSound, FirstAsked
<1> QED BY <1>6, <1>7 DEF CDInv

LEMMA DetectKeeps ==
    ASSUME CDInv, NEW descriptor \in Descriptors, NEW abi \in Abis, NEW given_ \in CacheKeys \cup {NoKey},
           NEW validate \in BOOLEAN, Detect(descriptor, abi, given_, validate)
    PROVE  CDInv'
<1> DEFINE n == Len(askedOf)
           key == IF given_ # NoKey THEN <<given_, {}>> ELSE CacheKeyFor(descriptor, abi)
           result == IF key \in DOMAIN detections THEN detections[key] ELSE BuildResult(descriptor, abi)
           entry == [key |-> key, descriptor |-> descriptor, abi |-> abi]
<1>1. /\ UNCHANGED <<knownContracts, registrations>> /\ askedOf' = Append(askedOf, entry)
      /\ DOMAIN detections' = DOMAIN detections \cup {key}
      /\ \A k \in DOMAIN detections' : detections'[k] = IF k = key THEN result ELSE detections[k]
      /\ detection' = [key |-> key, custom |-> given_ # NoKey, descriptor |-> descriptor, abi |-> abi, result |-> result]
  BY DEF Detect
<1>2. n \in Nat /\ DOMAIN askedOf = 1..n /\ askedOf \in Seq(AskedEntry)
  BY LenProperties DEF CDInv, DetectionsSound
<1>3. KeyOf(given_ # NoKey, key, descriptor, abi) /\ key \in Keys
  BY DEF KeyOf, Keys
<1>4. entry \in AskedEntry /\ entry.key = key /\ entry.descriptor = descriptor /\ entry.abi = abi
  <2> HIDE DEF key
  <2> QED BY <1>3 DEF AskedEntry
<1>5. \A k \in DOMAIN detections : detections'[k] = detections[k]
  BY <1>1
<1>6. detections'[key] = result /\ key \in DOMAIN detections'
  BY <1>1
<1>7. /\ detection'.key = key /\ detection'.result = result /\ detection'.descriptor = descriptor
      /\ detection'.abi = abi /\ detection'.custom = (given_ # NoKey)
  BY <1>1
<1>8. key \notin DOMAIN detections => result = BuildResult(descriptor, abi)
  OBVIOUS
<1> HIDE DEF n, key, result, entry
<1>9. /\ askedOf' \in Seq(AskedEntry) /\ DOMAIN askedOf' = 1..(n + 1)
      /\ askedOf'[n + 1] = entry /\ \A i \in 1..n : askedOf'[i] = askedOf[i]
  BY <1>1, <1>2, <1>4, AppendProperties, LenProperties DEF n
<1>10. ASSUME NEW i \in DOMAIN askedOf'
       PROVE  /\ askedOf'[i].key \in DOMAIN detections'
              /\ \E custom \in BOOLEAN : KeyOf(custom, askedOf'[i].key, askedOf'[i].descriptor, askedOf'[i].abi)
  <2>1. CASE i = n + 1
    <3>1. (given_ # NoKey) \in BOOLEAN
      OBVIOUS
    <3> QED BY <1>3, <1>4, <1>6, <1>9, <2>1, <3>1
  <2>2. CASE i # n + 1
    <3>1. i \in 1..n
      BY <1>2, <1>9, <2>2
    <3> QED BY <1>1, <1>2, <1>9, <3>1 DEF CDInv, DetectionsSound
  <2> QED BY <2>1, <2>2
<1>11. ASSUME NEW k \in DOMAIN detections'
       PROVE  \E i \in DOMAIN askedOf' : /\ FirstAsked(i, k)'
                                         /\ detections'[k] = BuildResult(askedOf'[i].descriptor, askedOf'[i].abi)
  <2>1. CASE k \in DOMAIN detections
    <3>1. PICK i \in 1..n : FirstAsked(i, k) /\ detections[k] = BuildResult(askedOf[i].descriptor, askedOf[i].abi)
      BY <1>2, <2>1 DEF CDInv, DetectionsSound
    <3>2. i \in 1..(n + 1) /\ \A j \in 1..(i - 1) : j \in 1..n
      BY <1>2
    <3>3. FirstAsked(i, k)'
      BY <1>9, <3>1, <3>2 DEF FirstAsked
    <3> QED BY <1>5, <1>9, <2>1, <3>1, <3>2, <3>3
  <2>2. CASE k \notin DOMAIN detections
    <3>1. k = key /\ detections'[k] = BuildResult(descriptor, abi)
      BY <1>1, <1>6, <1>8, <2>2
    <3>2. \A j \in 1..n : askedOf[j].key # key
      BY <1>2, <2>2, <3>1 DEF CDInv, DetectionsSound
    <3>3. PICK last \in 1..(n + 1) : last - 1 = n /\ askedOf'[last] = entry
      BY <1>2, <1>9
    <3>4. FirstAsked(last, k)'
      BY <1>4, <1>9, <3>1, <3>2, <3>3 DEF FirstAsked
    <3>5. detections'[k] = BuildResult(askedOf'[last].descriptor, askedOf'[last].abi)
      BY <1>4, <3>1, <3>3
    <3> QED BY <1>9, <3>3, <3>4, <3>5
  <2> QED BY <2>1, <2>2
<1>12. DetectionsSound'
  BY <1>3, <1>6, <1>7, <1>9, <1>10, <1>11 DEF DetectionsSound
<1>13. RegistrationsSound'
  BY <1>1 DEF CDInv, RegistrationsSound, LastNamed
<1> QED BY <1>12, <1>13 DEF CDInv

LEMMA CDNextInv == CDInv /\ [CDNext]_cdVars => CDInv'
<1> SUFFICES ASSUME CDInv, [CDNext]_cdVars PROVE CDInv'
  OBVIOUS
<1>1. CASE UNCHANGED cdVars
  BY <1>1 DEF cdVars, CDInv, RegistrationsSound, DetectionsSound, LastNamed, FirstAsked
<1>2. CASE ClearDetections
  <2>1. UNCHANGED <<knownContracts, registrations>> /\ detections' = <<>> /\ askedOf' = <<>> /\ detection' = NoDetection
    BY <1>2 DEF ClearDetections
  <2>2. DOMAIN detections' = {} /\ DOMAIN askedOf' = {} /\ askedOf' \in Seq(AskedEntry)
    BY <2>1
  <2> QED BY <2>1, <2>2 DEF CDInv, RegistrationsSound, DetectionsSound, LastNamed
<1> QED BY <1>1, <1>2, RegisterDescriptorKeeps, DetectKeeps DEF CDNext

-----------------------------------------------------------------------------
(* Adapters.                                                                *)

AdapterPlace == [name : AdapterNames, adapter : 0..made]
Search == [place : Nat, adapter : 0..MaxAdapters, outcome : {"none", "asking", "found", "nothing", "threw"}]

\* A name has one place, and what was there throughout is somewhere.
PlacesSound ==
    /\ made \in 0..MaxAdapters
    /\ adapters \in Seq(AdapterPlace)
    /\ \A i, j \in DOMAIN adapters :
          adapters[i].name = adapters[j].name
          /\ adapters[i].adapter # NoAdapter /\ adapters[j].adapter # NoAdapter => i = j
    /\ throughout \subseteq Adapters(adapters)

DefaultSound ==
    /\ supporting \subseteq 1..MaxAdapters
    /\ {configured, defaultName} \subseteq AdapterNames \cup {NoName}
    /\ defaultName \notin {NoName, configured} =>
          \E i \in DOMAIN adapters : adapters[i].name = defaultName /\ adapters[i].adapter # NoAdapter

\* A search has passed nothing that was there throughout and supports the
\* contract; where it is, there is what it asks or something newer.
SearchSound ==
    /\ search \in Search
    /\ search.outcome = "none" => throughout = {}
    /\ search.outcome = "found" => search.adapter \in supporting
    /\ search.outcome = "nothing" => throughout \cap supporting = {}
    /\ search.outcome = "asking" =>
          \A i \in DOMAIN adapters : adapters[i].adapter \in throughout =>
              /\ i < search.place => adapters[i].adapter \notin supporting
              /\ i = search.place => adapters[i].adapter = search.adapter

ARInv == PlacesSound /\ DefaultSound /\ SearchSound

LEMMA ARInvFound == ARInv => AdapterFound
<1> SUFFICES ASSUME ARInv PROVE AdapterFound
  OBVIOUS
<1>1. ASSUME NEW name \in AdapterNames PROVE Cardinality(Places(name)) <= 1
  <2>1. CASE Places(name) = {}
    BY <2>1, FS_EmptySet
  <2>2. CASE Places(name) # {}
    <3>1. PICK i \in Places(name) : TRUE
      BY <2>2
    <3>2. Places(name) = {i}
      BY <3>1 DEF Places, ARInv, PlacesSound
    <3> QED BY <3>2, FS_Singleton
  <2> QED BY <2>1, <2>2
<1>2. defaultName \notin {NoName, configured} => Places(defaultName) # {}
  BY DEF ARInv, DefaultSound, Places
<1> QED BY <1>1, <1>2 DEF ARInv, SearchSound, AdapterFound

LEMMA ARInitInv == ARInit => ARInv
<1> SUFFICES ASSUME ARInit PROVE ARInv
  OBVIOUS
<1>1. adapters \in Seq(AdapterPlace) /\ DOMAIN adapters = {} /\ 0 \in 0..MaxAdapters
  BY AdaptersAssumption DEF ARInit
<1>2. search \in Search /\ search.outcome = "none"
  BY <1>1 DEF ARInit, Search, NoAdapter
<1> QED BY <1>1, <1>2 DEF ARInit, ARInv, PlacesSound, DefaultSound, SearchSound, Adapters

\* What is asked next is the first of those left, and those between are empty.
LEMMA AskNextSound ==
    ASSUME ARInv, NEW place \in Nat,
           \A i \in DOMAIN adapters :
              i <= place /\ adapters[i].adapter \in throughout' => adapters[i].adapter \notin supporting,
           throughout' \subseteq Adapters(adapters), search' = AskNext(place),
           UNCHANGED <<adapters, made, supporting, configured, defaultName>>
    PROVE  ARInv'
<1> DEFINE next == {i \in DOMAIN adapters : i > place /\ adapters[i].adapter # NoAdapter}
<1>1. /\ DOMAIN adapters = 1..Len(adapters) /\ Len(adapters) \in Nat
      /\ \A i \in DOMAIN adapters : adapters[i] \in AdapterPlace
      /\ made \in 0..MaxAdapters
  BY LenProperties DEF ARInv, PlacesSound
<1>2. \A i \in DOMAIN adapters : adapters[i].adapter \in 0..MaxAdapters
  BY <1>1, AdaptersAssumption DEF AdapterPlace
<1>3. PlacesSound' /\ DefaultSound'
  BY DEF ARInv, PlacesSound, DefaultSound, AdapterPlace, Adapters
<1>4. NoAdapter \notin throughout'
  BY DEF Adapters
<1>5. CASE next = {}
  <2>1. search' = [place |-> place, adapter |-> NoAdapter, outcome |-> "nothing"]
    BY <1>5 DEF AskNext
  <2>2. throughout' \cap supporting = {}
    <3> SUFFICES ASSUME NEW a \in throughout' PROVE a \notin supporting
      OBVIOUS
    <3>1. PICK i \in DOMAIN adapters : a = adapters[i].adapter /\ a # NoAdapter
      BY DEF Adapters
    <3>2. i <= place
      BY <1>1, <1>5, <3>1
    <3> QED BY <3>1, <3>2
  <2>3. SearchSound'
    BY <2>1, <2>2, AdaptersAssumption DEF SearchSound, Search, NoAdapter
  <2> QED BY <1>3, <2>3 DEF ARInv
<1>6. CASE next # {}
  <2>1. \E j \in next : \A k \in next : j <= k
    <3>1. next \in SUBSET Nat
      BY <1>1
    <3> HIDE DEF next
    <3> QED BY <1>6, <3>1, LeastNatural
  <2> DEFINE i == CHOOSE j \in next : \A k \in next : j <= k
  <2>2. i \in next /\ \A k \in next : i <= k
    BY <2>1
  <2>3. search' = [place |-> i, adapter |-> adapters[i].adapter, outcome |-> "asking"]
    BY <1>6 DEF AskNext
  <2> HIDE DEF i
  <2>4. search' \in Search
    BY <1>1, <1>2, <2>2, <2>3 DEF Search
  <2>5. ASSUME NEW k \in DOMAIN adapters, adapters[k].adapter \in throughout', k < i
        PROVE  adapters[k].adapter \notin supporting
    <3>1. k \notin next
      BY <1>1, <2>2, <2>5
    <3>2. k <= place
      BY <1>1, <1>4, <2>5, <3>1
    <3> QED BY <2>5, <3>2
  <2>6. SearchSound'
    BY <2>3, <2>4, <2>5 DEF SearchSound, Search
  <2> QED BY <1>3, <2>6 DEF ARInv
<1> QED BY <1>5, <1>6

LEMMA FindAdapterKeeps == ARInv /\ FindAdapter => ARInv'
<1> SUFFICES ASSUME ARInv, FindAdapter PROVE ARInv'
  OBVIOUS
<1>1. \A i \in DOMAIN adapters : ~(i <= 0)
  <2>1. DOMAIN adapters = 1..Len(adapters) /\ Len(adapters) \in Nat
    BY LenProperties DEF ARInv, PlacesSound
  <2> QED BY <2>1
<1> QED BY <1>1, AskNextSound DEF FindAdapter

LEMMA SupportsKeeps == ARInv /\ Supports => ARInv'
<1> SUFFICES ASSUME ARInv, Supports PROVE ARInv'
  OBVIOUS
<1>1. UNCHANGED <<adapters, made, supporting, configured, defaultName, throughout>> /\ search \in Search
  BY DEF Supports, ARInv, SearchSound
<1>2. PlacesSound' /\ DefaultSound'
  BY <1>1 DEF ARInv, PlacesSound, DefaultSound, AdapterPlace, Adapters
<1>3. ASSUME NEW o \in {"threw", "found"}, search' = [search EXCEPT !.outcome = o],
             o = "found" => search.adapter \in supporting
      PROVE  ARInv'
  <2>1. search' \in Search /\ search'.outcome = o /\ search'.adapter = search.adapter
    BY <1>1, <1>3 DEF Search
  <2>2. SearchSound'
    BY <1>1, <1>3, <2>1 DEF SearchSound
  <2> QED BY <1>2, <2>2 DEF ARInv
<1>4. CASE search' = AskNext(search.place) /\ search.adapter \notin supporting
  <2>1. search.place \in Nat /\ search.outcome = "asking"
    BY <1>1 DEF Search, Supports
  <2>2. \A i \in DOMAIN adapters :
           i <= search.place /\ adapters[i].adapter \in throughout' => adapters[i].adapter \notin supporting
    <3>1. \A i \in DOMAIN adapters : i \in Nat
      BY LenProperties DEF ARInv, PlacesSound
    <3> QED BY <1>1, <1>4, <2>1, <3>1 DEF ARInv, SearchSound
  <2>3. throughout' \subseteq Adapters(adapters)
    BY <1>1 DEF ARInv, PlacesSound
  <2> QED BY <1>1, <1>4, <2>1, <2>2, <2>3, AskNextSound
<1> QED BY <1>3, <1>4 DEF Supports

\* The places change, by an adapter nobody has asked yet or by one that is gone.
LEMMA ReplacedKeeps ==
    ASSUME ARInv, NEW placed, Replaced(placed), UNCHANGED <<supporting, configured, search>>,
           made' \in made..MaxAdapters, placed \in Seq(AdapterPlace'),
           \A i, j \in DOMAIN placed :
              placed[i].name = placed[j].name
              /\ placed[i].adapter # NoAdapter /\ placed[j].adapter # NoAdapter => i = j,
           \A i \in DOMAIN placed : placed[i].adapter \in 1..made =>
              i \in DOMAIN adapters /\ adapters[i] = placed[i],
           DefaultSound'
    PROVE  ARInv'
<1>1. adapters' = placed /\ throughout' = throughout \cap Adapters(placed)
  BY DEF Replaced
<1>2. PlacesSound'
  <2>1. made' \in 0..MaxAdapters
    BY AdaptersAssumption DEF ARInv, PlacesSound
  <2>2. throughout' \subseteq Adapters(adapters')
    BY <1>1
  <2> QED BY <1>1, <2>1, <2>2 DEF PlacesSound, Adapters
<1>3. throughout \subseteq 1..made
  <2>1. \A i \in DOMAIN adapters : adapters[i] \in AdapterPlace
    BY LenProperties DEF ARInv, PlacesSound
  <2> QED BY <2>1, AdaptersAssumption DEF ARInv, PlacesSound, Adapters, AdapterPlace, NoAdapter
<1>4. SearchSound'
  BY <1>1, <1>3 DEF ARInv, SearchSound, Search
<1> QED BY <1>2, <1>4 DEF ARInv

LEMMA UnregisterAdapterKeeps == ASSUME ARInv, NEW name \in AdapterNames, UnregisterAdapter(name) PROVE ARInv'
<1> DEFINE gone == [i \in DOMAIN adapters |->
                      IF i \in Places(name) THEN [adapters[i] EXCEPT !.adapter = NoAdapter] ELSE adapters[i]]
           n == Len(adapters)
<1>1. /\ n \in Nat /\ DOMAIN adapters = 1..n /\ made \in 0..MaxAdapters
      /\ \A i \in DOMAIN adapters : adapters[i] \in AdapterPlace
  BY LenProperties DEF ARInv, PlacesSound
<1>2. Replaced(gone) /\ UNCHANGED <<made, supporting, configured, search>>
      /\ defaultName' = IF defaultName = name THEN NoName ELSE defaultName
  BY DEF UnregisterAdapter
<1>3. \A i \in 1..n : /\ gone[i].name = adapters[i].name
                      /\ gone[i].adapter = IF i \in Places(name) THEN NoAdapter ELSE adapters[i].adapter
                      /\ gone[i] \in AdapterPlace
  <2> TAKE i \in 1..n
  <2>1. adapters[i] \in AdapterPlace /\ i \in DOMAIN adapters
    BY <1>1
  <2>2. CASE i \in Places(name)
    <3>1. gone[i] = [adapters[i] EXCEPT !.adapter = NoAdapter]
      BY <2>1, <2>2
    <3> QED BY <1>1, <2>1, <2>2, <3>1, AdaptersAssumption DEF AdapterPlace, NoAdapter
  <2>3. CASE i \notin Places(name)
    <3>1. gone[i] = adapters[i]
      BY <2>1, <2>3
    <3> QED BY <2>1, <2>3, <3>1
  <2> QED BY <2>2, <2>3
<1>4. DOMAIN gone = 1..n /\ gone \in Seq(AdapterPlace)
  <2>1. gone = [i \in 1..n |-> gone[i]]
    BY <1>1
  <2> HIDE DEF gone
  <2>2. gone \in [1..n -> AdapterPlace]
    BY <1>3, <2>1
  <2> QED BY <1>1, <2>2, FunctionIsSeq
<1>5. \A i \in 1..n : gone[i].adapter # NoAdapter => adapters[i].adapter # NoAdapter /\ gone[i] = adapters[i]
  BY <1>1, <1>3
<1> HIDE DEF gone, n
<1>6. DefaultSound'
  <2>1. UNCHANGED <<supporting, configured>> /\ adapters' = gone
    BY <1>2 DEF Replaced
  <2>2. CASE defaultName = name
    BY <1>2, <2>1, <2>2 DEF ARInv, DefaultSound
  <2>3. CASE defaultName # name
    <3>1. defaultName' = defaultName
      BY <1>2, <2>3
    <3>2. ASSUME defaultName \notin {NoName, configured}
          PROVE  \E i \in DOMAIN gone : gone[i].name = defaultName /\ gone[i].adapter # NoAdapter
      <4>1. PICK i \in 1..n : adapters[i].name = defaultName /\ adapters[i].adapter # NoAdapter
        BY <1>1, <3>2 DEF ARInv, DefaultSound
      <4>2. i \notin Places(name)
        BY <2>3, <4>1 DEF Places
      <4> QED BY <1>3, <1>4, <4>1, <4>2
    <3> QED BY <2>1, <3>1, <3>2 DEF ARInv, DefaultSound
  <2> QED BY <2>2, <2>3
<1>7. AdapterPlace' = AdapterPlace
  BY <1>2 DEF AdapterPlace
<1>8. \A i, j \in DOMAIN gone :
         gone[i].name = gone[j].name
         /\ gone[i].adapter # NoAdapter /\ gone[j].adapter # NoAdapter => i = j
  BY <1>1, <1>4, <1>5 DEF ARInv, PlacesSound
<1>9. \A i \in DOMAIN gone : gone[i].adapter \in 1..made => i \in DOMAIN adapters /\ adapters[i] = gone[i]
  BY <1>1, <1>4, <1>5 DEF NoAdapter
<1>10. made' \in made..MaxAdapters
  BY <1>1, <1>2, AdaptersAssumption
<1> QED BY <1>2, <1>4, <1>6, <1>7, <1>8, <1>9, <1>10, ReplacedKeeps

\* A new adapter takes the place of its name, or one at the end.
LEMMA RegisterAdapterKeeps == ASSUME ARInv, NEW name \in AdapterNames, RegisterAdapter(name) PROVE ARInv'
<1> DEFINE n == Len(adapters)
           placed == IF Places(name) # {} THEN [i \in DOMAIN adapters |->
                        IF i \in Places(name) THEN [adapters[i] EXCEPT !.adapter = made'] ELSE adapters[i]]
                     ELSE Append(adapters, [name |-> name, adapter |-> made'])
<1>1. /\ n \in Nat /\ DOMAIN adapters = 1..n /\ made \in 0..MaxAdapters
      /\ \A i \in DOMAIN adapters : adapters[i] \in AdapterPlace
      /\ MaxAdapters \in Nat
  BY LenProperties, AdaptersAssumption DEF ARInv, PlacesSound
<1>2. /\ made < MaxAdapters /\ made' = made + 1 /\ Replaced(placed)
      /\ UNCHANGED <<supporting, configured, search>>
      /\ defaultName' = IF defaultName = NoName THEN name ELSE defaultName
  BY DEF RegisterAdapter
<1>3. \A i \in 1..n : adapters[i] \in AdapterPlace' /\ adapters[i].adapter # made'
  BY <1>1, <1>2 DEF AdapterPlace
<1>4. /\ placed \in Seq(AdapterPlace')
      /\ \A i \in DOMAIN placed : \/ i \in 1..n /\ i \notin Places(name) /\ placed[i] = adapters[i]
                                  \/ /\ placed[i].name = name /\ placed[i].adapter = made'
                                     /\ i \in Places(name) \/ (i = n + 1 /\ Places(name) = {})
      /\ 1..n \subseteq DOMAIN placed
      /\ \E i \in DOMAIN placed : placed[i].name = name /\ placed[i].adapter = made'
  <2>1. CASE Places(name) # {}
    <3>1. placed = [i \in 1..n |-> IF i \in Places(name) THEN [adapters[i] EXCEPT !.adapter = made'] ELSE adapters[i]]
      BY <1>1, <2>1
    <3> HIDE DEF placed, n
    <3>2. \A i \in 1..n : i \in Places(name) =>
             placed[i] \in AdapterPlace' /\ placed[i].name = name /\ placed[i].adapter = made'
      <4> SUFFICES ASSUME NEW i \in 1..n, i \in Places(name)
                   PROVE  placed[i] \in AdapterPlace' /\ placed[i].name = name /\ placed[i].adapter = made'
        OBVIOUS
      <4>1. placed[i] = [adapters[i] EXCEPT !.adapter = made'] /\ adapters[i].name = name
        BY <3>1 DEF Places
      <4>2. adapters[i] \in AdapterPlace
        BY <1>1
      <4> QED BY <1>1, <1>2, <4>1, <4>2 DEF AdapterPlace
    <3>3. \A i \in 1..n : i \notin Places(name) => placed[i] = adapters[i] /\ placed[i] \in AdapterPlace'
      BY <1>3, <3>1
    <3>4. placed \in [1..n -> AdapterPlace']
      BY <3>1, <3>2, <3>3
    <3>5. placed \in Seq(AdapterPlace')
      BY <1>1, <3>4, FunctionIsSeq
    <3>6. Places(name) \subseteq 1..n
      BY <1>1 DEF Places
    <3> QED BY <2>1, <3>1, <3>2, <3>3, <3>5, <3>6
  <2>2. CASE Places(name) = {}
    <3> DEFINE new == [name |-> name, adapter |-> made']
    <3>1. placed = Append(adapters, new)
      BY <2>2
    <3>2. new \in AdapterPlace' /\ new.name = name /\ new.adapter = made'
      BY <1>1, <1>2 DEF AdapterPlace
    <3> HIDE DEF placed, new
    <3>3. adapters \in [1..n -> AdapterPlace']
      BY <1>1, <1>3 DEF ARInv, PlacesSound
    <3>4. adapters \in Seq(AdapterPlace')
      BY <1>1, <3>3, FunctionIsSeq
    <3>5. /\ placed \in Seq(AdapterPlace') /\ Len(placed) = n + 1 /\ placed[n + 1] = new
          /\ \A i \in 1..n : placed[i] = adapters[i]
      BY <3>1, <3>2, <3>4, AppendProperties
    <3>6. DOMAIN placed = 1..(n + 1)
      BY <3>5, LenProperties
    <3> QED BY <1>1, <2>2, <3>2, <3>5, <3>6
  <2> QED BY <2>1, <2>2
<1> HIDE DEF placed, n
<1>5. \A i \in 1..n : adapters[i].name = name /\ adapters[i].adapter # NoAdapter => i \in Places(name)
  BY <1>1 DEF Places
<1>6. \A i, j \in DOMAIN placed :
         placed[i].name = placed[j].name
         /\ placed[i].adapter # NoAdapter /\ placed[j].adapter # NoAdapter => i = j
  BY <1>1, <1>4, <1>5 DEF ARInv, PlacesSound, Places
<1>7. \A i \in DOMAIN placed : placed[i].adapter \in 1..made => i \in DOMAIN adapters /\ adapters[i] = placed[i]
  BY <1>1, <1>2, <1>4
<1>8. DefaultSound'
  <2>1. UNCHANGED <<supporting, configured>> /\ adapters' = placed
    BY <1>2 DEF Replaced
  <2>2. made' # NoAdapter
    BY <1>1, <1>2 DEF NoAdapter
  <2>3. ASSUME defaultName # NoName, defaultName # configured
        PROVE  \E i \in DOMAIN placed : placed[i].name = defaultName /\ placed[i].adapter # NoAdapter
    <3>1. PICK i \in 1..n : adapters[i].name = defaultName /\ adapters[i].adapter # NoAdapter
      BY <1>1, <2>3 DEF ARInv, DefaultSound
    <3>2. i \in DOMAIN placed /\ (i \in Places(name) => defaultName = name)
      BY <1>4, <3>1 DEF Places
    <3>3. CASE placed[i] = adapters[i]
      BY <3>1, <3>2, <3>3
    <3>4. CASE placed[i].name = name /\ placed[i].adapter = made' /\ i \in Places(name)
      BY <2>2, <3>2, <3>4
    <3>5. i # n + 1
      BY <1>1
    <3> QED BY <1>4, <3>2, <3>3, <3>4, <3>5
  <2> QED BY <1>2, <1>4, <2>1, <2>2, <2>3 DEF ARInv, DefaultSound
<1>9. made' \in made..MaxAdapters
  BY <1>1, <1>2
<1> QED BY <1>2, <1>4, <1>6, <1>7, <1>8, <1>9, ReplacedKeeps

LEMMA ARNextInv == ARInv /\ [ARNext]_arVars => ARInv'
<1> SUFFICES ASSUME ARInv, [ARNext]_arVars PROVE ARInv'
  OBVIOUS
<1>1. CASE UNCHANGED <<adapters, made, supporting, configured, defaultName, search, throughout>>
  BY <1>1 DEF ARInv, PlacesSound, DefaultSound, SearchSound, AdapterPlace, Search, Adapters
<1>2. ASSUME NEW name \in AdapterNames, SetDefault(name) PROVE ARInv'
  <2>1. UNCHANGED <<adapters, made, supporting, configured, search, throughout>>
    BY <1>2 DEF SetDefault
  <2>2. DefaultSound'
    BY <1>2 DEF ARInv, DefaultSound, SetDefault, Places
  <2> QED BY <2>1, <2>2 DEF ARInv, PlacesSound, SearchSound, AdapterPlace, Search, Adapters
<1>3. ASSUME NEW name \in AdapterNames, RegisterAdapter(name) \/ UnregisterAdapter(name) PROVE ARInv'
  BY <1>3, RegisterAdapterKeeps, UnregisterAdapterKeeps
<1> QED BY <1>1, <1>2, <1>3, FindAdapterKeeps, SupportsKeeps DEF ARNext, arVars

-----------------------------------------------------------------------------
(* Feature flags.                                                           *)

\* The last decision about a key, registered or not, is its override.
FFInv ==
    /\ DOMAIN definitions \subseteq FlagKeys /\ DOMAIN overrides \subseteq FlagKeys
    /\ \A k \in DOMAIN definitions : definitions[k] \in Stabilities
    /\ \A k \in DOMAIN overrides : overrides[k] \in {"on", "off"}
    /\ policy \in Policies /\ DOMAIN decided = FlagKeys
    /\ \A k \in FlagKeys : decided[k] = IF k \in DOMAIN overrides THEN overrides[k] ELSE Open

LEMMA FFInvDecided == FFInv => FlagsFollowDecisions
<1> SUFFICES ASSUME FFInv, NEW key \in DOMAIN definitions
             PROVE  FlagState(key) = [enabled |-> EvaluateFeature(definitions[key], policy, decided[key]),
                                      isOverridden |-> decided[key] # Open]
  BY DEF FlagsFollowDecisions
<1>1. key \in FlagKeys
  BY DEF FFInv
<1>2. CASE key \in DOMAIN overrides
  <2>1. decided[key] = overrides[key] /\ overrides[key] \in {"on", "off"}
    BY <1>1, <1>2 DEF FFInv
  <2>2. IsEnabled(key) = EvaluateFeature(definitions[key], policy, decided[key])
    BY <1>2, <2>1 DEF IsEnabled, EvaluateFeature, Open
  <2> QED BY <1>2, <2>1, <2>2 DEF FlagState, Open
<1>3. CASE key \notin DOMAIN overrides
  <2>1. decided[key] = Open
    BY <1>1, <1>3 DEF FFInv
  <2>2. IsEnabled(key) = EvaluateFeature(definitions[key], policy, decided[key])
    BY <1>3, <2>1 DEF IsEnabled, EvaluateFeature, Open
  <2> QED BY <1>3, <2>1, <2>2 DEF FlagState, Open
<1> QED BY <1>2, <1>3

LEMMA FFInitInv == FFInit => FFInv
<1> SUFFICES ASSUME FFInit PROVE FFInv
  OBVIOUS
<1>1. DOMAIN definitions = BuiltInKeys /\ \A k \in BuiltInKeys : definitions[k] \in Stabilities
  BY DEF FFInit
<1>2. DOMAIN overrides \subseteq FlagKeys /\ \A k \in DOMAIN overrides : overrides[k] \in {"on", "off"}
  BY DEF FFInit
<1> QED BY <1>1, <1>2, FlagsAssumption DEF FFInit, FFInv

LEMMA FFNextInv == FFInv /\ [FFNext]_ffVars => FFInv'
<1> SUFFICES ASSUME FFInv, [FFNext]_ffVars PROVE FFInv'
  OBVIOUS
<1>1. CASE UNCHANGED ffVars
  BY <1>1 DEF ffVars, FFInv
<1>2. CASE ResetAll
  <2>1. DOMAIN overrides' = {}
    BY <1>2 DEF ResetAll
  <2> QED BY <1>2, <2>1 DEF ResetAll, DefaultPolicy, Policies, FFInv
<1>3. ASSUME NEW allowed \in Policies, SetPolicy(allowed)
      PROVE  FFInv'
  BY <1>3 DEF SetPolicy, FFInv
<1>4. ASSUME NEW key \in FlagKeys,
             \/ UnregisterFlag(key) \/ ResetFlag(key)
             \/ \E value \in {"on", "off"} : Override(key, value)
             \/ \E stability \in Stabilities : RegisterFlag(key, stability)
      PROVE  FFInv'
  <2>1. CASE UnregisterFlag(key)
    BY <2>1 DEF UnregisterFlag, Restrict, FFInv
  <2>2. CASE ResetFlag(key)
    BY <2>2 DEF ResetFlag, Restrict, FFInv
  <2>3. ASSUME NEW value \in {"on", "off"}, Override(key, value)
        PROVE  FFInv'
    <3>1. /\ UNCHANGED <<definitions, policy>>
          /\ DOMAIN overrides' = DOMAIN overrides \cup {key}
          /\ \A k \in DOMAIN overrides' : overrides'[k] = IF k = key THEN value ELSE overrides[k]
          /\ decided' = [decided EXCEPT ![key] = value]
      BY <2>3 DEF Override, With
    <3> QED BY <3>1 DEF FFInv
  <2>4. ASSUME NEW stability \in Stabilities, RegisterFlag(key, stability)
        PROVE  FFInv'
    <3>1. /\ UNCHANGED <<overrides, policy, decided>>
          /\ DOMAIN definitions' = DOMAIN definitions \cup {key}
          /\ \A k \in DOMAIN definitions' : definitions'[k] = IF k = key THEN stability ELSE definitions[k]
      BY <2>4 DEF RegisterFlag, With
    <3> QED BY <3>1 DEF FFInv
  <2> QED BY <1>4, <2>1, <2>2, <2>3, <2>4
<1> QED BY <1>1, <1>2, <1>3, <1>4 DEF FFNext
===============================================================================
