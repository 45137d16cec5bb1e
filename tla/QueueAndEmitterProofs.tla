------------------------- MODULE QueueAndEmitterProofs -------------------------
(***************************************************************************)
(* Proofs about two components that serve what they were given in order:   *)
(* the request queue, for every set of requests, every throwing subset and *)
(* every set of configurations, and the contract event emitter, for all    *)
(* registrations, event names, page sizes and bounds.                      *)
(*                                                                         *)
(* TypeOK, SlotsAccounted and LiveRequestsUnsettled are inductive only     *)
(* together: the counter stays a natural number because it counts the      *)
(* running set, it counts the running set because a request taken from     *)
(* the queue is not running, and that holds because it is queued once.     *)
(*                                                                         *)
(* A page of events is delivered one callback at a time, and any callback  *)
(* may change the lists; so what a listener was called with is followed    *)
(* through the turn.  Up to the event taken up, a listener that is still   *)
(* listed has every event of its name since its first, but for the current *)
(* one while it waits for that call or for its name to be emitted (NoGap). *)
(* It waits for one such call at most, since its name is emitted once and  *)
(* a registration is listed once under its own name (EmitsSound,           *)
(* ListsSound, CallsSound), and then was not called with the event yet     *)
(* (OwedSound).  A closed emitter has no lists to emit from, but those     *)
(* calls already copied go on: that a listener was removed is no reason    *)
(* for a gap, only for an end.                                             *)
(***************************************************************************)
EXTENDS ConcurrencyQueue, ContractEventEmitter, CommonLemmas

-----------------------------------------------------------------------------
(* The request queue.                                                       *)

IInv == TypeOK /\ SlotsAccounted /\ LiveRequestsUnsettled

-----------------------------------------------------------------------------
(* Sequences without repetition.                                            *)

\* What processQueue leaves in the queue: order and uniqueness are kept, and
\* exactly the requests taken are gone.
LEMMA SuffixProperties ==
    ASSUME NEW q \in Seq(Requests), IsInjective(q), NEW n \in 0..Len(q)
    PROVE  LET s == SubSeq(q, n + 1, Len(q))
           IN  /\ s \in Seq(Requests)
               /\ IsInjective(s)
               /\ ToSet(s) = ToSet(q) \ Taken(q, n)
               /\ Taken(q, n) \subseteq ToSet(q)
<1> DEFINE s == SubSeq(q, n + 1, Len(q))
<1>1. /\ Len(q) \in Nat /\ DOMAIN q = 1..Len(q) /\ n \in Nat
      /\ \A i \in 1..Len(q) : q[i] \in Requests
  BY LenProperties
<1>2. /\ s \in Seq(Requests)
      /\ Len(s) = Len(q) - n
      /\ \A i \in 1..(Len(q) - n) : s[i] = q[n + i]
  <2>1. \A i \in (n + 1)..Len(q) : q[i] \in Requests
    BY <1>1
  <2>2. /\ s \in Seq(Requests)
        /\ Len(s) = IF n + 1 <= Len(q) THEN Len(q) - (n + 1) + 1 ELSE 0
        /\ \A i \in 1..(Len(q) - (n + 1) + 1) : s[i] = q[(n + 1) + i - 1]
    BY <1>1, <2>1, SubSeqProperties
  <2> HIDE DEF s
  <2>3. Len(s) = IF n + 1 <= Len(q) THEN Len(q) - (n + 1) + 1 ELSE 0
    BY <2>2
  <2>4. Len(s) = Len(q) - n
    <3>1. CASE n + 1 <= Len(q)
      BY <2>3, <3>1, <1>1
    <3>2. CASE ~(n + 1 <= Len(q))
      <4>1. Len(s) = 0
        BY <2>3, <3>2
      <4>2. Len(q) - n = 0
        <5>1. Len(q) \in Nat /\ n \in Nat /\ n <= Len(q)
          BY <1>1
        <5> QED BY <5>1, <3>2
      <4> QED BY <4>1, <4>2
    <3> QED BY <3>1, <3>2
  <2>5. ASSUME NEW i \in 1..(Len(q) - n) PROVE s[i] = q[n + i]
    <3>1. i \in 1..(Len(q) - (n + 1) + 1) /\ (n + 1) + i - 1 = n + i
      BY <1>1
    <3>2. s[i] = q[(n + 1) + i - 1]
      BY <2>2, <3>1
    <3> QED BY <3>1, <3>2
  <2> QED BY <2>2, <2>4, <2>5
<1> HIDE DEF s
<1>3. DOMAIN s = 1..(Len(q) - n)
  BY <1>2, LenProperties
<1>4. IsInjective(s)
  <2> SUFFICES ASSUME NEW i \in 1..(Len(q) - n), NEW j \in 1..(Len(q) - n), s[i] = s[j]
               PROVE  i = j
    BY <1>3, Zenon DEF IsInjective
  <2>1. q[n + i] = q[n + j] /\ n + i \in DOMAIN q /\ n + j \in DOMAIN q
    <3>1. n + i \in 1..Len(q) /\ n + j \in 1..Len(q)
      BY <1>1
    <3>2. s[i] = q[n + i] /\ s[j] = q[n + j]
      BY <1>2
    <3> QED BY <1>1, <3>1, <3>2
  <2>2. n + i = n + j
    BY <2>1 DEF IsInjective
  <2> QED BY <2>2, <1>1
<1>5. ToSet(s) = ToSet(q) \ Taken(q, n)
  <2>1. ASSUME NEW x \in ToSet(s) PROVE x \in ToSet(q) \ Taken(q, n)
    <3>1. PICK i \in 1..(Len(q) - n) : x = q[n + i]
      BY <2>1, <1>2, <1>3 DEF ToSet
    <3>2. \A j \in 1..n : q[j] # x
      BY <3>1, <1>1 DEF IsInjective
    <3> QED BY <3>1, <3>2, <1>1 DEF ToSet, Taken
  <2>2. ASSUME NEW x \in ToSet(q) \ Taken(q, n) PROVE x \in ToSet(s)
    <3>1. PICK i \in 1..Len(q) : x = q[i] /\ i \notin 1..n
      BY <2>2, <1>1 DEF ToSet, Taken
    <3>2. i - n \in 1..(Len(q) - n) /\ n + (i - n) = i
      BY <3>1, <1>1
    <3>3. s[i - n] = x
      BY <3>1, <3>2, <1>2
    <3> QED BY <3>2, <3>3, <1>3 DEF ToSet
  <2> QED BY <2>1, <2>2
<1>6. Taken(q, n) \subseteq ToSet(q)
  BY <1>1 DEF Taken, ToSet
<1> QED BY <1>2, <1>4, <1>5, <1>6 DEF s

\* A request handed to execute joins the end of the queue.
LEMMA AppendKeepsDistinct ==
    ASSUME NEW q \in Seq(Requests), IsInjective(q), NEW r \in Requests, r \notin ToSet(q)
    PROVE  /\ Append(q, r) \in Seq(Requests)
           /\ IsInjective(Append(q, r))
           /\ ToSet(Append(q, r)) = ToSet(q) \cup {r}
<1> DEFINE s == Append(q, r)
<1>1. Len(q) \in Nat /\ DOMAIN q = 1..Len(q)
  BY LenProperties
<1>2. /\ s \in Seq(Requests)
      /\ Len(s) = Len(q) + 1
      /\ \A i \in 1..Len(q) : s[i] = q[i]
      /\ s[Len(q) + 1] = r
  BY AppendProperties
<1> HIDE DEF s
<1>3. DOMAIN s = 1..(Len(q) + 1)
  BY <1>2, LenProperties
<1>4. IsInjective(s)
  <2> SUFFICES ASSUME NEW a \in DOMAIN s, NEW b \in DOMAIN s, s[a] = s[b]
               PROVE  a = b
    BY DEF IsInjective
  <2>1. \A i \in 1..Len(q) : q[i] # r
    BY <1>1 DEF ToSet
  <2> QED BY <1>1, <1>2, <1>3, <2>1 DEF IsInjective
<1>5. ToSet(s) = ToSet(q) \cup {r}
  <2>1. ASSUME NEW x \in ToSet(s) PROVE x \in ToSet(q) \cup {r}
    BY <1>1, <1>2, <1>3, <2>1 DEF ToSet
  <2>2. ASSUME NEW x \in ToSet(q) PROVE x \in ToSet(s)
    BY <1>1, <1>2, <1>3, <2>2 DEF ToSet
  <2>3. r \in ToSet(s)
    <3>1. Len(q) + 1 \in DOMAIN s
      BY <1>1, <1>3
    <3> QED BY <3>1, <1>2 DEF ToSet
  <2> QED BY <2>1, <2>2, <2>3
<1> QED BY <1>2, <1>4, <1>5 DEF s

\* removeFromQueue takes out exactly the request that timed out.
LEMMA RemoveFirstKeepsDistinct ==
    ASSUME NEW q \in Seq(Requests), IsInjective(q), NEW r \in Requests
    PROVE  /\ RemoveFirst(q, r) \in Seq(Requests)
           /\ IsInjective(RemoveFirst(q, r))
           /\ ToSet(RemoveFirst(q, r)) = ToSet(q) \ {r}
<1>1. Len(q) \in Nat /\ DOMAIN q = 1..Len(q) /\ \A i \in 1..Len(q) : q[i] \in Requests
  BY LenProperties
<1>2. CASE ~ \E i \in 1..Len(q) : q[i] = r
  <2>1. RemoveFirst(q, r) = q
    BY <1>2 DEF RemoveFirst
  <2>2. r \notin ToSet(q)
    BY <1>1, <1>2 DEF ToSet
  <2> QED BY <2>1, <2>2
<1>3. CASE \E i \in 1..Len(q) : q[i] = r
  <2>1. PICK k \in 1..Len(q) : q[k] = r
    BY <1>3
  <2>2. \A i \in 1..Len(q) : q[i] = r => i = k
    BY <1>1, <2>1 DEF IsInjective
  <2>3. SelectInSeq(q, LAMBDA v : v = r) = k
    <3>1. {i \in 1..Len(q) : q[i] = r} = {k}
      BY <2>1, <2>2
    <3>2. Min({k}) = k
      BY <2>1, <1>1 DEF Min
    <3> QED BY <3>1, <3>2 DEF SelectInSeq
  <2> DEFINE a == SubSeq(q, 1, k - 1)
             b == SubSeq(q, k + 1, Len(q))
             s == a \o b
  <2>4. RemoveFirst(q, r) = s
    BY <1>3, <2>3 DEF RemoveFirst, RemoveAt
  <2>5. a \in Seq(Requests) /\ Len(a) = k - 1 /\ \A i \in 1..(k - 1) : a[i] = q[i]
    <3>1. \A i \in 1..(k - 1) : q[i] \in Requests
      BY <1>1, <2>1
    <3>2. /\ a \in Seq(Requests)
          /\ Len(a) = IF 1 <= k - 1 THEN (k - 1) - 1 + 1 ELSE 0
          /\ \A i \in 1..((k - 1) - 1 + 1) : a[i] = q[1 + i - 1]
      BY <1>1, <2>1, <3>1, SubSeqProperties
    <3> HIDE DEF a
    <3> QED BY <3>2, <2>1, <1>1
  <2>6. b \in Seq(Requests) /\ Len(b) = Len(q) - k /\ \A i \in 1..(Len(q) - k) : b[i] = q[k + i]
    <3>1. \A i \in (k + 1)..Len(q) : q[i] \in Requests
      BY <1>1, <2>1
    <3>2. /\ b \in Seq(Requests)
          /\ Len(b) = IF k + 1 <= Len(q) THEN Len(q) - (k + 1) + 1 ELSE 0
          /\ \A i \in 1..(Len(q) - (k + 1) + 1) : b[i] = q[(k + 1) + i - 1]
      BY <1>1, <2>1, <3>1, SubSeqProperties
    <3> HIDE DEF b
    <3>3. Len(b) = IF k + 1 <= Len(q) THEN Len(q) - (k + 1) + 1 ELSE 0
      BY <3>2
    <3>4. Len(b) = Len(q) - k
      <4>1. CASE k + 1 <= Len(q)
        BY <3>3, <4>1, <1>1
      <4>2. CASE ~(k + 1 <= Len(q))
        <5>1. Len(b) = 0
          BY <3>3, <4>2
        <5>2. Len(q) - k = 0
          <6>1. Len(q) \in Nat /\ k \in Nat /\ k <= Len(q)
            BY <1>1
          <6> QED BY <6>1, <4>2
        <5> QED BY <5>1, <5>2
      <4> QED BY <4>1, <4>2
    <3>5. ASSUME NEW i \in 1..(Len(q) - k) PROVE b[i] = q[k + i]
      <4>1. i \in 1..(Len(q) - (k + 1) + 1) /\ (k + 1) + i - 1 = k + i
        BY <2>1, <1>1
      <4>2. b[i] = q[(k + 1) + i - 1]
        BY <3>2, <4>1
      <4> QED BY <4>1, <4>2
    <3> QED BY <3>2, <3>4, <3>5
  <2> HIDE DEF a, b
  <2>7. /\ s \in Seq(Requests)
        /\ Len(s) = Len(q) - 1
        /\ \A i \in 1..(Len(q) - 1) : s[i] = IF i < k THEN q[i] ELSE q[i + 1]
    <3>1. /\ s \in Seq(Requests)
          /\ Len(s) = Len(a) + Len(b)
          /\ \A i \in 1..(Len(a) + Len(b)) : s[i] = IF i <= Len(a) THEN a[i] ELSE b[i - Len(a)]
      BY <2>5, <2>6, ConcatProperties
    <3> HIDE DEF s
    <3>2. Len(s) = Len(q) - 1
      <4>1. Len(s) = Len(a) + Len(b) /\ Len(a) = k - 1 /\ Len(b) = Len(q) - k
        BY <3>1, <2>5, <2>6
      <4> QED BY <4>1, <2>1, <1>1
    <3>3. ASSUME NEW i \in 1..(Len(q) - 1)
          PROVE  s[i] = IF i < k THEN q[i] ELSE q[i + 1]
      <4>1. Len(a) = k - 1 /\ i \in 1..(Len(a) + Len(b))
        <5>1. Len(a) = k - 1 /\ Len(b) = Len(q) - k
          BY <2>5, <2>6
        <5> QED BY <5>1, <2>1, <1>1
      <4>2. s[i] = IF i <= Len(a) THEN a[i] ELSE b[i - Len(a)]
        BY <3>1, <4>1
      <4>3. CASE i < k
        <5>1. i <= Len(a) /\ i \in 1..(k - 1)
          BY <4>1, <4>3, <2>1, <1>1
        <5> QED BY <5>1, <4>2, <4>3, <2>5
      <4>4. CASE ~(i < k)
        <5>1. /\ ~(i <= Len(a))
              /\ i - Len(a) \in 1..(Len(q) - k)
              /\ k + (i - Len(a)) = i + 1
          BY <4>1, <4>4, <2>1, <1>1
        <5>2. b[i - Len(a)] = q[k + (i - Len(a))]
          BY <5>1, <2>6
        <5> QED BY <5>1, <5>2, <4>2, <4>4
      <4> QED BY <4>3, <4>4
    <3> QED BY <3>1, <3>2, <3>3
  <2> HIDE DEF s
  <2>8. DOMAIN s = 1..(Len(q) - 1)
    BY <2>7, LenProperties
  <2>9. IsInjective(s)
    <3> SUFFICES ASSUME NEW i \in 1..(Len(q) - 1), NEW j \in 1..(Len(q) - 1), s[i] = s[j]
                 PROVE  i = j
      BY <2>8 DEF IsInjective
    <3>1. /\ i \in 1..Len(q) /\ i + 1 \in 1..Len(q)
          /\ j \in 1..Len(q) /\ j + 1 \in 1..Len(q)
      BY <1>1
    <3>2. ASSUME NEW x \in 1..Len(q), NEW y \in 1..Len(q), q[x] = q[y] PROVE x = y
      BY <3>2, <1>1 DEF IsInjective
    <3>3. /\ s[i] = IF i < k THEN q[i] ELSE q[i + 1]
          /\ s[j] = IF j < k THEN q[j] ELSE q[j + 1]
      BY <2>7
    <3>4. CASE i < k /\ j < k
      BY <3>1, <3>2, <3>3, <3>4
    <3>5. CASE i < k /\ ~(j < k)
      <4>1. i = j + 1
        BY <3>1, <3>2, <3>3, <3>5
      <4> QED BY <4>1, <3>5, <2>1, <1>1
    <3>6. CASE ~(i < k) /\ j < k
      <4>1. i + 1 = j
        BY <3>1, <3>2, <3>3, <3>6
      <4> QED BY <4>1, <3>6, <2>1, <1>1
    <3>7. CASE ~(i < k) /\ ~(j < k)
      <4>1. i + 1 = j + 1
        BY <3>1, <3>2, <3>3, <3>7
      <4> QED BY <4>1
    <3> QED BY <3>4, <3>5, <3>6, <3>7
  <2>10. ToSet(s) = ToSet(q) \ {r}
    <3>1. ASSUME NEW x \in ToSet(s) PROVE x \in ToSet(q) \ {r}
      <4>1. PICK i \in 1..(Len(q) - 1) : x = s[i]
        BY <3>1, <2>8 DEF ToSet
      <4>2. PICK j \in 1..Len(q) : x = q[j] /\ j # k
        BY <4>1, <2>7, <2>1, <1>1
      <4> QED BY <4>2, <2>2, <1>1 DEF ToSet
    <3>2. ASSUME NEW x \in ToSet(q) \ {r} PROVE x \in ToSet(s)
      <4>1. PICK j \in 1..Len(q) : x = q[j] /\ j # k
        BY <3>2, <2>1, <1>1 DEF ToSet
      <4>2. CASE j < k
        BY <4>1, <4>2, <2>7, <2>8, <2>1, <1>1 DEF ToSet
      <4>3. CASE j > k
        <5>1. j - 1 \in 1..(Len(q) - 1) /\ ~(j - 1 < k) /\ (j - 1) + 1 = j
          BY <4>1, <4>3, <2>1, <1>1
        <5>2. s[j - 1] = x
          BY <5>1, <4>1, <2>7
        <5> QED BY <5>1, <5>2, <2>8 DEF ToSet
      <4> QED BY <4>1, <4>2, <4>3, <2>1, <1>1
    <3> QED BY <3>1, <3>2
  <2> QED BY <2>4, <2>7, <2>9, <2>10
<1> QED BY <1>2, <1>3

-----------------------------------------------------------------------------
(* What one call of processQueue does.                                      *)

LEMMA RequestSetsFinite ==
    ASSUME NEW S \in SUBSET Requests
    PROVE  IsFiniteSet(S) /\ Cardinality(S) \in Nat
BY RequestsAssumption, FS_Subset, FS_CardinalityType

\* One more request taken from the queue holds at most one more slot.
LEMMA HoldingGrowsByOne ==
    ASSUME NEW q \in Seq(Requests), NEW n \in 1..Len(q)
    PROVE  /\ Holding(q, n) \in SUBSET Requests
           /\ Cardinality(Holding(q, n)) <= Cardinality(Holding(q, n - 1)) + 1
<1>1. Len(q) \in Nat /\ \A i \in 1..Len(q) : q[i] \in Requests
  BY LenProperties
<1>2. /\ Holding(q, n) \in SUBSET Requests
      /\ Holding(q, n - 1) \in SUBSET Requests
  BY <1>1 DEF Holding, Taken
<1>3. Holding(q, n) \subseteq Holding(q, n - 1) \cup {q[n]}
  BY <1>1 DEF Holding, Taken
<1>4. /\ IsFiniteSet(Holding(q, n - 1)) /\ Cardinality(Holding(q, n - 1)) \in Nat
      /\ Cardinality(Holding(q, n)) \in Nat
  BY <1>2, RequestSetsFinite
<1>5. /\ IsFiniteSet(Holding(q, n - 1) \cup {q[n]})
      /\ Cardinality(Holding(q, n - 1) \cup {q[n]}) =
           IF q[n] \in Holding(q, n - 1) THEN Cardinality(Holding(q, n - 1))
                                         ELSE Cardinality(Holding(q, n - 1)) + 1
  BY <1>4, FS_AddElement
<1>6. Cardinality(Holding(q, n)) <= Cardinality(Holding(q, n - 1) \cup {q[n]})
  BY <1>3, <1>5, FS_Subset
<1>7. /\ Cardinality(Holding(q, n - 1) \cup {q[n]}) \in Nat
      /\ Cardinality(Holding(q, n - 1) \cup {q[n]}) <= Cardinality(Holding(q, n - 1)) + 1
  BY <1>4, <1>5
<1> QED BY <1>2, <1>4, <1>6, <1>7

\* The loop of processQueue hands out no slot beyond the limit in force.
LEMMA LoopWithinLimit ==
    ASSUME NEW active \in Nat, NEW q \in Seq(Requests), NEW n \in 0..Len(q),
           config \in ConcurrencyConfig, LoopStopsAfter(active, q, n)
    PROVE  \/ n = 0
           \/ active + Cardinality(Holding(q, n)) <= config.maxConcurrentRequests
<1> SUFFICES ASSUME n # 0
             PROVE  active + Cardinality(Holding(q, n)) <= config.maxConcurrentRequests
  OBVIOUS
<1>1. Len(q) \in Nat
  BY LenProperties
<1>2. n \in 1..Len(q) /\ n - 1 \in 0..(n - 1) /\ n - 1 \in 0..Len(q)
  BY <1>1
<1>3. active + Cardinality(Holding(q, n - 1)) < config.maxConcurrentRequests
  BY <1>2 DEF LoopStopsAfter, HasSlot
<1>4. /\ Cardinality(Holding(q, n)) \in Nat
      /\ Cardinality(Holding(q, n)) <= Cardinality(Holding(q, n - 1)) + 1
  BY <1>2, HoldingGrowsByOne, RequestSetsFinite
<1>5. Cardinality(Holding(q, n - 1)) \in Nat
  <2>1. \A i \in 1..Len(q) : q[i] \in Requests
    BY LenProperties
  <2>2. \A i \in 1..(n - 1) : i \in 1..Len(q)
    BY <1>1, <1>2
  <2>3. Holding(q, n - 1) \in SUBSET Requests
    BY <2>1, <2>2 DEF Holding, Taken
  <2> QED BY <2>3, RequestSetsFinite
<1>6. config.maxConcurrentRequests \in Nat
  BY DEF ConcurrencyConfig
<1> QED BY <1>3, <1>4, <1>5, <1>6

\* The requests taken from the queue and not thrown out at once are added to
\* the running set, and to the counter, exactly once each.
LEMMA HoldingDisjoint ==
    ASSUME NEW q \in Seq(Requests), NEW n \in 0..Len(q), NEW run \in SUBSET Requests,
           ToSet(q) \cap run = {}
    PROVE  /\ Holding(q, n) \in SUBSET Requests
           /\ Holding(q, n) \subseteq ToSet(q)
           /\ Cardinality(run \cup Holding(q, n)) = Cardinality(run) + Cardinality(Holding(q, n))
<1>1. Len(q) \in Nat /\ DOMAIN q = 1..Len(q) /\ \A i \in 1..Len(q) : q[i] \in Requests
  BY LenProperties
<1>2. Holding(q, n) \in SUBSET Requests /\ Holding(q, n) \subseteq ToSet(q)
  BY <1>1 DEF Holding, Taken, ToSet
<1>3. /\ IsFiniteSet(run) /\ IsFiniteSet(Holding(q, n))
      /\ Cardinality(run) \in Nat /\ Cardinality(Holding(q, n)) \in Nat
  BY <1>2, RequestSetsFinite
<1>4. run \cap Holding(q, n) = {}
  BY <1>2
<1>5. Cardinality(run \cup Holding(q, n)) =
        Cardinality(run) + Cardinality(Holding(q, n)) - Cardinality(run \cap Holding(q, n))
  BY <1>3, FS_Union
<1>6. Cardinality(run \cap Holding(q, n)) = 0
  BY <1>4, FS_EmptySet
<1>7. Cardinality(run \cup Holding(q, n)) = Cardinality(run) + Cardinality(Holding(q, n))
  BY <1>3, <1>5, <1>6
<1> QED BY <1>2, <1>7

\* processQueue called with distinct requests queued, none of them running, and
\* every caller waiting: it keeps all of this, whichever branch it takes.
LEMMA ProcessQueueSound ==
    ASSUME TypeOK,
           NEW q \in Seq(Requests), IsInjective(q),
           NEW run \in SUBSET Requests, ToSet(q) \cap run = {},
           NEW active, active = Cardinality(run),
           NEW out \in [Requests -> Settled \cup {"pending"}],
           \A r \in ToSet(q) \cup run : out[r] = "pending",
           NEW timer \in {"off", "armed", "stray", "due"},
           ProcessQueue(q, run, active, out, timer)
    PROVE  /\ queue' \in Seq(Requests) /\ IsInjective(queue')
           /\ running' \in SUBSET Requests
           /\ activeRequests' = Cardinality(running')
           /\ ToSet(queue') \cap running' = {}
           /\ outcome' \in [Requests -> Settled \cup {"pending"}]
           /\ \A r \in ToSet(queue') \cup running' : outcome'[r] = "pending"
           /\ throttleTimer' \in {"off", "armed", "stray", "due"}
           /\ requestsInCurrentInterval' \in Nat
           /\ intervalOver' \in BOOLEAN
           /\ \/ running' = run
              \/ Cardinality(running') <= config.maxConcurrentRequests
<1>1. CASE ~intervalOver /\ Throttled(requestsInCurrentInterval)
  BY <1>1 DEF ProcessQueue, TypeOK
<1>2. CASE ~(~intervalOver /\ Throttled(requestsInCurrentInterval))
  <2>1. PICK n \in 0..Len(q) :
          /\ LoopStopsAfter(active, q, n)
          /\ queue' = SubSeq(q, n + 1, Len(q))
          /\ running' = run \cup Holding(q, n)
          /\ activeRequests' = active + Cardinality(Holding(q, n))
          /\ outcome' = Settle(out, Taken(q, n) \cap Throwing, "rejected")
          /\ throttleTimer' = IF Rearmed(q, n) THEN "armed" ELSE timer
          /\ requestsInCurrentInterval' = CountAtEntry + n
          /\ intervalOver' = (intervalOver /\ ~config.enableThrottling)
    BY <1>2 DEF ProcessQueue
  <2>2. /\ queue' \in Seq(Requests) /\ IsInjective(queue')
        /\ ToSet(queue') = ToSet(q) \ Taken(q, n)
        /\ Taken(q, n) \subseteq ToSet(q)
    BY <2>1, SuffixProperties
  <2>3. /\ Holding(q, n) \in SUBSET Requests
        /\ Holding(q, n) \subseteq ToSet(q)
        /\ Cardinality(run \cup Holding(q, n)) = Cardinality(run) + Cardinality(Holding(q, n))
    BY HoldingDisjoint
  <2>4. /\ running' \in SUBSET Requests
        /\ activeRequests' = Cardinality(running')
    BY <2>1, <2>3
  <2>5. ToSet(queue') \cap running' = {}
    BY <2>1, <2>2 DEF Holding
  <2>6. outcome' \in [Requests -> Settled \cup {"pending"}]
    BY <2>1 DEF Settle, Settled
  <2>7. ASSUME NEW r \in ToSet(queue') \cup running' PROVE outcome'[r] = "pending"
    <3>1. r \in ToSet(q) \cup run /\ r \notin Taken(q, n) \cap Throwing
      BY <2>1, <2>2, <2>3, <2>7 DEF Holding
    <3>2. r \in Requests
      BY <2>4, <2>2, <2>7, LenProperties DEF ToSet
    <3>3. outcome'[r] = IF r \in Taken(q, n) \cap Throwing /\ out[r] = "pending"
                        THEN "rejected" ELSE out[r]
      BY <2>1, <3>2 DEF Settle
    <3> QED BY <3>1, <3>3
  <2>8. /\ throttleTimer' \in {"off", "armed", "stray", "due"}
        /\ intervalOver' \in BOOLEAN
    BY <2>1
  <2>9. requestsInCurrentInterval' \in Nat
    <3>1. n \in Nat
      BY LenProperties
    <3>2. CountAtEntry \in Nat
      BY DEF CountAtEntry, TypeOK
    <3> QED BY <2>1, <3>1, <3>2
  <2>10. \/ running' = run
         \/ Cardinality(running') <= config.maxConcurrentRequests
    <3>1. CASE n = 0
      <4>1. Holding(q, n) = {}
        BY <3>1 DEF Holding, Taken
      <4> QED BY <2>1, <4>1
    <3>2. CASE n # 0
      <4>1. active \in Nat
        BY RequestSetsFinite
      <4>2. active + Cardinality(Holding(q, n)) <= config.maxConcurrentRequests
        BY <2>1, <3>2, <4>1, LoopWithinLimit DEF TypeOK
      <4> QED BY <2>1, <2>3, <4>2
    <3> QED BY <3>1, <3>2
  <2> QED BY <2>2, <2>4, <2>5, <2>6, <2>7, <2>8, <2>9, <2>10
<1> QED BY <1>1, <1>2

-----------------------------------------------------------------------------
(* The inductive invariant.                                                 *)

LEMMA InitIInv == Init => IInv
<1> SUFFICES ASSUME Init PROVE IInv
  OBVIOUS
<1>1. /\ queue = <<>> /\ running = {} /\ activeRequests = 0 /\ timers = {}
      /\ queue \in Seq(Requests) /\ DOMAIN queue = {}
  BY EmptySeq, LenProperties DEF Init
<1>2. TypeOK
  <2>1. config \in ConcurrencyConfig
    BY ConfigAssumption DEF Init
  <2>2. outcome \in [Requests -> Settled \cup {"pending"}]
    BY DEF Init
  <2>3. /\ throttleTimer = "off" /\ requestsInCurrentInterval = 0 /\ intervalOver = FALSE
    BY DEF Init
  <2> QED BY <1>1, <2>1, <2>2, <2>3 DEF TypeOK
<1>3. SlotsAccounted
  BY <1>1, FS_EmptySet DEF SlotsAccounted
<1>4. LiveRequestsUnsettled
  BY <1>1 DEF LiveRequestsUnsettled, IsInjective, ToSet
<1> QED BY <1>2, <1>3, <1>4 DEF IInv

\* A step that ends with processQueue: the caller's changes keep the queue, the
\* running set and the outcomes as ProcessQueueSound wants them, and the timers
\* are cut down to the requests still queued.
LEMMA ProcessQueueStep ==
    ASSUME IInv,
           NEW q \in Seq(Requests), IsInjective(q),
           NEW run \in SUBSET Requests, ToSet(q) \cap run = {},
           NEW active, active = Cardinality(run),
           NEW out \in [Requests -> Settled \cup {"pending"}],
           \A r \in ToSet(q) \cup run : out[r] = "pending",
           NEW timer \in {"off", "armed", "stray", "due"},
           ProcessQueue(q, run, active, out, timer),
           NEW ts \in SUBSET Requests, timers' = KeepTimers(ts),
           UNCHANGED config
    PROVE  IInv'
<1>1. TypeOK
  BY DEF IInv
<1>2. /\ queue' \in Seq(Requests) /\ IsInjective(queue')
      /\ running' \in SUBSET Requests
      /\ activeRequests' = Cardinality(running')
      /\ ToSet(queue') \cap running' = {}
      /\ outcome' \in [Requests -> Settled \cup {"pending"}]
      /\ \A r \in ToSet(queue') \cup running' : outcome'[r] = "pending"
      /\ throttleTimer' \in {"off", "armed", "stray", "due"}
      /\ requestsInCurrentInterval' \in Nat
      /\ intervalOver' \in BOOLEAN
  BY <1>1, ProcessQueueSound
<1>3. timers' \subseteq Requests /\ timers' \subseteq ToSet(queue')
  BY DEF KeepTimers
<1>4. activeRequests' \in Nat
  BY <1>2, RequestSetsFinite
<1>5. TypeOK'
  BY <1>1, <1>2, <1>3, <1>4 DEF TypeOK
<1>6. SlotsAccounted'
  BY <1>2 DEF SlotsAccounted
<1>7. LiveRequestsUnsettled'
  BY <1>2, <1>3 DEF LiveRequestsUnsettled, IsInjective, ToSet
<1> QED BY <1>5, <1>6, <1>7 DEF IInv

LEMMA NextIInv == IInv /\ [Next]_vars => IInv'
<1> SUFFICES ASSUME IInv, [Next]_vars PROVE IInv'
  OBVIOUS
<1>0. /\ TypeOK /\ SlotsAccounted /\ LiveRequestsUnsettled
      /\ queue \in Seq(Requests) /\ IsInjective(queue) /\ running \in SUBSET Requests
      /\ ToSet(queue) \cap running = {} /\ ToSet(queue) \subseteq Requests
      /\ timers \in SUBSET Requests /\ timers \subseteq ToSet(queue)
      /\ outcome \in [Requests -> Settled \cup {"pending"}]
      /\ throttleTimer \in {"off", "armed", "stray", "due"}
      /\ activeRequests = Cardinality(running) /\ activeRequests \in Nat
      /\ \A r \in ToSet(queue) \cup running : outcome[r] = "pending"
  <2>1. TypeOK /\ SlotsAccounted /\ LiveRequestsUnsettled
    BY DEF IInv
  <2>2. ToSet(queue) \subseteq Requests
    BY <2>1, LenProperties DEF TypeOK, ToSet
  <2> QED BY <2>1, <2>2 DEF TypeOK, SlotsAccounted, LiveRequestsUnsettled
<1>1. ASSUME NEW r \in Requests, Execute(r) PROVE IInv'
  <2>1. r \notin ToSet(queue) /\ r \notin running /\ outcome[r] = "pending"
    BY <1>1 DEF Execute, Fresh
  <2> DEFINE q == Append(queue, r)
  <2>2. /\ q \in Seq(Requests) /\ IsInjective(q)
        /\ ToSet(q) = ToSet(queue) \cup {r}
    BY <1>0, <2>1, AppendKeepsDistinct
  <2>3. ToSet(q) \cap running = {}
    BY <1>0, <2>1, <2>2
  <2>4. \A x \in ToSet(q) \cup running : outcome[x] = "pending"
    BY <1>0, <2>1, <2>2
  <2>5. PICK ts \in SUBSET Requests : timers' = KeepTimers(ts)
    BY <1>0, <1>1 DEF Execute
  <2>6. /\ ProcessQueue(q, running, activeRequests, outcome, throttleTimer)
        /\ UNCHANGED config
    BY <1>1 DEF Execute
  <2>7. /\ running \in SUBSET Requests /\ activeRequests = Cardinality(running)
        /\ outcome \in [Requests -> Settled \cup {"pending"}]
        /\ throttleTimer \in {"off", "armed", "stray", "due"}
    BY <1>0
  <2> HIDE DEF q
  <2> QED BY <2>2, <2>3, <2>4, <2>5, <2>6, <2>7, ProcessQueueStep
<1>2. ASSUME NEW r \in Requests, NEW how \in {"resolved", "rejected"}, Complete(r, how)
      PROVE  IInv'
  <2> DEFINE run == running \ {r}
             out == Settle(outcome, {r}, how)
             active == activeRequests - 1
  <2>1. /\ r \in running
        /\ ProcessQueue(queue, run, active, out, throttleTimer)
        /\ timers' = KeepTimers(timers)
        /\ UNCHANGED config
    BY <1>2 DEF Complete
  <2>2. active = Cardinality(run)
    BY <1>0, <2>1, RequestSetsFinite, FS_RemoveElement
  <2>3. run \in SUBSET Requests /\ ToSet(queue) \cap run = {} /\ r \notin ToSet(queue)
    BY <1>0, <2>1
  <2>4. out \in [Requests -> Settled \cup {"pending"}]
    BY <1>0 DEF Settle, Settled
  <2>5. \A x \in ToSet(queue) \cup run : out[x] = "pending"
    BY <1>0, <2>3 DEF Settle
  <2>6. /\ queue \in Seq(Requests) /\ IsInjective(queue)
        /\ throttleTimer \in {"off", "armed", "stray", "due"} /\ timers \in SUBSET Requests
    BY <1>0
  <2> HIDE DEF run, out, active
  <2> QED BY <2>1, <2>2, <2>3, <2>4, <2>5, <2>6, ProcessQueueStep
<1>3. CASE ThrottleTimerFires
  <2>1. /\ ProcessQueue(queue, running, activeRequests, outcome, "off")
        /\ timers' = KeepTimers(timers)
        /\ UNCHANGED config
    BY <1>3 DEF ThrottleTimerFires
  <2> QED BY <1>0, <2>1, ProcessQueueStep
<1>4. ASSUME NEW r \in Requests, QueueTimeout(r) PROVE IInv'
  <2>1. /\ queue' \in Seq(Requests) /\ IsInjective(queue')
        /\ ToSet(queue') = ToSet(queue) \ {r}
    BY <1>0, <1>4, RemoveFirstKeepsDistinct DEF QueueTimeout, RemoveFromQueue
  <2>2. r \in ToSet(queue) /\ r \notin running /\ timers' = timers \ {r} /\ running' = running
    BY <1>0, <1>4 DEF QueueTimeout
  <2>3. /\ outcome' = Settle(outcome, {r}, "timedOut")
        /\ outcome' \in [Requests -> Settled \cup {"pending"}]
    BY <1>0, <1>4 DEF QueueTimeout, Settle, Settled
  <2>4. TypeOK'
    BY <1>0, <1>4, <2>1, <2>2, <2>3 DEF QueueTimeout, TypeOK
  <2>5. SlotsAccounted'
    BY <1>0, <1>4 DEF QueueTimeout, SlotsAccounted
  <2>6. \A x \in ToSet(queue') \cup running' : outcome'[x] = "pending"
    BY <1>0, <2>1, <2>2, <2>3 DEF Settle
  <2>7. ToSet(queue') \cap running' = {} /\ timers' \subseteq ToSet(queue')
    BY <1>0, <2>1, <2>2
  <2>8. LiveRequestsUnsettled'
    BY <2>1, <2>6, <2>7 DEF LiveRequestsUnsettled, IsInjective, ToSet
  <2> QED BY <2>4, <2>5, <2>8 DEF IInv
<1>5. CASE ClearQueue
  <2>1. /\ queue' = <<>> /\ timers' = timers \ ToSet(queue) /\ running' = running
        /\ activeRequests' = activeRequests
        /\ outcome' = Settle(outcome, ToSet(queue), "cleared")
    BY <1>5 DEF ClearQueue
  <2>2. queue' \in Seq(Requests) /\ DOMAIN queue' = {}
    BY <2>1, EmptySeq, LenProperties
  <2>3. outcome' \in [Requests -> Settled \cup {"pending"}]
    BY <1>0, <2>1 DEF Settle, Settled
  <2>4. TypeOK'
    BY <1>0, <1>5, <2>1, <2>2, <2>3 DEF ClearQueue, TypeOK
  <2>5. SlotsAccounted'
    BY <1>0, <2>1 DEF SlotsAccounted
  <2>6. \A x \in running' : outcome'[x] = "pending"
    BY <1>0, <2>1 DEF Settle
  <2>7. timers' = {}
    BY <1>0, <2>1
  <2>8. LiveRequestsUnsettled'
    BY <2>2, <2>6, <2>7 DEF LiveRequestsUnsettled, IsInjective, ToSet
  <2> QED BY <2>4, <2>5, <2>8 DEF IInv
<1>6. ASSUME NEW c \in Configs, UpdateConfig(c) PROVE IInv'
  <2>1. config' \in ConcurrencyConfig
    BY <1>6, ConfigAssumption DEF UpdateConfig
  <2>2. throttleTimer' \in {"off", "armed", "stray", "due"} /\ intervalOver' \in BOOLEAN
    BY <1>0, <1>6 DEF UpdateConfig
  <2> QED BY <1>0, <1>6, <2>1, <2>2
          DEF UpdateConfig, IInv, TypeOK, SlotsAccounted, LiveRequestsUnsettled, IsInjective, ToSet
<1>7. CASE GetQueueStatus
  <2>1. TypeOK'
    BY <1>0, <1>7 DEF GetQueueStatus, TypeOK
  <2>2. SlotsAccounted' /\ LiveRequestsUnsettled'
    BY <1>0, <1>7
    DEF GetQueueStatus, SlotsAccounted, LiveRequestsUnsettled, IsInjective, ToSet
  <2> QED BY <2>1, <2>2 DEF IInv
<1>8. CASE IntervalElapses \/ StrayTimerDue
  BY <1>0, <1>8
  DEF IntervalElapses, StrayTimerDue, IInv, TypeOK, SlotsAccounted, LiveRequestsUnsettled, IsInjective, ToSet
<1>9. CASE UNCHANGED vars
  BY <1>0, <1>9
  DEF vars, IInv, TypeOK, SlotsAccounted, LiveRequestsUnsettled, IsInjective, ToSet
<1> QED BY <1>1, <1>2, <1>3, <1>4, <1>5, <1>6, <1>7, <1>8, <1>9 DEF Next

LEMMA SpecIInv == Spec => []IInv
BY InitIInv, NextIInv, PTL DEF Spec

\* Every field of the queue keeps its type; in particular the slot counter never
\* goes below zero.
THEOREM TypeCorrect == Spec => []TypeOK
<1>1. IInv => TypeOK
  BY DEF IInv
<1> QED BY <1>1, SpecIInv, PTL

\* No mix of completions, synchronous throws, queue timeouts, clearing and
\* reconfiguration leaks a slot or gives one back twice.
THEOREM SlotsAreAccounted == Spec => []SlotsAccounted
<1>1. IInv => SlotsAccounted
  BY DEF IInv
<1> QED BY <1>1, SpecIInv, PTL

\* A request that waits or runs still has a caller to answer, is in one place,
\* and has a live timer only while it waits.
THEOREM LiveRequestsStayUnsettled == Spec => []LiveRequestsUnsettled
<1>1. IInv => LiveRequestsUnsettled
  BY DEF IInv
<1> QED BY <1>1, SpecIInv, PTL

-----------------------------------------------------------------------------
(* The limit.                                                               *)

\* The running set grows only in processQueue, and there only up to the limit.
LEMMA StepStartsWithinLimit ==
    ASSUME IInv, [Next]_vars
    PROVE  \/ running' \subseteq running
           \/ Cardinality(running') <= config.maxConcurrentRequests
<1>0. /\ TypeOK /\ queue \in Seq(Requests) /\ IsInjective(queue) /\ running \in SUBSET Requests
      /\ ToSet(queue) \cap running = {}
      /\ outcome \in [Requests -> Settled \cup {"pending"}]
      /\ throttleTimer \in {"off", "armed", "stray", "due"}
      /\ activeRequests = Cardinality(running)
      /\ \A r \in ToSet(queue) \cup running : outcome[r] = "pending"
  BY DEF IInv, TypeOK, SlotsAccounted, LiveRequestsUnsettled
<1>1. ASSUME NEW r \in Requests, Execute(r)
      PROVE  running' = running \/ Cardinality(running') <= config.maxConcurrentRequests
  <2> DEFINE q == Append(queue, r)
  <2>1. r \notin ToSet(queue) /\ r \notin running /\ outcome[r] = "pending"
    BY <1>1 DEF Execute, Fresh
  <2>2. /\ q \in Seq(Requests) /\ IsInjective(q)
        /\ ToSet(q) = ToSet(queue) \cup {r}
    BY <1>0, <2>1, AppendKeepsDistinct
  <2>3. /\ ToSet(q) \cap running = {}
        /\ \A x \in ToSet(q) \cup running : outcome[x] = "pending"
    BY <1>0, <2>1, <2>2
  <2>4. ProcessQueue(q, running, activeRequests, outcome, throttleTimer)
    BY <1>1 DEF Execute
  <2>5. /\ TypeOK /\ running \in SUBSET Requests /\ activeRequests = Cardinality(running)
        /\ outcome \in [Requests -> Settled \cup {"pending"}]
        /\ throttleTimer \in {"off", "armed", "stray", "due"}
    BY <1>0
  <2> HIDE DEF q
  <2> QED BY <2>2, <2>3, <2>4, <2>5, ProcessQueueSound
<1>2. ASSUME NEW r \in Requests, NEW how \in {"resolved", "rejected"}, Complete(r, how)
      PROVE  running' \subseteq running \/ Cardinality(running') <= config.maxConcurrentRequests
  <2> DEFINE run == running \ {r}
             out == Settle(outcome, {r}, how)
             active == activeRequests - 1
  <2>1. r \in running /\ ProcessQueue(queue, run, active, out, throttleTimer)
    BY <1>2 DEF Complete
  <2>2. active = Cardinality(run)
    BY <1>0, <2>1, RequestSetsFinite, FS_RemoveElement
  <2>3. /\ run \in SUBSET Requests /\ ToSet(queue) \cap run = {} /\ r \notin ToSet(queue)
        /\ run \subseteq running
    BY <1>0, <2>1
  <2>4. out \in [Requests -> Settled \cup {"pending"}]
    BY <1>0 DEF Settle, Settled
  <2>5. \A x \in ToSet(queue) \cup run : out[x] = "pending"
    <3>1. \A x \in ToSet(queue) \cup run : x \in Requests
      BY <1>0, <2>3, LenProperties DEF ToSet
    <3> QED BY <1>0, <2>3, <3>1 DEF Settle
  <2>6. /\ TypeOK /\ queue \in Seq(Requests) /\ IsInjective(queue)
        /\ throttleTimer \in {"off", "armed", "stray", "due"}
    BY <1>0
  <2> HIDE DEF run, out, active
  <2>7. running' = run \/ Cardinality(running') <= config.maxConcurrentRequests
    BY <2>1, <2>2, <2>3, <2>4, <2>5, <2>6, ProcessQueueSound
  <2> QED BY <2>3, <2>7
<1>3. CASE ThrottleTimerFires
  <2>1. ProcessQueue(queue, running, activeRequests, outcome, "off")
    BY <1>3 DEF ThrottleTimerFires
  <2> QED BY <1>0, <2>1, ProcessQueueSound
<1>4. CASE \/ \E r \in Requests : QueueTimeout(r)
           \/ ClearQueue
           \/ \E c \in Configs : UpdateConfig(c)
           \/ GetQueueStatus
           \/ IntervalElapses
           \/ StrayTimerDue
           \/ UNCHANGED vars
  BY <1>4 DEF QueueTimeout, ClearQueue, UpdateConfig, GetQueueStatus, IntervalElapses, StrayTimerDue, vars
<1> QED BY <1>1, <1>2, <1>3, <1>4 DEF Next

\* Under any reconfiguration, a slot is handed out only within the limit in force
\* at that moment.
THEOREM StartsAreWithinLimit == Spec => StartsWithinLimit
<1>1. IInv /\ [Next]_vars =>
        [~(running' \subseteq running) =>
             Cardinality(running') <= config.maxConcurrentRequests]_vars
  BY StepStartsWithinLimit
<1> QED BY <1>1, SpecIInv, PTL DEF Spec, StartsWithinLimit

\* With the configuration given to the constructor, the requests in flight never
\* exceed maxConcurrentRequests.
THEOREM LimitHolds == Spec => []ConcurrencyLimit
<1>1. Init => ConcurrencyLimit
  <2> SUFFICES ASSUME Init PROVE Cardinality(running) <= config.maxConcurrentRequests
    BY DEF ConcurrencyLimit
  <2>1. Cardinality(running) = 0 /\ config \in ConcurrencyConfig
    BY ConfigAssumption, FS_EmptySet DEF Init
  <2> QED BY <2>1 DEF ConcurrencyConfig
<1>2. IInv /\ IInv' /\ ConcurrencyLimit /\ [Next]_vars => ConcurrencyLimit'
  <2> SUFFICES ASSUME IInv, IInv', ConcurrencyLimit, [Next]_vars, Configs = {}
               PROVE  Cardinality(running') <= config'.maxConcurrentRequests
    BY DEF ConcurrencyLimit
  <2>1. config' = config
    BY DEF Next, vars, Execute, Complete, QueueTimeout, ClearQueue, GetQueueStatus,
           ThrottleTimerFires, IntervalElapses, StrayTimerDue
  <2>2. CASE running' \subseteq running
    <3>1. /\ IsFiniteSet(running) /\ Cardinality(running) \in Nat
          /\ Cardinality(running') \in Nat
      BY RequestSetsFinite DEF IInv, TypeOK
    <3>2. Cardinality(running') <= Cardinality(running)
      BY <2>2, <3>1, FS_Subset
    <3>3. Cardinality(running) <= config.maxConcurrentRequests
      BY DEF ConcurrencyLimit
    <3>4. config.maxConcurrentRequests \in Nat
      BY DEF IInv, TypeOK, ConcurrencyConfig
    <3> QED BY <2>1, <3>1, <3>2, <3>3, <3>4
  <2>3. CASE Cardinality(running') <= config.maxConcurrentRequests
    BY <2>1, <2>3
  <2> QED BY <2>2, <2>3, StepStartsWithinLimit
<1> QED BY <1>1, <1>2, SpecIInv, PTL DEF Spec

-----------------------------------------------------------------------------
(* Work conservation.                                                       *)

\* Unless it is throttled, processQueue goes on until the queue is empty or all
\* slots are taken.
LEMMA ProcessQueueDrains ==
    ASSUME TypeOK,
           NEW q \in Seq(Requests), NEW run, NEW active \in Nat, NEW out, NEW timer,
           ProcessQueue(q, run, active, out, timer),
           ~(~intervalOver /\ Throttled(requestsInCurrentInterval))
    PROVE  queue' = <<>> \/ activeRequests' >= config.maxConcurrentRequests
<1>1. PICK n \in 0..Len(q) :
        /\ LoopStopsAfter(active, q, n)
        /\ queue' = SubSeq(q, n + 1, Len(q))
        /\ activeRequests' = active + Cardinality(Holding(q, n))
  BY DEF ProcessQueue
<1>2. Len(q) \in Nat /\ n \in Nat /\ \A i \in 1..Len(q) : q[i] \in Requests
  BY LenProperties
<1>3. CASE n < Len(q)
  <2>1. ~(active + Cardinality(Holding(q, n)) < config.maxConcurrentRequests)
    BY <1>1, <1>3 DEF LoopStopsAfter, HasSlot
  <2>2. Holding(q, n) \in SUBSET Requests
    BY <1>2, <1>3 DEF Holding, Taken
  <2>3. Cardinality(Holding(q, n)) \in Nat
    BY <2>2, RequestSetsFinite
  <2>4. config.maxConcurrentRequests \in Nat
    BY DEF TypeOK, ConcurrencyConfig
  <2> QED BY <1>1, <2>1, <2>3, <2>4
<1>4. CASE ~(n < Len(q))
  <2>1. n = Len(q)
    BY <1>2, <1>4
  <2>2. SubSeq(q, Len(q) + 1, Len(q)) = <<>>
    BY <1>2, SubSeqEmpty
  <2> QED BY <1>1, <2>1, <2>2
<1> QED BY <1>3, <1>4

\* What processQueue leaves waiting, it leaves with all slots taken or with an
\* armed timer.
LEMMA ProcessQueueConserves ==
    ASSUME TypeOK,
           NEW q \in Seq(Requests), NEW run, NEW active \in Nat, NEW out, NEW timer,
           ProcessQueue(q, run, active, out, timer)
    PROVE  \/ queue' = <<>>
           \/ activeRequests' >= config.maxConcurrentRequests
           \/ throttleTimer' = "armed"
<1>1. CASE ~intervalOver /\ Throttled(requestsInCurrentInterval)
  BY <1>1 DEF ProcessQueue
<1>2. CASE ~(~intervalOver /\ Throttled(requestsInCurrentInterval))
  BY <1>2, ProcessQueueDrains
<1> QED BY <1>1, <1>2

\* A step either ends with processQueue, or leaves the limit, the slots and the
\* timer as they are (a pending timer stays pending), adding nothing to the queue.
LEMMA StepConserves ==
    ASSUME IInv, [Next]_vars
    PROVE  \/ queue' = <<>>
           \/ activeRequests' >= config.maxConcurrentRequests
           \/ throttleTimer' = "armed"
           \/ /\ queue # <<>> /\ activeRequests' = activeRequests
              /\ throttleTimer # "off" => throttleTimer' # "off"
<1>0. /\ TypeOK /\ queue \in Seq(Requests) /\ activeRequests \in Nat
      /\ activeRequests = Cardinality(running) /\ IsFiniteSet(running)
  BY RequestSetsFinite DEF IInv, TypeOK, SlotsAccounted
<1>1. ASSUME NEW r \in Requests, Execute(r)
      PROVE  \/ queue' = <<>>
             \/ activeRequests' >= config.maxConcurrentRequests
             \/ throttleTimer' = "armed"
  <2>1. Append(queue, r) \in Seq(Requests)
    BY <1>0, AppendProperties
  <2> QED BY <1>0, <1>1, <2>1, ProcessQueueConserves DEF Execute
<1>2. ASSUME NEW r \in Requests, NEW how \in {"resolved", "rejected"}, Complete(r, how)
      PROVE  \/ queue' = <<>>
             \/ activeRequests' >= config.maxConcurrentRequests
             \/ throttleTimer' = "armed"
  <2>1. activeRequests - 1 \in Nat
    <3>1. r \in running
      BY <1>2 DEF Complete
    <3>2. Cardinality(running \ {r}) = Cardinality(running) - 1 /\ Cardinality(running \ {r}) \in Nat
      BY <1>0, <3>1, FS_RemoveElement, FS_CardinalityType
    <3> QED BY <1>0, <3>2
  <2> QED BY <1>0, <1>2, <2>1, ProcessQueueConserves DEF Complete
<1>3. CASE ThrottleTimerFires
  BY <1>0, <1>3, ProcessQueueConserves DEF ThrottleTimerFires
<1>4. ASSUME NEW r \in Requests, QueueTimeout(r)
      PROVE  queue # <<>> /\ activeRequests' = activeRequests /\ throttleTimer' = throttleTimer
  <2>1. r \in ToSet(queue)
    BY <1>4 DEF QueueTimeout, IInv, LiveRequestsUnsettled
  <2>2. queue # <<>>
    BY <2>1 DEF ToSet
  <2> QED BY <1>4, <2>2 DEF QueueTimeout
<1>5. CASE ClearQueue
  BY <1>5 DEF ClearQueue
<1>6. CASE \/ \E c \in Configs : UpdateConfig(c)
           \/ GetQueueStatus
           \/ IntervalElapses
           \/ StrayTimerDue
           \/ UNCHANGED vars
  BY <1>6 DEF UpdateConfig, GetQueueStatus, IntervalElapses, StrayTimerDue, vars
<1> QED BY <1>1, <1>2, <1>3, <1>4, <1>5, <1>6 DEF Next

\* Whatever updateConfig did, a waiting request has a completion or a throttle
\* timer that will process the queue again.
THEOREM QueueNeverDead == Spec => []NoDeadQueue
<1>1. Init => NoDeadQueue
  BY DEF Init, NoDeadQueue
<1>2. IInv /\ NoDeadQueue /\ [Next]_vars => NoDeadQueue'
  <2> SUFFICES ASSUME IInv, NoDeadQueue, [Next]_vars, queue' # <<>>
               PROVE  activeRequests' > 0 \/ throttleTimer' # "off"
    BY DEF NoDeadQueue
  <2>1. CASE activeRequests' >= config.maxConcurrentRequests
    <3>1. config.maxConcurrentRequests \in Nat \ {0}
      BY DEF IInv, TypeOK, ConcurrencyConfig
    <3>2. activeRequests' \in Nat
      BY NextIInv DEF IInv, TypeOK
    <3> QED BY <2>1, <3>1, <3>2
  <2>2. CASE throttleTimer' = "armed"
    BY <2>2
  <2>3. CASE /\ queue # <<>> /\ activeRequests' = activeRequests
             /\ throttleTimer # "off" => throttleTimer' # "off"
    BY <2>3 DEF NoDeadQueue
  <2> QED BY <2>1, <2>2, <2>3, StepConserves
<1> QED BY <1>1, <1>2, SpecIInv, PTL DEF Spec

\* With the configuration given to the constructor, requests wait only because
\* every slot is taken or because a throttle timer will process the queue.
THEOREM WakeupsAreNotLost == Spec => []NoLostWakeup
<1>1. Init => NoLostWakeup
  BY DEF Init, NoLostWakeup
<1>2. IInv /\ ConcurrencyLimit' /\ NoLostWakeup /\ [Next]_vars => NoLostWakeup'
  <2> SUFFICES ASSUME IInv, ConcurrencyLimit', NoLostWakeup, [Next]_vars,
                      Configs = {}, queue' # <<>>
               PROVE  \/ activeRequests' = config'.maxConcurrentRequests
                      \/ throttleTimer' # "off"
    BY DEF NoLostWakeup
  <2>1. config' = config
    BY DEF Next, vars, Execute, Complete, QueueTimeout, ClearQueue, GetQueueStatus,
           ThrottleTimerFires, IntervalElapses, StrayTimerDue
  <2>2. CASE activeRequests' >= config.maxConcurrentRequests
    <3>1. config.maxConcurrentRequests \in Nat
      BY DEF IInv, TypeOK, ConcurrencyConfig
    <3>2. activeRequests' \in Nat /\ activeRequests' = Cardinality(running')
      BY NextIInv DEF IInv, TypeOK, SlotsAccounted
    <3>3. activeRequests' <= config.maxConcurrentRequests
      BY <2>1, <3>2 DEF ConcurrencyLimit
    <3> QED BY <2>1, <2>2, <3>1, <3>2, <3>3
  <2>3. CASE throttleTimer' = "armed"
    BY <2>3
  <2>4. CASE /\ queue # <<>> /\ activeRequests' = activeRequests
             /\ throttleTimer # "off" => throttleTimer' # "off"
    BY <2>1, <2>4 DEF NoLostWakeup
  <2> QED BY <2>2, <2>3, <2>4, StepConserves
<1> QED BY <1>1, <1>2, SpecIInv, LimitHolds, PTL DEF Spec

-----------------------------------------------------------------------------
(* Throttling.                                                              *)

\* Requests that can start meet a count that is fresh, or wait for the throttle.
BacklogMeetsFreshCount ==
    (Configs = {} /\ config.enableThrottling) =>
        \/ queue = <<>>
        \/ activeRequests >= config.maxConcurrentRequests
        \/ intervalOver
        \/ requestsInCurrentInterval = 0
        \/ requestsInCurrentInterval >= config.throttleRate

\* The first n requests of a queue take n slots but for those that throw.
LEMMA TakenAreFew ==
    ASSUME NEW q \in Seq(Requests), IsInjective(q), NEW n \in 0..Len(q)
    PROVE  /\ Cardinality(Holding(q, n)) \in Nat /\ Cardinality(Throwing) \in Nat
           /\ n <= Cardinality(Holding(q, n)) + Cardinality(Throwing)
<1>1. /\ Len(q) \in Nat /\ n \in Nat /\ DOMAIN q = 1..Len(q)
      /\ \A i \in 1..Len(q) : q[i] \in Requests
  BY LenProperties
<1>2. Taken(q, n) \in SUBSET Requests
  BY <1>1 DEF Taken
<1>3. n <= Cardinality(Taken(q, n))
  <2> DEFINE f == [i \in 1..n |-> q[i]]
  <2>1. f \in Injection(1..n, Taken(q, n))
    BY <1>1 DEF Injection, IsInjective, Taken
  <2>2. IsFiniteSet(1..n) /\ Cardinality(1..n) = n
    BY <1>1, FS_Interval
  <2> QED BY <1>2, <2>1, <2>2, RequestSetsFinite, FS_Injection
<1>4. /\ Cardinality(Holding(q, n)) = Cardinality(Taken(q, n)) - Cardinality(Taken(q, n) \cap Throwing)
      /\ Cardinality(Taken(q, n) \cap Throwing) <= Cardinality(Throwing)
  <2>1. Throwing \in SUBSET Requests
    BY RequestsAssumption
  <2> QED BY <1>2, <2>1, RequestSetsFinite, FS_Difference, FS_Intersection DEF Holding
<1>5. /\ Cardinality(Holding(q, n)) \in Nat /\ Cardinality(Throwing) \in Nat
      /\ Cardinality(Taken(q, n)) \in Nat /\ Cardinality(Taken(q, n) \cap Throwing) \in Nat
  <2>1. Throwing \in SUBSET Requests /\ Holding(q, n) \in SUBSET Requests
    BY <1>2, RequestsAssumption DEF Holding
  <2> QED BY <1>2, <2>1, RequestSetsFinite
<1> QED BY <1>1, <1>3, <1>4, <1>5

\* What one call of processQueue admits, with throttling on.
LEMMA ProcessQueueAdmits ==
    ASSUME TypeOK, config.enableThrottling,
           NEW q \in Seq(Requests), IsInjective(q), NEW run, NEW active \in Nat, NEW out, NEW timer,
           ProcessQueue(q, run, active, out, timer)
    PROVE  \/ /\ requestsInCurrentInterval' = requestsInCurrentInterval
              /\ requestsInCurrentInterval >= config.throttleRate
           \/ /\ queue' = <<>> \/ activeRequests' >= config.maxConcurrentRequests
              /\ \E n \in 0..Len(q) :
                   /\ requestsInCurrentInterval' = CountAtEntry + n
                   /\ n = 0 \/ active + n <= config.maxConcurrentRequests + Cardinality(Throwing)
                   /\ CountAtEntry = 0 \/ ~intervalOver
                   /\ CountAtEntry = 0 \/ CountAtEntry < config.throttleRate
<1>0. /\ config \in ConcurrencyConfig /\ config.maxConcurrentRequests \in Nat
      /\ config.throttleRate \in Nat /\ requestsInCurrentInterval \in Nat
  BY DEF TypeOK, ConcurrencyConfig
<1>1. CASE ~intervalOver /\ Throttled(requestsInCurrentInterval)
  BY <1>1 DEF ProcessQueue, Throttled
<1>2. CASE ~(~intervalOver /\ Throttled(requestsInCurrentInterval))
  <2>1. PICK n \in 0..Len(q) :
          /\ LoopStopsAfter(active, q, n)
          /\ requestsInCurrentInterval' = CountAtEntry + n
    BY <1>2 DEF ProcessQueue
  <2>2. n = 0 \/ active + Cardinality(Holding(q, n)) <= config.maxConcurrentRequests
    BY <1>0, <2>1, LoopWithinLimit
  <2>3. n \in Nat
    BY LenProperties
  <2>4. n = 0 \/ active + n <= config.maxConcurrentRequests + Cardinality(Throwing)
    BY <1>0, <2>2, <2>3, TakenAreFew
  <2>5. CountAtEntry = 0 \/ (~intervalOver /\ CountAtEntry < config.throttleRate)
    BY <1>0, <1>2 DEF CountAtEntry, Throttled
  <2> QED BY <1>2, <2>1, <2>4, <2>5, ProcessQueueDrains
<1> QED BY <1>1, <1>2

\* A call of processQueue that adds at most one request to the queue, or gives
\* one slot back, keeps to the bound.
LEMMA ProcessQueueOvershoot ==
    ASSUME IInv, BacklogMeetsFreshCount, ThrottleOvershoot,
           Configs = {}, config.enableThrottling,
           NEW q \in Seq(Requests), IsInjective(q), NEW run, NEW active \in Nat, NEW out, NEW timer,
           ProcessQueue(q, run, active, out, timer), UNCHANGED config,
           \/ active = activeRequests /\ (queue = <<>> => Len(q) <= 1)
           \/ active = activeRequests - 1 /\ (queue = <<>> => Len(q) = 0)
    PROVE  ThrottleOvershoot' /\ BacklogMeetsFreshCount'
<1> DEFINE M == config.maxConcurrentRequests
           R == config.throttleRate
           U == Cardinality(Throwing)
           count == requestsInCurrentInterval
<1>0. /\ TypeOK /\ M \in Nat /\ R \in Nat /\ count \in Nat /\ activeRequests \in Nat
      /\ Len(q) \in Nat
  BY LenProperties DEF IInv, TypeOK, ConcurrencyConfig
<1>1. U \in Nat
  BY RequestsAssumption, RequestSetsFinite
<1>2. count <= R + U \/ count <= M + U
  BY DEF ThrottleOvershoot
<1>3. CASE count' = count /\ count >= R
  BY <1>2, <1>3 DEF ThrottleOvershoot, BacklogMeetsFreshCount
<1>4. ASSUME NEW n \in 0..Len(q),
             count' = CountAtEntry + n,
             n = 0 \/ active + n <= M + U,
             CountAtEntry = 0 \/ ~intervalOver,
             CountAtEntry = 0 \/ CountAtEntry < R,
             queue' = <<>> \/ activeRequests' >= M
      PROVE  ThrottleOvershoot' /\ BacklogMeetsFreshCount'
  <2>1. n \in Nat /\ CountAtEntry \in Nat
    BY <1>0 DEF CountAtEntry
  <2>2. count' <= R + U \/ count' <= M + U
    <3>1. CASE CountAtEntry = 0
      BY <1>0, <1>1, <1>4, <2>1, <3>1
    <3>2. CASE CountAtEntry # 0
      <4>1. /\ ~intervalOver /\ CountAtEntry < R /\ CountAtEntry = count
        BY <1>4, <3>2 DEF CountAtEntry
      <4>2. CASE queue = <<>>
        BY <1>0, <1>1, <1>4, <2>1, <4>1, <4>2
      <4>3. CASE activeRequests >= M
        BY <1>0, <1>1, <1>4, <2>1, <4>1, <4>3
      <4>4. queue = <<>> \/ activeRequests >= M
        BY <1>0, <3>2, <4>1 DEF BacklogMeetsFreshCount
      <4> QED BY <4>2, <4>3, <4>4
    <3> QED BY <3>1, <3>2
  <2> QED BY <1>4, <2>2 DEF ThrottleOvershoot, BacklogMeetsFreshCount
<1> HIDE DEF M, R, U, count
<1>5. \/ count' = count /\ count >= R
      \/ /\ queue' = <<>> \/ activeRequests' >= M
         /\ \E n \in 0..Len(q) :
              /\ count' = CountAtEntry + n
              /\ n = 0 \/ active + n <= M + U
              /\ CountAtEntry = 0 \/ ~intervalOver
              /\ CountAtEntry = 0 \/ CountAtEntry < R
  BY <1>0, ProcessQueueAdmits DEF M, R, U, count
<1> QED BY <1>3, <1>4, <1>5

\* One interval admits no more requests than the larger of throttleRate and
\* maxConcurrentRequests, next to those that take no slot, although processQueue
\* tests the rate only once.
THEOREM ThrottleIsBounded == Spec => []ThrottleOvershoot
<1>1. Init => ThrottleOvershoot /\ BacklogMeetsFreshCount
  <2> SUFFICES ASSUME Init PROVE ThrottleOvershoot /\ BacklogMeetsFreshCount
    OBVIOUS
  <2>1. requestsInCurrentInterval = 0 /\ queue = <<>> /\ config \in ConcurrencyConfig
    BY ConfigAssumption DEF Init
  <2>2. Cardinality(Throwing) \in Nat
    BY RequestsAssumption, RequestSetsFinite
  <2>3. 0 <= config.throttleRate + Cardinality(Throwing)
    BY <2>1, <2>2 DEF ConcurrencyConfig
  <2> QED BY <2>1, <2>3 DEF ThrottleOvershoot, BacklogMeetsFreshCount
<1>2. IInv /\ ThrottleOvershoot /\ BacklogMeetsFreshCount /\ [Next]_vars =>
        (ThrottleOvershoot /\ BacklogMeetsFreshCount)'
  <2> SUFFICES ASSUME IInv, ThrottleOvershoot, BacklogMeetsFreshCount, [Next]_vars,
                      Configs = {}, config'.enableThrottling
               PROVE  (ThrottleOvershoot /\ BacklogMeetsFreshCount)'
    BY DEF ThrottleOvershoot, BacklogMeetsFreshCount
  <2>0. /\ config' = config /\ config.enableThrottling
        /\ queue \in Seq(Requests) /\ IsInjective(queue) /\ activeRequests \in Nat
        /\ Len(queue) \in Nat /\ (queue = <<>> => Len(queue) = 0)
        /\ config.throttleRate \in Nat
    <3>1. config' = config
      BY DEF Next, vars, Execute, Complete, QueueTimeout, ClearQueue, GetQueueStatus,
             ThrottleTimerFires, IntervalElapses, StrayTimerDue
    <3> QED BY <3>1, LenProperties DEF IInv, TypeOK, LiveRequestsUnsettled, ConcurrencyConfig
  <2>1. ASSUME NEW r \in Requests, Execute(r)
        PROVE  (ThrottleOvershoot /\ BacklogMeetsFreshCount)'
    <3>1. r \notin ToSet(queue)
      BY <2>1 DEF Execute, Fresh
    <3>2. Append(queue, r) \in Seq(Requests) /\ IsInjective(Append(queue, r))
      BY <2>0, <3>1, AppendKeepsDistinct
    <3>3. Len(Append(queue, r)) = Len(queue) + 1
      BY <2>0, AppendProperties
    <3>4. queue = <<>> => Len(Append(queue, r)) <= 1
      BY <2>0, <3>3
    <3>5. ProcessQueue(Append(queue, r), running, activeRequests, outcome, throttleTimer)
      BY <2>1 DEF Execute
    <3> HIDE DEF Execute
    <3> QED BY <2>0, <3>2, <3>4, <3>5, ProcessQueueOvershoot
  <2>2. ASSUME NEW r \in Requests, NEW how \in {"resolved", "rejected"}, Complete(r, how)
        PROVE  (ThrottleOvershoot /\ BacklogMeetsFreshCount)'
    <3>1. activeRequests - 1 \in Nat
      <4>1. /\ r \in running /\ IsFiniteSet(running) /\ activeRequests = Cardinality(running)
        BY <2>2, RequestSetsFinite DEF Complete, IInv, TypeOK, SlotsAccounted
      <4>2. Cardinality(running \ {r}) = Cardinality(running) - 1 /\ Cardinality(running \ {r}) \in Nat
        BY <4>1, FS_RemoveElement, FS_CardinalityType
      <4> QED BY <4>1, <4>2
    <3>2. ProcessQueue(queue, running \ {r}, activeRequests - 1, Settle(outcome, {r}, how), throttleTimer)
      BY <2>2 DEF Complete
    <3> QED BY <2>0, <3>1, <3>2, ProcessQueueOvershoot
  <2>3. CASE ThrottleTimerFires
    <3>1. ProcessQueue(queue, running, activeRequests, outcome, "off")
      BY <2>3 DEF ThrottleTimerFires
    <3> QED BY <2>0, <3>1, ProcessQueueOvershoot
  <2>4. CASE GetQueueStatus
    <3>1. Cardinality(Throwing) \in Nat
      BY RequestsAssumption, RequestSetsFinite
    <3>2. 0 <= config.throttleRate + Cardinality(Throwing)
      BY <2>0, <3>1
    <3> QED BY <2>0, <2>4, <3>2 DEF GetQueueStatus, ThrottleOvershoot, BacklogMeetsFreshCount
  <2>5. ASSUME NEW r \in Requests, QueueTimeout(r)
        PROVE  (ThrottleOvershoot /\ BacklogMeetsFreshCount)'
    <3>1. r \in ToSet(queue)
      BY <2>5 DEF QueueTimeout, IInv, LiveRequestsUnsettled
    <3>2. queue # <<>>
      BY <3>1 DEF ToSet
    <3> QED BY <2>0, <2>5, <3>2 DEF QueueTimeout, ThrottleOvershoot, BacklogMeetsFreshCount
  <2>6. CASE ClearQueue
    BY <2>0, <2>6 DEF ClearQueue, ThrottleOvershoot, BacklogMeetsFreshCount
  <2>7. CASE IntervalElapses \/ StrayTimerDue \/ UNCHANGED vars
    BY <2>0, <2>7 DEF IntervalElapses, StrayTimerDue, vars, ThrottleOvershoot, BacklogMeetsFreshCount
  <2> QED BY <2>1, <2>2, <2>3, <2>4, <2>5, <2>6, <2>7 DEF Next
<1> QED BY <1>1, <1>2, SpecIInv, PTL DEF Spec

-------------------------------------------------------------------------------
(***************************************************************************)
(* With the configuration given to its constructor, the request queue      *)
(* implements BoundedFifoService: proofs for the safety part, for every    *)
(* set of requests and every limit.                                        *)
(*                                                                         *)
(* A call of processQueue serves the n oldest requests at once; those that *)
(* throw are finished, the others executing.  The throttle, the timers and *)
(* the counters decide n, about which the service says nothing, and the    *)
(* limit holds because LimitHolds.                                         *)
(***************************************************************************)

Finished(out) == {r \in Requests : out[r] \in {"resolved", "rejected"}}
Refused(out) == {r \in Requests : out[r] \in {"timedOut", "cleared"}}

\* Without updateConfig the configuration stays.
ConfigFixed == config = InitialConfig

LEMMA ConfigStays ==
    ASSUME Configs = {}
    PROVE  Spec => []ConfigFixed
<1>1. Init => ConfigFixed
  BY DEF Init, ConfigFixed
<1>2. ConfigFixed /\ [Next]_vars => ConfigFixed'
  BY DEF ConfigFixed, Next, vars, Execute, Complete, QueueTimeout, ClearQueue, GetQueueStatus,
         ThrottleTimerFires, IntervalElapses, StrayTimerDue
<1> QED BY <1>1, <1>2, PTL DEF Spec

\* The service's operators on sets and sequences are the queue's.
LEMMA SameOperators ==
    /\ \A S : Service!Cardinality(S) = Cardinality(S)
    /\ \A q : Service!ToSet(q) = ToSet(q)
    /\ \A q, r : Service!RemoveFirst(q, r) = RemoveFirst(q, r)
<1>1. ASSUME NEW S PROVE Service!Cardinality(S) = Cardinality(S)
  BY DEF Service!Cardinality, Cardinality
<1>2. ASSUME NEW q PROVE Service!ToSet(q) = ToSet(q)
  BY DEF Service!ToSet, ToSet
<1>3. ASSUME NEW q, NEW r PROVE Service!RemoveFirst(q, r) = RemoveFirst(q, r)
  BY Zenon DEF Service!RemoveFirst, RemoveFirst, Service!RemoveAt, RemoveAt,
               Service!SelectInSeq, SelectInSeq, Service!Min, Min
<1> QED BY <1>1, <1>2, <1>3

\* Serving none of the waiting leaves them as they are.
LEMMA ServeNone ==
    ASSUME NEW q \in Seq(Requests)
    PROVE  SubSeq(q, 0 + 1, Len(q)) = q
<1>1. 0 + 1 = 1
  OBVIOUS
<1> QED BY <1>1, SubSeqFull

\* Settling some waiting requests moves just these among the answered.
LEMMA SettleMoves ==
    ASSUME NEW out \in [Requests -> Settled \cup {"pending"}],
           NEW S \in SUBSET Requests, \A r \in S : out[r] = "pending"
    PROVE  /\ \A how \in {"resolved", "rejected"} :
                 /\ Finished(Settle(out, S, how)) = Finished(out) \cup S
                 /\ Refused(Settle(out, S, how)) = Refused(out)
           /\ \A how \in {"timedOut", "cleared"} :
                 /\ Finished(Settle(out, S, how)) = Finished(out)
                 /\ Refused(Settle(out, S, how)) = Refused(out) \cup S
BY DEF Finished, Refused, Settle

\* From q and run, with fin finished, serving the n oldest leads to q1, run1, fin1.
Serves(n, q, run, fin, q1, run1, fin1) ==
    /\ q1 = SubSeq(q, n + 1, Len(q))
    /\ \E F \in SUBSET Taken(q, n) :
         run1 = run \cup (Taken(q, n) \ F) /\ fin1 = fin \cup F
    /\ Cardinality(run1) <= InitialConfig.maxConcurrentRequests
    /\ n # 0 => Cardinality(run) < InitialConfig.maxConcurrentRequests

\* A call of processQueue serves some of the oldest requests.
LEMMA ProcessQueueServes ==
    ASSUME ConfigFixed, TypeOK,
           NEW q \in Seq(Requests), IsInjective(q),
           NEW run \in SUBSET Requests, ToSet(q) \cap run = {},
           NEW active, active = Cardinality(run),
           NEW out \in [Requests -> Settled \cup {"pending"}],
           \A r \in ToSet(q) \cup run : out[r] = "pending",
           NEW timer \in {"off", "armed", "stray", "due"},
           ProcessQueue(q, run, active, out, timer),
           Cardinality(running') <= InitialConfig.maxConcurrentRequests
    PROVE  /\ \E n \in 0..Len(q) : Serves(n, q, run, Finished(out),
                                          queue', running', Finished(outcome'))
           /\ Refused(outcome') = Refused(out)
<1>0. /\ Len(q) \in Nat /\ DOMAIN q = 1..Len(q) /\ \A i \in 1..Len(q) : q[i] \in Requests
  BY LenProperties
<1>1. CASE ~intervalOver /\ Throttled(requestsInCurrentInterval)
  <2>1. queue' = q /\ running' = run /\ outcome' = out
    BY <1>1 DEF ProcessQueue
  <2>2. SubSeq(q, 0 + 1, Len(q)) = q
    BY ServeNone
  <2>3. run = run \cup ({q[i] : i \in 1..0} \ {}) /\ {} \in SUBSET {q[i] : i \in 1..0}
    OBVIOUS
  <2>4. Serves(0, q, run, Finished(out), queue', running', Finished(outcome'))
    BY <2>1, <2>2, <2>3 DEF Serves, Taken
  <2> QED BY <1>0, <2>1, <2>4
<1>2. CASE ~(~intervalOver /\ Throttled(requestsInCurrentInterval))
  <2>1. PICK n \in 0..Len(q) :
          /\ LoopStopsAfter(active, q, n)
          /\ queue' = SubSeq(q, n + 1, Len(q))
          /\ running' = run \cup Holding(q, n)
          /\ outcome' = Settle(out, Taken(q, n) \cap Throwing, "rejected")
    BY <1>2 DEF ProcessQueue
  <2>6. n # 0 => Cardinality(run) < InitialConfig.maxConcurrentRequests
    <3> SUFFICES ASSUME n # 0 PROVE Cardinality(run) < InitialConfig.maxConcurrentRequests
      OBVIOUS
    <3>1. 0 \in 0..(n - 1)
      BY <1>0
    <3>2. active + Cardinality(Holding(q, 0)) < InitialConfig.maxConcurrentRequests
      BY <2>1, <3>1 DEF LoopStopsAfter, HasSlot, ConfigFixed
    <3>3. Holding(q, 0) = {}
      BY DEF Holding, Taken
    <3>4. Cardinality(run) \in Nat
      BY RequestSetsFinite
    <3>5. Cardinality(Holding(q, 0)) = 0
      BY <3>3, FS_EmptySet
    <3>6. Cardinality(run) + 0 < InitialConfig.maxConcurrentRequests
      BY <3>2, <3>5
    <3> QED BY <3>4, <3>6
  <2> DEFINE F == Taken(q, n) \cap Throwing
  <2>2. F \in SUBSET Requests /\ \A r \in F : out[r] = "pending"
    <3>1. Taken(q, n) \subseteq ToSet(q)
      BY SuffixProperties
    <3>2. ToSet(q) \subseteq Requests
      BY <1>0 DEF ToSet
    <3> QED BY <3>1, <3>2
  <2>3. Finished(outcome') = Finished(out) \cup F /\ Refused(outcome') = Refused(out)
    BY <2>1, <2>2, SettleMoves
  <2>4. F \in SUBSET {q[i] : i \in 1..n} /\ Holding(q, n) = {q[i] : i \in 1..n} \ F
    BY DEF Taken, Holding
  <2>5. Serves(n, q, run, Finished(out), queue', running', Finished(outcome'))
    BY <2>1, <2>3, <2>4, <2>6 DEF Serves, Taken
  <2> QED BY <2>3, <2>5
<1> QED BY <1>1, <1>2

\* Every step of the queue is a step of the service, or none at all.
LEMMA StepServes ==
    ASSUME Configs = {}, ConfigFixed, IInv, ConcurrencyLimit, ConcurrencyLimit', ConfigFixed',
           [Next]_vars
    PROVE  [Service!Next]_(Service!serviceVars)
<1>0. /\ TypeOK /\ queue \in Seq(Requests) /\ IsInjective(queue) /\ running \in SUBSET Requests
      /\ ToSet(queue) \cap running = {} /\ ToSet(queue) \subseteq Requests
      /\ timers \subseteq ToSet(queue)
      /\ outcome \in [Requests -> Settled \cup {"pending"}]
      /\ throttleTimer \in {"off", "armed", "stray", "due"}
      /\ activeRequests = Cardinality(running)
      /\ \A r \in ToSet(queue) \cup running : outcome[r] = "pending"
      /\ Cardinality(running') <= InitialConfig.maxConcurrentRequests
  <2>1. ToSet(queue) \subseteq Requests
    BY LenProperties DEF ToSet, IInv, TypeOK
  <2> QED BY <2>1
      DEF IInv, TypeOK, SlotsAccounted, LiveRequestsUnsettled, ConcurrencyLimit, ConfigFixed
<1>1. ASSUME NEW r \in Requests, Execute(r) PROVE Service!Submit(r)
  <2> DEFINE q == Append(queue, r)
  <2>1. r \notin ToSet(queue) /\ r \notin running /\ outcome[r] = "pending"
    BY <1>1 DEF Execute, Fresh
  <2>2. /\ q \in Seq(Requests) /\ IsInjective(q)
        /\ ToSet(q) = ToSet(queue) \cup {r}
    BY <1>0, <2>1, AppendKeepsDistinct
  <2>3. /\ ToSet(q) \cap running = {}
        /\ \A x \in ToSet(q) \cup running : outcome[x] = "pending"
    BY <1>0, <2>1, <2>2
  <2>4. ProcessQueue(q, running, activeRequests, outcome, throttleTimer)
    BY <1>1 DEF Execute
  <2>5. r \notin Finished(outcome) \cup Refused(outcome)
    BY <2>1 DEF Finished, Refused
  <2>7. /\ ConfigFixed /\ TypeOK /\ running \in SUBSET Requests
        /\ activeRequests = Cardinality(running)
        /\ outcome \in [Requests -> Settled \cup {"pending"}]
        /\ throttleTimer \in {"off", "armed", "stray", "due"}
        /\ Cardinality(running') <= InitialConfig.maxConcurrentRequests
    BY <1>0
  <2> HIDE DEF q
  <2>6. /\ \E n \in 0..Len(q) : Serves(n, q, running, Finished(outcome),
                                       queue', running', Finished(outcome'))
        /\ Refused(outcome') = Refused(outcome)
    BY <2>2, <2>3, <2>4, <2>7, ProcessQueueServes
  <2>8. Service!Serve(q, running, Finished(outcome))
    BY <2>6, SameOperators DEF Service!Serve, Service!ServeFirst, Serves, Taken, Finished
  <2> QED BY <2>1, <2>5, <2>6, <2>8, SameOperators
          DEF Service!Submit, Service!Known, Finished, Refused, q
<1>2. ASSUME NEW r \in Requests, NEW how \in {"resolved", "rejected"}, Complete(r, how)
      PROVE  Service!Finish(r)
  <2> DEFINE run == running \ {r}
             out == Settle(outcome, {r}, how)
             active == activeRequests - 1
  <2>1. r \in running /\ ProcessQueue(queue, run, active, out, throttleTimer)
    BY <1>2 DEF Complete
  <2>2. active = Cardinality(run)
    BY <1>0, <2>1, RequestSetsFinite, FS_RemoveElement
  <2>3. run \in SUBSET Requests /\ ToSet(queue) \cap run = {} /\ r \notin ToSet(queue)
    BY <1>0, <2>1
  <2>4. out \in [Requests -> Settled \cup {"pending"}]
    BY <1>0 DEF Settle, Settled
  <2>5. \A x \in ToSet(queue) \cup run : out[x] = "pending"
    <3>1. \A x \in ToSet(queue) \cup run : x \in Requests
      BY <1>0, <2>3
    <3> QED BY <1>0, <2>3, <3>1 DEF Settle
  <2>6. Finished(out) = Finished(outcome) \cup {r} /\ Refused(out) = Refused(outcome)
    <3>1. {r} \in SUBSET Requests /\ \A x \in {r} : outcome[x] = "pending"
      BY <1>0, <2>1
    <3>2. outcome \in [Requests -> Settled \cup {"pending"}]
      BY <1>0
    <3> QED BY <3>1, <3>2, SettleMoves
  <2>10. /\ ConfigFixed /\ TypeOK /\ queue \in Seq(Requests) /\ IsInjective(queue)
         /\ throttleTimer \in {"off", "armed", "stray", "due"}
         /\ Cardinality(running') <= InitialConfig.maxConcurrentRequests
    BY <1>0
  <2> HIDE DEF run, out, active
  <2>7. /\ \E n \in 0..Len(queue) : Serves(n, queue, run, Finished(out),
                                           queue', running', Finished(outcome'))
        /\ Refused(outcome') = Refused(out)
    BY <2>1, <2>2, <2>3, <2>4, <2>5, <2>10, ProcessQueueServes
  <2>8. \E n \in 0..Len(queue) : Serves(n, queue, run, Finished(outcome) \cup {r},
                                        queue', running', Finished(outcome'))
    BY <2>6, <2>7
  <2>9. Refused(outcome') = Refused(outcome)
    BY <2>6, <2>7
  <2>11. Service!Serve(queue, run, Finished(outcome) \cup {r})
    BY <2>8, SameOperators DEF Service!Serve, Service!ServeFirst, Serves, Taken, Finished
  <2> QED BY <2>1, <2>9, <2>11 DEF Service!Finish, Finished, Refused, run
<1>3. CASE ThrottleTimerFires
  <2>1. ProcessQueue(queue, running, activeRequests, outcome, "off")
    BY <1>3 DEF ThrottleTimerFires
  <2>2. /\ \E n \in 0..Len(queue) : Serves(n, queue, running, Finished(outcome),
                                           queue', running', Finished(outcome'))
        /\ Refused(outcome') = Refused(outcome)
    <3>1. "off" \in {"off", "armed", "stray", "due"}
      OBVIOUS
    <3> QED BY <1>0, <2>1, <3>1, ProcessQueueServes
  <2>3. PICK n \in 0..Len(queue) : Serves(n, queue, running, Finished(outcome),
                                          queue', running', Finished(outcome'))
    BY <2>2
  <2>4. CASE n = 0
    <3>1. SubSeq(queue, 0 + 1, Len(queue)) = queue
      BY <1>0, ServeNone
    <3>2. queue' = queue /\ running' = running /\ Finished(outcome') = Finished(outcome)
      BY <2>3, <2>4, <3>1 DEF Serves, Taken
    <3> QED BY <2>2, <3>2 DEF Service!serviceVars, Finished, Refused
  <2>5. CASE n # 0
    <3>1. n \in 1..Len(queue)
      BY <1>0, <2>5, LenProperties
    <3>2. \E m \in 1..Len(queue) : Serves(m, queue, running, Finished(outcome),
                                          queue', running', Finished(outcome'))
      BY <2>3, <3>1
    <3>3. \E m \in 1..Len(queue) : Service!ServeFirst(m, queue, running, Finished(outcome))
      BY <3>2, SameOperators DEF Service!ServeFirst, Serves, Taken, Finished
    <3>4. Service!Cardinality(running) < InitialConfig.maxConcurrentRequests
      BY <2>3, <2>5, SameOperators DEF Serves
    <3> QED BY <2>2, <3>3, <3>4 DEF Service!Resume, Service!Next, Finished, Refused
  <2> QED BY <2>4, <2>5
<1>4. ASSUME NEW r \in Requests, QueueTimeout(r) PROVE Service!Refuse(r)
  <2>1. r \in ToSet(queue) /\ outcome[r] = "pending"
    BY <1>0, <1>4 DEF QueueTimeout
  <2>2. Finished(outcome') = Finished(outcome) /\ Refused(outcome') = Refused(outcome) \cup {r}
    BY <1>0, <1>4, <2>1, SettleMoves DEF QueueTimeout
  <2> QED BY <1>4, <2>1, <2>2, SameOperators
          DEF QueueTimeout, RemoveFromQueue, Service!Refuse, Finished, Refused
<1>5. CASE ClearQueue
  <2>1. /\ Finished(outcome') = Finished(outcome)
        /\ Refused(outcome') = Refused(outcome) \cup ToSet(queue)
    BY <1>0, <1>5, SettleMoves DEF ClearQueue
  <2> QED BY <1>5, <2>1, SameOperators
          DEF ClearQueue, Service!RefuseAll, Service!Next, Finished, Refused
<1>6. CASE GetQueueStatus \/ IntervalElapses \/ StrayTimerDue \/ UNCHANGED vars
  BY <1>6 DEF GetQueueStatus, IntervalElapses, StrayTimerDue, vars, Service!serviceVars
<1> QED BY <1>1, <1>2, <1>3, <1>4, <1>5, <1>6 DEF Next, Service!Next

\* The queue is a first-in first-out service of maxConcurrentRequests servers, as
\* far as what it may never do is concerned.
THEOREM ImplementsService ==
    ASSUME Configs = {}
    PROVE  Spec => Service!Spec
<1>1. Init => Service!Init
  BY DEF Init, Service!Init
<1>2. ConfigFixed /\ ConfigFixed' /\ IInv /\ ConcurrencyLimit /\ ConcurrencyLimit' /\ [Next]_vars
        => [Service!Next]_(Service!serviceVars)
  BY StepServes
<1> QED BY <1>1, <1>2, ConfigStays, SpecIInv, LimitHolds, PTL DEF Spec, Service!Spec

-----------------------------------------------------------------------------
(* The contract event emitter.                                              *)

(* The inductive invariant.                                                 *)

Got(r) == ToSet(delivered[r])

\* Events up to this one have been taken up.
TakenUp == IF poll = "delivering" THEN answer.at ELSE lastCursor

\* Callbacks wait only while a page is delivered, whose last event is the cursor.
TurnSound ==
    /\ calls # <<>> \/ emits # <<>> => poll = "delivering" /\ answer.at # 0
    /\ poll = "delivering" => answer.at <= answer.cursor /\ answer.cursor = lastCursor
    /\ poll = "events" => /\ answer.at <= answer.cursor /\ answer.cursor <= Len(chain)
                          /\ lastCursor # NoCursor => answer.at = lastCursor
    /\ lastCursor <= Len(chain)

\* A registration is listed under its own name, once.
ListsSound ==
    \A k \in Keys : /\ IsInjective(listeners[k])
                    /\ \A r \in ToSet(listeners[k]) : key[r] = k

\* The current event has the name it is yet to be emitted under, each once.
EmitsSound ==
    /\ IsInjective(emits)
    /\ ToSet(emits) \cap NameKeys # {} => answer.at \in Matching

\* A listener of one name waits for one call at most, with an event of the name,
\* that is not emitted again under its name.
CallsSound ==
    \A n \in DOMAIN calls :
        /\ key[calls[n]] # NoKey
        /\ Named(calls[n]) =>
             /\ answer.at \in Matching
             /\ key[calls[n]] \notin ToSet(emits)
             /\ \A m \in DOMAIN calls : calls[m] = calls[n] => m = n

\* What a listener of one name was called with so far.
DeliveriesSound ==
    \A r \in Regs :
        /\ ~Named(r) \/ lastCursor = NoCursor => delivered[r] = <<>>
        /\ \A m, n \in DOMAIN delivered[r] : m < n => delivered[r][m] < delivered[r][n]
        /\ \A i \in Got(r) : i \in Matching /\ i <= TakenUp

\* One that waits for a call with the current event was not called with it.
OwedSound ==
    \A r \in Regs : Named(r) /\ (r \in ToSet(calls) \/ key[r] \in ToSet(emits)) =>
        \A i \in Got(r) : i < answer.at

\* Nothing is left out: before the last, before the current event for one that
\* waits to be called with it, and up to the cursor for one that is listed.
NoGap ==
    \A r \in Regs : \A i \in Got(r), j \in Matching : i <= j =>
        /\ \A k \in Got(r) : j <= k => j \in Got(r)
        /\ r \in ToSet(calls) /\ j < answer.at => j \in Got(r)
        /\ Listed(r) /\ j <= TakenUp =>
             \/ j \in Got(r)
             \/ j = answer.at /\ (r \in ToSet(calls) \/ key[r] \in ToSet(emits))

OnceSound ==
    \A r \in isOnce : Named(r) /\ delivered[r] # <<>> =>
        Len(delivered[r]) = 1 /\ ~Listed(r) /\ r \notin ToSet(calls)

EmitterInv ==
    /\ CETypeOK /\ TurnSound /\ ListsSound /\ EmitsSound /\ CallsSound
    /\ DeliveriesSound /\ OwedSound /\ NoGap /\ OnceSound /\ ClosedIsReleased

-----------------------------------------------------------------------------
(* Lists.                                                                   *)

\* What a removal, or closing, does to the lists.
Delists ==
    /\ listeners' \in [Keys -> Seq(Regs)]
    /\ \A k \in Keys : IsInjective(listeners'[k]) /\ ToSet(listeners'[k]) \subseteq ToSet(listeners[k])
    /\ interval' \in BOOLEAN /\ isClosed' \in BOOLEAN
    /\ ClosedIsReleased'

LEMMA EmptyLists ==
    /\ [k \in Keys |-> <<>>] \in [Keys -> Seq(Regs)]
    /\ IsInjective(<<>>) /\ ToSet(<<>>) = {}
<1>1. <<>> \in Seq(Regs) /\ DOMAIN <<>> = {}
  BY EmptySeq
<1> QED BY <1>1 DEF IsInjective, ToSet

LEMMA CloseDelists == Close => Delists
BY EmptyLists DEF Close, Delists, ClosedIsReleased

\* Closing if the last listener is gone.
LEMMA CloseIfEmptyDelists ==
    ASSUME EmitterInv, ~isClosed, NEW left \in [Keys -> Seq(Regs)], CloseIfEmpty(left),
           \A k \in Keys : IsInjective(left[k]) /\ ToSet(left[k]) \subseteq ToSet(listeners[k])
    PROVE  Delists
<1>1. CASE \A k \in Keys : left[k] = <<>>
  BY <1>1, CloseDelists DEF CloseIfEmpty
<1>2. CASE ~(\A k \in Keys : left[k] = <<>>)
  BY <1>2 DEF CloseIfEmpty, Delists, EmitterInv, CETypeOK, ClosedIsReleased
<1> QED BY <1>1, <1>2

\* A registration taken off its list is on none.
LEMMA WithoutSound ==
    ASSUME EmitterInv, NEW r \in Regs
    PROVE  /\ Without(r) \in [Keys -> Seq(Regs)]
           /\ \A k \in Keys : /\ IsInjective(Without(r)[k])
                              /\ ToSet(Without(r)[k]) \subseteq ToSet(listeners[k])
           /\ key[r] # NoKey => r \notin ToSet(Without(r)[key[r]])
<1>1. /\ listeners \in [Keys -> Seq(Regs)] /\ key[r] \in Keys \cup {NoKey}
      /\ \A k \in Keys : IsInjective(listeners[k])
  BY KeysAssumption DEF EmitterInv, CETypeOK, ListsSound
<1>2. CASE ~Listed(r)
  BY <1>1, <1>2 DEF Without, Listed
<1>3. CASE Listed(r)
  <2> DEFINE q == listeners[key[r]]
             n == CHOOSE n \in DOMAIN q : q[n] = r
  <2>1. key[r] \in Keys /\ q \in Seq(Regs) /\ IsInjective(q)
    BY <1>1, <1>3 DEF Listed
  <2>2. n \in DOMAIN q /\ q[n] = r
    BY <1>3 DEF Listed, ToSet
  <2>3. Without(r) = [listeners EXCEPT ![key[r]] = RemoveAt(q, n)]
    BY <1>3 DEF Without
  <2> HIDE DEF n
  <2>4. /\ RemoveAt(q, n) \in Seq(Regs) /\ IsInjective(RemoveAt(q, n))
        /\ ToSet(RemoveAt(q, n)) = ToSet(q) \ {r}
    BY <2>1, <2>2, RemoveAtDistinct
  <2> QED BY <1>1, <2>1, <2>3, <2>4
<1> QED BY <1>2, <1>3

\* Taking listeners off lists between calls breaks nothing.
LEMMA DelistingKeeps ==
    ASSUME EmitterInv, Delists, UNCHANGED <<key, isOnce, nodeVars, pollVars, turnVars>>
    PROVE  EmitterInv'
<1> USE DEF EmitterInv
<1>1. /\ UNCHANGED <<key, isOnce, ledger, chain, poll, answer, lastLedger, lastCursor, emits, calls, delivered>>
      /\ UNCHANGED <<Matching, TakenUp>> /\ \A r \in Regs : (Got(r))' = Got(r) /\ Named(r)' = Named(r)
  BY DEF nodeVars, pollVars, turnVars, Matching, TakenUp, Got, Named
<1>2. \A r \in Regs : Listed(r)' => Listed(r)
  BY <1>1, KeysAssumption DEF Listed, Delists, CETypeOK
<1>3. CETypeOK' /\ TurnSound' /\ EmitsSound' /\ DeliveriesSound' /\ ClosedIsReleased'
  BY <1>1 DEF CETypeOK, Delists, TurnSound, EmitsSound, DeliveriesSound
<1>4. ListsSound'
  BY <1>1 DEF ListsSound, Delists
<1>5. CallsSound'
  BY <1>1 DEF CallsSound, Named
<1>6. OwedSound'
  BY <1>1 DEF OwedSound
<1>7. NoGap'
  BY <1>1, <1>2 DEF NoGap
<1>8. OnceSound'
  BY <1>1, <1>2 DEF OnceSound, CETypeOK
<1> QED BY <1>3, <1>4, <1>5, <1>6, <1>7, <1>8

LEMMA OnKeeps ==
    ASSUME EmitterInv, NEW r \in Regs, NEW k \in UsedKeys, On(r, k)
    PROVE  EmitterInv'
<1> USE DEF EmitterInv
<1>1. /\ UNCHANGED <<isClosed, ledger, chain, poll, answer, lastLedger, lastCursor, emits, calls, delivered>>
      /\ UNCHANGED <<Matching, TakenUp>> /\ \A s \in Regs : (Got(s))' = Got(s)
  BY DEF On, nodeVars, pollVars, turnVars, Matching, TakenUp, Got
<1>2. /\ key[r] = NoKey /\ ~isClosed /\ k \in Keys /\ k # NoKey
      /\ key' = [key EXCEPT ![r] = k] /\ key \in [Regs -> UsedKeys \cup {NoKey}]
      /\ isOnce' \in {isOnce, isOnce \cup {r}} /\ isOnce \subseteq Regs
      /\ listeners' = [listeners EXCEPT ![k] = Append(@, r)] /\ listeners \in [Keys -> Seq(Regs)]
      /\ interval' = TRUE
      /\ NoKey \notin Keys
  BY KeysAssumption DEF On, CETypeOK
<1>3. \A s \in Regs \ {r} : /\ key'[s] = key[s] /\ (Named(s)' <=> Named(s))
                            /\ s \in isOnce' <=> s \in isOnce
  BY <1>2 DEF Named
<1>4. key'[r] = k /\ ~Named(r) /\ delivered[r] = <<>> /\ Got(r) = {}
  <2>1. key'[r] = k /\ ~Named(r)
    BY <1>2, KeysAssumption DEF Named, Keys
  <2> QED BY <2>1, EmptyLists DEF DeliveriesSound, Got
<1>5. \A j \in Keys : r \notin ToSet(listeners[j])
  BY <1>2 DEF ListsSound
<1>6. r \notin ToSet(calls)
  BY <1>2 DEF CallsSound, ToSet
<1>7. /\ Append(listeners[k], r) \in Seq(Regs) /\ IsInjective(Append(listeners[k], r))
      /\ ToSet(Append(listeners[k], r)) = ToSet(listeners[k]) \cup {r}
  BY <1>2, <1>5, AppendDistinct DEF ListsSound
<1>8. \A s \in Regs \ {r} : Listed(s)' <=> Listed(s)
  BY <1>2, <1>3, <1>7 DEF Listed
<1>9. CETypeOK' /\ TurnSound' /\ EmitsSound' /\ ClosedIsReleased'
  <2>1. CETypeOK'
    BY <1>1, <1>2, <1>7 DEF CETypeOK
  <2> QED BY <1>1, <1>2, <2>1 DEF TurnSound, EmitsSound, ClosedIsReleased
<1>10. ListsSound'
  BY <1>2, <1>5, <1>7, <1>3, <1>4 DEF ListsSound
<1>11. CallsSound'
  <2>1. \A n \in DOMAIN calls : calls[n] \in Regs \ {r}
    BY <1>6, LenProperties DEF CETypeOK, ToSet
  <2> QED BY <1>1, <1>3, <2>1 DEF CallsSound
<1>12. DeliveriesSound'
  BY <1>1, <1>3, <1>4, EmptyLists DEF DeliveriesSound
<1>13. OwedSound'
  BY <1>1, <1>3, <1>4 DEF OwedSound
<1>14. NoGap'
  BY <1>1, <1>3, <1>4, <1>8 DEF NoGap
<1>15. OnceSound'
  BY <1>1, <1>2, <1>3, <1>4, <1>8 DEF OnceSound
<1> QED BY <1>9, <1>10, <1>11, <1>12, <1>13, <1>14, <1>15

LEMMA ApiKeeps == EmitterInv /\ ApiCall => EmitterInv'
<1> SUFFICES ASSUME EmitterInv, ApiCall PROVE EmitterInv'
  OBVIOUS
<1>1. /\ listeners \in [Keys -> Seq(Regs)] /\ \A k \in Keys : IsInjective(listeners[k])
      /\ interval \in BOOLEAN /\ isClosed \in BOOLEAN /\ ClosedIsReleased /\ UsedKeys \subseteq Keys
  BY KeysAssumption DEF EmitterInv, CETypeOK, ListsSound
<1>2. CASE \E r \in Regs, k \in UsedKeys : On(r, k)
  BY <1>2, OnKeeps
<1>3. CASE \E r \in Regs : Off(r)
  <2>1. PICK r \in Regs : Off(r)
    BY <1>3
  <2> DEFINE left == IF r \in isOnce THEN listeners ELSE Without(r)
  <2>2. left \in [Keys -> Seq(Regs)]
    BY <1>1, WithoutSound
  <2>3. \A k \in Keys : IsInjective(left[k]) /\ ToSet(left[k]) \subseteq ToSet(listeners[k])
    BY <1>1, WithoutSound
  <2>4. ~isClosed /\ CloseIfEmpty(left) /\ UNCHANGED <<key, isOnce, nodeVars, pollVars, turnVars>>
    BY <2>1 DEF Off
  <2> HIDE DEF left
  <2>5. Delists
    BY <2>2, <2>3, <2>4, CloseIfEmptyDelists
  <2> QED BY <2>4, <2>5, DelistingKeeps
<1>4. CASE \E k \in UsedKeys : RemoveAllListeners(k)
  <2>1. PICK k \in UsedKeys : RemoveAllListeners(k)
    BY <1>4
  <2> DEFINE left == [listeners EXCEPT ![k] = <<>>]
  <2>2. /\ left \in [Keys -> Seq(Regs)]
        /\ \A j \in Keys : IsInjective(left[j]) /\ ToSet(left[j]) \subseteq ToSet(listeners[j])
    BY <1>1, EmptyLists
  <2>3. ~isClosed /\ CloseIfEmpty(left) /\ UNCHANGED <<key, isOnce, nodeVars, pollVars, turnVars>>
    BY <2>1 DEF RemoveAllListeners
  <2> HIDE DEF left
  <2>4. Delists
    BY <2>2, <2>3, CloseIfEmptyDelists
  <2> QED BY <2>3, <2>4, DelistingKeeps
<1>5. CASE Start \/ Stop
  <2>1. /\ listeners' = listeners /\ isClosed' = isClosed
        /\ UNCHANGED <<key, isOnce, nodeVars, pollVars, turnVars>>
    BY <1>5 DEF Start, Stop
  <2>2. interval' \in BOOLEAN /\ (isClosed => ~interval')
    BY <1>5 DEF Start, Stop
  <2>3. Delists
    BY <1>1, <2>1, <2>2 DEF Delists, ClosedIsReleased
  <2> QED BY <2>1, <2>3, DelistingKeeps
<1>6. CASE CloseCall
  <2>1. Delists /\ UNCHANGED <<key, isOnce, nodeVars, pollVars, turnVars>>
    BY <1>6, CloseDelists DEF CloseCall
  <2> QED BY <2>1, DelistingKeeps
<1> QED BY <1>2, <1>3, <1>4, <1>5, <1>6 DEF ApiCall

-----------------------------------------------------------------------------
(* Polling.                                                                 *)

LEMMA ChainFacts ==
    ASSUME CETypeOK
    PROVE  /\ Len(chain) \in 0..MaxEvents /\ DOMAIN chain = 1..Len(chain) /\ MaxEvents \in Nat
           /\ \A i \in DOMAIN chain : chain[i].ledger \in 1..MaxLedger /\ chain[i].kind \in Kinds
           /\ Matching \subseteq 1..Len(chain)
           /\ PageLimit \in Nat \ {0} /\ MaxLedger \in Nat \ {0}
<1>1. Len(chain) \in Nat /\ DOMAIN chain = 1..Len(chain) /\ \A i \in 1..Len(chain) : chain[i] \in Event
  BY LenProperties DEF CETypeOK
<1>2. /\ Len(chain) \in 0..MaxEvents /\ Matching \subseteq 1..Len(chain)
      /\ MaxEvents \in Nat /\ PageLimit \in Nat \ {0} /\ MaxLedger \in Nat \ {0}
  BY <1>1, LimitsAssumption DEF CETypeOK, Matching
<1>3. \A i \in DOMAIN chain : chain[i].ledger \in 1..MaxLedger /\ chain[i].kind \in Kinds
  BY <1>1 DEF Event
<1> QED BY <1>1, <1>2, <1>3

\* A page starts behind the cursor, if there is one, and ends within the chain.
LEMMA PageSound ==
    ASSUME CETypeOK, lastCursor <= Len(chain)
    PROVE  /\ Page \in [ledger: 0..MaxLedger, at: 0..MaxEvents, cursor: NoCursor..MaxEvents]
           /\ Page.at <= Page.cursor /\ Page.cursor <= Len(chain)
           /\ lastCursor # NoCursor => Page.at = lastCursor
<1> DEFINE wanted == {i \in DOMAIN chain : IF lastCursor = NoCursor
                                           THEN chain[i].ledger >= lastLedger
                                           ELSE i > lastCursor}
           N == Len(chain)
           places == wanted \cup {N + 1}
           first == Min(places)
           last == Min({first - 1 + PageLimit, N})
<1>1. N \in 0..MaxEvents /\ DOMAIN chain = 1..N /\ MaxEvents \in Nat /\ MaxLedger \in Nat
      /\ PageLimit \in Nat /\ PageLimit > 0
  BY ChainFacts
<1>2. Page = [ledger |-> 0, at |-> first - 1, cursor |-> last]
  BY DEF Page
<1>3. wanted \subseteq 1..N /\ (lastCursor # NoCursor => wanted = {i \in 1..N : i > lastCursor})
  BY <1>1
<1> HIDE DEF wanted
<1>4. first \in places /\ \A i \in places : first <= i
  <2>1. places \in SUBSET Nat /\ places # {}
    <3>1. N + 1 \in Nat /\ 1..N \subseteq Nat
      BY <1>1
    <3> QED BY <1>3, <3>1
  <2>2. PICK x \in places : \A i \in places : x <= i
    BY <2>1, LeastNatural
  <2> HIDE DEF places
  <2> QED BY <2>2 DEF Min
<1> HIDE DEF first, N
<1>5. first \in 1..(N + 1)
  BY <1>1, <1>3, <1>4
<1>6. last \in (first - 1)..N
  <2>1. PICK x \in {first - 1 + PageLimit, N} : \A y \in {first - 1 + PageLimit, N} : x <= y
    BY <1>1, <1>5
  <2>2. last \in {first - 1 + PageLimit, N} /\ \A y \in {first - 1 + PageLimit, N} : last <= y
    BY <2>1 DEF Min
  <2> HIDE DEF last
  <2> QED BY <1>1, <1>5, <2>2
<1> HIDE DEF last
<1>7. ASSUME lastCursor # NoCursor PROVE first - 1 = lastCursor
  <2>1. lastCursor \in 0..N
    BY <1>1, <1>7 DEF CETypeOK, NoCursor, N
  <2>2. lastCursor + 1 \in places
    BY <1>1, <1>3, <1>7, <2>1
  <2>3. \A i \in places : i > lastCursor
    BY <1>1, <1>3, <1>7, <2>1
  <2>4. first <= lastCursor + 1 /\ first > lastCursor
    BY <1>4, <2>2, <2>3
  <2> QED BY <1>1, <1>5, <2>1, <2>4
<1>8. NoCursor = -1
  BY DEF NoCursor
<1> QED BY <1>1, <1>2, <1>5, <1>6, <1>7, <1>8 DEF N

\* Before a page is being delivered the requests change nothing for the listeners.
LEMMA RequestKeeps ==
    ASSUME EmitterInv, Tick \/ Serve \/ Fail \/ LedgerArrives
    PROVE  EmitterInv'
<1> USE DEF EmitterInv
<1>1. UNCHANGED <<nodeVars, apiVars, turnVars, lastCursor>>
  BY DEF Tick, Serve, ServeLedger, ServeEvents, Fail, LedgerArrives
<1>2. /\ UNCHANGED <<ledger, chain, listeners, key, isOnce, interval, isClosed, emits, calls, delivered>>
      /\ UNCHANGED <<Matching, lastCursor>> /\ \A r \in Regs : Got(r)' = Got(r) /\ Named(r)' = Named(r) /\ Listed(r)' = Listed(r)
  BY <1>1 DEF nodeVars, apiVars, turnVars, Matching, Got, Named, Listed
<1>3. poll # "delivering" /\ poll' # "delivering"
  BY DEF Tick, Serve, ServeLedger, ServeEvents, Fail, LedgerArrives
<1>4. calls = <<>> /\ emits = <<>> /\ TakenUp = lastCursor /\ TakenUp' = lastCursor
  BY <1>2, <1>3 DEF TurnSound, TakenUp
<1>5. CETypeOK' /\ TurnSound'
  <2>1. CASE Tick \/ Fail
    BY <1>2, <1>3, <1>4, <2>1 DEF CETypeOK, TurnSound, Tick, Fail, pollVars
  <2>2. CASE ServeLedger
    <3>1. answer' \in [ledger: 0..MaxLedger, at: 0..MaxEvents, cursor: NoCursor..MaxEvents]
      <4>1. answer' = [ledger |-> ledger, at |-> 0, cursor |-> -1]
        BY <2>2 DEF ServeLedger, NoAnswer, NoCursor
      <4>2. ledger \in 0..MaxLedger /\ 0 \in 0..MaxEvents /\ -1 \in NoCursor..MaxEvents
        BY ChainFacts DEF CETypeOK, NoCursor
      <4> QED BY <4>1, <4>2
    <3> QED BY <1>2, <1>3, <1>4, <2>2, <3>1 DEF CETypeOK, TurnSound, ServeLedger
  <2>3. CASE ServeEvents
    BY <1>2, <1>3, <1>4, <2>3, PageSound DEF CETypeOK, TurnSound, ServeEvents
  <2>4. CASE LedgerArrives
    <3>1. answer' \in [ledger: 0..MaxLedger, at: 0..MaxEvents, cursor: NoCursor..MaxEvents]
          /\ lastLedger' \in 0..MaxLedger
      BY <2>4, ChainFacts DEF LedgerArrives, NoAnswer, NoCursor, CETypeOK
    <3> QED BY <1>2, <1>3, <1>4, <2>4, <3>1 DEF CETypeOK, TurnSound, LedgerArrives
  <2> QED BY <2>1, <2>2, <2>3, <2>4 DEF Serve
<1>6. ToSet(calls) = {} /\ ToSet(emits) = {} /\ DOMAIN calls = {}
  BY <1>4, EmptyLists
<1>7. ListsSound' /\ ClosedIsReleased'
  BY <1>2 DEF ListsSound, ClosedIsReleased
<1>8. EmitsSound' /\ CallsSound' /\ OwedSound'
  BY <1>2, <1>6 DEF EmitsSound, CallsSound, OwedSound
<1>9. DeliveriesSound'
  BY <1>2, <1>4 DEF DeliveriesSound
<1>11. OnceSound'
  <2>1. isOnce \subseteq Regs
    BY DEF CETypeOK
  <2> QED BY <1>2, <2>1 DEF OnceSound
<1>10. NoGap'
  BY <1>2, <1>4, <1>6 DEF NoGap
<1> QED BY <1>5, <1>7, <1>8, <1>9, <1>10, <1>11

LEMMA EventsArriveKeeps == EmitterInv /\ EventsArrive => EmitterInv'
<1> SUFFICES ASSUME EmitterInv, EventsArrive PROVE EmitterInv'
  OBVIOUS
<1> USE DEF EmitterInv
<1>1. /\ UNCHANGED <<ledger, chain, listeners, key, isOnce, interval, isClosed, emits, calls, delivered, answer, lastLedger>>
      /\ poll = "events" /\ poll' = "delivering" /\ lastCursor' = answer.cursor
      /\ UNCHANGED <<Matching>> /\ \A r \in Regs : Got(r)' = Got(r) /\ Named(r)' = Named(r) /\ Listed(r)' = Listed(r)
  BY DEF EventsArrive, nodeVars, apiVars, turnVars, Matching, Got, Named, Listed
<1>2. /\ calls = <<>> /\ emits = <<>> /\ ToSet(calls) = {} /\ ToSet(emits) = {} /\ DOMAIN calls = {}
      /\ TakenUp = lastCursor /\ TakenUp' = answer.at
  BY <1>1, EmptyLists DEF TurnSound, TakenUp
<1>3. /\ answer.at \in 0..MaxEvents /\ answer.cursor \in NoCursor..MaxEvents /\ MaxEvents \in Nat
      /\ answer.at <= answer.cursor /\ NoCursor = -1 /\ answer.cursor <= Len(chain)
      /\ lastCursor # NoCursor => answer.at = lastCursor
  BY <1>1, ChainFacts DEF CETypeOK, TurnSound, NoCursor
<1>4. \A r \in Regs : lastCursor = NoCursor => delivered[r] = <<>> /\ Got(r) = {}
  BY EmptyLists DEF DeliveriesSound, Got
<1>5. CETypeOK' /\ TurnSound' /\ ListsSound' /\ ClosedIsReleased'
  BY <1>1, <1>2, <1>3 DEF CETypeOK, TurnSound, ListsSound, ClosedIsReleased
<1>6. EmitsSound' /\ CallsSound' /\ OwedSound'
  BY <1>1, <1>2 DEF EmitsSound, CallsSound, OwedSound
<1>9. OnceSound'
  <2>1. isOnce \subseteq Regs
    BY DEF CETypeOK
  <2> QED BY <1>1, <2>1 DEF OnceSound
<1>7. DeliveriesSound'
  <2> SUFFICES ASSUME NEW r \in Regs
               PROVE /\ ~Named(r)' \/ lastCursor' = NoCursor => delivered'[r] = <<>>
                     /\ \A m, n \in DOMAIN delivered'[r] : m < n => delivered'[r][m] < delivered'[r][n]
                     /\ \A i \in Got(r)' : i \in Matching' /\ i <= TakenUp'
    BY DEF DeliveriesSound
  <2>1. lastCursor' # NoCursor
    BY <1>1, <1>3
  <2>2. \A i \in Got(r) : i <= TakenUp'
    BY <1>2, <1>3, <1>4 DEF DeliveriesSound
  <2> QED BY <1>1, <2>1, <2>2 DEF DeliveriesSound
<1>8. NoGap'
  BY <1>1, <1>2, <1>3, <1>4 DEF NoGap
<1> QED BY <1>5, <1>6, <1>7, <1>8, <1>9

-----------------------------------------------------------------------------
(* Delivery.                                                                *)

\* An event is emitted under each name once, under a listener's only if it has it.
LEMMA KeysOfSound ==
    ASSUME NEW kind \in Kinds
    PROVE  /\ KeysOf(kind) \in Seq(Keys) /\ IsInjective(KeysOf(kind))
           /\ kind = "named" => NameKeys \subseteq ToSet(KeysOf(kind))
           /\ kind # "named" => ToSet(KeysOf(kind)) \cap NameKeys = {}
<1>1. CASE kind = "named"
  BY <1>1 DEF KeysOf, Keys, NameKeys, IsInjective, ToSet
<1>2. CASE kind = "other"
  BY <1>2 DEF KeysOf, Keys, NameKeys, IsInjective, ToSet
<1>3. CASE kind = "nameless"
  BY <1>3 DEF KeysOf, Keys, NameKeys, IsInjective, ToSet
<1>4. CASE kind = "filtered"
  BY <1>4 DEF KeysOf, Keys, NameKeys, IsInjective, ToSet
<1> QED BY <1>1, <1>2, <1>3, <1>4 DEF Kinds

LEMMA NextEventKeeps == EmitterInv /\ NextEvent => EmitterInv'
<1> SUFFICES ASSUME EmitterInv, NextEvent PROVE EmitterInv'
  OBVIOUS
<1> USE DEF EmitterInv
<1> DEFINE n == answer.at + 1
<1>1. /\ UNCHANGED <<ledger, chain, listeners, key, isOnce, interval, isClosed, calls, delivered, poll, lastCursor>>
      /\ poll = "delivering" /\ answer' = [answer EXCEPT !.at = @ + 1]
      /\ calls = <<>> /\ emits = <<>> /\ answer.at < answer.cursor
      /\ lastLedger' = Max({lastLedger, chain[answer'.at].ledger})
      /\ emits' = KeysOf(chain[answer'.at].kind)
      /\ UNCHANGED <<Matching>> /\ \A r \in Regs : Got(r)' = Got(r) /\ Named(r)' = Named(r) /\ Listed(r)' = Listed(r)
  BY DEF NextEvent, nodeVars, apiVars, Matching, Got, Named, Listed
<1>2. /\ answer \in [ledger: 0..MaxLedger, at: 0..MaxEvents, cursor: NoCursor..MaxEvents]
      /\ answer.cursor = lastCursor /\ lastCursor <= Len(chain)
  BY <1>1 DEF CETypeOK, TurnSound
<1>3. /\ n \in 1..Len(chain) /\ n <= answer.cursor /\ n > answer.at /\ answer.at \in Nat
      /\ DOMAIN chain = 1..Len(chain) /\ Len(chain) <= MaxEvents /\ MaxEvents \in Nat /\ Len(chain) \in Nat
      /\ chain[n].kind \in Kinds /\ chain[n].ledger \in 1..MaxLedger
  BY <1>1, <1>2, ChainFacts DEF NoCursor
<1>4. answer' = [ledger |-> answer.ledger, at |-> n, cursor |-> answer.cursor]
  BY <1>1, <1>2
<1>5. answer' \in [ledger: 0..MaxLedger, at: 0..MaxEvents, cursor: NoCursor..MaxEvents]
  BY <1>2, <1>3, <1>4
<1>6. /\ emits' \in Seq(Keys) /\ IsInjective(emits')
      /\ n \in Matching => NameKeys \subseteq ToSet(emits')
      /\ n \notin Matching => ToSet(emits') \cap NameKeys = {}
  BY <1>1, <1>3, <1>4, KeysOfSound DEF Matching
<1> HIDE DEF n
<1>7. /\ ToSet(calls) = {} /\ DOMAIN calls = {} /\ ToSet(emits) = {} /\ ToSet(calls') = {}
      /\ TakenUp = answer.at /\ TakenUp' = n /\ answer'.at = n
  BY <1>1, <1>4, EmptyLists DEF TakenUp
<1>8. lastLedger' \in 0..MaxLedger
  <2>1. lastLedger \in 0..MaxLedger /\ chain[n].ledger \in 0..MaxLedger /\ MaxLedger \in Nat
    BY <1>3, ChainFacts DEF CETypeOK
  <2> DEFINE S == {lastLedger, chain[n].ledger}
  <2>2. \E x \in S : \A y \in S : x >= y
    BY <2>1
  <2>3. Max(S) \in S
    BY <2>2 DEF Max
  <2> QED BY <1>1, <1>7, <2>1, <2>3
<1>9. CETypeOK' /\ TurnSound' /\ ListsSound' /\ ClosedIsReleased'
  <2>1. CETypeOK'
    BY <1>1, <1>5, <1>6, <1>8 DEF CETypeOK
  <2>2. TurnSound'
    BY <1>1, <1>2, <1>3, <1>4, <1>7 DEF TurnSound
  <2> QED BY <1>1, <2>1, <2>2 DEF ListsSound, ClosedIsReleased
<1>10. EmitsSound' /\ CallsSound'
  BY <1>1, <1>6, <1>7 DEF EmitsSound, CallsSound
<1>11. \A r \in Regs : \A i \in Got(r) : i \in Matching /\ i <= answer.at /\ i \in Nat
  BY <1>7, ChainFacts DEF DeliveriesSound
<1>12. DeliveriesSound'
  BY <1>1, <1>3, <1>7, <1>11 DEF DeliveriesSound
<1>13. OwedSound'
  BY <1>1, <1>3, <1>7, <1>11 DEF OwedSound
<1>14. NoGap'
  <2> SUFFICES ASSUME NEW r \in Regs, NEW i \in Got(r), NEW j \in Matching, i <= j
               PROVE /\ \A k \in Got(r) : j <= k => j \in Got(r)
                     /\ Listed(r) /\ j <= n => j \in Got(r) \/ (j = n /\ key[r] \in ToSet(emits'))
    BY <1>1, <1>7 DEF NoGap
  <2>1. \A k \in Got(r) : j <= k => j \in Got(r)
    BY DEF NoGap
  <2>2. ASSUME Listed(r), j <= n, j # n PROVE j \in Got(r)
    <3>1. j <= answer.at
      BY <1>3, <2>2, ChainFacts DEF n
    <3> QED BY <1>7, <2>2, <3>1 DEF NoGap
  <2>3. ASSUME j = n PROVE key[r] \in ToSet(emits')
    <3>1. Named(r)
      BY EmptyLists DEF DeliveriesSound, Got
    <3> QED BY <1>6, <2>3, <3>1 DEF Named
  <2> QED BY <2>1, <2>2, <2>3
<1>15. OnceSound'
  <2>1. isOnce \subseteq Regs
    BY DEF CETypeOK
  <2> QED BY <1>1, <2>1 DEF OnceSound
<1> QED BY <1>9, <1>10, <1>12, <1>13, <1>14, <1>15

\* The registrations of three lists, one after the other.
LEMMA CopiedListeners ==
    ASSUME EmitterInv, NEW k \in Keys
    PROVE  LET copied == listeners[k] \o listeners["event"] \o listeners["*"]
           IN  /\ copied \in Seq(Regs)
               /\ ToSet(copied) = ToSet(listeners[k]) \cup ToSet(listeners["event"]) \cup ToSet(listeners["*"])
               /\ \A m, n \in DOMAIN copied : copied[m] = copied[n] /\ Named(copied[m]) => m = n
<1> DEFINE a == listeners[k]
           b == listeners["event"]
           c == listeners["*"]
           copied == a \o b \o c
<1>1. /\ a \in Seq(Regs) /\ b \in Seq(Regs) /\ c \in Seq(Regs) /\ IsInjective(a)
      /\ \A r \in ToSet(b) \cup ToSet(c) : ~Named(r)
  BY DEF EmitterInv, CETypeOK, ListsSound, Keys, NameKeys, Named
<1> HIDE DEF a, b, c
<1>2. /\ Len(a) \in Nat /\ Len(b) \in Nat /\ Len(c) \in Nat
      /\ DOMAIN a = 1..Len(a) /\ DOMAIN b = 1..Len(b) /\ DOMAIN c = 1..Len(c)
  BY <1>1, LenProperties
<1>3. /\ a \o b \in Seq(Regs) /\ Len(a \o b) = Len(a) + Len(b)
      /\ \A i \in 1..(Len(a) + Len(b)) : (a \o b)[i] = IF i <= Len(a) THEN a[i] ELSE b[i - Len(a)]
  BY <1>1, ConcatProperties
<1>4. /\ copied \in Seq(Regs) /\ Len(copied) = Len(a) + Len(b) + Len(c)
      /\ \A i \in 1..(Len(a) + Len(b) + Len(c)) :
           copied[i] = IF i <= Len(a) + Len(b) THEN (a \o b)[i] ELSE c[i - (Len(a) + Len(b))]
  BY <1>1, <1>3, ConcatProperties
<1>5. DOMAIN copied = 1..(Len(a) + Len(b) + Len(c))
  BY <1>4, LenProperties
<1> HIDE DEF copied
<1>6. \A i \in DOMAIN a : i \in DOMAIN copied /\ copied[i] = a[i]
  BY <1>2, <1>3, <1>4, <1>5
<1>7. \A i \in DOMAIN b : Len(a) + i \in DOMAIN copied /\ copied[Len(a) + i] = b[i]
  BY <1>2, <1>3, <1>4, <1>5
<1>8. \A i \in DOMAIN c : Len(a) + Len(b) + i \in DOMAIN copied /\ copied[Len(a) + Len(b) + i] = c[i]
  BY <1>2, <1>4, <1>5
<1>9. \A i \in DOMAIN copied : \/ i \in DOMAIN a /\ copied[i] = a[i]
                               \/ i - Len(a) \in DOMAIN b /\ copied[i] = b[i - Len(a)]
                               \/ i - (Len(a) + Len(b)) \in DOMAIN c /\ copied[i] = c[i - (Len(a) + Len(b))]
  BY <1>2, <1>3, <1>4, <1>5
<1>10. ToSet(copied) = ToSet(a) \cup ToSet(b) \cup ToSet(c)
  BY <1>6, <1>7, <1>8, <1>9 DEF ToSet
<1>11. ASSUME NEW i \in DOMAIN copied, Named(copied[i]) PROVE i \in DOMAIN a /\ copied[i] = a[i]
  <2>1. copied[i] \notin ToSet(b) \cup ToSet(c)
    BY <1>1, <1>11
  <2> QED BY <1>9, <2>1 DEF ToSet
<1>12. \A m, n \in DOMAIN copied : copied[m] = copied[n] /\ Named(copied[m]) => m = n
  BY <1>1, <1>11 DEF IsInjective
<1> QED BY <1>4, <1>10, <1>12 DEF copied, a, b, c

LEMMA EmitKeeps == EmitterInv /\ Emit => EmitterInv'
<1> SUFFICES ASSUME EmitterInv, Emit PROVE EmitterInv'
  OBVIOUS
<1> USE DEF EmitterInv
<1> DEFINE k == Head(emits)
<1>1. /\ UNCHANGED <<ledger, chain, listeners, key, isOnce, interval, isClosed, delivered, poll, answer, lastLedger, lastCursor>>
      /\ UNCHANGED <<Matching, TakenUp>> /\ \A r \in Regs : Got(r)' = Got(r) /\ Named(r)' = Named(r) /\ Listed(r)' = Listed(r)
      /\ calls = <<>> /\ emits # <<>>
      /\ calls' = listeners[k] \o listeners["event"] \o listeners["*"]
      /\ emits' = Tail(emits)
  BY DEF Emit, nodeVars, apiVars, pollVars, Matching, TakenUp, Got, Named, Listed
<1>2. /\ k \in Keys /\ k \in ToSet(emits) /\ emits' \in Seq(Keys) /\ IsInjective(emits')
      /\ ToSet(emits) = ToSet(emits') \cup {k} /\ k \notin ToSet(emits')
  BY <1>1, TailDistinct DEF CETypeOK, EmitsSound
<1> HIDE DEF k
<1>3. /\ calls' \in Seq(Regs)
      /\ ToSet(calls') = ToSet(listeners[k]) \cup ToSet(listeners["event"]) \cup ToSet(listeners["*"])
      /\ \A m, n \in DOMAIN calls' : calls'[m] = calls'[n] /\ Named(calls'[m]) => m = n
  BY <1>1, <1>2, CopiedListeners
<1>4. ToSet(calls) = {}
  BY <1>1, EmptyLists
<1>5. \A r \in ToSet(calls') : /\ key[r] # NoKey /\ Listed(r) /\ r \in Regs
                               /\ Named(r) => key[r] = k
  <2> SUFFICES ASSUME NEW r \in ToSet(calls')
               PROVE  key[r] # NoKey /\ Listed(r) /\ r \in Regs /\ (Named(r) => key[r] = k)
    OBVIOUS
  <2>1. PICK j \in {k, "event", "*"} : r \in ToSet(listeners[j])
    BY <1>3
  <2>2. j \in Keys /\ key[r] = j
    BY <1>2, <2>1 DEF Keys, ListsSound
  <2>3. r \in Regs
    BY <2>1, <2>2, LenProperties DEF CETypeOK, ToSet
  <2> QED BY <2>1, <2>2, <2>3, KeysAssumption DEF Listed, Named, NameKeys
<1>6. \A r \in Regs : Listed(r) /\ key[r] = k => r \in ToSet(calls')
  BY <1>3 DEF Listed
<1>7. poll = "delivering" /\ answer.at # 0 /\ TakenUp = answer.at
  BY <1>1 DEF TurnSound, TakenUp
<1>8. CETypeOK' /\ TurnSound' /\ ListsSound' /\ ClosedIsReleased'
  <2>1. CETypeOK'
    BY <1>1, <1>2, <1>3 DEF CETypeOK
  <2> QED BY <1>1, <1>7, <2>1 DEF TurnSound, ListsSound, ClosedIsReleased
<1>9. EmitsSound'
  BY <1>1, <1>2 DEF EmitsSound
<1>10. CallsSound'
  <2> SUFFICES ASSUME NEW n \in DOMAIN calls'
               PROVE  /\ key[calls'[n]] # NoKey
                      /\ Named(calls'[n]) => /\ answer.at \in Matching
                                             /\ key[calls'[n]] \notin ToSet(emits')
                                             /\ \A m \in DOMAIN calls' : calls'[m] = calls'[n] => m = n
    BY <1>1 DEF CallsSound, Named
  <2>1. calls'[n] \in ToSet(calls')
    BY DEF ToSet
  <2>2. ASSUME Named(calls'[n]) PROVE answer.at \in Matching /\ key[calls'[n]] \notin ToSet(emits')
    <3>1. key[calls'[n]] = k /\ k \in NameKeys
      BY <1>5, <2>1, <2>2 DEF Named
    <3> QED BY <1>2, <3>1 DEF EmitsSound
  <2> QED BY <1>3, <1>5, <2>1, <2>2
<1>11. DeliveriesSound'
  BY <1>1 DEF DeliveriesSound
<1>12. OwedSound'
  <2>1. \A r \in Regs : Named(r) /\ (r \in ToSet(calls') \/ key[r] \in ToSet(emits')) => key[r] \in ToSet(emits)
    BY <1>2, <1>5
  <2> QED BY <1>1, <2>1 DEF OwedSound
<1>13. NoGap'
  <2> SUFFICES ASSUME NEW r \in Regs, NEW i \in Got(r), NEW j \in Matching, i <= j
               PROVE /\ \A l \in Got(r) : j <= l => j \in Got(r)
                     /\ r \in ToSet(calls') /\ j < answer.at => j \in Got(r)
                     /\ Listed(r) /\ j <= TakenUp =>
                          \/ j \in Got(r)
                          \/ j = answer.at /\ (r \in ToSet(calls') \/ key[r] \in ToSet(emits'))
    BY <1>1 DEF NoGap
  <2>1. \A l \in Got(r) : j <= l => j \in Got(r)
    BY DEF NoGap
  <2>2. Listed(r) /\ j <= TakenUp => j \in Got(r) \/ (j = answer.at /\ key[r] \in ToSet(emits))
    BY <1>4 DEF NoGap
  <2>3. j \in Nat /\ answer.at \in Nat
    BY ChainFacts DEF CETypeOK
  <2>4. ASSUME r \in ToSet(calls'), j < answer.at PROVE j \in Got(r)
    BY <1>5, <1>7, <2>2, <2>3, <2>4
  <2>5. ASSUME Listed(r), j <= TakenUp, j \notin Got(r)
        PROVE  j = answer.at /\ (r \in ToSet(calls') \/ key[r] \in ToSet(emits'))
    BY <1>2, <1>6, <2>2, <2>5
  <2> QED BY <2>1, <2>4, <2>5
<1>14. OnceSound'
  <2>1. isOnce \subseteq Regs
    BY DEF CETypeOK
  <2> QED BY <1>1, <1>5, <2>1 DEF OnceSound
<1> QED BY <1>8, <1>9, <1>10, <1>11, <1>12, <1>13, <1>14

\* What a call appends to the record of an ascending sequence of smaller events.
LEMMA RecordAppends ==
    ASSUME NEW q \in Seq(Nat), NEW e \in Nat, \A i \in ToSet(q) : i < e,
           \A m, n \in DOMAIN q : m < n => q[m] < q[n]
    PROVE  LET a == Append(q, e)
           IN  /\ ToSet(a) = ToSet(q) \cup {e} /\ a # <<>>
               /\ \A m, n \in DOMAIN a : m < n => a[m] < a[n]
               /\ q = <<>> => Len(a) = 1
<1> DEFINE a == Append(q, e)
<1>1. Len(q) \in Nat /\ DOMAIN q = 1..Len(q)
  BY LenProperties
<1>2. /\ a \in Seq(Nat) /\ Len(a) = Len(q) + 1 /\ DOMAIN a = 1..(Len(q) + 1)
      /\ \A i \in 1..Len(q) : a[i] = q[i]
      /\ a[Len(q) + 1] = e
  BY AppendProperties, LenProperties
<1>3. ToSet(a) = ToSet(q) \cup {e} /\ a # <<>>
  BY AppendDistinct
<1> HIDE DEF a
<1>4. ASSUME NEW m \in DOMAIN a, NEW n \in DOMAIN a, m < n PROVE a[m] < a[n]
  <2>1. m \in DOMAIN q /\ a[m] = q[m] /\ q[m] \in ToSet(q)
    BY <1>1, <1>2, <1>4 DEF ToSet
  <2>2. CASE n = Len(q) + 1
    BY <1>2, <2>1, <2>2
  <2>3. CASE n # Len(q) + 1
    <3>1. n \in DOMAIN q /\ a[n] = q[n]
      BY <1>1, <1>2, <2>3
    <3> QED BY <1>4, <2>1, <3>1
  <2> QED BY <2>2, <2>3
<1>5. q = <<>> => Len(a) = 1
  BY <1>2, EmptySeq
<1> QED BY <1>3, <1>4, <1>5 DEF a

LEMMA CallKeeps == EmitterInv /\ Call => EmitterInv'
<1> SUFFICES ASSUME EmitterInv, Call PROVE EmitterInv'
  OBVIOUS
<1> USE DEF EmitterInv
<1>18. PICK r \in Regs : r = Head(calls)
  BY TailDistinct DEF Call, CETypeOK
<1>19. PICK e : e = answer.at
  OBVIOUS
<1>1. /\ UNCHANGED <<ledger, chain, key, isOnce, emits, poll, answer, lastLedger, lastCursor>>
      /\ UNCHANGED <<Matching, TakenUp>> /\ \A s \in Regs : Named(s)' = Named(s)
      /\ calls # <<>> /\ calls' = Tail(calls)
      /\ delivered' = IF Named(r) THEN [delivered EXCEPT ![r] = Append(@, e)] ELSE delivered
  BY <1>18, <1>19 DEF Call, Record, nodeVars, pollVars, Matching, TakenUp, Named
<1>2. IF r \in isOnce /\ ~isClosed THEN CloseIfEmpty(Without(r)) ELSE UNCHANGED <<listeners, interval, isClosed>>
  BY <1>18 DEF Call
<1>3. /\ calls \in Seq(Regs) /\ r \in Regs /\ r \in ToSet(calls) /\ calls' \in Seq(Regs)
      /\ ToSet(calls) = ToSet(calls') \cup {r}
      /\ DOMAIN calls = 1..Len(calls) /\ DOMAIN calls' = 1..(Len(calls) - 1)
      /\ \A n \in DOMAIN calls' : calls'[n] = calls[n + 1] /\ n + 1 \in DOMAIN calls /\ n + 1 # 1
      /\ r = calls[1] /\ 1 \in DOMAIN calls /\ DOMAIN calls \subseteq Nat /\ DOMAIN calls' \subseteq Nat
  <2>1. calls \in Seq(Regs) /\ Len(calls) \in Nat /\ DOMAIN calls = 1..Len(calls) /\ Len(calls) # 0
    BY <1>1, NonEmpty, LenProperties DEF CETypeOK
  <2>2. /\ Tail(calls) \in Seq(Regs) /\ Len(Tail(calls)) = Len(calls) - 1
        /\ \A i \in 1..(Len(calls) - 1) : Tail(calls)[i] = calls[i + 1]
    BY <1>1, <2>1, HeadTailProperties
  <2>3. DOMAIN Tail(calls) = 1..(Len(calls) - 1)
    BY <2>2, LenProperties
  <2>4. r = calls[1] /\ r \in Regs /\ r \in ToSet(calls) /\ ToSet(calls) = ToSet(Tail(calls)) \cup {r}
    BY <1>1, <1>18, <2>1, TailDistinct
  <2> QED BY <1>1, <2>1, <2>2, <2>3, <2>4
<1>4. /\ listeners' \in [Keys -> Seq(Regs)]
      /\ \A k \in Keys : IsInjective(listeners'[k]) /\ ToSet(listeners'[k]) \subseteq ToSet(listeners[k])
      /\ interval' \in BOOLEAN /\ isClosed' \in BOOLEAN
      /\ ClosedIsReleased'
      /\ r \in isOnce /\ key[r] # NoKey => ~Listed(r)'
  <2>1. CASE r \in isOnce /\ ~isClosed
    <3>1. Delists
      BY <1>2, <1>3, <2>1, WithoutSound, CloseIfEmptyDelists
    <3>2. key[r] # NoKey => key[r] \in Keys /\ r \notin ToSet(listeners'[key[r]])
      <4>1. key[r] # NoKey => key[r] \in Keys /\ r \notin ToSet(Without(r)[key[r]])
        BY <1>3, WithoutSound, KeysAssumption DEF CETypeOK
      <4>2. CASE \A k \in Keys : Without(r)[k] = <<>>
        BY <1>2, <2>1, <4>1, <4>2, EmptyLists DEF CloseIfEmpty, Close
      <4>3. CASE ~(\A k \in Keys : Without(r)[k] = <<>>)
        BY <1>2, <2>1, <4>1, <4>3 DEF CloseIfEmpty
      <4> QED BY <4>2, <4>3
    <3> QED BY <1>1, <3>1, <3>2 DEF Delists, Listed
  <2>2. CASE r \in isOnce /\ isClosed
    <3>1. UNCHANGED <<listeners, interval, isClosed>>
      BY <1>2, <2>2
    <3>2. key[r] # NoKey => key[r] \in Keys /\ listeners[key[r]] = <<>>
      BY <1>3, <2>2, KeysAssumption DEF CETypeOK, ClosedIsReleased
    <3>3. ClosedIsReleased'
      BY <3>1 DEF ClosedIsReleased
    <3>4. ~Listed(r)'
      BY <1>1, <3>1, <3>2, EmptyLists DEF Listed
    <3> QED BY <3>1, <3>3, <3>4 DEF CETypeOK, ListsSound
  <2>3. CASE r \notin isOnce
    <3>1. UNCHANGED <<listeners, interval, isClosed>>
      BY <1>2, <2>3
    <3>2. ClosedIsReleased'
      BY <3>1 DEF ClosedIsReleased
    <3> QED BY <2>3, <3>1, <3>2 DEF CETypeOK, ListsSound
  <2> QED BY <2>1, <2>2, <2>3
<1>5. \A s \in Regs : Listed(s)' => Listed(s)
  BY <1>1, <1>4, KeysAssumption DEF Listed, CETypeOK
<1>6. poll = "delivering" /\ e \in 1..MaxEvents /\ e \in Nat /\ TakenUp = e
      /\ lastCursor = answer.cursor /\ e <= lastCursor /\ lastCursor # NoCursor
  BY <1>1, <1>19, ChainFacts DEF CETypeOK, TurnSound, TakenUp, NoCursor
<1>7. Named(r) => /\ e \in Matching /\ key[r] \notin ToSet(emits) /\ r \notin ToSet(calls')
                  /\ \A i \in Got(r) : i < e
  <2> SUFFICES ASSUME Named(r) PROVE /\ e \in Matching /\ key[r] \notin ToSet(emits) /\ r \notin ToSet(calls')
                                     /\ \A i \in Got(r) : i < e
    OBVIOUS
  <2>1. e \in Matching /\ key[r] \notin ToSet(emits) /\ \A m \in DOMAIN calls : calls[m] = r => m = 1
    BY <1>3, <1>19 DEF CallsSound
  <2>2. r \notin ToSet(calls')
    BY <1>3, <2>1 DEF ToSet
  <2>3. \A i \in Got(r) : i < e
    BY <1>3, <1>19 DEF OwedSound
  <2> QED BY <2>1, <2>2, <2>3
<1>8. \A s \in Regs : s # r \/ ~Named(s) => delivered'[s] = delivered[s] /\ Got(s)' = Got(s)
  BY <1>1, <1>3 DEF CETypeOK, Got
<1>9. Named(r) => /\ delivered'[r] = Append(delivered[r], e) /\ Got(r)' = Got(r) \cup {e}
                  /\ \A m, n \in DOMAIN delivered'[r] : m < n => delivered'[r][m] < delivered'[r][n]
                  /\ delivered[r] = <<>> => Len(delivered'[r]) = 1
  <2> SUFFICES ASSUME Named(r)
               PROVE  /\ delivered'[r] = Append(delivered[r], e) /\ Got(r)' = Got(r) \cup {e}
                      /\ \A m, n \in DOMAIN delivered'[r] : m < n => delivered'[r][m] < delivered'[r][n]
                      /\ delivered[r] = <<>> => Len(delivered'[r]) = 1
    OBVIOUS
  <2>1. delivered'[r] = Append(delivered[r], e)
    BY <1>1, <1>3 DEF CETypeOK
  <2>2. delivered[r] \in Seq(Nat)
    <3>1. delivered[r] \in Seq(1..MaxEvents) /\ 1..MaxEvents \subseteq Nat
      BY DEF CETypeOK
    <3> QED BY <3>1, WiderSeq
  <2>3. \A m, n \in DOMAIN delivered[r] : m < n => delivered[r][m] < delivered[r][n]
    BY <1>3 DEF DeliveriesSound
  <2>4. \A i \in ToSet(delivered[r]) : i < e
    BY <1>7 DEF Got
  <2> QED BY <1>6, <2>1, <2>2, <2>3, <2>4, RecordAppends DEF Got
<1>10. CETypeOK'
  <2>1. delivered' \in [Regs -> Seq(1..MaxEvents)]
    <3>1. CASE Named(r)
      <4>1. Append(delivered[r], e) \in Seq(1..MaxEvents)
        BY <1>3, <1>6, AppendProperties DEF CETypeOK
      <4> QED BY <1>1, <1>3, <3>1, <4>1 DEF CETypeOK
    <3>2. CASE ~Named(r)
      BY <1>1, <3>2 DEF CETypeOK
    <3> QED BY <3>1, <3>2
  <2> QED BY <1>1, <1>3, <1>4, <2>1 DEF CETypeOK
<1>11. TurnSound' /\ EmitsSound'
  BY <1>1 DEF TurnSound, EmitsSound
<1>12. ListsSound'
  BY <1>1, <1>4 DEF ListsSound
<1>13. CallsSound'
  <2> SUFFICES ASSUME NEW n \in DOMAIN calls'
               PROVE  /\ key[calls'[n]] # NoKey
                      /\ Named(calls'[n]) => /\ answer.at \in Matching
                                             /\ key[calls'[n]] \notin ToSet(emits)
                                             /\ \A m \in DOMAIN calls' : calls'[m] = calls'[n] => m = n
    BY <1>1 DEF CallsSound, Named
  <2>1. calls'[n] = calls[n + 1] /\ n + 1 \in DOMAIN calls
    BY <1>3
  <2>2. ASSUME Named(calls'[n]), NEW m \in DOMAIN calls', calls'[m] = calls'[n] PROVE m = n
    <3>1. calls[m + 1] = calls[n + 1] /\ m + 1 \in DOMAIN calls
      BY <1>3, <2>1, <2>2
    <3>2. m + 1 = n + 1
      BY <2>1, <2>2, <3>1 DEF CallsSound
    <3>3. m \in Nat /\ n \in Nat
      BY <1>3
    <3> QED BY <3>2, <3>3
  <2> QED BY <2>1, <2>2 DEF CallsSound
<1>14. DeliveriesSound'
  <2> SUFFICES ASSUME NEW s \in Regs
               PROVE /\ ~Named(s) \/ lastCursor = NoCursor => delivered'[s] = <<>>
                     /\ \A m, n \in DOMAIN delivered'[s] : m < n => delivered'[s][m] < delivered'[s][n]
                     /\ \A i \in Got(s)' : i \in Matching /\ i <= TakenUp
    BY <1>1 DEF DeliveriesSound
  <2>1. CASE s = r /\ Named(s)
    BY <1>6, <1>7, <1>9, <2>1 DEF DeliveriesSound
  <2>2. CASE ~(s = r /\ Named(s))
    BY <1>8, <2>2 DEF DeliveriesSound
  <2> QED BY <2>1, <2>2
<1>15. OwedSound'
  <2> SUFFICES ASSUME NEW s \in Regs, Named(s), s \in ToSet(calls') \/ key[s] \in ToSet(emits)
               PROVE  \A i \in Got(s)' : i < answer.at
    BY <1>1 DEF OwedSound
  <2>1. s # r
    BY <1>7
  <2> QED BY <1>3, <1>8, <2>1 DEF OwedSound
<1>16. NoGap'
  <2> SUFFICES ASSUME NEW s \in Regs, NEW i \in Got(s)', NEW j \in Matching, i <= j
               PROVE /\ \A l \in Got(s)' : j <= l => j \in Got(s)'
                     /\ s \in ToSet(calls') /\ j < answer.at => j \in Got(s)'
                     /\ Listed(s)' /\ j <= TakenUp =>
                          \/ j \in Got(s)'
                          \/ j = answer.at /\ (s \in ToSet(calls') \/ key[s] \in ToSet(emits))
    BY <1>1 DEF NoGap
  <2>1. CASE s = r /\ Named(s)
    <3>1. s \notin ToSet(calls') /\ e \in Got(s)' /\ Got(s) \subseteq Got(s)' /\ answer.at = e
      BY <1>7, <1>9, <1>19, <2>1
    <3>2. j \in Nat /\ Got(s) \subseteq Nat
      BY ChainFacts DEF DeliveriesSound
    <3>3. CASE i = e
      BY <1>6, <1>7, <1>9, <2>1, <3>1, <3>2, <3>3
    <3>4. CASE i \in Got(s)
      <4>1. j < e => j \in Got(s)
        BY <1>3, <2>1, <3>1, <3>4 DEF NoGap
      <4> QED BY <1>6, <1>7, <1>9, <2>1, <3>1, <3>2, <4>1
    <3> QED BY <1>9, <2>1, <3>3, <3>4
  <2>2. CASE ~(s = r /\ Named(s))
    <3>1. Got(s)' = Got(s)
      BY <1>8, <2>2
    <3>2. s # r
      <4>1. ~Named(s) => Got(s) = {}
        BY EmptyLists DEF DeliveriesSound, Got
      <4> QED BY <2>2, <3>1, <4>1
    <3> QED BY <1>3, <1>5, <3>1, <3>2 DEF NoGap
  <2> QED BY <2>1, <2>2
<1>17. OnceSound'
  <2> SUFFICES ASSUME NEW s \in isOnce, Named(s), delivered'[s] # <<>>
               PROVE  Len(delivered'[s]) = 1 /\ ~Listed(s)' /\ s \notin ToSet(calls')
    <3>1. isOnce \subseteq Regs
      BY DEF CETypeOK
    <3> QED BY <1>1, <3>1 DEF OnceSound
  <2>1. s \in Regs
    BY DEF CETypeOK
  <2>2. CASE s = r
    <3>1. delivered[r] = <<>> /\ key[r] # NoKey
      BY <1>3, <2>2, KeysAssumption DEF OnceSound, Named, NameKeys, Keys
    <3> QED BY <1>4, <1>7, <1>9, <2>2, <3>1
  <2>3. CASE s # r
    BY <1>3, <1>5, <1>8, <2>1, <2>3 DEF OnceSound
  <2> QED BY <2>2, <2>3
<1> QED BY <1>4, <1>10, <1>11, <1>12, <1>13, <1>14, <1>15, <1>16, <1>17

LEMMA FinishPollKeeps == EmitterInv /\ FinishPoll => EmitterInv'
<1> SUFFICES ASSUME EmitterInv, FinishPoll PROVE EmitterInv'
  OBVIOUS
<1> USE DEF EmitterInv
<1>1. /\ UNCHANGED <<ledger, chain, listeners, key, isOnce, interval, isClosed, emits, calls, delivered, lastLedger, lastCursor>>
      /\ UNCHANGED <<Matching>> /\ \A r \in Regs : Got(r)' = Got(r) /\ Named(r)' = Named(r) /\ Listed(r)' = Listed(r)
      /\ poll = "delivering" /\ calls = <<>> /\ emits = <<>> /\ answer.at = answer.cursor
      /\ poll' = "idle" /\ answer' = NoAnswer
  BY DEF FinishPoll, nodeVars, apiVars, turnVars, Matching, Got, Named, Listed
<1>2. ToSet(calls) = {} /\ ToSet(emits) = {} /\ DOMAIN calls = {} /\ TakenUp' = TakenUp
  BY <1>1, EmptyLists DEF TakenUp, TurnSound
<1>3. answer' \in [ledger: 0..MaxLedger, at: 0..MaxEvents, cursor: NoCursor..MaxEvents]
  <2>1. 0 \in 0..MaxLedger /\ 0 \in 0..MaxEvents /\ NoCursor \in NoCursor..MaxEvents
    BY ChainFacts DEF NoCursor
  <2> QED BY <1>1, <2>1 DEF NoAnswer
<1>4. CETypeOK' /\ TurnSound' /\ ListsSound' /\ ClosedIsReleased'
  BY <1>1, <1>3 DEF CETypeOK, TurnSound, ListsSound, ClosedIsReleased
<1>5. EmitsSound' /\ CallsSound' /\ OwedSound'
  BY <1>1, <1>2 DEF EmitsSound, CallsSound, OwedSound
<1>6. DeliveriesSound'
  BY <1>1, <1>2 DEF DeliveriesSound
<1>7. NoGap'
  BY <1>1, <1>2 DEF NoGap
<1>8. OnceSound'
  <2>1. isOnce \subseteq Regs
    BY DEF CETypeOK
  <2> QED BY <1>1, <2>1 DEF OnceSound
<1> QED BY <1>4, <1>5, <1>6, <1>7, <1>8

\* Later events come after what was read.
LEMMA CloseLedgerKeeps == EmitterInv /\ CloseLedger => EmitterInv'
<1> SUFFICES ASSUME EmitterInv, CloseLedger PROVE EmitterInv'
  OBVIOUS
<1> USE DEF EmitterInv
<1>1. /\ UNCHANGED <<listeners, key, isOnce, interval, isClosed, poll, answer, lastLedger, lastCursor, emits, calls, delivered>>
      /\ UNCHANGED <<TakenUp>> /\ \A r \in Regs : Got(r)' = Got(r) /\ Named(r)' = Named(r) /\ Listed(r)' = Listed(r)
      /\ ledger < MaxLedger /\ ledger' = ledger + 1
  BY DEF CloseLedger, apiVars, pollVars, turnVars, TakenUp, Got, Named, Listed
<1>16. PICK n \in 0..2 :
         /\ Len(chain) + n <= MaxEvents
         /\ \E kinds \in [1..n -> Kinds] :
              chain' = chain \o [i \in 1..n |-> [ledger |-> ledger + 1, kind |-> kinds[i]]]
  BY DEF CloseLedger
<1>2. PICK kinds \in [1..n -> Kinds] :
        chain' = chain \o [i \in 1..n |-> [ledger |-> ledger + 1, kind |-> kinds[i]]]
  BY <1>16
<1> DEFINE new == [i \in 1..n |-> [ledger |-> ledger + 1, kind |-> kinds[i]]]
<1>3. ledger' \in 1..MaxLedger
  BY <1>1, ChainFacts DEF CETypeOK
<1>4. new \in Seq(Event) /\ Len(new) = n
  <2>1. \A i \in 1..n : [ledger |-> ledger + 1, kind |-> kinds[i]] \in Event
    BY <1>1, <1>3 DEF Event
  <2>2. new \in [1..n -> Event] /\ n \in Nat
    BY <2>1
  <2> QED BY <2>2, FunctionIsSeq
<1> HIDE DEF new
<1>5. /\ chain \in Seq(Event) /\ Len(chain) \in Nat /\ DOMAIN chain = 1..Len(chain)
      /\ chain' \in Seq(Event) /\ Len(chain') = Len(chain) + n /\ DOMAIN chain' = 1..(Len(chain) + n)
      /\ \A i \in 1..Len(chain) : chain'[i] = chain[i]
  <2>1. chain \in Seq(Event) /\ Len(chain) \in Nat /\ DOMAIN chain = 1..Len(chain)
    BY LenProperties DEF CETypeOK
  <2>2. chain' = chain \o new
    BY <1>2 DEF new
  <2>3. /\ chain' \in Seq(Event) /\ Len(chain') = Len(chain) + n
        /\ \A i \in 1..(Len(chain) + n) : chain'[i] = IF i <= Len(chain) THEN chain[i] ELSE new[i - Len(chain)]
    BY <1>4, <2>1, <2>2, ConcatProperties
  <2>4. DOMAIN chain' = 1..(Len(chain) + n)
    BY <2>3, LenProperties
  <2> QED BY <2>1, <2>3, <2>4
<1>6. /\ Matching \subseteq Matching' /\ Matching' \subseteq Nat
      /\ \A j \in Matching' : j \notin Matching => j > Len(chain)
  BY <1>5 DEF Matching
<1>7. /\ lastCursor <= Len(chain) /\ TakenUp <= Len(chain)
      /\ calls # <<>> => answer.at <= Len(chain)
      /\ lastCursor \in Int /\ answer.at \in Nat /\ TakenUp \in Int
  <2>1. lastCursor <= Len(chain) /\ lastCursor \in Int /\ answer.at \in Nat /\ answer.cursor \in Int
    BY ChainFacts DEF CETypeOK, TurnSound, NoCursor
  <2> QED BY <1>5, <2>1 DEF TurnSound, TakenUp
<1>8. CETypeOK'
  BY <1>1, <1>3, <1>5, <1>16 DEF CETypeOK
<1>9. TurnSound'
  <2>1. UNCHANGED <<calls, emits, poll, answer, lastCursor>>
    BY <1>1, Zenon DEF pollVars, turnVars
  <2>2. n \in Nat /\ Len(chain) \in Nat /\ Len(chain') = Len(chain) + n
    BY <1>5
  <2>3. answer.cursor \in Int /\ lastCursor <= Len(chain) /\ lastCursor \in Int
    BY <1>7 DEF CETypeOK, NoCursor
  <2>4. lastCursor <= Len(chain') /\ (answer.cursor <= Len(chain) => answer.cursor <= Len(chain'))
    BY <2>2, <2>3
  <2> QED BY <2>1, <2>4, Zenon DEF TurnSound
<1>10. ListsSound' /\ ClosedIsReleased'
  BY <1>1 DEF ListsSound, ClosedIsReleased
<1>11. EmitsSound' /\ CallsSound'
  BY <1>1, <1>6 DEF EmitsSound, CallsSound, Named
<1>12. OwedSound'
  BY <1>1 DEF OwedSound
<1>13. DeliveriesSound'
  BY <1>1, <1>6 DEF DeliveriesSound
<1>14. NoGap'
  <2> SUFFICES ASSUME NEW r \in Regs, NEW i \in Got(r), NEW j \in Matching', i <= j
               PROVE /\ \A l \in Got(r) : j <= l => j \in Got(r)
                     /\ r \in ToSet(calls) /\ j < answer.at => j \in Got(r)
                     /\ Listed(r) /\ j <= TakenUp =>
                          \/ j \in Got(r)
                          \/ j = answer.at /\ (r \in ToSet(calls) \/ key[r] \in ToSet(emits))
    BY <1>1 DEF NoGap
  <2>1. CASE j \in Matching
    BY <2>1 DEF NoGap
  <2>2. CASE j \notin Matching
    <3>1. j > Len(chain) /\ j \in Nat
      BY <1>6, <2>2
    <3>2. \A l \in Got(r) : l <= Len(chain) /\ l \in Nat
      BY ChainFacts DEF DeliveriesSound
    <3>3. r \in ToSet(calls) => answer.at <= Len(chain)
      BY <1>7, EmptyLists
    <3> QED BY <1>5, <1>7, <3>1, <3>2, <3>3
  <2> QED BY <2>1, <2>2
<1>15. OnceSound'
  <2>1. isOnce \subseteq Regs
    BY DEF CETypeOK
  <2> QED BY <1>1, <2>1 DEF OnceSound
<1> QED BY <1>8, <1>9, <1>10, <1>11, <1>12, <1>13, <1>14, <1>15

-----------------------------------------------------------------------------
LEMMA EmitterInitInv == CEInit => EmitterInv
<1> SUFFICES ASSUME CEInit PROVE EmitterInv
  OBVIOUS
<1>1. /\ <<>> \in Seq(Event) /\ <<>> \in Seq(Keys) /\ <<>> \in Seq(Regs) /\ <<>> \in Seq(1..MaxEvents)
      /\ Len(<<>>) = 0 /\ DOMAIN <<>> = {} /\ ToSet(<<>>) = {} /\ IsInjective(<<>>)
  BY EmptySeq, EmptyLists
<1>2. Matching = {} /\ \A r \in Regs : Got(r) = {}
  BY <1>1 DEF CEInit, Matching, Got
<1>3. NoAnswer \in [ledger: 0..MaxLedger, at: 0..MaxEvents, cursor: NoCursor..MaxEvents]
  <2>1. 0 \in 0..MaxLedger /\ 0 \in 0..MaxEvents /\ NoCursor \in NoCursor..MaxEvents
    BY LimitsAssumption DEF NoCursor
  <2> QED BY <2>1 DEF NoAnswer
<1>4. CETypeOK
  <2>1. /\ ledger \in 1..MaxLedger /\ lastLedger \in 0..MaxLedger /\ lastCursor \in NoCursor..MaxEvents
        /\ Len(chain) <= MaxEvents
    BY <1>1, LimitsAssumption DEF CEInit, NoCursor
  <2> QED BY <1>1, <1>3, <2>1 DEF CEInit, CETypeOK
<1>5. TurnSound /\ EmitsSound /\ CallsSound /\ OwedSound
  BY <1>1, <1>2 DEF CEInit, TurnSound, EmitsSound, CallsSound, OwedSound, NoCursor
<1>6. ListsSound /\ ClosedIsReleased /\ DeliveriesSound /\ NoGap /\ OnceSound
  BY <1>1, <1>2 DEF CEInit, ListsSound, ClosedIsReleased, DeliveriesSound, NoGap, OnceSound
<1> QED BY <1>4, <1>5, <1>6 DEF EmitterInv

LEMMA EmitterNextInv == EmitterInv /\ [CENext]_ceVars => EmitterInv'
<1> SUFFICES ASSUME EmitterInv, [CENext]_ceVars PROVE EmitterInv'
  OBVIOUS
<1>1. CASE ApiCall
  BY <1>1, ApiKeeps
<1>2. CASE Tick \/ Serve \/ Fail \/ LedgerArrives
  BY <1>2, RequestKeeps
<1>3. CASE EventsArrive \/ NextEvent
  BY <1>3, EventsArriveKeeps, NextEventKeeps
<1>4. CASE Emit \/ Call
  BY <1>4, EmitKeeps, CallKeeps
<1>5. CASE FinishPoll \/ CloseLedger
  BY <1>5, FinishPollKeeps, CloseLedgerKeeps
<1>6. CASE UNCHANGED ceVars
  <2>1. /\ UNCHANGED <<listeners, interval, isClosed>>
        /\ UNCHANGED <<key, isOnce, nodeVars, pollVars, turnVars>>
    BY <1>6 DEF ceVars, apiVars
  <2>2. ClosedIsReleased'
    BY <2>1 DEF EmitterInv, ClosedIsReleased
  <2>3. Delists
    BY <2>1, <2>2 DEF Delists, EmitterInv, CETypeOK, ListsSound
  <2> QED BY <2>1, <2>3, DelistingKeeps
<1> QED BY <1>1, <1>2, <1>3, <1>4, <1>5, <1>6 DEF CENext, Turn

\* The lists, the turn and the records of what was delivered keep their types.
THEOREM EmitterTypeCorrect == CESpec => []CETypeOK
<1>1. EmitterInv => CETypeOK
  BY DEF EmitterInv
<1> QED BY <1>1, EmitterInitInv, EmitterNextInv, PTL DEF CESpec

LEMMA EmitterInvServes == EmitterInv => ListenersServed
<1> SUFFICES ASSUME EmitterInv PROVE ListenersServed
  OBVIOUS
<1> USE DEF EmitterInv
<1>1. ASSUME NEW r \in Regs, Named(r), delivered[r] # <<>>
      PROVE  LET first == Head(delivered[r])
                 last  == IF Listed(r) /\ poll # "delivering" THEN lastCursor ELSE Last(delivered[r])
             IN  /\ \A m, n \in DOMAIN delivered[r] : m < n => delivered[r][m] < delivered[r][n]
                 /\ ToSet(delivered[r]) = {i \in Matching : first <= i /\ i <= last}
  <2> DEFINE q == delivered[r]
             N == Len(q)
             last == IF Listed(r) /\ poll # "delivering" THEN lastCursor ELSE q[N]
  <2>1. \A m, n \in DOMAIN q : m < n => q[m] < q[n]
    BY DEF DeliveriesSound
  <2>2. q \in Seq(1..MaxEvents) /\ N \in Nat \ {0} /\ DOMAIN q = 1..N /\ Head(q) = q[1] /\ Last(q) = q[N]
    BY <1>1, NonEmpty, LenProperties, HeadTailProperties DEF CETypeOK, Last
  <2>3. \A i \in Got(r) : i \in Matching /\ i <= TakenUp /\ i \in Nat
    BY ChainFacts DEF DeliveriesSound
  <2> HIDE DEF q, N
  <2>4. 1 \in DOMAIN q /\ N \in DOMAIN q /\ q[1] \in Got(r) /\ q[N] \in Got(r)
    <3>1. 1 \in DOMAIN q /\ N \in DOMAIN q
      BY <2>2
    <3> QED BY <3>1 DEF ToSet, Got, q
  <2>5. ASSUME NEW i \in Got(r) PROVE q[1] <= i /\ i <= q[N]
    <3>1. PICK m \in DOMAIN q : i = q[m]
      BY DEF Got, ToSet, q
    <3>2. m \in 1..N
      BY <2>2
    <3>3. /\ m = 1 \/ 1 < m
          /\ m = N \/ m < N
      BY <2>2, <3>2
    <3>4. q[1] \in Nat /\ q[N] \in Nat
      BY <2>3, <2>4
    <3> QED BY <2>1, <2>3, <2>4, <3>1, <3>3, <3>4
  <2>6. TakenUp \in Int /\ lastCursor \in Int /\ Matching \subseteq Nat
    BY ChainFacts DEF CETypeOK, TakenUp, NoCursor
  <2>7. ASSUME NEW i \in Got(r) PROVE i \in Matching /\ q[1] <= i /\ i <= last
    BY <2>3, <2>5 DEF TakenUp
  <2>8. ASSUME NEW j \in Matching, q[1] <= j, j <= last PROVE j \in Got(r)
    <3>1. CASE Listed(r) /\ poll # "delivering"
      <4>1. calls = <<>> /\ emits = <<>> /\ TakenUp = lastCursor
        BY <3>1 DEF TurnSound, TakenUp
      <4> QED BY <2>4, <2>8, <3>1, <4>1, EmptyLists DEF NoGap
    <3>2. CASE ~(Listed(r) /\ poll # "delivering")
      BY <2>4, <2>8, <3>2 DEF NoGap
    <3> QED BY <3>1, <3>2
  <2>9. Got(r) = {i \in Matching : q[1] <= i /\ i <= last}
    BY <2>7, <2>8, <2>3
  <2> QED BY <2>1, <2>2, <2>9 DEF Got, q
<1>2. ASSUME NEW r \in isOnce, Named(r) PROVE Len(delivered[r]) <= 1
  <2>1. CASE delivered[r] = <<>>
    <3>1. Len(<<>>) = 0
      BY EmptySeq
    <3> QED BY <2>1, <3>1
  <2>2. CASE delivered[r] # <<>>
    <3>1. Len(delivered[r]) = 1
      BY <1>2, <2>2 DEF OnceSound
    <3> QED BY <3>1
  <2> QED BY <2>1, <2>2
<1> QED BY <1>1, <1>2 DEF ListenersServed, NamedInOrderWithoutGaps, NamedOnceCalledOnce

\* However polls fail or pages are cut, whatever the listeners do when called and
\* whenever the emitter is stopped or closed: a listener of one event name gets each
\* event of the name once, in order and without a gap, one added by once no second
\* one, and a closed emitter has let go of its timer and its listeners.
THEOREM ListenersAreServed == CESpec => []ListenersServed
<1> QED BY EmitterInitInv, EmitterNextInv, EmitterInvServes, PTL DEF CESpec
===============================================================================
