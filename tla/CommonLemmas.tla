----------------------------- MODULE CommonLemmas -----------------------------
(***************************************************************************)
(* What the proofs need of natural numbers and of the sequences the        *)
(* components are built from: queues, lists of listeners and histories,    *)
(* most of them without repetition.                                        *)
(***************************************************************************)
EXTENDS SequencesExt, FiniteSetTheorems, SequenceTheorems, WellFoundedInduction, TLAPS

\* Induction, as the existence of a least counterexample.
LEMMA LeastNatural ==
    ASSUME NEW T \in SUBSET Nat, T # {}
    PROVE  \E x \in T : \A y \in T : x <= y
<1> DEFINE R == {p \in Nat \X Nat : p[1] < p[2]}
<1>1. IsWellFoundedOn(R, Nat)
  BY NatLessThanWellFounded DEF OpToRel
<1>2. \A x, y \in Nat : y < x => <<y, x>> \in R
  OBVIOUS
<1> HIDE DEF R
<1>3. PICK x \in T : \A y \in T : ~(<<y, x>> \in R)
  BY <1>1, WFMin
<1>4. \A y \in T : y \in Nat /\ x \in Nat /\ ~(y < x)
  BY <1>2, <1>3
<1> QED BY <1>3, <1>4

(* Sequences, most of them without repetition.                              *)

\* The least of some numbers.
LEMMA MinIsLeast ==
    ASSUME NEW T \in SUBSET Nat, T # {}
    PROVE  Min(T) \in T /\ \A y \in T : Min(T) <= y
<1>1. \E x \in T : \A y \in T : x <= y
  BY LeastNatural
<1> QED BY <1>1 DEF Min

\* A sequence cut in two.
LEMMA SplitDistinct ==
    ASSUME NEW S, NEW q \in Seq(S), IsInjective(q), NEW m \in 0..Len(q)
    PROVE  LET head == SubSeq(q, 1, m)
               tail == SubSeq(q, m + 1, Len(q))
           IN  /\ head \in Seq(S) /\ IsInjective(head) /\ Len(head) = m
               /\ tail \in Seq(S) /\ IsInjective(tail)
               /\ ToSet(head) \cap ToSet(tail) = {}
               /\ ToSet(head) \cup ToSet(tail) = ToSet(q)
<1> DEFINE head == SubSeq(q, 1, m)
           tail == SubSeq(q, m + 1, Len(q))
<1>1. /\ Len(q) \in Nat /\ m \in Nat /\ DOMAIN q = 1..Len(q)
      /\ \A i \in 1..Len(q) : q[i] \in S
  BY LenProperties
<1>2. /\ head \in Seq(S) /\ Len(head) = m /\ \A i \in 1..m : head[i] = q[i]
  BY <1>1, SubSeqProperties
<1>3. /\ tail \in Seq(S) /\ Len(tail) = Len(q) - m
      /\ \A i \in 1..(Len(q) - m) : tail[i] = q[m + i]
  <2>1. \A i \in (m + 1)..Len(q) : q[i] \in S
    BY <1>1
  <2>2. /\ tail \in Seq(S)
        /\ Len(tail) = IF m + 1 <= Len(q) THEN Len(q) - (m + 1) + 1 ELSE 0
        /\ \A i \in 1..(Len(q) - (m + 1) + 1) : tail[i] = q[(m + 1) + i - 1]
    BY <1>1, <2>1, SubSeqProperties
  <2> HIDE DEF tail
  <2>3. Len(tail) = Len(q) - m
    <3>1. CASE m + 1 <= Len(q)
      BY <1>1, <2>2, <3>1
    <3>2. CASE ~(m + 1 <= Len(q))
      <4>1. Len(tail) = 0
        BY <2>2, <3>2
      <4>2. Len(q) \in Nat /\ m \in Nat /\ m <= Len(q)
        BY <1>1
      <4>3. Len(q) - m = 0
        BY <3>2, <4>2
      <4> QED BY <4>1, <4>3
    <3> QED BY <3>1, <3>2
  <2>4. ASSUME NEW i \in 1..(Len(q) - m) PROVE tail[i] = q[m + i]
    <3>1. i \in 1..(Len(q) - (m + 1) + 1) /\ (m + 1) + i - 1 = m + i
      BY <1>1
    <3>2. tail[i] = q[(m + 1) + i - 1]
      BY <2>2, <3>1
    <3> QED BY <3>1, <3>2
  <2> QED BY <2>2, <2>3, <2>4
<1>4. DOMAIN head = 1..m /\ DOMAIN tail = 1..(Len(q) - m)
  BY <1>2, <1>3, LenProperties
<1> HIDE DEF head, tail
<1>5. \A i \in 1..Len(q), j \in 1..Len(q) : q[i] = q[j] => i = j
  BY <1>1 DEF IsInjective
<1>6. IsInjective(head) /\ IsInjective(tail)
  <2>1. IsInjective(head)
    BY <1>1, <1>2, <1>4, <1>5 DEF IsInjective
  <2>2. ASSUME NEW i \in DOMAIN tail, NEW j \in DOMAIN tail, tail[i] = tail[j] PROVE i = j
    <3>1. m + i \in 1..Len(q) /\ m + j \in 1..Len(q) /\ i \in Int /\ j \in Int
      BY <1>1, <1>4
    <3>2. m + i = m + j
      BY <1>3, <1>4, <1>5, <2>2, <3>1
    <3> QED BY <1>1, <3>1, <3>2
  <2> QED BY <2>1, <2>2 DEF IsInjective
<1>7. ToSet(head) \cap ToSet(tail) = {}
  BY <1>1, <1>2, <1>3, <1>4, <1>5 DEF ToSet
<1>8. ToSet(head) \cup ToSet(tail) = ToSet(q)
  <2>1. ASSUME NEW i \in 1..Len(q) PROVE q[i] \in ToSet(head) \cup ToSet(tail)
    <3>1. CASE i <= m
      BY <1>1, <1>2, <1>4, <3>1 DEF ToSet
    <3>2. CASE i > m
      <4>1. i - m \in 1..(Len(q) - m) /\ m + (i - m) = i
        BY <1>1, <3>2
      <4> QED BY <1>3, <1>4, <4>1 DEF ToSet
    <3> QED BY <1>1, <3>1, <3>2
  <2>2. ToSet(head) \subseteq ToSet(q)
    BY <1>1, <1>2, <1>4 DEF ToSet
  <2>3. ToSet(tail) \subseteq ToSet(q)
    <3>1. \A i \in DOMAIN tail : m + i \in DOMAIN q /\ tail[i] = q[m + i]
      BY <1>1, <1>3, <1>4
    <3> QED BY <3>1 DEF ToSet
  <2> QED BY <1>1, <2>1, <2>2, <2>3 DEF ToSet
<1> QED BY <1>2, <1>3, <1>6, <1>7, <1>8 DEF head, tail

\* Two sequences, one after the other.
LEMMA ConcatDistinct ==
    ASSUME NEW S, NEW a \in Seq(S), NEW b \in Seq(S),
           IsInjective(a), IsInjective(b), ToSet(a) \cap ToSet(b) = {}
    PROVE  /\ a \o b \in Seq(S) /\ IsInjective(a \o b)
           /\ ToSet(a \o b) = ToSet(a) \cup ToSet(b)
<1> DEFINE c == a \o b
<1>1. /\ Len(a) \in Nat /\ DOMAIN a = 1..Len(a)
      /\ Len(b) \in Nat /\ DOMAIN b = 1..Len(b)
  BY LenProperties
<1>2. /\ c \in Seq(S) /\ Len(c) = Len(a) + Len(b)
      /\ \A i \in 1..(Len(a) + Len(b)) : c[i] = IF i <= Len(a) THEN a[i] ELSE b[i - Len(a)]
  BY ConcatProperties
<1>3. DOMAIN c = 1..(Len(a) + Len(b))
  BY <1>2, LenProperties
<1> HIDE DEF c
<1>4. \A i \in DOMAIN a : i \in DOMAIN c /\ c[i] = a[i]
  BY <1>1, <1>2, <1>3
<1>5. \A i \in DOMAIN b : Len(a) + i \in DOMAIN c /\ c[Len(a) + i] = b[i]
  BY <1>1, <1>2, <1>3
<1>6. \A i \in DOMAIN c : \/ i \in DOMAIN a /\ c[i] = a[i]
                          \/ i - Len(a) \in DOMAIN b /\ c[i] = b[i - Len(a)]
  BY <1>1, <1>2, <1>3
<1>7. ToSet(c) = ToSet(a) \cup ToSet(b)
  BY <1>4, <1>5, <1>6 DEF ToSet
<1>8. \A i \in DOMAIN a, j \in DOMAIN b : a[i] # b[j]
  BY DEF ToSet
<1>9. IsInjective(c)
  <2> SUFFICES ASSUME NEW i \in DOMAIN c, NEW j \in DOMAIN c, c[i] = c[j] PROVE i = j
    BY DEF IsInjective
  <2>1. i \in Nat /\ j \in Nat
    BY <1>1, <1>3
  <2>2. CASE i \in DOMAIN a /\ c[i] = a[i]
    BY <1>6, <1>8, <2>2 DEF IsInjective
  <2>3. CASE i - Len(a) \in DOMAIN b /\ c[i] = b[i - Len(a)]
    <3>1. j - Len(a) \in DOMAIN b /\ c[j] = b[j - Len(a)]
      BY <1>6, <1>8, <2>3
    <3>2. i - Len(a) = j - Len(a)
      BY <2>3, <3>1 DEF IsInjective
    <3> QED BY <1>1, <2>1, <3>2
  <2> QED BY <1>6, <2>2, <2>3
<1> QED BY <1>2, <1>7, <1>9 DEF c

\* Removal of one element: those behind it move up.
LEMMA RemoveAtShifts ==
    ASSUME NEW S, NEW f \in Seq(S), NEW k \in DOMAIN f
    PROVE  /\ RemoveAt(f, k) \in Seq(S)
           /\ DOMAIN RemoveAt(f, k) = 1..(Len(f) - 1)
           /\ \A i \in 1..(Len(f) - 1) : RemoveAt(f, k)[i] = f[IF i < k THEN i ELSE i + 1]
<1> DEFINE a == SubSeq(f, 1, k - 1)
           b == SubSeq(f, k + 1, Len(f))
<1>1. /\ Len(f) \in Nat /\ k \in 1..Len(f) /\ \A i \in 1..Len(f) : f[i] \in S
  BY LenProperties
<1>2. a \in Seq(S) /\ Len(a) = k - 1 /\ \A i \in 1..(k - 1) : a[i] = f[i]
  <2>1. \A i \in 1..(k - 1) : f[i] \in S
    BY <1>1
  <2>2. /\ a \in Seq(S) /\ Len(a) = IF 1 <= k - 1 THEN (k - 1) - 1 + 1 ELSE 0
        /\ \A i \in 1..((k - 1) - 1 + 1) : a[i] = f[1 + i - 1]
    BY <1>1, <2>1, SubSeqProperties
  <2> QED BY <1>1, <2>2
<1>3. b \in Seq(S) /\ Len(b) = Len(f) - k /\ \A i \in 1..(Len(f) - k) : b[i] = f[k + i]
  <2>1. \A i \in (k + 1)..Len(f) : f[i] \in S
    BY <1>1
  <2>2. /\ b \in Seq(S) /\ Len(b) = IF k + 1 <= Len(f) THEN Len(f) - (k + 1) + 1 ELSE 0
        /\ \A i \in 1..(Len(f) - (k + 1) + 1) : b[i] = f[(k + 1) + i - 1]
    BY <1>1, <2>1, SubSeqProperties
  <2> QED BY <1>1, <2>2
<1>4. RemoveAt(f, k) = a \o b
  BY DEF RemoveAt
<1> HIDE DEF a, b
<1>5. /\ a \o b \in Seq(S) /\ Len(a \o b) = Len(a) + Len(b)
      /\ \A i \in 1..(Len(a) + Len(b)) : (a \o b)[i] = IF i <= Len(a) THEN a[i] ELSE b[i - Len(a)]
  BY <1>2, <1>3, ConcatProperties
<1>6. DOMAIN (a \o b) = 1..(Len(f) - 1)
  BY <1>1, <1>2, <1>3, <1>5, LenProperties
<1>7. ASSUME NEW i \in 1..(Len(f) - 1) PROVE (a \o b)[i] = f[IF i < k THEN i ELSE i + 1]
  <2>1. i \in 1..(Len(a) + Len(b))
    BY <1>1, <1>2, <1>3
  <2>2. CASE i < k
    BY <1>1, <1>2, <1>5, <2>1, <2>2
  <2>3. CASE ~(i < k)
    <3>1. i - Len(a) \in 1..(Len(f) - k) /\ k + (i - Len(a)) = i + 1 /\ ~(i <= Len(a))
      BY <1>1, <1>2, <2>3
    <3> QED BY <1>3, <1>5, <2>1, <2>3, <3>1
  <2> QED BY <2>2, <2>3
<1> QED BY <1>4, <1>5, <1>6, <1>7

\* Removal of one element of a sequence without repetition.
LEMMA RemoveAtDistinct ==
    ASSUME NEW S, NEW q \in Seq(S), IsInjective(q), NEW k \in DOMAIN q
    PROVE  LET r == RemoveAt(q, k)
           IN  /\ r \in Seq(S) /\ IsInjective(r)
               /\ ToSet(r) = ToSet(q) \ {q[k]}
               /\ k # 1 => r # <<>> /\ r[1] = q[1]
<1> DEFINE r == RemoveAt(q, k)
           s(i) == IF i < k THEN i ELSE i + 1
<1>1. /\ Len(q) \in Nat /\ DOMAIN q = 1..Len(q)
      /\ \A i \in DOMAIN q, j \in DOMAIN q : q[i] = q[j] => i = j
  BY LenProperties DEF IsInjective
<1>2. /\ r \in Seq(S) /\ DOMAIN r = 1..(Len(q) - 1)
      /\ \A i \in 1..(Len(q) - 1) : r[i] = q[IF i < k THEN i ELSE i + 1]
  BY RemoveAtShifts
<1> HIDE DEF r
<1>3. ASSUME NEW i \in DOMAIN r PROVE r[i] = q[s(i)] /\ s(i) \in DOMAIN q /\ s(i) # k
  BY <1>1, <1>2
<1>4. IsInjective(r)
  <2> SUFFICES ASSUME NEW i \in DOMAIN r, NEW j \in DOMAIN r, r[i] = r[j] PROVE i = j
    BY DEF IsInjective
  <2>1. s(i) = s(j)
    BY <1>1, <1>3
  <2> QED BY <1>1, <1>2, <2>1
<1>5. ASSUME NEW i \in DOMAIN q, i # k PROVE q[i] \in ToSet(r)
  <2>1. CASE i < k
    BY <1>1, <1>2, <1>5, <2>1 DEF ToSet
  <2>2. CASE i > k
    <3>1. i - 1 \in DOMAIN r /\ s(i - 1) = i
      BY <1>1, <1>2, <2>2
    <3>2. r[i - 1] = q[i]
      BY <1>3, <3>1
    <3> QED BY <3>1, <3>2 DEF ToSet
  <2> QED BY <1>1, <1>5, <2>1, <2>2
<1>6. ToSet(r) = ToSet(q) \ {q[k]}
  <2>1. ASSUME NEW i \in DOMAIN r PROVE r[i] \in ToSet(q) \ {q[k]}
    <3>1. q[s(i)] # q[k] /\ q[s(i)] \in ToSet(q)
      BY <1>1, <1>3 DEF ToSet
    <3> QED BY <1>3, <3>1
  <2>2. ASSUME NEW i \in DOMAIN q, q[i] # q[k] PROVE q[i] \in ToSet(r)
    BY <1>5, <2>2
  <2> QED BY <2>1, <2>2 DEF ToSet
<1>7. ASSUME k # 1 PROVE r # <<>> /\ r[1] = q[1]
  <2>1. 1 \in DOMAIN r /\ s(1) = 1
    BY <1>1, <1>2, <1>7
  <2> QED BY <1>3, <2>1
<1> QED BY <1>2, <1>4, <1>6, <1>7 DEF r

\* Removal of an element, where it comes first, if it is there.
LEMMA RemoveFirstRemoves ==
    ASSUME NEW S, NEW q \in Seq(S), NEW x
    PROVE  \/ x \notin ToSet(q) /\ RemoveFirst(q, x) = q
           \/ \E k \in DOMAIN q : q[k] = x /\ RemoveFirst(q, x) = RemoveAt(q, k)
<1> DEFINE T == {i \in 1..Len(q) : q[i] = x}
<1>1. Len(q) \in Nat /\ DOMAIN q = 1..Len(q)
  BY LenProperties
<1>2. CASE T = {}
  BY <1>1, <1>2 DEF RemoveFirst, ToSet
<1>3. CASE T # {}
  <2>1. T \in SUBSET Nat
    BY <1>1
  <2>2. Min(T) \in T
    <3> HIDE DEF T
    <3> QED BY <1>3, <2>1, MinIsLeast
  <2>3. SelectInSeq(q, LAMBDA v : v = x) = Min(T)
    BY <1>3 DEF SelectInSeq
  <2>4. RemoveFirst(q, x) = RemoveAt(q, Min(T))
    BY <1>3, <2>3 DEF RemoveFirst
  <2> QED BY <1>1, <2>2, <2>4
<1> QED BY <1>2, <1>3

LEMMA RemoveFirstDistinct ==
    ASSUME NEW S, NEW q \in Seq(S), IsInjective(q), NEW x
    PROVE  /\ RemoveFirst(q, x) \in Seq(S) /\ IsInjective(RemoveFirst(q, x))
           /\ ToSet(RemoveFirst(q, x)) = ToSet(q) \ {x}
BY RemoveFirstRemoves, RemoveAtDistinct

\* One element more, at the end.
LEMMA AppendDistinct ==
    ASSUME NEW S, NEW q \in Seq(S), NEW l \in S
    PROVE  /\ Append(q, l) \in Seq(S)
           /\ ToSet(Append(q, l)) = ToSet(q) \cup {l}
           /\ IsInjective(q) /\ l \notin ToSet(q) => IsInjective(Append(q, l))
           /\ Append(q, l) # <<>> /\ (q # <<>> => Append(q, l)[1] = q[1])
<1> DEFINE r == Append(q, l)
<1>1. /\ Len(q) \in Nat /\ DOMAIN q = 1..Len(q)
  BY LenProperties
<1>2. /\ r \in Seq(S) /\ r # <<>> /\ DOMAIN r = 1..(Len(q) + 1)
      /\ \A i \in 1..Len(q) : r[i] = q[i]
      /\ r[Len(q) + 1] = l
  BY AppendProperties, LenProperties
<1> HIDE DEF r
<1>3. ToSet(r) = ToSet(q) \cup {l}
  <2>1. \A i \in DOMAIN r : i \in DOMAIN q \/ i = Len(q) + 1
    BY <1>1, <1>2
  <2>2. Len(q) + 1 \in DOMAIN r /\ DOMAIN q \subseteq DOMAIN r
    BY <1>1, <1>2
  <2> QED BY <1>1, <1>2, <2>1, <2>2 DEF ToSet
<1>4. ASSUME IsInjective(q), l \notin ToSet(q) PROVE IsInjective(r)
  <2>1. \A i \in DOMAIN q : q[i] # l
    BY <1>4 DEF ToSet
  <2> QED BY <1>1, <1>2, <1>4, <2>1 DEF IsInjective
<1>5. q # <<>> => r[1] = q[1]
  BY <1>1, <1>2, EmptySeq
<1> QED BY <1>2, <1>3, <1>4, <1>5 DEF r

\* One element less, at the front.
LEMMA TailDistinct ==
    ASSUME NEW S, NEW q \in Seq(S), q # <<>>
    PROVE  /\ Head(q) = q[1] /\ Head(q) \in S /\ Head(q) \in ToSet(q)
           /\ Tail(q) \in Seq(S)
           /\ ToSet(q) = ToSet(Tail(q)) \cup {Head(q)}
           /\ IsInjective(q) => IsInjective(Tail(q)) /\ Head(q) \notin ToSet(Tail(q))
<1> DEFINE r == Tail(q)
<1>1. /\ Len(q) \in Nat \ {0} /\ DOMAIN q = 1..Len(q)
  BY LenProperties, EmptySeq
<1>2. Head(q) = q[1] /\ Head(q) \in S
  BY HeadTailProperties
<1>3. /\ r \in Seq(S) /\ DOMAIN r = 1..(Len(q) - 1)
      /\ \A i \in 1..(Len(q) - 1) : r[i] = q[i + 1]
  BY HeadTailProperties, LenProperties
<1> HIDE DEF r
<1>4. ASSUME NEW i \in DOMAIN r PROVE i + 1 \in DOMAIN q /\ r[i] = q[i + 1] /\ i + 1 # 1
  BY <1>1, <1>3
<1>5. ASSUME NEW i \in DOMAIN q, i # 1 PROVE i - 1 \in DOMAIN r /\ r[i - 1] = q[i]
  <2>1. i - 1 \in 1..(Len(q) - 1) /\ (i - 1) + 1 = i
    BY <1>1, <1>5
  <2> QED BY <1>3, <2>1
<1>6. ToSet(q) = ToSet(r) \cup {q[1]}
  <2>1. 1 \in DOMAIN q
    BY <1>1
  <2> QED BY <1>4, <1>5, <2>1 DEF ToSet
<1>7. ASSUME IsInjective(q) PROVE IsInjective(r) /\ q[1] \notin ToSet(r)
  <2>1. 1 \in DOMAIN q
    BY <1>1
  <2>2. ASSUME NEW i \in DOMAIN r, NEW j \in DOMAIN r, r[i] = r[j] PROVE i = j
    <3>1. i + 1 = j + 1
      BY <1>4, <1>7, <2>2 DEF IsInjective
    <3> QED BY <1>1, <1>3, <3>1
  <2>3. \A i \in DOMAIN r : r[i] # q[1]
    BY <1>4, <1>7, <2>1 DEF IsInjective
  <2> QED BY <2>2, <2>3 DEF IsInjective, ToSet
<1> QED BY <1>2, <1>3, <1>6, <1>7 DEF r

\* One element less, at the end.
LEMMA FrontLast ==
    ASSUME NEW S, NEW q \in Seq(S), q # <<>>
    PROVE  /\ Len(q) \in Nat \ {0} /\ Len(q) \in DOMAIN q /\ Last(q) = q[Len(q)] /\ Last(q) \in S
           /\ Front(q) \in Seq(S) /\ Len(Front(q)) = Len(q) - 1
           /\ DOMAIN Front(q) = 1..(Len(q) - 1)
           /\ \A i \in 1..(Len(q) - 1) : Front(q)[i] = q[i]
<1> DEFINE r == Front(q)
           n == Len(q)
<1>1. n \in Nat /\ n >= 1 /\ DOMAIN q = 1..n /\ \A i \in 1..n : q[i] \in S
  BY LenProperties, EmptySeq
<1>2. /\ r \in Seq(S)
      /\ Len(r) = IF 1 <= n - 1 THEN n - 1 - 1 + 1 ELSE 0
      /\ \A i \in 1..(n - 1 - 1 + 1) : r[i] = q[1 + i - 1]
  <2>1. \A i \in 1..(n - 1) : q[i] \in S
    BY <1>1
  <2> QED BY <1>1, <2>1, SubSeqProperties DEF Front
<1>3. DOMAIN r = 1..Len(r) /\ Last(q) = q[n]
  BY <1>2, LenProperties DEF Last
<1> HIDE DEF r, n
<1>4. Len(r) = n - 1
  <2>1. CASE n = 1
    BY <1>2, <2>1
  <2>2. CASE n > 1
    BY <1>1, <1>2, <2>2
  <2> QED BY <1>1, <2>1, <2>2
<1>5. \A i \in 1..(n - 1) : r[i] = q[i]
  BY <1>1, <1>2
<1>6. n \in 1..n /\ n \in Nat \ {0}
  BY <1>1
<1>7. n = Len(q) /\ r = Front(q)
  BY DEF n, r
<1> QED BY <1>1, <1>2, <1>3, <1>4, <1>5, <1>6, <1>7

\* A function on an initial segment is a sequence.
LEMMA FunctionIsSeq ==
    ASSUME NEW S, NEW n \in Nat, NEW f \in [1..n -> S]
    PROVE  f \in Seq(S) /\ Len(f) = n /\ DOMAIN f = 1..n
<1>1. f \in Seq(S)
  BY SeqDef
<1>2. Len(f) \in Nat /\ DOMAIN f = 1..Len(f) /\ DOMAIN f = 1..n
  BY <1>1, LenProperties
<1> QED BY <1>1, <1>2

\* A sequence over a set is one over any larger set.
LEMMA WiderSeq ==
    ASSUME NEW S, NEW T, S \subseteq T, NEW q \in Seq(S)
    PROVE  q \in Seq(T)
<1>1. Len(q) \in Nat /\ q \in [1..Len(q) -> S]
  BY LenProperties
<1>2. q \in [1..Len(q) -> T]
  BY <1>1
<1> QED BY <1>1, <1>2, FunctionIsSeq

\* What tells the empty sequence from the others.
LEMMA NonEmpty ==
    ASSUME NEW S, NEW q \in Seq(S)
    PROVE  (q # <<>> <=> Len(q) # 0) /\ (q # <<>> => 1 \in DOMAIN q)
<1>1. Len(q) \in Nat /\ DOMAIN q = 1..Len(q)
  BY LenProperties
<1>2. q # <<>> => Len(q) \in Nat \ {0}
  BY EmptySeq
<1>3. q = <<>> => Len(q) = 0
  BY EmptySeq
<1> QED BY <1>1, <1>2, <1>3

\* The number of entries of a sequence without repetition.
LEMMA DistinctCount ==
    ASSUME NEW S, NEW q \in Seq(S), IsInjective(q)
    PROVE  Cardinality(ToSet(q)) = Len(q)
<1>1. Len(q) \in Nat /\ DOMAIN q = 1..Len(q)
  BY LenProperties
<1>2. q \in Bijection(1..Len(q), ToSet(q))
  <2>1. q \in Injection(1..Len(q), ToSet(q))
    BY <1>1, LenProperties DEF Injection, IsInjective, ToSet
  <2>2. q \in Surjection(1..Len(q), ToSet(q))
    BY <1>1, LenProperties DEF Surjection, ToSet
  <2> QED BY <2>1, <2>2 DEF Bijection
<1>3. IsFiniteSet(1..Len(q)) /\ Cardinality(1..Len(q)) = Len(q)
  BY <1>1, FS_Interval
<1> QED BY <1>2, <1>3, FS_Bijection DEF ExistsBijection

(* Orders.                                                                  *)

\* A finite set can be put in order: each element comes after as many as there
\* are below it.
LEMMA SortExists ==
    ASSUME NEW S, IsFiniteSet(S), NEW R,
           \A a \in S : <<a, a>> \notin R,
           \A a, b, c \in S : <<a, b>> \in R /\ <<b, c>> \in R => <<a, c>> \in R,
           \A a, b \in S : a # b => <<a, b>> \in R \/ <<b, a>> \in R
    PROVE  \E s \in [1..Cardinality(S) -> S] :
              \A k, l \in 1..Cardinality(S) : k < l => <<s[k], s[l]>> \in R
<1> DEFINE below(a) == {b \in S : <<b, a>> \in R}
           rank == [a \in S |-> Cardinality(below(a)) + 1]
           n == Cardinality(S)
<1>1. n \in Nat
  BY FS_CardinalityType
<1>2. ASSUME NEW a \in S
      PROVE  IsFiniteSet(below(a)) /\ Cardinality(below(a)) \in Nat /\ Cardinality(below(a)) < n
  <2>1. below(a) \in SUBSET S /\ below(a) # S
    OBVIOUS
  <2> HIDE DEF below
  <2>2. IsFiniteSet(below(a)) /\ Cardinality(below(a)) <= n /\ Cardinality(below(a)) # n
    BY <2>1, FS_Subset
  <2>3. Cardinality(below(a)) \in Nat
    BY <2>2, FS_CardinalityType
  <2> QED BY <1>1, <2>2, <2>3
<1>3. ASSUME NEW a \in S, NEW b \in S, <<a, b>> \in R PROVE rank[a] < rank[b]
  <2>1. below(a) \in SUBSET below(b) /\ below(a) # below(b)
    <3>1. \A c \in below(a) : c \in below(b)
      BY <1>3
    <3>2. a \in below(b) /\ a \notin below(a)
      BY <1>3
    <3> QED BY <3>1, <3>2
  <2>2. rank[a] = Cardinality(below(a)) + 1 /\ rank[b] = Cardinality(below(b)) + 1
    OBVIOUS
  <2>3. Cardinality(below(a)) \in Nat /\ Cardinality(below(b)) \in Nat /\ IsFiniteSet(below(b))
    BY <1>2
  <2> HIDE DEF below, rank
  <2>4. Cardinality(below(a)) <= Cardinality(below(b)) /\ Cardinality(below(a)) # Cardinality(below(b))
    BY <2>1, <2>3, FS_Subset
  <2> QED BY <2>2, <2>3, <2>4
<1>4. ASSUME NEW a \in S PROVE rank[a] \in 1..n
  <2>1. rank[a] = Cardinality(below(a)) + 1
    OBVIOUS
  <2> HIDE DEF rank, below
  <2> QED BY <1>1, <1>2, <2>1
<1>5. rank \in [S -> 1..n]
  <2>1. rank = [a \in S |-> rank[a]]
    OBVIOUS
  <2> HIDE DEF rank
  <2> QED BY <1>4, <2>1
<1> HIDE DEF rank, below
<1>6. rank \in Injection(S, 1..n)
  <2>1. ASSUME NEW a \in S, NEW b \in S, rank[a] = rank[b] PROVE a = b
    <3>1. ~(rank[a] < rank[b]) /\ ~(rank[b] < rank[a])
      BY <1>1, <1>4, <2>1
    <3> QED BY <1>3, <3>1
  <2> QED BY <1>5, <2>1 DEF Injection, IsInjective
<1>7. rank \in Surjection(S, 1..n)
  <2>1. IsFiniteSet(1..n) /\ Cardinality(1..n) = n
    BY <1>1, FS_Interval
  <2> QED BY <1>6, <2>1, FS_Injection
<1> DEFINE s == [k \in 1..n |-> CHOOSE a \in S : rank[a] = k]
<1>8. ASSUME NEW k \in 1..n PROVE s[k] \in S /\ rank[s[k]] = k
  <2>1. \E a \in S : rank[a] = k
    BY <1>7 DEF Surjection
  <2> QED BY <2>1
<1>9. s \in [1..n -> S]
  BY <1>8
<1> HIDE DEF s
<1>10. ASSUME NEW k \in 1..n, NEW l \in 1..n, k < l PROVE <<s[k], s[l]>> \in R
  <2>1. rank[s[k]] < rank[s[l]] /\ ~(rank[s[l]] < rank[s[k]]) /\ s[k] # s[l]
    BY <1>1, <1>8, <1>10
  <2> QED BY <1>3, <1>8, <2>1
<1> QED BY <1>9, <1>10 DEF n

\* The elements of two sequences one after the other.
LEMMA ConcatElements ==
    ASSUME NEW S, NEW s \in Seq(S), NEW t \in Seq(S)
    PROVE  ToSet(s \o t) = ToSet(s) \cup ToSet(t)
<1> DEFINE m == Len(s)  n == Len(t)
<1>1. /\ m \in Nat /\ n \in Nat /\ DOMAIN s = 1..m /\ DOMAIN t = 1..n /\ DOMAIN (s \o t) = 1..(m + n)
      /\ \A k \in 1..(m + n) : (s \o t)[k] = IF k <= m THEN s[k] ELSE t[k - m]
  OBVIOUS
<1> HIDE DEF m, n
<1>2. \A k \in 1..m : k \in 1..(m + n) /\ (s \o t)[k] = s[k]
  BY <1>1
<1>3. \A k \in 1..n : m + k \in 1..(m + n) /\ (s \o t)[m + k] = t[k]
  <2> TAKE k \in 1..n
  <2>1. m + k \in 1..(m + n) /\ ~(m + k <= m) /\ (m + k) - m = k
    BY <1>1
  <2> QED BY <1>1, <2>1
<1>4. \A k \in 1..(m + n) : \/ k \in 1..m /\ (s \o t)[k] = s[k]
                            \/ k - m \in 1..n /\ (s \o t)[k] = t[k - m]
  BY <1>1
<1>5. \A x : x \in ToSet(s \o t) <=> x \in ToSet(s) \/ x \in ToSet(t)
  <2> TAKE x
  <2>1. ASSUME x \in ToSet(s \o t) PROVE x \in ToSet(s) \/ x \in ToSet(t)
    <3>1. PICK k \in 1..(m + n) : (s \o t)[k] = x
      BY <1>1, <2>1 DEF ToSet
    <3> QED BY <1>1, <1>4, <3>1 DEF ToSet
  <2>2. ASSUME x \in ToSet(s) PROVE x \in ToSet(s \o t)
    <3>1. PICK k \in 1..m : s[k] = x
      BY <1>1, <2>2 DEF ToSet
    <3> QED BY <1>1, <1>2, <3>1 DEF ToSet
  <2>3. ASSUME x \in ToSet(t) PROVE x \in ToSet(s \o t)
    <3>1. PICK k \in 1..n : t[k] = x
      BY <1>1, <2>3 DEF ToSet
    <3> QED BY <1>1, <1>3, <3>1 DEF ToSet
  <2> QED BY <2>1, <2>2, <2>3
<1> QED BY <1>5

\* The lesser and the greater of two numbers.
LEMMA MinOfTwo ==
    ASSUME NEW a \in Int, NEW b \in Int
    PROVE  Min({a, b}) = IF a <= b THEN a ELSE b
<1> DEFINE m == IF a <= b THEN a ELSE b
<1>1. m \in {a, b} /\ \A y \in {a, b} : m <= y
  OBVIOUS
<1>2. \A x \in {a, b} : (\A y \in {a, b} : x <= y) => x = m
  OBVIOUS
<1> QED BY <1>1, <1>2 DEF Min

LEMMA MaxOfTwo ==
    ASSUME NEW a \in Int, NEW b \in Int
    PROVE  Max({a, b}) = IF a >= b THEN a ELSE b
<1> DEFINE m == IF a >= b THEN a ELSE b
<1>1. m \in {a, b} /\ \A y \in {a, b} : m >= y
  OBVIOUS
<1>2. \A x \in {a, b} : (\A y \in {a, b} : x >= y) => x = m
  OBVIOUS
<1> QED BY <1>1, <1>2 DEF Max

LEMMA MaxIsGreatest ==
    ASSUME NEW n \in Nat, NEW T \in SUBSET 0..n, T # {}
    PROVE  Max(T) \in T /\ \A y \in T : Max(T) >= y
<1> DEFINE D == {n - y : y \in T}
<1>1. D \in SUBSET Nat /\ D # {}
  <2>1. \A y \in T : y \in Int /\ n - y \in Nat
    OBVIOUS
  <2>2. D # {}
    OBVIOUS
  <2> QED BY <2>1, <2>2
<1>2. PICK d \in D : \A e \in D : d <= e
  <2> HIDE DEF D
  <2> QED BY <1>1, LeastNatural
<1>3. \A y \in T : d <= n - y
  BY <1>2
<1>4. PICK x \in T : d = n - x
  OBVIOUS
<1>5. \A y \in T : x >= y
  BY <1>3, <1>4
<1>6. \E z \in T : \A y \in T : z >= y
  BY <1>5
<1> QED BY <1>6 DEF Max

\* What a function is at each number, by what it is at the one before.
Recurs(f, n, base, step) == f[0] = base /\ \A k \in 1..n : f[k] = step[k][f[k - 1]]

\* A function can be defined by recursion over the first numbers.
LEMMA RecursionExists ==
    ASSUME NEW N \in Nat, NEW base \in Nat, NEW step \in [1..N -> [Nat -> Nat]]
    PROVE  \E f \in [0..N -> Nat] : Recurs(f, N, base, step)
<1> DEFINE Goes(k, f) == Recurs(f, k, base, step)
           bad == {k \in 0..N : ~\E f \in [0..k -> Nat] : Goes(k, f)}
<1>1. bad = {}
  <2> SUFFICES ASSUME bad # {} PROVE FALSE
    OBVIOUS
  <2>1. PICK k \in bad : \A j \in bad : k <= j
    <3>1. bad \in SUBSET Nat
      OBVIOUS
    <3> HIDE DEF bad
    <3> QED BY <3>1, LeastNatural
  <2>2. k \in 0..N /\ ~\E f \in [0..k -> Nat] : Goes(k, f)
    BY <2>1
  <2>3. k # 0
    <3> DEFINE f == [n \in 0..0 |-> base]
    <3>1. f \in [0..0 -> Nat] /\ Goes(0, f)
      BY DEF Recurs
    <3> HIDE DEF f, Goes
    <3> QED BY <2>2, <3>1
  <2>4. k - 1 \in 0..N /\ ~(k <= k - 1) /\ k \in 1..N /\ k - 1 \in 0..(k - 1)
    BY <2>2, <2>3
  <2>5. PICK f \in [0..(k - 1) -> Nat] : Goes(k - 1, f)
    <3>1. k - 1 \notin bad
      <4> HIDE DEF bad
      <4> QED BY <2>1, <2>4
    <3> HIDE DEF Goes
    <3> QED BY <2>4, <3>1
  <2> DEFINE g == [n \in 0..k |-> IF n = k THEN step[k][f[k - 1]] ELSE f[n]]
  <2>6. \A n \in 0..k : n # k => n \in 0..(k - 1)
    BY <2>4
  <2>7. f[k - 1] \in Nat /\ step[k][f[k - 1]] \in Nat
    <3>1. step[k] \in [Nat -> Nat] /\ f[k - 1] \in Nat
      BY <2>4, <2>5
    <3> QED BY <3>1
  <2>8. g \in [0..k -> Nat] /\ \A n \in 0..k : g[n] = IF n = k THEN step[k][f[k - 1]] ELSE f[n]
    BY <2>5, <2>6, <2>7
  <2> HIDE DEF g
  <2>9. Goes(k, g)
    <3>1. g[0] = base
      BY <2>3, <2>4, <2>5, <2>8 DEF Recurs
    <3>2. ASSUME NEW n \in 1..k PROVE g[n] = step[n][g[n - 1]]
      <4>1. n \in 0..k /\ n - 1 \in 0..k /\ n - 1 # k
        BY <2>4
      <4>2. g[n - 1] = f[n - 1]
        BY <2>8, <4>1
      <4>3. CASE n = k
        BY <2>8, <4>1, <4>2, <4>3
      <4>4. CASE n # k
        <5>1. n \in 1..(k - 1)
          BY <2>4, <4>4
        <5> QED BY <2>5, <2>8, <4>1, <4>2, <4>4, <5>1 DEF Recurs
      <4> QED BY <4>3, <4>4
    <3> QED BY <3>1, <3>2 DEF Recurs
  <2> HIDE DEF Goes
  <2> QED BY <2>2, <2>8, <2>9
<1> HIDE DEF bad
<1>2. N \in 0..N /\ N \notin bad
  BY <1>1
<1> QED BY <1>2 DEF bad

LEMMA Predecessor == ASSUME NEW n \in Nat, NEW k \in 1..n PROVE k - 1 \in 0..n
OBVIOUS

\* What recurs from a number by functions on numbers, where it is a number, is one
\* throughout.
LEMMA RecursionTyped ==
    ASSUME NEW N \in Nat, NEW base \in Nat, NEW step \in [1..N -> [Nat -> Nat]],
           NEW F, F = [n \in 0..N |-> F[n]], F[0] = base,
           \A n \in 1..N : F[n - 1] \in Nat => F[n] = step[n][F[n - 1]]
    PROVE  F \in [0..N -> Nat] /\ Recurs(F, N, base, step)
<1> DEFINE bad == {n \in 0..N : F[n] \notin Nat}
<1>1. bad = {}
  <2>1. SUFFICES ASSUME bad # {} PROVE FALSE
    OBVIOUS
  <2>2. PICK k \in bad : \A j \in bad : k <= j
    <3>1. bad \in SUBSET Nat
      OBVIOUS
    <3> HIDE DEF bad
    <3> QED BY <2>1, <3>1, LeastNatural
  <2>3. k \in 1..N /\ k - 1 \in 0..N /\ ~(k <= k - 1)
    <3>1. k \in 0..N /\ F[k] \notin Nat
      BY <2>2
    <3>2. k # 0
      BY <3>1
    <3> QED BY <3>1, <3>2
  <2>4. k - 1 \notin bad
    BY <2>2, <2>3
  <2>5. F[k - 1] \in Nat /\ step[k] \in [Nat -> Nat]
    BY <2>3, <2>4
  <2>6. F[k] \in Nat
    BY <2>3, <2>5
  <2> QED BY <2>2, <2>6
<1>2. \A n \in 0..N : F[n] \in Nat
  BY <1>1
<1> HIDE DEF bad
<1>3. \A n \in 1..N : F[n - 1] \in Nat
  BY <1>2, Predecessor, Zenon
<1>4. F \in [0..N -> Nat]
  BY <1>2
<1> QED BY <1>3, <1>4 DEF Recurs

\* A function that iterates f until it comes to an element of D, whether or not it does.
IsLoop(g, S, D, f, r) == g = [x \in S |-> g[x]] /\ \A x \in S : g[x] = IF x \in D THEN r[x] ELSE g[f[x]]
Loop(S, D, f, r) == CHOOSE g : IsLoop(g, S, D, f, r)

LEMMA LoopExists ==
    ASSUME NEW S, NEW D \in SUBSET S, NEW f \in [S \ D -> S], NEW r
    PROVE  IsLoop(Loop(S, D, f, r), S, D, f, r)
<1> DEFINE Way(w, n, x, y) ==
              /\ w \in [0..n -> S] /\ w[0] = x /\ w[n] = y /\ y \in D
              /\ \A i \in 0..(n - 1) : w[i] \notin D /\ w[i + 1] = f[w[i]]
           ends(x) == {y \in D : \E n \in Nat : \E w \in [0..n -> S] : Way(w, n, x, y)}
           any(T) == CHOOSE y : y \in T
           g == [x \in S |-> r[any(ends(x))]]
<1>1. ASSUME NEW x \in D PROVE ends(x) = {x}
  <2>1. x \in ends(x)
    <3> DEFINE w == [i \in 0..0 |-> x]
    <3>1. w \in [0..0 -> S] /\ Way(w, 0, x, x)
      OBVIOUS
    <3> HIDE DEF w, Way
    <3> QED BY <3>1
  <2>2. ASSUME NEW y \in ends(x) PROVE y = x
    <3>0. PICK n \in Nat : \E w \in [0..n -> S] : Way(w, n, x, y)
      <4> HIDE DEF Way
      <4> QED OBVIOUS
    <3>1. PICK w \in [0..n -> S] : Way(w, n, x, y)
      <4> HIDE DEF Way
      <4> QED BY <3>0
    <3>2. n = 0
      <4>1. n # 0 => 0 \in 0..(n - 1)
        OBVIOUS
      <4> QED BY <1>1, <3>1, <4>1
    <3> QED BY <3>1, <3>2
  <2> HIDE DEF ends
  <2> QED BY <2>1, <2>2
<1>2. ASSUME NEW x \in S \ D PROVE ends(x) = ends(f[x])
  <2>1. ASSUME NEW y \in ends(x) PROVE y \in ends(f[x])
    <3>0. PICK n \in Nat : \E w \in [0..n -> S] : Way(w, n, x, y)
      <4> HIDE DEF Way
      <4> QED OBVIOUS
    <3>1. PICK w \in [0..n -> S] : Way(w, n, x, y)
      <4> HIDE DEF Way
      <4> QED BY <3>0
    <3> DEFINE v == [i \in 0..(n - 1) |-> w[i + 1]]
    <3>2. n # 0
      BY <3>1
    <3>3. n - 1 \in Nat /\ 0 \in 0..(n - 1) /\ \A i \in 0..(n - 1) : i + 1 \in 0..n
      BY <3>2
    <3>4. v \in [0..(n - 1) -> S] /\ v[0] = f[x] /\ v[n - 1] = y
      BY <3>1, <3>3
    <3>5. ASSUME NEW i \in 0..(n - 1 - 1) PROVE v[i] \notin D /\ v[i + 1] = f[v[i]]
      <4>1. i \in 0..(n - 1) /\ i + 1 \in 0..(n - 1)
        BY <3>3
      <4> QED BY <3>1, <4>1
    <3>6. Way(v, n - 1, f[x], y)
      BY <3>1, <3>4, <3>5
    <3> HIDE DEF v, Way
    <3> QED BY <3>3, <3>4, <3>6
  <2>2. ASSUME NEW y \in ends(f[x]) PROVE y \in ends(x)
    <3>0. PICK n \in Nat : \E w \in [0..n -> S] : Way(w, n, f[x], y)
      <4> HIDE DEF Way
      <4> QED OBVIOUS
    <3>1. PICK w \in [0..n -> S] : Way(w, n, f[x], y)
      <4> HIDE DEF Way
      <4> QED BY <3>0
    <3> DEFINE v == [i \in 0..(n + 1) |-> IF i = 0 THEN x ELSE w[i - 1]]
    <3>2. \A i \in 0..(n + 1) : i # 0 => i - 1 \in 0..n
      OBVIOUS
    <3>3. v \in [0..(n + 1) -> S] /\ v[0] = x /\ v[n + 1] = y
      BY <3>1, <3>2
    <3>4. ASSUME NEW i \in 0..(n + 1 - 1) PROVE v[i] \notin D /\ v[i + 1] = f[v[i]]
      <4>1. i \in 0..(n + 1) /\ i + 1 \in 0..(n + 1) /\ i + 1 # 0 /\ i + 1 - 1 = i
        OBVIOUS
      <4>2. v[i + 1] = w[i]
        BY <4>1
      <4>3. CASE i = 0
        BY <3>1, <4>2, <4>3
      <4>4. CASE i # 0
        <5>1. i - 1 \in 0..(n - 1) /\ i - 1 + 1 = i
          BY <4>4
        <5>2. v[i] = w[i - 1]
          BY <4>1, <4>4
        <5> QED BY <3>1, <4>2, <5>1, <5>2
      <4> QED BY <4>3, <4>4
    <3>5. Way(v, n + 1, x, y)
      BY <3>1, <3>3, <3>4
    <3>6. n + 1 \in Nat
      OBVIOUS
    <3> HIDE DEF v, Way
    <3> QED BY <3>3, <3>5, <3>6
  <2> HIDE DEF ends
  <2> QED BY <2>1, <2>2
<1> HIDE DEF ends
<1>3. \A x : any({x}) = x
  OBVIOUS
<1> HIDE DEF any
<1>4. ASSUME NEW x \in S PROVE g[x] = IF x \in D THEN r[x] ELSE g[f[x]]
  <2>1. CASE x \in D
    BY <1>1, <1>3, <2>1
  <2>2. CASE x \notin D
    <3>1. f[x] \in S
      BY <2>2
    <3> QED BY <1>2, <2>2, <3>1
  <2> QED BY <2>1, <2>2
<1>5. g = [x \in S |-> g[x]]
  OBVIOUS
<1> HIDE DEF g
<1>6. IsLoop(g, S, D, f, r)
  BY <1>4, <1>5 DEF IsLoop
<1> QED BY <1>6 DEF Loop

\* A sequence with one element more at the end, one less at the front, and reversed.
LEMMA AppendedTo ==
    ASSUME NEW S, NEW q \in Seq(S), NEW e \in S
    PROVE  /\ Append(q, e) \in Seq(S) /\ Len(q) \in Nat /\ Len(Append(q, e)) = Len(q) + 1
           /\ Append(q, e)[Len(q) + 1] = e /\ \A k \in 1..Len(q) : Append(q, e)[k] = q[k]
BY AppendProperties, LenProperties

LEMMA TakenFrom ==
    ASSUME NEW S, NEW q \in Seq(S), q # <<>>
    PROVE  /\ Tail(q) \in Seq(S) /\ Head(q) \in S /\ Head(q) = q[1] /\ Len(q) \in Nat \ {0}
           /\ Len(Tail(q)) = Len(q) - 1 /\ \A k \in 1..(Len(q) - 1) : Tail(q)[k] = q[k + 1]
           /\ Tail(q) = <<>> <=> Len(q) = 1
<1>1. /\ Len(q) \in Nat \ {0} /\ Head(q) = q[1] /\ Tail(q) \in Seq(S) /\ Head(q) \in S
  BY LenProperties, EmptySeq, TailDistinct
<1>2. Len(Tail(q)) = Len(q) - 1 /\ \A k \in 1..(Len(q) - 1) : Tail(q)[k] = q[k + 1]
  BY HeadTailProperties
<1>3. Tail(q) = <<>> <=> Len(Tail(q)) = 0
  BY <1>1, NonEmpty
<1> QED BY <1>1, <1>2, <1>3

LEMMA ReversedBack ==
    ASSUME NEW S, NEW q \in Seq(S)
    PROVE  /\ Reverse(q) \in Seq(S) /\ Len(Reverse(q)) = Len(q) /\ Len(q) \in Nat
           /\ \A k \in 1..Len(q) : Reverse(q)[k] = q[Len(q) + 1 - k]
<1>1. Len(q) \in Nat /\ \A k \in 1..Len(q) : Len(q) - k + 1 \in 1..Len(q) /\ q[Len(q) - k + 1] \in S
  BY LenProperties
<1>2. Reverse(q) \in [1..Len(q) -> S]
  BY <1>1 DEF Reverse
<1>3. Reverse(q) \in Seq(S) /\ Len(Reverse(q)) = Len(q)
  <2> HIDE DEF Reverse
  <2> QED BY <1>1, <1>2, FunctionIsSeq
<1>4. \A k \in 1..Len(q) : Reverse(q)[k] = q[Len(q) - k + 1] /\ Len(q) - k + 1 = Len(q) + 1 - k
  BY <1>1 DEF Reverse
<1> QED BY <1>1, <1>3, <1>4
===============================================================================
