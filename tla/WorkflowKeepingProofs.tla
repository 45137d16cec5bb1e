------------------------- MODULE WorkflowKeepingProofs -------------------------
(***************************************************************************)
(* Proofs that what is handed over is kept, by the log shipper, by the     *)
(* session manager and by the telemetry buffer; and that listeners hear    *)
(* what they asked for, of environments, of transitions and of contract    *)
(* events, however deep their calls nest; and that a migration keeps to a  *)
(* shortest chain of steps, or goes back along it.  Part by part:          *)
(* ClientWorkflowsProofs puts them together.  All for every size, limit    *)
(* and number of actors.                                                   *)
(*                                                                         *)
(* An entry of the log is in one place at a time because a number is in    *)
(* the hands of one call, the queue or one batch, and only of numbers log  *)
(* has used.  Open sessions fit the room because they have different ids   *)
(* in the registry, which does.  A listener has heard of a transition, or  *)
(* some call of emit, which has an event of its own, is yet to come to it; *)
(* the first listener is called before anyone can act on the event, so no  *)
(* later event overtakes one of its own.  The paths a search has queued    *)
(* are shortest ones and in the order of their lengths, and what it has    *)
(* visited is closed but for their ends.                                   *)
(***************************************************************************)
EXTENDS CloudWatchLogger, Sessions, Observability, EnvironmentSwitching, TransactionLifecycle,
        EventDelivery, MigrationRunner, CommonLemmas

\* Removal of a listener, from a list in which it may be.
LEMMA RemoveFromDistinct ==
    ASSUME NEW S, NEW q \in Seq(S), IsInjective(q), NEW l
    PROVE  /\ Without(q, l) \in Seq(S) /\ IsInjective(Without(q, l))
           /\ ToSet(Without(q, l)) = ToSet(q) \ {l}
           /\ q # <<>> /\ q[1] # l => Without(q, l) # <<>> /\ Without(q, l)[1] = q[1]
<1>1. CASE l \notin ToSet(q)
  BY <1>1 DEF Without
<1>2. CASE l \in ToSet(q)
  <2> DEFINE k == CHOOSE i \in DOMAIN q : q[i] = l
  <2>1. k \in DOMAIN q /\ q[k] = l
    BY <1>2 DEF ToSet
  <2>2. Without(q, l) = RemoveAt(q, k)
    BY <1>2 DEF Without
  <2> HIDE DEF k
  <2> QED BY <2>1, <2>2, RemoveAtDistinct
<1> QED BY <1>1, <1>2

-----------------------------------------------------------------------------
(* Sessions.                                                                *)

Session == [id : Ids, status : {"active", "suspended", "closed"}, contracts : SUBSET Names]

\* A closed session keeps no contract; one that is open is registered under its id.
OpenIsManaged ==
    \A s \in Constructed :
        IF sessions[s].status = "closed" THEN sessions[s].contracts = {}
        ELSE sessions[s].id \in DOMAIN managed /\ managed[sessions[s].id] = s

\* The registry maps at most Room ids to sessions.
RegistryFits ==
    /\ managed \in [DOMAIN managed -> DOMAIN sessions]
    /\ IsFiniteSet(DOMAIN managed) /\ Cardinality(DOMAIN managed) <= Room

SSInv == sessions \in Seq(Session) /\ OpenIsManaged /\ RegistryFits

\* Open sessions have different ids, so there are no more of them than ids.
LEMMA OpenFitTheRoom == SSInv => SessionsKept
<1> SUFFICES ASSUME SSInv PROVE SessionsKept
  OBVIOUS
<1> DEFINE open == {s \in Constructed : sessions[s].status # "closed"}
           idOf == [s \in open |-> sessions[s].id]
<1>1. \A s \in open : sessions[s].id \in DOMAIN managed /\ managed[sessions[s].id] = s
  BY DEF SSInv, OpenIsManaged
<1>2. idOf \in Injection(open, DOMAIN managed)
  BY <1>1 DEF Injection, IsInjective
<1>3. IsFiniteSet(DOMAIN managed) /\ Cardinality(DOMAIN managed) <= Room
  BY DEF SSInv, RegistryFits
<1> HIDE DEF open, idOf
<1>4. IsFiniteSet(open) /\ Cardinality(open) <= Cardinality(DOMAIN managed)
  BY <1>2, <1>3, FS_Injection
<1>5. Cardinality(open) \in Nat /\ Cardinality(DOMAIN managed) \in Nat
  BY <1>3, <1>4, FS_CardinalityType
<1>6. Cardinality(open) <= Room
  BY <1>3, <1>4, <1>5, SessionAssumption
<1> QED BY <1>6 DEF SessionsKept, SSInv, OpenIsManaged, open

\* Sessions change, or close, one keeps its id, and those that leave the registry
\* are closed.
LEMMA SessionsChange ==
    ASSUME SSInv, sessions' \in Seq(Session), DOMAIN sessions' = DOMAIN sessions,
           NEW D \in SUBSET DOMAIN managed, managed' = [i \in D |-> managed[i]],
           \A s \in DOMAIN sessions :
               /\ sessions'[s].id = sessions[s].id
               /\ sessions'[s].status = "closed" => sessions'[s].contracts = {}
               /\ sessions'[s].status # "closed" => sessions[s].status # "closed" /\ sessions[s].id \in D
    PROVE  SSInv'
<1>1. OpenIsManaged'
  BY DEF SSInv, OpenIsManaged, Constructed
<1>2. RegistryFits'
  <2>1. IsFiniteSet(D) /\ Cardinality(D) <= Cardinality(DOMAIN managed)
    BY FS_Subset DEF SSInv, RegistryFits
  <2>2. Cardinality(D) \in Nat /\ Cardinality(DOMAIN managed) \in Nat
    BY <2>1, FS_CardinalityType DEF SSInv, RegistryFits
  <2>3. Cardinality(D) <= Room
    BY <2>1, <2>2, SessionAssumption DEF SSInv, RegistryFits
  <2> QED BY <2>1, <2>3 DEF SSInv, RegistryFits
<1> QED BY <1>1, <1>2 DEF SSInv

\* One session changes.
LEMMA SessionAssigned ==
    ASSUME NEW f \in Seq(Session), NEW s \in DOMAIN f,
           NEW v \in {"active", "suspended", "closed"}, NEW c \in SUBSET Names
    PROVE  LET g == [f EXCEPT ![s].status = v, ![s].contracts = c]
           IN  /\ g \in Seq(Session) /\ DOMAIN g = DOMAIN f
               /\ \A t \in DOMAIN f :
                    g[t] = IF t = s THEN [f[t] EXCEPT !.status = v, !.contracts = c] ELSE f[t]
<1> DEFINE x == [f[s] EXCEPT !.status = v, !.contracts = c]
<1>1. f[s] \in Session /\ DOMAIN f = 1..Len(f)
  BY LenProperties
<1>2. x \in Session
  BY <1>1 DEF Session
<1>3. [f EXCEPT ![s].status = v, ![s].contracts = c] = [f EXCEPT ![s] = x]
  OBVIOUS
<1> HIDE DEF x
<1>4. [f EXCEPT ![s] = x] \in Seq(Session)
  BY <1>1, <1>2, ExceptSeq
<1>5. \A t \in DOMAIN f : [f EXCEPT ![s] = x][t] = IF t = s THEN x ELSE f[t]
  OBVIOUS
<1> QED BY <1>3, <1>4, <1>5 DEF x

LEMMA CreateKeepsSSInv ==
    ASSUME SSInv, NEW chosen \in {0} \cup Ids, NEW contracts \in SUBSET Names,
           CreateSession(chosen, contracts)
    PROVE  SSInv'
<1> DEFINE id == IF chosen = 0 THEN counter + 1 ELSE chosen
           new == [id |-> id, status |-> "active", contracts |-> contracts]
<1>0. /\ id \in Ids /\ sessions \in Seq(Session) /\ Len(sessions) \in Nat
      /\ DOMAIN sessions = 1..Len(sessions) /\ Cardinality(DOMAIN managed) < Room
  BY LenProperties DEF CreateSession, SSInv
<1>1. CASE id \in DOMAIN managed
  <2>1. UNCHANGED <<sessions, managed>>
    BY <1>1 DEF CreateSession
  <2> QED BY <2>1 DEF SSInv, OpenIsManaged, RegistryFits, Constructed
<1>2. CASE id \notin DOMAIN managed
  <2>1. /\ sessions' = Append(sessions, new)
        /\ managed' = [i \in DOMAIN managed \cup {id} |->
                           IF i = id THEN Len(sessions') ELSE managed[i]]
    BY <1>2 DEF CreateSession, ConstructSession
  <2>2. new \in Session
    BY <1>0 DEF Session
  <2>3. new.id = id /\ new.status = "active"
    OBVIOUS
  <2> HIDE DEF new, id
  <2>4. /\ sessions' \in Seq(Session) /\ Len(sessions') = Len(sessions) + 1
        /\ \A s \in 1..Len(sessions) : sessions'[s] = sessions[s]
        /\ sessions'[Len(sessions) + 1] = new
    BY <1>0, <2>1, <2>2, AppendProperties
  <2>5. DOMAIN sessions' = 1..(Len(sessions) + 1)
    BY <2>4, LenProperties
  <2>6. OpenIsManaged'
    <3> SUFFICES ASSUME NEW s \in DOMAIN sessions'
                 PROVE  IF sessions'[s].status = "closed" THEN sessions'[s].contracts = {}
                        ELSE sessions'[s].id \in DOMAIN managed' /\ managed'[sessions'[s].id] = s
      BY DEF OpenIsManaged, Constructed
    <3>1. CASE s = Len(sessions) + 1
      BY <2>1, <2>3, <2>4, <3>1
    <3>2. CASE s # Len(sessions) + 1
      <4>1. s \in DOMAIN sessions /\ sessions'[s] = sessions[s]
        BY <1>0, <2>4, <2>5, <3>2
      <4> QED BY <1>2, <2>1, <4>1 DEF SSInv, OpenIsManaged, Constructed
    <3> QED BY <3>1, <3>2
  <2>7. RegistryFits'
    <3>1. IsFiniteSet(DOMAIN managed \cup {id})
          /\ Cardinality(DOMAIN managed \cup {id}) = Cardinality(DOMAIN managed) + 1
      BY <1>2, FS_AddElement DEF SSInv, RegistryFits
    <3>2. Cardinality(DOMAIN managed) \in Nat
      BY FS_CardinalityType DEF SSInv, RegistryFits
    <3>3. Cardinality(DOMAIN managed \cup {id}) <= Room
      BY <1>0, <3>1, <3>2, SessionAssumption
    <3>4. DOMAIN managed' = DOMAIN managed \cup {id}
      BY <2>1
    <3>5. Len(sessions') \in DOMAIN sessions' /\ DOMAIN sessions \subseteq DOMAIN sessions'
      BY <1>0, <2>4, <2>5
    <3>6. \A i \in DOMAIN managed' : managed'[i] \in DOMAIN sessions'
      BY <2>1, <3>5 DEF SSInv, RegistryFits
    <3>7. managed' \in [DOMAIN managed' -> DOMAIN sessions']
      BY <2>1, <3>4, <3>6
    <3> QED BY <3>1, <3>3, <3>4, <3>7 DEF RegistryFits
  <2> QED BY <2>4, <2>6, <2>7 DEF SSInv
<1> QED BY <1>1, <1>2

LEMMA SSInitInv == SSInit => SSInv
<1> SUFFICES ASSUME SSInit PROVE SSInv
  OBVIOUS
<1>1. sessions \in Seq(Session) /\ DOMAIN sessions = {} /\ DOMAIN managed = {}
  BY EmptySeq DEF SSInit
<1>2. IsFiniteSet(DOMAIN managed) /\ Cardinality(DOMAIN managed) = 0
  BY <1>1, FS_EmptySet
<1>3. managed \in [DOMAIN managed -> DOMAIN sessions]
  BY <1>1 DEF SSInit
<1> QED BY <1>1, <1>2, <1>3, SessionAssumption DEF SSInv, OpenIsManaged, RegistryFits, Constructed

LEMMA SSNextInv == SSInv /\ [SSNext]_ssVars => SSInv'
<1> SUFFICES ASSUME SSInv, [SSNext]_ssVars PROVE SSInv'
  OBVIOUS
<1>0. /\ sessions \in Seq(Session) /\ DOMAIN sessions = 1..Len(sessions)
      /\ \A s \in DOMAIN sessions : sessions[s] \in Session
      /\ managed = [i \in DOMAIN managed |-> managed[i]]
      /\ \A s \in DOMAIN sessions : /\ sessions[s].status = "closed" => sessions[s].contracts = {}
                                    /\ sessions[s].status # "closed" => sessions[s].id \in DOMAIN managed
  BY LenProperties DEF SSInv, OpenIsManaged, RegistryFits, Constructed
<1>1. ASSUME NEW s \in DOMAIN sessions, sessions[s].status # "closed",
             NEW v \in {"active", "suspended"}, NEW c \in SUBSET Names,
             sessions' = [sessions EXCEPT ![s].status = v, ![s].contracts = c],
             UNCHANGED managed
      PROVE  SSInv'
  <2>1. /\ sessions' \in Seq(Session) /\ DOMAIN sessions' = DOMAIN sessions
        /\ \A t \in DOMAIN sessions :
             sessions'[t] = IF t = s THEN [sessions[t] EXCEPT !.status = v, !.contracts = c]
                            ELSE sessions[t]
    BY <1>0, <1>1, SessionAssigned
  <2>2. sessions'[s].id = sessions[s].id /\ sessions'[s].status = v
    BY <1>0, <2>1 DEF Session
  <2> QED BY <1>0, <1>1, <2>1, <2>2, SessionsChange
<1>2. ASSUME NEW s \in DOMAIN sessions
      PROVE  /\ Closed(s) \in Seq(Session) /\ DOMAIN Closed(s) = DOMAIN sessions
             /\ \A t \in DOMAIN sessions :
                  IF t = s THEN /\ Closed(s)[t].id = sessions[t].id
                                /\ Closed(s)[t].status = "closed" /\ Closed(s)[t].contracts = {}
                  ELSE Closed(s)[t] = sessions[t]
  <2>1. {} \in SUBSET Names
    OBVIOUS
  <2>2. /\ Closed(s) \in Seq(Session) /\ DOMAIN Closed(s) = DOMAIN sessions
        /\ \A t \in DOMAIN sessions :
             Closed(s)[t] = IF t = s THEN [sessions[t] EXCEPT !.status = "closed", !.contracts = {}]
                            ELSE sessions[t]
    BY <1>0, <2>1, SessionAssigned DEF Closed
  <2> QED BY <1>0, <2>2 DEF Session
<1>3. ASSUME NEW chosen \in {0} \cup Ids, NEW contracts \in SUBSET Names,
             CreateSession(chosen, contracts)
      PROVE  SSInv'
  BY <1>3, CreateKeepsSSInv
<1>4. ASSUME NEW s \in 1..MaxSessions, NEW name \in Names,
             RegisterContract(s, name) \/ UnregisterContract(s, name)
      PROVE  SSInv'
  <2>1. PICK c \in SUBSET Names : sessions' = [sessions EXCEPT ![s].contracts = c]
    <3>1. s \in DOMAIN sessions
      BY <1>4 DEF RegisterContract, UnregisterContract, Constructed
    <3>2. sessions[s].contracts \in SUBSET Names
      BY <1>0, <3>1 DEF Session
    <3> QED BY <1>4, <3>1, <3>2 DEF RegisterContract, UnregisterContract
  <2>2. s \in DOMAIN sessions /\ sessions[s].status # "closed" /\ UNCHANGED managed
    BY <1>4 DEF RegisterContract, UnregisterContract, Constructed
  <2>3. sessions[s] \in Session
    BY <1>0, <2>2
  <2>4. sessions[s].status \in {"active", "suspended"}
    BY <2>2, <2>3 DEF Session
  <2>5. sessions' = [sessions EXCEPT ![s].status = sessions[s].status, ![s].contracts = c]
    BY <2>1, <2>3 DEF Session
  <2> QED BY <1>1, <2>2, <2>4, <2>5
<1>5. ASSUME NEW s \in 1..MaxSessions, Suspend(s) \/ Resume(s) PROVE SSInv'
  <2>1. PICK v \in {"active", "suspended"} : sessions' = [sessions EXCEPT ![s].status = v]
    BY <1>5 DEF Suspend, Resume
  <2>2. s \in DOMAIN sessions /\ sessions[s].status # "closed" /\ UNCHANGED managed
    BY <1>5 DEF Suspend, Resume, Constructed
  <2>3. sessions[s] \in Session /\ sessions[s].contracts \in SUBSET Names
    BY <1>0, <2>2 DEF Session
  <2>4. sessions' = [sessions EXCEPT ![s].status = v, ![s].contracts = sessions[s].contracts]
    BY <2>1, <2>3 DEF Session
  <2> QED BY <1>1, <2>2, <2>3, <2>4
<1>6. ASSUME NEW s \in 1..MaxSessions, CloseByHolder(s) PROVE SSInv'
  <2>1. s \in DOMAIN sessions /\ sessions' = Closed(s) /\ UNCHANGED managed
    BY <1>6 DEF CloseByHolder, Constructed
  <2> QED BY <1>0, <1>2, <2>1, SessionsChange
<1>7. ASSUME NEW id \in Ids, CloseSession(id) PROVE SSInv'
  <2>1. /\ id \in DOMAIN managed /\ managed[id] \in DOMAIN sessions
        /\ sessions' = Closed(managed[id])
        /\ managed' = [i \in DOMAIN managed \ {id} |-> managed[i]]
    BY <1>7 DEF CloseSession, SSInv, RegistryFits
  <2>2. \A s \in DOMAIN sessions : s # managed[id] /\ sessions[s].status # "closed" => sessions[s].id # id
    BY DEF SSInv, OpenIsManaged, Constructed
  <2> HIDE DEF Closed
  <2>3. \A s \in DOMAIN sessions :
            /\ sessions'[s].id = sessions[s].id
            /\ sessions'[s].status = "closed" => sessions'[s].contracts = {}
            /\ sessions'[s].status # "closed" =>
                 sessions[s].status # "closed" /\ sessions[s].id \in DOMAIN managed \ {id}
    BY <1>0, <1>2, <2>1, <2>2
  <2> QED BY <1>2, <2>1, <2>3, SessionsChange
<1>8. CASE CloseAll
  <2> DEFINE x(s) == IF \E id \in DOMAIN managed : managed[id] = s THEN Closed(s)[s] ELSE sessions[s]
  <2>1. sessions' = [s \in 1..Len(sessions) |-> x(s)] /\ managed' = [i \in {} |-> 0]
    BY <1>0, <1>8 DEF CloseAll, Constructed
  <2>2. ASSUME NEW s \in 1..Len(sessions)
        PROVE  /\ x(s) \in Session /\ x(s).id = sessions[s].id
               /\ x(s).status = "closed" /\ x(s).contracts = {}
    <3>1. CASE \E id \in DOMAIN managed : managed[id] = s
      <4>1. Closed(s)[s] \in Session
        BY <1>0, <1>2, LenProperties
      <4> QED BY <1>0, <1>2, <3>1, <4>1
    <3>2. CASE ~\E id \in DOMAIN managed : managed[id] = s
      BY <1>0, <3>2 DEF SSInv, OpenIsManaged, Constructed
    <3> QED BY <3>1, <3>2
  <2> HIDE DEF x
  <2>3. sessions' \in Seq(Session) /\ DOMAIN sessions' = DOMAIN sessions
    <3>1. Len(sessions) \in Nat
      BY <1>0, LenProperties
    <3> QED BY <1>0, <2>1, <2>2, <3>1, IsASeq
  <2>4. managed' = [i \in {} |-> managed[i]]
    BY <2>1
  <2> QED BY <1>0, <2>1, <2>2, <2>3, <2>4, SessionsChange
<1>9. CASE UNCHANGED ssVars
  BY <1>9 DEF ssVars, SSInv, OpenIsManaged, RegistryFits, Constructed
<1> QED BY <1>3, <1>4, <1>5, <1>6, <1>7, <1>8, <1>9 DEF SSNext

-----------------------------------------------------------------------------
(* The log shipper.                                                         *)

FlushState == [batch : Seq(Entries), attempt : 1..MaxAttempts, sent : BOOLEAN, closing : BOOLEAN]

\* Batches, and the batches with a queue, hold different entries.
Apart(fl) ==
    /\ \A k \in DOMAIN fl : IsInjective(fl[k].batch)
    /\ \A k, l \in DOMAIN fl : k # l => ToSet(fl[k].batch) \cap ToSet(fl[l].batch) = {}
Flying(fl) == UNION {ToSet(fl[k].batch) : k \in DOMAIN fl}

Placed(q, fl) ==
    /\ q \in Seq(Entries) /\ IsInjective(q)
    /\ fl \in Seq(FlushState) /\ Apart(fl)
    /\ ToSet(q) \cap Flying(fl) = {}

\* Entries in somebody's hands have been logged and wait for no initialization.
Held == ToSet(logQueue) \cup Flying(flushes)
HeldIsLogged ==
    /\ Held \subseteq 1..logged
    /\ DOMAIN initializing \subseteq 1..logged
    /\ Held \cap DOMAIN initializing = {}

Stored == UNION {ToSet(b) : b \in delivered}
NoneMissing == 1..logged \subseteq DOMAIN initializing \cup Held \cup Stored \cup rejected

LGInv ==
    /\ logged \in 0..MaxEntries
    /\ Placed(logQueue, flushes)
    /\ HeldIsLogged
    /\ NoneMissing

LEMMA LGInvKeeps == LGInv => EntriesKept
<1> SUFFICES ASSUME LGInv PROVE EntriesKept
  OBVIOUS
<1>1. Cardinality(ToSet(logQueue)) = Len(logQueue)
  BY DistinctCount DEF LGInv, Placed
<1>2. InFlight = Flying(flushes)
  BY DEF InFlight, Flying
<1>3. NoneMissing /\ Placed(logQueue, flushes) /\ Apart(flushes)
  BY DEF LGInv, Placed
<1> QED BY <1>1, <1>2, <1>3 DEF EntriesKept, NoneMissing, Held, Stored, Placed, Apart

\* A flush takes the oldest entries off the queue into a batch of its own.
LEMMA FlushPlaces ==
    ASSUME NEW q, Placed(q, flushes), NEW closing \in BOOLEAN, Flush(q, closing)
    PROVE  Placed(logQueue', flushes') /\ Held' = ToSet(q) \cup Flying(flushes)
<1>0. q \in Seq(Entries) /\ IsInjective(q) /\ Len(q) \in Nat /\ flushes \in Seq(FlushState)
  BY LenProperties DEF Placed
<1>1. CASE ~hasClient \/ q = <<>>
  BY <1>1 DEF Flush, Held
<1>2. CASE ~(~hasClient \/ q = <<>>)
  <2> DEFINE m == Min({BatchLimit, Len(q)})
             head == SubSeq(q, 1, m)
             tail == SubSeq(q, m + 1, Len(q))
             new == [batch |-> head, attempt |-> 1, sent |-> FALSE, closing |-> closing]
  <2>1. m \in 0..Len(q)
    <3>1. BatchLimit \in Nat
      BY LoggerAssumption
    <3>2. \E x \in {BatchLimit, Len(q)} : \A y \in {BatchLimit, Len(q)} : x <= y
      BY <1>0, <3>1
    <3>3. m \in {BatchLimit, Len(q)} /\ \A y \in {BatchLimit, Len(q)} : m <= y
      BY <3>2 DEF Min
    <3> HIDE DEF m
    <3> QED BY <1>0, <3>1, <3>3
  <2>2. TakeBatch(q) = head
    BY DEF TakeBatch
  <2> HIDE DEF m
  <2>3. /\ head \in Seq(Entries) /\ IsInjective(head) /\ Len(head) = m
        /\ tail \in Seq(Entries) /\ IsInjective(tail)
        /\ ToSet(head) \cap ToSet(tail) = {}
        /\ ToSet(head) \cup ToSet(tail) = ToSet(q)
    BY <1>0, <2>1, SplitDistinct
  <2>4. logQueue' = tail /\ flushes' = Append(flushes, new)
    BY <1>2, <2>2, <2>3 DEF Flush
  <2> HIDE DEF head, tail
  <2>5. new \in FlushState /\ new.batch = head
    BY <2>3, LoggerAssumption DEF FlushState
  <2> HIDE DEF new
  <2>6. /\ flushes' \in Seq(FlushState) /\ Len(flushes) \in Nat
        /\ DOMAIN flushes = 1..Len(flushes) /\ DOMAIN flushes' = 1..(Len(flushes) + 1)
        /\ \A k \in DOMAIN flushes : flushes'[k] = flushes[k]
        /\ flushes'[Len(flushes) + 1] = new
    BY <1>0, <2>4, <2>5, AppendProperties, LenProperties
  <2>7. \A k \in DOMAIN flushes' : k \in DOMAIN flushes \/ k = Len(flushes) + 1
    BY <2>6
  <2>8. Len(flushes) + 1 \in DOMAIN flushes' /\ DOMAIN flushes \subseteq DOMAIN flushes'
    BY <2>6
  <2>9. \A k \in DOMAIN flushes : ToSet(flushes[k].batch) \cap ToSet(q) = {}
    BY DEF Placed, Flying
  <2>10. Apart(flushes')
    <3>1. \A k \in DOMAIN flushes' : IsInjective(flushes'[k].batch)
      BY <2>3, <2>5, <2>6, <2>7 DEF Placed, Apart
    <3>2. \A k, l \in DOMAIN flushes' :
             k # l => ToSet(flushes'[k].batch) \cap ToSet(flushes'[l].batch) = {}
      BY <2>3, <2>5, <2>6, <2>7, <2>9 DEF Placed, Apart
    <3> QED BY <3>1, <3>2 DEF Apart
  <2>11. Flying(flushes') = Flying(flushes) \cup ToSet(head)
    BY <2>5, <2>6, <2>7, <2>8 DEF Flying
  <2>12. ToSet(logQueue') \cap Flying(flushes') = {}
    BY <2>3, <2>4, <2>11 DEF Placed
  <2>13. Held' = ToSet(q) \cup Flying(flushes)
    BY <2>3, <2>4, <2>11 DEF Held
  <2> QED BY <2>3, <2>4, <2>6, <2>10, <2>12, <2>13 DEF Placed
<1> QED BY <1>1, <1>2

\* The entry of a call of log joins the queue.
LEMMA PushPlaces ==
    ASSUME LGInv, NEW e \in Entries, e \notin Held, Push(e)
    PROVE  Placed(logQueue', flushes') /\ Held' = Held \cup {e}
<1> DEFINE one == <<e>>
           q == Append(logQueue, e)
<1>1. logQueue \in Seq(Entries) /\ IsInjective(logQueue) /\ Placed(logQueue, flushes)
  BY DEF LGInv, Placed
<1>2. one \in Seq(Entries) /\ IsInjective(one) /\ ToSet(one) = {e}
  BY DEF IsInjective, ToSet
<1>3. q = logQueue \o one
  BY <1>1, AppendIsConcat
<1>4. e \notin ToSet(logQueue) /\ e \notin Flying(flushes)
  BY DEF Held
<1> HIDE DEF one, q
<1>5. q \in Seq(Entries) /\ IsInjective(q) /\ ToSet(q) = ToSet(logQueue) \cup {e}
  <2>1. ToSet(logQueue) \cap ToSet(one) = {}
    BY <1>2, <1>4
  <2> QED BY <1>1, <1>2, <1>3, <2>1, ConcatDistinct
<1>6. Placed(q, flushes)
  BY <1>1, <1>4, <1>5 DEF Placed
<1>7. Flush(q, FALSE) \/ (logQueue' = q /\ UNCHANGED flushes)
  BY DEF Push, q
<1> QED BY <1>5, <1>6, <1>7, FlushPlaces DEF Held

\* A flush is over; its batch has been stored or goes back to the queue.
LEMMA FlushOverPlaces ==
    ASSUME LGInv, NEW k \in DOMAIN flushes, FlushOver(k)
    PROVE  /\ flushes' \in Seq(FlushState) /\ Apart(flushes')
           /\ Flying(flushes') \subseteq Flying(flushes)
           /\ Flying(flushes) = Flying(flushes') \cup ToSet(flushes[k].batch)
           /\ Flying(flushes') \cap ToSet(flushes[k].batch) = {}
<1> DEFINE old(i) == IF i < k THEN i ELSE i + 1
<1>0. /\ flushes \in Seq(FlushState) /\ Apart(flushes)
      /\ Len(flushes) \in Nat /\ DOMAIN flushes = 1..Len(flushes)
  BY LenProperties DEF LGInv, Placed
<1>1. /\ flushes' \in Seq(FlushState) /\ DOMAIN flushes' = 1..(Len(flushes) - 1)
      /\ \A i \in 1..(Len(flushes) - 1) : flushes'[i] = flushes[old(i)]
  BY <1>0, RemoveAtShifts DEF FlushOver
<1>2. \A i \in DOMAIN flushes' : old(i) \in DOMAIN flushes /\ old(i) # k
  BY <1>0, <1>1
<1>3. \A i, j \in DOMAIN flushes' : i # j => old(i) # old(j)
  BY <1>0, <1>1
<1>4. ASSUME NEW l \in DOMAIN flushes, l # k
      PROVE  \E i \in DOMAIN flushes' : flushes'[i] = flushes[l]
  <2>1. CASE l < k
    <3>1. l \in DOMAIN flushes' /\ old(l) = l
      BY <1>0, <1>1, <2>1
    <3> QED BY <1>1, <3>1
  <2>2. CASE ~(l < k)
    <3>1. l - 1 \in DOMAIN flushes' /\ old(l - 1) = l
      BY <1>0, <1>1, <1>4, <2>2
    <3> QED BY <1>1, <3>1
  <2> QED BY <2>1, <2>2
<1>5. \A i \in DOMAIN flushes' : flushes'[i] = flushes[old(i)]
  BY <1>1
<1> HIDE DEF old
<1>6. Apart(flushes')
  BY <1>0, <1>2, <1>3, <1>5 DEF Apart
<1>7. Flying(flushes) = Flying(flushes') \cup ToSet(flushes[k].batch)
  BY <1>2, <1>4, <1>5 DEF Flying
<1>8. Flying(flushes') \cap ToSet(flushes[k].batch) = {}
  <2>1. \A i \in DOMAIN flushes' : ToSet(flushes'[i].batch) \cap ToSet(flushes[k].batch) = {}
    BY <1>0, <1>2, <1>5 DEF Apart
  <2> QED BY <2>1 DEF Flying
<1> QED BY <1>1, <1>6, <1>7, <1>8

\* The queue keeps its entries, together with the batches, when a flush starts.
LEMMA FlushKeepsLGInv ==
    ASSUME LGInv, NEW closing \in BOOLEAN, Flush(logQueue, closing),
           UNCHANGED <<logged, initializing, delivered, rejected>>
    PROVE  LGInv'
<1>1. Placed(logQueue', flushes') /\ Held' = Held
  BY FlushPlaces DEF LGInv, Held
<1> QED BY <1>1 DEF LGInv, HeldIsLogged, NoneMissing, Stored

\* An attempt of a flush changes neither its batch nor the queue.
LEMMA AttemptKeepsLGInv ==
    ASSUME LGInv, NEW k \in DOMAIN flushes, NEW x \in FlushState, x.batch = flushes[k].batch,
           flushes' = [flushes EXCEPT ![k] = x], delivered \subseteq delivered',
           UNCHANGED <<logged, initializing, logQueue, rejected>>
    PROVE  LGInv'
<1>1. /\ flushes \in Seq(FlushState) /\ DOMAIN flushes = 1..Len(flushes)
  BY LenProperties DEF LGInv, Placed
<1>2. flushes' \in Seq(FlushState) /\ DOMAIN flushes' = DOMAIN flushes
  BY <1>1, ExceptSeq
<1>3. \A l \in DOMAIN flushes : flushes'[l].batch = flushes[l].batch
  OBVIOUS
<1>4. Flying(flushes') = Flying(flushes) /\ Apart(flushes')
  <2>1. Flying(flushes') = Flying(flushes)
    BY <1>2, <1>3 DEF Flying
  <2>2. Apart(flushes)
    BY DEF LGInv, Placed
  <2> QED BY <1>2, <1>3, <2>1, <2>2, Zenon DEF Apart
<1>5. Placed(logQueue', flushes') /\ Held' = Held
  BY <1>2, <1>4 DEF LGInv, Placed, Held
<1>6. Stored \subseteq Stored'
  BY DEF Stored
<1> QED BY <1>5, <1>6 DEF LGInv, HeldIsLogged, NoneMissing

LEMMA LGInitInv == LGInit => LGInv
<1> SUFFICES ASSUME LGInit PROVE LGInv
  OBVIOUS
<1>1. /\ logged = 0 /\ DOMAIN initializing = {} /\ logQueue = <<>> /\ flushes = <<>>
  BY DEF LGInit
<1>2. /\ logQueue \in Seq(Entries) /\ flushes \in Seq(FlushState)
      /\ DOMAIN logQueue = {} /\ DOMAIN flushes = {}
  BY <1>1, EmptySeq
<1>3. ToSet(logQueue) = {} /\ Flying(flushes) = {}
  BY <1>2 DEF ToSet, Flying
<1>4. Placed(logQueue, flushes)
  BY <1>2, <1>3 DEF Placed, Apart, IsInjective
<1>5. 1..logged = {}
  BY <1>1
<1> QED BY <1>1, <1>3, <1>4, <1>5, LoggerAssumption DEF LGInv, HeldIsLogged, NoneMissing, Held

LEMMA LGNextInv == LGInv /\ [LGNext]_lgVars => LGInv'
<1> SUFFICES ASSUME LGInv, [LGNext]_lgVars PROVE LGInv'
  OBVIOUS
<1>0. /\ logged \in Nat /\ MaxEntries \in Nat /\ Held \subseteq 1..logged
      /\ DOMAIN initializing \subseteq 1..logged /\ Held \cap DOMAIN initializing = {}
      /\ Placed(logQueue, flushes) /\ Apart(flushes)
      /\ flushes \in Seq(FlushState) /\ \A k \in DOMAIN flushes : flushes[k] \in FlushState
  BY LoggerAssumption, LenProperties DEF LGInv, HeldIsLogged, Placed
<1>1. CASE Log
  <2> DEFINE e == logged + 1
  <2>1. /\ logged' = e /\ e \in Entries /\ e \notin 1..logged /\ 1..logged' = 1..logged \cup {e}
        /\ logged' \in 0..MaxEntries /\ UNCHANGED <<delivered, rejected>>
    BY <1>0, <1>1 DEF Log, Entries
  <2>2. CASE Push(e) /\ UNCHANGED initializing
    <3>1. Placed(logQueue', flushes') /\ Held' = Held \cup {e}
      BY <1>0, <2>1, <2>2, PushPlaces
    <3> HIDE DEF e
    <3> QED BY <1>0, <2>1, <2>2, <3>1 DEF LGInv, HeldIsLogged, NoneMissing, Stored
  <2>3. CASE /\ DOMAIN initializing' = DOMAIN initializing \cup {e}
             /\ UNCHANGED <<logQueue, flushes>>
    <3>1. Placed(logQueue', flushes') /\ Held' = Held
      BY <1>0, <2>3 DEF Held
    <3> HIDE DEF e
    <3> QED BY <1>0, <2>1, <2>3, <3>1 DEF LGInv, HeldIsLogged, NoneMissing, Stored
  <2> QED BY <1>1, <2>2, <2>3 DEF Log
<1>2. ASSUME NEW e \in Entries, ClientCreated(e) PROVE LGInv'
  <2>1. /\ DOMAIN initializing' = DOMAIN initializing
        /\ UNCHANGED <<logged, logQueue, flushes, delivered, rejected>>
    BY <1>2 DEF ClientCreated
  <2> QED BY <2>1 DEF LGInv, HeldIsLogged, NoneMissing, Held, Stored
<1>3. ASSUME NEW e \in Entries, Initialized(e) PROVE LGInv'
  <2>1. /\ e \in DOMAIN initializing /\ Push(e)
        /\ DOMAIN initializing' = DOMAIN initializing \ {e}
        /\ UNCHANGED <<logged, delivered, rejected>>
    BY <1>3 DEF Initialized, Forget
  <2>2. Placed(logQueue', flushes') /\ Held' = Held \cup {e}
    BY <1>0, <2>1, PushPlaces
  <2> QED BY <1>0, <2>1, <2>2 DEF LGInv, HeldIsLogged, NoneMissing, Stored
<1>4. ASSUME NEW e \in Entries, InitializeFails(e) PROVE LGInv'
  <2>1. /\ rejected' = rejected \cup {e} /\ DOMAIN initializing' = DOMAIN initializing \ {e}
        /\ UNCHANGED <<logged, logQueue, flushes, delivered>>
    BY <1>4 DEF InitializeFails, Forget
  <2> QED BY <2>1 DEF LGInv, HeldIsLogged, NoneMissing, Held, Stored
<1>5. CASE TimerFires \/ Destroy
  BY <1>5, FlushKeepsLGInv DEF TimerFires, Destroy
<1>6. ASSUME NEW k \in 1..MaxFlushes, PutSent(k) PROVE LGInv'
  <2> DEFINE x == [flushes[k] EXCEPT !.sent = TRUE]
  <2>1. k \in DOMAIN flushes /\ flushes' = [flushes EXCEPT ![k] = x]
    BY <1>6 DEF PutSent
  <2>2. x \in FlushState /\ x.batch = flushes[k].batch
    BY <1>0, <2>1 DEF FlushState
  <2> HIDE DEF x
  <2> QED BY <1>6, <2>1, <2>2, AttemptKeepsLGInv DEF PutSent
<1>7. ASSUME NEW k \in 1..MaxFlushes, PutSucceeds(k) PROVE LGInv'
  <2>1. /\ k \in DOMAIN flushes /\ FlushOver(k)
        /\ delivered' = delivered \cup {flushes[k].batch}
        /\ UNCHANGED <<logged, initializing, logQueue, rejected>>
    BY <1>7 DEF PutSucceeds
  <2>2. /\ flushes' \in Seq(FlushState) /\ Apart(flushes')
        /\ Flying(flushes') \subseteq Flying(flushes)
        /\ Flying(flushes) = Flying(flushes') \cup ToSet(flushes[k].batch)
    BY <2>1, FlushOverPlaces
  <2>3. Placed(logQueue', flushes') /\ Held' \subseteq Held
    BY <1>0, <2>1, <2>2 DEF Placed, Held
  <2>4. Held \subseteq Held' \cup ToSet(flushes[k].batch)
    BY <2>1, <2>2 DEF Held
  <2>5. Stored' = Stored \cup ToSet(flushes[k].batch)
    BY <2>1 DEF Stored
  <2> QED BY <1>0, <2>1, <2>3, <2>4, <2>5 DEF LGInv, HeldIsLogged, NoneMissing
<1>8. ASSUME NEW k \in 1..MaxFlushes, NEW again \in BOOLEAN, PutFails(k, again) PROVE LGInv'
  <2>1. /\ k \in DOMAIN flushes /\ delivered \subseteq delivered'
        /\ UNCHANGED <<logged, initializing, rejected>>
    BY <1>8 DEF PutFails
  <2>2. CASE again
    <3> DEFINE x == [flushes[k] EXCEPT !.attempt = @ + 1, !.sent = FALSE]
    <3>1. flushes' = [flushes EXCEPT ![k] = x] /\ UNCHANGED logQueue
      BY <1>8, <2>2 DEF PutFails
    <3>2. flushes[k].attempt < MaxAttempts /\ flushes[k] \in FlushState
      BY <1>0, <1>8, <2>1, <2>2 DEF PutFails
    <3>3. flushes[k].attempt + 1 \in 1..MaxAttempts
      BY <3>2, LoggerAssumption DEF FlushState
    <3>4. x \in FlushState /\ x.batch = flushes[k].batch
      BY <3>2, <3>3 DEF FlushState
    <3> HIDE DEF x
    <3> QED BY <2>1, <3>1, <3>4, AttemptKeepsLGInv
  <2>3. CASE ~again
    <3>1. FlushOver(k) /\ logQueue' = flushes[k].batch \o logQueue
      BY <1>8, <2>3 DEF PutFails, Requeue
    <3>2. /\ flushes' \in Seq(FlushState) /\ Apart(flushes')
          /\ Flying(flushes') \subseteq Flying(flushes)
          /\ Flying(flushes) = Flying(flushes') \cup ToSet(flushes[k].batch)
          /\ Flying(flushes') \cap ToSet(flushes[k].batch) = {}
      BY <2>1, <3>1, FlushOverPlaces
    <3>3. flushes[k].batch \in Seq(Entries) /\ IsInjective(flushes[k].batch)
      BY <1>0, <2>1 DEF FlushState, Apart
    <3>4. ToSet(flushes[k].batch) \cap ToSet(logQueue) = {}
      BY <1>0, <3>2 DEF Placed
    <3>5. /\ logQueue' \in Seq(Entries) /\ IsInjective(logQueue')
          /\ ToSet(logQueue') = ToSet(flushes[k].batch) \cup ToSet(logQueue)
      BY <1>0, <3>1, <3>3, <3>4, ConcatDistinct DEF Placed
    <3>6. Placed(logQueue', flushes') /\ Held' = Held
      BY <1>0, <3>2, <3>5 DEF Placed, Held
    <3>7. Stored \subseteq Stored'
      BY <2>1 DEF Stored
    <3> QED BY <2>1, <3>6, <3>7 DEF LGInv, HeldIsLogged, NoneMissing
  <2> QED BY <2>2, <2>3
<1>9. CASE UNCHANGED lgVars
  BY <1>9 DEF lgVars, LGInv, HeldIsLogged, NoneMissing, Held, Stored
<1> QED BY <1>1, <1>2, <1>3, <1>4, <1>5, <1>6, <1>7, <1>8, <1>9 DEF LGNext, LGSystem

-----------------------------------------------------------------------------

(* The telemetry buffer.                                                    *)

TMInv ==
    /\ collecting \in [enabled : BOOLEAN, size : BufferSizes]
    /\ tracked \in Nat /\ buffered \in Seq(Nat)
    /\ handler \in BOOLEAN /\ telemetryTimer \in BOOLEAN
    /\ ~handler => handedOver = {}
    /\ EventsAccounted

\* A flush leaves every event accounted for.
LEMMA FlushAccounts ==
    ASSUME NEW n \in Nat, NEW events \in Seq(Nat), handler \in BOOLEAN,
           ~handler => handedOver = {},
           Accounted(handedOver, discarded, events, n), FlushEvents(events)
    PROVE  /\ buffered' \in Seq(Nat)
           /\ ~handler => handedOver' = {}
           /\ Accounted(handedOver', discarded', buffered', n)
<1>1. buffered' = <<>> /\ ToSet(<<>>) = {} /\ DOMAIN <<>> = {} /\ <<>> \in Seq(Nat)
  BY DEF FlushEvents, ToSet
<1>2. CASE handler
  <2>1. handedOver' = handedOver \cup ToSet(events) /\ discarded' = discarded
    BY <1>2 DEF FlushEvents
  <2> QED BY <1>1, <1>2, <2>1 DEF Accounted
<1>3. CASE ~handler
  <2>1. discarded' = discarded \cup ToSet(events) /\ handedOver' = {} /\ handedOver = {}
    BY <1>3 DEF FlushEvents
  <2> QED BY <1>1, <1>3, <2>1 DEF Accounted
<1> QED BY <1>2, <1>3

\* The event tracked next comes after all others.
LEMMA TrackAccounts ==
    ASSUME NEW n \in Nat, NEW events \in Seq(Nat), NEW handed, NEW lost,
           Accounted(handed, lost, events, n)
    PROVE  /\ Append(events, n + 1) \in Seq(Nat)
           /\ Accounted(handed, lost, Append(events, n + 1), n + 1)
<1> DEFINE more == Append(events, n + 1)
<1>1. /\ more \in Seq(Nat) /\ Len(more) = Len(events) + 1 /\ Len(events) \in Nat
      /\ \A i \in 1..Len(events) : more[i] = events[i]
      /\ more[Len(events) + 1] = n + 1
      /\ DOMAIN more = 1..(Len(events) + 1) /\ DOMAIN events = 1..Len(events)
  BY AppendProperties, LenProperties
<1> HIDE DEF more
<1>2. ToSet(more) = ToSet(events) \cup {n + 1}
  <2> DEFINE x == n + 1
  <2>1. x \in Nat /\ more = Append(events, x)
    BY DEF more
  <2> HIDE DEF x
  <2> QED BY <2>1, AppendDistinct DEF x
<1>3. /\ \A e \in handed \cup lost \cup ToSet(events) : e \in Nat /\ e < n + 1
      /\ 1..(n + 1) = 1..n \cup {n + 1}
  BY DEF Accounted
<1>4. \A i \in 1..Len(events) : events[i] \in ToSet(events)
  BY <1>1 DEF ToSet
<1>5. ASSUME NEW i \in DOMAIN more, NEW j \in DOMAIN more, i < j PROVE more[i] < more[j]
  <2>1. i \in 1..Len(events)
    BY <1>1, <1>5
  <2>2. CASE j \in 1..Len(events)
    BY <1>1, <1>5, <2>1, <2>2 DEF Accounted
  <2>3. CASE j = Len(events) + 1
    BY <1>1, <1>3, <1>4, <2>1, <2>3
  <2> QED BY <1>1, <2>2, <2>3
<1>6. handed \cup lost \cup ToSet(more) = 1..(n + 1)
  BY <1>2, <1>3 DEF Accounted
<1>7. /\ \A d \in lost, e \in handed \cup ToSet(more) : d < e
      /\ \A h \in handed, e \in ToSet(more) : h < e
  BY <1>2, <1>3 DEF Accounted
<1>8. Accounted(handed, lost, more, n + 1)
  BY <1>5, <1>6, <1>7 DEF Accounted
<1> QED BY <1>1, <1>8 DEF more

\* The service starts with nothing tracked, and an interval if it collects.
LEMMA TMInitInv == TMInit => TMInv
<1> SUFFICES ASSUME TMInit PROVE TMInv
  OBVIOUS
<1>1. collecting.enabled \in BOOLEAN
  BY DEF TMInit
<1>2. ToSet(<<>>) = {} /\ DOMAIN <<>> = {} /\ <<>> \in Seq(Nat) /\ 1..0 = {}
  BY DEF ToSet
<1>3. Accounted({}, {}, <<>>, 0)
  BY <1>2 DEF Accounted
<1> QED BY <1>1, <1>2, <1>3 DEF TMInit, TMInv, EventsAccounted

\* No call, and not the timer either, loses an event or an interval.
LEMMA TMNextInv == TMInv /\ [TMNext]_tmVars => TMInv'
<1> SUFFICES ASSUME TMInv, [TMNext]_tmVars PROVE TMInv'
  OBVIOUS
<1>0. /\ collecting \in [enabled : BOOLEAN, size : BufferSizes] /\ collecting.enabled \in BOOLEAN
      /\ tracked \in Nat /\ buffered \in Seq(Nat)
      /\ handler \in BOOLEAN /\ telemetryTimer \in BOOLEAN
      /\ ~handler => handedOver = {}
      /\ Accounted(handedOver, discarded, buffered, tracked)
      /\ intervals = IF telemetryTimer THEN 1 ELSE 0
      /\ telemetryTimer => collecting.enabled
      /\ collecting.enabled => telemetryTimer \/ destroyed
  BY DEF TMInv, EventsAccounted
<1>1. ASSUME FlushEvents(buffered), tracked' = tracked, handler' = handler
      PROVE  /\ tracked' \in Nat /\ buffered' \in Seq(Nat) /\ handler' \in BOOLEAN
             /\ ~handler' => handedOver' = {}
             /\ Accounted(handedOver', discarded', buffered', tracked')
  BY <1>0, <1>1, FlushAccounts
<1>2. StopTimer => telemetryTimer' = FALSE /\ intervals' = 0
  BY <1>0 DEF StopTimer
<1>3. CASE Track
  <2> DEFINE events == Append(buffered, tracked + 1)
  <2>1. tracked' = tracked + 1 /\ tracked' \in Nat
    BY <1>0, <1>3 DEF Track
  <2>2. events \in Seq(Nat) /\ Accounted(handedOver, discarded, events, tracked')
    BY <1>0, <2>1, TrackAccounts
  <2>3. FlushEvents(events) \/ KeepEvents(events)
    BY <1>3, <2>1 DEF Track
  <2> HIDE DEF events
  <2>4. /\ buffered' \in Seq(Nat)
        /\ ~handler => handedOver' = {}
        /\ Accounted(handedOver', discarded', buffered', tracked')
    <3>1. CASE FlushEvents(events)
      BY <1>0, <2>1, <2>2, <3>1, FlushAccounts
    <3>2. CASE KeepEvents(events)
      BY <1>0, <2>2, <3>2 DEF KeepEvents
    <3> QED BY <2>3, <3>1, <3>2
  <2>5. UNCHANGED <<collecting, handler, telemetryTimer, intervals, destroyed>>
    BY <1>3 DEF Track
  <2>6. EventsAccounted'
    BY <1>0, <2>4, <2>5 DEF EventsAccounted
  <2> QED BY <1>0, <2>1, <2>4, <2>5, <2>6 DEF TMInv
<1>4. ASSUME NEW enabled \in BOOLEAN, SetEnabled(enabled) PROVE TMInv'
  <2>1. /\ collecting' \in [enabled : BOOLEAN, size : BufferSizes] /\ collecting'.enabled = enabled
        /\ UNCHANGED <<tracked, buffered, handler, handedOver, discarded>>
    BY <1>0, <1>4 DEF SetEnabled
  <2>2. CASE enabled
    BY <1>0, <1>4, <2>1, <2>2 DEF SetEnabled, StartTimer, TMInv, EventsAccounted
  <2>3. CASE ~enabled
    <3>1. telemetryTimer' = FALSE /\ intervals' = 0
      BY <1>4, <1>2, <2>3 DEF SetEnabled
    <3> QED BY <1>0, <2>1, <2>3, <3>1 DEF TMInv, EventsAccounted
  <2> QED BY <2>2, <2>3
<1>5. ASSUME NEW config \in [enabled : BOOLEAN, size : BufferSizes], UpdateTelemetry(config)
      PROVE  TMInv'
  <2>1. collecting' = config /\ config.enabled \in BOOLEAN /\ UNCHANGED <<tracked, handler>>
    BY <1>5 DEF UpdateTelemetry
  <2>2. CASE ~collecting.enabled /\ config.enabled
    BY <1>0, <1>5, <2>1, <2>2 DEF UpdateTelemetry, StartTimer, KeepEvents, TMInv, EventsAccounted
  <2>3. CASE collecting.enabled /\ ~config.enabled
    <3>1. StopTimer /\ FlushEvents(buffered) /\ UNCHANGED destroyed
      BY <1>5, <2>3 DEF UpdateTelemetry
    <3> QED BY <1>0, <1>1, <1>2, <2>1, <2>3, <3>1 DEF TMInv, EventsAccounted
  <2>4. CASE collecting.enabled = config.enabled
    <3>1. UNCHANGED <<telemetryTimer, intervals, destroyed>> /\ KeepEvents(buffered)
      BY <1>0, <1>5, <2>1, <2>4 DEF UpdateTelemetry
    <3> QED BY <1>0, <2>1, <2>4, <3>1 DEF KeepEvents, TMInv, EventsAccounted
  <2> QED BY <1>0, <2>1, <2>2, <2>3, <2>4
<1>6. CASE OnFlush
  BY <1>0, <1>6 DEF OnFlush, TMInv, EventsAccounted
<1>7. CASE FlushByCaller
  BY <1>0, <1>1, <1>7 DEF FlushByCaller, TMInv, EventsAccounted
<1>8. CASE FlushTimerFires
  BY <1>0, <1>1, <1>8 DEF FlushTimerFires, TMInv, EventsAccounted
<1>9. CASE DestroyTelemetry
  <2>1. /\ StopTimer /\ FlushEvents(buffered) /\ destroyed' = TRUE
        /\ UNCHANGED <<collecting, tracked, handler>>
    BY <1>9 DEF DestroyTelemetry
  <2> QED BY <1>0, <1>1, <1>2, <2>1 DEF TMInv, EventsAccounted
<1>10. CASE UNCHANGED tmVars
  BY <1>0, <1>10 DEF tmVars, TMInv, EventsAccounted
<1> QED BY <1>3, <1>4, <1>5, <1>6, <1>7, <1>8, <1>9, <1>10 DEF TMNext

-----------------------------------------------------------------------------
(* Environments.                                                            *)

CallState == [config : Config, todo : Seq(Listeners), own : BOOLEAN, inside : BOOLEAN]

\* A call has yet to tell listeners that follow, each once.
CallSound(call) ==
    /\ call \in CallState
    /\ IsInjective(call.todo) /\ ToSet(call.todo) \subseteq ToSet(follows)

\* Unless listeners switch, one call at most is under way, of the environment that is
\* active; and a client that follows is there, or will be told.
OnTheWay ==
    /\ Len(calls) <= 1
    /\ calls # <<>> => calls[1].config.of = active
    /\ "client" \in ToSet(follows) /\ active # NoEnvironment =>
          \/ client.config.of = active
          \/ calls # <<>> /\ "client" \in ToSet(calls[1].todo)

\* What is registered, active, followed and under way fits together.
ESInv ==
    /\ registered \in 0..MaxRegistered
    /\ DOMAIN registry \subseteq Environments
    /\ \A e \in DOMAIN registry : registry[e] \in Config /\ registry[e].of = e
    /\ active \in DOMAIN registry \cup {NoEnvironment}
    /\ follows \in Seq(Listeners) /\ IsInjective(follows)
    /\ calls \in Seq(CallState) /\ \A k \in DOMAIN calls : CallSound(calls[k])
    /\ client \in [config : Config, rpc : Config]
    /\ client.config.kind # "blocked" => client.rpc = client.config
    /\ ~nested => OnTheWay

LEMMA ESInvFollows == ESInv => ClientFollows
BY DEF ESInv, OnTheWay, ClientFollows

LEMMA ESInitInv == ESInit => ESInv
<1> SUFFICES ASSUME ESInit PROVE ESInv
  OBVIOUS
<1>1. MaxRegistered \in Nat
  BY EnvironmentAssumption
<1>2. NoConfig \in Config
  BY DEF Config
<1>3. /\ follows = <<>> /\ calls = <<>> /\ registered = 0 /\ active = NoEnvironment
      /\ client = [config |-> NoConfig, rpc |-> NoConfig] /\ DOMAIN registry = {}
  BY DEF ESInit
<1>4. /\ Len(<<>>) = 0 /\ DOMAIN <<>> = {}
      /\ <<>> \in Seq(Listeners) /\ <<>> \in Seq(CallState)
  OBVIOUS
<1>5. IsInjective(follows)
  BY <1>3, <1>4 DEF IsInjective
<1>6. ~nested => OnTheWay
  BY <1>3, <1>4 DEF OnTheWay
<1> QED BY <1>1, <1>2, <1>3, <1>4, <1>5, <1>6 DEF ESInv

\* Follow and StopFollowing change the listeners, and what calls have yet to tell, alike.
LEMMA FollowersChange ==
    ASSUME ESInv,
           follows' \in Seq(Listeners), IsInjective(follows'),
           calls' \in [DOMAIN calls -> CallState],
           \A k \in DOMAIN calls :
              /\ calls'[k].config = calls[k].config
              /\ IsInjective(calls'[k].todo) /\ ToSet(calls'[k].todo) \subseteq ToSet(follows')
              /\ "client" \in ToSet(calls[k].todo) /\ "client" \in ToSet(follows') =>
                    "client" \in ToSet(calls'[k].todo),
           client' \in [config : Config, rpc : Config],
           client'.config.kind # "blocked" => client'.rpc = client'.config,
           "client" \in ToSet(follows') /\ active # NoEnvironment =>
              client'.config.of = active \/ ("client" \in ToSet(follows) /\ client' = client),
           UNCHANGED <<registry, registered, active, switches, nested>>
    PROVE  ESInv'
<1>1. Len(calls) \in Nat /\ DOMAIN calls = 1..Len(calls)
  BY LenProperties DEF ESInv
<1>2. calls' \in Seq(CallState) /\ Len(calls') = Len(calls) /\ DOMAIN calls' = DOMAIN calls
  BY <1>1, FunctionIsSeq
<1>3. \A k \in DOMAIN calls' : CallSound(calls[k])'
  BY <1>2 DEF CallSound
<1>4. calls # <<>> <=> calls' # <<>>
  BY <1>2, NonEmpty DEF ESInv
<1>5. ASSUME ~nested PROVE OnTheWay'
  <2>1. OnTheWay /\ (calls # <<>> => 1 \in DOMAIN calls)
    BY <1>5, NonEmpty DEF ESInv
  <2> QED BY <1>2, <1>4, <2>1 DEF OnTheWay
<1> QED BY <1>2, <1>3, <1>5 DEF ESInv

LEMMA FollowKeepsESInv ==
    ASSUME ESInv, NEW l \in Listeners, Follow(l),
           client' \in [config : Config, rpc : Config],
           client'.config.kind # "blocked" => client'.rpc = client'.config,
           IF l = "client" THEN active # NoEnvironment => client'.config.of = active
           ELSE client' = client
    PROVE  ESInv'
<1>1. /\ follows' = Append(follows, l) /\ l \notin ToSet(follows)
      /\ calls' = [k \in DOMAIN calls |-> [calls[k] EXCEPT !.todo = Append(@, l)]]
      /\ UNCHANGED <<registry, registered, active, switches, nested>>
  BY DEF Follow
<1>2. /\ follows' \in Seq(Listeners) /\ ToSet(follows') = ToSet(follows) \cup {l}
      /\ IsInjective(follows')
  BY <1>1, AppendDistinct DEF ESInv
<1>3. ASSUME NEW k \in DOMAIN calls
      PROVE  /\ calls'[k] \in CallState /\ calls'[k].config = calls[k].config
             /\ IsInjective(calls'[k].todo) /\ ToSet(calls'[k].todo) = ToSet(calls[k].todo) \cup {l}
             /\ ToSet(calls[k].todo) \subseteq ToSet(follows)
  <2>1. /\ calls[k] \in CallState /\ calls[k].todo \in Seq(Listeners)
        /\ IsInjective(calls[k].todo) /\ ToSet(calls[k].todo) \subseteq ToSet(follows)
    BY DEF ESInv, CallSound, CallState
  <2>2. calls'[k] = [calls[k] EXCEPT !.todo = Append(calls[k].todo, l)]
    BY <1>1
  <2>3. /\ Append(calls[k].todo, l) \in Seq(Listeners)
        /\ ToSet(Append(calls[k].todo, l)) = ToSet(calls[k].todo) \cup {l}
        /\ IsInjective(Append(calls[k].todo, l))
    BY <1>1, <2>1, AppendDistinct
  <2>4. calls'[k].todo = Append(calls[k].todo, l)
    BY <2>1, <2>2 DEF CallState
  <2> QED BY <2>1, <2>2, <2>3, <2>4 DEF CallState
<1>4. calls' \in [DOMAIN calls -> CallState]
  BY <1>1, <1>3
<1>5. "client" \in ToSet(follows') /\ active # NoEnvironment =>
         client'.config.of = active \/ ("client" \in ToSet(follows) /\ client' = client)
  BY <1>2
<1> QED BY <1>1, <1>2, <1>3, <1>4, <1>5, FollowersChange

LEMMA StopFollowingKeepsESInv ==
    ASSUME ESInv, NEW l \in Listeners, StopFollowing(l)
    PROVE  ESInv'
<1>1. /\ follows' = Without(follows, l)
      /\ calls' = [k \in DOMAIN calls |-> [calls[k] EXCEPT !.todo = Without(@, l)]]
      /\ UNCHANGED <<registry, registered, active, client, switches, nested>>
  BY DEF StopFollowing
<1>2. /\ follows' \in Seq(Listeners) /\ ToSet(follows') = ToSet(follows) \ {l}
      /\ IsInjective(follows')
  BY <1>1, RemoveFromDistinct DEF ESInv
<1>3. ASSUME NEW k \in DOMAIN calls
      PROVE  /\ calls'[k] \in CallState /\ calls'[k].config = calls[k].config
             /\ IsInjective(calls'[k].todo) /\ ToSet(calls'[k].todo) = ToSet(calls[k].todo) \ {l}
             /\ ToSet(calls[k].todo) \subseteq ToSet(follows)
  <2>1. /\ calls[k] \in CallState /\ calls[k].todo \in Seq(Listeners)
        /\ IsInjective(calls[k].todo) /\ ToSet(calls[k].todo) \subseteq ToSet(follows)
    BY DEF ESInv, CallSound, CallState
  <2>2. calls'[k] = [calls[k] EXCEPT !.todo = Without(calls[k].todo, l)]
    BY <1>1
  <2>3. /\ Without(calls[k].todo, l) \in Seq(Listeners)
        /\ ToSet(Without(calls[k].todo, l)) = ToSet(calls[k].todo) \ {l}
        /\ IsInjective(Without(calls[k].todo, l))
    BY <2>1, RemoveFromDistinct
  <2>4. calls'[k].todo = Without(calls[k].todo, l)
    BY <2>1, <2>2 DEF CallState
  <2> QED BY <2>1, <2>2, <2>3, <2>4 DEF CallState
<1>4. calls' \in [DOMAIN calls -> CallState]
  BY <1>1, <1>3
<1> QED BY <1>1, <1>2, <1>3, <1>4, FollowersChange DEF ESInv

LEMMA SwitchKeepsESInv ==
    ASSUME ESInv, NEW e \in Environments, NEW own \in BOOLEAN, Switch(e, own)
    PROVE  ESInv'
<1> DEFINE call == [config |-> registry[e], todo |-> follows, own |-> own, inside |-> FALSE]
<1>1. /\ active' = e /\ e \in DOMAIN registry /\ calls' = Append(calls, call)
      /\ nested' = (calls # <<>>)
      /\ UNCHANGED <<registry, registered, follows, client>>
  BY DEF Switch
<1>2. call \in CallState /\ call.todo = follows /\ call.config.of = e
  BY <1>1 DEF ESInv, CallState
<1>3. IsInjective(call.todo) /\ ToSet(call.todo) \subseteq ToSet(follows')
  BY <1>1, <1>2 DEF ESInv
<1> HIDE DEF call
<1>4. /\ calls' \in Seq(CallState) /\ Len(calls') = Len(calls) + 1
      /\ \A k \in 1..Len(calls) : calls'[k] = calls[k]
      /\ calls'[Len(calls) + 1] = call
      /\ DOMAIN calls' = 1..(Len(calls) + 1) /\ DOMAIN calls = 1..Len(calls) /\ Len(calls) \in Nat
  BY <1>1, <1>2, AppendProperties, LenProperties DEF ESInv
<1>5. ASSUME NEW k \in DOMAIN calls' PROVE CallSound(calls[k])'
  <2>1. CASE k \in DOMAIN calls
    BY <1>1, <1>4, <2>1 DEF ESInv, CallSound
  <2>2. CASE k = Len(calls) + 1
    BY <1>2, <1>3, <1>4, <2>2 DEF CallSound
  <2> QED BY <1>4, <2>1, <2>2
<1>6. ASSUME ~nested' PROVE OnTheWay'
  <2>1. calls = <<>> /\ Len(calls) = 0
    BY <1>1, <1>6, EmptySeq
  <2>2. Len(calls') = 1 /\ calls'[1] = call
    BY <1>4, <2>1
  <2>3. calls' # <<>>
    BY <1>4, <2>2, NonEmpty
  <2> QED BY <1>1, <1>2, <2>2, <2>3 DEF OnTheWay
<1> QED BY <1>1, <1>4, <1>5, <1>6 DEF ESInv

LEMMA Applied ==
    ASSUME ESInv, NEW config \in Config, Apply(config)
    PROVE  /\ client' \in [config : Config, rpc : Config]
           /\ client'.config = config
           /\ client'.config.kind # "blocked" => client'.rpc = client'.config
BY DEF Apply, ESInv

\* The innermost call goes on: it has told one more listener, or a listener returns.
LEMMA CallGoesOn ==
    ASSUME ESInv, calls # <<>>, NEW call \in CallState, CallSound(call),
           call.config = Last(calls).config,
           calls' = [calls EXCEPT ![Len(calls)] = call],
           client' \in [config : Config, rpc : Config],
           client'.config.kind # "blocked" => client'.rpc = client'.config,
           \/ client'.config.of = call.config.of
           \/ client' = client /\ ("client" \in ToSet(Last(calls).todo) => "client" \in ToSet(call.todo)),
           UNCHANGED <<registry, registered, active, follows, switches, nested>>
    PROVE  ESInv'
<1>1. /\ Len(calls) \in 1..Len(calls) /\ DOMAIN calls = 1..Len(calls) /\ Len(calls) \in Nat
      /\ Last(calls) = calls[Len(calls)]
  <2>1. Len(calls) \in Nat \ {0} /\ DOMAIN calls = 1..Len(calls) /\ Last(calls) = calls[Len(calls)]
    BY FrontLast, LenProperties DEF ESInv
  <2> QED BY <2>1
<1>2. /\ calls' \in Seq(CallState) /\ Len(calls') = Len(calls)
      /\ \A k \in 1..Len(calls) : calls'[k] = IF k = Len(calls) THEN call ELSE calls[k]
  BY <1>1, ExceptSeq DEF ESInv
<1>3. DOMAIN calls' = DOMAIN calls /\ calls' # <<>>
  BY <1>1, <1>2, LenProperties, NonEmpty DEF ESInv
<1>4. ASSUME NEW k \in DOMAIN calls' PROVE CallSound(calls[k])'
  <2>1. calls'[k] = call \/ (calls'[k] = calls[k] /\ k \in DOMAIN calls)
    BY <1>1, <1>2, <1>3
  <2> QED BY <2>1 DEF ESInv, CallSound
<1>5. ASSUME ~nested' PROVE OnTheWay'
  <2>1. OnTheWay /\ Len(calls) = 1
    BY <1>1, <1>5 DEF ESInv, OnTheWay
  <2>2. calls'[1] = call /\ Last(calls) = calls[1] /\ Len(calls') = 1
    BY <1>1, <1>2, <2>1
  <2> QED BY <1>3, <2>1, <2>2 DEF OnTheWay
<1> QED BY <1>2, <1>4, <1>5 DEF ESInv

LEMMA TellKeepsESInv == ESInv /\ Tell => ESInv'
<1> SUFFICES ASSUME ESInv, Tell PROVE ESInv'
  OBVIOUS
<1> DEFINE call == Last(calls)
           l    == Head(call.todo)
           told == [call EXCEPT !.todo = Tail(@), !.inside = (l = "application")]
<1>1. /\ calls # <<>> /\ call.todo # <<>> /\ calls' = [calls EXCEPT ![Len(calls)] = told]
      /\ IF l = "client" THEN Apply(call.config) ELSE UNCHANGED client
      /\ UNCHANGED <<registry, registered, active, follows, switches, nested>>
  BY DEF Tell, Acting
<1>2. Len(calls) \in DOMAIN calls /\ call = calls[Len(calls)]
  BY <1>1, FrontLast DEF ESInv
<1>3. /\ call \in CallState /\ call.todo \in Seq(Listeners) /\ call.config \in Config
      /\ IsInjective(call.todo) /\ ToSet(call.todo) \subseteq ToSet(follows)
  BY <1>2 DEF ESInv, CallSound, CallState
<1> HIDE DEF call
<1>4. /\ l \in Listeners /\ Tail(call.todo) \in Seq(Listeners)
      /\ ToSet(call.todo) = ToSet(Tail(call.todo)) \cup {l}
      /\ IsInjective(Tail(call.todo))
  BY <1>1, <1>3, TailDistinct
<1>5. told = [call EXCEPT !.todo = Tail(call.todo), !.inside = (l = "application")]
  OBVIOUS
<1>6. told \in CallState /\ told.todo = Tail(call.todo) /\ told.config = call.config
  BY <1>3, <1>4, <1>5 DEF CallState
<1> HIDE DEF told, l
<1>7. CallSound(told)
  BY <1>3, <1>4, <1>6 DEF CallSound
<1>8. CASE l = "client"
  <2>1. /\ client' \in [config : Config, rpc : Config] /\ client'.config = call.config
        /\ client'.config.kind # "blocked" => client'.rpc = client'.config
    BY <1>1, <1>3, <1>8, Applied
  <2> QED BY <1>1, <1>6, <1>7, <2>1, CallGoesOn DEF call
<1>9. CASE l # "client"
  <2>1. client' = client /\ ("client" \in ToSet(call.todo) => "client" \in ToSet(told.todo))
    BY <1>1, <1>4, <1>6, <1>9
  <2>2. /\ client' \in [config : Config, rpc : Config]
        /\ client'.config.kind # "blocked" => client'.rpc = client'.config
    BY <2>1 DEF ESInv
  <2> QED BY <1>1, <1>6, <1>7, <2>1, <2>2, CallGoesOn DEF call
<1> QED BY <1>8, <1>9

LEMMA ListenerReturnsKeepsESInv == ESInv /\ ListenerReturns => ESInv'
<1> SUFFICES ASSUME ESInv, ListenerReturns PROVE ESInv'
  OBVIOUS
<1> DEFINE call == Last(calls)
           after == [call EXCEPT !.inside = FALSE]
<1>1. /\ calls # <<>> /\ calls' = [calls EXCEPT ![Len(calls)].inside = FALSE]
      /\ UNCHANGED <<registry, registered, active, follows, client, switches, nested>>
  BY DEF ListenerReturns
<1>2. Len(calls) \in DOMAIN calls /\ call = calls[Len(calls)]
  BY <1>1, FrontLast DEF ESInv
<1>3. calls' = [calls EXCEPT ![Len(calls)] = after]
  BY <1>1, <1>2
<1>4. call \in CallState /\ CallSound(call)
  BY <1>2 DEF ESInv, CallSound
<1>5. after \in CallState /\ after.todo = call.todo /\ after.config = call.config
  BY <1>4 DEF CallState
<1>6. CallSound(after)
  BY <1>4, <1>5 DEF CallSound
<1>7. /\ client' \in [config : Config, rpc : Config]
      /\ client'.config.kind # "blocked" => client'.rpc = client'.config
  BY <1>1 DEF ESInv
<1> HIDE DEF after
<1> QED BY <1>1, <1>3, <1>5, <1>6, <1>7, CallGoesOn

LEMMA SwitchReturnsKeepsESInv == ESInv /\ SwitchReturns => ESInv'
<1> SUFFICES ASSUME ESInv, SwitchReturns PROVE ESInv'
  OBVIOUS
<1> DEFINE call == Last(calls)
<1>1. /\ calls # <<>> /\ call.todo = <<>> /\ calls' = Front(calls)
      /\ IF call.own THEN Apply(call.config) ELSE UNCHANGED client
      /\ UNCHANGED <<registry, registered, active, follows, switches, nested>>
  BY DEF SwitchReturns, Acting
<1>2. /\ Len(calls) \in Nat \ {0} /\ call = calls[Len(calls)] /\ call \in CallState
      /\ calls' \in Seq(CallState) /\ Len(calls') = Len(calls) - 1
      /\ DOMAIN calls' = 1..(Len(calls) - 1)
      /\ \A k \in 1..(Len(calls) - 1) : calls'[k] = calls[k]
  BY <1>1, FrontLast DEF ESInv
<1>3. call.config \in Config
  BY <1>2 DEF CallState
<1> HIDE DEF call
<1>4. /\ client' \in [config : Config, rpc : Config]
      /\ client'.config.kind # "blocked" => client'.rpc = client'.config
      /\ client' = client \/ client'.config = call.config
  BY <1>1, <1>3, Applied DEF ESInv
<1>5. ASSUME NEW k \in DOMAIN calls' PROVE CallSound(calls[k])'
  <2>1. k \in DOMAIN calls
    BY <1>2, LenProperties DEF ESInv
  <2> QED BY <1>1, <1>2, <2>1 DEF ESInv, CallSound
<1>6. ASSUME ~nested' PROVE OnTheWay'
  <2>1. OnTheWay /\ Len(calls) = 1
    BY <1>1, <1>2, <1>6 DEF ESInv, OnTheWay
  <2>2. calls' = <<>> /\ Len(calls') = 0
    BY <1>2, <2>1, NonEmpty
  <2>3. "client" \notin ToSet(calls[1].todo) /\ call = calls[1]
    BY <1>1, <1>2, <2>1 DEF ToSet
  <2> QED BY <1>1, <1>4, <2>1, <2>2, <2>3 DEF OnTheWay
<1> QED BY <1>1, <1>2, <1>4, <1>5, <1>6 DEF ESInv

LEMMA ESNextInv == ESInv /\ [ESNext]_esVars => ESInv'
<1> SUFFICES ASSUME ESInv, [ESNext]_esVars PROVE ESInv'
  OBVIOUS
<1>1. CASE ESSystem
  BY <1>1, TellKeepsESInv, ListenerReturnsKeepsESInv, SwitchReturnsKeepsESInv DEF ESSystem
<1>2. CASE OnChange
  <2>1. /\ client' \in [config : Config, rpc : Config]
        /\ client'.config.kind # "blocked" => client'.rpc = client'.config
    BY <1>2 DEF OnChange, ESInv
  <2> QED BY <1>2, <2>1, FollowKeepsESInv DEF OnChange, Listeners
<1>3. CASE Construct
  <2>1. /\ client' \in [config : Config, rpc : Config]
        /\ client'.config.kind # "blocked" => client'.rpc = client'.config
        /\ active # NoEnvironment => client'.config.of = active
    BY <1>3 DEF Construct, ESInv
  <2> QED BY <1>3, <2>1, FollowKeepsESInv DEF Construct, Listeners
<1>4. ASSUME NEW l \in Listeners, StopFollowing(l) PROVE ESInv'
  BY <1>4, StopFollowingKeepsESInv
<1>5. ASSUME NEW e \in Environments, UnregisterEnvironment(e) PROVE ESInv'
  BY <1>5 DEF UnregisterEnvironment, ESInv, CallSound, OnTheWay
<1>6. ASSUME NEW e \in Environments, NEW kind \in Kinds, RegisterEnvironment(e, kind) PROVE ESInv'
  <2>1. /\ registered' \in 1..MaxRegistered
        /\ registry' = [d \in DOMAIN registry \cup {e} |->
                 IF d = e THEN [of |-> e, kind |-> kind, number |-> registered'] ELSE registry[d]]
        /\ UNCHANGED <<active, follows, client, calls, switches, nested>>
    BY <1>6, EnvironmentAssumption DEF RegisterEnvironment, ESInv
  <2>2. \A d \in DOMAIN registry' : registry'[d] \in Config /\ registry'[d].of = d
    BY <2>1 DEF ESInv, Config
  <2>3. DOMAIN registry' = DOMAIN registry \cup {e} /\ registered' \in 0..MaxRegistered
    BY <2>1
  <2> QED BY <2>1, <2>2, <2>3 DEF ESInv, CallSound, OnTheWay
<1>7. ASSUME NEW e \in Environments, NEW own \in BOOLEAN, Switch(e, own) PROVE ESInv'
  BY <1>7, SwitchKeepsESInv
<1>8. CASE UNCHANGED esVars
  BY <1>8 DEF esVars, ESInv, CallSound, OnTheWay
<1> QED BY <1>1, <1>2, <1>3, <1>4, <1>5, <1>6, <1>7, <1>8 DEF ESNext

-----------------------------------------------------------------------------
(* Transitions.                                                             *)

States == ToSet(Order) \cup {"created", "failed"}
EmitState == [event : Nat, todo : Seq(Subscribers), running : Subscribers \cup {NoListener}]

TLTyped ==
    /\ emitted \in Seq(States)
    /\ subscribed \in Seq(Subscribers) /\ IsInjective(subscribed)
    /\ subscribed # <<>> /\ subscribed[1] = "first"
    /\ since \in [Subscribers -> Nat]
    /\ emits \in Seq(EmitState)
    /\ heard \in [Subscribers -> Seq(Nat)]

\* A call of emit has an event of its own, and yet to call listeners that are
\* subscribed, each once, which have not heard of it.
EmitsSound ==
    /\ \A k \in DOMAIN emits :
          /\ emits[k] \in EmitState /\ emits[k].event \in 1..Len(emitted)
          /\ IsInjective(emits[k].todo) /\ ToSet(emits[k].todo) \subseteq ToSet(subscribed)
          /\ \A l \in ToSet(emits[k].todo) : emits[k].event \notin ToSet(heard[l])
    /\ \A j, k \in DOMAIN emits : emits[j].event = emits[k].event => j = k

HeardOnce ==
    \A l \in Subscribers :
        /\ IsInjective(heard[l]) /\ ToSet(heard[l]) \subseteq 1..Len(emitted)
        /\ l \notin ToSet(subscribed) => heard[l] = <<>>

\* What a listener should have heard, it has, or some call of emit will tell it.
HeardOrDue ==
    \A l \in ToSet(subscribed), e \in Nat :
        since[l] < e /\ e <= Len(emitted) /\ e \notin cut /\ Matches(l, emitted[e]) =>
            \/ e \in ToSet(heard[l])
            \/ \E k \in DOMAIN emits : emits[k].event = e /\ l \in ToSet(emits[k].todo)

\* The first listener is called first of all, before anyone can act on the event.
FirstInOrder ==
    /\ \A k \in DOMAIN emits :
          "first" \in ToSet(emits[k].todo) =>
              /\ k = Len(emits) /\ emits[k].running = NoListener /\ emits[k].todo[1] = "first"
              /\ \A i \in DOMAIN heard["first"] : heard["first"][i] < emits[k].event
    /\ \A i, j \in DOMAIN heard["first"] : i < j => heard["first"][i] < heard["first"][j]

TLInv == TLTyped /\ EmitsSound /\ HeardOnce /\ HeardOrDue /\ FirstInOrder

LEMMA TLInvHears == TLInv => TransitionsHeard
<1> SUFFICES ASSUME TLInv PROVE TransitionsHeard
  OBVIOUS
<1>1. ASSUME emits = <<>>, NEW k \in DOMAIN subscribed,
             NEW e \in (since[subscribed[k]] + 1)..Len(emitted),
             e \notin cut, Matches(subscribed[k], emitted[e])
      PROVE  e \in ToSet(heard[subscribed[k]])
  <2>1. subscribed[k] \in ToSet(subscribed) /\ subscribed[k] \in Subscribers
    <3>1. DOMAIN subscribed = 1..Len(subscribed)
      BY LenProperties DEF TLInv, TLTyped
    <3> QED BY <3>1, ElementOfSeq DEF TLInv, TLTyped, ToSet
  <2>2. since[subscribed[k]] \in Nat /\ Len(emitted) \in Nat
    BY <2>1, LenProperties DEF TLInv, TLTyped
  <2>3. e \in Nat /\ since[subscribed[k]] < e /\ e <= Len(emitted)
    BY <2>2
  <2>4. DOMAIN emits = {}
    BY <1>1
  <2> QED BY <1>1, <2>1, <2>3, <2>4 DEF TLInv, HeardOrDue
<1> QED BY <1>1 DEF TLInv, HeardOnce, FirstInOrder, TransitionsHeard

LEMMA TLInitInv == TLInit => TLInv
<1> SUFFICES ASSUME TLInit PROVE TLInv
  OBVIOUS
<1>1. /\ emitted = <<>> /\ subscribed = <<"first">> /\ emits = <<>>
      /\ since = [l \in Subscribers |-> 0] /\ heard = [l \in Subscribers |-> <<>>]
  BY DEF TLInit
<1>2. /\ <<>> \in Seq(States) /\ <<>> \in Seq(EmitState) /\ <<>> \in Seq(Nat)
      /\ Len(<<>>) = 0 /\ DOMAIN <<>> = {}
  OBVIOUS
<1>3. /\ subscribed \in Seq(Subscribers) /\ subscribed # <<>>
      /\ DOMAIN subscribed = {1} /\ subscribed[1] = "first"
  BY <1>1 DEF Subscribers
<1>4. TLTyped
  BY <1>1, <1>2, <1>3 DEF TLTyped, IsInjective
<1>5. EmitsSound /\ HeardOnce /\ FirstInOrder
  BY <1>1, <1>2 DEF EmitsSound, HeardOnce, FirstInOrder, IsInjective, ToSet, Subscribers
<1>6. HeardOrDue
  BY <1>1, <1>2, <1>3 DEF HeardOrDue, ToSet, Subscribers
<1> QED BY <1>4, <1>5, <1>6 DEF TLInv

LEMMA NobodyWaitsBehind ==
    ASSUME TLInv, Running, NEW k \in DOMAIN emits
    PROVE  "first" \notin ToSet(emits[k].todo)
<1>1. emits # <<>>
  OBVIOUS
<1>2. Last(emits) = emits[Len(emits)] /\ Last(emits).running # NoListener
  BY <1>1, FrontLast DEF Running, TLInv, TLTyped
<1> QED BY <1>2 DEF TLInv, FirstInOrder

LEMMA EmitKeepsTLInv ==
    ASSUME TLInv, Running, NEW state \in States, Emit(state), UNCHANGED <<subscribed, since, heard, cut>>
    PROVE  TLInv'
<1> DEFINE n == Len(emitted) + 1
           m == Len(emits) + 1
           new == [event |-> n, todo |-> subscribed, running |-> NoListener]
<1>1. /\ emitted' \in Seq(States) /\ Len(emitted') = n /\ Len(emitted) \in Nat /\ n \in Nat
      /\ \A e \in 1..Len(emitted) : emitted'[e] = emitted[e]
  BY AppendProperties, LenProperties DEF Emit, TLInv, TLTyped
<1>2. emits' = Append(emits, new)
  BY <1>1 DEF Emit
<1>3. new \in EmitState /\ new.event = n /\ new.todo = subscribed /\ new.running = NoListener
  BY <1>1 DEF EmitState, TLInv, TLTyped
<1> HIDE DEF new
<1>4. /\ emits' \in Seq(EmitState) /\ Len(emits') = m /\ Len(emits) \in Nat
      /\ DOMAIN emits = 1..Len(emits) /\ DOMAIN emits' = 1..m
      /\ \A k \in DOMAIN emits : emits'[k] = emits[k]
      /\ emits'[m] = new
  BY <1>2, <1>3, AppendProperties, LenProperties DEF TLInv, TLTyped
<1>5. /\ m \in DOMAIN emits' /\ m \notin DOMAIN emits /\ DOMAIN emits \subseteq DOMAIN emits'
      /\ \A k \in DOMAIN emits' : k \in DOMAIN emits \/ k = m
  BY <1>4
<1>6. TLTyped'
  BY <1>1, <1>4 DEF TLInv, TLTyped
<1>7. \A l \in Subscribers : ToSet(heard[l]) \subseteq 1..Len(emitted)
  BY DEF TLInv, HeardOnce
<1>8. ToSet(subscribed) \subseteq Subscribers
  BY LenProperties DEF TLInv, TLTyped, ToSet
<1>9. EmitsSound'
  <2>1. ASSUME NEW k \in DOMAIN emits'
        PROVE  /\ emits'[k] \in EmitState /\ emits'[k].event \in 1..Len(emitted')
               /\ IsInjective(emits'[k].todo) /\ ToSet(emits'[k].todo) \subseteq ToSet(subscribed')
               /\ \A l \in ToSet(emits'[k].todo) : emits'[k].event \notin ToSet(heard'[l])
    <3>1. CASE k \in DOMAIN emits
      BY <1>1, <1>4, <3>1 DEF TLInv, EmitsSound
    <3>2. CASE k = m
      <4>1. \A l \in ToSet(subscribed) : n \notin ToSet(heard[l])
        BY <1>1, <1>7, <1>8
      <4> QED BY <1>1, <1>3, <1>4, <3>2, <4>1 DEF TLInv, TLTyped
    <3> QED BY <1>5, <3>1, <3>2
  <2>2. \A k \in DOMAIN emits : emits'[k].event # emits'[m].event
    BY <1>1, <1>3, <1>4 DEF TLInv, EmitsSound
  <2>3. \A j, k \in DOMAIN emits' : emits'[j].event = emits'[k].event => j = k
    BY <1>4, <1>5, <2>2 DEF TLInv, EmitsSound
  <2> QED BY <2>1, <2>3 DEF EmitsSound
<1>10. HeardOnce'
  <2>1. HeardOnce /\ heard' = heard /\ subscribed' = subscribed
    BY DEF TLInv
  <2>2. 1..Len(emitted) \subseteq 1..Len(emitted')
    BY <1>1
  <2> QED BY <2>1, <2>2, Zenon DEF HeardOnce
<1>11. HeardOrDue'
  <2> SUFFICES ASSUME NEW l \in ToSet(subscribed), NEW e \in Nat, since[l] < e, e <= n,
                      e \notin cut, Matches(l, emitted'[e]), e \notin ToSet(heard[l])
               PROVE  \E k \in DOMAIN emits' : emits'[k].event = e /\ l \in ToSet(emits'[k].todo)
    BY <1>1 DEF HeardOrDue, Matches
  <2>1. CASE e = n
    BY <1>3, <1>4, <1>5, <2>1
  <2>2. CASE e # n
    <3>1. e <= Len(emitted) /\ e \in 1..Len(emitted)
      <4>1. l \in Subscribers /\ since[l] \in Nat
        BY <1>8 DEF TLInv, TLTyped
      <4> QED BY <1>1, <2>2, <4>1
    <3>2. \E k \in DOMAIN emits : emits[k].event = e /\ l \in ToSet(emits[k].todo)
      BY <1>1, <3>1 DEF TLInv, HeardOrDue
    <3> QED BY <1>4, <1>5, <3>2
  <2> QED BY <2>1, <2>2
<1>12. FirstInOrder'
  <2>1. ASSUME NEW k \in DOMAIN emits', "first" \in ToSet(emits'[k].todo)
        PROVE  /\ k = Len(emits') /\ emits'[k].running = NoListener /\ emits'[k].todo[1] = "first"
               /\ \A i \in DOMAIN heard["first"] : heard["first"][i] < emits'[k].event
    <3>1. k = m
      BY <1>4, <1>5, <2>1, NobodyWaitsBehind
    <3>2. \A i \in DOMAIN heard["first"] : heard["first"][i] \in 1..Len(emitted)
      BY <1>7 DEF ToSet, Subscribers
    <3> QED BY <1>1, <1>3, <1>4, <3>1, <3>2 DEF TLInv, TLTyped
  <2> QED BY <2>1 DEF TLInv, FirstInOrder
<1> QED BY <1>6, <1>9, <1>10, <1>11, <1>12 DEF TLInv

LEMMA SubscribeKeepsTLInv ==
    ASSUME TLInv, NEW l \in Subscribers, Subscribe(l)
    PROVE  TLInv'
<1>1. /\ Running /\ l \notin ToSet(subscribed) /\ subscribed' = Append(subscribed, l)
      /\ since' = [since EXCEPT ![l] = Len(emitted)]
      /\ emits' = [k \in DOMAIN emits |-> [emits[k] EXCEPT !.todo = Append(@, l)]]
      /\ UNCHANGED <<emitted, heard, cut>>
  BY DEF Subscribe
<1>2. /\ subscribed' \in Seq(Subscribers) /\ IsInjective(subscribed')
      /\ ToSet(subscribed') = ToSet(subscribed) \cup {l}
      /\ subscribed' # <<>> /\ subscribed'[1] = "first"
  <2>1. /\ subscribed \in Seq(Subscribers) /\ IsInjective(subscribed)
        /\ subscribed # <<>> /\ subscribed[1] = "first"
    BY DEF TLInv, TLTyped
  <2> QED BY <1>1, <2>1, AppendDistinct
<1>3. Len(emitted) \in Nat /\ Len(emits) \in Nat /\ DOMAIN emits = 1..Len(emits)
  BY LenProperties DEF TLInv, TLTyped
<1>4. ASSUME NEW k \in DOMAIN emits
      PROVE  /\ emits'[k] \in EmitState /\ emits'[k].event = emits[k].event
             /\ IsInjective(emits'[k].todo) /\ ToSet(emits'[k].todo) = ToSet(emits[k].todo) \cup {l}
             /\ ToSet(emits[k].todo) \subseteq ToSet(subscribed)
  <2>1. /\ emits[k] \in EmitState /\ emits[k].todo \in Seq(Subscribers)
        /\ IsInjective(emits[k].todo) /\ ToSet(emits[k].todo) \subseteq ToSet(subscribed)
    BY DEF TLInv, EmitsSound, EmitState
  <2>2. emits'[k] = [emits[k] EXCEPT !.todo = Append(emits[k].todo, l)]
    BY <1>1
  <2>3. /\ Append(emits[k].todo, l) \in Seq(Subscribers)
        /\ ToSet(Append(emits[k].todo, l)) = ToSet(emits[k].todo) \cup {l}
        /\ IsInjective(Append(emits[k].todo, l))
    BY <1>1, <2>1, AppendDistinct
  <2>4. emits'[k].todo = Append(emits[k].todo, l) /\ emits'[k].event = emits[k].event
    BY <2>1, <2>2 DEF EmitState
  <2> QED BY <2>1, <2>2, <2>3, <2>4 DEF EmitState
<1>5. /\ emits' \in Seq(EmitState) /\ DOMAIN emits' = DOMAIN emits
  <2>1. emits' \in [1..Len(emits) -> EmitState]
    BY <1>1, <1>3, <1>4
  <2> QED BY <1>3, <2>1, FunctionIsSeq
<1>6. /\ since' \in [Subscribers -> Nat] /\ since'[l] = Len(emitted)
      /\ \A x \in Subscribers \ {l} : since'[x] = since[x]
  BY <1>1, <1>3 DEF TLInv, TLTyped
<1>7. TLTyped'
  BY <1>1, <1>2, <1>5, <1>6 DEF TLInv, TLTyped
<1>8. heard[l] = <<>> /\ ToSet(heard[l]) = {}
  BY <1>1 DEF TLInv, HeardOnce, ToSet
<1>9. EmitsSound'
  <2>1. ASSUME NEW k \in DOMAIN emits'
        PROVE  /\ emits'[k] \in EmitState /\ emits'[k].event \in 1..Len(emitted')
               /\ IsInjective(emits'[k].todo) /\ ToSet(emits'[k].todo) \subseteq ToSet(subscribed')
               /\ \A x \in ToSet(emits'[k].todo) : emits'[k].event \notin ToSet(heard'[x])
    <3>1. k \in DOMAIN emits /\ emits[k].event \in 1..Len(emitted)
      BY <1>5 DEF TLInv, EmitsSound
    <3>2. \A x \in ToSet(emits[k].todo) : emits[k].event \notin ToSet(heard[x])
      BY <3>1 DEF TLInv, EmitsSound
    <3>3. ToSet(emits'[k].todo) = ToSet(emits[k].todo) \cup {l} /\ emits'[k].event = emits[k].event
      BY <1>4, <3>1
    <3>4. \A x \in ToSet(emits'[k].todo) : emits'[k].event \notin ToSet(heard'[x])
      BY <1>1, <1>8, <3>2, <3>3
    <3> QED BY <1>1, <1>2, <1>4, <3>1, <3>4
  <2>2. \A j, k \in DOMAIN emits' : emits'[j].event = emits'[k].event => j = k
    BY <1>4, <1>5 DEF TLInv, EmitsSound
  <2> QED BY <2>1, <2>2 DEF EmitsSound
<1>10. HeardOnce'
  BY <1>1, <1>2 DEF TLInv, HeardOnce
<1>11. HeardOrDue'
  <2> SUFFICES ASSUME NEW x \in ToSet(subscribed'), NEW e \in Nat, since'[x] < e, e <= Len(emitted'),
                      e \notin cut', Matches(x, emitted'[e]), e \notin ToSet(heard'[x])
               PROVE  \E k \in DOMAIN emits' : emits'[k].event = e /\ x \in ToSet(emits'[k].todo)
    BY DEF HeardOrDue, Matches
  <2>1. x # l /\ emitted' = emitted /\ heard' = heard /\ cut' = cut
    BY <1>1, <1>3, <1>6
  <2>2. x \in ToSet(subscribed) /\ x \in Subscribers
    <3>1. ToSet(subscribed') \subseteq Subscribers
      BY <1>2, LenProperties DEF ToSet
    <3> QED BY <1>2, <2>1, <3>1
  <2>3. \E k \in DOMAIN emits : emits[k].event = e /\ x \in ToSet(emits[k].todo)
    BY <1>6, <2>1, <2>2 DEF TLInv, HeardOrDue
  <2> QED BY <1>4, <1>5, <2>3
<1>12. FirstInOrder'
  <2>1. l # "first"
    <3>1. 1 \in DOMAIN subscribed
      BY NonEmpty DEF TLInv, TLTyped
    <3> QED BY <1>1, <3>1 DEF TLInv, TLTyped, ToSet
  <2>2. \A k \in DOMAIN emits' : "first" \notin ToSet(emits'[k].todo)
    <3>1. \A k \in DOMAIN emits : "first" \notin ToSet(emits[k].todo)
      BY <1>1, NobodyWaitsBehind
    <3> QED BY <1>4, <1>5, <2>1, <3>1
  <2> QED BY <1>1, <2>2 DEF TLInv, FirstInOrder
<1> QED BY <1>7, <1>9, <1>10, <1>11, <1>12 DEF TLInv

LEMMA UnsubscribeKeepsTLInv ==
    ASSUME TLInv, NEW l \in Subscribers, Unsubscribe(l)
    PROVE  TLInv'
<1>1. /\ Running /\ l \in ToSet(subscribed) /\ l # "first" /\ subscribed' = Without(subscribed, l)
      /\ since' = [since EXCEPT ![l] = 0] /\ heard' = [heard EXCEPT ![l] = <<>>]
      /\ emits' = [k \in DOMAIN emits |-> [emits[k] EXCEPT !.todo = Without(@, l)]]
      /\ UNCHANGED <<emitted, cut>>
  BY DEF Unsubscribe, Gone, Without
<1>2. /\ subscribed' \in Seq(Subscribers) /\ IsInjective(subscribed')
      /\ ToSet(subscribed') = ToSet(subscribed) \ {l}
      /\ subscribed' # <<>> /\ subscribed'[1] = "first"
  BY <1>1, RemoveFromDistinct DEF TLInv, TLTyped
<1>3. Len(emitted) \in Nat /\ Len(emits) \in Nat /\ DOMAIN emits = 1..Len(emits)
  BY LenProperties DEF TLInv, TLTyped
<1>4. ASSUME NEW k \in DOMAIN emits
      PROVE  /\ emits'[k] \in EmitState /\ emits'[k].event = emits[k].event
             /\ IsInjective(emits'[k].todo) /\ ToSet(emits'[k].todo) = ToSet(emits[k].todo) \ {l}
             /\ ToSet(emits[k].todo) \subseteq ToSet(subscribed)
  <2>1. /\ emits[k] \in EmitState /\ emits[k].todo \in Seq(Subscribers)
        /\ IsInjective(emits[k].todo) /\ ToSet(emits[k].todo) \subseteq ToSet(subscribed)
    BY DEF TLInv, EmitsSound, EmitState
  <2>2. emits'[k] = [emits[k] EXCEPT !.todo = Without(emits[k].todo, l)]
    BY <1>1
  <2>3. /\ Without(emits[k].todo, l) \in Seq(Subscribers)
        /\ ToSet(Without(emits[k].todo, l)) = ToSet(emits[k].todo) \ {l}
        /\ IsInjective(Without(emits[k].todo, l))
    BY <2>1, RemoveFromDistinct
  <2>4. emits'[k].todo = Without(emits[k].todo, l) /\ emits'[k].event = emits[k].event
    BY <2>1, <2>2 DEF EmitState
  <2> QED BY <2>1, <2>2, <2>3, <2>4 DEF EmitState
<1>5. /\ emits' \in Seq(EmitState) /\ DOMAIN emits' = DOMAIN emits
  <2>1. emits' \in [1..Len(emits) -> EmitState]
    BY <1>1, <1>3, <1>4
  <2> QED BY <1>3, <2>1, FunctionIsSeq
<1>6. /\ since' \in [Subscribers -> Nat] /\ heard' \in [Subscribers -> Seq(Nat)]
      /\ heard'[l] = <<>> /\ \A x \in Subscribers \ {l} : since'[x] = since[x] /\ heard'[x] = heard[x]
  <2>1. <<>> \in Seq(Nat)
    OBVIOUS
  <2> QED BY <1>1, <2>1 DEF TLInv, TLTyped
<1>7. TLTyped'
  BY <1>1, <1>2, <1>5, <1>6 DEF TLInv, TLTyped
<1>8. ToSet(subscribed') \subseteq Subscribers \ {l}
  <2>1. ToSet(subscribed) \subseteq Subscribers
    BY LenProperties DEF TLInv, TLTyped, ToSet
  <2> QED BY <1>2, <2>1
<1>9. EmitsSound'
  <2>1. ASSUME NEW k \in DOMAIN emits'
        PROVE  /\ emits'[k] \in EmitState /\ emits'[k].event \in 1..Len(emitted')
               /\ IsInjective(emits'[k].todo) /\ ToSet(emits'[k].todo) \subseteq ToSet(subscribed')
               /\ \A x \in ToSet(emits'[k].todo) : emits'[k].event \notin ToSet(heard'[x])
    <3>1. k \in DOMAIN emits /\ emits[k].event \in 1..Len(emitted)
      BY <1>5 DEF TLInv, EmitsSound
    <3>2. \A x \in ToSet(emits[k].todo) : emits[k].event \notin ToSet(heard[x])
      BY <3>1 DEF TLInv, EmitsSound
    <3>3. ToSet(emits'[k].todo) = ToSet(emits[k].todo) \ {l} /\ emits'[k].event = emits[k].event
      BY <1>4, <3>1
    <3>4. ToSet(emits'[k].todo) \subseteq ToSet(subscribed')
      BY <1>2, <1>4, <3>1
    <3>5. \A x \in ToSet(emits'[k].todo) : emits'[k].event \notin ToSet(heard'[x])
      BY <1>6, <1>8, <3>2, <3>3, <3>4
    <3> QED BY <1>1, <1>4, <3>1, <3>4, <3>5
  <2>2. \A j, k \in DOMAIN emits' : emits'[j].event = emits'[k].event => j = k
    BY <1>4, <1>5 DEF TLInv, EmitsSound
  <2> QED BY <2>1, <2>2 DEF EmitsSound
<1>10. HeardOnce'
  <2>1. IsInjective(<<>>) /\ ToSet(<<>>) = {}
    BY DEF IsInjective, ToSet
  <2>2. ASSUME NEW x \in Subscribers
        PROVE  /\ IsInjective(heard'[x]) /\ ToSet(heard'[x]) \subseteq 1..Len(emitted)
               /\ x \notin ToSet(subscribed') => heard'[x] = <<>>
    <3>1. CASE x = l
      BY <1>6, <2>1, <3>1
    <3>2. CASE x # l
      BY <1>2, <1>6, <3>2 DEF TLInv, HeardOnce
    <3> QED BY <3>1, <3>2
  <2> QED BY <1>1, <2>2 DEF HeardOnce
<1>11. HeardOrDue'
  <2> SUFFICES ASSUME NEW x \in ToSet(subscribed'), NEW e \in Nat, since'[x] < e, e <= Len(emitted'),
                      e \notin cut', Matches(x, emitted'[e]), e \notin ToSet(heard'[x])
               PROVE  \E k \in DOMAIN emits' : emits'[k].event = e /\ x \in ToSet(emits'[k].todo)
    BY DEF HeardOrDue, Matches
  <2>1. x # l /\ x \in ToSet(subscribed) /\ since'[x] = since[x] /\ heard'[x] = heard[x]
    BY <1>2, <1>6, <1>8
  <2>2. \E k \in DOMAIN emits : emits[k].event = e /\ x \in ToSet(emits[k].todo)
    BY <1>1, <2>1 DEF TLInv, HeardOrDue
  <2> QED BY <1>4, <1>5, <2>1, <2>2
<1>12. FirstInOrder'
  <2>1. \A k \in DOMAIN emits' : "first" \notin ToSet(emits'[k].todo)
    BY <1>1, <1>4, <1>5, NobodyWaitsBehind
  <2>2. heard'["first"] = heard["first"]
    BY <1>1, <1>6 DEF Subscribers
  <2> QED BY <2>1, <2>2 DEF TLInv, FirstInOrder
<1> QED BY <1>7, <1>9, <1>10, <1>11, <1>12 DEF TLInv

\* The innermost call of emit goes on: it has come to one more listener, or one returns.
LEMMA EmitGoesOn ==
    ASSUME TLInv, emits # <<>>, NEW emit \in EmitState,
           emits' = [emits EXCEPT ![Len(emits)] = emit],
           emit.event = Last(emits).event,
           IsInjective(emit.todo), ToSet(emit.todo) \subseteq ToSet(Last(emits).todo),
           "first" \notin ToSet(emit.todo),
           heard' \in [Subscribers -> Seq(Nat)],
           \A l \in Subscribers :
              \/ heard'[l] = heard[l]
              \/ /\ heard'[l] = Append(heard[l], emit.event)
                 /\ l \in ToSet(Last(emits).todo) \ ToSet(emit.todo),
           \A l \in ToSet(Last(emits).todo) \ ToSet(emit.todo) :
              Matches(l, emitted[emit.event]) => emit.event \in ToSet(heard'[l]),
           UNCHANGED <<emitted, subscribed, since, cut>>
    PROVE  TLInv'
<1> DEFINE n == Len(emits)
           old == Last(emits)
           e0 == emit.event
<1>1. /\ n \in Nat \ {0} /\ DOMAIN emits = 1..n /\ n \in DOMAIN emits /\ old = emits[n]
  BY FrontLast, LenProperties DEF TLInv, TLTyped
<1>2. /\ emits' \in Seq(EmitState) /\ Len(emits') = n
      /\ \A k \in 1..n : emits'[k] = IF k = n THEN emit ELSE emits[k]
  BY <1>1, ExceptSeq DEF TLInv, TLTyped
<1>3. DOMAIN emits' = DOMAIN emits /\ emits'[n] = emit
  BY <1>1, <1>2, LenProperties
<1>4. /\ old.event = e0 /\ e0 \in 1..Len(emitted) /\ ToSet(old.todo) \subseteq ToSet(subscribed)
      /\ \A l \in ToSet(old.todo) : e0 \notin ToSet(heard[l])
      /\ \A k \in DOMAIN emits : k # n => emits[k].event # e0
  BY <1>1 DEF TLInv, EmitsSound
<1>5. Len(emitted) \in Nat /\ e0 \in Nat
  BY <1>4, LenProperties DEF TLInv, TLTyped
<1> HIDE DEF n, old, e0
<1>6. ASSUME NEW l \in Subscribers
      PROVE  \/ heard'[l] = heard[l]
             \/ /\ l \in ToSet(old.todo) \ ToSet(emit.todo)
                /\ heard'[l] = Append(heard[l], e0)
                /\ ToSet(heard'[l]) = ToSet(heard[l]) \cup {e0} /\ IsInjective(heard'[l])
  <2>1. heard[l] \in Seq(Nat) /\ IsInjective(heard[l])
    BY DEF TLInv, TLTyped, HeardOnce
  <2>2. CASE heard'[l] # heard[l]
    <3>1. heard'[l] = Append(heard[l], e0) /\ l \in ToSet(old.todo) \ ToSet(emit.todo)
      BY <2>2 DEF e0, old
    <3> QED BY <1>4, <1>5, <2>1, <3>1, AppendDistinct
  <2> QED BY <2>2
<1>7. TLTyped'
  BY <1>2 DEF TLInv, TLTyped
<1>8. ToSet(subscribed) \subseteq Subscribers
  BY LenProperties DEF TLInv, TLTyped, ToSet
<1>9. EmitsSound'
  <2>1. ASSUME NEW k \in DOMAIN emits'
        PROVE  /\ emits'[k] \in EmitState /\ emits'[k].event \in 1..Len(emitted')
               /\ IsInjective(emits'[k].todo) /\ ToSet(emits'[k].todo) \subseteq ToSet(subscribed')
               /\ \A x \in ToSet(emits'[k].todo) : emits'[k].event \notin ToSet(heard'[x])
    <3>1. CASE k = n
      <4>1. ToSet(emit.todo) \subseteq ToSet(old.todo)
        BY DEF old
      <4>2. ASSUME NEW x \in ToSet(emit.todo) PROVE e0 \notin ToSet(heard'[x])
        <5>1. x \in Subscribers /\ x \in ToSet(old.todo)
          BY <1>4, <1>8, <4>1
        <5> QED BY <1>4, <1>6, <5>1
      <4> QED BY <1>3, <1>4, <3>1, <4>1, <4>2 DEF e0
    <3>2. CASE k # n
      <4>1. emits'[k] = emits[k] /\ k \in DOMAIN emits /\ emits[k].event # e0
        BY <1>1, <1>2, <1>3, <1>4, <3>2
      <4>2. /\ emits[k] \in EmitState /\ emits[k].event \in 1..Len(emitted)
            /\ IsInjective(emits[k].todo) /\ ToSet(emits[k].todo) \subseteq ToSet(subscribed)
        BY <4>1 DEF TLInv, EmitsSound
      <4>3. ASSUME NEW x \in ToSet(emits[k].todo) PROVE emits[k].event \notin ToSet(heard'[x])
        <5>1. emits[k].event \notin ToSet(heard[x])
          BY <4>1 DEF TLInv, EmitsSound
        <5>2. x \in Subscribers
          BY <1>8, <4>2
        <5> QED BY <1>6, <4>1, <5>1, <5>2
      <4> QED BY <4>1, <4>2, <4>3
    <3> QED BY <3>1, <3>2
  <2>2. \A j, k \in DOMAIN emits' : emits'[j].event = emits'[k].event => j = k
    <3>1. \A k \in DOMAIN emits : emits'[k].event = emits[k].event
      BY <1>1, <1>2, <1>4 DEF e0
    <3> QED BY <1>3, <3>1 DEF TLInv, EmitsSound
  <2> QED BY <2>1, <2>2 DEF EmitsSound
<1>10. HeardOnce'
  <2>1. ASSUME NEW x \in Subscribers
        PROVE  /\ IsInjective(heard'[x]) /\ ToSet(heard'[x]) \subseteq 1..Len(emitted)
               /\ x \notin ToSet(subscribed) => heard'[x] = <<>>
    <3>1. /\ IsInjective(heard[x]) /\ ToSet(heard[x]) \subseteq 1..Len(emitted)
          /\ x \notin ToSet(subscribed) => heard[x] = <<>>
      BY DEF TLInv, HeardOnce
    <3> QED BY <1>4, <1>6, <3>1
  <2> QED BY <2>1 DEF HeardOnce
<1>11. HeardOrDue'
  <2> SUFFICES ASSUME NEW x \in ToSet(subscribed'), NEW e \in Nat, since'[x] < e, e <= Len(emitted'),
                      e \notin cut', Matches(x, emitted'[e]), e \notin ToSet(heard'[x])
               PROVE  \E k \in DOMAIN emits' : emits'[k].event = e /\ x \in ToSet(emits'[k].todo)
    BY DEF HeardOrDue, Matches
  <2>1. x \in ToSet(subscribed) /\ x \in Subscribers
    BY <1>8
  <2>2. e \notin ToSet(heard[x])
    BY <1>6, <2>1
  <2>3. \E k \in DOMAIN emits : emits[k].event = e /\ x \in ToSet(emits[k].todo)
    BY <2>1, <2>2 DEF TLInv, HeardOrDue
  <2>4. PICK k \in DOMAIN emits : emits[k].event = e /\ x \in ToSet(emits[k].todo)
    BY <2>3
  <2>5. CASE k = n
    <3>1. e = e0 /\ x \in ToSet(old.todo)
      BY <1>1, <1>4, <2>4, <2>5
    <3>2. x \in ToSet(emit.todo)
      BY <3>1 DEF e0, old
    <3> QED BY <1>1, <1>3, <3>1, <3>2 DEF e0
  <2>6. CASE k # n
    BY <1>1, <1>2, <1>3, <2>4, <2>6
  <2> QED BY <2>5, <2>6
<1>12. FirstInOrder'
  <2> DEFINE h == heard["first"]
  <2>1. \A k \in DOMAIN emits' : "first" \notin ToSet(emits'[k].todo)
    BY <1>1, <1>2, <1>3 DEF TLInv, FirstInOrder, n
  <2>2. /\ h \in Seq(Nat) /\ Len(h) \in Nat /\ DOMAIN h = 1..Len(h) /\ \A i \in DOMAIN h : h[i] \in Nat
        /\ \A i, j \in DOMAIN h : i < j => h[i] < h[j]
    <3>1. h \in Seq(Nat)
      BY DEF TLInv, TLTyped, Subscribers
    <3> QED BY <3>1, LenProperties DEF TLInv, FirstInOrder
  <2>3. CASE heard'["first"] = h
    BY <2>1, <2>2, <2>3 DEF FirstInOrder
  <2>4. CASE heard'["first"] # h
    <3>1. "first" \in ToSet(old.todo) /\ heard'["first"] = Append(h, e0)
      BY <1>6, <2>4 DEF Subscribers
    <3>2. \A i \in DOMAIN h : h[i] < e0
      BY <1>1, <1>4, <3>1 DEF TLInv, FirstInOrder
    <3> HIDE DEF h
    <3>3. /\ DOMAIN heard'["first"] = 1..(Len(h) + 1) /\ heard'["first"][Len(h) + 1] = e0
          /\ \A i \in 1..Len(h) : heard'["first"][i] = h[i]
      BY <1>5, <2>2, <3>1, AppendProperties, LenProperties
    <3>4. ASSUME NEW i \in DOMAIN heard'["first"], NEW j \in DOMAIN heard'["first"], i < j
          PROVE  heard'["first"][i] < heard'["first"][j]
      <4>1. i \in DOMAIN h /\ heard'["first"][i] = h[i]
        BY <2>2, <3>3, <3>4
      <4>2. CASE j = Len(h) + 1
        BY <3>2, <3>3, <4>1, <4>2
      <4>3. CASE j # Len(h) + 1
        <5>1. j \in DOMAIN h /\ heard'["first"][j] = h[j]
          BY <2>2, <3>3, <4>3
        <5> QED BY <2>2, <3>4, <4>1, <5>1
      <4> QED BY <4>2, <4>3
    <3> QED BY <2>1, <3>4 DEF FirstInOrder
  <2> QED BY <2>3, <2>4
<1> QED BY <1>7, <1>9, <1>10, <1>11, <1>12 DEF TLInv

LEMMA DispatchKeepsTLInv == TLInv /\ Dispatch => TLInv'
<1> SUFFICES ASSUME TLInv, Dispatch PROVE TLInv'
  OBVIOUS
<1> DEFINE emit == Last(emits)
           l    == Head(emit.todo)
           ok   == Matches(l, emitted[emit.event])
           next == [emit EXCEPT !.todo = Tail(@), !.running = IF ok THEN l ELSE NoListener]
<1>1. /\ ~Running /\ emits # <<>> /\ emit.todo # <<>>
      /\ emits' = [emits EXCEPT ![Len(emits)] = next]
      /\ heard' = IF ok THEN [heard EXCEPT ![l] = Append(@, emit.event)] ELSE heard
      /\ UNCHANGED <<emitted, subscribed, since, cut>>
  BY DEF Dispatch, Running
<1>2. Len(emits) \in DOMAIN emits /\ emit = emits[Len(emits)]
  BY <1>1, FrontLast DEF TLInv, TLTyped
<1>3. /\ emit \in EmitState /\ emit.todo \in Seq(Subscribers) /\ emit.event \in Nat
      /\ IsInjective(emit.todo)
  BY <1>2 DEF TLInv, EmitsSound, EmitState
<1>4. "first" \in ToSet(emit.todo) => emit.todo[1] = "first"
  BY <1>2 DEF TLInv, FirstInOrder
<1>5. next = [emit EXCEPT !.todo = Tail(emit.todo), !.running = IF ok THEN l ELSE NoListener]
  OBVIOUS
<1> HIDE DEF emit, ok
<1>6. /\ l = emit.todo[1] /\ l \in Subscribers /\ Tail(emit.todo) \in Seq(Subscribers)
      /\ ToSet(emit.todo) = ToSet(Tail(emit.todo)) \cup {l}
      /\ IsInjective(Tail(emit.todo)) /\ l \notin ToSet(Tail(emit.todo))
  BY <1>1, <1>3, TailDistinct
<1>7. next \in EmitState /\ next.todo = Tail(emit.todo) /\ next.event = emit.event
  BY <1>3, <1>5, <1>6 DEF EmitState
<1> HIDE DEF next, l
<1>8. "first" \notin ToSet(next.todo)
  BY <1>4, <1>6, <1>7
<1>9. /\ heard' \in [Subscribers -> Seq(Nat)]
      /\ \A x \in Subscribers \ {l} : heard'[x] = heard[x]
      /\ heard'[l] = IF ok THEN Append(heard[l], emit.event) ELSE heard[l]
  <2>1. heard[l] \in Seq(Nat) /\ heard \in [Subscribers -> Seq(Nat)]
    BY <1>6 DEF TLInv, TLTyped
  <2>2. Append(heard[l], emit.event) \in Seq(Nat)
    BY <1>3, <2>1, AppendProperties
  <2> QED BY <1>1, <1>6, <2>1, <2>2
<1>10. l \in ToSet(emit.todo) \ ToSet(next.todo)
  BY <1>6, <1>7
<1>11. ok => emit.event \in ToSet(heard'[l])
  <2>1. heard[l] \in Seq(Nat)
    BY <1>6 DEF TLInv, TLTyped
  <2> QED BY <1>3, <1>9, <2>1, AppendDistinct
<1>12. \A x \in ToSet(emit.todo) \ ToSet(next.todo) :
          Matches(x, emitted[next.event]) => next.event \in ToSet(heard'[x])
  BY <1>6, <1>7, <1>11 DEF ok
<1>13. \A x \in Subscribers :
          \/ heard'[x] = heard[x]
          \/ heard'[x] = Append(heard[x], next.event) /\ x \in ToSet(emit.todo) \ ToSet(next.todo)
  BY <1>7, <1>9, <1>10
<1>14. IsInjective(next.todo) /\ ToSet(next.todo) \subseteq ToSet(emit.todo)
  BY <1>6, <1>7
<1> QED BY <1>1, <1>7, <1>8, <1>9, <1>12, <1>13, <1>14, EmitGoesOn DEF emit

LEMMA ReturnsKeepsTLInv == TLInv /\ Returns => TLInv'
<1> SUFFICES ASSUME TLInv, Returns PROVE TLInv'
  OBVIOUS
<1> DEFINE emit == Last(emits)
           next == [emit EXCEPT !.running = NoListener]
<1>1. /\ Running /\ emits # <<>> /\ emits' = [emits EXCEPT ![Len(emits)].running = NoListener]
      /\ UNCHANGED <<emitted, subscribed, since, heard, cut>>
  BY DEF Returns
<1>2. Len(emits) \in DOMAIN emits /\ emit = emits[Len(emits)]
  BY <1>1, FrontLast DEF TLInv, TLTyped
<1>3. emits' = [emits EXCEPT ![Len(emits)] = next]
  BY <1>1, <1>2
<1>4. emit \in EmitState /\ IsInjective(emit.todo) /\ "first" \notin ToSet(emit.todo)
  <2>1. "first" \notin ToSet(emit.todo)
    BY <1>1, <1>2, NobodyWaitsBehind
  <2> QED BY <1>2, <2>1 DEF TLInv, EmitsSound
<1>5. next \in EmitState /\ next.todo = emit.todo /\ next.event = emit.event
  BY <1>4 DEF EmitState
<1>6. heard' = heard /\ heard \in [Subscribers -> Seq(Nat)]
  BY <1>1 DEF TLInv, TLTyped
<1> HIDE DEF next, emit
<1> QED BY <1>1, <1>3, <1>4, <1>5, <1>6, EmitGoesOn DEF emit

\* The innermost call of emit ends: it has told everyone, or a listener threw.
LEMMA EmitEndsKeepsTLInv ==
    ASSUME TLInv, emits # <<>>, emits' = Front(emits), cut \subseteq cut',
           Last(emits).todo = <<>> \/ Last(emits).event \in cut',
           UNCHANGED <<emitted, subscribed, since, heard>>
    PROVE  TLInv'
<1> DEFINE n == Len(emits)
<1>1. /\ n \in Nat \ {0} /\ DOMAIN emits = 1..n /\ Last(emits) = emits[n]
      /\ emits' \in Seq(EmitState) /\ DOMAIN emits' = 1..(n - 1)
      /\ \A k \in 1..(n - 1) : emits'[k] = emits[k]
  BY FrontLast, LenProperties DEF TLInv, TLTyped
<1> HIDE DEF n
<1>2. \A k \in DOMAIN emits' : k \in DOMAIN emits /\ k # n /\ emits'[k] = emits[k]
  BY <1>1
<1>3. TLTyped'
  BY <1>1 DEF TLInv, TLTyped
<1>4. EmitsSound'
  BY <1>2 DEF TLInv, EmitsSound
<1>5. HeardOnce'
  BY DEF TLInv, HeardOnce
<1>6. HeardOrDue'
  <2> SUFFICES ASSUME NEW x \in ToSet(subscribed'), NEW e \in Nat, since'[x] < e, e <= Len(emitted'),
                      e \notin cut', Matches(x, emitted'[e]), e \notin ToSet(heard'[x])
               PROVE  \E k \in DOMAIN emits' : emits'[k].event = e /\ x \in ToSet(emits'[k].todo)
    BY DEF HeardOrDue, Matches
  <2>1. \E k \in DOMAIN emits : emits[k].event = e /\ x \in ToSet(emits[k].todo)
    BY DEF TLInv, HeardOrDue
  <2>2. PICK k \in DOMAIN emits : emits[k].event = e /\ x \in ToSet(emits[k].todo)
    BY <2>1
  <2>3. k # n
    <3>1. ToSet(<<>>) = {}
      BY DEF ToSet
    <3> QED BY <1>1, <2>2, <3>1
  <2> QED BY <1>1, <2>2, <2>3
<1>7. FirstInOrder'
  BY <1>2 DEF TLInv, FirstInOrder, n
<1> QED BY <1>3, <1>4, <1>5, <1>6, <1>7 DEF TLInv

LEMMA TLNextInv == TLInv /\ [TLNext]_tlVars => TLInv'
<1> SUFFICES ASSUME TLInv, [TLNext]_tlVars PROVE TLInv'
  OBVIOUS
<1>1. CASE Create
  <2>1. "created" \in States
    BY DEF States
  <2> QED BY <1>1, <2>1, EmitKeepsTLInv DEF Create
<1>2. ASSUME NEW to \in ToSet(Order) \cup {"failed"}, Transition(to) PROVE TLInv'
  <2>1. to \in States
    BY DEF States
  <2> QED BY <1>2, <2>1, EmitKeepsTLInv DEF Transition
<1>3. CASE Forgotten \/ UNCHANGED tlVars
  <2>1. UNCHANGED <<emitted, subscribed, since, emits, heard, cut>>
    BY <1>3 DEF Forgotten, tlVars
  <2> QED BY <2>1 DEF TLInv, TLTyped, EmitsSound, HeardOnce, HeardOrDue, FirstInOrder, Matches
<1>4. CASE Throws
  BY <1>4, EmitEndsKeepsTLInv DEF Throws
<1>5. CASE EmitReturns
  BY <1>5, EmitEndsKeepsTLInv DEF EmitReturns, Running
<1> QED BY <1>1, <1>2, <1>3, <1>4, <1>5, DispatchKeepsTLInv, ReturnsKeepsTLInv,
           SubscribeKeepsTLInv, UnsubscribeKeepsTLInv DEF TLNext

-----------------------------------------------------------------------------
(* The delivery of events.                                                  *)

\* What is there has a place of its own; what was visited, has heard the event if it
\* was to, as far as it is still there untouched; and a callback that is running
\* belongs to a subscription, or to one that it has ended itself.
EDInv ==
    /\ places \in Nat /\ visited \in Nat /\ visited <= places
    /\ DOMAIN entries \subseteq 1..places
    /\ \A p, q \in DOMAIN entries : entries[p].id = entries[q].id => p = q
    /\ DOMAIN timesHeard \subseteq 1..visited
    /\ \A p \in DOMAIN timesHeard : timesHeard[p] = 1
    /\ untouched \subseteq DOMAIN entries
    /\ eventKind # NoKind =>
          \A p \in untouched : p <= visited => (p \in DOMAIN timesHeard <=> eventKind \in entries[p].filter)
    /\ calling # 0 => caller \in Subscribed \cup leftInside
    /\ eventCounts \subseteq Subscribed \cup leftInside

LEMMA EDInvDelivers == EDInv => DeliveredOnce
<1> SUFFICES ASSUME EDInv, eventKind # NoKind, Ahead = {}, NEW p \in untouched
             PROVE  p <= visited
  BY DEF EDInv, DeliveredOnce
<1> QED BY DEF EDInv, Ahead

LEMMA EDInitInv == EDInit => EDInv
BY DEF EDInit, EDInv, NoEntries, Subscribed

LEMMA PlaceFound ==
    ASSUME EDInv, NEW x \in Subscribed
    PROVE  PlaceOf(x) \in DOMAIN entries /\ entries[PlaceOf(x)].id = x
BY DEF PlaceOf, Subscribed

LEMMA SubscribeKeepsEDInv ==
    ASSUME EDInv, NEW x \in SubscriptionIds, NEW f \in Filters, SubscribeTo(x, f)
    PROVE  EDInv'
<1>1. CASE x \in Subscribed
  <2> DEFINE P == PlaceOf(x)
  <2>1. P \in DOMAIN entries /\ entries[P].id = x
    BY <1>1, PlaceFound
  <2>2. /\ entries' = [entries EXCEPT ![P].filter = f]
        /\ untouched' = untouched \ {P}
        /\ UNCHANGED <<places, eventCounts, eventKind, visited, calling, caller, timesHeard, leftInside>>
    BY <1>1 DEF SubscribeTo
  <2> HIDE DEF P
  <2>3. DOMAIN entries' = DOMAIN entries
    BY <2>2
  <2>4. ASSUME NEW p \in DOMAIN entries
        PROVE  entries'[p].id = entries[p].id /\ (p # P => entries'[p] = entries[p])
    BY <2>1, <2>2
  <2>5. Subscribed' = Subscribed
    BY <2>3, <2>4 DEF Subscribed
  <2> QED BY <2>2, <2>3, <2>4, <2>5 DEF EDInv
<1>2. CASE x \notin Subscribed
  <2> DEFINE P == places + 1
  <2>1. /\ places' = P
        /\ entries' = [p \in DOMAIN entries \cup {P} |->
                         IF p = P THEN [id |-> x, filter |-> f] ELSE entries[p]]
        /\ UNCHANGED <<eventCounts, eventKind, visited, calling, caller, untouched, timesHeard, leftInside>>
    BY <1>2 DEF SubscribeTo
  <2>2. P \notin DOMAIN entries /\ P \in Nat
    BY DEF EDInv
  <2>3. /\ DOMAIN entries' = DOMAIN entries \cup {P} /\ entries'[P].id = x
        /\ \A p \in DOMAIN entries : entries'[p] = entries[p]
    BY <2>1, <2>2
  <2>4. Subscribed \subseteq Subscribed'
    BY <2>3 DEF Subscribed
  <2>5. \A p \in DOMAIN entries : entries[p].id # x
    BY <1>2 DEF Subscribed
  <2>6. /\ places' \in Nat /\ visited' <= places' /\ DOMAIN entries' \subseteq 1..places'
    BY <2>1, <2>3 DEF EDInv
  <2> QED BY <2>1, <2>3, <2>4, <2>5, <2>6 DEF EDInv
<1> QED BY <1>1, <1>2

LEMMA UnsubscribeKeepsEDInv ==
    ASSUME EDInv, NEW x \in SubscriptionIds, UnsubscribeFrom(x)
    PROVE  EDInv'
<1> DEFINE P == PlaceOf(x)
<1>1. P \in DOMAIN entries /\ entries[P].id = x
  BY PlaceFound DEF UnsubscribeFrom
<1>2. /\ entries' = [p \in DOMAIN entries \ {P} |-> entries[p]]
      /\ eventCounts' = eventCounts \ {x}
      /\ untouched' = untouched \ {P}
      /\ leftInside' = IF calling # 0 /\ x = caller THEN leftInside \cup {x} ELSE leftInside
      /\ UNCHANGED <<places, eventKind, visited, calling, caller, timesHeard>>
  BY DEF UnsubscribeFrom
<1> HIDE DEF P
<1>3. DOMAIN entries' = DOMAIN entries \ {P} /\ \A p \in DOMAIN entries' : entries'[p] = entries[p]
  BY <1>2
<1>4. Subscribed \ {x} \subseteq Subscribed'
  BY <1>1, <1>3 DEF Subscribed
<1>5. calling' # 0 => caller' \in Subscribed' \cup leftInside'
  BY <1>2, <1>4 DEF EDInv
<1>6. eventCounts' \subseteq Subscribed' \cup leftInside'
  BY <1>2, <1>4 DEF EDInv
<1> QED BY <1>2, <1>3, <1>5, <1>6 DEF EDInv

LEMMA VisitKeepsEDInv ==
    ASSUME EDInv, Visit
    PROVE  EDInv'
<1>1. PICK p \in Ahead :
        /\ eventKind # NoKind /\ \A q \in Ahead : p <= q
        /\ visited' = p
        /\ IF eventKind \in entries[p].filter THEN Call(p) ELSE UNCHANGED <<calling, caller, timesHeard>>
        /\ UNCHANGED <<entries, places, eventCounts, eventKind, untouched, leftInside>>
  BY DEF Visit
<1>2. p \in DOMAIN entries /\ p \in 1..places /\ p > visited /\ p \notin DOMAIN timesHeard
  BY <1>1 DEF Ahead, EDInv
<1>3. ASSUME NEW q \in untouched, q <= p
      PROVE  q = p \/ q <= visited
  <2>1. q \in DOMAIN entries /\ q \in Nat /\ p \in Nat /\ visited \in Nat
    BY <1>2 DEF EDInv
  <2> QED BY <1>1, <1>3, <2>1 DEF Ahead
<1>4. Subscribed' = Subscribed
  BY <1>1 DEF Subscribed
<1>5. CASE eventKind \in entries[p].filter
  <2>1. /\ calling' = p /\ caller' = entries[p].id
        /\ timesHeard' = [q \in DOMAIN timesHeard \cup {p} |->
                (IF q \in DOMAIN timesHeard THEN timesHeard[q] ELSE 0) + (IF q = p THEN 1 ELSE 0)]
    BY <1>1, <1>5 DEF Call
  <2>2. DOMAIN timesHeard' = DOMAIN timesHeard \cup {p}
    BY <2>1
  <2>3. \A q \in DOMAIN timesHeard' : timesHeard'[q] = 1
    BY <1>2, <2>1, <2>2 DEF EDInv
  <2>4. caller' \in Subscribed'
    BY <1>2, <1>4, <2>1 DEF Subscribed
  <2>5. DOMAIN timesHeard' \subseteq 1..visited'
    BY <1>1, <1>2, <2>2 DEF EDInv
  <2>6. \A q \in untouched : q <= p => (q \in DOMAIN timesHeard' <=> eventKind \in entries[q].filter)
    BY <1>1, <1>2, <1>3, <1>5, <2>2 DEF EDInv
  <2> QED BY <1>1, <1>2, <1>4, <2>3, <2>4, <2>5, <2>6 DEF EDInv
<1>6. CASE eventKind \notin entries[p].filter
  <2>1. UNCHANGED <<calling, caller, timesHeard>>
    BY <1>1, <1>6
  <2>2. \A q \in untouched : q <= p => (q \in DOMAIN timesHeard <=> eventKind \in entries[q].filter)
    BY <1>1, <1>2, <1>3, <1>6 DEF EDInv
  <2>3. DOMAIN timesHeard \subseteq 1..p
    BY <1>2 DEF EDInv
  <2> QED BY <1>1, <1>2, <1>4, <2>1, <2>2, <2>3 DEF EDInv
<1> QED BY <1>5, <1>6

LEMMA EDNextInv == EDInv /\ [EDNext]_edVars => EDInv'
<1> SUFFICES ASSUME EDInv, [EDNext]_edVars PROVE EDInv'
  OBVIOUS
<1>1. ASSUME NEW x \in SubscriptionIds, NEW f \in Filters, SubscribeTo(x, f) PROVE EDInv'
  BY <1>1, SubscribeKeepsEDInv
<1>2. ASSUME NEW x \in SubscriptionIds, UnsubscribeFrom(x) PROVE EDInv'
  BY <1>2, UnsubscribeKeepsEDInv
<1>3. ASSUME NEW k \in EventKinds, EventArrives(k) PROVE EDInv'
  <2>1. /\ visited' = 0 /\ untouched' = DOMAIN entries /\ DOMAIN timesHeard' = {}
        /\ UNCHANGED <<entries, places, eventCounts, calling, caller, leftInside>>
    BY <1>3 DEF EventArrives, NoEntries
  <2>2. Subscribed' = Subscribed
    BY <2>1 DEF Subscribed
  <2> QED BY <2>1, <2>2 DEF EDInv
<1>4. CASE Visit
  BY <1>4, VisitKeepsEDInv
<1>5. CASE CallbackReturns
  BY <1>5 DEF CallbackReturns, EDInv, Subscribed
<1>6. CASE CallbackThrows
  BY <1>6 DEF CallbackThrows, EDInv, Subscribed
<1>7. CASE DeliveryEnds
  BY <1>7 DEF DeliveryEnds, EDInv, Subscribed
<1>8. CASE UNCHANGED edVars
  BY <1>8 DEF edVars, EDInv, Subscribed
<1> QED BY <1>1, <1>2, <1>3, <1>4, <1>5, <1>6, <1>7, <1>8 DEF EDNext

-----------------------------------------------------------------------------
(* Migrations: the search for a chain of steps, which finds a shortest one  *)
(* when there is any, and the run that goes through it or back.             *)

\* A way from a version along registered steps.
Walk(p, from) ==
    /\ p \in Seq(Steps) /\ ToSet(p) \subseteq ToSet(steps)
    /\ p # <<>> => p[1].from = from
    /\ \A k \in 1..(Len(p) - 1) : p[k].to = p[k + 1].from

\* The steps registered, and the versions they lead from and to.
LEMMA StepsTyped ==
    ASSUME steps \in Seq(Steps)
    PROVE  /\ Len(steps) \in Nat /\ DOMAIN steps = 1..Len(steps)
           /\ \A k \in DOMAIN steps : /\ steps[k] \in Steps /\ steps[k] \in ToSet(steps)
                                      /\ steps[k].from \in Versions /\ steps[k].to \in Versions
<1>1. Len(steps) \in Nat /\ DOMAIN steps = 1..Len(steps) /\ \A k \in DOMAIN steps : steps[k] \in Steps
  BY LenProperties
<1>2. \A x \in Steps : x.from \in Versions /\ x.to \in Versions
  BY MigrationAssumption
<1> QED BY <1>1, <1>2 DEF ToSet

\* A way is prolonged by an edge of the version it has reached.
LEMMA WalkGrows ==
    ASSUME steps \in Seq(Steps), NEW from, NEW p, Walk(p, from), NEW k \in EdgesFrom(Reached(p, from))
    PROVE  LET q == Append(p, steps[k])
           IN  /\ Walk(q, from) /\ q # <<>> /\ Len(q) = Len(p) + 1 /\ Last(q) = steps[k]
               /\ Reached(q, from) = steps[k].to
<1> DEFINE e == steps[k]  q == Append(p, e)
<1>1. k \in DOMAIN steps /\ e.from = Reached(p, from) /\ e \in Steps /\ e \in ToSet(steps)
  BY StepsTyped DEF EdgesFrom
<1>2. p \in Seq(Steps) /\ Len(p) \in Nat /\ DOMAIN p = 1..Len(p)
  BY LenProperties DEF Walk
<1> HIDE DEF e
<1>3. /\ q \in Seq(Steps) /\ Len(q) = Len(p) + 1 /\ q[Len(p) + 1] = e
      /\ \A i \in 1..Len(p) : q[i] = p[i]
  BY <1>1, <1>2, AppendProperties
<1>4. ToSet(q) = ToSet(p) \cup {e}
  BY <1>1, <1>2, AppendDistinct
<1> HIDE DEF q
<1>5. q # <<>> /\ Last(q) = e
  <2>1. q # <<>>
    BY <1>2, <1>3, NonEmpty
  <2> QED BY <1>2, <1>3, <2>1, FrontLast
<1>6. q[1].from = from
  <2>1. CASE p = <<>>
    <3>1. Len(p) = 0
      BY <2>1
    <3> QED BY <1>1, <1>3, <2>1, <3>1 DEF Reached
  <2>2. CASE p # <<>>
    <3>1. 1 \in 1..Len(p)
      BY <1>2, <2>2, NonEmpty
    <3> QED BY <1>3, <2>2, <3>1 DEF Walk
  <2> QED BY <2>1, <2>2
<1>7. ASSUME NEW i \in 1..(Len(q) - 1) PROVE q[i].to = q[i + 1].from
  <2>1. i \in 1..Len(p) /\ q[i] = p[i]
    BY <1>2, <1>3, <1>7
  <2>2. CASE i = Len(p)
    <3>1. p # <<>> /\ Last(p) = p[i]
      <4>1. p # <<>>
        BY <1>2, <2>1, NonEmpty
      <4> QED BY <1>2, <2>2, <4>1, FrontLast
    <3> QED BY <1>1, <1>3, <2>1, <2>2, <3>1 DEF Reached
  <2>3. CASE i # Len(p)
    <3>1. i + 1 \in 1..Len(p) /\ i \in 1..(Len(p) - 1)
      <4>1. i \in 1..Len(p) /\ Len(p) \in Nat
        BY <1>2, <2>1
      <4> QED BY <2>3, <4>1
    <3> QED BY <1>3, <2>1, <3>1 DEF Walk
  <2> QED BY <2>2, <2>3
<1>8. Walk(q, from)
  BY <1>1, <1>3, <1>4, <1>6, <1>7 DEF Walk
<1>9. Reached(q, from) = e.to
  BY <1>5 DEF Reached
<1> QED BY <1>3, <1>5, <1>8, <1>9 DEF q, e

\* A way without its last step, which is an edge of the version reached then.
LEMMA WalkShrinks ==
    ASSUME steps \in Seq(Steps), NEW from, NEW p, Walk(p, from), p # <<>>
    PROVE  /\ Walk(Front(p), from) /\ Len(p) \in Nat \ {0} /\ Len(Front(p)) = Len(p) - 1
           /\ \E k \in EdgesFrom(Reached(Front(p), from)) : steps[k].to = Reached(p, from)
<1> DEFINE q == Front(p)
<1>1. p \in Seq(Steps)
  BY DEF Walk
<1>2. /\ Len(p) \in Nat \ {0} /\ DOMAIN p = 1..Len(p) /\ Last(p) = p[Len(p)]
      /\ q \in Seq(Steps) /\ Len(q) = Len(p) - 1 /\ DOMAIN q = 1..(Len(p) - 1)
      /\ \A i \in 1..(Len(p) - 1) : q[i] = p[i]
  BY <1>1, FrontLast, LenProperties
<1> HIDE DEF q
<1>3. \A i \in DOMAIN q : i \in DOMAIN p /\ q[i] = p[i]
  BY <1>2
<1>4. ToSet(q) \subseteq ToSet(p)
  BY <1>3 DEF ToSet
<1>5. q # <<>> => q[1].from = from
  <2>1. q # <<>> => 1 \in DOMAIN q
    BY <1>2, NonEmpty
  <2> QED BY <1>3, <2>1 DEF Walk
<1>6. ASSUME NEW i \in 1..(Len(q) - 1) PROVE q[i].to = q[i + 1].from
  <2>1. i \in 1..(Len(p) - 1) /\ i + 1 \in 1..(Len(p) - 1)
    BY <1>2, <1>6
  <2> QED BY <1>2, <2>1 DEF Walk
<1>7. Walk(q, from)
  BY <1>2, <1>4, <1>5, <1>6 DEF Walk
<1>8. PICK k \in DOMAIN steps : steps[k] = Last(p)
  <2>1. Last(p) \in ToSet(p)
    BY <1>2 DEF ToSet
  <2> QED BY <2>1 DEF Walk, ToSet
<1>9. Last(p).from = Reached(q, from)
  <2>1. CASE q = <<>>
    <3>0. Len(q) = 0
      BY <2>1
    <3>1. Len(p) = 1
      <4>1. Len(q) = Len(p) - 1 /\ Len(p) \in Nat
        BY <1>2
      <4> QED BY <3>0, <4>1
    <3> QED BY <1>2, <2>1, <3>1 DEF Walk, Reached
  <2>2. CASE q # <<>>
    <3>1. Last(q) = q[Len(q)] /\ Len(q) \in Nat \ {0}
      BY <1>2, <2>2, FrontLast
    <3>2. Len(q) \in 1..(Len(p) - 1) /\ Len(q) + 1 = Len(p)
      BY <1>2, <3>1
    <3> QED BY <1>2, <2>2, <3>1, <3>2 DEF Walk, Reached
  <2> QED BY <2>1, <2>2
<1>10. k \in EdgesFrom(Reached(q, from)) /\ steps[k].to = Reached(p, from)
  <2>1. Reached(p, from) = Last(p).to
    BY DEF Reached
  <2>2. steps[k].from = Reached(q, from)
    BY <1>8, <1>9
  <2> QED BY <1>8, <2>1, <2>2 DEF EdgesFrom
<1> QED BY <1>2, <1>7, <1>10 DEF q

\* Places put in order are those places.
LEMMA InOrderOf ==
    ASSUME NEW n \in Nat, NEW K \in SUBSET (1..n)
    PROVE  LET p == InOrder(K)
           IN  /\ Cardinality(K) \in Nat /\ DOMAIN p = 1..Cardinality(K)
               /\ p \in [1..Cardinality(K) -> K]
               /\ \A k \in K : \E i \in DOMAIN p : p[i] = k
<1> DEFINE c == Cardinality(K)
           R == {q \in K \X K : q[1] < q[2]}
<1>1. IsFiniteSet(K) /\ c \in Nat /\ \A k \in K : k \in Nat
  <2>1. IsFiniteSet(1..n)
    BY FS_Interval
  <2>2. IsFiniteSet(K)
    BY <2>1, FS_Subset
  <2> QED BY <2>2, FS_CardinalityType
<1>2. \E p \in Bijection(1..c, K) : \A i, j \in DOMAIN p : i < j => p[i] < p[j]
  <2>1. /\ \A a \in K : <<a, a>> \notin R
        /\ \A a, b, d \in K : <<a, b>> \in R /\ <<b, d>> \in R => <<a, d>> \in R
        /\ \A a, b \in K : a # b => <<a, b>> \in R \/ <<b, a>> \in R
    BY <1>1
  <2>2. \A a, b : <<a, b>> \in R => a < b
    OBVIOUS
  <2> HIDE DEF R
  <2>3. PICK p \in [1..c -> K] : \A i, j \in 1..c : i < j => <<p[i], p[j]>> \in R
    BY <1>1, <2>1, SortExists
  <2>4. \A i, j \in 1..c : i < j => p[i] < p[j]
    BY <2>2, <2>3
  <2>5. \A i, j \in 1..c : p[i] = p[j] => i = j
    <3>1. \A i \in 1..c : p[i] \in Nat
      BY <1>1
    <3> QED BY <1>1, <2>4, <3>1
  <2>6. p \in Injection(1..c, K)
    BY <2>5 DEF Injection, IsInjective
  <2>7. p \in Surjection(1..c, K)
    <3>1. Cardinality(1..c) = c
      BY <1>1, FS_Interval
    <3> HIDE DEF c
    <3> QED BY <1>1, <2>6, <3>1, FS_Injection DEF c
  <2> QED BY <2>4, <2>6, <2>7 DEF Bijection
<1>3. InOrder(K) \in Bijection(1..c, K)
  BY <1>2 DEF InOrder
<1> QED BY <1>1, <1>3 DEF Bijection, Injection, Surjection

\* The search goes by breadth: the paths of the queue are shortest, none is longer
\* than the first by more than a step; a version visited is the end of one, or all
\* its edges lead to versions visited; and ways as long as the first path end at
\* versions visited.
SearchInv(s, from, to) ==
    LET queue == s.queue  seen == s.visited IN
    /\ s \in SearchStates /\ from \in seen /\ to \notin seen
    /\ \A i \in DOMAIN queue :
          /\ Walk(queue[i], from) /\ Reached(queue[i], from) \in seen
          /\ \A q \in Seq(Steps) : Walk(q, from) /\ Reached(q, from) = Reached(queue[i], from) => Len(queue[i]) <= Len(q)
          /\ Len(queue[i]) <= Len(queue[1]) + 1
    /\ \A i, j \in DOMAIN queue : i < j => Len(queue[i]) <= Len(queue[j])
    /\ \A v \in seen :
          \/ \E i \in DOMAIN queue : Reached(queue[i], from) = v
          \/ \A k \in EdgesFrom(v) : steps[k].to \in seen
    /\ queue # <<>> =>
          \A q \in Seq(Steps) : Walk(q, from) /\ Len(q) <= Len(queue[1]) => Reached(q, from) \in seen

\* The search begins at the version itself, without a step.
LEMMA SearchBegins ==
    ASSUME NEW from \in Versions, NEW to \in Versions, from # to
    PROVE  SearchInv([queue |-> << <<>> >>, visited |-> {from}], from, to)
<1> DEFINE Q == << <<>> >>
           s == [queue |-> Q, visited |-> {from}]
<1>1. <<>> \in Seq(Steps) /\ Len(<<>>) = 0 /\ Walk(<<>>, from) /\ Reached(<<>>, from) = from
  BY DEF Walk, Reached, ToSet
<1>2. Q \in Seq(Seq(Steps)) /\ DOMAIN Q = {1} /\ Q[1] = <<>>
  OBVIOUS
<1>3. s \in SearchStates /\ s.queue = Q /\ s.visited = {from}
  BY <1>2 DEF SearchStates
<1>4. ASSUME NEW q \in Seq(Steps), Len(q) <= 0 PROVE Reached(q, from) = from
  <2>1. q = <<>>
    BY <1>4, NonEmpty, LenProperties
  <2> QED BY <1>1, <2>1
<1>5. \A q \in Seq(Steps) : 0 <= Len(q)
  BY LenProperties
<1> HIDE DEF Q, s
<1>6. SearchInv(s, from, to)
  BY <1>1, <1>2, <1>3, <1>4, <1>5 DEF SearchInv
<1> QED BY <1>6 DEF s, Q

\* The first path of the queue, when there is one.
LEMMA FirstPath ==
    ASSUME NEW s, NEW from, NEW to, SearchInv(s, from, to), s.queue # <<>>
    PROVE  LET queue == s.queue  path == Head(queue)
           IN  /\ queue \in Seq(Seq(Steps)) /\ s.visited \subseteq Versions /\ s = [queue |-> queue, visited |-> s.visited]
               /\ path = queue[1] /\ path \in Seq(Steps) /\ Walk(path, from) /\ Len(path) \in Nat
               /\ Tail(queue) \in Seq(Seq(Steps)) /\ Len(queue) \in Nat \ {0} /\ Len(Tail(queue)) = Len(queue) - 1
               /\ DOMAIN queue = 1..Len(queue) /\ 1 \in DOMAIN queue
               /\ \A i \in 1..(Len(queue) - 1) : Tail(queue)[i] = queue[i + 1]
<1>1. s \in SearchStates
  BY DEF SearchInv
<1>2. s.queue \in Seq(Seq(Steps)) /\ s.visited \subseteq Versions /\ s = [queue |-> s.queue, visited |-> s.visited]
  BY <1>1 DEF SearchStates
<1> DEFINE queue == s.queue  T == Seq(Steps)
<1>3. queue \in Seq(T) /\ queue # <<>>
  BY <1>2
<1> HIDE DEF queue, T
<1>4. /\ Len(queue) \in Nat /\ DOMAIN queue = 1..Len(queue) /\ 1 \in DOMAIN queue /\ Len(queue) # 0
  BY <1>3, LenProperties, NonEmpty
<1>5. /\ Head(queue) = queue[1] /\ Tail(queue) \in Seq(T) /\ Len(Tail(queue)) = Len(queue) - 1
      /\ \A i \in 1..(Len(queue) - 1) : Tail(queue)[i] = queue[i + 1]
  BY <1>3, HeadTailProperties
<1>6. queue[1] \in T
  BY <1>3, <1>4, LenProperties
<1>7. Walk(queue[1], from)
  BY <1>4 DEF SearchInv, queue
<1>8. Len(queue[1]) \in Nat
  BY <1>6, LenProperties DEF T
<1> QED BY <1>2, <1>3, <1>4, <1>5, <1>6, <1>7, <1>8 DEF queue, T

\* No way so short leads to the version searched for.
LEMMA ArrivesFirst ==
    ASSUME steps \in Seq(Steps), NEW from \in Versions, NEW to \in Versions, NEW s, SearchInv(s, from, to),
           s.queue # <<>>, NEW k \in Arriving(Head(s.queue), from, to)
    PROVE  LET p == Append(Head(s.queue), steps[k])
           IN  /\ Walk(p, from) /\ p # <<>> /\ Reached(p, from) = to
               /\ \A q \in Seq(Steps) : Walk(q, from) /\ Reached(q, from) = to => Len(p) <= Len(q)
<1> DEFINE path == Head(s.queue)  p == Append(path, steps[k])
<1>1. /\ path = s.queue[1] /\ path \in Seq(Steps) /\ Walk(path, from) /\ Len(path) \in Nat
  BY FirstPath
<1>2. k \in EdgesFrom(Reached(path, from)) /\ steps[k].to = to
  BY DEF Arriving
<1> HIDE DEF path
<1>3. Walk(p, from) /\ p # <<>> /\ Len(p) = Len(path) + 1 /\ Reached(p, from) = to
  BY <1>1, <1>2, WalkGrows
<1>4. ASSUME NEW q \in Seq(Steps), Walk(q, from), Reached(q, from) = to PROVE Len(p) <= Len(q)
  <2>1. ~(Len(q) <= Len(path))
    BY <1>1, <1>4 DEF SearchInv
  <2>2. Len(q) \in Nat
    BY LenProperties
  <2> QED BY <1>1, <1>3, <2>1, <2>2
<1> QED BY <1>3, <1>4 DEF path

\* When the queue is empty, no way leads out of what was seen.
LEMMA SearchedAll ==
    ASSUME steps \in Seq(Steps), NEW from, NEW to, NEW s, SearchInv(s, from, to), s.queue = <<>>,
           NEW q \in Seq(Steps), Walk(q, from)
    PROVE  Reached(q, from) # to
<1> DEFINE Astray(p) == Walk(p, from) /\ Reached(p, from) \notin s.visited
           bad == {Len(p) : p \in {p \in Seq(Steps) : Astray(p)}}
<1>1. /\ from \in s.visited /\ to \notin s.visited
      /\ \A v \in s.visited : \A k \in EdgesFrom(v) : steps[k].to \in s.visited
  BY DEF SearchInv
<1>2. SUFFICES ASSUME bad # {} PROVE FALSE
  BY <1>1
<1>3. PICK m \in bad : \A k \in bad : m <= k
  <2>1. bad \in SUBSET Nat
    BY LenProperties
  <2> HIDE DEF bad
  <2> QED BY <1>2, <2>1, LeastNatural
<1>4. PICK p \in Seq(Steps) : Astray(p) /\ Len(p) = m
  BY <1>3
<1> DEFINE f == Front(p)
<1>5. p # <<>>
  BY <1>1, <1>4 DEF Reached
<1>6. /\ Walk(f, from) /\ Len(p) \in Nat \ {0} /\ Len(f) = Len(p) - 1
      /\ \E k \in EdgesFrom(Reached(f, from)) : steps[k].to = Reached(p, from)
  BY <1>4, <1>5, WalkShrinks
<1> HIDE DEF f
<1>7. f \in Seq(Steps) /\ Reached(f, from) \notin s.visited
  BY <1>1, <1>4, <1>6 DEF Walk
<1>8. Len(f) \in bad
  BY <1>6, <1>7
<1>9. m <= Len(f)
  <2> HIDE DEF bad
  <2> QED BY <1>3, <1>8
<1> QED BY <1>4, <1>6, <1>9

\* The first path is replaced by its extensions: to more versions, or with fewer left.
LEMMA SearchGoesOn ==
    ASSUME steps \in Seq(Steps), NEW from \in Versions, NEW to \in Versions, NEW s, SearchInv(s, from, to),
           s.queue # <<>>, Arriving(Head(s.queue), from, to) = {}
    PROVE  LET t == Explored(s, from)
           IN  /\ SearchInv(t, from, to) /\ s.visited \subseteq t.visited
               /\ t.visited = s.visited => Len(t.queue) < Len(s.queue)
<1> DEFINE queue == s.queue
           seen == s.visited
           path == Head(queue)
           L == Len(path)
           end == Reached(path, from)
           out == EdgesFrom(end)
           ext == Extending(path, from, seen)
           new == InOrder(ext)
           rest == Tail(queue)
           fresh == [n \in DOMAIN new |-> Append(path, steps[new[n]])]
           queue2 == rest \o fresh
           seen2 == seen \cup {steps[k].to : k \in out}
           t == Explored(s, from)
<1>1. /\ queue \in Seq(Seq(Steps)) /\ seen \subseteq Versions
      /\ path = queue[1] /\ path \in Seq(Steps) /\ Walk(path, from) /\ L \in Nat
      /\ rest \in Seq(Seq(Steps)) /\ Len(queue) \in Nat \ {0} /\ Len(rest) = Len(queue) - 1
      /\ DOMAIN queue = 1..Len(queue) /\ 1 \in DOMAIN queue
      /\ \A i \in 1..(Len(queue) - 1) : rest[i] = queue[i + 1]
  BY FirstPath
<1>2. t = [queue |-> queue2, visited |-> seen2] /\ t.queue = queue2 /\ t.visited = seen2
  BY DEF Explored
<1>3. /\ from \in seen /\ to \notin seen
      /\ \A i \in DOMAIN queue :
            /\ Walk(queue[i], from) /\ Reached(queue[i], from) \in seen
            /\ \A q \in Seq(Steps) : Walk(q, from) /\ Reached(q, from) = Reached(queue[i], from) => Len(queue[i]) <= Len(q)
            /\ Len(queue[i]) <= L + 1
      /\ \A i, j \in DOMAIN queue : i < j => Len(queue[i]) <= Len(queue[j])
      /\ \A v \in seen :
            \/ \E i \in DOMAIN queue : Reached(queue[i], from) = v
            \/ \A k \in EdgesFrom(v) : steps[k].to \in seen
      /\ \A q \in Seq(Steps) : Walk(q, from) /\ Len(q) <= L => Reached(q, from) \in seen
  <2> HIDE DEF L
  <2>1. Len(queue[1]) = L
    BY <1>1 DEF L
  <2> QED BY <2>1 DEF SearchInv
<1>4. /\ ext \subseteq out /\ out \subseteq DOMAIN steps
      /\ \A k \in ext : steps[k].to \notin seen
      /\ \A k \in out : steps[k].to # to /\ steps[k].to \in Versions
  <2>1. \A k \in out : k \in DOMAIN steps
    BY DEF EdgesFrom
  <2> QED BY <2>1, StepsTyped DEF Extending, Arriving
<1>5. ASSUME NEW k \in out, steps[k].to \notin seen
      PROVE  \E m \in ext : steps[m].to = steps[k].to
  <2> DEFINE same == {m \in out : steps[m].to = steps[k].to}
  <2>1. same \in SUBSET Nat /\ same # {}
    BY <1>4, StepsTyped
  <2> HIDE DEF same
  <2>2. PICK m \in same : \A j \in same : m <= j
    BY <2>1, LeastNatural
  <2>3. m \in out /\ steps[m].to = steps[k].to /\ m \in Nat
    BY <2>1, <2>2 DEF same
  <2>4. ASSUME NEW j \in out, j < m PROVE steps[j].to # steps[m].to
    <3>1. j \in Nat
      BY <1>4, StepsTyped
    <3> QED BY <2>2, <2>3, <2>4, <3>1 DEF same
  <2>5. m \in ext
    BY <1>5, <2>3, <2>4 DEF Extending
  <2> QED BY <2>3, <2>5
<1>6. /\ Cardinality(ext) \in Nat /\ DOMAIN new = 1..Cardinality(ext) /\ \A i \in DOMAIN new : new[i] \in ext
      /\ \A k \in ext : \E i \in DOMAIN new : new[i] = k
  <2>1. ext \in SUBSET (1..Len(steps)) /\ Len(steps) \in Nat
    BY <1>4, StepsTyped
  <2> HIDE DEF ext
  <2> QED BY <2>1, InOrderOf
<1>7. ASSUME NEW i \in DOMAIN new
      PROVE  /\ fresh[i] \in Seq(Steps) /\ Walk(fresh[i], from) /\ Len(fresh[i]) = L + 1
             /\ Reached(fresh[i], from) = steps[new[i]].to /\ new[i] \in ext
  <2>1. new[i] \in out /\ new[i] \in ext /\ fresh[i] = Append(path, steps[new[i]])
    BY <1>4, <1>6
  <2> HIDE DEF new, fresh, ext, path
  <2>2. /\ Walk(fresh[i], from) /\ Len(fresh[i]) = L + 1 /\ Reached(fresh[i], from) = steps[new[i]].to
    BY <1>1, <2>1, WalkGrows
  <2> QED BY <2>1, <2>2 DEF Walk
<1> DEFINE c == Cardinality(ext)  n == Len(queue) - 1
<1>8. fresh \in Seq(Seq(Steps)) /\ Len(fresh) = c /\ DOMAIN fresh = 1..c /\ c \in Nat /\ n \in Nat
  <2>1. fresh = [i \in DOMAIN new |-> fresh[i]]
    OBVIOUS
  <2> HIDE DEF fresh, new
  <2>2. fresh \in [1..c -> Seq(Steps)] /\ c \in Nat
    BY <1>6, <1>7, <2>1
  <2> HIDE DEF c
  <2> QED BY <1>1, <2>2, FunctionIsSeq
<1>9. /\ queue2 \in Seq(Seq(Steps)) /\ Len(queue2) = n + c /\ DOMAIN queue2 = 1..(n + c)
      /\ \A i \in 1..n : queue2[i] = queue[i + 1]
      /\ \A i \in 1..c : queue2[n + i] = fresh[i]
  <2> DEFINE T == Seq(Steps)
  <2>1. rest \in Seq(T) /\ fresh \in Seq(T) /\ Len(rest) = n /\ Len(fresh) = c /\ n \in Nat /\ c \in Nat
        /\ \A i \in 1..n : rest[i] = queue[i + 1]
    BY <1>1, <1>8
  <2> HIDE DEF T, rest, fresh, n, c, queue
  <2>2. /\ queue2 \in Seq(T) /\ Len(queue2) = n + c
        /\ \A i \in 1..(n + c) : queue2[i] = IF i <= n THEN rest[i] ELSE fresh[i - n]
    BY <2>1, ConcatProperties
  <2>3. DOMAIN queue2 = 1..(n + c)
    BY <2>2, LenProperties
  <2>4. \A i \in 1..n : i \in 1..(n + c) /\ i <= n
    BY <2>1
  <2>5. \A i \in 1..c : n + i \in 1..(n + c) /\ ~(n + i <= n) /\ n + i - n = i
    BY <2>1
  <2> HIDE DEF queue2
  <2>6. \A i \in 1..n : queue2[i] = queue[i + 1]
    BY <2>1, <2>2, <2>4
  <2>7. \A i \in 1..c : queue2[n + i] = fresh[i]
    <3> SUFFICES ASSUME NEW i \in 1..c PROVE queue2[n + i] = fresh[i]
      OBVIOUS
    <3>1. n + i \in 1..(n + c) /\ ~(n + i <= n) /\ n + i - n = i
      BY <2>5
    <3>2. n \in Nat /\ c \in Nat
      BY <2>1
    <3> QED BY <2>2, <3>1, <3>2
  <2>8. queue2 \in Seq(Seq(Steps))
    BY <2>2, Zenon DEF T
  <2> QED BY <2>2, <2>3, <2>6, <2>7, <2>8, Zenon
<1> HIDE DEF t, queue2, seen2, fresh, rest, ext, new, c, n, out, end, L
<1> DEFINE N == Len(queue)
<1>10. N = n + 1 /\ N \in Nat /\ n \in Nat /\ c \in Nat /\ DOMAIN queue = 1..N
  BY <1>1, <1>8 DEF n
<1>11. \A i \in 1..n : i + 1 \in DOMAIN queue
  <2> HIDE DEF N
  <2> QED BY <1>10
<1> HIDE DEF N
<1>12. ASSUME NEW i \in DOMAIN queue2
       PROVE  \/ i \in 1..n /\ i + 1 \in DOMAIN queue /\ queue2[i] = queue[i + 1]
              \/ \E j \in DOMAIN new : i = n + j /\ queue2[i] = fresh[j]
  <2>1. CASE i <= n
    <3>1. i \in 1..n
      <4>1. i \in 1..(n + c)
        BY <1>9
      <4> QED BY <1>10, <2>1, <4>1
    <3> QED BY <1>9, <1>11, <3>1
  <2>2. CASE ~(i <= n)
    <3>1. i - n \in 1..c /\ i = n + (i - n)
      BY <1>8, <1>9, <2>2
    <3>2. i - n \in DOMAIN new
      BY <1>6, <3>1 DEF c
    <3> QED BY <1>9, <3>1, <3>2
  <2> QED BY <2>1, <2>2
<1>13. seen \subseteq seen2 /\ seen2 \subseteq Versions /\ from \in seen2 /\ to \notin seen2
       /\ \A k \in out : steps[k].to \in seen2
  BY <1>1, <1>3, <1>4 DEF seen2
<1>14. \A i \in DOMAIN queue : Len(queue[i]) \in Nat /\ L <= Len(queue[i]) /\ Len(queue[i]) <= L + 1
  <2>1. \A i \in DOMAIN queue : queue[i] \in Seq(Steps) /\ Len(queue[i]) \in Nat
    BY <1>3, LenProperties DEF Walk
  <2>2. \A i \in DOMAIN queue : i # 1 => 1 < i
    BY <1>1
  <2>3. Len(queue[1]) = L
    BY <1>1 DEF L
  <2> QED BY <1>1, <1>3, <2>1, <2>2, <2>3
<1>15. L \in Nat
  BY <1>1 DEF L
<1>16. ASSUME NEW i \in DOMAIN queue2
       PROVE  /\ Walk(queue2[i], from) /\ Reached(queue2[i], from) \in seen2
              /\ Len(queue2[i]) \in Nat /\ L <= Len(queue2[i]) /\ Len(queue2[i]) <= L + 1
              /\ \A q \in Seq(Steps) : Walk(q, from) /\ Reached(q, from) = Reached(queue2[i], from) => Len(queue2[i]) <= Len(q)
  <2>1. ASSUME NEW j \in DOMAIN queue, queue2[i] = queue[j]
        PROVE  /\ Walk(queue2[i], from) /\ Reached(queue2[i], from) \in seen2
               /\ Len(queue2[i]) \in Nat /\ L <= Len(queue2[i]) /\ Len(queue2[i]) <= L + 1
               /\ \A q \in Seq(Steps) : Walk(q, from) /\ Reached(q, from) = Reached(queue2[i], from) => Len(queue2[i]) <= Len(q)
    BY <1>3, <1>13, <1>14, <2>1
  <2>2. ASSUME NEW j \in DOMAIN new, queue2[i] = fresh[j]
        PROVE  /\ Walk(queue2[i], from) /\ Reached(queue2[i], from) \in seen2
               /\ Len(queue2[i]) \in Nat /\ L <= Len(queue2[i]) /\ Len(queue2[i]) <= L + 1
               /\ \A q \in Seq(Steps) : Walk(q, from) /\ Reached(q, from) = Reached(queue2[i], from) => Len(queue2[i]) <= Len(q)
    <3>1. /\ Walk(fresh[j], from) /\ Len(fresh[j]) = L + 1 /\ Reached(fresh[j], from) = steps[new[j]].to
          /\ new[j] \in ext /\ new[j] \in out
      BY <1>4, <1>7
    <3>2. Reached(fresh[j], from) \notin seen /\ Reached(fresh[j], from) \in seen2
      BY <1>4, <1>13, <3>1
    <3>3. ASSUME NEW q \in Seq(Steps), Walk(q, from), Reached(q, from) = Reached(fresh[j], from) PROVE L + 1 <= Len(q)
      <4>1. ~(Len(q) <= L) /\ Len(q) \in Nat
        BY <1>3, <3>2, <3>3, LenProperties
      <4> QED BY <1>15, <4>1
    <3> QED BY <1>15, <2>2, <3>1, <3>2, <3>3
  <2> QED BY <1>12, <2>1, <2>2
<1>17. ASSUME NEW i \in DOMAIN queue2, NEW j \in DOMAIN queue2, i < j PROVE Len(queue2[i]) <= Len(queue2[j])
  <2>1. CASE \E m \in DOMAIN new : j = n + m /\ queue2[j] = fresh[m]
    <3>1. Len(queue2[j]) = L + 1
      BY <1>7, <2>1
    <3> QED BY <1>16, <3>1
  <2>2. CASE j \in 1..n /\ j + 1 \in DOMAIN queue /\ queue2[j] = queue[j + 1]
    <3>1. i \in 1..n /\ i + 1 < j + 1
      <4>1. i \in 1..(n + c) /\ j \in 1..n
        BY <1>9, <2>2
      <4> QED BY <1>17, <1>10, <4>1
    <3>2. queue2[i] = queue[i + 1] /\ i + 1 \in DOMAIN queue
      BY <1>9, <1>11, <3>1
    <3> QED BY <1>3, <2>2, <3>1, <3>2
  <2> QED BY <1>12, <2>1, <2>2
<1>18. ASSUME NEW v \in seen2
       PROVE  \/ \E i \in DOMAIN queue2 : Reached(queue2[i], from) = v
              \/ \A k \in EdgesFrom(v) : steps[k].to \in seen2
  <2>1. CASE v \in seen
    <3>1. CASE \A k \in EdgesFrom(v) : steps[k].to \in seen
      BY <1>13, <3>1
    <3>2. ASSUME NEW i \in DOMAIN queue, Reached(queue[i], from) = v
          PROVE  \/ \E j \in DOMAIN queue2 : Reached(queue2[j], from) = v
                 \/ \A k \in EdgesFrom(v) : steps[k].to \in seen2
      <4>1. CASE i = 1
        <5>1. v = end /\ EdgesFrom(v) = out
          BY <1>1, <3>2, <4>1 DEF end, out
        <5> QED BY <1>13, <5>1
      <4>2. CASE i # 1
        <5>1. i - 1 \in 1..n /\ i - 1 + 1 = i /\ i - 1 \in 1..(n + c)
          <6>1. i \in 1..N
            BY <1>10
          <6> QED BY <1>10, <4>2, <6>1
        <5>2. queue2[i - 1] = queue[i] /\ i - 1 \in DOMAIN queue2
          BY <1>9, <5>1
        <5> QED BY <3>2, <5>2
      <4> QED BY <4>1, <4>2
    <3> QED BY <1>3, <2>1, <3>1, <3>2
  <2>2. CASE v \notin seen
    <3>1. PICK k \in out : steps[k].to = v
      BY <2>2 DEF seen2
    <3>2. PICK m \in ext : steps[m].to = v
      BY <1>5, <2>2, <3>1
    <3>3. PICK i \in DOMAIN new : new[i] = m
      BY <1>6
    <3>4. i \in 1..c
      BY <1>6, <3>3 DEF c
    <3>5. n + i \in DOMAIN queue2 /\ queue2[n + i] = fresh[i]
      BY <1>8, <1>9, <3>4
    <3> QED BY <1>7, <3>2, <3>3, <3>5
  <2> QED BY <2>1, <2>2
<1>19. ASSUME queue2 # <<>>, NEW q \in Seq(Steps), Walk(q, from), Len(q) <= Len(queue2[1])
       PROVE  Reached(q, from) \in seen2
  <2>1. 1 \in DOMAIN queue2
    BY <1>9, <1>19, NonEmpty
  <2>2. Len(queue2[1]) \in Nat /\ L <= Len(queue2[1]) /\ Len(queue2[1]) <= L + 1 /\ Len(q) \in Nat
    BY <1>16, <2>1, LenProperties
  <2>3. CASE Len(q) <= L
    BY <1>3, <1>13, <1>19, <2>3
  <2>4. CASE ~(Len(q) <= L)
    <3>1. Len(q) = L + 1 /\ Len(queue2[1]) = L + 1
      BY <1>15, <1>19, <2>2, <2>4
    <3>2. q # <<>>
      BY <1>15, <3>1, NonEmpty
    <3>3. /\ Walk(Front(q), from) /\ Len(Front(q)) = L
          /\ \E k \in EdgesFrom(Reached(Front(q), from)) : steps[k].to = Reached(q, from)
      <4>1. /\ Walk(Front(q), from) /\ Len(Front(q)) = Len(q) - 1
            /\ \E k \in EdgesFrom(Reached(Front(q), from)) : steps[k].to = Reached(q, from)
        BY <1>19, <3>2, WalkShrinks
      <4>2. Len(q) - 1 = L
        BY <1>15, <3>1
      <4> QED BY <4>1, <4>2
    <3> DEFINE p == Front(q)  v == Reached(p, from)
    <3>4. v \in seen /\ p \in Seq(Steps)
      BY <1>3, <1>15, <3>3 DEF Walk
    <3> HIDE DEF p
    <3>5. \A i \in DOMAIN queue2 : Reached(queue2[i], from) # v
      <4> SUFFICES ASSUME NEW i \in DOMAIN queue2, Reached(queue2[i], from) = v PROVE FALSE
        OBVIOUS
      <4>1. Len(queue2[i]) <= Len(p) /\ Len(p) = L /\ Len(queue2[i]) \in Nat
        BY <1>16, <3>3, <3>4 DEF p
      <4>2. Len(queue2[1]) <= Len(queue2[i])
        <5>1. i = 1 \/ 1 < i
          BY <1>8, <1>9
        <5>2. CASE i = 1
          BY <2>2, <5>2
        <5>3. CASE 1 < i
          BY <1>17, <2>1, <5>3
        <5> QED BY <5>1, <5>2, <5>3
      <4> QED BY <1>15, <3>1, <4>1, <4>2
    <3> QED BY <1>13, <1>18, <3>3, <3>4, <3>5 DEF p
  <2> QED BY <2>3, <2>4
<1>20. t \in SearchStates
  BY <1>2, <1>9, <1>13 DEF SearchStates
<1>21. SearchInv(t, from, to)
  <2>1. \A i \in DOMAIN queue2 : Len(queue2[i]) <= Len(queue2[1]) + 1
    <3> SUFFICES ASSUME NEW i \in DOMAIN queue2 PROVE Len(queue2[i]) <= Len(queue2[1]) + 1
      OBVIOUS
    <3>1. 1 \in DOMAIN queue2
      BY <1>8, <1>9
    <3> QED BY <1>15, <1>16, <3>1
  <2> QED BY <1>2, <1>13, <1>16, <1>17, <1>18, <1>19, <1>20, <2>1 DEF SearchInv
<1>22. seen2 = seen => Len(queue2) < Len(queue)
  <2> SUFFICES ASSUME seen2 = seen PROVE Len(queue2) < Len(queue)
    OBVIOUS
  <2>1. c = 0
    <3>1. DOMAIN new = {}
      BY <1>4, <1>6, <1>13
    <3> QED BY <1>6, <3>1 DEF c
  <2> QED BY <1>1, <1>9, <2>1 DEF n
<1> QED BY <1>2, <1>13, <1>21, <1>22 DEF t

\* A state of the search leads to a state.
LEMMA ExploredTyped ==
    ASSUME steps \in Seq(Steps), NEW from, NEW s \in SearchStates, s.queue # <<>>
    PROVE  Explored(s, from) \in SearchStates
<1> DEFINE queue == s.queue
           path == Head(queue)
           out == EdgesFrom(Reached(path, from))
           ext == Extending(path, from, s.visited)
           new == InOrder(ext)
           fresh == [n \in DOMAIN new |-> Append(path, steps[new[n]])]
           rest == Tail(queue)
           T == Seq(Steps)
           c == Cardinality(ext)
<1>1. queue \in Seq(T) /\ queue # <<>> /\ s.visited \subseteq Versions
  BY DEF SearchStates
<1> HIDE DEF queue
<1>2. path \in T /\ rest \in Seq(T)
  <2> HIDE DEF T
  <2> QED BY <1>1, TailDistinct
<1> HIDE DEF path, rest
<1>3. ext \subseteq out /\ out \subseteq 1..Len(steps) /\ Len(steps) \in Nat
  BY StepsTyped DEF Extending, EdgesFrom
<1>4. c \in Nat /\ DOMAIN new = 1..c /\ \A i \in DOMAIN new : new[i] \in ext
  <2>1. ext \in SUBSET (1..Len(steps))
    BY <1>3
  <2> HIDE DEF ext
  <2> QED BY <1>3, <2>1, InOrderOf
<1>5. \A k \in out : steps[k] \in Steps /\ steps[k].to \in Versions
  BY <1>3, StepsTyped
<1>6. \A i \in DOMAIN new : fresh[i] \in T
  <2> SUFFICES ASSUME NEW i \in DOMAIN new PROVE fresh[i] \in T
    OBVIOUS
  <2>1. fresh[i] = Append(path, steps[new[i]]) /\ steps[new[i]] \in Steps
    BY <1>3, <1>4, <1>5
  <2> HIDE DEF new, fresh
  <2> QED BY <1>2, <2>1, AppendProperties
<1>7. fresh \in Seq(T)
  <2>1. fresh = [i \in DOMAIN new |-> fresh[i]]
    OBVIOUS
  <2> HIDE DEF fresh, new, T
  <2>2. fresh \in [1..c -> T] /\ c \in Nat
    BY <1>4, <1>6, <2>1
  <2> HIDE DEF c
  <2> QED BY <2>2, FunctionIsSeq
<1>8. rest \o fresh \in Seq(T)
  <2> HIDE DEF fresh, T
  <2> QED BY <1>2, <1>7, ConcatProperties
<1>9. Explored(s, from) = [queue |-> rest \o fresh, visited |-> s.visited \cup {steps[k].to : k \in out}]
  BY DEF Explored, queue, path, rest
<1> HIDE DEF fresh
<1> QED BY <1>1, <1>5, <1>8, <1>9 DEF SearchStates

\* What the search for a path of migration steps comes to, for every registry: a chain
\* of registered steps between the versions that no other is shorter than, and none only
\* when there is no chain, or nothing to do.
THEOREM ResolvePathFinds ==
    ASSUME steps \in Seq(Steps), NEW from \in Versions, NEW to \in Versions
    PROVE  LET p == ResolvePath(from, to)
           IN  /\ p \in Seq(Steps) /\ (from = to => p = <<>>)
               /\ p = <<>> /\ from # to => \A q \in Seq(Steps) : Walk(q, from) => Reached(q, from) # to
               /\ p # <<>> => /\ Walk(p, from) /\ Reached(p, from) = to
                              /\ \A q \in Seq(Steps) : Walk(q, from) /\ Reached(q, from) = to => Len(p) <= Len(q)
<1> DEFINE S == SearchStates
           Body(g, s) == LET arriving == Arriving(Head(s.queue), from, to)
                         IN  CASE s.queue = <<>> -> <<>>
                               [] s.queue # <<>> /\ arriving # {} -> Append(Head(s.queue), steps[Min(arriving)])
                               [] OTHER -> g[Explored(s, from)]
           F == CHOOSE g : g = [s \in S |-> Body(g, s)]
           first == [queue |-> << <<>> >>, visited |-> {from}]
           Shortest(p) == /\ Walk(p, from) /\ Reached(p, from) = to
                          /\ \A q \in Seq(Steps) : Walk(q, from) /\ Reached(q, from) = to => Len(p) <= Len(q)
           Good(p) == /\ p \in Seq(Steps) /\ (p # <<>> => Shortest(p))
                      /\ p = <<>> => \A q \in Seq(Steps) : Walk(q, from) => Reached(q, from) # to
           D == {s \in S : s.queue = <<>> \/ Arriving(Head(s.queue), from, to) # {}}
           r == [s \in D |-> IF s.queue = <<>> THEN <<>>
                             ELSE Append(Head(s.queue), steps[Min(Arriving(Head(s.queue), from, to))])]
           f == [s \in S \ D |-> Explored(s, from)]
<1>0. \A p : Arriving(p, from, to) \in SUBSET Nat
  <2>1. \A p : Arriving(p, from, to) \in SUBSET DOMAIN steps
    BY DEF Arriving, EdgesFrom
  <2>2. DOMAIN steps \in SUBSET Nat
    BY StepsTyped
  <2> QED BY <2>1, <2>2
<1>1. ResolvePath(from, to) = IF from = to THEN <<>> ELSE F[first]
  BY DEF ResolvePath
<1>2. f \in [S \ D -> S]
  BY ExploredTyped
<1>3. \A g : \A s \in S : Body(g, s) = IF s \in D THEN r[s] ELSE g[f[s]]
  <2> SUFFICES ASSUME NEW g, NEW s \in S PROVE Body(g, s) = IF s \in D THEN r[s] ELSE g[f[s]]
    OBVIOUS
  <2> HIDE DEF S
  <2>1. CASE s.queue = <<>>
    BY <2>1
  <2>2. CASE s.queue # <<>> /\ Arriving(Head(s.queue), from, to) # {}
    BY <2>2
  <2>3. CASE s.queue # <<>> /\ Arriving(Head(s.queue), from, to) = {}
    BY <2>3
  <2> QED BY <2>1, <2>2, <2>3
<1>4. F = [s \in S |-> Body(F, s)]
  <2>1. PICK g : g = [s \in S |-> g[s]] /\ \A s \in S : g[s] = IF s \in D THEN r[s] ELSE g[f[s]]
    <3> HIDE DEF r, f
    <3>1. D \in SUBSET S
      OBVIOUS
    <3> HIDE DEF D, S, Body
    <3>2. IsLoop(Loop(S, D, f, r), S, D, f, r)
      BY <1>2, <3>1, LoopExists
    <3> QED BY <3>2 DEF IsLoop
  <2> HIDE DEF S, D, r, f, Body
  <2>2. \A s \in S : g[s] = Body(g, s)
    BY <1>3, <2>1
  <2>3. g = [s \in S |-> Body(g, s)]
    BY <2>1, <2>2
  <2> QED BY <2>3
<1>5. \A s \in S : F[s] = IF s \in D THEN r[s] ELSE F[f[s]]
  <2> HIDE DEF S, D, r, f, Body, F
  <2> QED BY <1>3, <1>4
<1>6. ASSUME NEW s, SearchInv(s, from, to) PROVE Good(F[s])
  <2> DEFINE room(x) == Cardinality(Versions \ x.visited)
             bad == {x \in S : SearchInv(x, from, to) /\ ~Good(F[x])}
  <2>0. s \in S
    BY <1>6 DEF SearchInv
  <2>1. ASSUME NEW x \in S, SearchInv(x, from, to)
        PROVE  x.visited \subseteq Versions /\ IsFiniteSet(Versions \ x.visited) /\ room(x) \in Nat /\ Len(x.queue) \in Nat
    <3>1. x.visited \subseteq Versions /\ x.queue \in Seq(Seq(Steps))
      BY DEF SearchStates
    <3>2. IsFiniteSet(Versions \ x.visited)
      BY MigrationAssumption, FS_Subset
    <3> QED BY <3>1, <3>2, FS_CardinalityType, LenProperties
  <2>2. SUFFICES ASSUME bad # {} PROVE FALSE
    <3> HIDE DEF Good, F
    <3> QED BY <1>6, <2>0
  <2> DEFINE rooms == {room(x) : x \in bad}
  <2>3. rooms \in SUBSET Nat /\ rooms # {}
    <3> HIDE DEF Good, F, room
    <3> QED BY <2>1, <2>2
  <2>4. PICK m \in rooms : \A k \in rooms : m <= k
    <3> HIDE DEF rooms
    <3> QED BY <2>3, LeastNatural
  <2> DEFINE narrow == {x \in bad : room(x) = m}
             lengths == {Len(x.queue) : x \in narrow}
  <2>5. lengths \in SUBSET Nat /\ lengths # {}
    <3>1. \E x \in bad : room(x) = m
      BY <2>4
    <3> HIDE DEF Good, F, room
    <3> QED BY <2>1, <3>1
  <2>6. PICK l \in lengths : \A k \in lengths : l <= k
    <3> HIDE DEF lengths
    <3> QED BY <2>5, LeastNatural
  <2>7. PICK x \in narrow : Len(x.queue) = l
    BY <2>6
  <2>8. /\ x \in S /\ SearchInv(x, from, to) /\ ~Good(F[x]) /\ room(x) = m
    BY <2>7
  <2>9. CASE x \in D
    <3>1. F[x] = r[x]
      <4> HIDE DEF D, r, f, F, S
      <4> QED BY <1>5, <2>8, <2>9
    <3>2. CASE x.queue = <<>>
      <4>1. F[x] = <<>>
        <5> HIDE DEF F
        <5> QED BY <2>9, <3>1, <3>2
      <4>2. \A q \in Seq(Steps) : Walk(q, from) => Reached(q, from) # to
        BY <2>8, <3>2, SearchedAll
      <4> HIDE DEF F
      <4> QED BY <2>8, <4>1, <4>2
    <3>3. CASE x.queue # <<>>
      <4> DEFINE arriving == Arriving(Head(x.queue), from, to)
      <4>1. F[x] = Append(Head(x.queue), steps[Min(arriving)]) /\ arriving # {}
        <5> HIDE DEF F
        <5> QED BY <2>9, <3>1, <3>3
      <4>2. arriving \in SUBSET Nat
        <5> HIDE DEF F
        <5> QED BY <1>0
      <4>3. Min(arriving) \in arriving
        <5> HIDE DEF arriving
        <5> QED BY <4>1, <4>2, MinIsLeast
      <4>4. Shortest(F[x])
        <5> HIDE DEF F
        <5> QED BY <2>8, <3>3, <4>1, <4>3, ArrivesFirst
      <4> HIDE DEF F
      <4>5. F[x] # <<>>
        <5> HIDE DEF F
        <5> QED BY <2>8, <3>3, <4>1, <4>3, ArrivesFirst
      <4> QED BY <2>8, <4>4, <4>5 DEF Walk
    <3> QED BY <3>2, <3>3
  <2>10. CASE x \notin D
    <3> DEFINE y == Explored(x, from)
    <3>1. F[x] = F[y]
      <4>1. f[x] = y
        BY <2>8, <2>10
      <4> HIDE DEF D, r, f, F, S
      <4> QED BY <1>5, <2>8, <2>10, <4>1
    <3>2. x.queue # <<>> /\ Arriving(Head(x.queue), from, to) = {}
      BY <2>8, <2>10
    <3>3. /\ SearchInv(y, from, to) /\ x.visited \subseteq y.visited
          /\ y.visited = x.visited => Len(y.queue) < Len(x.queue)
      BY <2>8, <3>2, SearchGoesOn
    <3> HIDE DEF y, F, Good
    <3>4. y \in S /\ y \in bad
      BY <2>8, <3>1, <3>3 DEF SearchInv
    <3>5. room(y) \in Nat /\ room(y) \in rooms /\ m <= room(y)
      <4> HIDE DEF room
      <4> QED BY <2>1, <2>4, <3>3, <3>4
    <3>6. CASE y.visited = x.visited
      <4>1. room(y) = m
        BY <2>8, <3>6
      <4>2. Len(y.queue) \in lengths
        <5> HIDE DEF room
        <5> QED BY <3>4, <4>1
      <4>3. l <= Len(y.queue) /\ Len(y.queue) < l /\ Len(y.queue) \in Nat /\ l \in Nat
        <5> HIDE DEF lengths, narrow, bad
        <5> QED BY <2>1, <2>5, <2>6, <2>7, <3>3, <3>4, <3>6, <4>2
      <4> QED BY <4>3
    <3>7. CASE y.visited # x.visited
      <4> DEFINE U == Versions \ x.visited  W == Versions \ y.visited
      <4>1. W \in SUBSET U /\ W # U /\ IsFiniteSet(U) /\ IsFiniteSet(W)
        BY <2>1, <2>8, <3>3, <3>4, <3>7
      <4>2. Cardinality(U) = m /\ Cardinality(W) \in Nat /\ m \in Nat /\ m <= Cardinality(W)
        BY <2>1, <2>8, <3>5
      <4> HIDE DEF U, W
      <4>3. Cardinality(W) <= Cardinality(U) /\ Cardinality(W) # Cardinality(U)
        BY <4>1, FS_Subset
      <4> QED BY <4>2, <4>3
    <3> QED BY <3>6, <3>7
  <2> QED BY <2>9, <2>10
<1>7. CASE from = to
  BY <1>1, <1>7
<1>8. CASE from # to
  <2>1. Good(F[first])
    <3> HIDE DEF F, Good, first
    <3> QED BY <1>6, <1>8, SearchBegins DEF first
  <2> HIDE DEF F, first
  <2> QED BY <1>1, <1>8, <2>1
<1> QED BY <1>7, <1>8

\* A plan is a shortest way.
PlanSound ==
    plan.steps # <<>> =>
        /\ Walk(plan.steps, plan.from) /\ Reached(plan.steps, plan.from) = plan.to
        /\ \A q \in Seq(Steps) : Walk(q, plan.from) /\ Reached(q, plan.from) = plan.to => Len(plan.steps) <= Len(q)

\* The state is what the steps of a sequence lead to, and what is left after the
\* last k of those that were completed have been rolled back.
Through(p) == Len(applied) = Len(p) /\ \A k \in 1..Len(p) : applied[k] = [step |-> p[k], undo |-> FALSE]
BackBy(k) ==
    LET n == Len(completed)
    IN  /\ k <= n /\ Len(applied) = n + k
        /\ \A i \in 1..n : applied[i] = [step |-> completed[i], undo |-> FALSE]
        /\ \A j \in 1..k : applied[n + j] = [step |-> completed[n + 1 - j], undo |-> TRUE]

\* What is completed and what is yet to do make the plan; what is yet to be rolled
\* back is the beginning of what was completed, the last of it first.
MGInv ==
    /\ MGTypeOK
    /\ PlanSound
    /\ mgPhase = "none" => plan.steps = <<>> /\ applied = <<>> /\ completed = <<>> /\ ~quiet
    /\ mgPhase = "migrating" =>
          /\ todo # <<>> /\ ~quiet /\ Through(completed)
          /\ Len(plan.steps) = Len(completed) + Len(todo)
          /\ \A k \in 1..Len(completed) : plan.steps[k] = completed[k]
          /\ \A k \in 1..Len(todo) : plan.steps[Len(completed) + k] = todo[k]
    /\ mgPhase = "COMPLETED" /\ ~quiet => Through(plan.steps)
    /\ mgPhase = "rollingBack" =>
          /\ todo # <<>> /\ Len(todo) <= Len(completed) /\ ~options.dryRun
          /\ \A k \in 1..Len(todo) : todo[k] = completed[Len(todo) + 1 - k]
          /\ undone => BackBy(Len(completed) - Len(todo))
    /\ mgPhase = "ROLLED_BACK" => ~options.dryRun /\ BackBy(Len(completed))

\* Nothing is planned at first.
LEMMA MGInitInv == MGInit => MGInv
<1> SUFFICES ASSUME MGInit PROVE MGInv
  OBVIOUS
<1>1. NoPlan \in [from : Versions, to : Versions, steps : Seq(Steps)] /\ NoPlan.steps = <<>>
  <2>1. (CHOOSE v \in Versions : TRUE) \in Versions
    BY MigrationAssumption
  <2>2. <<>> \in Seq(Steps)
    OBVIOUS
  <2> HIDE DEF NoPlan
  <2> QED BY <2>1, <2>2 DEF NoPlan
<1>2. <<>> \in Seq(Steps) /\ <<>> \in Seq(Change)
  OBVIOUS
<1> QED BY <1>1, <1>2 DEF MGInit, MGInv, MGTypeOK, PlanSound, Options

\* Each step of a run keeps to the plan, or goes back along what was completed.
LEMMA MGNextInv ==
    ASSUME MGInv, [MGNext]_mgVars
    PROVE  MGInv'
<1> USE DEF MGTypeOK
<1>1. CASE UNCHANGED mgVars
  BY <1>1 DEF MGInv, mgVars, PlanSound, Walk, Through, BackBy
<1>0. UNCHANGED <<steps, plan>> => PlanSound'
  BY DEF MGInv, PlanSound, Walk
<1>2. ASSUME NEW s \in Steps, RegisterStep(s) \/ UnregisterStep(s) PROVE MGInv'
  <2>1. RemoveFirst(steps, s) \in Seq(Steps)
    <3>1. steps \in Seq(Steps)
      BY DEF MGInv
    <3> QED BY <3>1, RemoveFirstRemoves, RemoveAtShifts
  <2>2. Append(RemoveFirst(steps, s), s) \in Seq(Steps)
    <3> DEFINE q == RemoveFirst(steps, s)
    <3> HIDE DEF q
    <3>1. q \in Seq(Steps)
      BY <2>1 DEF q
    <3>2. Append(q, s) \in Seq(Steps)
      BY <3>1
    <3> QED BY <3>2 DEF q
  <2>3. mgPhase = "none" /\ UNCHANGED runVars /\ steps' \in Seq(Steps)
    BY <1>2, <2>1, <2>2 DEF RegisterStep, UnregisterStep
  <2> QED BY <2>3 DEF MGInv, runVars, PlanSound
<1>3. ASSUME NEW from \in Versions, NEW to \in Versions, NEW o \in Options, Run(from, to, o) PROVE MGInv'
  <2> DEFINE path == ResolvePath(from, to)
  <2>1. /\ path \in Seq(Steps)
        /\ path # <<>> => /\ Walk(path, from) /\ Reached(path, from) = to
                          /\ \A q \in Seq(Steps) : Walk(q, from) /\ Reached(q, from) = to => Len(path) <= Len(q)
    <3>1. steps \in Seq(Steps)
      BY DEF MGInv
    <3> QED BY <3>1, ResolvePathFinds
  <2> HIDE DEF path
  <2>2. /\ mgPhase = "none" /\ plan' = [from |-> from, to |-> to, steps |-> path] /\ options' = o /\ todo' = path
        /\ mgPhase' = IF path = <<>> THEN "COMPLETED" ELSE "migrating"
        /\ UNCHANGED <<steps, applied, completed, undone, quiet>>
    BY <1>3 DEF Run, path
  <2>3. MGTypeOK'
    BY <2>1, <2>2 DEF MGInv
  <2>4. PlanSound'
    BY <2>1, <2>2 DEF PlanSound, Walk
  <2>5. applied = <<>> /\ completed = <<>> /\ ~quiet /\ Len(<<>>) = 0
    BY <2>2 DEF MGInv
  <2>6. Len(path) \in Nat
    BY <2>1, LenProperties
  <2> QED BY <2>2, <2>3, <2>4, <2>5, <2>6 DEF MGInv, Through
<1>4. CASE StepSucceeds
  <2> DEFINE n == Len(completed)  h == Head(todo)
  <2>1. /\ mgPhase = "migrating" /\ applied' = Append(applied, [step |-> h, undo |-> FALSE])
        /\ completed' = Append(completed, h) /\ todo' = Tail(todo)
        /\ mgPhase' = IF Tail(todo) = <<>> THEN "COMPLETED" ELSE "migrating"
        /\ UNCHANGED <<steps, plan, options, undone, quiet>>
    BY <1>4 DEF StepSucceeds
  <2>2. /\ todo # <<>> /\ ~quiet /\ Through(completed) /\ Len(plan.steps) = n + Len(todo)
        /\ \A k \in 1..n : plan.steps[k] = completed[k]
        /\ \A k \in 1..Len(todo) : plan.steps[n + k] = todo[k]
        /\ completed \in Seq(Steps) /\ todo \in Seq(Steps) /\ applied \in Seq(Change)
    BY <2>1 DEF MGInv
  <2>3. /\ Tail(todo) \in Seq(Steps) /\ h \in Steps /\ h = todo[1] /\ Len(todo) \in Nat \ {0}
        /\ Len(Tail(todo)) = Len(todo) - 1 /\ \A k \in 1..(Len(todo) - 1) : Tail(todo)[k] = todo[k + 1]
        /\ Tail(todo) = <<>> <=> Len(todo) = 1
    BY <2>2, TakenFrom
  <2> DEFINE e == [step |-> h, undo |-> FALSE]
  <2>4. e \in Change
    BY <2>3 DEF Change
  <2> HIDE DEF h, e
  <2>5. /\ completed' \in Seq(Steps) /\ n \in Nat /\ Len(completed') = n + 1
        /\ completed'[n + 1] = h /\ \A k \in 1..n : completed'[k] = completed[k]
    BY <2>1, <2>2, <2>3, AppendedTo
  <2>6. /\ applied' \in Seq(Change) /\ Len(applied') = Len(applied) + 1
        /\ applied'[Len(applied) + 1] = e /\ \A k \in 1..Len(applied) : applied'[k] = applied[k]
    BY <2>1, <2>2, <2>4, AppendedTo DEF e
  <2>7. Len(applied) = n /\ \A k \in 1..n : applied[k] = [step |-> completed[k], undo |-> FALSE]
    BY <2>2 DEF Through
  <2>8. Through(completed)'
    <3>1. ASSUME NEW k \in 1..(n + 1) PROVE applied'[k] = [step |-> completed'[k], undo |-> FALSE]
      <4>1. CASE k = n + 1
        BY <2>5, <2>6, <2>7, <4>1 DEF e
      <4>2. CASE k # n + 1
        <5>1. k \in 1..n
          BY <2>5, <4>2
        <5> QED BY <2>5, <2>6, <2>7, <5>1
      <4> QED BY <4>1, <4>2
    <3> QED BY <2>5, <2>6, <2>7, <3>1 DEF Through
  <2>9. /\ \A k \in 1..(n + 1) : plan.steps[k] = completed'[k]
        /\ \A k \in 1..(Len(todo) - 1) : plan.steps[n + 1 + k] = Tail(todo)[k]
    <3>1. ASSUME NEW k \in 1..(n + 1) PROVE plan.steps[k] = completed'[k]
      <4>1. CASE k = n + 1
        <5>1. 1 \in 1..Len(todo)
          BY <2>3
        <5> QED BY <2>2, <2>3, <2>5, <4>1, <5>1
      <4>2. CASE k # n + 1
        <5>1. k \in 1..n
          BY <2>5, <4>2
        <5> QED BY <2>2, <2>5, <5>1
      <4> QED BY <4>1, <4>2
    <3>2. ASSUME NEW k \in 1..(Len(todo) - 1) PROVE plan.steps[n + 1 + k] = Tail(todo)[k]
      <4>1. k + 1 \in 1..Len(todo) /\ n + 1 + k = n + (k + 1)
        BY <2>3, <2>5
      <4> QED BY <2>2, <2>3, <4>1
    <3> QED BY <3>1, <3>2
  <2>10. MGTypeOK'
    BY <2>1, <2>3, <2>5, <2>6 DEF MGInv
  <2>11. CASE Tail(todo) = <<>>
    <3>1. Len(plan.steps) = n + 1 /\ mgPhase' = "COMPLETED"
      BY <2>1, <2>2, <2>3, <2>5, <2>11
    <3>2. Through(plan.steps)'
      BY <2>1, <2>5, <2>8, <2>9, <3>1 DEF Through
    <3> QED BY <1>0, <2>1, <2>10, <3>1, <3>2 DEF MGInv
  <2>12. CASE Tail(todo) # <<>>
    <3>1. mgPhase' = "migrating" /\ Len(plan.steps) = (n + 1) + (Len(todo) - 1)
      BY <2>1, <2>2, <2>3, <2>5, <2>12
    <3>2. /\ todo' # <<>> /\ ~quiet' /\ Through(completed)'
          /\ Len(plan.steps)' = Len(completed') + Len(todo')
      BY <2>1, <2>2, <2>3, <2>5, <2>8, <2>12, <3>1
    <3>3. /\ \A k \in 1..Len(completed') : plan'.steps[k] = completed'[k]
          /\ \A k \in 1..Len(todo') : plan'.steps[Len(completed') + k] = todo'[k]
      BY <2>1, <2>3, <2>5, <2>9
    <3>4. PlanSound'
      BY <1>0, <2>1 DEF MGInv
    <3> QED BY <2>10, <3>1, <3>2, <3>3, <3>4 DEF MGInv
  <2> QED BY <2>11, <2>12
<1>5. ASSUME NEW falsy \in BOOLEAN, StepFails(falsy) PROVE MGInv'
  <2>1. /\ mgPhase = "migrating" /\ quiet' = falsy /\ undone' = (completed # <<>>)
        /\ UNCHANGED <<steps, plan, options, applied, completed>>
    BY <1>5 DEF StepFails
  <2>2. Through(completed) /\ completed \in Seq(Steps)
    BY <2>1 DEF MGInv
  <2>3. CASE ~falsy /\ options.rollbackOnFailure /\ ~options.dryRun /\ completed # <<>>
    <3>1. mgPhase' = "rollingBack" /\ todo' = Reverse(completed)
      BY <1>5, <2>3 DEF StepFails
    <3>2. /\ todo' \in Seq(Steps) /\ Len(todo') = Len(completed) /\ Len(completed) \in Nat
          /\ \A k \in 1..Len(completed) : todo'[k] = completed[Len(completed) + 1 - k]
      BY <2>2, <3>1, ReversedBack
    <3>3. todo' # <<>>
      BY <2>2, <2>3, <3>2, NonEmpty
    <3>4. MGTypeOK'
      BY <2>1, <3>1, <3>2 DEF MGInv
    <3>5. Len(completed) - Len(todo') = 0
      BY <3>2
    <3>6. BackBy(0)'
      BY <2>1, <2>2, <3>2 DEF Through, BackBy
    <3> QED BY <1>0, <2>1, <2>3, <3>1, <3>2, <3>3, <3>4, <3>5, <3>6 DEF MGInv
  <2>4. CASE ~(~falsy /\ options.rollbackOnFailure /\ ~options.dryRun /\ completed # <<>>)
    <3>1. mgPhase' = (IF falsy THEN "COMPLETED" ELSE "FAILED") /\ todo' = <<>>
      BY <1>5, <2>4 DEF StepFails
    <3>2. MGTypeOK'
      BY <2>1, <3>1 DEF MGInv
    <3> QED BY <1>0, <2>1, <3>1, <3>2 DEF MGInv
  <2> QED BY <2>3, <2>4
<1>6. CASE RollBackStep
  <2> DEFINE n == Len(completed)  h == Head(todo)  e == [step |-> h, undo |-> TRUE]
  <2>1. PICK ok \in BOOLEAN :
          /\ applied' = IF ok THEN Append(applied, e) ELSE applied
          /\ undone' = (undone /\ ok) /\ todo' = Tail(todo)
          /\ mgPhase' = CASE Tail(todo) # <<>> -> "rollingBack"
                          [] Tail(todo) = <<>> /\ undone' -> "ROLLED_BACK"
                          [] OTHER -> "FAILED"
    BY <1>6 DEF RollBackStep
  <2>2. mgPhase = "rollingBack" /\ UNCHANGED <<steps, plan, options, completed, quiet>>
    BY <1>6 DEF RollBackStep
  <2>3. /\ todo # <<>> /\ Len(todo) <= n /\ ~options.dryRun
        /\ \A k \in 1..Len(todo) : todo[k] = completed[Len(todo) + 1 - k]
        /\ undone => BackBy(n - Len(todo))
        /\ completed \in Seq(Steps) /\ todo \in Seq(Steps) /\ applied \in Seq(Change)
    BY <2>2 DEF MGInv
  <2>4. /\ Tail(todo) \in Seq(Steps) /\ h \in Steps /\ h = todo[1] /\ Len(todo) \in Nat \ {0}
        /\ Len(Tail(todo)) = Len(todo) - 1 /\ \A k \in 1..(Len(todo) - 1) : Tail(todo)[k] = todo[k + 1]
        /\ Tail(todo) = <<>> <=> Len(todo) = 1
    BY <2>3, TakenFrom
  <2>5. e \in Change /\ n \in Nat
    BY <2>3, <2>4, LenProperties DEF Change
  <2> HIDE DEF h
  <2>6. h = completed[Len(todo)]
    <3>1. 1 \in 1..Len(todo) /\ Len(todo) + 1 - 1 = Len(todo)
      BY <2>4
    <3> QED BY <2>3, <2>4, <3>1
  <2> HIDE DEF e
  <2>7. /\ Append(applied, e) \in Seq(Change) /\ Len(applied) \in Nat /\ Len(Append(applied, e)) = Len(applied) + 1
        /\ Append(applied, e)[Len(applied) + 1] = e /\ \A k \in 1..Len(applied) : Append(applied, e)[k] = applied[k]
    BY <2>3, <2>5, AppendedTo
  <2>8. MGTypeOK'
    BY <2>1, <2>2, <2>4, <2>7 DEF MGInv
  <2>9. \A k \in 1..(Len(todo) - 1) : Tail(todo)[k] = completed[Len(todo) - 1 + 1 - k]
    <3> SUFFICES ASSUME NEW k \in 1..(Len(todo) - 1) PROVE Tail(todo)[k] = completed[Len(todo) - 1 + 1 - k]
      OBVIOUS
    <3>1. \A l \in Nat \ {0} : \A i \in 1..(l - 1) : i + 1 \in 1..l /\ l + 1 - (i + 1) = l - 1 + 1 - i
      OBVIOUS
    <3>2. Len(todo) \in Nat \ {0} /\ Tail(todo)[k] = todo[k + 1]
      BY <2>4
    <3>3. k + 1 \in 1..Len(todo) /\ Len(todo) + 1 - (k + 1) = Len(todo) - 1 + 1 - k
      BY <3>1, <3>2
    <3> QED BY <2>3, <3>2, <3>3
  <2>10. PICK j : j = n - Len(todo)
    OBVIOUS
  <2>11. j \in Nat /\ j + 1 <= n /\ j + 1 = n - (Len(todo) - 1) /\ Len(todo) = n + 1 - (j + 1)
    BY <2>3, <2>4, <2>5, <2>10
  <2>12. undone' => BackBy(j + 1)'
    <3> SUFFICES ASSUME undone' PROVE BackBy(j + 1)'
      OBVIOUS
    <3>1. undone /\ applied' = Append(applied, e) /\ completed' = completed
      BY <2>1, <2>2
    <3>2. /\ Len(applied) = n + j
          /\ \A i \in 1..n : applied[i] = [step |-> completed[i], undo |-> FALSE]
          /\ \A i \in 1..j : applied[n + i] = [step |-> completed[n + 1 - i], undo |-> TRUE]
      BY <2>3, <2>10, <3>1 DEF BackBy
    <3>3. \A i \in 1..n : i \in 1..Len(applied)
      BY <2>5, <2>11, <3>2
    <3>4. ASSUME NEW i \in 1..(j + 1)
          PROVE  applied'[n + i] = [step |-> completed[n + 1 - i], undo |-> TRUE]
      <4>1. CASE i = j + 1
        <5>1. n + i = Len(applied) + 1
          BY <2>5, <2>11, <3>2, <4>1
        <5> QED BY <2>6, <2>7, <2>11, <3>1, <4>1, <5>1 DEF e
      <4>2. CASE i # j + 1
        <5>1. i \in 1..j /\ n + i \in 1..Len(applied)
          BY <2>5, <2>11, <3>2, <4>2
        <5> QED BY <2>7, <3>1, <3>2, <5>1
      <4> QED BY <4>1, <4>2
    <3>5. j + 1 <= n /\ Len(applied') = n + (j + 1)
      BY <2>5, <2>7, <2>11, <3>1, <3>2
    <3>6. \A i \in 1..n : applied'[i] = [step |-> completed[i], undo |-> FALSE]
      BY <2>7, <3>1, <3>2, <3>3
    <3> QED BY <3>1, <3>4, <3>5, <3>6 DEF BackBy
  <2>13. CASE Tail(todo) # <<>>
    <3>1. mgPhase' = "rollingBack" /\ todo' = Tail(todo) /\ Len(todo') = Len(todo) - 1
      BY <2>1, <2>4, <2>13
    <3>2. Len(todo) \in Nat /\ n \in Nat /\ Len(todo) <= n
      BY <2>3, <2>4, <2>5
    <3>3. Len(todo') <= Len(completed') /\ Len(completed') - Len(todo') = j + 1
      <4>1. \A l, m \in Nat : l <= m => l - 1 <= m /\ m - (l - 1) \in Int
        OBVIOUS
      <4>2. Len(completed') = n /\ j + 1 = n - (Len(todo) - 1)
        BY <2>2, <2>11
      <4> QED BY <3>1, <3>2, <4>1, <4>2
    <3>4. undone' => BackBy(Len(completed) - Len(todo))'
      BY <2>12, <3>3 DEF BackBy
    <3>5. \A k \in 1..Len(todo') : todo'[k] = completed'[Len(todo') + 1 - k]
      BY <2>2, <2>9, <3>1
    <3> QED BY <1>0, <2>2, <2>3, <2>8, <2>13, <3>1, <3>3, <3>4, <3>5 DEF MGInv
  <2>14. CASE Tail(todo) = <<>>
    <3>1. mgPhase' = IF undone' THEN "ROLLED_BACK" ELSE "FAILED"
      BY <2>1, <2>14
    <3>2. Len(completed') = j + 1
      <4>1. Len(completed') = n /\ Len(todo) = 1
        BY <2>2, <2>4, <2>14
      <4>2. j + 1 = n - (Len(todo) - 1)
        BY <2>11
      <4> HIDE DEF n
      <4> QED BY <2>5, <4>1, <4>2
    <3> QED BY <1>0, <2>2, <2>3, <2>8, <2>12, <3>1, <3>2 DEF MGInv
  <2> QED BY <2>13, <2>14
<1> QED BY <1>1, <1>2, <1>3, <1>4, <1>5, <1>6 DEF MGNext, MGSystem

\* Setting off each rollback against what it undoes, up to change k, leaves the steps
\* not undone yet.
LEMMA NetOfRollback ==
    ASSUME completed \in Seq(Steps), BackBy(Len(completed))
    PROVE  Net = <<>>
<1> DEFINE n == Len(completed)
           L == Len(applied)
           fwd(i) == [step |-> completed[i], undo |-> FALSE]
           pre(m) == [i \in 1..m |-> fwd(i)]
           cancels(s, c) == c.undo /\ s # <<>> /\ Last(s) = [step |-> c.step, undo |-> FALSE]
           Goes(s, c) == IF cancels(s, c) THEN Front(s) ELSE Append(s, c)
           Body(f, k) == IF k = 0 THEN <<>> ELSE Goes(f[k - 1], applied[k])
           F == CHOOSE f : f = [k \in 0..L |-> Body(f, k)]
           at(k) == IF k <= n THEN k ELSE L - k
           G == [k \in 0..L |-> pre(at(k))]
<1>1. n \in Nat /\ L = n + n /\ L \in Nat /\ \A i \in 1..n : completed[i] \in Steps
  BY LenProperties DEF BackBy
<1>2. Net = F[L]
  BY DEF Net
<1>3. /\ \A i \in 1..n : applied[i] = fwd(i)
      /\ \A j \in 1..n : applied[n + j] = [step |-> completed[n + 1 - j], undo |-> TRUE]
  BY DEF BackBy
<1>4. \A i \in 1..n : fwd(i) \in Change
  BY <1>1 DEF Change
<1>5. ASSUME NEW m \in 0..n PROVE pre(m) \in Seq(Change) /\ Len(pre(m)) = m /\ DOMAIN pre(m) = 1..m
  <2>1. m \in Nat /\ \A i \in 1..m : i \in 1..n
    BY <1>1
  <2>2. pre(m) \in [1..m -> Change]
    BY <1>4, <2>1
  <2> HIDE DEF pre
  <2> QED BY <2>1, <2>2, FunctionIsSeq
<1>6. pre(0) = <<>>
  <2>1. 0 \in 0..n
    BY <1>1
  <2>2. pre(0) \in Seq(Change) /\ Len(pre(0)) = 0
    BY <1>5, <2>1
  <2> HIDE DEF pre
  <2> QED BY <2>2, EmptySeq
<1>7. ASSUME NEW m \in 1..n PROVE Append(pre(m - 1), fwd(m)) = pre(m)
  <2> DEFINE a == pre(m - 1)  b == Append(a, fwd(m))
  <2>1. m - 1 \in 0..n /\ m \in 0..n /\ fwd(m) \in Change /\ m - 1 + 1 = m
    BY <1>1, <1>4
  <2>2. a \in Seq(Change) /\ Len(a) = m - 1 /\ \A i \in 1..(m - 1) : a[i] = fwd(i)
    BY <1>5, <2>1
  <2> HIDE DEF a, fwd
  <2>3. b \in Seq(Change) /\ Len(b) = m /\ b[m] = fwd(m) /\ \A i \in 1..(m - 1) : b[i] = a[i]
    BY <2>1, <2>2, AppendedTo
  <2> HIDE DEF b
  <2>4. \A i \in 1..m : i = m \/ i \in 1..(m - 1)
    OBVIOUS
  <2>5. \A i \in 1..m : b[i] = fwd(i)
    BY <2>2, <2>3, <2>4
  <2>6. b = [i \in 1..m |-> fwd(i)]
    BY <2>3, <2>5, LenProperties
  <2> QED BY <2>6 DEF b, a
<1>8. ASSUME NEW m \in 1..n
      PROVE  pre(m) # <<>> /\ Last(pre(m)) = fwd(m) /\ Front(pre(m)) = pre(m - 1)
  <2> DEFINE a == pre(m)  b == Front(a)
  <2>1. m \in 0..n /\ m # 0 /\ m \in 1..m /\ \A i \in 1..(m - 1) : i \in 1..m
    BY <1>1
  <2>2. a \in Seq(Change) /\ Len(a) = m /\ \A i \in 1..m : a[i] = fwd(i)
    BY <1>5, <2>1
  <2> HIDE DEF a, fwd
  <2>3. a # <<>>
    BY <2>1, <2>2, NonEmpty
  <2>4. Last(a) = a[m] /\ DOMAIN b = 1..(m - 1) /\ b \in Seq(Change) /\ \A i \in 1..(m - 1) : b[i] = a[i]
    BY <2>2, <2>3, FrontLast
  <2> HIDE DEF b
  <2>5. \A i \in 1..(m - 1) : b[i] = fwd(i)
    BY <2>1, <2>2, <2>4
  <2>6. b = [i \in DOMAIN b |-> b[i]]
    BY <2>4
  <2>7. b = [i \in 1..(m - 1) |-> fwd(i)]
    BY <2>4, <2>5, <2>6
  <2> QED BY <2>1, <2>2, <2>3, <2>4, <2>7 DEF a, b
<1> HIDE DEF pre
<1>9. ASSUME NEW k \in 1..L PROVE pre(at(k)) = Goes(pre(at(k - 1)), applied[k])
  <2>1. CASE k <= n
    <3>1. k \in 1..n /\ at(k) = k /\ at(k - 1) = k - 1
      BY <1>1, <2>1
    <3>2. applied[k] = fwd(k) /\ ~applied[k].undo
      BY <1>3, <3>1
    <3> HIDE DEF at, fwd
    <3> QED BY <1>7, <3>1, <3>2
  <2>2. CASE ~(k <= n)
    <3> DEFINE m == L - k + 1  j == k - n
    <3>1. m \in 1..n /\ at(k) = m - 1 /\ at(k - 1) = m /\ j \in 1..n /\ n + j = k /\ n + 1 - j = m
      BY <1>1, <2>2
    <3> HIDE DEF m, j, at
    <3>2. applied[k] = [step |-> completed[m], undo |-> TRUE]
      BY <1>3, <3>1
    <3>3. cancels(pre(m), applied[k])
      BY <1>8, <3>1, <3>2
    <3> HIDE DEF cancels
    <3> QED BY <1>8, <3>1, <3>3
  <2> QED BY <2>1, <2>2
<1>10. at(0) = 0 /\ at(L) = 0
  BY <1>1
<1> HIDE DEF at, Goes
<1>11. \A f : Body(f, 0) = <<>> /\ \A k \in 1..L : Body(f, k) = Goes(f[k - 1], applied[k])
  BY <1>1
<1>12. \A k \in 0..L : k = 0 \/ (k \in 1..L /\ k - 1 \in 0..L)
  BY <1>1
<1>13. G = [k \in 0..L |-> Body(G, k)]
  <2>1. \A k \in 0..L : G[k] = pre(at(k))
    OBVIOUS
  <2>2. G = [k \in 0..L |-> G[k]]
    OBVIOUS
  <2> HIDE DEF G, Body
  <2>3. \A k \in 0..L : G[k] = Body(G, k)
    <3> SUFFICES ASSUME NEW k \in 0..L PROVE G[k] = Body(G, k)
      OBVIOUS
    <3>1. CASE k = 0
      BY <1>6, <1>10, <1>11, <2>1, <3>1
    <3>2. CASE k # 0
      <4>1. k \in 1..L /\ k - 1 \in 0..L
        BY <1>12, <3>2
      <4>2. G[k] = pre(at(k)) /\ G[k - 1] = pre(at(k - 1))
        BY <2>1, <4>1
      <4> QED BY <1>9, <1>11, <4>1, <4>2
    <3> QED BY <3>1, <3>2
  <2> QED BY <2>2, <2>3
<1> HIDE DEF G, Body
<1>14. F = [k \in 0..L |-> Body(F, k)]
  BY <1>13
<1> HIDE DEF F
<1>15. \A k \in 0..L : F[k] = Body(F, k)
  BY <1>14
<1>16. \A k \in 0..L : F[k] = pre(at(k))
  <2> DEFINE bad == {k \in 0..L : F[k] # pre(at(k))}
  <2>1. SUFFICES ASSUME bad # {} PROVE FALSE
    OBVIOUS
  <2>2. PICK k \in bad : \A i \in bad : k <= i
    <3>1. bad \in SUBSET Nat
      BY <1>1
    <3> HIDE DEF bad
    <3> QED BY <2>1, <3>1, LeastNatural
  <2>3. k \in 0..L /\ F[k] # pre(at(k))
    BY <2>2
  <2>4. CASE k = 0
    BY <1>6, <1>10, <1>11, <1>15, <2>3, <2>4
  <2>5. CASE k # 0
    <3>1. k \in 1..L /\ k - 1 \in 0..L /\ ~(k <= k - 1)
      BY <1>1, <1>12, <2>3, <2>5
    <3>2. F[k - 1] = pre(at(k - 1))
      BY <2>2, <3>1
    <3> QED BY <1>9, <1>11, <1>15, <2>3, <3>1, <3>2
  <2> QED BY <2>4, <2>5
<1> QED BY <1>1, <1>2, <1>6, <1>10, <1>16

\* So what a run reports is what has happened.
LEMMA MGInvTruthful == MGInv => MigrationTruthful
<1> SUFFICES ASSUME MGInv PROVE MigrationTruthful
  OBVIOUS
<1> DEFINE p == plan.steps
<1>1. p \in Seq(Steps) /\ steps \in Seq(Steps) /\ completed \in Seq(Steps) /\ applied \in Seq(Change)
  BY DEF MGInv, MGTypeOK
<1>2. ASSUME p # <<>>
      PROVE  /\ Chain(p, plan.from, plan.to)
             /\ \A n \in 1..(Len(p) - 1) : ~\E path \in [1..n -> ToSet(steps)] : Chain(path, plan.from, plan.to)
  <2>1. /\ Walk(p, plan.from) /\ Reached(p, plan.from) = plan.to
        /\ \A q \in Seq(Steps) : Walk(q, plan.from) /\ Reached(q, plan.from) = plan.to => Len(p) <= Len(q)
    BY <1>2 DEF MGInv, PlanSound
  <2>2. Chain(p, plan.from, plan.to)
    BY <1>2, <2>1 DEF Chain, Walk, Reached
  <2>3. ASSUME NEW n \in 1..(Len(p) - 1), NEW path \in [1..n -> ToSet(steps)], Chain(path, plan.from, plan.to)
        PROVE  FALSE
    <3>1. Len(p) \in Nat /\ n \in Nat /\ ~(Len(p) <= n)
      BY <1>1, LenProperties
    <3>2. ToSet(steps) \subseteq Steps
      BY <1>1, LenProperties DEF ToSet
    <3>3. path \in [1..n -> Steps]
      BY <3>2
    <3>4. path \in Seq(Steps) /\ Len(path) = n
      BY <3>1, <3>3, FunctionIsSeq
    <3>5. Walk(path, plan.from) /\ Reached(path, plan.from) = plan.to
      BY <2>3, <3>4 DEF Chain, Walk, Reached
    <3> QED BY <2>1, <3>1, <3>4, <3>5
  <2> QED BY <2>2, <2>3
<1>3. ASSUME mgPhase = "COMPLETED", ~quiet
      PROVE  applied = [k \in DOMAIN p |-> [step |-> p[k], undo |-> FALSE]]
  <2>1. Len(applied) = Len(p) /\ \A k \in 1..Len(p) : applied[k] = [step |-> p[k], undo |-> FALSE]
    BY <1>3 DEF MGInv, Through
  <2>2. DOMAIN applied = 1..Len(p) /\ DOMAIN p = 1..Len(p) /\ applied = [k \in DOMAIN applied |-> applied[k]]
    BY <1>1, <2>1, LenProperties
  <2> HIDE DEF p
  <2> QED BY <2>1, <2>2
<1>4. ASSUME mgPhase = "ROLLED_BACK" PROVE Net = <<>> /\ ~options.dryRun
  BY <1>1, <1>4, NetOfRollback DEF MGInv
<1> QED BY <1>2, <1>3, <1>4 DEF MigrationTruthful
===============================================================================
