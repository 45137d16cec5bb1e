-------------------------- MODULE ClientRequestsProofs --------------------------
(***************************************************************************)
(* Proofs about three components between a client and the network, which   *)
(* share nothing: the registry of pending transactions, for every set of   *)
(* hashes, every number of polling loops and every deadline; the load      *)
(* balancer, for every pool of endpoints, number of retries and number of  *)
(* concurrent calls; and the real-time connection, for every set of        *)
(* subscriptions and every number of attempts and sockets.                 *)
(*                                                                         *)
(* What a caller is told is true because of what is true earlier: a loop   *)
(* that received a final answer asked about a finalised transaction, and   *)
(* the snapshot holds, for each hash once, the deadline of one of its      *)
(* loops.  That a call tries an endpoint once rests on what its loop knows *)
(* while it sleeps: no endpoint is in use, and an attempt is left.  A lost *)
(* connection comes back only if no flag of an old attempt is left over:   *)
(* while isConnecting is raised the newest socket will still report, and   *)
(* it is closing only after disconnect.                                    *)
(***************************************************************************)
EXTENDS TransactionTracker, RpcEndpointManager, SubscriptionService,
        FiniteSetTheorems, SequenceTheorems, TLAPS

-----------------------------------------------------------------------------
(* Pending transactions.                                                    *)

\* A final answer on its way is about a finalised transaction.
FinalAnswersTrue ==
    \A h \in Hashes : \A k \in DOMAIN loops[h] :
        LoopOf(h, k).pc \in {"FINAL", "resolved"} => h \in onChain

\* The snapshot has one entry for a hash, with the deadline of one of its loops.
SavedFaithful ==
    /\ \A e \in saved, f \in saved : e.hash = f.hash => e = f
    /\ \A e \in saved : \E k \in DOMAIN loops[e.hash] : LoopOf(e.hash, k).deadline = e.deadline

IInv ==
    /\ TypeOK
    /\ RegistryMatchesLoops
    /\ NoEarlyTimeout
    /\ FinalAnswersTrue
    /\ SavedFaithful

-----------------------------------------------------------------------------
(* Steps of one loop.                                                       *)

\* Loop k of h becomes new; no other loop changes.
Becomes(h, k, new) ==
    /\ loops' \in [Hashes -> Seq(Loop)]
    /\ \A g \in Hashes :
         /\ DOMAIN loops'[g] = DOMAIN loops[g]
         /\ \A j \in DOMAIN loops[g] :
              loops'[g][j] = IF g = h /\ j = k THEN new ELSE loops[g][j]

\* Assigning to a field of a loop.
LEMMA FieldAssigned ==
    ASSUME loops \in [Hashes -> Seq(Loop)], NEW h \in Hashes, NEW k \in DOMAIN loops[h]
    PROVE  /\ \A v \in Alive \cup Ended :
                loops' = [loops EXCEPT ![h][k].pc = v] =>
                    Becomes(h, k, [loops[h][k] EXCEPT !.pc = v])
           /\ loops' = [loops EXCEPT ![h][k].cancelled = TRUE] =>
                    Becomes(h, k, [loops[h][k] EXCEPT !.cancelled = TRUE])
<1>1. ASSUME NEW new \in Loop, loops' = [loops EXCEPT ![h] = [loops[h] EXCEPT ![k] = new]]
      PROVE  Becomes(h, k, new)
  <2>1. loops[h] \in Seq(Loop) /\ DOMAIN loops[h] = 1..Len(loops[h])
    BY LenProperties
  <2>2. [loops[h] EXCEPT ![k] = new] \in Seq(Loop)
    BY <2>1, ExceptSeq
  <2>3. loops' \in [Hashes -> Seq(Loop)]
    BY <1>1, <2>2
  <2> QED BY <1>1, <2>3 DEF Becomes
<1>2. loops[h][k] \in Loop
  BY LenProperties
<1>3. ASSUME NEW v \in Alive \cup Ended, loops' = [loops EXCEPT ![h][k].pc = v]
      PROVE  Becomes(h, k, [loops[h][k] EXCEPT !.pc = v])
  <2>1. [loops[h][k] EXCEPT !.pc = v] \in Loop
    BY <1>2 DEF Loop
  <2> QED BY <1>1, <1>3, <2>1
<1>4. ASSUME loops' = [loops EXCEPT ![h][k].cancelled = TRUE]
      PROVE  Becomes(h, k, [loops[h][k] EXCEPT !.cancelled = TRUE])
  <2>1. [loops[h][k] EXCEPT !.cancelled = TRUE] \in Loop
    BY <1>2 DEF Loop
  <2> QED BY <1>1, <1>4, <2>1
<1> QED BY <1>3, <1>4

\* A live loop moves on: it keeps its entry while it lives and gives it up with
\* an outcome that is true.
LEMMA LoopMovesOn ==
    ASSUME IInv, NEW h \in Hashes, NEW k \in DOMAIN loops[h], loops[h][k].pc \in Alive,
           NEW new \in Loop, Becomes(h, k, new),
           new.deadline = loops[h][k].deadline,
           new.pc = "timedOut" => now >= new.deadline,
           new.pc \in {"FINAL", "resolved"} => h \in onChain,
           pending' = IF new.pc \in Alive THEN pending ELSE [pending EXCEPT ![h] = 0],
           UNCHANGED <<now, onChain, saved>>
    PROVE  IInv'
<1>0. /\ loops \in [Hashes -> Seq(Loop)] /\ pending \in [Hashes -> Nat]
      /\ DOMAIN loops[h] = 1..Len(loops[h])
  BY LenProperties DEF IInv, TypeOK
<1>1. pending[h] = k /\ k # 0 /\ \A j \in DOMAIN loops[h] : loops[h][j].pc \in Alive => j = k
  <2>1. {j \in DOMAIN loops[h] : loops[h][j].pc \in Alive} =
            (IF pending[h] # 0 THEN {pending[h]} ELSE {})
    BY DEF IInv, RegistryMatchesLoops, LoopOf, Tracked
  <2> QED BY <1>0, <2>1
<1>2. TypeOK'
  <2>1. pending' \in [Hashes -> Nat]
    BY <1>0
  <2> QED BY <2>1 DEF IInv, TypeOK, Becomes
<1>3. RegistryMatchesLoops'
  <2> SUFFICES ASSUME NEW g \in Hashes
               PROVE  {j \in DOMAIN loops'[g] : loops'[g][j].pc \in Alive} =
                          (IF pending'[g] # 0 THEN {pending'[g]} ELSE {})
    BY DEF RegistryMatchesLoops, LoopOf, Tracked
  <2>1. CASE g # h
    <3>1. {j \in DOMAIN loops[g] : loops[g][j].pc \in Alive} =
              (IF pending[g] # 0 THEN {pending[g]} ELSE {})
      BY DEF IInv, RegistryMatchesLoops, LoopOf, Tracked
    <3>2. pending'[g] = pending[g]
      BY <1>0, <2>1
    <3> QED BY <2>1, <3>1, <3>2 DEF Becomes
  <2>2. CASE g = h /\ new.pc \in Alive
    BY <1>0, <1>1, <2>2 DEF Becomes
  <2>3. CASE g = h /\ new.pc \notin Alive
    <3>1. pending'[h] = 0
      BY <1>0, <2>3
    <3> QED BY <1>1, <2>3, <3>1 DEF Becomes
  <2> QED BY <2>1, <2>2, <2>3
<1>4. NoEarlyTimeout'
  BY DEF IInv, NoEarlyTimeout, LoopOf, Becomes
<1>5. FinalAnswersTrue'
  BY DEF IInv, FinalAnswersTrue, LoopOf, Becomes
<1>6. SavedFaithful'
  <2>1. \A e \in saved : e.hash \in Hashes
    BY DEF IInv, TypeOK, Snapshot
  <2>2. \A g \in Hashes : \A j \in DOMAIN loops[g] :
          j \in DOMAIN loops'[g] /\ loops'[g][j].deadline = loops[g][j].deadline
    BY DEF Becomes
  <2>3. SavedFaithful /\ saved' = saved
    BY DEF IInv
  <2> QED BY <2>1, <2>2, <2>3, Zenon DEF SavedFaithful, LoopOf
<1> QED BY <1>2, <1>3, <1>4, <1>5, <1>6 DEF IInv

\* A step of the polling loop.
LEMMA PollStepKeepsIInv ==
    ASSUME IInv, NEW h \in Hashes, NEW k \in DOMAIN loops[h], PollStep(h, k)
    PROVE  IInv'
<1>0. /\ loops \in [Hashes -> Seq(Loop)] /\ loops[h][k] \in Loop
      /\ loops[h][k].pc \in {"FINAL", "resolved"} => h \in onChain
  BY LenProperties DEF IInv, TypeOK, FinalAnswersTrue, LoopOf
<1>1. ASSUME NEW v \in Alive \cup Ended, loops[h][k].pc \in Alive,
             loops' = [loops EXCEPT ![h][k].pc = v],
             v = "timedOut" => now >= loops[h][k].deadline,
             v \in {"FINAL", "resolved"} => h \in onChain,
             pending' = IF v \in Alive THEN pending ELSE [pending EXCEPT ![h] = 0],
             UNCHANGED <<now, onChain, saved>>
      PROVE  IInv'
  <2> DEFINE new == [loops[h][k] EXCEPT !.pc = v]
  <2>1. Becomes(h, k, new)
    BY <1>0, <1>1, FieldAssigned
  <2>2. new \in Loop /\ new.pc = v /\ new.deadline = loops[h][k].deadline
    BY <1>0 DEF Loop
  <2> HIDE DEF new
  <2> QED BY <1>1, <2>1, <2>2, LoopMovesOn
<1>2. CASE Served(h, k)
  BY <1>1, <1>2 DEF Served, Alive, Awaiting
<1>3. CASE Arrive(h, k)
  BY <1>0, <1>1, <1>3 DEF Arrive, End, Alive, Awaiting, Ended
<1>4. CASE Wake(h, k)
  BY <1>0, <1>1, <1>4 DEF Wake, End, Alive, Awaiting, Ended
<1> QED BY <1>2, <1>3, <1>4 DEF PollStep

LEMMA CancelKeepsIInv ==
    ASSUME IInv, NEW h \in Hashes, NEW k \in DOMAIN loops[h], Cancel(h, k)
    PROVE  IInv'
<1> DEFINE new == [loops[h][k] EXCEPT !.cancelled = TRUE]
<1>0. loops \in [Hashes -> Seq(Loop)] /\ loops[h][k] \in Loop
  BY LenProperties DEF IInv, TypeOK
<1>1. Becomes(h, k, new)
  BY <1>0, FieldAssigned DEF Cancel
<1>2. new \in Loop /\ new.pc = loops[h][k].pc /\ new.deadline = loops[h][k].deadline
  BY <1>0 DEF Loop
<1>3. /\ new.pc = "timedOut" => now >= new.deadline
      /\ new.pc \in {"FINAL", "resolved"} => h \in onChain
  BY <1>2 DEF IInv, NoEarlyTimeout, FinalAnswersTrue, LoopOf
<1> HIDE DEF new
<1> QED BY <1>1, <1>2, <1>3, LoopMovesOn DEF Cancel

-----------------------------------------------------------------------------
(* Starting loops.                                                          *)

\* Tracking starts a loop only for a hash that has none.
LEMMA TrackKeepsIInv ==
    ASSUME IInv, NEW S \in SUBSET Hashes, NEW deadline \in [S -> Nat],
           Track(S, deadline), UNCHANGED <<now, onChain, saved>>
    PROVE  IInv'
<1> DEFINE new == {h \in S : pending[h] = 0}
<1>0. /\ loops \in [Hashes -> Seq(Loop)] /\ pending \in [Hashes -> Nat] /\ now \in Nat
      /\ saved \subseteq Snapshot
      /\ \A h \in Hashes : Len(loops[h]) \in Nat /\ DOMAIN loops[h] = 1..Len(loops[h])
  BY LenProperties, BoundsAssumption DEF IInv, TypeOK
<1>1. \A h \in Hashes : h \notin new => loops'[h] = loops[h] /\ pending'[h] = pending[h]
  BY DEF Track, Tracked
<1>2. ASSUME NEW h \in new
      PROVE  /\ NewLoop(deadline[h]) \in Loop
             /\ loops'[h] \in Seq(Loop)
             /\ DOMAIN loops'[h] = 1..(Len(loops[h]) + 1)
             /\ \A k \in DOMAIN loops[h] : loops'[h][k] = loops[h][k]
             /\ loops'[h][Len(loops[h]) + 1] = NewLoop(deadline[h])
             /\ pending'[h] = IF now < deadline[h] THEN Len(loops[h]) + 1 ELSE 0
  <2>1. h \in Hashes /\ deadline[h] \in Nat /\ pending[h] = 0
    BY <1>2
  <2>2. NewLoop(deadline[h]) \in Loop
    BY <2>1 DEF NewLoop, Loop, Alive, Awaiting, Ended
  <2>3. loops'[h] = Append(loops[h], NewLoop(deadline[h]))
    BY <1>2, <2>1 DEF Track, Tracked
  <2>4. /\ Append(loops[h], NewLoop(deadline[h])) \in Seq(Loop)
        /\ Len(Append(loops[h], NewLoop(deadline[h]))) = Len(loops[h]) + 1
        /\ \A k \in 1..Len(loops[h]) : Append(loops[h], NewLoop(deadline[h]))[k] = loops[h][k]
        /\ Append(loops[h], NewLoop(deadline[h]))[Len(loops[h]) + 1] = NewLoop(deadline[h])
    BY <1>0, <2>1, <2>2, AppendProperties
  <2>5. DOMAIN loops'[h] = 1..(Len(loops[h]) + 1)
    BY <2>3, <2>4, LenProperties
  <2>6. pending'[h] = IF now < deadline[h] THEN Len(loops[h]) + 1 ELSE 0
    BY <1>2, <2>1 DEF Track, Tracked
  <2> QED BY <1>0, <2>1, <2>2, <2>3, <2>4, <2>5, <2>6
<1> HIDE DEF new
<1>3. new \subseteq Hashes /\ \A h \in new : pending[h] = 0 /\ deadline[h] \in Nat
  BY DEF new
<1>4. TypeOK'
  <2>1. loops' \in [Hashes -> Seq(Loop)]
    <3>1. \A h \in Hashes : loops'[h] \in Seq(Loop)
      BY <1>0, <1>1, <1>2
    <3> QED BY <3>1 DEF Track
  <2>2. pending' \in [Hashes -> Nat]
    <3>1. \A h \in Hashes : pending'[h] \in Nat
      BY <1>0, <1>1, <1>2
    <3> QED BY <3>1 DEF Track
  <2> QED BY <2>1, <2>2 DEF IInv, TypeOK
<1>5. RegistryMatchesLoops'
  <2> SUFFICES ASSUME NEW h \in Hashes
               PROVE  {k \in DOMAIN loops'[h] : loops'[h][k].pc \in Alive} =
                          (IF pending'[h] # 0 THEN {pending'[h]} ELSE {})
    BY DEF RegistryMatchesLoops, LoopOf, Tracked
  <2>1. {k \in DOMAIN loops[h] : loops[h][k].pc \in Alive} =
            (IF pending[h] # 0 THEN {pending[h]} ELSE {})
    BY DEF IInv, RegistryMatchesLoops, LoopOf, Tracked
  <2>2. CASE h \in new
    <3>1. \A k \in DOMAIN loops[h] : loops'[h][k].pc \notin Alive
      BY <1>2, <1>3, <2>1, <2>2
    <3>2. NewLoop(deadline[h]).pc \in Alive <=> now < deadline[h]
      BY DEF NewLoop, Alive, Awaiting
    <3>3. \A k \in DOMAIN loops'[h] : k \in DOMAIN loops[h] \/ k = Len(loops[h]) + 1
      BY <1>0, <1>2, <2>2
    <3>4. Len(loops[h]) + 1 \in DOMAIN loops'[h] /\ Len(loops[h]) + 1 # 0
      BY <1>0, <1>2, <2>2
    <3> QED BY <1>2, <2>2, <3>1, <3>2, <3>3, <3>4
  <2>3. CASE h \notin new
    BY <1>1, <2>1, <2>3
  <2> QED BY <2>2, <2>3
<1>6. ASSUME NEW h \in Hashes, NEW k \in DOMAIN loops'[h]
      PROVE  \/ k \in DOMAIN loops[h] /\ loops'[h][k] = loops[h][k]
             \/ h \in new /\ loops'[h][k] = NewLoop(deadline[h])
  BY <1>0, <1>1, <1>2, <1>6
<1>7. NoEarlyTimeout' /\ FinalAnswersTrue'
  <2>1. ASSUME NEW h \in new
        PROVE  LET l == NewLoop(deadline[h])
               IN  /\ l.pc = "timedOut" => now >= l.deadline
                   /\ l.pc \notin {"FINAL", "resolved"}
    BY <1>0, <1>3, <2>1 DEF NewLoop
  <2> QED BY <1>6, <2>1 DEF IInv, NoEarlyTimeout, FinalAnswersTrue, LoopOf
<1>8. SavedFaithful'
  <2>1. \A h \in Hashes : \A k \in DOMAIN loops[h] :
          k \in DOMAIN loops'[h] /\ loops'[h][k] = loops[h][k]
    BY <1>0, <1>1, <1>2
  <2>2. \A e \in saved : e.hash \in Hashes
    BY <1>0 DEF Snapshot
  <2> QED BY <2>1, <2>2 DEF IInv, SavedFaithful, LoopOf
<1> QED BY <1>4, <1>5, <1>7, <1>8 DEF IInv

-----------------------------------------------------------------------------
(* Hydration.                                                               *)

LEMMA ExportKeepsIInv == IInv /\ ExportState => IInv'
<1> SUFFICES ASSUME IInv, ExportState PROVE IInv'
  OBVIOUS
<1>0. /\ loops \in [Hashes -> Seq(Loop)] /\ UNCHANGED <<now, onChain, loops, pending>>
      /\ saved' = {[hash |-> h, deadline |-> loops[h][pending[h]].deadline] :
                      h \in {g \in Hashes : pending[g] # 0}}
  BY DEF ExportState, Tracked, IInv, TypeOK
<1>1. ASSUME NEW h \in Hashes, pending[h] # 0
      PROVE  pending[h] \in DOMAIN loops[h] /\ loops[h][pending[h]].deadline \in Nat
  <2>1. pending[h] \in DOMAIN loops[h]
    BY <1>1 DEF IInv, RegistryMatchesLoops, LoopOf, Tracked
  <2>2. loops[h][pending[h]] \in Loop
    BY <1>0, <2>1, LenProperties
  <2> QED BY <2>1, <2>2 DEF Loop
<1>2. TypeOK'
  BY <1>0, <1>1 DEF IInv, TypeOK, Snapshot
<1>3. RegistryMatchesLoops' /\ NoEarlyTimeout' /\ FinalAnswersTrue'
  BY <1>0 DEF IInv, RegistryMatchesLoops, NoEarlyTimeout, FinalAnswersTrue, LoopOf, Tracked
<1>4. SavedFaithful'
  BY <1>0, <1>1 DEF SavedFaithful, LoopOf
<1> QED BY <1>2, <1>3, <1>4 DEF IInv

LEMMA RefreshKeepsIInv == IInv /\ PageRefresh => IInv'
<1> SUFFICES ASSUME IInv, PageRefresh PROVE IInv'
  OBVIOUS
<1>0. /\ loops \in [Hashes -> Seq(Loop)] /\ pending' = [h \in Hashes |-> 0]
      /\ UNCHANGED <<now, onChain, saved>>
      /\ \A h \in Hashes : Len(loops[h]) \in Nat /\ DOMAIN loops[h] = 1..Len(loops[h])
  BY LenProperties DEF PageRefresh, IInv, TypeOK
<1>1. ASSUME NEW h \in Hashes
      PROVE  /\ loops'[h] \in Seq(Loop)
             /\ DOMAIN loops'[h] = DOMAIN loops[h]
             /\ \A k \in DOMAIN loops[h] :
                  /\ loops'[h][k].deadline = loops[h][k].deadline
                  /\ loops'[h][k].pc \notin Alive
                  /\ loops'[h][k].pc # "lost" => loops'[h][k] = loops[h][k]
  <2> DEFINE l(k) == IF loops[h][k].pc \in Alive
                     THEN [loops[h][k] EXCEPT !.pc = "lost"] ELSE loops[h][k]
  <2>1. loops'[h] = [k \in 1..Len(loops[h]) |-> l(k)]
    BY <1>0 DEF PageRefresh
  <2>2. \A k \in 1..Len(loops[h]) : loops[h][k] \in Loop
    BY <1>0, LenProperties
  <2>3. \A k \in 1..Len(loops[h]) :
          /\ l(k) \in Loop /\ l(k).deadline = loops[h][k].deadline
          /\ l(k).pc \notin Alive
          /\ l(k).pc # "lost" => l(k) = loops[h][k]
    BY <2>2 DEF Loop, Alive, Awaiting, Ended
  <2> HIDE DEF l
  <2>4. loops'[h] \in Seq(Loop)
    BY <1>0, <2>1, <2>3, IsASeq
  <2> QED BY <1>0, <2>1, <2>3, <2>4
<1>2. TypeOK'
  <2>1. loops' \in [Hashes -> Seq(Loop)]
    BY <1>1 DEF PageRefresh
  <2> QED BY <1>0, <2>1 DEF IInv, TypeOK
<1>3. RegistryMatchesLoops'
  BY <1>0, <1>1 DEF RegistryMatchesLoops, LoopOf, Tracked
<1>4. NoEarlyTimeout' /\ FinalAnswersTrue'
  BY <1>0, <1>1 DEF IInv, NoEarlyTimeout, FinalAnswersTrue, LoopOf
<1>5. SavedFaithful'
  <2>1. \A e \in saved : e.hash \in Hashes
    BY DEF IInv, TypeOK, Snapshot
  <2> QED BY <1>0, <1>1, <2>1 DEF IInv, SavedFaithful, LoopOf
<1> QED BY <1>2, <1>3, <1>4, <1>5 DEF IInv

\* The hashes importState restores and the deadlines it restores them with.
ImportedHashes == {e.hash : e \in Unexpired}
ImportedDeadline ==
    [h \in ImportedHashes |-> (CHOOSE e \in Unexpired : e.hash = h).deadline]

\* Every unexpired entry is imported with its own deadline.
LEMMA ImportUsesSavedDeadline ==
    ASSUME IInv
    PROVE  /\ ImportedHashes \in SUBSET Hashes
           /\ ImportedDeadline \in [ImportedHashes -> Nat]
           /\ \A e \in saved : e.deadline > now =>
                e.hash \in ImportedHashes /\ ImportedDeadline[e.hash] = e.deadline
<1>0. saved \subseteq Snapshot /\ Unexpired \subseteq saved
  BY DEF IInv, TypeOK, Unexpired
<1>1. ASSUME NEW e \in Unexpired
      PROVE  e.hash \in Hashes /\ e.deadline \in Nat /\ ImportedDeadline[e.hash] = e.deadline
  <2>1. (CHOOSE f \in Unexpired : f.hash = e.hash) = e
    BY <1>0, <1>1 DEF IInv, SavedFaithful
  <2> QED BY <1>0, <1>1, <2>1 DEF Snapshot, ImportedDeadline, ImportedHashes
<1>2. ImportedHashes \in SUBSET Hashes
  BY <1>1 DEF ImportedHashes
<1>3. \A h \in ImportedHashes : ImportedDeadline[h] \in Nat
  BY <1>1 DEF ImportedHashes
<1>4. ImportedDeadline \in [ImportedHashes -> Nat]
  BY <1>3 DEF ImportedDeadline
<1>5. ASSUME NEW e \in saved, e.deadline > now
      PROVE  e.hash \in ImportedHashes /\ ImportedDeadline[e.hash] = e.deadline
  <2>1. e \in Unexpired
    BY <1>5 DEF Unexpired
  <2> QED BY <1>1, <2>1 DEF ImportedHashes
<1> QED BY <1>2, <1>4, <1>5

-----------------------------------------------------------------------------
(* The invariant.                                                           *)

LEMMA InitIInv == Init => IInv
<1> SUFFICES ASSUME Init PROVE IInv
  OBVIOUS
<1>1. \A h \in Hashes : loops[h] = <<>> /\ pending[h] = 0
  BY DEF Init
<1>2. TypeOK
  BY BoundsAssumption DEF Init, TypeOK
<1> QED BY <1>1, <1>2 DEF Init, IInv, RegistryMatchesLoops, NoEarlyTimeout, FinalAnswersTrue,
                       SavedFaithful, LoopOf, Tracked

LEMMA NextIInv == IInv /\ [Next]_vars => IInv'
<1> SUFFICES ASSUME IInv, [Next]_vars PROVE IInv'
  OBVIOUS
<1>1. ASSUME NEW h \in Hashes, NEW timeout \in Timeouts, TrackTransaction(h, timeout)
      PROVE  IInv'
  <2>1. now + timeout \in Nat
    BY BoundsAssumption DEF IInv, TypeOK
  <2>2. [g \in {h} |-> now + timeout] \in [{h} -> Nat] /\ {h} \in SUBSET Hashes
    BY <2>1
  <2> QED BY <1>1, <2>2, TrackKeepsIInv DEF TrackTransaction
<1>2. ASSUME NEW h \in Hashes, NEW k \in DOMAIN loops[h], Cancel(h, k) \/ PollStep(h, k)
      PROVE  IInv'
  BY <1>2, CancelKeepsIInv, PollStepKeepsIInv
<1>3. CASE ExportState
  BY <1>3, ExportKeepsIInv
<1>4. CASE PageRefresh
  BY <1>4, RefreshKeepsIInv
<1>5. CASE ImportState
  <2>1. Track(ImportedHashes, ImportedDeadline) /\ UNCHANGED <<now, onChain, saved>>
    BY <1>5 DEF ImportState, ImportedHashes, ImportedDeadline
  <2> QED BY <2>1, ImportUsesSavedDeadline, TrackKeepsIInv
<1>6. ASSUME NEW h \in Hashes, Finalise(h) PROVE IInv'
  BY <1>6 DEF Finalise, IInv, TypeOK, RegistryMatchesLoops, NoEarlyTimeout, FinalAnswersTrue,
              SavedFaithful, LoopOf, Tracked
<1>7. CASE Tick
  <2>1. /\ now \in Nat /\ now' \in 0..MaxTime /\ now' = now + 1
        /\ UNCHANGED <<onChain, loops, pending, saved>>
    BY <1>7, BoundsAssumption DEF Tick, IInv, TypeOK
  <2>2. \A h \in Hashes : \A k \in DOMAIN loops[h] : loops[h][k].deadline \in Nat
    <3>1. \A h \in Hashes : \A k \in DOMAIN loops[h] : loops[h][k] \in Loop
      BY LenProperties DEF IInv, TypeOK
    <3> QED BY <3>1 DEF Loop
  <2>3. NoEarlyTimeout'
    BY <2>1, <2>2 DEF IInv, NoEarlyTimeout, LoopOf
  <2> QED BY <2>1, <2>3 DEF IInv, TypeOK, RegistryMatchesLoops, FinalAnswersTrue, SavedFaithful,
                            LoopOf, Tracked
<1>8. CASE UNCHANGED vars
  BY <1>8 DEF vars, IInv, TypeOK, RegistryMatchesLoops, NoEarlyTimeout, FinalAnswersTrue,
              SavedFaithful, LoopOf, Tracked
<1> QED BY <1>1, <1>2, <1>3, <1>4, <1>5, <1>6, <1>7, <1>8 DEF Next

LEMMA SpecIInv == Spec => []IInv
BY InitIInv, NextIInv, PTL DEF Spec

-----------------------------------------------------------------------------

\* Every field of the registry keeps its type.
THEOREM TypeCorrect == Spec => []TypeOK
<1>1. IInv => TypeOK
  BY DEF IInv
<1> QED BY <1>1, SpecIInv, PTL

\* However tracking, cancelling, importing and refreshing interleave, the registry
\* lists exactly the polling loops that are alive, one for a hash.
THEOREM RegistryIsExact == Spec => []RegistryMatchesLoops
<1>1. IInv => RegistryMatchesLoops
  BY DEF IInv
<1> QED BY <1>1, SpecIInv, PTL

\* A timeout has not come early, and a resolved promise is about a transaction the
\* network has finalised.
THEOREM OutcomesAreHonest == Spec => []OutcomesHonest
<1>1. IInv => OutcomesHonest
  BY DEF IInv, FinalAnswersTrue, OutcomesHonest, ResolvedIsFinal
<1> QED BY <1>1, SpecIInv, PTL

\* importState tracks every saved hash whose deadline lies ahead, and a loop it
\* starts has the deadline of a loop of an earlier page.
THEOREM HydrationIsFaithful == Spec => HydrationFaithful
<1>1. ASSUME IInv, ImportState, NEW e \in saved, e.deadline > now
      PROVE  /\ pending'[e.hash] # 0
             /\ ~Tracked(e.hash) =>
                  LET restored == loops'[e.hash][pending'[e.hash]]
                  IN  \E k \in DOMAIN loops[e.hash] :
                         LoopOf(e.hash, k).deadline = restored.deadline
  <2> DEFINE h == e.hash
  <2>0. /\ loops \in [Hashes -> Seq(Loop)] /\ pending \in [Hashes -> Nat]
        /\ h \in Hashes /\ e.deadline \in Nat /\ now \in Nat
    BY <1>1, BoundsAssumption DEF IInv, TypeOK, Snapshot
  <2>1. /\ Track(ImportedHashes, ImportedDeadline)
        /\ h \in ImportedHashes /\ ImportedDeadline[h] = e.deadline
    BY <1>1, ImportUsesSavedDeadline DEF ImportState, ImportedHashes, ImportedDeadline
  <2>2. CASE Tracked(h)
    BY <2>0, <2>1, <2>2 DEF Track, Tracked
  <2>3. CASE ~Tracked(h)
    <3>1. /\ loops'[h] = Append(loops[h], NewLoop(e.deadline))
          /\ pending'[h] = Len(loops[h]) + 1
      BY <1>1, <2>0, <2>1, <2>3 DEF Track, Tracked
    <3>2. NewLoop(e.deadline) \in Loop /\ NewLoop(e.deadline).deadline = e.deadline
      BY <2>0 DEF NewLoop, Loop, Alive, Awaiting, Ended
    <3>3. loops'[h][Len(loops[h]) + 1] = NewLoop(e.deadline) /\ Len(loops[h]) \in Nat
      BY <2>0, <3>1, <3>2, AppendProperties, LenProperties
    <3>4. \E k \in DOMAIN loops[h] : LoopOf(h, k).deadline = e.deadline
      BY <1>1 DEF IInv, SavedFaithful
    <3> QED BY <3>1, <3>2, <3>3, <3>4
  <2> QED BY <2>2, <2>3
<1>2. IInv /\ [Next]_vars =>
        [ImportState =>
           \A e \in saved : e.deadline > now =>
              /\ pending'[e.hash] # 0
              /\ ~Tracked(e.hash) =>
                   LET restored == loops'[e.hash][pending'[e.hash]]
                   IN  \E k \in DOMAIN loops[e.hash] :
                          LoopOf(e.hash, k).deadline = restored.deadline]_vars
  BY <1>1
<1> QED BY <1>2, SpecIInv, PTL DEF Spec, HydrationFaithful

-----------------------------------------------------------------------------

\* Starting loops leaves those there are alone.
LEMMA TrackKeepsLoops ==
    ASSUME IInv, NEW S, NEW deadline, Track(S, deadline),
           NEW h \in Hashes, NEW k \in DOMAIN loops[h],
           \A g \in S : NewLoop(deadline[g]) \in Loop
    PROVE  loops'[h][k] = loops[h][k]
<1>0. loops[h] \in Seq(Loop) /\ k \in 1..Len(loops[h])
  BY LenProperties DEF IInv, TypeOK
<1>1. \/ loops'[h] = loops[h]
      \/ h \in S /\ loops'[h] = Append(loops[h], NewLoop(deadline[h]))
  BY DEF Track
<1> QED BY <1>0, <1>1, AppendProperties

\* Once cancelled, or once its deadline has passed, a loop sends no new query: only
\* the end of a sleep sends one, and it tests both first.
THEOREM StoppedLoopsStayQuiet == Spec => NoQueryAfterStop
<1>1. ASSUME IInv, [Next]_vars, NEW h \in Hashes, NEW k \in DOMAIN loops[h],
             loops[h][k].cancelled \/ now >= loops[h][k].deadline,
             loops[h][k].pc # "asking"
      PROVE  loops'[h][k].pc # "asking"
  <2>0. /\ loops \in [Hashes -> Seq(Loop)] /\ now \in Nat
        /\ \A g \in Hashes : \A j \in DOMAIN loops[g] : loops[g][j] \in Loop
    BY <1>1, LenProperties, BoundsAssumption DEF IInv, TypeOK
  <2>1. \A d \in Nat : NewLoop(d) \in Loop
    BY DEF NewLoop, Loop, Alive, Awaiting, Ended
  <2>2. ASSUME NEW g \in Hashes, NEW timeout \in Timeouts, TrackTransaction(g, timeout)
        PROVE  loops'[h][k].pc # "asking"
    <3>1. now + timeout \in Nat
      BY <2>0, BoundsAssumption
    <3> QED BY <1>1, <2>1, <2>2, <3>1, TrackKeepsLoops DEF TrackTransaction
  <2>3. CASE ImportState
    <3>1. Track(ImportedHashes, ImportedDeadline)
      BY <2>3 DEF ImportState, ImportedHashes, ImportedDeadline
    <3> QED BY <1>1, <2>1, <3>1, ImportUsesSavedDeadline, TrackKeepsLoops
  <2>4. ASSUME NEW g \in Hashes, NEW j \in DOMAIN loops[g], Cancel(g, j)
        PROVE  loops'[h][k].pc # "asking"
    <3>1. Becomes(g, j, [loops[g][j] EXCEPT !.cancelled = TRUE])
      BY <2>0, <2>4, FieldAssigned DEF Cancel
    <3>2. [loops[g][j] EXCEPT !.cancelled = TRUE].pc = loops[g][j].pc
      BY <2>0 DEF Loop
    <3> QED BY <1>1, <3>1, <3>2 DEF Becomes
  <2>5. ASSUME NEW g \in Hashes, NEW j \in DOMAIN loops[g], PollStep(g, j)
        PROVE  loops'[h][k].pc # "asking"
    <3>1. ASSUME NEW v \in Alive \cup Ended, loops' = [loops EXCEPT ![g][j].pc = v],
                 g = h /\ j = k => v # "asking"
          PROVE  loops'[h][k].pc # "asking"
      <4>1. Becomes(g, j, [loops[g][j] EXCEPT !.pc = v])
        BY <2>0, <3>1, FieldAssigned
      <4>2. [loops[g][j] EXCEPT !.pc = v].pc = v
        BY <2>0 DEF Loop
      <4> QED BY <1>1, <3>1, <4>1, <4>2 DEF Becomes
    <3>2. CASE Served(g, j)
      BY <1>1, <3>1, <3>2 DEF Served, Alive, Awaiting
    <3>3. CASE Arrive(g, j)
      BY <3>1, <3>3 DEF Arrive, End, Alive, Ended
    <3>4. CASE Wake(g, j)
      <4>1. loops[g][j].deadline \in Nat
        BY <2>0 DEF Loop
      <4> QED BY <1>1, <2>0, <3>1, <3>4, <4>1 DEF Wake, End, Alive, Awaiting, Ended
    <3> QED BY <2>5, <3>2, <3>3, <3>4 DEF PollStep
  <2>6. CASE PageRefresh
    BY <1>1, <2>0, <2>6 DEF PageRefresh, Loop
  <2>7. CASE loops' = loops
    BY <1>1, <2>7
  <2> QED BY <1>1, <2>2, <2>3, <2>4, <2>5, <2>6, <2>7 DEF Next, ExportState, Finalise, Tick, vars
<1>2. IInv /\ [Next]_vars =>
        [\A h \in Hashes : \A k \in DOMAIN loops[h] :
           (LoopOf(h, k).cancelled \/ now >= LoopOf(h, k).deadline) =>
              ~(LoopOf(h, k).pc # "asking" /\ loops'[h][k].pc = "asking")]_vars
  BY <1>1 DEF LoopOf
<1> QED BY <1>2, SpecIInv, PTL DEF Spec, NoQueryAfterStop

-----------------------------------------------------------------------------
(* Calls over endpoints.                                                    *)

CallState == [pc: {"idle", "calling", "sleeping", "ok", "failed"},
              endpoint: Endpoints \cup {NoEndpoint},
              skipped: SUBSET Endpoints, attempt: 0..MaxRetries]

\* What holds of one call of execute.
CallOK(x) ==
    /\ x \in CallState
    /\ IsFiniteSet(x.skipped)
    /\ x.pc = "calling"  => x.endpoint \in Endpoints /\ Cardinality(x.skipped) = x.attempt
    /\ x.pc = "sleeping" => /\ x.endpoint = NoEndpoint /\ x.attempt < MaxRetries
                            /\ Cardinality(x.skipped) = x.attempt + 1
    /\ x.endpoint \notin x.skipped

EMInv ==
    /\ EMTypeOK
    /\ \A c \in Calls : CallOK(call[c])

-----------------------------------------------------------------------------
(* The health monitor.                                                      *)

LEMMA MonitorKeepsType == MonitorTypeOK /\ MonitorNext => MonitorTypeOK'
<1> SUFFICES ASSUME MonitorTypeOK, MonitorNext PROVE MonitorTypeOK'
  OBVIOUS
<1>1. CASE Start
  BY <1>1 DEF Start, StartRound, MonitorTypeOK
<1>2. CASE Stop
  BY <1>2 DEF Stop, MonitorTypeOK
<1>3. CASE RunHealthChecks
  BY <1>3 DEF RunHealthChecks, StartRound, MonitorTypeOK
<1>4. ASSUME NEW e \in Endpoints, NEW s \in {"healthy", "degraded", "unhealthy"},
             RecordSuccess(e, s)
      PROVE  MonitorTypeOK'
  BY <1>4, UnhealthyAfterAssumption DEF RecordSuccess, RoundOver, MonitorTypeOK, HealthStates
<1>5. ASSUME NEW e \in Endpoints, RecordFailure(e) PROVE MonitorTypeOK'
  <2> DEFINE failures == consecutiveFailures[e] + 1
             count == IF failures >= UnhealthyAfter THEN UnhealthyAfter ELSE failures
  <2>1. count \in 0..UnhealthyAfter
    BY UnhealthyAfterAssumption DEF MonitorTypeOK
  <2>2. consecutiveFailures' = [consecutiveFailures EXCEPT ![e] = count]
    BY <1>5 DEF RecordFailure
  <2> HIDE DEF count
  <2>3. consecutiveFailures' \in [Endpoints -> 0..UnhealthyAfter]
    BY <2>1, <2>2 DEF MonitorTypeOK
  <2> QED BY <1>5, <2>3 DEF RecordFailure, RoundOver, MonitorTypeOK, HealthStates
<1> QED BY <1>1, <1>2, <1>3, <1>4, <1>5 DEF MonitorNext, CheckEnds

-----------------------------------------------------------------------------
(* The calls of execute.                                                    *)

\* What pick returns comes from the pool it was given.
LEMMA PicksFromPool ==
    ASSUME NEW pool, policy \in Policies
    PROVE  Picks(pool) \subseteq pool
BY PoliciesAssumption DEF Picks

LEMMA RotationStays == EMTypeOK => Rotated \in 0..(Period - 1)
BY PeriodAssumption DEF EMTypeOK, Rotated

\* One call moves to x and the pool, the policy and the monitor stay.
LEMMA CallMoves ==
    ASSUME EMInv, NEW c \in Calls, NEW x, CallOK(x), call' = [call EXCEPT ![c] = x],
           rrIndex' \in 0..(Period - 1), UNCHANGED <<monitorVars, enabled, policy>>
    PROVE  EMInv'
<1>1. call' \in [Calls -> CallState]
  BY DEF EMInv, EMTypeOK, CallOK, CallState
<1>2. MonitorTypeOK'
  BY DEF EMInv, EMTypeOK, MonitorTypeOK, monitorVars
<1>3. EMTypeOK'
  BY <1>1, <1>2 DEF EMInv, EMTypeOK, CallState
<1>4. ASSUME NEW d \in Calls PROVE CallOK(call'[d])
  BY DEF EMInv, EMTypeOK
<1> QED BY <1>3, <1>4 DEF EMInv

\* A round of the loop, given what failed before it, leaves the call in order.
LEMMA NextAttemptKeepsEMInv ==
    ASSUME EMInv, NEW c \in Calls, NEW skipped \in SUBSET Endpoints, NEW attempt \in 0..MaxRetries,
           IsFiniteSet(skipped), Cardinality(skipped) = attempt,
           NextAttempt(c, skipped, attempt), UNCHANGED <<monitorVars, enabled, policy>>
    PROVE  EMInv'
<1>1. CASE Candidates(skipped) = {}
  <2> DEFINE x == [pc |-> "failed", endpoint |-> NoEndpoint, skipped |-> skipped, attempt |-> attempt]
  <2>1. call' = [call EXCEPT ![c] = x] /\ rrIndex' = rrIndex
    BY <1>1 DEF NextAttempt
  <2>2. CallOK(x)
    BY NoEndpointAssumption DEF CallOK, CallState
  <2>3. rrIndex' \in 0..(Period - 1)
    BY <2>1 DEF EMInv, EMTypeOK
  <2> QED BY <2>1, <2>2, <2>3, CallMoves
<1>2. CASE Candidates(skipped) # {}
  <2>1. PICK e \in Picks(Candidates(skipped)) :
          call' = [call EXCEPT ![c] = [pc |-> "calling", endpoint |-> e,
                                       skipped |-> skipped, attempt |-> attempt]]
    BY <1>2 DEF NextAttempt
  <2> DEFINE x == [pc |-> "calling", endpoint |-> e, skipped |-> skipped, attempt |-> attempt]
  <2>2. e \in Endpoints /\ e \notin skipped
    BY <2>1, PicksFromPool DEF Candidates, EMInv, EMTypeOK
  <2>3. CallOK(x)
    BY <2>2 DEF CallOK, CallState
  <2>4. rrIndex' \in 0..(Period - 1)
    BY <1>2, RotationStays DEF NextAttempt, EMInv
  <2> QED BY <2>1, <2>3, <2>4, CallMoves
<1> QED BY <1>1, <1>2

LEMMA InitEMInv == EMInit => EMInv
<1> SUFFICES ASSUME EMInit PROVE EMInv
  OBVIOUS
<1>1. EMTypeOK
  <2>1. MonitorTypeOK
    <3>1. 0 \in 0..UnhealthyAfter
      BY UnhealthyAfterAssumption
    <3>2. state \in [Endpoints -> HealthStates] /\ consecutiveFailures \in [Endpoints -> 0..UnhealthyAfter]
      BY <3>1 DEF EMInit, MonitorInit, HealthStates
    <3> QED BY <3>2 DEF EMInit, MonitorInit, MonitorTypeOK
  <2>2. rrIndex \in 0..(Period - 1)
    <3>1. Period \in Nat /\ Period # 0
      BY PeriodAssumption
    <3> QED BY <3>1 DEF EMInit
  <2>3. call \in [Calls -> CallState]
    BY MaxRetriesAssumption DEF EMInit, CallState
  <2> QED BY <2>1, <2>2, <2>3, PoliciesAssumption DEF EMInit, EMTypeOK, CallState
<1>2. ASSUME NEW c \in Calls PROVE CallOK(call[c])
  BY MaxRetriesAssumption, FS_EmptySet DEF EMInit, CallOK, CallState
<1> QED BY <1>1, <1>2 DEF EMInv

LEMMA NextEMInv == EMInv /\ [EMNext]_emVars => EMInv'
<1> SUFFICES ASSUME EMInv, [EMNext]_emVars PROVE EMInv'
  OBVIOUS
<1>0. MaxRetries \in Nat /\ rrIndex \in 0..(Period - 1)
  BY MaxRetriesAssumption DEF EMInv, EMTypeOK
<1>1. CASE MonitorNext /\ UNCHANGED managerVars
  <2>1. MonitorTypeOK'
    BY <1>1, MonitorKeepsType DEF EMInv, EMTypeOK
  <2> QED BY <1>1, <2>1 DEF EMInv, EMTypeOK, managerVars
<1>2. ASSUME NEW c \in Calls, Execute(c) PROVE EMInv'
  <2>1. {} \in SUBSET Endpoints /\ IsFiniteSet({}) /\ Cardinality({}) = 0 /\ 0 \in 0..MaxRetries
    BY <1>0, FS_EmptySet
  <2> QED BY <1>0, <1>2, <2>1, NextAttemptKeepsEMInv DEF Execute
<1>3. ASSUME NEW c \in Calls, FnResolves(c) PROVE EMInv'
  <2> DEFINE x == [call[c] EXCEPT !.pc = "ok"]
  <2>1. CallOK(x)
    BY DEF EMInv, CallOK, CallState
  <2>2. call' = [call EXCEPT ![c] = x]
    BY <1>3 DEF FnResolves
  <2> HIDE DEF x
  <2> QED BY <1>0, <1>3, <2>1, <2>2, CallMoves DEF FnResolves
<1>4. ASSUME NEW c \in Calls, FnRejects(c) PROVE EMInv'
  <2> DEFINE S == call[c].skipped \cup {call[c].endpoint}
             pc == IF call[c].attempt < MaxRetries THEN "sleeping" ELSE "failed"
             x == [call[c] EXCEPT !.skipped = S, !.endpoint = NoEndpoint, !.pc = pc]
  <2>1. /\ CallOK(call[c]) /\ call[c].pc = "calling"
        /\ call' = [call EXCEPT ![c] = x]
    BY <1>4 DEF FnRejects, EMInv
  <2>2. S \in SUBSET Endpoints /\ IsFiniteSet(S) /\ Cardinality(S) = call[c].attempt + 1
    BY <2>1, FS_AddElement DEF CallOK, CallState
  <2>3. /\ x \in CallState /\ x.skipped = S /\ x.endpoint = NoEndpoint
        /\ x.attempt = call[c].attempt /\ x.pc = pc
    BY <2>1, <2>2 DEF CallOK, CallState
  <2>4. NoEndpoint \notin S
    BY <2>2, NoEndpointAssumption
  <2> HIDE DEF S, x
  <2>5. CallOK(x)
    BY <2>2, <2>3, <2>4 DEF CallOK
  <2> QED BY <1>0, <1>4, <2>1, <2>5, CallMoves DEF FnRejects
<1>5. ASSUME NEW c \in Calls, Wakes(c) PROVE EMInv'
  <2>1. /\ call[c].skipped \in SUBSET Endpoints /\ IsFiniteSet(call[c].skipped)
        /\ Cardinality(call[c].skipped) = call[c].attempt + 1
        /\ call[c].attempt \in 0..MaxRetries /\ call[c].attempt < MaxRetries
    BY <1>5 DEF Wakes, EMInv, CallOK, CallState
  <2>2. call[c].attempt + 1 \in 0..MaxRetries
    BY <1>0, <2>1
  <2> QED BY <1>5, <2>1, <2>2, NextAttemptKeepsEMInv DEF Wakes
<1>6. CASE GetActiveEndpoint
  <2>1. rrIndex' \in 0..(Period - 1)
    BY <1>6, RotationStays DEF GetActiveEndpoint, EMInv
  <2> QED BY <1>6, <2>1 DEF GetActiveEndpoint, EMInv, EMTypeOK, MonitorTypeOK, monitorVars
<1>7. ASSUME NEW p \in Policies, SetPolicy(p) PROVE EMInv'
  BY <1>7, PeriodAssumption DEF SetPolicy, EMInv, EMTypeOK, MonitorTypeOK, monitorVars
<1>8. ASSUME NEW e \in Endpoints, EnableEndpoint(e) \/ DisableEndpoint(e) PROVE EMInv'
  BY <1>8 DEF EnableEndpoint, DisableEndpoint, EMInv, EMTypeOK, MonitorTypeOK, monitorVars
<1>9. CASE UNCHANGED emVars
  BY <1>9 DEF emVars, managerVars, monitorVars, EMInv, EMTypeOK, MonitorTypeOK
<1> QED BY <1>1, <1>2, <1>3, <1>4, <1>5, <1>6, <1>7, <1>8, <1>9 DEF EMNext

LEMMA SpecEMInv == EMSpec => []EMInv
BY InitEMInv, NextEMInv, PTL DEF EMSpec

-----------------------------------------------------------------------------

\* Every field of the manager and of the monitor keeps its type.
THEOREM PoolTypeCorrect == EMSpec => []EMTypeOK
<1>1. EMInv => EMTypeOK
  BY DEF EMInv
<1> QED BY <1>1, SpecEMInv, PTL

\* Failover goes to a fresh endpoint every time, whatever recovers, is enabled or
\* is called by others meanwhile.
THEOREM FailoverIsFresh == EMSpec => []EachEndpointTriedOnce
<1>1. EMInv => EachEndpointTriedOnce
  BY DEF EMInv, CallOK, EachEndpointTriedOnce
<1> QED BY <1>1, SpecEMInv, PTL

\* A call gives up only when it used all its attempts or, at that moment, every
\* enabled endpoint that is not unhealthy has failed it.
THEOREM NoEarlySurrender == EMSpec => GivesUpOnlyWhenExhausted
<1> DEFINE Exhausted(c) ==
      \/ Cardinality(call'[c].skipped) = MaxRetries + 1
      \/ \A e \in enabled \ call'[c].skipped : state[e] = "unhealthy"
<1>1. ASSUME EMInv, [EMNext]_emVars, NEW c \in Calls, call[c].pc # "failed", call'[c].pc = "failed"
      PROVE  Exhausted(c)
  <2>0. call \in [Calls -> CallState]
    BY <1>1 DEF EMInv, EMTypeOK, CallState
  <2>1. ASSUME NEW d \in Calls, NEW skipped, NEW attempt, NextAttempt(d, skipped, attempt)
        PROVE  Exhausted(c)
    <3>1. d = c /\ Candidates(skipped) = {} /\ call'[c].skipped = skipped
      BY <1>1, <2>0, <2>1 DEF NextAttempt
    <3> QED BY <3>1 DEF Candidates
  <2>2. ASSUME NEW d \in Calls, FnRejects(d) PROVE Exhausted(c)
    <3>1. /\ d = c /\ call[c].pc = "calling" /\ ~(call[c].attempt < MaxRetries)
          /\ call'[c].skipped = call[c].skipped \cup {call[c].endpoint}
      BY <1>1, <2>0, <2>2 DEF FnRejects
    <3>2. call[c].attempt = MaxRetries
      BY <2>0, <3>1, MaxRetriesAssumption DEF CallState
    <3>3. Cardinality(call'[c].skipped) = MaxRetries + 1
      <4>1. /\ IsFiniteSet(call[c].skipped) /\ call[c].endpoint \notin call[c].skipped
            /\ Cardinality(call[c].skipped) = call[c].attempt
        BY <1>1, <3>1 DEF EMInv, CallOK
      <4>2. Cardinality(call[c].skipped \cup {call[c].endpoint}) = Cardinality(call[c].skipped) + 1
        BY <4>1, FS_AddElement
      <4> QED BY <3>1, <3>2, <4>1, <4>2
    <3> QED BY <3>3
  <2>3. ASSUME NEW d \in Calls, FnResolves(d) PROVE FALSE
    BY <1>1, <2>0, <2>3 DEF FnResolves
  <2>4. CASE call' = call
    BY <1>1, <2>4
  <2> QED BY <1>1, <2>1, <2>2, <2>3, <2>4
          DEF EMNext, emVars, managerVars, Execute, Wakes, GetActiveEndpoint, SetPolicy,
              EnableEndpoint, DisableEndpoint
<1>2. EMInv /\ [EMNext]_emVars =>
        [\A c \in Calls : call[c].pc # "failed" /\ call'[c].pc = "failed" => Exhausted(c)]_emVars
  BY <1>1
<1> QED BY <1>2, SpecEMInv, PTL DEF EMSpec, GivesUpOnlyWhenExhausted
-----------------------------------------------------------------------------
(* The real-time connection and its owner.                                  *)

\* Nothing is sent on a socket before it opens.
ConnectingIsClean ==
    \A s \in DOMAIN sockets : sockets[s].state = "connecting" => sockets[s].registered = {}

\* Only disconnect closes a socket from this side.
ClosingIsDestroyed ==
    ~isDestroyed => \A s \in DOMAIN sockets : sockets[s].state # "closing"

\* A client alone has no reconnection manager.
UnmanagedIsIdle == ~managed => rmState = "disconnected"

SUInv ==
    /\ SUTypeOK
    /\ ConnectingIsClean
    /\ ClosingIsDestroyed
    /\ UnmanagedIsIdle
    /\ SubscriptionsRegistered
    /\ ReconnectsSurvive
    /\ ConnectedIsTrue

-----------------------------------------------------------------------------
(* What happens to the sockets.                                             *)

LEMMA StateAssigned ==
    ASSUME NEW f \in Seq(Socket), NEW s \in DOMAIN f, NEW v \in SocketState
    PROVE  LET g == [f EXCEPT ![s].state = v]
           IN  /\ g \in Seq(Socket) /\ Len(g) = Len(f) /\ DOMAIN g = DOMAIN f
               /\ \A t \in DOMAIN f : g[t] = IF t = s THEN [f[t] EXCEPT !.state = v] ELSE f[t]
<1> DEFINE x == [f[s] EXCEPT !.state = v]
<1>1. f[s] \in Socket /\ DOMAIN f = 1..Len(f)
  BY LenProperties
<1>2. x \in Socket
  BY <1>1 DEF Socket
<1>3. [f EXCEPT ![s].state = v] = [f EXCEPT ![s] = x]
  OBVIOUS
<1> HIDE DEF x
<1>4. /\ [f EXCEPT ![s] = x] \in Seq(Socket)
      /\ Len([f EXCEPT ![s] = x]) = Len(f)
  BY <1>1, <1>2, ExceptSeq
<1>5. \A t \in DOMAIN f : [f EXCEPT ![s] = x][t] = IF t = s THEN x ELSE f[t]
  OBVIOUS
<1> QED BY <1>3, <1>4, <1>5 DEF x

LEMMA RegisteredAssigned ==
    ASSUME NEW f \in Seq(Socket), NEW s \in DOMAIN f, NEW X \in SUBSET Subscriptions
    PROVE  LET g == [f EXCEPT ![s].registered = X]
           IN  /\ g \in Seq(Socket) /\ Len(g) = Len(f) /\ DOMAIN g = DOMAIN f
               /\ \A t \in DOMAIN f : g[t] = IF t = s THEN [f[t] EXCEPT !.registered = X] ELSE f[t]
<1> DEFINE x == [f[s] EXCEPT !.registered = X]
<1>1. f[s] \in Socket /\ DOMAIN f = 1..Len(f)
  BY LenProperties
<1>2. x \in Socket
  BY <1>1 DEF Socket
<1>3. [f EXCEPT ![s].registered = X] = [f EXCEPT ![s] = x]
  OBVIOUS
<1> HIDE DEF x
<1>4. /\ [f EXCEPT ![s] = x] \in Seq(Socket)
      /\ Len([f EXCEPT ![s] = x]) = Len(f)
  BY <1>1, <1>2, ExceptSeq
<1>5. \A t \in DOMAIN f : [f EXCEPT ![s] = x][t] = IF t = s THEN x ELSE f[t]
  OBVIOUS
<1> QED BY <1>3, <1>4, <1>5 DEF x

\* The facts every step starts from.
LEMMA Basics ==
    ASSUME SUTypeOK
    PROVE  /\ sockets \in Seq(Socket) /\ Len(sockets) \in Nat /\ DOMAIN sockets = 1..Len(sockets)
           /\ \A s \in DOMAIN sockets : sockets[s] \in Socket
           /\ ws \in Nat /\ (ws # 0 => ws \in DOMAIN sockets)
           /\ subscriptions \subseteq Subscriptions
           /\ sockets = <<>> <=> Len(sockets) = 0
BY LenProperties, EmptySeq DEF SUTypeOK, WSTypeOK

\* connect leaves the sockets alone, or adds one that is connecting.
LEMMA ConnectAdds ==
    ASSUME SUTypeOK, Connect
    PROVE  \/ /\ isConnecting \/ isDestroyed
              /\ UNCHANGED <<sockets, ws, isConnecting>>
           \/ /\ ~isConnecting /\ ~isDestroyed
              /\ sockets' \in Seq(Socket) /\ Len(sockets') = Len(sockets) + 1
              /\ DOMAIN sockets' = 1..(Len(sockets) + 1)
              /\ \A s \in DOMAIN sockets : sockets'[s] = sockets[s]
              /\ sockets'[Len(sockets) + 1] = [state |-> "connecting", registered |-> {}]
              /\ ws' = Len(sockets) + 1
              /\ isConnecting'
<1>1. CASE isConnecting \/ isDestroyed
  BY <1>1 DEF Connect
<1>2. CASE ~(isConnecting \/ isDestroyed)
  <2> DEFINE x == [state |-> "connecting", registered |-> {}]
  <2>1. /\ sockets' = Append(sockets, x)
        /\ ws' = Len(sockets) + 1 /\ isConnecting' = TRUE
    BY <1>2 DEF Connect
  <2>2. x \in Socket
    BY DEF Socket, SocketState
  <2> HIDE DEF x
  <2>3. /\ sockets' \in Seq(Socket) /\ Len(sockets') = Len(sockets) + 1
        /\ \A s \in 1..Len(sockets) : sockets'[s] = sockets[s]
        /\ sockets'[Len(sockets) + 1] = x
    BY <2>1, <2>2, Basics, AppendProperties
  <2>4. DOMAIN sockets' = 1..(Len(sockets) + 1)
    BY <2>3, LenProperties
  <2> QED BY <1>2, <2>1, <2>3, <2>4, Basics DEF x
<1> QED BY <1>1, <1>2

\* Socket s changes its state to v; if the socket the manager sends on is open
\* then, the server knows the local subscriptions on it.
Shifts(s, v) ==
    /\ sockets' \in Seq(Socket) /\ Len(sockets') = Len(sockets) /\ DOMAIN sockets' = DOMAIN sockets
    /\ \A t \in DOMAIN sockets : sockets'[t].state = IF t = s THEN v ELSE sockets[t].state
    /\ \A t \in DOMAIN sockets :
         sockets'[t].state # "open" => sockets'[t].registered = sockets[t].registered
    /\ (ws' # 0 /\ sockets'[ws'].state = "open") => sockets'[ws'].registered = subscriptions'

LEMMA OpenShifts ==
    ASSUME SUInv, NEW s \in DOMAIN sockets, OnOpen(s)
    PROVE  Shifts(s, "open")
<1> DEFINE opened == [sockets EXCEPT ![s].state = "open"]
<1>0. /\ SUTypeOK /\ "open" \in SocketState
      /\ ConnectingIsClean /\ SubscriptionsRegistered /\ sockets[s].state = "connecting"
      /\ ws' = ws /\ subscriptions' = subscriptions
  BY DEF SUInv, SocketState, OnOpen
<1>1. /\ opened \in Seq(Socket) /\ Len(opened) = Len(sockets) /\ DOMAIN opened = DOMAIN sockets
      /\ \A t \in DOMAIN sockets :
           opened[t] = IF t = s THEN [sockets[t] EXCEPT !.state = "open"] ELSE sockets[t]
  BY <1>0, Basics, StateAssigned
<1>2. sockets' = IF ws # 0 /\ opened[ws].state = "open"
                 THEN [opened EXCEPT ![ws].registered = @ \cup subscriptions]
                 ELSE opened
  BY DEF OnOpen
<1> HIDE DEF opened
<1>3. \A t \in DOMAIN sockets :
        /\ sockets[t] \in Socket
        /\ opened[t].state = IF t = s THEN "open" ELSE sockets[t].state
        /\ opened[t].registered = sockets[t].registered
  BY <1>0, <1>1, Basics DEF Socket
<1>4. CASE ~(ws # 0 /\ opened[ws].state = "open")
  <2>1. sockets' = opened
    BY <1>2, <1>4
  <2> QED BY <1>0, <1>1, <1>3, <1>4, <2>1 DEF Shifts
<1>5. CASE ws # 0 /\ opened[ws].state = "open"
  <2>1. ws \in DOMAIN opened
    BY <1>0, <1>1, <1>5, Basics
  <2>2. opened[ws].registered \cup subscriptions = subscriptions
    <3>1. CASE ws = s
      BY <1>0, <1>3, <3>1 DEF ConnectingIsClean
    <3>2. CASE ws # s
      <4>1. sockets[ws].state = "open"
        BY <1>1, <1>3, <1>5, <2>1, <3>2
      <4>2. sockets[ws].registered = subscriptions
        BY <1>0, <1>5, <4>1 DEF SubscriptionsRegistered, IsConnected
      <4> QED BY <1>1, <1>3, <2>1, <4>2
    <3> QED BY <3>1, <3>2
  <2>3. sockets' = [opened EXCEPT ![ws].registered = subscriptions]
    BY <1>2, <1>5, <2>2
  <2>4. subscriptions \in SUBSET Subscriptions
    BY <1>0, Basics
  <2>5. /\ sockets' \in Seq(Socket) /\ Len(sockets') = Len(opened) /\ DOMAIN sockets' = DOMAIN opened
        /\ \A t \in DOMAIN opened :
             sockets'[t] = IF t = ws THEN [opened[t] EXCEPT !.registered = subscriptions] ELSE opened[t]
    BY <1>1, <2>1, <2>3, <2>4, RegisteredAssigned
  <2>6. \A t \in DOMAIN opened :
          /\ opened[t] \in Socket
          /\ sockets'[t].state = opened[t].state
          /\ t = ws => sockets'[t].registered = subscriptions
          /\ t # ws => sockets'[t].registered = opened[t].registered
    <3>1. \A t \in DOMAIN opened : opened[t] \in Socket
      BY <1>1, LenProperties
    <3> QED BY <2>5, <3>1 DEF Socket
  <2> QED BY <1>0, <1>1, <1>3, <1>5, <2>1, <2>5, <2>6 DEF Shifts
<1> QED BY <1>4, <1>5

LEMMA CloseShifts ==
    ASSUME SUInv, NEW s \in DOMAIN sockets, NEW v \in {"closing", "closed"},
           sockets' = [sockets EXCEPT ![s].state = v],
           ws' \in {0, ws}, subscriptions' = subscriptions
    PROVE  Shifts(s, v)
<1>0. SUTypeOK /\ SubscriptionsRegistered /\ v \in SocketState /\ v # "open"
  BY DEF SUInv, SocketState
<1>1. /\ sockets' \in Seq(Socket) /\ Len(sockets') = Len(sockets) /\ DOMAIN sockets' = DOMAIN sockets
      /\ \A t \in DOMAIN sockets :
           sockets'[t] = IF t = s THEN [sockets[t] EXCEPT !.state = v] ELSE sockets[t]
  BY <1>0, Basics, StateAssigned
<1>2. \A t \in DOMAIN sockets :
        /\ sockets'[t].state = IF t = s THEN v ELSE sockets[t].state
        /\ sockets'[t].registered = sockets[t].registered
  BY <1>0, <1>1, Basics DEF Socket
<1>3. ws' # 0 => ws' = ws /\ ws' \in DOMAIN sockets
  BY <1>0, Basics
<1>4. (ws' # 0 /\ sockets'[ws'].state = "open") => sockets'[ws'].registered = subscriptions'
  BY <1>0, <1>2, <1>3 DEF SubscriptionsRegistered, IsConnected
<1> QED BY <1>1, <1>2, <1>4 DEF Shifts

\* subscribe and unsubscribe change the server's knowledge with the registry.
LEMMA SubscribingShifts ==
    ASSUME SUInv, NEW X \in SUBSET Subscriptions, subscriptions' = X, ws' = ws,
           sockets' = IF IsConnected THEN [sockets EXCEPT ![ws].registered = X] ELSE sockets
    PROVE  /\ sockets' \in Seq(Socket) /\ Len(sockets') = Len(sockets)
           /\ DOMAIN sockets' = DOMAIN sockets
           /\ \A t \in DOMAIN sockets :
                /\ sockets'[t].state = sockets[t].state
                /\ sockets[t].state # "open" => sockets'[t].registered = sockets[t].registered
           /\ (ws' # 0 /\ sockets'[ws'].state = "open") => sockets'[ws'].registered = X
<1>0. SUTypeOK
  BY DEF SUInv
<1>1. CASE IsConnected
  <2>1. ws \in DOMAIN sockets /\ sockets[ws].state = "open"
    BY <1>0, <1>1, Basics DEF IsConnected
  <2>2. /\ sockets' \in Seq(Socket) /\ Len(sockets') = Len(sockets) /\ DOMAIN sockets' = DOMAIN sockets
        /\ \A t \in DOMAIN sockets :
             sockets'[t] = IF t = ws THEN [sockets[t] EXCEPT !.registered = X] ELSE sockets[t]
    BY <1>0, <1>1, <2>1, Basics, RegisteredAssigned
  <2> QED BY <1>0, <2>1, <2>2, Basics DEF Socket
<1>2. CASE ~IsConnected
  BY <1>0, <1>2, Basics DEF IsConnected
<1> QED BY <1>1, <1>2

LEMMA ShiftsSound ==
    ASSUME SUInv, NEW s \in DOMAIN sockets, NEW v \in {"open", "closing", "closed"}, Shifts(s, v),
           ws' \in {0, ws}
    PROVE  /\ sockets' \in Seq(Socket) /\ ws' \in 0..Len(sockets')
           /\ ConnectingIsClean' /\ SubscriptionsRegistered'
<1>0. SUTypeOK /\ ConnectingIsClean
  BY DEF SUInv
<1>1. sockets' \in Seq(Socket) /\ ws' \in 0..Len(sockets')
  BY <1>0, Basics DEF Shifts
<1>2. ConnectingIsClean'
  BY <1>0 DEF Shifts, ConnectingIsClean
<1>3. SubscriptionsRegistered'
  BY DEF Shifts, SubscriptionsRegistered, IsConnected
<1> QED BY <1>1, <1>2, <1>3

\* A new socket knows nothing and is the newest.
LEMMA ConnectSound ==
    ASSUME SUInv, Connect, subscriptions' = subscriptions, isDestroyed' = isDestroyed
    PROVE  /\ sockets' \in Seq(Socket) /\ ws' \in 0..Len(sockets') /\ isConnecting' \in BOOLEAN
           /\ ConnectingIsClean' /\ ClosingIsDestroyed' /\ SubscriptionsRegistered'
           /\ ConnectingFlagHonest'
           /\ isConnecting' \/ isDestroyed
           /\ \A t \in DOMAIN sockets : t \in DOMAIN sockets' /\ sockets'[t] = sockets[t]
<1>0. SUTypeOK /\ isConnecting \in BOOLEAN /\ isDestroyed \in BOOLEAN
  BY DEF SUInv, SUTypeOK, WSTypeOK
<1>1. CASE (isConnecting \/ isDestroyed) /\ UNCHANGED <<sockets, ws, isConnecting>>
  BY <1>0, <1>1 DEF SUInv, SUTypeOK, WSTypeOK, ConnectingIsClean, ClosingIsDestroyed,
       SubscriptionsRegistered, IsConnected, ReconnectsSurvive, ConnectingFlagHonest
<1>2. CASE /\ sockets' \in Seq(Socket) /\ Len(sockets') = Len(sockets) + 1
           /\ DOMAIN sockets' = 1..(Len(sockets) + 1)
           /\ \A s \in DOMAIN sockets : sockets'[s] = sockets[s]
           /\ sockets'[Len(sockets) + 1] = [state |-> "connecting", registered |-> {}]
           /\ ws' = Len(sockets) + 1
           /\ isConnecting'
  <2>0. Len(sockets) \in Nat /\ DOMAIN sockets = 1..Len(sockets) /\ sockets' # <<>>
    BY <1>0, <1>2, Basics, EmptySeq
  <2>1. \A t \in DOMAIN sockets' : t \in DOMAIN sockets \/ t = Len(sockets) + 1
    BY <1>2, <2>0
  <2>2. isConnecting' \in BOOLEAN
    BY <1>2 DEF Connect
  <2>3. ConnectingIsClean' /\ ClosingIsDestroyed'
    BY <1>2, <2>0, <2>1 DEF SUInv, ConnectingIsClean, ClosingIsDestroyed
  <2>4. SubscriptionsRegistered' /\ ConnectingFlagHonest'
    BY <1>2, <2>0 DEF SubscriptionsRegistered, IsConnected, ConnectingFlagHonest
  <2> QED BY <1>2, <2>0, <2>2, <2>3, <2>4
<1> QED BY <1>0, <1>1, <1>2, ConnectAdds

LEMMA ToldKeepsType ==
    ASSUME RMTypeOK, MarkConnected \/ Reset \/ UNCHANGED rmVars
    PROVE  RMTypeOK'
<1>1. CASE MarkConnected
  BY <1>1 DEF MarkConnected, RMTypeOK
<1>2. CASE Reset
  BY <1>2 DEF Reset, RMTypeOK
<1>3. CASE UNCHANGED rmVars
  BY <1>3 DEF rmVars, RMTypeOK
<1> QED BY <1>1, <1>2, <1>3

LEMMA HandleReconnectSound ==
    ASSUME SUTypeOK, HandleReconnect
    PROVE  /\ reconnectTimer' \in BOOLEAN /\ strayTimers' \in Nat
           /\ isDestroyed \/ reconnectAttempts >= MaxReconnects \/ reconnectTimer'
<1>0. reconnectTimer \in BOOLEAN /\ strayTimers \in Nat
  BY DEF SUTypeOK, WSTypeOK
<1>1. CASE isDestroyed \/ reconnectAttempts >= MaxReconnects
  BY <1>0, <1>1 DEF HandleReconnect
<1>2. CASE ~(isDestroyed \/ reconnectAttempts >= MaxReconnects)
  <2>1. reconnectTimer' = TRUE /\ strayTimers' = strayTimers + (IF reconnectTimer THEN 1 ELSE 0)
    BY <1>2 DEF HandleReconnect
  <2>2. strayTimers' \in Nat
    BY <1>0, <2>1
  <2> QED BY <2>1, <2>2
<1> QED BY <1>1, <1>2

-----------------------------------------------------------------------------
(* The steps.                                                               *)

\* Calls of connect that are not made by the manager's own timer.
LEMMA ConnectCallKeeps ==
    ASSUME SUInv, ConnectCall, managed' = managed, RMTypeOK', connects' \in 0..MaxConnects,
           rmState' = rmState
    PROVE  SUInv'
<1>1. /\ sockets' \in Seq(Socket) /\ ws' \in 0..Len(sockets') /\ isConnecting' \in BOOLEAN
      /\ ConnectingIsClean' /\ ClosingIsDestroyed' /\ SubscriptionsRegistered'
      /\ ConnectingFlagHonest'
      /\ isConnecting' \/ isDestroyed
      /\ \A t \in DOMAIN sockets : t \in DOMAIN sockets' /\ sockets'[t] = sockets[t]
  BY ConnectSound DEF ConnectCall
<1>2. SUTypeOK'
  BY <1>1 DEF ConnectCall, SUInv, SUTypeOK, WSTypeOK
<1>3. UnmanagedIsIdle' /\ ConnectedIsTrue'
  BY <1>1 DEF SUInv, UnmanagedIsIdle, ConnectedIsTrue
<1>4. ~isDestroyed => /\ sockets' # <<>> /\ Len(sockets') \in DOMAIN sockets'
                      /\ sockets'[Len(sockets')].state = "connecting"
  <2>1. Len(sockets') \in Nat /\ DOMAIN sockets' = 1..Len(sockets')
        /\ (sockets' = <<>> <=> Len(sockets') = 0)
    BY <1>1, LenProperties, EmptySeq
  <2> QED BY <1>1, <2>1 DEF ConnectingFlagHonest, ClosingIsDestroyed, ConnectCall
<1>5. ReconnectStillPossible' /\ ReconnectingIsLive'
  BY <1>4 DEF ConnectCall, ReconnectStillPossible, ReconnectingIsLive, Live
<1> QED BY <1>1, <1>2, <1>3, <1>5 DEF SUInv, ReconnectsSurvive

LEMMA ManagerReconnectsKeeps == SUInv /\ ManagerReconnects => SUInv'
<1> SUFFICES ASSUME SUInv, ManagerReconnects PROVE SUInv'
  OBVIOUS
<1>0. /\ Connect /\ UNCHANGED <<isDestroyed, heartbeat, subscriptions, rmVars, managed, connects>>
      /\ reconnectAttempts' = reconnectAttempts + 1
      /\ reconnectTimer' \in BOOLEAN /\ strayTimers' \in Nat
  <2>1. reconnectTimer \in BOOLEAN /\ strayTimers \in Nat
    BY DEF SUInv, SUTypeOK, WSTypeOK
  <2>2. \/ reconnectTimer' = FALSE /\ strayTimers' = strayTimers
        \/ strayTimers > 0 /\ strayTimers' = strayTimers - 1 /\ reconnectTimer' = reconnectTimer
    BY DEF ManagerReconnects, ReconnectTimerFires
  <2>3. strayTimers' \in Nat
    BY <2>1, <2>2
  <2>4. reconnectTimer' \in BOOLEAN
    BY <2>1, <2>2
  <2> QED BY <2>3, <2>4 DEF ManagerReconnects, ReconnectTimerFires
<1>1. /\ sockets' \in Seq(Socket) /\ ws' \in 0..Len(sockets') /\ isConnecting' \in BOOLEAN
      /\ ConnectingIsClean' /\ ClosingIsDestroyed' /\ SubscriptionsRegistered'
      /\ ConnectingFlagHonest'
      /\ isConnecting' \/ isDestroyed
      /\ \A t \in DOMAIN sockets : t \in DOMAIN sockets' /\ sockets'[t] = sockets[t]
  BY <1>0, ConnectSound
<1>2. SUTypeOK'
  BY <1>0, <1>1 DEF SUInv, SUTypeOK, WSTypeOK, RMTypeOK, rmVars
<1>3. UnmanagedIsIdle' /\ ConnectedIsTrue'
  BY <1>0, <1>1 DEF SUInv, UnmanagedIsIdle, ConnectedIsTrue, rmVars
<1>4. ~isDestroyed => /\ sockets' # <<>> /\ Len(sockets') \in DOMAIN sockets'
                      /\ sockets'[Len(sockets')].state = "connecting"
  <2>1. Len(sockets') \in Nat /\ DOMAIN sockets' = 1..Len(sockets')
        /\ (sockets' = <<>> <=> Len(sockets') = 0)
    BY <1>1, LenProperties, EmptySeq
  <2> QED BY <1>0, <1>1, <2>1 DEF ConnectingFlagHonest, ClosingIsDestroyed
<1>5. ReconnectStillPossible' /\ ReconnectingIsLive'
  BY <1>0, <1>4 DEF ReconnectStillPossible, ReconnectingIsLive, Live
<1> QED BY <1>1, <1>2, <1>3, <1>5 DEF SUInv, ReconnectsSurvive

LEMMA OpenedKeeps ==
    ASSUME SUInv, NEW s \in DOMAIN sockets, Opened(s)
    PROVE  SUInv'
<1>0. /\ OnOpen(s) /\ UNCHANGED <<ws, isDestroyed, reconnectTimer, strayTimers, subscriptions,
                                  managed, connects>>
      /\ ~isConnecting' /\ isConnecting' \in BOOLEAN /\ reconnectAttempts' = 0 /\ heartbeat' \in BOOLEAN
      /\ IF managed THEN MarkConnected ELSE UNCHANGED rmVars
      /\ managed \in BOOLEAN
  BY DEF Opened, OnOpen, SUInv, SUTypeOK
<1>1. Shifts(s, "open")
  BY <1>0, OpenShifts
<1>2. /\ sockets' \in Seq(Socket) /\ ws' \in 0..Len(sockets')
      /\ ConnectingIsClean' /\ SubscriptionsRegistered'
  BY <1>0, <1>1, ShiftsSound
<1>3. s \in DOMAIN sockets' /\ sockets'[s].state = "open"
  BY <1>1 DEF Shifts
<1>4. SUTypeOK'
  <2>1. WSTypeOK'
    BY <1>0, <1>2 DEF SUInv, SUTypeOK, WSTypeOK
  <2>2. RMTypeOK'
    BY <1>0, ToldKeepsType DEF SUInv, SUTypeOK
  <2> QED BY <1>0, <2>1, <2>2 DEF SUInv, SUTypeOK
<1>5. ClosingIsDestroyed'
  BY <1>0, <1>1 DEF Shifts, SUInv, ClosingIsDestroyed
<1>6. UnmanagedIsIdle' /\ ConnectedIsTrue'
  BY <1>0, <1>3 DEF SUInv, UnmanagedIsIdle, ConnectedIsTrue, rmVars
<1>7. ReconnectStillPossible' /\ ConnectingFlagHonest' /\ ReconnectingIsLive'
  BY <1>0, <1>3 DEF SUInv, UnmanagedIsIdle, ReconnectStillPossible, ConnectingFlagHonest,
                    ReconnectingIsLive, Live, MarkConnected, rmVars
<1> QED BY <1>2, <1>4, <1>5, <1>6, <1>7 DEF SUInv, ReconnectsSurvive

LEMMA ClosedKeeps ==
    ASSUME SUInv, NEW s \in DOMAIN sockets, Closed(s)
    PROVE  SUInv'
<1>0. /\ sockets' = [sockets EXCEPT ![s].state = "closed"]
      /\ ~isConnecting' /\ isConnecting' \in BOOLEAN /\ heartbeat' \in BOOLEAN /\ HandleReconnect
      /\ UNCHANGED <<ws, isDestroyed, reconnectAttempts, subscriptions, managed, connects>>
      /\ IF managed THEN ReconnectLater ELSE UNCHANGED rmVars
      /\ managed \in BOOLEAN /\ SUTypeOK
  BY DEF Closed, OnClose, SUInv, SUTypeOK
<1>1. Shifts(s, "closed")
  BY <1>0, CloseShifts
<1>2. /\ sockets' \in Seq(Socket) /\ ws' \in 0..Len(sockets')
      /\ ConnectingIsClean' /\ SubscriptionsRegistered'
  BY <1>0, <1>1, ShiftsSound
<1>3. /\ reconnectTimer' \in BOOLEAN /\ strayTimers' \in Nat
      /\ isDestroyed \/ reconnectAttempts >= MaxReconnects \/ reconnectTimer'
  BY <1>0, HandleReconnectSound
<1>4. SUTypeOK'
  BY <1>0, <1>2, <1>3 DEF SUTypeOK, WSTypeOK, RMTypeOK, rmVars, ReconnectLater
<1>5. ClosingIsDestroyed'
  BY <1>0, <1>1 DEF Shifts, SUInv, ClosingIsDestroyed
<1>6. rmState' # "connected" /\ (rmState' = "reconnecting" => rmTimer')
  BY <1>0 DEF ReconnectLater, rmVars, SUInv, UnmanagedIsIdle
<1>7. UnmanagedIsIdle' /\ ConnectedIsTrue'
  BY <1>0, <1>6 DEF SUInv, UnmanagedIsIdle, ConnectedIsTrue, rmVars
<1>8. ReconnectStillPossible' /\ ConnectingFlagHonest' /\ ReconnectingIsLive'
  BY <1>0, <1>3, <1>6 DEF ReconnectStillPossible, ConnectingFlagHonest, ReconnectingIsLive
<1> QED BY <1>2, <1>4, <1>5, <1>7, <1>8 DEF SUInv, ReconnectsSurvive

LEMMA StopServiceKeeps == SUInv /\ StopService => SUInv'
<1> SUFFICES ASSUME SUInv, StopService PROVE SUInv'
  OBVIOUS
<1>0. /\ SUTypeOK /\ isDestroyed' = TRUE /\ ws' = 0 /\ heartbeat' = FALSE /\ reconnectTimer' = FALSE
      /\ sockets' = IF ws # 0 /\ Live(ws) THEN [sockets EXCEPT ![ws].state = "closing"] ELSE sockets
      /\ UNCHANGED <<isConnecting, reconnectAttempts, strayTimers, subscriptions, managed, connects>>
      /\ IF managed THEN Reset ELSE UNCHANGED rmVars
      /\ managed \in BOOLEAN
  BY DEF StopService, Disconnect, SUInv, SUTypeOK
<1>1. /\ sockets' \in Seq(Socket) /\ Len(sockets') = Len(sockets) /\ ConnectingIsClean'
      /\ SubscriptionsRegistered' /\ DOMAIN sockets' = DOMAIN sockets
      /\ \A t \in DOMAIN sockets : sockets'[t].state \in {sockets[t].state, "closing"}
  <2>1. CASE ws # 0 /\ Live(ws)
    <3>1. ws \in DOMAIN sockets /\ sockets' = [sockets EXCEPT ![ws].state = "closing"]
      BY <1>0, <2>1, Basics
    <3>2. Shifts(ws, "closing")
      BY <1>0, <3>1, CloseShifts
    <3>3. ConnectingIsClean' /\ SubscriptionsRegistered'
      BY <1>0, <3>1, <3>2, ShiftsSound
    <3> QED BY <3>2, <3>3 DEF Shifts
  <2>2. CASE ~(ws # 0 /\ Live(ws))
    BY <1>0, <2>2, Basics DEF SUInv, ConnectingIsClean, SubscriptionsRegistered, IsConnected
  <2> QED BY <2>1, <2>2
<1>2. SUTypeOK'
  <2>1. 0 \in 0..Len(sockets')
    BY <1>0, <1>1, Basics
  <2>2. WSTypeOK'
    BY <1>0, <1>1, <2>1 DEF SUTypeOK, WSTypeOK
  <2>3. RMTypeOK'
    BY <1>0, ToldKeepsType DEF SUTypeOK
  <2> QED BY <1>0, <2>2, <2>3 DEF SUTypeOK
<1>3. rmState' = "disconnected"
  BY <1>0 DEF Reset, rmVars, SUInv, UnmanagedIsIdle
<1>4. ConnectingFlagHonest'
  <2> SUFFICES ASSUME isConnecting
               PROVE  /\ sockets' # <<>>
                      /\ sockets'[Len(sockets')].state \in {"connecting", "closing"}
    BY <1>0 DEF ConnectingFlagHonest
  <2>1. sockets # <<>> /\ sockets[Len(sockets)].state \in {"connecting", "closing"}
    BY DEF SUInv, ReconnectsSurvive, ConnectingFlagHonest
  <2>2. Len(sockets) \in DOMAIN sockets /\ Len(sockets) # 0
    BY <1>0, <2>1, Basics
  <2>3. sockets' # <<>>
    BY <1>1, <2>2, EmptySeq
  <2> QED BY <1>1, <2>1, <2>2, <2>3
<1> QED BY <1>0, <1>1, <1>2, <1>3, <1>4
        DEF SUInv, ReconnectsSurvive, ClosingIsDestroyed, UnmanagedIsIdle, ReconnectStillPossible,
            ReconnectingIsLive, ConnectedIsTrue

LEMMA SubscribingKeeps == SUInv /\ Subscribing => SUInv'
<1> SUFFICES ASSUME SUInv, Subscribing PROVE SUInv'
  OBVIOUS
<1>0. SUTypeOK /\ UNCHANGED <<rmVars, managed, connects>>
  BY DEF SUInv, Subscribing
<1>1. PICK id \in Subscriptions : Subscribe(id) \/ Unsubscribe(id)
  BY DEF Subscribing
<1>2. UNCHANGED <<ws, isConnecting, isDestroyed, reconnectAttempts, reconnectTimer, strayTimers,
                  heartbeat>>
  BY <1>1 DEF Subscribe, Unsubscribe
<1>3. PICK X \in SUBSET Subscriptions :
        /\ subscriptions' = X
        /\ sockets' = IF IsConnected THEN [sockets EXCEPT ![ws].registered = X] ELSE sockets
  <2>1. IsConnected => sockets[ws].registered = subscriptions
    BY DEF SUInv, SubscriptionsRegistered
  <2>2. CASE Subscribe(id)
    <3>1. /\ subscriptions \cup {id} \in SUBSET Subscriptions
          /\ subscriptions' = subscriptions \cup {id}
      BY <1>0, <2>2, Basics DEF Subscribe
    <3>2. CASE IsConnected
      BY <2>1, <2>2, <3>1, <3>2 DEF Subscribe
    <3>3. CASE ~IsConnected
      BY <2>2, <3>1, <3>3 DEF Subscribe
    <3> QED BY <3>2, <3>3
  <2>3. CASE Unsubscribe(id)
    <3>1. /\ subscriptions \ {id} \in SUBSET Subscriptions
          /\ subscriptions' = subscriptions \ {id}
      BY <1>0, <2>3, Basics DEF Unsubscribe
    <3>2. CASE IsConnected
      BY <2>1, <2>3, <3>1, <3>2 DEF Unsubscribe
    <3>3. CASE ~IsConnected
      BY <2>3, <3>1, <3>3 DEF Unsubscribe
    <3> QED BY <3>2, <3>3
  <2> QED BY <1>1, <2>2, <2>3
<1>4. /\ sockets' \in Seq(Socket) /\ Len(sockets') = Len(sockets)
      /\ DOMAIN sockets' = DOMAIN sockets
      /\ \A t \in DOMAIN sockets :
           /\ sockets'[t].state = sockets[t].state
           /\ sockets[t].state # "open" => sockets'[t].registered = sockets[t].registered
      /\ (ws' # 0 /\ sockets'[ws'].state = "open") => sockets'[ws'].registered = X
  BY <1>2, <1>3, SubscribingShifts
<1>5. SUTypeOK'
  <2>1. WSTypeOK'
    BY <1>0, <1>2, <1>3, <1>4 DEF SUTypeOK, WSTypeOK
  <2>2. RMTypeOK'
    BY <1>0, ToldKeepsType DEF SUTypeOK
  <2> QED BY <1>0, <2>1, <2>2 DEF SUTypeOK
<1>6. ConnectingIsClean' /\ ClosingIsDestroyed'
  BY <1>2, <1>4 DEF SUInv, ConnectingIsClean, ClosingIsDestroyed
<1>7. SubscriptionsRegistered'
  BY <1>3, <1>4 DEF SubscriptionsRegistered, IsConnected
<1>8. UnmanagedIsIdle' /\ ConnectedIsTrue'
  BY <1>0, <1>4 DEF SUInv, UnmanagedIsIdle, ConnectedIsTrue, rmVars
<1>9. ReconnectsSurvive'
  <2>1. sockets' = <<>> <=> sockets = <<>>
    BY <1>0, <1>4, Basics, EmptySeq
  <2>2. sockets # <<>> => Len(sockets) \in DOMAIN sockets
    BY <1>0, Basics
  <2>3. ReconnectStillPossible' /\ ConnectingFlagHonest'
    BY <1>2, <1>4, <2>1, <2>2
    DEF SUInv, ReconnectsSurvive, ReconnectStillPossible, ConnectingFlagHonest, Live
  <2>4. ReconnectingIsLive'
    BY <1>0, <1>2, <1>4 DEF SUInv, ReconnectsSurvive, ReconnectingIsLive, rmVars
  <2> QED BY <2>3, <2>4 DEF ReconnectsSurvive
<1> QED BY <1>5, <1>6, <1>7, <1>8, <1>9 DEF SUInv

LEMMA InitSUInv == SUInit => SUInv
<1> SUFFICES ASSUME SUInit PROVE SUInv
  OBVIOUS
<1>1. sockets = <<>> /\ sockets \in Seq(Socket) /\ Len(sockets) = 0 /\ DOMAIN sockets = {}
  BY EmptySeq, LenProperties DEF SUInit, WSInit
<1>2. SUTypeOK
  <2>1. WSTypeOK
    <3>1. isConnecting \in BOOLEAN /\ isDestroyed \in BOOLEAN /\ reconnectTimer \in BOOLEAN
          /\ heartbeat \in BOOLEAN /\ subscriptions \subseteq Subscriptions
      BY DEF SUInit, WSInit
    <3>2. ws \in 0..Len(sockets) /\ reconnectAttempts \in Nat /\ strayTimers \in Nat
      BY <1>1 DEF SUInit, WSInit
    <3> QED BY <1>1, <3>1, <3>2 DEF WSTypeOK
  <2>2. RMTypeOK
    BY DEF SUInit, RMInit, RMTypeOK
  <2> QED BY <2>1, <2>2, MaxConnectsAssumption DEF SUInit, SUTypeOK
<1> QED BY <1>1, <1>2
        DEF SUInit, WSInit, RMInit, SUInv, ConnectingIsClean, ClosingIsDestroyed, UnmanagedIsIdle,
            SubscriptionsRegistered, IsConnected, ReconnectsSurvive, ReconnectStillPossible,
            ConnectingFlagHonest, ReconnectingIsLive, ConnectedIsTrue

LEMMA NextSUInv == SUInv /\ [SUNext]_suVars => SUInv'
<1> SUFFICES ASSUME SUInv, [SUNext]_suVars PROVE SUInv'
  OBVIOUS
<1>1. CASE StartService
  <2>1. connects' \in 0..MaxConnects
    BY <1>1, MaxConnectsAssumption DEF StartService, SUInv, SUTypeOK
  <2>2. RMTypeOK' /\ rmState' = rmState
    BY <1>1, ToldKeepsType DEF StartService, rmVars, SUInv, SUTypeOK
  <2> QED BY <1>1, <2>1, <2>2, ConnectCallKeeps DEF StartService
<1>2. CASE ServiceReconnects
  <2>1. RMTypeOK' /\ rmState' = rmState
    <3>1. rmAttempts' \in Nat /\ rmTimer' \in BOOLEAN /\ rmState' = rmState /\ ~rmTimer'
      <4>1. rmAttempts' = rmAttempts + 1 /\ rmTimer' = FALSE /\ rmState' = rmState
        BY <1>2 DEF ServiceReconnects, AttemptReconnect
      <4>2. rmAttempts \in Nat
        BY DEF SUInv, SUTypeOK, RMTypeOK
      <4>3. rmAttempts' \in Nat
        BY <4>1, <4>2
      <4> QED BY <4>1, <4>3
    <3> QED BY <3>1 DEF SUInv, SUTypeOK, RMTypeOK
  <2> QED BY <1>2, <2>1, ConnectCallKeeps DEF ServiceReconnects, SUInv, SUTypeOK
<1>3. CASE UNCHANGED suVars
  BY <1>3 DEF suVars, wsVars, rmVars, SUInv, SUTypeOK, WSTypeOK, RMTypeOK, ConnectingIsClean,
              ClosingIsDestroyed, UnmanagedIsIdle, SubscriptionsRegistered, IsConnected,
              ReconnectsSurvive, ReconnectStillPossible, ConnectingFlagHonest, ReconnectingIsLive,
              ConnectedIsTrue, Live
<1> QED BY <1>1, <1>2, <1>3, StopServiceKeeps, OpenedKeeps, ClosedKeeps, ManagerReconnectsKeeps,
           SubscribingKeeps DEF SUNext

LEMMA SpecSUInv == SUSpec => []SUInv
BY InitSUInv, NextSUInv, PTL DEF SUSpec

-----------------------------------------------------------------------------

\* Every field of the connection and of its owner keeps its type.
THEOREM ConnectionTypeCorrect == SUSpec => []SUTypeOK
<1>1. SUInv => SUTypeOK
  BY DEF SUInv
<1> QED BY <1>1, SpecSUInv, PTL

\* While the connection is open the server knows exactly the local subscriptions.
THEOREM SubscriptionsStayRegistered == SUSpec => []SubscriptionsRegistered
<1>1. SUInv => SubscriptionsRegistered
  BY DEF SUInv
<1> QED BY <1>1, SpecSUInv, PTL

\* A lost connection can come back: a timer or a socket will go on, and no flag of
\* an old attempt blocks the next one.
THEOREM ReconnectsDoSurvive == SUSpec => []ReconnectsSurvive
<1>1. SUInv => ReconnectsSurvive
  BY DEF SUInv
<1> QED BY <1>1, SpecSUInv, PTL

\* Listeners told "connected" are told so while a socket is open or on its way out.
THEOREM ConnectedIsHonest == SUSpec => []ConnectedIsTrue
<1>1. SUInv => ConnectedIsTrue
  BY DEF SUInv
<1> QED BY <1>1, SpecSUInv, PTL

\* After disconnect no timer, caller or late callback creates a socket.
THEOREM NoLateSocket == SUSpec => NoSocketAfterDisconnect
<1>1. ASSUME SUInv, [SUNext]_suVars, isDestroyed PROVE Len(sockets') = Len(sockets)
  <2>1. ASSUME Connect PROVE sockets' = sockets
    BY <1>1, <2>1 DEF Connect
  <2>2. CASE StartService \/ ManagerReconnects \/ ServiceReconnects \/ StopService \/ UNCHANGED suVars
    BY <1>1, <2>1, <2>2 DEF StartService, ManagerReconnects, ServiceReconnects, StopService,
                            ConnectCall, ReconnectTimerFires, suVars, wsVars
  <2>3. ASSUME NEW s \in DOMAIN sockets, Opened(s) PROVE Len(sockets') = Len(sockets)
    BY <1>1, <2>3, OpenShifts DEF Opened, Shifts
  <2>4. ASSUME NEW s \in DOMAIN sockets, Closed(s) PROVE Len(sockets') = Len(sockets)
    BY <1>1, <2>4, CloseShifts DEF Closed, OnClose, Shifts
  <2>5. CASE Subscribing
    <3>1. \A X : X \subseteq Subscriptions /\ IsConnected =>
            Len([sockets EXCEPT ![ws].registered = X]) = Len(sockets)
      BY <1>1, Basics, RegisteredAssigned DEF SUInv, IsConnected
    <3>2. subscriptions \subseteq Subscriptions /\ IsConnected => sockets[ws].registered = subscriptions
      BY <1>1, Basics DEF SUInv, SubscriptionsRegistered
    <3> QED BY <2>5, <3>1, <3>2 DEF Subscribing, Subscribe, Unsubscribe
  <2> QED BY <1>1, <2>2, <2>3, <2>4, <2>5 DEF SUNext
<1>2. SUInv /\ [SUNext]_suVars => [isDestroyed => Len(sockets') = Len(sockets)]_wsVars
  BY <1>1
<1> QED BY <1>2, SpecSUInv, PTL DEF SUSpec, NoSocketAfterDisconnect

-----------------------------------------------------------------------------
(* A manager that connects once and reconnects by its own timer.            *)

Alone == ~managed /\ connects <= 1

\* Only its newest socket is live, it sends on that one, and its timer is pending
\* only when no socket is live and an attempt is left.
OnlyNewestLives ==
    /\ connects = 0 => sockets = <<>> /\ ~reconnectTimer
    /\ \A s \in DOMAIN sockets : Live(s) => s = Len(sockets)
    /\ reconnectTimer => /\ \A s \in DOMAIN sockets : ~Live(s)
                         /\ reconnectAttempts < MaxReconnects
    /\ ~isDestroyed => ws = Len(sockets)
    /\ strayTimers = 0
    /\ reconnectAttempts <= MaxReconnects
    /\ heartbeat <=> \E s \in DOMAIN sockets : sockets[s].state = "open"
    /\ ~rmTimer

AloneInv == Alone => OnlyNewestLives

LEMMA NextAloneInv == SUInv /\ AloneInv /\ [SUNext]_suVars => AloneInv'
<1> SUFFICES ASSUME SUInv, AloneInv, [SUNext]_suVars, Alone' PROVE OnlyNewestLives'
  BY DEF AloneInv
<1>0. /\ SUTypeOK /\ MaxReconnects \in Nat /\ connects \in Nat /\ managed' = managed /\ ~managed
      /\ reconnectAttempts \in Nat /\ heartbeat \in BOOLEAN
  <2>1. managed' = managed
    BY DEF SUNext, StartService, StopService, Opened, Closed, ManagerReconnects, ServiceReconnects,
           Subscribing, suVars
  <2> QED BY <2>1, ReconnectsAssumption DEF SUInv, SUTypeOK, WSTypeOK, Alone
<1>1. Alone /\ OnlyNewestLives
  <2>1. connects' = connects \/ connects' = connects + 1
    BY DEF SUNext, StartService, StopService, Opened, Closed, ManagerReconnects, ServiceReconnects,
           Subscribing, suVars
  <2>2. connects <= 1
    BY <1>0, <2>1 DEF Alone
  <2> QED BY <1>0, <2>2 DEF Alone, AloneInv
<1>2. /\ sockets \in Seq(Socket) /\ Len(sockets) \in Nat /\ DOMAIN sockets = 1..Len(sockets)
      /\ sockets = <<>> <=> Len(sockets) = 0
  BY <1>0, Basics
\* A socket is created when none is live.
<1>3. ASSUME Connect, \A s \in DOMAIN sockets : ~Live(s), UNCHANGED <<isDestroyed, heartbeat, rmVars>>,
             ~reconnectTimer', strayTimers' = 0, reconnectAttempts' \in 0..MaxReconnects,
             connects' # 0
      PROVE  OnlyNewestLives'
  <2>1. ~heartbeat
    BY <1>1, <1>3 DEF OnlyNewestLives, Live
  <2>2. CASE UNCHANGED <<sockets, ws>>
    BY <1>1, <1>3, <2>2 DEF OnlyNewestLives, Live, rmVars
  <2>3. CASE /\ sockets' \in Seq(Socket) /\ Len(sockets') = Len(sockets) + 1
             /\ DOMAIN sockets' = 1..(Len(sockets) + 1)
             /\ \A s \in DOMAIN sockets : sockets'[s] = sockets[s]
             /\ sockets'[Len(sockets) + 1] = [state |-> "connecting", registered |-> {}]
             /\ ws' = Len(sockets) + 1
    <3>1. \A s \in DOMAIN sockets' : s \in DOMAIN sockets \/ s = Len(sockets')
      BY <1>2, <2>3
    <3>2. \A s \in DOMAIN sockets' : (sockets'[s].state # "closed" => s = Len(sockets'))
                                     /\ sockets'[s].state # "open"
      BY <1>3, <2>3, <3>1 DEF Live
    <3> QED BY <1>1, <1>3, <2>1, <2>3, <3>2 DEF OnlyNewestLives, Live, rmVars
  <2> QED BY <1>0, <1>3, <2>2, <2>3, ConnectAdds
<1>4. CASE StartService
  <2>1. connects = 0 /\ connects' = 1
    BY <1>0, <1>4 DEF StartService, Alone
  <2>2. \A s \in DOMAIN sockets : ~Live(s)
    BY <1>1, <1>2, <2>1 DEF OnlyNewestLives
  <2>3. reconnectAttempts' \in 0..MaxReconnects
    BY <1>0, <1>1, <1>4 DEF OnlyNewestLives, StartService, ConnectCall
  <2> QED BY <1>1, <1>3, <1>4, <2>1, <2>2, <2>3 DEF StartService, ConnectCall, OnlyNewestLives
<1>5. CASE ManagerReconnects
  <2>1. reconnectTimer /\ ~reconnectTimer' /\ strayTimers' = 0
    BY <1>1, <1>5 DEF ManagerReconnects, ReconnectTimerFires, OnlyNewestLives
  <2>2. reconnectAttempts' \in 0..MaxReconnects
    BY <1>0, <1>1, <1>5, <2>1 DEF ManagerReconnects, ReconnectTimerFires, OnlyNewestLives
  <2>3. connects' # 0
    BY <1>1, <1>5, <2>1 DEF ManagerReconnects, OnlyNewestLives
  <2> QED BY <1>1, <1>3, <1>5, <2>1, <2>2, <2>3
          DEF ManagerReconnects, ReconnectTimerFires, OnlyNewestLives
<1>6. CASE ServiceReconnects
  BY <1>1, <1>6 DEF ServiceReconnects, AttemptReconnect, OnlyNewestLives
<1>7. ASSUME NEW s \in DOMAIN sockets, Opened(s) PROVE OnlyNewestLives'
  <2>1. Shifts(s, "open") /\ sockets[s].state = "connecting"
    BY <1>7, OpenShifts DEF Opened, OnOpen
  <2>2. Live(s) /\ s = Len(sockets) /\ ~reconnectTimer
    BY <1>1, <2>1 DEF OnlyNewestLives, Live
  <2>3. s \in DOMAIN sockets' /\ sockets'[s].state = "open"
    BY <2>1 DEF Shifts
  <2>4. connects # 0
    BY <1>1, <1>2 DEF OnlyNewestLives
  <2>5. \A t \in DOMAIN sockets' : sockets'[t].state # "closed" => t = Len(sockets')
    BY <1>1, <2>1, <2>2 DEF Shifts, OnlyNewestLives, Live
  <2>6. /\ UNCHANGED <<ws, isDestroyed, reconnectTimer, strayTimers, connects, rmTimer>>
        /\ reconnectAttempts' = 0 /\ heartbeat' = TRUE /\ Len(sockets') = Len(sockets)
    BY <1>0, <1>7, <2>1 DEF Opened, OnOpen, rmVars, Shifts
  <2>7. reconnectAttempts' <= MaxReconnects
    BY <1>0, <2>6
  <2> QED BY <1>1, <2>2, <2>3, <2>4, <2>5, <2>6, <2>7 DEF OnlyNewestLives, Live
<1>8. ASSUME NEW s \in DOMAIN sockets, Closed(s) PROVE OnlyNewestLives'
  <2>1. Shifts(s, "closed") /\ Live(s)
    BY <1>8, CloseShifts DEF Closed, OnClose
  <2>2. s = Len(sockets) /\ ~reconnectTimer
    BY <1>1, <2>1 DEF OnlyNewestLives
  <2>3. connects # 0
    BY <1>1, <1>2 DEF OnlyNewestLives
  <2>4. \A t \in DOMAIN sockets' : sockets'[t].state = "closed"
    BY <1>1, <2>1, <2>2 DEF Shifts, OnlyNewestLives, Live
  <2>5. /\ UNCHANGED <<ws, isDestroyed, reconnectAttempts, connects, rmTimer>>
        /\ heartbeat' = FALSE /\ Len(sockets') = Len(sockets) /\ HandleReconnect
    BY <1>0, <1>8, <2>1 DEF Closed, OnClose, rmVars, Shifts
  <2>6. strayTimers' = 0
    BY <1>1, <2>2, <2>5 DEF HandleReconnect, OnlyNewestLives
  <2>7. reconnectTimer' => reconnectAttempts < MaxReconnects
    <3>1. CASE isDestroyed \/ reconnectAttempts >= MaxReconnects
      <4>1. reconnectTimer' = reconnectTimer
        BY <2>5, <3>1 DEF HandleReconnect
      <4> QED BY <2>2, <4>1, Zenon
    <3>2. CASE ~(isDestroyed \/ reconnectAttempts >= MaxReconnects)
      <4>1. reconnectAttempts < MaxReconnects
        BY <1>0, <3>2
      <4> QED BY <4>1
    <3> QED BY <3>1, <3>2
  <2> QED BY <1>1, <2>3, <2>4, <2>5, <2>6, <2>7 DEF OnlyNewestLives, Live
<1>9. CASE StopService
  <2>1. /\ ~isDestroyed /\ isDestroyed' = TRUE /\ heartbeat' = FALSE /\ reconnectTimer' = FALSE
        /\ sockets' = IF ws # 0 /\ Live(ws) THEN [sockets EXCEPT ![ws].state = "closing"] ELSE sockets
        /\ ws' = 0
        /\ UNCHANGED <<reconnectAttempts, strayTimers, subscriptions, connects, rmTimer>>
    BY <1>0, <1>9 DEF StopService, Disconnect, rmVars
  <2>2. ws = Len(sockets)
    BY <1>1, <2>1 DEF OnlyNewestLives
  <2>3. /\ DOMAIN sockets' = DOMAIN sockets /\ Len(sockets') = Len(sockets)
        /\ \A t \in DOMAIN sockets : /\ sockets'[t].state # "closed" => Live(t)
                                      /\ sockets'[t].state # "open"
    <3>1. CASE ws # 0 /\ Live(ws)
      <4>1. ws \in DOMAIN sockets /\ sockets' = [sockets EXCEPT ![ws].state = "closing"]
        BY <1>0, <2>1, <3>1, Basics
      <4>2. Shifts(ws, "closing")
        BY <2>1, <4>1, CloseShifts
      <4> QED BY <1>1, <2>2, <3>1, <4>1, <4>2 DEF Shifts, OnlyNewestLives, Live
    <3>2. CASE ~(ws # 0 /\ Live(ws))
      BY <1>1, <1>2, <2>1, <2>2, <3>2 DEF OnlyNewestLives, Live
    <3> QED BY <3>1, <3>2
  <2>4. sockets = <<>> => sockets' = <<>>
    BY <1>2, <2>1, <2>2
  <2> QED BY <1>1, <2>1, <2>3, <2>4 DEF OnlyNewestLives, Live
<1>10. CASE Subscribing
  <2>1. /\ UNCHANGED <<ws, isDestroyed, reconnectAttempts, reconnectTimer, strayTimers, heartbeat,
                       rmTimer, connects>>
    BY <1>10 DEF Subscribing, Subscribe, Unsubscribe, rmVars
  <2>2. /\ Len(sockets') = Len(sockets) /\ DOMAIN sockets' = DOMAIN sockets
        /\ \A t \in DOMAIN sockets : sockets'[t].state = sockets[t].state
        /\ sockets = <<>> => sockets' = <<>>
    <3>1. ASSUME NEW X \in SUBSET Subscriptions, IsConnected,
                 sockets' = [sockets EXCEPT ![ws].registered = X]
          PROVE  <2>2
      <4>1. ws \in DOMAIN sockets
        BY <1>0, <3>1, Basics DEF IsConnected
      <4>2. /\ Len(sockets') = Len(sockets) /\ DOMAIN sockets' = DOMAIN sockets
            /\ \A t \in DOMAIN sockets :
                 sockets'[t] = IF t = ws THEN [sockets[t] EXCEPT !.registered = X] ELSE sockets[t]
        BY <1>2, <3>1, <4>1, RegisteredAssigned
      <4> QED BY <1>0, <1>2, <4>1, <4>2, Basics DEF Socket
    <3>2. IsConnected => sockets[ws].registered = subscriptions
      BY DEF SUInv, SubscriptionsRegistered
    <3>3. subscriptions \subseteq Subscriptions
      BY <1>0, Basics
    <3>4. CASE sockets' = sockets
      BY <3>4
    <3> QED BY <1>10, <3>1, <3>2, <3>3, <3>4 DEF Subscribing, Subscribe, Unsubscribe
  <2> QED BY <1>1, <2>1, <2>2 DEF OnlyNewestLives, Live
<1>11. CASE UNCHANGED suVars
  BY <1>1, <1>11 DEF suVars, wsVars, rmVars, OnlyNewestLives, Live
<1> QED BY <1>4, <1>5, <1>6, <1>7, <1>8, <1>9, <1>10, <1>11 DEF SUNext

\* A manager connected once by its owner keeps to one live socket and one timer,
\* counts no attempt beyond the limit and beats exactly while that socket is open.
THEOREM OneConnectionOnly == SUSpec => []OneConnection
<1>1. SUInit => AloneInv
  <2> SUFFICES ASSUME SUInit PROVE OnlyNewestLives
    BY DEF AloneInv
  <2>1. sockets = <<>> /\ Len(sockets) = 0 /\ DOMAIN sockets = {}
    BY EmptySeq, LenProperties DEF SUInit, WSInit
  <2> QED BY <2>1, ReconnectsAssumption DEF SUInit, WSInit, RMInit, OnlyNewestLives
<1>2. AloneInv => OneConnection
  <2> SUFFICES ASSUME Alone, OnlyNewestLives
               PROVE  Cardinality({s \in DOMAIN sockets : Live(s)}) <= 1
    BY DEF AloneInv, Alone, OnlyNewestLives, OneConnection
  <2>1. {s \in DOMAIN sockets : Live(s)} \subseteq {Len(sockets)}
    BY DEF OnlyNewestLives
  <2>2. IsFiniteSet({Len(sockets)}) /\ Cardinality({Len(sockets)}) = 1
    BY FS_Singleton
  <2> QED BY <2>1, <2>2, FS_Subset
<1> QED BY <1>1, <1>2, NextAloneInv, SpecSUInv, PTL DEF SUSpec
===============================================================================
