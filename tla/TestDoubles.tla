------------------------------ MODULE TestDoubles ------------------------------
(***************************************************************************)
(* What applications test against: recorded calls, and a server that is    *)
(* not there.                                                              *)
(***************************************************************************)
EXTENDS Naturals, Sequences, SequencesExt, FiniteSets, FiniteSetsExt

(***************************************************************************)
(* Recording contract calls, replaying them and judging the replay         *)
(* (src/replay/).  Recorded calls overlap; a replay goes through a session *)
(* one handler at a time.                                                  *)
(*                                                                         *)
(* An interaction is its id, in the order of the calls, and its outcome.   *)
(* Times, names, arguments and metadata are left out.                      *)
(***************************************************************************)
CONSTANTS
    ReplayResults, ReplayErrors,    \* what calls return, and messages of what they throw
    Alike,                          \* pairs of results that JSON writes alike
    MaxRecorded,                    \* bound: recorded calls
    MaxInteractions                 \* bound: interactions a recorder holds

ASSUME ReplayAssumption ==
    /\ ReplayResults \cap ReplayErrors = {} /\ Alike \subseteq ReplayResults \X ReplayResults
    /\ "running" \notin ReplayResults \cup ReplayErrors
    /\ MaxRecorded \in Nat /\ MaxInteractions \in Nat

VARIABLES
    recordings,     \* recorded calls begun: "running", or its outcome
    interactions,
    settledSince,   \* history: ids of calls in the order they settled since the last clear
    exported,       \* the session exported last: its interactions
    imported,       \* history: a session has been imported
    replay          \* [session, stopOnFailure, results, running]

irVars == <<recordings, interactions, settledSince, exported, imported, replay>>

NoHandler == "No handler registered"
Outcomes == ReplayResults \cup ReplayErrors
Interaction == [id : 1..MaxRecorded, outcome : Outcomes]
NoReplay == [session |-> <<>>, stopOnFailure |-> FALSE, results |-> <<>>, running |-> FALSE]

IRInit ==
    /\ recordings = <<>>
    /\ interactions = <<>>
    /\ settledSince = <<>>
    /\ exported = <<>>
    /\ imported = FALSE
    /\ replay = NoReplay

\* A replay reads a session of its own, so it is enough (bound) that the
\* recorder rests while there is one.
Recorder == replay = NoReplay /\ UNCHANGED replay

BeginRecord ==
    /\ Recorder /\ Len(recordings) < MaxRecorded
    /\ recordings' = Append(recordings, "running")
    /\ UNCHANGED <<interactions, settledSince, exported, imported>>

\* The call returns or throws, and is recorded, wherever others stand.
RecordSettled(id, outcome) ==
    /\ Recorder
    /\ id \in DOMAIN recordings /\ recordings[id] = "running"
    /\ recordings' = [recordings EXCEPT ![id] = outcome]
    /\ interactions' = Append(interactions, [id |-> id, outcome |-> outcome])
    /\ settledSince' = Append(settledSince, id)
    /\ UNCHANGED <<exported, imported>>

ClearInteractions ==
    /\ Recorder
    /\ interactions' = <<>> /\ settledSince' = <<>> /\ imported' = FALSE
    /\ UNCHANGED <<recordings, exported>>

ExportSession ==
    /\ Recorder
    /\ exported' = interactions
    /\ UNCHANGED <<recordings, interactions, settledSince, imported>>

\* importSession appends, also what the recorder holds already.
ImportSession ==
    /\ Recorder /\ exported # <<>> /\ Len(interactions) + Len(exported) <= MaxInteractions
    /\ interactions' = interactions \o exported
    /\ imported' = TRUE
    /\ UNCHANGED <<recordings, settledSince, exported>>

BeginReplay(stopOnFailure) ==
    /\ replay = NoReplay /\ exported # <<>>
    /\ replay' = [session |-> exported, stopOnFailure |-> stopOnFailure, results |-> <<>>, running |-> TRUE]
    /\ UNCHANGED <<recordings, interactions, settledSince, exported, imported>>

\* replayOne: the handler settles, or there is none.  The replay may stop there.
ReplayOne(outcome) ==
    /\ replay.running
    /\ LET results == Append(replay.results, [id |-> replay.session[Len(replay.results) + 1].id,
                                              outcome |-> outcome])
           stops   == replay.stopOnFailure /\ outcome \notin ReplayResults
       IN  replay' = [replay EXCEPT !.results = results,
                                    !.running = ~stops /\ Len(results) < Len(replay.session)]
    /\ UNCHANGED <<recordings, interactions, settledSince, exported, imported>>

IRSystem == \E outcome \in Outcomes \cup {NoHandler} : ReplayOne(outcome)
IRNext ==
    \/ IRSystem \/ BeginRecord \/ ClearInteractions \/ ExportSession \/ ImportSession
    \/ \E id \in 1..MaxRecorded, outcome \in Outcomes : RecordSettled(id, outcome)
    \/ \E stopOnFailure \in BOOLEAN : BeginReplay(stopOnFailure)
IROver == ~replay.running

-------------------------------------------------------------------------------
\* compareOne: errors by their messages, results by their JSON.
CompareOne(recorded, replayed) ==
    \/ recorded = replayed
    \/ <<recorded, replayed>> \in Alike
    \/ <<replayed, recorded>> \in Alike

\* validate: which interactions of the session pass.  The results are kept by
\* id, of which the last counts.
Validate(session, results) ==
    LET last(id) == Max({j \in DOMAIN results : results[j].id = id})
    IN  [i \in DOMAIN session |->
            /\ \E j \in DOMAIN results : results[j].id = session[i].id
            /\ CompareOne(session[i].outcome, results[last(session[i].id)].outcome)]

IRTypeOK ==
    /\ recordings \in Seq(Outcomes \cup {"running"}) /\ Len(recordings) <= MaxRecorded
    /\ interactions \in Seq(Interaction) /\ exported \in Seq(Interaction)
    /\ settledSince \in Seq(1..MaxRecorded) /\ imported \in BOOLEAN
    /\ replay \in [session : Seq(Interaction), stopOnFailure : BOOLEAN, running : BOOLEAN,
                   results : Seq([id : 1..MaxRecorded, outcome : Outcomes \cup {NoHandler}])]

\* A recorder holds each call that has settled since it was cleared, once, with
\* the outcome its caller saw, in the order they settled, however they overlap.
\* A report, of a replay that is over, passes what was replayed with what JSON
\* takes for the same outcome: of a session that repeats no id exactly that.
\* Whoever is not replayed, after a failure that stops it, does not pass then.
ReplayJudged ==
    /\ \A i \in DOMAIN interactions : interactions[i].outcome = recordings[interactions[i].id]
    /\ ~imported => [i \in DOMAIN interactions |-> interactions[i].id] = settledSince
    /\ IROver =>
          LET session == replay.session
              results == replay.results
              passes  == Validate(session, results)
              unique  == \A i, j \in DOMAIN session : session[i].id = session[j].id => i = j
          IN  /\ unique => \A i \in DOMAIN session :
                    passes[i] <=> i \in DOMAIN results /\ CompareOne(session[i].outcome, results[i].outcome)
              /\ \A i \in DOMAIN session :
                    passes[i] => \E j \in DOMAIN results : /\ results[j].id = session[i].id
                                                           /\ CompareOne(session[i].outcome, results[j].outcome)
              /\ Len(results) < Len(session) =>
                    /\ replay.stopOnFailure
                    /\ \A j \in DOMAIN results : results[j].outcome \in ReplayResults <=> j < Len(results)

(***************************************************************************)
(* The transactions of the mock RPC server applications test against       *)
(* (src/testing/MockRpcServer.ts): sent or added, pending for some polls,  *)
(* with errors injected, snapshots, restores and resets.                   *)
(*                                                                         *)
(* A snapshot copies the map of transactions, not the entries, which the   *)
(* polls change.  Accounts, simulations and events, which nothing changes  *)
(* but the caller, are left out.                                           *)
(***************************************************************************)
CONSTANTS
    Ledgers,        \* ledgers the caller may set; 0 is that of a reset
    PendingPolls,   \* numbers of polls an added transaction is pending for
    MaxMockEntries, \* bound: transactions created
    MaxInjected     \* bound: errors injected and not thrown

ASSUME MockAssumption ==
    /\ Ledgers \subseteq Nat /\ 0 \in Ledgers /\ PendingPolls \subseteq Nat
    /\ MaxMockEntries \in Nat /\ MaxInjected \in Nat

VARIABLES
    mockLedger,
    mocked,         \* the entries created: [status, polls, final], and as history how many
                    \* polls it was created with, and how many have found it pending
    transactions,   \* from hashes to entries
    snapshot,       \* the last one taken: [ledger, transactions]
    injected        \* pendingErrors: the methods, in order

mkVars == <<mockLedger, mocked, transactions, snapshot, injected>>

\* A hash: of a transaction sent, or given by the caller.
Hashes == [ledger : Ledgers, size : 0..MaxMockEntries] \cup {[ledger |-> 0, size |-> MaxMockEntries + 1]}
GivenHash == [ledger |-> 0, size |-> MaxMockEntries + 1]
NoTransactions == [h \in {} |-> 0]
NoSnapshot == [ledger |-> 0, transactions |-> NoTransactions]
Injectable == {"sendTransaction", "getTransaction"}
Finals == {"SUCCESS", "FAILED"}

MKInit ==
    /\ mockLedger = 0
    /\ mocked = <<>>
    /\ transactions = NoTransactions
    /\ snapshot = NoSnapshot
    /\ injected = <<>>

NewEntry(hash, polls, final) ==
    /\ Len(mocked) < MaxMockEntries
    /\ mocked' = Append(mocked, [status |-> "PENDING", polls |-> polls, final |-> final,
                                   given |-> polls, found |-> 0])
    /\ transactions' = [h \in DOMAIN transactions \cup {hash} |->
                          IF h = hash THEN Len(mocked') ELSE transactions[h]]

\* addTransaction, over an earlier one of that hash as well.
AddTransaction(polls, final) ==
    /\ NewEntry(GivenHash, polls, final)
    /\ UNCHANGED <<mockLedger, snapshot, injected>>

InjectError(m) ==
    /\ Len(injected) < MaxInjected
    /\ injected' = Append(injected, m)
    /\ UNCHANGED <<mockLedger, mocked, transactions, snapshot>>

\* checkError: the first error for the method is thrown, once.
ErrorThrown(m) ==
    /\ m \in ToSet(injected)
    /\ injected' = RemoveFirst(injected, m)
    /\ UNCHANGED <<mockLedger, mocked, transactions, snapshot>>
NoError(m) == m \notin ToSet(injected) /\ UNCHANGED <<mockLedger, snapshot, injected>>

SentHash == [ledger |-> mockLedger, size |-> Cardinality(DOMAIN transactions)]

SendToMock ==
    /\ NoError("sendTransaction")
    /\ IF SentHash \in DOMAIN transactions THEN UNCHANGED <<mocked, transactions>>
       ELSE NewEntry(SentHash, 1, "SUCCESS")

\* getTransaction: NOT_FOUND while polls remain, then the final status.
PollMock(hash) ==
    /\ NoError("getTransaction")
    /\ hash \in DOMAIN transactions
    /\ LET e == transactions[hash] IN
          /\ mocked[e].status = "PENDING"
          /\ mocked' = IF mocked[e].polls > 0
                        THEN [mocked EXCEPT ![e].polls = @ - 1, ![e].found = @ + 1]
                        ELSE [mocked EXCEPT ![e].status = mocked[e].final]
    /\ UNCHANGED transactions

SetLedger(l) ==
    /\ mockLedger' = l
    /\ UNCHANGED <<mocked, transactions, snapshot, injected>>

TakeSnapshot ==
    /\ snapshot' = [ledger |-> mockLedger, transactions |-> transactions]
    /\ UNCHANGED <<mockLedger, mocked, transactions, injected>>

RestoreSnapshot ==
    /\ mockLedger' = snapshot.ledger
    /\ transactions' = snapshot.transactions
    /\ injected' = <<>>
    /\ UNCHANGED <<mocked, snapshot>>

ResetMock ==
    /\ mockLedger' = 0 /\ transactions' = NoTransactions /\ injected' = <<>>
    /\ UNCHANGED <<mocked, snapshot>>

MKNext ==
    \/ SendToMock \/ TakeSnapshot \/ RestoreSnapshot \/ ResetMock
    \/ \E polls \in PendingPolls, final \in Finals : AddTransaction(polls, final)
    \/ \E m \in Injectable : InjectError(m) \/ ErrorThrown(m)
    \/ \E hash \in Hashes : PollMock(hash)
    \/ \E l \in Ledgers : SetLedger(l)

-------------------------------------------------------------------------------
MKTypeOK ==
    /\ mockLedger \in Ledgers
    /\ mocked \in Seq([status : {"PENDING"} \cup Finals, polls : Nat, final : Finals, given : Nat, found : Nat])
    /\ transactions \in [DOMAIN transactions -> DOMAIN mocked] /\ DOMAIN transactions \subseteq Hashes
    /\ snapshot.transactions \in [DOMAIN snapshot.transactions -> DOMAIN mocked]
    /\ injected \in Seq(Injectable)

\* No two hashes stand for one transaction, in the map or in a snapshot.  Each is
\* found pending as often as was said and no more, whatever snapshots are taken and
\* restored in between, and is final after that.  The next one sent gets a hash
\* nobody has, though the ledger may go back and transactions be forgotten.
MockDeterministic ==
    /\ IsInjective(transactions) /\ IsInjective(snapshot.transactions)
    /\ SentHash \notin DOMAIN transactions
    /\ \A e \in DOMAIN mocked :
          /\ mocked[e].found + mocked[e].polls = mocked[e].given
          /\ mocked[e].status # "PENDING" => mocked[e].polls = 0 /\ mocked[e].status = mocked[e].final
===============================================================================
