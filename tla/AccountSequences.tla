--------------------------- MODULE AccountSequences ---------------------------
(***************************************************************************)
(* Sequence numbers of an account (src/client/stellarClient.ts): the cache *)
(* behind getAccountWithCache, which gives out numbers while the node is   *)
(* out of reach, and submitTransactionsSequentially.                       *)
(*                                                                         *)
(* One account is modelled: the entries of the cache do not touch each     *)
(* other.  The caller makes transaction n + 1 of an account with number n. *)
(* The network is external: it takes the transaction after its own number, *)
(* and the account's owner may make one elsewhere.  Time is left out:      *)
(* whenever the cache is read, its entry may have expired.                 *)
(***************************************************************************)
EXTENDS Integers, Sequences, SequencesExt, FiniteSets

CONSTANTS
    Fetches,        \* calls of getAccountWithCache
    MaxSequence     \* bound: transactions of the account

ASSUME AccountAssumption == MaxSequence \in Nat

VARIABLES
    chain,          \* the account's number at the node
    cached,         \* accountSequenceCache's entry, or NoNumber
    fetch,          \* per call: its stage and the number in the answer under way
    given,          \* history: numbers given out: [number, offline]
    sending         \* transactions of submitTransactionsSequentially yet to send

asVars == <<chain, cached, fetch, given, sending>>

NoNumber == -1
Numbers == 0..MaxSequence

ASInit ==
    /\ chain = 0
    /\ cached = NoNumber
    /\ fetch = [f \in Fetches |-> [stage |-> "idle", number |-> NoNumber]]
    /\ given = <<>>
    /\ sending = <<>>

GetAccountWithCache(f) ==
    /\ fetch[f].stage = "idle"
    /\ fetch' = [fetch EXCEPT ![f].stage = "asked"]
    /\ UNCHANGED <<chain, cached, given, sending>>

\* The node reads the account; its answer is on the way.
NodeReads(f) ==
    /\ fetch[f].stage = "asked"
    /\ fetch' = [fetch EXCEPT ![f] = [stage |-> "answered", number |-> chain]]
    /\ UNCHANGED <<chain, cached, given, sending>>

GiveOut(f, number, offline) ==
    /\ fetch' = [fetch EXCEPT ![f].stage = "over"]
    /\ cached' = number
    /\ given' = Append(given, [number |-> number, offline |-> offline])

\* The answer is in time, and replaces whatever the cache holds by now.
FetchSucceeds(f) ==
    /\ fetch[f].stage = "answered"
    /\ GiveOut(f, fetch[f].number, FALSE)
    /\ UNCHANGED <<chain, sending>>

\* Mutant: a number is skipped.
FallBackSkips(f) ==
    /\ fetch[f].stage \in {"asked", "answered"}
    /\ cached # NoNumber /\ cached + 1 < MaxSequence
    /\ GiveOut(f, cached + 2, TRUE)
    /\ UNCHANGED <<chain, sending>>

\* It fails, or the timeout comes first: the next number after the cached one.
\* The answer that comes after a timeout is no longer waited for.
FallBack(f) ==
    /\ fetch[f].stage \in {"asked", "answered"}
    /\ cached # NoNumber /\ cached < MaxSequence
    /\ GiveOut(f, cached + 1, TRUE)
    /\ UNCHANGED <<chain, sending>>

\* As above, with an entry that has expired, or none: the call throws.
FetchFails(f) ==
    /\ fetch[f].stage \in {"asked", "answered"}
    /\ fetch' = [fetch EXCEPT ![f].stage = "over"]
    /\ cached' = NoNumber
    /\ UNCHANGED <<chain, given, sending>>

\* clearCache, a cleanup that finds the entry expired, and an error of some
\* submission that handleSubmissionError takes for one about the sequence.
ClearCache ==
    /\ cached # NoNumber
    /\ cached' = NoNumber
    /\ UNCHANGED <<chain, fetch, given, sending>>

\* submitTransactionsSequentially with transactions made of numbers given out.
SubmitSequentially ==
    /\ sending = <<>> /\ given # <<>>
    /\ sending' \in {[k \in DOMAIN s |-> s[k].number + 1] : s \in
                        {SubSeq(given, i, Len(given)) : i \in DOMAIN given}}
    /\ UNCHANGED <<chain, cached, fetch, given>>

\* The node takes the transaction that is next, and refuses another one.
Taken(n) == chain' = IF n = chain + 1 /\ n <= MaxSequence THEN n ELSE chain

\* The answer's status may be an error: all the same, the next one follows.
Sent ==
    /\ sending # <<>>
    /\ sending' = Tail(sending)
    /\ Taken(Head(sending)) \/ UNCHANGED chain
    /\ UNCHANGED <<cached, fetch, given>>

\* The request fails, though the node may have the transaction, or onProgress
\* throws: nothing more is sent, and an error about the sequence clears the cache.
SendThrows ==
    /\ sending # <<>>
    /\ sending' = <<>>
    /\ Taken(Head(sending)) \/ UNCHANGED chain
    /\ cached' \in {cached, NoNumber}
    /\ UNCHANGED <<fetch, given>>

\* The owner makes a transaction by other means.
MadeElsewhere ==
    /\ chain < MaxSequence
    /\ chain' = chain + 1
    /\ UNCHANGED <<cached, fetch, given, sending>>

\* The timer of getAccountWithTimeout ends a fetch that nothing else has ended.
FetchEnds(f) == FetchSucceeds(f) \/ FallBack(f) \/ FetchFails(f)

\* A submission settles.
ASSystem == Sent \/ SendThrows

ASNext ==
    \/ \E f \in Fetches : GetAccountWithCache(f) \/ NodeReads(f) \/ FetchEnds(f)
    \/ ClearCache \/ SubmitSequentially \/ MadeElsewhere \/ ASSystem

FetchOver(f) == fetch[f].stage \in {"idle", "over"}

-------------------------------------------------------------------------------
ASTypeOK ==
    /\ chain \in Numbers /\ cached \in Numbers \cup {NoNumber}
    /\ fetch \in [Fetches -> [stage : {"idle", "asked", "answered", "over"},
                              number : Numbers \cup {NoNumber}]]
    /\ given \in Seq([number : Numbers, offline : BOOLEAN])
    /\ sending \in Seq(1..(MaxSequence + 1))

\* However fetches, fallbacks and submissions interleave, whoever builds on the
\* numbers of the cache leaves no gap (each transaction between the node's
\* number and one given out has a number of its own given out before), and is
\* never given the same number twice unless the node was asked in between.
NumbersUsable ==
    \A k \in DOMAIN given :
        /\ \A n \in chain..(given[k].number - 1) : \E j \in 1..(k - 1) : given[j].number = n
        /\ given[k].offline =>
              \A j \in 1..(k - 1) :
                 given[j].number = given[k].number => \E i \in (j + 1)..k : ~given[i].offline
===============================================================================
