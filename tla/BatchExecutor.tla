----------------------------- MODULE BatchExecutor -----------------------------
(***************************************************************************)
(* Batches of transactions (src/batch/): validation, then one transaction  *)
(* after another is built, which takes a sequence number of the source     *)
(* account, and simulated.  Nothing is submitted.                          *)
(*                                                                         *)
(* A batch is the dependencies of its transactions, by index from 1.  An   *)
(* index outside the batch is refused like a later one.  Labels,           *)
(* operations and fees are taken as valid.                                 *)
(***************************************************************************)
EXTENDS Naturals, Sequences, FiniteSets, FiniteSetsExt

CONSTANT BatchSize      \* bound: transactions of a batch

ASSUME BatchAssumption == BatchSize \in Nat

VARIABLES
    batch,          \* the batch: [deps, stopOnFailure]
    results,        \* per transaction done: "success", "failed", "unmet", "skipped"
    batchPhase,     \* "none", "running", "simulating", "rejected", "finished"
    sequences,      \* history: per transaction done, the sequence number it took, or 0
    sequence        \* sequence numbers taken of the source account

btVars == <<batch, results, batchPhase, sequences, sequence>>

Batches ==
    UNION {[deps : [1..n -> SUBSET (1..n)], stopOnFailure : BOOLEAN] : n \in 0..BatchSize}

BTInit ==
    /\ batch = [deps |-> <<>>, stopOnFailure |-> FALSE]
    /\ results = <<>>
    /\ batchPhase = "none"
    /\ sequences = <<>>
    /\ sequence = 0

\* validateDependencies: a dependency is in the batch and before its dependent.
\* What detectCycles finds has been found by then.
Valid(deps) ==
    /\ deps # <<>>
    /\ \A i \in DOMAIN deps : deps[i] \subseteq 1..(i - 1)

\* execute, up to the loop.
Submit(b) ==
    /\ batchPhase = "none"
    /\ batch' = b
    /\ batchPhase' = IF Valid(b.deps) THEN "running" ELSE "rejected"
    /\ UNCHANGED <<results, sequences, sequence>>

Size == Len(batch.deps)
Index == Len(results) + 1
Completed == {i \in DOMAIN results : results[i] = "success"}

\* Mutant: only the failures of the transaction before stop the batch.
StopNowLast == batch.stopOnFailure /\ results # <<>> /\ results[Len(results)] = "failed"

StopNow == batch.stopOnFailure /\ Completed # DOMAIN results

Record(result, taken) ==
    /\ results' = Append(results, result)
    /\ sequences' = Append(sequences, taken)
    /\ batchPhase' = IF Index = Size THEN "finished" ELSE "running"
    /\ UNCHANGED batch

Skip ==
    /\ batchPhase = "running" /\ StopNow
    /\ Record("skipped", 0)
    /\ UNCHANGED sequence

Unmet ==
    /\ batchPhase = "running" /\ ~StopNow
    /\ ~(batch.deps[Index] \subseteq Completed)
    /\ Record("unmet", 0)
    /\ UNCHANGED sequence

\* executeTransaction: build, which increments the account, and the request.
Build ==
    /\ batchPhase = "running" /\ ~StopNow
    /\ batch.deps[Index] \subseteq Completed
    /\ sequence' = sequence + 1
    /\ batchPhase' = "simulating"
    /\ UNCHANGED <<batch, results, sequences>>

\* The simulation answers, with an error or without one, or the request fails.
Simulated ==
    /\ batchPhase = "simulating"
    /\ \E result \in {"success", "failed"} : Record(result, sequence)
    /\ UNCHANGED sequence

BTSystem == Skip \/ Unmet \/ Build \/ Simulated
BTNext == BTSystem \/ \E b \in Batches : Submit(b)

BTOver == batchPhase \in {"none", "rejected", "finished"}

-------------------------------------------------------------------------------
BTTypeOK ==
    /\ batch \in [deps : Seq(SUBSET (1..BatchSize)), stopOnFailure : BOOLEAN]
    /\ results \in Seq({"success", "failed", "unmet", "skipped"}) /\ Len(results) <= Size
    /\ batchPhase \in {"none", "running", "simulating", "rejected", "finished"}
    /\ sequences \in Seq(Nat) /\ Len(sequences) = Len(results)
    /\ sequence \in 0..BatchSize

\* The transactions i stands on, directly or through others: those in every set that
\* has what i depends on and what its own members depend on.
Ancestors(i) ==
    {j \in 1..Size :
        \A S \in SUBSET (1..Size) :
            batch.deps[i] \subseteq S /\ (\A k \in S : batch.deps[k] \subseteq S) => j \in S}

\* What a batch reports is what happened: nothing succeeds on a transaction
\* that did not; a failure is passed on to all that stands on it; and once a
\* transaction has failed in a batch that is to stop, none is built any more.
BatchTruthful ==
    \A i \in DOMAIN results :
        /\ results[i] = "success" => Ancestors(i) \subseteq Completed
        /\ results[i] = "unmet" => \E j \in Ancestors(i) : results[j] = "failed"
        /\ sequences[i] # 0 /\ batch.stopOnFailure => \A j \in 1..(i - 1) : results[j] = "success"
===============================================================================
