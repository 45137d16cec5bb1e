------------------------- MODULE MCTransactionTracker -------------------------
(* Instance of TransactionTracker for TLC.                                   *)
EXTENDS TransactionTracker

CONSTANTS h1, h2

\* A poll that gives up at once and one that outlives a refresh.
TimeoutsMC == {0, 2}

\* One transaction may be tracked again and again, another only once.
LoopsMC == [h \in Hashes |-> IF h = h1 THEN 2 ELSE 1]
===============================================================================
