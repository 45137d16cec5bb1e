------------------------------ MODULE EventRanges ------------------------------
(***************************************************************************)
(* getContractEvents (src/client/stellarClient.ts): the events of a range  *)
(* of ledgers, read page by page, and in halves when the server finds an   *)
(* answer too large.                                                       *)
(*                                                                         *)
(* Event i lies in ledger Ledger[i].  The recursion over halves returns    *)
(* the first half's events before the second's, so it is a list of ranges  *)
(* to read and one output; the page being filled is local to its call and  *)
(* lost when that call splits its range.  The server is external: it gives *)
(* the next events in order, up to a page, and may refuse any request.     *)
(***************************************************************************)
EXTENDS Naturals, Sequences, SequencesExt, FiniteSets, FiniteSetsExt

CONSTANTS
    Ledger,         \* the ledger of each event, in order
    MaxLedger,
    PageSize

ASSUME EventRangesAssumption ==
    /\ MaxLedger \in Nat \ {0} /\ Ledger \in Seq(1..MaxLedger)
    /\ \A i, j \in DOMAIN Ledger : i < j => Ledger[i] <= Ledger[j]
    /\ PageSize \in Nat \ {0}

VARIABLES
    request,        \* [start, end, cursor, fetchAll]
    ranges,         \* ranges yet to read, the first of which is being read
    cursor,         \* where the next page of that range begins, after this event
    page,           \* events read of that range
    seenTokens,
    output,         \* events of the ranges done
    dropped,        \* history: events read and lost to a split
    erPhase         \* "none", "reading", "finished", "failed"

erVars == <<request, ranges, cursor, page, seenTokens, output, dropped, erPhase>>

None == 0
Events == DOMAIN Ledger
LedgerRange == [start : 1..MaxLedger, end : 1..MaxLedger]
Requests == [start : 1..MaxLedger, end : 1..MaxLedger, cursor : {None} \cup Events, fetchAll : BOOLEAN]

ERInit ==
    /\ request = [start |-> 1, end |-> 1, cursor |-> None, fetchAll |-> FALSE]
    /\ ranges = <<>>
    /\ cursor = None
    /\ page = <<>>
    /\ seenTokens = {}
    /\ output = <<>>
    /\ dropped = {}
    /\ erPhase = "none"

\* getContractEvents swaps the ends of a range that is upside down.
GetContractEvents(r) ==
    /\ erPhase = "none"
    /\ request' = [r EXCEPT !.start = Min({r.start, r.end}), !.end = Max({r.start, r.end})]
    /\ ranges' = <<[start |-> request'.start, end |-> request'.end]>>
    /\ cursor' = r.cursor
    /\ erPhase' = "reading"
    /\ UNCHANGED <<page, seenTokens, output, dropped>>

InRange(r, after) == {i \in Events : r.start <= Ledger[i] /\ Ledger[i] <= r.end /\ i > after}

\* The server's answer: the first events after the cursor, up to a page; those of a
\* range follow one another.  With it comes the last one's paging token; without
\* events there is none, or the cursor comes back.
Answer ==
    LET left == InRange(Head(ranges), cursor)
    IN  IF left = {} THEN <<>>
        ELSE [k \in 1..Min({PageSize, Max(left) - Min(left) + 1}) |-> Min(left) + k - 1]

Tokens(events) == IF events = <<>> THEN {None, cursor} ELSE {Last(events)}

\* A range is done: on to the next one, without a cursor; a caller that did not
\* ask for everything gets the first range read.
RangeDone(events) ==
    /\ output' = output \o events
    /\ ranges' = Tail(ranges)
    /\ cursor' = None
    /\ page' = <<>>
    /\ seenTokens' = {}
    /\ erPhase' = IF request.fetchAll /\ Tail(ranges) # <<>> THEN "reading" ELSE "finished"
    /\ UNCHANGED <<request, dropped>>

PageArrives ==
    /\ erPhase = "reading"
    /\ \E token \in Tokens(Answer) :
          IF ~request.fetchAll \/ token = None \/ token \in seenTokens
          THEN RangeDone(page \o Answer)
          ELSE /\ page' = page \o Answer
               /\ seenTokens' = seenTokens \cup {token}
               /\ cursor' = token
               /\ UNCHANGED <<request, ranges, output, dropped, erPhase>>

Midpoint(r) == (r.start + r.end) \div 2

Halves(r) == <<[r EXCEPT !.end = Midpoint(r)], [r EXCEPT !.start = Midpoint(r) + 1]>>

\* 413: the range is read in halves, the first from the cursor reached.
TooLarge ==
    LET r == Head(ranges)
    IN  /\ erPhase = "reading"
        /\ r.start < r.end
        /\ ranges' = Halves(r) \o Tail(ranges)
        /\ page' = <<>>
        /\ dropped' = dropped \cup ToSet(page)
        /\ seenTokens' = {}
        /\ UNCHANGED <<request, cursor, output, erPhase>>

\* Any other error, or 413 for a single ledger, fails the whole call.
RequestFails ==
    /\ erPhase = "reading"
    /\ erPhase' = "failed"
    /\ UNCHANGED <<request, ranges, cursor, page, seenTokens, output, dropped>>

ERSystem == PageArrives \/ TooLarge \/ RequestFails
ERNext == ERSystem \/ \E r \in Requests : GetContractEvents(r)
EROver == erPhase # "reading"

-------------------------------------------------------------------------------
ERTypeOK ==
    /\ request \in Requests
    /\ ranges \in Seq(LedgerRange)
    /\ cursor \in {None} \cup Events
    /\ page \in Seq(Events) /\ output \in Seq(Events)
    /\ seenTokens \subseteq Events /\ dropped \subseteq Events
    /\ erPhase \in {"none", "reading", "finished", "failed"}

\* What a call for all events returns is in order, without duplicates, and
\* lacks no event of the range after the cursor but those read and then lost
\* when a later page was too large.
RangeTruthful ==
    erPhase = "finished" /\ request.fetchAll =>
        /\ \A k, l \in DOMAIN output : k < l => output[k] < output[l]
        /\ ToSet(output) \subseteq InRange(request, None)
        /\ InRange(request, request.cursor) \subseteq ToSet(output) \cup dropped
===============================================================================
