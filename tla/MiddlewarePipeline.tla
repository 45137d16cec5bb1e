-------------------------- MODULE MiddlewarePipeline --------------------------
(***************************************************************************)
(* The middleware pipeline of a client (src/middleware/pipeline.ts).       *)
(* execute awaits every hook, and meanwhile use, the function use returned *)
(* and clear may change the array it goes through: the pre hooks follow    *)
(* the live array, the post and onError hooks a copy of it.                *)
(*                                                                         *)
(* One execution at a time is followed; others do not change the array.    *)
(* Every entry has all three hooks: a missing one is skipped, like one     *)
(* that does nothing.  What hooks do to the context is left out.           *)
(***************************************************************************)
EXTENDS Naturals, Sequences, SequencesExt, FiniteSets

CONSTANTS
    Names,          \* names of middleware
    Order,          \* the order each is registered with
    MaxUses         \* bound: calls of use

ASSUME PipelineAssumption ==
    /\ Order \in [Names -> Nat]
    /\ MaxUses \in Nat

VARIABLES
    middleware,     \* the array, of [name, seq]
    nextSequence,
    run             \* the execution: phase, position and hooks run (histories)

mpVars == <<middleware, nextSequence, run>>

Entry == [name : Names, seq : 0..MaxUses]
Phases == {"idle", "pre", "next", "post", "error", "done", "failed"}

\* sortMiddleware: by order, then by sequence.
Before(a, b) ==
    \/ Order[a.name] < Order[b.name]
    \/ Order[a.name] = Order[b.name] /\ a.seq < b.seq

\* Mutant: entries stay in the order of their registration.
SortMiddlewareNever(entries) == entries

Ascending(entries) == \A k, l \in DOMAIN entries : k < l => Before(entries[k], entries[l])

SortMiddleware(entries) == CHOOSE s \in [DOMAIN entries -> ToSet(entries)] : Ascending(s)

NoRun == [phase |-> "idle", at |-> 0, rest |-> <<>>, pre |-> <<>>, back |-> <<>>, touched |-> {}]

\* The array changes under an execution.
Touch(how) == run' = [run EXCEPT !.touched = IF run.phase \in {"idle", "done", "failed"} THEN @ ELSE @ \cup {how}]

MPInit ==
    /\ middleware = <<>>
    /\ nextSequence = 0
    /\ run = NoRun

\* Registering several, one use after another, which the constructor does.
UseAll(names) ==
    /\ nextSequence + Len(names) <= MaxUses
    /\ nextSequence' = nextSequence + Len(names)
    /\ middleware' = SortMiddleware(middleware \o
          [k \in DOMAIN names |-> [name |-> names[k], seq |-> nextSequence + k - 1]])
    /\ IF names = <<>> THEN UNCHANGED run ELSE Touch("use")

\* remove, which the function returned by use calls too: the first of that name.
RemoveNamed(name) ==
    LET found == {k \in DOMAIN middleware : middleware[k].name = name}
    IN  /\ found # {}
        /\ middleware' = RemoveAt(middleware, CHOOSE k \in found : \A l \in found : k <= l)
        /\ Touch("remove")
        /\ UNCHANGED nextSequence

Clear ==
    /\ middleware # <<>>
    /\ middleware' = <<>>
    /\ Touch("remove")
    /\ UNCHANGED nextSequence

\* execute begins, with the pre hook of the first entry if there is one: the
\* loop goes on to index at of the live array.
PreFrom(r, at) ==
    IF at <= Len(middleware)
    THEN [r EXCEPT !.phase = "pre", !.at = at, !.pre = Append(@, middleware[at])]
    ELSE [r EXCEPT !.phase = "next", !.at = 0]

\* The hooks of a reversed copy, in turn; then execute ends.
Back(r, phase, copy, end) ==
    IF copy = <<>> THEN [r EXCEPT !.phase = end, !.rest = <<>>]
    ELSE [r EXCEPT !.phase = phase, !.rest = Tail(copy), !.back = Append(@, Head(copy))]

ToError(r) == Back([r EXCEPT !.at = 0, !.back = <<>>], "error", Reverse(middleware), "failed")

Execute ==
    /\ run.phase = "idle"
    /\ run' = PreFrom(NoRun, 1)
    /\ UNCHANGED <<middleware, nextSequence>>

\* A hook or next settles; a throw leads to the onError hooks, except from one
\* of these, whose error ends the execution.
Settles(ok) ==
    /\ run' = CASE ~ok /\ run.phase \in {"pre", "next", "post"} -> ToError(run)
                [] ~ok /\ run.phase = "error" -> [run EXCEPT !.phase = "failed", !.rest = <<>>]
                [] ok /\ run.phase = "pre"    -> PreFrom(run, run.at + 1)
                [] ok /\ run.phase = "next"   -> Back(run, "post", Reverse(middleware), "done")
                [] ok /\ run.phase = "post"   -> Back(run, "post", run.rest, "done")
                [] ok /\ run.phase = "error"  -> Back(run, "error", run.rest, "failed")
    /\ UNCHANGED <<middleware, nextSequence>>

RunSettles(ok) == run.phase \in {"pre", "next", "post", "error"} /\ Settles(ok)

-------------------------------------------------------------------------------
MPTypeOK ==
    /\ middleware \in Seq(Entry)
    /\ nextSequence \in 0..MaxUses
    /\ run.phase \in Phases /\ run.at \in Nat /\ run.touched \subseteq {"use", "remove"}
    /\ \A field \in {"rest", "pre", "back"} : run[field] \in Seq(Entry)

\* The hooks wrap a call like the layers of an onion.  Post and onError hooks
\* come in descending order, each once, whatever changes meanwhile; pre hooks
\* in ascending order, each once, unless an entry is added while they run; and a
\* call under which nothing changes runs the post hook of just the entries
\* whose pre hook it ran.
OnionOrder ==
    /\ Ascending(Reverse(run.back))
    /\ "use" \notin run.touched => Ascending(run.pre)
    /\ run.phase = "done" /\ run.touched = {} => run.back = Reverse(run.pre)
===============================================================================
