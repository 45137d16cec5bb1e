---------------------------- MODULE MigrationRunner ----------------------------
(***************************************************************************)
(* Contract state migrations (src/migrations/): a registry of steps, the   *)
(* search for a chain of them from one version to another, and the runner, *)
(* which threads a state through the chain and may roll back a failure.    *)
(*                                                                         *)
(* A state is the sequence of what was applied to the initial one, with    *)
(* the version whose shape it has; schemas reject a state of another       *)
(* version, when states are validated.                                     *)
(***************************************************************************)
EXTENDS Naturals, Sequences, SequencesExt, FiniteSets

CONSTANTS
    Versions,
    Steps           \* step definitions: [from, to, rollback]

ASSUME MigrationAssumption ==
    /\ Steps \subseteq [from : Versions, to : Versions, rollback : BOOLEAN]
    /\ Versions # {} /\ IsFiniteSet(Versions)

VARIABLES
    steps,          \* the registered steps, in order
    plan,           \* what the run goes through: [from, to, steps], or NoPlan
    options,        \* [dryRun, rollbackOnFailure]
    applied,        \* the state: steps and rollbacks applied to the initial one
    completed,      \* completedSteps
    mgPhase,        \* "none", "migrating", "rollingBack", "COMPLETED", "FAILED", "ROLLED_BACK"
    todo,           \* steps yet to migrate or to roll back
    undone,         \* allRolledBack
    quiet           \* history: a step threw a value that is taken for no failure

mgVars == <<steps, plan, options, applied, completed, mgPhase, todo, undone, quiet>>

NoPlan == [from |-> CHOOSE v \in Versions : TRUE, to |-> CHOOSE v \in Versions : TRUE, steps |-> <<>>]
Options == [dryRun : BOOLEAN, rollbackOnFailure : BOOLEAN]
Change == [step : Steps, undo : BOOLEAN]

MGInit ==
    /\ steps = <<>>
    /\ plan = NoPlan
    /\ options = [dryRun |-> FALSE, rollbackOnFailure |-> FALSE]
    /\ applied = <<>>
    /\ completed = <<>>
    /\ mgPhase = "none"
    /\ todo = <<>>
    /\ undone = FALSE
    /\ quiet = FALSE

runVars == <<plan, options, applied, completed, mgPhase, todo, undone, quiet>>

\* The registry, which a resolved plan no longer depends on (bound: it changes
\* before the run only).  A step registered again moves to the end.
RegisterStep(s) ==
    /\ mgPhase = "none"
    /\ steps' = Append(RemoveFirst(steps, s), s)
    /\ UNCHANGED runVars

UnregisterStep(s) ==
    /\ mgPhase = "none"
    /\ steps' = RemoveFirst(steps, s)
    /\ UNCHANGED runVars

\* resolvePath: breadth-first search; the path found, or <<>> when there is none.
\* A queue entry is a path, whose end is the version it has reached.
Reached(path, from) == IF path = <<>> THEN from ELSE Last(path).to

\* Places of the registry, in order: those of the edges of a version, and those by
\* which a path is extended, to each version not visited yet the first.
EdgesFrom(v) == {k \in DOMAIN steps : steps[k].from = v}
InOrder(K) == CHOOSE p \in Bijection(1..Cardinality(K), K) : \A m, n \in DOMAIN p : m < n => p[m] < p[n]
Extending(path, from, visited) ==
    LET out == EdgesFrom(Reached(path, from))
    IN  {k \in out : steps[k].to \notin visited /\ \A j \in out : j < k => steps[j].to # steps[k].to}
Arriving(path, from, to) == {k \in EdgesFrom(Reached(path, from)) : steps[k].to = to}

SearchStates == [queue : Seq(Seq(Steps)), visited : SUBSET Versions]

\* The first entry, which arrives nowhere, is taken from the queue.
Explored(s, from) ==
    LET path == Head(s.queue)
        new  == InOrder(Extending(path, from, s.visited))
    IN  [queue   |-> Tail(s.queue) \o [n \in DOMAIN new |-> Append(path, steps[new[n]])],
         visited |-> s.visited \cup {steps[k].to : k \in EdgesFrom(Reached(path, from))}]

ResolvePath(from, to) ==
    LET search[s \in SearchStates] ==
            LET arriving == Arriving(Head(s.queue), from, to)
            IN  CASE s.queue = <<>> -> <<>>
                  [] s.queue # <<>> /\ arriving # {} -> Append(Head(s.queue), steps[Min(arriving)])
                  [] OTHER -> search[Explored(s, from)]
    IN  IF from = to THEN <<>> ELSE search[[queue |-> << <<>> >>, visited |-> {from}]]

\* The run of a plan begins, if there is one.
Run(from, to, o) ==
    LET path == ResolvePath(from, to)
    IN  /\ mgPhase = "none"
        /\ from = to \/ path # <<>>
        /\ plan' = [from |-> from, to |-> to, steps |-> path]
        /\ options' = o
        /\ todo' = path
        /\ mgPhase' = IF path = <<>> THEN "COMPLETED" ELSE "migrating"
        /\ UNCHANGED <<steps, applied, completed, undone, quiet>>

\* A step's migrate and both validations of the state succeed.
StepSucceeds ==
    /\ mgPhase = "migrating"
    /\ applied' = Append(applied, [step |-> Head(todo), undo |-> FALSE])
    /\ completed' = Append(completed, Head(todo))
    /\ todo' = Tail(todo)
    /\ mgPhase' = IF Tail(todo) = <<>> THEN "COMPLETED" ELSE "migrating"
    /\ UNCHANGED <<steps, plan, options, undone, quiet>>

\* One of them fails; a falsy value a step throws is taken for no failure.
StepFails(falsy) ==
    /\ mgPhase = "migrating"
    /\ quiet' = falsy
    /\ undone' = (completed # <<>>)
    /\ IF ~falsy /\ options.rollbackOnFailure /\ ~options.dryRun /\ completed # <<>>
       THEN mgPhase' = "rollingBack" /\ todo' = Reverse(completed)
       ELSE mgPhase' = (IF falsy THEN "COMPLETED" ELSE "FAILED") /\ todo' = <<>>
    /\ UNCHANGED <<steps, plan, options, applied, completed>>

\* Mutant: a rollback that fails is tried again, and so is one that is missing.
RollBackStepRetries ==
    /\ mgPhase = "rollingBack"
    /\ Head(todo).rollback
    /\ applied' = Append(applied, [step |-> Head(todo), undo |-> TRUE])
    /\ todo' = Tail(todo)
    /\ mgPhase' = IF Tail(todo) = <<>> THEN "ROLLED_BACK" ELSE "rollingBack"
    /\ UNCHANGED <<steps, plan, options, completed, undone, quiet>>

\* rollback goes on past a step that has no rollback or whose rollback fails,
\* so that the rollbacks of earlier steps meet a state of a later version.
RollBackStep ==
    /\ mgPhase = "rollingBack"
    /\ \E ok \in BOOLEAN :
          /\ ok => Head(todo).rollback
          /\ applied' = IF ok THEN Append(applied, [step |-> Head(todo), undo |-> TRUE]) ELSE applied
          /\ undone' = (undone /\ ok)
          /\ todo' = Tail(todo)
          /\ mgPhase' = CASE Tail(todo) # <<>> -> "rollingBack"
                          [] Tail(todo) = <<>> /\ undone' -> "ROLLED_BACK"
                          [] OTHER -> "FAILED"
    /\ UNCHANGED <<steps, plan, options, completed, quiet>>

MGSystem == StepSucceeds \/ (\E falsy \in BOOLEAN : StepFails(falsy)) \/ RollBackStep
MGNext ==
    \/ MGSystem
    \/ \E s \in Steps : RegisterStep(s) \/ UnregisterStep(s)
    \/ \E from, to \in Versions, o \in Options : Run(from, to, o)

MGOver == mgPhase \notin {"migrating", "rollingBack"}

-------------------------------------------------------------------------------
MGTypeOK ==
    /\ steps \in Seq(Steps) /\ todo \in Seq(Steps) /\ completed \in Seq(Steps)
    /\ plan \in [from : Versions, to : Versions, steps : Seq(Steps)]
    /\ options \in Options
    /\ applied \in Seq(Change)
    /\ mgPhase \in {"none", "migrating", "rollingBack", "COMPLETED", "FAILED", "ROLLED_BACK"}
    /\ undone \in BOOLEAN /\ quiet \in BOOLEAN

\* What is left of the changes once each rollback is set off against the step
\* it undoes: <<>> is the initial state again.
Net ==
    LET cancels(s, c) == c.undo /\ s # <<>> /\ Last(s) = [step |-> c.step, undo |-> FALSE]
        net[k \in 0..Len(applied)] ==
            LET s == net[k - 1]  c == applied[k]
            IN  IF k = 0 THEN <<>> ELSE IF cancels(s, c) THEN Front(s) ELSE Append(s, c)
    IN  net[Len(applied)]

\* A chain of registered steps leads from one version to another.
Chain(path, from, to) ==
    /\ path # <<>> /\ path[1].from = from /\ Last(path).to = to
    /\ ToSet(path) \subseteq ToSet(steps)
    /\ \A k \in 1..(Len(path) - 1) : path[k].to = path[k + 1].from

\* What a migration reports is what happened: a plan is a shortest chain; a
\* completed one was applied whole and in order (but for a step that throws a
\* falsy value); and one that was rolled back has the state it began with.
MigrationTruthful ==
    /\ plan.steps # <<>> =>
          /\ Chain(plan.steps, plan.from, plan.to)
          /\ \A n \in 1..(Len(plan.steps) - 1) :
                ~\E path \in [1..n -> ToSet(steps)] : Chain(path, plan.from, plan.to)
    /\ mgPhase = "COMPLETED" /\ ~quiet =>
          applied = [k \in DOMAIN plan.steps |-> [step |-> plan.steps[k], undo |-> FALSE]]
    /\ mgPhase = "ROLLED_BACK" => Net = <<>> /\ ~options.dryRun
===============================================================================
