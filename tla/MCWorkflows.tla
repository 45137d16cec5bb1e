------------------------------ MODULE MCWorkflows -----------------------------
(* Instance of ClientWorkflows for TLC: versions 1 to 3 with steps between     *)
(* them, two of which cannot be rolled back, and events in four ledgers.       *)
EXTENDS ClientWorkflows, TLC

MCStep(from, to, rollback) == [from |-> from, to |-> to, rollback |-> rollback]
MCSteps == {MCStep(1, 2, TRUE), MCStep(2, 3, TRUE), MCStep(1, 3, TRUE),
            MCStep(2, 1, FALSE), MCStep(2, 3, FALSE)}
MCLedger == <<1, 1, 2, 3, 3, 4>>

\* 1, 1.15, 2.5 and 1.001, and one whose notation has an exponent.
MCMultiplier(whole, digits) == [whole |-> whole, digits |-> digits]
MCMultipliers == {MCMultiplier(1, <<>>), MCMultiplier(1, <<1, 5>>), MCMultiplier(2, <<5>>),
                  MCMultiplier(1, <<0, 0, 1>>), MCMultiplier(9, <<>>)}

\* What JSON writes as {} alike.
MCAlike == {<<"map", "set">>}

\* Contracts that share an id or a type, and a descriptor without methods.
MCDescriptor(type, id, methods) == [type |-> type, id |-> id, methods |-> methods]
MCDescriptors ==
    {MCDescriptor("vault", "C1", {<<"deposit", "save">>, <<"withdraw", "save">>}),
     MCDescriptor("vault", "C2", {<<"deposit", "save">>}),
     MCDescriptor("pool", "C1", {<<"deposit", "lend">>}),
     MCDescriptor("pool", "none", {<<"deposit", "lend">>, <<"withdraw", "exit">>}),
     MCDescriptor("pool", "none", {})}
MCAbis == {{"deposit"}, {"deposit", "withdraw"}}
===============================================================================
