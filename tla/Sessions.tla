------------------------------- MODULE Sessions -------------------------------
(***************************************************************************)
(* Sessions over several contracts (src/session/): the manager's registry  *)
(* and the sessions themselves, which their holders may close without the  *)
(* manager.                                                                *)
(*                                                                         *)
(* A session is a number, in the order of construction; ids are numbers,   *)
(* as generated ids are, and a caller may give one a later session would   *)
(* be given.  A client is always there.                                    *)
(***************************************************************************)
EXTENDS Naturals, Sequences, SequencesExt, FiniteSets

CONSTANTS
    Names,          \* contract names
    Room,           \* maxSessions
    MaxSessions     \* bound: sessions constructed

ASSUME SessionAssumption == Room \in Nat \ {0} /\ MaxSessions \in Nat

VARIABLES
    sessions,       \* sessions constructed: [id, status, contracts]
    counter,        \* sessionCounter
    managed         \* _sessions: from ids to sessions

ssVars == <<sessions, counter, managed>>

Ids == 1..MaxSessions
Constructed == DOMAIN sessions

SSInit ==
    /\ sessions = <<>>
    /\ counter = 0
    /\ managed = [id \in {} |-> 0]

ConstructSession(id, contracts) ==
    sessions' = Append(sessions, [id |-> id, status |-> "active", contracts |-> contracts])

\* createSession, with an id given or generated (0), and contracts of different
\* names.  A number generated for nothing stays used.
CreateSession(given, contracts) ==
    LET id == IF given = 0 THEN counter + 1 ELSE given IN
    /\ Len(sessions) < MaxSessions /\ id \in Ids
    /\ Cardinality(DOMAIN managed) < Room
    /\ given \notin DOMAIN managed
    /\ counter' = IF given = 0 THEN id ELSE counter
    /\ IF id \in DOMAIN managed THEN UNCHANGED <<sessions, managed>>
       ELSE /\ ConstructSession(id, contracts)
            /\ managed' = [i \in DOMAIN managed \cup {id} |-> IF i = id THEN Len(sessions') ELSE managed[i]]

RegisterContract(s, name) ==
    /\ s \in Constructed /\ sessions[s].status # "closed" /\ name \notin sessions[s].contracts
    /\ sessions' = [sessions EXCEPT ![s].contracts = @ \cup {name}]
    /\ UNCHANGED <<counter, managed>>

UnregisterContract(s, name) ==
    /\ s \in Constructed /\ sessions[s].status # "closed" /\ name \in sessions[s].contracts
    /\ sessions' = [sessions EXCEPT ![s].contracts = @ \ {name}]
    /\ UNCHANGED <<counter, managed>>

Suspend(s) ==
    /\ s \in Constructed /\ sessions[s].status = "active"
    /\ sessions' = [sessions EXCEPT ![s].status = "suspended"]
    /\ UNCHANGED <<counter, managed>>

Resume(s) ==
    /\ s \in Constructed /\ sessions[s].status = "suspended"
    /\ sessions' = [sessions EXCEPT ![s].status = "active"]
    /\ UNCHANGED <<counter, managed>>

Closed(s) == [sessions EXCEPT ![s].status = "closed", ![s].contracts = {}]

\* close, by its holder: the manager is not told.
CloseByHolder(s) ==
    /\ s \in Constructed /\ sessions[s].status # "closed"
    /\ sessions' = Closed(s)
    /\ UNCHANGED <<counter, managed>>

CloseSession(id) ==
    /\ id \in DOMAIN managed
    /\ sessions' = Closed(managed[id])
    /\ managed' = [i \in DOMAIN managed \ {id} |-> managed[i]]
    /\ UNCHANGED counter

CloseAll ==
    /\ DOMAIN managed # {}
    /\ sessions' = [s \in Constructed |->
                      IF \E id \in DOMAIN managed : managed[id] = s THEN Closed(s)[s] ELSE sessions[s]]
    /\ managed' = [id \in {} |-> 0]
    /\ UNCHANGED counter

SSNext ==
    \/ \E given \in {0} \cup Ids, contracts \in SUBSET Names : CreateSession(given, contracts)
    \/ \E s \in 1..MaxSessions :
          \/ \E name \in Names : RegisterContract(s, name) \/ UnregisterContract(s, name)
          \/ Suspend(s) \/ Resume(s) \/ CloseByHolder(s)
    \/ \E id \in Ids : CloseSession(id)
    \/ CloseAll

-------------------------------------------------------------------------------
SSTypeOK ==
    /\ sessions \in Seq([id : Ids, status : {"active", "suspended", "closed"},
                         contracts : SUBSET Names])
    /\ counter \in 0..MaxSessions
    /\ managed \in [DOMAIN managed -> Constructed] /\ DOMAIN managed \subseteq Ids

\* Whoever closes which session when, a session that is still open can be found
\* under its id and is closed by closeAll; there are no more open ones than there
\* is room for, and a closed one keeps no contract.
SessionsKept ==
    /\ \A s \in Constructed :
          IF sessions[s].status = "closed" THEN sessions[s].contracts = {}
          ELSE sessions[s].id \in DOMAIN managed /\ managed[sessions[s].id] = s
    /\ Cardinality({s \in Constructed : sessions[s].status # "closed"}) <= Room
===============================================================================
