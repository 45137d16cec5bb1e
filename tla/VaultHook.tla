------------------------------- MODULE VaultHook -------------------------------
(***************************************************************************)
(* The hook useVault (packages/react/src/useVault.ts): deposits and        *)
(* withdrawals, each of which signs and submits a transaction and polls    *)
(* until it is confirmed, over four pieces of state they share.            *)
(*                                                                         *)
(* An execution and its transaction are a number, in the order of the      *)
(* calls.  State is what it is when a task is over, so "signed", which is  *)
(* set just before "submitted", is not seen.  The network is external.     *)
(***************************************************************************)
EXTENDS Naturals

CONSTANTS
    MaxExecutions,  \* bound: calls of deposit and withdraw
    MaxPolls        \* POLL_TIMEOUT_MS in polls

ASSUME HookAssumption == MaxExecutions \in Nat /\ MaxPolls \in Nat \ {0}

VARIABLES
    step, isLoading, error, txHash,     \* as returned by the hook; no hash is 0
    executions,     \* per call: "idle", "acting", "asking", "sleeping", "over"
    polls,          \* queries of each call so far
    onChain,        \* transactions: "none", "pending", "SUCCESS", "FAILED"
    alone           \* history: the last execution has overlapped neither another one
                    \* nor a reset

vhVars == <<step, isLoading, error, txHash, executions, polls, onChain, alone>>

Executions == 1..MaxExecutions
UnderWay == {e \in Executions : executions[e] \in {"acting", "asking", "sleeping"}}

VHInit ==
    /\ step = "idle" /\ isLoading = FALSE /\ error = FALSE /\ txHash = 0
    /\ executions = [e \in Executions |-> "idle"]
    /\ polls = [e \in Executions |-> 0]
    /\ onChain = [e \in Executions |-> "none"]
    /\ alone = TRUE

\* deposit, withdraw: execute up to the action it awaits.
Execute(e) ==
    /\ executions[e] = "idle" /\ \A d \in 1..(e - 1) : executions[d] # "idle"
    /\ step' = "idle" /\ isLoading' = TRUE /\ error' = FALSE /\ txHash' = 0
    /\ executions' = [executions EXCEPT ![e] = "acting"]
    /\ alone' = (UnderWay = {})
    /\ UNCHANGED <<polls, onChain>>

\* The action has submitted a transaction, and polling begins.
ActionReturns(e) ==
    /\ executions[e] = "acting"
    /\ step' = "submitted" /\ txHash' = e
    /\ executions' = [executions EXCEPT ![e] = "asking"]
    /\ polls' = [polls EXCEPT ![e] = 1]
    /\ onChain' = [onChain EXCEPT ![e] = "pending"]
    /\ UNCHANGED <<isLoading, error, alone>>

\* catch and finally.
Failed(e) ==
    /\ error' = TRUE /\ step' = "idle" /\ isLoading' = FALSE
    /\ executions' = [executions EXCEPT ![e] = "over"]
    /\ UNCHANGED txHash

ActionThrows(e) ==
    /\ executions[e] = "acting"
    /\ Failed(e)
    /\ UNCHANGED <<polls, onChain, alone>>

\* SUCCESS: the step is set and onSuccess called.
Confirmed(e) ==
    /\ executions[e] = "asking" /\ onChain[e] = "SUCCESS"
    /\ step' = "confirmed" /\ isLoading' = FALSE
    /\ executions' = [executions EXCEPT ![e] = "over"]
    /\ UNCHANGED <<error, txHash, polls, onChain, alone>>

\* onSuccess throws, the transaction has failed, or the query does.
PollFails(e) ==
    /\ executions[e] = "asking"
    /\ Failed(e)
    /\ UNCHANGED <<polls, onChain, alone>>

\* NOT_FOUND, as the node has it, or had it when it answered.
NotFound(e) ==
    /\ executions[e] = "asking"
    /\ executions' = [executions EXCEPT ![e] = "sleeping"]
    /\ UNCHANGED <<step, isLoading, error, txHash, polls, onChain, alone>>

\* The next query; or the time is up, which it may be early when answers are slow.
NextPoll(e) ==
    /\ executions[e] = "sleeping"
    /\ \/ /\ polls[e] < MaxPolls
          /\ polls' = [polls EXCEPT ![e] = @ + 1]
          /\ executions' = [executions EXCEPT ![e] = "asking"]
          /\ UNCHANGED <<step, isLoading, error, txHash>>
       \/ Failed(e) /\ UNCHANGED polls
    /\ UNCHANGED <<onChain, alone>>

ResetHook ==
    /\ step' = "idle" /\ isLoading' = FALSE /\ error' = FALSE /\ txHash' = 0
    /\ alone' = (alone /\ UnderWay = {})
    /\ UNCHANGED <<executions, polls, onChain>>

Settles(e) ==
    /\ onChain[e] = "pending"
    /\ \E status \in {"SUCCESS", "FAILED"} : onChain' = [onChain EXCEPT ![e] = status]
    /\ UNCHANGED <<step, isLoading, error, txHash, executions, polls, alone>>

\* The action settles, or a query does.
ExecutionAnswered(e) ==
    ActionReturns(e) \/ ActionThrows(e) \/ Confirmed(e) \/ PollFails(e) \/ NotFound(e)

VHSystem == \E e \in Executions : ExecutionAnswered(e) \/ NextPoll(e)
VHNext ==
    \/ VHSystem \/ ResetHook
    \/ \E e \in Executions : Execute(e) \/ Settles(e)

-------------------------------------------------------------------------------
VHTypeOK ==
    /\ step \in {"idle", "submitted", "confirmed"} /\ {isLoading, error, alone} \subseteq BOOLEAN
    /\ txHash \in 0..MaxExecutions
    /\ executions \in [Executions -> {"idle", "acting", "asking", "sleeping", "over"}]
    /\ polls \in [Executions -> 0..MaxPolls]
    /\ onChain \in [Executions -> {"none", "pending", "SUCCESS", "FAILED"}]

\* However executions overlap and resets intervene, nothing is confirmed that is
\* not, and loading ends with the last of them.  To an execution that has the hook
\* to itself, the hook is true: it loads until the end, the transaction shown is
\* its own, and "submitted" and "confirmed" are said of that one.
HookTruthful ==
    /\ step = "confirmed" => \E e \in Executions : onChain[e] = "SUCCESS"
    /\ UnderWay = {} => ~isLoading
    /\ alone =>
        /\ isLoading <=> UnderWay # {}
        /\ step = "confirmed" => txHash # 0 /\ onChain[txHash] = "SUCCESS"
        /\ step = "submitted" => isLoading /\ txHash \in UnderWay
        /\ error => step = "idle"
        /\ txHash # 0 => \A e \in Executions : e > txHash => executions[e] = "idle"
===============================================================================
