--------------------------- MODULE VerifierPromise ---------------------------
(***************************************************************************)
(* What the asynchronous verification promises of each task, without       *)
(* saying how often a pod is looked at: it is closed at most once, with    *)
(* one of the final statuses, and what is announced is that status, once.  *)
(***************************************************************************)
CONSTANT Task

Final == {"success", "failed", "escalate_human", "timeout"}

VARIABLES
    status,  \* task -> its status
    told     \* task -> the status announced for it, or "nothing"

promiseVars == <<status, told>>

PromiseInit ==
    /\ status = [t \in Task |-> "absent"]
    /\ told = [t \in Task |-> "nothing"]

Open(t) ==
    /\ status[t] = "absent"
    /\ status' = [status EXCEPT ![t] = "pending"]
    /\ UNCHANGED told

Close(t) ==
    /\ status[t] = "pending"
    /\ \E s \in Final : status' = [status EXCEPT ![t] = s]
    /\ UNCHANGED told

Announce(t) ==
    /\ status[t] \in Final
    /\ told[t] = "nothing"
    /\ told' = [told EXCEPT ![t] = status[t]]
    /\ UNCHANGED status

PromiseNext == \E t \in Task : Open(t) \/ Close(t) \/ Announce(t)

PromiseSpec == PromiseInit /\ [][PromiseNext]_promiseVars
==============================================================================
