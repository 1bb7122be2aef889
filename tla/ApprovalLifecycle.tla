-------------------------- MODULE ApprovalLifecycle --------------------------
(***************************************************************************)
(* What the approval store promises of a row, without saying who reads and *)
(* writes it: the states in the docstring of tools/approval_store.py and   *)
(* the moves between them.  A row is decided once; it takes effect only    *)
(* while it is approved, a remediation at most once; executed, failed and  *)
(* rejected are final.  An expired row may still be decided, by a reviewer *)
(* who found it pending before it expired.                                 *)
(***************************************************************************)
EXTENDS Integers

CONSTANTS Approval, Remediation

VARIABLES
    status,  \* row -> its state
    effects  \* row -> how often its command or action was executed

lifecycleVars == <<status, effects>>

LifecycleInit ==
    /\ status = [a \in Approval |-> "absent"]
    /\ effects = [a \in Approval |-> 0]

Submit(a) ==
    /\ status[a] = "absent"
    /\ status' = [status EXCEPT ![a] = "pending"]
    /\ UNCHANGED effects

Decide(a) ==
    /\ status[a] \in {"pending", "expired"}
    /\ \E s \in {"approved", "rejected"} : status' = [status EXCEPT ![a] = s]
    /\ UNCHANGED effects

\* Any number of pending rows expire together.
Expire(S) ==
    /\ \A a \in S : status[a] = "pending"
    /\ status' = [a \in Approval |-> IF a \in S THEN "expired" ELSE status[a]]
    /\ UNCHANGED effects

TakeEffect(a) ==
    /\ status[a] = "approved"
    /\ a \in Remediation => effects[a] = 0
    /\ effects' = [effects EXCEPT ![a] = @ + 1]
    /\ UNCHANGED status

Finish(a) ==
    /\ status[a] = "approved"
    /\ \E s \in {"executed", "failed"} : status' = [status EXCEPT ![a] = s]
    /\ UNCHANGED effects

LifecycleNext ==
    \/ \E a \in Approval : Submit(a) \/ Decide(a) \/ TakeEffect(a) \/ Finish(a)
    \/ \E S \in SUBSET Approval : Expire(S)

LifecycleSpec == LifecycleInit /\ [][LifecycleNext]_lifecycleVars
==============================================================================
