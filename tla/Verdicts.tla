------------------------------ MODULE Verdicts ------------------------------
(***************************************************************************)
(* How a remediated pod is judged.  The same question is answered by three *)
(* pieces of code: the Validator's synchronous path, the verifier_worker   *)
(* daemon (the asynchronous path) and the review CLI after an approval.    *)
(* Each of them takes one observation of the pod and returns a status;     *)
(* here they are three operators, so that they can be compared on every    *)
(* observation.                                                            *)
(***************************************************************************)
EXTENDS Integers

\* What _capture_pod_state and _check_pod_recreated_by_owner meet:
\*   read       the pod, its absence (404), or an API that does not answer: the
\*              code files the last two under one "error";
\*   recreated  the controller has created the pod's successor;
\*   sibling    another pod of the same name prefix was there all along;
\*   listed     the call that lists the namespace succeeds;
\*   futile     a container waits for a reason in _NON_RESTARTABLE_REASONS;
\*   ready      Running, with every container ready;
\*   restarts   the growth of the restart count since the snapshot before.
Observation ==
    [read : {"pod", "absent", "unreachable"}, recreated : BOOLEAN,
     sibling : BOOLEAN, listed : BOOLEAN, futile : BOOLEAN, ready : BOOLEAN,
     restarts : 0 .. 6]

Error(o) == o.read # "pod"

\* _diagnose_restart_futility: an error snapshot has no waiting reasons.
Futile(o) == ~Error(o) /\ o.futile

\* _check_pod_recreated_by_owner's "found": any pod of that prefix but the old
\* one, ready or not.
Found(o) == o.listed /\ (o.recreated \/ o.sibling)

\* The judgement of a pod that is gone: deletions succeed, restarts wait for a
\* successor, anything else fails.
Gone(o, deletions, restarts, action) ==
    CASE action \in deletions               -> "success"
      [] action \in restarts /\ Found(o)    -> "success"
      [] action \in restarts /\ ~Found(o)   -> "pending"
      [] OTHER                              -> "failed"

Deletions == {"delete_evicted_pod", "delete_completed_job_pod", "delete_failed_pod"}
Restarts == {"restart_pod", "restart_pod_for_image_pull", "restart_statefulset_pod"}

Steady(o) == o.ready /\ o.restarts <= 1

\* _validator_sync_path.
SyncVerdict(action, o) ==
    IF Futile(o) THEN "escalate_human"
    ELSE IF Error(o)
         THEN Gone(o, Deletions \ {"delete_failed_pod"}, {"restart_pod"}, action)
    ELSE IF Steady(o) THEN "success"
    ELSE IF o.ready THEN "partial"
    ELSE IF o.restarts > 5 THEN "failed" ELSE "pending"

\* _verify_once.
AsyncVerdict(action, o) ==
    IF Futile(o) THEN "escalate_human"
    ELSE IF Error(o) THEN Gone(o, Deletions, Restarts, action)
    ELSE IF Steady(o) THEN "success"
    ELSE IF ~o.ready /\ o.restarts > 5 THEN "failed" ELSE "pending"

\* cmd_approve.
CliVerdict(action, o) ==
    IF Futile(o) THEN "escalate_human"
    ELSE IF Error(o)
         THEN Gone(o, Deletions, Restarts \ {"restart_statefulset_pod"}, action)
    ELSE IF Steady(o) THEN "success"
    ELSE IF o.restarts > 5 THEN "failed" ELSE "pending"
=============================================================================
