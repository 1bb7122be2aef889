-------------------------------- MODULE Plans --------------------------------
(***************************************************************************)
(* What becomes of a remediation plan between the language model that      *)
(* writes it and the executor: the Remediator's cleaning and validation    *)
(* (agents/remediator.py) and the Approval Gate's decision tree            *)
(* (agents/approval_gate.py).  Both are functions of the plan and the      *)
(* alert, and are operators here.                                          *)
(***************************************************************************)
EXTENDS Integers, Sequences

\* ALLOWED_ACTIONS, of which the node actions take a node for a target.
PodActions ==
    {"delete_evicted_pod", "delete_completed_job_pod", "delete_failed_pod",
     "restart_pod", "restart_pod_for_image_pull"}
NodeActions == {"cordon_node", "uncordon_node"}
L3Actions == PodActions \cup NodeActions

\* l2_actions, of which evict_pod has no implementation, and l4_actions.
DeploymentActions == {"scale_deployment", "rollback_deployment"}
L2Actions == DeploymentActions \cup {"restart_statefulset_pod", "evict_pod"}
L4Actions == {"delete_pvc", "drain_node", "update_configmap", "update_image"}

\* The actions rule R3 takes away.
PlanRestarts == {"restart_pod", "restart_pod_for_image_pull", "restart_statefulset_pod"}

\* What a model may answer: any action, also an invented one or none at all (""),
\* and any level; "missing" when the JSON has no safety_level.
PlanAction == L3Actions \cup L2Actions \cup L4Actions \cup {"none", "", "invented"}
PlanLevel == {"L2", "L3", "L4", "N/A", "missing"}

\* A target is the sequence of its parts around the first "/".  An alert is
\* _issue_to_alert's labels: namespace and instance (both may be ""), node,
\* owner_kind, and of the alertname whether R2 or R3 names it.
TargetOf(alert) ==
    IF alert.namespace # "" /\ alert.instance # ""
    THEN <<alert.namespace, alert.instance>> ELSE <<>>

NoPlan == [action |-> "none", level |-> "N/A", target |-> <<>>]

\* Any action is pointed at the alert's pod.
PointAtAlert(plan, alert) ==
    IF TargetOf(alert) # <<>> /\ plan.action \notin {"none", ""}
    THEN [plan EXCEPT !.target = TargetOf(alert)]
    ELSE plan

\* R2: a crashing StatefulSet pod is restarted, by a reviewer's leave.  A plan that
\* names that action is left as it is, its level included.
ForceStatefulSet(plan, alert) ==
    IF /\ alert.owner = "StatefulSet" /\ alert.recoverable
       /\ plan.action # "restart_statefulset_pod" /\ TargetOf(alert) # <<>>
    THEN [action |-> "restart_statefulset_pod", level |-> "L2",
          target |-> TargetOf(alert)]
    ELSE plan

\* R3: what a restart does not cure is not restarted; the diagnosis or the
\* alertname says so.
DropFutileRestart(plan, alert, futileRca) ==
    IF (futileRca \/ alert.hopeless) /\ plan.action \in PlanRestarts
    THEN NoPlan ELSE plan

\* _post_process_plan.  R1: what has no controller is left alone.  Seeded bug: R3
\* before R2.
PostProcessBug(plan, alert, futileRca) ==
    LET pointed == PointAtAlert(plan, alert)
    IN  IF alert.owner \in {"BarePod", "Job"}
        THEN IF pointed.action = "none" THEN pointed ELSE NoPlan
        ELSE ForceStatefulSet(DropFutileRestart(pointed, alert, futileRca), alert)

PostProcess(plan, alert, futileRca) ==
    LET pointed == PointAtAlert(plan, alert)
    IN  IF alert.owner \in {"BarePod", "Job"}
        THEN IF pointed.action = "none" THEN pointed ELSE NoPlan
        ELSE DropFutileRestart(ForceStatefulSet(pointed, alert), alert, futileRca)

\* _validate_plan, for an action other than none.  L4 is valid whatever the action.
ValidPlan(plan) ==
    /\ plan.action # ""
    /\ plan.level = "L3" => plan.action \in L3Actions
    /\ plan.level = "L2" => plan.action \in L2Actions
    /\ plan.level # "L4" /\ plan.action \in L3Actions => plan.level = "L3"

\* The end of remediator_node: an invalid plan becomes none.
Clean(plan, alert, futileRca) ==
    LET p == PostProcess(plan, alert, futileRca)
    IN  IF p.action = "none" THEN [p EXCEPT !.level = "N/A"]
        ELSE IF ValidPlan(p) THEN p
        ELSE NoPlan

-----------------------------------------------------------------------------
\* _validate_target_in_alerts.
TargetInAlert(plan, alert) ==
    LET t == plan.target
    IN  /\ t # <<>>
        /\ plan.action \in NodeActions =>
             alert.node # "" /\ t \in {<<alert.node>>, <<"node", alert.node>>}
        /\ plan.action \in DeploymentActions =>
             Len(t) = 2 /\ t[1] = alert.namespace /\ t[1] # "" /\ t[2] # ""
        /\ plan.action \notin NodeActions \cup DeploymentActions => t = TargetOf(alert)

\* approval_gate_node's decision tree up to the rate limit, which it consults only
\* at "rate".  A plan without a level counts as L2.  env is what the gate reads of
\* the environment and the clock.  Seeded bug: L3 skips the target check.
GateLevel(plan) == IF plan.level = "missing" THEN "L2" ELSE plan.level

L3Path(env) ==
    IF ~env.heal \/ (env.business /\ ~env.dryRun) THEN "human_review" ELSE "rate"

GatePathBug(plan, alert, env) ==
    IF plan.action = "none" THEN "skip"
    ELSE IF GateLevel(plan) = "L4" THEN "reject"
    ELSE IF GateLevel(plan) = "L3" THEN L3Path(env)
    ELSE IF ~TargetInAlert(plan, alert) THEN "reject"
    ELSE IF GateLevel(plan) = "L2" THEN "human_review"
    ELSE "skip"

GatePath(plan, alert, env) ==
    IF plan.action = "none" THEN "skip"
    ELSE IF GateLevel(plan) = "L4" THEN "reject"
    ELSE IF ~TargetInAlert(plan, alert) THEN "reject"
    ELSE IF GateLevel(plan) = "L2" THEN "human_review"
    ELSE IF GateLevel(plan) = "L3" THEN L3Path(env)
    ELSE "skip"
=============================================================================
