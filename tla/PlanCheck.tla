------------------------------ MODULE PlanCheck ------------------------------
(***************************************************************************)
(* One plan on its way through Plans: a model proposes it for an alert and *)
(* a diagnosis, the Remediator cleans it, the gate decides on it.          *)
(***************************************************************************)
EXTENDS Plans

\* The Inspector's alerts are of a pod, the MetricsInspector's of a pod, a node or
\* the whole cluster.  R2 and R3 name different alertnames, all of pods.
PodAlert ==
    [namespace : {"a"}, instance : {"p"}, node : {"n"},
     owner : {"ReplicaSet", "StatefulSet", "BarePod", "Job", "Unknown"},
     recoverable : BOOLEAN, hopeless : BOOLEAN]

NodeAlert == [namespace |-> "_node_", instance |-> "node:n", node |-> "n",
              owner |-> "Unknown", recoverable |-> FALSE, hopeless |-> FALSE]
ClusterAlert == [NodeAlert EXCEPT !.namespace = "_cluster_", !.instance = "(metric)",
                                  !.node = ""]

Alert ==
    {a \in PodAlert : ~(a.recoverable /\ a.hopeless)} \cup {NodeAlert, ClusterAlert}

Proposal ==
    [action : PlanAction, level : PlanLevel,
     target : {<<>>, <<"n">>, <<"a", "p">>, <<"a", "web">>, <<"b", "p">>}]

Environment == [heal : BOOLEAN, dryRun : BOOLEAN, business : BOOLEAN]

VARIABLES
    alert, futileRca, proposal,
    plan,  \* the plan in the state, cleaned or not
    env,   \* what the gate read
    path   \* where the plan is: "proposed", "cleaned" or the gate's path

vars == <<alert, futileRca, proposal, plan, env, path>>

Off == [heal |-> FALSE, dryRun |-> TRUE, business |-> FALSE]

Init ==
    /\ alert \in Alert
    /\ futileRca \in BOOLEAN
    /\ proposal \in Proposal
    /\ plan = proposal
    /\ env = Off
    /\ path = "proposed"

Remediate ==
    /\ path = "proposed"
    /\ plan' = Clean(plan, alert, futileRca)
    /\ path' = "cleaned"
    /\ UNCHANGED <<alert, futileRca, proposal, env>>

Decide ==
    /\ path = "cleaned"
    /\ env' \in Environment
    /\ path' = GatePath(plan, alert, env')
    /\ UNCHANGED <<alert, futileRca, proposal, plan>>

Next == Remediate \/ Decide

Spec == Init /\ [][Next]_vars

-----------------------------------------------------------------------------
(* Properties.                                                             *)

\* Whatever the model answers, a plan that goes on to be executed unattended is a
\* pod action of the white list, on the alert's own pod, on nothing without a
\* controller, no restart that cannot help, and within the kill switch and the
\* business hours (remediator_node and approval_gate_node together).
AutoPlanIsSafe ==
    path = "rate" =>
        /\ plan.action \in PodActions
        /\ plan.target = TargetOf(alert) /\ plan.target # <<>>
        /\ alert.owner \notin {"BarePod", "Job"}
        /\ futileRca \/ alert.hopeless => plan.action \notin PlanRestarts
        /\ env.heal /\ (env.dryRun \/ ~env.business)

\* No reviewer is asked about a restart that cannot help: rule R3 has the last
\* word over rule R2 (_post_process_plan).
FutileRestartIsNeverReviewed ==
    path = "human_review" /\ plan.action \in PlanRestarts
        => ~futileRca /\ ~alert.hopeless
=============================================================================
