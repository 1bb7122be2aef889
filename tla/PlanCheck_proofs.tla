-------------------------- MODULE PlanCheck_proofs --------------------------
(***************************************************************************)
(* Proofs about Plans, for every plan a model may write and every alert    *)
(* that names a pod, a node or the cluster; and what follows for           *)
(* PlanCheck.                                                              *)
(***************************************************************************)
EXTENDS PlanCheck, TLAPS

\* A plan, of any action, level and target.
IsPlan(p) == p = [action |-> p.action, level |-> p.level, target |-> p.target]

\* The labels the rules look at.  Every alert of the inspectors has a namespace and
\* an instance.  "node/<name>" is also a way to write a node, so that a namespace of
\* that name is left out.
Placed(a) ==
    /\ a.namespace \notin {"", "node"} /\ a.instance # ""
    /\ a.hopeless \in BOOLEAN

\* What is left to run unattended: the conclusion of AutoPlanIsSafe.
Safe(p, a, futileCause, e) ==
    /\ p.action \in PodActions
    /\ p.target = TargetOf(a) /\ p.target # <<>>
    /\ a.owner \notin {"BarePod", "Job"}
    /\ futileCause \/ a.hopeless => p.action \notin PlanRestarts
    /\ e.heal /\ (e.dryRun \/ ~e.business)

LEMMA AlertsArePlaced ==
    ASSUME NEW a, Placed(a)
    PROVE  TargetOf(a) = <<a.namespace, a.instance>> /\ TargetOf(a) # <<>>
<1>1. TargetOf(a) = <<a.namespace, a.instance>>
  BY DEF Placed, TargetOf
<1>2. Len(<<a.namespace, a.instance>>) = 2 /\ Len(<<>>) = 0
  OBVIOUS
<1> QED
  BY <1>1, <1>2

\* The rules R1 to R3, for a plan of any action, level and target: what they leave is
\* aimed at the alert's own pod, is not for a pod without a controller, and is no
\* futile restart (_post_process_plan).
LEMMA PostProcessed ==
    ASSUME NEW p, IsPlan(p), NEW a, Placed(a), NEW f \in BOOLEAN,
           PostProcess(p, a, f).action \notin {"none", ""}
    PROVE  /\ PostProcess(p, a, f).target = TargetOf(a)
           /\ a.owner \notin {"BarePod", "Job"}
           /\ f \/ a.hopeless => PostProcess(p, a, f).action \notin PlanRestarts
<1> DEFINE pointed == PointAtAlert(p, a)
           forced == ForceStatefulSet(pointed, a)
           dropped == DropFutileRestart(forced, a, f)
<1>1. pointed.action \notin {"none", ""} => pointed.target = TargetOf(a)
  BY AlertsArePlaced DEF PointAtAlert, IsPlan
<1> HIDE DEF pointed
<1>2. forced.action \notin {"none", ""} => forced.target = TargetOf(a)
  BY <1>1 DEF ForceStatefulSet
<1> HIDE DEF forced
<1>3. /\ dropped.action \notin {"none", ""} => dropped.target = TargetOf(a)
      /\ f \/ a.hopeless => dropped.action \notin PlanRestarts
  BY <1>2 DEF DropFutileRestart, NoPlan, PlanRestarts
<1> HIDE DEF dropped
<1>4. a.owner \notin {"BarePod", "Job"}
  BY DEF PostProcess, NoPlan, pointed
<1>5. PostProcess(p, a, f) = dropped
  BY <1>4 DEF PostProcess, pointed, forced, dropped
<1> QED
  BY <1>3, <1>4, <1>5

\* A plan that still acts after the cleaning went through the rules unchanged by the
\* schema's fallback (remediator_node).
LEMMA CleanedPlan ==
    ASSUME NEW p, IsPlan(p), NEW a, NEW f \in BOOLEAN, Clean(p, a, f).action # "none"
    PROVE  Clean(p, a, f) = PostProcess(p, a, f) /\ ValidPlan(PostProcess(p, a, f))
<1> DEFINE q == PostProcess(p, a, f)
           c == Clean(p, a, f)
<1>1. q.action # "none"
  <2>1. CASE q.action = "none"
    <3>1. c = [q EXCEPT !.level = "N/A"]
      BY <2>1 DEF Clean
    <3>2. IsPlan(q)
      <4> DEFINE pointed == PointAtAlert(p, a)
                 forced == ForceStatefulSet(pointed, a)
      <4>1. IsPlan(pointed) /\ IsPlan(NoPlan)
        BY DEF PointAtAlert, IsPlan, NoPlan
      <4>2. q \in {NoPlan, pointed, DropFutileRestart(forced, a, f)}
        BY DEF PostProcess
      <4> HIDE DEF pointed, q
      <4>3. IsPlan(forced)
        BY <4>1 DEF ForceStatefulSet, IsPlan
      <4> HIDE DEF forced
      <4>4. DropFutileRestart(forced, a, f) \in {NoPlan, forced}
        BY DEF DropFutileRestart
      <4> QED
        BY <4>1, <4>2, <4>3, <4>4
    <3>3. c.action = "none"
      <4> HIDE DEF q, c
      <4> QED
        BY <2>1, <3>1, <3>2 DEF IsPlan
    <3> QED
      BY <3>3
  <2> QED
    BY <2>1
<1> QED
  BY <1>1 DEF Clean, NoPlan

\* Whatever a model writes, an action no list names included, and whatever the alert:
\* what passes the Remediator and the gate to the rate limit is safe (remediator_node,
\* approval_gate_node).
THEOREM RatedPlanIsSafe ==
    ASSUME NEW p, IsPlan(p), NEW a, Placed(a), NEW f \in BOOLEAN,
           NEW e \in Environment, GatePath(Clean(p, a, f), a, e) = "rate"
    PROVE  Safe(Clean(p, a, f), a, f, e)
<1> DEFINE q == PostProcess(p, a, f)
           c == Clean(p, a, f)
<1>1. /\ c.action # "none" /\ c.level = "L3" /\ TargetInAlert(c, a)
      /\ e.heal /\ ~(e.business /\ ~e.dryRun)
  BY DEF GatePath, GateLevel, L3Path
<1>2. c = q /\ ValidPlan(q)
  BY <1>1, CleanedPlan
<1> HIDE DEF c
<1>3. q.action \in L3Actions
  BY <1>1, <1>2 DEF ValidPlan
<1>4. q.action \notin {"none", ""}
  BY <1>3 DEF L3Actions, PodActions, NodeActions
<1>5. /\ q.target = TargetOf(a) /\ a.owner \notin {"BarePod", "Job"}
      /\ f \/ a.hopeless => q.action \notin PlanRestarts
  BY <1>4, PostProcessed
<1> HIDE DEF q
<1>6. q.action \notin NodeActions
  <2> SUFFICES ASSUME q.action \in NodeActions PROVE FALSE
    OBVIOUS
  <2>1. q.target = <<a.namespace, a.instance>> /\ q.target # <<>>
    BY <1>5, AlertsArePlaced
  <2>2. q.target \in {<<a.node>>, <<"node", a.node>>}
    <3>1. TargetInAlert(q, a)
      BY <1>1, <1>2
    <3> QED
      BY <2>1, <3>1 DEF TargetInAlert
  <2>3. a.namespace # "node"
    BY DEF Placed
  <2>4. Len(<<a.namespace, a.instance>>) = 2 /\ Len(<<a.node>>) = 1
    OBVIOUS
  <2>5. <<a.namespace, a.instance>> = <<"node", a.node>>
    BY <2>1, <2>2, <2>4
  <2> QED
    BY <2>3, <2>5
<1>7. q.action \in PodActions
  BY <1>3, <1>6 DEF L3Actions
<1>8. TargetOf(a) # <<>>
  BY AlertsArePlaced
<1> QED
  BY <1>1, <1>2, <1>5, <1>7, <1>8 DEF Safe, c, Environment

-----------------------------------------------------------------------------
\* Where a plan is, and what it was made from.
PathInv ==
    /\ Placed(alert) /\ futileRca \in BOOLEAN /\ proposal \in Proposal
    /\ path = "proposed" => plan = proposal
    /\ path # "proposed" => plan = Clean(proposal, alert, futileRca)
    /\ path \notin {"proposed", "cleaned"} =>
         env \in Environment /\ path = GatePath(plan, alert, env)

LEMMA InitPathInv == Init => PathInv
<1> SUFFICES ASSUME Init PROVE PathInv
  OBVIOUS
<1>1. Placed(NodeAlert) /\ Placed(ClusterAlert)
  <2>1. ClusterAlert.namespace = "_cluster_" /\ ClusterAlert.instance = "(metric)"
        /\ ClusterAlert.hopeless = FALSE
    BY DEF ClusterAlert, NodeAlert
  <2> QED
    BY <2>1 DEF NodeAlert, Placed
<1>2. \A a \in PodAlert : Placed(a)
  BY DEF PodAlert, Placed
<1>3. Placed(alert)
  BY <1>1, <1>2 DEF Init, Alert
<1> QED
  BY <1>3 DEF Init, PathInv

LEMMA NextPathInv == PathInv /\ [Next]_vars => PathInv'
<1> SUFFICES ASSUME PathInv, [Next]_vars PROVE PathInv'
  OBVIOUS
<1>1. CASE Remediate
  BY <1>1 DEF Remediate, PathInv
<1>2. CASE Decide
  <2>1. GatePath(plan, alert, env') \notin {"proposed", "cleaned"}
    BY DEF GatePath, L3Path
  <2> QED
    BY <1>2, <2>1 DEF Decide, PathInv
<1>3. CASE UNCHANGED vars
  BY <1>3 DEF vars, PathInv
<1> QED
  BY <1>1, <1>2, <1>3 DEF Next

\* Whatever the model answers, a plan that goes on to be executed unattended is safe
\* (remediator_node and approval_gate_node): RatedPlanIsSafe along PlanCheck's steps.
THEOREM AutoPlansAreSafe == Spec => []AutoPlanIsSafe
<1>1. PathInv => AutoPlanIsSafe
  <2> SUFFICES ASSUME PathInv, path = "rate" PROVE Safe(plan, alert, futileRca, env)
    BY DEF AutoPlanIsSafe, Safe
  <2>1. plan = Clean(proposal, alert, futileRca) /\ env \in Environment
        /\ GatePath(plan, alert, env) = "rate"
    BY DEF PathInv
  <2>2. IsPlan(proposal)
    BY DEF PathInv, Proposal, IsPlan
  <2>3. Placed(alert) /\ futileRca \in BOOLEAN
    BY DEF PathInv
  <2> QED
    BY <2>1, <2>2, <2>3, RatedPlanIsSafe
<1> QED
  BY <1>1, InitPathInv, NextPathInv, PTL DEF Spec

\* Whatever the model answers, no reviewer is asked about a restart that cannot help:
\* rule R3 comes after rule R2 and after the plan was aimed (_post_process_plan).
THEOREM FutileRestartsStayUnreviewed == Spec => []FutileRestartIsNeverReviewed
<1>1. PathInv => FutileRestartIsNeverReviewed
  <2> SUFFICES ASSUME PathInv, path = "human_review", plan.action \in PlanRestarts
               PROVE  ~futileRca /\ ~alert.hopeless
    BY DEF FutileRestartIsNeverReviewed
  <2>1. plan = Clean(proposal, alert, futileRca)
    BY DEF PathInv
  <2>2. IsPlan(proposal) /\ Placed(alert) /\ futileRca \in BOOLEAN
    BY DEF PathInv, Proposal, IsPlan
  <2>3. plan.action \notin {"none", ""}
    BY DEF PlanRestarts
  <2>4. plan = PostProcess(proposal, alert, futileRca)
    BY <2>1, <2>2, <2>3, CleanedPlan
  <2> QED
    BY <2>2, <2>3, <2>4, PostProcessed DEF Placed
<1> QED
  BY <1>1, InitPathInv, NextPathInv, PTL DEF Spec
=============================================================================
