--------------------------- MODULE ClusterActions ---------------------------
(***************************************************************************)
(* tools/remediation_actions.py against a cluster that others change too.  *)
(* Every action reads its object, decides on what it read, and then        *)
(* deletes or patches the object by its name: two calls of the API with    *)
(* anything between them.  The executor of the pipeline and the review     *)
(* CLIs are the actors.  The cluster is one pod's name, one node and one   *)
(* deployment with its ReplicaSets.                                        *)
(***************************************************************************)
EXTENDS Plans, FiniteSets

CONSTANTS
    Actor,       \* the processes that execute actions
    Request,     \* what execute_action may be asked for
    Version,     \* pod templates of the deployment, 1 .. n
    MaxDelta,    \* SCALE_MAX_DELTA
    MaxReplicas, \* SCALE_REPLICAS_MAX
    MaxCalls,    \* bound: calls of the actors
    MaxEvents    \* bound: changes others make

\* mode tells which of scale_deployment's replicas= and delta= is given, n is its value.
ASSUME RequestAssumption ==
    \A r \in Request :
        /\ r.action \in PlanAction /\ r.dryRun \in BOOLEAN
        /\ r.mode \in {"none", "both", "replicas", "delta"} /\ r.n \in Int
ASSUME ScaleAssumption == MaxDelta \in Nat /\ MaxReplicas \in Nat
ASSUME VersionAssumption == Version \subseteq Nat \ {0} /\ 1 \in Version
ASSUME ActionBoundsAssumption == MaxCalls \in Nat /\ MaxEvents \in Nat

\* A pod's status as the actions tell it apart: "image" is an ImagePullBackOff, the
\* Terminal ones are the phases Failed and Succeeded.
Terminal == {"evicted", "failed", "succeeded"}
Status == {"fine", "image"} \cup Terminal
Owner == {"ReplicaSet", "DaemonSet", "StatefulSet", "Job", "BarePod"}

Cleanups == {"delete_evicted_pod", "delete_completed_job_pod", "delete_failed_pod"}

VARIABLES
    pod,      \* who has the name: the how manieth, its owner and status, or "gone"
    cordoned, \* the node's spec.unschedulable
    replicas, template, \* the deployment's spec
    revision, \* its ReplicaSets' revision annotations, 0 for a template without one
    call,     \* each actor's call of execute_action
    focus,    \* bound: the object a behaviour is about; they do not touch each other
    \* history
    calls, events,
    counts,   \* replica counts during each actor's call
    lineage   \* the templates the deployment controller rolled out, in order

cluster == <<pod, cordoned, replicas, template, revision>>
vars == <<cluster, focus, call, calls, events, counts, lineage>>

\* No call has been made yet; after one, pc is "idle" again and ok the answer's "ok".
\* saw is what the read found: the pod, or how long the lineage was.
NoCall == [pc |-> "idle", req |-> [action |-> "none", dryRun |-> TRUE, mode |-> "none", n |-> 0],
           want |-> 0, saw |-> 0, ok |-> FALSE]

ASSUME NoCallIsNoRequest == NoCall.req \notin Request

Object == {"pod", "node", "deployment"}

Init ==
    /\ focus \in Object
    /\ pod \in IF focus = "pod" THEN [nth : {1}, owner : Owner, status : Status]
              ELSE {[nth |-> 1, owner |-> "ReplicaSet", status |-> "fine"]}
    /\ cordoned = FALSE
    /\ replicas = 2
    /\ template = 1
    /\ revision = [v \in Version |-> IF v = 1 THEN 1 ELSE 0]
    /\ call = [a \in Actor |-> NoCall]
    /\ calls = 0 /\ events = 0
    /\ counts = [a \in Actor |-> {}]
    /\ lineage = <<1>>

-----------------------------------------------------------------------------
(* The actions.                                                            *)

\* Whom a pod action deletes: the phases and reasons it asks for, and the owners
\* (_check_image_pull_issue, _check_owner_safe).  Seeded bug: anything that does not
\* run counts as failed.
DeletableBug(action, p) ==
    CASE action = "delete_evicted_pod"       -> p.status = "evicted"
      [] action = "delete_completed_job_pod" -> p.status = "succeeded"
      [] action = "delete_failed_pod"        -> p.status # "fine"
      [] action = "restart_pod"              -> p.owner \in {"ReplicaSet", "DaemonSet"}
      [] action = "restart_pod_for_image_pull" ->
           p.status = "image" /\ p.owner \in {"ReplicaSet", "DaemonSet"}
      [] action = "restart_statefulset_pod"  -> p.owner = "StatefulSet"

Deletable(action, p) ==
    CASE action = "delete_evicted_pod"       -> p.status = "evicted"
      [] action = "delete_completed_job_pod" -> p.status = "succeeded"
      [] action = "delete_failed_pod"        -> p.status \in {"evicted", "failed"}
      [] action = "restart_pod"              -> p.owner \in {"ReplicaSet", "DaemonSet"}
      [] action = "restart_pod_for_image_pull" ->
           p.status = "image" /\ p.owner \in {"ReplicaSet", "DaemonSet"}
      [] action = "restart_statefulset_pod"  -> p.owner = "StatefulSet"

Restarts == PlanRestarts
Deletions == Cleanups \cup Restarts

ObjectOf(action) ==
    IF action \in NodeActions THEN "node"
    ELSE IF action \in DeploymentActions THEN "deployment" ELSE "pod"

\* execute_action is called.
Call(a, r) ==
    /\ call[a].pc = "idle"
    /\ calls < MaxCalls /\ ObjectOf(r.action) = focus
    /\ calls' = calls + 1
    /\ call' = [call EXCEPT ![a] = [NoCall EXCEPT !.pc = "read", !.req = r, !.ok = call[a].ok]]
    /\ counts' = [counts EXCEPT ![a] = {replicas}]
    /\ UNCHANGED <<cluster, focus, events, lineage>>

\* The call returns.
Answer(a, ok) ==
    /\ call' = [call EXCEPT ![a] = [NoCall EXCEPT !.ok = ok]]
    /\ counts' = [b \in Actor |->
                    IF b # a /\ call[b].pc # "idle" THEN counts[b] \cup {replicas'} ELSE {}]

\* It goes on to write, unless it is a dry run.
GoOn(a, want, saw) ==
    IF call[a].req.dryRun
    THEN Answer(a, TRUE)
    ELSE /\ call' = [call EXCEPT ![a].pc = "write", ![a].want = want, ![a].saw = saw]
         /\ UNCHANGED counts

Asks(a, actions) == call[a].pc = "read" /\ call[a].req.action \in actions
ReadOnly == UNCHANGED <<cluster, focus, calls, events, lineage>>

ReadPod(a) ==
    /\ Asks(a, Deletions) /\ ReadOnly
    /\ pod.status # "gone"
    /\ IF Deletable(call[a].req.action, pod) THEN GoOn(a, 0, pod.nth) ELSE Answer(a, FALSE)

\* A node that is as wanted is left alone.  Seeded bug: uncordon_node has kept
\* cordon_node's test.
ReadNodeBug(a) ==
    /\ Asks(a, NodeActions) /\ ReadOnly
    /\ IF cordoned THEN Answer(a, TRUE) ELSE GoOn(a, 0, 0)

ReadNode(a) ==
    /\ Asks(a, NodeActions) /\ ReadOnly
    /\ IF cordoned = (call[a].req.action = "cordon_node") THEN Answer(a, TRUE) ELSE GoOn(a, 0, 0)

\* scale_deployment.  Seeded bug: only an upper bound.
Abs(n) == IF n < 0 THEN -n ELSE n

InScaleRangeBug(n) == n <= MaxReplicas
InScaleRange(n) == n \in 0 .. MaxReplicas

ReadScale(a) ==
    LET r == call[a].req
        target == IF r.mode = "delta" THEN replicas + r.n ELSE r.n
    IN  /\ Asks(a, {"scale_deployment"}) /\ ReadOnly
        /\ IF \/ r.mode \notin {"replicas", "delta"}
              \/ r.mode = "delta" /\ Abs(r.n) > MaxDelta
              \/ ~InScaleRange(target)
           THEN Answer(a, FALSE)
           ELSE IF target = replicas THEN Answer(a, TRUE)
           ELSE GoOn(a, target, 0)

\* rollback_deployment: the template of the ReplicaSet with the second highest
\* revision.  Seeded bug: the list sorted the other way round.
Listed == {v \in Version : revision[v] > 0}

PreviousBug == CHOOSE v \in Listed : Cardinality({w \in Listed : revision[w] < revision[v]}) = 1
Previous == CHOOSE v \in Listed : Cardinality({w \in Listed : revision[w] > revision[v]}) = 1

ReadRollback(a) ==
    /\ Asks(a, {"rollback_deployment"}) /\ ReadOnly
    /\ IF Cardinality(Listed) < 2 THEN Answer(a, FALSE)
       ELSE GoOn(a, Previous, Len(lineage))

\* The delete or the patch, by name: whoever has the name now.  Its answer may be lost.
Write(a) ==
    LET r == call[a].req
    IN  /\ call[a].pc = "write"
        /\ \/ /\ r.action \in Deletions /\ pod.status # "gone"
              /\ pod' = [pod EXCEPT !.status = "gone"]
              /\ UNCHANGED <<cordoned, replicas, template>>
           \/ /\ r.action \in NodeActions
              /\ cordoned' = (r.action = "cordon_node")
              /\ UNCHANGED <<pod, replicas, template>>
           \/ /\ r.action = "scale_deployment"
              /\ replicas' = call[a].want
              /\ UNCHANGED <<pod, cordoned, template>>
           \/ /\ r.action = "rollback_deployment"
              /\ template' = call[a].want
              /\ UNCHANGED <<pod, cordoned, replicas>>
        /\ \E answered \in BOOLEAN : Answer(a, answered)
        /\ UNCHANGED <<revision, focus, calls, events, lineage>>

\* No such action, no such object, or the API does not answer.
Fails(a) ==
    /\ call[a].pc # "idle" /\ ReadOnly
    /\ Answer(a, FALSE)

-----------------------------------------------------------------------------
(* The rest of the cluster.                                                *)

Event ==
    /\ events < MaxEvents
    /\ events' = events + 1
    /\ counts' = [a \in Actor |->
                    IF call[a].pc # "idle" THEN counts[a] \cup {replicas'} ELSE {}]
    /\ UNCHANGED <<focus, call, calls, revision, lineage>>

\* A pod changes until it is in a terminal phase; anyone may delete it.
PodChanges ==
    /\ focus = "pod"
    /\ pod.status # "gone"
    /\ \E status \in IF pod.status \in Terminal THEN {"gone"} ELSE Status \cup {"gone"} :
         pod' = [pod EXCEPT !.status = status]
    /\ UNCHANGED <<cordoned, replicas, template>>
    /\ Event

\* A StatefulSet gives the name to the successor, a user may give it to a pod without
\* a controller; ReplicaSets, DaemonSets and Jobs make names up.
NameTakenAgain ==
    /\ pod.status = "gone" /\ pod.owner \in {"StatefulSet", "BarePod"}
    /\ pod' = [pod EXCEPT !.nth = @ + 1, !.status = "fine"]
    /\ UNCHANGED <<cordoned, replicas, template>>
    /\ Event

SpecChanges ==
    /\ \/ /\ focus = "node"
          /\ cordoned' = ~cordoned /\ UNCHANGED <<replicas, template>>
       \/ /\ focus = "deployment"
          /\ replicas' \in 0 .. MaxReplicas + 1 /\ UNCHANGED <<cordoned, template>>
       \/ /\ focus = "deployment"
          /\ template' \in Version \ {template} /\ UNCHANGED <<cordoned, replicas>>
    /\ UNCHANGED pod
    /\ Event

\* The deployment controller makes the template's ReplicaSet the newest revision.
Settle ==
    /\ \E v \in Listed : revision[v] > revision[template]
    /\ revision' = [revision EXCEPT ![template] =
                      1 + CHOOSE top \in {revision[v] : v \in Listed} :
                            \A v \in Listed : revision[v] <= top]
    /\ lineage' = Append(lineage, template)
    /\ UNCHANGED <<pod, cordoned, replicas, template, focus, call, calls, events, counts>>

Next ==
    \/ \E a \in Actor :
         \/ \E r \in Request : Call(a, r)
         \/ ReadPod(a) \/ ReadNode(a) \/ ReadScale(a) \/ ReadRollback(a)
         \/ Write(a) \/ Fails(a)
    \/ PodChanges \/ NameTakenAgain \/ SpecChanges \/ Settle

Spec == Init /\ [][Next]_vars

-----------------------------------------------------------------------------
(* Properties.                                                             *)

TypeOK ==
    /\ focus \in Object
    /\ pod \in [nth : Nat, owner : Owner, status : Status \cup {"gone"}]
    /\ cordoned \in BOOLEAN
    /\ replicas \in Nat
    /\ template \in Version
    /\ revision \in [Version -> Nat]
    /\ call \in [Actor -> [pc : {"idle", "read", "write"}, req : Request \cup {NoCall.req},
                           want : Nat, saw : Nat, ok : BOOLEAN]]
    /\ calls \in Nat /\ events \in Nat
    /\ counts \in [Actor -> SUBSET Nat]
    /\ lineage \in Seq(Version)

\* The node and deployment actions are atomic to their callers, but for the count a
\* relative scaling starts from: other actors, other users, lost answers and
\* failures included.
Atomic == INSTANCE AtomicActions
    WITH NoRequest <- NoCall.req, ok <- [a \in Actor |-> call[a].ok],
         open <- [a \in Actor |-> IF call[a].pc = "idle" THEN NoCall.req ELSE call[a].req]

ImplementsAtomic == Atomic!AtomicSpec

Deletes(a) ==
    /\ call[a].pc = "write" /\ call'[a].pc = "idle"
    /\ pod.status # "gone" /\ pod'.status = "gone"

\* The pod that is deleted has ended, or the action is a restart and the pod's owner
\* creates another, unless the name has gone to another pod since the check (the
\* pod actions check and delete in two calls).
DeletionsAreWarranted ==
    [][\A a \in Actor :
         Deletes(a) =>
            \/ pod.status \in Terminal
            \/ call[a].req.action \in Restarts
               /\ pod.owner \in {"ReplicaSet", "DaemonSet", "StatefulSet"}
            \/ pod.nth # call[a].saw]_vars

\* A rollback that answers "ok" brings back the template that was rolled out before the
\* present one, also after earlier rollbacks have renumbered the revisions: if the
\* present one was the last to be rolled out when it looked, and still is
\* (rollback_deployment).
RollbackGoesBack ==
    [][\A a \in Actor :
         LET n == Len(lineage)
         IN  /\ call[a].pc = "write" /\ call'[a].pc = "idle" /\ call'[a].ok
             /\ call[a].req.action = "rollback_deployment"
             /\ call[a].saw = n /\ template = lineage[n]
             => n > 1 /\ template' = lineage[n - 1]]_vars
=============================================================================
