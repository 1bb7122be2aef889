-------------------------- MODULE MCClusterActions --------------------------
(***************************************************************************)
(* ClusterActions with two actors, three templates and every kind of       *)
(* request.                                                                *)
(***************************************************************************)
EXTENDS ClusterActions, TLC

Plain(action) == [action |-> action, dryRun |-> FALSE, mode |-> "none", n |-> 0]
Scale(mode, n) == [action |-> "scale_deployment", dryRun |-> FALSE, mode |-> mode, n |-> n]

\* evict_pod has no implementation; one unit up and down is within MaxDelta, two is not.
Requests ==
    {Plain(action) : action \in PodActions \cup NodeActions \cup L2Actions}
    \cup {[Plain(action) EXCEPT !.dryRun = TRUE] :
            action \in {"restart_pod", "cordon_node", "rollback_deployment"}}
    \cup {Scale("delta", 1), Scale("delta", -1), Scale("delta", 2),
          Scale("replicas", 0), Scale("replicas", 3), Scale("replicas", 4), Scale("both", 1),
          Scale("replicas", -1)}

Versions == 1 .. 3

Symmetry == Permutations(Actor)
=============================================================================
