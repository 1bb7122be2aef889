--------------------------- MODULE MCHealPipeline ---------------------------
(***************************************************************************)
(* HealPipeline on small instances; the .cfg files give the other          *)
(* constants.                                                              *)
(***************************************************************************)
EXTENDS HealPipeline

Pod(instance, owner, hopeless, fault) ==
    [namespace |-> "a", instance |-> instance, node |-> "n", owner |-> owner,
     recoverable |-> FALSE, hopeless |-> hopeless, fault |-> fault]

\* A pod with two faults, one of which no restart helps; a pod without a controller.
Mixed == {Pod("p", "ReplicaSet", FALSE, "oom"), Pod("p", "ReplicaSet", TRUE, "image"),
          Pod("b", "BarePod", FALSE, "oom")}
One == {Pod("p", "ReplicaSet", FALSE, "oom")}

Restart == [action |-> "restart_pod", level |-> "L3", target |-> <<"a", "x">>]
Evict == [action |-> "delete_evicted_pod", level |-> "L3", target |-> <<>>]
Cordon == [action |-> "cordon_node", level |-> "L3", target |-> <<"n">>]
RestartOnly == {Restart}
Restarting == {Restart, Evict, Cordon, [Restart EXCEPT !.level = "missing"],
               [Restart EXCEPT !.action = "drain_node", !.level = "L4"]}

Keys == {<<TargetOf(a), p.action>> : a \in Alert, p \in Proposal}
\* A limit that is reached, and the default.
Tight == [k \in Keys |-> 2]
Default == [k \in Keys |-> 3]

On == [heal |-> TRUE, dryRun |-> FALSE, async |-> FALSE]
Sync == {On}
AnySetting == [heal : BOOLEAN, dryRun : BOOLEAN, async : BOOLEAN]
=============================================================================
