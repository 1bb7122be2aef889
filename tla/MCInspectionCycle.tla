------------------------- MODULE MCInspectionCycle -------------------------
(***************************************************************************)
(* InspectionCycle with two pods of one service, a pod of an ignored       *)
(* namespace, a node, and a metric rule of every kind.                     *)
(***************************************************************************)
EXTENDS InspectionCycle, TLC

CONSTANTS web1, web2, bare, node, cluster

Labels ==
    (web1 :> [namespace |-> "a", name |-> <<"web", "h", "x">>, owner |-> "ReplicaSet"])
    @@ (web2 :> [namespace |-> "a", name |-> <<"web", "h", "y">>, owner |-> "ReplicaSet"])
    @@ (bare :> [namespace |-> "b", name |-> <<"job", "x">>, owner |-> "BarePod"])
    @@ (node :> [namespace |-> "_node_", name |-> <<"node:n">>, owner |-> "Unknown"])
    @@ (cluster :> [namespace |-> "_cluster_", name |-> <<"(metric)">>, owner |-> "Unknown"])

In(phase, reason, restarts) ==
    [phase |-> phase, reason |-> reason, last |-> "", ready |-> FALSE, restarts |-> restarts]
Fine == [phase |-> "Running", reason |-> "", last |-> "", ready |-> TRUE, restarts |-> 0]

\* One pod of the service crashes now and then or cannot be reached, the other one is
\* well, crashes often or cannot pull its image; the third was out of memory and is not ready.
Conditions ==
    (web1 :> {In("Running", "CrashLoopBackOff", 10), In("Unknown", "CrashLoopBackOff", 5)})
    @@ (web2 :> {Fine, In("Running", "CrashLoopBackOff", 100), In("Pending", "ImagePullBackOff", 0)})
    @@ (bare :> {[In("Running", "", 9) EXCEPT !.last = "OOMKilled"]})
    @@ (node :> {Fine})

Rules ==
    {[type |-> "PodCpuThrottling", severity |-> "high", about |-> "pod"],
     [type |-> "NodeLoadHigh", severity |-> "medium", about |-> "node"],
     [type |-> "ApiServer5xxHigh", severity |-> "critical", about |-> "cluster"]}

\* All of one namespace, and one pod of the service.
Policies ==
    {{}, {[namespace |-> "b", all |-> TRUE, pods |-> {}],
          [namespace |-> "a", all |-> FALSE, pods |-> {<<"web", "h", "x">>}]}}

Settings == {[top |-> 0, dedup |-> TRUE], [top |-> 1, dedup |-> TRUE], [top |-> 2, dedup |-> FALSE]}
=============================================================================
