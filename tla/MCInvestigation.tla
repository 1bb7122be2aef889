--------------------------- MODULE MCInvestigation ---------------------------
(***************************************************************************)
(* Instances for TLC.                                                      *)
(***************************************************************************)
EXTENDS Investigation

CONSTANTS n1, n2

Nodes == {n1, n2}

call(tool, target, word, fit, hashable) ==
    [tool |-> tool, target |-> target, word |-> word, fit |-> fit, hashable |-> hashable]

\* A query whose arguments cannot be counted, a command on a node, one in a pod, and a
\* request for the node.
ToolCalls ==
    {call("query", "api", "", TRUE, FALSE),
     call("ssh", n1, "df", TRUE, TRUE),
     call("exec", "pod", "ls", TRUE, TRUE),
     call("askNode", n1, "no_trace", TRUE, TRUE)}

Keys == {KeyOf(c) : c \in ToolCalls}
Limits == [k \in Keys |-> IF k[1] \in {"askNode", "askPod"} THEN 1 ELSE 2]

Environments ==
    {[fc |-> TRUE, readonly |-> TRUE, requests |-> TRUE],
     [fc |-> FALSE, readonly |-> FALSE, requests |-> TRUE]}
=============================================================================
