------------------------------- MODULE Issues -------------------------------
(***************************************************************************)
(* The issues of an inspection: how the Inspector derives one from a pod   *)
(* (agents/inspector.py, tools/k8s_tools.py), how the MetricsInspector     *)
(* derives one from a time series (agents/metrics_inspector.py), which of  *)
(* them the policy file ignores (tools/policy.py), and how the scheduler   *)
(* groups and ranks them (main_inspect.py).                                *)
(***************************************************************************)
EXTENDS Integers, Sequences, FiniteSets

\* Of a pod, a node or the cluster: the namespace, the segments of the name between
\* dashes, and for a pod the kind of its controller.
CONSTANT Label

\* A pod's condition is its phase, the reason a container waits for ("" when none
\* waits), the reason one was last terminated for, whether all of them are ready, and
\* its restarts.
Unhealthy(c) ==
    c.phase \notin {"Running", "Succeeded"} \/ c.reason # "" \/ ~c.ready

StuckReasons ==
    {"ImagePullBackOff", "ErrImagePull", "InvalidImageName",
     "CreateContainerConfigError", "CreateContainerError", "RunContainerError"}

\* _classify_severity: what never heals by itself first, then by the restarts.
Severity(c) ==
    IF c.phase \in {"Failed", "Unknown"} THEN "critical"
    ELSE IF c.reason \in StuckReasons \/ c.phase = "Pending" THEN "high"
    ELSE IF c.restarts >= 1000 THEN "critical"
    ELSE IF c.restarts >= 100 THEN "high"
    ELSE IF c.restarts >= 10 THEN "medium"
    ELSE "low"

\* _classify_type: what a container waits for comes before what the last one died of.
TypeOf(c) ==
    IF c.reason = "CrashLoopBackOff" THEN "CrashLoopBackOff"
    ELSE IF c.reason \in {"ImagePullBackOff", "ErrImagePull"} THEN "ImagePullError"
    ELSE IF c.last = "OOMKilled" THEN "OOMKilled" ELSE "Unhealthy"

\* _build_issues_from_real_data.
PodIssue(r, c) ==
    [source |-> "pod", about |-> r, owner |-> Label[r].owner, type |-> TypeOf(c),
     severity |-> Severity(c), restarts |-> c.restarts, stuck |-> c.reason \in StuckReasons]

\* _make_issue.  owners is _load_live_resources' map, of no pod when the API failed.
MetricIssue(rule, r, owners) ==
    [source |-> "metrics", about |-> r,
     owner |-> IF r \in DOMAIN owners THEN owners[r] ELSE "Unknown", type |-> rule.type,
     severity |-> rule.severity, restarts |-> 0, stuck |-> FALSE]

-----------------------------------------------------------------------------
\* A rule of the policy file names a namespace and, unless it means all of it, pods:
\* pod or what pod_pattern matches (_match_one_rule).
Matches(rule, r) ==
    /\ rule.namespace = Label[r].namespace /\ rule.namespace # ""
    /\ rule.all \/ Label[r].name \in rule.pods

\* should_ignore.
Ignored(r, policy) == \E rule \in policy : Matches(rule, r)

-----------------------------------------------------------------------------
\* _service_prefix: a ReplicaSet's pods carry two generated segments, others one.
ServicePrefix(name, owner) ==
    LET generated == IF owner = "ReplicaSet" THEN 2 ELSE 1
    IN  IF Len(name) > generated THEN SubSeq(name, 1, Len(name) - generated) ELSE name

GroupKey(i) ==
    <<Label[i.about].namespace, i.type, ServicePrefix(Label[i.about].name, i.owner)>>

SevRank(i) ==
    CASE i.severity = "critical" -> 0
      [] i.severity = "high"     -> 1
      [] i.severity = "medium"   -> 2
      [] i.severity = "low"      -> 3

\* The member with the most restarts; the list was sorted by severity before.
Representative(members) ==
    CHOOSE i \in members : \A j \in members :
        \/ i.restarts > j.restarts
        \/ i.restarts = j.restarts /\ SevRank(i) <= SevRank(j)

\* _group_similar_issues, or every issue on its own with --no-dedup.
Grouped(issues, dedup) ==
    LET key(i) == IF dedup THEN GroupKey(i) ELSE i
    IN  {{i \in issues : key(i) = k} : k \in {key(i) : i \in issues}}

\* The groups of one cycle: the critical and high issues are diagnosed in full, the
\* medium ones lightly, the low ones not at all.  Seeded bug: medium issues only
\* when there is nothing worse.
Selected(issues, dedup, mode) ==
    LET severities == IF mode = "full" THEN {"critical", "high"} ELSE {"medium"}
    IN  {[members |-> m, lead |-> Representative(m), mode |-> mode] :
            m \in Grouped({i \in issues : i.severity \in severities}, dedup)}

GroupsBug(issues, dedup) ==
    IF Selected(issues, dedup, "full") # {} THEN Selected(issues, dedup, "full")
                                            ELSE Selected(issues, dedup, "light")

Groups(issues, dedup) ==
    Selected(issues, dedup, "full") \cup Selected(issues, dedup, "light")

\* The order of diagnosis, which leaves ties open: full ones first, then by the
\* representative's severity, what never heals by itself (not with --no-dedup), the
\* restarts.  Seeded bug: the mode is forgotten.
RankBug(g, dedup) ==
    <<IF dedup /\ g.lead.stuck THEN 0 ELSE 1, -g.lead.restarts, SevRank(g.lead), 0>>

Rank(g, dedup) ==
    <<IF g.mode = "full" THEN 0 ELSE 1, SevRank(g.lead),
      IF dedup /\ g.lead.stuck THEN 0 ELSE 1, -g.lead.restarts>>

Precedes(g, h, dedup) ==
    LET r == Rank(g, dedup) s == Rank(h, dedup)
    IN  \E n \in 1 .. 4 : r[n] < s[n] /\ \A m \in 1 .. n - 1 : r[m] = s[m]
=============================================================================
