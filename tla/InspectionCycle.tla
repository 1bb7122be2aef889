-------------------------- MODULE InspectionCycle --------------------------
(***************************************************************************)
(* The scheduler (main_inspect.py): cycle after cycle it has the Inspector *)
(* list the pods and apply the policy file, has the MetricsInspector take  *)
(* a snapshot of the cluster and query its rules, groups what they found,  *)
(* and hands one group after the other to the pipeline (HealPipeline).     *)
(* The cluster and the policy file change in the meantime.                 *)
(***************************************************************************)
EXTENDS Issues

CONSTANTS
    Pod, Node,   \* the resources there may be
    Cluster,     \* what an issue of the whole cluster is about
    Condition,   \* for each of them, the conditions it may be in
    Rule,        \* the metric rules: type, severity and what they are about
    Policy,      \* what the policy file may say: a set of rules, none if it is unreadable
    Setting,     \* --top and --no-dedup
    MaxSeries,   \* bound: time series above a threshold
    MaxChanges,  \* bound: changes to the cluster and the policy file
    MaxAborts    \* bound: cycles that fail

Resource == Pod \cup Node

ASSUME RuleAssumption ==
    \A rule \in Rule : /\ rule.about \in {"pod", "node", "cluster"}
                       /\ rule.severity \in {"critical", "high", "medium", "low"}
ASSUME SettingAssumption == \A s \in Setting : s.top \in Nat /\ s.dedup \in BOOLEAN
ASSUME ConditionAssumption ==
    /\ IsFiniteSet(Resource) /\ IsFiniteSet(Rule)
    /\ \A r \in Resource : \A c \in Condition[r] : c.restarts \in Nat
ASSUME CycleBoundsAssumption == MaxSeries \in Nat /\ MaxChanges \in Nat /\ MaxAborts \in Nat
\* A name is of one resource; a node does not show up in the list of unhealthy pods.
ASSUME ResourceAssumption ==
    /\ \A r, s \in Resource :
         Label[r].namespace = Label[s].namespace /\ Label[r].name = Label[s].name => r = s
    /\ Label[Cluster] = [namespace |-> "_cluster_", name |-> <<"(metric)">>, owner |-> "Unknown"]
    /\ \A n \in Node : \A c \in Condition[n] : ~Unhealthy(c)

VARIABLES
    condition, \* of each resource that exists
    policy,    \* the policy file
    setting,   \* of this process
    pc,
    found,     \* the cycle's issues
    snapshot,  \* whether the MetricsInspector has a snapshot of the cluster
    owners,    \* the snapshot: the owner of each resource in it
    todo,      \* groups not diagnosed yet, and after the cycle those cut off
    reports,   \* groups that went through the pipeline
    audited,   \* low issues in the audit log
    \* history of the cycle
    listed,    \* the pods that were unhealthy when listed
    existed,   \* the resources there have been
    inForce,   \* what the policy file has said
    changes, aborts

world == <<condition, policy>>
results == <<found, snapshot, owners, todo, reports, audited, listed>>
vars == <<world, setting, pc, results, existed, inForce, changes, aborts>>

Existing == DOMAIN condition

Init ==
    /\ condition \in {c \in [Resource -> UNION {Condition[r] : r \in Resource}] :
                        \A r \in Resource : c[r] \in Condition[r]}
    /\ policy \in Policy
    /\ setting \in Setting
    /\ pc = "idle"
    /\ found = {} /\ snapshot = FALSE /\ owners = <<>>
    /\ todo = {} /\ reports = {} /\ audited = {} /\ listed = {}
    /\ existed = {} /\ inForce = {}
    /\ changes = 0 /\ aborts = 0

-----------------------------------------------------------------------------
\* _build_issues_from_real_data.
Collect ==
    /\ pc = "idle"
    /\ pc' = "filter"
    /\ listed' = {r \in Existing : Unhealthy(condition[r])}
    /\ found' = {PodIssue(r, condition[r]) : r \in listed'}
    /\ existed' = Existing /\ inForce' = {policy}
    /\ snapshot' = FALSE /\ owners' = <<>>
    /\ todo' = {} /\ reports' = {} /\ audited' = {}
    /\ UNCHANGED <<world, setting, changes, aborts>>

\* load_policies and filter_issues.  Seeded bug: all rules have to match.
FilterBug ==
    /\ pc = "filter"
    /\ pc' = "snapshot"
    /\ found' = {i \in found : policy = {} \/ \E rule \in policy : ~Matches(rule, i.about)}
    /\ UNCHANGED <<world, setting, snapshot, owners, todo, reports, audited, listed,
                   existed, inForce, changes, aborts>>

Filter ==
    /\ pc = "filter"
    /\ pc' = "snapshot"
    /\ found' = {i \in found : ~Ignored(i.about, policy)}
    /\ UNCHANGED <<world, setting, snapshot, owners, todo, reports, audited, listed,
                   existed, inForce, changes, aborts>>

\* _load_live_resources, which may fail.
Snapshot ==
    /\ pc = "snapshot"
    /\ pc' = "query"
    /\ snapshot' \in BOOLEAN
    /\ owners' = [r \in IF snapshot' THEN Existing ELSE {} |-> Label[r].owner]
    /\ UNCHANGED <<world, setting, found, todo, reports, audited, listed, existed, inForce,
                   changes, aborts>>

\* The time series a rule may find above its threshold: also of resources that are gone.
Series ==
    {[rule |-> rule, about |-> r] : rule \in {x \in Rule : x.about = "pod"}, r \in Pod}
    \cup {[rule |-> rule, about |-> r] : rule \in {x \in Rule : x.about = "node"}, r \in Node}
    \cup {[rule |-> rule, about |-> Cluster] : rule \in {x \in Rule : x.about = "cluster"}}

\* _run_rule: series of what the snapshot does not know are dropped.  Seeded bug: they
\* are not.
StaleBug(s) == FALSE
Stale(s) == snapshot /\ s.about # Cluster /\ s.about \notin DOMAIN owners

\* The rules are queried, any of which may fail, and the scheduler groups the issues.
Query ==
    /\ pc = "query"
    /\ pc' = "diagnose"
    /\ \E series \in SUBSET Series :
         /\ Cardinality(series) <= MaxSeries
         /\ found' = found \cup {MetricIssue(s.rule, s.about, owners) :
                                 s \in {x \in series : ~Stale(x)}}
    /\ todo' = Groups(found', setting.dedup)
    /\ UNCHANGED <<world, setting, snapshot, owners, reports, audited, listed, existed,
                   inForce, changes, aborts>>

\* One group's representative goes through the pipeline, which may raise; --top 0 sets
\* no limit.
Cut == setting.top > 0 /\ Cardinality(reports) >= setting.top

Diagnose ==
    /\ pc = "diagnose" /\ ~Cut
    /\ \E g \in todo :
         /\ \A h \in todo : ~Precedes(h, g, setting.dedup)
         /\ todo' = todo \ {g}
         /\ reports' = reports \cup {g}
    /\ UNCHANGED <<world, setting, pc, found, snapshot, owners, audited, listed, existed,
                   inForce, changes, aborts>>

\* The low issues are written to the audit log, and the cycle is over.  Seeded bug: those
\* of the list before the policy.
AuditBug ==
    /\ pc = "diagnose" /\ (Cut \/ todo = {})
    /\ pc' = "idle"
    /\ audited' = {i \in {PodIssue(r, condition[r]) : r \in listed \cap Existing} : i.severity = "low"}
    /\ UNCHANGED <<world, setting, found, snapshot, owners, todo, reports, listed, existed,
                   inForce, changes, aborts>>

Audit ==
    /\ pc = "diagnose" /\ (Cut \/ todo = {})
    /\ pc' = "idle"
    /\ audited' = {i \in found : i.severity = "low"}
    /\ UNCHANGED <<world, setting, found, snapshot, owners, todo, reports, listed, existed,
                   inForce, changes, aborts>>

\* The API raises while the pods are listed, or the process ends and is started again.
Abort ==
    /\ aborts < MaxAborts
    /\ aborts' = aborts + 1
    /\ pc' = "idle"
    /\ found' = {} /\ snapshot' = FALSE /\ owners' = <<>>
    /\ todo' = {} /\ reports' = {} /\ audited' = {} /\ listed' = {}
    /\ existed' = {} /\ inForce' = {}
    /\ UNCHANGED <<world, setting, changes>>

\* A resource changes, goes or comes; the policy file is edited.
Change ==
    /\ changes < MaxChanges
    /\ changes' = changes + 1
    /\ \/ /\ UNCHANGED policy
          /\ \E r \in Resource :
               \/ \E c \in Condition[r] :
                    condition' = [s \in Existing \cup {r} |-> IF s = r THEN c ELSE condition[s]]
               \/ condition' = [s \in Existing \ {r} |-> condition[s]]
       \/ policy' \in Policy /\ UNCHANGED condition
    /\ existed' = existed \cup DOMAIN condition'
    /\ inForce' = inForce \cup {policy'}
    /\ UNCHANGED <<setting, pc, results, aborts>>

Cycle == Collect \/ Filter \/ Snapshot \/ Query \/ Diagnose \/ Audit

Next == Cycle \/ Abort \/ Change

Spec == Init /\ [][Next]_vars

\* With --interval, cycle follows on cycle.
FairSpec == Spec /\ WF_vars(Cycle)

-----------------------------------------------------------------------------
(* Properties.                                                             *)

TypeOK ==
    /\ Existing \subseteq Resource /\ \A r \in Existing : condition[r] \in Condition[r]
    /\ policy \in Policy /\ setting \in Setting
    /\ pc \in {"idle", "filter", "snapshot", "query", "diagnose"}
    /\ \A i \in found : i.about \in Resource \cup {Cluster}
    /\ snapshot \in BOOLEAN
    /\ DOMAIN owners \in SUBSET Resource
    /\ \A g \in todo \cup reports : g.members \subseteq found /\ g.lead \in g.members
    /\ audited \subseteq found
    /\ listed \subseteq Resource /\ existed \subseteq Resource /\ inForce \subseteq Policy
    /\ changes \in 0 .. MaxChanges /\ aborts \in 0 .. MaxAborts

Covered == UNION {g.members : g \in reports}

\* After a cycle every pod that was unhealthy when the pods were listed is in a report or
\* in the audit log, unless a rule of the policy file names it or --top was reached; and
\* no issue is in two reports, so that the coverage in the summary is not exaggerated.
NothingIsForgotten ==
    pc = "idle" =>
        /\ \A p \in listed :
             \/ p \in {i.about : i \in Covered \cup audited}
             \/ \E said \in inForce : Ignored(p, said)
             \/ setting.top > 0 /\ Cardinality(reports) = setting.top
        /\ \A g, h \in reports : g = h \/ g.members \cap h.members = {}

\* What --top cuts off is never worse than what was diagnosed: a critical or high group
\* does not make way for a medium one, nor a representative for a less severe one.
CutsAreLesser ==
    pc = "idle" =>
        \A g \in reports, h \in todo :
            /\ g.mode = "light" => h.mode = "light"
            /\ SevRank(g.lead) <= SevRank(h.lead)

\* With the cluster's snapshot at hand, the pipeline is given alerts of resources that
\* have existed during the cycle only, with their real owner; R1 to R3 rely on it.
AlertsAreReal ==
    \A g \in reports :
        \/ g.lead.about = Cluster
        \/ g.lead.about \in existed /\ g.lead.owner = Label[g.lead.about].owner
        \/ g.lead.source = "metrics" /\ ~snapshot

\* A pod issue is diagnosed only if the policy file let it pass at some time in the
\* cycle: an edited file counts from the next cycle on, without a restart.
PolicyIsFresh ==
    \A i \in Covered : i.source = "pod" => \E said \in inForce : ~Ignored(i.about, said)

\* A pod that stays unhealthy, is more than a low issue and is not ignored is diagnosed
\* in some cycle, when --top does not limit them.
NeedsDiagnosis(p) ==
    /\ p \in Existing /\ Unhealthy(condition[p]) /\ Severity(condition[p]) # "low"
    /\ ~Ignored(p, policy)

PersistentFaultIsDiagnosed ==
    \A p \in Pod :
        setting.top = 0 /\ NeedsDiagnosis(p)
            ~> ~NeedsDiagnosis(p) \/ \E i \in Covered : i.about = p

\* README: the policy file keeps namespaces and pods out of the inspection's pipeline.
\* What it has named all through the cycle is in no report.
IgnoredIsLeftAlone ==
    \A i \in Covered : \E said \in inForce : ~Ignored(i.about, said)
=============================================================================
