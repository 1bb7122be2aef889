---------------------------- MODULE HealPipeline ----------------------------
(***************************************************************************)
(* The pipeline of graph.py: one alert after the other goes through the    *)
(* agents Classifier, Investigator, Remediator, Approval Gate, Executor,   *)
(* Validator and Notifier, with the way back from a failed validation to   *)
(* the Investigator.  The alerts share the fault memory                    *)
(* (tools/fault_memory.py), the rate limit (tools/safety_guards.py) and    *)
(* the queue of the asynchronous validation.  What language models answer  *)
(* and what the cluster does is chosen freely.                             *)
(***************************************************************************)
EXTENDS Plans, RateLimit, Verdicts

CONSTANTS
    Alert,         \* alerts: the records of Plans, and the fault's fingerprint
    Proposal,      \* what the Remediator's model may answer
    Environment,   \* settings: AUTO_HEAL_ENABLED, AUTO_HEAL_DRY_RUN, VALIDATOR_ASYNC
    MaxRetries,    \* SELF_HEAL_MAX_RETRIES
    TTL,           \* FAULT_MEMORY_TTL_SEC
    DatabaseFails, \* whether a statement on a database may raise
    MaxTime,       \* bound: the clock stops here
    MaxAlerts      \* bound: alerts taken up

ASSUME RetriesAssumption == MaxRetries \in Int
ASSUME MemoryAssumption == TTL \in Nat /\ DatabaseFails \in BOOLEAN
ASSUME PipelineBoundsAssumption == MaxTime \in Nat /\ MaxAlerts \in Nat
ASSUME ProposalAssumption ==
    \A p \in Proposal : p \in [action : PlanAction, level : PlanLevel, target : {p.target}]
ASSUME EnvironmentAssumption ==
    Environment \subseteq [heal : BOOLEAN, dryRun : BOOLEAN, async : BOOLEAN]
\* A fingerprint is of one namespace and one alertname; a pod has one owner.
ASSUME AlertAssumption ==
    \A a, b \in Alert :
        /\ a.fault = b.fault => a.hopeless = b.hopeless
        /\ TargetOf(a) = TargetOf(b) => a.owner = b.owner

Fault == {a.fault : a \in Alert}
KeyOf(plan) == <<plan.target, plan.action>>

VARIABLES
    env,      \* the settings of this process
    st,       \* the AlertState of the alert in hand
    memory,   \* the table fault_memory: fingerprint -> entry
    queue,    \* pending verification tasks: plan and fingerprint
    \* history, read by the properties only
    taken,    \* alerts taken up so far
    runs,     \* real executions for the alert in hand
    effects,  \* key -> real executions so far
    successes \* what was seen to be cured: by which plan, as of when

pipelineVars == <<now, records, granted, env, st, memory, queue, taken, runs, effects,
                  successes>>
history == <<taken, runs, effects, successes>>

NoAlert == [namespace |-> "", instance |-> "", node |-> "", owner |-> "",
            recoverable |-> FALSE, hopeless |-> FALSE, fault |-> ""]

\* pc is the node to run.  diagnosed is retry_count; sound, futile and confident are
\* what matters of rca_hypothesis: it is not a fallback text, R3 finds one of its
\* hints in it, its confidence is "high".
Fresh == [pc |-> "idle", alert |-> NoAlert, diagnosed |-> 0, fromMemory |-> FALSE,
          sound |-> FALSE, futile |-> FALSE, confident |-> FALSE, plan |-> NoPlan,
          failedPlan |-> NoPlan, decision |-> "", execution |-> "", verdict |-> ""]

NoEntry == [plan |-> NoPlan, confident |-> FALSE, lastSuccess |-> -1]

Init ==
    /\ now = 0
    /\ records = {} /\ granted = {}
    /\ env \in Environment
    /\ st = Fresh
    /\ memory = [f \in Fault |-> NoEntry]
    /\ queue = {}
    /\ taken = 0 /\ runs = 0
    /\ effects = [k \in Key |-> 0]
    /\ successes = {}

Tick ==
    /\ now < MaxTime
    /\ now' = now + 1
    /\ UNCHANGED <<records, granted, env, st, memory, queue, history>>

-----------------------------------------------------------------------------
\* _run_cycle_body takes up the next alert; Triage, Aggregator and Classifier run,
\* and _route_by_severity leaves the minor ones to the Notifier.
TakeUp(a) ==
    /\ st.pc = "idle"
    /\ taken < MaxAlerts
    /\ taken' = taken + 1
    /\ runs' = 0
    /\ \E pc \in {"investigate", "notify"} :
         st' = [Fresh EXCEPT !.pc = pc, !.alert = a]
    /\ UNCHANGED <<now, records, granted, env, memory, queue, effects, successes>>

\* fault_memory.lookup.  Seeded bug: the age is not looked at.
RememberedBug(f) == memory[f] # NoEntry /\ memory[f].confident
Remembered(f) ==
    /\ memory[f] # NoEntry /\ memory[f].confident
    /\ now - memory[f].lastSuccess <= TTL

\* investigator_node, first time round, on a fault the memory knows.
Recall ==
    /\ st.pc = "investigate"
    /\ st.diagnosed = 0
    /\ Remembered(st.alert.fault)
    /\ st' = [st EXCEPT !.pc = "remediate", !.fromMemory = TRUE, !.diagnosed = 1,
                        !.sound = TRUE, !.confident = TRUE,
                        !.plan = memory[st.alert.fault].plan]
    /\ UNCHANGED <<now, records, granted, env, memory, queue, history>>

\* investigator_node, when a model is asked.  from_memory is only ever cleared the
\* first time round.
Diagnose ==
    /\ st.pc = "investigate"
    /\ ~(st.diagnosed = 0 /\ Remembered(st.alert.fault))
    /\ \E futile, sound, confident \in BOOLEAN :
         st' = [st EXCEPT !.pc = "remediate", !.diagnosed = @ + 1, !.sound = sound,
                          !.futile = futile, !.confident = confident]
    /\ UNCHANGED <<now, records, granted, env, memory, queue, history>>

\* remediator_node: a plan out of the memory stays as it is.
Remediate ==
    /\ st.pc = "remediate"
    /\ \E plan \in IF st.fromMemory THEN {st.plan}
                   ELSE IF ~st.sound THEN {NoPlan}
                   ELSE {NoPlan} \cup {Clean(p, st.alert, st.futile) : p \in Proposal} :
         st' = [st EXCEPT !.pc = "gate", !.plan = plan]
    /\ UNCHANGED <<now, records, granted, env, memory, queue, history>>

\* approval_gate_node.  The rate limit is consulted, and spent, last.  A plan for
\* review becomes a row of the approval table (ApprovalFlow), which the pipeline
\* never reads again.
Gate ==
    /\ st.pc = "gate"
    /\ \E business \in BOOLEAN :
         LET path == GatePath(st.plan, st.alert,
                       [heal |-> env.heal, dryRun |-> env.dryRun, business |-> business])
             key == KeyOf(st.plan)
         IN  \/ /\ path # "rate"
                /\ st' = [st EXCEPT !.pc = "notify", !.decision = path]
                /\ UNCHANGED <<records, granted>>
             \/ /\ path = "rate" /\ Full(key, now)
                /\ st' = [st EXCEPT !.pc = "notify", !.decision = "reject"]
                /\ records' = WithoutExpired(now)
                /\ UNCHANGED granted
             \/ /\ path = "rate" /\ ~Full(key, now)
                /\ st' = [st EXCEPT !.pc = "execute", !.decision = "executor"]
                /\ records' = WithoutExpired(now) \cup {NewRecord(key, now)}
                /\ granted' = granted \cup {NewRecord(key, now)}
    /\ UNCHANGED <<now, env, memory, queue, history>>

\* What the action finds in the cluster, and how often it strikes: _check_owner_safe
\* lets only ReplicaSets' and DaemonSets' pods be restarted (an Unknown owner may be
\* one); a pod action's target may be gone; any call may fail, or its answer be lost;
\* a node that is as it should be already counts as executed, in a dry run too.
Outcomes(action, owner) ==
    LET permitted == action \in PlanRestarts => owner \in {"ReplicaSet", "DaemonSet", "Unknown"}
        ended(status, strikes) == [status |-> status, strikes |-> strikes]
    IN  {ended("failed", 0)}
        \cup (IF action \in PodActions THEN {ended("aborted", 0)} ELSE {})
        \cup (IF action \in NodeActions THEN {ended("executed", 0)} ELSE {})
        \cup (IF ~permitted THEN {}
              ELSE IF env.dryRun THEN {ended("dry_run", 0)}
              ELSE {ended("executed", 1), ended("failed", 1)})

\* executor_node, and its double check.  Seeded bug: a failed execution is tried
\* again at once.
ExecuteBug ==
    /\ st.pc = "execute"
    /\ ~env.dryRun /\ runs < 4
    /\ \E outcome \in Outcomes(st.plan.action, st.alert.owner) :
         /\ st' = [st EXCEPT !.pc = IF outcome.status = "failed" THEN "execute" ELSE "validate",
                             !.execution = outcome.status]
         /\ runs' = runs + outcome.strikes
         /\ effects' = [effects EXCEPT ![KeyOf(st.plan)] = @ + outcome.strikes]
    /\ UNCHANGED <<now, records, granted, env, memory, queue, taken, successes>>

Execute ==
    /\ st.pc = "execute"
    /\ \E outcome \in IF st.plan.action \notin L3Actions
                      THEN {[status |-> "rejected", strikes |-> 0]}
                      ELSE IF ~env.heal THEN {[status |-> "skipped", strikes |-> 0]}
                      ELSE Outcomes(st.plan.action, st.alert.owner) :
         /\ st' = [st EXCEPT !.pc = "validate", !.execution = outcome.status]
         /\ runs' = runs + outcome.strikes
         /\ effects' = [effects EXCEPT ![KeyOf(st.plan)] = @ + outcome.strikes]
    /\ UNCHANGED <<now, records, granted, env, memory, queue, taken, successes>>

-----------------------------------------------------------------------------
(* The Validator, and the way on from it.                                  *)

\* _route_after_validator.  Seeded bugs: an open verdict is taken again at once; one
\* more round.
RouteAgainBug(verdict) ==
    IF verdict \in {"pending", "partial"} THEN "validate"
    ELSE IF verdict = "failed" /\ st.diagnosed < MaxRetries THEN "investigate" ELSE "notify"
RouteBug(verdict) ==
    IF verdict = "failed" /\ st.diagnosed <= MaxRetries THEN "investigate" ELSE "notify"
Route(verdict) ==
    IF verdict = "failed" /\ st.diagnosed < MaxRetries THEN "investigate" ELSE "notify"

\* What _validator_sync_path may find for an action, one observation at a time:
\* its verdict, and whether it returned early, without a snapshot of the pod.
Findings ==
    [a \in L3Actions |->
       {[verdict |-> SyncVerdict(a, o), early |-> Error(o) \/ Futile(o)] : o \in Observation}]

\* The success that goes into the memory, unless it came out of it.
Recordable(v) == v.verdict = "success" /\ ~v.early /\ ~st.fromMemory

Success == [fault |-> st.alert.fault, plan |-> st.plan, at |-> now,
            replayed |-> st.fromMemory]

\* Nothing was executed, or not on a pod.
ValidateNothing ==
    /\ st.pc = "validate"
    /\ st.execution # "executed" \/ Len(st.plan.target) # 2
    /\ st' = [st EXCEPT !.pc = Route("skipped"), !.verdict = "skipped"]
    /\ UNCHANGED <<now, records, granted, env, memory, queue, history>>

\* _validator_sync_path, chosen by VALIDATOR_ASYNC=false or because the task could
\* not be enqueued.
ValidateSync ==
    /\ st.pc = "validate"
    /\ st.execution = "executed" /\ Len(st.plan.target) = 2
    /\ ~env.async \/ DatabaseFails
    /\ \E v \in Findings[st.plan.action] :
         /\ st' = [st EXCEPT !.pc = Route(v.verdict), !.verdict = v.verdict,
                             !.failedPlan = IF v.verdict = "failed" /\ ~v.early
                                            THEN st.plan ELSE @]
         /\ \E saved \in IF DatabaseFails THEN BOOLEAN ELSE {TRUE} :
              memory' = IF Recordable(v) /\ saved
                        THEN [memory EXCEPT ![st.alert.fault] =
                                [plan |-> st.plan, confident |-> st.confident,
                                 lastSuccess |-> now]]
                        ELSE memory
         /\ successes' = IF v.verdict = "success" THEN successes \cup {Success}
                                                  ELSE successes
    /\ UNCHANGED <<now, records, granted, env, queue, taken, runs, effects>>

\* _validator_async_path: a futile restart is seen at once, all else is enqueued.
ValidateAsync ==
    /\ st.pc = "validate"
    /\ st.execution = "executed" /\ Len(st.plan.target) = 2
    /\ env.async
    /\ \E verdict \in {"escalate_human", "pending_async"} :
         /\ st' = [st EXCEPT !.pc = Route(verdict), !.verdict = verdict]
         /\ queue' = IF verdict = "pending_async"
                     THEN queue \cup {[fault |-> st.alert.fault, plan |-> st.plan,
                                       replayed |-> st.fromMemory]}
                     ELSE queue
    /\ UNCHANGED <<now, records, granted, env, memory, history>>

\* The verifier_worker closes a task (VerifierQueue): it writes no memory.
WorkerCloses ==
    /\ \E task \in queue, cured \in BOOLEAN :
         /\ queue' = queue \ {task}
         /\ successes' = IF cured
                         THEN successes \cup {[fault |-> task.fault, plan |-> task.plan,
                                               at |-> now, replayed |-> task.replayed]}
                         ELSE successes
    /\ UNCHANGED <<now, records, granted, env, st, memory, taken, runs, effects>>

\* notifier_node; the alert is done.
Notify ==
    /\ st.pc = "notify"
    /\ st' = Fresh
    /\ UNCHANGED <<now, records, granted, env, memory, queue, history>>

\* A node raises (a model or a database does not answer), and _run_cycle_body goes
\* on to the next alert; or the process ends, wherever it is, and is started again.
Abandon ==
    /\ DatabaseFails
    /\ st.pc # "idle"
    /\ st' = Fresh
    /\ UNCHANGED <<now, records, granted, env, memory, queue, history>>

Agent ==
    \/ Recall \/ Diagnose \/ Remediate \/ Gate \/ Execute
    \/ ValidateNothing \/ ValidateSync \/ ValidateAsync \/ Notify

Next ==
    \/ Tick
    \/ \E a \in Alert : TakeUp(a)
    \/ Agent
    \/ WorkerCloses
    \/ Abandon

Spec == Init /\ [][Next]_pipelineVars

\* The pipeline runs its nodes; nothing else has to happen.
FairSpec == Spec /\ WF_pipelineVars(Agent)

-----------------------------------------------------------------------------
(* Properties.                                                             *)

\* For one alert nothing is executed more often than SELF_HEAL_MAX_RETRIES allows
\* diagnoses, and once if it allows none: the loop back to the Investigator ends,
\* from the memory or not (_route_after_validator, investigator_node).
BoundedRuns == runs <= IF MaxRetries > 1 THEN MaxRetries ELSE 1

\* Every real execution of an action was granted by the rate limit, a repeated one
\* again: the way back from the Validator leads through the gate.
EffectsArePaid ==
    \A k \in Key : effects[k] <= Cardinality({g \in granted : g.key = k})

\* What is executed for real is a pod action on the alert's own pod, nothing
\* without a controller, no restart that the alertname rules out, and neither the
\* kill switch nor dry-run forbids it: also when the plan was not written for this
\* alert but comes out of the memory, past the Remediator's rules.
EffectsAreSafe ==
    [][runs' > runs =>
         /\ st.plan.action \in PodActions
         /\ st.plan.target = TargetOf(st.alert)
         /\ st.alert.owner \notin {"BarePod", "Job"}
         /\ st.alert.hopeless => st.plan.action \notin PlanRestarts
         /\ env.heal /\ ~env.dryRun]_pipelineVars

\* A plan is taken from the memory only if it cured the same fault at most TTL
\* before, after a diagnosis of its own: replays do not keep it alive (lookup,
\* record_success).
ReuseIsEarned ==
    [][st'.fromMemory /\ ~st.fromMemory =>
         \E s \in successes :
            /\ s.fault = st.alert.fault /\ s.plan = st'.plan
            /\ ~s.replayed /\ now - s.at <= TTL]_pipelineVars

\* Every alert that is taken up leaves the pipeline.
EveryAlertLeaves == (st.pc # "idle") ~> (st.pc = "idle")

\* state.py: the plan that failed and why are there to keep the Investigator and the
\* Remediator from writing the same plan again.  After a plan of the memory failed,
\* the gate is not shown that plan again.
FailedReplayIsReplaced ==
    st.pc = "gate" /\ st.fromMemory /\ st.failedPlan # NoPlan
        => st.plan # st.failedPlan
=============================================================================
