# Formal models of the AIOps multi-agent platform

The repository runs inspections of a Kubernetes cluster: every anomaly becomes an
alert that a LangGraph pipeline of agents diagnoses, and may remedy, under guards
that keep a language model from doing damage. Three SQLite tables outlive the
process (approvals, verification tasks, fault memory) and a fourth counts what may
still be done (rate limit). This directory models the parts that decide *what is
looked at, what is executed, how often, and on whose word*, checks the models with TLC
and proves the central ones with TLAPS.

What a language model answers, what the cluster does and what a person decides is
chosen freely in every model: a property that holds, holds whatever they do.

## 1. Inventory

| Component | State it keeps | Operations | Interacts with |
|---|---|---|---|
| `main_inspect.py` (scheduler) | the issues and groups of a cycle | merge, group, rank and cut the issues, take up groups one by one, catch what an alert or a cycle raises, audit the low issues; start two daemon threads that die with it | all agents |
| `agents/inspector.py`, `tools/k8s_tools.py` | - | list the unhealthy pods, classify them, apply the policy file | cluster, policy |
| `agents/metrics_inspector.py`, `tools/metrics_rules.py` | - (a snapshot per cycle) | query the rules, drop series of what is gone | Prometheus, cluster |
| `tools/policy.py` | - (a file) | load, match, filter | - |
| `graph.py` | `AlertState` of one alert | edges; the routers after Classifier, Gate and Validator | agents |
| `agents/triage, aggregator, classifier` | - | shape the alert, summarise, set the severity | models |
| `agents/investigator.py` | `retry_count`, `from_memory`, RCA; in a loop: evidence, call counter, drafts | look up the memory, run one of two tool loops, count the round | fault memory, tools, approval_exec |
| `tools/ssh_tools.py` | the cached list of nodes | read-only commands on a node or in a pod, requests for others | safety_guards, approval_exec, cluster |
| `agents/remediator.py` | `remediation_plan` | ask a model, R1/R2/R3, validate | models |
| `agents/approval_gate.py` | `approval_decision` | decision tree, target check, rate limit, row for review | safety_guards, approval_store |
| `agents/executor.py` | `execution_status` | double check, pre-flight check, execute | remediation_actions |
| `agents/validator.py` | `validation_result`, failure context | judge a pod now, or enqueue the judgement | verifier_store, fault memory |
| `agents/verifier_worker.py` | a batch of tasks | claim, judge, reschedule or close, announce | verifier_store, IM |
| `agents/approval_exec_worker.py` | a batch of commands | expire, list, run, save, remember | approval_store, fault memory, ssh, kubectl |
| `scripts/aiops_review.py` | - (a process per call) | approve (and execute and judge), deny | approval_store, remediation_actions |
| `tools/approval_store.py` | table `approvals` | one SQL statement, or SELECT and UPDATE, per call | - |
| `tools/approval_exec.py` | - | refuse or submit a diagnostic command, approve it itself | approval_store |
| `tools/verifier_store.py` | table `verification_tasks` | enqueue, claim_due, update_status | - |
| `tools/fault_memory.py` | tables `fault_memory`, `diagnostic_cmd_history` | lookup, record_success, record_diagnostic_cmd | - |
| `tools/safety_guards.py` | table `rate_limit_records`, audit list | allow | - |
| `tools/remediation_actions.py` | - (the cluster) | ten actions, each a read and a write by name; white lists, snapshots | Kubernetes |
| `tools/change_tracker, mock_tools, tool_schemas, im_notify, llm_factory, ...` | - | read-only queries, messages, clients | cluster, IM |

What is hard here:

- **Interleaving of processes.** Every invocation of the review CLI is a process of
  its own, beside the main process with its pipeline and two daemon threads. The
  stores' `_lock` is a `threading.Lock`: it orders threads, never processes. A call
  that is a SELECT and an UPDATE, or a DELETE, a COUNT and an INSERT, can be cut.
- **Stale copies.** Both daemons work through a batch they read earlier; every cluster
  action decides on an object it read and then writes by name; the metrics are older
  than the snapshot they are filtered with; the list of nodes is cached.
- **Free answers.** The diagnosis loop takes whatever a model answers: nothing, drafts,
  several calls at once, the same call for ever.
- **Crashes.** The daemons end with the main process, which by default ends after a
  single inspection; what was run and not yet saved is run again.
- **Clocks.** TTLs of approvals and of the memory, the window of the rate limit, the
  three offsets of the verification, all compared with `int(time.time())`.
- **A loop with a memory.** A failed validation goes back to the diagnosis; a plan
  may come out of the memory instead of a diagnosis, past all rules.
- **One question answered in several places** (three judgements of a pod; a missing
  safety level).

What makes each part correct (the hazards in `PROJECT.json` give the lines):

| Component | Correct when | Property |
|---|---|---|
| approval store, CLI, daemon | nothing runs without a timely approval | `RunsAreGranted` |
| | nothing runs twice but for a lost result; one approval, one remediation | `OneRunPerLoss`, `RunsPerGrant` |
| | a denied row never runs, a row follows the documented lifecycle | `DeniedNeverRuns`, `ImplementsLifecycle` |
| | approved commands settle, undecided ones expire | `ApprovedCommandSettles`, `UndecidedCommandExpires` |
| fault memory | what the Investigator is told of happened; only an earned, fresh plan is reused | `HistoryIsReal`, `ReuseIsEarned` |
| validator, CLI (judgement) | three implementations agree where it matters | `AsyncIsMostPatient` |
| verifier store, worker | each task is closed once and for all, announced as closed, not too early, in the end | `ImplementsPromise`, `TimeoutIsEarned`, `EveryTaskCloses` |
| remediator, gate | what runs unattended is safe whatever the model wrote | `AutoPlanIsSafe`, `FutileRestartIsNeverReviewed` |
| safety guards | processes that share the table exceed the hourly limit by two grants each but one at most | `WindowHolds` |
| graph, executor, scheduler | the retry loop ends, each round of it is bounded, paid for and safe | `EveryAlertLeaves`, `BoundedRuns`, `EffectsArePaid`, `EffectsAreSafe` |
| cluster actions | a call takes effect at once or not at all; a deletion hits what was checked or what took its name; a rollback goes back one rollout | `ImplementsAtomic`, `DeletionsAreWarranted`, `RollbackGoesBack` |
| inspectors, policy, scheduler | what is unhealthy is reported, audited, ignored or cut off; what is cut off is lesser; a fault that stays is diagnosed | `NothingIsForgotten`, `CutsAreLesser`, `PersistentFaultIsDiagnosed` |
| | alerts are of resources that exist, with their real owner; an edited policy file counts from the next cycle on | `AlertsAreReal`, `PolicyIsFresh` |
| investigator | the loop ends, nothing runs three times, a conclusion rests on something | `EveryDiagnosisEnds`, `NothingRunsThrice`, `ConclusionsAreGrounded` |
| ssh_tools, approval_exec | commands and requests are rated over all diagnoses, and go to nodes of the cluster | `ActsAreRated`, `NodesAreKnown` |

## 2. Modules

| Module | Models | State | Actions |
|---|---|---|---|
| `ApprovalStore` | `approval_store.py` | `row` (the table), `now` | operators, one per SQL statement |
| `ApprovalFlow` | gate and tool submitting, CLI, `approval_exec_worker` | `op` (where each decider is inside a call), `worker` (the daemon), `memory`; histories `runs`, `lost`, `grants`, `denials` | one per statement of the store and per step of the callers |
| `ApprovalLifecycle` | the promise of the store's docstring | `status`, `effects` | submit, decide, expire, take effect, finish |
| `ApprovalFlow_proofs` | theorems | | |
| `Verdicts` | the three judgements of a pod | none (operators) | |
| `VerifierQueue` | `verifier_store.py`, `verifier_worker.py`, the enqueueing | `row`, `worker`, `told` | Enqueue, ClaimDue, VerifyOnce, CloseTask, Reschedule, UpdateFails, NotifyTerminal, Start, Exit |
| `VerifierPromise` | what the asynchronous verification promises | `status`, `told` | |
| `VerifierQueue_proofs` | theorems, also about `Verdicts` | | |
| `Plans` | R1/R2/R3, validation, target check, decision tree | none (operators) | |
| `PlanCheck` | one proposal through `Plans` | | Remediate, Decide |
| `PlanCheck_proofs` | theorems | | |
| `RateLimit` | the statements of `allow()` | `records`, `now` | operators |
| `RateLimitFlow` | processes calling `allow()` | `call` | Allow, Delete, Count or Refuse, Insert, Break |
| `RateLimitFlow_proofs` | theorems | | |
| `HealPipeline` | the graph with memory, rate limit and validation | `st` (the `AlertState`), `env`, `memory`, `queue`, `records`; histories `runs`, `effects`, `successes` | one per node, plus Tick, WorkerCloses, Abandon |
| `HealPipeline_proofs` | theorems | | |
| `Issues` | `_classify_*`, `_make_issue`, `policy.py`, grouping and ranking | none (operators) | |
| `InspectionCycle` | `run_inspector`, `run_metrics_inspector`, `_run_cycle_body`, `main_loop` | `condition` (the cluster), `policy`, `found`, `owners` (the snapshot), `todo`, `reports`, `audited`; histories `listed`, `existed`, `inForce` | Collect, Filter, Snapshot, Query, Diagnose, Audit, Abort; Change |
| `InspectionCycle_proofs` | theorems | | |
| `Investigation` | both loops of `investigator.py`, `ssh_tools.py`, the requests of `approval_exec.py` | `d` (the diagnosis), `cache` (`_NODE_CACHE`), `records`, `nodes`; histories `acts`, `used`, `present` | Begin, TakeCalls, UseTool, Interrupt, Raise, AskAgain, Accept, GiveUp; Tick, ClusterChanges |
| `Investigation_proofs` | theorems | | |
| `ClusterActions` | `remediation_actions.py` | `pod`, `cordoned`, `replicas`, `template`, `revision` (the cluster), `call`; histories `counts`, `lineage` | Call, ReadPod, ReadNode, ReadScale, ReadRollback, Write, Fails; four for the rest of the cluster |
| `AtomicActions` | what a caller of the node and deployment actions may rely on | `cordoned`, `replicas`, `open`, `ok` | Begin, Return, Elsewhere |
| `ClusterActions_proofs` | theorems | | |
| `MC...` | small instances | | |

`HealPipeline` extends `Plans`, `RateLimit` and `Verdicts` and so composes them: the
Remediator's step uses `Clean`, the gate's step `GatePath` and `Full`, the Validator's
step `SyncVerdict`. It takes `allow()` as one step, because one pipeline runs in a
process and its calls are kept apart by the lock; `RateLimitFlow` is where they are
not. `Investigation` extends `RateLimit` too: its commands and requests draw on the same
table. The approval table and the verification queue are modelled in full in their own
modules; in `HealPipeline` a plan for review leaves, and a queued task may be closed
at any time. `InspectionCycle` hands its groups to what `HealPipeline` takes up, one
after the other; `HealPipeline`'s Diagnose is one pass through `Investigation`, and its
Execute one call of `ClusterActions`.

How code becomes a step: a statement on a database is one step, for SQLite makes it
atomic; what a thread does between two statements belongs to the step before or after
it; a call of a model, of Kubernetes or of ssh is a step with a free outcome; where
the process may end between two steps there is an action that ends it. A raised
exception is an action of its own where a handler catches it (`SaveFails`,
`UpdateFails`, `Break`, `Abandon`).

Names starting as in the code keep the code's name in TLA+ (`MarkExecuted`,
`ClaimDue`, `ROUND_OFFSETS`). Operators ending in `Bug` are not part of any
specification: each is a plausible error in the definition it precedes and shows that a
property notices it (`PROJECT.json`, "mutants").

## 3. Runs

A run of the same name as its module is the module's one passing run.

### Approvals (`MCApprovalFlow`)

| Run | Expect | Shows |
|---|---|---|
| `ApprovalRace` | pass | one auto-approved command, a remediation, two reviewers, a crash, a lost save: nothing runs without a timely grant (`RunsAreGranted`), no command twice except for a lost result (`OneRunPerLoss`), the history shown to the Investigator is true (`HistoryIsReal`); both reviewers may pass the test on the status and both execute the remediation, but neither twice for one approval (`RunsPerGrant`) |
| `ApprovalSerial` | pass | with one reviewer at a time and no auto-approval the system implements `ApprovalLifecycle`, a denied row never runs, the invocation interrupted anywhere; approved commands settle, undecided ones expire |
| `ApprovalDenyRace` | violation | two reviewers: an approval overwrites a deny, and the denied command runs |

Bounds: two reviewers are enough for every race of a row (SELECT, UPDATE), as a third
would repeat what the second does; without the bound of `RunsPerGrant` TLC finds the
trace in which both execute the remediation. With a TTL of 0 and a clock to one a row is
at the limit and then late, as soon as the clock moves; what is well in time differs
from what is at the limit in nothing. One crash and one lost save each show that a run
is repeated, and `lost` counts them. `ApprovalSerial` has two commands and a batch of
one, so that one of them has to wait, and a remediation. Fairness: the clock runs, the
main process is started
again (it is a periodic job) and the daemon thread keeps looping; a reviewer owes
nothing. Reviewers and commands are interchangeable (symmetry, in safety runs only).

### Verification (`MCVerifierQueue`)

| Run | Expect | Shows |
|---|---|---|
| `VerifierQueue` | pass | one process implements `VerifierPromise` (a task is closed once, and announced as it was closed), a timeout comes after the third offset only, every task is closed in the end |

Bounds: offsets 1, 2, 4 are three different times of which the last gap is widest (a
daemon may be late by more than the first gap); two tasks and a batch of one, so that
a due task waits; one end of the process and one failed update, at any point. Fairness
as above. With two processes on one table the promise is not kept (nothing marks a
claimed row, so the later one overwrites a final status), and the store does not
intend it; that no task is given up early is proved for any number of them.

### Plans and rate limit (`PlanCheck`, `MCRateLimitFlow`)

| Run | Expect | Shows |
|---|---|---|
| `PlanSafe` | pass | for every action, level and kind of target a model may answer and every kind of alert: what is let through to run unattended is a pod action on the alert's own pod, nothing without a controller, no futile restart; and no reviewer is asked about a futile restart |
| `RateShared` | pass | two processes whose calls overlap: no window holds more than two grants beyond the limit (`WindowHolds`) |

`PlanCheck` is not bounded: its sets are all the cases the code distinguishes. A plan
ends its path there, so deadlock is not checked. In `RateShared` calls overlap between
any two statements and may break off there, and the clock may move inside a call, since
`allow()` reads it before it waits for the lock. A unit of time is the window, so that a
record is exactly at the cutoff or behind it; a clock to three moves one call past the
next window while the other still has its old time. The bound is exact: TLC refutes it
less one, for two processes and for three. The first grant too many comes of counting
before the other inserts, the second of counting, with an old time, what the other has
swept with a new one.

### The pipeline (`MCHealPipeline`)

| Run | Expect | Shows |
|---|---|---|
| `HealPipeline` | pass | `BoundedRuns`, `EffectsArePaid`, `EffectsAreSafe`, `ReuseIsEarned` and `EveryAlertLeaves` under every setting, with failing databases, lost answers of the cluster and the end of the process anywhere |
| `HealReplay` | violation | the remembered plan that failed is tried again after the new diagnosis |

Bounds: two alerts in a row are needed for the memory to matter (one writes, one reads)
and enough for it: an entry written out of a replay would need three, which is why
`ReuseIsEarned` also demands that the success was not a replay. Three kinds of alert:
two faults of one pod and a pod without a controller that shares a fingerprint with
it. A unit of time is as long as the rate limit's window and longer than an entry
lives: both the fresh and the expired case occur, and a limit of two lets the rate
limit refuse. When the alerts are used up and the clock has run out the model stops,
so deadlock is not checked in these runs. Fairness: the nodes of the pipeline run
(LangGraph calls one after the other). The models' and the cluster's calls are taken
to return; they have timeouts in the code.

### Diagnosis (`MCInvestigation`)

| Run | Expect | Shows |
|---|---|---|
| `Investigation` | pass | `EveryDiagnosisEnds`, `NothingRunsThrice`, `ConclusionsAreGrounded`, `ActsAreRated` and `NodesAreKnown`, whatever the model answers |

Bounds: two diagnoses in a row, because the rate limit's table and the node cache
outlive the first; two steps of up to two calls each are the fewest in which a call
comes up a third time, with another call in between. Of the four calls one cannot be
counted (an argument that is a dictionary), two draw on the limit of commands and one on
that of requests; limits of two and one stand for five and three. Before a diagnosis
begins at most one grant has been made, so that it may use up a limit that an earlier
one has begun. A cached list lives one unit of time, and a node may leave in between.
The two settings are function calling with all switches on, and ReAct with the
read-only tools switched off. Fairness: the loop runs on, for the model's client, the
API (`timeout_seconds=10`), ssh and kubectl (`SSH_CMD_TIMEOUT_SEC`) have timeouts. After
the last diagnosis the model stops, so deadlock is not checked.

### Inspection (`MCInspectionCycle`)

| Run | Expect | Shows |
|---|---|---|
| `InspectionCycle` | pass | `NothingIsForgotten`, `CutsAreLesser`, `AlertsAreReal`, `PolicyIsFresh`, `PersistentFaultIsDiagnosed` with and without grouping, with and without `--top` |
| `IgnoredMetric` | violation | a metric of a pod in an ignored namespace is diagnosed |

Bounds: two pods of one service, whose conditions differ in severity, in what stands
first in a group and in whether it can heal; a pod without a controller in a namespace
the policy file may name; a node; a rule of each kind (pod, node, cluster), each of
another severity. `--top` 1 and 2 cut, 0 does not. Two time series at once are enough for
a metric to share a group's rank with a pod, and to be cut off; one change of the
cluster or of the policy file falls between any two steps of a cycle, one cycle
fails. The Kubernetes client is taken to be configured (`_kube_ok`): without it the
Inspector finds nothing. Fairness: with `--interval` cycle follows on cycle;
`PersistentFaultIsDiagnosed` is about that mode.

### Cluster actions (`MCClusterActions`)

| Run | Expect | Shows |
|---|---|---|
| `ClusterActions` | pass | `ImplementsAtomic`, `DeletionsAreWarranted` and `RollbackGoesBack` with two processes, other users and lost answers |

Bounds: two actors, three calls and two changes by others let a call's read and write
be parted by another call and by a change to and fro. Three templates are needed for a
rollback after a rollback to be told from a step forward. A scaling by one is inside, by
two outside `MaxDelta`; three replicas are the most, four are asked for. An action
touches the pod, the node or the deployment only, so `focus` picks one of them for a
behaviour: no interleaving is lost, for no property relates two of them. The bounds
stop the model, so deadlock is not checked. What is read may be gone when it is written;
that is stated, not assumed away: `AtomicActions` lets a relative scaling start from any
count there was during the call, and `DeletionsAreWarranted` excepts a pod that took the
name since the check.

### Seen while modelling, and in no run

The models say what the code does here, and no run states what a comment or a document
says instead:

- two processes on one database exceed the hourly limit together, by as much as
  `WindowHolds` says (`safety_guards.py:54`; line 5 invites replicas to share it, and
  README.md:378 promises three an hour at most);
- a failure is final after two diagnoses, where `graph.py:40` says three: `retry_count`
  is incremented when the first one ends (`investigator.py:710`);
- the limit on requests is kept per `trace_id`, which the model fills in and no prompt
  tells it: all diagnoses share `no_trace`, and an invented one has a limit of its own
  (`approval_exec.py:144`);
- an argument that is a list or a dictionary makes the call counter raise, past the
  `except` three lines above it, and the alert has no diagnosis (`investigator.py:479`);
  so do, without function calling, a null `thought` and a `key_evidence` that is no list
  of strings (lines 551 and 702);
- the docstring's "two in a row" is counted over the whole diagnosis
  (`investigator.py:402`);
- a refused or failed call is evidence like any other: a diagnosis that has nothing else
  is no "诊断未完成" to the Remediator (`investigator.py:499`, `remediator.py:369`);
- a group is diagnosed as its member with the most restarts, whose severity may be less
  than another member's (`main_inspect.py:143`), and with enough critical and high groups
  medium ones never have their turn (`main_inspect.py:236`); the coverage of a
  cycle counts failed diagnoses (`main_inspect.py:355`);
- without the snapshot a metric's issue has the owner `Unknown`, which R1 does not take
  for a pod without a controller (`metrics_inspector.py:147`); the snapshot's nodes are all
  nodes, not the ready ones (lines 45 and 78);
- a StatefulSet's pod that is recreated between the check and the deletion is deleted
  again (`remediation_actions.py:340`); two scalings by a delta may count as one (line 510);
  `replicas=` is bounded by the total only (lines 468 and 512); a rollback before the
  deployment controller has seen the last change takes the wrong template for the
  present one (line 623);
- a command approved in time is executed however late the daemon comes to it
  (`approval_store.py:323`; README.md:460);
- a remediation nobody decides on stays pending (`approval_store.py:360` sweeps
  diagnostic rows only; docstring, line 12);
- a deny of an auto-approved command is refused (`aiops_review.py:375`;
  `approval_exec.py:238` tells operators to deny);
- a plan written as the prompt asks for a node or a deployment is redirected to the
  alert's pod (`remediator.py:201`; lines 84 and 85), and R2 leaves the right action
  with a wrong level alone (`remediator.py:217`);
- a high-risk action without a level is put to a reviewer (`approval_gate.py:139`;
  README.md:367);
- a sibling passes for the successor, an API error for a deletion, and the worker's
  judgement of a pod that is gone is not the Validator's (`validator.py:79`,
  `verifier_worker.py:95`); a failed verdict closes a task in its first round
  (`verifier_worker.py:218`);
- a failure seen without a pod leaves no context for the new diagnosis
  (`validator.py:286`); a success of the asynchronous mode is not remembered
  (`verifier_worker.py:220`); a remembered plan names the pod it was made for, and is
  rejected for its siblings (`fault_memory.py:76`).

## 4. Proofs

Every safety property of the passing runs, invariant, action property or refinement, is
stated by a theorem for every value of the constants, under the assumptions named in
the modules (`ASSUME`) and the hypotheses named here. The invariants the proofs go by
were checked with TLC on the runs' instances before they were proved.

`ApprovalFlow_proofs`, for every set of rows and reviewers, every TTL, bound and number
of crashes:

- `TypeCorrect`: `Spec => []TypeOK`. The part that is not about types is that the daemon's
  index stays inside its batch.
- `OnlyGrantedRuns`: `Spec => []RunsAreGranted`. It is not inductive: `GrantInv` adds
  where a grant is on its way to an execution. An approved row has a timely grant,
  even when a deny or an expiry has meanwhile changed its status; a decider between
  SELECT and UPDATE found the row in time; every task in the daemon's batch, a copy,
  has a grant. Grants are never taken back, which makes stale copies harmless.
- `OneRunPerLostResult`: `Spec => []OneRunPerLoss`. `RunInv` accounts for every run: it
  has been saved, was lost, or is in the daemon's hand; and no task ahead of the daemon
  has a result.
- `HistoryTellsTheTruth`: `Spec => []HistoryIsReal`. `MemoryInv` counts the command that
  was run and is not recorded yet.
- `OneRunPerGrant`: `Spec => []RunsPerGrant`, for any number of reviewers racing for a
  row. `Paid` counts, beside the runs of a remediation, the reviewers that have written
  their grant and not yet executed; `GrantsDiffer` says that whoever is about to write a
  grant has none of that row yet.
- `OneReviewerDeniesForGood` and `OneReviewerKeepsTheLifecycle`: `DeniedNeverRuns` and the
  refinement of `ApprovalLifecycle`, for one reviewer and no auto-approval; with a second
  reviewer `ApprovalDenyRace` refutes them. `SerialInv` says what a single reviewer makes
  true: the row it works on is as its SELECT found it, but for the expiry sweep, the
  daemon's tasks stay approved, and a denied row stays denied.

`VerifierQueue_proofs`, for every set of tasks and all increasing offsets:

- `QueueTypeCorrect`: `Spec => []TypeOK`, for any number of processes.
- `TimeoutsAreEarned`: `Spec => TimeoutIsEarned`, for any number of processes, by
  `DueInv`: a pending row's check time is at or after the offset of its round, and a
  claimed copy was due, in its round, when it was claimed, whatever other processes
  have done to the row since. The clock's bound is used once, to see that the clamp in
  `NextCheckAt` costs nobody time (`HorizonAssumption`).
- `OneProcessKeepsThePromise`: the refinement of `VerifierPromise` by one process. By
  `PromiseInv` the tasks of a batch differ, those not yet handled are still
  pending, and the one that is about to be announced has the status that was judged and
  has not been announced.
- `AsyncIsMostPatient`: for every action, of any name, and every observation the worker's
  judgement fails only what the Validator's and the CLI's both fail, and accepts what
  either accepts. The judgements differ in their lists of deletions and restarts;
  `GoneIsMonotone` says that longer lists only better a judgement.

`PlanCheck_proofs`:

- `RatedPlanIsSafe`: for any plan whatever (an action no list names, any target) and any
  alert with a namespace and an instance, what `Clean` and `GatePath` let through to the
  rate limit is safe, by what each of `Plans`' operators leaves of a plan. One
  assumption beside that: no namespace is called `node`, since `node/<name>` also
  writes a node.
- `AutoPlansAreSafe`: `Spec => []AutoPlanIsSafe`, from it along `PlanCheck`'s two steps.
- `FutileRestartsStayUnreviewed`: `Spec => []FutileRestartIsNeverReviewed`. Both go by
  `PathInv`, which remembers that the plan in hand is a cleaned one.

`RateLimitFlow_proofs`, for all keys, limits and windows, any number of processes, and
calls that overlap and break off anywhere:

- `SharingIsBounded`: `Spec => []WindowHolds`. `WindowHolds` looks at windows that begin at
  a grant, `WindowInv` at all of them, in two phases. While nothing of a window is swept
  (`Unswept`), whoever counts counts all of it, and once it is full only those can add to
  it who are past their count: one less than all, for the one that filled it was among
  them. A sweep that takes something of it comes after its end (`Swept`): from then on
  only calls that began before can add to it, one each, and the sweeper's is none of them.
- `OneProcessKeepsTheLimit`: with one process, no window at all holds more than the
  limit.

`HealPipeline_proofs`, for every set of alerts, proposals and settings, every retry limit
and TTL:

- `RetriesAreBounded`: `Spec => []BoundedRuns`, by `LoopInv`: the alert has been executed
  less often than diagnosed when it comes to the Executor, and the way back is open only
  while diagnoses are left.
- `EveryEffectIsPaid`: `Spec => []EffectsArePaid`, by `PaidInv`, which counts the grant of an
  alert on its way from the gate to the Executor. That two grants are never one record
  is a lemma of its own (`OneMoreGrant`): records are numbered per key.
- `EveryReuseIsEarned`: `Spec => ReuseIsEarned`, by `MemoryInv`: behind every entry is a
  success that was no replay.
- `EveryEffectIsSafe`: `Spec => EffectsAreSafe`, if the alerts have a namespace and an
  instance, as those of the inspectors do. A plan written for the alert is safe by
  `RatedPlanIsSafe`, cited through an instance of `PlanCheck_proofs`. A remembered one
  passes no rule but the gate's target check; `PlanInv` says that it was safe for some
  alert of the same fault, and `AlertAssumption` that alerts of a fault agree on what no
  restart helps and alerts of a pod on its owner.

`Investigation_proofs`, for every set of nodes and calls, all limits, and any number of
diagnoses, steps and calls in a message:

- `InvestigationTypeCorrect`: `Spec => []TypeOK`.
- `NoCallRunsThrice` and `EveryConclusionIsGrounded`: `Spec => []NothingRunsThrice` and
  `Spec => []ConclusionsAreGrounded`, both by `LoopInv`: the call counter of the loop is
  what was run, evidence is there exactly if something was, and a step comes back to the
  model only with evidence or after a draft.
- `EveryActIsRated`: `Spec => []ActsAreRated`, by what the records of the table, swept and
  counted in one step, say of every window (`GrantInv`) and one act per grant (`ActInv`).
- `ActsGoToNodes`: `Spec => NodesAreKnown`, by `NodeInv`: what is in the cached list was in
  the cluster when it was fetched. It needs a cluster with a node and a cache that
  lives at least one unit of time.

`InspectionCycle_proofs`, for every finite set of resources and rules, any policy and
any conditions:

- `CycleTypeCorrect`: `Spec => []TypeOK`; a group's representative is one of its members
  (`RepresentativeIsMember`).
- `NoPodIsForgotten`, `TheWorstComeFirst`, `EveryAlertIsReal`, `ThePolicyIsFresh`:
  `[]NothingIsForgotten`, `[]CutsAreLesser`, `[]AlertsAreReal`, `[]PolicyIsFresh`. `CycleInv`
  follows an issue through the cycle: `FoundInv`, it is of a resource that existed and,
  once filtered, passed a policy of the cycle; `GroupsInv`, the groups are apart and those
  taken up rank no lower than those left; `CoverInv`, what was listed is an issue or
  named by the policy, and every issue is low or in a group. That grouping makes groups
  apart and loses nothing (`AllGroups`), and that the first of a ranking is no worse
  than the rest (`FirstIsWorst`), are lemmas.

`ClusterActions_proofs`, for any number of actors, calls and changes by others:

- `ClusterTypeCorrect`: `Spec => []TypeOK`.
- `ActionsAreAtomic`: the refinement of `AtomicActions`, step by step.
- `OnlyWarrantedDeletions` and `RollbacksGoBack`: `Spec => DeletionsAreWarranted` and
  `Spec => RollbackGoesBack`. `CallsInv` is what a call between its read and its write
  may still rely on: a pod it found deletable remains so as long as it is the same pod,
  the count it wants starts from one there was during the call, and the template it
  wants came before the last it saw. `RevisionInv` ties the revision numbers, which a
  rollback changes, to the order of the rollouts.

Stays with TLC: the liveness properties `ApprovedCommandSettles`, `UndecidedCommandExpires`,
`EveryTaskCloses`, `EveryAlertLeaves`, `EveryDiagnosisEnds` and
`PersistentFaultIsDiagnosed`. They rest on fairness, and so on `ENABLED`, which the
prover does not reason about. The refutations of the three violation runs are TLC's
counterexamples.

## 5. Not modelled, and why

Command white lists and black lists (`ssh_tools`, `approval_exec`) are string matching:
in `Investigation` a command is fit or not. What the read-only tools answer
(`k8s_tools`, `change_tracker`, `mock_tools`) goes to a model, whose answer is free in any
case; thresholds of metrics are part of the free choice of time series. Messages
(`im_notify`) and tracing never raise and have no influence on what is executed;
prompts and schemas are data for a model. `aiops_verify_status` only lists. The audit
log is a bounded list that nothing reads.

## 6. Plan

Done: the approval flow, the judgements, the verification queue, the plans, the rate
limit, the pipeline, the inspection cycle, the diagnosis loop and the cluster actions,
each with its runs; and theorems for every safety property of the passing runs, among
them the refinements of `ApprovalLifecycle` (one reviewer), `VerifierPromise` (one
process) and `AtomicActions`.

Next, in this order:

1. The lifecycle with several reviewers: what remains of `ApprovalLifecycle` when
   decisions race (a row that is approved once is never executed without a grant is
   proved; which statuses may follow which is not stated).
2. The verification queue with several processes: what is announced of a task is a
   status some process closed it with.
3. The safety half of the progress arguments: measures that every step of the diagnosis
   loop and of the pipeline decreases, as action properties that can be proved although
   the liveness properties cannot.
