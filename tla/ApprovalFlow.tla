---------------------------- MODULE ApprovalFlow ----------------------------
(***************************************************************************)
(* The processes that work on the approvals table:                         *)
(*                                                                         *)
(*   - the main process: the pipeline's thread submits rows (and approves  *)
(*     a diagnostic command itself when APPROVAL_AUTO_APPROVE is set), the *)
(*     approval_exec_worker daemon expires rows and runs approved          *)
(*     commands;                                                           *)
(*   - reviewers: each invocation of scripts/aiops_review.py is a process  *)
(*     of its own, that approves (and, for a remediation, executes) or     *)
(*     denies one row and exits.                                           *)
(*                                                                         *)
(* The _lock of approval_store is a threading.Lock: it keeps the threads   *)
(* of the main process apart and does nothing between processes.           *)
(***************************************************************************)
EXTENDS ApprovalStore

CONSTANTS
    Reviewer,     \* concurrent invocations of aiops_review
    Main,         \* the pipeline's thread of the main process
    NoApproval,   \* the row of a process that works on none
    AutoApprove,  \* APPROVAL_AUTO_APPROVE
    LastSubmit,   \* bound: no row is submitted after this time
    MaxTime,      \* bound: the clock stops here
    MaxCrashes,   \* bound: crashes of the main process
    MaxLost       \* bound: runs of a command whose result was not saved

ASSUME MainIsNoReviewer == Main \notin Reviewer
ASSUME NoApprovalIsNoId == NoApproval \notin Approval
ASSUME AutoApproveAssumption == AutoApprove \in BOOLEAN
ASSUME BoundsAssumption ==
    LastSubmit \in Nat /\ MaxTime \in Nat /\ MaxCrashes \in Nat /\ MaxLost \in Nat

VARIABLES
    op,       \* decider -> what it is doing, and on which row
    worker,   \* the approval_exec_worker thread
    memory,   \* diagnostic row -> its rows in fault_memory's diagnostic_cmd_history
    \* history, read by the properties only
    runs,     \* row -> how often its command or action was really executed
    lost,     \* row -> how many of those runs ended with no saved result
    grants,   \* row -> the approvals written for it: by whom, as of what time
    denials,  \* row -> the reviewers whose deny was written
    crashes   \* crashes of the main process so far

vars == <<now, row, op, worker, memory, runs, lost, grants, denials, crashes>>

Decider == Reviewer \cup {Main}

\* Where a decider is: inside mark_approved / mark_rejected before the SELECT or
\* between it and the UPDATE, or in the remediation part of cmd_approve.
OpPc == {"idle", "approve_select", "approve_update", "expire_update",
         "deny_select", "deny_update",
         "gate", "execute", "settle_ok", "settle_failed"}

\* asOf is the time mark_approved read when it found the row in time.
Op == [pc : OpPc, id : Approval \cup {NoApproval}, asOf : Nat]
Idle == [pc |-> "idle", id |-> NoApproval, asOf |-> 0]
At(pc, a) == [pc |-> pc, id |-> a, asOf |-> 0]

\* batch[at] is the task in hand; ok, whether its command exited with 0.
WorkerPc == {"down", "sweep", "list", "run", "save", "remember"}
Batch == UNION {[1 .. n -> Diagnostic] : n \in 0 .. BatchLimit}
Worker == [pc : WorkerPc, batch : Batch, at : Nat \ {0}, ok : BOOLEAN]
Down == [pc |-> "down", batch |-> <<>>, at |-> 1, ok |-> FALSE]
Task == worker.batch[worker.at]

TypeOK ==
    /\ now \in Nat
    /\ row \in [Approval -> Row]
    /\ op \in [Decider -> Op]
    /\ \A p \in Decider : op[p].pc # "idle" => op[p].id \in Approval
    /\ worker \in Worker
    /\ worker.pc \in {"run", "save", "remember"} => worker.at \in DOMAIN worker.batch
    /\ memory \in [Diagnostic -> Nat]
    /\ runs \in [Approval -> Nat]
    /\ lost \in [Approval -> Nat]
    /\ grants \in [Approval -> SUBSET [by : Decider, asOf : Nat]]
    /\ denials \in [Approval -> SUBSET Reviewer]
    /\ crashes \in Nat

Init ==
    /\ now = 0
    /\ row = [a \in Approval |-> NoRow]
    /\ op = [p \in Decider |-> Idle]
    /\ worker = Down
    /\ memory = [a \in Diagnostic |-> 0]
    /\ runs = [a \in Approval |-> 0]
    /\ lost = [a \in Approval |-> 0]
    /\ grants = [a \in Approval |-> {}]
    /\ denials = [a \in Approval |-> {}]
    /\ crashes = 0

Tick ==
    /\ now < MaxTime
    /\ now' = now + 1
    /\ UNCHANGED <<row, op, worker, memory, runs, lost, grants, denials, crashes>>

-----------------------------------------------------------------------------
(* The pipeline's thread of the main process.                              *)

Up == worker.pc # "down"

\* submit_diagnostic_approval, once its refusals are past: they change nothing
\* here.  With APPROVAL_AUTO_APPROVE it goes on to mark_approved at once.
SubmitDiagnostic(a) ==
    /\ Up
    /\ now <= LastSubmit
    /\ a \in Diagnostic
    /\ op[Main].pc = "idle"
    /\ InsertPending(a)
    /\ op' = IF AutoApprove THEN [op EXCEPT ![Main] = At("approve_select", a)] ELSE op
    /\ UNCHANGED <<now, worker, memory, runs, lost, grants, denials, crashes>>

\* approval_gate_node's human_review.
SubmitRemediation(a) ==
    /\ Up
    /\ now <= LastSubmit
    /\ a \in Remediation
    /\ op[Main].pc = "idle"
    /\ InsertPending(a)
    /\ UNCHANGED <<now, op, worker, memory, runs, lost, grants, denials, crashes>>

-----------------------------------------------------------------------------
(* mark_approved and mark_rejected: a SELECT, a decision on what it read,  *)
(* and an UPDATE that repeats none of it.                                  *)

ApproveSelect(p) ==
    /\ op[p].pc = "approve_select"
    /\ op' = [op EXCEPT ![p] =
                LET a == op[p].id IN
                IF ~IsPending(a) THEN Idle
                ELSE IF Overdue(a) THEN At("expire_update", a)
                ELSE [At("approve_update", a) EXCEPT !.asOf = now]]
    /\ UNCHANGED <<now, row, worker, memory, runs, lost, grants, denials, crashes>>

\* The caller goes on: cmd_approve leaves a diagnostic command to the daemon
\* and executes a remediation itself.
ApproveUpdate(p) ==
    /\ op[p].pc = "approve_update"
    /\ LET a == op[p].id IN
         /\ SetApproved(a)
         /\ grants' = [grants EXCEPT ![a] = @ \cup {[by |-> p, asOf |-> op[p].asOf]}]
         /\ op' = [op EXCEPT ![p] = IF a \in Remediation THEN At("gate", a) ELSE Idle]
    /\ UNCHANGED <<now, worker, memory, runs, lost, denials, crashes>>

ExpireUpdate(p) ==
    /\ op[p].pc = "expire_update"
    /\ SetExpired(op[p].id)
    /\ op' = [op EXCEPT ![p] = Idle]
    /\ UNCHANGED <<now, worker, memory, runs, lost, grants, denials, crashes>>

\* mark_rejected looks at the status only, never at the age.
DenySelect(r) ==
    /\ op[r].pc = "deny_select"
    /\ op' = [op EXCEPT ![r] = IF IsPending(op[r].id) THEN At("deny_update", op[r].id)
                                                       ELSE Idle]
    /\ UNCHANGED <<now, row, worker, memory, runs, lost, grants, denials, crashes>>

DenyUpdate(r) ==
    /\ op[r].pc = "deny_update"
    /\ SetRejected(op[r].id)
    /\ denials' = [denials EXCEPT ![op[r].id] = @ \cup {r}]
    /\ op' = [op EXCEPT ![r] = Idle]
    /\ UNCHANGED <<now, worker, memory, runs, lost, grants, crashes>>

-----------------------------------------------------------------------------
(* The review CLI.  What it reads before it calls mark_approved or         *)
(* mark_rejected is one more SELECT, acted on later.                       *)

\* cmd_approve up to mark_approved.  For a remediation, is_expired is tested too.
StartApprove(r, a) ==
    /\ op[r].pc = "idle"
    /\ IsPending(a)
    /\ a \in Remediation => ~Overdue(a)
    /\ op' = [op EXCEPT ![r] = At("approve_select", a)]
    /\ UNCHANGED <<now, row, worker, memory, runs, lost, grants, denials, crashes>>

\* cmd_deny up to mark_rejected.  On a row that is not pending it says so and exits.
StartDeny(r, a) ==
    /\ op[r].pc = "idle"
    /\ IsPending(a)
    /\ op' = [op EXCEPT ![r] = At("deny_select", a)]
    /\ UNCHANGED <<now, row, worker, memory, runs, lost, grants, denials, crashes>>

\* AUTO_HEAL_ENABLED is off: the CLI returns, the row stays 'approved'.
Halt(r) ==
    /\ op[r].pc = "gate"
    /\ op' = [op EXCEPT ![r] = Idle]
    /\ UNCHANGED <<now, row, worker, memory, runs, lost, grants, denials, crashes>>

\* rate_allow says no: the row is closed as failed.
RateLimited(r) ==
    /\ op[r].pc = "gate"
    /\ MarkExecuted(op[r].id, FALSE)
    /\ op' = [op EXCEPT ![r] = Idle]
    /\ UNCHANGED <<now, worker, memory, runs, lost, grants, denials, crashes>>

PassGate(r) ==
    /\ op[r].pc = "gate"
    /\ op' = [op EXCEPT ![r] = At("execute", op[r].id)]
    /\ UNCHANGED <<now, row, worker, memory, runs, lost, grants, denials, crashes>>

\* execute_action under AUTO_HEAL_DRY_RUN reports ok and touches nothing.
DryRun(r) ==
    /\ op[r].pc = "execute"
    /\ op' = [op EXCEPT ![r] = At("settle_ok", op[r].id)]
    /\ UNCHANGED <<now, row, worker, memory, runs, lost, grants, denials, crashes>>

\* Seeded bug: a failed action is tried again by the same invocation.
ExecuteBug(r) ==
    /\ op[r].pc = "execute"
    /\ \E pc \in {"settle_ok", "execute"} : op' = [op EXCEPT ![r] = At(pc, op[r].id)]
    /\ runs[op[r].id] < 3
    /\ runs' = [runs EXCEPT ![op[r].id] = @ + 1]
    /\ UNCHANGED <<now, row, worker, memory, lost, grants, denials, crashes>>

Execute(r) ==
    /\ op[r].pc = "execute"
    /\ \E pc \in {"settle_ok", "settle_failed"} : op' = [op EXCEPT ![r] = At(pc, op[r].id)]
    /\ runs' = [runs EXCEPT ![op[r].id] = @ + 1]
    /\ UNCHANGED <<now, row, worker, memory, lost, grants, denials, crashes>>

\* mark_executed, after the validation wait when the action was ok.  The status
\* follows the execution alone: the validation's verdict is only recorded.
Settle(r) ==
    /\ op[r].pc \in {"settle_ok", "settle_failed"}
    /\ MarkExecuted(op[r].id, op[r].pc = "settle_ok")
    /\ op' = [op EXCEPT ![r] = Idle]
    /\ UNCHANGED <<now, worker, memory, runs, lost, grants, denials, crashes>>

\* The CLI is interrupted: nothing catches it, nothing resumes it.
Abort(r) ==
    /\ op[r].pc # "idle"
    /\ op' = [op EXCEPT ![r] = Idle]
    /\ UNCHANGED <<now, row, worker, memory, runs, lost, grants, denials, crashes>>

-----------------------------------------------------------------------------
(* approval_exec_worker, a thread of the main process.                     *)

\* Main holds approval_store's _lock between the two statements of mark_approved.
LockFree == op[Main].pc \notin {"approve_update", "expire_update"}

\* main_inspect starts, and starts the daemon.
StartMain ==
    /\ worker.pc = "down"
    /\ worker' = [worker EXCEPT !.pc = "sweep"]
    /\ UNCHANGED <<now, row, op, memory, runs, lost, grants, denials, crashes>>

Sweep ==
    /\ worker.pc = "sweep"
    /\ LockFree
    /\ ExpireOldDiagnostic
    /\ worker' = [worker EXCEPT !.pc = "list"]
    /\ UNCHANGED <<now, op, memory, runs, lost, grants, denials, crashes>>

List ==
    /\ worker.pc = "list"
    /\ LockFree
    /\ \E b \in Batches :
         worker' = [worker EXCEPT !.pc = IF b = <<>> THEN "sweep" ELSE "run",
                                  !.batch = b, !.at = 1]
    /\ UNCHANGED <<now, row, op, memory, runs, lost, grants, denials, crashes>>

\* _run_ssh or _run_kubectl_exec: the row is not read again first.
RunCommand ==
    /\ worker.pc = "run"
    /\ runs' = [runs EXCEPT ![Task] = @ + 1]
    /\ \E ok \in BOOLEAN : worker' = [worker EXCEPT !.pc = "save", !.ok = ok]
    /\ UNCHANGED <<now, row, op, memory, lost, grants, denials, crashes>>

SaveResult ==
    /\ worker.pc = "save"
    /\ LockFree
    /\ MarkDiagnosticExecuted(Task, worker.ok)
    /\ worker' = [worker EXCEPT !.pc = "remember"]
    /\ UNCHANGED <<now, op, memory, runs, lost, grants, denials, crashes>>

\* mark_diagnostic_executed raises: it is logged, and the row stays approved.
SaveFails ==
    /\ worker.pc = "save"
    /\ LockFree
    /\ lost[Task] < MaxLost
    /\ lost' = [lost EXCEPT ![Task] = @ + 1]
    /\ worker' = [worker EXCEPT !.pc = "remember"]
    /\ UNCHANGED <<now, row, op, memory, runs, grants, denials, crashes>>

\* record_diagnostic_cmd (skipped without a fingerprint, and its failure is
\* logged), then the IM and the audit, then the next task.  Seeded bugs: the end
\* of the batch is missed; an insert whose answer was late is made again.
RememberPastEndBug ==
    /\ worker.pc = "remember"
    /\ worker' = [worker EXCEPT !.pc = "run", !.at = @ + 1]
    /\ UNCHANGED <<now, row, op, memory, runs, lost, grants, denials, crashes>>

RememberAgainBug ==
    /\ worker.pc = "remember"
    /\ memory' = [memory EXCEPT ![Task] = @ + 1]
    /\ worker' \in {worker, [worker EXCEPT !.pc = "sweep", !.batch = <<>>, !.at = 1]}
    /\ UNCHANGED <<now, row, op, runs, lost, grants, denials, crashes>>

Remember ==
    /\ worker.pc = "remember"
    /\ \E recorded \in {0, 1} : memory' = [memory EXCEPT ![Task] = @ + recorded]
    /\ worker' = IF worker.at + 1 \in DOMAIN worker.batch
                 THEN [worker EXCEPT !.pc = "run", !.at = @ + 1]
                 ELSE [worker EXCEPT !.pc = "sweep", !.batch = <<>>, !.at = 1]
    /\ UNCHANGED <<now, row, op, runs, lost, grants, denials, crashes>>

\* The main process ends (or its single inspection is over): both threads with it.
CrashMain ==
    /\ Up
    /\ crashes < MaxCrashes
    /\ worker.pc = "save" => lost[Task] < MaxLost
    /\ crashes' = crashes + 1
    /\ worker' = Down
    /\ op' = [op EXCEPT ![Main] = Idle]
    /\ lost' = IF worker.pc = "save" THEN [lost EXCEPT ![Task] = @ + 1] ELSE lost
    /\ UNCHANGED <<now, row, memory, runs, grants, denials>>

-----------------------------------------------------------------------------
Decide(p) == ApproveSelect(p) \/ ApproveUpdate(p) \/ ExpireUpdate(p)

Cli(r) ==
    \/ \E a \in Approval : StartApprove(r, a) \/ StartDeny(r, a)
    \/ DenySelect(r) \/ DenyUpdate(r)
    \/ Halt(r) \/ RateLimited(r) \/ PassGate(r)
    \/ DryRun(r) \/ Execute(r) \/ Settle(r)
    \/ Abort(r)

Daemon == Sweep \/ List \/ RunCommand \/ SaveResult \/ SaveFails \/ Remember

Next ==
    \/ Tick
    \/ \E a \in Approval : SubmitDiagnostic(a) \/ SubmitRemediation(a)
    \/ \E p \in Decider : Decide(p)
    \/ \E r \in Reviewer : Cli(r)
    \/ StartMain \/ CrashMain
    \/ Daemon

Spec == Init /\ [][Next]_vars

\* Time passes, the main process is started again when it is down (it is a
\* periodic job), its threads run.  Reviewers owe nothing.
Fairness ==
    /\ WF_vars(Tick)
    /\ WF_vars(StartMain)
    /\ WF_vars(Daemon)
    /\ WF_vars(Decide(Main))

FairSpec == Spec /\ Fairness

-----------------------------------------------------------------------------
(* Properties.                                                             *)

\* Nothing is executed unless someone's approval was written for the row, and
\* that approval had found the row pending and within its TTL: however approvals,
\* denials, sweeps and crashes interleave (mark_approved, _handle_one, cmd_approve).
RunsAreGranted ==
    \A a \in Approval :
        runs[a] > 0 => \E g \in grants[a] : g.asOf - row[a].createdAt <= TTL

\* A diagnostic command is executed again only when an earlier run of it ended
\* without a saved result (a crash, a failed UPDATE): a late approval that turns
\* an executed row back into an approved one does not run it twice
\* (list_approved_diagnostic_pending's execution_result IS NULL).
OneRunPerLoss ==
    \A a \in Diagnostic : runs[a] <= lost[a] + 1

\* The command history the Investigator is shown never tells of more executions
\* than there were (record_diagnostic_cmd comes after the run, once).
HistoryIsReal ==
    \A a \in Diagnostic : memory[a] <= runs[a]

\* Each approval of a remediation buys at most one execution of its action: two
\* reviewers who both pass mark_approved's check can execute it twice, no more.
RunsPerGrant ==
    \A a \in Remediation : runs[a] <= Cardinality(grants[a])

\* A command or action is never executed once a deny of it was written: the
\* reject flow of the approval-exec design, "deny <task_id> -> daemon skips".
DeniedNeverRuns ==
    [][\A a \in Approval : runs'[a] > runs[a] => denials[a] = {}]_vars

\* With one reviewer at a time and no auto-approval, the table and its processes
\* are an implementation of the lifecycle in the store's docstring.
Lifecycle == INSTANCE ApprovalLifecycle
                WITH status <- [a \in Approval |-> row[a].status], effects <- runs

ImplementsLifecycle == Lifecycle!LifecycleSpec

\* An approved diagnostic command is eventually executed and its result saved,
\* across crashes, failed saves and batches that it did not fit in.
ApprovedCommandSettles ==
    \A a \in Diagnostic :
        row[a].status = "approved" ~> row[a].status \in {"executed", "failed"}

\* A diagnostic command nobody decides on does not stay pending: the daemon
\* expires it (expire_old_diagnostic).
UndecidedCommandExpires ==
    \A a \in Diagnostic : row[a].status = "pending" ~> row[a].status # "pending"
=============================================================================
