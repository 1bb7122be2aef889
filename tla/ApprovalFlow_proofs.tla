------------------------ MODULE ApprovalFlow_proofs ------------------------
(***************************************************************************)
(* Proofs about ApprovalFlow, for every set of rows, reviewers and bounds. *)
(***************************************************************************)
EXTENDS ApprovalFlow, FiniteSetTheorems, TLAPS

\* Why RunsAreGranted is inductive: whoever may execute a row, now or later, has a
\* grant behind it, and a grant is written only by a decider that found the row
\* pending and in time.
GrantedRows ==
    {a \in Approval : \E g \in grants[a] : g.asOf - row[a].createdAt <= TTL}

GrantInv ==
    /\ \A a \in Approval :
         /\ row[a].status = "absent" => grants[a] = {}
         /\ row[a].status = "approved" => a \in GrantedRows
         /\ runs[a] > 0 => a \in GrantedRows
    /\ \A p \in Decider :
         /\ op[p].pc # "idle" => row[op[p].id].status # "absent"
         /\ op[p].pc = "approve_update" =>
              op[p].asOf - row[op[p].id].createdAt <= TTL
         /\ op[p].pc \in {"gate", "execute", "settle_ok", "settle_failed"} =>
              op[p].id \in Remediation /\ op[p].id \in GrantedRows
    /\ \A i \in DOMAIN worker.batch : worker.batch[i] \in GrantedRows

\* Why OneRunPerLoss is inductive: every run of a command is accounted for, by its
\* saved result, by a loss, or by the daemon that is about to save it; and no task
\* still ahead of the daemon has a result.
Saved(a) == IF row[a].executionResult = "NULL" THEN 0 ELSE 1
InHand(a) == IF worker.pc = "save" /\ Task = a THEN 1 ELSE 0

RunInv ==
    /\ \A a \in Diagnostic : runs[a] = lost[a] + Saved(a) + InHand(a)
    /\ \A a \in Diagnostic : row[a].status = "absent" => row[a].executionResult = "NULL"
    /\ \A i, j \in DOMAIN worker.batch : i # j => worker.batch[i] # worker.batch[j]
    /\ \A i \in DOMAIN worker.batch :
         (i > worker.at \/ (i = worker.at /\ worker.pc \in {"run", "save"}))
            => row[worker.batch[i]].executionResult = "NULL"

\* list_approved_diagnostic_pending returns distinct diagnostic rows that are
\* approved and have no result.
LEMMA BatchFacts ==
    ASSUME NEW b \in Batches
    PROVE  /\ b \in Batch
           /\ \A i \in DOMAIN b : b[i] \in ReadyDiagnostics
           /\ \A i, j \in DOMAIN b : i # j => b[i] # b[j]
<1>1. PICK n \in 0 .. BatchLimit : b \in [1 .. n -> ReadyDiagnostics]
  BY DEF Batches
<1>2. ReadyDiagnostics \subseteq Diagnostic
  BY DEF ReadyDiagnostics
<1>3. b \in Batch
  BY <1>1, <1>2 DEF Batch
<1>4. \A i, j \in DOMAIN b : i < j => b[i] # b[j]
  BY DEF Batches
<1>5. \A i, j \in DOMAIN b : i # j => b[i] # b[j]
  BY <1>1, <1>4
<1> QED
  BY <1>1, <1>3, <1>5

LEMMA EmptyBatch == <<>> \in Batch /\ DOMAIN <<>> = {}
<1>1. <<>> \in [1 .. 0 -> Diagnostic]
  OBVIOUS
<1>2. 0 \in 0 .. BatchLimit
  BY BatchLimitAssumption
<1> QED
  BY <1>1, <1>2 DEF Batch

\* The task in hand is a diagnostic row.
LEMMA TaskType ==
    ASSUME TypeOK, worker.pc \in {"run", "save", "remember"}
    PROVE  Task \in Diagnostic /\ worker.at \in DOMAIN worker.batch
<1>1. worker.at \in DOMAIN worker.batch
  BY DEF TypeOK
<1>2. PICK n \in 0 .. BatchLimit : worker.batch \in [1 .. n -> Diagnostic]
  BY DEF TypeOK, Worker, Batch
<1> QED
  BY <1>1, <1>2 DEF Task

LEMMA InitTypeOK == Init => TypeOK
<1> SUFFICES ASSUME Init PROVE TypeOK
  OBVIOUS
<1>1. worker \in Worker
  BY EmptyBatch DEF Init, Down, Worker, WorkerPc
<1> QED
  BY <1>1 DEF Init, TypeOK, Batch, Row, NoRow, Status, Op, OpPc, Idle, Down

\* Every statement on the table keeps its type.
LEMMA StatementTypes ==
    ASSUME TypeOK, NEW a \in Approval, NEW ok \in BOOLEAN,
           \/ SetApproved(a) \/ SetExpired(a) \/ SetRejected(a)
           \/ MarkExecuted(a, ok) \/ MarkDiagnosticExecuted(a, ok)
           \/ ExpireOldDiagnostic
    PROVE  row' \in [Approval -> Row]
<1> USE DEF TypeOK, Row, Status
<1>r. row[a] \in Row /\ now \in Nat
  OBVIOUS
<1>1. CASE SetApproved(a)
  <2>1. row' = [row EXCEPT ![a] = [row[a] EXCEPT !.status = "approved", !.decidedAt = now]]
    BY <1>1 DEF SetApproved
  <2> QED
    BY <1>r, <2>1
<1>2. CASE SetExpired(a)
  BY <1>2 DEF SetExpired
<1>3. CASE SetRejected(a)
  <2>1. row' = [row EXCEPT ![a] = [row[a] EXCEPT !.status = "rejected", !.decidedAt = now]]
    BY <1>3 DEF SetRejected
  <2> QED
    BY <1>r, <2>1
<1>4. CASE MarkExecuted(a, ok)
  <2>1. PICK s \in Status : row' = [row EXCEPT ![a] = [row[a] EXCEPT !.status = s]]
    BY <1>4 DEF MarkExecuted
  <2> QED
    BY <1>r, <2>1
<1>5. CASE MarkDiagnosticExecuted(a, ok)
  <2>1. PICK s \in Status, e \in {"ok", "failed"} :
          row' = [row EXCEPT ![a] = [row[a] EXCEPT !.status = s, !.executionResult = e]]
    BY <1>5 DEF MarkDiagnosticExecuted
  <2> QED
    BY <1>r, <2>1
<1>6. CASE ExpireOldDiagnostic
  <2>1. \A b \in Approval : [row[b] EXCEPT !.status = "expired"] \in Row
    OBVIOUS
  <2> QED
    BY <1>6, <2>1 DEF ExpireOldDiagnostic
<1> QED
  BY <1>1, <1>2, <1>3, <1>4, <1>5, <1>6

\* A decider that moves on to row a, or becomes idle, keeps the type of op.
LEMMA OpTypes ==
    ASSUME TypeOK, NEW p \in Decider, NEW o,
           \/ o = Idle
           \/ \E pc \in OpPc, a \in Approval : o = At(pc, a),
           op' = [op EXCEPT ![p] = o]
    PROVE  /\ op' \in [Decider -> Op]
           /\ \A q \in Decider : op'[q].pc # "idle" => op'[q].id \in Approval
<1>1. o \in Op /\ (o.pc # "idle" => o.id \in Approval)
  BY DEF Op, OpPc, Idle, At
<1> QED
  BY <1>1 DEF TypeOK

LEMMA NextTypeOK == TypeOK /\ [Next]_vars => TypeOK'
<1> SUFFICES ASSUME TypeOK, [Next]_vars PROVE TypeOK'
  OBVIOUS
<1>1. ASSUME Tick PROVE TypeOK'
  BY <1>1 DEF Tick, TypeOK, Op, OpPc, Idle, At, Decider, Row, Status
<1>2. ASSUME NEW a \in Approval, SubmitDiagnostic(a) PROVE TypeOK'
  BY <1>2 DEF SubmitDiagnostic, InsertPending, NoRow, TypeOK, Op, OpPc, Idle, At, Decider, Row, Status
<1>3. ASSUME NEW a \in Approval, SubmitRemediation(a) PROVE TypeOK'
  BY <1>3 DEF SubmitRemediation, InsertPending, NoRow, TypeOK, Op, OpPc, Idle, At, Decider, Row, Status
<1>4. ASSUME NEW p \in Decider, ApproveSelect(p) PROVE TypeOK'
  BY <1>4 DEF ApproveSelect, IsPending, Overdue, TypeOK, Op, OpPc, Idle, At, Decider, Row, Status
<1>5. ASSUME NEW p \in Decider, ApproveUpdate(p) PROVE TypeOK'
  <2> DEFINE a == op[p].id
  <2>1. a \in Approval /\ p \in Decider /\ op[p].asOf \in Nat
    BY <1>5 DEF ApproveUpdate, TypeOK, Op
  <2>2. row' \in [Approval -> Row]
    BY <1>5, <2>1, StatementTypes DEF ApproveUpdate
  <2>3. /\ op' \in [Decider -> Op]
        /\ \A q \in Decider : op'[q].pc # "idle" => op'[q].id \in Approval
    BY <1>5, <2>1, OpTypes DEF ApproveUpdate, OpPc
  <2>4. grants' \in [Approval -> SUBSET [by : Decider, asOf : Nat]]
    BY <1>5, <2>1 DEF ApproveUpdate, TypeOK
  <2> QED
    BY <1>5, <2>2, <2>3, <2>4 DEF ApproveUpdate, TypeOK
<1>6. ASSUME NEW p \in Decider, ExpireUpdate(p) PROVE TypeOK'
  <2>1. op[p].id \in Approval /\ p \in Decider
    BY <1>6 DEF ExpireUpdate, TypeOK, Decider
  <2>2. row' \in [Approval -> Row]
    BY <1>6, <2>1, StatementTypes DEF ExpireUpdate
  <2>3. /\ op' \in [Decider -> Op]
        /\ \A q \in Decider : op'[q].pc # "idle" => op'[q].id \in Approval
    BY <1>6, <2>1, OpTypes DEF ExpireUpdate, OpPc
  <2> QED
    BY <1>6, <2>1, <2>2, <2>3 DEF ExpireUpdate, TypeOK
<1>7. ASSUME NEW r \in Reviewer, NEW a \in Approval, StartApprove(r, a) PROVE TypeOK'
  BY <1>7 DEF StartApprove, TypeOK, Op, OpPc, Idle, At, Decider, Row, Status
<1>8. ASSUME NEW r \in Reviewer, NEW a \in Approval, StartDeny(r, a) PROVE TypeOK'
  BY <1>8 DEF StartDeny, TypeOK, Op, OpPc, Idle, At, Decider, Row, Status
<1>10. ASSUME NEW r \in Reviewer, DenySelect(r) PROVE TypeOK'
  BY <1>10 DEF DenySelect, IsPending, TypeOK, Op, OpPc, Idle, At, Decider, Row, Status
<1>11. ASSUME NEW r \in Reviewer, DenyUpdate(r) PROVE TypeOK'
  <2>1. op[r].id \in Approval /\ r \in Decider
    BY <1>11 DEF DenyUpdate, TypeOK, Decider
  <2>2. row' \in [Approval -> Row]
    BY <1>11, <2>1, StatementTypes DEF DenyUpdate
  <2>3. /\ op' \in [Decider -> Op]
        /\ \A q \in Decider : op'[q].pc # "idle" => op'[q].id \in Approval
    BY <1>11, <2>1, OpTypes DEF DenyUpdate, OpPc
  <2> QED
    BY <1>11, <2>1, <2>2, <2>3 DEF DenyUpdate, TypeOK
<1>12. ASSUME NEW r \in Reviewer, Halt(r) PROVE TypeOK'
  BY <1>12 DEF Halt, TypeOK, Op, OpPc, Idle, At, Decider, Row, Status
<1>13. ASSUME NEW r \in Reviewer, RateLimited(r) PROVE TypeOK'
  <2>1. op[r].id \in Approval /\ r \in Decider
    BY <1>13 DEF RateLimited, TypeOK, Decider
  <2>2. row' \in [Approval -> Row]
    BY <1>13, <2>1, StatementTypes DEF RateLimited
  <2>3. /\ op' \in [Decider -> Op]
        /\ \A q \in Decider : op'[q].pc # "idle" => op'[q].id \in Approval
    BY <1>13, <2>1, OpTypes DEF RateLimited, OpPc
  <2> QED
    BY <1>13, <2>1, <2>2, <2>3 DEF RateLimited, TypeOK
<1>14. ASSUME NEW r \in Reviewer, PassGate(r) PROVE TypeOK'
  BY <1>14 DEF PassGate, TypeOK, Op, OpPc, Idle, At, Decider, Row, Status
<1>15. ASSUME NEW r \in Reviewer, DryRun(r) PROVE TypeOK'
  BY <1>15 DEF DryRun, TypeOK, Op, OpPc, Idle, At, Decider, Row, Status
<1>16. ASSUME NEW r \in Reviewer, Execute(r) PROVE TypeOK'
  BY <1>16 DEF Execute, TypeOK, Op, OpPc, Idle, At, Decider, Row, Status
<1>17. ASSUME NEW r \in Reviewer, Settle(r) PROVE TypeOK'
  <2>1. op[r].id \in Approval /\ r \in Decider
    BY <1>17 DEF Settle, TypeOK, Decider
  <2>2. row' \in [Approval -> Row]
    BY <1>17, <2>1, StatementTypes DEF Settle
  <2>3. /\ op' \in [Decider -> Op]
        /\ \A q \in Decider : op'[q].pc # "idle" => op'[q].id \in Approval
    BY <1>17, <2>1, OpTypes DEF Settle, OpPc
  <2> QED
    BY <1>17, <2>1, <2>2, <2>3 DEF Settle, TypeOK
<1>18. ASSUME NEW r \in Reviewer, Abort(r) PROVE TypeOK'
  BY <1>18 DEF Abort, TypeOK, Op, OpPc, Idle, At, Decider, Row, Status
<1>19. ASSUME StartMain PROVE TypeOK'
  BY <1>19 DEF StartMain, TypeOK, Worker, WorkerPc
<1>20. ASSUME CrashMain PROVE TypeOK'
  <2>1. Down \in Worker /\ Down.pc = "down"
    BY EmptyBatch DEF Down, Worker, WorkerPc
  <2>2. /\ op' \in [Decider -> Op]
        /\ \A q \in Decider : op'[q].pc # "idle" => op'[q].id \in Approval
    BY <1>20, OpTypes DEF CrashMain, Decider
  <2>3. lost' \in [Approval -> Nat]
    <3>1. CASE worker.pc = "save"
      BY <1>20, <3>1, TaskType DEF CrashMain, TypeOK, Approval
    <3>2. CASE worker.pc # "save"
      BY <1>20, <3>2 DEF CrashMain, TypeOK
    <3> QED
      BY <3>1, <3>2
  <2> QED
    BY <1>20, <2>1, <2>2, <2>3 DEF CrashMain, TypeOK
<1>21. ASSUME Sweep PROVE TypeOK'
  <2>1. row' \in [Approval -> Row]
    BY <1>21 DEF Sweep, ExpireOldDiagnostic, TypeOK, Row, Status
  <2> QED
    BY <1>21, <2>1 DEF Sweep, TypeOK, Worker, WorkerPc
<1>22. ASSUME List PROVE TypeOK'
  <2>1. PICK b \in Batches :
          worker' = [worker EXCEPT !.pc = IF b = <<>> THEN "sweep" ELSE "run",
                                   !.batch = b, !.at = 1]
    BY <1>22 DEF List
  <2>2. b \in Batch
    BY BatchFacts
  <2>3. b # <<>> => 1 \in DOMAIN b
    BY <2>2 DEF Batch
  <2>4. (IF b = <<>> THEN "sweep" ELSE "run") \in WorkerPc
    BY DEF WorkerPc
  <2>5. worker' = [pc |-> IF b = <<>> THEN "sweep" ELSE "run",
                   batch |-> b, at |-> 1, ok |-> worker.ok]
    BY <2>1 DEF TypeOK, Worker
  <2>6. worker' \in Worker
    BY <2>2, <2>4, <2>5 DEF TypeOK, Worker
  <2> QED
    BY <1>22, <2>3, <2>5, <2>6 DEF List, TypeOK
<1>23. ASSUME RunCommand PROVE TypeOK'
  <2>1. Task \in Diagnostic /\ worker.at \in DOMAIN worker.batch
    BY <1>23, TaskType DEF RunCommand
  <2>2. worker' \in Worker /\ worker'.at \in DOMAIN worker'.batch
    BY <1>23, <2>1 DEF RunCommand, TypeOK, Worker, WorkerPc
  <2> QED
    BY <1>23, <2>1, <2>2 DEF RunCommand, TypeOK, Approval
<1>24. ASSUME SaveResult PROVE TypeOK'
  <2>1. Task \in Diagnostic /\ worker.at \in DOMAIN worker.batch
    BY <1>24, TaskType DEF SaveResult
  <2>2. worker' \in Worker /\ worker'.at \in DOMAIN worker'.batch
    BY <1>24, <2>1 DEF SaveResult, TypeOK, Worker, WorkerPc
  <2>3. row' \in [Approval -> Row]
    BY <1>24, <2>1, StatementTypes DEF SaveResult, TypeOK, Worker, Approval
  <2> QED
    BY <1>24, <2>1, <2>2, <2>3 DEF SaveResult, TypeOK, Approval
<1>25. ASSUME SaveFails PROVE TypeOK'
  <2>1. Task \in Diagnostic /\ worker.at \in DOMAIN worker.batch
    BY <1>25, TaskType DEF SaveFails
  <2>2. worker' \in Worker /\ worker'.at \in DOMAIN worker'.batch
    BY <1>25, <2>1 DEF SaveFails, TypeOK, Worker, WorkerPc
  <2> QED
    BY <1>25, <2>1, <2>2 DEF SaveFails, TypeOK, Approval
<1>26. ASSUME Remember PROVE TypeOK'
  <2>1. Task \in Diagnostic /\ worker.at \in DOMAIN worker.batch
    BY <1>26, TaskType DEF Remember
  <2>2. memory' \in [Diagnostic -> Nat]
    BY <1>26, <2>1 DEF Remember, TypeOK
  <2>3. CASE worker.at + 1 \in DOMAIN worker.batch
    <3>1. worker' = [pc |-> "run", batch |-> worker.batch,
                     at |-> worker.at + 1, ok |-> worker.ok]
      BY <1>26, <2>3 DEF Remember, TypeOK, Worker
    <3>2. worker' \in Worker /\ worker'.at \in DOMAIN worker'.batch
      BY <3>1, <2>3 DEF TypeOK, Worker, WorkerPc
    <3> QED
      BY <1>26, <2>2, <3>2 DEF Remember, TypeOK
  <2>4. CASE worker.at + 1 \notin DOMAIN worker.batch
    <3>1. worker' = [pc |-> "sweep", batch |-> <<>>, at |-> 1, ok |-> worker.ok]
      BY <1>26, <2>4 DEF Remember, TypeOK, Worker
    <3>2. worker' \in Worker /\ worker'.pc = "sweep"
      BY <3>1, EmptyBatch DEF TypeOK, Worker, WorkerPc
    <3> QED
      BY <1>26, <2>2, <3>2 DEF Remember, TypeOK
  <2> QED
    BY <2>3, <2>4
<1>u. CASE UNCHANGED vars
  BY <1>u DEF vars, TypeOK
<1> QED
  BY <1>1, <1>2, <1>3, <1>4, <1>5, <1>6, <1>7, <1>8, <1>10, <1>11, <1>12, <1>13, <1>14, <1>15, <1>16, <1>17, <1>18, <1>19, <1>20, <1>21, <1>22, <1>23, <1>24, <1>25, <1>26, <1>u DEF Next, Decide, Cli, Daemon

\* Type correctness of the approval table and of the processes on it.
THEOREM TypeCorrect == Spec => []TypeOK
BY InitTypeOK, NextTypeOK, PTL DEF Spec

\* Rows keep their creation time and never vanish; grants are only added.
LEMMA TableSteps ==
    ASSUME TypeOK, GrantInv, [Next]_vars, NEW c \in Approval
    PROVE  /\ row[c].status # "absent" =>
                /\ row'[c].status # "absent"
                /\ row'[c].createdAt = row[c].createdAt
           /\ grants[c] \subseteq grants'[c]
<1> DEFINE Kept == /\ row[c].status # "absent" =>
                        /\ row'[c].status # "absent"
                        /\ row'[c].createdAt = row[c].createdAt
                   /\ grants[c] \subseteq grants'[c]
<1> SUFFICES Kept
  OBVIOUS
<1>1. CASE UNCHANGED <<row, grants>>
  BY <1>1
<1>2. ASSUME NEW a \in Approval, SubmitDiagnostic(a) PROVE Kept
  BY <1>2 DEF SubmitDiagnostic, InsertPending, NoRow, TypeOK, Row
<1>3. ASSUME NEW a \in Approval, SubmitRemediation(a) PROVE Kept
  BY <1>3 DEF SubmitRemediation, InsertPending, NoRow, TypeOK, Row
<1>4. ASSUME NEW p \in Decider, ApproveUpdate(p) PROVE Kept
  BY <1>4 DEF ApproveUpdate, SetApproved, TypeOK, Row
<1>5. ASSUME NEW p \in Decider, ExpireUpdate(p) PROVE Kept
  BY <1>5 DEF ExpireUpdate, SetExpired, TypeOK, Row
<1>6. ASSUME NEW r \in Reviewer, DenyUpdate(r) PROVE Kept
  BY <1>6 DEF DenyUpdate, SetRejected, TypeOK, Row, Decider
<1>7. ASSUME NEW r \in Reviewer, RateLimited(r) PROVE Kept
  BY <1>7 DEF RateLimited, MarkExecuted, TypeOK, Row, Decider
<1>8. ASSUME NEW r \in Reviewer, Settle(r) PROVE Kept
  BY <1>8 DEF Settle, MarkExecuted, TypeOK, Row, Decider
<1>9. ASSUME Sweep PROVE Kept
  BY <1>9 DEF Sweep, ExpireOldDiagnostic, StaleDiagnostic, IsPending, TypeOK, Row
<1>10. ASSUME SaveResult PROVE Kept
  BY <1>10, TaskType DEF SaveResult, MarkDiagnosticExecuted, TypeOK, Row, Approval
<1> QED
  BY <1>1, <1>2, <1>3, <1>4, <1>5, <1>6, <1>7, <1>8, <1>9, <1>10 DEF Next, Decide, Cli, Daemon, vars,
     Tick, ApproveSelect, StartApprove, StartDeny, DenySelect, Halt, PassGate, DryRun, Execute, Abort, StartMain, CrashMain, List, RunCommand, SaveFails, Remember

\* A grant counts for good.
LEMMA GrantedStays ==
    ASSUME TypeOK, GrantInv, [Next]_vars, NEW c \in GrantedRows
    PROVE  c \in GrantedRows'
<1>1. c \in Approval /\ row[c].status # "absent"
  BY DEF GrantInv, GrantedRows
<1>2. row'[c].createdAt = row[c].createdAt /\ grants[c] \subseteq grants'[c]
  BY <1>1, TableSteps
<1> QED
  BY <1>2 DEF GrantedRows

LEMMA InitGrantInv == Init => GrantInv
BY DEF Init, GrantInv, NoRow, Idle, Down

LEMMA NextGrantInv == TypeOK /\ GrantInv /\ [Next]_vars => GrantInv'
<1> SUFFICES ASSUME TypeOK, GrantInv, [Next]_vars PROVE GrantInv'
  OBVIOUS
<1>g. GrantedRows \subseteq GrantedRows'
  BY GrantedStays
<1>f. \A c \in Approval : row[c].status # "absent" =>
        row'[c].status # "absent" /\ row'[c].createdAt = row[c].createdAt
  BY TableSteps
<1>1. ASSUME Tick PROVE GrantInv'
  BY <1>1, <1>g, <1>f DEF Tick, TypeOK, GrantInv, Op, Idle, At, Row
<1>2. ASSUME NEW a \in Approval, SubmitDiagnostic(a) PROVE GrantInv'
  BY <1>2, <1>g, <1>f DEF SubmitDiagnostic, InsertPending, NoRow, TypeOK, GrantInv, Op, Idle, At, Row, Decider
<1>3. ASSUME NEW a \in Approval, SubmitRemediation(a) PROVE GrantInv'
  BY <1>3, <1>g, <1>f DEF SubmitRemediation, InsertPending, NoRow, TypeOK, GrantInv, Op, Idle, At, Row
<1>4. ASSUME NEW p \in Decider, ApproveSelect(p) PROVE GrantInv'
  <2>1. UNCHANGED <<row, grants, runs, worker>>
    BY <1>4 DEF ApproveSelect
  <2>2. \A q \in Decider : q # p => op'[q] = op[q]
    BY <1>4 DEF ApproveSelect, TypeOK
  <2>3. CASE op'[p] = Idle \/ op'[p] = At("expire_update", op[p].id)
    BY <1>4, <2>1, <2>2, <2>3, <1>g DEF ApproveSelect, GrantInv, Idle, At
  <2>4. CASE /\ IsPending(op[p].id) /\ ~Overdue(op[p].id)
             /\ op'[p] = [At("approve_update", op[p].id) EXCEPT !.asOf = now]
    <3> DEFINE a == op[p].id
    <3>1. a \in Approval /\ row[a].status = "pending" /\ now - row[a].createdAt <= TTL
      BY <1>4, <2>4, TTLAssumption DEF ApproveSelect, TypeOK, IsPending, Overdue, Row
    <3>2. op'[p].pc = "approve_update" /\ op'[p].id = a /\ op'[p].asOf = now
      BY <2>4 DEF At
    <3> QED
      BY <2>1, <2>2, <3>1, <3>2, <1>g DEF GrantInv
  <2> QED
    BY <1>4, <2>3, <2>4 DEF ApproveSelect, TypeOK
<1>5. ASSUME NEW p \in Decider, ApproveUpdate(p) PROVE GrantInv'
  <2> DEFINE a == op[p].id
  <2>1. /\ a \in Approval /\ row[a].status # "absent" /\ op[p].asOf \in Nat
        /\ op[p].asOf - row[a].createdAt <= TTL
    BY <1>5 DEF ApproveUpdate, TypeOK, GrantInv, Op
  <2>2. [by |-> p, asOf |-> op[p].asOf] \in grants'[a]
    BY <1>5, <2>1 DEF ApproveUpdate, TypeOK
  <2>3. a \in GrantedRows'
    BY <2>1, <2>2, <1>f DEF GrantedRows
  <2>4. \A c \in Approval :
          /\ c # a => row'[c] = row[c] /\ grants'[c] = grants[c]
          /\ row'[c].status = "absent" => c # a
    BY <1>5, <2>1 DEF ApproveUpdate, SetApproved, TypeOK, Row
  <2>5. \A c \in Approval :
          /\ row'[c].status = "absent" => grants'[c] = {}
          /\ row'[c].status = "approved" => c \in GrantedRows'
          /\ runs'[c] > 0 => c \in GrantedRows'
    BY <1>5, <2>3, <2>4, <1>g DEF ApproveUpdate, GrantInv
  <2>6. \A q \in Decider : q # p => op'[q] = op[q]
    BY <1>5 DEF ApproveUpdate, TypeOK
  <2>7. op'[p] = IF a \in Remediation THEN At("gate", a) ELSE Idle
    BY <1>5 DEF ApproveUpdate, TypeOK
  <2>8. worker' = worker
    BY <1>5 DEF ApproveUpdate
  <2> QED
    BY <2>1, <2>3, <2>5, <2>6, <2>7, <2>8, <1>f, <1>g DEF GrantInv, TypeOK, At, Idle
<1>6. ASSUME NEW p \in Decider, ExpireUpdate(p) PROVE GrantInv'
  BY <1>6, <1>g, <1>f DEF ExpireUpdate, SetExpired, TypeOK, GrantInv, Op, Idle, At, Row
<1>7. ASSUME NEW r \in Reviewer, NEW a \in Approval, StartApprove(r, a) PROVE GrantInv'
  BY <1>7, <1>g, <1>f DEF StartApprove, IsPending, TypeOK, GrantInv, Op, Idle, At, Row, Decider
<1>8. ASSUME NEW r \in Reviewer, NEW a \in Approval, StartDeny(r, a) PROVE GrantInv'
  BY <1>8, <1>g, <1>f DEF StartDeny, IsPending, TypeOK, GrantInv, Op, Idle, At, Row, Decider
<1>10. ASSUME NEW r \in Reviewer, DenySelect(r) PROVE GrantInv'
  BY <1>10, <1>g, <1>f DEF DenySelect, TypeOK, GrantInv, Op, Idle, At, Row, Decider
<1>11. ASSUME NEW r \in Reviewer, DenyUpdate(r) PROVE GrantInv'
  BY <1>11, <1>g, <1>f DEF DenyUpdate, SetRejected, TypeOK, GrantInv, Op, Idle, At, Row, Decider
<1>12. ASSUME NEW r \in Reviewer, Halt(r) PROVE GrantInv'
  BY <1>12, <1>g, <1>f DEF Halt, TypeOK, GrantInv, Op, Idle, At, Row, Decider
<1>13. ASSUME NEW r \in Reviewer, RateLimited(r) PROVE GrantInv'
  BY <1>13, <1>g, <1>f DEF RateLimited, MarkExecuted, TypeOK, GrantInv, Op, Idle, At, Row, Decider
<1>14. ASSUME NEW r \in Reviewer, PassGate(r) PROVE GrantInv'
  BY <1>14, <1>g, <1>f DEF PassGate, TypeOK, GrantInv, Op, Idle, At, Row, Decider
<1>15. ASSUME NEW r \in Reviewer, DryRun(r) PROVE GrantInv'
  BY <1>15, <1>g, <1>f DEF DryRun, TypeOK, GrantInv, Op, Idle, At, Row, Decider
<1>16. ASSUME NEW r \in Reviewer, Execute(r) PROVE GrantInv'
  BY <1>16, <1>g, <1>f DEF Execute, TypeOK, GrantInv, Op, Idle, At, Row, Decider
<1>17. ASSUME NEW r \in Reviewer, Settle(r) PROVE GrantInv'
  BY <1>17, <1>g, <1>f DEF Settle, MarkExecuted, TypeOK, GrantInv, Op, Idle, At, Row, Decider
<1>18. ASSUME NEW r \in Reviewer, Abort(r) PROVE GrantInv'
  BY <1>18, <1>g, <1>f DEF Abort, TypeOK, GrantInv, Op, Idle, At, Row, Decider
<1>19. ASSUME StartMain PROVE GrantInv'
  BY <1>19, <1>g, <1>f DEF StartMain, Worker, TypeOK, GrantInv, Op, Idle, At, Row
<1>20. ASSUME CrashMain PROVE GrantInv'
  BY <1>20, <1>g, <1>f, EmptyBatch DEF CrashMain, Worker, Down, TypeOK, GrantInv, Op, Idle, At, Row, Decider
<1>21. ASSUME Sweep PROVE GrantInv'
  BY <1>21, <1>g, <1>f DEF Sweep, ExpireOldDiagnostic, StaleDiagnostic, IsPending, Worker, TypeOK, GrantInv, Op, Idle, At, Row
<1>22. ASSUME List PROVE GrantInv'
  <2>1. op' = op /\ row' = row /\ grants' = grants /\ runs' = runs
    BY <1>22 DEF List
  <2>2. PICK b \in Batches : worker'.batch = b
    BY <1>22 DEF List, TypeOK, Worker
  <2>3. \A i \in DOMAIN b : b[i] \in GrantedRows
    BY BatchFacts DEF ReadyDiagnostics, Approval, GrantInv
  <2> QED
    BY <2>1, <2>2, <2>3, <1>g DEF GrantInv
<1>23. ASSUME RunCommand PROVE GrantInv'
  <2>1. worker'.batch = worker.batch /\ op' = op /\ row' = row /\ grants' = grants
    BY <1>23 DEF RunCommand, TypeOK, Worker
  <2>2. Task \in GrantedRows
    BY <1>23, TaskType DEF RunCommand, GrantInv, Task
  <2>3. \A a \in Approval : runs'[a] > 0 => a \in GrantedRows
    BY <1>23, <2>2 DEF RunCommand, GrantInv, TypeOK
  <2> QED
    BY <2>1, <2>3, <1>g DEF GrantInv
<1>24. ASSUME SaveResult PROVE GrantInv'
  BY <1>24, <1>g, <1>f, TaskType DEF SaveResult, MarkDiagnosticExecuted, Worker, TypeOK, GrantInv, Op, Idle, At, Row
<1>25. ASSUME SaveFails PROVE GrantInv'
  BY <1>25, <1>g, <1>f DEF SaveFails, Worker, TypeOK, GrantInv, Op, Idle, At, Row
<1>26. ASSUME Remember PROVE GrantInv'
  BY <1>26, <1>g, <1>f, EmptyBatch DEF Remember, Worker, TypeOK, GrantInv, Op, Idle, At, Row
<1>u. CASE UNCHANGED vars
  BY <1>u, <1>g, <1>f DEF vars, GrantInv, TypeOK
<1> QED
  BY <1>1, <1>2, <1>3, <1>4, <1>5, <1>6, <1>7, <1>8, <1>10, <1>11, <1>12, <1>13, <1>14, <1>15, <1>16, <1>17, <1>18, <1>19, <1>20, <1>21, <1>22, <1>23, <1>24, <1>25, <1>26, <1>u DEF Next, Decide, Cli, Daemon

LEMMA GrantInvariant == Spec => []GrantInv
BY InitTypeOK, NextTypeOK, InitGrantInv, NextGrantInv, PTL DEF Spec

\* Nothing is executed without an approval that found its row pending and in
\* time: for any number of rows, reviewers, crashes and lost results.
THEOREM OnlyGrantedRuns == Spec => []RunsAreGranted
<1>1. GrantInv => RunsAreGranted
  BY DEF GrantInv, GrantedRows, RunsAreGranted
<1> QED
  BY <1>1, GrantInvariant, PTL

LEMMA InitRunInv == Init => RunInv
BY DEF Init, RunInv, NoRow, Down, Saved, InHand, Approval

LEMMA NextRunInv == TypeOK /\ GrantInv /\ RunInv /\ [Next]_vars => RunInv'
<1> SUFFICES ASSUME TypeOK, GrantInv, RunInv, [Next]_vars PROVE RunInv'
  OBVIOUS
<1>b. \A i \in DOMAIN worker.batch : worker.batch[i] \in Diagnostic
  <2>1. PICK n \in 0 .. BatchLimit : worker.batch \in [1 .. n -> Diagnostic]
    BY DEF TypeOK, Worker, Batch
  <2> QED
    BY <2>1
<1>q. /\ \A c \in Diagnostic : row'[c].executionResult = row[c].executionResult
      /\ \A c \in Diagnostic : row'[c].status = "absent" => row[c].status = "absent"
      /\ \A c \in Diagnostic : runs'[c] = runs[c] /\ lost'[c] = lost[c]
      /\ worker' = worker
      => RunInv'
  BY <1>b DEF RunInv, Saved, InHand, Task
\* Steps of the daemon that leave its batch alone.
<1>w. ASSUME worker'.batch = worker.batch, worker'.at = worker.at,
             \A c \in Diagnostic : row'[c].status = "absent" => row[c].status = "absent",
             \A c \in Diagnostic : row[c].status = "absent" =>
                row'[c].executionResult = row[c].executionResult,
             \A i \in DOMAIN worker.batch :
                (i > worker.at \/ (i = worker.at /\ worker'.pc \in {"run", "save"}))
                  => row'[worker.batch[i]].executionResult = "NULL",
             \A c \in Diagnostic : runs'[c] = lost'[c] + Saved(c)' + InHand(c)'
      PROVE  RunInv'
  BY <1>b, <1>w DEF RunInv
<1>1. ASSUME Tick PROVE RunInv'
  BY <1>1, <1>q DEF Tick, TypeOK, RunInv, Op, Row, Approval
<1>2. ASSUME NEW a \in Approval, SubmitDiagnostic(a) PROVE RunInv'
  BY <1>2, <1>q DEF SubmitDiagnostic, InsertPending, NoRow, TypeOK, RunInv, Op, Row, Approval
<1>3. ASSUME NEW a \in Approval, SubmitRemediation(a) PROVE RunInv'
  BY <1>3, <1>q DEF SubmitRemediation, InsertPending, NoRow, TypeOK, RunInv, Op, Row, Approval
<1>4. ASSUME NEW p \in Decider, ApproveSelect(p) PROVE RunInv'
  BY <1>4, <1>q DEF ApproveSelect, TypeOK, RunInv, Op, Row, Approval
<1>5. ASSUME NEW p \in Decider, ApproveUpdate(p) PROVE RunInv'
  <2>1. op[p].id \in Approval
    BY <1>5 DEF ApproveUpdate, TypeOK, Decider
  <2>2. \A c \in Diagnostic :
          /\ row'[c].executionResult = row[c].executionResult
          /\ row'[c].status = "absent" => row[c].status = "absent"
    BY <1>5, <2>1 DEF ApproveUpdate, SetApproved, TypeOK, Row, Approval
  <2> QED
    BY <1>5, <2>2, <1>q DEF ApproveUpdate
<1>6. ASSUME NEW p \in Decider, ExpireUpdate(p) PROVE RunInv'
  BY <1>6, <1>q DEF ExpireUpdate, SetExpired, TypeOK, RunInv, Op, Row, Approval
<1>7. ASSUME NEW r \in Reviewer, NEW a \in Approval, StartApprove(r, a) PROVE RunInv'
  BY <1>7, <1>q DEF StartApprove, TypeOK, RunInv, Op, Row, Approval, Decider
<1>8. ASSUME NEW r \in Reviewer, NEW a \in Approval, StartDeny(r, a) PROVE RunInv'
  BY <1>8, <1>q DEF StartDeny, TypeOK, RunInv, Op, Row, Approval, Decider
<1>10. ASSUME NEW r \in Reviewer, DenySelect(r) PROVE RunInv'
  BY <1>10, <1>q DEF DenySelect, TypeOK, RunInv, Op, Row, Approval, Decider
<1>11. ASSUME NEW r \in Reviewer, DenyUpdate(r) PROVE RunInv'
  <2>1. op[r].id \in Approval
    BY <1>11 DEF DenyUpdate, TypeOK, Decider
  <2>2. \A c \in Diagnostic :
          /\ row'[c].executionResult = row[c].executionResult
          /\ row'[c].status = "absent" => row[c].status = "absent"
    BY <1>11, <2>1 DEF DenyUpdate, SetRejected, TypeOK, Row, Approval
  <2> QED
    BY <1>11, <2>2, <1>q DEF DenyUpdate
<1>12. ASSUME NEW r \in Reviewer, Halt(r) PROVE RunInv'
  BY <1>12, <1>q DEF Halt, TypeOK, RunInv, Op, Row, Approval, Decider
<1>13. ASSUME NEW r \in Reviewer, RateLimited(r) PROVE RunInv'
  BY <1>13, <1>q DEF RateLimited, MarkExecuted, TypeOK, RunInv, Op, Row, Approval, Decider
<1>14. ASSUME NEW r \in Reviewer, PassGate(r) PROVE RunInv'
  BY <1>14, <1>q DEF PassGate, TypeOK, RunInv, Op, Row, Approval, Decider
<1>15. ASSUME NEW r \in Reviewer, DryRun(r) PROVE RunInv'
  BY <1>15, <1>q DEF DryRun, TypeOK, RunInv, Op, Row, Approval, Decider
<1>16. ASSUME NEW r \in Reviewer, Execute(r) PROVE RunInv'
  <2>1. op[r].id \in Remediation
    BY <1>16 DEF Execute, GrantInv, Decider
  <2>2. \A c \in Diagnostic : runs'[c] = runs[c]
    BY <1>16, <2>1, KindsDisjoint DEF Execute, TypeOK, Approval
  <2> QED
    BY <1>16, <2>2, <1>q DEF Execute
<1>17. ASSUME NEW r \in Reviewer, Settle(r) PROVE RunInv'
  BY <1>17, <1>q DEF Settle, MarkExecuted, TypeOK, RunInv, Op, Row, Approval, Decider
<1>18. ASSUME NEW r \in Reviewer, Abort(r) PROVE RunInv'
  BY <1>18, <1>q DEF Abort, TypeOK, RunInv, Op, Row, Approval, Decider
<1>19. ASSUME StartMain PROVE RunInv'
  <2>1. worker'.pc = "sweep" /\ worker'.batch = worker.batch /\ worker'.at = worker.at
    BY <1>19 DEF StartMain, TypeOK, Worker
  <2>2. \A c \in Diagnostic : Saved(c)' = Saved(c) /\ InHand(c)' = InHand(c)
    BY <1>19, <2>1 DEF StartMain, Saved, InHand
  <2> QED
    BY <1>19, <2>1, <2>2, <1>w DEF StartMain, RunInv
<1>20. ASSUME CrashMain PROVE RunInv'
  <2>1. worker'.pc = "down" /\ worker'.batch = <<>> /\ row' = row /\ runs' = runs
    BY <1>20 DEF CrashMain, Down
  <2>2. \A c \in Diagnostic : Saved(c)' = Saved(c) /\ InHand(c)' = 0
    BY <2>1 DEF Saved, InHand
  <2>3. \A c \in Diagnostic : lost'[c] = lost[c] + InHand(c)
    <3>1. CASE worker.pc = "save"
      BY <1>20, <3>1, TaskType DEF CrashMain, InHand, TypeOK, Approval
    <3>2. CASE worker.pc # "save"
      BY <1>20, <3>2 DEF CrashMain, InHand, TypeOK, Approval
    <3> QED
      BY <3>1, <3>2
  <2>4. \A c \in Diagnostic : runs'[c] = lost'[c] + Saved(c)' + InHand(c)'
    BY <2>1, <2>2, <2>3 DEF RunInv, Saved, InHand, TypeOK, Approval
  <2> QED
    BY <2>1, <2>4, EmptyBatch DEF RunInv
<1>21. ASSUME Sweep PROVE RunInv'
  <2>1. worker'.pc = "list" /\ worker'.batch = worker.batch /\ worker'.at = worker.at
    BY <1>21 DEF Sweep, TypeOK, Worker
  <2>2. \A c \in Approval :
          /\ row'[c].executionResult = row[c].executionResult
          /\ row'[c].status = "absent" => row[c].status = "absent"
    BY <1>21 DEF Sweep, ExpireOldDiagnostic, TypeOK, Row
  <2>3. \A c \in Diagnostic : Saved(c)' = Saved(c) /\ InHand(c)' = InHand(c)
    BY <1>21, <2>1, <2>2 DEF Sweep, Saved, InHand, Approval
  <2> QED
    BY <1>21, <2>1, <2>2, <2>3, <1>b, <1>w DEF Sweep, RunInv, Approval
<1>22. ASSUME List PROVE RunInv'
  <2>1. row' = row /\ runs' = runs /\ lost' = lost
    BY <1>22 DEF List
  <2>2. PICK b \in Batches :
          worker' = [worker EXCEPT !.pc = IF b = <<>> THEN "sweep" ELSE "run",
                                   !.batch = b, !.at = 1]
    BY <1>22 DEF List
  <2>3. worker'.batch = b /\ worker'.pc \in {"sweep", "run"}
    BY <2>2 DEF TypeOK, Worker
  <2>4. \A c \in Diagnostic : Saved(c)' = Saved(c) /\ InHand(c)' = InHand(c)
    BY <1>22, <2>1, <2>3 DEF List, Saved, InHand
  <2>5. \A i \in DOMAIN b : row[b[i]].executionResult = "NULL"
    BY BatchFacts DEF ReadyDiagnostics
  <2>6. \A i, j \in DOMAIN b : i # j => b[i] # b[j]
    BY BatchFacts
  <2> QED
    BY <2>1, <2>3, <2>4, <2>5, <2>6 DEF RunInv
<1>23. ASSUME RunCommand PROVE RunInv'
  <2>1. Task \in Diagnostic /\ worker.at \in DOMAIN worker.batch
    BY <1>23, TaskType DEF RunCommand
  <2>2. /\ worker'.pc = "save" /\ worker'.batch = worker.batch /\ worker'.at = worker.at
        /\ row' = row /\ lost' = lost /\ Task' = Task
    BY <1>23 DEF RunCommand, TypeOK, Worker, Task
  <2>3. row[Task].executionResult = "NULL"
    BY <1>23, <2>1 DEF RunCommand, RunInv, Task
  <2>4. ASSUME NEW c \in Diagnostic
        PROVE  runs'[c] = lost'[c] + Saved(c)' + InHand(c)'
    <3>1. /\ InHand(c) = 0 /\ InHand(c)' = (IF c = Task THEN 1 ELSE 0)
          /\ Saved(c)' = Saved(c)
      BY <1>23, <2>2 DEF RunCommand, InHand, Saved
    <3>2. runs'[c] = runs[c] + (IF c = Task THEN 1 ELSE 0)
      BY <1>23, <2>1 DEF RunCommand, TypeOK, Approval
    <3> QED
      BY <2>2, <3>1, <3>2 DEF RunInv, TypeOK, Approval, Saved
  <2>5. \A i \in DOMAIN worker.batch :
          (i > worker.at \/ (i = worker.at /\ worker'.pc \in {"run", "save"}))
            => row'[worker.batch[i]].executionResult = "NULL"
    BY <1>23, <2>2 DEF RunCommand, RunInv
  <2>6. \A c \in Diagnostic :
          /\ row'[c].status = "absent" => row[c].status = "absent"
          /\ row'[c].executionResult = row[c].executionResult
    BY <2>2
  <2> QED
    BY <2>2, <2>4, <2>5, <2>6, <1>w
<1>24. ASSUME SaveResult PROVE RunInv'
  <2>1. Task \in Diagnostic /\ worker.at \in DOMAIN worker.batch
    BY <1>24, TaskType DEF SaveResult
  <2>2. /\ worker'.pc = "remember" /\ worker'.batch = worker.batch /\ worker'.at = worker.at
        /\ runs' = runs /\ lost' = lost
    BY <1>24 DEF SaveResult, TypeOK, Worker
  <2>3. /\ row[Task].executionResult = "NULL"
        /\ row'[Task].executionResult # "NULL" /\ row'[Task].status # "absent"
        /\ \A c \in Diagnostic : c # Task => row'[c] = row[c]
    BY <1>24, <2>1 DEF SaveResult, MarkDiagnosticExecuted, RunInv, Task, TypeOK, Row, Approval
  <2>4. ASSUME NEW c \in Diagnostic
        PROVE  runs'[c] = lost'[c] + Saved(c)' + InHand(c)'
    <3>1. /\ InHand(c) = (IF c = Task THEN 1 ELSE 0) /\ InHand(c)' = 0
          /\ Saved(c)' = Saved(c) + InHand(c)
      BY <1>24, <2>2, <2>3 DEF SaveResult, InHand, Saved
    <3> QED
      BY <2>2, <3>1 DEF RunInv, TypeOK, Approval, Saved
  <2>5. \A i \in DOMAIN worker.batch :
          i > worker.at => row'[worker.batch[i]].executionResult = "NULL"
    <3>1. SUFFICES ASSUME NEW i \in DOMAIN worker.batch, i > worker.at
                   PROVE  row'[worker.batch[i]].executionResult = "NULL"
      OBVIOUS
    <3>2. i # worker.at
      BY <3>1 DEF TypeOK, Worker
    <3>3. worker.batch[i] # Task /\ row[worker.batch[i]].executionResult = "NULL"
      BY <2>1, <3>1, <3>2 DEF RunInv, Task
    <3> QED
      BY <2>3, <3>3, <1>b
  <2>6. \A i \in DOMAIN worker.batch :
          (i > worker.at \/ (i = worker.at /\ worker'.pc \in {"run", "save"}))
            => row'[worker.batch[i]].executionResult = "NULL"
    BY <2>2, <2>5
  <2>7. \A c \in Diagnostic :
          /\ row'[c].status = "absent" => row[c].status = "absent"
          /\ row[c].status = "absent" => row'[c].executionResult = row[c].executionResult
    <3>1. row[Task].status # "absent"
      BY <1>24, <2>1 DEF SaveResult, GrantInv, GrantedRows, Task
    <3> QED
      BY <2>3, <3>1
  <2> QED
    BY <2>2, <2>4, <2>6, <2>7, <1>w
<1>25. ASSUME SaveFails PROVE RunInv'
  <2>1. Task \in Diagnostic /\ worker.at \in DOMAIN worker.batch
    BY <1>25, TaskType DEF SaveFails
  <2>2. /\ worker'.pc = "remember" /\ worker'.batch = worker.batch /\ worker'.at = worker.at
        /\ runs' = runs /\ row' = row
    BY <1>25 DEF SaveFails, TypeOK, Worker
  <2>3. ASSUME NEW c \in Diagnostic
        PROVE  runs'[c] = lost'[c] + Saved(c)' + InHand(c)'
    <3>1. /\ InHand(c) = (IF c = Task THEN 1 ELSE 0) /\ InHand(c)' = 0
          /\ Saved(c)' = Saved(c)
      BY <1>25, <2>2 DEF SaveFails, InHand, Saved
    <3>2. lost'[c] = lost[c] + (IF c = Task THEN 1 ELSE 0)
      BY <1>25, <2>1 DEF SaveFails, TypeOK, Approval
    <3> QED
      BY <2>2, <3>1, <3>2 DEF RunInv, TypeOK, Approval, Saved
  <2> QED
    BY <2>2, <2>3, <1>w DEF RunInv
<1>26. ASSUME Remember PROVE RunInv'
  <2>1. row' = row /\ runs' = runs /\ lost' = lost
    BY <1>26 DEF Remember
  <2>2. CASE worker.at + 1 \in DOMAIN worker.batch
    <3>1. /\ worker'.pc = "run" /\ worker'.batch = worker.batch
          /\ worker'.at = worker.at + 1
      BY <1>26, <2>2 DEF Remember, TypeOK, Worker
    <3>2. \A c \in Diagnostic : Saved(c)' = Saved(c) /\ InHand(c)' = InHand(c)
      BY <1>26, <2>1, <3>1 DEF Remember, Saved, InHand
    <3>3. \A i \in DOMAIN worker.batch :
            i >= worker.at + 1 => row[worker.batch[i]].executionResult = "NULL"
      BY <2>2 DEF RunInv, TypeOK, Worker, Batch
    <3> QED
      BY <2>1, <3>1, <3>2, <3>3 DEF RunInv, TypeOK, Worker, Batch
  <2>3. CASE worker.at + 1 \notin DOMAIN worker.batch
    <3>1. worker'.pc = "sweep" /\ worker'.batch = <<>>
      BY <1>26, <2>3 DEF Remember, TypeOK, Worker
    <3>2. \A c \in Diagnostic : Saved(c)' = Saved(c) /\ InHand(c)' = InHand(c)
      BY <1>26, <2>1, <3>1 DEF Remember, Saved, InHand
    <3> QED
      BY <2>1, <3>1, <3>2, EmptyBatch DEF RunInv
  <2> QED
    BY <2>2, <2>3
<1>u. CASE UNCHANGED vars
  BY <1>u, <1>q DEF vars
<1> QED
  BY <1>1, <1>2, <1>3, <1>4, <1>5, <1>6, <1>7, <1>8, <1>10, <1>11, <1>12, <1>13, <1>14, <1>15, <1>16, <1>17, <1>18, <1>19, <1>20, <1>21, <1>22, <1>23, <1>24, <1>25, <1>26, <1>u DEF Next, Decide, Cli, Daemon

LEMMA RunInvariant == Spec => []RunInv
BY TypeCorrect, GrantInvariant, InitRunInv, NextRunInv, PTL DEF Spec

\* A diagnostic command is run again only to make up for a run whose result was
\* lost, whatever the reviewers and the sweeps do to its row in the meantime.
THEOREM OneRunPerLostResult == Spec => []OneRunPerLoss
<1>1. TypeOK /\ RunInv => OneRunPerLoss
  <2> SUFFICES ASSUME TypeOK, RunInv, NEW a \in Diagnostic
               PROVE  runs[a] <= lost[a] + 1
    BY DEF OneRunPerLoss
  <2>1. Saved(a) + InHand(a) <= 1
    <3>1. InHand(a) = 1 => Saved(a) = 0
      BY TaskType DEF InHand, Saved, RunInv, Task
    <3> QED
      BY <3>1 DEF InHand, Saved
  <2> QED
    BY <2>1 DEF RunInv, TypeOK, Approval, Saved, InHand
<1> QED
  BY <1>1, TypeCorrect, RunInvariant, PTL

-----------------------------------------------------------------------------
(* The command history.                                                    *)

\* Why HistoryIsReal is inductive: a command the daemon has run and not yet come to
\* record has one run more than the history tells of.
Unrecorded(a) == IF worker.pc \in {"save", "remember"} /\ Task = a THEN 1 ELSE 0

MemoryInv == \A a \in Diagnostic : memory[a] + Unrecorded(a) <= runs[a]

LEMMA InitMemoryInv == Init => MemoryInv
BY DEF Init, MemoryInv, Unrecorded, Down, Approval

LEMMA NextMemoryInv == TypeOK /\ GrantInv /\ MemoryInv /\ [Next]_vars => MemoryInv'
<1> SUFFICES ASSUME TypeOK, GrantInv, MemoryInv, [Next]_vars PROVE MemoryInv'
  OBVIOUS
<1>t. \A a \in Diagnostic : memory[a] \in Nat /\ runs[a] \in Nat /\ Unrecorded(a) \in 0 .. 1
  BY DEF TypeOK, Approval, Unrecorded
\* Steps that run and record nothing.
<1>q. ASSUME \A a \in Diagnostic :
               memory'[a] = memory[a] /\ runs'[a] = runs[a] /\ Unrecorded(a)' <= Unrecorded(a)
      PROVE  MemoryInv'
  <2> SUFFICES ASSUME NEW a \in Diagnostic PROVE memory'[a] + Unrecorded(a)' <= runs'[a]
    BY DEF MemoryInv
  <2>1. Unrecorded(a)' \in Nat
    BY DEF Unrecorded
  <2> QED
    BY <2>1, <1>q, <1>t DEF MemoryInv
<1>1. CASE UNCHANGED <<worker, memory, runs>>
  BY <1>1, <1>q, <1>t DEF Unrecorded, Task
<1>2. ASSUME NEW r \in Reviewer, Execute(r) PROVE MemoryInv'
  <2>1. op[r].id \in Remediation
    BY <1>2 DEF Execute, GrantInv, Decider
  <2>2. \A a \in Diagnostic : runs'[a] = runs[a]
    BY <1>2, <2>1, KindsDisjoint DEF Execute, TypeOK, Approval
  <2> QED
    BY <1>2, <2>2, <1>q, <1>t DEF Execute, Unrecorded, Task
<1>3. ASSUME worker' # worker, UNCHANGED <<memory, runs>>,
             worker'.pc \notin {"save", "remember"}
      PROVE  MemoryInv'
  BY <1>3, <1>q, <1>t DEF Unrecorded
<1>4. CASE StartMain
  BY <1>4, <1>3 DEF StartMain, TypeOK, Worker
<1>5. CASE CrashMain
  BY <1>5, <1>1, <1>3 DEF CrashMain, Down
<1>6. CASE Sweep
  BY <1>6, <1>3 DEF Sweep, TypeOK, Worker
<1>7. CASE List
  <2>1. worker'.pc \in {"sweep", "run"} /\ UNCHANGED <<memory, runs>>
    BY <1>7 DEF List, TypeOK, Worker
  <2> QED
    BY <2>1, <1>1, <1>3
<1>8. CASE RunCommand
  <2>1. Task \in Diagnostic /\ worker.pc = "run"
    BY <1>8, TaskType DEF RunCommand
  <2>2. worker'.pc = "save" /\ Task' = Task
    BY <1>8 DEF RunCommand, TypeOK, Worker, Task
  <2>3. \A a \in Diagnostic :
          /\ memory'[a] = memory[a]
          /\ runs'[a] = runs[a] + (IF a = Task THEN 1 ELSE 0)
          /\ Unrecorded(a) = 0
          /\ Unrecorded(a)' = (IF a = Task THEN 1 ELSE 0)
    BY <1>8, <2>1, <2>2 DEF RunCommand, TypeOK, Approval, Unrecorded
  <2> QED
    BY <2>3, <1>t DEF MemoryInv
<1>9. CASE SaveResult \/ SaveFails
  <2>1. UNCHANGED <<memory, runs>> /\ worker.pc = "save" /\ worker'.pc = "remember" /\ Task' = Task
    BY <1>9 DEF SaveResult, SaveFails, TypeOK, Worker, Task
  <2>2. \A a \in Diagnostic : Unrecorded(a)' = Unrecorded(a)
    BY <2>1 DEF Unrecorded
  <2> QED
    BY <2>1, <2>2, <1>q, <1>t
<1>10. CASE Remember
  <2>1. Task \in Diagnostic /\ worker.pc = "remember" /\ runs' = runs
    BY <1>10, TaskType DEF Remember
  <2>2. worker'.pc \in {"run", "sweep"}
    BY <1>10 DEF Remember, TypeOK, Worker
  <2>3. PICK recorded \in {0, 1} : memory' = [memory EXCEPT ![Task] = @ + recorded]
    BY <1>10 DEF Remember
  <2>4. \A a \in Diagnostic :
          /\ memory'[a] = memory[a] + (IF a = Task THEN recorded ELSE 0)
          /\ Unrecorded(a) = (IF a = Task THEN 1 ELSE 0)
          /\ Unrecorded(a)' = 0
    BY <2>1, <2>2, <2>3 DEF TypeOK, Unrecorded
  <2> QED
    BY <2>1, <2>3, <2>4, <1>t DEF MemoryInv
<1> QED
  BY <1>1, <1>2, <1>4, <1>5, <1>6, <1>7, <1>8, <1>9, <1>10
     DEF Next, Decide, Cli, Daemon, vars, Tick, SubmitDiagnostic, SubmitRemediation,
         ApproveSelect, ApproveUpdate, ExpireUpdate, DenySelect, DenyUpdate,
         StartApprove, StartDeny, Halt, RateLimited, PassGate, DryRun, Settle, Abort

\* The command history never tells of more executions of a command than there were,
\* across lost results, crashes and every order of the reviewers' steps.
THEOREM HistoryTellsTheTruth == Spec => []HistoryIsReal
<1>1. TypeOK /\ MemoryInv => HistoryIsReal
  <2> SUFFICES ASSUME TypeOK, MemoryInv, NEW a \in Diagnostic PROVE memory[a] <= runs[a]
    BY DEF HistoryIsReal
  <2>1. memory[a] \in Nat /\ runs[a] \in Nat
    BY DEF TypeOK, Approval
  <2> QED
    BY <2>1 DEF MemoryInv, Unrecorded
<1> QED
  BY <1>1, TypeCorrect, GrantInvariant, InitMemoryInv, NextMemoryInv, PTL DEF Spec

-----------------------------------------------------------------------------
(* Every execution of a remediation has an approval of its own.            *)

\* Why RunsPerGrant is inductive: every reviewer who is about to execute a row has an
\* approval of its own behind it, that no execution has used yet.  Approvals do not
\* coincide, since nobody is about to approve a row it has approved before.
Owed(a) == {p \in Decider : op[p].pc \in {"gate", "execute"} /\ op[p].id = a}

GrantsDiffer ==
    /\ \A a \in Approval : row[a].status = "pending" => grants[a] = {}
    /\ \A p \in Decider : op[p].pc = "approve_update" =>
         \A g \in grants[op[p].id] : g.by # p

Paid ==
    \A a \in Remediation :
        /\ IsFiniteSet(grants[a]) /\ IsFiniteSet(Owed(a))
        /\ runs[a] + Cardinality(Owed(a)) <= Cardinality(grants[a])

LEMMA InitPaid == Init => GrantsDiffer /\ Paid
<1> SUFFICES ASSUME Init PROVE GrantsDiffer /\ Paid
  OBVIOUS
<1>1. \A a \in Remediation : Owed(a) = {} /\ grants[a] = {} /\ runs[a] = 0
  BY DEF Init, Owed, Idle, Approval
<1>2. Paid
  BY <1>1, FS_EmptySet DEF Paid
<1>3. GrantsDiffer
  BY DEF GrantsDiffer, Init, Idle
<1> QED
  BY <1>2, <1>3

LEMMA NextGrantsDiffer == TypeOK /\ GrantInv /\ GrantsDiffer /\ [Next]_vars => GrantsDiffer'
<1> SUFFICES ASSUME TypeOK, GrantInv, GrantsDiffer, [Next]_vars PROVE GrantsDiffer'
  OBVIOUS
\* Steps that write no approval, and after which nobody new is about to.
<1>q. ASSUME UNCHANGED grants,
             \A a \in Approval : row'[a].status = "pending" =>
                row[a].status \in {"pending", "absent"},
             \A p \in Decider : op'[p].pc = "approve_update" =>
                op[p].pc = "approve_update" /\ op'[p].id = op[p].id
      PROVE  GrantsDiffer'
  BY <1>q DEF GrantsDiffer, GrantInv
<1>r. ASSUME UNCHANGED <<grants, op>>,
             \A a \in Approval : row'[a].status = "pending" =>
                row[a].status \in {"pending", "absent"}
      PROVE  GrantsDiffer'
  BY <1>q, <1>r
<1>1. CASE UNCHANGED <<row, op, grants>>
  BY <1>1, <1>q
<1>2. ASSUME NEW a \in Approval, SubmitDiagnostic(a) PROVE GrantsDiffer'
  BY <1>2, <1>q DEF SubmitDiagnostic, InsertPending, At, TypeOK, Decider
<1>3. ASSUME NEW a \in Approval, SubmitRemediation(a) PROVE GrantsDiffer'
  BY <1>3, <1>r DEF SubmitRemediation, InsertPending, TypeOK
<1>4. ASSUME NEW p \in Decider, ApproveSelect(p) PROVE GrantsDiffer'
  <2>1. UNCHANGED <<row, grants>> /\ \A q \in Decider : q # p => op'[q] = op[q]
    BY <1>4 DEF ApproveSelect, TypeOK
  <2>2. op[p].id \in Approval
    BY <1>4 DEF ApproveSelect, TypeOK
  <2>3. op'[p].pc = "approve_update" => op'[p].id = op[p].id /\ grants[op[p].id] = {}
    BY <1>4, <2>2 DEF ApproveSelect, IsPending, Idle, At, GrantsDiffer, TypeOK
  <2> QED
    BY <2>1, <2>3 DEF GrantsDiffer
<1>5. ASSUME NEW p \in Decider, ApproveUpdate(p) PROVE GrantsDiffer'
  <2> DEFINE a == op[p].id
  <2>1. /\ a \in Approval
        /\ \A c \in Approval : c # a => grants'[c] = grants[c] /\ row'[c] = row[c]
        /\ grants'[a] = grants[a] \cup {[by |-> p, asOf |-> op[p].asOf]}
        /\ row'[a].status = "approved"
    BY <1>5 DEF ApproveUpdate, SetApproved, TypeOK, Row
  <2>2. /\ \A q \in Decider : q # p => op'[q] = op[q]
        /\ op'[p].pc # "approve_update"
    BY <1>5 DEF ApproveUpdate, TypeOK, At, Idle
  <2>3. ASSUME NEW q \in Decider, op'[q].pc = "approve_update"
        PROVE  \A g \in grants'[op'[q].id] : g.by # q
    <3>1. q # p /\ op'[q] = op[q] /\ op[q].id \in Approval
      BY <2>2, <2>3 DEF TypeOK
    <3>2. \A g \in grants[op[q].id] : g.by # q
      BY <2>3, <3>1 DEF GrantsDiffer
    <3> QED
      BY <2>1, <3>1, <3>2
  <2> QED
    BY <2>1, <2>3 DEF GrantsDiffer
<1>6. ASSUME NEW p \in Decider, ExpireUpdate(p) PROVE GrantsDiffer'
  BY <1>6, <1>q DEF ExpireUpdate, SetExpired, TypeOK, Idle, Row
<1>7. ASSUME NEW r \in Reviewer, NEW a \in Approval, StartApprove(r, a) \/ StartDeny(r, a)
      PROVE  GrantsDiffer'
  BY <1>7, <1>q DEF StartApprove, StartDeny, At, TypeOK, Decider
<1>8. ASSUME NEW r \in Reviewer,
             DenySelect(r) \/ Halt(r) \/ PassGate(r) \/ DryRun(r) \/ Abort(r)
      PROVE  GrantsDiffer'
  BY <1>8, <1>q DEF DenySelect, Halt, PassGate, DryRun, Abort, At, Idle, TypeOK, Decider
<1>9. ASSUME NEW r \in Reviewer, Execute(r) PROVE GrantsDiffer'
  BY <1>9, <1>q DEF Execute, At, TypeOK, Decider
<1>10. ASSUME NEW r \in Reviewer, DenyUpdate(r) PROVE GrantsDiffer'
  BY <1>10, <1>q DEF DenyUpdate, SetRejected, TypeOK, Idle, Row, Decider
<1>11. ASSUME NEW r \in Reviewer, RateLimited(r) PROVE GrantsDiffer'
  BY <1>11, <1>q DEF RateLimited, MarkExecuted, TypeOK, Idle, Row, Decider
<1>12. ASSUME NEW r \in Reviewer, Settle(r) PROVE GrantsDiffer'
  BY <1>12, <1>q DEF Settle, MarkExecuted, TypeOK, Idle, Row, Decider
<1>13. ASSUME CrashMain PROVE GrantsDiffer'
  BY <1>13, <1>q DEF CrashMain, Idle, TypeOK, Decider
<1>14. ASSUME Sweep PROVE GrantsDiffer'
  BY <1>14, <1>r DEF Sweep, ExpireOldDiagnostic, TypeOK, Row
<1>15. ASSUME SaveResult PROVE GrantsDiffer'
  BY <1>15, <1>r, TaskType DEF SaveResult, MarkDiagnosticExecuted, TypeOK, Row, Approval
<1> QED
  BY <1>1, <1>2, <1>3, <1>4, <1>5, <1>6, <1>7, <1>8, <1>9, <1>10, <1>11, <1>12, <1>13,
     <1>14, <1>15
     DEF Next, Decide, Cli, Daemon, vars, Tick, StartMain, List, RunCommand, SaveFails,
         Remember

LEMMA NextPaid == TypeOK /\ GrantInv /\ GrantsDiffer /\ Paid /\ [Next]_vars => Paid'
<1> SUFFICES ASSUME TypeOK, GrantInv, GrantsDiffer, Paid, [Next]_vars PROVE Paid'
  OBVIOUS
\* Steps that execute nothing, and after which nobody new may.
<1>q. ASSUME \A a \in Remediation : grants[a] = grants'[a] /\ runs'[a] = runs[a],
             \A p \in Decider : op'[p].pc \in {"gate", "execute"} =>
                op[p].pc \in {"gate", "execute"} /\ op'[p].id = op[p].id
      PROVE  Paid'
  <2> SUFFICES ASSUME NEW a \in Remediation
               PROVE  /\ IsFiniteSet(grants'[a]) /\ IsFiniteSet(Owed(a)')
                      /\ runs'[a] + Cardinality(Owed(a)') <= Cardinality(grants'[a])
    BY DEF Paid
  <2>1. Owed(a)' \subseteq Owed(a)
    BY <1>q DEF Owed
  <2>2. IsFiniteSet(grants[a]) /\ IsFiniteSet(Owed(a))
    BY DEF Paid
  <2>3. IsFiniteSet(Owed(a)') /\ Cardinality(Owed(a)') <= Cardinality(Owed(a))
    BY <2>1, <2>2, FS_Subset
  <2>4. /\ Cardinality(Owed(a)) \in Nat /\ Cardinality(Owed(a)') \in Nat
        /\ Cardinality(grants[a]) \in Nat /\ runs[a] \in Nat
    BY <2>2, <2>3, FS_CardinalityType DEF TypeOK, Approval
  <2>5. runs[a] + Cardinality(Owed(a)) <= Cardinality(grants[a])
    BY DEF Paid
  <2> QED
    BY <2>2, <2>3, <2>4, <2>5, <1>q
<1>1. CASE UNCHANGED <<op, runs, grants>>
  BY <1>1, <1>q
<1>2. ASSUME NEW a \in Approval, SubmitDiagnostic(a) PROVE Paid'
  BY <1>2, <1>q DEF SubmitDiagnostic, At, TypeOK, Decider
<1>4. ASSUME NEW p \in Decider, ApproveSelect(p) PROVE Paid'
  <2>1. op'[p].pc \notin {"gate", "execute"} /\ \A q \in Decider : q # p => op'[q] = op[q]
    BY <1>4 DEF ApproveSelect, TypeOK, At, Idle
  <2> QED
    BY <1>4, <2>1, <1>q DEF ApproveSelect
<1>5. ASSUME NEW p \in Decider, ApproveUpdate(p) PROVE Paid'
  <2> DEFINE a == op[p].id
  <2> DEFINE g == [by |-> p, asOf |-> op[p].asOf]
  <2>1. /\ a \in Approval /\ runs' = runs
        /\ \A c \in Approval : c # a => grants'[c] = grants[c]
        /\ grants'[a] = grants[a] \cup {g}
    BY <1>5 DEF ApproveUpdate, TypeOK
  <2>2. /\ \A q \in Decider : q # p => op'[q] = op[q]
        /\ a \in Remediation => op'[p] = At("gate", a)
        /\ a \notin Remediation => op'[p] = Idle
    BY <1>5 DEF ApproveUpdate, TypeOK
  <2>3. g \notin grants[a]
    BY <1>5 DEF ApproveUpdate, GrantsDiffer
  <2> SUFFICES ASSUME NEW c \in Remediation
               PROVE  /\ IsFiniteSet(grants'[c]) /\ IsFiniteSet(Owed(c)')
                      /\ runs'[c] + Cardinality(Owed(c)') <= Cardinality(grants'[c])
    BY DEF Paid
  <2>4. /\ IsFiniteSet(grants[c]) /\ IsFiniteSet(Owed(c)) /\ runs[c] \in Nat
        /\ runs[c] + Cardinality(Owed(c)) <= Cardinality(grants[c])
    BY DEF Paid, TypeOK, Approval
  <2>5. Cardinality(grants[c]) \in Nat /\ Cardinality(Owed(c)) \in Nat
    BY <2>4, FS_CardinalityType
  <2>6. CASE c # a
    <3>1. Owed(c)' = Owed(c) /\ grants'[c] = grants[c]
      BY <1>5, <2>1, <2>2, <2>6 DEF ApproveUpdate, Owed, At, Idle, Approval
    <3> QED
      BY <2>1, <2>4, <3>1
  <2>7. CASE c = a
    <3>1. Owed(c)' = Owed(c) \cup {p} /\ p \notin Owed(c)
      BY <1>5, <2>2, <2>7 DEF ApproveUpdate, Owed, At
    <3>2. /\ IsFiniteSet(Owed(c)')
          /\ Cardinality(Owed(c)') = Cardinality(Owed(c)) + 1
      BY <2>4, <3>1, FS_AddElement
    <3>3. /\ IsFiniteSet(grants'[c])
          /\ Cardinality(grants'[c]) = Cardinality(grants[c]) + 1
      BY <2>1, <2>3, <2>4, <2>7, FS_AddElement
    <3> QED
      BY <2>1, <2>4, <2>5, <3>2, <3>3
  <2> QED
    BY <2>6, <2>7
<1>6. ASSUME NEW p \in Decider, ExpireUpdate(p) PROVE Paid'
  BY <1>6, <1>q DEF ExpireUpdate, TypeOK, Idle
<1>7. ASSUME NEW r \in Reviewer, NEW a \in Approval, StartApprove(r, a) \/ StartDeny(r, a)
      PROVE  Paid'
  BY <1>7, <1>q DEF StartApprove, StartDeny, At, TypeOK, Decider
<1>8. ASSUME NEW r \in Reviewer,
             \/ DenySelect(r) \/ DenyUpdate(r) \/ Halt(r) \/ RateLimited(r)
             \/ DryRun(r) \/ Settle(r) \/ Abort(r)
      PROVE  Paid'
  <2>1. PICK o \in {At("deny_update", op[r].id), At("settle_ok", op[r].id), Idle} :
          op' = [op EXCEPT ![r] = o]
    BY <1>8 DEF DenySelect, DenyUpdate, Halt, RateLimited, DryRun, Settle, Abort
  <2>2. UNCHANGED <<runs, grants>>
    BY <1>8 DEF DenySelect, DenyUpdate, Halt, RateLimited, DryRun, Settle, Abort
  <2>3. o.pc \notin {"gate", "execute"} /\ r \in Decider
    BY <2>1 DEF At, Idle, Decider
  <2> QED
    BY <2>1, <2>2, <2>3, <1>q DEF TypeOK
<1>9. ASSUME NEW r \in Reviewer, PassGate(r) PROVE Paid'
  BY <1>9, <1>q DEF PassGate, At, TypeOK, Decider
<1>10. ASSUME NEW r \in Reviewer, Execute(r) PROVE Paid'
  <2> DEFINE a == op[r].id
  <2>1. r \in Decider /\ a \in Remediation /\ a \in Approval
    BY <1>10 DEF Execute, GrantInv, Decider, Approval
  <2>2. /\ \A q \in Decider : q # r => op'[q] = op[q]
        /\ op'[r].pc \notin {"gate", "execute"}
    BY <1>10, <2>1 DEF Execute, TypeOK, At
  <2>3. /\ grants' = grants /\ runs'[a] = runs[a] + 1
        /\ \A c \in Approval : c # a => runs'[c] = runs[c]
    BY <1>10, <2>1 DEF Execute, TypeOK
  <2> SUFFICES ASSUME NEW c \in Remediation
               PROVE  /\ IsFiniteSet(grants'[c]) /\ IsFiniteSet(Owed(c)')
                      /\ runs'[c] + Cardinality(Owed(c)') <= Cardinality(grants'[c])
    BY DEF Paid
  <2>4. /\ IsFiniteSet(grants[c]) /\ IsFiniteSet(Owed(c)) /\ runs[c] \in Nat
        /\ runs[c] + Cardinality(Owed(c)) <= Cardinality(grants[c])
    BY DEF Paid, TypeOK, Approval
  <2>5. Cardinality(grants[c]) \in Nat /\ Cardinality(Owed(c)) \in Nat
    BY <2>4, FS_CardinalityType
  <2>6. CASE c # a
    <3>1. Owed(c)' = Owed(c) /\ runs'[c] = runs[c]
      BY <1>10, <2>1, <2>2, <2>3, <2>6 DEF Execute, Owed, Approval
    <3> QED
      BY <2>3, <2>4, <3>1
  <2>7. CASE c = a
    <3>1. Owed(c)' = Owed(c) \ {r} /\ r \in Owed(c)
      BY <1>10, <2>1, <2>2, <2>7 DEF Execute, Owed
    <3>2. /\ IsFiniteSet(Owed(c)')
          /\ Cardinality(Owed(c)') = Cardinality(Owed(c)) - 1
      BY <2>4, <3>1, FS_RemoveElement
    <3> QED
      BY <2>3, <2>4, <2>5, <2>7, <3>2
  <2> QED
    BY <2>6, <2>7
<1>11. ASSUME CrashMain PROVE Paid'
  BY <1>11, <1>q DEF CrashMain, Idle, TypeOK, Decider
<1>12. ASSUME RunCommand PROVE Paid'
  <2>1. Task \in Diagnostic
    BY <1>12, TaskType DEF RunCommand
  <2>2. \A a \in Remediation : runs'[a] = runs[a]
    BY <1>12, <2>1, KindsDisjoint DEF RunCommand, TypeOK, Approval
  <2> QED
    BY <1>12, <2>2, <1>q DEF RunCommand
<1> QED
  BY <1>1, <1>2, <1>4, <1>5, <1>6, <1>7, <1>8, <1>9, <1>10, <1>11, <1>12
     DEF Next, Decide, Cli, Daemon, vars, Tick, SubmitRemediation, StartMain, Sweep,
         List, SaveResult, SaveFails, Remember

\* Each approval of a remediation buys at most one execution of its action: however
\* many reviewers pass mark_approved's check at the same time, each of them executes
\* it once at most.
THEOREM OneRunPerGrant == Spec => []RunsPerGrant
<1>1. TypeOK /\ Paid => RunsPerGrant
  <2> SUFFICES ASSUME TypeOK, Paid, NEW a \in Remediation
               PROVE  runs[a] <= Cardinality(grants[a])
    BY DEF RunsPerGrant
  <2>1. IsFiniteSet(grants[a]) /\ IsFiniteSet(Owed(a)) /\ runs[a] \in Nat
    BY DEF Paid, TypeOK, Approval
  <2>2. Cardinality(grants[a]) \in Nat /\ Cardinality(Owed(a)) \in Nat
    BY <2>1, FS_CardinalityType
  <2> QED
    BY <2>1, <2>2 DEF Paid
<1> QED
  BY <1>1, TypeCorrect, GrantInvariant, InitPaid, NextGrantsDiffer, NextPaid, PTL DEF Spec

-----------------------------------------------------------------------------
(* One reviewer at a time.                                                 *)

\* What one reviewer at a time makes true: the row it works on is still as its
\* SELECT found it, but for the sweep; the daemon's tasks stay approved; and nothing
\* touches a row once its deny is written.
SerialInv ==
    /\ op[Main].pc = "idle"
    /\ \A r \in Reviewer :
         /\ op[r].pc \in {"approve_update", "expire_update", "deny_update"} =>
              row[op[r].id].status \in {"pending", "expired"}
         /\ op[r].pc \in {"gate", "execute", "settle_ok", "settle_failed"} =>
              row[op[r].id].status = "approved"
         /\ op[r].pc \in {"gate", "execute"} => runs[op[r].id] = 0
    /\ \A a \in Remediation :
         row[a].status \in {"absent", "pending", "expired", "rejected"} => runs[a] = 0
    /\ \A i \in DOMAIN worker.batch :
         (i > worker.at \/ (i = worker.at /\ worker.pc \in {"run", "save"}))
            => row[worker.batch[i]].status = "approved"
    /\ \A a \in Approval : denials[a] # {} => row[a].status = "rejected"

OneReviewer(self) == Reviewer = {self} /\ AutoApprove = FALSE

LEMMA InitSerialInv == Init => SerialInv
BY MainIsNoReviewer DEF Init, SerialInv, NoRow, Idle, Down, Decider, Approval

LEMMA NextSerialInv ==
    ASSUME NEW self, OneReviewer(self), TypeOK, GrantInv, RunInv, SerialInv, [Next]_vars
    PROVE  SerialInv'
<1> USE DEF OneReviewer
<1>s. self \in Decider /\ Main \in Decider /\ Main # self
  BY MainIsNoReviewer DEF Decider
<1>b. \A i \in DOMAIN worker.batch : worker.batch[i] \in Diagnostic
  <2>1. PICK n \in 0 .. BatchLimit : worker.batch \in [1 .. n -> Diagnostic]
    BY DEF TypeOK, Worker, Batch
  <2> QED
    BY <2>1
<1>m. \A p \in Decider : op[p].pc # "idle" => p = self
  BY DEF SerialInv, Decider
\* Steps of the reviewer that leave the table, the daemon and the history alone.
<1>r. ASSUME UNCHANGED <<row, worker, runs, denials>>, NEW o, op' = [op EXCEPT ![self] = o],
             /\ o.pc \in {"approve_update", "expire_update", "deny_update"} =>
                  row[o.id].status \in {"pending", "expired"}
             /\ o.pc \in {"gate", "execute", "settle_ok", "settle_failed"} =>
                  row[o.id].status = "approved"
             /\ o.pc \in {"gate", "execute"} => runs[o.id] = 0
      PROVE  SerialInv'
  <2>1. op'[Main] = op[Main] /\ op'[self] = o
    BY <1>r, <1>s DEF TypeOK
  <2> QED
    BY <1>r, <2>1 DEF SerialInv
\* Steps of the reviewer that change the status of its row, and end its work on it.
<1>e. ASSUME NEW a \in Approval, NEW s \in Status, NEW o,
             op' = [op EXCEPT ![self] = o], UNCHANGED <<worker, runs>>,
             /\ row'[a].status = s
             /\ \A c \in Approval : c # a => row'[c] = row[c],
             \A c \in Approval : denials'[c] # {} =>
                IF c = a THEN s = "rejected" ELSE denials[c] # {},
             s \in {"absent", "pending", "expired", "rejected"} =>
                row[a].status \in {"absent", "pending", "expired", "rejected"},
             row[a].status = "approved" => a \in Remediation,
             \/ o = Idle
             \/ o = At("gate", a) /\ s = "approved" /\ runs[a] = 0
      PROVE  SerialInv'
  <2>1. op'[Main] = op[Main] /\ op'[self] = o
    BY <1>e, <1>s DEF TypeOK
  <2>2. o.pc \in {"idle", "gate"} /\ (o.pc = "gate" => o.id = a)
    BY <1>e DEF Idle, At
  <2>3. \A c \in Remediation :
          row'[c].status \in {"absent", "pending", "expired", "rejected"} => runs'[c] = 0
    BY <1>e DEF SerialInv, Approval
  <2>4. \A i \in DOMAIN worker.batch :
          (i > worker.at \/ (i = worker.at /\ worker.pc \in {"run", "save"}))
            => row'[worker.batch[i]].status = "approved"
    BY <1>e, <1>b, KindsDisjoint DEF SerialInv, Approval
  <2>5. \A c \in Approval : denials'[c] # {} => row'[c].status = "rejected"
    BY <1>e DEF SerialInv
  <2> QED
    BY <1>e, <2>1, <2>2, <2>3, <2>4, <2>5 DEF SerialInv, Idle, At
<1>1. CASE UNCHANGED <<row, op, worker, runs, denials>>
  BY <1>1 DEF SerialInv
<1>2. ASSUME NEW a \in Approval, SubmitDiagnostic(a) \/ SubmitRemediation(a) PROVE SerialInv'
  <2>1. /\ UNCHANGED <<op, worker, runs, denials>> /\ row[a].status = "absent"
        /\ row'[a].status = "pending" /\ \A c \in Approval : c # a => row'[c] = row[c]
    BY <1>2 DEF SubmitDiagnostic, SubmitRemediation, InsertPending, NoRow, TypeOK
  <2>2. op[self].pc # "idle" => op[self].id # a /\ op[self].id \in Approval
    BY <2>1, <1>s DEF GrantInv, TypeOK
  <2>3. \A i \in DOMAIN worker.batch :
          (i > worker.at \/ (i = worker.at /\ worker.pc \in {"run", "save"}))
            => row'[worker.batch[i]].status = "approved"
    BY <2>1, <1>b DEF SerialInv, Approval
  <2> QED
    BY <2>1, <2>2, <2>3 DEF SerialInv, Approval
<1>4. ASSUME NEW p \in Decider, ApproveSelect(p) PROVE SerialInv'
  <2> DEFINE a == op[p].id
  <2>1. p = self /\ UNCHANGED <<row, worker, runs, denials>>
    BY <1>4, <1>m DEF ApproveSelect
  <2>2. CASE ~IsPending(a)
    BY <1>4, <1>r, <2>1, <2>2 DEF ApproveSelect, Idle
  <2>3. CASE IsPending(a) /\ Overdue(a)
    BY <1>4, <1>r, <2>1, <2>3 DEF ApproveSelect, At, IsPending
  <2>4. CASE IsPending(a) /\ ~Overdue(a)
    BY <1>4, <1>r, <2>1, <2>4 DEF ApproveSelect, At, IsPending
  <2> QED
    BY <2>2, <2>3, <2>4
<1>5. ASSUME NEW p \in Decider, ApproveUpdate(p) PROVE SerialInv'
  <2> DEFINE a == op[p].id
  <2>1. p = self /\ a \in Approval
    BY <1>5, <1>m DEF ApproveUpdate, TypeOK
  <2>2. row[a].status \in {"pending", "expired"}
    BY <1>5, <2>1 DEF ApproveUpdate, SerialInv
  <2>3. /\ row'[a].status = "approved" /\ \A c \in Approval : c # a => row'[c] = row[c]
        /\ UNCHANGED <<worker, runs, denials>>
    BY <1>5, <2>1 DEF ApproveUpdate, SetApproved, TypeOK, Row
  <2>4. \A c \in Approval : denials'[c] # {} => c # a
    BY <2>2, <2>3 DEF SerialInv
  <2>5. a \in Remediation => runs[a] = 0
    BY <2>2 DEF SerialInv
  <2>6. "approved" \in Status
    BY DEF Status
  <2>7. op' = [op EXCEPT ![self] = IF a \in Remediation THEN At("gate", a) ELSE Idle]
    BY <1>5, <2>1 DEF ApproveUpdate
  <2> QED
    BY <1>e, <2>1, <2>2, <2>3, <2>4, <2>5, <2>6, <2>7
<1>6. ASSUME NEW p \in Decider, ExpireUpdate(p) PROVE SerialInv'
  <2> DEFINE a == op[p].id
  <2>1. p = self /\ a \in Approval
    BY <1>6, <1>m DEF ExpireUpdate, TypeOK
  <2>2. row[a].status \in {"pending", "expired"}
    BY <1>6, <2>1 DEF ExpireUpdate, SerialInv
  <2>3. /\ row'[a].status = "expired" /\ \A c \in Approval : c # a => row'[c] = row[c]
        /\ UNCHANGED <<worker, runs, denials>> /\ op' = [op EXCEPT ![self] = Idle]
    BY <1>6, <2>1 DEF ExpireUpdate, SetExpired, TypeOK, Row
  <2>4. \A c \in Approval : denials'[c] # {} => c # a
    BY <2>2, <2>3 DEF SerialInv
  <2>5. "expired" \in Status
    BY DEF Status
  <2> QED
    BY <1>e, <2>1, <2>2, <2>3, <2>4, <2>5
<1>7. ASSUME NEW r \in Reviewer, NEW a \in Approval, StartApprove(r, a) \/ StartDeny(r, a)
      PROVE  SerialInv'
  <2>1. PICK o \in {At("approve_select", a), At("deny_select", a)} :
          op' = [op EXCEPT ![self] = o]
    BY <1>7 DEF StartApprove, StartDeny
  <2>2. UNCHANGED <<row, worker, runs, denials>>
    BY <1>7 DEF StartApprove, StartDeny
  <2> QED
    BY <1>r, <2>1, <2>2 DEF At
<1>8. ASSUME NEW r \in Reviewer, DenySelect(r) PROVE SerialInv'
  <2>1. r = self /\ UNCHANGED <<row, worker, runs, denials>>
    BY <1>8 DEF DenySelect
  <2>2. CASE ~IsPending(op[r].id)
    BY <1>8, <1>r, <2>1, <2>2 DEF DenySelect, Idle
  <2>3. CASE IsPending(op[r].id)
    BY <1>8, <1>r, <2>1, <2>3 DEF DenySelect, At, IsPending
  <2> QED
    BY <2>2, <2>3
<1>9. ASSUME NEW r \in Reviewer, Halt(r) \/ Abort(r) PROVE SerialInv'
  <2>1. op' = [op EXCEPT ![self] = Idle] /\ UNCHANGED <<row, worker, runs, denials>>
    BY <1>9 DEF Halt, Abort
  <2> QED
    BY <1>r, <2>1 DEF Idle
<1>10. ASSUME NEW r \in Reviewer, PassGate(r) \/ DryRun(r) PROVE SerialInv'
  <2>1. PICK o \in {At("execute", op[self].id), At("settle_ok", op[self].id)} :
          /\ op' = [op EXCEPT ![self] = o]
          /\ o.pc = "execute" => op[self].pc = "gate"
    BY <1>10 DEF PassGate, DryRun, At
  <2>2. UNCHANGED <<row, worker, runs, denials>> /\ op[self].pc \in {"gate", "execute"}
    BY <1>10 DEF PassGate, DryRun
  <2>3. row[op[self].id].status = "approved" /\ runs[op[self].id] = 0
    BY <2>2 DEF SerialInv
  <2> QED
    BY <1>r, <2>1, <2>2, <2>3 DEF At
<1>11. ASSUME NEW r \in Reviewer, Execute(r) PROVE SerialInv'
  <2> DEFINE a == op[self].id
  <2>1. /\ UNCHANGED <<row, worker, denials>>
        /\ a \in Remediation /\ row[a].status = "approved"
    BY <1>11, <1>s DEF Execute, SerialInv, GrantInv
  <2>2. /\ op'[Main] = op[Main] /\ op'[self].id = a
        /\ op'[self].pc \in {"settle_ok", "settle_failed"}
    BY <1>11, <1>s DEF Execute, TypeOK, At
  <2>3. \A c \in Remediation : c # a => runs'[c] = runs[c]
    BY <1>11 DEF Execute, TypeOK, Approval
  <2> QED
    BY <2>1, <2>2, <2>3 DEF SerialInv
<1>12. ASSUME NEW r \in Reviewer, DenyUpdate(r) PROVE SerialInv'
  <2> DEFINE a == op[self].id
  <2>1. a \in Approval /\ row[a].status \in {"pending", "expired"}
    BY <1>12, <1>s DEF DenyUpdate, TypeOK, SerialInv
  <2>2. /\ row'[a].status = "rejected" /\ \A c \in Approval : c # a => row'[c] = row[c]
        /\ \A c \in Approval : c # a => denials'[c] = denials[c]
        /\ UNCHANGED <<worker, runs>> /\ op' = [op EXCEPT ![self] = Idle]
    BY <1>12, <2>1 DEF DenyUpdate, SetRejected, TypeOK, Row
  <2>3. "rejected" \in Status
    BY DEF Status
  <2> QED
    BY <1>e, <2>1, <2>2, <2>3
<1>13. ASSUME NEW r \in Reviewer, RateLimited(r) \/ Settle(r) PROVE SerialInv'
  <2> DEFINE a == op[self].id
  <2>1. a \in Remediation /\ a \in Approval /\ row[a].status = "approved"
    BY <1>13, <1>s DEF RateLimited, Settle, GrantInv, SerialInv, Approval
  <2>2. PICK ok \in BOOLEAN : MarkExecuted(a, ok)
    BY <1>13 DEF RateLimited, Settle
  <2>3. UNCHANGED <<worker, runs, denials>> /\ op' = [op EXCEPT ![self] = Idle]
    BY <1>13 DEF RateLimited, Settle
  <2>4. PICK s \in {"executed", "failed"} : row' = [row EXCEPT ![a].status = s]
    BY <2>2 DEF MarkExecuted
  <2>5. row'[a].status = s /\ \A c \in Approval : c # a => row'[c] = row[c]
    BY <2>1, <2>4 DEF TypeOK, Row
  <2>6. \A c \in Approval : denials'[c] # {} => c # a
    BY <2>1, <2>3 DEF SerialInv
  <2>7. s \in Status /\ s \notin {"absent", "pending", "expired", "rejected"}
    BY <2>4 DEF Status
  <2> QED
    BY <1>e, <2>1, <2>3, <2>5, <2>6, <2>7
<1>14. CASE StartMain
  <2>1. /\ worker'.pc = "sweep" /\ worker'.batch = worker.batch /\ worker'.at = worker.at
        /\ UNCHANGED <<row, op, runs, denials>>
    BY <1>14 DEF StartMain, TypeOK, Worker
  <2> QED
    BY <2>1 DEF SerialInv
<1>15. CASE CrashMain
  <2>1. worker'.batch = <<>> /\ UNCHANGED <<row, runs, denials>>
    BY <1>15 DEF CrashMain, Down
  <2>2. op'[Main] = Idle /\ op'[self] = op[self]
    BY <1>15, <1>s DEF CrashMain, TypeOK
  <2> QED
    BY <2>1, <2>2, EmptyBatch DEF SerialInv, Idle
<1>16. CASE Sweep
  <2>1. /\ worker'.pc = "list" /\ worker'.batch = worker.batch /\ worker'.at = worker.at
        /\ UNCHANGED <<op, runs, denials>>
    BY <1>16 DEF Sweep, TypeOK, Worker
  <2>2. \A c \in Approval :
          \/ row'[c] = row[c]
          \/ row[c].status = "pending" /\ row'[c].status = "expired"
    BY <1>16 DEF Sweep, ExpireOldDiagnostic, StaleDiagnostic, IsPending, TypeOK, Row
  <2>3. op[self].pc # "idle" => op[self].id \in Approval
    BY <1>s DEF TypeOK
  <2>4. \A i \in DOMAIN worker.batch :
          i > worker.at => row'[worker.batch[i]].status = "approved"
    BY <2>2, <1>b DEF SerialInv, Approval
  <2>5. \A c \in Remediation : row'[c].status \in {"absent", "pending", "expired", "rejected"}
          => row[c].status \in {"absent", "pending", "expired", "rejected"}
    BY <2>2 DEF Approval
  <2> QED
    BY <2>1, <2>2, <2>3, <2>4, <2>5 DEF SerialInv
<1>17. CASE List
  <2>1. PICK b \in Batches : worker'.batch = b /\ worker'.at = 1
    BY <1>17 DEF List, TypeOK, Worker
  <2>2. \A i \in DOMAIN b : row[b[i]].status = "approved"
    BY BatchFacts DEF ReadyDiagnostics
  <2> QED
    BY <1>17, <2>1, <2>2 DEF List, SerialInv
<1>18. CASE RunCommand
  <2>1. Task \in Diagnostic
    BY <1>18, TaskType DEF RunCommand
  <2>2. /\ worker'.pc = "save" /\ worker'.batch = worker.batch /\ worker'.at = worker.at
        /\ UNCHANGED <<row, op, denials>>
    BY <1>18 DEF RunCommand, TypeOK, Worker
  <2>3. \A c \in Remediation : runs'[c] = runs[c]
    BY <1>18, <2>1, KindsDisjoint DEF RunCommand, TypeOK, Approval
  <2>4. op[self].pc \in {"gate", "execute"} => op[self].id \in Remediation
    BY <1>s DEF GrantInv
  <2> QED
    BY <1>18, <2>2, <2>3, <2>4 DEF RunCommand, SerialInv
<1>19. CASE SaveResult
  <2>1. Task \in Diagnostic /\ worker.at \in DOMAIN worker.batch
    BY <1>19, TaskType DEF SaveResult
  <2>2. /\ worker'.pc = "remember" /\ worker'.batch = worker.batch /\ worker'.at = worker.at
        /\ UNCHANGED <<op, runs, denials>>
    BY <1>19 DEF SaveResult, TypeOK, Worker
  <2>3. \A c \in Approval : c # Task => row'[c] = row[c]
    BY <1>19, <2>1 DEF SaveResult, MarkDiagnosticExecuted, TypeOK, Approval
  <2>4. row[Task].status = "approved"
    BY <1>19, <2>1 DEF SaveResult, SerialInv, Task
  <2>5. row'[Task].status \in {"executed", "failed"}
    BY <1>19, <2>1 DEF SaveResult, MarkDiagnosticExecuted, TypeOK, Row, Approval
  <2>6. op[self].pc \in {"approve_update", "expire_update", "deny_update",
                         "gate", "execute", "settle_ok", "settle_failed"} =>
          op[self].id # Task /\ op[self].id \in Approval
    <3>1. CASE op[self].pc \in {"approve_update", "expire_update", "deny_update"}
      BY <2>4, <3>1, <1>s DEF SerialInv, TypeOK
    <3>2. CASE op[self].pc \in {"gate", "execute", "settle_ok", "settle_failed"}
      BY <2>1, <3>2, <1>s, KindsDisjoint DEF GrantInv, Approval
    <3> QED
      BY <3>1, <3>2
  <2>7. \A i \in DOMAIN worker.batch :
          i > worker.at => row'[worker.batch[i]].status = "approved"
    <3> SUFFICES ASSUME NEW i \in DOMAIN worker.batch, i > worker.at
                 PROVE  row'[worker.batch[i]].status = "approved"
      OBVIOUS
    <3>1. i # worker.at
      BY DEF TypeOK, Worker
    <3>2. worker.batch[i] # Task
      BY <2>1, <3>1 DEF RunInv, Task
    <3> QED
      BY <2>3, <3>2, <1>b DEF SerialInv, Approval
  <2>8. \A c \in Remediation : row'[c] = row[c]
    BY <2>1, <2>3, KindsDisjoint DEF Approval
  <2>9. \A c \in Approval : denials[c] # {} => row'[c].status = "rejected"
    BY <2>3, <2>4 DEF SerialInv
  <2> QED
    BY <2>2, <2>3, <2>6, <2>7, <2>8, <2>9 DEF SerialInv
<1>20. CASE SaveFails
  <2>1. /\ worker'.pc = "remember" /\ worker'.batch = worker.batch /\ worker'.at = worker.at
        /\ UNCHANGED <<row, op, runs, denials>>
    BY <1>20 DEF SaveFails, TypeOK, Worker
  <2> QED
    BY <2>1 DEF SerialInv
<1>21. CASE Remember
  <2>1. UNCHANGED <<row, op, runs, denials>>
    BY <1>21 DEF Remember
  <2>2. CASE worker.at + 1 \in DOMAIN worker.batch
    <3>1. worker'.batch = worker.batch /\ worker'.at = worker.at + 1
      BY <1>21, <2>2 DEF Remember, TypeOK, Worker
    <3>2. \A i \in DOMAIN worker.batch : i >= worker.at + 1 => i > worker.at
      BY DEF TypeOK, Worker, Batch
    <3>3. \A i \in DOMAIN worker.batch :
            i >= worker.at + 1 => row[worker.batch[i]].status = "approved"
      BY <3>2 DEF SerialInv
    <3>4. \A i \in DOMAIN worker.batch :
            i > worker.at + 1 \/ i = worker.at + 1 => i >= worker.at + 1
      BY DEF TypeOK, Worker, Batch
    <3> QED
      BY <2>1, <3>1, <3>3, <3>4 DEF SerialInv
  <2>3. CASE worker.at + 1 \notin DOMAIN worker.batch
    <3>1. worker'.batch = <<>>
      BY <1>21, <2>3 DEF Remember, TypeOK, Worker
    <3> QED
      BY <2>1, <3>1, EmptyBatch DEF SerialInv
  <2> QED
    BY <2>2, <2>3
<1> QED
  BY <1>1, <1>2, <1>4, <1>5, <1>6, <1>7, <1>8, <1>9, <1>10, <1>11, <1>12, <1>13, <1>14,
     <1>15, <1>16, <1>17, <1>18, <1>19, <1>20, <1>21
     DEF Next, Decide, Cli, Daemon, vars, Tick

\* A deny ends it: nothing is executed after the deny of its row was written, when
\* one reviewer works at a time and nothing is approved automatically.
LEMMA NoRunAfterDeny ==
    ASSUME NEW self, OneReviewer(self), TypeOK, GrantInv, RunInv, SerialInv, [Next]_vars
    PROVE  \A a \in Approval : runs'[a] > runs[a] => denials[a] = {}
<1> SUFFICES ASSUME NEW a \in Approval, runs'[a] > runs[a] PROVE denials[a] = {}
  OBVIOUS
<1>0. runs' # runs /\ runs[a] \in Nat
  <2>1. runs[a] \in Nat
    BY DEF TypeOK
  <2>2. ~(runs[a] > runs[a])
    BY <2>1
  <2> QED
    BY <2>1, <2>2
<1>1. ASSUME NEW r \in Reviewer, Execute(r) PROVE denials[a] = {}
  <2>1. a = op[r].id
    BY <1>0, <1>1 DEF Execute, TypeOK
  <2>2. row[a].status = "approved"
    BY <1>1, <2>1 DEF Execute, SerialInv
  <2> QED
    BY <2>2 DEF SerialInv
<1>2. ASSUME RunCommand PROVE denials[a] = {}
  <2>1. a = Task /\ worker.at \in DOMAIN worker.batch
    BY <1>0, <1>2, TaskType DEF RunCommand, TypeOK
  <2>2. row[a].status = "approved"
    BY <1>2, <2>1 DEF RunCommand, SerialInv, Task
  <2> QED
    BY <2>2 DEF SerialInv
<1> QED
  BY <1>0, <1>1, <1>2
     DEF Next, Decide, Cli, Daemon, vars, Tick, SubmitDiagnostic, SubmitRemediation,
         ApproveSelect, ApproveUpdate, ExpireUpdate, DenySelect, DenyUpdate,
         StartApprove, StartDeny, Halt, RateLimited, PassGate, DryRun, Settle, Abort,
         StartMain, CrashMain, Sweep, List, SaveResult, SaveFails, Remember

\* Every step of the table's processes is a step of the lifecycle, or none.
LEMMA StepsOfTheLifecycle ==
    ASSUME NEW self, OneReviewer(self), TypeOK, GrantInv, RunInv, SerialInv, [Next]_vars
    PROVE  [Lifecycle!LifecycleNext]_(Lifecycle!lifecycleVars)
<1> DEFINE status == [a \in Approval |-> row[a].status]
<1> DEFINE Goal == [Lifecycle!LifecycleNext]_(Lifecycle!lifecycleVars)
<1>s. self \in Decider /\ self \in Reviewer
  BY DEF Decider, OneReviewer
<1>m. \A p \in Decider : op[p].pc # "idle" => p = self
  BY DEF SerialInv, Decider, OneReviewer
<1>q. ASSUME \A c \in Approval : row'[c].status = row[c].status, UNCHANGED runs PROVE Goal
  BY <1>q DEF Lifecycle!lifecycleVars
\* One row moves to another status.
<1>e. ASSUME NEW a \in Approval, NEW s, UNCHANGED runs,
             row'[a].status = s, \A c \in Approval : c # a => row'[c] = row[c],
             \/ row[a].status = "absent" /\ s = "pending"
             \/ row[a].status \in {"pending", "expired"} /\ s \in {"approved", "rejected"}
             \/ row[a].status = "approved" /\ s \in {"executed", "failed"}
      PROVE  Goal
  <2>1. status' = [status EXCEPT ![a] = s] /\ status[a] = row[a].status
    BY <1>e
  <2>2. \/ Lifecycle!Submit(a) \/ Lifecycle!Decide(a) \/ Lifecycle!Finish(a)
    BY <1>e, <2>1 DEF Lifecycle!Submit, Lifecycle!Decide, Lifecycle!Finish
  <2> QED
    BY <2>2 DEF Lifecycle!LifecycleNext
\* Pending rows expire.
<1>x. ASSUME UNCHANGED runs,
             \A c \in Approval :
                \/ row'[c].status = row[c].status
                \/ row[c].status = "pending" /\ row'[c].status = "expired"
      PROVE  Goal
  <2>1. PICK S \in SUBSET Approval : S = {c \in Approval : row'[c].status # row[c].status}
    OBVIOUS
  <2>2. \A c \in S : status[c] = "pending"
    BY <1>x, <2>1
  <2>3. status' = [c \in Approval |-> IF c \in S THEN "expired" ELSE status[c]]
    BY <1>x, <2>1
  <2>4. Lifecycle!Expire(S)
    BY <1>x, <2>2, <2>3 DEF Lifecycle!Expire
  <2> QED
    BY <2>4 DEF Lifecycle!LifecycleNext
\* An approved row takes effect.
<1>t. ASSUME NEW a \in Approval, UNCHANGED row, runs' = [runs EXCEPT ![a] = @ + 1],
             row[a].status = "approved", a \in Remediation => runs[a] = 0
      PROVE  Goal
  <2>1. Lifecycle!TakeEffect(a)
    BY <1>t DEF Lifecycle!TakeEffect
  <2> QED
    BY <2>1 DEF Lifecycle!LifecycleNext
<1>1. CASE UNCHANGED <<row, runs>>
  BY <1>1, <1>q
<1>2. ASSUME NEW a \in Approval, SubmitDiagnostic(a) \/ SubmitRemediation(a) PROVE Goal
  <2>1. /\ UNCHANGED runs /\ row[a].status = "absent" /\ row'[a].status = "pending"
        /\ \A c \in Approval : c # a => row'[c] = row[c]
    BY <1>2 DEF SubmitDiagnostic, SubmitRemediation, InsertPending, NoRow, TypeOK
  <2> QED
    BY <1>e, <2>1
<1>3. ASSUME NEW p \in Decider, ApproveUpdate(p) PROVE Goal
  <2>1. p = self /\ op[p].id \in Approval
    BY <1>3, <1>m DEF ApproveUpdate, TypeOK
  <2>2. row[op[p].id].status \in {"pending", "expired"}
    BY <1>3, <1>s, <2>1 DEF ApproveUpdate, SerialInv
  <2>3. /\ row'[op[p].id].status = "approved" /\ UNCHANGED runs
        /\ \A c \in Approval : c # op[p].id => row'[c] = row[c]
    BY <1>3, <2>1 DEF ApproveUpdate, SetApproved, TypeOK, Row
  <2> QED
    BY <1>e, <2>1, <2>2, <2>3
<1>4. ASSUME NEW p \in Decider, ExpireUpdate(p) PROVE Goal
  <2>1. p = self /\ op[p].id \in Approval
    BY <1>4, <1>m DEF ExpireUpdate, TypeOK
  <2>2. row[op[p].id].status \in {"pending", "expired"}
    BY <1>4, <1>s, <2>1 DEF ExpireUpdate, SerialInv
  <2>3. /\ row'[op[p].id].status = "expired" /\ UNCHANGED runs
        /\ \A c \in Approval : c # op[p].id => row'[c] = row[c]
    BY <1>4, <2>1 DEF ExpireUpdate, SetExpired, TypeOK, Row
  <2> QED
    BY <1>x, <2>1, <2>2, <2>3
<1>5. ASSUME NEW r \in Reviewer, DenyUpdate(r) PROVE Goal
  <2>1. op[r].id \in Approval /\ row[op[r].id].status \in {"pending", "expired"}
    BY <1>5 DEF DenyUpdate, TypeOK, SerialInv, Decider
  <2>2. /\ row'[op[r].id].status = "rejected" /\ UNCHANGED runs
        /\ \A c \in Approval : c # op[r].id => row'[c] = row[c]
    BY <1>5, <2>1 DEF DenyUpdate, SetRejected, TypeOK, Row
  <2> QED
    BY <1>e, <2>1, <2>2
<1>6. ASSUME NEW r \in Reviewer, RateLimited(r) \/ Settle(r) PROVE Goal
  <2>1. op[r].id \in Approval /\ row[op[r].id].status = "approved"
    BY <1>6 DEF RateLimited, Settle, TypeOK, SerialInv, Decider
  <2>2. /\ row'[op[r].id].status \in {"executed", "failed"} /\ UNCHANGED runs
        /\ \A c \in Approval : c # op[r].id => row'[c] = row[c]
    BY <1>6, <2>1 DEF RateLimited, Settle, MarkExecuted, TypeOK, Row
  <2> QED
    BY <1>e, <2>1, <2>2
<1>7. ASSUME NEW r \in Reviewer, Execute(r) PROVE Goal
  <2>1. op[r].id \in Approval /\ row[op[r].id].status = "approved" /\ runs[op[r].id] = 0
    BY <1>7 DEF Execute, TypeOK, SerialInv, Decider
  <2>2. UNCHANGED row /\ runs' = [runs EXCEPT ![op[r].id] = @ + 1]
    BY <1>7 DEF Execute
  <2> QED
    BY <1>t, <2>1, <2>2
<1>8. CASE Sweep
  <2>1. UNCHANGED runs
    BY <1>8 DEF Sweep
  <2>2. \A c \in Approval :
          \/ row'[c].status = row[c].status
          \/ row[c].status = "pending" /\ row'[c].status = "expired"
    BY <1>8 DEF Sweep, ExpireOldDiagnostic, StaleDiagnostic, IsPending, TypeOK, Row
  <2> QED
    BY <1>x, <2>1, <2>2
<1>9. CASE RunCommand
  <2>1. Task \in Diagnostic /\ worker.at \in DOMAIN worker.batch
    BY <1>9, TaskType DEF RunCommand
  <2>2. row[Task].status = "approved"
    BY <1>9, <2>1 DEF RunCommand, SerialInv, Task
  <2>3. UNCHANGED row /\ runs' = [runs EXCEPT ![Task] = @ + 1]
    BY <1>9 DEF RunCommand
  <2> QED
    BY <1>t, <2>1, <2>2, <2>3, KindsDisjoint DEF Approval
<1>10. CASE SaveResult
  <2>1. Task \in Diagnostic /\ worker.at \in DOMAIN worker.batch
    BY <1>10, TaskType DEF SaveResult
  <2>2. row[Task].status = "approved"
    BY <1>10, <2>1 DEF SaveResult, SerialInv, Task
  <2>3. /\ row'[Task].status \in {"executed", "failed"} /\ UNCHANGED runs
        /\ \A c \in Approval : c # Task => row'[c] = row[c]
    BY <1>10, <2>1 DEF SaveResult, MarkDiagnosticExecuted, TypeOK, Row, Approval
  <2> QED
    BY <1>e, <2>1, <2>2, <2>3 DEF Approval
<1> QED
  BY <1>1, <1>2, <1>3, <1>4, <1>5, <1>6, <1>7, <1>8, <1>9, <1>10
     DEF Next, Decide, Cli, Daemon, vars, Tick, ApproveSelect, DenySelect,
         StartApprove, StartDeny, Halt, PassGate, DryRun, Abort,
         StartMain, CrashMain, List, SaveFails, Remember

LEMMA LifecycleStarts == Init => Lifecycle!LifecycleInit
BY DEF Init, Lifecycle!LifecycleInit, NoRow

LEMMA SerialInvariant == ASSUME NEW self, OneReviewer(self) PROVE Spec => []SerialInv
<1>1. TypeOK /\ GrantInv /\ RunInv /\ SerialInv /\ [Next]_vars => SerialInv'
  BY NextSerialInv
<1> QED
  BY <1>1, TypeCorrect, GrantInvariant, RunInvariant, InitSerialInv, PTL DEF Spec

\* With one reviewer at a time and no auto-approval nothing is executed after a deny
\* of it was written: "deny <task_id> -> daemon skips" (approval-exec design).
THEOREM OneReviewerDeniesForGood ==
    ASSUME NEW self, OneReviewer(self) PROVE Spec => DeniedNeverRuns
<1>1. TypeOK /\ GrantInv /\ RunInv /\ SerialInv /\ [Next]_vars =>
        [\A a \in Approval : runs'[a] > runs[a] => denials[a] = {}]_vars
  BY NoRunAfterDeny
<1> QED
  BY <1>1, TypeCorrect, GrantInvariant, RunInvariant, SerialInvariant, PTL
     DEF Spec, DeniedNeverRuns

\* With one reviewer at a time and no auto-approval the table implements the
\* lifecycle of the store's docstring, crashes and lost results included.
THEOREM OneReviewerKeepsTheLifecycle ==
    ASSUME NEW self, OneReviewer(self) PROVE Spec => ImplementsLifecycle
<1>1. TypeOK /\ GrantInv /\ RunInv /\ SerialInv /\ [Next]_vars =>
        [Lifecycle!LifecycleNext]_(Lifecycle!lifecycleVars)
  BY StepsOfTheLifecycle
<1> QED
  BY <1>1, LifecycleStarts, TypeCorrect, GrantInvariant, RunInvariant, SerialInvariant, PTL
     DEF Spec, ImplementsLifecycle, Lifecycle!LifecycleSpec
=============================================================================
