---------------------------- MODULE ApprovalStore ----------------------------
(***************************************************************************)
(* tools/approval_store.py: the SQLite table of approvals.  Every          *)
(* connection is in autocommit mode, so each SQL statement is atomic and   *)
(* nothing larger is: this module has one operator per statement, and the  *)
(* processes that issue the statements are in ApprovalFlow.  The plan, the *)
(* command and the reviewer's name are data no statement tests, and are    *)
(* left out.                                                               *)
(***************************************************************************)
EXTENDS Integers, FiniteSets

CONSTANTS
    Diagnostic,   \* ids of the rows of kind 'diagnostic_cmd'
    Remediation,  \* ids of the rows of kind 'remediation'
    TTL,          \* ttl_sec of every row
    BatchLimit    \* LIMIT of list_approved_diagnostic_pending

ASSUME KindsDisjoint == Diagnostic \cap Remediation = {}
ASSUME TTLAssumption == TTL \in Nat
ASSUME BatchLimitAssumption == BatchLimit \in Nat \ {0}

Approval == Diagnostic \cup Remediation

VARIABLES
    now,   \* int(time.time())
    row    \* the table: approval id -> row

Status == {"absent", "pending", "approved", "executed",
           "rejected", "expired", "failed"}

\* executionResult is the column execution_result: only diagnostic rows use it.
Row == [status : Status, createdAt : Nat, decidedAt : Nat,
        executionResult : {"NULL", "ok", "failed"}]

NoRow == [status |-> "absent", createdAt |-> 0, decidedAt |-> 0,
          executionResult |-> "NULL"]

\* create_pending and create_diagnostic_pending.
InsertPending(a) ==
    /\ row[a].status = "absent"
    /\ row' = [row EXCEPT ![a] = [NoRow EXCEPT !.status = "pending",
                                               !.createdAt = now]]

\* The test mark_approved, mark_rejected and the CLI make on the status.  Seeded
\* bug: a decision on an approved row is let through.
IsPendingBug(a) == row[a].status \in {"pending", "approved"}
IsPending(a) == row[a].status = "pending"

\* mark_approved's expiry test, and is_expired.  Seeded bug: no test.
OverdueBug(a) == FALSE
Overdue(a) == now - row[a].createdAt > TTL

\* The final statements of mark_approved: neither repeats the test on the status.
SetApproved(a) ==
    row' = [row EXCEPT ![a].status = "approved", ![a].decidedAt = now]

SetExpired(a) == row' = [row EXCEPT ![a].status = "expired"]

SetRejected(a) ==
    row' = [row EXCEPT ![a].status = "rejected", ![a].decidedAt = now]

\* mark_executed: unconditional.
MarkExecuted(a, ok) ==
    row' = [row EXCEPT ![a].status = IF ok THEN "executed" ELSE "failed"]

\* mark_diagnostic_executed: unconditional; ok is exit_code == 0.
MarkDiagnosticExecuted(a, ok) ==
    row' = [row EXCEPT
              ![a].status = IF ok THEN "executed" ELSE "failed",
              ![a].executionResult = IF ok THEN "ok" ELSE "failed"]

\* expire_old_diagnostic: one UPDATE, over diagnostic rows only.  Seeded bug: its
\* comparison never holds.
StaleDiagnosticBug(a) == FALSE
StaleDiagnostic(a) ==
    a \in Diagnostic /\ IsPending(a) /\ row[a].createdAt + TTL < now

ExpireOldDiagnostic ==
    row' = [a \in Approval |->
              IF StaleDiagnostic(a) THEN [row[a] EXCEPT !.status = "expired"]
                                    ELSE row[a]]

\* WHERE kind='diagnostic_cmd' AND status='approved' AND execution_result IS NULL
\* Seeded bugs: the second test is missing; only fresh decisions are listed.
ReadyAgainBug == {a \in Diagnostic : row[a].status = "approved"}
ReadyIfFreshBug ==
    {a \in Diagnostic : row[a].status = "approved" /\ row[a].decidedAt = now}
ReadyDiagnostics ==
    {a \in Diagnostic : /\ row[a].status = "approved"
                        /\ row[a].executionResult = "NULL"}

\* list_approved_diagnostic_pending: ORDER BY decided_at ASC LIMIT BatchLimit.
\* SQLite may return rows of one decided_at in any order.
Batches ==
    {b \in UNION {[1 .. n -> ReadyDiagnostics] : n \in 0 .. BatchLimit} :
       /\ \A i, j \in DOMAIN b : i < j => /\ b[i] # b[j]
                                          /\ row[b[i]].decidedAt <= row[b[j]].decidedAt
       /\ \A a \in ReadyDiagnostics \ {b[i] : i \in DOMAIN b} :
            /\ BatchLimit \in DOMAIN b
            /\ \A i \in DOMAIN b : row[b[i]].decidedAt <= row[a].decidedAt}
==============================================================================
