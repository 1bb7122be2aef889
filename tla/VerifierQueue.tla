---------------------------- MODULE VerifierQueue ----------------------------
(***************************************************************************)
(* The asynchronous validation: the table verification_tasks               *)
(* (tools/verifier_store.py), the Validator that fills it                  *)
(* (agents/validator.py) and the verifier_worker daemon that works it off. *)
(* Every SQL statement is atomic; a batch that was claimed is a copy, and  *)
(* nothing marks its rows as claimed.  The store's design is one process;  *)
(* Process lets two of them run on one database.                           *)
(***************************************************************************)
EXTENDS Verdicts, Sequences

CONSTANTS
    Task,          \* remediations to verify
    Process,       \* main processes
    Remedy,        \* the actions they carry out
    ROUND_OFFSETS, \* seconds after created_at of the three checks
    BatchLimit,    \* LIMIT of claim_due
    LastEnqueue,   \* bound: no task is enqueued after this time
    MaxTime,       \* bound: the clock stops here
    MaxExits,      \* bound: ends of main processes
    MaxFails       \* bound: statements of update_status that fail

Rounds == Len(ROUND_OFFSETS)

ASSUME OffsetsAssumption ==
    /\ ROUND_OFFSETS \in Seq(Nat)
    /\ Rounds > 0
    /\ \A i, j \in 1 .. Rounds : i <= j => ROUND_OFFSETS[i] <= ROUND_OFFSETS[j]
ASSUME BatchLimitAssumption == BatchLimit \in Nat \ {0}
ASSUME BoundsAssumption ==
    LastEnqueue \in Nat /\ MaxTime \in Nat /\ MaxExits \in Nat /\ MaxFails \in Nat
\* The clock reaches the last round of every task.
ASSUME HorizonAssumption == LastEnqueue + ROUND_OFFSETS[Rounds] <= MaxTime

VARIABLES
    now,     \* int(time.time())
    row,     \* the table: task -> row
    worker,  \* process -> its verifier_worker thread
    told,    \* history: task -> the last final status announced, or "nothing"
    exits,   \* ends of main processes so far
    fails    \* failed updates so far

vars == <<now, row, worker, told, exits, fails>>

Final == {"success", "failed", "escalate_human", "timeout"}

Row == [status : Final \cup {"absent", "pending"}, action : Remedy \cup {"none"},
        createdAt : Nat, checkAt : Nat, checkRound : 0 .. Rounds]

NoRow == [status |-> "absent", action |-> "none", createdAt |-> 0, checkAt |-> 0,
          checkRound |-> 0]

\* A task in a batch is the copy claim_due made; round is its check_round.  verdict
\* is the status _verify_once returned for batch[at].
WorkerPc == {"down", "claim", "verify", "write", "tell"}
Claim == [id : Task, round : 0 .. Rounds - 1]
Batch == UNION {[1 .. n -> Claim] : n \in 0 .. BatchLimit}
Worker == [pc : WorkerPc, batch : Batch, at : Nat \ {0},
           verdict : Final \cup {"pending"}]
Down == [pc |-> "down", batch |-> <<>>, at |-> 1, verdict |-> "pending"]
InHand(p) == worker[p].batch[worker[p].at]

TypeOK ==
    /\ now \in Nat
    /\ row \in [Task -> Row]
    /\ worker \in [Process -> Worker]
    /\ \A p \in Process :
         worker[p].pc \in {"verify", "write", "tell"}
            => worker[p].at \in DOMAIN worker[p].batch
    /\ told \in [Task -> Final \cup {"nothing"}]
    /\ exits \in Nat
    /\ fails \in Nat

Init ==
    /\ now = 0
    /\ row = [t \in Task |-> NoRow]
    /\ worker = [p \in Process |-> Down]
    /\ told = [t \in Task |-> "nothing"]
    /\ exits = 0
    /\ fails = 0

Tick ==
    /\ now < MaxTime
    /\ now' = now + 1
    /\ UNCHANGED <<row, worker, told, exits, fails>>

\* main_inspect starts, and the daemon with it.
Start(p) ==
    /\ worker[p].pc = "down"
    /\ worker' = [worker EXCEPT ![p].pc = "claim"]
    /\ UNCHANGED <<now, row, told, exits, fails>>

\* The process ends, in whatever its daemon thread was doing.
Exit(p) ==
    /\ worker[p].pc # "down"
    /\ exits < MaxExits
    /\ exits' = exits + 1
    /\ worker' = [worker EXCEPT ![p] = Down]
    /\ UNCHANGED <<now, row, told, fails>>

\* _validator_async_path, when the pod is not beyond a restart's help: the row is
\* due at the first offset.  (Otherwise, or when the INSERT fails, no row is made.)
Enqueue(p, t) ==
    /\ worker[p].pc # "down"
    /\ now <= LastEnqueue
    /\ row[t].status = "absent"
    /\ \E a \in Remedy :
         row' = [row EXCEPT ![t] =
                   [status |-> "pending", action |-> a, createdAt |-> now,
                    checkAt |-> now + ROUND_OFFSETS[1], checkRound |-> 0]]
    /\ UNCHANGED <<now, worker, told, exits, fails>>

\* WHERE status='pending' AND check_at <= now.  Seeded bugs: the first test is
\* missing; a task whose second was missed is never found again.
DueBug == {t \in Task : row[t].status # "absent" /\ row[t].checkAt <= now}
DueExactBug == {t \in Task : row[t].status = "pending" /\ row[t].checkAt = now}
Due == {t \in Task : row[t].status = "pending" /\ row[t].checkAt <= now}

\* claim_due: ORDER BY check_at ASC LIMIT BatchLimit, ties in any order.  After a
\* scan that finds nothing the daemon sleeps and scans again.
Batches ==
    {b \in UNION {[1 .. n -> {[id |-> t, round |-> row[t].checkRound] : t \in Due}]
                    : n \in 0 .. BatchLimit} :
       /\ \A i, j \in DOMAIN b :
            i < j => b[i] # b[j] /\ row[b[i].id].checkAt <= row[b[j].id].checkAt
       /\ \A t \in Due \ {b[i].id : i \in DOMAIN b} :
            /\ BatchLimit \in DOMAIN b
            /\ \A i \in DOMAIN b : row[b[i].id].checkAt <= row[t].checkAt}

ClaimDue(p) ==
    /\ worker[p].pc = "claim"
    /\ \E b \in Batches :
         worker' = [worker EXCEPT ![p] =
                      [pc |-> IF b = <<>> THEN "claim" ELSE "verify",
                       batch |-> b, at |-> 1, verdict |-> "pending"]]
    /\ UNCHANGED <<now, row, told, exits, fails>>

\* _verify_once, on whatever the pod is like; an exception counts as failed.
Judgements ==
    [a \in Remedy |-> {AsyncVerdict(a, o) : o \in Observation} \cup {"failed"}]

VerifyOnce(p) ==
    /\ worker[p].pc = "verify"
    /\ \E v \in Judgements[row[InHand(p).id].action] :
         worker' = [worker EXCEPT ![p].pc = "write", ![p].verdict = v]
    /\ UNCHANGED <<now, row, told, exits, fails>>

\* The rest of the batch, or the next scan of the table.
Onward(w) ==
    IF w.at + 1 \in DOMAIN w.batch
    THEN [pc |-> "verify", batch |-> w.batch, at |-> w.at + 1, verdict |-> "pending"]
    ELSE [Down EXCEPT !.pc = "claim"]

\* _next_check_at: the next offset from created_at, or a second from now when that
\* is past.  Seeded bug: offsets from now on.
NextCheckAtBug(t, round) == now + 1
\* A time past the end of the clock counts as its end.
NextCheckAt(t, round) ==
    LET planned == row[t].createdAt + ROUND_OFFSETS[round + 1]
        next == IF planned >= now + 1 THEN planned ELSE now + 1
    IN  IF next <= MaxTime THEN next ELSE MaxTime

\* _handle_one's update_status with a final status: the verdict, or timeout when
\* the last round is still pending.  The statement tests nothing but the id.
CloseTask(p) ==
    /\ worker[p].pc = "write"
    /\ LET c == InHand(p)
           s == IF worker[p].verdict = "pending" THEN "timeout" ELSE worker[p].verdict
       IN  /\ worker[p].verdict = "pending" => c.round + 1 = Rounds
           /\ row' = [row EXCEPT ![c.id].status = s, ![c.id].checkRound = c.round + 1]
           /\ worker' = [worker EXCEPT ![p].pc = "tell", ![p].verdict = s]
    /\ UNCHANGED <<now, told, exits, fails>>

\* _handle_one's update_status that plans the next round.
Reschedule(p) ==
    /\ worker[p].pc = "write"
    /\ LET c == InHand(p)
       IN  /\ worker[p].verdict = "pending" /\ c.round + 1 < Rounds
           /\ row' = [row EXCEPT ![c.id].checkAt = NextCheckAt(c.id, c.round + 1),
                                 ![c.id].checkRound = c.round + 1]
           /\ worker' = [worker EXCEPT ![p] = Onward(worker[p])]
    /\ UNCHANGED <<now, told, exits, fails>>

\* update_status raises: _loop logs it and goes on to the next task.  Seeded bug:
\* the message goes out all the same.
UpdateFailsBug(p) ==
    /\ worker[p].pc = "write" /\ worker[p].verdict # "pending"
    /\ fails < MaxFails
    /\ fails' = fails + 1
    /\ worker' = [worker EXCEPT ![p].pc = "tell"]
    /\ UNCHANGED <<now, row, told, exits>>

UpdateFails(p) ==
    /\ worker[p].pc = "write"
    /\ fails < MaxFails
    /\ fails' = fails + 1
    /\ worker' = [worker EXCEPT ![p] = Onward(worker[p])]
    /\ UNCHANGED <<now, row, told, exits>>

\* _notify_terminal: send_message never raises; a message the IM does not take is
\* only logged.
NotifyTerminal(p) ==
    /\ worker[p].pc = "tell"
    /\ told' \in {told, [told EXCEPT ![InHand(p).id] = worker[p].verdict]}
    /\ worker' = [worker EXCEPT ![p] = Onward(worker[p])]
    /\ UNCHANGED <<now, row, exits, fails>>

Handle(p) ==
    \/ VerifyOnce(p) \/ CloseTask(p) \/ Reschedule(p) \/ UpdateFails(p)
    \/ NotifyTerminal(p)

Daemon(p) == ClaimDue(p) \/ Handle(p)

Next ==
    \/ Tick
    \/ \E p \in Process :
         Start(p) \/ Exit(p) \/ Daemon(p) \/ \E t \in Task : Enqueue(p, t)

Spec == Init /\ [][Next]_vars

\* The clock runs, an inspection that ended is started again some time (it is a
\* periodic job), and a running daemon keeps working.  Nothing has to be enqueued.
Fairness ==
    /\ WF_vars(Tick)
    /\ \A p \in Process : WF_vars(Start(p)) /\ WF_vars(Daemon(p))

FairSpec == Spec /\ Fairness

-----------------------------------------------------------------------------
(* Properties.                                                             *)

\* No task is given up before the third offset: whatever the daemon's delays, the
\* ends of its process and the updates that fail, the pod had its ten minutes
\* (_next_check_at counts from created_at; with two processes as with one).
TimeoutIsEarned ==
    [][\A t \in Task :
         row[t].status # "timeout" /\ row'[t].status = "timeout"
            => now - row[t].createdAt >= ROUND_OFFSETS[Rounds]]_vars

\* With one process, the table, the daemon and its messages keep the promise: a
\* task is closed once, what is announced is how it was closed, and is announced at
\* most once, though batches are copies and nothing is locked while a pod is checked.
Promise == INSTANCE VerifierPromise WITH status <- [t \in Task |-> row[t].status]

ImplementsPromise == Promise!PromiseSpec

\* Every task that was enqueued is closed in the end, in spite of ended processes,
\* failed updates and batches it did not fit in.
EveryTaskCloses ==
    \A t \in Task : row[t].status = "pending" ~> row[t].status \in Final
==============================================================================
