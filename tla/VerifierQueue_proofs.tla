------------------------ MODULE VerifierQueue_proofs ------------------------
(***************************************************************************)
(* Proofs about VerifierQueue, for every set of tasks, every number of     *)
(* processes on the one table, and all increasing offsets; for one process *)
(* that the queue implements VerifierPromise; and, about the three         *)
(* judgements of Verdicts, which of them is the most patient.              *)
(***************************************************************************)
EXTENDS VerifierQueue, TLAPS

\* The time that round number round (from 0) of a task is worth waiting for.
Offset(round) == ROUND_OFFSETS[round + 1]

\* Why TimeoutIsEarned is inductive.  A pending row is not due before the offset of
\* its round.  A copy in a batch was due when it was claimed; whatever another
\* process has done to its row since, created_at is what it was, and time has only
\* gone on.
RowInv ==
    \A t \in Task :
        /\ row[t].status # "absent" =>
             row[t].action \in Remedy /\ row[t].createdAt <= LastEnqueue
        /\ row[t].status = "pending" =>
             /\ row[t].checkRound < Rounds
             /\ row[t].createdAt + Offset(row[t].checkRound) <= row[t].checkAt

ClaimInv ==
    \A p \in Process : \A i \in DOMAIN worker[p].batch :
        LET c == worker[p].batch[i]
        IN  /\ row[c.id].status # "absent"
            /\ row[c.id].createdAt + Offset(c.round) <= now

\* What is about to be written is _verify_once's word, which is never timeout; what is
\* about to be told is final.
VerdictInv ==
    \A p \in Process :
        /\ worker[p].pc = "write" => worker[p].verdict # "timeout"
        /\ worker[p].pc = "tell" => worker[p].verdict \in Final

DueInv == TypeOK /\ RowInv /\ ClaimInv /\ VerdictInv

-----------------------------------------------------------------------------
\* The offsets are naturals that do not decrease.
LEMMA Offsets ==
    /\ Rounds \in Nat \ {0}
    /\ \A i \in 0 .. Rounds - 1 : Offset(i) \in Nat
    /\ \A i, j \in 0 .. Rounds - 1 : i <= j => Offset(i) <= Offset(j)
<1>1. Rounds \in Nat \ {0} /\ ROUND_OFFSETS \in [1 .. Rounds -> Nat]
  BY OffsetsAssumption DEF Rounds
<1>2. \A i \in 0 .. Rounds - 1 : i + 1 \in 1 .. Rounds
  BY <1>1
<1>3. \A i, j \in 0 .. Rounds - 1 : i <= j => i + 1 <= j + 1
  BY <1>1
<1> QED
  BY <1>1, <1>2, <1>3, OffsetsAssumption DEF Offset

\* The worker's judgement is a final status, or to be continued.
LEMMA Judgement ==
    ASSUME NEW a \in Remedy, NEW v \in Judgements[a]
    PROVE  v \in Final \cup {"pending"} /\ v # "timeout"
<1>1. \A o : AsyncVerdict(a, o) \in {"success", "failed", "escalate_human", "pending"}
  BY DEF AsyncVerdict, Gone, Found
<1> QED
  BY <1>1 DEF Judgements, Final

\* claim_due returns copies of rows that are due.
LEMMA BatchFacts ==
    ASSUME DueInv, NEW b \in Batches
    PROVE  /\ b \in Batch
           /\ b # <<>> => 1 \in DOMAIN b
           /\ \A i \in DOMAIN b : b[i].id \in Due /\ b[i].round = row[b[i].id].checkRound
<1> DEFINE Copies == {[id |-> t, round |-> row[t].checkRound] : t \in Due}
<1>1. PICK n \in 0 .. BatchLimit : b \in [1 .. n -> Copies]
  BY DEF Batches
<1>2. \A c \in Copies : c \in Claim /\ c.id \in Due /\ c.round = row[c.id].checkRound
  BY Offsets DEF DueInv, TypeOK, RowInv, Row, Claim, Due
<1>3. Copies \subseteq Claim
  BY <1>2
<1>4. b \in Batch
  BY <1>1, <1>3 DEF Batch
<1>5. b # <<>> => 1 \in DOMAIN b
  BY <1>1, BatchLimitAssumption
<1> HIDE DEF Copies
<1> QED
  BY <1>1, <1>2, <1>4, <1>5

LEMMA EmptyBatch == <<>> \in Batch /\ DOMAIN <<>> = {}
<1>1. <<>> \in [1 .. 0 -> Claim] /\ 0 \in 0 .. BatchLimit
  BY BatchLimitAssumption
<1> QED
  BY <1>1 DEF Batch

LEMMA DownIsWorker == Down \in Worker
  BY EmptyBatch DEF Down, Worker, WorkerPc

\* The copy in hand, and what ClaimInv says of it.
LEMMA InHandFacts ==
    ASSUME DueInv, NEW p \in Process, worker[p].pc \in {"verify", "write", "tell"}
    PROVE  /\ InHand(p) \in Claim /\ InHand(p).id \in Task
           /\ InHand(p).round \in 0 .. Rounds - 1
           /\ row[InHand(p).id].status # "absent"
           /\ row[InHand(p).id].createdAt + Offset(InHand(p).round) <= now
<1>1. worker[p].at \in DOMAIN worker[p].batch
  BY DEF DueInv, TypeOK
<1>2. PICK n \in 0 .. BatchLimit : worker[p].batch \in [1 .. n -> Claim]
  BY DEF DueInv, TypeOK, Worker, Batch
<1>3. InHand(p) \in Claim
  BY <1>1, <1>2 DEF InHand
<1> QED
  BY <1>1, <1>3 DEF InHand, Claim, DueInv, ClaimInv

\* Going on stays inside the batch, or starts with an empty one.
LEMMA OnwardFacts ==
    ASSUME NEW w \in Worker
    PROVE  /\ Onward(w) \in Worker
           /\ Onward(w).batch \in {w.batch, <<>>}
           /\ Onward(w).pc = "verify" => Onward(w).at \in DOMAIN Onward(w).batch
           /\ Onward(w).pc \in {"verify", "claim"}
<1>1. CASE w.at + 1 \in DOMAIN w.batch
  <2>1. Onward(w) = [pc |-> "verify", batch |-> w.batch, at |-> w.at + 1,
                     verdict |-> "pending"]
    BY <1>1 DEF Onward
  <2> QED
    BY <1>1, <2>1 DEF Worker, WorkerPc
<1>2. CASE w.at + 1 \notin DOMAIN w.batch
  <2>1. Onward(w) = [pc |-> "claim", batch |-> <<>>, at |-> 1, verdict |-> "pending"]
    BY <1>2 DEF Onward, Down
  <2> QED
    BY <2>1, EmptyBatch DEF Worker, WorkerPc
<1> QED
  BY <1>1, <1>2

-----------------------------------------------------------------------------
\* A step that leaves the table and the batches as they are, or empties a batch,
\* leaves what they say true.
LEMMA BatchesShrink ==
    ASSUME DueInv, row' = row, now' \in Nat, now <= now',
           \A p \in Process : worker'[p].batch \in {worker[p].batch, <<>>}
    PROVE  RowInv' /\ ClaimInv'
<1>1. RowInv'
  BY DEF DueInv, RowInv, Offset, Rounds
<1>2. ASSUME NEW p \in Process, NEW i \in DOMAIN worker'[p].batch
      PROVE  LET c == worker'[p].batch[i]
             IN  row'[c.id].status # "absent" /\ row'[c.id].createdAt + Offset(c.round) <= now'
  <2>1. worker'[p].batch = worker[p].batch
    BY <1>2, EmptyBatch
  <2>2. PICK n \in 0 .. BatchLimit : worker[p].batch \in [1 .. n -> Claim]
    BY DEF DueInv, TypeOK, Worker, Batch
  <2>3. worker[p].batch[i] \in Claim
    BY <1>2, <2>1, <2>2
  <2>4. /\ row[worker[p].batch[i].id].createdAt \in Nat
        /\ Offset(worker[p].batch[i].round) \in Nat
    BY <2>3, Offsets DEF Claim, DueInv, TypeOK, Row
  <2> QED
    BY <1>2, <2>1, <2>4 DEF DueInv, ClaimInv, TypeOK
<1> QED
  BY <1>1, <1>2 DEF ClaimInv, Offset

\* An update of a row that keeps created_at and does not take the row away leaves
\* the claims true.
LEMMA ClaimsSurvive ==
    ASSUME DueInv, now' = now,
           \A t \in Task : /\ row'[t].createdAt = row[t].createdAt
                           /\ row[t].status # "absent" => row'[t].status # "absent",
           \A p \in Process : worker'[p].batch \in {worker[p].batch, <<>>}
    PROVE  ClaimInv'
<1> SUFFICES ASSUME NEW p \in Process, NEW i \in DOMAIN worker'[p].batch
             PROVE  LET c == worker'[p].batch[i]
                    IN  /\ row'[c.id].status # "absent"
                        /\ row'[c.id].createdAt + Offset(c.round) <= now
  BY DEF ClaimInv, Offset
<1>1. worker'[p].batch = worker[p].batch
  BY EmptyBatch
<1>2. PICK n \in 0 .. BatchLimit : worker[p].batch \in [1 .. n -> Claim]
  BY DEF DueInv, TypeOK, Worker, Batch
<1>3. worker[p].batch[i] \in Claim
  BY <1>1, <1>2
<1> QED
  BY <1>1, <1>3 DEF DueInv, ClaimInv, Claim

LEMMA InitDueInv == Init => DueInv
<1> SUFFICES ASSUME Init PROVE DueInv
  OBVIOUS
<1>1. TypeOK /\ VerdictInv
  BY DownIsWorker, Offsets DEF Init, TypeOK, Row, NoRow, Down, VerdictInv
<1>2. RowInv
  BY DEF Init, RowInv, NoRow
<1>3. ClaimInv
  BY EmptyBatch DEF Init, ClaimInv, Down
<1> QED
  BY <1>1, <1>2, <1>3 DEF DueInv

LEMMA NextDueInv == DueInv /\ [Next]_vars => DueInv'
<1> SUFFICES ASSUME DueInv, [Next]_vars PROVE DueInv'
  OBVIOUS
<1>t. TypeOK /\ RowInv /\ ClaimInv /\ VerdictInv
  BY DEF DueInv
<1>1. ASSUME Tick PROVE DueInv'
  <2>1. TypeOK' /\ VerdictInv'
    BY <1>1, <1>t DEF Tick, TypeOK, VerdictInv
  <2>2. RowInv' /\ ClaimInv'
    BY <1>1, <1>t, BatchesShrink DEF Tick, TypeOK
  <2> QED
    BY <2>1, <2>2 DEF DueInv
<1>2. ASSUME NEW p \in Process, Start(p) PROVE DueInv'
  <2>1. TypeOK' /\ VerdictInv'
    BY <1>2, <1>t DEF Start, TypeOK, Worker, WorkerPc, VerdictInv
  <2>2. RowInv' /\ ClaimInv'
    BY <1>2, <1>t, BatchesShrink DEF Start, TypeOK, Worker
  <2> QED
    BY <2>1, <2>2 DEF DueInv
<1>3. ASSUME NEW p \in Process, Exit(p) PROVE DueInv'
  <2>1. worker' = [worker EXCEPT ![p] = Down] /\ Down.pc = "down" /\ Down.batch = <<>>
    BY <1>3 DEF Exit, Down
  <2>2. TypeOK' /\ VerdictInv'
    BY <1>3, <1>t, <2>1, DownIsWorker DEF Exit, TypeOK, VerdictInv
  <2>3. RowInv' /\ ClaimInv'
    BY <1>3, <1>t, <2>1, BatchesShrink DEF Exit, TypeOK
  <2> QED
    BY <2>2, <2>3 DEF DueInv
<1>4. ASSUME NEW p \in Process, NEW t \in Task, Enqueue(p, t) PROVE DueInv'
  <2>1. PICK a \in Remedy :
          row' = [row EXCEPT ![t] = [status |-> "pending", action |-> a, createdAt |-> now,
                                     checkAt |-> now + ROUND_OFFSETS[1], checkRound |-> 0]]
    BY <1>4 DEF Enqueue
  <2>2. 0 \in 0 .. Rounds - 1 /\ Offset(0) = ROUND_OFFSETS[1] /\ ROUND_OFFSETS[1] \in Nat
    BY Offsets DEF Offset
  <2>r. [status |-> "pending", action |-> a, createdAt |-> now,
         checkAt |-> now + ROUND_OFFSETS[1], checkRound |-> 0] \in Row
    BY <1>t, <2>2, Offsets DEF TypeOK, Row
  <2>3. TypeOK' /\ VerdictInv'
    BY <1>4, <1>t, <2>1, <2>r DEF Enqueue, TypeOK, VerdictInv
  <2>4. RowInv'
    BY <1>4, <1>t, <2>1, <2>2 DEF Enqueue, TypeOK, RowInv, Row, Offset, Rounds
  <2>5. ClaimInv'
    <3> SUFFICES ASSUME NEW q \in Process, NEW i \in DOMAIN worker[q].batch
                 PROVE  LET c == worker[q].batch[i]
                        IN  /\ row'[c.id].status # "absent"
                            /\ row'[c.id].createdAt + Offset(c.round) <= now
      BY <1>4 DEF Enqueue, ClaimInv, Offset
    <3>1. worker[q].batch[i].id # t
      BY <1>4, <1>t DEF Enqueue, ClaimInv
    <3>2. row'[worker[q].batch[i].id] = row[worker[q].batch[i].id]
      BY <2>1, <3>1, <1>t DEF TypeOK
    <3> QED
      BY <3>2, <1>t DEF ClaimInv
  <2> QED
    BY <2>3, <2>4, <2>5 DEF DueInv
<1>5. ASSUME NEW p \in Process, ClaimDue(p) PROVE DueInv'
  <2>1. PICK b \in Batches :
          worker' = [worker EXCEPT ![p] = [pc |-> IF b = <<>> THEN "claim" ELSE "verify",
                                           batch |-> b, at |-> 1, verdict |-> "pending"]]
    BY <1>5 DEF ClaimDue
  <2>2. /\ b \in Batch
        /\ b # <<>> => 1 \in DOMAIN b
        /\ \A i \in DOMAIN b : b[i].id \in Due /\ b[i].round = row[b[i].id].checkRound
    BY BatchFacts
  <2> DEFINE pc == IF b = <<>> THEN "claim" ELSE "verify"
             w == [pc |-> pc, batch |-> b, at |-> 1, verdict |-> "pending"]
  <2>3. worker' = [worker EXCEPT ![p] = w]
    BY <2>1
  <2>w. w \in Worker /\ (w.pc = "verify" => w.at \in DOMAIN w.batch)
        /\ w.pc \in {"claim", "verify"} /\ w.batch = b
    BY <2>2 DEF Worker, WorkerPc
  <2> HIDE DEF pc, w
  <2>4. TypeOK' /\ VerdictInv'
    BY <1>5, <1>t, <2>3, <2>w DEF ClaimDue, TypeOK, VerdictInv
  <2>5. RowInv'
    BY <1>5, <1>t DEF ClaimDue, RowInv, Offset, Rounds
  <2>6. \A i \in DOMAIN b : /\ row[b[i].id].status # "absent"
                            /\ row[b[i].id].createdAt + Offset(b[i].round) <= now
    <3> SUFFICES ASSUME NEW i \in DOMAIN b
                 PROVE  /\ row[b[i].id].status # "absent"
                        /\ row[b[i].id].createdAt + Offset(b[i].round) <= now
      OBVIOUS
    <3>1. b[i].id \in Task /\ row[b[i].id].status = "pending" /\ row[b[i].id].checkAt <= now
      BY <2>2 DEF Due
    <3>2. row[b[i].id] \in Row /\ b[i].round \in 0 .. Rounds - 1 /\ now \in Nat
      BY <1>t, <2>2, <3>1, Offsets DEF TypeOK, RowInv, Row
    <3>3. Offset(b[i].round) \in Nat
      BY <3>2, Offsets
    <3> QED
      BY <1>t, <2>2, <3>1, <3>2, <3>3 DEF RowInv, Row
  <2>7. ClaimInv'
    BY <1>5, <1>t, <2>3, <2>w, <2>6 DEF ClaimDue, ClaimInv, TypeOK, Offset
  <2> QED
    BY <2>4, <2>5, <2>7 DEF DueInv
<1>6. ASSUME NEW p \in Process, VerifyOnce(p) PROVE DueInv'
  <2>1. InHand(p).id \in Task /\ row[InHand(p).id].action \in Remedy
    BY <1>6, <1>t, InHandFacts DEF VerifyOnce, RowInv
  <2>2. PICK v \in (Final \cup {"pending"}) \ {"timeout"} :
          worker' = [worker EXCEPT ![p].pc = "write", ![p].verdict = v]
    BY <1>6, <2>1, Judgement DEF VerifyOnce
  <2>w. /\ worker' = [worker EXCEPT ![p] = [worker[p] EXCEPT !.pc = "write", !.verdict = v]]
        /\ [worker[p] EXCEPT !.pc = "write", !.verdict = v] \in Worker
    BY <2>2, <1>t DEF TypeOK, Worker, WorkerPc
  <2>i. worker[p].at \in DOMAIN worker[p].batch
    BY <1>6, <1>t DEF VerifyOnce, TypeOK
  <2>a. /\ worker'[p].pc = "write" /\ worker'[p].verdict # "timeout"
        /\ worker'[p].at = worker[p].at /\ worker'[p].batch = worker[p].batch
    BY <2>w, <1>t DEF TypeOK, Worker
  <2>3. TypeOK' /\ VerdictInv'
    BY <1>6, <1>t, <2>w, <2>i, <2>a DEF VerifyOnce, TypeOK, VerdictInv
  <2>4. RowInv' /\ ClaimInv'
    BY <1>6, <1>t, <2>2, BatchesShrink DEF VerifyOnce, TypeOK, Worker
  <2> QED
    BY <2>3, <2>4 DEF DueInv
<1>7. ASSUME NEW p \in Process, CloseTask(p) PROVE DueInv'
  <2> DEFINE c == InHand(p)
             s == IF worker[p].verdict = "pending" THEN "timeout" ELSE worker[p].verdict
  <2>1. /\ row' = [row EXCEPT ![c.id].status = s, ![c.id].checkRound = c.round + 1]
        /\ worker' = [worker EXCEPT ![p].pc = "tell", ![p].verdict = s]
        /\ UNCHANGED <<now, told, exits, fails>> /\ worker[p].pc = "write"
    BY <1>7 DEF CloseTask
  <2>2. s \in Final
    BY <1>t DEF TypeOK, Worker, Final
  <2>3. c.id \in Task /\ c.round \in 0 .. Rounds - 1 /\ row[c.id].status # "absent"
    BY <2>1, InHandFacts
  <2>4. c.round + 1 \in 0 .. Rounds
    BY <2>3, Offsets
  <2> HIDE DEF c, s
  <2>5. \A t \in Task \ {c.id} : row'[t] = row[t]
    BY <2>1, <1>t DEF TypeOK
  <2>6. row'[c.id] = [row[c.id] EXCEPT !.status = s, !.checkRound = c.round + 1]
    BY <2>1, <2>3, <1>t DEF TypeOK, Row
  <2>r. row[c.id] \in Row
    BY <2>3, <1>t DEF TypeOK
  <2>e. row'[c.id] \in Row
    BY <2>2, <2>4, <2>6, <2>r DEF Row
  <2>7. row' \in [Task -> Row]
    BY <2>1, <2>e, <2>5, <1>t DEF TypeOK
  <2>8. TypeOK' /\ VerdictInv'
    BY <2>1, <2>2, <2>7, <1>t DEF TypeOK, Worker, WorkerPc, VerdictInv
  <2>f. /\ row'[c.id].status \notin {"absent", "pending"}
        /\ row'[c.id].action = row[c.id].action
        /\ row'[c.id].createdAt = row[c.id].createdAt
    BY <2>2, <2>6, <2>r DEF Row, Final
  <2>9. RowInv'
    BY <2>3, <2>5, <2>f, <1>t DEF RowInv, Offset, Rounds
  <2>10. ClaimInv'
    <3>1. \A q \in Process : worker'[q].batch = worker[q].batch
      BY <2>1, <1>t DEF TypeOK, Worker
    <3> QED
      BY <2>1, <2>3, <2>5, <2>f, <3>1, <1>t, ClaimsSurvive DEF TypeOK
  <2> QED
    BY <2>8, <2>9, <2>10 DEF DueInv
<1>8. ASSUME NEW p \in Process, Reschedule(p) PROVE DueInv'
  <2> DEFINE c == InHand(p)
             n == NextCheckAt(c.id, c.round + 1)
  <2>1. /\ row' = [row EXCEPT ![c.id].checkAt = n, ![c.id].checkRound = c.round + 1]
        /\ worker' = [worker EXCEPT ![p] = Onward(worker[p])]
        /\ UNCHANGED <<now, told, exits, fails>> /\ worker[p].pc = "write"
        /\ c.round + 1 < Rounds
    BY <1>8 DEF Reschedule
  <2>2. /\ c.id \in Task /\ c.round \in 0 .. Rounds - 1 /\ row[c.id] \in Row
        /\ row[c.id].status # "absent" /\ row[c.id].createdAt <= LastEnqueue
    BY <2>1, <1>t, InHandFacts DEF TypeOK, RowInv
  <2>3. c.round + 1 \in 0 .. Rounds - 1
    BY <2>1, <2>2, Offsets
  <2>4. n \in Nat /\ row[c.id].createdAt + Offset(c.round + 1) <= n
    <3>1. Offset(c.round + 1) \in Nat /\ Offset(c.round + 1) <= Offset(Rounds - 1)
      BY <2>3, Offsets
    <3>2. Offset(Rounds - 1) = ROUND_OFFSETS[Rounds] /\ Offset(Rounds - 1) \in Nat
      BY Offsets DEF Offset
    <3>3. row[c.id].createdAt \in Nat /\ now \in Nat
      BY <2>2, <1>t DEF Row, TypeOK
    <3>4. row[c.id].createdAt + Offset(c.round + 1) <= MaxTime
      BY <2>2, <3>1, <3>2, <3>3, HorizonAssumption, BoundsAssumption
    <3> QED
      BY <3>1, <3>3, <3>4, BoundsAssumption DEF NextCheckAt, Offset
  <2> HIDE DEF c, n
  <2>5. \A t \in Task \ {c.id} : row'[t] = row[t]
    BY <2>1, <1>t DEF TypeOK
  <2>6. row'[c.id] = [row[c.id] EXCEPT !.checkAt = n, !.checkRound = c.round + 1]
    BY <2>1, <2>2, <1>t DEF TypeOK, Row
  <2>7. row' \in [Task -> Row]
    BY <2>1, <2>2, <2>3, <2>4, <1>t, Offsets DEF TypeOK, Row
  <2>w. worker[p] \in Worker
    BY <1>t DEF TypeOK
  <2>8. TypeOK' /\ VerdictInv'
    BY <2>1, <2>7, <2>w, <1>t, OnwardFacts DEF TypeOK, VerdictInv
  <2>9. RowInv'
    BY <2>1, <2>2, <2>3, <2>4, <2>5, <2>6, <1>t DEF RowInv, TypeOK, Row, Offset, Rounds
  <2>10. ClaimInv'
    BY <2>1, <2>2, <2>5, <2>6, <2>w, <1>t, OnwardFacts, ClaimsSurvive DEF TypeOK, Row
  <2> QED
    BY <2>8, <2>9, <2>10 DEF DueInv
<1>9. ASSUME NEW p \in Process, UpdateFails(p) PROVE DueInv'
  <2>w. worker[p] \in Worker
    BY <1>t DEF TypeOK
  <2>1. TypeOK' /\ VerdictInv'
    BY <1>9, <1>t, <2>w, OnwardFacts DEF UpdateFails, TypeOK, VerdictInv
  <2>2. RowInv' /\ ClaimInv'
    BY <1>9, <1>t, <2>w, OnwardFacts, BatchesShrink DEF UpdateFails, TypeOK
  <2> QED
    BY <2>1, <2>2 DEF DueInv
<1>10. ASSUME NEW p \in Process, NotifyTerminal(p) PROVE DueInv'
  <2>w. worker[p] \in Worker /\ InHand(p).id \in Task
    BY <1>10, <1>t, InHandFacts DEF TypeOK, NotifyTerminal
  <2>1. TypeOK' /\ VerdictInv'
    BY <1>10, <1>t, <2>w, OnwardFacts DEF NotifyTerminal, TypeOK, VerdictInv
  <2>2. RowInv' /\ ClaimInv'
    BY <1>10, <1>t, <2>w, OnwardFacts, BatchesShrink DEF NotifyTerminal, TypeOK
  <2> QED
    BY <2>1, <2>2 DEF DueInv
<1>11. ASSUME UNCHANGED vars PROVE DueInv'
  BY <1>11, <1>t DEF vars, VerdictInv, DueInv, TypeOK, RowInv, ClaimInv, Offset, Rounds
<1> QED
  BY <1>1, <1>2, <1>3, <1>4, <1>5, <1>6, <1>7, <1>8, <1>9, <1>10, <1>11
  DEF Next, Daemon, Handle

-----------------------------------------------------------------------------
\* Every reachable state of the queue is of its type; the daemon's index is inside
\* its batch, whatever ends and fails (verifier_worker, verifier_store).
THEOREM QueueTypeCorrect == Spec => []TypeOK
<1>1. DueInv => TypeOK
  BY DEF DueInv
<1> QED
  BY <1>1, InitDueInv, NextDueInv, PTL DEF Spec

\* For any number of processes, tasks and faults, a task is given up only after the
\* last offset (_next_check_at, _handle_one).
THEOREM TimeoutsAreEarned == Spec => TimeoutIsEarned
<1>1. ASSUME DueInv, [Next]_vars, NEW t \in Task,
             row[t].status # "timeout", row'[t].status = "timeout"
      PROVE  now - row[t].createdAt >= ROUND_OFFSETS[Rounds]
  <2>1. TypeOK /\ RowInv /\ ClaimInv /\ VerdictInv
    BY <1>1 DEF DueInv
  <2>2. PICK p \in Process : CloseTask(p)
    <3>1. row' # row
      BY <1>1
    <3>2. ASSUME NEW p \in Process, NEW u \in Task, Enqueue(p, u) PROVE FALSE
      BY <1>1, <2>1, <3>2 DEF Enqueue, TypeOK
    <3>3. ASSUME NEW p \in Process, Reschedule(p) PROVE FALSE
      BY <1>1, <2>1, <3>3 DEF Reschedule, TypeOK, Row
    <3>4. ASSUME UNCHANGED row PROVE FALSE
      BY <3>1, <3>4
    <3> QED
      BY <1>1, <3>2, <3>3, <3>4 DEF Next, vars, Daemon, Handle, Tick, Start, Exit,
         ClaimDue, VerifyOnce, UpdateFails, NotifyTerminal
  <2>3. worker[p].pc = "write"
    BY <2>2 DEF CloseTask
  <2>4. /\ InHand(p).id \in Task /\ InHand(p).round \in 0 .. Rounds - 1
        /\ row[InHand(p).id].createdAt + Offset(InHand(p).round) <= now
    BY <1>1, <2>3, InHandFacts
  <2>5. t = InHand(p).id
    BY <1>1, <2>1, <2>2 DEF CloseTask, TypeOK
  <2>6. worker[p].verdict = "pending"
    BY <1>1, <2>1, <2>2, <2>3, <2>5 DEF CloseTask, TypeOK, Row, VerdictInv
  <2>7. InHand(p).round + 1 = Rounds
    BY <2>2, <2>6 DEF CloseTask
  <2> QED
    <3>1. row[t].createdAt \in Nat /\ now \in Nat /\ ROUND_OFFSETS[Rounds] \in Nat
      BY <2>1, Offsets DEF TypeOK, Row, Offset
    <3>2. row[t].createdAt + ROUND_OFFSETS[Rounds] <= now
      BY <2>4, <2>5, <2>7 DEF Offset
    <3> QED
      BY <3>1, <3>2
<1>2. DueInv /\ [Next]_vars =>
        [\A t \in Task : row[t].status # "timeout" /\ row'[t].status = "timeout"
            => now - row[t].createdAt >= ROUND_OFFSETS[Rounds]]_vars
  BY <1>1
<1> QED
  BY <1>2, InitDueInv, NextDueInv, PTL DEF Spec, TimeoutIsEarned

-----------------------------------------------------------------------------
(* The refinement of VerifierPromise, with one process.                    *)

\* Why one process keeps the promise.  The tasks of a batch are different ones, and those
\* that are not yet handled are still pending, for nobody else closes them; nothing was
\* announced of a task that is not closed, nor of the one that is being announced.
Remaining(p) ==
    CASE worker[p].pc \in {"verify", "write"} -> {i \in DOMAIN worker[p].batch : i >= worker[p].at}
      [] worker[p].pc = "tell"                -> {i \in DOMAIN worker[p].batch : i > worker[p].at}
      [] OTHER                                -> {}

PromiseInv(p) ==
    /\ \A i, j \in DOMAIN worker[p].batch :
         i # j => worker[p].batch[i].id # worker[p].batch[j].id
    /\ \A i \in Remaining(p) : row[worker[p].batch[i].id].status = "pending"
    /\ worker[p].pc = "tell" =>
         /\ row[InHand(p).id].status = worker[p].verdict
         /\ told[InHand(p).id] = "nothing"
    /\ \A t \in Task : row[t].status \in {"absent", "pending"} => told[t] = "nothing"

\* claim_due returns no row twice.
LEMMA BatchIsDistinct ==
    ASSUME DueInv, NEW b \in Batches
    PROVE  \A i, j \in DOMAIN b : i # j => b[i].id # b[j].id
<1> DEFINE Copies == {[id |-> t, round |-> row[t].checkRound] : t \in Due}
<1>1. PICK n \in 0 .. BatchLimit : b \in [1 .. n -> Copies]
  BY DEF Batches
<1>2. \A i, j \in DOMAIN b : i < j => b[i] # b[j]
  BY DEF Batches
<1>3. \A i \in DOMAIN b : b[i] = [id |-> b[i].id, round |-> row[b[i].id].checkRound]
  BY <1>1
<1>4. n \in Nat
  BY <1>1, BatchLimitAssumption
<1>5. \A i, j \in DOMAIN b : i # j => i < j \/ j < i
  BY <1>1, <1>4
<1> QED
  BY <1>2, <1>3, <1>5

\* The batches are sequences.
LEMMA BatchFields ==
    ASSUME DueInv, NEW p \in Process
    PROVE  /\ worker[p] \in Worker /\ worker[p].at \in Nat \ {0}
           /\ \A i \in DOMAIN worker[p].batch : i \in Nat /\ worker[p].batch[i].id \in Task
<1>1. worker[p] \in Worker
  BY DEF DueInv, TypeOK
<1>2. PICK n \in 0 .. BatchLimit : worker[p].batch \in [1 .. n -> Claim]
  BY <1>1 DEF Worker, Batch
<1>3. n \in Nat
  BY BatchLimitAssumption
<1> QED
  BY <1>1, <1>2, <1>3 DEF Worker, Claim

\* Going on drops what is done, and of the batch nothing else.
LEMMA OnwardRemaining ==
    ASSUME DueInv, NEW p \in Process, worker'[p] = Onward(worker[p])
    PROVE  /\ worker'[p].pc \in {"verify", "claim"}
           /\ worker'[p].batch \in {worker[p].batch, <<>>}
           /\ worker'[p].pc = "verify" =>
                /\ worker'[p].batch = worker[p].batch
                /\ Remaining(p)' = {i \in DOMAIN worker[p].batch : i > worker[p].at}
           /\ worker'[p].pc = "claim" => Remaining(p)' = {}
<1>1. CASE worker[p].at + 1 \in DOMAIN worker[p].batch
  <2>1. /\ worker'[p].pc = "verify" /\ worker'[p].batch = worker[p].batch
        /\ worker'[p].at = worker[p].at + 1
    BY <1>1 DEF Onward
  <2>2. Remaining(p)' = {i \in DOMAIN worker[p].batch : i >= worker[p].at + 1}
    BY <2>1 DEF Remaining
  <2>3. \A i \in DOMAIN worker[p].batch : i >= worker[p].at + 1 <=> i > worker[p].at
    BY BatchFields
  <2> QED
    BY <2>1, <2>2, <2>3
<1>2. CASE worker[p].at + 1 \notin DOMAIN worker[p].batch
  <2>1. worker'[p].pc = "claim" /\ worker'[p].batch = <<>>
    BY <1>2 DEF Onward, Down
  <2> QED
    BY <2>1 DEF Remaining
<1> QED
  BY <1>1, <1>2

LEMMA InitPromise == ASSUME NEW self, Process = {self}, Init PROVE PromiseInv(self)
BY EmptyBatch DEF Init, PromiseInv, Remaining, Down

LEMMA NextPromise ==
    ASSUME NEW self, Process = {self}, DueInv, PromiseInv(self), [Next]_vars
    PROVE  PromiseInv(self)'
<1>1. self \in Process /\ worker \in [Process -> Worker] /\ row \in [Task -> Row]
      /\ told \in [Task -> Final \cup {"nothing"}]
  BY DEF DueInv, TypeOK
<1>2. /\ \A i, j \in DOMAIN worker[self].batch :
           i # j => worker[self].batch[i].id # worker[self].batch[j].id
      /\ \A i \in DOMAIN worker[self].batch : i \in Nat /\ worker[self].batch[i].id \in Task
      /\ worker[self].at \in Nat
  BY <1>1, BatchFields DEF PromiseInv
<1>3. CASE Tick \/ UNCHANGED vars
  BY <1>3 DEF Tick, vars, PromiseInv, Remaining, InHand
<1>4. CASE Start(self) \/ Exit(self)
  <2>1. /\ worker'[self].pc \in {"claim", "down"} /\ row' = row /\ told' = told
        /\ worker'[self].batch \in {worker[self].batch, <<>>}
    <3>1. CASE Start(self)
      BY <1>1, <3>1 DEF Start, Worker
    <3>2. CASE Exit(self)
      <4>1. worker'[self] = Down
        BY <1>1, <3>2 DEF Exit
      <4>2. Down.pc = "down" /\ Down.batch = <<>>
        BY DEF Down
      <4> QED
        BY <3>2, <4>1, <4>2 DEF Exit
    <3> QED
      BY <1>4, <3>1, <3>2
  <2> QED
    BY <1>2, <2>1, EmptyBatch DEF PromiseInv, Remaining
<1>5. ASSUME NEW t \in Task, Enqueue(self, t) PROVE PromiseInv(self)'
  <2>1. /\ worker' = worker /\ told' = told /\ row[t].status = "absent"
        /\ row'[t].status = "pending" /\ \A s \in Task \ {t} : row'[s] = row[s]
    BY <1>1, <1>5 DEF Enqueue
  <2>2. worker[self].pc = "tell" => InHand(self).id # t /\ InHand(self).id \in Task
    BY <2>1, <1>1, InHandFacts
  <2>3. Remaining(self)' = Remaining(self) /\ InHand(self)' = InHand(self)
    BY <2>1 DEF Remaining, InHand
  <2>4. \A i \in Remaining(self) : worker[self].batch[i].id \in Task
    BY <1>2 DEF Remaining
  <2> QED
    BY <2>1, <2>2, <2>3, <2>4 DEF PromiseInv
<1>6. CASE ClaimDue(self)
  <2>1. PICK b \in Batches :
          worker' = [worker EXCEPT ![self] = [pc |-> IF b = <<>> THEN "claim" ELSE "verify",
                                              batch |-> b, at |-> 1, verdict |-> "pending"]]
    BY <1>6 DEF ClaimDue
  <2>2. \A i \in DOMAIN b : row[b[i].id].status = "pending"
    BY BatchFacts DEF Due
  <2>3. \A i, j \in DOMAIN b : i # j => b[i].id # b[j].id
    BY BatchIsDistinct
  <2>4. worker'[self].batch = b /\ worker'[self].pc \in {"claim", "verify"}
    BY <1>1, <2>1
  <2>5. row' = row /\ told' = told
    BY <1>6 DEF ClaimDue
  <2>6. Remaining(self)' \subseteq DOMAIN b
    BY <2>4 DEF Remaining
  <2> HIDE DEF Remaining
  <2> QED
    BY <2>2, <2>3, <2>4, <2>5, <2>6 DEF PromiseInv
<1>7. CASE VerifyOnce(self)
  <2>1. /\ worker[self].pc = "verify" /\ worker'[self].pc = "write"
        /\ worker'[self].batch = worker[self].batch /\ worker'[self].at = worker[self].at
        /\ row' = row /\ told' = told
    BY <1>1, <1>7 DEF VerifyOnce, Worker
  <2>2. Remaining(self)' = Remaining(self)
    BY <2>1 DEF Remaining
  <2> QED
    BY <2>1, <2>2 DEF PromiseInv
<1>8. CASE CloseTask(self)
  <2> DEFINE c == InHand(self)
             s == IF worker[self].verdict = "pending" THEN "timeout" ELSE worker[self].verdict
  <2>1. /\ row' = [row EXCEPT ![c.id].status = s, ![c.id].checkRound = c.round + 1]
        /\ worker' = [worker EXCEPT ![self].pc = "tell", ![self].verdict = s]
        /\ told' = told /\ worker[self].pc = "write"
    BY <1>8 DEF CloseTask
  <2>2. c.id \in Task /\ worker[self].at \in DOMAIN worker[self].batch
    BY <1>1, <2>1, InHandFacts DEF DueInv, TypeOK
  <2>3. row[c.id].status = "pending"
    <3>1. worker[self].at \in Remaining(self)
      BY <1>2, <2>1, <2>2 DEF Remaining
    <3> QED
      BY <3>1 DEF PromiseInv, InHand
  <2>4. s \in Final
    BY <1>1 DEF Worker, Final
  <2>5. /\ worker'[self].pc = "tell" /\ worker'[self].verdict = s
        /\ worker'[self].batch = worker[self].batch /\ worker'[self].at = worker[self].at
    BY <1>1, <2>1 DEF Worker
  <2>6. InHand(self)' = c
    BY <2>5 DEF InHand
  <2>7. /\ Remaining(self)' = {i \in DOMAIN worker[self].batch : i > worker[self].at}
        /\ Remaining(self) = {i \in DOMAIN worker[self].batch : i >= worker[self].at}
    BY <2>1, <2>5 DEF Remaining
  <2>8. c.id = worker[self].batch[worker[self].at].id
    BY DEF InHand
  <2> HIDE DEF c, s
  <2>9. row'[c.id].status = s /\ \A t \in Task \ {c.id} : row'[t] = row[t]
    BY <1>1, <2>1, <2>2 DEF Row
  <2>10. ASSUME NEW i \in Remaining(self)'
         PROVE  row'[worker[self].batch[i].id].status = "pending"
    <3>1. /\ i \in Remaining(self) /\ i # worker[self].at /\ i \in DOMAIN worker[self].batch
      BY <1>2, <2>7
    <3>2. worker[self].batch[i].id # c.id /\ worker[self].batch[i].id \in Task
      BY <1>2, <2>2, <2>8, <3>1
    <3> QED
      BY <2>9, <3>1, <3>2 DEF PromiseInv
  <2>11. told[c.id] = "nothing"
    BY <2>2, <2>3 DEF PromiseInv
  <2>12. \A t \in Task : row'[t].status \in {"absent", "pending"} => told[t] = "nothing"
    BY <2>9, <2>11 DEF PromiseInv
  <2>13. \A i, j \in DOMAIN worker'[self].batch :
            i # j => worker'[self].batch[i].id # worker'[self].batch[j].id
    BY <1>2, <2>5
  <2>14. \A i \in Remaining(self)' : row'[worker'[self].batch[i].id].status = "pending"
    BY <2>5, <2>10
  <2>15. row'[InHand(self)'.id].status = worker'[self].verdict
         /\ told'[InHand(self)'.id] = "nothing"
    BY <2>1, <2>5, <2>6, <2>9, <2>11
  <2>16. \A t \in Task : row'[t].status \in {"absent", "pending"} => told'[t] = "nothing"
    BY <2>1, <2>12
  <2> QED
    BY <2>13, <2>14, <2>15, <2>16 DEF PromiseInv
<1>9. CASE Reschedule(self) \/ UpdateFails(self)
  <2>1. /\ worker[self].pc = "write" /\ worker' = [worker EXCEPT ![self] = Onward(worker[self])]
        /\ told' = told
    BY <1>9 DEF Reschedule, UpdateFails
  <2>2. \A t \in Task : row'[t].status = row[t].status
    <3>1. CASE UpdateFails(self)
      BY <3>1 DEF UpdateFails
    <3>2. CASE Reschedule(self)
      <4>1. PICK n, k : row' = [row EXCEPT ![InHand(self).id].checkAt = n,
                                          ![InHand(self).id].checkRound = k]
        BY <3>2 DEF Reschedule
      <4> QED
        BY <1>1, <4>1 DEF Row
    <3> QED
      BY <1>9, <3>1, <3>2
  <2>3. worker'[self] = Onward(worker[self])
    BY <1>1, <2>1
  <2>4. Remaining(self) = {i \in DOMAIN worker[self].batch : i >= worker[self].at}
    BY <2>1 DEF Remaining
  <2>5. Remaining(self)' \subseteq Remaining(self)
    BY <1>1, <1>2, <2>3, <2>4, OnwardRemaining
  <2>6. /\ worker'[self].pc # "tell"
        /\ worker'[self].batch \in {worker[self].batch, <<>>}
        /\ Remaining(self)' # {} => worker'[self].batch = worker[self].batch
    BY <1>1, <2>3, OnwardRemaining
  <2>7. \A i \in Remaining(self) : worker[self].batch[i].id \in Task
    BY <1>2, <2>4
  <2> QED
    BY <1>2, <2>1, <2>2, <2>5, <2>6, <2>7, EmptyBatch DEF PromiseInv
<1>10. CASE NotifyTerminal(self)
  <2>1. /\ worker[self].pc = "tell" /\ worker' = [worker EXCEPT ![self] = Onward(worker[self])]
        /\ row' = row
        /\ told' \in {told, [told EXCEPT ![InHand(self).id] = worker[self].verdict]}
    BY <1>10 DEF NotifyTerminal
  <2>2. worker'[self] = Onward(worker[self])
    BY <1>1, <2>1
  <2>3. Remaining(self) = {i \in DOMAIN worker[self].batch : i > worker[self].at}
    BY <2>1 DEF Remaining
  <2>4. Remaining(self)' \subseteq Remaining(self)
    BY <1>1, <2>2, <2>3, OnwardRemaining
  <2>5. /\ worker'[self].pc # "tell"
        /\ worker'[self].batch \in {worker[self].batch, <<>>}
        /\ Remaining(self)' # {} => worker'[self].batch = worker[self].batch
    BY <1>1, <2>2, OnwardRemaining
  <2>6. row[InHand(self).id].status \in Final
    BY <1>1, <2>1 DEF PromiseInv, DueInv, VerdictInv
  <2>7. \A t \in Task : row[t].status \in {"absent", "pending"} => told'[t] = "nothing"
    BY <1>1, <2>1, <2>6 DEF PromiseInv, Final
  <2> QED
    BY <1>2, <2>1, <2>4, <2>5, <2>7, EmptyBatch DEF PromiseInv
<1> QED
  BY <1>3, <1>4, <1>5, <1>6, <1>7, <1>8, <1>9, <1>10 DEF Next, Daemon, Handle

\* With one process every step opens, closes or announces a task, or is none of the
\* promise's business.
LEMMA StepsOfThePromise ==
    ASSUME NEW self, Process = {self}, DueInv, PromiseInv(self), [Next]_vars
    PROVE  [Promise!PromiseNext]_(Promise!promiseVars)
<1> DEFINE status == [t \in Task |-> row[t].status]
           Stutter == status' = status /\ told' = told
<1>1. self \in Process /\ worker \in [Process -> Worker] /\ row \in [Task -> Row]
      /\ told \in [Task -> Final \cup {"nothing"}]
  BY DEF DueInv, TypeOK
<1>2. Promise!promiseVars = <<status, told>>
  BY DEF Promise!promiseVars
<1>3. ASSUME Stutter PROVE UNCHANGED Promise!promiseVars
  BY <1>3 DEF Promise!promiseVars
<1>4. Promise!Final = Final
  BY DEF Promise!Final, Final
<1>5. CASE \/ Tick \/ Start(self) \/ Exit(self) \/ ClaimDue(self) \/ VerifyOnce(self)
           \/ UpdateFails(self) \/ UNCHANGED vars
  <2>1. row' = row /\ told' = told
    BY <1>5 DEF Tick, Start, Exit, ClaimDue, VerifyOnce, UpdateFails, vars
  <2> QED
    BY <1>3, <2>1
<1>6. CASE Reschedule(self)
  <2>1. PICK n, k : row' = [row EXCEPT ![InHand(self).id].checkAt = n,
                                      ![InHand(self).id].checkRound = k]
    BY <1>6 DEF Reschedule
  <2>2. status' = status
    BY <1>1, <2>1 DEF Row
  <2> QED
    BY <1>3, <1>6, <2>2 DEF Reschedule
<1>7. ASSUME NEW t \in Task, Enqueue(self, t) PROVE Promise!Open(t)
  <2>1. /\ told' = told /\ row[t].status = "absent"
        /\ row'[t].status = "pending" /\ \A s \in Task \ {t} : row'[s] = row[s]
    BY <1>1, <1>7 DEF Enqueue
  <2>2. status' = [status EXCEPT ![t] = "pending"]
    BY <2>1
  <2> QED
    BY <2>1, <2>2 DEF Promise!Open
<1>8. CASE CloseTask(self)
  <2> DEFINE c == InHand(self)
             s == IF worker[self].verdict = "pending" THEN "timeout" ELSE worker[self].verdict
  <2>1. /\ row' = [row EXCEPT ![c.id].status = s, ![c.id].checkRound = c.round + 1]
        /\ told' = told /\ worker[self].pc = "write"
    BY <1>8 DEF CloseTask
  <2>2. c.id \in Task /\ worker[self].at \in DOMAIN worker[self].batch
    BY <1>1, <2>1, InHandFacts DEF DueInv, TypeOK
  <2>3. row[c.id].status = "pending"
    <3>1. worker[self].at \in Remaining(self)
      BY <1>1, <2>1, <2>2, BatchFields DEF Remaining
    <3> QED
      BY <3>1 DEF PromiseInv, InHand
  <2>4. s \in Final
    BY <1>1 DEF Worker, Final
  <2> HIDE DEF c, s
  <2>5. status' = [status EXCEPT ![c.id] = s]
    BY <1>1, <2>1, <2>2 DEF Row
  <2>6. PICK t \in Task : t = c.id
    BY <2>2
  <2>7. Promise!Close(t)
    <3>1. status[t] = "pending" /\ status' = [status EXCEPT ![t] = s] /\ told' = told
      BY <2>1, <2>3, <2>5, <2>6
    <3> QED
      BY <1>4, <2>4, <3>1 DEF Promise!Close
  <2> QED
    BY <2>7 DEF Promise!PromiseNext
<1>9. CASE NotifyTerminal(self)
  <2> DEFINE c == InHand(self)
  <2>1. /\ row' = row /\ worker[self].pc = "tell"
        /\ told' \in {told, [told EXCEPT ![c.id] = worker[self].verdict]}
    BY <1>9 DEF NotifyTerminal
  <2>2. /\ c.id \in Task /\ row[c.id].status = worker[self].verdict
        /\ worker[self].verdict \in Final /\ told[c.id] = "nothing"
    BY <1>1, <2>1, InHandFacts DEF PromiseInv, DueInv, VerdictInv
  <2> HIDE DEF c
  <2>3. CASE told' = told
    BY <1>3, <2>1, <2>3
  <2>4. CASE told' = [told EXCEPT ![c.id] = worker[self].verdict]
    <3>1. Promise!Announce(c.id)
      BY <1>4, <2>1, <2>2, <2>4 DEF Promise!Announce
    <3> QED
      BY <2>2, <3>1 DEF Promise!PromiseNext
  <2> QED
    BY <2>1, <2>3, <2>4
<1>10. ASSUME NEW t \in Task, Enqueue(self, t) PROVE Promise!PromiseNext
  BY <1>7, <1>10 DEF Promise!PromiseNext
<1> QED
  BY <1>5, <1>6, <1>8, <1>9, <1>10 DEF Next, Daemon, Handle

\* One process keeps the promise of the asynchronous validation, for any number of tasks,
\* ends and failed updates: every task is closed at most once, and announced as what it
\* was closed with at most once, though batches are copies and no row is ever locked.
THEOREM OneProcessKeepsThePromise ==
    ASSUME NEW self, Process = {self}
    PROVE  Spec => ImplementsPromise
<1>1. Init => PromiseInv(self)
  BY InitPromise
<1>2. DueInv /\ PromiseInv(self) /\ [Next]_vars => PromiseInv(self)'
  BY NextPromise
<1>3. Init => Promise!PromiseInit
  BY DEF Init, Promise!PromiseInit, NoRow
<1>4. DueInv /\ PromiseInv(self) /\ [Next]_vars => [Promise!PromiseNext]_(Promise!promiseVars)
  BY StepsOfThePromise
<1> QED
  BY <1>1, <1>2, <1>3, <1>4, InitDueInv, NextDueInv, PTL
     DEF Spec, ImplementsPromise, Promise!PromiseSpec

-----------------------------------------------------------------------------
(* The three judgements of Verdicts side by side.                          *)

\* A pod that is gone: more kinds of deletion and of restart turn a failure into
\* something better, and never a success into anything else.
LEMMA GoneIsMonotone ==
    ASSUME NEW o, NEW action,
           NEW D, NEW D2, D \subseteq D2,
           NEW R, NEW R2, R \subseteq R2,
           D2 \cap R2 = {}
    PROVE  /\ Gone(o, D2, R2, action) = "failed" => Gone(o, D, R, action) = "failed"
           /\ Gone(o, D, R, action) = "success" => Gone(o, D2, R2, action) = "success"
  <1>1. CASE action \in D2
    <2>1. Gone(o, D2, R2, action) = "success"
      BY <1>1 DEF Gone
    <2> QED BY <2>1
  <1>2. CASE action \notin D2 /\ action \in R2
    <2>1. Gone(o, D2, R2, action) = IF Found(o) THEN "success" ELSE "pending"
      BY <1>2 DEF Gone
    <2>2. Gone(o, D, R, action) = "success" => Found(o)
      BY <1>2 DEF Gone
    <2> QED BY <2>1, <2>2
  <1>3. CASE action \notin D2 /\ action \notin R2
    <2>1. Gone(o, D, R, action) = "failed"
      BY <1>3 DEF Gone
    <2> QED BY <2>1
  <1> QED BY <1>1, <1>2, <1>3

\* The asynchronous path is the most patient of the three: whatever was done and
\* whatever is observed, it fails only what both others fail, and accepts whatever
\* either of them accepts (_verify_once against _validator_sync_path and cmd_approve).
THEOREM AsyncIsMostPatient ==
    \A action : \A o \in Observation :
        /\ AsyncVerdict(action, o) = "failed" =>
             SyncVerdict(action, o) = "failed" /\ CliVerdict(action, o) = "failed"
        /\ "success" \in {SyncVerdict(action, o), CliVerdict(action, o)} =>
             AsyncVerdict(action, o) = "success"
  <1> SUFFICES ASSUME NEW action, NEW o \in Observation
               PROVE  /\ AsyncVerdict(action, o) = "failed" =>
                           SyncVerdict(action, o) = "failed" /\ CliVerdict(action, o) = "failed"
                      /\ "success" \in {SyncVerdict(action, o), CliVerdict(action, o)} =>
                           AsyncVerdict(action, o) = "success"
    OBVIOUS
  <1>1. CASE Futile(o)
    BY <1>1 DEF AsyncVerdict, SyncVerdict, CliVerdict
  \* Only this branch tells the actions apart.
  <1>2. CASE ~Futile(o) /\ Error(o)
    <2> DEFINE SyncD == Deletions \ {"delete_failed_pod"}
               CliR == Restarts \ {"restart_statefulset_pod"}
    <2>1. AsyncVerdict(action, o) = Gone(o, Deletions, Restarts, action)
      BY <1>2 DEF AsyncVerdict
    <2>2. SyncVerdict(action, o) = Gone(o, SyncD, {"restart_pod"}, action)
      BY <1>2 DEF SyncVerdict
    <2>3. CliVerdict(action, o) = Gone(o, Deletions, CliR, action)
      BY <1>2 DEF CliVerdict
    <2>4. SyncD \subseteq Deletions /\ {"restart_pod"} \subseteq Restarts /\ CliR \subseteq Restarts
          /\ Deletions \cap Restarts = {} /\ Deletions \cap CliR = {}
      BY DEF Restarts, Deletions
    <2> HIDE DEF SyncD, CliR
    <2>5. /\ Gone(o, Deletions, Restarts, action) = "failed" =>
               Gone(o, SyncD, {"restart_pod"}, action) = "failed"
          /\ Gone(o, SyncD, {"restart_pod"}, action) = "success" =>
               Gone(o, Deletions, Restarts, action) = "success"
      BY <2>4, GoneIsMonotone
    <2>6. /\ Gone(o, Deletions, Restarts, action) = "failed" =>
               Gone(o, Deletions, CliR, action) = "failed"
          /\ Gone(o, Deletions, CliR, action) = "success" =>
               Gone(o, Deletions, Restarts, action) = "success"
      BY <2>4, GoneIsMonotone
    <2> QED BY <2>1, <2>2, <2>3, <2>5, <2>6
  <1>3. CASE ~Futile(o) /\ ~Error(o)
    BY <1>3 DEF AsyncVerdict, SyncVerdict, CliVerdict, Steady
  <1> QED BY <1>1, <1>2, <1>3
=============================================================================
