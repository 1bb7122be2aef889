----------------------- MODULE ClusterActions_proofs -----------------------
(***************************************************************************)
(* Proofs about ClusterActions, for any number of actors, requests, pod    *)
(* templates and changes from elsewhere: what the two calls of an action   *)
(* achieve together although anything may happen between them.             *)
(***************************************************************************)
EXTENDS ClusterActions, FiniteSetTheorems, SequenceTheorems, TLAPS

CallRec == [pc : {"idle", "read", "write"}, req : Request \cup {NoCall.req},
            want : Nat, saw : Nat, ok : BOOLEAN]

\* A pod that may go: it has ended, or it is restarted and its owner makes another.
Warranted(action, p) ==
    \/ p.status \in Terminal
    \/ action \in Restarts /\ p.owner \in {"ReplicaSet", "DaemonSet", "StatefulSet"}

\* The deployment's history: a template's revision is where it was last rolled out,
\* and nothing is rolled out twice in a row.
RevisionInv ==
    /\ Len(lineage) >= 1
    /\ \A v \in Version : /\ revision[v] <= Len(lineage)
                          /\ revision[v] > 0 => lineage[revision[v]] = v
    /\ \A i \in 1 .. Len(lineage) : revision[lineage[i]] >= i
    /\ \A i \in 1 .. Len(lineage) - 1 : lineage[i] # lineage[i + 1]

\* What an actor between its two calls may rely on: a pod it found deletable stays so
\* as long as it is the same pod, the count it wants is one it may ask for, and the
\* template it wants preceded the last it saw.
CallInv(a) ==
    LET r == call[a].req
    IN  /\ call[a].pc # "idle" => r \in Request /\ replicas \in counts[a]
        /\ call[a].pc = "write" =>
             /\ ~r.dryRun
             /\ r.action \in Deletions =>
                  /\ call[a].saw <= pod.nth
                  /\ call[a].saw = pod.nth /\ pod.status # "gone" => Warranted(r.action, pod)
             /\ r.action = "scale_deployment" =>
                  call[a].want \in Atomic!Wanted(r, counts[a])
             /\ r.action = "rollback_deployment" =>
                  /\ call[a].saw \in 2 .. Len(lineage)
                  /\ call[a].want = lineage[call[a].saw - 1]

CallsInv == \A a \in Actor : CallInv(a)

-----------------------------------------------------------------------------
(* What the operators return.                                              *)

LEMMA NoCallType == NoCall \in CallRec /\ NoCall.pc = "idle"
BY DEF NoCall, CallRec

\* The branches of Deletable allow nothing else.
LEMMA DeletableIsWarranted ==
    ASSUME NEW action \in Deletions, NEW p, Deletable(action, p)
    PROVE  Warranted(action, p)
<1>1. CASE action = "delete_evicted_pod"
  BY <1>1 DEF Deletable, Warranted, Terminal
<1>2. CASE action = "delete_completed_job_pod"
  BY <1>2 DEF Deletable, Warranted, Terminal
<1>3. CASE action = "delete_failed_pod"
  BY <1>3 DEF Deletable, Warranted, Terminal
<1>4. CASE action = "restart_pod"
  BY <1>4 DEF Deletable, Warranted, Restarts, PlanRestarts
<1>5. CASE action = "restart_pod_for_image_pull"
  BY <1>5 DEF Deletable, Warranted, Restarts, PlanRestarts
<1>6. CASE action = "restart_statefulset_pod"
  BY <1>6 DEF Deletable, Warranted, Restarts, PlanRestarts
<1> QED
  BY <1>1, <1>2, <1>3, <1>4, <1>5, <1>6 DEF Deletions, Cleanups, Restarts, PlanRestarts

\* The four kinds of action are different actions.
LEMMA KindsOfAction ==
    /\ Deletions \cap NodeActions = {}
    /\ "scale_deployment" \notin Deletions \cup NodeActions
    /\ "rollback_deployment" \notin Deletions \cup NodeActions
    /\ "cordon_node" \notin Deletions /\ "uncordon_node" \notin Deletions
    /\ NodeActions = {"cordon_node", "uncordon_node"}
BY DEF Deletions, Cleanups, Restarts, PlanRestarts, NodeActions

\* The template with the second highest revision is the one rolled out before the last.
LEMMA PreviousWasLastButOne ==
    ASSUME TypeOK, RevisionInv, ~(Cardinality(Listed) < 2)
    PROVE  Len(lineage) > 1 /\ Previous = lineage[Len(lineage) - 1]
<1> DEFINE n == Len(lineage)
<1> DEFINE Newer(v) == {w \in Listed : revision[w] > revision[v]}
<1>1. /\ n \in Nat /\ n >= 1
      /\ \A i \in 1 .. n : lineage[i] \in Version
      /\ \A v \in Version : revision[v] \in Nat
  BY DEF TypeOK, RevisionInv
<1>2. \A v \in Listed : /\ v \in Version /\ revision[v] \in 1 .. n
                        /\ lineage[revision[v]] = v
  BY <1>1 DEF Listed, RevisionInv
<1>3. \A i \in 1 .. n : /\ lineage[i] \in Listed
                        /\ revision[lineage[i]] \in i .. n
  BY <1>1 DEF Listed, RevisionInv
<1>4. revision[lineage[n]] = n
  BY <1>1, <1>3
<1>5. IsFiniteSet(Listed)
  <2> DEFINE f == [w \in Listed |-> revision[w]]
  <2>1. f \in [Listed -> 1 .. n]
    BY <1>2
  <2>2. \A v, w \in Listed : f[v] = f[w] => v = w
    BY <1>2
  <2>3. f \in Injection(Listed, 1 .. n)
    BY <2>1, <2>2 DEF Injection, IsInjective
  <2>4. IsFiniteSet(1 .. n)
    BY <1>1, FS_Interval
  <2> HIDE DEF f
  <2> QED
    BY <2>3, <2>4, FS_Injection
<1>6. n > 1
  <2>1. ASSUME n = 1 PROVE FALSE
    <3>1. Listed = {lineage[1]}
      BY <2>1, <1>2, <1>3
    <3>2. Cardinality(Listed) = 1
      BY <3>1, FS_Singleton
    <3> QED
      BY <3>2
  <2>2. \A k \in Nat : k >= 1 /\ k # 1 => k > 1
    OBVIOUS
  <2> QED
    BY <1>1, <2>1, <2>2
<1> DEFINE last == lineage[n]
<1> DEFINE before == lineage[n - 1]
<1>7. n - 1 \in 1 .. n - 1 /\ n - 1 \in 1 .. n /\ (n - 1) + 1 = n
  BY <1>1, <1>6
<1>8. before # last
  BY <1>7 DEF RevisionInv
<1>9. revision[before] = n - 1
  <2>1. revision[before] \in n - 1 .. n
    BY <1>3, <1>7
  <2>2. revision[before] # n
    BY <1>2, <1>3, <1>7, <1>8
  <2> QED
    BY <1>1, <2>1, <2>2
<1>10. Newer(before) = {last}
  <2>1. \A w \in Listed : revision[w] > n - 1 => w = last
    BY <1>1, <1>2
  <2> QED
    BY <1>1, <1>3, <1>4, <1>9, <2>1
<1>11. before \in Listed /\ Cardinality(Newer(before)) = 1
  BY <1>3, <1>7, <1>10, FS_Singleton
<1>12. ASSUME NEW v \in Listed, Cardinality(Newer(v)) = 1 PROVE v = before
  <2>1. IsFiniteSet(Newer(v))
    BY <1>5, FS_Subset
  <2>2. PICK x : Newer(v) = {x}
    BY <1>12, <2>1, FS_Singleton
  <2>3. revision[v] < n
    <3>1. x \in Listed /\ revision[x] > revision[v]
      BY <2>2
    <3> QED
      BY <1>1, <1>2, <3>1
  <2>4. last \in Newer(v)
    BY <1>1, <1>2, <1>3, <1>4, <2>3
  <2>5. before \notin Newer(v)
    BY <1>8, <2>2, <2>4
  <2>6. ~(n - 1 > revision[v])
    BY <1>9, <1>11, <2>5
  <2>7. revision[v] = n - 1
    BY <1>1, <1>2, <2>3, <2>6
  <2> QED
    BY <1>2, <2>7
<1>13. Previous = before
  <2> HIDE DEF before, last
  <2> QED
    BY <1>11, <1>12 DEF Previous
<1> QED
  BY <1>6, <1>13

-----------------------------------------------------------------------------
(* Types.                                                                  *)

LEMMA InitTypeOK == Init => TypeOK
<1> SUFFICES ASSUME Init PROVE TypeOK
  OBVIOUS
<1>1. pod \in [nth : Nat, owner : Owner, status : Status \cup {"gone"}]
  BY DEF Init, Owner, Status
<1>2. revision \in [Version -> Nat] /\ template \in Version
  BY VersionAssumption DEF Init
<1>3. call \in [Actor -> CallRec]
  BY NoCallType DEF Init
<1>4. lineage \in Seq(Version) /\ counts \in [Actor -> SUBSET Nat]
  BY VersionAssumption DEF Init
<1> QED
  BY <1>1, <1>2, <1>3, <1>4 DEF Init, TypeOK, CallRec

\* A call that returns: the actor is idle, the others go on and take note of the count.
LEMMA AnswerFacts ==
    ASSUME TypeOK, NEW a \in Actor, NEW ok \in BOOLEAN, Answer(a, ok), replicas' \in Nat
    PROVE  /\ call' \in [Actor -> CallRec] /\ counts' \in [Actor -> SUBSET Nat]
           /\ call'[a].pc = "idle" /\ call'[a].ok = ok
           /\ \A b \in Actor : b # a =>
                /\ call'[b] = call[b]
                /\ call[b].pc # "idle" => counts'[b] = counts[b] \cup {replicas'}
<1>1. call \in [Actor -> CallRec] /\ counts \in [Actor -> SUBSET Nat]
  BY DEF TypeOK, CallRec
<1>2. [NoCall EXCEPT !.ok = ok] \in CallRec
  BY NoCallType DEF CallRec
<1>3. call' = [call EXCEPT ![a] = [NoCall EXCEPT !.ok = ok]]
  BY DEF Answer
<1>4. [NoCall EXCEPT !.ok = ok].pc = "idle" /\ [NoCall EXCEPT !.ok = ok].ok = ok
  BY NoCallType DEF CallRec
<1>5. counts' \in [Actor -> SUBSET Nat]
  BY <1>1 DEF Answer
<1>6. \A b \in Actor : b # a /\ call[b].pc # "idle" => counts'[b] = counts[b] \cup {replicas'}
  BY DEF Answer
<1> QED
  BY <1>1, <1>2, <1>3, <1>4, <1>5, <1>6

\* A call that goes on to write.
LEMMA WriteFacts ==
    ASSUME TypeOK, NEW a \in Actor, NEW want \in Nat, NEW saw \in Nat,
           call' = [call EXCEPT ![a].pc = "write", ![a].want = want, ![a].saw = saw]
    PROVE  /\ call' \in [Actor -> CallRec]
           /\ call'[a] = [pc |-> "write", req |-> call[a].req, want |-> want, saw |-> saw,
                          ok |-> call[a].ok]
           /\ \A b \in Actor : b # a => call'[b] = call[b]
<1>1. call \in [Actor -> CallRec]
  BY DEF TypeOK, CallRec
<1>2. call'[a] = [pc |-> "write", req |-> call[a].req, want |-> want, saw |-> saw,
                  ok |-> call[a].ok]
  BY <1>1 DEF CallRec
<1>3. call'[a] \in CallRec
  BY <1>1, <1>2 DEF CallRec
<1> QED
  BY <1>1, <1>2, <1>3

\* What the reads may go on with.
Wants(a, want, saw) ==
    LET action == call[a].req.action
    IN  \/ action \in Deletions /\ want = 0 /\ saw = pod.nth /\ pod.status # "gone"
           /\ Deletable(action, pod)
        \/ action \in NodeActions /\ want = 0 /\ saw = 0
        \/ /\ action = "scale_deployment" /\ saw = 0 /\ want \in 0 .. MaxReplicas
           /\ \/ call[a].req.mode = "replicas" /\ want = call[a].req.n
              \/ /\ call[a].req.mode = "delta" /\ call[a].req.n \in -MaxDelta .. MaxDelta
                 /\ want = replicas + call[a].req.n
        \/ /\ action = "rollback_deployment" /\ Len(lineage) > 1
           /\ want = lineage[Len(lineage) - 1] /\ saw = Len(lineage)

\* A call in its first half returns, or goes on to write what it may.
Reads(a) == ReadPod(a) \/ ReadNode(a) \/ ReadScale(a) \/ ReadRollback(a)

LEMMA ReadFacts ==
    ASSUME TypeOK, RevisionInv, NEW a \in Actor, call[a].pc # "idle" => call[a].req \in Request,
           Reads(a)
    PROVE  /\ call[a].pc = "read" /\ call[a].req \in Request
           /\ UNCHANGED <<cluster, focus, calls, events, lineage>>
           /\ \/ Answer(a, TRUE) \/ Answer(a, FALSE)
              \/ \E want, saw \in Nat :
                   /\ ~call[a].req.dryRun /\ Wants(a, want, saw)
                   /\ call' = [call EXCEPT ![a].pc = "write", ![a].want = want, ![a].saw = saw]
                   /\ UNCHANGED counts
<1> DEFINE r == call[a].req
<1> DEFINE Outcome ==
             \/ Answer(a, TRUE) \/ Answer(a, FALSE)
             \/ \E want, saw \in Nat :
                  /\ ~r.dryRun /\ Wants(a, want, saw)
                  /\ call' = [call EXCEPT ![a].pc = "write", ![a].want = want, ![a].saw = saw]
                  /\ UNCHANGED counts
<1>1. call[a].pc = "read" /\ r \in Request
  BY DEF Reads, ReadPod, ReadNode, ReadScale, ReadRollback, Asks
<1>2. UNCHANGED <<cluster, focus, calls, events, lineage>>
  BY DEF Reads, ReadPod, ReadNode, ReadScale, ReadRollback, ReadOnly
<1> SUFFICES Outcome
  BY <1>1, <1>2
\* The branches that go on, with what they want and saw.
<1>g. ASSUME NEW want \in Nat, NEW saw \in Nat, Wants(a, want, saw),
             IF r.dryRun
             THEN Answer(a, TRUE)
             ELSE /\ call' = [call EXCEPT ![a].pc = "write", ![a].want = want, ![a].saw = saw]
                  /\ UNCHANGED counts
      PROVE  Outcome
  BY <1>g
<1>t. /\ pod.nth \in Nat /\ replicas \in Nat /\ r.n \in Int
      /\ Len(lineage) \in Nat /\ \A i \in 1 .. Len(lineage) : lineage[i] \in Nat
  <2>1. pod.nth \in Nat /\ replicas \in Nat
    BY DEF TypeOK
  <2>2. r.n \in Int
    BY <1>1, RequestAssumption
  <2>3. Len(lineage) \in Nat /\ \A i \in 1 .. Len(lineage) : lineage[i] \in Version
    BY DEF TypeOK
  <2>4. \A v \in Version : v \in Nat
    BY VersionAssumption
  <2> QED
    BY <2>1, <2>2, <2>3, <2>4
<1>3. CASE ReadPod(a)
  <2>1. CASE ~Deletable(r.action, pod)
    BY <1>3, <2>1 DEF ReadPod
  <2>2. CASE Deletable(r.action, pod)
    <3>1. PICK saw \in Nat : saw = pod.nth
      BY <1>t
    <3>2. Wants(a, 0, saw)
      BY <1>3, <2>2, <3>1 DEF ReadPod, Asks, Wants
    <3>3. IF r.dryRun
          THEN Answer(a, TRUE)
          ELSE /\ call' = [call EXCEPT ![a].pc = "write", ![a].want = 0, ![a].saw = saw]
               /\ UNCHANGED counts
      BY <1>3, <2>2, <3>1 DEF ReadPod, GoOn
    <3> QED
      BY <3>2, <3>3, <1>g
  <2> QED
    BY <2>1, <2>2
<1>4. CASE ReadNode(a)
  <2>1. Wants(a, 0, 0)
    BY <1>4 DEF ReadNode, Asks, Wants
  <2>2. Answer(a, TRUE) \/ GoOn(a, 0, 0)
    BY <1>4 DEF ReadNode
  <2>3. CASE Answer(a, TRUE)
    BY <2>3
  <2>4. CASE GoOn(a, 0, 0)
    <3>1. IF r.dryRun
          THEN Answer(a, TRUE)
          ELSE /\ call' = [call EXCEPT ![a].pc = "write", ![a].want = 0, ![a].saw = 0]
               /\ UNCHANGED counts
      BY <2>4 DEF GoOn
    <3> QED
      BY <2>1, <3>1, <1>g
  <2> QED
    BY <2>2, <2>3, <2>4
<1>5. CASE ReadScale(a)
  <2> DEFINE target == IF r.mode = "delta" THEN replicas + r.n ELSE r.n
  <2>1. \/ Answer(a, FALSE) \/ Answer(a, TRUE)
        \/ /\ GoOn(a, target, 0) /\ r.mode \in {"replicas", "delta"}
           /\ ~(r.mode = "delta" /\ Abs(r.n) > MaxDelta) /\ InScaleRange(target)
    BY <1>5 DEF ReadScale
  <2>2. CASE Answer(a, FALSE) \/ Answer(a, TRUE)
    BY <2>2
  <2>3. CASE /\ GoOn(a, target, 0) /\ r.mode \in {"replicas", "delta"}
             /\ ~(r.mode = "delta" /\ Abs(r.n) > MaxDelta) /\ InScaleRange(target)
    <3>1. r.mode = "delta" => r.n \in -MaxDelta .. MaxDelta
      BY <2>3, <1>t, ScaleAssumption DEF Abs
    <3>2. target \in 0 .. MaxReplicas /\ target \in Nat
      BY <2>3, ScaleAssumption DEF InScaleRange
    <3>3. PICK want \in Nat : want = target
      BY <3>2
    <3>4. Wants(a, want, 0)
      BY <1>5, <2>3, <3>1, <3>2, <3>3 DEF ReadScale, Asks, Wants
    <3>5. IF r.dryRun
          THEN Answer(a, TRUE)
          ELSE /\ call' = [call EXCEPT ![a].pc = "write", ![a].want = want, ![a].saw = 0]
               /\ UNCHANGED counts
      BY <2>3, <3>3 DEF GoOn
    <3> QED
      BY <3>4, <3>5, <1>g
  <2> QED
    BY <2>1, <2>2, <2>3
<1>6. CASE ReadRollback(a)
  <2>1. CASE Cardinality(Listed) < 2
    BY <1>6, <2>1 DEF ReadRollback
  <2>2. CASE ~(Cardinality(Listed) < 2)
    <3>1. Len(lineage) > 1 /\ Previous = lineage[Len(lineage) - 1]
      BY <2>2, PreviousWasLastButOne
    <3>2. PICK want \in Nat, saw \in Nat : want = Previous /\ saw = Len(lineage)
      BY <1>t, <3>1
    <3>3. Wants(a, want, saw)
      BY <1>6, <3>1, <3>2 DEF ReadRollback, Asks, Wants
    <3>4. IF r.dryRun
          THEN Answer(a, TRUE)
          ELSE /\ call' = [call EXCEPT ![a].pc = "write", ![a].want = want, ![a].saw = saw]
               /\ UNCHANGED counts
      BY <1>6, <2>2, <3>2 DEF ReadRollback, GoOn
    <3> QED
      BY <3>3, <3>4, <1>g
  <2> QED
    BY <2>1, <2>2
<1> QED
  BY <1>1, <1>2, <1>3, <1>4, <1>5, <1>6 DEF Reads

\* The controller gives the template the next revision; it was not the last one's.
LEMMA SettleFacts ==
    ASSUME TypeOK, RevisionInv, Settle
    PROVE  /\ revision' = [revision EXCEPT ![template] = Len(lineage) + 1]
           /\ lineage' = Append(lineage, template)
           /\ template # lineage[Len(lineage)]
<1> DEFINE n == Len(lineage)
<1> DEFINE Tops == {revision[v] : v \in Listed}
<1> DEFINE IsTop(top) == \A v \in Listed : revision[v] <= top
<1>1. /\ n \in Nat /\ n >= 1 /\ lineage[n] \in Version
      /\ \A v \in Version : revision[v] \in 0 .. n
      /\ template \in Version
  BY DEF TypeOK, RevisionInv
<1>2. revision[lineage[n]] >= n
  BY <1>1 DEF RevisionInv
<1>3. revision[lineage[n]] = n /\ lineage[n] \in Listed
  BY <1>1, <1>2 DEF Listed
<1>4. n \in Tops /\ IsTop(n)
  BY <1>1, <1>3 DEF Listed
<1>5. ASSUME NEW top \in Tops, IsTop(top) PROVE top = n
  <2>1. top \in 0 .. n /\ n <= top
    BY <1>1, <1>3, <1>5 DEF Listed
  <2> QED
    BY <1>1, <2>1
<1>6. (CHOOSE top \in Tops : IsTop(top)) = n
  <2> HIDE DEF Tops, IsTop, n
  <2> QED
    BY <1>4, <1>5
<1>7. revision' = [revision EXCEPT ![template] = 1 + n]
  BY <1>6 DEF Settle
<1>8. template # lineage[n]
  <2>1. PICK v \in Listed : revision[v] > revision[template]
    BY DEF Settle
  <2>2. revision[v] \in 0 .. n
    BY <1>1 DEF Listed
  <2>3. revision[template] # n
    BY <1>1, <2>1, <2>2
  <2> QED
    BY <1>3, <2>3
<1>9. 1 + n = n + 1
  BY <1>1
<1> QED
  BY <1>7, <1>8, <1>9 DEF Settle

\* Every step keeps the types.
LEMMA CallTypes ==
    ASSUME TypeOK, RevisionInv, CallsInv, NEW a \in Actor,
           \/ \E r \in Request : Call(a, r)
           \/ Reads(a) \/ Write(a) \/ Fails(a)
    PROVE  TypeOK'
<1>t. /\ call \in [Actor -> CallRec] /\ counts \in [Actor -> SUBSET Nat] /\ replicas \in Nat
      /\ calls \in Nat
  BY DEF TypeOK, CallRec
<1>o. call[a].pc # "idle" => call[a].req \in Request
  BY DEF CallsInv, CallInv
<1>1. ASSUME NEW r \in Request, Call(a, r) PROVE TypeOK'
  <2>1. [NoCall EXCEPT !.pc = "read", !.req = r, !.ok = call[a].ok] \in CallRec
    BY <1>t, NoCallType DEF CallRec
  <2>2. call' \in [Actor -> CallRec]
    BY <1>1, <1>t, <2>1 DEF Call
  <2>3. counts' \in [Actor -> SUBSET Nat] /\ calls' \in Nat
    <3>1. counts' = [counts EXCEPT ![a] = {replicas}] /\ calls' = calls + 1
      BY <1>1 DEF Call
    <3>2. {replicas} \in SUBSET Nat
      BY <1>t
    <3> QED
      BY <1>t, <3>1, <3>2
  <2>4. UNCHANGED <<cluster, focus, events, lineage>>
    BY <1>1 DEF Call
  <2> QED
    BY <2>2, <2>3, <2>4 DEF TypeOK, CallRec, cluster
<1>2. CASE Reads(a)
  <2>1. UNCHANGED <<cluster, focus, calls, events, lineage>> /\ replicas' \in Nat
    BY <1>2, <1>o, <1>t, ReadFacts DEF cluster
  <2>2. call' \in [Actor -> CallRec] /\ counts' \in [Actor -> SUBSET Nat]
    <3>1. CASE Answer(a, TRUE) \/ Answer(a, FALSE)
      BY <2>1, <3>1, AnswerFacts
    <3>2. ASSUME NEW want \in Nat, NEW saw \in Nat, UNCHANGED counts,
                 call' = [call EXCEPT ![a].pc = "write", ![a].want = want, ![a].saw = saw]
          PROVE  call' \in [Actor -> CallRec] /\ counts' \in [Actor -> SUBSET Nat]
      BY <1>t, <3>2, WriteFacts
    <3> QED
      BY <1>2, <1>o, <3>1, <3>2, ReadFacts
  <2> QED
    BY <2>1, <2>2 DEF TypeOK, CallRec, cluster
<1>3. CASE Write(a)
  <2>1. /\ pod' \in [nth : Nat, owner : Owner, status : Status \cup {"gone"}]
        /\ cordoned' \in BOOLEAN /\ replicas' \in Nat /\ template' \in Version
    <3>1. call[a].want \in Nat
      BY <1>t DEF CallRec
    <3>2. CASE call[a].req.action # "rollback_deployment"
      BY <1>3, <3>1, <3>2 DEF Write, TypeOK
    <3>3. CASE call[a].req.action = "rollback_deployment"
      <4>1. UNCHANGED <<pod, cordoned, replicas>> /\ template' = call[a].want
        BY <1>3, <3>3, KindsOfAction DEF Write
      <4>2. call[a].saw - 1 \in 1 .. Len(lineage) /\ call[a].want = lineage[call[a].saw - 1]
        BY <1>3, <3>3 DEF Write, CallsInv, CallInv, TypeOK
      <4>3. call[a].want \in Version
        BY <4>2 DEF TypeOK
      <4> QED
        BY <4>1, <4>3 DEF TypeOK
    <3> QED
      BY <3>2, <3>3
  <2>2. call' \in [Actor -> CallRec] /\ counts' \in [Actor -> SUBSET Nat]
    BY <1>3, <2>1, AnswerFacts DEF Write
  <2> QED
    BY <1>3, <2>1, <2>2 DEF Write, TypeOK, CallRec
<1>4. CASE Fails(a)
  <2>1. UNCHANGED <<cluster, focus, calls, events, lineage>> /\ replicas' \in Nat
    BY <1>4, <1>t DEF Fails, ReadOnly, cluster
  <2>2. call' \in [Actor -> CallRec] /\ counts' \in [Actor -> SUBSET Nat]
    BY <1>4, <2>1, AnswerFacts DEF Fails
  <2> QED
    BY <2>1, <2>2 DEF TypeOK, CallRec, cluster
<1> QED
  BY <1>1, <1>2, <1>3, <1>4

LEMMA ElsewhereTypes ==
    ASSUME TypeOK, RevisionInv, PodChanges \/ NameTakenAgain \/ SpecChanges \/ Settle
    PROVE  TypeOK'
<1>1. CASE PodChanges \/ NameTakenAgain \/ SpecChanges
  <2>p. pod \in [nth : Nat, owner : Owner, status : Status \cup {"gone"}]
    BY DEF TypeOK
  <2>1. pod' \in [nth : Nat, owner : Owner, status : Status \cup {"gone"}]
    <3>1. CASE PodChanges
      <4>1. PICK status \in Status \cup {"gone"} : pod' = [pod EXCEPT !.status = status]
        BY <3>1 DEF PodChanges
      <4> QED
        BY <2>p, <4>1
    <3>2. CASE NameTakenAgain
      <4>1. pod' = [pod EXCEPT !.nth = pod.nth + 1, !.status = "fine"]
        BY <3>2 DEF NameTakenAgain
      <4>2. pod.nth + 1 \in Nat /\ "fine" \in Status
        BY <2>p DEF Status
      <4> QED
        BY <2>p, <4>1, <4>2
    <3>3. CASE SpecChanges
      BY <2>p, <3>3 DEF SpecChanges
    <3> QED
      BY <1>1, <3>1, <3>2, <3>3
  <2>2. cordoned' \in BOOLEAN /\ template' \in Version
    BY <1>1 DEF PodChanges, NameTakenAgain, SpecChanges, TypeOK
  <2>3. replicas' \in Nat
    BY <1>1, ScaleAssumption DEF PodChanges, NameTakenAgain, SpecChanges, TypeOK
  <2>4. Event
    BY <1>1 DEF PodChanges, NameTakenAgain, SpecChanges
  <2>5. events' \in Nat /\ UNCHANGED <<focus, call, calls, revision, lineage>>
    BY <2>4 DEF Event, TypeOK
  <2>6. counts \in [Actor -> SUBSET Nat]
    BY DEF TypeOK
  <2>7. counts' = [a \in Actor |->
                    IF call[a].pc # "idle" THEN counts[a] \cup {replicas'} ELSE {}]
    BY <2>4 DEF Event
  <2>8. counts' \in [Actor -> SUBSET Nat]
    BY <2>3, <2>6, <2>7
  <2> QED
    BY <2>1, <2>2, <2>3, <2>5, <2>8 DEF TypeOK
<1>2. CASE Settle
  <2>1. revision' = [revision EXCEPT ![template] = Len(lineage) + 1]
    BY <1>2, SettleFacts
  <2>2. /\ revision \in [Version -> Nat] /\ template \in Version /\ lineage \in Seq(Version)
        /\ Len(lineage) + 1 \in Nat
    BY DEF TypeOK
  <2>3. revision' \in [Version -> Nat] /\ lineage' \in Seq(Version)
    BY <1>2, <2>1, <2>2 DEF Settle
  <2> QED
    BY <1>2, <2>3 DEF Settle, TypeOK
<1> QED
  BY <1>1, <1>2

-----------------------------------------------------------------------------
(* The invariant.                                                          *)

LEMMA InitRevisionInv == Init => RevisionInv
<1> SUFFICES ASSUME Init PROVE RevisionInv
  OBVIOUS
<1>1. /\ Len(lineage) = 1 /\ lineage[1] = 1 /\ 1 \in Version
      /\ \A v \in Version : revision[v] = IF v = 1 THEN 1 ELSE 0
  BY VersionAssumption DEF Init
<1>2. \A v \in Version : revision[v] <= 1 /\ (revision[v] > 0 => lineage[revision[v]] = v)
  BY <1>1
<1>3. \A i \in 1 .. 1 : revision[lineage[i]] >= i
  BY <1>1
<1> QED
  BY <1>1, <1>2, <1>3 DEF RevisionInv

LEMMA NextRevisionInv ==
    ASSUME TypeOK, RevisionInv, Settle \/ UNCHANGED <<revision, lineage>>
    PROVE  RevisionInv'
<1>1. CASE UNCHANGED <<revision, lineage>>
  BY <1>1 DEF RevisionInv
<1>2. CASE Settle
  <2> DEFINE n == Len(lineage)
  <2>1. /\ n \in Nat /\ n >= 1 /\ \A i \in 1 .. n : lineage[i] \in Version
        /\ \A v \in Version : revision[v] \in 0 .. n
        /\ template \in Version /\ lineage \in Seq(Version)
    BY DEF TypeOK, RevisionInv
  <2>2. /\ revision'[template] = n + 1
        /\ \A v \in Version : v # template => revision'[v] = revision[v]
    BY <1>2, SettleFacts DEF TypeOK
  <2>3. /\ Len(lineage') = n + 1 /\ lineage'[n + 1] = template
        /\ \A i \in 1 .. n : lineage'[i] = lineage[i]
    BY <1>2, <2>1, AppendProperties, SettleFacts
  <2>4. lineage[n] # template
    BY <1>2, SettleFacts
  <2>5. ASSUME NEW v \in Version
        PROVE  revision'[v] <= n + 1 /\ (revision'[v] > 0 => lineage'[revision'[v]] = v)
    <3>1. CASE v = template
      BY <2>1, <2>2, <2>3, <3>1
    <3>2. CASE v # template
      <4>1. revision'[v] \in 0 .. n /\ (revision[v] > 0 => lineage[revision[v]] = v)
        BY <2>1, <2>2, <3>2 DEF RevisionInv
      <4> QED
        BY <2>1, <2>2, <2>3, <3>2, <4>1
    <3> QED
      BY <3>1, <3>2
  <2>6. ASSUME NEW i \in 1 .. n + 1 PROVE revision'[lineage'[i]] >= i
    <3>1. CASE i = n + 1
      BY <2>1, <2>2, <2>3, <3>1
    <3>2. CASE i \in 1 .. n
      <4>1. revision[lineage[i]] >= i /\ lineage'[i] = lineage[i] /\ lineage[i] \in Version
        BY <2>1, <2>3, <3>2 DEF RevisionInv
      <4> QED
        BY <2>1, <2>2, <3>2, <4>1
    <3> QED
      BY <2>1, <3>1, <3>2
  <2>7. ASSUME NEW i \in 1 .. (n + 1) - 1 PROVE lineage'[i] # lineage'[i + 1]
    <3>1. CASE i = n
      BY <2>1, <2>3, <2>4, <3>1
    <3>2. CASE i \in 1 .. n - 1
      <4>1. lineage[i] # lineage[i + 1] /\ i \in 1 .. n /\ i + 1 \in 1 .. n
        BY <2>1, <3>2 DEF RevisionInv
      <4> QED
        BY <2>3, <4>1
    <3> QED
      BY <2>1, <3>1, <3>2
  <2>8. n + 1 >= 1
    BY <2>1
  <2> QED
    BY <2>3, <2>5, <2>6, <2>7, <2>8 DEF RevisionInv
<1> QED
  BY <1>1, <1>2

\* How the pod and the history move, whoever moves them: a pod that ended or whose
\* owner replaces it stays such a pod until its name is another's, and the history
\* only grows.
ClusterMoves ==
    /\ pod'.nth >= pod.nth
    /\ pod'.nth = pod.nth /\ pod'.status # "gone" =>
         /\ pod.status # "gone"
         /\ \A action \in Deletions : Warranted(action, pod) => Warranted(action, pod')
    /\ Len(lineage') >= Len(lineage)
    /\ \A i \in 1 .. Len(lineage) : lineage'[i] = lineage[i]

LEMMA NextMoves == TypeOK /\ RevisionInv /\ [Next]_vars => ClusterMoves
<1> SUFFICES ASSUME TypeOK, RevisionInv, [Next]_vars PROVE ClusterMoves
  OBVIOUS
<1>t. /\ pod \in [nth : Nat, owner : Owner, status : Status \cup {"gone"}]
      /\ Len(lineage) \in Nat /\ lineage \in Seq(Version) /\ template \in Version
  BY DEF TypeOK
<1>1. CASE UNCHANGED <<pod, lineage>>
  BY <1>1, <1>t DEF ClusterMoves
<1>2. CASE PodChanges
  <2>1. PICK status \in Status \cup {"gone"} :
          /\ pod' = [pod EXCEPT !.status = status]
          /\ pod.status \in Terminal => status = "gone"
    BY <1>2 DEF PodChanges
  <2>2. pod.status # "gone" /\ lineage' = lineage
    BY <1>2 DEF PodChanges, Event
  <2>3. pod'.nth = pod.nth /\ pod'.owner = pod.owner /\ pod'.status = status
    BY <1>t, <2>1
  <2> QED
    BY <1>t, <2>1, <2>2, <2>3 DEF ClusterMoves, Warranted
<1>3. CASE NameTakenAgain
  <2>1. pod'.nth = pod.nth + 1 /\ lineage' = lineage
    BY <1>3, <1>t DEF NameTakenAgain, Event
  <2>2. pod'.nth >= pod.nth /\ pod'.nth # pod.nth
    BY <1>t, <2>1
  <2> QED
    BY <1>t, <2>1, <2>2 DEF ClusterMoves
<1>4. CASE Settle
  <2>1. /\ pod' = pod /\ Len(lineage') >= Len(lineage)
        /\ \A i \in 1 .. Len(lineage) : lineage'[i] = lineage[i]
    BY <1>4, <1>t, AppendProperties DEF Settle
  <2> QED
    BY <1>t, <2>1 DEF ClusterMoves
<1>5. ASSUME NEW a \in Actor, Write(a) PROVE ClusterMoves
  <2>1. pod' = pod \/ pod' = [pod EXCEPT !.status = "gone"]
    BY <1>5 DEF Write
  <2>2. pod'.nth = pod.nth /\ (pod'.status # "gone" => pod' = pod) /\ lineage' = lineage
    BY <1>5, <1>t, <2>1 DEF Write
  <2> QED
    BY <1>t, <2>2 DEF ClusterMoves
<1> QED
  BY <1>1, <1>2, <1>3, <1>4, <1>5
     DEF Next, vars, cluster, Call, ReadPod, ReadNode, ReadScale, ReadRollback, ReadOnly,
         Fails, SpecChanges, Event

\* A call is not disturbed by the steps of others.
Undisturbed(b) ==
    /\ call'[b] = call[b]
    /\ call[b].pc # "idle" => counts[b] \subseteq counts'[b] /\ replicas' \in counts'[b]

LEMMA UndisturbedCall ==
    ASSUME TypeOK, TypeOK', ClusterMoves, NEW b \in Actor, CallInv(b), Undisturbed(b)
    PROVE  CallInv(b)'
<1> DEFINE c == call[b]
<1>t. /\ c.saw \in Nat /\ pod.nth \in Nat /\ pod'.nth \in Nat
      /\ Len(lineage) \in Nat /\ Len(lineage') \in Nat
  BY DEF TypeOK
<1>2. c.pc # "idle" => c.req \in Request /\ replicas' \in counts'[b]
  BY DEF CallInv, Undisturbed
<1> SUFFICES ASSUME c.pc = "write"
             PROVE  /\ ~c.req.dryRun
                    /\ c.req.action \in Deletions =>
                         /\ c.saw <= pod'.nth
                         /\ c.saw = pod'.nth /\ pod'.status # "gone" =>
                              Warranted(c.req.action, pod')
                    /\ c.req.action = "scale_deployment" =>
                         c.want \in Atomic!Wanted(c.req, counts'[b])
                    /\ c.req.action = "rollback_deployment" =>
                         /\ c.saw \in 2 .. Len(lineage')
                         /\ c.want = lineage'[c.saw - 1]
  BY <1>2 DEF CallInv, Undisturbed, Atomic!Wanted
<1>3. ~c.req.dryRun
  BY DEF CallInv
<1>4. ASSUME c.req.action \in Deletions
      PROVE  /\ c.saw <= pod'.nth
             /\ c.saw = pod'.nth /\ pod'.status # "gone" => Warranted(c.req.action, pod')
  <2>1. /\ c.saw <= pod.nth
        /\ c.saw = pod.nth /\ pod.status # "gone" => Warranted(c.req.action, pod)
    BY <1>4 DEF CallInv
  <2>2. pod'.nth >= pod.nth
    BY DEF ClusterMoves
  <2>3. c.saw <= pod'.nth
    BY <1>t, <2>1, <2>2
  <2>4. ASSUME c.saw = pod'.nth, pod'.status # "gone" PROVE Warranted(c.req.action, pod')
    <3>1. pod'.nth = pod.nth
      BY <1>t, <2>1, <2>2, <2>4
    <3> QED
      BY <1>4, <2>1, <2>4, <3>1 DEF ClusterMoves
  <2> QED
    BY <2>3, <2>4
<1>5. ASSUME c.req.action = "scale_deployment"
      PROVE  c.want \in Atomic!Wanted(c.req, counts'[b])
  <2>1. c.want \in Atomic!Wanted(c.req, counts[b]) /\ counts[b] \subseteq counts'[b]
    BY <1>5 DEF CallInv, Undisturbed
  <2> QED
    BY <2>1 DEF Atomic!Wanted
<1>6. ASSUME c.req.action = "rollback_deployment"
      PROVE  c.saw \in 2 .. Len(lineage') /\ c.want = lineage'[c.saw - 1]
  <2>1. c.saw \in 2 .. Len(lineage) /\ c.want = lineage[c.saw - 1]
    BY <1>6 DEF CallInv
  <2>2. c.saw - 1 \in 1 .. Len(lineage)
    BY <1>t, <2>1
  <2>3. c.saw \in 2 .. Len(lineage')
    BY <1>t, <2>1 DEF ClusterMoves
  <2> QED
    BY <2>1, <2>2, <2>3 DEF ClusterMoves
<1> QED
  BY <1>3, <1>4, <1>5, <1>6

\* One actor's step, the others' calls undisturbed.
LEMMA ActorStep ==
    ASSUME TypeOK, RevisionInv, CallsInv, NEW a \in Actor,
           \/ \E r \in Request : Call(a, r)
           \/ Reads(a) \/ Write(a) \/ Fails(a)
    PROVE  CallInv(a)' /\ \A b \in Actor : b # a => Undisturbed(b)
<1>t. /\ call \in [Actor -> CallRec] /\ counts \in [Actor -> SUBSET Nat] /\ replicas \in Nat
      /\ pod.nth \in Nat /\ Len(lineage) \in Nat
  BY DEF TypeOK, CallRec
<1>c. \A b \in Actor : call[b].pc # "idle" => call[b].req \in Request /\ replicas \in counts[b]
  BY DEF CallsInv, CallInv
<1>r. replicas' \in Nat
  BY CallTypes DEF TypeOK
<1>i. ASSUME NEW ok \in BOOLEAN, Answer(a, ok)
      PROVE  CallInv(a)' /\ \A b \in Actor : b # a => Undisturbed(b)
  <2>1. /\ call'[a].pc = "idle"
        /\ \A b \in Actor : b # a =>
             /\ call'[b] = call[b]
             /\ call[b].pc # "idle" => counts'[b] = counts[b] \cup {replicas'}
    BY <1>i, <1>r, AnswerFacts
  <2>2. CallInv(a)'
    BY <2>1 DEF CallInv
  <2>3. \A b \in Actor : b # a => Undisturbed(b)
    BY <2>1 DEF Undisturbed
  <2> QED
    BY <2>2, <2>3
<1>1. ASSUME NEW r \in Request, Call(a, r)
      PROVE  CallInv(a)' /\ \A b \in Actor : b # a => Undisturbed(b)
  <2>1. call'[a] = [NoCall EXCEPT !.pc = "read", !.req = r, !.ok = call[a].ok]
    BY <1>1, <1>t DEF Call
  <2>2. call'[a].pc = "read" /\ call'[a].req = r
    BY <2>1, NoCallType DEF CallRec
  <2>3. counts'[a] = {replicas} /\ replicas' = replicas
    BY <1>1, <1>t DEF Call, cluster
  <2>4. \A b \in Actor : b # a => call'[b] = call[b] /\ counts'[b] = counts[b]
    BY <1>1, <1>t DEF Call
  <2>5. CallInv(a)'
    BY <2>2, <2>3 DEF CallInv
  <2>6. \A b \in Actor : b # a => Undisturbed(b)
    BY <2>3, <2>4, <1>c DEF Undisturbed
  <2> QED
    BY <2>5, <2>6
<1>2. CASE Reads(a)
  <2>1. UNCHANGED <<pod, replicas, lineage>> /\ call[a].pc = "read" /\ call[a].req \in Request
    BY <1>2, <1>c, ReadFacts DEF cluster
  <2>2. ASSUME NEW want \in Nat, NEW saw \in Nat, UNCHANGED counts,
               ~call[a].req.dryRun, Wants(a, want, saw),
               call' = [call EXCEPT ![a].pc = "write", ![a].want = want, ![a].saw = saw]
        PROVE  CallInv(a)' /\ \A b \in Actor : b # a => Undisturbed(b)
    <3> DEFINE r == call[a].req
    <3>1. /\ call'[a] = [pc |-> "write", req |-> r, want |-> want, saw |-> saw,
                         ok |-> call[a].ok]
          /\ \A b \in Actor : b # a => call'[b] = call[b]
      BY <2>2, WriteFacts
    <3>2. call'[a].req = r /\ call'[a].want = want /\ call'[a].saw = saw
      BY <3>1
    <3>3. r.action \in Deletions =>
            saw = pod.nth /\ saw <= pod.nth /\ Warranted(r.action, pod)
      <4>1. ASSUME r.action \in Deletions PROVE saw = pod.nth /\ Deletable(r.action, pod)
        BY <2>2, <4>1, KindsOfAction DEF Wants
      <4>2. saw = pod.nth => saw <= pod.nth
        BY <1>t
      <4> QED
        BY <4>1, <4>2, DeletableIsWarranted
    <3>4. r.action = "scale_deployment" => want \in Atomic!Wanted(r, counts[a])
      <4> SUFFICES ASSUME r.action = "scale_deployment" PROVE want \in Atomic!Wanted(r, counts[a])
        OBVIOUS
      <4>1. /\ want \in 0 .. MaxReplicas
            /\ \/ r.mode = "replicas" /\ want = r.n
               \/ /\ r.mode = "delta" /\ r.n \in -MaxDelta .. MaxDelta
                  /\ want = replicas + r.n
        BY <2>2, KindsOfAction DEF Wants
      <4>2. r.mode = "delta" => want - r.n \in counts[a]
        <5>1. r.n \in Int /\ replicas \in counts[a]
          BY <2>1, <1>c, RequestAssumption
        <5>2. r.mode = "delta" => want - r.n = replicas
          BY <4>1, <5>1, <1>t
        <5> QED
          BY <5>1, <5>2
      <4> QED
        BY <4>1, <4>2 DEF Atomic!Wanted
    <3>5. r.action = "rollback_deployment" =>
            saw \in 2 .. Len(lineage) /\ want = lineage[saw - 1]
      BY <2>2, <1>t, KindsOfAction DEF Wants
    <3>6. CallInv(a)'
      BY <2>1, <2>2, <3>2, <3>3, <3>4, <3>5, <1>c DEF CallInv, Atomic!Wanted
    <3>7. \A b \in Actor : b # a => Undisturbed(b)
      BY <2>1, <2>2, <3>1, <1>c DEF Undisturbed
    <3> QED
      BY <3>6, <3>7
  <2>3. CASE Answer(a, TRUE) \/ Answer(a, FALSE)
    BY <2>3, <1>i
  <2> QED
    BY <1>2, <1>c, <2>2, <2>3, ReadFacts
<1>3. CASE Write(a)
  <2>1. PICK ok \in BOOLEAN : Answer(a, ok)
    BY <1>3 DEF Write
  <2> QED
    BY <2>1, <1>i
<1>4. CASE Fails(a)
  BY <1>4, <1>i DEF Fails
<1> QED
  BY <1>1, <1>2, <1>3, <1>4

\* Other users, the pod's owner and the controller disturb no call.
LEMMA ElsewhereStep ==
    ASSUME TypeOK, CallsInv, PodChanges \/ NameTakenAgain \/ SpecChanges \/ Settle,
           NEW b \in Actor
    PROVE  Undisturbed(b)
<1>c. call[b].pc # "idle" => replicas \in counts[b]
  BY DEF CallsInv, CallInv
<1>1. CASE PodChanges \/ NameTakenAgain \/ SpecChanges
  <2>1. Event
    BY <1>1 DEF PodChanges, NameTakenAgain, SpecChanges
  <2>2. call' = call /\ (call[b].pc # "idle" => counts'[b] = counts[b] \cup {replicas'})
    BY <2>1 DEF Event
  <2> QED
    BY <2>2 DEF Undisturbed
<1>2. CASE Settle
  BY <1>2, <1>c DEF Settle, Undisturbed
<1> QED
  BY <1>1, <1>2

Inv == TypeOK /\ RevisionInv /\ CallsInv

LEMMA InitInv == Init => Inv
<1> SUFFICES ASSUME Init PROVE Inv
  OBVIOUS
<1>1. \A a \in Actor : call[a].pc = "idle"
  BY NoCallType DEF Init
<1>2. CallsInv
  BY <1>1 DEF CallsInv, CallInv
<1> QED
  BY <1>2, InitTypeOK, InitRevisionInv DEF Inv

LEMMA NextInv == Inv /\ [Next]_vars => Inv'
<1> SUFFICES ASSUME Inv, [Next]_vars PROVE Inv'
  OBVIOUS
<1>i. TypeOK /\ RevisionInv /\ CallsInv
  BY DEF Inv
<1>m. ClusterMoves
  BY <1>i, NextMoves
<1>1. ASSUME NEW a \in Actor,
             \/ \E r \in Request : Call(a, r)
             \/ Reads(a) \/ Write(a) \/ Fails(a)
      PROVE  Inv'
  <2>1. TypeOK'
    BY <1>1, <1>i, CallTypes
  <2>2. UNCHANGED <<revision, lineage>>
    BY <1>1 DEF Call, Reads, ReadPod, ReadNode, ReadScale, ReadRollback, ReadOnly, Write,
                Fails, cluster
  <2>3. RevisionInv'
    BY <2>2, <1>i, NextRevisionInv
  <2>4. CallInv(a)' /\ \A b \in Actor : b # a => Undisturbed(b)
    BY <1>1, <1>i, ActorStep
  <2>5. \A b \in Actor : b # a => CallInv(b)'
    BY <2>1, <2>4, <1>i, <1>m, UndisturbedCall DEF CallsInv
  <2> QED
    BY <2>1, <2>3, <2>4, <2>5 DEF Inv, CallsInv
<1>2. CASE PodChanges \/ NameTakenAgain \/ SpecChanges \/ Settle
  <2>1. TypeOK'
    BY <1>2, <1>i, ElsewhereTypes
  <2>2. Settle \/ UNCHANGED <<revision, lineage>>
    BY <1>2 DEF PodChanges, NameTakenAgain, SpecChanges, Event
  <2>3. RevisionInv'
    BY <2>2, <1>i, NextRevisionInv
  <2>4. \A b \in Actor : Undisturbed(b)
    BY <1>2, <1>i, ElsewhereStep
  <2>5. \A b \in Actor : CallInv(b)'
    BY <2>1, <2>4, <1>i, <1>m, UndisturbedCall DEF CallsInv
  <2> QED
    BY <2>1, <2>3, <2>5 DEF Inv, CallsInv
<1>3. CASE UNCHANGED vars
  <2>1. TypeOK' /\ RevisionInv'
    BY <1>3, <1>i DEF vars, cluster, TypeOK, RevisionInv
  <2>2. \A b \in Actor : Undisturbed(b)
    BY <1>3, <1>i DEF vars, cluster, Undisturbed, CallsInv, CallInv
  <2>3. \A b \in Actor : CallInv(b)'
    BY <2>1, <2>2, <1>i, <1>m, UndisturbedCall DEF CallsInv
  <2> QED
    BY <2>1, <2>3 DEF Inv, CallsInv
<1> QED
  BY <1>1, <1>2, <1>3 DEF Next, Reads

LEMMA Invariant == Spec => []Inv
BY InitInv, NextInv, PTL DEF Spec

\* Type correctness of the cluster and of the calls on it.
THEOREM ClusterTypeCorrect == Spec => []TypeOK
<1>1. Inv => TypeOK
  BY DEF Inv
<1> QED
  BY <1>1, Invariant, PTL

-----------------------------------------------------------------------------
(* The promises.                                                           *)

\* What a step of the calls does to the actor's call.
LEMMA ReturnIsAStepOf ==
    ASSUME Inv, [Next]_vars, NEW a \in Actor, call[a].pc = "write", call'[a].pc = "idle"
    PROVE  \/ Write(a)
           \/ UNCHANGED cluster /\ call'[a].ok = FALSE
<1>i. TypeOK /\ RevisionInv /\ CallsInv /\ call \in [Actor -> CallRec]
  BY DEF Inv, TypeOK, CallRec
<1>1. call' # call
  BY DEF Inv
<1>2. ASSUME NEW b \in Actor, b # a,
             \/ \E r \in Request : Call(b, r)
             \/ Reads(b) \/ Write(b) \/ Fails(b)
      PROVE  FALSE
  BY <1>2, <1>i, ActorStep DEF Undisturbed
<1>3. CASE Fails(a)
  <2>1. UNCHANGED cluster /\ call' = [call EXCEPT ![a] = [NoCall EXCEPT !.ok = FALSE]]
    BY <1>3 DEF Fails, ReadOnly, Answer
  <2>2. call'[a].ok = FALSE
    BY <2>1, <1>i, NoCallType DEF CallRec
  <2> QED
    BY <2>1, <2>2
<1>4. ASSUME NEW r \in Request, Call(a, r) PROVE FALSE
  BY <1>4 DEF Call
<1>5. ASSUME Reads(a) PROVE FALSE
  BY <1>5 DEF Reads, ReadPod, ReadNode, ReadScale, ReadRollback, Asks
<1>6. ASSUME PodChanges \/ NameTakenAgain \/ SpecChanges \/ Settle PROVE FALSE
  BY <1>1, <1>6 DEF PodChanges, NameTakenAgain, SpecChanges, Settle, Event
<1> QED
  BY <1>1, <1>2, <1>3, <1>4, <1>5, <1>6 DEF Next, Reads, vars

\* A pod that an action deletes has ended, or is restarted by an owner that makes
\* another: the check holds at the delete although it is made in an earlier call,
\* unless the name has gone to another pod (the pod actions of remediation_actions).
THEOREM OnlyWarrantedDeletions == Spec => DeletionsAreWarranted
<1>1. ASSUME Inv, [Next]_vars, NEW a \in Actor, Deletes(a), pod.nth = call[a].saw
      PROVE  \/ pod.status \in Terminal
             \/ call[a].req.action \in Restarts
                /\ pod.owner \in {"ReplicaSet", "DaemonSet", "StatefulSet"}
  <2>1. Write(a) \/ UNCHANGED cluster
    BY <1>1, ReturnIsAStepOf DEF Deletes
  <2>2. pod' # pod
    BY <1>1 DEF Deletes
  <2>3. call[a].req.action \in Deletions
    BY <2>1, <2>2 DEF Write, cluster
  <2>4. Warranted(call[a].req.action, pod)
    BY <1>1, <2>3 DEF Deletes, Inv, CallsInv, CallInv
  <2> QED
    BY <2>4 DEF Warranted
<1>2. Inv /\ [Next]_vars =>
        [\A a \in Actor :
           Deletes(a) =>
              \/ pod.status \in Terminal
              \/ call[a].req.action \in Restarts
                 /\ pod.owner \in {"ReplicaSet", "DaemonSet", "StatefulSet"}
              \/ pod.nth # call[a].saw]_vars
  BY <1>1
<1> QED
  BY <1>2, Invariant, PTL DEF Spec, DeletionsAreWarranted

\* A rollback that answers "ok" brings back the template before the present one, also
\* when earlier rollbacks have renumbered the revisions (rollback_deployment takes the
\* second highest).
THEOREM RollbacksGoBack == Spec => RollbackGoesBack
<1>1. ASSUME Inv, [Next]_vars, NEW a \in Actor,
             call[a].pc = "write", call'[a].pc = "idle", call'[a].ok,
             call[a].req.action = "rollback_deployment",
             call[a].saw = Len(lineage)
      PROVE  Len(lineage) > 1 /\ template' = lineage[Len(lineage) - 1]
  <2>1. Write(a)
    BY <1>1, ReturnIsAStepOf
  <2>2. template' = call[a].want
    BY <1>1, <2>1, KindsOfAction DEF Write
  <2>3. call[a].saw \in 2 .. Len(lineage) /\ call[a].want = lineage[call[a].saw - 1]
    BY <1>1 DEF Inv, CallsInv, CallInv
  <2>4. Len(lineage) \in Nat
    BY <1>1 DEF Inv, TypeOK
  <2> QED
    BY <1>1, <2>2, <2>3, <2>4
<1>2. Inv /\ [Next]_vars =>
        [\A a \in Actor :
           LET n == Len(lineage)
           IN  /\ call[a].pc = "write" /\ call'[a].pc = "idle" /\ call'[a].ok
               /\ call[a].req.action = "rollback_deployment"
               /\ call[a].saw = n /\ template = lineage[n]
               => n > 1 /\ template' = lineage[n - 1]]_vars
  BY <1>1
<1> QED
  BY <1>2, Invariant, PTL DEF Spec, RollbackGoesBack

\* A caller's view of the calls: the request of an open one, the answer to the last.
Open == [a \in Actor |-> IF call[a].pc = "idle" THEN NoCall.req ELSE call[a].req]
Answered == [a \in Actor |-> call[a].ok]

LEMMA OpenFacts ==
    ASSUME Inv, NEW a \in Actor
    PROVE  /\ Open[a] = NoCall.req <=> call[a].pc = "idle"
           /\ call[a].pc # "idle" => Open[a] = call[a].req
BY NoCallIsNoRequest DEF Inv, CallsInv, CallInv, Open

\* A call that returns does so atomically for its caller, if what it leaves behind in
\* the cluster is what it was asked for, or nothing and "ok" is only said of a dry run.
LEMMA AnswerReturns ==
    ASSUME Inv, Inv', NEW a \in Actor, NEW ok \in BOOLEAN, Answer(a, ok), call[a].pc # "idle",
           \/ /\ Atomic!TakesEffect(a)
              /\ call[a].req.dryRun => UNCHANGED <<cordoned, replicas>>
           \/ UNCHANGED <<cordoned, replicas>> /\ (ok => call[a].req.dryRun)
    PROVE  Atomic!Return(a)
<1>1. TypeOK /\ replicas' \in Nat
  BY DEF Inv, TypeOK
<1>2. /\ call'[a].pc = "idle" /\ call'[a].ok = ok
      /\ \A b \in Actor : b # a => call'[b] = call[b]
  BY <1>1, AnswerFacts
<1>3. Open[a] = call[a].req /\ Open[a] # NoCall.req
  BY OpenFacts
<1>4. Open' = [Open EXCEPT ![a] = NoCall.req]
  BY <1>2 DEF Open
<1>5. Answered' = [Answered EXCEPT ![a] = ok] /\ Answered'[a] = ok
  BY <1>2 DEF Answered
<1>6. counts' = [b \in Actor |-> IF b # a /\ Open[b] # NoCall.req
                                  THEN counts[b] \cup {replicas'} ELSE {}]
  BY OpenFacts DEF Answer
<1> QED
  BY <1>3, <1>4, <1>5, <1>6 DEF Atomic!Return, Open, Answered

LEMMA AtomicStarts == Init => Atomic!Init
<1> SUFFICES ASSUME Init PROVE Atomic!Init
  OBVIOUS
<1>1. \A a \in Actor : call[a].pc = "idle" /\ call[a].ok = FALSE
  BY DEF Init, NoCall
<1>2. Open = [a \in Actor |-> NoCall.req] /\ Answered = [a \in Actor |-> FALSE]
  BY <1>1 DEF Open, Answered
<1> QED
  BY <1>2 DEF Init, Atomic!Init, Open, Answered

LEMMA AtomicSteps == Inv /\ Inv' /\ [Next]_vars => [Atomic!Next]_(Atomic!vars)
<1> SUFFICES ASSUME Inv, Inv', [Next]_vars PROVE [Atomic!Next]_(Atomic!vars)
  OBVIOUS
<1>i. /\ TypeOK /\ RevisionInv /\ CallsInv /\ call \in [Actor -> CallRec]
      /\ \A a \in Actor : call[a].pc # "idle" => call[a].req \in Request /\ replicas \in counts[a]
  BY DEF Inv, TypeOK, CallRec, CallsInv, CallInv
<1>t. replicas \in Nat /\ replicas' \in Nat /\ cordoned \in BOOLEAN /\ cordoned' \in BOOLEAN
  BY DEF Inv, TypeOK
<1> DEFINE Goal == [Atomic!Next]_(Atomic!vars)
<1>r. ASSUME NEW a \in Actor, Atomic!Return(a) PROVE Goal
  BY <1>r DEF Atomic!Next
\* Steps that no caller can see.
<1>q. ASSUME UNCHANGED <<cordoned, replicas, counts>>,
             \A a \in Actor : /\ call'[a].ok = call[a].ok /\ call'[a].req = call[a].req
                              /\ call'[a].pc = "idle" <=> call[a].pc = "idle"
      PROVE  Goal
  BY <1>q DEF Atomic!vars
\* What the read returns: nothing, or a dry run's "ok".
<1>n. ASSUME NEW a \in Actor, NEW ok \in BOOLEAN, Answer(a, ok), call[a].pc # "idle",
             UNCHANGED <<cordoned, replicas>>, ok => call[a].req.dryRun
      PROVE  Goal
  BY <1>n, <1>r, AnswerReturns
\* What goes on to write is not to be seen yet.
<1>g. ASSUME NEW a \in Actor, NEW want \in Nat, NEW saw \in Nat, UNCHANGED counts,
             UNCHANGED <<cordoned, replicas>>, call[a].pc = "read",
             call' = [call EXCEPT ![a].pc = "write", ![a].want = want, ![a].saw = saw]
      PROVE  Goal
  <2>1. /\ call'[a] = [pc |-> "write", req |-> call[a].req, want |-> want, saw |-> saw,
                       ok |-> call[a].ok]
        /\ \A b \in Actor : b # a => call'[b] = call[b]
    BY <1>g, <1>i, WriteFacts
  <2>2. /\ call'[a].ok = call[a].ok /\ call'[a].req = call[a].req
        /\ call'[a].pc = "write"
    BY <2>1
  <2> QED
    BY <1>g, <1>q, <2>1, <2>2
<1>w. ASSUME NEW a \in Actor, NEW want, NEW saw,
             call' = [call EXCEPT ![a].pc = "write", ![a].want = want, ![a].saw = saw]
      PROVE  call'[a].pc = "write"
  BY <1>w, <1>i DEF CallRec
<1>1. ASSUME NEW a \in Actor, NEW r \in Request, Call(a, r) PROVE Goal
  <2>1. /\ call'[a].pc = "read" /\ call'[a].req = r /\ call'[a].ok = call[a].ok
        /\ \A b \in Actor : b # a => call'[b] = call[b]
    <3>1. call' = [call EXCEPT ![a] = [NoCall EXCEPT !.pc = "read", !.req = r, !.ok = call[a].ok]]
      BY <1>1 DEF Call
    <3> QED
      BY <3>1, <1>i, NoCallType DEF CallRec
  <2>2. /\ UNCHANGED <<cordoned, replicas>> /\ counts' = [counts EXCEPT ![a] = {replicas}]
        /\ call[a].pc = "idle"
    BY <1>1 DEF Call, cluster
  <2>3. Open[a] = NoCall.req /\ Open' = [Open EXCEPT ![a] = r] /\ Answered' = Answered
    BY <2>1, <2>2 DEF Open, Answered
  <2>4. Atomic!Begin(a, r)
    BY <2>2, <2>3 DEF Atomic!Begin, Open, Answered
  <2> QED
    BY <2>4 DEF Atomic!Next
<1>2. ASSUME NEW a \in Actor, Reads(a) PROVE Goal
  <2> DEFINE r == call[a].req
  <2>1. /\ UNCHANGED <<cordoned, replicas>> /\ call[a].pc = "read" /\ r \in Request
        /\ \/ Answer(a, TRUE) \/ Answer(a, FALSE)
           \/ \E want, saw \in Nat :
                /\ ~r.dryRun /\ Wants(a, want, saw)
                /\ call' = [call EXCEPT ![a].pc = "write", ![a].want = want, ![a].saw = saw]
                /\ UNCHANGED counts
    BY <1>2, <1>i, ReadFacts DEF cluster
  <2>2. CASE Answer(a, FALSE)
    BY <2>1, <2>2, <1>n
  <2>3. CASE Answer(a, TRUE) /\ r.dryRun
    BY <2>1, <2>3, <1>n
  <2>4. CASE Answer(a, TRUE) /\ ~r.dryRun
    <3>0. call'[a].pc = "idle" /\ call'[a].ok = TRUE
      BY <2>4, <1>i, <1>t, AnswerFacts
    <3>1. CASE ReadNode(a)
      <4>1. r.action \in NodeActions /\ cordoned = (r.action = "cordon_node")
        <5>1. r.action \in NodeActions
          BY <3>1 DEF ReadNode, Asks
        <5>2. ASSUME ~(cordoned = (r.action = "cordon_node")) PROVE FALSE
          <6>1. GoOn(a, 0, 0)
            BY <3>1, <5>2 DEF ReadNode
          <6>2. call' = [call EXCEPT ![a].pc = "write", ![a].want = 0, ![a].saw = 0]
            BY <2>4, <6>1 DEF GoOn
          <6>3. call'[a].pc = "write"
            BY <6>2, <1>w
          <6> QED
            BY <3>0, <6>3
        <5> QED
          BY <5>1, <5>2
      <4>2. Open[a].action = r.action
        BY <2>1, OpenFacts
      <4>3. Atomic!TakesEffect(a)
        BY <2>1, <4>1, <4>2, <1>t, KindsOfAction DEF Atomic!TakesEffect, Open
      <4> QED
        BY <2>1, <2>4, <4>3, <1>r, AnswerReturns
    <3>2. CASE ReadScale(a)
      <4> DEFINE target == IF r.mode = "delta" THEN replicas + r.n ELSE r.n
      <4>1. r.n \in Int /\ replicas \in counts[a]
        BY <2>1, <1>i, RequestAssumption
      <4>2. /\ r.action = "scale_deployment" /\ r.mode \in {"replicas", "delta"}
            /\ ~(r.mode = "delta" /\ Abs(r.n) > MaxDelta)
            /\ InScaleRange(target) /\ target = replicas
        <5>2. ASSUME Answer(a, FALSE) PROVE FALSE
          <6>1. call'[a].ok = FALSE
            BY <5>2, <1>i, <1>t, AnswerFacts
          <6> QED
            BY <3>0, <6>1
        <5>3. ASSUME GoOn(a, target, 0), ~(target = replicas), InScaleRange(target) PROVE FALSE
          <6>1. PICK want \in Nat : want = target
            BY <5>3, ScaleAssumption DEF InScaleRange
          <6>2. call' = [call EXCEPT ![a].pc = "write", ![a].want = want, ![a].saw = 0]
            BY <2>4, <5>3, <6>1 DEF GoOn
          <6>3. call'[a].pc = "write"
            BY <6>2, <1>w
          <6> QED
            BY <3>0, <6>3
        <5>4. r.action = "scale_deployment"
          BY <3>2 DEF ReadScale, Asks
        <5>5. \/ Answer(a, FALSE)
              \/ /\ r.mode \in {"replicas", "delta"}
                 /\ ~(r.mode = "delta" /\ Abs(r.n) > MaxDelta) /\ InScaleRange(target)
                 /\ target = replicas \/ GoOn(a, target, 0)
          BY <3>2 DEF ReadScale
        <5> QED
          BY <5>2, <5>3, <5>4, <5>5
      <4>3. r.mode = "delta" => r.n \in -MaxDelta .. MaxDelta /\ replicas - r.n \in counts[a]
        <5>1. r.mode = "delta" => r.n = 0
          BY <4>1, <4>2, <1>t
        <5>2. 0 \in -MaxDelta .. MaxDelta /\ replicas - 0 = replicas
          BY <1>t, ScaleAssumption
        <5> QED
          BY <4>1, <5>1, <5>2
      <4>4. replicas \in Atomic!Wanted(r, counts[a])
        BY <4>2, <4>3 DEF Atomic!Wanted, InScaleRange
      <4>5. Open[a] = r
        BY <2>1, OpenFacts
      <4>6. Atomic!TakesEffect(a)
        BY <2>1, <4>2, <4>4, <4>5 DEF Atomic!TakesEffect, Open, Atomic!Wanted
      <4> QED
        BY <2>1, <2>4, <4>6, <1>r, AnswerReturns
    <3>3. CASE ReadPod(a) \/ ReadRollback(a)
      <4>2. r.action \in Deletions \cup {"rollback_deployment"}
        BY <3>3 DEF ReadPod, ReadRollback, Asks
      <4>3. Open[a].action = r.action
        BY <2>1, OpenFacts
      <4>4. Atomic!TakesEffect(a)
        BY <2>1, <4>2, <4>3, KindsOfAction DEF Atomic!TakesEffect, Open
      <4> QED
        BY <2>1, <2>4, <4>4, <1>r, AnswerReturns
    <3> QED
      BY <1>2, <3>1, <3>2, <3>3 DEF Reads
  <2>5. CASE \E want, saw \in Nat :
               /\ ~r.dryRun /\ Wants(a, want, saw)
               /\ call' = [call EXCEPT ![a].pc = "write", ![a].want = want, ![a].saw = saw]
               /\ UNCHANGED counts
    BY <2>1, <2>5, <1>g
  <2> QED
    BY <2>1, <2>2, <2>3, <2>4, <2>5
<1>3. ASSUME NEW a \in Actor, Write(a) PROVE Goal
  <2> DEFINE r == call[a].req
  <2>1. PICK ok \in BOOLEAN : Answer(a, ok)
    BY <1>3 DEF Write
  <2>2. call[a].pc = "write" /\ ~r.dryRun /\ Open[a] = r
    BY <1>3, <1>i, OpenFacts DEF Write, CallsInv, CallInv
  <2>3. Atomic!TakesEffect(a)
    <3>1. CASE r.action \in Deletions \cup {"rollback_deployment"}
      <4>1. UNCHANGED <<cordoned, replicas>>
        BY <1>3, <3>1, KindsOfAction DEF Write
      <4> QED
        BY <2>2, <3>1, <4>1, KindsOfAction DEF Atomic!TakesEffect, Open
    <3>2. CASE r.action \in NodeActions
      <4>1. cordoned' = (r.action = "cordon_node") /\ UNCHANGED replicas
        BY <1>3, <3>2, KindsOfAction DEF Write
      <4> QED
        BY <2>2, <3>2, <4>1, KindsOfAction DEF Atomic!TakesEffect, Open
    <3>3. CASE r.action = "scale_deployment"
      <4>1. replicas' = call[a].want /\ UNCHANGED cordoned
        BY <1>3, <3>3, KindsOfAction DEF Write
      <4>2. call[a].want \in Atomic!Wanted(r, counts[a])
        BY <2>2, <3>3, <1>i DEF CallsInv, CallInv
      <4> QED
        BY <2>2, <3>3, <4>1, <4>2 DEF Atomic!TakesEffect, Open, Atomic!Wanted
    <3> QED
      BY <1>3, <3>1, <3>2, <3>3 DEF Write
  <2> QED
    BY <2>1, <2>2, <2>3, <1>r, AnswerReturns
<1>4. ASSUME NEW a \in Actor, Fails(a) PROVE Goal
  <2>1. UNCHANGED <<cordoned, replicas>> /\ call[a].pc # "idle" /\ Answer(a, FALSE)
    BY <1>4 DEF Fails, ReadOnly, cluster
  <2> QED
    BY <2>1, <1>n
<1>5. CASE PodChanges \/ NameTakenAgain \/ SpecChanges
  <2>1. Event
    BY <1>5 DEF PodChanges, NameTakenAgain, SpecChanges
  <2>2. call' = call
    BY <2>1 DEF Event
  <2>3. counts' = [a \in Actor |->
                    IF Open[a] # NoCall.req THEN counts[a] \cup {replicas'} ELSE {}]
    BY <2>1, OpenFacts DEF Event
  <2>4. Atomic!Elsewhere
    BY <2>2, <2>3, <1>t DEF Atomic!Elsewhere, Open
  <2> QED
    BY <2>4 DEF Atomic!Next
<1>6. CASE Settle
  BY <1>6, <1>q DEF Settle
<1>7. CASE UNCHANGED vars
  BY <1>7, <1>q DEF vars, cluster
<1> QED
  BY <1>1, <1>2, <1>3, <1>4, <1>5, <1>6, <1>7 DEF Next, Reads

\* The two calls of an action look like one to its callers: an "ok" means that the
\* node is marked, or the count set, at one instant between the call and its answer,
\* whoever else works on the cluster; only the count a relative scaling starts from
\* may be an old one (the node and deployment actions of remediation_actions).
THEOREM ActionsAreAtomic == Spec => ImplementsAtomic
BY Invariant, AtomicStarts, AtomicSteps, PTL
   DEF Spec, ImplementsAtomic, Atomic!AtomicSpec
=============================================================================
