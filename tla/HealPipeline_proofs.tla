------------------------ MODULE HealPipeline_proofs ------------------------
(***************************************************************************)
(* Proofs about HealPipeline, for every set of alerts and of proposals,    *)
(* every setting, any number of retries, and databases that fail or not.   *)
(***************************************************************************)
EXTENDS HealPipeline, FiniteSetTheorems, TLAPS

\* The fields of an AlertState, and which of them the steps below look at.
IsState(s) ==
    s = [pc |-> s.pc, alert |-> s.alert, diagnosed |-> s.diagnosed,
         fromMemory |-> s.fromMemory, sound |-> s.sound, futile |-> s.futile,
         confident |-> s.confident, plan |-> s.plan, failedPlan |-> s.failedPlan,
         decision |-> s.decision, execution |-> s.execution, verdict |-> s.verdict]

Node == {"idle", "investigate", "remediate", "gate", "execute", "validate", "notify"}

StateInv ==
    /\ IsState(st)
    /\ st.pc \in Node
    /\ st.pc # "idle" => st.alert \in Alert
    /\ st.diagnosed \in Nat
    /\ st.fromMemory \in BOOLEAN /\ st.futile \in BOOLEAN
    /\ env \in Environment
    /\ now \in Nat
    /\ memory = [f \in Fault |-> memory[f]]

LEMMA FreshState ==
    /\ IsState(Fresh) /\ Fresh.pc = "idle" /\ Fresh.diagnosed = 0
    /\ ~Fresh.fromMemory /\ Fresh.fromMemory \in BOOLEAN /\ Fresh.futile \in BOOLEAN
BY DEF Fresh, IsState

LEMMA InitState == Init => StateInv
<1> SUFFICES ASSUME Init PROVE StateInv
  OBVIOUS
<1>1. memory = [f \in Fault |-> memory[f]]
  BY DEF Init
<1>2. IsState(st)
  BY FreshState DEF Init
<1> QED
  BY <1>1, <1>2, FreshState DEF Init, StateInv, Node

LEMMA NextState == StateInv /\ [Next]_pipelineVars => StateInv'
<1> SUFFICES ASSUME StateInv, [Next]_pipelineVars PROVE StateInv'
  OBVIOUS
<1> DEFINE Same == env' = env /\ now' = now /\ memory' = memory
<1>2. CASE Tick
  BY <1>2 DEF Tick, StateInv
<1>3. CASE \E a \in Alert : TakeUp(a)
  <2>1. PICK a \in Alert, pc \in {"investigate", "notify"} :
           Same /\ st' = [Fresh EXCEPT !.pc = pc, !.alert = a]
    BY <1>3 DEF TakeUp
  <2> QED
    BY <2>1 DEF Fresh, StateInv, Node, IsState
<1>4. CASE Recall
  BY <1>4 DEF Recall, StateInv, Node, IsState
<1>5. CASE Diagnose
  <2>1. PICK futile, sound, confident \in BOOLEAN :
           /\ st' = [st EXCEPT !.pc = "remediate", !.diagnosed = @ + 1, !.sound = sound,
                               !.futile = futile, !.confident = confident]
           /\ Same /\ st.pc = "investigate"
    BY <1>5 DEF Diagnose
  <2>2. st'.diagnosed = st.diagnosed + 1 /\ st'.diagnosed \in Nat
    BY <2>1 DEF StateInv, IsState
  <2>3. IsState(st')
    BY <2>1 DEF StateInv, IsState
  <2>4. st'.futile \in BOOLEAN /\ st'.pc = "remediate" /\ st'.alert = st.alert
        /\ st'.fromMemory = st.fromMemory
    BY <2>1 DEF StateInv, IsState
  <2> QED
    BY <2>1, <2>2, <2>3, <2>4 DEF StateInv, Node
<1>6. CASE Remediate
  <2>1. PICK plan : st' = [st EXCEPT !.pc = "gate", !.plan = plan] /\ Same
                    /\ st.pc = "remediate"
    BY <1>6 DEF Remediate
  <2> QED
    BY <2>1 DEF StateInv, Node, IsState
<1>7. CASE Gate
  <2>1. PICK pc \in {"notify", "execute"} : \E decision :
           st' = [st EXCEPT !.pc = pc, !.decision = decision] /\ Same /\ st.pc = "gate"
    BY <1>7, Zenon DEF Gate
  <2> QED
    BY <2>1 DEF StateInv, Node, IsState
<1>8. CASE Execute
  <2>1. PICK status : st' = [st EXCEPT !.pc = "validate", !.execution = status] /\ Same
                      /\ st.pc = "execute"
    BY <1>8, Zenon DEF Execute
  <2> QED
    BY <2>1 DEF StateInv, Node, IsState
<1>9. CASE ValidateNothing
  BY <1>9 DEF ValidateNothing, Route, StateInv, Node, IsState
<1>10. CASE ValidateSync
  <2>1. PICK v \in Findings[st.plan.action] :
           st' = [st EXCEPT !.pc = Route(v.verdict), !.verdict = v.verdict,
                            !.failedPlan = IF v.verdict = "failed" /\ ~v.early
                                           THEN st.plan ELSE @]
    BY <1>10 DEF ValidateSync
  <2>5. st.pc = "validate" /\ env' = env /\ now' = now
    BY <1>10 DEF ValidateSync
  <2>2. Route(v.verdict) \in {"investigate", "notify"}
    BY DEF Route
  <2>3. PICK entry : memory' \in {memory, [memory EXCEPT ![st.alert.fault] = entry]}
    BY <1>10, Zenon DEF ValidateSync
  <2>4. memory' = [f \in Fault |-> memory'[f]]
    BY <2>3 DEF StateInv
  <2> QED
    BY <2>1, <2>2, <2>4, <2>5 DEF StateInv, Node, IsState
<1>11. CASE ValidateAsync
  <2>1. PICK verdict : st' = [st EXCEPT !.pc = Route(verdict), !.verdict = verdict]
                       /\ Same /\ st.pc = "validate"
    BY <1>11, Zenon DEF ValidateAsync
  <2> QED
    BY <2>1 DEF Route, StateInv, Node, IsState
<1>12. CASE Notify \/ Abandon
  <2>1. st' = Fresh /\ Same
    BY <1>12 DEF Notify, Abandon
  <2>2. IsState(st')
    BY <2>1, FreshState
  <2> QED
    BY <2>1, <2>2, FreshState DEF StateInv, Node
<1>13. CASE WorkerCloses
  BY <1>13 DEF WorkerCloses, StateInv
<1>14. CASE UNCHANGED pipelineVars
  BY <1>14 DEF pipelineVars, StateInv
<1> QED
  BY <1>2, <1>3, <1>4, <1>5, <1>6, <1>7, <1>8, <1>9, <1>10, <1>11, <1>12, <1>13, <1>14
     DEF Next, Agent

-----------------------------------------------------------------------------
\* Why BoundedRuns is inductive.  A round is a diagnosis, and executes once at most;
\* the way back to the Investigator is open only as long as there are diagnoses left.
Rounds == IF MaxRetries > 1 THEN MaxRetries ELSE 1

LoopInv ==
    /\ runs \in Nat /\ runs <= Rounds /\ st.diagnosed <= Rounds
    /\ st.pc = "investigate" => runs <= st.diagnosed /\ st.diagnosed < Rounds
    /\ st.pc \in {"remediate", "gate", "execute"} => runs < st.diagnosed
    /\ st.pc \in {"validate", "notify"} => runs <= st.diagnosed

\* An execution strikes once or not at all, and not in a dry run.
LEMMA Strikes ==
    ASSUME NEW action, NEW owner, NEW outcome \in Outcomes(action, owner)
    PROVE  outcome.strikes \in {0, 1} /\ (outcome.strikes = 1 => ~env.dryRun)
BY DEF Outcomes

\* What executor_node does: the alert goes on to the Validator, and the plan's action
\* strikes once or not at all.
LEMMA ExecuteStep ==
    ASSUME Execute
    PROVE  \E strikes \in {0, 1} : \E status :
             /\ st' = [st EXCEPT !.pc = "validate", !.execution = status]
             /\ runs' = runs + strikes
             /\ effects' = [effects EXCEPT ![KeyOf(st.plan)] = @ + strikes]
             /\ strikes = 1 => ~env.dryRun /\ env.heal
<1>1. CASE st.plan.action \notin L3Actions
  <2>1. PICK outcome : outcome = [status |-> "rejected", strikes |-> 0]
           /\ st' = [st EXCEPT !.pc = "validate", !.execution = outcome.status]
           /\ runs' = runs + outcome.strikes
           /\ effects' = [effects EXCEPT ![KeyOf(st.plan)] = @ + outcome.strikes]
    BY <1>1 DEF Execute
  <2>2. outcome.strikes = 0
    BY <2>1
  <2>3. outcome.strikes \in {0, 1} /\ outcome.strikes # 1
    BY <2>2
  <2> QED
    BY <2>1, <2>3, Zenon
<1>2. CASE st.plan.action \in L3Actions /\ ~env.heal
  <2>1. PICK outcome : outcome = [status |-> "skipped", strikes |-> 0]
           /\ st' = [st EXCEPT !.pc = "validate", !.execution = outcome.status]
           /\ runs' = runs + outcome.strikes
           /\ effects' = [effects EXCEPT ![KeyOf(st.plan)] = @ + outcome.strikes]
    BY <1>2 DEF Execute
  <2>2. outcome.strikes = 0
    BY <2>1
  <2>3. outcome.strikes \in {0, 1} /\ outcome.strikes # 1
    BY <2>2
  <2> QED
    BY <2>1, <2>3, Zenon
<1>3. CASE st.plan.action \in L3Actions /\ env.heal
  <2>1. PICK outcome \in Outcomes(st.plan.action, st.alert.owner) :
           /\ st' = [st EXCEPT !.pc = "validate", !.execution = outcome.status]
           /\ runs' = runs + outcome.strikes
           /\ effects' = [effects EXCEPT ![KeyOf(st.plan)] = @ + outcome.strikes]
    BY <1>3 DEF Execute
  <2>2. outcome.strikes \in {0, 1} /\ (outcome.strikes = 1 => ~env.dryRun)
    BY Strikes
  <2> QED
    BY <1>3, <2>1, <2>2, Zenon
<1> QED
  BY <1>1, <1>2, <1>3

\* Where the Validator sends the alert, and what it leaves alone.
LEMMA RouteStep ==
    ASSUME IsState(st), ValidateNothing \/ ValidateSync \/ ValidateAsync
    PROVE  /\ st.pc = "validate" /\ env' = env /\ granted' = granted
           /\ runs' = runs /\ effects' = effects
           /\ \A field \in {"alert", "diagnosed", "fromMemory", "futile", "plan"} :
                st'[field] = st[field]
           /\ st'.pc = "notify" \/ (st'.pc = "investigate" /\ st.diagnosed < MaxRetries)
<1> DEFINE Field == {"alert", "diagnosed", "fromMemory", "futile", "plan"}
<1>1. /\ st.pc = "validate" /\ env' = env /\ granted' = granted
      /\ runs' = runs /\ effects' = effects
  BY DEF ValidateNothing, ValidateSync, ValidateAsync, history
<1>2. PICK verdict, failed :
         \/ st' = [st EXCEPT !.pc = Route(verdict), !.verdict = verdict]
         \/ st' = [st EXCEPT !.pc = Route(verdict), !.verdict = verdict,
                             !.failedPlan = failed]
  <2>1. CASE ValidateSync
    <3>1. PICK v \in Findings[st.plan.action] :
             st' = [st EXCEPT !.pc = Route(v.verdict), !.verdict = v.verdict,
                              !.failedPlan = IF v.verdict = "failed" /\ ~v.early
                                             THEN st.plan ELSE @]
      BY <2>1 DEF ValidateSync
    <3> QED
      BY <3>1
  <2>2. CASE ValidateNothing \/ ValidateAsync
    BY <2>2, Zenon DEF ValidateNothing, ValidateAsync
  <2> QED
    BY <2>1, <2>2
<1>3. st'.pc = Route(verdict) /\ \A field \in Field : st'[field] = st[field]
  BY <1>2 DEF IsState
<1> QED
  BY <1>1, <1>3 DEF Route

LEMMA InitLoop == Init => LoopInv
<1>1. Rounds \in Nat /\ 0 <= Rounds
  BY RetriesAssumption DEF Rounds
<1> QED
  BY <1>1, FreshState DEF Init, LoopInv

LEMMA NextLoop == StateInv /\ StateInv' /\ LoopInv /\ [Next]_pipelineVars => LoopInv'
<1> SUFFICES ASSUME StateInv, LoopInv, [Next]_pipelineVars PROVE LoopInv'
  OBVIOUS
<1>1. /\ st.diagnosed \in Nat /\ runs \in Nat /\ Rounds \in Nat /\ Rounds >= 1
      /\ IsState(st)
  BY RetriesAssumption DEF StateInv, LoopInv, Rounds
<1>2. CASE Tick \/ WorkerCloses \/ UNCHANGED pipelineVars
  BY <1>2 DEF Tick, WorkerCloses, pipelineVars, history, LoopInv
<1>3. CASE \E a \in Alert : TakeUp(a)
  BY <1>1, <1>3 DEF TakeUp, Fresh, LoopInv
<1>4. CASE Recall \/ Diagnose
  <2>1. /\ st.pc = "investigate" /\ st'.pc = "remediate" /\ runs' = runs
        /\ st'.diagnosed = st.diagnosed + 1
    <3>1. CASE Recall
      BY <1>1, <3>1 DEF Recall, history, IsState, LoopInv
    <3>2. CASE Diagnose
      BY <1>1, <3>2 DEF Diagnose, history, IsState
    <3> QED
      BY <1>4, <3>1, <3>2
  <2> QED
    BY <1>1, <2>1 DEF LoopInv
<1>5. CASE Remediate \/ Gate
  <2>1. /\ st.pc \in {"remediate", "gate"} /\ st'.pc \in {"gate", "execute", "notify"}
        /\ runs' = runs /\ st'.diagnosed = st.diagnosed
    BY <1>1, <1>5 DEF Remediate, Gate, history, IsState
  <2> QED
    BY <1>1, <2>1 DEF LoopInv
<1>6. CASE Execute
  <2>1. PICK strikes \in {0, 1} : runs' = runs + strikes /\ st'.pc = "validate"
                                /\ st'.diagnosed = st.diagnosed
    BY <1>1, <1>6, ExecuteStep DEF IsState
  <2>2. st.pc = "execute"
    BY <1>6 DEF Execute
  <2> QED
    BY <1>1, <2>1, <2>2 DEF LoopInv
<1>7. CASE ValidateNothing \/ ValidateSync \/ ValidateAsync
  <2>1. /\ st.pc = "validate" /\ runs' = runs /\ st'.diagnosed = st.diagnosed
        /\ st'.pc = "notify" \/ (st'.pc = "investigate" /\ st.diagnosed < MaxRetries)
    BY <1>1, <1>7, RouteStep DEF IsState
  <2> QED
    BY <1>1, <2>1, RetriesAssumption DEF LoopInv, Rounds
<1>8. CASE Notify \/ Abandon
  <2>1. st'.pc = "idle" /\ st'.diagnosed = 0 /\ runs' = runs
    BY <1>8, FreshState DEF Notify, Abandon, history
  <2> QED
    BY <1>1, <2>1 DEF LoopInv
<1> QED
  BY <1>2, <1>3, <1>4, <1>5, <1>6, <1>7, <1>8 DEF Next, Agent

\* For one alert nothing is executed more often than SELF_HEAL_MAX_RETRIES allows
\* diagnoses, whatever models, cluster and memory answer and wherever the process is
\* restarted (_route_after_validator).
THEOREM RetriesAreBounded == Spec => []BoundedRuns
<1>1. LoopInv => BoundedRuns
  BY DEF LoopInv, BoundedRuns, Rounds
<1> QED
  BY <1>1, InitState, NextState, InitLoop, NextLoop, PTL DEF Spec

-----------------------------------------------------------------------------
\* Why EffectsArePaid is inductive.  A grant is spent at once: the plan that is let
\* through to the Executor has one that no execution has used.  The records of a key are
\* numbered, so that a new one is no old one.
Of(G, k) == {g \in G : g.key = k}

Numbered(G) ==
    /\ IsFiniteSet(G)
    /\ \A g \in G : g.id \in Nat /\ g.id <= Cardinality(Of(G, g.key))

Owed(k) == IF st.pc = "execute" /\ KeyOf(st.plan) = k THEN 1 ELSE 0

PaidInv ==
    /\ Numbered(granted)
    /\ effects \in [Key -> Nat]
    /\ \A k \in Key : effects[k] + Owed(k) <= Cardinality(Of(granted, k))

LEMMA OneMoreGrant ==
    ASSUME NEW G, Numbered(G), NEW k, NEW r, r.key = k, r.id = Cardinality(Of(G, k)) + 1
    PROVE  /\ Numbered(G \cup {r})
           /\ Cardinality(Of(G \cup {r}, k)) = Cardinality(Of(G, k)) + 1
           /\ \A l : l # k => Of(G \cup {r}, l) = Of(G, l)
<1>1. \A l : IsFiniteSet(Of(G, l)) /\ Cardinality(Of(G, l)) \in Nat
  <2> TAKE l
  <2>1. IsFiniteSet(Of(G, l))
    BY FS_Subset DEF Of, Numbered
  <2> QED
    BY <2>1, FS_CardinalityType
<1>2. r \notin Of(G, k)
  <2> SUFFICES ASSUME r \in Of(G, k) PROVE FALSE
    OBVIOUS
  <2>1. r.id <= Cardinality(Of(G, k))
    BY DEF Of, Numbered
  <2> QED
    BY <1>1, <2>1
<1>3. Of(G \cup {r}, k) = Of(G, k) \cup {r}
  BY DEF Of
<1>4. Cardinality(Of(G \cup {r}, k)) = Cardinality(Of(G, k)) + 1
  BY <1>1, <1>2, <1>3, FS_AddElement
<1>5. \A l : l # k => Of(G \cup {r}, l) = Of(G, l)
  BY DEF Of
<1>6. IsFiniteSet(G \cup {r})
  BY FS_AddElement DEF Numbered
<1>7. ASSUME NEW g \in G \cup {r}
      PROVE  g.id \in Nat /\ g.id <= Cardinality(Of(G \cup {r}, g.key))
  <2>1. CASE g = r
    BY <1>1, <1>4, <2>1
  <2>2. CASE g # r
    <3>1. g.id \in Nat /\ g.id <= Cardinality(Of(G, g.key))
      BY <2>2 DEF Numbered
    <3>2. CASE g.key = k
      BY <1>1, <1>4, <3>1, <3>2
    <3>3. CASE g.key # k
      BY <1>5, <3>1, <3>3
    <3> QED
      BY <3>2, <3>3
  <2> QED
    BY <2>1, <2>2
<1> QED
  BY <1>4, <1>5, <1>6, <1>7 DEF Numbered

LEMMA InitPaid == Init => PaidInv
<1> SUFFICES ASSUME Init PROVE PaidInv
  OBVIOUS
<1>1. granted = {} /\ effects = [k \in Key |-> 0] /\ st.pc = "idle"
  BY FreshState DEF Init
<1>2. IsFiniteSet(granted) /\ Cardinality({}) = 0
  BY <1>1, FS_EmptySet
<1>3. \A k : Of(granted, k) = {}
  BY <1>1 DEF Of
<1> QED
  BY <1>1, <1>2, <1>3 DEF PaidInv, Numbered, Owed

LEMMA NextPaid == StateInv /\ PaidInv /\ [Next]_pipelineVars => PaidInv'
<1> SUFFICES ASSUME StateInv, PaidInv, [Next]_pipelineVars PROVE PaidInv'
  OBVIOUS
<1>1. IsState(st) /\ \A k : Cardinality(Of(granted, k)) \in Nat
  <2>1. ASSUME NEW k PROVE Cardinality(Of(granted, k)) \in Nat
    <3>1. IsFiniteSet(Of(granted, k))
      BY FS_Subset DEF Of, PaidInv, Numbered
    <3> QED
      BY <3>1, FS_CardinalityType
  <2> QED
    BY <2>1 DEF StateInv
\* Only the gate grants and only the Executor acts; all else may drop a grant.
<1>2. ASSUME granted' = granted, effects' = effects,
             st'.pc # "execute" \/ UNCHANGED st
      PROVE  PaidInv'
  <2>1. ASSUME NEW k \in Key PROVE effects'[k] + Owed(k)' <= Cardinality(Of(granted, k))
    <3>1. Owed(k)' \in Nat /\ Owed(k) \in Nat /\ Owed(k)' <= Owed(k)
      BY <1>2 DEF Owed
    <3>2. effects[k] \in Nat /\ effects[k] + Owed(k) <= Cardinality(Of(granted, k))
      BY DEF PaidInv
    <3> QED
      BY <1>1, <1>2, <3>1, <3>2
  <2> QED
    BY <1>2, <2>1 DEF PaidInv
<1>3. CASE Gate
  <2>1. effects' = effects /\ st.pc = "gate"
    BY <1>3 DEF Gate, history
  <2>2. CASE granted' = granted /\ st'.pc = "notify"
    BY <1>2, <2>1, <2>2
  <2> DEFINE key == KeyOf(st.plan)
             r == NewRecord(key, now)
  <2>3. CASE granted' = granted \cup {r} /\ st'.pc = "execute" /\ st'.plan = st.plan
    <3>1. r.key = key /\ r.id = Cardinality(Of(granted, key)) + 1
      BY DEF NewRecord, Of
    <3>2. KeyOf(st'.plan) = key
      BY <2>3 DEF KeyOf
    <3> HIDE DEF key, r
    <3>3. Numbered(granted)
      BY DEF PaidInv
    <3>4. /\ Numbered(granted')
          /\ Cardinality(Of(granted', key)) = Cardinality(Of(granted, key)) + 1
          /\ \A k : k # key => Of(granted', k) = Of(granted, k)
      BY <2>3, <3>1, <3>3, OneMoreGrant
    <3>5. ASSUME NEW k \in Key
          PROVE  effects'[k] + Owed(k)' <= Cardinality(Of(granted', k))
      <4>1. effects[k] \in Nat /\ effects[k] <= Cardinality(Of(granted, k))
        BY <1>1, <2>1 DEF PaidInv, Owed
      <4>2. Owed(k)' = IF key = k THEN 1 ELSE 0
        BY <2>3, <3>2 DEF Owed
      <4> QED
        BY <1>1, <2>1, <3>4, <4>1, <4>2
    <3> QED
      BY <2>1, <3>4, <3>5 DEF PaidInv
  <2> QED
    BY <1>1, <1>3, <2>2, <2>3 DEF Gate, IsState
<1>4. CASE Execute
  <2>1. PICK strikes \in {0, 1} :
           st'.pc = "validate" /\ effects' = [effects EXCEPT ![KeyOf(st.plan)] = @ + strikes]
    BY <1>1, <1>4, ExecuteStep DEF IsState
  <2>2. granted' = granted /\ st.pc = "execute"
    BY <1>4 DEF Execute
  <2>3. ASSUME NEW k \in Key
        PROVE  effects'[k] \in Nat /\ effects'[k] <= Cardinality(Of(granted, k))
    <3>1. effects[k] \in Nat /\ effects[k] + Owed(k) <= Cardinality(Of(granted, k))
      BY DEF PaidInv
    <3>2. effects'[k] = IF KeyOf(st.plan) = k THEN effects[k] + strikes ELSE effects[k]
      BY <2>1 DEF PaidInv
    <3>3. Owed(k) = IF KeyOf(st.plan) = k THEN 1 ELSE 0
      BY <2>2 DEF Owed
    <3> QED
      BY <1>1, <3>1, <3>2, <3>3
  <2>4. \A k : Owed(k)' = 0
    BY <2>1 DEF Owed
  <2>5. effects' \in [Key -> Nat]
    BY <2>1, <2>3 DEF PaidInv
  <2> QED
    BY <2>2, <2>3, <2>4, <2>5 DEF PaidInv
<1>5. CASE Tick \/ (\E a \in Alert : TakeUp(a)) \/ Recall \/ Diagnose \/ Remediate
           \/ Notify \/ WorkerCloses \/ Abandon \/ UNCHANGED pipelineVars
  <2>1. granted' = granted /\ effects' = effects
    BY <1>5 DEF Tick, TakeUp, Recall, Diagnose, Remediate, Notify, WorkerCloses,
                Abandon, history, pipelineVars
  <2>2. st'.pc # "execute" \/ UNCHANGED st
    BY <1>1, <1>5, FreshState DEF Tick, TakeUp, Recall, Diagnose, Remediate, Notify,
                WorkerCloses, Abandon, history, pipelineVars, IsState, Fresh
  <2> QED
    BY <1>2, <2>1, <2>2
<1>6. CASE ValidateNothing \/ ValidateSync \/ ValidateAsync
  <2>1. granted' = granted /\ effects' = effects /\ st'.pc # "execute"
    BY <1>1, <1>6, RouteStep
  <2> QED
    BY <1>2, <2>1
<1> QED
  BY <1>3, <1>4, <1>5, <1>6 DEF Next, Agent

\* Every real execution was granted by the rate limit, and each by a grant of its own: the
\* way back from the Validator leads through the gate (approval_gate_node).
THEOREM EveryEffectIsPaid == Spec => []EffectsArePaid
<1>1. StateInv /\ PaidInv => EffectsArePaid
  <2> SUFFICES ASSUME PaidInv, NEW k \in Key
               PROVE  effects[k] <= Cardinality(Of(granted, k))
    BY DEF EffectsArePaid, Of
  <2>1. IsFiniteSet(Of(granted, k))
    BY FS_Subset DEF Of, PaidInv, Numbered
  <2>2. Cardinality(Of(granted, k)) \in Nat
    BY <2>1, FS_CardinalityType
  <2> QED
    BY <2>2 DEF PaidInv, Owed
<1> QED
  BY <1>1, InitState, NextState, InitPaid, NextPaid, PTL DEF Spec

-----------------------------------------------------------------------------
\* Why ReuseIsEarned holds: what is in the memory cured its fault when it was written
\* there, and had not come out of the memory itself.
EarnedBy(s, f) ==
    /\ s.fault = f /\ s.plan = memory[f].plan
    /\ ~s.replayed /\ s.at = memory[f].lastSuccess

MemoryInv ==
    \A f \in Fault : memory[f] # NoEntry => \E s \in successes : EarnedBy(s, f)

\* What the Validator's synchronous path may write.
LEMMA MemoryWrites ==
    ASSUME StateInv, ValidateSync, memory' # memory
    PROVE  /\ ~st.fromMemory /\ st.alert.fault \in Fault
           /\ memory' = [memory EXCEPT ![st.alert.fault] =
                           [plan |-> st.plan, confident |-> st.confident, lastSuccess |-> now]]
           /\ successes' = successes \cup {Success}
<1>1. PICK v \in Findings[st.plan.action] :
         /\ \E saved \in IF DatabaseFails THEN BOOLEAN ELSE {TRUE} :
              memory' = IF Recordable(v) /\ saved
                        THEN [memory EXCEPT ![st.alert.fault] =
                                [plan |-> st.plan, confident |-> st.confident,
                                 lastSuccess |-> now]]
                        ELSE memory
         /\ successes' = IF v.verdict = "success" THEN successes \cup {Success}
                                                  ELSE successes
  BY DEF ValidateSync
<1>2. Recordable(v)
  BY <1>1
<1>3. st.alert \in Alert
  BY DEF ValidateSync, StateInv
<1> QED
  BY <1>1, <1>2, <1>3 DEF Recordable, Fault

LEMMA InitMemory == Init => MemoryInv
BY DEF Init, MemoryInv

LEMMA NextMemory == StateInv /\ MemoryInv /\ [Next]_pipelineVars => MemoryInv'
<1> SUFFICES ASSUME StateInv, MemoryInv, [Next]_pipelineVars PROVE MemoryInv'
  OBVIOUS
<1>1. ASSUME memory' = memory, successes \subseteq successes' PROVE MemoryInv'
  BY <1>1 DEF MemoryInv, EarnedBy
<1>2. CASE ValidateSync
  <2>1. CASE memory' = memory
    <3>1. successes \subseteq successes'
      BY <1>2 DEF ValidateSync
    <3> QED
      BY <1>1, <2>1, <3>1
  <2>2. CASE memory' # memory
    <3> DEFINE f0 == st.alert.fault
               entry == [plan |-> st.plan, confident |-> st.confident, lastSuccess |-> now]
    <3>1. /\ ~st.fromMemory /\ f0 \in Fault
          /\ memory' = [memory EXCEPT ![f0] = entry]
          /\ successes' = successes \cup {Success}
      BY <1>2, <2>2, MemoryWrites
    <3>2. memory'[f0] = entry /\ \A f \in Fault : f # f0 => memory'[f] = memory[f]
      <4>1. memory = [f \in Fault |-> memory[f]]
        BY DEF StateInv
      <4> QED
        BY <3>1, <4>1
    <3>3. /\ Success.fault = f0 /\ Success.plan = entry.plan
          /\ ~Success.replayed /\ Success.at = entry.lastSuccess
      BY <3>1 DEF Success
    <3>4. Success \in successes'
      BY <3>1
    <3> HIDE DEF entry, f0
    <3>5. ASSUME NEW f \in Fault, memory'[f] # NoEntry
          PROVE  \E s \in successes' : /\ s.fault = f /\ s.plan = memory'[f].plan
                                       /\ ~s.replayed /\ s.at = memory'[f].lastSuccess
      <4>1. CASE f = f0
        BY <3>2, <3>3, <3>4, <4>1
      <4>2. CASE f # f0
        BY <3>1, <3>2, <3>5, <4>2 DEF MemoryInv, EarnedBy
      <4> QED
        BY <4>1, <4>2
    <3> QED
      BY <3>5 DEF MemoryInv, EarnedBy
  <2> QED
    BY <2>1, <2>2
<1>3. CASE Tick \/ (\E a \in Alert : TakeUp(a)) \/ Recall \/ Diagnose \/ Remediate
           \/ Gate \/ Execute \/ ValidateNothing \/ ValidateAsync
           \/ Notify \/ WorkerCloses \/ Abandon \/ UNCHANGED pipelineVars
  <2>1. memory' = memory /\ successes \subseteq successes'
    BY <1>3 DEF Tick, TakeUp, Recall, Diagnose, Remediate, Gate, Execute, ValidateNothing,
                ValidateAsync, Notify, WorkerCloses, Abandon, history, pipelineVars
  <2> QED
    BY <1>1, <2>1
<1> QED
  BY <1>2, <1>3 DEF Next, Agent

\* A replay never renews an entry of the memory: a plan is taken from it only within TTL of
\* a cure that a diagnosis of its own had led to (lookup, record_success).
THEOREM EveryReuseIsEarned == Spec => ReuseIsEarned
<1> DEFINE Earned == st'.fromMemory /\ ~st.fromMemory =>
                       \E s \in successes : /\ s.fault = st.alert.fault /\ s.plan = st'.plan
                                            /\ ~s.replayed /\ now - s.at <= TTL
<1>1. StateInv /\ MemoryInv /\ [Next]_pipelineVars => [Earned]_pipelineVars
  <2> SUFFICES ASSUME StateInv, MemoryInv, Next, st'.fromMemory, ~st.fromMemory
               PROVE  Earned
    BY DEF pipelineVars
  <2>1. Recall
    <3>1. ~(\E a \in Alert : TakeUp(a)) /\ ~Notify /\ ~Abandon
      BY FreshState DEF TakeUp, Notify, Abandon, Fresh
    <3>2. ~Tick /\ ~WorkerCloses
      BY DEF Tick, WorkerCloses
    <3>3. ~Diagnose /\ ~Remediate /\ ~Gate
      BY DEF Diagnose, Remediate, Gate, StateInv, IsState
    <3>4. ~Execute
      BY ExecuteStep DEF StateInv, IsState
    <3>5. ~ValidateNothing /\ ~ValidateSync /\ ~ValidateAsync
      BY RouteStep DEF StateInv
    <3> QED
      BY <3>1, <3>2, <3>3, <3>4, <3>5 DEF Next, Agent
  <2>2. /\ st.alert.fault \in Fault /\ memory[st.alert.fault] # NoEntry
        /\ now - memory[st.alert.fault].lastSuccess <= TTL
        /\ st'.plan = memory[st.alert.fault].plan
    BY <2>1 DEF Recall, Remembered, StateInv, IsState, Fault
  <2> QED
    BY <2>2 DEF MemoryInv, EarnedBy
<1> QED
  BY <1>1, InitState, NextState, InitMemory, NextMemory, PTL DEF Spec, ReuseIsEarned

-----------------------------------------------------------------------------
\* Why EffectsAreSafe holds.  A plan that is written passes the Remediator's rules and the
\* gate; one that is remembered passed them for an alert of the same fault, and the gate
\* lets it through only for the same pod.
Rules == INSTANCE PlanCheck_proofs
    WITH alert <- st.alert, futileRca <- st.futile, proposal <- st.plan, plan <- st.plan,
         path <- st.pc

SafeFor(plan, alert) ==
    /\ plan.action \in PodActions
    /\ plan.target = TargetOf(alert)
    /\ alert.owner \notin {"BarePod", "Job"}
    /\ alert.hopeless => plan.action \notin PlanRestarts

\* The plan was safe for some alert of the fault.
WasSafe(plan, fault) == \E b \in Alert : b.fault = fault /\ SafeFor(plan, b)

PlanInv ==
    /\ \A f \in Fault : memory[f] # NoEntry => WasSafe(memory[f].plan, f)
    /\ st.fromMemory => WasSafe(st.plan, st.alert.fault)
    /\ st.pc = "gate" /\ ~st.fromMemory =>
         st.plan = NoPlan \/ \E p \in Proposal : st.plan = Clean(p, st.alert, st.futile)
    /\ st.pc \in {"execute", "validate"} => SafeFor(st.plan, st.alert)
    /\ st.pc = "execute" => env.heal

\* Plans' operators are the same in both modules.
LEMMA SameClean ==
    ASSUME NEW p, NEW a, NEW f
    PROVE  Rules!Clean(p, a, f) = Clean(p, a, f)
BY DEF Rules!Clean, Clean, Rules!PostProcess, PostProcess, Rules!NoPlan, NoPlan,
       Rules!ValidPlan, ValidPlan, Rules!PointAtAlert, PointAtAlert, Rules!TargetOf, TargetOf,
       Rules!ForceStatefulSet, ForceStatefulSet, Rules!DropFutileRestart, DropFutileRestart,
       Rules!PlanRestarts, PlanRestarts, Rules!L3Actions, L3Actions, Rules!PodActions,
       PodActions, Rules!NodeActions, NodeActions, Rules!L2Actions, L2Actions,
       Rules!DeploymentActions, DeploymentActions

LEMMA SameGatePath ==
    ASSUME NEW p, NEW a, NEW e
    PROVE  Rules!GatePath(p, a, e) = GatePath(p, a, e)
BY DEF Rules!GatePath, GatePath, Rules!GateLevel, GateLevel, Rules!L3Path, L3Path,
       Rules!TargetInAlert, TargetInAlert, Rules!TargetOf, TargetOf,
       Rules!NodeActions, NodeActions, Rules!DeploymentActions, DeploymentActions

\* A plan that the gate sends on to the rate limit is safe for the alert in hand.
LEMMA GateIsSafe ==
    ASSUME \A a \in Alert : Rules!Placed(a), StateInv, PlanInv, st.pc = "gate",
           NEW business \in BOOLEAN,
           GatePath(st.plan, st.alert,
                    [heal |-> env.heal, dryRun |-> env.dryRun, business |-> business]) = "rate"
    PROVE  SafeFor(st.plan, st.alert) /\ env.heal
<1> DEFINE e == [heal |-> env.heal, dryRun |-> env.dryRun, business |-> business]
<1>1. /\ st.alert \in Alert /\ Rules!Placed(st.alert) /\ e \in Rules!Environment
      /\ st.futile \in BOOLEAN /\ e.heal = env.heal
  BY EnvironmentAssumption DEF StateInv, Rules!Environment
<1>2. /\ st.plan.action # "none" /\ TargetInAlert(st.plan, st.alert) /\ e.heal
  BY DEF GatePath, L3Path
<1>3. CASE st.fromMemory
  <2>1. PICK b \in Alert : b.fault = st.alert.fault /\ SafeFor(st.plan, b)
    BY <1>3 DEF PlanInv, WasSafe
  <2>2. st.plan.target = TargetOf(st.alert)
    BY <1>2, <2>1 DEF TargetInAlert, SafeFor, PodActions, NodeActions, DeploymentActions
  <2>3. b.owner = st.alert.owner /\ b.hopeless = st.alert.hopeless
    BY <1>1, <2>1, <2>2, AlertAssumption DEF SafeFor
  <2> QED
    BY <1>1, <1>2, <2>1, <2>2, <2>3 DEF SafeFor
<1>4. CASE ~st.fromMemory
  <2>1. PICK p \in Proposal : st.plan = Clean(p, st.alert, st.futile)
    BY <1>2, <1>4 DEF PlanInv, NoPlan
  <2>2. Rules!IsPlan(p)
    BY ProposalAssumption DEF Rules!IsPlan
  <2>3. Rules!GatePath(Rules!Clean(p, st.alert, st.futile), st.alert, e) = "rate"
    BY <2>1, SameClean, SameGatePath
  <2> HIDE DEF e
  <2>4. Rules!Safe(st.plan, st.alert, st.futile, e)
    BY <1>1, <2>1, <2>2, <2>3, SameClean, Rules!RatedPlanIsSafe
  <2>5. SafeFor(st.plan, st.alert)
    BY <2>4 DEF Rules!Safe, SafeFor, Rules!PodActions, PodActions, Rules!TargetOf, TargetOf,
                Rules!PlanRestarts, PlanRestarts
  <2> QED
    BY <1>1, <1>2, <2>5
<1> QED
  BY <1>3, <1>4

LEMMA InitPlanInv == Init => PlanInv
BY FreshState DEF Init, PlanInv

LEMMA NextPlanInv ==
    ASSUME \A a \in Alert : Rules!Placed(a), StateInv, PlanInv, [Next]_pipelineVars
    PROVE  PlanInv'
<1>1. IsState(st) /\ memory = [f \in Fault |-> memory[f]]
  BY DEF StateInv
<1>2. CASE Tick \/ WorkerCloses \/ UNCHANGED pipelineVars
  BY <1>2 DEF Tick, WorkerCloses, pipelineVars, PlanInv
<1>3. CASE (\E a \in Alert : TakeUp(a)) \/ Notify \/ Abandon
  <2>1. ~st'.fromMemory /\ st'.pc \in {"idle", "investigate", "notify"} /\ memory' = memory
    BY <1>3, FreshState DEF TakeUp, Notify, Abandon, Fresh
  <2> QED
    BY <2>1 DEF PlanInv
<1>4. CASE Recall
  <2>1. /\ st.alert.fault \in Fault /\ memory[st.alert.fault] # NoEntry
        /\ st'.plan = memory[st.alert.fault].plan /\ st'.alert = st.alert
        /\ st'.pc = "remediate" /\ memory' = memory
    BY <1>1, <1>4 DEF Recall, Remembered, StateInv, IsState, Fault
  <2> QED
    BY <2>1 DEF PlanInv
<1>5. CASE Diagnose
  <2>1. /\ st'.plan = st.plan /\ st'.alert = st.alert /\ st'.fromMemory = st.fromMemory
        /\ st'.pc = "remediate" /\ memory' = memory
    BY <1>1, <1>5 DEF Diagnose, IsState
  <2> QED
    BY <2>1 DEF PlanInv
<1>6. CASE Remediate
  <2>1. PICK plan \in IF st.fromMemory THEN {st.plan}
                      ELSE IF ~st.sound THEN {NoPlan}
                      ELSE {NoPlan} \cup {Clean(p, st.alert, st.futile) : p \in Proposal} :
           st' = [st EXCEPT !.pc = "gate", !.plan = plan] /\ memory' = memory
    BY <1>6 DEF Remediate
  <2>2. /\ st'.plan = plan /\ st'.alert = st.alert /\ st'.fromMemory = st.fromMemory
        /\ st'.futile = st.futile /\ st'.pc = "gate"
    BY <1>1, <2>1 DEF IsState
  <2>3. st.fromMemory => plan = st.plan
    BY <2>1
  <2>4. ~st.fromMemory => plan = NoPlan \/ \E p \in Proposal : plan = Clean(p, st.alert, st.futile)
    BY <2>1
  <2> QED
    BY <2>1, <2>2, <2>3, <2>4 DEF PlanInv
<1>7. CASE Gate
  <2>1. /\ st'.plan = st.plan /\ st'.alert = st.alert /\ st'.fromMemory = st.fromMemory
        /\ memory' = memory /\ env' = env /\ st.pc = "gate"
    BY <1>1, <1>7 DEF Gate, IsState
  <2>2. st'.pc = "notify" \/ (st'.pc = "execute" /\ SafeFor(st.plan, st.alert) /\ env.heal)
    BY <1>1, <1>7, GateIsSafe DEF Gate, IsState
  <2> QED
    BY <2>1, <2>2 DEF PlanInv
<1>8. CASE Execute
  <2>1. /\ st'.plan = st.plan /\ st'.alert = st.alert /\ st'.fromMemory = st.fromMemory
        /\ st'.pc = "validate"
    BY <1>1, <1>8, ExecuteStep DEF IsState
  <2>2. memory' = memory /\ st.pc = "execute"
    BY <1>8 DEF Execute
  <2> QED
    BY <2>1, <2>2 DEF PlanInv
<1>9. CASE ValidateNothing \/ ValidateSync \/ ValidateAsync
  <2>1. /\ st'.plan = st.plan /\ st'.alert = st.alert /\ st'.fromMemory = st.fromMemory
        /\ st.pc = "validate" /\ st'.pc \in {"notify", "investigate"}
    BY <1>1, <1>9, RouteStep
  <2>2. ASSUME NEW f \in Fault, memory'[f] # NoEntry PROVE WasSafe(memory'[f].plan, f)
    <3>1. CASE memory' = memory
      BY <2>2, <3>1 DEF PlanInv
    <3>2. CASE memory' # memory
      <4> DEFINE f0 == st.alert.fault
      <4>1. ValidateSync
        BY <1>9, <3>2 DEF ValidateNothing, ValidateAsync
      <4>2. memory' = [memory EXCEPT ![f0] = [plan |-> st.plan, confident |-> st.confident,
                                             lastSuccess |-> now]]
        BY <3>2, <4>1, MemoryWrites
      <4>3. CASE f = f0
        <5>1. memory'[f].plan = st.plan
          BY <1>1, <4>2, <4>3
        <5>2. SafeFor(st.plan, st.alert) /\ st.alert \in Alert
          BY <2>1 DEF PlanInv, StateInv
        <5> QED
          BY <4>3, <5>1, <5>2 DEF WasSafe
      <4>4. CASE f # f0
        <5>1. memory'[f] = memory[f]
          BY <1>1, <4>2, <4>4
        <5> QED
          BY <2>2, <5>1 DEF PlanInv
      <4> QED
        BY <4>3, <4>4
    <3> QED
      BY <3>1, <3>2
  <2> QED
    BY <2>1, <2>2 DEF PlanInv
<1> QED
  BY <1>2, <1>3, <1>4, <1>5, <1>6, <1>7, <1>8, <1>9 DEF Next, Agent

\* If every alert names its pod, node or cluster as the inspectors' alerts do, then what is
\* executed for real is a pod action on the alert's own pod, nothing without a
\* controller, no restart that cannot help, and within the kill switch and dry-run:
\* whatever the models write, and whatever the memory replays (approval_gate_node).
THEOREM EveryEffectIsSafe ==
    ASSUME \A a \in Alert : Rules!Placed(a)
    PROVE  Spec => EffectsAreSafe
<1> DEFINE Harmless == runs' > runs =>
                         /\ st.plan.action \in PodActions
                         /\ st.plan.target = TargetOf(st.alert)
                         /\ st.alert.owner \notin {"BarePod", "Job"}
                         /\ st.alert.hopeless => st.plan.action \notin PlanRestarts
                         /\ env.heal /\ ~env.dryRun
<1>1. StateInv /\ LoopInv /\ PlanInv /\ [Next]_pipelineVars => [Harmless]_pipelineVars
  <2> SUFFICES ASSUME StateInv, LoopInv, PlanInv, Next, runs' > runs
               PROVE  Harmless
    BY DEF pipelineVars
  <2>1. Execute
    <3>1. runs \in Nat
      BY DEF LoopInv
    <3>2. runs' # runs /\ runs' # 0
      BY <3>1
    <3>3. ~Tick /\ ~WorkerCloses /\ ~(\E a \in Alert : TakeUp(a)) /\ ~Notify /\ ~Abandon
      BY <3>2 DEF Tick, WorkerCloses, TakeUp, Notify, Abandon, history
    <3>4. ~Recall /\ ~Diagnose /\ ~Remediate /\ ~Gate
      BY <3>2 DEF Recall, Diagnose, Remediate, Gate, history
    <3>5. ~ValidateNothing /\ ~ValidateSync /\ ~ValidateAsync
      BY <3>2, RouteStep DEF StateInv
    <3> QED
      BY <3>3, <3>4, <3>5 DEF Next, Agent
  <2>2. PICK strikes \in {0, 1} : runs' = runs + strikes
                                /\ (strikes = 1 => ~env.dryRun /\ env.heal)
    BY <2>1, ExecuteStep
  <2>3. strikes = 1
    BY <2>2 DEF LoopInv
  <2>4. SafeFor(st.plan, st.alert)
    BY <2>1 DEF Execute, PlanInv
  <2> QED
    BY <2>2, <2>3, <2>4 DEF SafeFor
<1>2. StateInv /\ PlanInv /\ [Next]_pipelineVars => PlanInv'
  BY NextPlanInv
<1> QED
  BY <1>1, <1>2, InitState, NextState, InitLoop, NextLoop, InitPlanInv, PTL
     DEF Spec, EffectsAreSafe
=============================================================================
