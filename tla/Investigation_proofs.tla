------------------------ MODULE Investigation_proofs ------------------------
(***************************************************************************)
(* Proofs about Investigation, for every set of nodes and tool calls, all  *)
(* limits, windows and settings, and any number of diagnoses, steps and    *)
(* calls in a message.                                                     *)
(***************************************************************************)
EXTENDS Investigation, FiniteSetTheorems, SequenceTheorems, TLAPS

Diagnosis ==
    [pc : {"idle", "model", "tools", "done"}, steps : Int, step : Nat,
     todo : {<<>>} \cup Message, drafts : 0..1, evidence : Nat,
     counts : [ToolCall -> 0..2], result : {"", "final", "unfinished", "nothing"}]

TypeInv ==
    /\ TypeOK
    /\ d \in Diagnosis
    /\ cache \in [nodes : SUBSET Node, at : Nat]
    /\ used \in [ToolCall -> Nat]
    /\ IsFiniteSet(granted)

\* What the loop knows while it runs: the counter is what was run, and a step that left
\* neither evidence nor a draft behind did not come back to the model.
LoopInv ==
    /\ env.fc => \A c \in ToolCall : used[c] <= 2
    /\ d.pc \in {"model", "tools"} =>
         /\ env.fc => used = d.counts
         /\ d.evidence > 0 <=> \E c \in ToolCall : used[c] > 0
    /\ d.pc = "model" /\ d.step > 0 => d.evidence > 0 \/ d.drafts = 1
    /\ ConclusionsAreGrounded

GrantedIn(k, from) == {g \in granted : g.key = k /\ from <= g.ts /\ g.ts <= from + Window}

\* The limit holds for the grants, as none is in the future and none that counts was
\* deleted; every act has a grant, and none shares it with another.
GrantInv ==
    /\ \A g \in granted :
         /\ g.ts <= now
         /\ g.ts >= now - Window => g \in records
         /\ g.id <= Cardinality({h \in granted : h.key = g.key})
    /\ \A k \in Key, from \in Int : Cardinality(GrantedIn(k, from)) <= MaxPerHour[k]

ActInv ==
    /\ \A a \in acts : a.grant \in granted
    /\ \A a, b \in acts : a.grant = b.grant => a = b

\* What was in the cluster when the list was fetched.
NodeInv ==
    /\ present \in [Node -> Nat]
    /\ \A n \in nodes : present[n] = now
    /\ \A n \in cache.nodes : present[n] >= cache.at

-----------------------------------------------------------------------------
(* The loop.                                                               *)

\* The calls that are left of a message are a message, or none.
LEMMA TodoFacts ==
    ASSUME NEW todo \in {<<>>} \cup Message, todo # <<>>
    PROVE  /\ Head(todo) \in ToolCall /\ Len(todo) \in Nat \ {0}
           /\ Tail(todo) \in {<<>>} \cup Message
           /\ Len(todo) > 1 => Tail(todo) # <<>>
<1> DEFINE most == IF env.fc THEN MaxCalls ELSE 1
<1>1. PICK n \in 1..most : todo \in [1..n -> ToolCall]
  BY DEF Message
<1>2. most \in Nat
  BY InvestigationBoundsAssumption
<1> HIDE DEF most
<1>3. todo \in Seq(ToolCall) /\ Len(todo) = n /\ n \in Nat \ {0}
  BY <1>1, <1>2
<1>4. Head(todo) \in ToolCall
  BY <1>3
<1>5. Tail(todo) \in Seq(ToolCall) /\ Len(Tail(todo)) = n - 1
  BY <1>3
<1>6. CASE n = 1
  <2>1. Len(Tail(todo)) = 0
    BY <1>5, <1>6
  <2>2. \A rest \in Seq(ToolCall) : rest # <<>> => Len(rest) # 0
    BY EmptySeq
  <2>3. Tail(todo) = <<>>
    BY <1>5, <2>1, <2>2
  <2> QED
    BY <1>3, <1>4, <1>6, <2>3
<1>7. CASE n # 1
  <2>1. Tail(todo) \in [1..n - 1 -> ToolCall]
    BY <1>5, LenProperties
  <2>2. n - 1 \in 1..most
    BY <1>2, <1>3, <1>7
  <2>3. Tail(todo) \in Message
    BY <2>1, <2>2 DEF Message, most
  <2>4. Tail(todo) # <<>>
    BY <1>3, <1>5, <1>7
  <2> QED
    BY <1>3, <1>4, <2>3, <2>4
<1> QED
  BY <1>6, <1>7

LEMMA IdleType == Idle \in Diagnosis
BY DEF Idle, Diagnosis

\* A message is one under the same settings.
LEMMA MessageStays ==
    ASSUME UNCHANGED env
    PROVE  Message' = Message
BY DEF Message

\* A new record is one, and its number is above those of its key.
LEMMA NewRecordFacts ==
    ASSUME IsFiniteSet(granted), granted \subseteq Record, NEW k \in Key, NEW t \in Nat
    PROVE  /\ NewRecord(k, t) \in Record
           /\ NewRecord(k, t).key = k /\ NewRecord(k, t).ts = t
           /\ NewRecord(k, t).id = Cardinality({g \in granted : g.key = k}) + 1
           /\ Cardinality({g \in granted : g.key = k}) \in Nat
<1>1. IsFiniteSet({g \in granted : g.key = k})
  BY FS_Subset
<1>2. Cardinality({g \in granted : g.key = k}) \in Nat
  BY <1>1, FS_CardinalityType
<1> QED
  BY <1>2 DEF NewRecord, Record

\* What a tool may do to the rate limit.
LEMMA ToolGrants ==
    ASSUME NEW c \in ToolCall, RunTool(c)
    PROVE  \/ /\ granted' = granted /\ acts' = acts
              /\ records' \in {records, WithoutExpired(now)}
           \/ LET grant == NewRecord(KeyOf(c), now)
              IN  /\ ~Full(KeyOf(c), now)
                  /\ granted' = granted \cup {grant}
                  /\ records' = WithoutExpired(now) \cup {grant}
                  /\ \/ acts' = acts
                     \/ \E blind \in BOOLEAN :
                          acts' = acts \cup {[grant |-> grant, call |-> c, blind |-> blind]}
BY DEF RunTool, Act, rate

LEMMA InitTypeInv == Init => TypeInv
<1> SUFFICES ASSUME Init PROVE TypeInv
  OBVIOUS
<1>1. IsFiniteSet(granted)
  BY FS_EmptySet DEF Init
<1>2. nodes \in (SUBSET Node) \ {{}}
  <2>1. nodes = Node /\ Node # {}
    BY NodeAssumption DEF Init
  <2> QED
    BY <2>1
<1>3. now \in 0..MaxTime /\ cache.at \in 0..now /\ cache \in [nodes : SUBSET Node, at : Nat]
  BY InvestigationBoundsAssumption DEF Init
<1>4. used \in [ToolCall -> Nat] /\ d \in Diagnosis /\ d.pc = "idle" /\ d.step = 0
  BY IdleType DEF Init, Idle
<1> QED
  BY <1>1, <1>2, <1>3, <1>4 DEF Init, TypeInv, TypeOK, Diagnosis

\* What TypeInv says, taken apart for the provers.
LEMMA TypeFacts ==
    ASSUME TypeInv
    PROVE  /\ now \in Nat /\ MaxTime \in Nat /\ MaxSteps \in Int /\ LightSteps \in Nat
           /\ records \subseteq granted /\ granted \subseteq Record /\ IsFiniteSet(granted)
           /\ nodes \subseteq Node /\ cache \in [nodes : SUBSET Node, at : Nat]
           /\ cache.at <= now
           /\ \A g \in granted : g.ts \in Nat /\ g.key \in Key /\ g.id \in Nat
           /\ d.steps \in Int /\ d.step \in Nat /\ d.drafts \in 0..1 /\ d.evidence \in Nat
           /\ d.counts \in [ToolCall -> 0..2] /\ used \in [ToolCall -> Nat]
<1>1. MaxTime \in Nat /\ MaxSteps \in Int /\ LightSteps \in Nat
  BY InvestigationBoundsAssumption, StepsAssumption
<1>2. now \in 0..MaxTime /\ cache.at \in 0..now /\ nodes \in (SUBSET Node) \ {{}}
      /\ records \subseteq granted /\ granted \subseteq Record
  BY DEF TypeInv, TypeOK
<1>3. now \in Nat /\ cache.at <= now /\ nodes \subseteq Node
  BY <1>1, <1>2
<1>4. \A g \in granted : g.ts \in Nat /\ g.key \in Key /\ g.id \in Nat
  BY DEF TypeInv, TypeOK, Record
<1>5. d.steps \in Int /\ d.step \in Nat /\ d.drafts \in 0..1 /\ d.evidence \in Nat
      /\ d.counts \in [ToolCall -> 0..2]
  BY DEF TypeInv, Diagnosis
<1>6. cache \in [nodes : SUBSET Node, at : Nat] /\ used \in [ToolCall -> Nat]
      /\ IsFiniteSet(granted)
  BY DEF TypeInv
<1> QED
  BY <1>1, <1>2, <1>3, <1>4, <1>5, <1>6

\* An ended or an interrupted diagnosis, and one that goes on.
LEMMA DiagnosisStep ==
    ASSUME TypeInv, UNCHANGED <<now, records, granted, env, nodes, cache>>,
           used' \in [ToolCall -> Nat],
           d' \in Diagnosis,
           d'.pc = "tools" => d'.todo # <<>>,
           d'.step <= d'.steps \/ d'.step = 0
    PROVE  TypeInv'
<1>1. Diagnosis' = Diagnosis
  BY MessageStays DEF Diagnosis
<1>2. d'.todo \in {<<>>} \cup Message' /\ d'.pc \in {"idle", "model", "tools", "done"}
      /\ d'.drafts \in 0..1 /\ d'.counts \in [ToolCall -> 0..2]
      /\ d'.result \in {"", "final", "unfinished", "nothing"}
  BY MessageStays DEF Diagnosis
<1> HIDE DEF Diagnosis
<1> QED
  BY <1>1, <1>2 DEF TypeInv, TypeOK

LEMMA ConcludeType ==
    ASSUME TypeInv, NEW accepted \in BOOLEAN, Conclude(accepted)
    PROVE  /\ d' \in Diagnosis /\ d'.pc = "done"
           /\ d'.step = d.step /\ d'.steps = d.steps /\ d'.drafts = d.drafts
           /\ d'.result = IF accepted THEN "final"
                          ELSE IF d.evidence > 0 THEN "unfinished" ELSE "nothing"
<1>1. Idle.counts \in [ToolCall -> 0..2]
  BY DEF Idle
<1> QED
  BY <1>1 DEF Conclude, TypeInv, Diagnosis

LEMMA NextTypeInv == TypeInv /\ [Next]_investigationVars => TypeInv'
<1> SUFFICES ASSUME TypeInv, [Next]_investigationVars PROVE TypeInv'
  OBVIOUS
<1> USE TypeFacts
<1>m. UNCHANGED env => Diagnosis' = Diagnosis /\ Message' = Message
  BY MessageStays DEF Diagnosis
<1>t. d \in Diagnosis /\ (d.step <= d.steps \/ d.step = 0)
      /\ (d.pc = "tools" => d.todo # <<>>) /\ d.todo \in {<<>>} \cup Message
  BY DEF TypeInv, TypeOK
<1>1. CASE Tick
  <2>1. now' \in 0..MaxTime /\ cache'.at \in 0..now'
    BY <1>1 DEF Tick
  <2> QED
    BY <1>1, <1>m, <2>1 DEF Tick, rate, TypeInv, TypeOK
<1>2. CASE ClusterChanges
  BY <1>2, <1>m DEF ClusterChanges, rate, TypeInv, TypeOK
<1>3. CASE Begin
  <2>1. PICK steps \in {LightSteps, MaxSteps} : d' = [Idle EXCEPT !.pc = "model", !.steps = steps]
    BY <1>3 DEF Begin
  <2>2. d' \in Diagnosis /\ d'.pc = "model" /\ d'.step = 0
    <3>1. steps \in Int
      OBVIOUS
    <3> QED
      BY <2>1, <3>1, IdleType DEF Diagnosis, Idle
  <2>3. used' \in [ToolCall -> Nat]
    BY <1>3 DEF Begin, Idle
  <2> QED
    BY <1>3, <2>2, <2>3, DiagnosisStep DEF Begin, rate
<1>4. CASE GiveUp
  <2>1. Conclude(FALSE)
    BY <1>4 DEF GiveUp
  <2> QED
    BY <1>4, <1>t, <2>1, ConcludeType, DiagnosisStep
       DEF GiveUp, LoopUnchanged, ToolsUnchanged, rate
<1>5. CASE AskAgain
  <2>1. CASE Conclude(FALSE)
    BY <1>5, <1>t, <2>1, ConcludeType, DiagnosisStep
       DEF AskAgain, LoopUnchanged, ToolsUnchanged, rate
  <2>2. CASE d.drafts + 1 < 2 /\ d' = [d EXCEPT !.step = @ + 1, !.drafts = @ + 1]
    <3>1. d.step + 1 \in Nat /\ d.drafts + 1 \in 0..1
      BY <2>2
    <3>3. d' \in Diagnosis /\ d'.step = d.step + 1 /\ d'.steps = d.steps /\ d'.pc = d.pc
          /\ d'.todo = d.todo
      BY <1>t, <2>2, <3>1 DEF Diagnosis
    <3>2. d.step < d.steps
      BY <1>5 DEF AskAgain, Asking
    <3> QED
      BY <1>5, <1>t, <3>2, <3>3, DiagnosisStep
         DEF AskAgain, LoopUnchanged, ToolsUnchanged, rate
  <2>3. d.drafts + 1 >= 2 \/ d.drafts + 1 < 2
    OBVIOUS
  <2> QED
    BY <1>5, <2>1, <2>2, <2>3 DEF AskAgain
<1>6. CASE Accept
  <2>1. Conclude(TRUE)
    BY <1>6 DEF Accept
  <2> QED
    BY <1>6, <1>t, <2>1, ConcludeType, DiagnosisStep
       DEF Accept, LoopUnchanged, ToolsUnchanged, rate
<1>7. CASE TakeCalls
  <2>1. PICK message \in Message :
          d' = [d EXCEPT !.pc = "tools", !.step = @ + 1, !.todo = message]
    BY <1>7 DEF TakeCalls
  <2>2. message # <<>>
    BY DEF Message
  <2>3. d' \in Diagnosis /\ d'.step = d.step + 1 /\ d'.steps = d.steps /\ d'.todo # <<>>
    <3>1. d.step + 1 \in Nat /\ message \in {<<>>} \cup Message
      OBVIOUS
    <3> QED
      BY <1>t, <2>1, <2>2, <3>1 DEF Diagnosis
  <2>4. d.step < d.steps
    BY <1>7 DEF TakeCalls, Asking
  <2> QED
    BY <1>7, <1>t, <2>3, <2>4, DiagnosisStep
       DEF TakeCalls, LoopUnchanged, ToolsUnchanged, rate
<1>8. CASE Interrupt
  <2>1. Conclude(FALSE)
    BY <1>8 DEF Interrupt
  <2> QED
    BY <1>8, <1>t, <2>1, ConcludeType, DiagnosisStep
       DEF Interrupt, LoopUnchanged, ToolsUnchanged, rate
<1>9. CASE Raise
  <2>1. d' = [d EXCEPT !.pc = "idle", !.todo = <<>>, !.counts = Idle.counts]
    BY <1>9 DEF Raise
  <2>2. Idle.counts \in [ToolCall -> 0..2]
    BY DEF Idle
  <2>3. d' \in Diagnosis /\ d'.pc = "idle" /\ d'.step = d.step /\ d'.steps = d.steps
    BY <1>t, <2>1, <2>2 DEF Diagnosis
  <2> QED
    BY <1>9, <1>t, <2>3, DiagnosisStep DEF Raise, LoopUnchanged, ToolsUnchanged, rate
<1>10. CASE UseTool
  <2> DEFINE c == Head(d.todo)
  <2>1. d.todo # <<>>
    BY <1>10, <1>t DEF UseTool
  <2>2. c \in ToolCall /\ Len(d.todo) \in Nat /\ Tail(d.todo) \in {<<>>} \cup Message
        /\ (Len(d.todo) > 1 => Tail(d.todo) # <<>>)
    BY <1>t, <2>1, TodoFacts
  <2>3. RunTool(c) /\ used' = [used EXCEPT ![c] = @ + 1]
        /\ d' = [d EXCEPT !.pc = IF Len(d.todo) > 1 THEN "tools" ELSE "model",
                         !.todo = Tail(d.todo), !.evidence = @ + 1,
                         !.counts = IF env.fc THEN CallCounted(c) ELSE @]
        /\ (env.fc => ~TooOften(c)) /\ LoopUnchanged
    BY <1>10 DEF UseTool, Current
  <2> HIDE DEF c
  <2>4. (IF env.fc THEN CallCounted(c) ELSE d.counts) \in [ToolCall -> 0..2]
    <3>1. env.fc => d.counts[c] \in 0..1
      BY <2>2, <2>3 DEF TooOften
    <3>2. env.fc => CallCounted(c) \in [ToolCall -> 0..2]
      BY <2>2, <3>1 DEF CallCounted
    <3> QED
      BY <3>2
  <2>5. d' \in Diagnosis /\ d'.step = d.step /\ d'.steps = d.steps
        /\ (d'.pc = "tools" => d'.todo # <<>>)
    <3> DEFINE pc == IF Len(d.todo) > 1 THEN "tools" ELSE "model"
               counts == IF env.fc THEN CallCounted(c) ELSE d.counts
    <3>1. pc \in {"tools", "model"} /\ (pc = "tools" => Tail(d.todo) # <<>>)
          /\ d.evidence + 1 \in Nat /\ counts \in [ToolCall -> 0..2]
      BY <2>2, <2>4
    <3>2. d' = [d EXCEPT !.pc = pc, !.todo = Tail(d.todo), !.evidence = @ + 1,
                         !.counts = counts]
      BY <2>3
    <3> HIDE DEF pc, counts
    <3> QED
      BY <1>t, <2>2, <3>1, <3>2 DEF Diagnosis
  <2>6. used' \in [ToolCall -> Nat]
    BY <2>2, <2>3
  <2>7. records' \subseteq granted' /\ granted' \subseteq Record /\ IsFiniteSet(granted')
    <3> DEFINE grant == NewRecord(KeyOf(c), now)
    <3>1. grant \in Record
      BY <2>2, KeysAssumption, NewRecordFacts
    <3>2. WithoutExpired(now) \subseteq granted
      BY DEF WithoutExpired
    <3>3. IsFiniteSet(granted \cup {grant})
      BY FS_AddElement
    <3> HIDE DEF grant
    <3> QED
      BY <2>2, <2>3, <3>1, <3>2, <3>3, ToolGrants DEF grant
  <2>8. cache' \in [nodes : SUBSET Node, at : Nat] /\ cache'.at \in 0..now
    BY <2>3 DEF RunTool, Renewed
  <2>9. now' = now /\ env' = env /\ nodes' = nodes
    BY <2>3 DEF LoopUnchanged
  <2> QED
    BY <1>m, <1>t, <2>5, <2>6, <2>7, <2>8, <2>9 DEF TypeInv, TypeOK, Diagnosis
<1>11. CASE UNCHANGED investigationVars
  BY <1>11, <1>m DEF investigationVars, rate, history, TypeInv, TypeOK
<1> QED
  BY <1>1, <1>2, <1>3, <1>4, <1>5, <1>6, <1>7, <1>8, <1>9, <1>10, <1>11 DEF Next, Loop

\* The diagnosis is of its type, and so are the cache, the grants and the settings.
THEOREM InvestigationTypeCorrect == Spec => []TypeOK
<1>1. TypeInv => TypeOK
  BY DEF TypeInv
<1> QED
  BY <1>1, InitTypeInv, NextTypeInv, PTL DEF Spec

-----------------------------------------------------------------------------
(* The loop's guards.                                                      *)

LEMMA InitLoopInv == Init => LoopInv
<1> SUFFICES ASSUME Init PROVE LoopInv
  OBVIOUS
<1>1. d.pc = "idle" /\ used = [c \in ToolCall |-> 0]
  BY DEF Init, Idle
<1> QED
  BY <1>1 DEF LoopInv, ConclusionsAreGrounded

\* What is concluded from what the loop knows.
LEMMA ConcludeGrounded ==
    ASSUME TypeInv, LoopInv, d.pc \in {"model", "tools"},
           NEW accepted \in BOOLEAN, Conclude(accepted), UNCHANGED <<env, used>>,
           accepted /\ env.fc => d.drafts = 1 \/ d.evidence > 0
    PROVE  LoopInv'
<1>1. /\ d'.pc = "done" /\ d'.drafts = d.drafts
      /\ d'.result = IF accepted THEN "final"
                     ELSE IF d.evidence > 0 THEN "unfinished" ELSE "nothing"
  BY ConcludeType
<1>2. d.evidence > 0 <=> \E c \in ToolCall : used[c] > 0
  BY DEF LoopInv
<1>3. \A c \in ToolCall : used[c] \in Nat
  BY DEF TypeInv
<1>4. ConclusionsAreGrounded'
  BY <1>1, <1>2, <1>3 DEF ConclusionsAreGrounded
<1> QED
  BY <1>1, <1>4 DEF LoopInv

LEMMA NextLoopInv == TypeInv /\ LoopInv /\ [Next]_investigationVars => LoopInv'
<1> SUFFICES ASSUME TypeInv, LoopInv, [Next]_investigationVars PROVE LoopInv'
  OBVIOUS
<1> USE TypeFacts
<1>t. d \in Diagnosis /\ (d.pc = "tools" => d.todo # <<>>) /\ d.todo \in {<<>>} \cup Message
  BY DEF TypeInv, TypeOK
<1>1. CASE Tick \/ ClusterChanges \/ UNCHANGED investigationVars
  BY <1>1 DEF Tick, ClusterChanges, investigationVars, rate, history, LoopInv,
              ConclusionsAreGrounded
<1>2. CASE Begin
  BY <1>2 DEF Begin, LoopInv, ConclusionsAreGrounded, Idle
<1>3. CASE GiveUp
  BY <1>3, ConcludeGrounded DEF GiveUp, LoopUnchanged, ToolsUnchanged
<1>4. CASE AskAgain
  <2>1. CASE Conclude(FALSE)
    BY <1>4, <2>1, ConcludeGrounded DEF AskAgain, Asking, LoopUnchanged, ToolsUnchanged
  <2>2. CASE d.drafts + 1 < 2 /\ d' = [d EXCEPT !.step = @ + 1, !.drafts = @ + 1]
    <3>1. d'.pc = d.pc /\ d'.counts = d.counts /\ d'.evidence = d.evidence
          /\ d'.drafts = d.drafts + 1
      BY <1>t, <2>2 DEF Diagnosis
    <3>2. d'.drafts = 1
      BY <2>2, <3>1
    <3>3. d.pc = "model" /\ UNCHANGED <<env, used>>
      BY <1>4 DEF AskAgain, Asking, LoopUnchanged, ToolsUnchanged
    <3> QED
      BY <3>1, <3>2, <3>3 DEF LoopInv, ConclusionsAreGrounded
  <2>3. d.drafts + 1 >= 2 \/ d.drafts + 1 < 2
    OBVIOUS
  <2> QED
    BY <1>4, <2>1, <2>2, <2>3 DEF AskAgain
<1>5. CASE Accept
  \* An accepted answer is not the first step's, or there is evidence.
  <2>1. d.pc = "model" /\ Conclude(TRUE) /\ UNCHANGED <<env, used>> /\ ~SentBack(FALSE)
    BY <1>5 DEF Accept, Asking, LoopUnchanged, ToolsUnchanged
  <2>2. env.fc => d.drafts = 1 \/ d.evidence > 0
    BY <2>1 DEF SentBack, LoopInv
  <2> QED
    BY <2>1, <2>2, ConcludeGrounded
<1>6. CASE TakeCalls
  <2>1. d'.pc = "tools" /\ d.pc = "model" /\ d'.counts = d.counts /\ d'.evidence = d.evidence
        /\ UNCHANGED <<env, used>>
    BY <1>6, <1>t DEF TakeCalls, Asking, Diagnosis, LoopUnchanged, ToolsUnchanged
  <2> QED
    BY <2>1 DEF LoopInv, ConclusionsAreGrounded
<1>7. CASE Interrupt
  BY <1>7, ConcludeGrounded DEF Interrupt, LoopUnchanged, ToolsUnchanged
<1>8. CASE Raise
  <2>1. d'.pc = "idle" /\ UNCHANGED <<env, used>>
    BY <1>8, <1>t DEF Raise, Diagnosis, LoopUnchanged, ToolsUnchanged
  <2> QED
    BY <2>1 DEF LoopInv, ConclusionsAreGrounded
<1>9. CASE UseTool
  <2> DEFINE c == Head(d.todo)
  <2>1. c \in ToolCall /\ d.pc = "tools"
    BY <1>9, <1>t, TodoFacts DEF UseTool
  <2>2. /\ d'.pc \in {"tools", "model"} /\ d'.evidence = d.evidence + 1
        /\ d'.counts = IF env.fc THEN CallCounted(c) ELSE d.counts
    BY <1>9, <1>t DEF UseTool, Current, Diagnosis
  <2>3. used' = [used EXCEPT ![c] = @ + 1] /\ (env.fc => ~TooOften(c)) /\ env' = env
    BY <1>9 DEF UseTool, Current, LoopUnchanged
  <2> HIDE DEF c
  <2>4. env.fc => used = d.counts
    BY <2>1 DEF LoopInv
  <2>5. env.fc => used' = d'.counts /\ used[c] <= 1
    <3>1. env.fc => used' = d'.counts
      BY <2>2, <2>3, <2>4 DEF CallCounted
    <3>2. env.fc => ~(d.counts[c] + 1 >= 3)
      BY <2>3 DEF TooOften
    <3>3. d.counts[c] \in 0..2
      BY <2>1
    <3>4. env.fc => used[c] <= 1
      BY <2>4, <3>2, <3>3
    <3> QED
      BY <3>1, <3>4
  <2>6. \A x \in ToolCall : used'[x] = IF x = c THEN used[x] + 1 ELSE used[x]
    BY <2>1, <2>3
  <2>7. env.fc => \A x \in ToolCall : used'[x] <= 2
    BY <2>1, <2>5, <2>6 DEF LoopInv
  <2>8. d'.evidence > 0 /\ \E x \in ToolCall : used'[x] > 0
    BY <2>1, <2>2, <2>6
  <2> QED
    BY <2>2, <2>3, <2>5, <2>7, <2>8 DEF LoopInv, ConclusionsAreGrounded
<1> QED
  BY <1>1, <1>2, <1>3, <1>4, <1>5, <1>6, <1>7, <1>8, <1>9 DEF Next, Loop

LEMMA LoopInvariant == Spec => [](TypeInv /\ LoopInv)
BY InitTypeInv, NextTypeInv, InitLoopInv, NextLoopInv, PTL DEF Spec

\* However many messages a diagnosis takes and however the model mixes its calls: with
\* function calling none is run a third time.
THEOREM NoCallRunsThrice == Spec => []NothingRunsThrice
<1>1. LoopInv => NothingRunsThrice
  BY DEF LoopInv, NothingRunsThrice
<1> QED
  BY <1>1, LoopInvariant, PTL

\* For any number of steps: a conclusion without evidence was sent back once, and what
\* the Remediator takes for no diagnosis ran no tool.
THEOREM EveryConclusionIsGrounded == Spec => []ConclusionsAreGrounded
<1>1. LoopInv => ConclusionsAreGrounded
  BY DEF LoopInv
<1> QED
  BY <1>1, LoopInvariant, PTL

-----------------------------------------------------------------------------
(* The rate limit.                                                         *)

\* A set that is contained in a smaller one and one element more.
LEMMA OneMore ==
    ASSUME NEW S, IsFiniteSet(S), NEW x, NEW T, T \subseteq S \cup {x}, NEW n \in Nat,
           ~(Cardinality(S) >= n)
    PROVE  Cardinality(T) <= n
<1>1. Cardinality(S) \in Nat
  BY FS_CardinalityType
<1>2. /\ IsFiniteSet(S \cup {x})
      /\ Cardinality(S \cup {x}) = IF x \in S THEN Cardinality(S) ELSE Cardinality(S) + 1
  BY FS_AddElement
<1>3. Cardinality(T) <= Cardinality(S \cup {x}) /\ IsFiniteSet(T)
  BY <1>2, FS_Subset
<1>4. Cardinality(T) \in Nat
  BY <1>3, FS_CardinalityType
<1> QED
  BY <1>1, <1>2, <1>3, <1>4

LEMMA InitGrantInv == Init => GrantInv /\ ActInv
<1> SUFFICES ASSUME Init PROVE GrantInv /\ ActInv
  OBVIOUS
<1>1. granted = {} /\ acts = {} /\ \A k \in Key, from \in Int : GrantedIn(k, from) = {}
  BY DEF Init, GrantedIn
<1>2. Cardinality({}) = 0 /\ \A k \in Key : 0 <= MaxPerHour[k]
  BY FS_EmptySet, MaxPerHourAssumption
<1> QED
  BY <1>1, <1>2 DEF GrantInv, ActInv

\* A grant that is counted first: of everything that shares a window with it the record
\* is still in the table.
LEMMA GrantStep ==
    ASSUME TypeInv, GrantInv, NEW k \in Key, ~Full(k, now), now' = now,
           granted' = granted \cup {NewRecord(k, now)},
           records' = WithoutExpired(now) \cup {NewRecord(k, now)}
    PROVE  GrantInv' /\ NewRecord(k, now) \notin granted
<1> DEFINE r == NewRecord(k, now)
           Of(key) == {g \in granted : g.key = key}
<1> USE TypeFacts
<1>1. r.key = k /\ r.ts = now /\ r.id = Cardinality(Of(k)) + 1 /\ Cardinality(Of(k)) \in Nat
  BY NewRecordFacts
<1>2. r \notin granted
  <2>1. \A g \in Of(k) : g.id <= Cardinality(Of(k)) /\ g.id \in Nat
    BY DEF GrantInv
  <2> QED
    BY <1>1, <2>1
<1>3. granted' = granted \cup {r} /\ records' = WithoutExpired(now) \cup {r}
  OBVIOUS
<1> HIDE DEF r
<1>4. ASSUME NEW g \in granted' PROVE g.id <= Cardinality(Of(g.key)')
  <2>1. CASE g = r
    <3>1. Of(k)' = Of(k) \cup {r} /\ r \notin Of(k) /\ IsFiniteSet(Of(k))
      BY <1>1, <1>2, <1>3, FS_Subset
    <3>2. Cardinality(Of(k)') = Cardinality(Of(k)) + 1
      BY <3>1, FS_AddElement
    <3>3. Of(g.key)' = Of(k)'
      BY <1>1, <2>1
    <3>4. r.id = Cardinality(Of(k)') /\ r.id \in Nat
      BY <1>1, <3>2
    <3> HIDE DEF Of
    <3> QED
      BY <2>1, <3>3, <3>4
  <2>2. CASE g \in granted
    <3>1. Of(g.key) \subseteq Of(g.key)' /\ IsFiniteSet(granted')
      BY <1>3, FS_AddElement
    <3>2. IsFiniteSet(Of(g.key)') /\ IsFiniteSet(Of(g.key))
      BY <3>1, FS_Subset
    <3>3. Cardinality(Of(g.key)) <= Cardinality(Of(g.key)')
      BY <3>1, <3>2, FS_Subset
    <3>4. Cardinality(Of(g.key)) \in Nat /\ Cardinality(Of(g.key)') \in Nat
      BY <3>2, FS_CardinalityType
    <3>5. g.id <= Cardinality(Of(g.key)) /\ g.id \in Nat
      BY <2>2 DEF GrantInv
    <3> QED
      BY <3>3, <3>4, <3>5
  <2> QED
    BY <1>3, <2>1, <2>2
<1>5. ASSUME NEW g \in granted' PROVE g.ts <= now' /\ (g.ts >= now' - Window => g \in records')
  <2>1. CASE g = r
    BY <1>1, <1>3, <2>1
  <2>2. CASE g \in granted
    <3>1. g.ts <= now /\ (g.ts >= now - Window => g \in WithoutExpired(now))
      BY <2>2 DEF GrantInv, WithoutExpired
    <3> QED
      BY <1>3, <3>1
  <2> QED
    BY <1>3, <2>1, <2>2
<1>6. ASSUME NEW key \in Key, NEW from \in Int
      PROVE  Cardinality(GrantedIn(key, from)') <= MaxPerHour[key]
  <2>1. CASE r \in GrantedIn(key, from)'
    <3>1. key = k /\ from <= now /\ now <= from + Window
      BY <1>1, <2>1 DEF GrantedIn
    <3>2. GrantedIn(key, from)' \subseteq Counted(k, now) \cup {r}
      <4> SUFFICES ASSUME NEW g \in granted, g.key = k, from <= g.ts
                   PROVE  g \in Counted(k, now)
        BY <1>3, <3>1 DEF GrantedIn
      <4>1. g.ts >= now - Window
        BY <3>1, WindowAssumption
      <4> QED
        BY <4>1 DEF GrantInv, Counted
    <3>3. IsFiniteSet(Counted(k, now)) /\ ~(Cardinality(Counted(k, now)) >= MaxPerHour[k])
      <4>1. Counted(k, now) \subseteq granted
        BY DEF Counted
      <4> QED
        BY <4>1, FS_Subset DEF Full
    <3>4. MaxPerHour[k] \in Nat
      BY MaxPerHourAssumption
    <3> QED
      BY <3>1, <3>2, <3>3, <3>4, OneMore
  <2>2. CASE r \notin GrantedIn(key, from)'
    <3>1. GrantedIn(key, from)' = GrantedIn(key, from)
      BY <1>3, <2>2 DEF GrantedIn
    <3> QED
      BY <3>1 DEF GrantInv
  <2> QED
    BY <2>1, <2>2
<1> QED
  BY <1>2, <1>4, <1>5, <1>6 DEF GrantInv, r

LEMMA NextGrantInv ==
    TypeInv /\ GrantInv /\ ActInv /\ [Next]_investigationVars => GrantInv' /\ ActInv'
<1> SUFFICES ASSUME TypeInv, GrantInv, ActInv, [Next]_investigationVars
             PROVE  GrantInv' /\ ActInv'
  OBVIOUS
<1> USE TypeFacts
\* All but the tools leave the grants and the acts as they are.
<1>1. CASE UNCHANGED <<granted, acts>> /\ now' \in Nat /\ now <= now'
           /\ records' \in {records, WithoutExpired(now)}
  <2>1. \A k \in Key, from \in Int : GrantedIn(k, from)' = GrantedIn(k, from)
    BY <1>1 DEF GrantedIn
  <2>2. \A g \in granted : g.ts <= now' /\ (g.ts >= now' - Window => g \in records')
    <3> SUFFICES ASSUME NEW g \in granted
                 PROVE  g.ts <= now' /\ (g.ts >= now' - Window => g \in records')
      OBVIOUS
    <3>1. g.ts <= now /\ (g.ts >= now - Window => g \in records /\ g \in WithoutExpired(now))
      BY DEF GrantInv, WithoutExpired
    <3>2. g.ts >= now' - Window => g.ts >= now - Window
      BY <1>1, WindowAssumption
    <3>3. g.ts <= now'
      BY <1>1, <3>1
    <3> QED
      BY <1>1, <3>1, <3>2, <3>3
  <2> QED
    BY <1>1, <2>1, <2>2 DEF GrantInv, ActInv
<1>2. CASE UseTool
  <2> DEFINE c == Head(d.todo)
             grant == NewRecord(KeyOf(c), now)
  <2>1. c \in ToolCall /\ RunTool(c) /\ now' = now
    BY <1>2, TodoFacts DEF UseTool, Current, TypeInv, TypeOK, LoopUnchanged
  <2>2. CASE UNCHANGED <<granted, acts>> /\ records' \in {records, WithoutExpired(now)}
    BY <1>1, <2>1, <2>2
  <2>3. CASE /\ ~Full(KeyOf(c), now)
             /\ granted' = granted \cup {grant}
             /\ records' = WithoutExpired(now) \cup {grant}
             /\ \/ acts' = acts
                \/ \E blind \in BOOLEAN :
                     acts' = acts \cup {[grant |-> grant, call |-> c, blind |-> blind]}
    <3>1. KeyOf(c) \in Key
      BY <2>1, KeysAssumption
    <3> HIDE DEF c
    <3>2. GrantInv' /\ grant \notin granted
      BY <2>1, <2>3, <3>1, GrantStep
    <3> HIDE DEF grant
    <3>3. ActInv'
      BY <2>3, <3>2 DEF ActInv
    <3> QED
      BY <3>2, <3>3
  <2> QED
    BY <2>1, <2>2, <2>3, ToolGrants
<1>3. CASE Tick
  BY <1>1, <1>3 DEF Tick, rate
<1>4. CASE ClusterChanges \/ Begin
  BY <1>1, <1>4 DEF ClusterChanges, Begin, rate
<1>5. CASE GiveUp \/ AskAgain \/ Accept \/ TakeCalls \/ Interrupt \/ Raise
  <2>1. UNCHANGED <<now, records, granted, acts>>
    BY <1>5 DEF GiveUp, AskAgain, Accept, TakeCalls, Interrupt, Raise,
                LoopUnchanged, ToolsUnchanged, rate
  <2> QED
    BY <1>1, <2>1
<1>6. CASE UNCHANGED investigationVars
  BY <1>1, <1>6 DEF investigationVars, rate, history
<1> QED
  BY <1>2, <1>3, <1>4, <1>5, <1>6 DEF Next, Loop

\* What commands and requests use up is what was granted, one grant for each, over any
\* number of diagnoses and with any statement failing: in no window are there more than
\* the limit.
THEOREM EveryActIsRated == Spec => []ActsAreRated
<1>1. TypeInv /\ GrantInv /\ ActInv => ActsAreRated
  <2> SUFFICES ASSUME TypeInv, GrantInv, ActInv, NEW k \in Key, NEW from \in 0..now
               PROVE  Cardinality({a \in acts : /\ a.grant.key = k
                                                 /\ from <= a.grant.ts
                                                 /\ a.grant.ts <= from + Window})
                        <= MaxPerHour[k]
    BY DEF ActsAreRated
  <2> DEFINE S == {a \in acts : /\ a.grant.key = k
                                /\ from <= a.grant.ts /\ a.grant.ts <= from + Window}
             T == GrantedIn(k, from)
             f == [a \in S |-> a.grant]
  <2>1. T \subseteq granted /\ IsFiniteSet(granted)
    BY DEF GrantedIn, TypeInv
  <2>2. IsFiniteSet(T)
    BY <2>1, FS_Subset
  <2>3. f \in Injection(S, T)
    BY DEF Injection, IsInjective, ActInv, GrantedIn
  <2>4. IsFiniteSet(S) /\ Cardinality(S) <= Cardinality(T)
    BY <2>2, <2>3, FS_Injection
  <2>5. Cardinality(S) \in Nat /\ Cardinality(T) \in Nat /\ MaxPerHour[k] \in Nat
    BY <2>2, <2>4, FS_CardinalityType, MaxPerHourAssumption
  <2>6. Cardinality(T) <= MaxPerHour[k]
    BY DEF GrantInv
  <2> HIDE DEF S, T
  <2>7. Cardinality(S) <= MaxPerHour[k]
    BY <2>4, <2>5, <2>6
  <2> QED
    BY <2>7 DEF S
<1> QED
  BY <1>1, InitTypeInv, NextTypeInv, InitGrantInv, NextGrantInv, PTL DEF Spec

-----------------------------------------------------------------------------
(* The cached list of the nodes.                                           *)

LEMMA InitNodeInv == Init => NodeInv
BY DEF Init, NodeInv

LEMMA NextNodeInv == TypeInv /\ NodeInv /\ [Next]_investigationVars => NodeInv'
<1> SUFFICES ASSUME TypeInv, NodeInv, [Next]_investigationVars PROVE NodeInv'
  OBVIOUS
<1> USE TypeFacts
<1>1. CASE Tick
  BY <1>1 DEF Tick, NodeInv
<1>2. CASE ClusterChanges
  <2>1. nodes' \subseteq Node
    BY <1>2 DEF ClusterChanges
  <2> QED
    BY <1>2, <2>1 DEF ClusterChanges, NodeInv
<1>3. CASE UseTool
  <2>1. cache' \in {cache, [nodes |-> nodes, at |-> now]} /\ UNCHANGED <<now, nodes, present>>
    BY <1>3 DEF UseTool, RunTool, Renewed, LoopUnchanged
  <2> QED
    BY <2>1 DEF NodeInv
<1>4. CASE UNCHANGED <<now, nodes, cache, present>>
  BY <1>4 DEF NodeInv
<1>5. CASE Begin \/ GiveUp \/ AskAgain \/ Accept \/ TakeCalls \/ Interrupt \/ Raise
           \/ UNCHANGED investigationVars
  BY <1>4, <1>5 DEF Begin, GiveUp, AskAgain, Accept, TakeCalls, Interrupt, Raise,
                    LoopUnchanged, ToolsUnchanged, investigationVars, history
<1> QED
  BY <1>1, <1>2, <1>3, <1>5 DEF Next, Loop

\* A list that was fetched less than CacheTTL ago names only machines that were nodes
\* then or later; an old one is used only when the API does not answer.
THEOREM ActsGoToNodes == Spec => NodesAreKnown
<1> DEFINE Known == \A a \in acts' \ acts :
                      OnNode(a.call) /\ ~a.blind =>
                        a.call.target \in Node /\ now - present[a.call.target] < CacheTTL
<1>1. TypeInv /\ NodeInv /\ [Next]_investigationVars => [Known]_investigationVars
  <2> SUFFICES ASSUME TypeInv, NodeInv, [Next]_investigationVars,
                      NEW a \in acts' \ acts, OnNode(a.call), ~a.blind
               PROVE  a.call.target \in Node /\ now - present[a.call.target] < CacheTTL
    OBVIOUS
  <2> USE TypeFacts
  <2>1. UseTool
    BY DEF Next, Loop, Tick, ClusterChanges, Begin, GiveUp, AskAgain, Accept, TakeCalls,
           Interrupt, Raise, LoopUnchanged, ToolsUnchanged, investigationVars, history
  <2> DEFINE c == Head(d.todo)
  <2>2. c \in ToolCall /\ RunTool(c)
    BY <2>1, TodoFacts DEF UseTool, Current, TypeInv, TypeOK
  <2> HIDE DEF c
  <2>3. PICK answers \in BOOLEAN :
          /\ ~Refused(c, Renewed(answers).nodes)
          /\ Act(c, NewRecord(KeyOf(c), now), ~answers)
    BY <2>2 DEF RunTool
  <2>4. a.call = c /\ answers = TRUE
    <3>1. a = [grant |-> NewRecord(KeyOf(c), now), call |-> c, blind |-> ~answers]
      BY <2>3 DEF Act
    <3>2. a.call = c /\ a.blind = ~answers
      BY <3>1
    <3> QED
      BY <3>2
  <2> DEFINE list == Renewed(TRUE).nodes
  <2>5. list # {} => c.target \in list
    BY <2>3, <2>4 DEF Refused, NodeAllowed
  <2>6. CASE IsFresh
    <3>1. list = cache.nodes /\ list # {} /\ now - cache.at < CacheTTL
      BY <2>6 DEF Renewed, IsFresh
    <3>2. c.target \in Node /\ present[c.target] >= cache.at
          /\ present[c.target] \in Nat /\ cache.at \in Nat
      BY <2>5, <3>1 DEF NodeInv
    <3> QED
      BY <2>4, <3>1, <3>2, CacheAssumption
  <2>7. CASE ~IsFresh
    <3>1. list = nodes /\ nodes # {}
      BY <2>7 DEF Renewed, TypeInv, TypeOK
    <3>2. c.target \in Node /\ present[c.target] = now
      BY <2>5, <3>1 DEF NodeInv
    <3> QED
      BY <2>4, <3>2, CacheAssumption
  <2> QED
    BY <2>6, <2>7
<1> QED
  BY <1>1, InitTypeInv, NextTypeInv, InitNodeInv, NextNodeInv, PTL DEF Spec, NodesAreKnown
=============================================================================
