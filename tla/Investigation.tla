---------------------------- MODULE Investigation ----------------------------
(***************************************************************************)
(* agents/investigator.py: one diagnosis after the other, each a loop of a *)
(* language model and the tools it calls, with the guards against a model  *)
(* that goes round in circles.  Four of the tools act outside the program: *)
(* tools/ssh_tools.py runs a read-only command on a node or in a pod, and  *)
(* tools/approval_exec.py asks for one that people must approve.  They     *)
(* share the cached list of the nodes and the rate limit, which outlive    *)
(* the diagnosis.  What the model answers is chosen freely.                *)
(***************************************************************************)
EXTENDS RateLimit, Sequences

CONSTANTS
    Node,          \* names of nodes
    ToolCall,      \* what the model may call: see ToolCallAssumption
    Environment,   \* settings: USE_FUNCTION_CALLING and the two switches
    MaxSteps,      \* INVESTIGATOR_MAX_STEPS
    LightSteps,    \* 3: the steps of a light diagnosis
    CacheTTL,      \* _NODE_CACHE_TTL
    DatabaseFails, \* whether a statement on a database may raise
    ApiFails,      \* whether the API may leave a question for the nodes open
    MaxCalls,      \* bound: tool calls in one message
    MaxTime,       \* bound: the clock stops here
    MaxChanges,    \* bound: changes of the cluster
    MaxDiagnoses,  \* bound: diagnoses begun
    MaxGrants      \* bound: grants made before a diagnosis begins

Tool == {"query", "ssh", "exec", "askNode", "askPod"}

\* word is what else the rate limit looks at: the command's first word for ssh, the
\* trace_id for a request.  fit: the command passes the white list or the black list,
\* and a request its reason.  hashable: the arguments can be part of a dictionary's key.
ASSUME ToolCallAssumption ==
    \A c \in ToolCall : c.tool \in Tool /\ c.fit \in BOOLEAN /\ c.hashable \in BOOLEAN
ASSUME StepsAssumption == MaxSteps \in Int /\ LightSteps \in Nat
\* A cluster has a node, and the list of the nodes is worth keeping for a while.
ASSUME NodeAssumption == Node # {}
ASSUME CacheAssumption == CacheTTL \in Nat \ {0}
ASSUME InvestigationBoundsAssumption ==
    {MaxCalls, MaxTime, MaxChanges, MaxDiagnoses, MaxGrants} \subseteq Nat

NodeTools == {"ssh", "askNode"}
OnNode(c) == c.tool \in NodeTools
IsRequest(c) == c.tool \in {"askNode", "askPod"}

\* The target and action each tool gives to allow.
KeyOf(c) == IF c.tool = "exec" THEN <<c.tool, c.target>> ELSE <<c.tool, c.target, c.word>>
ASSUME KeysAssumption == \A c \in ToolCall : KeyOf(c) \in Key

VARIABLES
    env,       \* the settings of this process
    nodes,     \* the cluster's nodes
    cache,     \* _NODE_CACHE
    d,         \* the diagnosis in hand
    \* history, read by the bounds and the properties only
    present,   \* when each node was last a node of the cluster
    acts,      \* commands begun and requests written: by which grant, and whether blind,
               \* because the API left the question for the nodes open
    used,      \* how often this diagnosis ran each call
    changes, diagnoses

rate == <<records, granted>>
history == <<present, acts, used, changes, diagnoses>>
investigationVars == <<now, rate, env, nodes, cache, d, history>>

\* counts is call_counter, evidence its length, drafts empty_call_retry; todo are the
\* calls of the last message that are not yet handled.
Idle == [pc |-> "idle", steps |-> 0, step |-> 0, todo |-> <<>>, drafts |-> 0,
         evidence |-> 0, counts |-> [c \in ToolCall |-> 0], result |-> ""]

Init ==
    /\ now = 0 /\ records = {} /\ granted = {}
    /\ env \in Environment
    /\ nodes = Node
    /\ cache = [nodes |-> {}, at |-> 0]
    /\ d = Idle
    /\ present = [n \in Node |-> 0]
    /\ acts = {} /\ used = Idle.counts
    /\ changes = 0 /\ diagnoses = 0

-----------------------------------------------------------------------------
(* The world.                                                              *)

Tick ==
    /\ now < MaxTime
    /\ now' = now + 1
    /\ present' = [n \in Node |-> IF n \in nodes THEN now + 1 ELSE present[n]]
    /\ UNCHANGED <<rate, env, nodes, cache, d, acts, used, changes, diagnoses>>

\* Nodes leave or join the cluster, which keeps at least one.
ClusterChanges ==
    /\ changes < MaxChanges
    /\ changes' = changes + 1
    /\ nodes' \in (SUBSET Node) \ {{}, nodes}
    /\ present' = [n \in Node |-> IF n \in nodes' THEN now ELSE present[n]]
    /\ UNCHANGED <<now, rate, env, cache, d, acts, used, diagnoses>>

-----------------------------------------------------------------------------
(* The tools.                                                              *)

\* _fetch_live_nodes.  Seeded bug: the list is renewed only when there is none.
IsFreshBug == cache.nodes # {}
IsFresh == cache.nodes # {} /\ now - cache.at < CacheTTL

\* The cache after a look, when the API answers or when it does not and the old list
\* stays in use.
Renewed(answers) == IF IsFresh \/ ~answers THEN cache ELSE [nodes |-> nodes, at |-> now]

\* _node_allowed: without any list every well-formed name is.
NodeAllowed(n, list) == list = {} \/ n \in list

SwitchedOn(c) == IF IsRequest(c) THEN env.requests ELSE env.readonly

\* A read-only tool looks at its switch before it looks at the node, a request after.
Consults(c) == OnNode(c) /\ (IsRequest(c) \/ env.readonly)

\* Everything that ends a call before the rate limit is asked, given the list in use.
Refused(c, list) ==
    \/ c.tool = "query"
    \/ ~SwitchedOn(c) \/ ~c.fit
    \/ OnNode(c) /\ ~NodeAllowed(c.target, list)

\* A command has begun, or a request is written.
Act(c, grant, blind) == acts' = acts \cup {[grant |-> grant, call |-> c, blind |-> blind]}

\* ssh_run, kubectl_exec_readonly, ssh_node_with_approval, kubectl_exec_with_approval
\* and the tools that only read.  Nothing is raised: a full limit, a locked database, a
\* timeout or a row that could not be written is a text for the model.  Seeded bug: the
\* limit is asked and its answer not looked at.
RunToolBug(c) ==
    /\ cache' = IF Consults(c) THEN Renewed(TRUE) ELSE cache
    /\ LET grant == NewRecord(KeyOf(c), now)
       IN  IF Refused(c, cache'.nodes) THEN UNCHANGED <<rate, acts>>
           ELSE /\ records' = WithoutExpired(now) \cup {grant}
                /\ granted' = granted \cup {grant}
                /\ Act(c, grant, FALSE)

RunTool(c) ==
    \E answers \in IF ApiFails /\ Consults(c) /\ ~IsFresh THEN BOOLEAN ELSE {TRUE} :
        LET list == Renewed(answers).nodes
            grant == NewRecord(KeyOf(c), now)
        IN  /\ cache' = IF Consults(c) THEN Renewed(answers) ELSE cache
            /\ \/ Refused(c, list) /\ UNCHANGED <<rate, acts>>
               \/ /\ ~Refused(c, list)
                  /\ \/ DatabaseFails /\ records' \in {records, WithoutExpired(now)}
                     \/ Full(KeyOf(c), now) /\ records' = WithoutExpired(now)
                  /\ UNCHANGED <<granted, acts>>
               \/ /\ ~Refused(c, list) /\ ~Full(KeyOf(c), now)
                  /\ records' = WithoutExpired(now) \cup {grant}
                  /\ granted' = granted \cup {grant}
                  /\ \/ Act(c, grant, ~answers)
                     \/ IsRequest(c) /\ DatabaseFails /\ UNCHANGED acts

-----------------------------------------------------------------------------
(* The loop.                                                               *)

\* investigator_node, when no memory answers (HealPipeline has the memory).
Begin ==
    /\ d.pc \in {"idle", "done"}
    /\ diagnoses < MaxDiagnoses
    /\ Cardinality(granted) <= MaxGrants
    /\ diagnoses' = diagnoses + 1
    /\ \E steps \in {LightSteps, MaxSteps} :
         d' = [Idle EXCEPT !.pc = "model", !.steps = steps]
    /\ used' = Idle.counts
    /\ UNCHANGED <<now, rate, env, nodes, cache, present, acts, changes>>

\* rca_hypothesis: the model's, or _build_fallback_hypothesis.  Only "nothing", the
\* fallback without any evidence, is what remediator_node takes for no diagnosis.
Conclude(accepted) ==
    d' = [d EXCEPT !.pc = "done", !.todo = <<>>, !.counts = Idle.counts,
                   !.result = IF accepted THEN "final"
                              ELSE IF d.evidence > 0 THEN "unfinished" ELSE "nothing"]

LoopUnchanged == UNCHANGED <<now, env, nodes, present, changes, diagnoses>>
ToolsUnchanged == UNCHANGED <<rate, cache, acts, used>>

Asking == d.pc = "model" /\ d.step < d.steps

\* The model cannot be reached, or the steps are used up, or, without function
\* calling, the answer is no decision.
GiveUp ==
    /\ d.pc = "model"
    /\ Conclude(FALSE)
    /\ LoopUnchanged /\ ToolsUnchanged

\* An answer without a tool call.  _looks_like_draft, and a conclusion in the very first
\* step, send it back once.  Seeded bugs: only drafts are sent back; an answer that is
\* sent back costs no step, and the count starts again.
SentBackBug(draft) == env.fc /\ draft
SentBack(draft) == env.fc /\ (draft \/ (d.step = 0 /\ d.evidence = 0))

AskAgainBug ==
    /\ Asking
    /\ SentBack(TRUE)
    /\ d' = [d EXCEPT !.drafts = 1 - @]
    /\ LoopUnchanged /\ ToolsUnchanged

AskAgain ==
    /\ Asking
    /\ \E draft \in BOOLEAN : SentBack(draft)
    /\ IF d.drafts + 1 >= 2 THEN Conclude(FALSE)
       ELSE d' = [d EXCEPT !.step = @ + 1, !.drafts = @ + 1]
    /\ LoopUnchanged /\ ToolsUnchanged

Accept ==
    /\ Asking
    /\ ~SentBack(FALSE)
    /\ Conclude(TRUE)
    /\ LoopUnchanged /\ ToolsUnchanged

\* A message of tool calls; without function calling, of one.
Message == UNION {[1..n -> ToolCall] : n \in 1..(IF env.fc THEN MaxCalls ELSE 1)}

TakeCalls ==
    /\ Asking
    /\ \E message \in Message :
         d' = [d EXCEPT !.pc = "tools", !.step = @ + 1, !.todo = message]
    /\ LoopUnchanged /\ ToolsUnchanged

Current == Head(d.todo)

\* The third time the same call is met, the loop ends, with the rest of the message
\* not run.  Seeded bugs: the comparison is strict; only calls that follow one another
\* are counted.
TooOftenBug(c) == env.fc /\ d.counts[c] + 1 > 3
TooOften(c) == env.fc /\ d.counts[c] + 1 >= 3
CallCountedBug(c) == [x \in ToolCall |-> IF x = c THEN d.counts[c] + 1 ELSE 0]
CallCounted(c) == [d.counts EXCEPT ![c] = @ + 1]

Interrupt ==
    /\ d.pc = "tools"
    /\ Current.hashable /\ TooOften(Current)
    /\ Conclude(FALSE)
    /\ LoopUnchanged /\ ToolsUnchanged

\* Nobody on the way to _run_cycle_body catches what the loop raises, and the alert has
\* no diagnosis: call_counter, with a dictionary or a list among the arguments; without
\* function calling, an answer whose thought is null, or a conclusion whose key_evidence
\* is no list of strings.
Raise ==
    /\ \/ d.pc = "tools" /\ env.fc /\ ~Current.hashable
       \/ Asking /\ ~env.fc
    /\ d' = [d EXCEPT !.pc = "idle", !.todo = <<>>, !.counts = Idle.counts]
    /\ LoopUnchanged /\ ToolsUnchanged

UseTool ==
    /\ d.pc = "tools"
    /\ env.fc => Current.hashable /\ ~TooOften(Current)
    /\ RunTool(Current)
    /\ used' = [used EXCEPT ![Current] = @ + 1]
    /\ d' = [d EXCEPT !.pc = IF Len(d.todo) > 1 THEN "tools" ELSE "model",
                      !.todo = Tail(d.todo), !.evidence = @ + 1,
                      !.counts = IF env.fc THEN CallCounted(Current) ELSE @]
    /\ LoopUnchanged

Loop == GiveUp \/ AskAgain \/ Accept \/ TakeCalls \/ Interrupt \/ Raise \/ UseTool

Next == Tick \/ ClusterChanges \/ Begin \/ Loop

Spec == Init /\ [][Next]_investigationVars

\* The loop runs on: every call of a model or a tool has a timeout.
FairSpec == Spec /\ WF_investigationVars(Loop)

-----------------------------------------------------------------------------
(* Properties.                                                             *)

TypeOK ==
    /\ now \in 0..MaxTime /\ records \subseteq granted /\ granted \subseteq Record
    /\ env \in Environment /\ nodes \in (SUBSET Node) \ {{}}
    /\ cache.nodes \subseteq Node /\ cache.at \in 0..now
    /\ d.pc \in {"idle", "model", "tools", "done"}
    /\ d.step <= d.steps \/ d.step = 0
    /\ d.todo \in {<<>>} \cup Message
    /\ d.pc = "tools" => d.todo # <<>>
    /\ d.drafts \in 0..1
    /\ d.counts \in [ToolCall -> 0..2]
    /\ d.result \in {"", "final", "unfinished", "nothing"}

\* In no hour do more commands begin, or are more requests written, for one target and
\* action than its limit allows, over all diagnoses, whatever the model asks for and
\* whatever fails on the way (_rate_check, kubectl_exec_readonly,
\* submit_diagnostic_approval).
ActsAreRated ==
    \A k \in Key, from \in 0..now :
        Cardinality({a \in acts : /\ a.grant.key = k
                                  /\ from <= a.grant.ts /\ a.grant.ts <= from + Window})
          <= MaxPerHour[k]

\* As long as the API answers, no command and no request goes to a machine that has
\* not been a node of the cluster for CacheTTL or longer, or never was one, although
\* the list in use is a cached one (_fetch_live_nodes, _node_allowed).
NodesAreKnown ==
    [][\A a \in acts' \ acts :
         OnNode(a.call) /\ ~a.blind =>
           a.call.target \in Node /\ now - present[a.call.target] < CacheTTL]_investigationVars

\* With function calling, no call is run a third time in one diagnosis, in whatever
\* messages and in between whatever others it comes (_run_function_calling).
NothingRunsThrice == env.fc => \A c \in ToolCall : used[c] <= 2

\* With function calling, a conclusion that rests on no tool's result is accepted only
\* from a model that was sent back once.  And a diagnosis that the Remediator takes for
\* none ran no tool (_run_function_calling, _build_fallback_hypothesis).
ConclusionsAreGrounded ==
    d.pc = "done" =>
        /\ d.result = "final" /\ env.fc => d.drafts = 1 \/ \E c \in ToolCall : used[c] > 0
        /\ d.result = "nothing" => \A c \in ToolCall : used[c] = 0

\* Every diagnosis ends, whatever the model answers.
EveryDiagnosisEnds == d.pc \in {"model", "tools"} ~> d.pc \in {"idle", "done"}
=============================================================================
