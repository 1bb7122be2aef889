--------------------------- MODULE AtomicActions ---------------------------
(***************************************************************************)
(* What a caller of remediation_actions.py may rely on for a node's mark   *)
(* and a deployment's replica count, whatever else goes on in the cluster: *)
(* a call takes effect at one instant between its start and its answer, or *)
(* not at all, and "ok" means that it did, or that there was nothing to    *)
(* do.  A relative scaling starts from a count the deployment had during   *)
(* the call, which need not be the last.                                   *)
(***************************************************************************)
EXTENDS Integers

CONSTANTS Actor, Request, NoRequest, MaxDelta, MaxReplicas

VARIABLES
    cordoned, replicas,
    open,  \* the request of an actor's call, or NoRequest
    ok,    \* the answer to its last call
    counts \* the replica counts during its call

vars == <<cordoned, replicas, open, ok, counts>>

Init ==
    /\ cordoned \in BOOLEAN
    /\ replicas \in Nat
    /\ open = [a \in Actor |-> NoRequest]
    /\ ok = [a \in Actor |-> FALSE]
    /\ counts = [a \in Actor |-> {}]

Begin(a, r) ==
    /\ open[a] = NoRequest
    /\ open' = [open EXCEPT ![a] = r]
    /\ counts' = [counts EXCEPT ![a] = {replicas}]
    /\ UNCHANGED <<cordoned, replicas, ok>>

\* The counts a scaling may leave behind.
Wanted(r, from) ==
    {n \in 0 .. MaxReplicas :
        \/ r.mode = "replicas" /\ n = r.n
        \/ r.mode = "delta" /\ r.n \in -MaxDelta .. MaxDelta /\ n - r.n \in from}

\* The call takes effect, or finds it there already.
TakesEffect(a) ==
    LET r == open[a]
    IN  CASE r.action = "cordon_node"      -> cordoned' /\ UNCHANGED replicas
          [] r.action = "uncordon_node"    -> ~cordoned' /\ UNCHANGED replicas
          [] r.action = "scale_deployment" ->
               replicas' \in Wanted(r, counts[a]) /\ UNCHANGED cordoned
          [] OTHER                         -> UNCHANGED <<cordoned, replicas>>

Return(a) ==
    /\ open[a] # NoRequest
    /\ open' = [open EXCEPT ![a] = NoRequest]
    /\ \E answer \in BOOLEAN : ok' = [ok EXCEPT ![a] = answer]
    /\ \/ TakesEffect(a) /\ (open[a].dryRun => UNCHANGED <<cordoned, replicas>>)
       \/ UNCHANGED <<cordoned, replicas>> /\ (ok'[a] => open[a].dryRun)
    /\ counts' = [b \in Actor |->
                    IF b # a /\ open[b] # NoRequest THEN counts[b] \cup {replicas'}
                                                     ELSE {}]

\* Other users and the autoscaler.
Elsewhere ==
    /\ cordoned' \in BOOLEAN /\ replicas' \in Nat
    /\ counts' = [a \in Actor |->
                    IF open[a] # NoRequest THEN counts[a] \cup {replicas'} ELSE {}]
    /\ UNCHANGED <<open, ok>>

Next ==
    \/ \E a \in Actor : Return(a) \/ \E r \in Request : Begin(a, r)
    \/ Elsewhere

AtomicSpec == Init /\ [][Next]_vars
=============================================================================
