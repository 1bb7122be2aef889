---------------------------- MODULE RateLimitFlow ----------------------------
(***************************************************************************)
(* Processes that call allow() on one database: the main process at the    *)
(* Approval Gate, the review CLI after an approval, a second replica of    *)
(* either.  Within a process _db_lock keeps calls apart, so a process is   *)
(* in one call at a time; between processes nothing does.                  *)
(***************************************************************************)
EXTENDS RateLimit

CONSTANTS
    Process,
    MaxTime,   \* bound: the clock stops here
    MaxGrants  \* bound: no record is inserted after this many

ASSUME ProcessAssumption == IsFiniteSet(Process) /\ Process # {}
ASSUME FlowBoundsAssumption == MaxTime \in Nat /\ MaxGrants \in Nat

VARIABLE call  \* process -> the call of allow() it is in

vars == <<now, records, granted, call>>

\* asOf is the time the call read before it took the lock.
Call == [pc : {"idle", "delete", "count", "insert"}, key : Key, asOf : Nat]

TypeOK ==
    /\ now \in Nat
    /\ records \subseteq granted
    /\ granted \subseteq Record
    /\ call \in [Process -> Call]

Init ==
    /\ now = 0
    /\ records = {}
    /\ granted = {}
    /\ \E k \in Key : call = [p \in Process |-> [pc |-> "idle", key |-> k, asOf |-> 0]]

Tick ==
    /\ now < MaxTime
    /\ now' = now + 1
    /\ UNCHANGED <<records, granted, call>>

Allow(p, k) ==
    /\ call[p].pc = "idle"
    /\ call' = [call EXCEPT ![p] = [pc |-> "delete", key |-> k, asOf |-> now]]
    /\ UNCHANGED <<now, records, granted>>

Delete(p) ==
    /\ call[p].pc = "delete"
    /\ records' = WithoutExpired(call[p].asOf)
    /\ call' = [call EXCEPT ![p].pc = "count"]
    /\ UNCHANGED <<now, granted>>

\* The call is refused, or goes on to grant.
Refuse(p) ==
    /\ call[p].pc = "count"
    /\ Full(call[p].key, call[p].asOf)
    /\ call' = [call EXCEPT ![p].pc = "idle"]
    /\ UNCHANGED <<now, records, granted>>

Count(p) ==
    /\ call[p].pc = "count"
    /\ ~Full(call[p].key, call[p].asOf)
    /\ call' = [call EXCEPT ![p].pc = "insert"]
    /\ UNCHANGED <<now, records, granted>>

Insert(p) ==
    /\ call[p].pc = "insert"
    /\ Cardinality(granted) < MaxGrants
    /\ LET r == NewRecord(call[p].key, call[p].asOf)
       IN  records' = records \cup {r} /\ granted' = granted \cup {r}
    /\ call' = [call EXCEPT ![p].pc = "idle"]
    /\ UNCHANGED now

\* The process ends, or a statement raises, in the middle of a call.
Break(p) ==
    /\ call[p].pc # "idle"
    /\ call' = [call EXCEPT ![p].pc = "idle"]
    /\ UNCHANGED <<now, records, granted>>

Next ==
    \/ Tick
    \/ \E p \in Process :
         \/ \E k \in Key : Allow(p, k)
         \/ Delete(p) \/ Refuse(p) \/ Count(p) \/ Insert(p) \/ Break(p)

Spec == Init /\ [][Next]_vars

-----------------------------------------------------------------------------
(* Properties.                                                             *)

GrantedIn(k, from) == {g \in granted : g.key = k /\ from <= g.ts /\ g.ts <= from + Window}

\* However many processes share the table, an hour, both ends included, holds at most two
\* grants for one target and action beyond the limit for each process but one: a
\* process may have counted before the others inserted, and once more with a time it read
\* before another one swept (allow).  One process alone never exceeds the limit.
WindowHolds ==
    \A g \in granted :
        Cardinality(GrantedIn(g.key, g.ts)) <= MaxPerHour[g.key] + 2 * (Cardinality(Process) - 1)
=============================================================================
