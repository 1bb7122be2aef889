------------------------------ MODULE RateLimit ------------------------------
(***************************************************************************)
(* tools/safety_guards.py: the table rate_limit_records and the three SQL  *)
(* statements of allow().  Each statement is atomic; the three together    *)
(* are not, for the connection is in autocommit mode.                      *)
(***************************************************************************)
EXTENDS Integers, FiniteSets

CONSTANTS
    Key,        \* pairs of a target and an action
    Window,     \* 3600 seconds
    MaxPerHour  \* max_per_hour of each key, as its caller passes it

ASSUME WindowAssumption == Window \in Nat
ASSUME MaxPerHourAssumption == MaxPerHour \in [Key -> Nat]

VARIABLES
    now,      \* int(time.time())
    records,  \* the table
    granted   \* history: every record that was ever inserted

\* id stands for the AUTOINCREMENT key: the records of one key are numbered apart, which
\* keeps any two records apart.
Record == [id : Nat, key : Key, ts : Nat]

\* DELETE ... WHERE ts < cutoff, for a call that read the time t.  Seeded bug: the
\* comparison includes the cutoff.
WithoutExpiredBug(t) == {r \in records : r.ts > t - Window}
WithoutExpired(t) == {r \in records : r.ts >= t - Window}

\* SELECT COUNT(*) ... WHERE target=? AND action=? AND ts >= cutoff.
Counted(k, t) == {r \in records : r.key = k /\ r.ts >= t - Window}

Full(k, t) == Cardinality(Counted(k, t)) >= MaxPerHour[k]

\* INSERT.
NewRecord(k, t) == [id |-> Cardinality({g \in granted : g.key = k}) + 1, key |-> k, ts |-> t]
=============================================================================
