------------------------ MODULE RateLimitFlow_proofs ------------------------
(***************************************************************************)
(* Proofs about RateLimitFlow, for any number of processes, every window,  *)
(* every set of keys and their limits, and calls that break off anywhere.  *)
(***************************************************************************)
EXTENDS RateLimitFlow, FiniteSetTheorems, TLAPS

\* The processes whose call, at one of these points, is about a record in the window.
Calling(pcs, k, from) ==
    {p \in Process : /\ call[p].pc \in pcs /\ call[p].key = k
                     /\ from <= call[p].asOf /\ call[p].asOf <= from + Window}

Granting(k, from) == Calling({"insert"}, k, from)
Straggling(k, from) == Calling({"delete", "count", "insert"}, k, from)

\* Why WindowHolds is inductive.  As long as nothing of a window was swept, whoever
\* counts counts all of it: once it is full, only those can add to it who are past
\* their count, and at least one of all processes was past it when it became full.  A
\* sweep that takes something of it has a time behind its end: from then on only those
\* can add to it, and only once, whose call began before, and the sweeper is none.
Unswept(k, from) ==
    /\ GrantedIn(k, from) \subseteq records
    /\ Cardinality(GrantedIn(k, from)) + Cardinality(Granting(k, from))
         <= MaxPerHour[k] + Cardinality(Process) - 1

Swept(k, from) ==
    /\ from + Window < now
    /\ Cardinality(GrantedIn(k, from)) + Cardinality(Straggling(k, from))
         <= MaxPerHour[k] + 2 * (Cardinality(Process) - 1)

WindowInv == \A k \in Key, from \in Int : Unswept(k, from) \/ Swept(k, from)

TableInv ==
    /\ TypeOK
    /\ IsFiniteSet(granted)
    /\ \A p \in Process : call[p].asOf <= now

-----------------------------------------------------------------------------
(* The table.                                                              *)

LEMMA CallTypes ==
    ASSUME TypeOK, NEW p \in Process
    PROVE  /\ call[p].pc \in {"idle", "delete", "count", "insert"}
           /\ call[p].key \in Key /\ call[p].asOf \in Nat
           /\ \A g \in granted : g.ts \in Nat /\ g.key \in Key /\ g.id \in Nat
BY DEF TypeOK, Call, Record

LEMMA InitTable == Init => TableInv
<1> SUFFICES ASSUME Init PROVE TableInv
  OBVIOUS
<1>1. IsFiniteSet(granted)
  BY FS_EmptySet DEF Init
<1> QED
  BY <1>1 DEF Init, TableInv, TypeOK, Call, Record

LEMMA NextTable == TableInv /\ [Next]_vars => TableInv'
<1> SUFFICES ASSUME TableInv, [Next]_vars PROVE TableInv'
  OBVIOUS
<1>t. /\ now \in Nat /\ call \in [Process -> Call]
      /\ records \subseteq granted /\ granted \subseteq Record /\ IsFiniteSet(granted)
      /\ \A p \in Process : call[p].asOf <= now /\ call[p].asOf \in Nat
  BY DEF TableInv, TypeOK, Call
<1>1. CASE Tick \/ UNCHANGED vars
  BY <1>1, <1>t DEF Tick, vars, TableInv, TypeOK
<1>2. ASSUME NEW p \in Process, NEW k \in Key, Allow(p, k) PROVE TableInv'
  <2>1. [pc |-> "delete", key |-> k, asOf |-> now] \in Call
    BY <1>t DEF Call
  <2> QED
    BY <1>2, <1>t, <2>1 DEF Allow, TableInv, TypeOK
<1>3. ASSUME NEW p \in Process, Delete(p) PROVE TableInv'
  <2>1. call' \in [Process -> Call] /\ \A q \in Process : call'[q].asOf = call[q].asOf
    BY <1>3, <1>t DEF Delete, Call
  <2>2. records' \subseteq records
    BY <1>3 DEF Delete, WithoutExpired
  <2> QED
    BY <1>3, <1>t, <2>1, <2>2 DEF Delete, TableInv, TypeOK
<1>4. ASSUME NEW p \in Process, Refuse(p) \/ Count(p) \/ Break(p) PROVE TableInv'
  <2>1. call' \in [Process -> Call] /\ \A q \in Process : call'[q].asOf = call[q].asOf
    BY <1>4, <1>t DEF Refuse, Count, Break, Call
  <2> QED
    BY <1>4, <1>t, <2>1 DEF Refuse, Count, Break, TableInv, TypeOK
<1>5. ASSUME NEW p \in Process, Insert(p) PROVE TableInv'
  <2> DEFINE r == NewRecord(call[p].key, call[p].asOf)
  <2>1. /\ records' = records \cup {r} /\ granted' = granted \cup {r} /\ UNCHANGED now
        /\ call' = [call EXCEPT ![p].pc = "idle"]
    BY <1>5 DEF Insert
  <2>2. r \in Record
    <3>1. IsFiniteSet({g \in granted : g.key = call[p].key})
      BY <1>t, FS_Subset
    <3>2. Cardinality({g \in granted : g.key = call[p].key}) + 1 \in Nat
      BY <3>1, FS_CardinalityType
    <3> QED
      BY <1>t, <3>2 DEF NewRecord, Record, Call
  <2> HIDE DEF r
  <2>3. call' \in [Process -> Call] /\ \A q \in Process : call'[q].asOf = call[q].asOf
    BY <1>t, <2>1 DEF Call
  <2>4. IsFiniteSet(granted')
    BY <1>t, <2>1, FS_AddElement
  <2> QED
    BY <1>t, <2>1, <2>2, <2>3, <2>4 DEF TableInv, TypeOK
<1> QED
  BY <1>1, <1>2, <1>3, <1>4, <1>5 DEF Next

-----------------------------------------------------------------------------
(* The windows.                                                            *)

\* The sets that are counted are finite, and there is a process.
LEMMA Counts ==
    ASSUME TableInv, NEW k \in Key, NEW from
    PROVE  /\ IsFiniteSet(GrantedIn(k, from)) /\ Cardinality(GrantedIn(k, from)) \in Nat
           /\ \A pcs : /\ IsFiniteSet(Calling(pcs, k, from))
                       /\ Cardinality(Calling(pcs, k, from)) \in Nat
                       /\ Cardinality(Calling(pcs, k, from)) <= Cardinality(Process)
           /\ MaxPerHour[k] \in Nat
           /\ Cardinality(Process) \in Nat \ {0}
<1>1. IsFiniteSet(GrantedIn(k, from))
  BY FS_Subset DEF TableInv, GrantedIn
<1>2. ASSUME NEW pcs
      PROVE  /\ IsFiniteSet(Calling(pcs, k, from))
             /\ Cardinality(Calling(pcs, k, from)) <= Cardinality(Process)
  BY FS_Subset, ProcessAssumption DEF Calling
<1>3. Cardinality(Process) \in Nat \ {0}
  BY ProcessAssumption, FS_EmptySet, FS_CardinalityType
<1> QED
  BY <1>1, <1>2, <1>3, FS_CardinalityType, MaxPerHourAssumption

\* Fewer elements.
LEMMA Fewer ==
    ASSUME NEW S, IsFiniteSet(S), NEW T, T \subseteq S
    PROVE  Cardinality(T) <= Cardinality(S) /\ Cardinality(T) \in Nat /\ Cardinality(S) \in Nat
BY FS_Subset, FS_CardinalityType

LEMMA InitWindow == Init => WindowInv
<1> SUFFICES ASSUME Init, NEW k \in Key, NEW from \in Int PROVE Unswept(k, from)
  BY DEF WindowInv
<1>1. GrantedIn(k, from) = {} /\ Granting(k, from) = {}
  BY DEF Init, GrantedIn, Granting, Calling
<1>2. Cardinality({}) = 0
  BY FS_EmptySet
<1>3. MaxPerHour[k] \in Nat /\ Cardinality(Process) \in Nat \ {0}
  BY InitTable, Counts
<1> QED
  BY <1>1, <1>2, <1>3 DEF Unswept

\* A step that grants nothing, sweeps nothing, and after which no more calls are about
\* a record in the window.
LEMMA NothingGranted ==
    ASSUME TableInv, NEW k \in Key, NEW from \in Int, Unswept(k, from) \/ Swept(k, from),
           granted' = granted, now' \in Nat, now <= now',
           GrantedIn(k, from) \subseteq records => GrantedIn(k, from) \subseteq records',
           Granting(k, from)' \subseteq Granting(k, from),
           Swept(k, from) => Straggling(k, from)' \subseteq Straggling(k, from)
    PROVE  Unswept(k, from)' \/ Swept(k, from)'
<1>1. GrantedIn(k, from)' = GrantedIn(k, from)
  BY DEF GrantedIn
<1>2. now \in Nat
  BY DEF TableInv, TypeOK
<1>3. /\ IsFiniteSet(Granting(k, from)) /\ IsFiniteSet(Straggling(k, from))
      /\ Cardinality(GrantedIn(k, from)) \in Nat /\ MaxPerHour[k] \in Nat
      /\ Cardinality(Process) \in Nat
  BY Counts DEF Granting, Straggling
<1>4. CASE Unswept(k, from)
  <2>1. /\ Cardinality(Granting(k, from)') <= Cardinality(Granting(k, from))
        /\ Cardinality(Granting(k, from)') \in Nat /\ Cardinality(Granting(k, from)) \in Nat
    BY <1>3, Fewer
  <2> QED
    BY <1>1, <1>3, <1>4, <2>1 DEF Unswept
<1>5. CASE Swept(k, from)
  <2>1. /\ Cardinality(Straggling(k, from)') <= Cardinality(Straggling(k, from))
        /\ Cardinality(Straggling(k, from)') \in Nat
        /\ Cardinality(Straggling(k, from)) \in Nat
    BY <1>3, <1>5, Fewer
  <2>2. from + Window < now'
    BY <1>2, <1>5, WindowAssumption DEF Swept
  <2> QED
    BY <1>1, <1>3, <1>5, <2>1, <2>2 DEF Swept
<1> QED
  BY <1>4, <1>5

\* A sweep that takes something of a window comes from a process that cannot add to it.
LEMMA DeleteKeepsWindow ==
    ASSUME TableInv, NEW k \in Key, NEW from \in Int, Unswept(k, from) \/ Swept(k, from),
           NEW p \in Process, Delete(p)
    PROVE  Unswept(k, from)' \/ Swept(k, from)'
<1>1. /\ records' = {r \in records : r.ts >= call[p].asOf - Window}
      /\ call' = [call EXCEPT ![p].pc = "count"] /\ call[p].pc = "delete"
      /\ now' = now /\ granted' = granted
  BY DEF Delete, WithoutExpired
<1>2. /\ now \in Nat /\ call \in [Process -> Call] /\ call[p].asOf \in Nat
      /\ call[p].asOf <= now
      /\ \A g \in granted : g.ts \in Nat
  BY CallTypes DEF TableInv, TypeOK
<1>3. /\ Granting(k, from)' \subseteq Granting(k, from)
      /\ Straggling(k, from)' = Straggling(k, from)
  BY <1>1, <1>2 DEF Granting, Straggling, Calling, Call
<1>4. CASE Swept(k, from) \/ GrantedIn(k, from) \subseteq records'
  <2>1. CASE Swept(k, from)
    <3>1. Cardinality(GrantedIn(k, from)') = Cardinality(GrantedIn(k, from))
      BY <1>1 DEF GrantedIn
    <3> QED
      BY <1>1, <1>3, <2>1, <3>1 DEF Swept
  <2>2. CASE Unswept(k, from) /\ GrantedIn(k, from) \subseteq records'
    BY <1>1, <1>2, <1>3, <2>2, NothingGranted
  <2> QED
    BY <1>4, <2>1, <2>2
<1>5. CASE Unswept(k, from) /\ ~(GrantedIn(k, from) \subseteq records')
  <2>1. PICK g \in GrantedIn(k, from) : g \notin records'
    BY <1>5
  <2>2. g \in records /\ from <= g.ts /\ g.ts < call[p].asOf - Window
    BY <1>1, <1>2, <1>5, <2>1, WindowAssumption DEF Unswept, GrantedIn
  <2>3. from + Window < call[p].asOf /\ from + Window < now
    BY <1>2, <2>1, <2>2, WindowAssumption DEF GrantedIn
  <2>4. Straggling(k, from) \subseteq Process \ {p}
    BY <1>2, <2>3, WindowAssumption DEF Straggling, Calling
  <2>5. /\ Cardinality(Straggling(k, from)) <= Cardinality(Process) - 1
        /\ Cardinality(Straggling(k, from)) \in Nat
    <3>1. IsFiniteSet(Process \ {p}) /\ Cardinality(Process \ {p}) = Cardinality(Process) - 1
      BY ProcessAssumption, FS_RemoveElement
    <3> QED
      BY <2>4, <3>1, Fewer
  <2>6. /\ Cardinality(GrantedIn(k, from)) \in Nat /\ Cardinality(Granting(k, from)) \in Nat
        /\ MaxPerHour[k] \in Nat /\ Cardinality(Process) \in Nat
    BY Counts DEF Granting
  <2>7. Cardinality(GrantedIn(k, from)) + Cardinality(Straggling(k, from))
          <= MaxPerHour[k] + 2 * (Cardinality(Process) - 1)
    BY <1>5, <2>5, <2>6 DEF Unswept
  <2>8. GrantedIn(k, from)' = GrantedIn(k, from)
    BY <1>1 DEF GrantedIn
  <2> QED
    BY <1>1, <1>3, <2>3, <2>7, <2>8 DEF Swept
<1> QED
  BY <1>4, <1>5

\* Whoever is let through by its count has counted the whole of an unswept window.
LEMMA CountKeepsWindow ==
    ASSUME TableInv, NEW k \in Key, NEW from \in Int, Unswept(k, from) \/ Swept(k, from),
           NEW p \in Process, Count(p)
    PROVE  Unswept(k, from)' \/ Swept(k, from)'
<1>1. /\ call' = [call EXCEPT ![p].pc = "insert"] /\ call[p].pc = "count"
      /\ now' = now /\ granted' = granted /\ records' = records
      /\ ~Full(call[p].key, call[p].asOf)
  BY DEF Count
<1>2. /\ now \in Nat /\ call \in [Process -> Call] /\ call[p].asOf \in Nat
      /\ records \subseteq granted /\ \A g \in granted : g.ts \in Nat
  BY CallTypes DEF TableInv, TypeOK
<1>3. Straggling(k, from)' = Straggling(k, from)
  BY <1>1, <1>2 DEF Straggling, Calling, Call
<1>4. GrantedIn(k, from)' = GrantedIn(k, from)
  BY <1>1 DEF GrantedIn
<1>5. CASE Swept(k, from)
  BY <1>1, <1>3, <1>4, <1>5 DEF Swept
<1>6. CASE Unswept(k, from) /\ p \notin Granting(k, from)'
  <2>1. Granting(k, from)' \subseteq Granting(k, from)
    BY <1>1, <1>2, <1>6 DEF Granting, Calling, Call
  <2> QED
    BY <1>1, <1>2, <1>3, <1>6, <2>1, NothingGranted
<1>7. CASE Unswept(k, from) /\ p \in Granting(k, from)'
  <2>1. call[p].key = k /\ from <= call[p].asOf /\ call[p].asOf <= from + Window
    BY <1>1, <1>2, <1>7 DEF Granting, Calling, Call
  <2>2. GrantedIn(k, from) \subseteq Counted(k, call[p].asOf)
    <3> SUFFICES ASSUME NEW g \in GrantedIn(k, from) PROVE g.ts >= call[p].asOf - Window
      BY <1>7 DEF Unswept, GrantedIn, Counted
    <3> QED
      BY <1>2, <2>1, WindowAssumption DEF GrantedIn
  <2>3. IsFiniteSet(Counted(k, call[p].asOf))
    BY <1>2, FS_Subset DEF TableInv, Counted
  <2>4. /\ Cardinality(GrantedIn(k, from)) <= Cardinality(Counted(k, call[p].asOf))
        /\ Cardinality(Counted(k, call[p].asOf)) \in Nat
    BY <2>2, <2>3, Fewer
  <2>5. ~(Cardinality(Counted(k, call[p].asOf)) >= MaxPerHour[k])
    BY <1>1, <2>1 DEF Full
  <2>6. /\ Cardinality(GrantedIn(k, from)) \in Nat /\ MaxPerHour[k] \in Nat
        /\ Cardinality(Process) \in Nat
    BY Counts
  <2>7. /\ Cardinality(Granting(k, from)') <= Cardinality(Process)
        /\ Cardinality(Granting(k, from)') \in Nat
    <3>1. Granting(k, from)' \subseteq Process
      BY DEF Granting, Calling
    <3> QED
      BY <3>1, ProcessAssumption, Fewer
  <2>8. Cardinality(GrantedIn(k, from)) + Cardinality(Granting(k, from)')
          <= MaxPerHour[k] + Cardinality(Process) - 1
    BY <2>4, <2>5, <2>6, <2>7
  <2>9. GrantedIn(k, from)' \subseteq records'
    BY <1>1, <1>4, <1>7 DEF Unswept
  <2> QED
    BY <1>4, <2>8, <2>9 DEF Unswept
<1> QED
  BY <1>5, <1>6, <1>7

\* Whoever inserts is one of those who were counted as about to.
LEMMA InsertKeepsWindow ==
    ASSUME TableInv, NEW k \in Key, NEW from \in Int, Unswept(k, from) \/ Swept(k, from),
           NEW p \in Process, Insert(p)
    PROVE  Unswept(k, from)' \/ Swept(k, from)'
<1> DEFINE r == NewRecord(call[p].key, call[p].asOf)
<1>1. /\ call' = [call EXCEPT ![p].pc = "idle"] /\ call[p].pc = "insert"
      /\ now' = now /\ granted' = granted \cup {r} /\ records' = records \cup {r}
  BY DEF Insert
<1>2. r.key = call[p].key /\ r.ts = call[p].asOf
  BY DEF NewRecord
<1> HIDE DEF r
<1>3. now \in Nat /\ call \in [Process -> Call] /\ call[p].asOf \in Nat
  BY CallTypes DEF TableInv, TypeOK
<1>4. /\ Granting(k, from)' = Granting(k, from) \ {p}
      /\ Straggling(k, from)' = Straggling(k, from) \ {p}
  BY <1>1, <1>3 DEF Granting, Straggling, Calling, Call
<1>5. /\ IsFiniteSet(GrantedIn(k, from)) /\ Cardinality(GrantedIn(k, from)) \in Nat
      /\ IsFiniteSet(Granting(k, from)) /\ Cardinality(Granting(k, from)) \in Nat
      /\ IsFiniteSet(Straggling(k, from)) /\ Cardinality(Straggling(k, from)) \in Nat
      /\ MaxPerHour[k] \in Nat /\ Cardinality(Process) \in Nat
  BY Counts DEF Granting, Straggling
<1>6. /\ Cardinality(Granting(k, from) \ {p}) =
           IF p \in Granting(k, from) THEN Cardinality(Granting(k, from)) - 1
                                      ELSE Cardinality(Granting(k, from))
      /\ Cardinality(Straggling(k, from) \ {p}) =
           IF p \in Straggling(k, from) THEN Cardinality(Straggling(k, from)) - 1
                                        ELSE Cardinality(Straggling(k, from))
  BY <1>5, FS_RemoveElement
<1>7. CASE r.key = k /\ from <= r.ts /\ r.ts <= from + Window
  <2>1. p \in Granting(k, from) /\ p \in Straggling(k, from)
    BY <1>1, <1>2, <1>7 DEF Granting, Straggling, Calling
  <2>2. GrantedIn(k, from)' = GrantedIn(k, from) \cup {r}
    BY <1>1, <1>7 DEF GrantedIn
  <2>3. /\ Cardinality(GrantedIn(k, from)') <= Cardinality(GrantedIn(k, from)) + 1
        /\ Cardinality(GrantedIn(k, from)') \in Nat
    <3> DEFINE S == GrantedIn(k, from)
    <3>1. IsFiniteSet(S) /\ Cardinality(S) \in Nat /\ GrantedIn(k, from)' = S \cup {r}
      BY <1>5, <2>2
    <3> HIDE DEF S
    <3>2. Cardinality(S \cup {r}) = IF r \in S THEN Cardinality(S) ELSE Cardinality(S) + 1
      BY <3>1, FS_AddElement
    <3>3. Cardinality(S \cup {r}) <= Cardinality(S) + 1 /\ Cardinality(S \cup {r}) \in Nat
      BY <3>1, <3>2
    <3> QED
      BY <3>1, <3>3 DEF S
  <2>4. CASE Unswept(k, from)
    <3>1. Cardinality(GrantedIn(k, from)') + Cardinality(Granting(k, from)')
            <= MaxPerHour[k] + Cardinality(Process) - 1
      BY <1>4, <1>5, <1>6, <2>1, <2>3, <2>4 DEF Unswept
    <3>2. GrantedIn(k, from)' \subseteq records'
      BY <1>1, <2>2, <2>4 DEF Unswept
    <3> QED
      BY <3>1, <3>2 DEF Unswept
  <2>5. CASE Swept(k, from)
    <3>1. Cardinality(GrantedIn(k, from)') + Cardinality(Straggling(k, from)')
            <= MaxPerHour[k] + 2 * (Cardinality(Process) - 1)
      BY <1>4, <1>5, <1>6, <2>1, <2>3, <2>5 DEF Swept
    <3> QED
      BY <1>1, <2>5, <3>1 DEF Swept
  <2> QED
    BY <2>4, <2>5
<1>8. CASE ~(r.key = k /\ from <= r.ts /\ r.ts <= from + Window)
  <2>1. GrantedIn(k, from)' = GrantedIn(k, from)
    BY <1>1, <1>8 DEF GrantedIn
  <2>2. CASE Unswept(k, from)
    <3>1. Cardinality(GrantedIn(k, from)) + Cardinality(Granting(k, from)')
            <= MaxPerHour[k] + Cardinality(Process) - 1
      BY <1>4, <1>5, <1>6, <2>2 DEF Unswept
    <3> QED
      BY <1>1, <2>1, <2>2, <3>1 DEF Unswept
  <2>3. CASE Swept(k, from)
    <3>1. Cardinality(GrantedIn(k, from)) + Cardinality(Straggling(k, from)')
            <= MaxPerHour[k] + 2 * (Cardinality(Process) - 1)
      BY <1>4, <1>5, <1>6, <2>3 DEF Swept
    <3> QED
      BY <1>1, <2>1, <2>3, <3>1 DEF Swept
  <2> QED
    BY <2>2, <2>3
<1> QED
  BY <1>7, <1>8

LEMMA NextWindow == TableInv /\ WindowInv /\ [Next]_vars => WindowInv'
<1> SUFFICES ASSUME TableInv, [Next]_vars,
                    NEW k \in Key, NEW from \in Int, Unswept(k, from) \/ Swept(k, from)
             PROVE  Unswept(k, from)' \/ Swept(k, from)'
  BY DEF WindowInv
<1>t. now \in Nat /\ call \in [Process -> Call]
  BY DEF TableInv, TypeOK
<1>1. CASE Tick \/ UNCHANGED vars
  <2>1. /\ granted' = granted /\ records' = records /\ call' = call
        /\ now' \in Nat /\ now <= now'
    BY <1>1, <1>t DEF Tick, vars
  <2>2. /\ Granting(k, from)' = Granting(k, from)
        /\ Straggling(k, from)' = Straggling(k, from)
    BY <2>1 DEF Granting, Straggling, Calling
  <2> QED
    BY <2>1, <2>2, NothingGranted
<1>2. ASSUME NEW p \in Process, NEW key \in Key, Allow(p, key)
      PROVE  Unswept(k, from)' \/ Swept(k, from)'
  <2>1. /\ granted' = granted /\ records' = records /\ now' = now
        /\ call' = [call EXCEPT ![p] = [pc |-> "delete", key |-> key, asOf |-> now]]
    BY <1>2 DEF Allow
  <2>2. Granting(k, from)' \subseteq Granting(k, from)
    BY <1>t, <2>1 DEF Granting, Calling
  <2>3. Swept(k, from) => Straggling(k, from)' \subseteq Straggling(k, from)
    BY <1>t, <2>1, WindowAssumption DEF Swept, Straggling, Calling
  <2> QED
    BY <1>t, <2>1, <2>2, <2>3, NothingGranted
<1>3. ASSUME NEW p \in Process, Refuse(p) \/ Break(p)
      PROVE  Unswept(k, from)' \/ Swept(k, from)'
  <2>1. /\ granted' = granted /\ records' = records /\ now' = now
        /\ call' = [call EXCEPT ![p].pc = "idle"]
    BY <1>3 DEF Refuse, Break
  <2>2. /\ Granting(k, from)' \subseteq Granting(k, from)
        /\ Straggling(k, from)' \subseteq Straggling(k, from)
    BY <1>t, <2>1 DEF Granting, Straggling, Calling, Call
  <2> QED
    BY <1>t, <2>1, <2>2, NothingGranted
<1> QED
  BY <1>1, <1>2, <1>3, DeleteKeepsWindow, CountKeepsWindow, InsertKeepsWindow DEF Next

LEMMA WindowInvariant == Spec => [](TableInv /\ WindowInv)
BY InitTable, NextTable, InitWindow, NextWindow, PTL DEF Spec

\* What the invariant says of every window, beginning at a grant or not.
LEMMA EveryWindow ==
    ASSUME TableInv, WindowInv, NEW k \in Key, NEW from \in Int
    PROVE  Cardinality(GrantedIn(k, from)) <= MaxPerHour[k] + 2 * (Cardinality(Process) - 1)
<1>1. /\ Cardinality(GrantedIn(k, from)) \in Nat /\ Cardinality(Granting(k, from)) \in Nat
      /\ Cardinality(Straggling(k, from)) \in Nat
      /\ MaxPerHour[k] \in Nat /\ Cardinality(Process) \in Nat \ {0}
  BY Counts DEF Granting, Straggling
<1>2. CASE Unswept(k, from)
  BY <1>1, <1>2 DEF Unswept
<1>3. CASE Swept(k, from)
  BY <1>1, <1>3 DEF Swept
<1> QED
  BY <1>2, <1>3 DEF WindowInv

\* n processes on one table grant at most 2(n - 1) calls more than the limit in any
\* window, although allow() reads the clock before it sweeps, counts and inserts in three
\* statements, and may break off between any two of them.
THEOREM SharingIsBounded == Spec => []WindowHolds
<1>1. TableInv /\ WindowInv => WindowHolds
  BY EveryWindow DEF TableInv, TypeOK, Record, WindowHolds
<1> QED
  BY <1>1, WindowInvariant, PTL

\* One process, in one call at a time, never grants more than the limit in any window.
THEOREM OneProcessKeepsTheLimit ==
    ASSUME NEW self, Process = {self}
    PROVE  Spec => [](\A k \in Key, from \in Int :
                        Cardinality(GrantedIn(k, from)) <= MaxPerHour[k])
<1>1. Cardinality(Process) = 1
  BY FS_Singleton
<1>2. TableInv /\ WindowInv =>
        \A k \in Key, from \in Int : Cardinality(GrantedIn(k, from)) <= MaxPerHour[k]
  <2> SUFFICES ASSUME TableInv, WindowInv, NEW k \in Key, NEW from \in Int
               PROVE  Cardinality(GrantedIn(k, from)) <= MaxPerHour[k]
    OBVIOUS
  <2>1. Cardinality(GrantedIn(k, from)) \in Nat /\ MaxPerHour[k] \in Nat
    BY Counts
  <2> QED
    BY <1>1, <2>1, EveryWindow
<1> QED
  BY <1>2, WindowInvariant, PTL
=============================================================================
