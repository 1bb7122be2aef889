----------------------- MODULE InspectionCycle_proofs -----------------------
(***************************************************************************)
(* Proofs about InspectionCycle, for every finite cluster and every finite *)
(* set of metric rules, all policies and settings, any number of changes   *)
(* to the cluster and of cycles that fail.                                 *)
(***************************************************************************)
EXTENDS InspectionCycle, FiniteSetTheorems, WellFoundedInduction, TLAPS

\* Every nonempty set of numbers has a least one.
LEMMA Least ==
    ASSUME NEW S, S \subseteq Nat, S # {}
    PROVE  \E m \in S : \A n \in S : m <= n
<1> DEFINE R == OpToRel(<, Nat)
<1>1. IsWellFoundedOn(R, Nat)
  BY NatLessThanWellFounded
<1>2. ASSUME NEW m \in Nat, NEW n \in Nat, ~(<<n, m>> \in R)
      PROVE  m <= n
  <2>1. <<n, m>> \in Nat \X Nat /\ ~(n < m)
    BY <1>2 DEF OpToRel
  <2> QED
    BY <2>1
<1> HIDE DEF R
<1>3. \E m \in S : \A n \in S : ~(<<n, m>> \in R)
  BY <1>1, WFMin
<1> QED
  BY <1>2, <1>3

\* Every finite nonempty set of integers has a greatest one: a smallest subset without one
\* would lose it with any of its elements.
HasGreatest(S) == \E m \in S : \A n \in S : n <= m

LEMMA Greatest ==
    ASSUME NEW S, S \subseteq Int, S # {}, IsFiniteSet(S)
    PROVE  HasGreatest(S)
<1> DEFINE Bad == {T \in SUBSET S : T # {} /\ ~HasGreatest(T)}
           Sizes == {Cardinality(T) : T \in Bad}
<1>1. SUFFICES ASSUME Bad # {} PROVE FALSE
  OBVIOUS
<1>2. \A T \in SUBSET S : IsFiniteSet(T) /\ Cardinality(T) \in Nat
  BY FS_Subset, FS_CardinalityType
<1>3. Sizes \subseteq Nat /\ Sizes # {}
  BY <1>1, <1>2
<1>4. PICK T \in Bad : \A U \in Bad : Cardinality(T) <= Cardinality(U)
  <2>1. PICK m \in Sizes : \A n \in Sizes : m <= n
    <3> HIDE DEF Sizes
    <3> QED
      BY <1>3, Least
  <2> QED
    BY <2>1
<1>5. PICK x \in T : TRUE
  OBVIOUS
<1> DEFINE U == T \ {x}
<1>6. Cardinality(U) = Cardinality(T) - 1
  BY <1>2, <1>5, FS_RemoveElement
<1>7. U \notin Bad
  BY <1>2, <1>4, <1>6
<1>8. CASE U = {}
  <2>1. T = {x} /\ x \in Int
    BY <1>5, <1>8
  <2>2. HasGreatest(T)
    BY <2>1 DEF HasGreatest
  <2> QED
    BY <2>2
<1>9. CASE HasGreatest(U)
  <2>1. PICK m \in U : \A n \in U : n <= m
    BY <1>9 DEF HasGreatest
  <2>2. m \in T /\ x \in T /\ m \in Int /\ x \in Int /\ \A n \in T : n \in Int /\ (n = x \/ n \in U)
    BY <1>5, <2>1
  <2>3. CASE m <= x
    <3>1. \A n \in T : n <= x
      BY <2>1, <2>2, <2>3
    <3> QED
      BY <2>2, <3>1 DEF HasGreatest
  <2>4. CASE ~(m <= x)
    <3>1. \A n \in T : n <= m
      BY <2>1, <2>2, <2>4
    <3> QED
      BY <2>2, <3>1 DEF HasGreatest
  <2> QED
    BY <2>3, <2>4
<1> QED
  BY <1>7, <1>8, <1>9

-----------------------------------------------------------------------------
(* Issues, for every finite set of them.                                   *)

Severities == {"critical", "high", "medium", "low"}

\* What the ranking looks at.
IsIssue(i) == i.severity \in Severities /\ i.restarts \in Nat

LEMMA SevRanks ==
    ASSUME NEW i, i.severity \in Severities
    PROVE  /\ SevRank(i) \in 0 .. 3
           /\ i.severity \in {"critical", "high"} => SevRank(i) <= 1
           /\ i.severity = "medium" => SevRank(i) = 2
<1>1. CASE i.severity = "critical"
  BY <1>1 DEF SevRank
<1>2. CASE i.severity = "high"
  BY <1>2 DEF SevRank
<1>3. CASE i.severity = "medium"
  BY <1>3 DEF SevRank
<1>4. CASE i.severity = "low"
  BY <1>4 DEF SevRank
<1> QED
  BY <1>1, <1>2, <1>3, <1>4 DEF Severities

\* A group has a representative (_group_similar_issues).
LEMMA RepresentativeIsMember ==
    ASSUME NEW M, M # {}, IsFiniteSet(M), \A i \in M : IsIssue(i)
    PROVE  Representative(M) \in M
<1> DEFINE Counts == {i.restarts : i \in M}
<1>1. PICK m \in Counts : \A n \in Counts : n <= m
  <2>1. IsFiniteSet(Counts) /\ Counts # {} /\ Counts \subseteq Int
    <3>1. IsFiniteSet(Counts)
      <4> DEFINE count == [i \in M |-> i.restarts]
      <4>1. count \in Surjection(M, Counts)
        BY DEF Surjection
      <4> QED
        BY <4>1, FS_Surjection
    <3> QED
      BY <3>1 DEF IsIssue
  <2> HIDE DEF Counts
  <2> QED
    BY <2>1, Greatest DEF HasGreatest
<1> DEFINE Ranks == {SevRank(i) : i \in {j \in M : j.restarts = m}}
<1>2. PICK s \in Ranks : \A t \in Ranks : s <= t
  <2>1. Ranks \subseteq Nat
    BY SevRanks DEF IsIssue
  <2>2. Ranks # {}
    OBVIOUS
  <2> HIDE DEF Ranks
  <2> QED
    BY <2>1, <2>2, Least
<1>3. PICK i \in M : i.restarts = m /\ SevRank(i) = s
  OBVIOUS
<1>4. ASSUME NEW j \in M
      PROVE  \/ i.restarts > j.restarts
             \/ i.restarts = j.restarts /\ SevRank(i) <= SevRank(j)
  <2>1. j.restarts \in Nat /\ i.restarts \in Nat /\ j.restarts <= m
    BY <1>1 DEF IsIssue
  <2>2. j.restarts = m => SevRank(i) <= SevRank(j)
    BY <1>2, <1>3
  <2> QED
    BY <1>3, <2>1, <2>2
<1> QED
  BY <1>3, <1>4 DEF Representative

\* A group of a full or of a light diagnosis.
IsGroup(g, issues) ==
    /\ g.members \subseteq issues /\ g.lead \in g.members
    /\ \/ g.mode = "full" /\ \A i \in g.members : i.severity \in {"critical", "high"}
       \/ g.mode = "light" /\ \A i \in g.members : i.severity = "medium"

Apart(g, h) == g = h \/ g.members \cap h.members = {}

\* The groups of one mode (_group_similar_issues).
LEMMA SelectedGroups ==
    ASSUME NEW I, IsFiniteSet(I), \A i \in I : IsIssue(i), NEW dedup \in BOOLEAN,
           NEW mode \in {"full", "light"}
    PROVE  LET severities == IF mode = "full" THEN {"critical", "high"} ELSE {"medium"}
               G == Selected(I, dedup, mode)
           IN  /\ \A g \in G : IsGroup(g, I) /\ g.mode = mode
               /\ \A g, h \in G : Apart(g, h)
               /\ \A i \in I : i.severity \in severities => \E g \in G : i \in g.members
<1> DEFINE severities == IF mode = "full" THEN {"critical", "high"} ELSE {"medium"}
           G == Selected(I, dedup, mode)
           S == {i \in I : i.severity \in severities}
           key(i) == IF dedup THEN GroupKey(i) ELSE i
           of(k) == {i \in S : key(i) = k}
<1>1. G = {[members |-> m, lead |-> Representative(m), mode |-> mode] :
               m \in {of(k) : k \in {key(i) : i \in S}}}
  BY DEF Selected, Grouped
<1>2. ASSUME NEW g \in G
      PROVE  \E j \in S : g = [members |-> of(key(j)), lead |-> Representative(of(key(j))),
                              mode |-> mode]
  BY <1>1
<1>3. ASSUME NEW j \in S PROVE Representative(of(key(j))) \in of(key(j))
  <2>1. of(key(j)) # {} /\ of(key(j)) \subseteq I
    OBVIOUS
  <2>2. IsFiniteSet(of(key(j))) /\ \A i \in of(key(j)) : IsIssue(i)
    <3> HIDE DEF of, key
    <3> QED
      BY <2>1, FS_Subset
  <2> HIDE DEF of, key
  <2> QED
    BY <2>1, <2>2, RepresentativeIsMember
<1>4. ASSUME NEW g \in G PROVE IsGroup(g, I) /\ g.mode = mode
  <2>1. PICK j \in S : g = [members |-> of(key(j)), lead |-> Representative(of(key(j))),
                           mode |-> mode]
    BY <1>2
  <2>2. of(key(j)) \subseteq I /\ \A i \in of(key(j)) : i.severity \in severities
    OBVIOUS
  <2>3. Representative(of(key(j))) \in of(key(j))
    BY <1>3
  <2>4. /\ g.members \subseteq I /\ g.lead \in g.members /\ g.mode = mode
        /\ \A i \in g.members : i.severity \in severities
    <3> HIDE DEF of, key
    <3> QED
      BY <2>1, <2>2, <2>3
  <2> QED
    BY <2>4 DEF IsGroup
<1>5. ASSUME NEW g \in G, NEW h \in G PROVE Apart(g, h)
  <2>1. PICK j \in S : g = [members |-> of(key(j)), lead |-> Representative(of(key(j))),
                           mode |-> mode]
    BY <1>2
  <2>2. PICK l \in S : h = [members |-> of(key(l)), lead |-> Representative(of(key(l))),
                           mode |-> mode]
    BY <1>2
  <2>3. key(j) = key(l) \/ of(key(j)) \cap of(key(l)) = {}
    OBVIOUS
  <2> HIDE DEF of, key
  <2>4. CASE key(j) = key(l)
    BY <2>1, <2>2, <2>4 DEF Apart
  <2>5. CASE of(key(j)) \cap of(key(l)) = {}
    BY <2>1, <2>2, <2>5 DEF Apart
  <2> QED
    BY <2>3, <2>4, <2>5
<1>6. ASSUME NEW i \in I, i.severity \in severities PROVE \E g \in G : i \in g.members
  <2> DEFINE g == [members |-> of(key(i)), lead |-> Representative(of(key(i))), mode |-> mode]
  <2>1. i \in S /\ i \in of(key(i))
    BY <1>6
  <2>2. g \in G
    <3>1. of(key(i)) \in {of(k) : k \in {key(j) : j \in S}}
      <4> HIDE DEF of, key, S
      <4> QED
        BY <2>1
    <3> HIDE DEF of, key, S, G
    <3> QED
      BY <1>1, <3>1
  <2>3. i \in g.members
    BY <2>1
  <2> QED
    BY <2>2, <2>3
<1> QED
  BY <1>4, <1>5, <1>6

\* All groups of a cycle are apart, and hold all issues but the low ones.
LEMMA AllGroups ==
    ASSUME NEW I, IsFiniteSet(I), \A i \in I : IsIssue(i), NEW dedup \in BOOLEAN
    PROVE  /\ \A g \in Groups(I, dedup) : IsGroup(g, I)
           /\ \A g, h \in Groups(I, dedup) : Apart(g, h)
           /\ \A i \in I : i.severity = "low" \/ \E g \in Groups(I, dedup) : i \in g.members
<1> DEFINE F == Selected(I, dedup, "full")
           L == Selected(I, dedup, "light")
<1>1. /\ \A g \in F : IsGroup(g, I) /\ g.mode = "full"
      /\ \A g, h \in F : Apart(g, h)
      /\ \A i \in I : i.severity \in {"critical", "high"} => \E g \in F : i \in g.members
  BY SelectedGroups
<1>2. /\ \A g \in L : IsGroup(g, I) /\ g.mode = "light"
      /\ \A g, h \in L : Apart(g, h)
      /\ \A i \in I : i.severity \in {"medium"} => \E g \in L : i \in g.members
  BY SelectedGroups
<1>3. Groups(I, dedup) = F \cup L
  BY DEF Groups
<1> HIDE DEF F, L
<1>4. ASSUME NEW g \in F, NEW h \in L PROVE g.members \cap h.members = {}
  BY <1>1, <1>2 DEF IsGroup
<1>5. \A g, h \in F \cup L : Apart(g, h)
  BY <1>1, <1>2, <1>4 DEF Apart
<1>6. ASSUME NEW i \in I PROVE i.severity = "low" \/ \E g \in F \cup L : i \in g.members
  BY <1>1, <1>2 DEF IsIssue, Severities
<1> QED
  BY <1>1, <1>2, <1>3, <1>5, <1>6

Lesser(g, h) ==
    /\ g.mode = "light" => h.mode = "light"
    /\ SevRank(g.lead) <= SevRank(h.lead)

\* The order of diagnosis: what is taken first is not less severe (run_cycle's sort).
LEMMA FirstIsWorst ==
    ASSUME NEW I, \A i \in I : IsIssue(i), NEW g, IsGroup(g, I), NEW h, IsGroup(h, I),
           NEW dedup \in BOOLEAN, ~Precedes(h, g, dedup)
    PROVE  Lesser(g, h)
<1> DEFINE r == Rank(h, dedup)
           s == Rank(g, dedup)
<1>1. ~(r[1] < s[1]) /\ ~(r[2] < s[2] /\ r[1] = s[1])
  <2>1. \A n \in 1 .. 4 : ~(r[n] < s[n] /\ \A m \in 1 .. n - 1 : r[m] = s[m])
    BY DEF Precedes
  <2> HIDE DEF r, s
  <2>2. 1 .. 1 - 1 = {} /\ 1 .. 2 - 1 = {1} /\ 1 \in 1 .. 4 /\ 2 \in 1 .. 4
    OBVIOUS
  <2>3. ~(r[1] < s[1] /\ \A m \in {} : r[m] = s[m])
    BY <2>1, <2>2
  <2>4. ~(r[2] < s[2] /\ \A m \in {1} : r[m] = s[m])
    BY <2>1, <2>2
  <2> QED
    BY <2>3, <2>4
<1>2. /\ r[1] = (IF h.mode = "full" THEN 0 ELSE 1) /\ r[2] = SevRank(h.lead)
      /\ s[1] = (IF g.mode = "full" THEN 0 ELSE 1) /\ s[2] = SevRank(g.lead)
  BY DEF Rank
<1> HIDE DEF r, s
<1>3. /\ SevRank(g.lead) \in 0 .. 3 /\ SevRank(h.lead) \in 0 .. 3
      /\ g.mode = "full" => SevRank(g.lead) <= 1
      /\ h.mode = "light" => SevRank(h.lead) = 2
      /\ g.mode \in {"full", "light"} /\ h.mode \in {"full", "light"}
  BY SevRanks DEF IsGroup, IsIssue
<1> QED
  BY <1>1, <1>2, <1>3 DEF Lesser

-----------------------------------------------------------------------------
(* What holds of a cycle's issues, its groups and its coverage.            *)

\* An issue of a pod is of one that has existed in the cycle, and once the policy has been
\* applied, of one that it let pass; so is an issue of the metrics, if there is a
\* snapshot to check it against.
KnownPod(i) == i.about \in existed /\ i.owner = Label[i.about].owner

FoundInv ==
    /\ IsFiniteSet(found)
    /\ \A i \in found :
         /\ IsIssue(i) /\ i.about \in Resource \cup {Cluster}
         /\ i.source \in {"pod", "metrics"}
         /\ i.source = "pod" =>
              KnownPod(i) /\ (pc # "filter" => \E said \in inForce : ~Ignored(i.about, said))
         /\ i.source = "metrics" =>
              /\ pc \notin {"filter", "snapshot", "query"}
              /\ snapshot => i.about = Cluster \/ KnownPod(i)

WorldInv ==
    /\ Existing \subseteq Resource /\ \A r \in Existing : condition[r] \in Condition[r]
    /\ policy \in Policy /\ setting \in Setting
    /\ pc \in {"idle", "filter", "snapshot", "query", "diagnose"}
    /\ snapshot \in BOOLEAN
    /\ pc # "idle" => policy \in inForce /\ Existing \subseteq existed
    /\ DOMAIN owners \subseteq existed
    /\ \A r \in DOMAIN owners : owners[r] = Label[r].owner
    /\ listed \subseteq Resource /\ existed \subseteq Resource /\ inForce \subseteq Policy
    /\ changes \in 0 .. MaxChanges /\ aborts \in 0 .. MaxAborts

LEMMA InitWorld == Init => WorldInv
<1> SUFFICES ASSUME Init PROVE WorldInv
  OBVIOUS
<1>1. Existing = Resource /\ \A r \in Resource : condition[r] \in Condition[r]
  BY DEF Init, Existing
<1>2. 0 \in 0 .. MaxChanges /\ 0 \in 0 .. MaxAborts /\ DOMAIN owners = {}
  BY CycleBoundsAssumption DEF Init
<1> QED
  BY <1>1, <1>2 DEF Init, WorldInv

LEMMA NextWorld == WorldInv /\ [Next]_vars => WorldInv'
<1> SUFFICES ASSUME WorldInv, [Next]_vars PROVE WorldInv'
  OBVIOUS
<1>0. DOMAIN <<>> = {}
  OBVIOUS
<1>1. CASE Collect
  <2>1. DOMAIN owners' = {} /\ listed' \subseteq Existing /\ existed' = Existing
    BY <1>0, <1>1 DEF Collect
  <2> QED
    BY <1>1, <2>1 DEF Collect, world, Existing, WorldInv
<1>2. CASE Filter \/ Query \/ Diagnose \/ Audit
  BY <1>2 DEF Filter, Query, Diagnose, Audit, world, Existing, WorldInv
<1>3. CASE Snapshot
  BY <1>3 DEF Snapshot, world, Existing, WorldInv
<1>4. CASE Abort
  <2>1. aborts' \in 0 .. MaxAborts
    BY <1>4, CycleBoundsAssumption DEF Abort, WorldInv
  <2>2. DOMAIN owners' = {}
    BY <1>0, <1>4 DEF Abort
  <2> QED
    BY <1>4, <2>1, <2>2 DEF Abort, world, Existing, WorldInv
<1>5. CASE Change
  <2>1. changes' \in 0 .. MaxChanges /\ existed' = existed \cup Existing'
        /\ inForce' = inForce \cup {policy'}
    BY <1>5, CycleBoundsAssumption DEF Change, WorldInv, Existing
  <2> DEFINE Sound == /\ policy' \in Policy /\ Existing' \subseteq Resource
                      /\ \A r \in Existing' : condition'[r] \in Condition[r]
  <2>2. Sound
    <3>1. CASE policy' \in Policy /\ UNCHANGED condition
      BY <3>1 DEF WorldInv, Existing
    <3>2. ASSUME NEW r \in Resource, NEW c \in Condition[r], UNCHANGED policy,
                 condition' = [s \in Existing \cup {r} |-> IF s = r THEN c ELSE condition[s]]
          PROVE  Sound
      BY <3>2 DEF WorldInv, Existing
    <3>3. ASSUME NEW r \in Resource, UNCHANGED policy,
                 condition' = [s \in Existing \ {r} |-> condition[s]]
          PROVE  Sound
      BY <3>3 DEF WorldInv, Existing
    <3> QED
      BY <1>5, <3>1, <3>2, <3>3 DEF Change
  <2> QED
    BY <1>5, <2>1, <2>2 DEF Change, results, WorldInv
<1>6. CASE UNCHANGED vars
  BY <1>6 DEF vars, world, results, Existing, WorldInv
<1> QED
  BY <1>1, <1>2, <1>3, <1>4, <1>5, <1>6 DEF Next, Cycle

LEMMA FiniteImage ==
    ASSUME NEW S, IsFiniteSet(S), NEW T, NEW f, DOMAIN f = S, T = {f[x] : x \in S}
    PROVE  IsFiniteSet(T)
<1> DEFINE g == [x \in S |-> f[x]]
<1>1. g \in Surjection(S, T)
  BY DEF Surjection
<1> QED
  BY <1>1, FS_Surjection

LEMMA SeriesAreFinite == IsFiniteSet(Series)
<1> DEFINE About == Pod \cup Node \cup {Cluster}
           f == [p \in Rule \X About |-> [rule |-> p[1], about |-> p[2]]]
           All == {f[p] : p \in Rule \X About}
<1>1. IsFiniteSet(About)
  BY ConditionAssumption, FS_AddElement DEF Resource
<1>2. IsFiniteSet(Rule \X About)
  BY <1>1, ConditionAssumption, FS_Product
<1>3. IsFiniteSet(All)
  <2>1. DOMAIN f = Rule \X About /\ All = {f[p] : p \in Rule \X About}
    OBVIOUS
  <2> HIDE DEF f, All, About
  <2> QED
    BY <1>2, <2>1, FiniteImage
<1>4. Series \subseteq All
  <2>1. ASSUME NEW s \in Series
        PROVE  \E rule \in Rule, r \in About : s = [rule |-> rule, about |-> r]
    BY DEF Series
  <2>2. ASSUME NEW rule \in Rule, NEW r \in About PROVE [rule |-> rule, about |-> r] \in All
    <3>1. <<rule, r>> \in Rule \X About /\ f[<<rule, r>>] = [rule |-> rule, about |-> r]
      OBVIOUS
    <3> HIDE DEF f, About
    <3> QED
      BY <3>1
  <2> HIDE DEF All, About
  <2> QED
    BY <2>1, <2>2
<1> QED
  BY <1>3, <1>4, FS_Subset

LEMMA PodIssues ==
    ASSUME NEW r \in Resource, NEW c \in Condition[r], NEW i, i = PodIssue(r, c)
    PROVE  /\ IsIssue(i) /\ i.about = r /\ i.source = "pod" /\ i.owner = Label[r].owner
<1>1. Severity(c) \in Severities
  BY DEF Severity, Severities
<1>2. c.restarts \in Nat
  BY ConditionAssumption
<1> QED
  BY <1>1, <1>2 DEF PodIssue, IsIssue

LEMMA InitFound == Init => FoundInv
BY FS_EmptySet DEF Init, FoundInv

LEMMA NextFound == WorldInv /\ FoundInv /\ [Next]_vars => FoundInv'
<1> SUFFICES ASSUME WorldInv, FoundInv, [Next]_vars PROVE FoundInv'
  OBVIOUS
<1>1. CASE Collect
  <2>1. listed' \subseteq Existing /\ existed' = Existing /\ pc' = "filter"
        /\ found' = {PodIssue(r, condition[r]) : r \in listed'}
    BY <1>1 DEF Collect
  <2>2. listed' \subseteq Resource /\ \A r \in listed' : condition[r] \in Condition[r]
    BY <2>1 DEF WorldInv
  <2>3. IsFiniteSet(found')
    <3> DEFINE f == [r \in listed' |-> PodIssue(r, condition[r])]
    <3>1. DOMAIN f = listed' /\ found' = {f[r] : r \in listed'}
      BY <2>1
    <3>2. IsFiniteSet(listed')
      BY <2>2, ConditionAssumption, FS_Subset
    <3> HIDE DEF f
    <3> QED
      BY <3>1, <3>2, FiniteImage
  <2>4. ASSUME NEW i \in found'
        PROVE  /\ IsIssue(i) /\ i.about \in Resource /\ i.source = "pod"
               /\ i.about \in existed' /\ i.owner = Label[i.about].owner
    <3>1. PICK r \in listed' : i = PodIssue(r, condition[r])
      BY <2>1
    <3> QED
      BY <2>1, <2>2, <3>1, PodIssues
  <2> QED
    BY <2>1, <2>3, <2>4 DEF FoundInv, KnownPod
<1>2. CASE Filter
  <2>1. /\ pc = "filter" /\ pc' = "snapshot" /\ existed' = existed /\ inForce' = inForce
        /\ found' = {i \in found : ~Ignored(i.about, policy)} /\ policy \in inForce
    BY <1>2 DEF Filter, WorldInv
  <2>2. IsFiniteSet(found') /\ found' \subseteq found
    BY <2>1, FS_Subset DEF FoundInv
  <2> QED
    BY <2>1, <2>2 DEF FoundInv, KnownPod
<1>3. CASE Snapshot
  BY <1>3 DEF Snapshot, FoundInv, KnownPod
<1>4. CASE Query
  <2>1. /\ pc = "query" /\ pc' = "diagnose" /\ existed' = existed /\ inForce' = inForce
        /\ snapshot' = snapshot
    BY <1>4 DEF Query
  <2>2. PICK series \in SUBSET Series :
           found' = found \cup {MetricIssue(s.rule, s.about, owners) :
                                 s \in {x \in series : ~Stale(x)}}
    BY <1>4 DEF Query
  <2> DEFINE fresh == {x \in series : ~Stale(x)}
             issues == {MetricIssue(s.rule, s.about, owners) : s \in fresh}
  <2>3. IsFiniteSet(found')
    <3> DEFINE f == [s \in fresh |-> MetricIssue(s.rule, s.about, owners)]
    <3>1. DOMAIN f = fresh /\ issues = {f[s] : s \in fresh}
      OBVIOUS
    <3>2. IsFiniteSet(fresh)
      BY SeriesAreFinite, FS_Subset
    <3>3. IsFiniteSet(issues)
      <4> HIDE DEF f, issues, fresh
      <4> QED
        BY <3>1, <3>2, FiniteImage
    <3> QED
      BY <2>2, <3>3, FS_Union DEF FoundInv
  <2>4. ASSUME NEW i \in issues
        PROVE  /\ IsIssue(i) /\ i.about \in Resource \cup {Cluster} /\ i.source = "metrics"
               /\ snapshot => i.about = Cluster \/ KnownPod(i)
    <3>1. PICK s \in fresh : i = MetricIssue(s.rule, s.about, owners)
      OBVIOUS
    <3>2. s.rule \in Rule /\ s.about \in Resource \cup {Cluster}
      BY DEF Series, Resource
    <3>3. s.rule.severity \in Severities
      BY <3>2, RuleAssumption DEF Severities
    <3>4. snapshot => s.about = Cluster \/ s.about \in DOMAIN owners
      BY DEF Stale
    <3>5. /\ i.severity = s.rule.severity /\ i.restarts = 0 /\ i.about = s.about
          /\ i.source = "metrics"
          /\ s.about \in DOMAIN owners => i.owner = owners[s.about]
      BY <3>1 DEF MetricIssue
    <3> QED
      BY <3>2, <3>3, <3>4, <3>5 DEF IsIssue, KnownPod, WorldInv
  <2>5. found' = found \cup issues
    BY <2>2
  <2> HIDE DEF issues
  <2> QED
    BY <2>1, <2>3, <2>4, <2>5 DEF FoundInv, KnownPod
<1>5. CASE Diagnose \/ Audit
  BY <1>5 DEF Diagnose, Audit, FoundInv, KnownPod
<1>6. CASE Abort
  BY <1>6, FS_EmptySet DEF Abort, FoundInv
<1>7. CASE Change
  <2>1. /\ existed \subseteq existed' /\ inForce \subseteq inForce' /\ pc' = pc
        /\ found' = found /\ snapshot' = snapshot
    BY <1>7 DEF Change, results
  <2> QED
    BY <2>1 DEF FoundInv, KnownPod
<1>8. CASE UNCHANGED vars
  BY <1>8 DEF vars, results, FoundInv, KnownPod
<1> QED
  BY <1>1, <1>2, <1>3, <1>4, <1>5, <1>6, <1>7, <1>8 DEF Next, Cycle

\* The groups of a cycle are made once, are apart, and are taken worst first, as many as
\* --top allows.
GroupsInv ==
    /\ pc \in {"filter", "snapshot", "query"} => todo = {} /\ reports = {}
    /\ \A g \in todo \cup reports : IsGroup(g, found)
    /\ \A g, h \in todo \cup reports : Apart(g, h)
    /\ \A g \in reports, h \in todo : Lesser(g, h)
    /\ IsFiniteSet(reports)
    /\ setting.top > 0 => Cardinality(reports) <= setting.top

LEMMA InitGroups == Init => GroupsInv
<1> SUFFICES ASSUME Init PROVE GroupsInv
  OBVIOUS
<1>1. IsFiniteSet({}) /\ Cardinality({}) = 0 /\ setting.top \in Nat
  BY FS_EmptySet, SettingAssumption DEF Init
<1> QED
  BY <1>1 DEF Init, GroupsInv

LEMMA NextGroups == WorldInv /\ FoundInv /\ FoundInv' /\ GroupsInv /\ [Next]_vars => GroupsInv'
<1> SUFFICES ASSUME WorldInv, FoundInv, FoundInv', GroupsInv, [Next]_vars PROVE GroupsInv'
  OBVIOUS
<1>1. setting \in Setting /\ setting.top \in Nat /\ setting.dedup \in BOOLEAN
  BY SettingAssumption DEF WorldInv
<1>2. ASSUME todo' = {}, reports' = {}, setting' = setting PROVE GroupsInv'
  <2>1. IsFiniteSet({}) /\ Cardinality({}) = 0
    BY FS_EmptySet
  <2> QED
    BY <1>1, <1>2, <2>1 DEF GroupsInv
<1>3. CASE Collect \/ Abort
  BY <1>2, <1>3 DEF Collect, Abort
<1>4. CASE Filter \/ Snapshot
  <2>1. todo' = {} /\ reports' = {} /\ setting' = setting
    BY <1>4 DEF Filter, Snapshot, GroupsInv
  <2> QED
    BY <1>2, <2>1
<1>5. CASE Query
  <2>1. reports' = {} /\ todo' = Groups(found', setting.dedup) /\ pc' = "diagnose"
        /\ setting' = setting
    BY <1>5 DEF Query, GroupsInv
  <2>2. /\ \A g \in todo' : IsGroup(g, found')
        /\ \A g, h \in todo' : Apart(g, h)
    <3>1. IsFiniteSet(found') /\ \A i \in found' : IsIssue(i)
      BY DEF FoundInv
    <3> QED
      BY <1>1, <2>1, <3>1, AllGroups
  <2>3. IsFiniteSet({}) /\ Cardinality({}) = 0
    BY FS_EmptySet
  <2> QED
    BY <1>1, <2>1, <2>2, <2>3 DEF GroupsInv
<1>6. CASE Diagnose
  <2>1. PICK g \in todo :
           /\ \A h \in todo : ~Precedes(h, g, setting.dedup)
           /\ todo' = todo \ {g} /\ reports' = reports \cup {g}
    BY <1>6 DEF Diagnose
  <2>2. found' = found /\ setting' = setting /\ pc' = pc /\ pc = "diagnose" /\ ~Cut
    BY <1>6 DEF Diagnose
  <2>3. \A h \in todo : Lesser(g, h)
    <3>1. \A h \in todo : IsGroup(h, found)
      BY DEF GroupsInv
    <3>2. \A i \in found : IsIssue(i)
      BY DEF FoundInv
    <3> QED
      BY <1>1, <2>1, <3>1, <3>2, FirstIsWorst
  <2>4. IsFiniteSet(reports') /\ (setting.top > 0 => Cardinality(reports') <= setting.top)
    <3>1. IsFiniteSet(reports) /\ IsFiniteSet(reports')
      BY <2>1, FS_AddElement DEF GroupsInv
    <3>2. Cardinality(reports') = IF g \in reports THEN Cardinality(reports)
                                                   ELSE Cardinality(reports) + 1
      BY <2>1, <3>1, FS_AddElement
    <3>3. Cardinality(reports) \in Nat
      BY <3>1, FS_CardinalityType
    <3>4. setting.top > 0 => Cardinality(reports) < setting.top
      BY <1>1, <2>2, <3>3 DEF Cut
    <3> QED
      BY <1>1, <3>1, <3>2, <3>3, <3>4
  <2>5. todo' \cup reports' = todo \cup reports
    BY <2>1
  <2>6. \A k \in reports', h \in todo' : Lesser(k, h)
    BY <2>1, <2>3 DEF GroupsInv
  <2> QED
    BY <2>2, <2>4, <2>5, <2>6 DEF GroupsInv
<1>7. CASE Audit \/ Change \/ UNCHANGED vars
  <2>1. found' = found /\ setting' = setting /\ todo' = todo /\ reports' = reports
        /\ pc' \in {pc, "idle"}
    BY <1>7 DEF Audit, Change, vars, results
  <2> QED
    BY <2>1 DEF GroupsInv
<1> QED
  BY <1>3, <1>4, <1>5, <1>6, <1>7 DEF Next, Cycle

\* What was listed is among the issues, or the policy named it; what is among the issues
\* is in a group, or low; and after the cycle the groups are done and the low ones
\* written down, unless --top was reached.
CoverInv ==
    /\ \A p \in listed :
         (\E i \in found : i.about = p) \/ \E said \in inForce : Ignored(p, said)
    /\ pc # "idle" => audited = {}
    /\ audited \subseteq found
    /\ pc = "diagnose" =>
         \A i \in found : i.severity = "low" \/ \E g \in todo \cup reports : i \in g.members
    /\ pc = "idle" =>
         \A i \in found :
            \/ i \in audited
            \/ \E g \in reports : i \in g.members
            \/ setting.top > 0 /\ Cardinality(reports) = setting.top

LEMMA InitCover == Init => CoverInv
BY DEF Init, CoverInv

LEMMA NextCover ==
    WorldInv /\ FoundInv /\ FoundInv' /\ GroupsInv /\ CoverInv /\ [Next]_vars => CoverInv'
<1> SUFFICES ASSUME WorldInv, FoundInv, FoundInv', GroupsInv, CoverInv, [Next]_vars
             PROVE  CoverInv'
  OBVIOUS
<1>1. setting \in Setting /\ setting.top \in Nat /\ setting.dedup \in BOOLEAN
  BY SettingAssumption DEF WorldInv
<1>2. CASE Collect
  <2>1. ASSUME NEW p \in listed' PROVE \E i \in found' : i.about = p
    <3>1. PodIssue(p, condition[p]) \in found' /\ PodIssue(p, condition[p]).about = p
      BY <1>2, <2>1 DEF Collect, PodIssue
    <3> QED
      BY <3>1
  <2> QED
    BY <1>2, <2>1 DEF Collect, CoverInv
<1>3. CASE Filter
  <2>1. /\ found' = {i \in found : ~Ignored(i.about, policy)} /\ policy \in inForce
        /\ listed' = listed /\ inForce' = inForce /\ audited' = audited /\ audited = {}
        /\ pc' = "snapshot"
    BY <1>3 DEF Filter, WorldInv, CoverInv
  <2>2. ASSUME NEW p \in listed, NEW i \in found, i.about = p
        PROVE  (\E j \in found' : j.about = p) \/ \E said \in inForce : Ignored(p, said)
    BY <2>1, <2>2
  <2> QED
    BY <2>1, <2>2 DEF CoverInv
<1>4. CASE Snapshot
  BY <1>4 DEF Snapshot, CoverInv
<1>5. CASE Query
  <2>1. /\ found \subseteq found' /\ listed' = listed /\ inForce' = inForce
        /\ audited' = audited /\ audited = {} /\ pc' = "diagnose"
        /\ todo' = Groups(found', setting.dedup)
    BY <1>5 DEF Query, CoverInv
  <2>2. \A i \in found' : i.severity = "low" \/ \E g \in todo' : i \in g.members
    <3>1. IsFiniteSet(found') /\ \A i \in found' : IsIssue(i)
      BY DEF FoundInv
    <3> QED
      BY <1>1, <2>1, <3>1, AllGroups
  <2> QED
    BY <2>1, <2>2 DEF CoverInv
<1>6. CASE Diagnose
  <2>1. /\ todo' \cup reports' = todo \cup reports /\ found' = found /\ listed' = listed
        /\ inForce' = inForce /\ audited' = audited /\ pc' = pc /\ pc = "diagnose"
    BY <1>6 DEF Diagnose
  <2> QED
    BY <2>1 DEF CoverInv
<1>7. CASE Audit
  <2>1. /\ reports' = reports /\ found' = found /\ listed' = listed /\ setting' = setting
        /\ inForce' = inForce /\ audited' = {i \in found : i.severity = "low"}
        /\ pc = "diagnose" /\ pc' = "idle" /\ (Cut \/ todo = {})
    BY <1>7 DEF Audit
  <2>2. Cut => setting.top > 0 /\ Cardinality(reports) = setting.top
    <3>1. IsFiniteSet(reports) /\ (setting.top > 0 => Cardinality(reports) <= setting.top)
      BY DEF GroupsInv
    <3>2. Cardinality(reports) \in Nat
      BY <3>1, FS_CardinalityType
    <3> QED
      BY <1>1, <3>1, <3>2 DEF Cut
  <2>3. ASSUME NEW i \in found
        PROVE  \/ i \in audited'
               \/ \E g \in reports : i \in g.members
               \/ setting.top > 0 /\ Cardinality(reports) = setting.top
    <3>1. CASE Cut
      BY <2>2, <3>1
    <3>2. CASE todo = {}
      <4>1. i.severity = "low" \/ \E g \in todo \cup reports : i \in g.members
        BY <2>1 DEF CoverInv
      <4> QED
        BY <2>1, <3>2, <4>1
    <3> QED
      BY <2>1, <3>1, <3>2
  <2> QED
    BY <2>1, <2>3 DEF CoverInv
<1>8. CASE Abort
  BY <1>8 DEF Abort, CoverInv
<1>9. CASE Change
  <2>1. /\ inForce \subseteq inForce' /\ pc' = pc /\ found' = found /\ listed' = listed
        /\ audited' = audited /\ todo' = todo /\ reports' = reports /\ setting' = setting
    BY <1>9 DEF Change, results
  <2> QED
    BY <2>1 DEF CoverInv
<1>10. CASE UNCHANGED vars
  BY <1>10 DEF vars, results, CoverInv
<1> QED
  BY <1>2, <1>3, <1>4, <1>5, <1>6, <1>7, <1>8, <1>9, <1>10 DEF Next, Cycle

-----------------------------------------------------------------------------
CycleInv == WorldInv /\ FoundInv /\ GroupsInv /\ CoverInv

LEMMA CycleInvariant == Spec => []CycleInv
<1>1. Init => CycleInv
  BY InitWorld, InitFound, InitGroups, InitCover DEF CycleInv
<1>2. CycleInv /\ [Next]_vars => CycleInv'
  BY NextWorld, NextFound, NextGroups, NextCover DEF CycleInv
<1> QED
  BY <1>1, <1>2, PTL DEF Spec

\* The variables keep their types, and a group's representative is one of its members.
THEOREM CycleTypeCorrect == Spec => []TypeOK
<1>1. CycleInv => TypeOK
  BY DEF CycleInv, WorldInv, FoundInv, GroupsInv, CoverInv, IsGroup, TypeOK
<1> QED
  BY <1>1, CycleInvariant, PTL

\* Whatever fails or changes in the meantime, after a cycle every pod that was unhealthy
\* when listed is accounted for (run_cycle).
THEOREM NoPodIsForgotten == Spec => []NothingIsForgotten
<1>1. CycleInv => NothingIsForgotten
  <2> SUFFICES ASSUME CycleInv, pc = "idle"
               PROVE  /\ \A p \in listed :
                           \/ p \in {i.about : i \in Covered \cup audited}
                           \/ \E said \in inForce : Ignored(p, said)
                           \/ setting.top > 0 /\ Cardinality(reports) = setting.top
                      /\ \A g, h \in reports : g = h \/ g.members \cap h.members = {}
    BY DEF NothingIsForgotten
  <2>1. \A g, h \in reports : g = h \/ g.members \cap h.members = {}
    BY DEF CycleInv, GroupsInv, Apart
  <2>2. ASSUME NEW i \in found
        PROVE  \/ i \in Covered \cup audited
               \/ setting.top > 0 /\ Cardinality(reports) = setting.top
    BY DEF CycleInv, CoverInv, Covered
  <2> QED
    BY <2>1, <2>2 DEF CycleInv, CoverInv
<1> QED
  BY <1>1, CycleInvariant, PTL

\* --top cuts off what is least severe: the order of diagnosis is the order of severity,
\* whatever the sort does with ties.
THEOREM TheWorstComeFirst == Spec => []CutsAreLesser
<1>1. CycleInv => CutsAreLesser
  BY DEF CycleInv, GroupsInv, Lesser, CutsAreLesser
<1> QED
  BY <1>1, CycleInvariant, PTL

\* The pipeline's alerts are of resources that have existed in the cycle, with their real
\* owner, when there is a snapshot (_load_live_resources, _run_rule).
THEOREM EveryAlertIsReal == Spec => []AlertsAreReal
<1>1. CycleInv => AlertsAreReal
  <2> SUFFICES ASSUME CycleInv, NEW g \in reports
               PROVE  \/ g.lead.about = Cluster
                      \/ g.lead.about \in existed /\ g.lead.owner = Label[g.lead.about].owner
                      \/ g.lead.source = "metrics" /\ ~snapshot
    BY DEF AlertsAreReal
  <2>1. g.lead \in found
    BY DEF CycleInv, GroupsInv, IsGroup
  <2> QED
    BY <2>1 DEF CycleInv, FoundInv, KnownPod
<1> QED
  BY <1>1, CycleInvariant, PTL

\* A policy file edited in one cycle is obeyed in the next (load_policies).
THEOREM ThePolicyIsFresh == Spec => []PolicyIsFresh
<1>1. CycleInv => PolicyIsFresh
  <2> SUFFICES ASSUME CycleInv, NEW i \in Covered, i.source = "pod"
               PROVE  \E said \in inForce : ~Ignored(i.about, said)
    BY DEF PolicyIsFresh
  <2>1. i \in found /\ pc # "filter"
    BY DEF CycleInv, GroupsInv, IsGroup, Covered
  <2> QED
    BY <2>1 DEF CycleInv, FoundInv
<1> QED
  BY <1>1, CycleInvariant, PTL
=============================================================================
