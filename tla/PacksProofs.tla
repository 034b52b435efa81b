---------------------------- MODULE PacksProofs ----------------------------
(***************************************************************************)
(* Packs, for any releases, declarations and names, and any number of      *)
(* edits.  The proofs of the expansion go in four steps: a list of names   *)
(* visited in turn, by induction over its places; the visits, one function *)
(* that does as the code's, by induction on the groups not yet seen; what  *)
(* a group leads to and covers; then that a visit leaves a right memo.     *)
(* After them what joining two packs does to names, groups and relations.  *)
(* The proofs of Desk, which share nothing with these, follow.             *)
(***************************************************************************)
EXTENDS Packs, Desk, FiniteSetTheorems, SequenceTheorems, WellFoundedInduction, TLAPS

\* Some of the naturals have a least one.
LEMMA LeastIsThere ==
    ASSUME NEW I, I \subseteq Nat, I # {}
    PROVE  \E x \in I : \A y \in I : x <= y
<1> DEFINE R == OpToRel(<, Nat)
<1>1. \A x, y \in Nat : y < x => <<y, x>> \in R
    BY DEF OpToRel
<1>2. IsWellFoundedOn(R, Nat)
    BY NatLessThanWellFounded
<1> HIDE DEF R
<1>3. PICK x \in I : \A y \in I : ~(<<y, x>> \in R)
    BY <1>2, WFMin
<1>4. \A y \in I : y < x => <<y, x>> \in R
    BY <1>1
<1>5. ASSUME NEW y \in I PROVE x <= y
    <2>1. x \in Nat /\ y \in Nat /\ ~(y < x)
        BY <1>3, <1>4
    <2> QED
        BY <2>1
<1> QED
    BY <1>3, <1>5

\* Induction over the naturals, for a set of them.
LEMMA AllNaturals ==
    ASSUME NEW S, S \subseteq Nat, 0 \in S, \A n \in S : n + 1 \in S
    PROVE  S = Nat
<1> DEFINE I == Nat \ S
<1> SUFFICES ASSUME I # {} PROVE FALSE
    OBVIOUS
<1>1. PICK x \in I : \A y \in I : x <= y
    BY LeastIsThere, I \subseteq Nat
<1>2. x \in Nat /\ x # 0
    BY <1>1
<1>3. x - 1 \in Nat /\ (x - 1) + 1 = x /\ ~(x <= x - 1)
    BY <1>2
<1>4. x - 1 \in S
    BY <1>1, <1>3
<1> QED
    BY <1>1, <1>3, <1>4

(***************************************************************************)
(* Packs: names visited in turn.  What the memo is after each of the first *)
(* m of them.                                                              *)
(***************************************************************************)
Turn(visit, names, which, seen, i, m) ==
    IF i \in which THEN visit[[name |-> names[i], seen |-> seen, memo |-> m]] ELSE m
IsAfter(a, visit, names, which, seen, memo, m) ==
    a = [i \in 0..m |-> IF i = 0 THEN memo ELSE Turn(visit, names, which, seen, i, a[i - 1])]

LEMMA AfterThere ==
    ASSUME NEW visit, NEW names, NEW which, NEW seen, NEW memo, NEW m \in Nat
    PROVE  \E a : IsAfter(a, visit, names, which, seen, memo, m)
<1> DEFINE T(i, x) == Turn(visit, names, which, seen, i, x)
           S == {k \in Nat : \E a : IsAfter(a, visit, names, which, seen, memo, k)}
<1>1. 0 \in S
    <2> DEFINE a == [i \in 0..0 |-> memo]
    <2>1. IsAfter(a, visit, names, which, seen, memo, 0)
        BY DEF IsAfter
    <2> QED
        BY <2>1
<1>2. ASSUME NEW k \in S PROVE k + 1 \in S
    <2>1. PICK a : IsAfter(a, visit, names, which, seen, memo, k)
        BY DEF S
    <2> DEFINE b == [j \in 0..(k + 1) |-> IF j = k + 1 THEN T(k + 1, a[k]) ELSE a[j]]
    <2>2. k \in Nat /\ k + 1 \in Nat /\ \A j \in 0..(k + 1) : j = k + 1 \/ j \in 0..k
        OBVIOUS
    <2>3. \A j \in 0..k : a[j] = IF j = 0 THEN memo ELSE T(j, a[j - 1])
        BY <2>1 DEF IsAfter
    <2>4. \A j \in 0..(k + 1) : b[j] = IF j = 0 THEN memo ELSE T(j, b[j - 1])
        <3> HIDE DEF T
        <3> TAKE j \in 0..(k + 1)
        <3>1. CASE j = k + 1
            <4>1. j # 0 /\ j - 1 = k /\ k \in 0..(k + 1) /\ k # k + 1
                BY <3>1, <2>2
            <4>2. b[j] = T(j, a[k]) /\ b[k] = a[k]
                BY <3>1, <4>1
            <4> QED
                BY <3>1, <4>1, <4>2
        <3>2. CASE j \in 0..k
            <4>1. j # k + 1 /\ (j # 0 => j - 1 \in 0..(k + 1) /\ j - 1 # k + 1)
                BY <3>2, <2>2
            <4>2. b[j] = a[j] /\ (j # 0 => b[j - 1] = a[j - 1])
                BY <4>1
            <4> QED
                BY <3>2, <4>2, <2>3
        <3> QED
            BY <3>1, <3>2, <2>2
    <2>5. IsAfter(b, visit, names, which, seen, memo, k + 1)
        <3>1. b = [j \in 0..(k + 1) |-> b[j]]
            OBVIOUS
        <3> HIDE DEF b
        <3> QED
            BY <2>4, <3>1 DEF IsAfter
    <2> QED
        BY <2>2, <2>5
<1> HIDE DEF S
<1>3. S = Nat
    <2>1. S \subseteq Nat
        BY DEF S
    <2> QED
        BY <1>1, <1>2, <2>1, AllNaturals
<1> QED
    BY <1>3 DEF S

Leads(a, visit, names, which, seen, memo) ==
    /\ InTurn(visit, names, which, seen, memo) = a[Len(names)]
    /\ a[0] = memo
    /\ \A i \in 1..Len(names) : a[i] = Turn(visit, names, which, seen, i, a[i - 1])

LEMMA InTurnIs ==
    ASSUME NEW visit, NEW names, Len(names) \in Nat, NEW which, NEW seen, NEW memo
    PROVE  \E a : Leads(a, visit, names, which, seen, memo)
<1> DEFINE a == CHOOSE a : IsAfter(a, visit, names, which, seen, memo, Len(names))
<1>1. IsAfter(a, visit, names, which, seen, memo, Len(names))
    BY AfterThere
<1>2. InTurn(visit, names, which, seen, memo) = a[Len(names)]
    BY DEF InTurn, IsAfter, Turn
<1> HIDE DEF a
<1>3. /\ a[0] = memo
      /\ \A i \in 1..Len(names) : a[i] = Turn(visit, names, which, seen, i, a[i - 1])
    <2>1. \A i \in 0..Len(names) :
              a[i] = IF i = 0 THEN memo ELSE Turn(visit, names, which, seen, i, a[i - 1])
        BY <1>1 DEF IsAfter
    <2>2. 0 \in 0..Len(names) /\ \A i \in 1..Len(names) : i \in 0..Len(names) /\ i # 0
        OBVIOUS
    <2> QED
        BY <2>1, <2>2
<1> QED
    BY <1>2, <1>3 DEF Leads

\* What every visit keeps, the whole of them keeps.
LEMMA InTurnStays ==
    ASSUME NEW visit, NEW names, Len(names) \in Nat, NEW which, NEW seen, NEW G, NEW memo \in G,
           \A i \in which, m \in G : visit[[name |-> names[i], seen |-> seen, memo |-> m]] \in G
    PROVE  InTurn(visit, names, which, seen, memo) \in G
<1>1. PICK a : Leads(a, visit, names, which, seen, memo)
    BY InTurnIs
<1> DEFINE S == {k \in Nat : k <= Len(names) => a[k] \in G}
<1>2. 0 \in S
    BY <1>1 DEF Leads
<1>3. ASSUME NEW k \in S PROVE k + 1 \in S
    <2> SUFFICES ASSUME k + 1 <= Len(names) PROVE a[k + 1] \in G
        OBVIOUS
    <2>1. k + 1 \in 1..Len(names) /\ (k + 1) - 1 = k /\ a[k] \in G
        OBVIOUS
    <2>2. a[k + 1] = Turn(visit, names, which, seen, k + 1, a[k])
        BY <1>1, <2>1 DEF Leads
    <2> QED
        BY <2>1, <2>2 DEF Turn
<1> HIDE DEF S
<1>4. S = Nat
    BY <1>2, <1>3, AllNaturals DEF S
<1> QED
    BY <1>1, <1>4 DEF S, Leads

\* When every visit adds its name to what is done, all the names are, in the end.
LEMMA InTurnDoes ==
    ASSUME NEW visit, NEW names, Len(names) \in Nat, NEW which, which \subseteq 1..Len(names),
           NEW seen, NEW G, NEW memo \in G,
           \A i \in which, m \in G :
               LET u == visit[[name |-> names[i], seen |-> seen, memo |-> m]]
               IN  u \in G /\ m.done \subseteq u.done /\ (names[i] \in seen \/ names[i] \in u.done)
    PROVE  LET u == InTurn(visit, names, which, seen, memo)
           IN  /\ u \in G /\ memo.done \subseteq u.done
               /\ \A i \in which : names[i] \in seen \/ names[i] \in u.done
<1>1. PICK a : Leads(a, visit, names, which, seen, memo)
    BY InTurnIs
<1> DEFINE Far(k) == /\ a[k] \in G /\ memo.done \subseteq a[k].done
                     /\ \A i \in which : i <= k => names[i] \in seen \/ names[i] \in a[k].done
<1> DEFINE S == {k \in Nat : k <= Len(names) => Far(k)}
<1>2. 0 \in S
    BY <1>1 DEF Leads
<1>3. ASSUME NEW k \in S PROVE k + 1 \in S
    <2> SUFFICES ASSUME k + 1 <= Len(names) PROVE Far(k + 1)
        <3> HIDE DEF Far
        <3> QED
            OBVIOUS
    <2>1. k + 1 \in 1..Len(names) /\ (k + 1) - 1 = k /\ k \in Nat /\ k <= Len(names)
        OBVIOUS
    <2>2. Far(k)
        BY <2>1
    <2>3. a[k + 1] = Turn(visit, names, which, seen, k + 1, a[k])
        BY <1>1, <2>1 DEF Leads
    <2>4. \A i \in which : i <= k + 1 => i <= k \/ i = k + 1
        OBVIOUS
    <2>5. CASE k + 1 \in which
        <3>1. /\ a[k + 1] \in G /\ a[k].done \subseteq a[k + 1].done
              /\ names[k + 1] \in seen \/ names[k + 1] \in a[k + 1].done
            BY <2>2, <2>3, <2>5 DEF Turn
        <3> QED
            BY <2>2, <2>4, <3>1
    <2>6. CASE k + 1 \notin which
        <3>1. a[k + 1] = a[k]
            BY <2>3, <2>6 DEF Turn
        <3> QED
            BY <2>2, <2>4, <2>6, <3>1
    <2> QED
        BY <2>5, <2>6
<1> HIDE DEF S
<1>4. S = Nat
    BY <1>2, <1>3, AllNaturals DEF S
<1>5. Far(Len(names))
    <2> HIDE DEF Far
    <2> QED
        BY <1>4 DEF S
<1>6. \A i \in which : i <= Len(names)
    OBVIOUS
<1> QED
    BY <1>1, <1>5, <1>6 DEF Leads

SameOn(visit, other, names, which, seen, G) ==
    \A i \in which, m \in G :
        /\ visit[[name |-> names[i], seen |-> seen, memo |-> m]] \in G
        /\ other[[name |-> names[i], seen |-> seen, memo |-> m]]
               = visit[[name |-> names[i], seen |-> seen, memo |-> m]]

LEMMA InTurnAgrees ==
    ASSUME NEW visit, NEW other, NEW names, Len(names) \in Nat, NEW which, NEW seen, NEW G, NEW memo \in G,
           SameOn(visit, other, names, which, seen, G)
    PROVE  InTurn(other, names, which, seen, memo) = InTurn(visit, names, which, seen, memo)
<1>1. PICK a : Leads(a, visit, names, which, seen, memo)
    BY InTurnIs
<1>2. PICK b : Leads(b, other, names, which, seen, memo)
    BY InTurnIs
<1> DEFINE S == {k \in Nat : k <= Len(names) => a[k] \in G /\ b[k] = a[k]}
<1>3. 0 \in S
    BY <1>1, <1>2 DEF Leads
<1>4. ASSUME NEW k \in S PROVE k + 1 \in S
    <2> SUFFICES ASSUME k + 1 <= Len(names) PROVE a[k + 1] \in G /\ b[k + 1] = a[k + 1]
        OBVIOUS
    <2>1. k + 1 \in 1..Len(names) /\ (k + 1) - 1 = k /\ a[k] \in G /\ b[k] = a[k]
        OBVIOUS
    <2>2. /\ a[k + 1] = Turn(visit, names, which, seen, k + 1, a[k])
          /\ b[k + 1] = Turn(other, names, which, seen, k + 1, a[k])
        BY <1>1, <1>2, <2>1 DEF Leads
    <2> QED
        BY <2>1, <2>2 DEF Turn, SameOn
<1> HIDE DEF S
<1>5. S = Nat
    BY <1>3, <1>4, AllNaturals DEF S
<1> QED
    BY <1>1, <1>2, <1>5 DEF S, Leads

-----------------------------------------------------------------------------
(***************************************************************************)
(* The lists of a pack, and the first and last of some places in them.     *)
(***************************************************************************)
LEMMA ListedIs ==
    ASSUME NEW s, IsListed(s)
    PROVE  /\ Len(s) \in Nat /\ DOMAIN s = 1..Len(s) /\ s = [i \in 1..Len(s) |-> s[i]]
           /\ \A i \in DOMAIN s : s[i] \in Range(s)
<1>1. s \in Seq(Range(s))
    BY DEF IsListed
<1>2. \A i \in DOMAIN s : s[i] \in Range(s)
    BY DEF Range
<1> HIDE DEF Range
<1> QED
    BY <1>1, <1>2

LEMMA MinIs ==
    ASSUME NEW I, I \subseteq Nat, I # {}
    PROVE  Min(I) \in I /\ \A y \in I : Min(I) <= y
BY LeastIsThere DEF Min

LEMMA FirstOfName ==
    ASSUME NEW p, IsListed(p.groups), NEW name \in GroupNames(p)
    PROVE  /\ byName(p, name) \in Range(p.groups)
           /\ byName(p, name).name = name
<1> DEFINE I == {i \in DOMAIN p.groups : p.groups[i].name = name}
<1>1. DOMAIN p.groups = 1..Len(p.groups) /\ Len(p.groups) \in Nat
    BY ListedIs
<1>2. I \subseteq Nat
    BY <1>1
<1>3. PICK i \in DOMAIN NamesOf(p.groups) : NamesOf(p.groups)[i] = name
    BY DEF GroupNames, Range
<1>4. i \in I
    BY <1>3 DEF NamesOf
<1> HIDE DEF I
<1>5. Min(I) \in I
    BY <1>2, <1>4, MinIs
<1>6. byName(p, name) = p.groups[Min(I)]
    BY DEF byName, I
<1> QED
    BY <1>5, <1>6 DEF I, Range

\* What a pack must be for its groups to be expanded.
GroupsListed(p) == IsListed(p.groups) /\ \A g \in Range(p.groups) : IsListed(g.includes)

LEMMA GroupsFinite ==
    ASSUME NEW p, GroupsListed(p)
    PROVE  IsFiniteSet(GroupNames(p))
<1>1. DOMAIN p.groups = 1..Len(p.groups) /\ Len(p.groups) \in Nat
    BY ListedIs DEF GroupsListed
<1>2. IsFiniteSet(DOMAIN p.groups)
    BY <1>1, FS_Interval
<1>3. NamesOf(p.groups) \in Surjection(DOMAIN p.groups, GroupNames(p))
    BY DEF NamesOf, GroupNames, Range, Surjection
<1> QED
    BY <1>2, <1>3, FS_Surjection

(***************************************************************************)
(* The visits of groupExpansion: there is one function that does as the    *)
(* code's, by induction on how many groups a visit has not seen.           *)
(***************************************************************************)
Visit(name, seen, memo) == [name |-> name, seen |-> seen, memo |-> memo]

LEMMA VisitIs ==
    ASSUME NEW p, NEW name \in GroupNames(p), NEW seen, seen \subseteq GroupNames(p),
           NEW memo \in Memos(p)
    PROVE  Visit(name, seen, memo) \in Visits(p)
BY DEF Visit, Visits

LEMMA VisitHas ==
    ASSUME NEW p, NEW v \in Visits(p)
    PROVE  /\ v.name \in GroupNames(p) /\ v.seen \subseteq GroupNames(p)
           /\ v.memo \in Memos(p) /\ v.memo.done \subseteq GroupNames(p)
BY DEF Visits, Memos

\* The groups visited from one are of the pack.
LEMMA NestedIs ==
    ASSUME NEW p, GroupsListed(p), NEW g \in Range(p.groups)
    PROVE  /\ Len(g.includes) \in Nat /\ Nested(p, g) \subseteq 1..Len(g.includes)
           /\ \A i \in Nested(p, g) : g.includes[i] \in GroupNames(p)
<1>1. Len(g.includes) \in Nat /\ DOMAIN g.includes = 1..Len(g.includes)
    BY ListedIs DEF GroupsListed
<1> QED
    BY <1>1 DEF Nested, HasGroup

LEMMA NotedTyped ==
    ASSUME NEW p, NEW name \in GroupNames(p), NEW memo \in Memos(p)
    PROVE  Noted(p, name, memo) \in Memos(p)
<1>1. memo.done \subseteq GroupNames(p) /\ memo.out \in [GroupNames(p) -> SUBSET Range(p.types)]
    BY DEF Memos
<1>2. \A n : Included(p, memo.out, n) \subseteq Range(p.types)
    BY <1>1 DEF Included, HasType, HasGroup
<1> DEFINE all == UNION {Included(p, memo.out, n) : n \in Range(byName(p, name).includes)}
<1>3. all \subseteq Range(p.types)
    BY <1>2
<1>4. Noted(p, name, memo) = [done |-> memo.done \cup {name}, out |-> [memo.out EXCEPT ![name] = all]]
    BY DEF Noted
<1> HIDE DEF all
<1>5. [memo.out EXCEPT ![name] = all] \in [GroupNames(p) -> SUBSET Range(p.types)]
    BY <1>1, <1>3
<1> QED
    BY <1>1, <1>4, <1>5 DEF Memos

LEMMA VisitedTyped ==
    ASSUME NEW p, GroupsListed(p), NEW v \in Visits(p), NEW visit,
           v.name \notin v.seen =>
               \A n \in GroupNames(p), m \in Memos(p) :
                   visit[Visit(n, v.seen \cup {v.name}, m)] \in Memos(p)
    PROVE  Visited(p, visit, v) \in Memos(p)
<1> DEFINE g == byName(p, v.name)
           seen == v.seen \cup {v.name}
<1>1. /\ v.name \in GroupNames(p) /\ v.seen \subseteq GroupNames(p) /\ v.memo \in Memos(p)
    BY VisitHas
<1>2. CASE v.name \in v.memo.done \cup v.seen
    BY <1>1, <1>2 DEF Visited
<1>3. CASE v.name \notin v.memo.done \cup v.seen
    <2>1. g \in Range(p.groups)
        BY <1>1, FirstOfName DEF GroupsListed
    <2>2. Len(g.includes) \in Nat /\ \A i \in Nested(p, g) : g.includes[i] \in GroupNames(p)
        BY <2>1, NestedIs
    <2> DEFINE under == InTurn(visit, g.includes, Nested(p, g), seen, v.memo)
    <2>3. \A i \in Nested(p, g), m \in Memos(p) :
              visit[[name |-> g.includes[i], seen |-> seen, memo |-> m]] \in Memos(p)
        BY <1>3, <2>2 DEF Visit
    <2>4. under \in Memos(p)
        <3> HIDE DEF g, seen
        <3> QED
            BY <1>1, <2>2, <2>3, InTurnStays
    <2>5. Visited(p, visit, v) = Noted(p, v.name, under)
        BY <1>3 DEF Visited
    <2> QED
        BY <1>1, <2>4, <2>5, NotedTyped
<1> QED
    BY <1>2, <1>3

\* A visit looks at the function of its own visits only.
LEMMA VisitedAgrees ==
    ASSUME NEW p, GroupsListed(p), NEW v \in Visits(p), NEW visit, NEW other,
           v.name \notin v.seen =>
               \A n \in GroupNames(p), m \in Memos(p) :
                   LET u == Visit(n, v.seen \cup {v.name}, m)
                   IN  visit[u] \in Memos(p) /\ other[u] = visit[u]
    PROVE  Visited(p, other, v) = Visited(p, visit, v)
<1> DEFINE g == byName(p, v.name)
           seen == v.seen \cup {v.name}
<1>1. /\ v.name \in GroupNames(p) /\ v.seen \subseteq GroupNames(p) /\ v.memo \in Memos(p)
    BY VisitHas
<1>2. CASE v.name \in v.memo.done \cup v.seen
    BY <1>2 DEF Visited
<1>3. CASE v.name \notin v.memo.done \cup v.seen
    <2>1. g \in Range(p.groups)
        BY <1>1, FirstOfName DEF GroupsListed
    <2>2. Len(g.includes) \in Nat /\ \A i \in Nested(p, g) : g.includes[i] \in GroupNames(p)
        BY <2>1, NestedIs
    <2>3. SameOn(visit, other, g.includes, Nested(p, g), seen, Memos(p))
        BY <1>3, <2>2 DEF Visit, SameOn
    <2>4. InTurn(other, g.includes, Nested(p, g), seen, v.memo)
              = InTurn(visit, g.includes, Nested(p, g), seen, v.memo)
        <3> HIDE DEF g, seen
        <3> QED
            BY <1>1, <2>2, <2>3, InTurnAgrees
    <2> QED
        BY <1>3, <2>4 DEF Visited
<1> QED
    BY <1>2, <1>3

Left(p, v) == Cardinality(GroupNames(p) \ v.seen)

LEMMA LeftIs ==
    ASSUME NEW p, GroupsListed(p), NEW v \in Visits(p)
    PROVE  /\ Left(p, v) \in Nat /\ Left(p, v) <= Cardinality(GroupNames(p))
           /\ v.name \notin v.seen =>
                  /\ Left(p, v) # 0
                  /\ \A n, m : Left(p, Visit(n, v.seen \cup {v.name}, m)) = Left(p, v) - 1
<1> DEFINE rest == GroupNames(p) \ v.seen
<1>1. v.name \in GroupNames(p) /\ IsFiniteSet(GroupNames(p))
    BY VisitHas, GroupsFinite
<1>2. IsFiniteSet(rest) /\ Cardinality(rest) <= Cardinality(GroupNames(p)) /\ Cardinality(rest) \in Nat
    BY <1>1, FS_Subset, FS_CardinalityType
<1>3. ASSUME v.name \notin v.seen
      PROVE  Cardinality(rest) # 0 /\ Cardinality(rest \ {v.name}) = Cardinality(rest) - 1
    <2>1. v.name \in rest
        BY <1>1, <1>3
    <2> HIDE DEF rest
    <2> QED
        BY <1>2, <2>1, FS_EmptySet, FS_RemoveElement
<1>4. \A n, m : GroupNames(p) \ Visit(n, v.seen \cup {v.name}, m).seen = rest \ {v.name}
    BY DEF Visit
<1> QED
    BY <1>2, <1>3, <1>4 DEF Left

Solves(p, f, k) ==
    \A v \in Visits(p) : Left(p, v) <= k => f[v] \in Memos(p) /\ f[v] = Visited(p, f, v)

LEMMA SolutionGrows ==
    ASSUME NEW p, GroupsListed(p), NEW k \in Nat, NEW f, Solves(p, f, k)
    PROVE  Solves(p, [v \in Visits(p) |-> Visited(p, f, v)], k + 1)
<1> DEFINE g == [v \in Visits(p) |-> Visited(p, f, v)]
<1> SUFFICES ASSUME NEW v \in Visits(p), Left(p, v) <= k + 1
             PROVE  g[v] \in Memos(p) /\ g[v] = Visited(p, g, v)
    BY DEF Solves
<1>1. g[v] = Visited(p, f, v)
    OBVIOUS
<1>2. ASSUME v.name \notin v.seen, NEW n \in GroupNames(p), NEW m \in Memos(p)
      PROVE  LET u == Visit(n, v.seen \cup {v.name}, m) IN f[u] \in Memos(p) /\ g[u] = f[u]
    <2> DEFINE u == Visit(n, v.seen \cup {v.name}, m)
    <2>1. v.seen \cup {v.name} \subseteq GroupNames(p)
        BY VisitHas
    <2>2. u \in Visits(p)
        BY <2>1, VisitIs
    <2>3. Left(p, u) <= k
        BY <1>2, LeftIs
    <2> HIDE DEF u
    <2>4. f[u] \in Memos(p) /\ f[u] = Visited(p, f, u)
        BY <2>2, <2>3 DEF Solves
    <2> QED
        BY <2>2, <2>4 DEF u
<1> HIDE DEF g
<1>3. Visited(p, f, v) \in Memos(p)
    BY <1>2, VisitedTyped
<1>4. Visited(p, g, v) = Visited(p, f, v)
    BY <1>2, VisitedAgrees
<1> QED
    BY <1>1, <1>3, <1>4

LEMMA SolutionThere ==
    ASSUME NEW p, GroupsListed(p), NEW k \in Nat
    PROVE  \E f : Solves(p, f, k)
<1> DEFINE S == {i \in Nat : \E f : Solves(p, f, i)}
<1>1. 0 \in S
    <2> DEFINE f == [v \in Visits(p) |-> v.memo]
    <2>1. Solves(p, f, 0)
        <3> SUFFICES ASSUME NEW v \in Visits(p), Left(p, v) <= 0
                     PROVE  f[v] \in Memos(p) /\ f[v] = Visited(p, f, v)
            BY DEF Solves
        <3>1. Left(p, v) \in Nat
            BY LeftIs
        <3>2. v.name \in v.seen
            <4>1. Left(p, v) = 0
                BY <3>1
            <4> QED
                BY <4>1, LeftIs
        <3> QED
            BY <3>2, VisitHas DEF Visited
    <2> QED
        BY <2>1
<1>2. ASSUME NEW i \in S PROVE i + 1 \in S
    <2>1. PICK f : Solves(p, f, i)
        OBVIOUS
    <2>2. Solves(p, [v \in Visits(p) |-> Visited(p, f, v)], i + 1)
        BY <2>1, SolutionGrows
    <2> QED
        BY <2>2
<1> HIDE DEF S
<1>3. S = Nat
    BY <1>1, <1>2, AllNaturals DEF S
<1> QED
    BY <1>3 DEF S

IsVisitor(p, f) == f = [v \in Visits(p) |-> Visited(p, f, v)]

LEMMA VisitorThere ==
    ASSUME NEW p, GroupsListed(p)
    PROVE  IsVisitor(p, visitor(p))
<1> DEFINE K == Cardinality(GroupNames(p))
<1>1. K \in Nat
    BY GroupsFinite, FS_CardinalityType
<1>2. PICK f : Solves(p, f, K)
    BY <1>1, SolutionThere
<1> DEFINE h == [v \in Visits(p) |-> f[v]]
<1>3. \A v \in Visits(p) : f[v] \in Memos(p) /\ f[v] = Visited(p, f, v)
    BY <1>2, LeftIs DEF Solves
<1>4. ASSUME NEW v \in Visits(p) PROVE h[v] = Visited(p, h, v)
    <2>1. ASSUME v.name \notin v.seen, NEW n \in GroupNames(p), NEW m \in Memos(p)
          PROVE  LET u == Visit(n, v.seen \cup {v.name}, m) IN f[u] \in Memos(p) /\ h[u] = f[u]
        <3>1. v.seen \cup {v.name} \subseteq GroupNames(p)
            BY VisitHas
        <3>2. Visit(n, v.seen \cup {v.name}, m) \in Visits(p)
            BY <3>1, VisitIs
        <3> QED
            BY <3>2, <1>3
    <2>2. h[v] = Visited(p, f, v)
        BY <1>3
    <2> HIDE DEF h
    <2>3. Visited(p, h, v) = Visited(p, f, v)
        BY <2>1, VisitedAgrees
    <2> QED
        BY <2>2, <2>3
<1>5. h = [v \in Visits(p) |-> h[v]]
    OBVIOUS
<1> HIDE DEF h
<1>6. IsVisitor(p, h)
    BY <1>4, <1>5 DEF IsVisitor
<1> QED
    BY <1>6 DEF visitor, IsVisitor

\* groupExpansion's visits, one at a time.
LEMMA VisitorIs ==
    ASSUME NEW p, GroupsListed(p), NEW v \in Visits(p)
    PROVE  /\ visitor(p)[v] = Visited(p, visitor(p), v)
           /\ visitor(p)[v] \in Memos(p)
<1> DEFINE f == visitor(p)
           S == {k \in Nat : \A u \in Visits(p) : Left(p, u) <= k => f[u] \in Memos(p)}
<1>1. \A u \in Visits(p) : f[u] = Visited(p, f, u)
    <2> HIDE DEF f
    <2>1. IsVisitor(p, f)
        BY VisitorThere DEF f
    <2> QED
        BY <2>1 DEF IsVisitor
<1> HIDE DEF f
<1>2. 0 \in S
    <2> SUFFICES ASSUME NEW u \in Visits(p), Left(p, u) <= 0 PROVE f[u] \in Memos(p)
        OBVIOUS
    <2>1. Left(p, u) \in Nat
        BY LeftIs
    <2>2. u.name \in u.seen
        <3>1. Left(p, u) = 0
            BY <2>1
        <3> QED
            BY <3>1, LeftIs
    <2> QED
        BY <1>1, <2>2, VisitHas DEF Visited
<1>3. ASSUME NEW k \in S PROVE k + 1 \in S
    <2> SUFFICES ASSUME NEW u \in Visits(p), Left(p, u) <= k + 1 PROVE f[u] \in Memos(p)
        OBVIOUS
    <2>1. ASSUME u.name \notin u.seen, NEW n \in GroupNames(p), NEW m \in Memos(p)
          PROVE  f[Visit(n, u.seen \cup {u.name}, m)] \in Memos(p)
        <3>1. u.seen \cup {u.name} \subseteq GroupNames(p)
            BY VisitHas
        <3>2. Visit(n, u.seen \cup {u.name}, m) \in Visits(p)
            BY <3>1, VisitIs
        <3>3. Left(p, Visit(n, u.seen \cup {u.name}, m)) <= k
            BY <2>1, LeftIs
        <3> QED
            BY <3>2, <3>3
    <2> QED
        BY <1>1, <2>1, VisitedTyped
<1> HIDE DEF S
<1>4. S = Nat
    BY <1>2, <1>3, AllNaturals DEF S
<1>5. Left(p, v) \in S
    BY <1>4, LeftIs
<1> QED
    BY <1>1, <1>5, LeftIs DEF S, f

-----------------------------------------------------------------------------
(***************************************************************************)
(* What a group leads to: the least set that has it and, with a group, the *)
(* groups it includes.                                                     *)
(***************************************************************************)
LEMMA UnderSelf ==
    ASSUME NEW p, NEW name \in GroupNames(p)
    PROVE  name \in Under(p, name)
BY DEF Under

LEMMA UnderLeast ==
    ASSUME NEW p, NEW name, NEW s, s \subseteq GroupNames(p), Closed(p, s), name \in s
    PROVE  Under(p, name) \subseteq s
BY DEF Under

LEMMA UnderClosed ==
    ASSUME NEW p, NEW name
    PROVE  Under(p, name) \subseteq GroupNames(p) /\ Closed(p, Under(p, name))
<1>1. Under(p, name) \subseteq GroupNames(p)
    BY DEF Under
<1>2. ASSUME NEW n \in Under(p, name), NEW m \in GroupsIn(p, n) PROVE m \in Under(p, name)
    <2>1. m \in GroupNames(p)
        BY <1>2 DEF GroupsIn
    <2>2. ASSUME NEW s \in SUBSET GroupNames(p), Closed(p, s), name \in s PROVE m \in s
        <3>1. n \in s
            BY <1>2, <2>2 DEF Under
        <3> QED
            BY <1>2, <2>2, <3>1 DEF Closed
    <2> QED
        BY <2>1, <2>2 DEF Under
<1> QED
    BY <1>1, <1>2 DEF Closed

LEMMA UnderGoesOn ==
    ASSUME NEW p, NEW name, NEW n \in Under(p, name)
    PROVE  Under(p, n) \subseteq Under(p, name) /\ GroupsIn(p, n) \subseteq Under(p, name)
<1>1. Under(p, name) \subseteq GroupNames(p) /\ Closed(p, Under(p, name))
    BY UnderClosed
<1> QED
    BY <1>1, UnderLeast DEF Closed

\* A group leads to itself and to what the groups it includes lead to.
LEMMA UnderSplits ==
    ASSUME NEW p, NEW name \in GroupNames(p)
    PROVE  Under(p, name) = {name} \cup UNION {Under(p, n) : n \in GroupsIn(p, name)}
<1> DEFINE all == {name} \cup UNION {Under(p, n) : n \in GroupsIn(p, name)}
<1>1. all \subseteq Under(p, name)
    <2>1. name \in Under(p, name)
        BY UnderSelf
    <2>2. \A n \in GroupsIn(p, name) : n \in Under(p, name)
        BY <2>1, UnderGoesOn
    <2>3. \A n \in GroupsIn(p, name) : Under(p, n) \subseteq Under(p, name)
        BY <2>2, UnderGoesOn
    <2> QED
        BY <2>1, <2>3
<1>2. all \subseteq GroupNames(p)
    BY UnderClosed
<1>3. Closed(p, all)
    <2> SUFFICES ASSUME NEW m \in all, NEW n \in GroupsIn(p, m) PROVE n \in all
        BY DEF Closed
    <2>1. n \in GroupNames(p)
        BY DEF GroupsIn
    <2>2. CASE m = name
        BY <2>1, <2>2, UnderSelf
    <2>3. CASE m # name
        <3>1. PICK k \in GroupsIn(p, name) : m \in Under(p, k)
            BY <2>3
        <3>2. n \in Under(p, k)
            BY <3>1, UnderGoesOn
        <3> QED
            BY <3>1, <3>2
    <2> QED
        BY <2>2, <2>3
<1> HIDE DEF all
<1>4. Under(p, name) \subseteq all
    BY <1>2, <1>3, UnderLeast DEF all
<1> QED
    BY <1>1, <1>4 DEF all

\* A group that leads back to one that includes it closes a cycle.
LEMMA CycleFound ==
    ASSUME NEW p, NEW name \in GroupNames(p), NEW n \in GroupsIn(p, name), name \in Under(p, n)
    PROVE  InCycle(p, name)
<1> SUFFICES ASSUME ~InCycle(p, name) PROVE FALSE
    OBVIOUS
<1> DEFINE rest == Under(p, name) \ {name}
<1>1. name \in Under(p, name) /\ n \in Under(p, name)
    BY UnderSelf, UnderGoesOn
<1>2. \A m \in Under(p, name) : name \notin GroupsIn(p, m)
    BY DEF InCycle
<1>3. rest \subseteq GroupNames(p)
    BY UnderClosed
<1>4. Closed(p, rest)
    <2> SUFFICES ASSUME NEW m \in rest PROVE GroupsIn(p, m) \subseteq rest
        BY DEF Closed
    <2>1. GroupsIn(p, m) \subseteq Under(p, name)
        BY UnderGoesOn
    <2> QED
        BY <1>2, <2>1
<1>5. n \in rest
    BY <1>1, <1>2
<1> HIDE DEF rest
<1>6. Under(p, n) \subseteq rest
    BY <1>3, <1>4, <1>5, UnderLeast
<1> QED
    BY <1>6 DEF rest

LEMMA ClearBelow ==
    ASSUME NEW p, NEW name \in GroupNames(p), ~LeadsToCycle(p, name), NEW n \in GroupsIn(p, name)
    PROVE  ~LeadsToCycle(p, n) /\ name \notin Under(p, n)
<1>1. name \in Under(p, name) /\ n \in Under(p, name)
    BY UnderSelf, UnderGoesOn
<1>2. Under(p, n) \subseteq Under(p, name)
    BY <1>1, UnderGoesOn
<1>3. ~InCycle(p, name)
    BY <1>1 DEF LeadsToCycle
<1>4. ~LeadsToCycle(p, n)
    BY <1>2 DEF LeadsToCycle
<1> QED
    BY <1>3, <1>4, CycleFound

-----------------------------------------------------------------------------
(***************************************************************************)
(* What a group covers, by what it includes.                               *)
(***************************************************************************)
\* No two kinds of a pack have one name (checkTypes and checkCollisions).
KindsApart(p) ==
    /\ \A i, j \in DOMAIN p.groups : p.groups[i].name = p.groups[j].name => i = j
    /\ GroupNames(p) \cap Range(p.types) = {}

LEMMA DirectIs ==
    ASSUME NEW p, GroupsListed(p), KindsApart(p), NEW name \in GroupNames(p)
    PROVE  Direct(p, name) = Range(byName(p, name).includes)
<1>1. byName(p, name) \in Range(p.groups) /\ byName(p, name).name = name
    BY FirstOfName DEF GroupsListed
<1>2. \A h \in Range(p.groups) : h.name = name => h = byName(p, name)
    BY <1>1 DEF KindsApart, Range
<1>3. {h \in Range(p.groups) : h.name = name} = {byName(p, name)}
    BY <1>1, <1>2
<1> QED
    BY <1>3 DEF Direct

Said(p, name) == UNION {Direct(p, n) : n \in Under(p, name)}

LEMMA CoversIs ==
    ASSUME NEW p, NEW name
    PROVE  Covers(p, name) = IF wildcard \in Said(p, name) THEN Range(p.types)
                             ELSE Said(p, name) \cap Range(p.types)
BY DEF Covers, Said

LEMMA SaidSplits ==
    ASSUME NEW p, NEW name \in GroupNames(p)
    PROVE  Said(p, name) = Direct(p, name) \cup UNION {Said(p, n) : n \in GroupsIn(p, name)}
<1>1. Under(p, name) = {name} \cup UNION {Under(p, n) : n \in GroupsIn(p, name)}
    BY UnderSplits
<1>2. \A x : (\E m \in Under(p, name) : x \in Direct(p, m))
          <=> \/ x \in Direct(p, name)
              \/ \E n \in GroupsIn(p, name) : \E m \in Under(p, n) : x \in Direct(p, m)
    BY <1>1
<1> QED
    BY <1>2 DEF Said

LEMMA IncludedIs ==
    ASSUME NEW p, KindsApart(p), NEW name \in GroupNames(p), NEW out, NEW x \in Direct(p, name)
    PROVE  /\ x = wildcard => Included(p, out, x) = Range(p.types)
           /\ x # wildcard /\ x \in Range(p.types) => Included(p, out, x) = {x}
           /\ x \in GroupsIn(p, name) => Included(p, out, x) = out[x]
           /\ x # wildcard /\ x \notin Range(p.types) /\ x \notin GroupsIn(p, name)
                  => Included(p, out, x) = {}
<1>1. x \in GroupsIn(p, name) <=> x # wildcard /\ x \in GroupNames(p)
    BY DEF GroupsIn
<1>2. x \in GroupNames(p) => x \notin Range(p.types)
    BY DEF KindsApart
<1>3. CASE x = wildcard
    BY <1>1, <1>3 DEF Included
<1>4. CASE x # wildcard /\ x \in Range(p.types)
    BY <1>1, <1>2, <1>4 DEF Included, HasType
<1>5. CASE x # wildcard /\ x \notin Range(p.types) /\ x \in GroupNames(p)
    BY <1>1, <1>5 DEF Included, HasType, HasGroup
<1>6. CASE x # wildcard /\ x \notin Range(p.types) /\ x \notin GroupNames(p)
    BY <1>1, <1>6 DEF Included, HasType, HasGroup
<1> QED
    BY <1>3, <1>4, <1>5, <1>6

LEMMA CoversSplits ==
    ASSUME NEW p, KindsApart(p), NEW name \in GroupNames(p), NEW out,
           \A n \in GroupsIn(p, name) : out[n] = Covers(p, n)
    PROVE  UNION {Included(p, out, x) : x \in Direct(p, name)} = Covers(p, name)
<1> DEFINE all == UNION {Included(p, out, x) : x \in Direct(p, name)}
<1>1. \A n \in GroupsIn(p, name) : Covers(p, n) \subseteq Range(p.types)
    BY CoversIs
<1>2. all \subseteq Range(p.types)
    BY <1>1, IncludedIs
<1>3. \A n \in GroupsIn(p, name) : n \in Direct(p, name) /\ n # wildcard /\ n \notin Range(p.types)
    BY DEF GroupsIn, KindsApart
<1>4. Said(p, name) = Direct(p, name) \cup UNION {Said(p, n) : n \in GroupsIn(p, name)}
    BY SaidSplits
<1>5. \A n \in GroupsIn(p, name) : Included(p, out, n) = Covers(p, n)
    BY <1>3, IncludedIs
<1>6. CASE wildcard \in Direct(p, name)
    <2>1. Included(p, out, wildcard) = Range(p.types)
        BY <1>6, IncludedIs
    <2>2. all = Range(p.types)
        BY <1>2, <1>6, <2>1
    <2> QED
        BY <1>4, <1>6, <2>2, CoversIs
<1>7. CASE wildcard \notin Direct(p, name) /\ \E n \in GroupsIn(p, name) : wildcard \in Said(p, n)
    <2>1. PICK n \in GroupsIn(p, name) : wildcard \in Said(p, n)
        BY <1>7
    <2>2. Included(p, out, n) = Range(p.types)
        BY <1>5, <2>1, CoversIs
    <2>3. all = Range(p.types)
        BY <1>2, <1>3, <2>2
    <2> QED
        BY <1>4, <2>1, <2>3, CoversIs
<1>8. CASE wildcard \notin Said(p, name)
    <2>1. \A n \in GroupsIn(p, name) : Covers(p, n) = Said(p, n) \cap Range(p.types)
        BY <1>4, <1>8, CoversIs
    <2>2. Covers(p, name) = Said(p, name) \cap Range(p.types)
        BY <1>8, CoversIs
    <2>3. ASSUME NEW t \in all PROVE t \in Covers(p, name)
        <3>1. PICK x \in Direct(p, name) : t \in Included(p, out, x)
            BY <2>3
        <3>2. x # wildcard
            BY <1>4, <1>8
        <3>3. CASE x \in Range(p.types)
            BY <1>4, <2>2, <3>1, <3>2, <3>3, IncludedIs
        <3>4. CASE x \in GroupsIn(p, name)
            BY <1>4, <1>5, <2>1, <2>2, <3>1, <3>4
        <3>5. CASE x \notin Range(p.types) /\ x \notin GroupsIn(p, name)
            BY <3>1, <3>2, <3>5, IncludedIs
        <3> QED
            BY <3>3, <3>4, <3>5
    <2>4. ASSUME NEW t \in Covers(p, name) PROVE t \in all
        <3>1. t \in Said(p, name) /\ t \in Range(p.types) /\ t # wildcard
            BY <1>8, <2>2, <2>4
        <3>2. CASE t \in Direct(p, name)
            <4>1. Included(p, out, t) = {t}
                BY <3>1, <3>2, IncludedIs
            <4> QED
                BY <3>2, <4>1
        <3>3. CASE t \notin Direct(p, name)
            <4>1. PICK n \in GroupsIn(p, name) : t \in Said(p, n)
                BY <1>4, <3>1, <3>3
            <4>2. t \in Included(p, out, n)
                BY <1>5, <2>1, <3>1, <4>1
            <4> QED
                BY <1>3, <4>2
        <3> QED
            BY <3>2, <3>3
    <2> QED
        BY <2>3, <2>4
<1>9. wildcard \notin Direct(p, name) /\ wildcard \in Said(p, name)
          => \E n \in GroupsIn(p, name) : wildcard \in Said(p, n)
    BY <1>4
<1> QED
    BY <1>6, <1>7, <1>8, <1>9

-----------------------------------------------------------------------------
(***************************************************************************)
(* What a visit leaves in the memo: for every group that is done and leads *)
(* to no cycle, what it covers.  A visit goes down from groups that lead   *)
(* to its own, so one it has seen is met again in a cycle only.            *)
(***************************************************************************)
RightMemos(p) ==
    {m \in Memos(p) : \A g \in m.done : ~LeadsToCycle(p, g) => m.out[g] = Covers(p, g)}
Below(p, v) == \A s \in v.seen : v.name \in Under(p, s)
Does(p, v, m) ==
    /\ m \in RightMemos(p) /\ v.memo.done \subseteq m.done
    /\ v.name \in v.seen \/ v.name \in m.done

\* The groups of a pack can be expanded.
Expandable(p) == GroupsListed(p) /\ KindsApart(p)

LEMMA NestedIsGroupsIn ==
    ASSUME NEW p, Expandable(p), NEW name \in GroupNames(p), NEW g, g = byName(p, name)
    PROVE  /\ \A i \in Nested(p, g) : g.includes[i] \in GroupsIn(p, name)
           /\ \A n \in GroupsIn(p, name) : \E i \in Nested(p, g) : g.includes[i] = n
<1>1. Direct(p, name) = Range(g.includes)
    BY DirectIs DEF Expandable
<1>2. \A i \in Nested(p, g) : g.includes[i] \in GroupsIn(p, name)
    BY <1>1 DEF Nested, GroupsIn, HasGroup, Range
<1>3. ASSUME NEW n \in GroupsIn(p, name) PROVE \E i \in Nested(p, g) : g.includes[i] = n
    <2>1. n \in Range(g.includes) /\ n # wildcard /\ n \in GroupNames(p) /\ n \notin Range(p.types)
        BY <1>1 DEF GroupsIn, Expandable, KindsApart
    <2>2. PICK i \in DOMAIN g.includes : g.includes[i] = n
        BY <2>1 DEF Range
    <2> QED
        BY <2>1, <2>2 DEF Nested, HasType, HasGroup
<1> QED
    BY <1>2, <1>3

LEMMA NotedRight ==
    ASSUME NEW p, Expandable(p), NEW name \in GroupNames(p), NEW m \in RightMemos(p),
           ~LeadsToCycle(p, name) => GroupsIn(p, name) \subseteq m.done
    PROVE  Noted(p, name, m) \in RightMemos(p)
<1> DEFINE u == Noted(p, name, m)
           all == UNION {Included(p, m.out, n) : n \in Range(byName(p, name).includes)}
<1>1. /\ m \in Memos(p) /\ m.out \in [GroupNames(p) -> SUBSET Range(p.types)]
      /\ m.done \subseteq GroupNames(p)
      /\ \A g \in m.done : ~LeadsToCycle(p, g) => m.out[g] = Covers(p, g)
    BY DEF RightMemos, Memos
<1>2. u \in Memos(p)
    BY <1>1, NotedTyped
<1>3. u.done = m.done \cup {name} /\ u.out = [m.out EXCEPT ![name] = all]
    BY DEF Noted
<1>4. ASSUME ~LeadsToCycle(p, name) PROVE all = Covers(p, name)
    <2>1. \A n \in GroupsIn(p, name) : m.out[n] = Covers(p, n)
        BY <1>1, <1>4, ClearBelow
    <2>2. Range(byName(p, name).includes) = Direct(p, name)
        BY DirectIs DEF Expandable
    <2> QED
        BY <2>1, <2>2, CoversSplits DEF Expandable
<1> HIDE DEF all, u
<1>5. ASSUME NEW g \in u.done, ~LeadsToCycle(p, g) PROVE u.out[g] = Covers(p, g)
    <2>1. CASE g = name
        BY <1>1, <1>3, <1>4, <1>5, <2>1
    <2>2. CASE g # name
        <3>1. g \in m.done /\ g \in GroupNames(p)
            BY <1>1, <1>3, <1>5, <2>2
        <3>2. u.out[g] = m.out[g]
            BY <1>1, <1>3, <2>2, <3>1
        <3> QED
            BY <1>1, <1>5, <3>1, <3>2
    <2> QED
        BY <2>1, <2>2
<1> QED
    BY <1>2, <1>5 DEF RightMemos, u

LEMMA VisitedRight ==
    ASSUME NEW p, Expandable(p), NEW v \in Visits(p), v.memo \in RightMemos(p), Below(p, v), NEW visit,
           v.name \notin v.seen =>
               \A n \in GroupsIn(p, v.name), m \in RightMemos(p) :
                   LET u == Visit(n, v.seen \cup {v.name}, m) IN Does(p, u, visit[u])
    PROVE  Does(p, v, Visited(p, visit, v))
<1> DEFINE g == byName(p, v.name)
           seen == v.seen \cup {v.name}
           under == InTurn(visit, g.includes, Nested(p, g), seen, v.memo)
<1>1. /\ v.name \in GroupNames(p) /\ v.seen \subseteq GroupNames(p) /\ v.memo \in Memos(p)
    BY VisitHas
<1>2. CASE v.name \in v.memo.done \cup v.seen
    BY <1>1, <1>2 DEF Visited, Does
<1>3. CASE v.name \notin v.memo.done \cup v.seen
    <2>1. g \in Range(p.groups)
        BY <1>1, FirstOfName DEF GroupsListed, Expandable
    <2>2. Len(g.includes) \in Nat /\ Nested(p, g) \subseteq 1..Len(g.includes)
        BY <2>1, NestedIs DEF Expandable
    <2>3. /\ \A i \in Nested(p, g) : g.includes[i] \in GroupsIn(p, v.name)
          /\ \A n \in GroupsIn(p, v.name) : \E i \in Nested(p, g) : g.includes[i] = n
        BY <1>1, NestedIsGroupsIn
    <2>4. ASSUME NEW i \in Nested(p, g), NEW m \in RightMemos(p)
          PROVE  LET u == visit[[name |-> g.includes[i], seen |-> seen, memo |-> m]]
                 IN  /\ u \in RightMemos(p) /\ m.done \subseteq u.done
                     /\ g.includes[i] \in seen \/ g.includes[i] \in u.done
        <3> DEFINE n == g.includes[i]
        <3>1. Does(p, Visit(n, seen, m), visit[Visit(n, seen, m)])
            BY <1>3, <2>3
        <3> HIDE DEF n, seen
        <3> QED
            BY <3>1 DEF Does, Visit, n
    <2>5. /\ under \in RightMemos(p) /\ v.memo.done \subseteq under.done
          /\ \A i \in Nested(p, g) : g.includes[i] \in seen \/ g.includes[i] \in under.done
        <3> HIDE DEF g, seen
        <3> QED
            BY <2>2, <2>4, InTurnDoes
    <2> HIDE DEF under
    <2>6. ASSUME ~LeadsToCycle(p, v.name) PROVE GroupsIn(p, v.name) \subseteq under.done
        <3> SUFFICES ASSUME NEW n \in GroupsIn(p, v.name) PROVE n \in under.done
            OBVIOUS
        <3>1. v.name \notin Under(p, n) /\ n \in GroupNames(p)
            BY <1>1, <2>6, ClearBelow DEF GroupsIn
        <3>2. n \notin seen
            BY <3>1, UnderSelf DEF Below
        <3> QED
            BY <2>3, <2>5, <3>2
    <2>7. Visited(p, visit, v) = Noted(p, v.name, under)
        BY <1>3 DEF Visited, under
    <2>8. Noted(p, v.name, under) \in RightMemos(p)
        BY <1>1, <2>5, <2>6, NotedRight
    <2>9. Noted(p, v.name, under).done = under.done \cup {v.name}
        BY DEF Noted
    <2> QED
        BY <2>5, <2>7, <2>8, <2>9 DEF Does
<1> QED
    BY <1>2, <1>3

LEMMA VisitorDoes ==
    ASSUME NEW p, Expandable(p), NEW v \in Visits(p), v.memo \in RightMemos(p), Below(p, v)
    PROVE  Does(p, v, visitor(p)[v])
<1> DEFINE f == visitor(p)
           Ready(u) == u.memo \in RightMemos(p) /\ Below(p, u)
<1> DEFINE S == {k \in Nat : \A u \in Visits(p) : Left(p, u) <= k /\ Ready(u) => Does(p, u, f[u])}
<1>1. \A u \in Visits(p) : f[u] = Visited(p, f, u)
    BY VisitorIs DEF Expandable
<1> HIDE DEF f
<1>2. 0 \in S
    <2> SUFFICES ASSUME NEW u \in Visits(p), Left(p, u) <= 0, Ready(u) PROVE Does(p, u, f[u])
        OBVIOUS
    <2>1. Left(p, u) \in Nat
        BY LeftIs DEF Expandable
    <2>2. Left(p, u) = 0
        BY <2>1
    <2>3. u.name \in u.seen
        BY <2>2, LeftIs DEF Expandable
    <2> QED
        BY <1>1, <2>3 DEF Visited, Does
<1>3. ASSUME NEW k \in S PROVE k + 1 \in S
    <2> SUFFICES ASSUME NEW u \in Visits(p), Left(p, u) <= k + 1, Ready(u) PROVE Does(p, u, f[u])
        OBVIOUS
    <2>1. ASSUME u.name \notin u.seen, NEW n \in GroupsIn(p, u.name), NEW m \in RightMemos(p)
          PROVE  Does(p, Visit(n, u.seen \cup {u.name}, m), f[Visit(n, u.seen \cup {u.name}, m)])
        <3> DEFINE w == Visit(n, u.seen \cup {u.name}, m)
        <3>1. u.name \in GroupNames(p) /\ u.seen \cup {u.name} \subseteq GroupNames(p)
            BY VisitHas
        <3>2. n \in GroupNames(p) /\ m \in Memos(p)
            BY DEF GroupsIn, RightMemos
        <3>3. w \in Visits(p)
            BY <3>1, <3>2, VisitIs
        <3>4. Left(p, w) <= k
            BY <2>1, LeftIs DEF Expandable
        <3>5. ASSUME NEW s \in u.seen \cup {u.name} PROVE n \in Under(p, s)
            <4>1. u.name \in Under(p, s)
                BY <3>1, UnderSelf DEF Below
            <4> QED
                BY <4>1, UnderGoesOn
        <3>6. Ready(w)
            BY <3>5 DEF Visit, Below
        <3> HIDE DEF w
        <3>7. Does(p, w, f[w])
            BY <3>3, <3>4, <3>6
        <3> QED
            BY <3>7 DEF w
    <2>2. Does(p, u, Visited(p, f, u))
        BY <2>1, VisitedRight
    <2> QED
        BY <1>1, <2>2
<1> HIDE DEF S
<1>4. S = Nat
    BY <1>2, <1>3, AllNaturals DEF S
<1>5. Left(p, v) \in Nat
    BY LeftIs DEF Expandable
<1>6. Left(p, v) \in S /\ Left(p, v) <= Left(p, v)
    BY <1>4, <1>5
<1> QED
    BY <1>6 DEF S, f

\* What groupExpansion finds for a group that leads to no cycle is what it covers.
LEMMA ExpansionIs ==
    ASSUME NEW p, Expandable(p)
    PROVE  /\ groupExpansion(p) \in [GroupNames(p) -> SUBSET Range(p.types)]
           /\ \A name \in GroupNames(p) :
                  ~LeadsToCycle(p, name) => groupExpansion(p)[name] = Covers(p, name)
<1> DEFINE names == NamesOf(p.groups)
           all == InTurn(visitor(p), names, DOMAIN p.groups, {}, NoneDone(p))
<1>1. DOMAIN p.groups = 1..Len(p.groups) /\ Len(p.groups) \in Nat
    BY ListedIs DEF Expandable, GroupsListed
<1>2. names = [i \in 1..Len(p.groups) |-> p.groups[i].name]
    BY <1>1 DEF NamesOf
<1>3. Len(names) = Len(p.groups) /\ DOMAIN names = 1..Len(p.groups)
    BY <1>1, <1>2
<1>4. NoneDone(p) \in RightMemos(p)
    BY DEF NoneDone, RightMemos, Memos
<1>5. ASSUME NEW i \in DOMAIN p.groups, NEW m \in RightMemos(p)
      PROVE  LET u == visitor(p)[[name |-> names[i], seen |-> {}, memo |-> m]]
             IN  u \in RightMemos(p) /\ m.done \subseteq u.done /\ (names[i] \in {} \/ names[i] \in u.done)
    <2> DEFINE v == Visit(names[i], {}, m)
    <2>1. names[i] \in GroupNames(p) /\ m \in Memos(p)
        BY <1>1, <1>3 DEF GroupNames, Range, RightMemos
    <2>2. v \in Visits(p) /\ v.seen = {} /\ v.memo = m /\ v.name = names[i]
        BY <2>1, VisitIs DEF Visit
    <2> HIDE DEF v, names
    <2>3. Does(p, v, visitor(p)[v])
        BY <2>2, VisitorDoes DEF Below
    <2> QED
        BY <2>2, <2>3 DEF Does, v, Visit
<1>6. all \in RightMemos(p) /\ \A i \in DOMAIN p.groups : names[i] \in all.done
    <2> HIDE DEF names
    <2> QED
        BY <1>1, <1>3, <1>4, <1>5, InTurnDoes
<1>7. groupExpansion(p) = all.out
    BY DEF groupExpansion
<1>8. GroupNames(p) \subseteq all.done
    <2> HIDE DEF all
    <2> QED
        BY <1>1, <1>3, <1>6 DEF GroupNames, Range
<1> HIDE DEF all
<1> QED
    BY <1>6, <1>7, <1>8 DEF RightMemos, Memos

-----------------------------------------------------------------------------
(***************************************************************************)
(* Two packs joined.                                                       *)
(***************************************************************************)
Joins(s, t, j) ==
    /\ IsListed(j) /\ Len(s) \in Nat /\ Len(t) \in Nat
    /\ DOMAIN s = 1..Len(s) /\ DOMAIN t = 1..Len(t) /\ DOMAIN j = 1..(Len(s) + Len(t))
    /\ \A i \in DOMAIN s : i \in DOMAIN j /\ j[i] = s[i]
    /\ \A i \in DOMAIN t : Len(s) + i \in DOMAIN j /\ j[Len(s) + i] = t[i]
    /\ \A i \in DOMAIN j : i \in DOMAIN s \/ i - Len(s) \in DOMAIN t
    /\ Range(j) = Range(s) \cup Range(t)

LEMMA JoinIs ==
    ASSUME NEW s, IsListed(s), NEW t, IsListed(t)
    PROVE  Joins(s, t, s \o t)
<1> DEFINE j == s \o t
<1>1. /\ Len(s) \in Nat /\ DOMAIN s = 1..Len(s) /\ s \in Seq(Range(s))
      /\ Len(t) \in Nat /\ DOMAIN t = 1..Len(t) /\ t \in Seq(Range(t))
    BY ListedIs DEF IsListed
<1>2. /\ j \in Seq(Range(s) \cup Range(t)) /\ Len(j) = Len(s) + Len(t)
      /\ DOMAIN j = 1..(Len(s) + Len(t))
      /\ \A i \in 1..(Len(s) + Len(t)) : j[i] = IF i <= Len(s) THEN s[i] ELSE t[i - Len(s)]
    <2>1. s \in Seq(Range(s) \cup Range(t)) /\ t \in Seq(Range(s) \cup Range(t))
        <3> HIDE DEF Range
        <3> QED
            BY <1>1
    <2> QED
        BY <1>1, <2>1
<1> HIDE DEF j
<1>3. \A i \in DOMAIN s : i \in DOMAIN j /\ j[i] = s[i]
    BY <1>1, <1>2
<1>4. \A i \in DOMAIN t : Len(s) + i \in DOMAIN j /\ j[Len(s) + i] = t[i]
    BY <1>1, <1>2
<1>5. \A i \in DOMAIN j : i \in DOMAIN s \/ i - Len(s) \in DOMAIN t
    BY <1>1, <1>2
<1>6. Range(j) = Range(s) \cup Range(t)
    <2>1. \A i \in DOMAIN j : j[i] \in Range(s) \cup Range(t)
        <3>1. ASSUME NEW i \in DOMAIN j PROVE j[i] \in Range(s) \cup Range(t)
            <4>1. CASE i \in DOMAIN s
                BY <1>3, <4>1 DEF Range
            <4>2. CASE i - Len(s) \in DOMAIN t
                <5>1. Len(s) + (i - Len(s)) = i
                    BY <1>1, <1>2
                <5>2. j[i] = t[i - Len(s)]
                    BY <1>4, <4>2, <5>1
                <5> QED
                    BY <4>2, <5>2 DEF Range
            <4> QED
                BY <1>5, <4>1, <4>2
        <3> QED
            BY <3>1
    <2>2. \A i \in DOMAIN s : s[i] \in Range(j)
        BY <1>3 DEF Range
    <2>3. \A i \in DOMAIN t : t[i] \in Range(j)
        BY <1>4 DEF Range
    <2> QED
        BY <2>1, <2>2, <2>3 DEF Range
<1>7. IsListed(j)
    <2> HIDE DEF Range
    <2> QED
        BY <1>2, <1>6 DEF IsListed
<1> QED
    BY <1>1, <1>2, <1>3, <1>4, <1>5, <1>6, <1>7 DEF j, Joins

Fields == {"source", "parses", "version", "pin", "types", "groups", "roles", "relations", "eras", "acts"}

LEMMA MergedIs ==
    ASSUME NEW c, NEW p, DOMAIN p = Fields
    PROVE  /\ Merged(c, p).types = c.types \o p.types /\ Merged(c, p).groups = c.groups \o p.groups
           /\ Merged(c, p).relations = c.relations \o p.relations
           /\ Merged(c, p).roles = c.roles \o p.roles
BY DEF Merged, Fields

\* A name is claimed once.
LEMMA ClaimedOnce ==
    ASSUME NEW claims, Apart(claims), NEW a \in claims, NEW b \in claims, a.name = b.name
    PROVE  a = b
BY DEF Apart

LEMMA KindsAreClaimed ==
    ASSUME NEW p
    PROVE  /\ \A i \in DOMAIN p.groups : [of |-> "group", at |-> i, name |-> p.groups[i].name] \in KindClaims(p)
           /\ \A i \in DOMAIN p.types : [of |-> "type", at |-> i, name |-> p.types[i]] \in KindClaims(p)
BY DEF KindClaims, Claims, NamesOf

LEMMA KindsOfOne ==
    ASSUME NEW p, Apart(KindClaims(p))
    PROVE  KindsApart(p)
<1>1. ASSUME NEW i \in DOMAIN p.groups, NEW j \in DOMAIN p.groups, p.groups[i].name = p.groups[j].name
      PROVE  i = j
    <2>1. [of |-> "group", at |-> i, name |-> p.groups[i].name]
              = [of |-> "group", at |-> j, name |-> p.groups[j].name]
        BY <1>1, KindsAreClaimed, ClaimedOnce
    <2> QED
        BY <2>1
<1>2. ASSUME NEW i \in DOMAIN p.groups, NEW j \in DOMAIN p.types, p.groups[i].name = p.types[j]
      PROVE  FALSE
    <2>1. [of |-> "group", at |-> i, name |-> p.groups[i].name]
              = [of |-> "type", at |-> j, name |-> p.types[j]]
        BY <1>2, KindsAreClaimed, ClaimedOnce
    <2> QED
        BY <2>1
<1>3. \A n \in GroupNames(p) : \E i \in DOMAIN p.groups : n = p.groups[i].name
    BY DEF GroupNames, NamesOf, Range
<1>4. \A n \in Range(p.types) : \E j \in DOMAIN p.types : n = p.types[j]
    BY DEF Range
<1> QED
    BY <1>1, <1>2, <1>3, <1>4 DEF KindsApart

\* Nothing of the one pack has a name of the other.
Strangers(c, p) ==
    /\ GroupNames(c) \cap GroupNames(p) = {} /\ Range(c.types) \cap Range(p.types) = {}
    /\ GroupNames(c) \cap Range(p.types) = {} /\ Range(c.types) \cap GroupNames(p) = {}

LEMMA KindsFree ==
    ASSUME NEW c, NEW p, Free(KindClaims(p), KindClaims(c))
    PROVE  Strangers(c, p)
<1>1. \A a \in KindClaims(p), b \in KindClaims(c) : a.name # b.name
    BY DEF Free
<1>2. ASSUME NEW q, NEW n \in GroupNames(q) \cup Range(q.types)
      PROVE  \E a \in KindClaims(q) : a.name = n
    <2>1. CASE n \in GroupNames(q)
        <3>1. PICK i \in DOMAIN q.groups : n = q.groups[i].name
            BY <2>1 DEF GroupNames, NamesOf, Range
        <3> DEFINE a == [of |-> "group", at |-> i, name |-> q.groups[i].name]
        <3>2. a \in KindClaims(q) /\ a.name = n
            BY <3>1, KindsAreClaimed
        <3> QED
            BY <3>2
    <2>2. CASE n \in Range(q.types)
        <3>1. PICK i \in DOMAIN q.types : n = q.types[i]
            BY <2>2 DEF Range
        <3> DEFINE a == [of |-> "type", at |-> i, name |-> q.types[i]]
        <3>2. a \in KindClaims(q) /\ a.name = n
            BY <3>1, KindsAreClaimed
        <3> QED
            BY <3>2
    <2> QED
        BY <2>1, <2>2
<1>3. \A n \in GroupNames(p) \cup Range(p.types) : n \notin GroupNames(c) \cup Range(c.types)
    <2> SUFFICES ASSUME NEW n \in GroupNames(p) \cup Range(p.types), n \in GroupNames(c) \cup Range(c.types)
                 PROVE  FALSE
        OBVIOUS
    <2>1. PICK a \in KindClaims(p) : a.name = n
        BY <1>2
    <2>2. PICK b \in KindClaims(c) : b.name = n
        BY <1>2
    <2> QED
        BY <1>1, <2>1, <2>2
<1> QED
    BY <1>3 DEF Strangers

LEMMA NamesJoin ==
    ASSUME NEW c, NEW p, IsPack(c), IsPack(p), DOMAIN p = Fields
    PROVE  /\ GroupNames(Merged(c, p)) = GroupNames(c) \cup GroupNames(p)
           /\ Range(Merged(c, p).types) = Range(c.types) \cup Range(p.types)
           /\ Range(Merged(c, p).groups) = Range(c.groups) \cup Range(p.groups)
           /\ Range(Merged(c, p).relations) = Range(c.relations) \cup Range(p.relations)
           /\ GroupsListed(Merged(c, p))
<1> DEFINE m == Merged(c, p)
<1>1. /\ m.types = c.types \o p.types /\ m.groups = c.groups \o p.groups
      /\ m.relations = c.relations \o p.relations
    BY MergedIs
<1>2. /\ IsListed(c.types) /\ IsListed(p.types) /\ IsListed(c.groups) /\ IsListed(p.groups)
      /\ IsListed(c.relations) /\ IsListed(p.relations)
    BY DEF IsPack
<1> HIDE DEF m
<1>3. Range(m.types) = Range(c.types) \cup Range(p.types)
    BY <1>1, <1>2, JoinIs DEF Joins
<1>4. Range(m.groups) = Range(c.groups) \cup Range(p.groups) /\ IsListed(m.groups)
    BY <1>1, <1>2, JoinIs DEF Joins
<1>5. Range(m.relations) = Range(c.relations) \cup Range(p.relations)
    BY <1>1, <1>2, JoinIs DEF Joins
<1>6. \A q : GroupNames(q) = {g.name : g \in Range(q.groups)}
    BY DEF GroupNames, NamesOf, Range
<1>7. GroupNames(m) = GroupNames(c) \cup GroupNames(p)
    BY <1>4, <1>6
<1>8. GroupsListed(m)
    BY <1>4 DEF GroupsListed, IsPack, ListsIn
<1> QED
    BY <1>3, <1>4, <1>5, <1>7, <1>8 DEF m

LEMMA MergedApart ==
    ASSUME NEW c, NEW p, IsPack(c), IsPack(p), DOMAIN p = Fields,
           KindsApart(c), KindsApart(p), Strangers(c, p)
    PROVE  Expandable(Merged(c, p))
<1> DEFINE m == Merged(c, p)
<1>1. m.groups = c.groups \o p.groups
    BY MergedIs
<1>2. IsListed(c.groups) /\ IsListed(p.groups)
    BY DEF IsPack
<1>3. /\ GroupNames(m) = GroupNames(c) \cup GroupNames(p)
      /\ Range(m.types) = Range(c.types) \cup Range(p.types)
      /\ GroupsListed(m)
    BY NamesJoin
<1> HIDE DEF m
<1>4. GroupNames(m) \cap Range(m.types) = {}
    BY <1>3 DEF Strangers, KindsApart
<1>5. \A q : \A i \in DOMAIN q.groups : q.groups[i].name \in GroupNames(q)
    BY DEF GroupNames, NamesOf, Range
<1>6. ASSUME NEW i \in DOMAIN m.groups, NEW j \in DOMAIN m.groups, m.groups[i].name = m.groups[j].name
      PROVE  i = j
    <2> DEFINE n == Len(c.groups)
    <2>1. Joins(c.groups, p.groups, m.groups)
        BY <1>1, <1>2, JoinIs
    <2>2. \A k \in DOMAIN m.groups : k \in DOMAIN c.groups \/ k - n \in DOMAIN p.groups
        BY <2>1 DEF Joins
    <2>3. \A k \in DOMAIN c.groups : m.groups[k] = c.groups[k]
        BY <2>1 DEF Joins
    <2>4. \A k \in DOMAIN p.groups : m.groups[n + k] = p.groups[k]
        BY <2>1 DEF Joins
    <2>5. \A k \in DOMAIN m.groups : n + (k - n) = k
        BY <2>1 DEF Joins
    <2> HIDE DEF n
    <2>6. CASE i \in DOMAIN c.groups /\ j \in DOMAIN c.groups
        BY <1>6, <2>3, <2>6 DEF KindsApart
    <2>7. CASE i \in DOMAIN c.groups /\ j - n \in DOMAIN p.groups
        <3>1. m.groups[i].name \in GroupNames(c) /\ m.groups[j].name \in GroupNames(p)
            BY <1>5, <2>3, <2>4, <2>5, <2>7
        <3> QED
            BY <1>6, <3>1 DEF Strangers
    <2>8. CASE i - n \in DOMAIN p.groups /\ j \in DOMAIN c.groups
        <3>1. m.groups[i].name \in GroupNames(p) /\ m.groups[j].name \in GroupNames(c)
            BY <1>5, <2>3, <2>4, <2>5, <2>8
        <3> QED
            BY <1>6, <3>1 DEF Strangers
    <2>9. CASE i - n \in DOMAIN p.groups /\ j - n \in DOMAIN p.groups
        <3>1. m.groups[i] = p.groups[i - n] /\ m.groups[j] = p.groups[j - n]
            BY <2>4, <2>5, <2>9
        <3>2. i - n = j - n
            BY <1>6, <2>9, <3>1 DEF KindsApart
        <3> QED
            BY <2>5, <3>2
    <2> QED
        BY <2>2, <2>6, <2>7, <2>8, <2>9
<1>7. Expandable(m)
    BY <1>3, <1>4, <1>6 DEF Expandable, KindsApart
<1> QED
    BY <1>7 DEF m

-----------------------------------------------------------------------------
(***************************************************************************)
(* What is known of a pack that merged.                                    *)
(***************************************************************************)
LEMMA LoadIs ==
    ASSUME NEW c, NEW p, LoadProject(c, p) # Refused
    PROVE  /\ LoadProject(c, p) = Merged(c, p) /\ Loads(c) /\ Loads(p) /\ checkCollisions(c, p)
           /\ checkGroups(Merged(c, p)) /\ checkCrossReferences(Merged(c, p))
<1>1. Loads(c) /\ Loads(p) /\ LoadProject(c, p) = Merge(c, p) /\ Merge(c, p) # Refused
    BY DEF LoadProject
<1> QED
    BY <1>1 DEF Merge

LEMMA SeqListed ==
    ASSUME NEW S, NEW s \in Seq(S)
    PROVE  IsListed(s) /\ Range(s) \subseteq S
<1>1. DOMAIN s = 1..Len(s) /\ Len(s) \in Nat /\ s = [i \in 1..Len(s) |-> s[i]] /\ \A i \in 1..Len(s) : s[i] \in S
    OBVIOUS
<1>2. s \in [1..Len(s) -> Range(s)]
    BY <1>1 DEF Range
<1>3. s \in Seq(Range(s))
    BY <1>1, <1>2, SeqDef
<1> QED
    BY <1>1, <1>3 DEF IsListed, Range

LEMMA ProjectIs ==
    ASSUME PackTypeOK
    PROVE  IsPack(project) /\ DOMAIN project = Fields
<1>1. /\ project.types \in Seq(TypeNames) /\ project.groups \in Seq(GroupDecls)
      /\ project.relations \in Seq(RelDecls) /\ project.roles \in Seq(RoleNames)
      /\ project.acts \in Seq(ActKeys) /\ project.eras = <<>>
      /\ DOMAIN project = Fields
    BY DEF PackTypeOK, Projects, Fields
<1>2. project.eras \in Seq({})
    BY <1>1
<1>3. ListsIn(Range(project.groups), Range(project.relations))
    BY <1>1, SeqListed, DeclsOK DEF ListsIn
<1> QED
    BY <1>1, <1>2, <1>3, SeqListed DEF IsPack

\* A pack that adds these types, or none, to a core.
Only(v, types) == [Empty(v) EXCEPT !.types = types]

LEMMA OnlyIs ==
    ASSUME NEW v, NEW types, IsListed(types)
    PROVE  /\ IsPack(Only(v, types)) /\ DOMAIN Only(v, types) = Fields
           /\ GroupNames(Only(v, types)) = {} /\ Only(v, types).types = types
           /\ Only(v, types).relations = <<>> /\ Only(v, types).groups = <<>>
<1> DEFINE q == Only(v, types)
<1>1. /\ DOMAIN q = Fields /\ q.types = types /\ q.groups = <<>> /\ q.relations = <<>> /\ q.roles = <<>>
      /\ q.eras = <<>> /\ q.acts = <<>>
    BY DEF Only, Empty, Fields
<1> HIDE DEF q
<1>2. <<>> \in Seq({}) /\ Range(<<>>) = {}
    BY DEF Range
<1>3. IsListed(<<>>)
    BY <1>2 DEF IsListed
<1>4. IsPack(q)
    BY <1>1, <1>2, <1>3 DEF IsPack, ListsIn
<1>5. GroupNames(q) = {}
    BY <1>1 DEF GroupNames, NamesOf, Range
<1> QED
    BY <1>1, <1>4, <1>5 DEF q

LEMMA EmptyIs ==
    ASSUME NEW v
    PROVE  IsListed(<<>>) /\ Range(<<>>) = {} /\ Empty(v) = Only(v, <<>>)
<1>1. <<>> \in Seq({}) /\ Range(<<>>) = {}
    BY DEF Range
<1>2. IsListed(<<>>)
    BY <1>1 DEF IsListed
<1>3. Empty(v) = Only(v, <<>>)
    <2> DEFINE e == Empty(v)
    <2>1. e.types = <<>> /\ e = [x \in Fields |-> e[x]] /\ "types" \in Fields
        BY DEF Empty, Fields
    <2> HIDE DEF e
    <2>2. [e EXCEPT !.types = <<>>] = e
        BY <2>1
    <2> QED
        BY <2>2 DEF Only, e
<1> QED
    BY <1>1, <1>2, <1>3

\* A core knows whatever its groups and its relations name.
Complete(c) ==
    /\ \A g \in Range(c.groups) : \A n \in Range(g.includes) : n = wildcard \/ Known(c, n)
    /\ \A r \in Range(c.relations) : \A n \in Range(r.domain) \cup Range(r.range) : Known(c, n)

LEMMA CoresAre ==
    ASSUME NEW i \in DOMAIN Releases
    PROVE  IsPack(Releases[i]) /\ Complete(Releases[i])
<1> DEFINE c == Releases[i]
           q == Only(c.version, <<>>)
           m == Merged(c, q)
<1>1. IsPack(c)
    BY DeclsOK
<1>2. checkGroups(m) /\ checkCrossReferences(m)
    BY ReleasesOK, EmptyIs, LoadIs
<1>3. IsPack(q) /\ DOMAIN q = Fields /\ GroupNames(q) = {} /\ q.types = <<>> /\ q.relations = <<>> /\ q.groups = <<>>
    BY EmptyIs, OnlyIs
<1> HIDE DEF c, q, m
<1>a. Range(q.types) = {} /\ Range(q.groups) = {} /\ Range(q.relations) = {}
    BY <1>3, EmptyIs
<1>4. /\ GroupNames(m) = GroupNames(c) /\ Range(m.types) = Range(c.types)
      /\ Range(m.groups) = Range(c.groups) /\ Range(m.relations) = Range(c.relations)
    <2>1. /\ GroupNames(m) = GroupNames(c) \cup GroupNames(q)
          /\ Range(m.types) = Range(c.types) \cup Range(q.types)
          /\ Range(m.groups) = Range(c.groups) \cup Range(q.groups)
          /\ Range(m.relations) = Range(c.relations) \cup Range(q.relations)
        BY <1>1, <1>3, NamesJoin DEF m
    <2> QED
        BY <1>3, <1>a, <2>1
<1>5. \A n : Known(m, n) <=> Known(c, n)
    BY <1>4 DEF Known, HasType, HasGroup
<1>6. \A r \in Range(c.relations) : \A n \in Range(r.domain) \cup Range(r.range) : Known(c, n)
    <2> SUFFICES ASSUME NEW r \in Range(c.relations), NEW n \in Range(r.domain) \cup Range(r.range)
                 PROVE  Known(c, n)
        OBVIOUS
    <2>1. IsListed(r.domain) /\ IsListed(r.range)
        BY <1>1 DEF IsPack, ListsIn
    <2>2. n \in Range(r.domain \o r.range)
        BY <2>1, JoinIs DEF Joins
    <2> QED
        BY <1>2, <1>4, <1>5, <2>2 DEF checkCrossReferences
<1>7. \A g \in Range(c.groups) : \A n \in Range(g.includes) : n = wildcard \/ Known(c, n)
    BY <1>2, <1>4, <1>5 DEF checkGroups
<1> QED
    BY <1>1, <1>6, <1>7 DEF Complete, c

\* What two packs must be for the groups of their union to be expanded.
Fit(c, p) ==
    /\ IsPack(c) /\ IsPack(p) /\ DOMAIN p = Fields
    /\ KindsApart(c) /\ KindsApart(p) /\ Strangers(c, p)

LEMMA PackIs ==
    ASSUME PackTypeOK, Pack # Refused, NEW c, c = Releases[core]
    PROVE  /\ Pack = Merged(c, project) /\ Fit(c, project) /\ Complete(c)
           /\ checkRelations(c) /\ checkRelations(project)
           /\ Free(RelationClaims(project), RelationClaims(c))
<1>1. core \in DOMAIN Releases
    BY DEF PackTypeOK
<1>2. /\ Pack = Merged(c, project) /\ Loads(c) /\ Loads(project) /\ checkCollisions(c, project)
    BY LoadIs DEF Pack
<1>3. IsPack(c) /\ Complete(c) /\ IsPack(project) /\ DOMAIN project = Fields
    BY <1>1, CoresAre, ProjectIs
<1>4. KindsApart(c) /\ KindsApart(project)
    BY <1>2, KindsOfOne DEF Loads, checkTypes
<1>5. Strangers(c, project)
    BY <1>2, KindsFree DEF checkCollisions
<1> QED
    BY <1>2, <1>3, <1>4, <1>5 DEF Loads, checkCollisions, Fit

LEMMA ExpansionThere ==
    ASSUME PackTypeOK
    PROVE  ExpansionExact
<1> SUFFICES ASSUME Pack # Refused
             PROVE  \A name \in DOMAIN groupExpansion(Pack) :
                        ~LeadsToCycle(Pack, name) => groupExpansion(Pack)[name] = Covers(Pack, name)
    BY DEF ExpansionExact
<1>1. Pack = Merged(Releases[core], project) /\ Fit(Releases[core], project)
    BY PackIs
<1>2. Expandable(Pack)
    BY <1>1, MergedApart DEF Fit
<1> HIDE DEF Pack
<1> QED
    BY <1>2, ExpansionIs

-----------------------------------------------------------------------------
(***************************************************************************)
(* The theorems of Packs.                                                  *)
(***************************************************************************)
LEMMA TakenOut ==
    ASSUME NEW S, NEW s \in Seq(S), NEW i \in DOMAIN s
    PROVE  RemoveAt(s, i) \in Seq(S)
<1>1. Len(s) \in Nat /\ DOMAIN s = 1..Len(s)
    OBVIOUS
<1>2. SubSeq(s, 1, i - 1) \in Seq(S) /\ SubSeq(s, i + 1, Len(s)) \in Seq(S)
    <2>1. \A k \in 1..(i - 1) : s[k] \in S
        BY <1>1
    <2>2. \A k \in (i + 1)..Len(s) : s[k] \in S
        BY <1>1
    <2> QED
        BY <1>1, <2>1, <2>2, SubSeqProperties
<1> QED
    BY <1>2 DEF RemoveAt

\* The sections the author writes, and what each is a list of.
Sections == {"types", "groups", "relations", "roles", "acts"}
Of(section) ==
    CASE section = "types" -> TypeNames
      [] section = "groups" -> GroupDecls
      [] section = "relations" -> RelDecls
      [] section = "roles" -> RoleNames
      [] OTHER -> ActKeys

LEMMA WrittenTyped ==
    ASSUME project \in Projects, NEW section \in Sections, NEW s \in Seq(Of(section))
    PROVE  [project EXCEPT ![section] = s] \in Projects
<1>1. CASE section = "types"
    BY <1>1 DEF Projects, Of
<1>2. CASE section = "groups"
    BY <1>2 DEF Projects, Of
<1>3. CASE section = "relations"
    BY <1>3 DEF Projects, Of
<1>4. CASE section = "roles"
    BY <1>4 DEF Projects, Of
<1>5. CASE section = "acts"
    BY <1>5 DEF Projects, Of
<1> QED
    BY <1>1, <1>2, <1>3, <1>4, <1>5 DEF Sections

LEMMA SectionIs ==
    ASSUME project \in Projects, NEW section \in Sections
    PROVE  project[section] \in Seq(Of(section))
BY DEF Projects, Sections, Of

LEMMA EditedTyped ==
    ASSUME PackTypeOK, NEW p \in Projects, Edited(p)
    PROVE  PackTypeOK'
BY EditsOK DEF PackTypeOK, Edited

LEMMA WritesTyped ==
    ASSUME PackTypeOK, NEW section \in Sections, NEW d \in Of(section), Writes(section, d)
    PROVE  PackTypeOK'
<1>1. project \in Projects /\ project[section] \in Seq(Of(section))
    BY SectionIs DEF PackTypeOK
<1>2. PICK p \in {<<d>> \o project[section], Append(project[section], d)} :
          Edited([project EXCEPT ![section] = p])
    BY DEF Writes
<1>3. p \in Seq(Of(section))
    <2> DEFINE s == project[section]
               S == Of(section)
    <2>1. s \in Seq(S) /\ d \in S /\ p \in {<<d>> \o s, Append(s, d)}
        BY <1>1, <1>2
    <2> HIDE DEF s, S
    <2>2. <<d>> \o s \in Seq(S)
        <3>1. <<d>> \in Seq(S)
            BY <2>1
        <3> QED
            BY <2>1, <3>1, ConcatProperties
    <2>3. Append(s, d) \in Seq(S)
        BY <2>1
    <2> QED
        BY <2>1, <2>2, <2>3 DEF S
<1> QED
    BY <1>1, <1>2, <1>3, WrittenTyped, EditedTyped

LEMMA StepTyped ==
    ASSUME PackTypeOK, [PackNext]_packVars
    PROVE  PackTypeOK'
<1>1. ASSUME NEW t \in TypeNames, Writes("types", t) PROVE PackTypeOK'
    BY <1>1, WritesTyped DEF Sections, Of
<1>2. ASSUME NEW g \in GroupDecls, Writes("groups", g) PROVE PackTypeOK'
    BY <1>2, WritesTyped DEF Sections, Of
<1>3. ASSUME NEW r \in RelDecls, Writes("relations", r) PROVE PackTypeOK'
    BY <1>3, WritesTyped DEF Sections, Of
<1>4. ASSUME NEW r \in RoleNames, Writes("roles", r) PROVE PackTypeOK'
    BY <1>4, WritesTyped DEF Sections, Of
<1>5. ASSUME NEW k \in ActKeys, Writes("acts", k) PROVE PackTypeOK'
    BY <1>5, WritesTyped DEF Sections, Of
<1>6. ASSUME NEW section \in Sections, TakesOut(section) PROVE PackTypeOK'
    <2>1. project \in Projects /\ project[section] \in Seq(Of(section))
        BY SectionIs DEF PackTypeOK
    <2>2. PICK i \in DOMAIN project[section] :
              Edited([project EXCEPT ![section] = RemoveAt(project[section], i)])
        BY <1>6, <2>1 DEF TakesOut, Projects
    <2>3. RemoveAt(project[section], i) \in Seq(Of(section))
        BY <2>1, TakenOut
    <2> QED
        BY <2>1, <2>2, <2>3, WrittenTyped, EditedTyped
<1>7. ASSUME NEW v \in Pins, Repins(v) PROVE PackTypeOK'
    <2>1. [project EXCEPT !.pin = v] \in Projects
        BY <1>7 DEF PackTypeOK, Projects
    <2> QED
        BY <1>7, <2>1, EditedTyped DEF Repins
<1>8. ASSUME Garbles PROVE PackTypeOK'
    <2>1. [project EXCEPT !.parses = ~project.parses] \in Projects
        BY DEF PackTypeOK, Projects
    <2>2. Edited([project EXCEPT !.parses = ~project.parses])
        BY <1>8 DEF Garbles, PackTypeOK, Projects
    <2> QED
        BY <2>1, <2>2, EditedTyped
<1>9. ASSUME Switch PROVE PackTypeOK'
    BY <1>9 DEF Switch, PackTypeOK
<1>10. ASSUME UNCHANGED packVars PROVE PackTypeOK'
    BY <1>10 DEF packVars, PackTypeOK
<1> QED
    BY <1>1, <1>2, <1>3, <1>4, <1>5, <1>6, <1>7, <1>8, <1>9, <1>10 DEF PackNext, Sections

\* What the author writes stays a pack of declarations, whatever the order of
\* the edits, and some release is in use (LoadProject, pack.go).
THEOREM PacksTyped == PackSpec => []PackTypeOK
<1>1. PackInit => PackTypeOK
    <2> SUFFICES ASSUME PackInit PROVE PackTypeOK
        OBVIOUS
    <2>1. Empty(Releases[core].version) \in Projects
        <3>1. \A S : <<>> \in Seq(S)
            OBVIOUS
        <3> QED
            BY <3>1 DEF PackInit, Empty, Projects
    <2> QED
        BY <2>1, EditsOK DEF PackInit, PackTypeOK
<1>2. PackTypeOK /\ [PackNext]_packVars => PackTypeOK'
    BY StepTyped
<1> QED
    BY <1>1, <1>2, PTL DEF PackSpec

\* In every pack that merges, a group that leads to no cycle covers what it
\* includes at any depth (groupExpansion, pack.go:309).
THEOREM ExpansionAlways == PackSpec => []ExpansionExact
<1>1. PackTypeOK => ExpansionExact
    BY ExpansionThere
<1> QED
    BY <1>1, PacksTyped, PTL

\* A name that nothing of the project has is where the core has it.
LEMMA CoreMeans ==
    ASSUME NEW c, NEW p, NEW m, NEW n, Joins(c.relations, p.relations, m.relations),
           \A i \in DOMAIN p.relations : p.relations[i].name # n /\ p.relations[i].inverse # n
    PROVE  /\ Declared(m, n) = Declared(c, n) /\ InverseOf(m, n) = InverseOf(c, n)
           /\ \A i \in DOMAIN c.relations : m.relations[i] = c.relations[i]
           /\ Declared(c, n) \subseteq Nat /\ InverseOf(c, n) \subseteq Nat
<1> DEFINE k == Len(c.relations)
<1>1. \A i \in DOMAIN c.relations : i \in DOMAIN m.relations /\ m.relations[i] = c.relations[i]
    BY DEF Joins
<1>2. \A i \in DOMAIN m.relations :
          i \notin DOMAIN c.relations => m.relations[i].name # n /\ m.relations[i].inverse # n
    <2> SUFFICES ASSUME NEW i \in DOMAIN m.relations, i \notin DOMAIN c.relations
                 PROVE  m.relations[i].name # n /\ m.relations[i].inverse # n
        OBVIOUS
    <2>1. i - k \in DOMAIN p.relations
        BY DEF Joins
    <2>2. k + (i - k) = i
        BY DEF Joins
    <2>3. m.relations[k + (i - k)] = p.relations[i - k]
        BY <2>1 DEF Joins
    <2> QED
        BY <2>1, <2>2, <2>3
<1>3. Declared(m, n) = Declared(c, n) /\ InverseOf(m, n) = InverseOf(c, n)
    BY <1>1, <1>2 DEF Declared, InverseOf
<1>4. DOMAIN c.relations \subseteq Nat
    BY DEF Joins
<1> QED
    BY <1>1, <1>3, <1>4 DEF Declared, InverseOf

LEMMA MeansSame ==
    ASSUME NEW c, NEW m, NEW n,
           Declared(m, n) = Declared(c, n), InverseOf(m, n) = InverseOf(c, n),
           Declared(c, n) \subseteq Nat, InverseOf(c, n) \subseteq Nat,
           \A i \in DOMAIN c.relations : m.relations[i] = c.relations[i]
    PROVE  Means(m, n) = Means(c, n)
<1>1. CASE InverseOf(c, n) # {}
    <2>1. Min(InverseOf(c, n)) \in DOMAIN c.relations
        BY <1>1, MinIs DEF InverseOf
    <2> QED
        BY <1>1, <2>1 DEF Means
<1>2. CASE InverseOf(c, n) = {} /\ Declared(c, n) # {}
    <2>1. Min(Declared(c, n)) \in DOMAIN c.relations
        BY <1>2, MinIs DEF Declared
    <2> QED
        BY <1>2, <2>1 DEF Means
<1>3. CASE InverseOf(c, n) = {} /\ Declared(c, n) = {}
    BY <1>3 DEF Means
<1> QED
    BY <1>1, <1>2, <1>3

\* What a relation claims.
LEMMA RelationsAreClaimed ==
    ASSUME NEW p
    PROVE  /\ \A i \in DOMAIN p.relations :
                  [of |-> "relation", at |-> i, name |-> p.relations[i].name] \in RelationClaims(p)
           /\ \A i \in DOMAIN p.relations : p.relations[i].inverse # NoName =>
                  [of |-> "inverse", at |-> i, name |-> p.relations[i].inverse] \in RelationClaims(p)
           /\ \A claim \in RelationClaims(p) : \E i \in DOMAIN p.relations :
                  \/ claim = [of |-> "relation", at |-> i, name |-> p.relations[i].name]
                  \/ /\ claim = [of |-> "inverse", at |-> i, name |-> p.relations[i].inverse]
                     /\ p.relations[i].inverse # NoName
<1> DEFINE R == [i \in DOMAIN p.relations |-> [of |-> "relation", at |-> i, name |-> p.relations[i].name]]
           I == [i \in DOMAIN p.relations |-> [of |-> "inverse", at |-> i, name |-> p.relations[i].inverse]]
<1>1. Claims("relation", NamesOf(p.relations)) = {R[i] : i \in DOMAIN p.relations}
    BY DEF Claims, NamesOf
<1>2. Claims("inverse", InversesOf(p.relations)) = {I[i] : i \in DOMAIN p.relations}
    BY DEF Claims, InversesOf
<1>3. \A i \in DOMAIN p.relations : I[i].name = p.relations[i].inverse
    OBVIOUS
<1>5. \A i \in DOMAIN p.relations :
          /\ R[i] = [of |-> "relation", at |-> i, name |-> p.relations[i].name]
          /\ I[i] = [of |-> "inverse", at |-> i, name |-> p.relations[i].inverse]
    OBVIOUS
<1> HIDE DEF R, I
<1>4. /\ \A i \in DOMAIN p.relations : R[i] \in RelationClaims(p)
      /\ \A i \in DOMAIN p.relations : p.relations[i].inverse # NoName => I[i] \in RelationClaims(p)
      /\ \A claim \in RelationClaims(p) : \E i \in DOMAIN p.relations :
             claim = R[i] \/ (claim = I[i] /\ p.relations[i].inverse # NoName)
    <2>1. RelationClaims(p) = {R[i] : i \in DOMAIN p.relations}
                                  \cup {a \in {I[i] : i \in DOMAIN p.relations} : a.name # NoName}
        BY <1>1, <1>2 DEF RelationClaims
    <2>2. \A i \in DOMAIN p.relations : R[i] \in RelationClaims(p)
        BY <2>1
    <2>3. \A i \in DOMAIN p.relations : p.relations[i].inverse # NoName => I[i] \in RelationClaims(p)
        BY <1>3, <2>1
    <2>4. ASSUME NEW claim \in RelationClaims(p)
          PROVE  \E i \in DOMAIN p.relations : claim = R[i] \/ (claim = I[i] /\ p.relations[i].inverse # NoName)
        <3>1. CASE claim \in {R[i] : i \in DOMAIN p.relations}
            <4>1. PICK i \in DOMAIN p.relations : claim = R[i]
                BY <3>1
            <4> QED
                BY <4>1
        <3>2. CASE claim \in {a \in {I[i] : i \in DOMAIN p.relations} : a.name # NoName}
            <4>1. claim.name # NoName /\ \E i \in DOMAIN p.relations : claim = I[i]
                BY <3>2
            <4>2. PICK i \in DOMAIN p.relations : claim = I[i]
                BY <4>1
            <4>3. p.relations[i].inverse # NoName
                BY <1>3, <4>1, <4>2
            <4> QED
                BY <4>2, <4>3
        <3> QED
            BY <2>1, <3>1, <3>2
    <2> QED
        BY <2>2, <2>3, <2>4
<1>6. \A claim \in RelationClaims(p) : \E i \in DOMAIN p.relations :
          \/ claim = [of |-> "relation", at |-> i, name |-> p.relations[i].name]
          \/ /\ claim = [of |-> "inverse", at |-> i, name |-> p.relations[i].inverse]
             /\ p.relations[i].inverse # NoName
    <2> SUFFICES ASSUME NEW claim \in RelationClaims(p)
                 PROVE  \E i \in DOMAIN p.relations :
                            \/ claim = [of |-> "relation", at |-> i, name |-> p.relations[i].name]
                            \/ /\ claim = [of |-> "inverse", at |-> i, name |-> p.relations[i].inverse]
                               /\ p.relations[i].inverse # NoName
        OBVIOUS
    <2>1. PICK i \in DOMAIN p.relations : claim = R[i] \/ (claim = I[i] /\ p.relations[i].inverse # NoName)
        BY <1>4
    <2> WITNESS i \in DOMAIN p.relations
    <2> QED
        BY <1>5, <2>1
<1>7. \A i \in DOMAIN p.relations :
          [of |-> "relation", at |-> i, name |-> p.relations[i].name] \in RelationClaims(p)
    BY <1>4, <1>5
<1>8. \A i \in DOMAIN p.relations : p.relations[i].inverse # NoName =>
          [of |-> "inverse", at |-> i, name |-> p.relations[i].inverse] \in RelationClaims(p)
    BY <1>4, <1>5
<1> QED
    BY <1>6, <1>7, <1>8

LEMMA RelationsNamed ==
    ASSUME NEW p, checkRelations(p)
    PROVE  \A i \in DOMAIN p.relations : p.relations[i].name # NoName
<1> SUFFICES ASSUME NEW i \in DOMAIN p.relations PROVE p.relations[i].name # NoName
    OBVIOUS
<1>1. [of |-> "relation", at |-> i, name |-> p.relations[i].name] \in Claims("relation", NamesOf(p.relations))
    BY DEF Claims, NamesOf
<1> QED
    BY <1>1 DEF checkRelations, Named

\* No relation of the project has a name that the core claims.
LEMMA NoneOfTheProject ==
    ASSUME NEW c, NEW p, checkRelations(c), checkRelations(p), Free(RelationClaims(p), RelationClaims(c)),
           NEW claim \in RelationClaims(c)
    PROVE  \A i \in DOMAIN p.relations : p.relations[i].name # claim.name /\ p.relations[i].inverse # claim.name
<1>1. claim.name # NoName
    BY RelationsAreClaimed, RelationsNamed
<1>2. \A a \in RelationClaims(p) : a.name # claim.name
    BY DEF Free
<1> SUFFICES ASSUME NEW i \in DOMAIN p.relations
             PROVE  p.relations[i].name # claim.name /\ p.relations[i].inverse # claim.name
    OBVIOUS
<1>3. p.relations[i].name # claim.name
    BY <1>2, RelationsAreClaimed
<1>4. CASE p.relations[i].inverse = NoName
    BY <1>1, <1>3, <1>4
<1>5. CASE p.relations[i].inverse # NoName
    BY <1>2, <1>3, <1>5, RelationsAreClaimed
<1> QED
    BY <1>4, <1>5

\* A relation of the project is the only one that claims its name.
LEMMA OwnMeans ==
    ASSUME NEW c, NEW p, NEW m, Joins(c.relations, p.relations, m.relations),
           checkRelations(c), checkRelations(p), Free(RelationClaims(p), RelationClaims(c)),
           NEW i \in DOMAIN p.relations
    PROVE  Means(m, p.relations[i].name) = [relation |-> p.relations[i]]
<1> DEFINE k == Len(c.relations)
           n == p.relations[i].name
           own == [of |-> "relation", at |-> i, name |-> n]
<1>1. own \in RelationClaims(p) /\ n # NoName
    BY RelationsAreClaimed, RelationsNamed
<1>2. \A j \in DOMAIN c.relations : c.relations[j].name # n /\ c.relations[j].inverse # n
    <2>1. \A b \in RelationClaims(c) : b.name # n
        BY <1>1 DEF Free
    <2> SUFFICES ASSUME NEW j \in DOMAIN c.relations PROVE c.relations[j].name # n /\ c.relations[j].inverse # n
        OBVIOUS
    <2>2. c.relations[j].name # n
        BY <2>1, RelationsAreClaimed
    <2>3. CASE c.relations[j].inverse = NoName
        BY <1>1, <2>2, <2>3
    <2>4. CASE c.relations[j].inverse # NoName
        BY <2>1, <2>2, <2>4, RelationsAreClaimed
    <2> QED
        BY <2>3, <2>4
<1>3. \A j \in DOMAIN p.relations : p.relations[j].name = n => j = i
    <2> SUFFICES ASSUME NEW j \in DOMAIN p.relations, p.relations[j].name = n PROVE j = i
        OBVIOUS
    <2>1. [of |-> "relation", at |-> j, name |-> p.relations[j].name] = own
        BY <1>1, RelationsAreClaimed, ClaimedOnce DEF checkRelations
    <2> QED
        BY <2>1
<1>4. \A j \in DOMAIN p.relations : p.relations[j].inverse # n
    <2> SUFFICES ASSUME NEW j \in DOMAIN p.relations, p.relations[j].inverse = n PROVE FALSE
        OBVIOUS
    <2>1. [of |-> "inverse", at |-> j, name |-> p.relations[j].inverse] = own
        BY <1>1, RelationsAreClaimed, ClaimedOnce DEF checkRelations
    <2> QED
        BY <2>1
<1> HIDE DEF n, own
<1>5. k + i \in DOMAIN m.relations /\ m.relations[k + i] = p.relations[i] /\ k + i \in Nat
    <2>1. k \in Nat /\ i \in Nat
        BY DEF Joins
    <2>2. k + i \in Nat
        BY <2>1
    <2>3. k + i \in DOMAIN m.relations /\ m.relations[k + i] = p.relations[i]
        BY DEF Joins
    <2> QED
        BY <2>2, <2>3
<1>6. ASSUME NEW j \in DOMAIN m.relations
      PROVE  m.relations[j].inverse # n /\ (m.relations[j].name = n => j = k + i)
    <2>1. CASE j \in DOMAIN c.relations
        <3>1. m.relations[j] = c.relations[j]
            BY <2>1 DEF Joins
        <3> QED
            BY <1>2, <2>1, <3>1
    <2>2. CASE j - k \in DOMAIN p.relations
        <3>1. k + (j - k) = j
            BY DEF Joins
        <3>2. m.relations[j] = p.relations[j - k]
            BY <2>2, <3>1 DEF Joins
        <3>3. m.relations[j].name = n => j - k = i
            BY <1>3, <2>2, <3>2
        <3> QED
            BY <1>4, <2>2, <3>1, <3>2, <3>3
    <2> QED
        BY <2>1, <2>2 DEF Joins
<1>7. InverseOf(m, n) = {}
    BY <1>6 DEF InverseOf
<1>8. Declared(m, n) = {k + i}
    BY <1>5, <1>6 DEF Declared, n
<1>9. Min({k + i}) = k + i
    <2> HIDE DEF k
    <2> QED
        BY <1>5, MinIs
<1>10. Means(m, n) = [relation |-> m.relations[k + i]]
    <2> HIDE DEF k
    <2> QED
        BY <1>7, <1>8, <1>9 DEF Means
<1> QED
    BY <1>5, <1>10 DEF n

LEMMA PackJoins ==
    ASSUME PackTypeOK, Pack # Refused, NEW c, c = Releases[core]
    PROVE  Joins(c.relations, project.relations, Pack.relations)
<1>1. Pack = Merged(c, project) /\ Fit(c, project)
    BY PackIs
<1>2. Pack.relations = c.relations \o project.relations
    BY <1>1, MergedIs DEF Fit
<1> QED
    BY <1>1, <1>2, JoinIs DEF Fit, IsPack

\* A name of the core's relations means what it means without the project, and
\* one of the project's what the project wrote (merge.go:12-19).
THEOREM OwnAlways == PackSpec => []EachKeepsItsOwn
<1>1. PackTypeOK => EachKeepsItsOwn
    <2> DEFINE c == Releases[core]
    <2> SUFFICES ASSUME PackTypeOK, Pack # Refused
                 PROVE  /\ \A claim \in RelationClaims(c) : Means(Pack, claim.name) = Means(c, claim.name)
                        /\ \A r \in Range(project.relations) : Means(Pack, r.name) = [relation |-> r]
        BY DEF EachKeepsItsOwn
    <2> HIDE DEF c
    <2>1. /\ checkRelations(c) /\ checkRelations(project)
          /\ Free(RelationClaims(project), RelationClaims(c))
          /\ Joins(c.relations, project.relations, Pack.relations)
        BY PackIs, PackJoins DEF c
    <2>2. \A claim \in RelationClaims(c) : Means(Pack, claim.name) = Means(c, claim.name)
        <3> SUFFICES ASSUME NEW claim \in RelationClaims(c)
                     PROVE  Means(Pack, claim.name) = Means(c, claim.name)
            OBVIOUS
        <3>1. \A i \in DOMAIN project.relations :
                  project.relations[i].name # claim.name /\ project.relations[i].inverse # claim.name
            BY <2>1, NoneOfTheProject
        <3> DEFINE n == claim.name
                   m == Pack
        <3>2. Joins(c.relations, project.relations, m.relations)
              /\ \A i \in DOMAIN project.relations : project.relations[i].name # n /\ project.relations[i].inverse # n
            BY <2>1, <3>1
        <3> HIDE DEF n, m
        <3>3. Means(m, n) = Means(c, n)
            BY <3>2, CoreMeans, MeansSame
        <3> QED
            BY <3>3 DEF n, m
    <2>3. \A i \in DOMAIN project.relations :
              Means(Pack, project.relations[i].name) = [relation |-> project.relations[i]]
        BY <2>1, OwnMeans
    <2> QED
        BY <2>2, <2>3 DEF Range
<1> QED
    BY <1>1, PacksTyped, PTL

-----------------------------------------------------------------------------
(***************************************************************************)
(* What a project leaves of the core's groups and relations: a group of    *)
(* the core includes the core's own names and the wildcard, so it leads to *)
(* the same groups and says the same whatever is joined to the core.       *)
(***************************************************************************)
LEMMA CoreIncludes ==
    ASSUME NEW c, NEW q, Fit(c, q), Complete(c), NEW name \in GroupNames(c)
    PROVE  /\ Direct(Merged(c, q), name) = Direct(c, name)
           /\ GroupsIn(Merged(c, q), name) = GroupsIn(c, name)
<1> DEFINE m == Merged(c, q)
<1>1. /\ GroupNames(m) = GroupNames(c) \cup GroupNames(q)
      /\ Range(m.groups) = Range(c.groups) \cup Range(q.groups)
    BY NamesJoin DEF Fit
<1> HIDE DEF m
<1>2. \A h \in Range(q.groups) : h.name # name
    <2>1. \A h \in Range(q.groups) : h.name \in GroupNames(q)
        BY DEF GroupNames, NamesOf, Range
    <2> QED
        BY <2>1 DEF Fit, Strangers
<1>3. {h \in Range(m.groups) : h.name = name} = {h \in Range(c.groups) : h.name = name}
    BY <1>1, <1>2
<1>4. Direct(m, name) = Direct(c, name)
    BY <1>3 DEF Direct
<1>5. \A n \in Direct(c, name) : n = wildcard \/ n \in Range(c.types) \/ n \in GroupNames(c)
    BY DEF Direct, Complete, Known, HasType, HasGroup
<1>6. \A n \in Direct(c, name) \ {wildcard} : n \in GroupNames(m) <=> n \in GroupNames(c)
    BY <1>1, <1>5 DEF Fit, Strangers
<1>7. GroupsIn(m, name) = GroupsIn(c, name)
    BY <1>4, <1>6 DEF GroupsIn
<1> QED
    BY <1>4, <1>7 DEF m

LEMMA CoreLeads ==
    ASSUME NEW c, NEW q, Fit(c, q), Complete(c), NEW name \in GroupNames(c)
    PROVE  /\ Under(Merged(c, q), name) = Under(c, name)
           /\ Said(Merged(c, q), name) = Said(c, name)
           /\ LeadsToCycle(Merged(c, q), name) <=> LeadsToCycle(c, name)
<1> DEFINE m == Merged(c, q)
<1>1. /\ \A n \in GroupNames(c) : Direct(m, n) = Direct(c, n) /\ GroupsIn(m, n) = GroupsIn(c, n)
      /\ GroupNames(c) \subseteq GroupNames(m)
    BY CoreIncludes, NamesJoin DEF Fit
<1> HIDE DEF m
<1>2. ASSUME NEW n \in GroupNames(c) PROVE Under(m, n) = Under(c, n)
    <2>1. Under(c, n) \subseteq GroupNames(c) /\ Closed(c, Under(c, n)) /\ n \in Under(c, n)
        BY UnderClosed, UnderSelf
    <2>2. Closed(m, Under(c, n))
        BY <1>1, <2>1 DEF Closed
    <2>3. Under(m, n) \subseteq Under(c, n)
        BY <1>1, <2>1, <2>2, UnderLeast
    <2>4. Closed(m, Under(m, n)) /\ n \in Under(m, n)
        BY <1>1, UnderClosed, UnderSelf
    <2>5. Closed(c, Under(m, n)) /\ Under(m, n) \subseteq GroupNames(c)
        BY <1>1, <2>1, <2>3, <2>4 DEF Closed
    <2>6. Under(c, n) \subseteq Under(m, n)
        BY <2>4, <2>5, UnderLeast
    <2> QED
        BY <2>3, <2>6
<1>3. Under(c, name) \subseteq GroupNames(c)
    BY UnderClosed
<1>4. Said(m, name) = Said(c, name)
    BY <1>1, <1>2, <1>3 DEF Said
<1>5. \A n \in GroupNames(c) : InCycle(m, n) <=> InCycle(c, n)
    <2>1. \A n \in GroupNames(c) : Under(c, n) \subseteq GroupNames(c)
        BY UnderClosed
    <2> QED
        BY <1>1, <1>2, <2>1 DEF InCycle
<1>6. LeadsToCycle(m, name) <=> LeadsToCycle(c, name)
    BY <1>2, <1>3, <1>5 DEF LeadsToCycle
<1> QED
    BY <1>2, <1>4, <1>6 DEF m

\* What a list of the core's names permits of the types there are.
Permits(c, listed, t) ==
    \E n \in Range(listed) :
        \/ n \in Range(c.types) /\ t = n
        \/ n \in GroupNames(c) /\ (wildcard \in Said(c, n) \/ t \in Said(c, n))

LEMMA ResolvedIs ==
    ASSUME NEW c, NEW q, Fit(c, q), Complete(c), \A n \in GroupNames(c) : ~LeadsToCycle(c, n),
           NEW listed, \A n \in Range(listed) : Known(c, n), NEW t \in Range(Merged(c, q).types)
    PROVE  t \in resolveTypes(Merged(c, q), groupExpansion(Merged(c, q)), listed) <=> Permits(c, listed, t)
<1> DEFINE m == Merged(c, q)
           expand == groupExpansion(m)
           part(n) == CASE HasType(m, n) -> {n}
                        [] ~HasType(m, n) /\ HasGroup(m, n) -> expand[n]
                        [] OTHER -> {}
<1>1. /\ GroupNames(m) = GroupNames(c) \cup GroupNames(q)
      /\ Range(m.types) = Range(c.types) \cup Range(q.types)
    BY NamesJoin DEF Fit
<1>2. \A n \in GroupNames(c) : expand[n] = Covers(m, n) /\ Said(m, n) = Said(c, n)
    <2>1. Expandable(m)
        BY MergedApart DEF Fit
    <2>2. \A n \in GroupNames(m) : ~LeadsToCycle(m, n) => expand[n] = Covers(m, n)
        <3> HIDE DEF m
        <3> QED
            BY <2>1, ExpansionIs
    <2>3. \A n \in GroupNames(c) : ~LeadsToCycle(m, n) /\ Said(m, n) = Said(c, n)
        BY CoreLeads
    <2> HIDE DEF m, expand
    <2> QED
        BY <1>1, <2>2, <2>3
<1>3. resolveTypes(m, expand, listed) = UNION {part(n) : n \in Range(listed)}
    BY DEF resolveTypes
<1> HIDE DEF m, expand
<1>4. ASSUME NEW n \in Range(listed)
      PROVE  t \in part(n) <=> \/ n \in Range(c.types) /\ t = n
                               \/ n \in GroupNames(c) /\ (wildcard \in Said(c, n) \/ t \in Said(c, n))
    <2>1. n \in Range(c.types) \/ n \in GroupNames(c)
        BY <1>4 DEF Known, HasType, HasGroup
    <2>2. CASE n \in Range(c.types)
        <3>1. HasType(m, n) /\ n \notin GroupNames(c)
            BY <1>1, <2>2 DEF HasType, Fit, KindsApart
        <3>2. part(n) = {n}
            BY <3>1
        <3> HIDE DEF part
        <3> QED
            BY <2>2, <3>1, <3>2
    <2>3. CASE n \in GroupNames(c)
        <3>1. ~HasType(m, n) /\ HasGroup(m, n) /\ n \notin Range(c.types)
            BY <1>1, <2>3 DEF HasType, HasGroup, Fit, KindsApart, Strangers
        <3>2. part(n) = Covers(m, n)
            BY <1>2, <2>3, <3>1
        <3> HIDE DEF part
        <3>3. t \in Covers(m, n) <=> wildcard \in Said(c, n) \/ t \in Said(c, n)
            <4>1. t \in Range(m.types)
                BY DEF m
            <4>2. Covers(m, n) = IF wildcard \in Said(c, n) THEN Range(m.types) ELSE Said(c, n) \cap Range(m.types)
                BY <1>2, <2>3, CoversIs
            <4> QED
                BY <4>1, <4>2
        <3> QED
            BY <2>3, <3>1, <3>2, <3>3
    <2> QED
        BY <2>1, <2>2, <2>3
<1> HIDE DEF part
<1>5. t \in resolveTypes(m, expand, listed) <=> Permits(c, listed, t)
    BY <1>3, <1>4 DEF Permits
<1> QED
    BY <1>5 DEF m, expand

\* The last of some places.
LEMMA MaxIs ==
    ASSUME NEW n \in Nat, NEW I, I \subseteq 1..n, I # {}
    PROVE  Max(I) \in I
<1> DEFINE J == {n - i : i \in I}
<1>1. J \subseteq Nat /\ J # {}
    <2>1. \A i \in I : i \in Int /\ n - i \in Nat
        OBVIOUS
    <2> QED
        BY <2>1
<1> HIDE DEF J
<1>2. PICK j \in J : \A k \in J : j <= k
    BY <1>1, LeastIsThere
<1>3. PICK i \in I : j = n - i
    BY DEF J
<1>4. \A k \in I : i >= k
    <2> SUFFICES ASSUME NEW k \in I PROVE i >= k
        OBVIOUS
    <2>1. n - i <= n - k
        BY <1>2, <1>3 DEF J
    <2> QED
        BY <2>1
<1> QED
    BY <1>4 DEF Max

\* The ends of the core's relations, in a pack that joins another to it.
LEMMA EndsAre ==
    ASSUME NEW c, NEW q, Fit(c, q), Complete(c), \A n \in GroupNames(c) : ~LeadsToCycle(c, n),
           NEW name, Declared(c, name) # {},
           \A i \in DOMAIN q.relations : q.relations[i].name # name /\ q.relations[i].inverse # name,
           NEW t \in Range(Merged(c, q).types),
           NEW r, r = c.relations[Max(Declared(c, name))]
    PROVE  /\ t \in index(Merged(c, q))[name].domain <=> Permits(c, r.domain, t)
           /\ t \in index(Merged(c, q))[name].range <=> Permits(c, r.range, t)
<1> DEFINE m == Merged(c, q)
           expand == groupExpansion(m)
<1>1. IsListed(c.relations) /\ DOMAIN c.relations = 1..Len(c.relations) /\ Len(c.relations) \in Nat
    BY ListedIs DEF Fit, IsPack
<1>2. Max(Declared(c, name)) \in Declared(c, name)
    <2>1. Declared(c, name) \subseteq 1..Len(c.relations)
        BY <1>1 DEF Declared
    <2> QED
        BY <1>1, <2>1, MaxIs
<1>3. Joins(c.relations, q.relations, m.relations)
    <2>1. m.relations = c.relations \o q.relations
        BY MergedIs DEF Fit
    <2> HIDE DEF m
    <2> QED
        BY <2>1, JoinIs DEF Fit, IsPack
<1>4. /\ Declared(m, name) = Declared(c, name)
      /\ \A i \in DOMAIN c.relations : m.relations[i] = c.relations[i]
    <2> HIDE DEF m, expand
    <2>1. \A i \in DOMAIN q.relations : q.relations[i].name # name /\ q.relations[i].inverse # name
        OBVIOUS
    <2>2. Declared(m, name) = Declared(c, name)
        BY <1>3, <2>1, CoreMeans
    <2>3. \A i \in DOMAIN c.relations : m.relations[i] = c.relations[i]
        BY <1>3 DEF Joins
    <2> QED
        BY <2>2, <2>3
<1>5. Max(Declared(c, name)) \in DOMAIN c.relations /\ r \in Range(c.relations)
    BY <1>2 DEF Declared, Range
<1>6. m.relations[Max(Declared(m, name))] = r
    BY <1>4, <1>5
<1>7. name \in Range(NamesOf(m.relations))
    <2>1. \E i \in DOMAIN m.relations : m.relations[i].name = name
        BY <1>2, <1>4 DEF Declared
    <2> HIDE DEF m
    <2> QED
        BY <2>1 DEF NamesOf, Range
<1>8. /\ index(m)[name].domain = resolveTypes(m, expand, r.domain)
      /\ index(m)[name].range = resolveTypes(m, expand, r.range)
    <2> HIDE DEF m
    <2> QED
        BY <1>6, <1>7 DEF index
<1>9. /\ \A n \in Range(r.domain) : Known(c, n)
      /\ \A n \in Range(r.range) : Known(c, n)
    BY <1>5 DEF Complete
<1> QED
    BY <1>8, <1>9, ResolvedIs

\* A type joined to the core alone, where the project has it.
LEMMA AloneFits ==
    ASSUME NEW c, NEW p, Fit(c, p), NEW v, NEW t \in Range(Merged(c, p).types),
           NEW types, types = IF t \in Range(c.types) THEN <<>> ELSE <<t>>
    PROVE  Fit(c, Only(v, types)) /\ t \in Range(Merged(c, Only(v, types)).types)
<1> DEFINE q == Only(v, types)
<1>1. Range(Merged(c, p).types) = Range(c.types) \cup Range(p.types)
    BY NamesJoin DEF Fit
<1>2. IsListed(types) /\ Range(types) = IF t \in Range(c.types) THEN {} ELSE {t}
    <2>1. CASE t \in Range(c.types)
        BY <2>1, EmptyIs
    <2>2. CASE t \notin Range(c.types)
        <3>1. types = <<t>> /\ <<t>> \in Seq({t}) /\ Range(<<t>>) = {t}
            BY <2>2 DEF Range
        <3> QED
            BY <2>2, <3>1 DEF IsListed
    <2> QED
        BY <2>1, <2>2
<1>3. /\ IsPack(q) /\ DOMAIN q = Fields /\ GroupNames(q) = {} /\ q.types = types /\ q.groups = <<>>
    BY <1>2, OnlyIs
<1> HIDE DEF q
<1>4. KindsApart(q)
    BY <1>3 DEF KindsApart
<1>5. Strangers(c, q)
    BY <1>1, <1>2, <1>3 DEF Strangers, Fit
<1>6. Fit(c, q)
    BY <1>3, <1>4, <1>5 DEF Fit
<1>7. t \in Range(Merged(c, q).types)
    BY <1>2, <1>3, <1>6, NamesJoin DEF Fit
<1> QED
    BY <1>6, <1>7 DEF q

LEMMA EndsThere ==
    ASSUME PackTypeOK
    PROVE  EndsKept
<1> DEFINE c == Releases[core]
           alone(t) == index(CoreWith(c, t))
<1> SUFFICES ASSUME Pack # Refused, NEW t \in Range(Pack.types), NEW name \in DOMAIN alone(t)
             PROVE  /\ t \in index(Pack)[name].domain <=> t \in alone(t)[name].domain
                    /\ t \in index(Pack)[name].range <=> t \in alone(t)[name].range
    BY DEF EndsKept
<1> DEFINE types == IF t \in Range(c.types) THEN <<>> ELSE <<t>>
           q == Only(c.version, types)
           m == Merged(c, q)
<1>1. CoreWith(c, t) = m
    BY DEF CoreWith, Only
<1>2. /\ Pack = Merged(c, project) /\ Fit(c, project) /\ Complete(c)
      /\ checkRelations(c) /\ checkRelations(project)
      /\ Free(RelationClaims(project), RelationClaims(c))
    BY PackIs
<1>3. \A n \in GroupNames(c) : ~LeadsToCycle(c, n)
    BY CoresOK DEF PackTypeOK
<1> HIDE DEF c
<1>4. t \in Range(Merged(c, project).types)
    BY <1>2
<1>5. Fit(c, q) /\ t \in Range(m.types)
    BY <1>2, <1>4, AloneFits
<1>6. q.relations = <<>>
    BY AloneFits, OnlyIs DEF Only, Empty
<1> HIDE DEF q, types
<1>7. name \in Range(NamesOf(m.relations))
    <2>1. name \in DOMAIN index(m)
        BY <1>1
    <2> HIDE DEF m
    <2>2. DOMAIN index(m) = Range(NamesOf(m.relations))
        BY DEF index
    <2> QED
        BY <2>1, <2>2
<1>8. PICK i \in DOMAIN c.relations : c.relations[i].name = name
    <2>1. Range(m.relations) = Range(c.relations)
        <3>1. Range(m.relations) = Range(c.relations) \cup Range(q.relations)
            BY <1>5, NamesJoin DEF Fit
        <3>2. Range(q.relations) = {}
            BY <1>6, EmptyIs
        <3> HIDE DEF m
        <3> QED
            BY <3>1, <3>2
    <2> HIDE DEF m
    <2>2. \E r \in Range(m.relations) : r.name = name
        BY <1>7 DEF NamesOf, Range
    <2>3. \E r \in Range(c.relations) : r.name = name
        BY <2>1, <2>2
    <2> QED
        BY <2>3 DEF Range
<1>9. \A j \in DOMAIN project.relations : project.relations[j].name # name /\ project.relations[j].inverse # name
    <2> DEFINE claim == [of |-> "relation", at |-> i, name |-> c.relations[i].name]
    <2>1. claim \in RelationClaims(c) /\ claim.name = name
        BY <1>8, RelationsAreClaimed
    <2> HIDE DEF claim
    <2> QED
        BY <1>2, <2>1, NoneOfTheProject
<1>10. Declared(c, name) # {}
    BY <1>8 DEF Declared
<1> DEFINE r == c.relations[Max(Declared(c, name))]
<1>11. /\ t \in index(Merged(c, project))[name].domain <=> Permits(c, r.domain, t)
       /\ t \in index(Merged(c, project))[name].range <=> Permits(c, r.range, t)
    BY <1>2, <1>3, <1>4, <1>9, <1>10, EndsAre
<1>12. /\ t \in index(m)[name].domain <=> Permits(c, r.domain, t)
       /\ t \in index(m)[name].range <=> Permits(c, r.range, t)
    BY <1>2, <1>3, <1>5, <1>6, <1>10, EndsAre
<1> HIDE DEF r, m
<1> QED
    BY <1>1, <1>2, <1>11, <1>12

\* Each end of a relation of the core permits a type as if it were the only
\* one the project declared (index, pack.go:286).
THEOREM EndsAlways == PackSpec => []EndsKept
<1>1. PackTypeOK => EndsKept
    BY EndsThere
<1> QED
    BY <1>1, PacksTyped, PTL

-----------------------------------------------------------------------------
(***************************************************************************)
(* Desk, for any editors, actions and combinations, and any number of      *)
(* things done.  First the keys: every action keeps a combination of its   *)
(* own in every copy of the settings.  Then the stop: what it loses was    *)
(* named, or edited after the naming.  Then that a save changes only what  *)
(* was asked for, or what its editor could not have read.                  *)
(* Last the tabs: no click makes one with unsaved changes go.              *)
(***************************************************************************)

\* Settings are a binding, or None, for each action.
Settings == [Actions -> {None} \cup {Norm[combo] : combo \in Typed}]

\* In settings s no action shares its keys or has the browser's.
Sound(s) ==
    /\ s \in Settings
    /\ \A a \in Actions :
        /\ Bound(s, a) \notin Reserved
        /\ \A b \in Actions \ {a} : Bound(s, a) # Bound(s, b)

\* Every copy of the settings is sound; inductive, as a change starts from one
\* of them.
KeysInv ==
    /\ Sound(file)
    /\ mem \in [Editors -> Settings]
    /\ \A e \in Editors : Sound(mem[e])

LEMMA DefaultsSound == Sound([a \in Actions |-> None])
BY KeysOK DEF Sound, Settings, Bound

\* Binding an allowed combination that clashes with no other keeps settings sound.
LEMMA BindSound ==
    ASSUME NEW s, Sound(s), NEW a \in Actions, NEW combo \in Typed,
           Allowed(combo), ~Clash(s, a, combo)
    PROVE  Sound(With(s, a, combo))
<1> DEFINE t == With(s, a, combo)
<1>1. Norm[combo] # None
    BY KeysOK DEF None
<1>2. t \in Settings
    BY DEF With, Settings, Sound
<1>3. Bound(t, a) = Norm[combo]
    BY <1>1 DEF Bound, With, Sound, Settings
<1>4. \A b \in Actions \ {a} : Bound(t, b) = Bound(s, b)
    BY DEF Bound, With, Sound, Settings
<1>5. Norm[combo] \notin Reserved
    BY DEF Allowed
<1>6. \A b \in Actions \ {a} : Bound(s, b) # Norm[combo]
    BY DEF Clash
<1>7. ASSUME NEW x \in Actions
      PROVE  Bound(t, x) \notin Reserved /\ \A y \in Actions \ {x} : Bound(t, x) # Bound(t, y)
    <2>1. CASE x = a
        BY <2>1, <1>3, <1>4, <1>5, <1>6
    <2>2. CASE x # a
        <3>1. Bound(t, x) = Bound(s, x) /\ Bound(s, x) \notin Reserved
            BY <2>2, <1>4 DEF Sound
        <3>2. ASSUME NEW y \in Actions \ {x} PROVE Bound(t, x) # Bound(t, y)
            <4>1. CASE y = a
                BY <2>2, <3>1, <4>1, <1>3, <1>6
            <4>2. CASE y # a
                BY <2>2, <3>1, <4>2, <1>4 DEF Sound
            <4> QED
                BY <4>1, <4>2
        <3> QED
            BY <3>1, <3>2
    <2> QED
        BY <2>1, <2>2
<1> QED
    BY <1>2, <1>7 DEF Sound

\* A change puts sound settings in one editor's memory.
LEMMA ChangeSound ==
    ASSUME KeysInv, NEW e \in Editors, NEW what, NEW s, Sound(s), Change(e, what, s)
    PROVE  KeysInv'
<1>1. s \in Settings
    BY DEF Sound
<1>2. file' = file /\ mem' = [mem EXCEPT ![e] = s]
    BY DEF Change
<1> QED
    BY <1>1, <1>2 DEF KeysInv, Sound, Bound

LEMMA KeysInit == Init => KeysInv
BY DefaultsSound DEF Init, KeysInv, Sound

\* Only these steps touch the settings.
LEMMA NextKeys ==
    ASSUME Next
    PROVE  \/ UNCHANGED keys
           \/ \E e \in Editors :
               \/ \E a \in Actions, combo \in Typed : Bind(e, a, combo)
               \/ ResetKeys(e) \/ SaveKeys(e) \/ SaveKeysFails(e) \/ Reopen(e)
BY DEF Next, Click, CtrlClick, ShowTab, CloseTab, CreateLinked, StepTab, Address,
       Edit, PanelEdit, Save, Discard, Interrupt, Stop, Load

LEMMA KeysStep == KeysInv /\ [Next]_vars => KeysInv'
<1> SUFFICES ASSUME KeysInv, [Next]_vars PROVE KeysInv'
    OBVIOUS
<1> USE DEF KeysInv
<1>1. CASE UNCHANGED keys
    BY <1>1 DEF keys, Sound, Bound
<1>2. ASSUME NEW e \in Editors, NEW a \in Actions, NEW combo \in Typed, Bind(e, a, combo)
      PROVE  KeysInv'
    <2>1. PICK ok \in BOOLEAN :
              /\ Allowed(combo)
              /\ \/ Clash(Refreshed(e, ok), a, combo) /\ Change(e, None, Refreshed(e, ok))
                 \/ /\ ~Clash(Refreshed(e, ok), a, combo)
                    /\ Change(e, a, With(Refreshed(e, ok), a, combo))
        BY <1>2 DEF Bind
    <2> DEFINE s == Refreshed(e, ok)
    <2>2. Sound(s)
        BY DEF Refreshed
    <2>3. CASE Clash(s, a, combo)
        BY <2>1, <2>2, <2>3, ChangeSound
    <2>4. CASE ~Clash(s, a, combo)
        BY <2>1, <2>2, <2>4, BindSound, ChangeSound
    <2> QED
        BY <2>3, <2>4
<1>3. ASSUME NEW e \in Editors, ResetKeys(e) PROVE KeysInv'
    BY <1>3, DefaultsSound, ChangeSound DEF ResetKeys
<1>4. ASSUME NEW e \in Editors, SaveKeys(e) PROVE KeysInv'
    BY <1>4 DEF SaveKeys, Sound, Bound
<1>5. ASSUME NEW e \in Editors, SaveKeysFails(e) PROVE KeysInv'
    BY <1>5 DEF SaveKeysFails, Sound, Bound
<1>6. ASSUME NEW e \in Editors, Reopen(e) PROVE KeysInv'
    BY <1>6 DEF Reopen, Sound, Bound
<1> QED
    BY <1>1, <1>2, <1>3, <1>4, <1>5, <1>6, NextKeys DEF vars

\* Every action has keys of its own in the file and in every editor, whatever
\* editors bind, reset, save, fail to save and restart beside each other
\* (prefs.bind, prefs.refresh, prefs.save).
THEOREM KeysAlways == Spec => []KeysReachable
<1>1. KeysInv => KeysReachable
    BY DEF KeysInv, Sound, KeysReachable
<1> QED
    BY KeysInit, KeysStep, <1>1, PTL DEF Spec

-----------------------------------------------------------------------------
\* Once the writer is warned, what has unsaved changes was named or is late.
LostInv ==
    /\ stage \in {"running", "warned", "stopping", "stopped"}
    /\ stage \in {"warned", "stopping"} => dirty \subseteq told \cup late
    /\ stage = "running" => lost = {}
    /\ lost \subseteq told \cup late

LEMMA LostInit == Init => LostInv
BY DEF Init, LostInv

LEMMA LostStep == LostInv /\ [Next]_vars => LostInv'
<1> SUFFICES ASSUME LostInv, [Next]_vars PROVE LostInv'
    OBVIOUS
<1> USE DEF LostInv
<1>1. CASE UNCHANGED <<dirty, quit>>
    BY <1>1 DEF quit
\* An edit makes one entity dirty, late unless the editor is running.
<1>2. ASSUME NEW id, Changes(id), UNCHANGED <<stage, told, lost>> PROVE LostInv'
    BY <1>2 DEF Changes
\* A save or a discard takes one away.
<1>3. ASSUME dirty' \subseteq dirty, UNCHANGED quit PROVE LostInv'
    BY <1>3 DEF quit
<1>4. CASE Interrupt
    <2>1. CASE Warns
        BY <1>4, <2>1 DEF Interrupt, Warns, desk
    <2>2. CASE ~Warns
        BY <1>4, <2>2 DEF Interrupt, Warns, Up, desk
    <2> QED
        BY <2>1, <2>2
<1>5. CASE Stop
    BY <1>5 DEF Stop, desk
<1>6. CASE Next
    <2>1. CASE \E id \in Entities : Click(id) \/ CtrlClick(id) \/ ShowTab(id) \/ CloseTab(id)
        BY <2>1, <1>1 DEF Click, CtrlClick, ShowTab, CloseTab, Load
    <2>2. CASE \E id \in Entities : CreateLinked(id)
        BY <2>2, <1>2 DEF CreateLinked
    <2>3. CASE \E delta \in {-1, 1} : StepTab(delta)
        BY <2>3, <1>1 DEF StepTab, Load
    <2>4. CASE \E list \in Lists, id \in Entities : Address(list, id)
        BY <2>4, <1>1 DEF Address, Load
    <2>5. CASE Edit \/ PanelEdit
        BY <2>5, <1>2 DEF Edit, PanelEdit
    <2>6. CASE Save \/ Discard
        BY <2>6, <1>3 DEF Save, Discard
    <2>7. CASE \E e \in Editors :
                   \/ \E a \in Actions, combo \in Typed : Bind(e, a, combo)
                   \/ ResetKeys(e) \/ SaveKeys(e) \/ SaveKeysFails(e) \/ Reopen(e)
        BY <2>7, <1>1 DEF Bind, ResetKeys, SaveKeys, SaveKeysFails, Reopen, Change, desk
    <2> QED
        BY <1>4, <1>5, <1>6, <2>1, <2>2, <2>3, <2>4, <2>5, <2>6, <2>7 DEF Next
<1> QED
    BY <1>1, <1>6 DEF vars, desk

\* What a stop loses was named by the warning or edited after it, for any
\* entities and any number of edits, saves and interrupts (editCmd).
THEOREM LostAlways == Spec => []LostWasNamed
<1>1. LostInv => LostWasNamed
    BY DEF LostInv, LostWasNamed
<1> QED
    BY LostInit, LostStep, <1>1, PTL DEF Spec

-----------------------------------------------------------------------------
\* What an editor holds differs from the file as it last read it only where a
\* binding was asked for since.
AskedInv ==
    /\ KeysInv
    /\ read \in [Editors -> Settings]
    /\ asked \in [Editors -> SUBSET Actions]
    /\ \A e \in Editors : \A a \in Actions \ asked[e] : mem[e][a] = read[e][a]

LEMMA AskedInit == Init => AskedInv
<1> SUFFICES ASSUME Init PROVE AskedInv
    OBVIOUS
<1>1. KeysInv
    BY KeysInit
<1> QED
    BY <1>1 DEF Init, AskedInv, KeysInv

LEMMA AskedStep == AskedInv /\ [Next]_vars => AskedInv'
<1> SUFFICES ASSUME AskedInv, [Next]_vars PROVE AskedInv'
    OBVIOUS
<1>1. KeysInv'
    BY KeysStep DEF AskedInv
<1> DEFINE AskedOK ==
        /\ read \in [Editors -> Settings]
        /\ asked \in [Editors -> SUBSET Actions]
        /\ \A e \in Editors : \A a \in Actions \ asked[e] : mem[e][a] = read[e][a]
<1>2. AskedOK /\ mem \in [Editors -> Settings] /\ file \in Settings
    BY DEF AskedInv, KeysInv, Sound
<1>3. CASE UNCHANGED keys
    BY <1>1, <1>2, <1>3 DEF keys, AskedInv
\* One editor's copy becomes s, over what it has read or over its memory.
<1>4. ASSUME NEW e \in Editors, NEW what \in SUBSET Actions, NEW ok \in BOOLEAN, NEW s, Asks(e, what, ok),
             mem' = [mem EXCEPT ![e] = s],
             \A a \in Actions \ what : s[a] = Refreshed(e, ok)[a]
      PROVE  AskedOK'
    <2>1. CASE ok
        <3>1. read' = [read EXCEPT ![e] = file] /\ asked' = [asked EXCEPT ![e] = what]
            BY <1>4, <2>1 DEF Asks
        <3>2. \A a \in Actions \ what : s[a] = file[a]
            BY <1>4, <2>1 DEF Refreshed
        <3> QED
            BY <1>2, <1>4, <3>1, <3>2
    <2>2. CASE ~ok
        <3>1. read' = read /\ asked' = [asked EXCEPT ![e] = @ \cup what]
            BY <1>4, <2>2 DEF Asks
        <3>2. \A a \in Actions \ what : s[a] = mem[e][a]
            BY <1>4, <2>2 DEF Refreshed
        <3> QED
            BY <1>2, <1>4, <3>1, <3>2
    <2> QED
        BY <2>1, <2>2
<1>5. ASSUME NEW e \in Editors, NEW a \in Actions, NEW combo \in Typed, Bind(e, a, combo)
      PROVE  AskedOK'
    <2>1. PICK ok \in BOOLEAN :
              \/ Change(e, None, Refreshed(e, ok)) /\ Asks(e, {}, ok)
              \/ Change(e, a, With(Refreshed(e, ok), a, combo)) /\ Asks(e, {a}, ok)
        BY <1>5 DEF Bind
    <2>2. Refreshed(e, ok) \in Settings
        BY <1>2 DEF Refreshed
    <2>3. CASE Change(e, None, Refreshed(e, ok)) /\ Asks(e, {}, ok)
        BY <1>4, <2>3 DEF Change
    <2>4. CASE Change(e, a, With(Refreshed(e, ok), a, combo)) /\ Asks(e, {a}, ok)
        <3>1. \A b \in Actions \ {a} : With(Refreshed(e, ok), a, combo)[b] = Refreshed(e, ok)[b]
            BY <2>2 DEF With, Settings
        <3>2. mem' = [mem EXCEPT ![e] = With(Refreshed(e, ok), a, combo)]
            BY <2>4 DEF Change
        <3> QED
            BY <1>4, <2>4, <3>1, <3>2
    <2> QED
        BY <2>1, <2>3, <2>4
<1>6. ASSUME NEW e \in Editors, ResetKeys(e) PROVE AskedOK'
    <2>1. PICK ok \in BOOLEAN : Change(e, "reset", [a \in Actions |-> None]) /\ Asks(e, Actions, ok)
        BY <1>6 DEF ResetKeys
    <2>2. mem' = [mem EXCEPT ![e] = [a \in Actions |-> None]]
        BY <2>1 DEF Change
    <2> QED
        BY <1>4, <2>1, <2>2
<1>7. ASSUME NEW e \in Editors, SaveKeys(e) \/ SaveKeysFails(e) PROVE AskedOK'
    BY <1>2, <1>7 DEF SaveKeys, SaveKeysFails
<1>8. ASSUME NEW e \in Editors, Reopen(e) PROVE AskedOK'
    <2>1. mem' = [mem EXCEPT ![e] = file] /\ Asks(e, {}, TRUE)
        BY <1>8 DEF Reopen
    <2>2. \A a \in Actions : file[a] = Refreshed(e, TRUE)[a]
        BY DEF Refreshed
    <2> QED
        BY <1>4, <2>1, <2>2
<1>9. ASSUME Next
      PROVE \/ UNCHANGED keys
            \/ \E e \in Editors :
                \/ \E a \in Actions, combo \in Typed : Bind(e, a, combo)
                \/ ResetKeys(e) \/ SaveKeys(e) \/ SaveKeysFails(e) \/ Reopen(e)
    BY <1>9, NextKeys
<1>10. AskedOK'
    BY <1>2, <1>3, <1>5, <1>6, <1>7, <1>8, <1>9 DEF vars, keys
<1> QED
    BY <1>1, <1>10 DEF AskedInv

\* However editors change their settings beside each other, and whether or not
\* they can read the file: a save changes the bindings asked of its editor
\* since it last read the file, and otherwise only such as another editor has
\* changed since then (prefs.refresh: "kept rather than overwritten").
THEOREM BindingsKept == Spec => OtherBindingsKept
<1>1. AskedInv /\ [Next]_vars =>
        [\A a \in Actions :
            file'[a] # file[a] =>
                \E e \in Editors : busy[e] # None /\ (a \in asked[e] \/ read[e][a] # file[a])]_vars
    <2> SUFFICES ASSUME AskedInv, Next, NEW a \in Actions, file'[a] # file[a]
                 PROVE  \E e \in Editors : busy[e] # None /\ (a \in asked[e] \/ read[e][a] # file[a])
        OBVIOUS
    <2>1. PICK e \in Editors : SaveKeys(e)
        BY NextKeys DEF Bind, ResetKeys, SaveKeysFails, Reopen, Change, keys
    <2>2. busy[e] # None /\ file'[a] = mem[e][a]
        BY <2>1 DEF SaveKeys
    <2>3. a \notin asked[e] => mem[e][a] = read[e][a]
        BY DEF AskedInv
    <2> QED
        BY <2>2, <2>3
<1> QED
    BY AskedInit, AskedStep, <1>1, PTL DEF Spec, OtherBindingsKept
-----------------------------------------------------------------------------
\* A list of tabs: its ids can be anything.
IsList(s) == \E S : s \in Seq(S)

\* Every tab of s is one of t.
Within(s, t) == \A x : Contains(s, x) => Contains(t, x)

\* The first of some naturals, which Place looks for.
LEMMA FirstIsThere ==
    ASSUME NEW I, I \subseteq Nat, I # {}
    PROVE  Min(I) \in I
<1> DEFINE R == OpToRel(<, Nat)
<1>4. \A x, y \in Nat : y < x => <<y, x>> \in R
    BY DEF OpToRel
<1>5. IsWellFoundedOn(R, Nat)
    BY NatLessThanWellFounded
<1> HIDE DEF R
<1>1. PICK x \in I : \A y \in I : ~(<<y, x>> \in R)
    BY <1>5, WFMin
<1>2. \A y \in I : y < x => <<y, x>> \in R
    BY <1>4
<1>3. ASSUME NEW y \in I PROVE x =< y
    <2>1. x \in Nat /\ y \in Nat
        BY <1>1
    <2>2. ~(y < x)
        BY <1>1, <1>2
    <2> QED
        BY <2>1, <2>2
<1> QED
    BY <1>3 DEF Min

LEMMA PlaceIsThere ==
    ASSUME NEW s, IsList(s), NEW id
    PROVE  /\ Contains(s, id) => Place(s, id) \in 1..Len(s) /\ s[Place(s, id)] = id
           /\ Place(s, id) \in 0..Len(s)
<1> DEFINE I == {i \in 1..Len(s) : s[i] = id}
<1>1. Len(s) \in Nat
    BY DEF IsList
<1>2. Place(s, id) = IF I # {} THEN Min(I) ELSE 0
    BY DEF Place, SelectInSeq
<1>3. I # {} => Min(I) \in I
    BY <1>1, FirstIsThere
<1>4. Contains(s, id) => I # {}
    BY DEF Contains
<1> HIDE DEF I
<1>5. \A i \in I : i \in 1..Len(s) /\ s[i] = id
    BY DEF I
<1> QED
    BY <1>1, <1>2, <1>3, <1>4, <1>5

LEMMA InsertKeeps ==
    ASSUME NEW s, IsList(s), NEW i \in 1..(Len(s) + 1), NEW id
    PROVE  IsList(InsertAt(s, i, id)) /\ Within(s, InsertAt(s, i, id))
<1>1. PICK S : s \in Seq(S)
    BY DEF IsList
<1> DEFINE T == S \cup {id}
           a == SubSeq(s, 1, i - 1)
           b == SubSeq(s, i, Len(s))
           t == a \o <<id>> \o b
<1>2. /\ a \in Seq(T) /\ Len(a) = i - 1 /\ \A k \in 1..(i - 1) : a[k] = s[k]
    BY <1>1
<1>3. /\ b \in Seq(T) /\ Len(b) = Len(s) - i + 1
      /\ \A k \in 1..(Len(s) - i + 1) : b[k] = s[i + k - 1]
    BY <1>1
<1> HIDE DEF a, b
<1>4. /\ t \in Seq(T) /\ Len(t) = Len(s) + 1
      /\ \A k \in 1..(i - 1) : t[k] = a[k]
      /\ \A k \in (i + 1)..(Len(s) + 1) : t[k] = b[k - i]
    BY <1>1, <1>2, <1>3
<1>5. ASSUME NEW k \in 1..Len(s) PROVE Contains(t, s[k])
    <2>1. CASE k < i
        <3>1. t[k] = a[k] /\ a[k] = s[k]
            BY <1>1, <1>2, <1>4, <2>1
        <3> QED
            BY <1>1, <1>4, <3>1 DEF Contains
    <2>2. CASE k >= i
        <3>1. t[k + 1] = b[k + 1 - i] /\ b[k + 1 - i] = s[k]
            BY <1>1, <1>3, <1>4, <2>2
        <3> QED
            BY <1>1, <1>4, <3>1 DEF Contains
    <2> QED
        BY <1>1, <2>1, <2>2
<1>6. InsertAt(s, i, id) = t
    BY DEF InsertAt, a, b
<1> HIDE DEF t, T
<1> QED
    BY <1>4, <1>5, <1>6 DEF IsList, Within, Contains

LEMMA RemoveKeeps ==
    ASSUME NEW s, IsList(s), NEW i \in 1..Len(s)
    PROVE  /\ IsList(RemoveAt(s, i))
           /\ \A x : Contains(s, x) /\ x # s[i] => Contains(RemoveAt(s, i), x)
<1>1. PICK S : s \in Seq(S)
    BY DEF IsList
<1> DEFINE a == SubSeq(s, 1, i - 1)
           b == SubSeq(s, i + 1, Len(s))
           t == a \o b
<1>2. /\ a \in Seq(S) /\ Len(a) = i - 1 /\ \A k \in 1..(i - 1) : a[k] = s[k]
    BY <1>1
<1>3. /\ b \in Seq(S) /\ Len(b) = Len(s) - i
      /\ \A k \in 1..(Len(s) - i) : b[k] = s[i + k]
    BY <1>1
<1> HIDE DEF a, b
<1>4. t \in Seq(S) /\ Len(t) = Len(s) - 1
    <2>1. a \in Seq(S) /\ b \in Seq(S)
        BY <1>2, <1>3
    <2>2. t \in Seq(S) /\ Len(t) = Len(a) + Len(b)
        BY <2>1
    <2>3. Len(s) \in Nat /\ Len(a) = i - 1 /\ Len(b) = Len(s) - i
        BY <1>1, <1>2, <1>3
    <2> QED
        BY <2>2, <2>3
<1>5. \A k \in 1..(i - 1) : t[k] = s[k]
    BY <1>1, <1>2, <1>3
<1>6. ASSUME NEW k \in (i + 1)..Len(s) PROVE t[k - 1] = s[k]
    <2>1. t[k - 1] = b[k - i]
        BY <1>1, <1>2, <1>3
    <2>2. b[k - i] = s[i + (k - i)]
        BY <1>1, <1>3
    <2> QED
        BY <1>1, <2>1, <2>2
<1>7. RemoveAt(s, i) = t
    BY DEF RemoveAt, a, b
<1> HIDE DEF t
<1>8. ASSUME NEW k \in 1..Len(s), k # i PROVE Contains(t, s[k])
    <2>1. CASE k < i
        BY <1>1, <1>4, <1>5, <2>1 DEF Contains
    <2>2. CASE k > i
        <3>1. k - 1 \in 1..Len(t) /\ t[k - 1] = s[k]
            BY <1>1, <1>4, <1>6, <2>2
        <3> QED
            BY <3>1 DEF Contains
    <2> QED
        BY <1>1, <1>8, <2>1, <2>2
<1> QED
    BY <1>4, <1>7, <1>8 DEF IsList, Contains

LEMMA ReplaceKeeps ==
    ASSUME NEW s, IsList(s), NEW i \in 1..Len(s), NEW id
    PROVE  /\ IsList(ReplaceAt(s, i, id))
           /\ \A x : Contains(s, x) /\ x # s[i] => Contains(ReplaceAt(s, i, id), x)
<1>1. PICK S : s \in Seq(S)
    BY DEF IsList
<1>2. ReplaceAt(s, i, id) \in Seq(S \cup {id}) /\ Len(ReplaceAt(s, i, id)) = Len(s)
    BY <1>1 DEF ReplaceAt
<1>3. \A k \in 1..Len(s) : k # i => ReplaceAt(s, i, id)[k] = s[k]
    BY <1>1 DEF ReplaceAt
<1> QED
    BY <1>2, <1>3 DEF IsList, Contains

LEMMA AppendKeeps ==
    ASSUME NEW s, IsList(s), NEW id
    PROVE  IsList(Append(s, id)) /\ Within(s, Append(s, id))
<1>1. PICK S : s \in Seq(S)
    BY DEF IsList
<1>2. Append(s, id) \in Seq(S \cup {id}) /\ Len(Append(s, id)) = Len(s) + 1
      /\ \A k \in 1..Len(s) : Append(s, id)[k] = s[k]
    BY <1>1
<1> QED
    BY <1>1, <1>2 DEF IsList, Within, Contains

LEMMA URLKeeps ==
    ASSUME NEW t, IsList(t.ids)
    PROVE  URL(t).ids = t.ids
BY DEF URL, Tabs

LEMMA AddKeeps ==
    ASSUME NEW t, IsList(t.ids), NEW id
    PROVE  /\ IsList(Background(t, id).ids) /\ Within(t.ids, Background(t, id).ids)
           /\ Add(t, id).ids = Background(t, id).ids
<1>1. Place(t.ids, t.active) + 1 \in 1..(Len(t.ids) + 1)
    <2>1. Len(t.ids) \in Nat
        BY DEF IsList
    <2> QED
        BY <2>1, PlaceIsThere
<1>2. CASE Contains(t.ids, id)
    BY <1>2 DEF Background, Add, Tabs, Within
<1>3. CASE ~Contains(t.ids, id)
    BY <1>1, <1>3, InsertKeeps DEF Background, Add, Tabs
<1> QED
    BY <1>2, <1>3

\* What makes way for an opened tab is the one in front, and only if it has
\* nothing unsaved.
LEMMA OpenKeeps ==
    ASSUME NEW t, IsList(t.ids), NEW keep, NEW id
    PROVE  /\ IsList(Open(t, keep, id).ids)
           /\ \A x \in keep : Contains(t.ids, x) => Contains(Open(t, keep, id).ids, x)
<1>1. CASE t.active \in keep /\ ~Contains(t.ids, id)
    BY <1>1, AddKeeps DEF Open, Within
<1>2. CASE ~(t.active \in keep /\ ~Contains(t.ids, id))
    <2>1. Open(t, keep, id) = Replaced(t, id)
        BY <1>2 DEF Open
    <2>2. CASE Contains(t.ids, id)
        BY <2>1, <2>2 DEF Replaced, Tabs
    <2>3. CASE ~Contains(t.ids, id) /\ ~Contains(t.ids, t.active)
        BY <2>1, <2>3, AppendKeeps DEF Replaced, Tabs, Within
    <2>4. CASE ~Contains(t.ids, id) /\ Contains(t.ids, t.active)
        <3>1. /\ Place(t.ids, t.active) \in 1..Len(t.ids)
              /\ t.ids[Place(t.ids, t.active)] = t.active
            BY <2>4, PlaceIsThere
        <3>2. Replaced(t, id).ids = ReplaceAt(t.ids, Place(t.ids, t.active), id)
            BY <2>4 DEF Replaced, Tabs
        <3> QED
            BY <1>2, <2>1, <2>4, <3>1, <3>2, ReplaceKeeps
    <2> QED
        BY <2>2, <2>3, <2>4
<1> QED
    BY <1>1, <1>2

LEMMA CloseKeeps ==
    ASSUME NEW t, IsList(t.ids), NEW id, Contains(t.ids, id)
    PROVE  /\ IsList(Close(t, id).ids)
           /\ \A x : Contains(t.ids, x) /\ x # id => Contains(Close(t, id).ids, x)
<1>1. Close(t, id).ids = RemoveAt(t.ids, Place(t.ids, id))
    BY DEF Close, Tabs
<1> QED
    BY <1>1, PlaceIsThere, RemoveKeeps

LEMMA ParseIsList ==
    ASSUME NEW list \in Lists, NEW active
    PROVE  IsList(parseTabs(list, active).ids)
<1> DEFINE firsts == {i \in DOMAIN list : \A k \in 1..(i - 1) : list[k] # list[i]}
           nth(n) == CHOOSE i \in firsts : Cardinality({j \in firsts : j <= i}) = n
           seen == [n \in 1..Cardinality(firsts) |-> list[nth(n)]]
<1>1. Cardinality(firsts) \in Nat
    <2>1. DOMAIN list = 1..Len(list) /\ Len(list) \in Nat
        BY ListsOK
    <2>2. IsFiniteSet(1..Len(list))
        BY <2>1, FS_Interval
    <2>3. IsFiniteSet(firsts)
        BY <2>1, <2>2, FS_Subset
    <2> QED
        BY <2>3, FS_CardinalityType
<1>2. DOMAIN seen = 1..Cardinality(firsts) /\ seen = [n \in DOMAIN seen |-> seen[n]]
    OBVIOUS
<1>4. parseTabs(list, active).ids \in {seen, Append(seen, active)}
    BY DEF parseTabs, Tabs
<1> DEFINE N == Cardinality(firsts)
<1> HIDE DEF seen, firsts
<1> DEFINE S == {seen[n] : n \in DOMAIN seen}
<1>5. seen \in [1..N -> S] /\ N \in Nat
    BY <1>1, <1>2
<1> HIDE DEF S, N
<1>6. seen \in Seq(S)
    BY <1>5
<1>3. IsList(seen)
    BY <1>6 DEF IsList
<1> QED
    BY <1>3, <1>4, AppendKeeps
\* The tabs of the page, and those its links were drawn with, are lists.
ListsInv == IsList(tabs.ids) /\ IsList(drawn.at.ids) /\ IsList(panel.at.ids)

LEMMA ListsInit == Init => ListsInv
<1>1. IsList(<<>>)
    <2>1. <<>> \in Seq({})
        OBVIOUS
    <2> QED
        BY <2>1 DEF IsList
<1>2. Init => tabs.ids = <<>> /\ drawn.at.ids = <<>> /\ panel.at.ids = <<>>
    BY DEF Init, Tabs, Links
<1> QED
    BY <1>1, <1>2 DEF ListsInv

\* What a step makes of the tabs: with t loaded, tabs and links are those of t.
LEMMA LoadKeeps ==
    ASSUME NEW t, IsList(t.ids), Load(t)
    PROVE  ListsInv' /\ tabs'.ids = t.ids
<1>1. URL(t).ids = t.ids
    BY URLKeeps
<1>2. tabs' = URL(t) /\ drawn' = Links(URL(t), dirty) /\ panel' = Links(URL(t), dirty)
    BY DEF Load
<1>3. drawn'.at = URL(t) /\ panel'.at = URL(t)
    BY <1>2 DEF Links
<1> QED
    BY <1>1, <1>2, <1>3 DEF ListsInv

\* The links of either panel keep the unsaved tabs they were drawn with.
KeptStep(id) ==
    KeptBy(drawn, id) /\ KeptBy(panel, id) /\ Contains(tabs.ids, id) => Contains(tabs'.ids, id)

LEMMA ListsStep ==
    ASSUME ListsInv, Next
    PROVE  /\ ListsInv'
           /\ \A id \in Entities :
                  \/ KeptStep(id)
                  \/ CloseTab(id)
                  \/ \E list \in Lists, a \in Entities : Address(list, a)
<1> DEFINE Goal ==
        /\ ListsInv'
        /\ \A id \in Entities :
               \/ KeptStep(id)
               \/ CloseTab(id)
               \/ \E list \in Lists, a \in Entities : Address(list, a)
<1> SUFFICES Goal
    OBVIOUS
<1>1. IsList(tabs.ids) /\ IsList(drawn.at.ids) /\ IsList(panel.at.ids)
    BY DEF ListsInv
<1>2. ASSUME NEW t, IsList(t.ids), Load(t),
             \/ Within(tabs.ids, t.ids)
             \/ \E l \in {drawn, panel} : \A x : KeptBy(l, x) => Contains(t.ids, x)
      PROVE  Goal
    BY <1>2, LoadKeeps DEF KeptStep, Within
<1>3. ASSUME NEW x \in Entities, Click(x) PROVE Goal
    <2>1. PICK l \in {drawn, panel} : Load(Open(l.at, l.keep, x))
        BY <1>3 DEF Click
    <2>2. IsList(Open(l.at, l.keep, x).ids)
          /\ \A y : KeptBy(l, y) => Contains(Open(l.at, l.keep, x).ids, y)
        BY <1>1, OpenKeeps DEF KeptBy
    <2> QED
        BY <1>2, <2>1, <2>2
<1>4. ASSUME NEW x \in Entities, CtrlClick(x) PROVE Goal
    <2>1. PICK l \in {drawn, panel} : Load(Add(l.at, x))
        BY <1>4 DEF CtrlClick
    <2>2. IsList(Add(l.at, x).ids) /\ \A y : KeptBy(l, y) => Contains(Add(l.at, x).ids, y)
        BY <1>1, AddKeeps DEF KeptBy, Within
    <2> QED
        BY <1>2, <2>1, <2>2
<1>5. ASSUME NEW x \in Entities, ShowTab(x) PROVE Goal
    BY <1>1, <1>2, <1>5 DEF ShowTab, Tabs, Within
<1>6. ASSUME NEW x \in Entities, CloseTab(x) PROVE Goal
    <2>1. /\ Load(Close(tabs, x)) /\ IsList(Close(tabs, x).ids)
          /\ \A y : Contains(tabs.ids, y) /\ y # x => Contains(Close(tabs, x).ids, y)
        BY <1>1, <1>6, CloseKeeps DEF CloseTab
    <2>2. ListsInv' /\ tabs'.ids = Close(tabs, x).ids
        BY <2>1, LoadKeeps
    <2> QED
        BY <1>6, <2>1, <2>2 DEF KeptStep
<1>7. ASSUME NEW x \in Entities, CreateLinked(x) PROVE Goal
    <2>1. tabs' = Background(tabs, x) /\ panel'.at = Background(tabs, x) /\ drawn' = drawn
        BY <1>7 DEF CreateLinked, Links
    <2> QED
        BY <1>1, <2>1, AddKeeps DEF ListsInv, KeptStep, Within
<1>8. ASSUME NEW delta \in {-1, 1}, StepTab(delta) PROVE Goal
    BY <1>1, <1>2, <1>8 DEF StepTab, Step, Tabs, Within
<1>9. ASSUME NEW list \in Lists, NEW a \in Entities, Address(list, a) PROVE Goal
    BY <1>9, ParseIsList, LoadKeeps DEF Address
<1>10. CASE tabs' = tabs /\ drawn'.at \in {drawn.at, tabs} /\ panel'.at \in {panel.at, tabs}
    BY <1>1, <1>10 DEF ListsInv, KeptStep
<1>11. CASE Edit \/ PanelEdit \/ Save \/ Discard
    BY <1>10, <1>11 DEF Edit, PanelEdit, Save, Discard, Links
<1>12. CASE UNCHANGED desk
    BY <1>10, <1>12 DEF desk
<1>13. CASE Interrupt \/ Stop
    BY <1>12, <1>13 DEF Interrupt, Stop
<1>14. ASSUME NEW e \in Editors,
              \/ \E a \in Actions, combo \in Typed : Bind(e, a, combo)
              \/ ResetKeys(e) \/ SaveKeys(e) \/ SaveKeysFails(e) \/ Reopen(e)
       PROVE  Goal
    BY <1>12, <1>14 DEF Bind, ResetKeys, SaveKeys, SaveKeysFails, Reopen, Change
<1> HIDE DEF Goal
<1> QED
    BY <1>3, <1>4, <1>5, <1>6, <1>7, <1>8, <1>9, <1>11, <1>13, <1>14 DEF Next

\* A tab whose unsaved changes were there when the links were drawn stays open
\* until it is closed or another address is entered, for any entities and any
\* sequence of clicks, steps, created entities and edits (Tabs.Open).
THEOREM TabsKept == Spec => UnsavedTabKept
<1> DEFINE Kept ==
        \A id \in Entities :
            KeptBy(drawn, id) /\ KeptBy(panel, id) /\ Contains(tabs.ids, id)
                /\ ~Contains(tabs'.ids, id) =>
                \/ CloseTab(id)
                \/ \E list \in Lists, a \in Entities : Address(list, a)
<1>1. ListsInv /\ [Next]_vars => ListsInv'
    <2>1. ASSUME ListsInv, UNCHANGED vars PROVE ListsInv'
        BY <2>1 DEF ListsInv, vars, desk
    <2> QED
        BY <2>1, ListsStep
<1>2. ListsInv /\ [Next]_vars => [Kept]_vars
    BY ListsStep DEF KeptStep
<1> QED
    BY ListsInit, <1>1, <1>2, PTL DEF Spec, UnsavedTabKept
=============================================================================
