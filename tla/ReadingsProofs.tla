--------------------------- MODULE ReadingsProofs ---------------------------
(***************************************************************************)
(* Readings, for every world, pack and context.  First: a worldline that   *)
(* decides more takes nothing of the story away.  Nothing is assumed of    *)
(* the world: what exists under a context is a conjunction of facts that a *)
(* larger worldline keeps.  Then: the index names nothing it does not hold.*)
(* Then minds: that they hang on no order of a file unwarned, and that the *)
(* facts a diff lists tell them.  Then: Expand misses nothing.  Last: no   *)
(* read tells of anything outside the story.                               *)
(***************************************************************************)
EXTENDS Readings, WellFoundedInduction, TLAPS

\* A condition list that holds still holds when more is decided.
LEMMA HoldsGrows ==
    ASSUME NEW c, NEW d, Extends(d, c), NEW conds, Holds(conds, c.wl)
    PROVE  Holds(conds, d.wl)
BY DEF Holds, Extends

\* So does every entity, and every edge between two of them.
LEMMA PresentGrows ==
    ASSUME NEW w, NEW c, NEW d, Extends(d, c), NEW id, Present(w, c, id)
    PROVE  Present(w, d, id)
<1>1. Holds(w.entity[id].valid, d.wl)
    BY HoldsGrows DEF Present
<1>2. c.statuses = d.statuses
    BY DEF Extends
<1> QED
    BY <1>1, <1>2 DEF Present, Admits

LEMMA EdgeGrows ==
    ASSUME NEW w, NEW c, NEW d, Extends(d, c), NEW e, NEW x, EdgeHolds(w, c, e, x)
    PROVE  EdgeHolds(w, d, e, x)
BY HoldsGrows, PresentGrows DEF EdgeHolds

\* A statement needs its subject and its object as well.
LEMMA StatementGrows ==
    ASSUME NEW w, NEW c, NEW d, Extends(d, c), NEW s, PresentStatement(w, c, s)
    PROVE  PresentStatement(w, d, s)
<1>1. Holds(w.statement[s].valid, d.wl)
    BY HoldsGrows DEF PresentStatement
<1>2. Present(w, d, w.statement[s].subject) /\ Present(w, d, w.statement[s].object)
    BY PresentGrows DEF PresentStatement
<1>3. c.statuses = d.statuses
    BY DEF Extends
<1> QED
    BY <1>1, <1>2, <1>3 DEF PresentStatement, Admits

\* An assertion needs its statement and whoever it is made to.
LEMMA AssertionGrows ==
    ASSUME NEW w, NEW c, NEW d, Extends(d, c), NEW x, AssertionHolds(w, c, x)
    PROVE  AssertionHolds(w, d, x)
BY HoldsGrows, StatementGrows, PresentGrows DEF AssertionHolds

LEMMA ToldGrows ==
    ASSUME NEW w, NEW c, NEW d, Extends(d, c)
    PROVE  Told(w, c) \subseteq Told(w, d)
<1>1. StoryFacts(w, c) \subseteq StoryFacts(w, d)
    BY PresentGrows, StatementGrows DEF StoryFacts, PresentIds, PresentStatements
<1>2. EdgeFacts(w, c) \subseteq EdgeFacts(w, d)
    BY EdgeGrows DEF EdgeFacts
<1>3. AssertionFacts(w, c) \subseteq AssertionFacts(w, d)
    <2>1. PresentAgents(w, c) \subseteq PresentAgents(w, d)
        BY PresentGrows DEF PresentAgents, Agent
    <2> QED
        BY <2>1, AssertionGrows DEF AssertionFacts
<1> QED
    BY <1>1, <1>2, <1>3 DEF Told

\* Whatever the authors write, a worldline that decides more shows every
\* entity, edge, statement and assertion that one that decides less shows
\* (Resolver.facts under two contexts, but for what minds hold).
THEOREM MoreToldAlways == Spec => []MoreToldMoreFacts
<1>1. MoreToldMoreFacts
    BY ToldGrows DEF MoreToldMoreFacts
<1> QED
    BY <1>1, PTL

-----------------------------------------------------------------------------
(***************************************************************************)
(* What is compiled is sound: IndexSound is inductive, and says that the   *)
(* index names nothing that is not in it.                                  *)
(***************************************************************************)
IndexSound == Sound(index)

LEMMA SoundInit == Init => IndexSound
BY ReadingsOK DEF Init, IndexSound

\* Every change of an author loads the files, and Load compiles a sound world
\* or keeps the index.
LEMMA SoundChange ==
    ASSUME IndexSound, NEW STATE w, Change(w)
    PROVE  IndexSound'
BY DEF IndexSound, Change, Loaded

LEMMA SoundStep == IndexSound /\ [Next]_vars => IndexSound'
<1> SUFFICES ASSUME IndexSound, [Next]_vars PROVE IndexSound'
    OBVIOUS
<1>1. ASSUME NEW e \in Entities(files), EditEntity(e) PROVE IndexSound'
    BY <1>1, SoundChange DEF EditEntity
<1>2. ASSUME NEW e \in Entities(files), DeleteEntity(e) PROVE IndexSound'
    BY <1>2, SoundChange DEF DeleteEntity
<1>3. ASSUME NEW s \in Statements(files), EditStatement(s) PROVE IndexSound'
    BY <1>3, SoundChange DEF EditStatement
<1>4. CASE UNCHANGED vars
    BY <1>4 DEF vars, IndexSound
<1> QED
    BY <1>1, <1>2, <1>3, <1>4 DEF Next

LEMMA SoundConditional ==
    ASSUME NEW conds, CondsOK(index, conds)
    PROVE  Conditional(conds)
BY DEF CondsOK, Conditional

\* checkConditions, checkEntityEdges, checkBeliefs, checkAssertions and
\* checkStatementTriple each look up what they are about.
LEMMA SoundIsClosed == IndexSound => IndexClosed
<1> SUFFICES ASSUME IndexSound PROVE IndexClosed
    OBVIOUS
<1>1. ASSUME NEW e \in Entities(index)
      PROVE  LET d == index.entity[e]
             IN  /\ Conditional(d.valid)
                 /\ \A x \in Range(d.edges) : x.target \in Entities(index) /\ Conditional(x.valid)
                 /\ \A x \in Range(d.beliefs) \union Range(d.asserts) :
                        /\ x.statement \in Statements(index) /\ Conditional(x.valid)
                        /\ x.other \in Entities(index) \union {NoId}
    <2>1. Conditional(index.entity[e].valid)
        BY <1>1, SoundConditional DEF IndexSound, Sound
    <2>2. \A x \in Range(index.entity[e].edges) : x.target \in Entities(index) /\ Conditional(x.valid)
        BY <1>1, SoundConditional DEF IndexSound, Sound, EdgesOK, TripleOK
    <2>3. ASSUME NEW claims, ClaimsOK(index, claims), NEW x \in Range(claims)
          PROVE  /\ x.statement \in Statements(index) /\ Conditional(x.valid)
                 /\ x.other \in Entities(index) \union {NoId}
        BY <2>3, SoundConditional DEF ClaimsOK
    <2>4. ClaimsOK(index, index.entity[e].beliefs) /\ ClaimsOK(index, index.entity[e].asserts)
        BY <1>1 DEF IndexSound, Sound
    <2> QED
        BY <2>1, <2>2, <2>3, <2>4
<1>2. ASSUME NEW s \in Statements(index)
      PROVE  /\ {index.statement[s].subject, index.statement[s].object} \subseteq Entities(index)
             /\ Conditional(index.statement[s].valid)
    BY <1>2, SoundConditional DEF IndexSound, Sound, TripleOK
<1> QED
    BY <1>1, <1>2 DEF IndexClosed

\* Whatever the authors write and delete, in any number of changes, the index
\* that is served names nothing that is not in it (index.Load).
THEOREM ClosedAlways == Spec => []IndexClosed
<1>1. Init => IndexSound
    BY SoundInit
<1>2. IndexSound /\ [Next]_vars => IndexSound'
    BY SoundStep
<1>3. IndexSound => IndexClosed
    BY SoundIsClosed
<1> QED
    BY <1>1, <1>2, <1>3, PTL DEF Spec
-----------------------------------------------------------------------------
(***************************************************************************)
(* Minds.  A belief is picked from a list by an order of its places: the   *)
(* lemmas say that the order has a first place.                            *)
(***************************************************************************)
LEMMA BestIsThere ==
    ASSUME NEW n \in Nat, NEW I, I \subseteq 1..n, I # {}, NEW R,
           \A i, j \in I : <<i, j>> \in R \/ <<j, i>> \in R,
           \A i, j, k \in I : <<i, j>> \in R /\ <<j, k>> \in R => <<i, k>> \in R
    PROVE  \E i \in I : \A j \in I : <<i, j>> \in R
<1> DEFINE Upto(k) == I \intersect 1..k
           Best(k) == \E i \in Upto(k) : \A j \in Upto(k) : <<i, j>> \in R
           Less == OpToRel(<, Nat)
           Bad == {k \in 1..n : Upto(k) # {} /\ ~Best(k)}
<1>1. \A x, y \in Nat : y < x => <<y, x>> \in Less
    BY DEF OpToRel
<1>2. IsWellFoundedOn(Less, Nat)
    BY NatLessThanWellFounded
<1>5. Bad \subseteq Nat /\ \A k \in Nat : k \in Bad <=> k \in 1..n /\ Upto(k) # {} /\ ~Best(k)
    OBVIOUS
<1>6. \A k : \A j : j \in Upto(k) <=> j \in I /\ j \in 1..k
    OBVIOUS
<1>7. \A k : Best(k) <=> \E i \in Upto(k) : \A j \in Upto(k) : <<i, j>> \in R
    OBVIOUS
<1> HIDE DEF Less, Bad, Upto, Best
<1>3. Bad = {}
    <2> SUFFICES ASSUME Bad # {} PROVE FALSE
        OBVIOUS
    <2>1. PICK k \in Bad : \A m \in Bad : ~(<<m, k>> \in Less)
        BY <1>2, <1>5, WFMin
    <2>2. k \in 1..n /\ Upto(k) # {} /\ ~Best(k) /\ k - 1 \notin Bad
        <3>1. k \in 1..n /\ Upto(k) # {} /\ ~Best(k)
            BY <1>5, <2>1
        <3>2. k \in Nat /\ k - 1 \in Nat /\ k - 1 < k
            BY <3>1
        <3>3. <<k - 1, k>> \in Less
            BY <1>1, <3>2
        <3> QED
            BY <2>1, <3>1, <3>3
    <2>3. k \in I
        <3> SUFFICES ASSUME k \notin I PROVE FALSE
            OBVIOUS
        <3>1. \A j : j \in Upto(k - 1) <=> j \in Upto(k)
            BY <1>6, <2>2
        <3>2. k - 1 \in 1..n
            BY <1>6, <2>2, <3>1
        <3>3. Best(k - 1) <=> Best(k)
            BY <1>7, <3>1
        <3> QED
            BY <1>5, <2>2, <3>1, <3>2, <3>3
    <2>4. /\ \A j \in Upto(k) : j = k \/ j \in Upto(k - 1)
          /\ \A j \in Upto(k - 1) : j \in Upto(k)
          /\ k \in Upto(k)
        BY <1>6, <2>2, <2>3
    <2>5. CASE Upto(k - 1) = {}
        BY <1>7, <2>2, <2>3, <2>4, <2>5
    <2>6. CASE Upto(k - 1) # {}
        <3>1. k - 1 \in 1..n
            BY <1>6, <2>2, <2>6
        <3>2. PICK i \in Upto(k - 1) : \A j \in Upto(k - 1) : <<i, j>> \in R
            BY <1>5, <1>7, <2>2, <2>6, <3>1
        <3>3. i \in Upto(k) /\ i \in I /\ \A j \in Upto(k - 1) : j \in I
            BY <1>6, <2>4
        <3>4. CASE <<i, k>> \in R
            BY <1>7, <2>2, <2>4, <3>2, <3>3, <3>4
        <3>5. CASE <<k, i>> \in R
            <4>1. \A j \in Upto(k) : <<k, j>> \in R
                BY <2>3, <2>4, <3>2, <3>3, <3>5
            <4> QED
                BY <1>7, <2>2, <2>4, <4>1
        <3> QED
            BY <2>3, <3>3, <3>4, <3>5
    <2> QED
        BY <2>5, <2>6
<1>4. n \in 1..n /\ \A j : j \in Upto(n) <=> j \in I
    <2>1. PICK x \in I : x \in 1..n
        OBVIOUS
    <2>2. n \in 1..n
        BY <2>1
    <2>3. \A j : j \in Upto(n) <=> j \in I /\ j \in 1..n
        BY <1>6
    <2> QED
        BY <2>2, <2>3
<1>8. n \in Nat /\ n \notin Bad /\ Upto(n) # {}
    BY <1>3, <1>4
<1>9. Best(n)
    BY <1>4, <1>5, <1>8
<1> QED
    BY <1>4, <1>7, <1>9

\* A list of claims as far as their order goes: places, and at each how many
\* conditions there are.
Measured(list) ==
    \E n \in Nat : DOMAIN list \subseteq 1..n /\ \A i \in DOMAIN list : Len(list[i].valid) \in Nat

\* The belief of its own that an agent holds is the one picked first.
LEMMA OwnIsFirst ==
    ASSUME NEW w, NEW c, NEW a, NEW s, Measured(w.entity[a].beliefs), Own(w, c, a, s) # {}
    PROVE  \E i \in Own(w, c, a, s) :
               /\ \A j \in Own(w, c, a, s) : Specific(w.entity[a].beliefs, i, j)
               /\ LET best == w.entity[a].beliefs[i]
                  IN  OwnBelief(w, c, a, s) =
                          Belief(best.value, "explicit", NoId,
                                 IF Present(w, c, best.other) THEN best.other ELSE NoId)
<1> DEFINE list == w.entity[a].beliefs
           I == Own(w, c, a, s)
           R == {x \in I \X I : Specific(list, x[1], x[2])}
           best == CHOOSE i \in I : \A j \in I : Specific(list, i, j)
<1>1. PICK n \in Nat : DOMAIN list \subseteq 1..n /\ \A i \in DOMAIN list : Len(list[i].valid) \in Nat
    BY DEF Measured
<1>2. I \subseteq DOMAIN list
    BY DEF Own
<1> DEFINE length == [i \in I |-> Len(list[i].valid)]
<1>3. \A i, j \in I : Specific(list, i, j) <=> length[i] > length[j] \/ (length[i] = length[j] /\ i <= j)
    BY DEF Specific
<1>4. length \in [I -> Nat] /\ I \subseteq 1..n
    BY <1>1, <1>2
<1>5. \A i, j \in I : <<i, j>> \in R <=> Specific(list, i, j)
    OBVIOUS
<1>6. OwnBelief(w, c, a, s) =
          Belief(list[best].value, "explicit", NoId,
                 IF Present(w, c, list[best].other) THEN list[best].other ELSE NoId)
    BY DEF OwnBelief
<1>7. I # {}
    OBVIOUS
<1> HIDE DEF length, R, I, list
<1>8. PICK i \in I : \A j \in I : <<i, j>> \in R
    <2>1. ASSUME NEW i \in I, NEW j \in I PROVE <<i, j>> \in R \/ <<j, i>> \in R
        <3>1. i \in Int /\ j \in Int /\ length[i] \in Nat /\ length[j] \in Nat
            BY <1>1, <1>4
        <3>2. Specific(list, i, j) \/ Specific(list, j, i)
            BY <1>3, <3>1
        <3> QED
            BY <1>5, <3>2
    <2>2. \A i, j, k \in I : <<i, j>> \in R /\ <<j, k>> \in R => <<i, k>> \in R
        BY <1>1, <1>3, <1>4, <1>5
    <2> QED
        BY <1>1, <1>4, <1>7, <2>1, <2>2, BestIsThere
<1>9. best \in I /\ \A j \in I : Specific(list, best, j)
    BY <1>5, <1>8
<1> HIDE DEF best
<1> QED
    BY <1>6, <1>9 DEF list, I

\* So has each list of claims of a file.
LEMMA FileMeasured ==
    ASSUME NEW w, IsWorld(w), NEW a \in Entities(w)
    PROVE  Measured(w.entity[a].beliefs)
<1> DEFINE list == w.entity[a].beliefs
<1>1. list \in Seq(Claim)
    BY DEF IsWorld, Entity, Entities
<1>2. \A x \in Claim : Len(x.valid) \in Nat
    BY DEF Claim, Conditions
<1> HIDE DEF list
<1>3. DOMAIN list = 1..Len(list) /\ Len(list) \in Nat /\ \A i \in DOMAIN list : list[i] \in Claim
    BY <1>1
<1>4. Measured(list)
    BY <1>2, <1>3 DEF Measured
<1> QED
    BY <1>4 DEF list

\* The belief an entity has of its own is one of those authored that hold.
LEMMA OwnIsAuthored ==
    ASSUME NEW w, IsWorld(w), NEW c, NEW a \in Entities(w), NEW s, Own(w, c, a, s) # {}
    PROVE  \E b \in Range(w.entity[a].beliefs) :
               /\ b.statement = s /\ Holds(b.valid, c.wl)
               /\ OwnBelief(w, c, a, s).held = b.value
               /\ OwnBelief(w, c, a, s).source = "explicit"
<1> DEFINE list == w.entity[a].beliefs
<1>1. PICK i \in Own(w, c, a, s) :
          OwnBelief(w, c, a, s) =
              Belief(list[i].value, "explicit", NoId,
                     IF Present(w, c, list[i].other) THEN list[i].other ELSE NoId)
    BY FileMeasured, OwnIsFirst
<1>2. i \in DOMAIN list /\ list[i].statement = s /\ Holds(list[i].valid, c.wl)
    BY DEF Own
<1>3. list[i] \in Range(list)
    BY <1>2 DEF Range
<1>4. OwnBelief(w, c, a, s).held = list[i].value /\ OwnBelief(w, c, a, s).source = "explicit"
    BY <1>1 DEF Belief
<1> QED
    BY <1>2, <1>3, <1>4

\* The memberships of a that hold and whose faction has a belief on s.
Believing(w, c, a, s) ==
    {i \in Memberships(w, c, a) : Own(w, c, w.entity[a].edges[i].target, s) # {}}

\* A list of edges as far as their order goes: places, and a priority at each.
Ordered(list) ==
    \E n \in Nat : DOMAIN list \subseteq 1..n /\ \A i \in DOMAIN list : list[i].priority \in Nat

\* The edges of a file are such a list.
LEMMA FileOrdered ==
    ASSUME NEW w, IsWorld(w), NEW a \in Entities(w)
    PROVE  Ordered(w.entity[a].edges)
<1> DEFINE list == w.entity[a].edges
<1>1. list \in Seq(Edge)
    BY DEF IsWorld, Entity, Entities
<1>2. \A x \in Edge : x.priority \in Nat
    BY DEF Edge
<1> HIDE DEF list
<1>3. DOMAIN list = 1..Len(list) /\ Len(list) \in Nat /\ \A i \in DOMAIN list : list[i] \in Edge
    BY <1>1
<1>4. Ordered(list)
    BY <1>2, <1>3 DEF Ordered
<1> QED
    BY <1>4 DEF list

\* The belief that is inherited is of the membership that is walked first.
LEMMA InheritedIsFirst ==
    ASSUME NEW w, NEW c, NEW a, NEW s, Ordered(w.entity[a].edges),
           w.entity[a].type # Faction, Believing(w, c, a, s) # {}
    PROVE  \E i \in Believing(w, c, a, s) :
               /\ \A j \in Believing(w, c, a, s) : Stronger(w.entity[a].edges, i, j)
               /\ LET faction == w.entity[a].edges[i].target
                  IN  InheritedBelief(w, c, a, s) =
                          Belief(OwnBelief(w, c, faction, s).held, "inherited", faction, NoId)
<1> DEFINE list == w.entity[a].edges
           I == Believing(w, c, a, s)
           R == {x \in I \X I : Stronger(list, x[1], x[2])}
           first == CHOOSE i \in I : \A j \in I : Stronger(list, i, j)
<1>1. PICK n \in Nat : DOMAIN list \subseteq 1..n /\ \A i \in DOMAIN list : list[i].priority \in Nat
    BY DEF Ordered
<1>2. I \subseteq DOMAIN list /\ I \subseteq 1..n
    BY <1>1 DEF Believing, Memberships
<1> DEFINE rank == [i \in I |-> list[i].priority]
<1>3. \A i, j \in I :
          Stronger(list, i, j) <=>
              IF rank[i] = rank[j] THEN i <= j ELSE rank[i] # 0 /\ (rank[j] = 0 \/ rank[i] < rank[j])
    BY DEF Stronger
<1>4. rank \in [I -> Nat]
    BY <1>1, <1>2
<1>5. \A i, j \in I : <<i, j>> \in R <=> Stronger(list, i, j)
    OBVIOUS
<1>6. InheritedBelief(w, c, a, s) =
          Belief(OwnBelief(w, c, list[first].target, s).held, "inherited", list[first].target, NoId)
    BY DEF InheritedBelief, Believing
<1>7. I # {}
    OBVIOUS
<1> HIDE DEF rank, R, I, list
<1>8. PICK i \in I : \A j \in I : <<i, j>> \in R
    <2>1. ASSUME NEW i \in I, NEW j \in I PROVE <<i, j>> \in R \/ <<j, i>> \in R
        <3>1. i \in Int /\ j \in Int /\ rank[i] \in Nat /\ rank[j] \in Nat
            BY <1>1, <1>2, <1>4
        <3>2. Stronger(list, i, j) \/ Stronger(list, j, i)
            BY <1>3, <3>1
        <3> QED
            BY <1>5, <3>2
    <2>2. \A i, j, k \in I : <<i, j>> \in R /\ <<j, k>> \in R => <<i, k>> \in R
        BY <1>1, <1>2, <1>3, <1>4, <1>5
    <2> QED
        BY <1>1, <1>2, <1>7, <2>1, <2>2, BestIsThere
<1>9. first \in I /\ \A j \in I : Stronger(list, first, j)
    BY <1>5, <1>8
<1> HIDE DEF first
<1> QED
    BY <1>6, <1>9 DEF list, I
\* Of two memberships with one priority, whose factions hold different beliefs
\* under one context, the validator sees the conflict.
LEMMA Disagreement ==
    ASSUME NEW w, IsWorld(w), NEW c, NEW a \in Entities(w), NEW s,
           NEW i \in Believing(w, c, a, s), NEW j \in Believing(w, c, a, s),
           w.entity[a].edges[i].priority = w.entity[a].edges[j].priority,
           OwnBelief(w, c, w.entity[a].edges[i].target, s).held #
               OwnBelief(w, c, w.entity[a].edges[j].target, s).held
    PROVE  Conflict(w, a, s)
<1> DEFINE list == w.entity[a].edges
           Holding(x, k) ==
               /\ x.by = list[k] /\ x.belief.value = OwnBelief(w, c, list[k].target, s).held
               /\ Holds(x.by.valid, c.wl) /\ Holds(x.belief.valid, c.wl)
<1>1. ASSUME NEW k \in Believing(w, c, a, s)
      PROVE  \E x \in Inheritable(w, a, s) : Holding(x, k)
    <2>1. /\ k \in DOMAIN list /\ IsMembership(list[k].relation) /\ Holds(list[k].valid, c.wl)
          /\ list[k].target \in Entities(w) /\ Own(w, c, list[k].target, s) # {}
        BY <1>1 DEF Believing, Memberships, EdgeHolds, Present
    <2> DEFINE faction == list[k].target
    <2>6. faction \in Entities(w) /\ Own(w, c, faction, s) # {}
        BY <2>1
    <2> HIDE DEF faction
    <2>2. PICK b \in Range(w.entity[faction].beliefs) :
              /\ b.statement = s /\ Holds(b.valid, c.wl)
              /\ OwnBelief(w, c, faction, s).held = b.value
        BY <2>6, OwnIsAuthored
    <2> DEFINE x == [by |-> list[k], belief |-> b]
    <2>3. list[k] \in {y \in Range(list) : IsMembership(y.relation)}
        BY <2>1 DEF Range
    <2>4. x \in Inheritable(w, a, s)
        <3>1. x \in {[by |-> list[k], belief |-> z] :
                          z \in {y \in Range(w.entity[list[k].target].beliefs) : y.statement = s}}
            BY <2>2 DEF faction
        <3> QED
            BY <2>3, <3>1 DEF Inheritable
    <2>5. Holding(x, k)
        BY <2>1, <2>2 DEF faction
    <2> QED
        BY <2>4, <2>5
<1>2. PICK x \in Inheritable(w, a, s) : Holding(x, i)
    BY <1>1
<1>3. PICK y \in Inheritable(w, a, s) : Holding(y, j)
    BY <1>1
<1>4. x.by.target # y.by.target /\ x.belief.value # y.belief.value
    BY <1>2, <1>3
<1>5. ~PriorityOrders(x.by.priority, y.by.priority)
    BY <1>2, <1>3 DEF PriorityOrders
<1> DEFINE conds == UNION {Range(x.by.valid), Range(y.by.valid),
                           Range(x.belief.valid), Range(y.belief.valid)}
<1>6. \A z \in conds : c.wl[z.decision] = z.outcome
    BY <1>2, <1>3 DEF Holds
<1>7. ~Exclusive(conds)
    BY <1>6 DEF Exclusive
<1> QED
    BY <1>4, <1>5, <1>7 DEF Conflict

\* What a list's order leaves alone: all but the edges of a, and of those the
\* order only.
LEMMA ReorderedSame ==
    ASSUME NEW w, IsWorld(w), NEW a \in Entities(w), NEW p,
           p \in Bijection(DOMAIN w.entity[a].edges, DOMAIN w.entity[a].edges)
    PROVE  LET w1 == Reordered(w, a, p)
               list == w.entity[a].edges
           IN  /\ Entities(w1) = Entities(w) /\ w1.statement = w.statement
               /\ \A e \in Entities(w) :
                      /\ w1.entity[e].type = w.entity[e].type
                      /\ w1.entity[e].valid = w.entity[e].valid
                      /\ w1.entity[e].status = w.entity[e].status
                      /\ w1.entity[e].beliefs = w.entity[e].beliefs
               /\ w1.entity[a].edges = [i \in DOMAIN list |-> list[p[i]]]
<1> DEFINE list == w.entity[a].edges
           d == [w.entity[a] EXCEPT !.edges = [i \in DOMAIN list |-> list[p[i]]]]
           w1 == [w EXCEPT !.entity = [w.entity EXCEPT ![a] = d]]
<1>1. Reordered(w, a, p) = w1
    BY DEF Reordered
<1>2. /\ w \in [entity : [Entities(w) -> Entity], statement : [Statements(w) -> Statement]]
      /\ w.entity \in [Entities(w) -> Entity]
    BY DEF IsWorld
<1>3. /\ w1.entity = [w.entity EXCEPT ![a] = d] /\ w1.statement = w.statement
    BY <1>2
<1>4. /\ d.type = w.entity[a].type /\ d.valid = w.entity[a].valid
      /\ d.status = w.entity[a].status /\ d.beliefs = w.entity[a].beliefs
      /\ d.edges = [i \in DOMAIN list |-> list[p[i]]]
    BY <1>2 DEF Entity
<1> HIDE DEF d, w1
<1>5. Entities(w1) = Entities(w) /\ w1.entity[a] = d
      /\ \A e \in Entities(w) \ {a} : w1.entity[e] = w.entity[e]
    BY <1>2, <1>3 DEF Entities
<1> QED
    BY <1>1, <1>3, <1>4, <1>5

\* OwnBelief is of the belief picked among those that hold.
Picked(list, I) == list[CHOOSE i \in I : \A j \in I : Specific(list, i, j)]

LEMMA OwnIsPicked ==
    ASSUME NEW w, NEW c, NEW a, NEW s
    PROVE  LET best == Picked(w.entity[a].beliefs, Own(w, c, a, s))
           IN  OwnBelief(w, c, a, s) =
                   IF Own(w, c, a, s) = {} THEN Ignorance
                   ELSE Belief(best.value, "explicit", NoId,
                               IF Present(w, c, best.other) THEN best.other ELSE NoId)
BY DEF OwnBelief, Picked

\* An order that no two factions of a disagree in decides nothing.
LEMMA OrderKeeps ==
    ASSUME NEW w, IsWorld(w), NEW a \in Entities(w), NEW s, NEW c,
           w.entity[a].type # Faction => ~Conflict(w, a, s),
           NEW p \in Bijection(DOMAIN w.entity[a].edges, DOMAIN w.entity[a].edges)
    PROVE  ResolveBelief(Reordered(w, a, p), c, a, s).held = ResolveBelief(w, c, a, s).held
<1> DEFINE w1 == Reordered(w, a, p)
           list == w.entity[a].edges
           list1 == w1.entity[a].edges
           D == DOMAIN list
<1>1. /\ Entities(w1) = Entities(w) /\ w1.statement = w.statement
      /\ \A e \in Entities(w) :
             /\ w1.entity[e].type = w.entity[e].type
             /\ w1.entity[e].valid = w.entity[e].valid
             /\ w1.entity[e].status = w.entity[e].status
             /\ w1.entity[e].beliefs = w.entity[e].beliefs
      /\ list1 = [i \in D |-> list[p[i]]]
    BY ReorderedSame
<1>2. Ordered(list)
    BY FileOrdered
<1>3. p \in [D -> D] /\ \A k \in D : \E i \in D : p[i] = k
    BY DEF Bijection, Injection, Surjection
<1> HIDE DEF w1
<1>4. \A e : Present(w1, c, e) <=> Present(w, c, e)
    BY <1>1 DEF Present
<1>5. \A e \in Entities(w) :
          /\ Own(w1, c, e, s) = Own(w, c, e, s)
          /\ OwnBelief(w1, c, e, s) = OwnBelief(w, c, e, s)
    <2>1. ASSUME NEW e \in Entities(w)
          PROVE  Own(w1, c, e, s) = Own(w, c, e, s)
        BY <1>1 DEF Own
    <2>2. \A e \in Entities(w) :
              /\ Picked(w1.entity[e].beliefs, Own(w1, c, e, s)) = Picked(w.entity[e].beliefs, Own(w, c, e, s))
              /\ w1.entity[e].beliefs = w.entity[e].beliefs
        BY <1>1, <2>1
    <2> QED
        BY <1>4, <2>1, <2>2, OwnIsPicked
<1>6. CommonBelief(w1, s) = CommonBelief(w, s)
    BY <1>1 DEF CommonBelief
<1>7. Ordered(list1)
    <2>1. PICK n \in Nat : D \subseteq 1..n /\ \A i \in D : list[i].priority \in Nat
        BY <1>2 DEF Ordered
    <2> HIDE DEF list, list1
    <2>2. DOMAIN list1 = D /\ \A i \in D : p[i] \in D /\ list1[i] = list[p[i]]
        BY <1>1, <1>3, <2>1
    <2> QED
        BY <2>1, <2>2 DEF Ordered
<1> HIDE DEF list1, list
<1>8. \A i : i \in Believing(w1, c, a, s) <=> i \in D /\ p[i] \in Believing(w, c, a, s)
    <2>1. \A i : i \in Believing(w1, c, a, s) <=>
                     /\ i \in DOMAIN list1 /\ IsMembership(list1[i].relation)
                     /\ EdgeHolds(w1, c, a, list1[i]) /\ Own(w1, c, list1[i].target, s) # {}
        BY DEF Believing, Memberships, list1
    <2>2. \A i : i \in Believing(w, c, a, s) <=>
                     /\ i \in D /\ IsMembership(list[i].relation)
                     /\ EdgeHolds(w, c, a, list[i]) /\ Own(w, c, list[i].target, s) # {}
        BY DEF Believing, Memberships, list
    <2>3. \A x : EdgeHolds(w1, c, a, x) <=> EdgeHolds(w, c, a, x)
        BY <1>4 DEF EdgeHolds
    <2>4. \A x : EdgeHolds(w, c, a, x) => x.target \in Entities(w)
        BY DEF EdgeHolds, Present
    <2>5. DOMAIN list1 = D /\ \A i \in D : list1[i] = list[p[i]] /\ p[i] \in D
        BY <1>1, <1>3
    <2>6. ASSUME NEW i \in D
          PROVE  i \in Believing(w1, c, a, s) <=> p[i] \in Believing(w, c, a, s)
        <3>1. EdgeHolds(w, c, a, list[p[i]]) =>
                  Own(w1, c, list[p[i]].target, s) = Own(w, c, list[p[i]].target, s)
            BY <1>5, <2>4
        <3>2. i \in Believing(w1, c, a, s) <=>
                  /\ IsMembership(list[p[i]].relation)
                  /\ EdgeHolds(w1, c, a, list[p[i]]) /\ Own(w1, c, list[p[i]].target, s) # {}
            BY <2>1, <2>5
        <3>3. p[i] \in Believing(w, c, a, s) <=>
                  /\ IsMembership(list[p[i]].relation)
                  /\ EdgeHolds(w, c, a, list[p[i]]) /\ Own(w, c, list[p[i]].target, s) # {}
            BY <2>2, <2>5
        <3> QED
            BY <2>3, <3>1, <3>2, <3>3
    <2>7. \A i : i \in Believing(w1, c, a, s) => i \in D
        BY <2>1, <2>5
    <2> QED
        BY <2>6, <2>7
<1>9. CASE w.entity[a].type = Faction
    <2>1. InheritedBelief(w1, c, a, s) = Ignorance /\ InheritedBelief(w, c, a, s) = Ignorance
        BY <1>1, <1>9 DEF InheritedBelief
    <2> QED
        BY <1>5, <1>6, <2>1 DEF ResolveBelief, w1
<1>10. CASE w.entity[a].type # Faction /\ Believing(w, c, a, s) = {}
    <2>1. Believing(w1, c, a, s) = {}
        BY <1>8, <1>10
    <2>2. InheritedBelief(w1, c, a, s) = Ignorance /\ InheritedBelief(w, c, a, s) = Ignorance
        BY <1>10, <2>1 DEF InheritedBelief, Believing
    <2> QED
        BY <1>5, <1>6, <2>2 DEF ResolveBelief, w1
<1>11. CASE w.entity[a].type # Faction /\ Believing(w, c, a, s) # {}
    <2>1. PICK i \in Believing(w, c, a, s) :
              /\ \A j \in Believing(w, c, a, s) : Stronger(list, i, j)
              /\ InheritedBelief(w, c, a, s) =
                     Belief(OwnBelief(w, c, list[i].target, s).held, "inherited", list[i].target, NoId)
        BY <1>2, <1>11, InheritedIsFirst DEF list
    <2>2. PICK k \in D : p[k] = i
        BY <1>3, <2>1 DEF Believing, Memberships, list
    <2>3. k \in Believing(w1, c, a, s) /\ w1.entity[a].type # Faction
        BY <1>1, <1>8, <1>11, <2>1, <2>2
    <2>4. PICK j \in Believing(w1, c, a, s) :
              /\ \A m \in Believing(w1, c, a, s) : Stronger(list1, j, m)
              /\ InheritedBelief(w1, c, a, s) =
                     Belief(OwnBelief(w1, c, list1[j].target, s).held, "inherited", list1[j].target, NoId)
        BY <1>7, <2>3, InheritedIsFirst DEF list1
    <2>5. j \in D /\ p[j] \in Believing(w, c, a, s) /\ list1[j] = list[p[j]] /\ list1[k] = list[i]
        BY <1>1, <1>8, <2>2, <2>4
    <2>6. list[i].priority = list[p[j]].priority
        <3>1. list[i].priority \in Nat /\ list[p[j]].priority \in Nat
            BY <1>2, <1>3, <2>1, <2>5 DEF Ordered, Believing, Memberships, list
        <3>2. Stronger(list, i, p[j]) /\ Stronger(list1, j, k)
            BY <2>1, <2>3, <2>4, <2>5
        <3> QED
            BY <2>5, <3>1, <3>2 DEF Stronger
    <2>7. OwnBelief(w, c, list[i].target, s).held = OwnBelief(w, c, list[p[j]].target, s).held
        BY <1>11, <2>1, <2>5, <2>6, Disagreement DEF list
    <2>8. list[p[j]].target \in Entities(w)
        BY <2>5 DEF Believing, Memberships, EdgeHolds, Present, list
    <2>9. /\ InheritedBelief(w1, c, a, s).held = InheritedBelief(w, c, a, s).held
          /\ InheritedBelief(w1, c, a, s) # Ignorance /\ InheritedBelief(w, c, a, s) # Ignorance
        BY <1>5, <2>1, <2>4, <2>5, <2>7, <2>8 DEF Belief, Ignorance
    <2> QED
        BY <1>5, <2>9 DEF ResolveBelief, w1
<1> QED
    BY <1>9, <1>10, <1>11

\* Wherever the order of a file's relations decides what its agent believes,
\* the agent has a belief of its own or the validator warned of it.
LEMMA WorldOrder ==
    ASSUME IsWorld(index) PROVE OrderWarned
<1> SUFFICES ASSUME NEW a \in Entities(index), NEW s \in Statements(index),
                    OrderDecides(a, s), ~BelievesItself(index, a, s),
                    ~ConflictWarned(index, a, s)
             PROVE  FALSE
    BY DEF OrderWarned
<1>1. PICK c \in Omniscient :
          /\ Agent(index, c, a)
          /\ \E p \in Bijection(DOMAIN index.entity[a].edges, DOMAIN index.entity[a].edges) :
                 ResolveBelief(Reordered(index, a, p), c, a, s).held # ResolveBelief(index, c, a, s).held
    BY DEF OrderDecides
<1>2. index.entity[a].type # Faction => ~Conflict(index, a, s)
    BY <1>1 DEF Agent, ConflictWarned
<1> QED
    BY <1>1, <1>2, OrderKeeps
-----------------------------------------------------------------------------
(***************************************************************************)
(* The files, and the index with them, stay worlds through every change.   *)
(***************************************************************************)
Typed == IsWorld(files) /\ IsWorld(index)

LEMMA EntityEdited ==
    ASSUME NEW d \in Entity, NEW x \in Conditioned(d) \union Ranked(d) \union Published(d)
    PROVE  x \in Entity
<1>1. /\ d.edges \in Seq(Edge) /\ d.beliefs \in Seq(Claim)
      /\ Valids \subseteq Conditions /\ Priorities \subseteq Nat
    BY ReadingsOK DEF Entity
<1>2. ASSUME NEW v \in Valids PROVE [d EXCEPT !.valid = v] \in Entity
    BY <1>1 DEF Entity
<1>3. ASSUME NEW i \in DOMAIN d.edges, NEW y \in Edge PROVE [d EXCEPT !.edges[i] = y] \in Entity
    <2>1. [d.edges EXCEPT ![i] = y] \in Seq(Edge)
        BY <1>1, <1>3
    <2>2. [d EXCEPT !.edges[i] = y] = [d EXCEPT !.edges = [d.edges EXCEPT ![i] = y]]
        OBVIOUS
    <2> QED
        BY <2>1, <2>2 DEF Entity
<1>4. ASSUME NEW i \in DOMAIN d.beliefs, NEW y \in Claim PROVE [d EXCEPT !.beliefs[i] = y] \in Entity
    <2>1. [d.beliefs EXCEPT ![i] = y] \in Seq(Claim)
        BY <1>1, <1>4
    <2>2. [d EXCEPT !.beliefs[i] = y] = [d EXCEPT !.beliefs = [d.beliefs EXCEPT ![i] = y]]
        OBVIOUS
    <2> QED
        BY <2>1, <2>2 DEF Entity
<1>5. ASSUME NEW i \in DOMAIN d.edges, NEW v \in Valids PROVE [d EXCEPT !.edges[i].valid = v] \in Entity
    <2>1. d.edges[i] \in Edge /\ v \in Conditions
        BY <1>1, <1>5
    <2>2. [d.edges[i] EXCEPT !.valid = v] \in Edge
        BY <2>1 DEF Edge
    <2> QED
        BY <1>3, <1>5, <2>2
<1>6. ASSUME NEW i \in DOMAIN d.beliefs, NEW v \in Valids PROVE [d EXCEPT !.beliefs[i].valid = v] \in Entity
    <2>1. d.beliefs[i] \in Claim /\ v \in Conditions
        BY <1>1, <1>6
    <2>2. [d.beliefs[i] EXCEPT !.valid = v] \in Claim
        BY <2>1 DEF Claim
    <2> QED
        BY <1>4, <1>6, <2>2
<1>7. ASSUME NEW i \in DOMAIN d.edges, NEW p \in Priorities PROVE [d EXCEPT !.edges[i].priority = p] \in Entity
    <2>1. d.edges[i] \in Edge /\ p \in Nat
        BY <1>1, <1>7
    <2>2. [d.edges[i] EXCEPT !.priority = p] \in Edge
        BY <2>1 DEF Edge
    <2> QED
        BY <1>3, <1>7, <2>2
<1>8. ASSUME NEW t \in Statuses PROVE [d EXCEPT !.status = t] \in Entity
    BY <1>8 DEF Entity
<1> QED
    BY <1>2, <1>5, <1>6, <1>7, <1>8 DEF Conditioned, Ranked, Published

LEMMA StatementEdited ==
    ASSUME NEW d \in Statement, NEW x \in Rewritten(d)
    PROVE  x \in Statement
<1>1. Valids \subseteq Conditions
    BY ReadingsOK
<1>2. ASSUME NEW v \in Valids PROVE [d EXCEPT !.valid = v] \in Statement
    BY <1>1 DEF Statement
<1>3. ASSUME NEW t \in Truths, NEW b \in BOOLEAN
      PROVE  [d EXCEPT !.truth = t, !.common = b] \in Statement
    BY DEF Statement
<1> DEFINE S == UNION {{[d EXCEPT !.truth = t, !.common = b] : b \in BOOLEAN} : t \in Truths}
<1>4. ASSUME NEW y \in S PROVE y \in Statement
    <2>1. PICK t \in Truths : \E b \in BOOLEAN : y = [d EXCEPT !.truth = t, !.common = b]
        OBVIOUS
    <2>2. PICK b \in BOOLEAN : y = [d EXCEPT !.truth = t, !.common = b]
        BY <2>1
    <2> QED
        BY <1>3, <2>2
<1>5. Rewritten(d) = {[d EXCEPT !.valid = v] : v \in Valids} \union S
    BY DEF Rewritten
<1> HIDE DEF S
<1> QED
    BY <1>2, <1>4, <1>5

LEMMA TypedStep == Typed /\ [Next]_vars => Typed'
<1> SUFFICES ASSUME Typed, [Next]_vars PROVE Typed'
    OBVIOUS
<1>1. /\ files \in [entity : [Entities(files) -> Entity], statement : [Statements(files) -> Statement]]
      /\ files.entity \in [Entities(files) -> Entity] /\ files.statement \in [Statements(files) -> Statement]
      /\ Entities(files) \subseteq Ids /\ Statements(files) \subseteq StmtIds
    BY DEF Typed, IsWorld
<1>2. ASSUME NEW STATE w, IsWorld(w), Change(w) PROVE Typed'
    BY <1>2 DEF Typed, Change, Loaded
<1>3. ASSUME NEW f, NEW D \in SUBSET Ids, f \in [D -> Entity]
      PROVE  IsWorld([files EXCEPT !.entity = f])
    <2> DEFINE w == [files EXCEPT !.entity = f]
    <2>1. w.entity = f /\ w.statement = files.statement /\ w \in [entity : {f}, statement : {files.statement}]
        BY <1>1
    <2> HIDE DEF w
    <2>2. Entities(w) = D /\ Statements(w) = Statements(files)
        BY <1>3, <2>1 DEF Entities, Statements
    <2>3. IsWorld(w)
        BY <1>1, <1>3, <2>1, <2>2 DEF IsWorld
    <2> QED
        BY <2>3 DEF w
<1>4. ASSUME NEW e \in Entities(files), EditEntity(e) PROVE Typed'
    <2>1. PICK d \in Conditioned(files.entity[e]) \union Ranked(files.entity[e]) \union Published(files.entity[e]) :
              Change([files EXCEPT !.entity[e] = d])
        BY <1>4 DEF EditEntity
    <2>2. d \in Entity
        BY <1>1, <2>1, EntityEdited
    <2>3. [files.entity EXCEPT ![e] = d] \in [Entities(files) -> Entity]
        BY <1>1, <2>2
    <2>4. [files EXCEPT !.entity[e] = d] = [files EXCEPT !.entity = [files.entity EXCEPT ![e] = d]]
        OBVIOUS
    <2>5. IsWorld([files EXCEPT !.entity[e] = d])
        BY <1>1, <1>3, <2>3, <2>4
    <2> QED
        BY <1>2, <2>1, <2>5
<1>5. ASSUME NEW e \in Entities(files), DeleteEntity(e) PROVE Typed'
    <2> DEFINE f == [x \in Entities(files) \ {e} |-> files.entity[x]]
    <2>1. f \in [Entities(files) \ {e} -> Entity] /\ Entities(files) \ {e} \in SUBSET Ids
        BY <1>1
    <2>2. IsWorld([files EXCEPT !.entity = f])
        BY <1>3, <2>1
    <2> QED
        BY <1>2, <1>5, <2>2 DEF DeleteEntity
<1>6. ASSUME NEW s \in Statements(files), EditStatement(s) PROVE Typed'
    <2>1. PICK d \in Rewritten(files.statement[s]) : Change([files EXCEPT !.statement[s] = d])
        BY <1>6 DEF EditStatement
    <2>2. d \in Statement
        BY <1>1, <2>1, StatementEdited
    <2> DEFINE w == [files EXCEPT !.statement[s] = d]
    <2>3. /\ w.entity = files.entity /\ w.statement = [files.statement EXCEPT ![s] = d]
          /\ w \in [entity : {files.entity}, statement : {[files.statement EXCEPT ![s] = d]}]
        BY <1>1
    <2> HIDE DEF w
    <2>4. w.statement \in [Statements(files) -> Statement]
        BY <1>1, <2>2, <2>3
    <2>5. Entities(w) = Entities(files) /\ Statements(w) = Statements(files)
        BY <1>1, <2>3, <2>4 DEF Entities, Statements
    <2>6. IsWorld(w)
        BY <1>1, <2>3, <2>4, <2>5 DEF IsWorld
    <2> QED
        BY <1>2, <2>1, <2>6 DEF w
<1>7. CASE UNCHANGED vars
    BY <1>7 DEF vars, Typed
<1> QED
    BY <1>4, <1>5, <1>6, <1>7 DEF Next

LEMMA TypedInit == Init => Typed
BY ReadingsOK DEF Init, Typed

\* Wherever the order in which a file lists its relations decides what an agent
\* believes, in any world and under any context, the agent has a belief of its
\* own or the validator warned (warnInheritedConflicts, Resolver.memberships).
THEOREM OrderAlways == Spec => []OrderWarned
<1>1. Typed => OrderWarned
    BY WorldOrder DEF Typed
<1> QED
    BY TypedInit, TypedStep, <1>1, PTL DEF Spec
-----------------------------------------------------------------------------
(***************************************************************************)
(* Two contexts with the same facts.                                       *)
(***************************************************************************)

\* What is among the facts, by kind.
LEMMA FactKinds ==
    ASSUME NEW w, NEW c
    PROVE  /\ \A s, t : <<"statement", s, t>> \in Facts(w, c) <=>
                  s \in PresentStatements(w, c) /\ t = w.statement[s].truth
           /\ \A a, s, v : <<"belief", a, s, v>> \in Facts(w, c) <=>
                  /\ a \in PresentAgents(w, c) /\ s \in PresentStatements(w, c)
                  /\ Own(w, c, a, s) # {} /\ v = OwnBelief(w, c, a, s).held
           /\ \A a, r, t, p : <<"edge", a, r, t, p>> \in Facts(w, c) <=>
                  /\ a \in Entities(w)
                  /\ \E x \in Range(w.entity[a].edges) :
                         /\ EdgeHolds(w, c, a, x)
                         /\ x.relation = r /\ x.target = t /\ x.priority = p
           /\ \A e : <<"entity", e>> \in Facts(w, c) <=> e \in PresentIds(w, c)
<1>1. \A x \in EdgeFacts(w, c) : x[1] = "edge"
    BY DEF EdgeFacts
<1>2. \A x \in BeliefFacts(w, c) : x[1] = "belief"
    BY DEF BeliefFacts
<1>3. \A x \in AssertionFacts(w, c) : x[1] = "assertion"
    BY DEF AssertionFacts
<1>4. \A x \in StoryFacts(w, c) :
          \/ x[1] = "entity" /\ \E e \in PresentIds(w, c) : x = <<"entity", e>>
          \/ /\ x[1] = "statement"
             /\ \E s \in PresentStatements(w, c) : x = <<"statement", s, w.statement[s].truth>>
    BY DEF StoryFacts
<1>5. \A x : x \in Facts(w, c) <=>
          x \in StoryFacts(w, c) \/ x \in EdgeFacts(w, c) \/ x \in BeliefFacts(w, c) \/ x \in AssertionFacts(w, c)
    BY DEF Facts
<1>6. ASSUME NEW s, NEW t
      PROVE  <<"statement", s, t>> \in Facts(w, c) <=>
                 s \in PresentStatements(w, c) /\ t = w.statement[s].truth
    <2> DEFINE x == <<"statement", s, t>>
    <2>1. x[1] = "statement"
        OBVIOUS
    <2>2. x \in Facts(w, c) <=> x \in StoryFacts(w, c)
        BY <1>1, <1>2, <1>3, <1>5, <2>1
    <2>3. x \in StoryFacts(w, c) => s \in PresentStatements(w, c) /\ t = w.statement[s].truth
        BY <1>4, <2>1
    <2>4. s \in PresentStatements(w, c) /\ t = w.statement[s].truth => x \in StoryFacts(w, c)
        BY DEF StoryFacts
    <2> QED
        BY <2>2, <2>3, <2>4
<1>7. ASSUME NEW a, NEW s, NEW v
      PROVE  <<"belief", a, s, v>> \in Facts(w, c) <=>
                 /\ a \in PresentAgents(w, c) /\ s \in PresentStatements(w, c)
                 /\ Own(w, c, a, s) # {} /\ v = OwnBelief(w, c, a, s).held
    <2> DEFINE x == <<"belief", a, s, v>>
    <2>1. x[1] = "belief"
        OBVIOUS
    <2>2. x \in Facts(w, c) <=> x \in BeliefFacts(w, c)
        BY <1>1, <1>3, <1>4, <1>5, <2>1
    <2>3. x \in BeliefFacts(w, c) <=>
              \E b \in PresentAgents(w, c) : \E t \in PresentStatements(w, c) :
                  Own(w, c, b, t) # {} /\ x = <<"belief", b, t, OwnBelief(w, c, b, t).held>>
        BY DEF BeliefFacts
    <2> QED
        BY <2>2, <2>3
<1>8. ASSUME NEW a, NEW r, NEW t, NEW p
      PROVE  <<"edge", a, r, t, p>> \in Facts(w, c) <=>
                 /\ a \in Entities(w)
                 /\ \E x \in Range(w.entity[a].edges) :
                        /\ EdgeHolds(w, c, a, x)
                        /\ x.relation = r /\ x.target = t /\ x.priority = p
    <2> DEFINE f == <<"edge", a, r, t, p>>
    <2>1. f[1] = "edge"
        OBVIOUS
    <2>2. f \in Facts(w, c) <=> f \in EdgeFacts(w, c)
        BY <1>2, <1>3, <1>4, <1>5, <2>1
    <2>3. f \in EdgeFacts(w, c) <=>
              \E b \in Entities(w) : \E x \in Range(w.entity[b].edges) :
                  EdgeHolds(w, c, b, x) /\ f = <<"edge", b, x.relation, x.target, x.priority>>
        BY DEF EdgeFacts
    <2> QED
        BY <2>2, <2>3
<1>9. ASSUME NEW e PROVE <<"entity", e>> \in Facts(w, c) <=> e \in PresentIds(w, c)
    <2> DEFINE x == <<"entity", e>>
    <2>1. x[1] = "entity"
        OBVIOUS
    <2>2. x \in Facts(w, c) <=> x \in StoryFacts(w, c)
        BY <1>1, <1>2, <1>3, <1>5, <2>1
    <2>3. x \in StoryFacts(w, c) => e \in PresentIds(w, c)
        BY <1>4, <2>1
    <2>4. e \in PresentIds(w, c) => x \in StoryFacts(w, c)
        BY DEF StoryFacts
    <2> QED
        BY <2>2, <2>3, <2>4
<1> QED
    BY <1>6, <1>7, <1>8, <1>9

\* The same facts tell of the same agents, statements and beliefs of their own.
LEMMA OwnTold ==
    ASSUME NEW w, NEW c, NEW d, Facts(w, c) = Facts(w, d),
           NEW a \in PresentAgents(w, c), NEW s \in PresentStatements(w, c)
    PROVE  /\ a \in PresentAgents(w, d) /\ s \in PresentStatements(w, d)
           /\ Own(w, c, a, s) # {} <=> Own(w, d, a, s) # {}
           /\ OwnBelief(w, c, a, s).held = OwnBelief(w, d, a, s).held
<1>1. a \in PresentIds(w, d) /\ s \in PresentStatements(w, d)
    <2>1. <<"entity", a>> \in Facts(w, d) /\ <<"statement", s, w.statement[s].truth>> \in Facts(w, d)
        BY FactKinds DEF PresentAgents, Agent, PresentIds, Present
    <2> QED
        BY <2>1, FactKinds
<1>2. a \in PresentAgents(w, d)
    BY <1>1 DEF PresentAgents, Agent, PresentIds
<1>3. CASE Own(w, c, a, s) # {} \/ Own(w, d, a, s) # {}
    <2> DEFINE v == IF Own(w, c, a, s) # {} THEN OwnBelief(w, c, a, s).held ELSE OwnBelief(w, d, a, s).held
    <2>1. <<"belief", a, s, v>> \in Facts(w, c) /\ <<"belief", a, s, v>> \in Facts(w, d)
        BY <1>1, <1>2, <1>3, FactKinds
    <2> QED
        BY <1>1, <1>2, <2>1, FactKinds
<1>4. CASE Own(w, c, a, s) = {} /\ Own(w, d, a, s) = {}
    BY <1>1, <1>2, <1>4 DEF OwnBelief
<1> QED
    BY <1>1, <1>2, <1>3, <1>4

\* And of the same memberships, by their factions and priorities.
LEMMA MembershipTold ==
    ASSUME NEW w, NEW c, NEW d, Facts(w, c) = Facts(w, d),
           NEW a \in PresentAgents(w, c), NEW s \in PresentStatements(w, c), ~OfNoAgent(w, a, s),
           NEW i \in Believing(w, c, a, s)
    PROVE  /\ \E j \in Believing(w, d, a, s) :
                  /\ w.entity[a].edges[j].target = w.entity[a].edges[i].target
                  /\ w.entity[a].edges[j].priority = w.entity[a].edges[i].priority
           /\ w.entity[a].edges[i].target \in PresentAgents(w, c)
<1> DEFINE list == w.entity[a].edges
           faction == list[i].target
           f == <<"edge", a, list[i].relation, faction, list[i].priority>>
<1>1. /\ a \in Entities(w) /\ i \in DOMAIN list /\ IsMembership(list[i].relation)
      /\ EdgeHolds(w, c, a, list[i]) /\ Own(w, c, faction, s) # {}
    BY DEF Believing, Memberships, PresentAgents
<1>2. list[i] \in Range(list)
    BY <1>1 DEF Range
<1>3. faction \in PresentAgents(w, c)
    <2>1. BelievesItself(w, faction, s)
        BY <1>1 DEF Own, BelievesItself, Range
    <2>2. w.entity[faction].type \in Agents
        BY <1>1, <1>2, <2>1 DEF OfNoAgent
    <2> QED
        BY <1>1, <2>2 DEF EdgeHolds, PresentAgents, Agent, Present
<1>4. f \in Facts(w, d)
    BY <1>1, <1>2, FactKinds
<1>5. PICK x \in Range(list) :
          /\ EdgeHolds(w, d, a, x)
          /\ x.relation = list[i].relation /\ x.target = faction /\ x.priority = list[i].priority
    BY <1>4, FactKinds
<1>6. PICK j \in DOMAIN list : list[j] = x
    BY DEF Range
<1>7. Own(w, d, faction, s) # {}
    BY <1>1, <1>3, OwnTold
<1>8. j \in Believing(w, d, a, s)
    BY <1>1, <1>5, <1>6, <1>7 DEF Believing, Memberships
<1> QED
    BY <1>3, <1>5, <1>6, <1>8

LEMMA OwnIsKnown ==
    ASSUME NEW w, NEW c, NEW a, NEW s, Own(w, c, a, s) # {}
    PROVE  OwnBelief(w, c, a, s) # Ignorance
<1>1. OwnBelief(w, c, a, s).source = "explicit"
    BY DEF OwnBelief, Belief
<1> QED
    BY <1>1 DEF Ignorance, Belief

\* Where two contexts have the same facts, every mind is the same in both.
LEMMA MindsTold ==
    ASSUME NEW w, IsWorld(w), NEW c, NEW d, Facts(w, c) = Facts(w, d),
           NEW a \in PresentAgents(w, c), NEW s \in PresentStatements(w, c),
           ~Conflict(w, a, s), ~OfNoAgent(w, a, s)
    PROVE  ResolveBelief(w, c, a, s).held = ResolveBelief(w, d, a, s).held
<1> DEFINE list == w.entity[a].edges
           Held(k, x) == OwnBelief(w, x, list[k].target, s).held
<1>1. /\ a \in Entities(w) /\ a \in PresentAgents(w, d) /\ s \in PresentStatements(w, d)
      /\ Own(w, c, a, s) # {} <=> Own(w, d, a, s) # {}
      /\ OwnBelief(w, c, a, s).held = OwnBelief(w, d, a, s).held
    BY OwnTold DEF PresentAgents
<1>2. Ordered(list)
    BY <1>1, FileOrdered
<1>3. CASE Own(w, c, a, s) # {}
    <2>1. Own(w, d, a, s) # {}
        BY <1>1, <1>3
    <2>2. OwnBelief(w, c, a, s) # Ignorance /\ OwnBelief(w, d, a, s) # Ignorance
        BY <1>1, <1>3, <2>1, OwnIsKnown
    <2> QED
        BY <1>1, <2>2 DEF ResolveBelief
<1>4. CASE Own(w, c, a, s) = {}
    <2>1. OwnBelief(w, c, a, s) = Ignorance /\ OwnBelief(w, d, a, s) = Ignorance
        BY <1>1, <1>4 DEF OwnBelief
    <2>2. CASE w.entity[a].type = Faction
        BY <2>1, <2>2 DEF InheritedBelief, ResolveBelief
    <2>3. CASE Believing(w, c, a, s) = {} /\ Believing(w, d, a, s) = {}
        BY <2>1, <2>3 DEF InheritedBelief, ResolveBelief, Believing
    <2>4. CASE /\ w.entity[a].type # Faction
               /\ Believing(w, c, a, s) # {} \/ Believing(w, d, a, s) # {}
        <3>1. Believing(w, c, a, s) # {} /\ Believing(w, d, a, s) # {}
            BY <1>1, <2>4, MembershipTold
        <3>2. PICK i \in Believing(w, c, a, s) :
                  /\ \A m \in Believing(w, c, a, s) : Stronger(list, i, m)
                  /\ InheritedBelief(w, c, a, s) =
                         Belief(Held(i, c), "inherited", list[i].target, NoId)
            BY <1>2, <2>4, <3>1, InheritedIsFirst
        <3>3. PICK j \in Believing(w, d, a, s) :
                  /\ \A m \in Believing(w, d, a, s) : Stronger(list, j, m)
                  /\ InheritedBelief(w, d, a, s) =
                         Belief(Held(j, d), "inherited", list[j].target, NoId)
            BY <1>2, <2>4, <3>1, InheritedIsFirst
        <3>4. PICK i2 \in Believing(w, d, a, s) :
                  list[i2].target = list[i].target /\ list[i2].priority = list[i].priority
            BY MembershipTold
        <3>5. PICK j2 \in Believing(w, c, a, s) :
                  list[j2].target = list[j].target /\ list[j2].priority = list[j].priority
            BY <1>1, MembershipTold
        <3>6. list[i].priority = list[j2].priority
            <4>1. list[i].priority \in Nat /\ list[j].priority \in Nat
                BY <1>2 DEF Ordered, Believing, Memberships
            <4>2. Stronger(list, i, j2) /\ Stronger(list, j, i2)
                BY <3>2, <3>3
            <4> QED
                BY <3>4, <3>5, <4>1, <4>2 DEF Stronger
        <3>7. Held(i, c) = Held(j2, c)
            BY <1>1, <3>6, Disagreement
        <3>8. list[j2].target \in PresentAgents(w, c)
            BY MembershipTold
        <3>9. Held(j2, c) = Held(j2, d)
            BY <3>8, OwnTold
        <3>10. Held(i, c) = Held(j, d)
            BY <3>5, <3>7, <3>9
        <3> HIDE DEF Held
        <3>11. /\ InheritedBelief(w, c, a, s).held = InheritedBelief(w, d, a, s).held
               /\ InheritedBelief(w, c, a, s) # Ignorance /\ InheritedBelief(w, d, a, s) # Ignorance
            BY <3>2, <3>3, <3>10 DEF Belief, Ignorance
        <3> QED
            BY <2>1, <3>11 DEF ResolveBelief
    <2> QED
        BY <2>2, <2>3, <2>4
<1> QED
    BY <1>3, <1>4

\* Where two worldlines show the same facts every mind is the same, in any
\* world of any pack, but where two factions of an agent disagree with no
\* priority between them, or it inherits from what is no agent
\* (Resolver.facts, Fact).
THEOREM DiffAlways == Spec => []DiffTellsMinds
<1>1. Typed => DiffTellsMinds
    <2> SUFFICES ASSUME Typed, NEW c \in Omniscient, NEW d \in Omniscient,
                        Facts(index, c) = Facts(index, d),
                        NEW a \in PresentAgents(index, c), NEW s \in PresentStatements(index, c),
                        ~Conflict(index, a, s), ~OfNoAgent(index, a, s)
                 PROVE  ResolveBelief(index, c, a, s).held = ResolveBelief(index, d, a, s).held
        BY DEF DiffTellsMinds, MindTold
    <2> QED
        BY MindsTold DEF Typed
<1> QED
    BY TypedInit, TypedStep, <1>1, PTL DEF Spec
-----------------------------------------------------------------------------
(***************************************************************************)
(* Expand.  One round follows the edges of the frontier alone, and yet the *)
(* edges of all it has seen are found.                                     *)
(***************************************************************************)
Start(root) == [seen |-> {root}, frontier |-> {root}, edges |-> {}]

Round(w, c, last) ==
    LET found == EdgesAt(w, c, last.frontier)
    IN  [seen |-> last.seen \union Ends(found),
         frontier |-> Ends(found) \ last.seen,
         edges |-> last.edges \union found]

\* The function that Walk defines by itself exists, so that its rounds follow.
LEMMA WalkRounds ==
    ASSUME NEW w, NEW c, NEW root, NEW N \in {1, 2, 3}
    PROVE  \E f : /\ Walk(w, c, root, N) = f[N] /\ f[0] = Start(root)
                  /\ \A n \in 1..N : f[n] = Round(w, c, f[n - 1])
<1> DEFINE Body(f) == [n \in 0..N |-> IF n = 0 THEN Start(root) ELSE Round(w, c, f[n - 1])]
           S1 == Round(w, c, Start(root))
           S2 == Round(w, c, S1)
           S3 == Round(w, c, S2)
           g == [n \in 0..N |-> IF n = 0 THEN Start(root) ELSE IF n = 1 THEN S1
                                ELSE IF n = 2 THEN S2 ELSE S3]
           after == CHOOSE f : f = Body(f)
<1>1. g = Body(g)
    <2>1. ASSUME NEW n \in 0..N PROVE g[n] = Body(g)[n]
        <3>1. n \in {0, 1, 2, 3}
            OBVIOUS
        <3> QED
            BY <2>1, <3>1
    <2>2. DOMAIN g = 0..N /\ DOMAIN Body(g) = 0..N
        OBVIOUS
    <2>3. g = [n \in 0..N |-> g[n]] /\ Body(g) = [n \in 0..N |-> Body(g)[n]]
        OBVIOUS
    <2> HIDE DEF g, Body
    <2> QED
        BY <2>1, <2>2, <2>3
<1>2. after = Body(after)
    BY <1>1
<1>3. Walk(w, c, root, N) = after[N]
    BY DEF Walk, Start, Round
<1> HIDE DEF after
<1>4. after[0] = Start(root) /\ \A n \in 1..N : after[n] = Round(w, c, after[n - 1])
    BY <1>2
<1> QED
    BY <1>3, <1>4

LEMMA EdgesSplit ==
    ASSUME NEW w, NEW c, NEW A, NEW B
    PROVE  EdgesAt(w, c, A \union B) = EdgesAt(w, c, A) \union EdgesAt(w, c, B)
BY DEF EdgesAt

LEMMA EndsSplit ==
    ASSUME NEW A, NEW B
    PROVE  Ends(A \union B) = Ends(A) \union Ends(B)
BY DEF Ends

\* A state of the walk after one round or more: the edges are those of all that
\* was seen but the frontier, and the frontier is what they added.
Walked(w, c, last, before) ==
    /\ last.edges = EdgesAt(w, c, before)
    /\ last.seen = before \union Ends(last.edges)
    /\ last.frontier = last.seen \ before

LEMMA RoundWalks ==
    ASSUME NEW w, NEW c, NEW last, NEW before, Walked(w, c, last, before)
    PROVE  Walked(w, c, Round(w, c, last), last.seen)
<1> DEFINE found == EdgesAt(w, c, last.frontier)
           next == Round(w, c, last)
<1>1. /\ next.seen = last.seen \union Ends(found)
      /\ next.frontier = Ends(found) \ last.seen
      /\ next.edges = last.edges \union found
    BY DEF Round
<1>2. last.seen = before \union last.frontier
    BY DEF Walked
<1>3. next.edges = EdgesAt(w, c, last.seen)
    BY <1>1, <1>2, EdgesSplit DEF Walked
<1>4. Ends(next.edges) = Ends(last.edges) \union Ends(found)
    BY <1>1, EndsSplit
<1>5. Ends(last.edges) \subseteq last.seen
    BY DEF Walked
<1> HIDE DEF found, next
<1>6. next.seen = last.seen \union Ends(next.edges)
    BY <1>1, <1>4, <1>5
<1>7. next.frontier = next.seen \ last.seen
    BY <1>1
<1>8. Walked(w, c, next, last.seen)
    BY <1>3, <1>6, <1>7 DEF Walked
<1> QED
    BY <1>8 DEF next

LEMMA FirstRound ==
    ASSUME NEW w, NEW c, NEW root
    PROVE  LET first == Round(w, c, Start(root))
           IN  /\ first.edges = EdgesAt(w, c, {root})
               /\ first.seen = {root} \union Ends(first.edges)
               /\ first.frontier = first.seen \ {root}
BY DEF Round, Start

\* The ends of an entity's edges are those that Entity shows.
LEMMA EdgesShown ==
    ASSUME NEW w, NEW c, NEW e \in Entities(w)
    PROVE  {e} \union Ends(EdgesAt(w, c, {e})) =
               {e} \union {x[3] : x \in EdgesOut(w, c, e) \union EdgesIn(w, c, e)}
<1>1. \A x : x \in Ends(EdgesAt(w, c, {e})) <=>
          \E f \in Entities(w) : \E y \in Range(w.entity[f].edges) :
              EdgeHolds(w, c, f, y) /\ (f = e \/ y.target = e) /\ (x = f \/ x = y.target)
    <2>1. ASSUME NEW F, NEW t
          PROVE  t \in EdgesAt(w, c, F) <=>
                     \E f \in Entities(w) : \E y \in Range(w.entity[f].edges) :
                         /\ EdgeHolds(w, c, f, y) /\ {f, y.target} \intersect F # {}
                         /\ t = <<f, y.relation, y.target>>
        BY DEF EdgesAt
    <2>2. \A f, t : {f, t} \intersect {e} # {} <=> f = e \/ t = e
        OBVIOUS
    <2>3. \A E, x : x \in Ends(E) <=> \E t \in E : x = t[1] \/ x = t[3]
        BY DEF Ends
    <2> DEFINE E == EdgesAt(w, c, {e})
               At(f, y) == EdgeHolds(w, c, f, y) /\ (f = e \/ y.target = e)
    <2>4. \A t : t \in E <=>
              \E f \in Entities(w) : \E y \in Range(w.entity[f].edges) :
                  At(f, y) /\ t = <<f, y.relation, y.target>>
        BY <2>1, <2>2
    <2>5. \A f, r, t : <<f, r, t>>[1] = f /\ <<f, r, t>>[3] = t
        OBVIOUS
    <2> HIDE DEF E, At
    <2>6. ASSUME NEW x
          PROVE  x \in Ends(E) <=>
                     \E f \in Entities(w) : \E y \in Range(w.entity[f].edges) :
                         At(f, y) /\ (x = f \/ x = y.target)
        <3>1. ASSUME x \in Ends(E)
              PROVE  \E f \in Entities(w) : \E y \in Range(w.entity[f].edges) :
                         At(f, y) /\ (x = f \/ x = y.target)
            <4>1. PICK t \in E : x = t[1] \/ x = t[3]
                BY <2>3, <3>1
            <4>2. PICK f \in Entities(w) : \E y \in Range(w.entity[f].edges) :
                      At(f, y) /\ t = <<f, y.relation, y.target>>
                BY <2>4
            <4> QED
                BY <2>5, <4>1, <4>2
        <3>2. ASSUME NEW f \in Entities(w), NEW y \in Range(w.entity[f].edges),
                     At(f, y), x = f \/ x = y.target
              PROVE  x \in Ends(E)
            <4>1. <<f, y.relation, y.target>> \in E
                BY <2>4, <3>2
            <4> QED
                BY <2>3, <2>5, <3>2, <4>1
        <3> QED
            BY <3>1, <3>2
    <2> QED
        BY <2>6 DEF E, At
<1>2. \A x : x \in {z[3] : z \in EdgesOut(w, c, e)} <=>
          \E y \in Range(w.entity[e].edges) : EdgeHolds(w, c, e, y) /\ x = y.target
    <2> DEFINE shown(y) == <<y.relation, "out", y.target, y.priority>>
    <2>1. \A y : shown(y)[3] = y.target
        OBVIOUS
    <2>2. \A z : z \in EdgesOut(w, c, e) <=>
              \E y \in Range(w.entity[e].edges) : EdgeHolds(w, c, e, y) /\ z = shown(y)
        BY DEF EdgesOut
    <2> HIDE DEF shown
    <2> DEFINE Out == EdgesOut(w, c, e)
               At(y) == EdgeHolds(w, c, e, y)
    <2>3. \A z : z \in Out <=> \E y \in Range(w.entity[e].edges) : At(y) /\ z = shown(y)
        BY <2>2
    <2> HIDE DEF Out, At
    <2>4. ASSUME NEW x
          PROVE  x \in {z[3] : z \in Out} <=>
                     \E y \in Range(w.entity[e].edges) : At(y) /\ x = y.target
        <3>1. ASSUME x \in {z[3] : z \in Out}
              PROVE  \E y \in Range(w.entity[e].edges) : At(y) /\ x = y.target
            <4>1. PICK z \in Out : x = z[3]
                BY <3>1
            <4>2. PICK y \in Range(w.entity[e].edges) : At(y) /\ z = shown(y)
                BY <2>3
            <4>3. z[3] = y.target
                BY <2>1, <4>2
            <4> QED
                BY <4>1, <4>2, <4>3
        <3>2. ASSUME NEW y \in Range(w.entity[e].edges), At(y), x = y.target
              PROVE  x \in {z[3] : z \in Out}
            <4>1. shown(y) \in Out
                BY <2>3, <3>2
            <4>2. x = shown(y)[3]
                BY <2>1, <3>2
            <4> QED
                BY <4>1, <4>2
        <3> QED
            BY <3>1, <3>2
    <2> QED
        BY <2>4 DEF Out, At
<1>3. ASSUME NEW r, NEW f, NEW p PROVE (SeenFromTarget(r) \o <<f, p>>)[3] = f
    <2>1. ASSUME NEW a, NEW b PROVE (<<a, b>> \o <<f, p>>)[3] = f
        OBVIOUS
    <2>2. \E a, b : SeenFromTarget(r) = <<a, b>>
        <3>1. CASE Relations[r].symmetric
            BY <3>1 DEF SeenFromTarget
        <3>2. CASE ~Relations[r].symmetric
            BY <3>2 DEF SeenFromTarget
        <3> QED
            BY <3>1, <3>2
    <2> QED
        BY <2>1, <2>2
<1>4. \A x : x \in {z[3] : z \in EdgesIn(w, c, e)} <=>
          \E f \in Entities(w) : \E y \in Range(w.entity[f].edges) :
              y.target = e /\ EdgeHolds(w, c, f, y) /\ x = f
    <2> DEFINE seen(f, y) == SeenFromTarget(y.relation) \o <<f, y.priority>>
    <2>1. \A f, y : seen(f, y)[3] = f
        BY <1>3
    <2>2. EdgesIn(w, c, e) =
              UNION {{seen(f, x) : x \in {y \in Range(w.entity[f].edges) : y.target = e /\ EdgeHolds(w, c, f, y)}} :
                     f \in Entities(w)}
        BY DEF EdgesIn
    <2> HIDE DEF seen
    <2>3. \A z : z \in EdgesIn(w, c, e) <=>
              \E f \in Entities(w) : \E y \in Range(w.entity[f].edges) :
                  y.target = e /\ EdgeHolds(w, c, f, y) /\ z = seen(f, y)
        BY <2>2
    <2> QED
        BY <2>1, <2>3
<1> DEFINE Met == Ends(EdgesAt(w, c, {e}))
           Out == {z[3] : z \in EdgesOut(w, c, e)}
           In == {z[3] : z \in EdgesIn(w, c, e)}
           At(f, y) == EdgeHolds(w, c, f, y)
           Edges(f) == Range(w.entity[f].edges)
<1>7. \A x : x \in Met <=> \E f \in Entities(w) : \E y \in Edges(f) :
                 At(f, y) /\ (f = e \/ y.target = e) /\ (x = f \/ x = y.target)
    BY <1>1
<1>8. \A x : x \in Out <=> \E y \in Edges(e) : At(e, y) /\ x = y.target
    BY <1>2
<1>9. \A x : x \in In <=> \E f \in Entities(w) : \E y \in Edges(f) : y.target = e /\ At(f, y) /\ x = f
    BY <1>4
<1> HIDE DEF Met, Out, In, At, Edges
<1>5. {e} \union Met = {e} \union Out \union In
    <2>1. ASSUME NEW x \in Met
          PROVE  x \in {e} \union Out \union In
        <3>1. PICK f \in Entities(w) : \E y \in Edges(f) :
                  At(f, y) /\ (f = e \/ y.target = e) /\ (x = f \/ x = y.target)
            BY <1>7
        <3>2. PICK y \in Edges(f) : At(f, y) /\ (f = e \/ y.target = e) /\ (x = f \/ x = y.target)
            BY <3>1
        <3>3. CASE f = e
            BY <1>8, <3>2, <3>3
        <3>4. CASE y.target = e
            BY <1>9, <3>2, <3>4
        <3> QED
            BY <3>2, <3>3, <3>4
    <2>2. ASSUME NEW x \in Out PROVE x \in Met
        BY <1>7, <1>8
    <2>3. ASSUME NEW x \in In PROVE x \in Met
        <3>1. PICK f \in Entities(w) : \E y \in Edges(f) : y.target = e /\ At(f, y) /\ x = f
            BY <1>9
        <3> QED
            BY <1>7, <3>1
    <2> QED
        BY <2>1, <2>2, <2>3
<1>6. {z[3] : z \in EdgesOut(w, c, e) \union EdgesIn(w, c, e)} =
          {z[3] : z \in EdgesOut(w, c, e)} \union {z[3] : z \in EdgesIn(w, c, e)}
    OBVIOUS
<1> QED
    BY <1>5, <1>6 DEF Met, Out, In

LEMMA WorldExpand == ExpandExact
<1> SUFFICES ASSUME NEW c \in Omniscient, NEW e \in PresentIds(index, c)
             PROVE  LET read(n) == ExpandRead(index, c, e, n)
                        near == <<read(1), read(2), read(3)>>
                    IN  /\ read(0) = near[1] /\ read(4) = near[3]
                        /\ near[1].nodes = {e} \union {x[3] : x \in EntityRead(index, c, e).edges}
                        /\ \A n \in 1..2 :
                               LET found == EdgesAt(index, c, near[n].nodes)
                               IN  near[n + 1] = [nodes |-> near[n].nodes \union Ends(found), edges |-> found]
    BY DEF ExpandExact
<1> DEFINE read(n) == ExpandRead(index, c, e, n)
           S1 == Round(index, c, Start(e))
           S2 == Round(index, c, S1)
           S3 == Round(index, c, S2)
           Shown(s) == [nodes |-> s.seen, edges |-> s.edges]
<1>1. Checked(index, c) /\ Present(index, c, e) /\ e \in Entities(index)
    BY DEF Omniscient, Contexts, PresentIds
<1>2. /\ Clamp(0) = 1 /\ Clamp(1) = 1 /\ Clamp(2) = 2 /\ Clamp(3) = 3 /\ Clamp(4) = 3
    BY DEF Clamp, MinDepth, MaxDepth
<1>3. /\ Walk(index, c, e, 1) = S1 /\ Walk(index, c, e, 2) = S2 /\ Walk(index, c, e, 3) = S3
    <2>1. ASSUME NEW N \in {1, 2, 3}
          PROVE  Walk(index, c, e, N) = IF N = 1 THEN S1 ELSE IF N = 2 THEN S2 ELSE S3
        <3>1. PICK f : /\ Walk(index, c, e, N) = f[N] /\ f[0] = Start(e)
                       /\ \A n \in 1..N : f[n] = Round(index, c, f[n - 1])
            BY WalkRounds
        <3>2. f[1] = S1
            BY <3>1
        <3>3. N # 1 => f[2] = S2
            BY <3>1, <3>2
        <3>4. N = 3 => f[3] = S3
            BY <3>1, <3>3
        <3> QED
            BY <3>1, <3>2, <3>3, <3>4
    <2> QED
        BY <2>1
<1>4. /\ Walked(index, c, S1, {e}) /\ Walked(index, c, S2, S1.seen) /\ Walked(index, c, S3, S2.seen)
    <2>1. Walked(index, c, S1, {e})
        BY FirstRound DEF Walked
    <2>2. Walked(index, c, S2, S1.seen)
        BY <2>1, RoundWalks
    <2> QED
        BY <2>1, <2>2, RoundWalks
<1> HIDE DEF S1, S2, S3
<1>5. /\ read(0) = Shown(S1) /\ read(1) = Shown(S1) /\ read(2) = Shown(S2)
      /\ read(3) = Shown(S3) /\ read(4) = Shown(S3)
    BY <1>1, <1>2, <1>3 DEF ExpandRead
<1>6. S1.seen = {e} \union {x[3] : x \in EntityRead(index, c, e).edges}
    BY <1>1, <1>4, EdgesShown DEF Walked, EntityRead
<1>7. /\ Shown(S2) = [nodes |-> S1.seen \union Ends(EdgesAt(index, c, S1.seen)),
                      edges |-> EdgesAt(index, c, S1.seen)]
      /\ Shown(S3) = [nodes |-> S2.seen \union Ends(EdgesAt(index, c, S2.seen)),
                      edges |-> EdgesAt(index, c, S2.seen)]
    BY <1>4 DEF Walked
<1> HIDE DEF read
<1> DEFINE near == <<read(1), read(2), read(3)>>
<1>8. near[1] = Shown(S1) /\ near[2] = Shown(S2) /\ near[3] = Shown(S3)
    BY <1>5
<1>9. Shown(S1).nodes = S1.seen /\ Shown(S2).nodes = S2.seen
    OBVIOUS
<1> HIDE DEF near, Shown
<1>10. ASSUME NEW n \in 1..2
       PROVE  near[n + 1] = [nodes |-> near[n].nodes \union Ends(EdgesAt(index, c, near[n].nodes)),
                             edges |-> EdgesAt(index, c, near[n].nodes)]
    <2>1. CASE n = 1
        <3>1. near[n + 1] = Shown(S2) /\ near[n].nodes = S1.seen
            BY <1>8, <1>9, <2>1
        <3> QED
            BY <1>7, <3>1
    <2>2. CASE n = 2
        <3>1. near[n + 1] = Shown(S3) /\ near[n].nodes = S2.seen
            BY <1>8, <1>9, <2>2
        <3> QED
            BY <1>7, <3>1
    <2> QED
        BY <2>1, <2>2
<1>11. read(0) = near[1] /\ read(4) = near[3] /\ near[1].nodes = S1.seen
    BY <1>5, <1>8, <1>9
<1> QED
    BY <1>6, <1>10, <1>11 DEF near, read

\* Expand shows every entity within the depth and the edges of those nearer
\* than that, in any world and under any context (Resolver.Expand).
THEOREM ExpandAlways == Spec => []ExpandExact
BY WorldExpand, PTL
-----------------------------------------------------------------------------
(***************************************************************************)
(* Only the story.  Story(w, c) answers as w does under c itself and under *)
(* every worldline d that decides less: each function of the resolver in   *)
(* turn finds in the story what it finds in the world.                     *)
(***************************************************************************)
Left(w, c, d) == /\ IsWorld(w) /\ Extends(c, d) /\ c.omniscient = d.omniscient
                 /\ c.knower = d.knower

LEMMA ToldIsPresent ==
    ASSUME NEW w, NEW c
    PROVE  StatementsTold(w, c) = PresentStatements(w, c)
<1>1. \A e : e \in PresentIds(w, c) <=> Present(w, c, e)
    BY DEF PresentIds, Present
<1> QED
    BY <1>1 DEF StatementsTold, PresentStatements, PresentStatement

\* The fields of an entity and of a statement that the story has.
LEMMA StoryEntity ==
    ASSUME NEW w, IsWorld(w), NEW c, NEW e \in PresentIds(w, c)
    PROVE  LET f == w.entity[e]
               g == Story(w, c).entity[e]
           IN  /\ e \in Entities(Story(w, c)) /\ e \in Entities(w)
               /\ g.type = f.type /\ g.status = f.status
               /\ g.outcomes = f.outcomes /\ g.valid = f.valid
               /\ g.edges = EdgesTold(w, c, f.edges)
               /\ g.beliefs = IF Known(w, c, e) THEN ClaimsTold(w, c, f.beliefs) ELSE <<>>
               /\ g.asserts = IF c.omniscient THEN ClaimsTold(w, c, Heard(w, c, f.asserts)) ELSE <<>>
<1> DEFINE f == w.entity[e]
           g == Story(w, c).entity[e]
           edges == EdgesTold(w, c, f.edges)
           beliefs == IF Known(w, c, e) THEN ClaimsTold(w, c, f.beliefs) ELSE <<>>
           asserts == IF c.omniscient THEN ClaimsTold(w, c, Heard(w, c, f.asserts)) ELSE <<>>
<1>1. e \in Entities(w) /\ f \in Entity
    BY DEF PresentIds, IsWorld, Entities
<1>2. e \in Entities(Story(w, c)) /\ g = [f EXCEPT !.edges = edges, !.beliefs = beliefs, !.asserts = asserts]
    BY DEF Story, Entities
<1>3. DOMAIN f = {"type", "status", "outcomes", "valid", "edges", "beliefs", "asserts"}
    BY <1>1 DEF Entity
<1> HIDE DEF f, g, edges, beliefs, asserts
<1>4. /\ g.type = f.type /\ g.status = f.status /\ g.outcomes = f.outcomes /\ g.valid = f.valid
      /\ g.edges = edges /\ g.beliefs = beliefs /\ g.asserts = asserts
    BY <1>2, <1>3
<1> QED
    BY <1>1, <1>2, <1>4 DEF f, g, edges, beliefs, asserts

LEMMA StoryEntities ==
    ASSUME NEW w, NEW c
    PROVE  /\ Entities(Story(w, c)) = PresentIds(w, c)
           /\ Statements(Story(w, c)) = PresentStatements(w, c)
BY ToldIsPresent DEF Story, Entities, Statements

LEMMA StoryStatement ==
    ASSUME NEW w, IsWorld(w), NEW c, NEW s \in PresentStatements(w, c)
    PROVE  LET f == w.statement[s]
               g == Story(w, c).statement[s]
           IN  /\ g.subject = f.subject /\ g.object = f.object /\ g.relation = f.relation
               /\ g.status = f.status /\ g.valid = f.valid /\ g.common = f.common
               /\ g.truth = IF c.omniscient \/ f.common THEN f.truth ELSE "unresolved"
<1> DEFINE f == w.statement[s]
           g == Story(w, c).statement[s]
           truth == IF c.omniscient \/ f.common THEN f.truth ELSE "unresolved"
<1>1. f \in Statement
    BY DEF PresentStatements, IsWorld, Statements
<1>2. s \in StatementsTold(w, c)
    BY ToldIsPresent
<1>3. g = [f EXCEPT !.truth = truth]
    BY <1>2 DEF Story
<1>4. DOMAIN f = {"subject", "relation", "object", "truth", "common", "status", "valid"}
    BY <1>1 DEF Statement
<1> HIDE DEF f, g, truth
<1>5. /\ g.subject = f.subject /\ g.object = f.object /\ g.relation = f.relation
      /\ g.status = f.status /\ g.valid = f.valid /\ g.common = f.common /\ g.truth = truth
    BY <1>3, <1>4
<1> QED
    BY <1>5 DEF f, g, truth

\* What exists in the world under d exists in the story, and nothing else.
LEMMA SamePresent ==
    ASSUME NEW w, NEW c, NEW d, Left(w, c, d)
    PROVE  \A e : Present(Story(w, c), d, e) <=> Present(w, d, e)
<1> SUFFICES ASSUME NEW e PROVE Present(Story(w, c), d, e) <=> Present(w, d, e)
    OBVIOUS
<1>1. Present(w, d, e) => e \in PresentIds(w, c)
    BY PresentGrows DEF Left, Present, PresentIds
<1>2. Present(Story(w, c), d, e) => e \in PresentIds(w, c)
    BY StoryEntities DEF Present
<1>3. ASSUME e \in PresentIds(w, c)
      PROVE  Present(Story(w, c), d, e) <=> Present(w, d, e)
    <2>1. /\ e \in Entities(Story(w, c)) /\ e \in Entities(w)
          /\ Story(w, c).entity[e].status = w.entity[e].status
          /\ Story(w, c).entity[e].valid = w.entity[e].valid
        BY <1>3, StoryEntity DEF Left
    <2> QED
        BY <2>1 DEF Present
<1> QED
    BY <1>1, <1>2, <1>3

LEMMA SameIds ==
    ASSUME NEW w, NEW c, NEW d, Left(w, c, d)
    PROVE  /\ PresentIds(Story(w, c), d) = PresentIds(w, d)
           /\ PresentIds(w, d) \subseteq PresentIds(w, c)
<1>1. \A e : e \in PresentIds(w, d) <=> Present(w, d, e)
    BY DEF PresentIds, Present
<1>2. \A e : e \in PresentIds(Story(w, c), d) <=> Present(Story(w, c), d, e)
    BY DEF PresentIds, Present
<1>3. \A e : Present(w, d, e) => Present(w, c, e)
    BY PresentGrows DEF Left
<1>4. \A e : Present(w, c, e) => e \in PresentIds(w, c)
    BY DEF PresentIds, Present
<1> QED
    BY <1>1, <1>2, <1>3, <1>4, SamePresent

LEMMA SameStatements ==
    ASSUME NEW w, NEW c, NEW d, Left(w, c, d)
    PROVE  /\ \A s : PresentStatement(Story(w, c), d, s) <=> PresentStatement(w, d, s)
           /\ PresentStatements(Story(w, c), d) = PresentStatements(w, d)
           /\ PresentStatements(w, d) \subseteq PresentStatements(w, c)
<1>1. ASSUME NEW s
      PROVE  PresentStatement(Story(w, c), d, s) <=> PresentStatement(w, d, s)
    <2>1. PresentStatement(w, d, s) => s \in PresentStatements(w, c)
        BY StatementGrows DEF Left, PresentStatement, PresentStatements
    <2>2. PresentStatement(Story(w, c), d, s) => s \in PresentStatements(w, c)
        BY StoryEntities DEF PresentStatement
    <2>3. ASSUME s \in PresentStatements(w, c)
          PROVE  PresentStatement(Story(w, c), d, s) <=> PresentStatement(w, d, s)
        <3>1. /\ s \in Statements(Story(w, c)) /\ s \in Statements(w)
              /\ Story(w, c).statement[s].status = w.statement[s].status
              /\ Story(w, c).statement[s].valid = w.statement[s].valid
              /\ Story(w, c).statement[s].subject = w.statement[s].subject
              /\ Story(w, c).statement[s].object = w.statement[s].object
            BY <2>3, StoryStatement, StoryEntities DEF Left, PresentStatements
        <3> QED
            BY <3>1, SamePresent DEF PresentStatement
    <2> QED
        BY <2>1, <2>2, <2>3
<1>2. \A s : s \in PresentStatements(w, d) <=> PresentStatement(w, d, s)
    BY DEF PresentStatements, PresentStatement
<1>3. \A s : s \in PresentStatements(Story(w, c), d) <=> PresentStatement(Story(w, c), d, s)
    BY DEF PresentStatements, PresentStatement
<1>4. \A s : PresentStatement(w, d, s) => PresentStatement(w, c, s)
    BY StatementGrows DEF Left
<1>5. \A s : PresentStatement(w, c, s) => s \in PresentStatements(w, c)
    BY DEF PresentStatements, PresentStatement
<1> QED
    BY <1>1, <1>2, <1>3, <1>4, <1>5

LEMMA SameChecked ==
    ASSUME NEW w, NEW c, NEW d, Left(w, c, d)
    PROVE  /\ \A a : Agent(Story(w, c), d, a) <=> Agent(w, d, a)
           /\ PresentAgents(Story(w, c), d) = PresentAgents(w, d)
           /\ Checked(Story(w, c), d) <=> Checked(w, d)
<1>1. \A e : Present(w, d, e) => /\ Story(w, c).entity[e].type = w.entity[e].type
                                 /\ Story(w, c).entity[e].outcomes = w.entity[e].outcomes
    <2> SUFFICES ASSUME NEW e, Present(w, d, e)
                 PROVE  /\ Story(w, c).entity[e].type = w.entity[e].type
                        /\ Story(w, c).entity[e].outcomes = w.entity[e].outcomes
        OBVIOUS
    <2>1. e \in PresentIds(w, c)
        BY SameIds DEF PresentIds, Present
    <2> QED
        BY <2>1, StoryEntity DEF Left
<1>2. \A a : Agent(Story(w, c), d, a) <=> Agent(w, d, a)
    BY <1>1, SamePresent DEF Agent
<1>3. \A a : Agent(w, d, a) => a \in Entities(w)
    BY DEF Agent, Present
<1>4. \A a : Agent(Story(w, c), d, a) => a \in Entities(Story(w, c))
    BY DEF Agent, Present
<1>5. PresentAgents(Story(w, c), d) = PresentAgents(w, d)
    BY <1>2, <1>3, <1>4 DEF PresentAgents
<1>6. Checked(Story(w, c), d) <=> Checked(w, d)
    BY <1>1, <1>2, SamePresent DEF Checked
<1> QED
    BY <1>2, <1>5, <1>6
\* The edges that hold, by their places, and the memberships among them.
LEMMA SameEdges ==
    ASSUME NEW w, NEW c, NEW d, Left(w, c, d), NEW e \in PresentIds(w, c)
    PROVE  LET list == w.entity[e].edges
               told == Story(w, c).entity[e].edges
           IN  /\ DOMAIN told \subseteq DOMAIN list
               /\ \A i \in DOMAIN told : told[i] = list[i]
               /\ \A i \in DOMAIN list : EdgeHolds(w, d, e, list[i]) => i \in DOMAIN told
               /\ \A x : EdgeHolds(Story(w, c), d, e, x) <=> EdgeHolds(w, d, e, x)
<1> DEFINE list == w.entity[e].edges
           told == Story(w, c).entity[e].edges
<1>1. told = EdgesTold(w, c, list)
    BY StoryEntity DEF Left
<1>2. \A x : EdgeHolds(Story(w, c), d, e, x) <=> EdgeHolds(w, d, e, x)
    BY SamePresent DEF EdgeHolds
<1> HIDE DEF list, told
<1>3. DOMAIN told = {i \in DOMAIN list : Holds(list[i].valid, c.wl) /\ list[i].target \in PresentIds(w, c)}
    BY <1>1 DEF EdgesTold, Restrict
<1>4. \A i \in DOMAIN told : told[i] = list[i]
    BY <1>1, <1>3 DEF EdgesTold, Restrict
<1>5. ASSUME NEW i \in DOMAIN list, EdgeHolds(w, d, e, list[i])
      PROVE  i \in DOMAIN told
    <2>1. EdgeHolds(w, c, e, list[i])
        BY <1>5, EdgeGrows DEF Left
    <2>2. Holds(list[i].valid, c.wl) /\ list[i].target \in PresentIds(w, c)
        BY <2>1 DEF EdgeHolds, Present, PresentIds
    <2> QED
        BY <1>3, <2>2
<1> QED
    BY <1>2, <1>3, <1>4, <1>5 DEF list, told

Held(w, d, f) == {y \in Range(w.entity[f].edges) : EdgeHolds(w, d, f, y)}

LEMMA SameHeld ==
    ASSUME NEW w, NEW c, NEW d, Left(w, c, d)
    PROVE  /\ \A e \in PresentIds(w, c) : Held(Story(w, c), d, e) = Held(w, d, e)
           /\ \A e, x : x \in Held(w, d, e) => e \in PresentIds(w, c)
<1>1. ASSUME NEW e \in PresentIds(w, c)
      PROVE  Held(Story(w, c), d, e) = Held(w, d, e)
    <2> DEFINE list == w.entity[e].edges
               told == Story(w, c).entity[e].edges
               Is(x) == EdgeHolds(w, d, e, x)
    <2>1. /\ DOMAIN told \subseteq DOMAIN list
          /\ \A i \in DOMAIN told : told[i] = list[i]
          /\ \A i \in DOMAIN list : Is(list[i]) => i \in DOMAIN told
          /\ \A x : EdgeHolds(Story(w, c), d, e, x) <=> Is(x)
        BY SameEdges
    <2>2. \A x : x \in Held(w, d, e) <=> Is(x) /\ \E i \in DOMAIN list : x = list[i]
        BY DEF Held, Range
    <2>3. \A x : x \in Held(Story(w, c), d, e) <=> Is(x) /\ \E i \in DOMAIN told : x = told[i]
        BY <2>1 DEF Held, Range
    <2> HIDE DEF list, told, Is
    <2> QED
        BY <2>1, <2>2, <2>3
<1>2. ASSUME NEW e, NEW x \in Held(w, d, e)
      PROVE  e \in PresentIds(w, c)
    <2>1. Present(w, d, e)
        BY DEF Held, EdgeHolds
    <2> QED
        BY <2>1, SameIds DEF PresentIds, Present
<1> QED
    BY <1>1, <1>2

\* What each read makes of the edges that hold.
LEMMA OutByHeld ==
    ASSUME NEW w, NEW d, NEW e, NEW z
    PROVE  z \in EdgesOut(w, d, e) <=>
               \E y \in Held(w, d, e) : z = <<y.relation, "out", y.target, y.priority>>
BY DEF EdgesOut, Held

LEMMA AtByHeld ==
    ASSUME NEW w, NEW d, NEW F, NEW z
    PROVE  z \in EdgesAt(w, d, F) <=>
               \E f \in Entities(w) : \E y \in Held(w, d, f) :
                   {f, y.target} \intersect F # {} /\ z = <<f, y.relation, y.target>>
BY DEF EdgesAt, Held

LEMMA FactByHeld ==
    ASSUME NEW w, NEW d, NEW z
    PROVE  z \in EdgeFacts(w, d) <=>
               \E f \in Entities(w) : \E y \in Held(w, d, f) :
                   z = <<"edge", f, y.relation, y.target, y.priority>>
BY DEF EdgeFacts, Held

LEMMA SameEdgesRead ==
    ASSUME NEW w, NEW c, NEW d, Left(w, c, d)
    PROVE  LET v == Story(w, c)
           IN  /\ \A e \in PresentIds(w, c) : EdgesOut(v, d, e) = EdgesOut(w, d, e)
               /\ \A e : EdgesIn(v, d, e) = EdgesIn(w, d, e)
               /\ \A F : EdgesAt(v, d, F) = EdgesAt(w, d, F)
               /\ EdgeFacts(v, d) = EdgeFacts(w, d)
<1> DEFINE v == Story(w, c)
           ids == PresentIds(w, c)
<1>1. /\ \A e \in ids : Held(v, d, e) = Held(w, d, e)
      /\ \A e, x : x \in Held(w, d, e) => e \in ids
      /\ Entities(v) = ids /\ ids \subseteq Entities(w)
    BY SameHeld, StoryEntities DEF PresentIds
<1> HIDE DEF v, ids
<1>2. \A f, y : f \in Entities(v) /\ y \in Held(v, d, f) <=> f \in Entities(w) /\ y \in Held(w, d, f)
    BY <1>1
<1>3. ASSUME NEW e \in ids
      PROVE  EdgesOut(v, d, e) = EdgesOut(w, d, e)
    <2>1. \A z : z \in EdgesOut(v, d, e) <=> z \in EdgesOut(w, d, e)
        <3> DEFINE out(y) == <<y.relation, "out", y.target, y.priority>>
        <3>1. ASSUME NEW u, NEW z
              PROVE  z \in EdgesOut(u, d, e) <=> \E y \in Held(u, d, e) : z = out(y)
            BY OutByHeld
        <3> HIDE DEF out
        <3> QED
            BY <1>1, <3>1
    <2> QED
        BY <2>1 DEF EdgesOut
<1>4. ASSUME NEW e
      PROVE  EdgesIn(v, d, e) = EdgesIn(w, d, e)
    <2>1. \A z : z \in EdgesIn(v, d, e) <=> z \in EdgesIn(w, d, e)
        <3> DEFINE in(f, y) == SeenFromTarget(y.relation) \o <<f, y.priority>>
        <3>1. ASSUME NEW u
              PROVE  EdgesIn(u, d, e) =
                         UNION {{in(f, x) : x \in {y \in Range(u.entity[f].edges) :
                                                      y.target = e /\ EdgeHolds(u, d, f, y)}} :
                                f \in Entities(u)}
            BY DEF EdgesIn
        <3> HIDE DEF in
        <3>2. ASSUME NEW u, NEW z
              PROVE  z \in EdgesIn(u, d, e) <=>
                         \E f \in Entities(u) : \E y \in Held(u, d, f) : y.target = e /\ z = in(f, y)
            BY <3>1 DEF Held
        <3> QED
            BY <1>2, <3>2
    <2> QED
        BY <2>1 DEF EdgesIn
<1>5. ASSUME NEW F
      PROVE  EdgesAt(v, d, F) = EdgesAt(w, d, F)
    <2>1. \A z : z \in EdgesAt(v, d, F) <=> z \in EdgesAt(w, d, F)
        <3> DEFINE at(f, y) == <<f, y.relation, y.target>>
                   Met(f, y) == {f, y.target} \intersect F # {}
        <3>1. ASSUME NEW u, NEW z
              PROVE  z \in EdgesAt(u, d, F) <=>
                         \E f \in Entities(u) : \E y \in Held(u, d, f) : Met(f, y) /\ z = at(f, y)
            BY AtByHeld
        <3> HIDE DEF at, Met
        <3> QED
            BY <1>2, <3>1
    <2> QED
        BY <2>1 DEF EdgesAt
<1>6. EdgeFacts(v, d) = EdgeFacts(w, d)
    <2>1. \A z : z \in EdgeFacts(v, d) <=> z \in EdgeFacts(w, d)
        <3> DEFINE fact(f, y) == <<"edge", f, y.relation, y.target, y.priority>>
        <3>1. ASSUME NEW u, NEW z
              PROVE  z \in EdgeFacts(u, d) <=> \E f \in Entities(u) : \E y \in Held(u, d, f) : z = fact(f, y)
            BY FactByHeld
        <3> HIDE DEF fact
        <3> QED
            BY <1>2, <3>1
    <2> QED
        BY <2>1 DEF EdgeFacts
<1> QED
    BY <1>3, <1>4, <1>5, <1>6 DEF v, ids

\* Expand walks in the story where it walks in the world.
LEMMA SameWalk ==
    ASSUME NEW w, NEW v, NEW c, \A F : EdgesAt(v, c, F) = EdgesAt(w, c, F), NEW e, NEW N \in {1, 2, 3}
    PROVE  Walk(v, c, e, N) = Walk(w, c, e, N)
<1>1. \A last : Round(v, c, last) = Round(w, c, last)
    BY DEF Round
<1>2. PICK f : /\ Walk(w, c, e, N) = f[N] /\ f[0] = Start(e)
               /\ \A n \in 1..N : f[n] = Round(w, c, f[n - 1])
    BY WalkRounds
<1>3. PICK g : /\ Walk(v, c, e, N) = g[N] /\ g[0] = Start(e)
               /\ \A n \in 1..N : g[n] = Round(v, c, g[n - 1])
    BY WalkRounds
<1>4. f[1] = g[1]
    BY <1>1, <1>2, <1>3
<1>5. N # 1 => f[2] = g[2]
    BY <1>1, <1>2, <1>3, <1>4
<1>6. N = 3 => f[3] = g[3]
    BY <1>1, <1>2, <1>3, <1>5
<1> QED
    BY <1>2, <1>3, <1>4, <1>5, <1>6
\* The claims that hold, by their places, are those of the world; a mind that
\* is absent is nobody in both.
LEMMA SameClaims ==
    ASSUME NEW w, NEW c, NEW d, Left(w, c, d), NEW list, \A i \in DOMAIN list : list[i] \in Claim
    PROVE  LET told == ClaimsTold(w, c, list)
           IN  /\ DOMAIN told \subseteq DOMAIN list
               /\ \A i \in DOMAIN told :
                      /\ told[i].statement = list[i].statement /\ told[i].value = list[i].value
                      /\ told[i].valid = list[i].valid
                      /\ told[i].other = IF list[i].other \in PresentIds(w, c) THEN list[i].other ELSE NoId
               /\ \A i \in DOMAIN list :
                      Holds(list[i].valid, d.wl) /\ list[i].statement \in PresentStatements(w, d)
                          => i \in DOMAIN told
<1> DEFINE told == ClaimsTold(w, c, list)
           other(x) == IF x.other \in PresentIds(w, c) THEN x.other ELSE NoId
<1>1. DOMAIN told =
          {i \in DOMAIN list : Holds(list[i].valid, c.wl) /\ list[i].statement \in StatementsTold(w, c)}
    BY DEF ClaimsTold
<1>2. \A i \in DOMAIN told : told[i] = [list[i] EXCEPT !.other = other(list[i])]
    BY DEF ClaimsTold
<1>3. \A x \in Claim : DOMAIN x = {"statement", "value", "other", "valid"}
    BY DEF Claim
<1>4. ASSUME NEW i \in DOMAIN list, Holds(list[i].valid, d.wl),
             list[i].statement \in PresentStatements(w, d)
      PROVE  i \in DOMAIN told
    <2>1. Holds(list[i].valid, c.wl)
        BY <1>4, HoldsGrows DEF Left
    <2>2. list[i].statement \in StatementsTold(w, c)
        BY <1>4, SameStatements, ToldIsPresent
    <2> QED
        BY <1>1, <2>1, <2>2
<1> HIDE DEF told, other
<1>5. ASSUME NEW i \in DOMAIN told
      PROVE  /\ told[i].statement = list[i].statement /\ told[i].value = list[i].value
             /\ told[i].valid = list[i].valid /\ told[i].other = other(list[i])
    <2>1. list[i] \in Claim /\ told[i] = [list[i] EXCEPT !.other = other(list[i])]
        BY <1>1, <1>2
    <2> QED
        BY <1>3, <2>1
<1> QED
    BY <1>1, <1>4, <1>5 DEF told, other

LEMMA SameOwn ==
    ASSUME NEW w, NEW c, NEW d, Left(w, c, d), NEW a \in PresentIds(w, c), Known(w, c, a),
           NEW s \in PresentStatements(w, d)
    PROVE  /\ Own(Story(w, c), d, a, s) = Own(w, d, a, s)
           /\ OwnBelief(Story(w, c), d, a, s) = OwnBelief(w, d, a, s)
<1> DEFINE v == Story(w, c)
           list == w.entity[a].beliefs
           told == v.entity[a].beliefs
           I == Own(w, d, a, s)
<1>1. told = ClaimsTold(w, c, list) /\ list \in Seq(Claim) /\ Measured(list) /\ a \in Entities(w)
    <2>1. told = ClaimsTold(w, c, list) /\ a \in Entities(w)
        BY StoryEntity DEF Left
    <2>2. list \in Seq(Claim)
        BY <2>1 DEF Left, IsWorld, Entity, Entities
    <2>3. Measured(list)
        BY <2>1, FileMeasured DEF Left
    <2> QED
        BY <2>1, <2>2, <2>3
<1> DEFINE other(x) == IF x.other \in PresentIds(w, c) THEN x.other ELSE NoId
<1>2. /\ DOMAIN told \subseteq DOMAIN list
      /\ \A i \in DOMAIN told :
             /\ told[i].statement = list[i].statement /\ told[i].value = list[i].value
             /\ told[i].valid = list[i].valid /\ told[i].other = other(list[i])
      /\ \A i \in DOMAIN list :
             Holds(list[i].valid, d.wl) /\ list[i].statement \in PresentStatements(w, d) => i \in DOMAIN told
    <2>1. \A i \in DOMAIN list : list[i] \in Claim
        BY <1>1
    <2> QED
        BY <1>1, <2>1, SameClaims
<1>3. I = {i \in DOMAIN list : list[i].statement = s /\ Holds(list[i].valid, d.wl)}
    BY DEF Own
<1>4. Own(v, d, a, s) = {i \in DOMAIN told : told[i].statement = s /\ Holds(told[i].valid, d.wl)}
    BY DEF Own
<1> HIDE DEF v, list, told, I, other
<1>5. Own(v, d, a, s) = I /\ I \subseteq DOMAIN told
    BY <1>2, <1>3, <1>4
<1>6. CASE I = {}
    BY <1>5, <1>6 DEF OwnBelief, I, v
<1>7. CASE I # {}
    <2>1. PICK i \in I :
              /\ \A j \in I : Specific(list, i, j)
              /\ OwnBelief(w, d, a, s) =
                     Belief(list[i].value, "explicit", NoId,
                            IF Present(w, d, list[i].other) THEN list[i].other ELSE NoId)
        BY <1>1, <1>7, OwnIsFirst DEF I, list
    <2>2. PICK n \in Nat : DOMAIN list \subseteq 1..n /\ \A k \in DOMAIN list : Len(list[k].valid) \in Nat
        BY <1>1 DEF Measured
    <2>3. Measured(told)
        BY <1>2, <2>2 DEF Measured
    <2>4. PICK j \in I :
              /\ \A k \in I : Specific(told, j, k)
              /\ OwnBelief(v, d, a, s) =
                     Belief(told[j].value, "explicit", NoId,
                            IF Present(v, d, told[j].other) THEN told[j].other ELSE NoId)
        BY <1>5, <1>7, <2>3, OwnIsFirst DEF told
    <2>5. i \in DOMAIN told /\ j \in DOMAIN told /\ i \in DOMAIN list /\ j \in DOMAIN list
        BY <1>2, <1>5
    <2>6. i = j
        <3>1. Specific(list, i, j) /\ Specific(told, j, i)
            BY <2>1, <2>4
        <3>2. Len(told[i].valid) = Len(list[i].valid) /\ Len(told[j].valid) = Len(list[j].valid)
            BY <1>2, <2>5
        <3>3. i \in Int /\ j \in Int /\ Len(list[i].valid) \in Nat /\ Len(list[j].valid) \in Nat
            BY <2>2, <2>5
        <3> QED
            BY <3>1, <3>2, <3>3 DEF Specific
    <2>7. told[i].value = list[i].value /\ told[i].other = other(list[i])
        BY <1>2, <2>5
    <2>8. /\ Present(v, d, told[i].other) => told[i].other = list[i].other \/ told[i].other = NoId
          /\ Present(w, d, list[i].other) => told[i].other = list[i].other
          /\ \A e : Present(v, d, e) <=> Present(w, d, e)
        <3>1. \A e : Present(v, d, e) <=> Present(w, d, e)
            BY SamePresent DEF v
        <3>2. Present(w, d, list[i].other) => list[i].other \in PresentIds(w, c)
            BY SameIds DEF PresentIds, Present
        <3> QED
            BY <2>7, <3>1, <3>2 DEF other
    <2>9. (IF Present(v, d, told[i].other) THEN told[i].other ELSE NoId) =
              IF Present(w, d, list[i].other) THEN list[i].other ELSE NoId
        BY <2>8
    <2> QED
        BY <1>5, <2>1, <2>4, <2>6, <2>7, <2>9 DEF v, I
<1> QED
    BY <1>5, <1>6, <1>7 DEF v, I
\* The memberships of an agent, and the minds that may be asked of them.
LEMMA SameMemberships ==
    ASSUME NEW w, NEW c, NEW d, Left(w, c, d), NEW a \in PresentIds(w, c)
    PROVE  /\ Memberships(Story(w, c), d, a) = Memberships(w, d, a)
           /\ \A i \in Memberships(w, d, a) :
                  /\ i \in DOMAIN Story(w, c).entity[a].edges
                  /\ Story(w, c).entity[a].edges[i] = w.entity[a].edges[i]
                  /\ w.entity[a].edges[i].target \in PresentIds(w, c)
                  /\ c.omniscient \/ a = c.knower => Known(w, c, w.entity[a].edges[i].target)
<1> DEFINE v == Story(w, c)
           list == w.entity[a].edges
           told == v.entity[a].edges
           Is(x) == EdgeHolds(w, d, a, x)
<1>1. /\ DOMAIN told \subseteq DOMAIN list
      /\ \A i \in DOMAIN told : told[i] = list[i]
      /\ \A i \in DOMAIN list : Is(list[i]) => i \in DOMAIN told
      /\ \A x : EdgeHolds(v, d, a, x) <=> Is(x)
    BY SameEdges
<1>2. /\ Memberships(w, d, a) = {i \in DOMAIN list : IsMembership(list[i].relation) /\ Is(list[i])}
      /\ Memberships(v, d, a) =
             {i \in DOMAIN told : IsMembership(told[i].relation) /\ EdgeHolds(v, d, a, told[i])}
    BY DEF Memberships
<1>3. ASSUME NEW i \in Memberships(w, d, a)
      PROVE  /\ list[i].target \in PresentIds(w, c)
             /\ c.omniscient \/ a = c.knower => Known(w, c, list[i].target)
    <2>1. EdgeHolds(w, d, a, list[i]) /\ i \in DOMAIN list /\ IsMembership(list[i].relation)
        BY DEF Memberships
    <2>2. EdgeHolds(w, c, a, list[i])
        BY <2>1, EdgeGrows DEF Left
    <2>3. list[i].target \in PresentIds(w, c)
        BY <2>2 DEF EdgeHolds, PresentIds, Present
    <2>4. i \in Memberships(w, c, a)
        BY <2>1, <2>2 DEF Memberships
    <2> QED
        BY <2>3, <2>4 DEF Known
<1> HIDE DEF v, list, told, Is
<1>4. Memberships(v, d, a) = Memberships(w, d, a)
    BY <1>1, <1>2
<1>5. \A i \in Memberships(w, d, a) : i \in DOMAIN told /\ told[i] = list[i]
    BY <1>1, <1>2
<1> QED
    BY <1>3, <1>4, <1>5 DEF v, list, told

LEMMA SameInherited ==
    ASSUME NEW w, NEW c, NEW d, Left(w, c, d), NEW a \in PresentIds(w, c), c.omniscient \/ a = c.knower,
           NEW s \in PresentStatements(w, d)
    PROVE  InheritedBelief(Story(w, c), d, a, s) = InheritedBelief(w, d, a, s)
<1> DEFINE v == Story(w, c)
           list == w.entity[a].edges
           told == v.entity[a].edges
           M == Memberships(w, d, a)
           I == Believing(w, d, a, s)
           held(u, f) == OwnBelief(u, d, f, s).held
<1>1. /\ Memberships(v, d, a) = M
      /\ \A i \in M : /\ i \in DOMAIN told /\ told[i] = list[i]
                      /\ list[i].target \in PresentIds(w, c) /\ Known(w, c, list[i].target)
    BY SameMemberships
<1>2. \A i \in M : /\ Own(v, d, list[i].target, s) = Own(w, d, list[i].target, s)
                   /\ held(v, list[i].target) = held(w, list[i].target)
    BY <1>1, SameOwn
<1>3. Believing(v, d, a, s) = I /\ I \subseteq M
    <2>1. /\ I = {i \in M : Own(w, d, list[i].target, s) # {}}
          /\ Believing(v, d, a, s) = {i \in M : Own(v, d, told[i].target, s) # {}}
        BY <1>1 DEF Believing
    <2> HIDE DEF I, M, v, list, told
    <2> QED
        BY <1>1, <1>2, <2>1
<1>4. a \in Entities(w) /\ v.entity[a].type = w.entity[a].type
    BY StoryEntity DEF Left
<1>5. CASE w.entity[a].type = Faction \/ I = {}
    <2>1. InheritedBelief(w, d, a, s) = Ignorance
        BY <1>5 DEF InheritedBelief, Believing
    <2>2. v.entity[a].type = Faction \/ Believing(v, d, a, s) = {}
        BY <1>3, <1>4, <1>5
    <2>3. InheritedBelief(v, d, a, s) = Ignorance
        BY <2>2 DEF InheritedBelief, Believing
    <2> QED
        BY <2>1, <2>3
<1>6. CASE w.entity[a].type # Faction /\ I # {}
    <2>1. Ordered(list)
        BY <1>4, FileOrdered DEF Left
    <2>2. PICK n \in Nat : DOMAIN list \subseteq 1..n /\ \A i \in DOMAIN list : list[i].priority \in Nat
        BY <2>1 DEF Ordered
    <2>3. Ordered(told)
        <3>1. DOMAIN told \subseteq DOMAIN list /\ \A i \in DOMAIN told : told[i] = list[i]
            BY SameEdges
        <3> HIDE DEF told, list
        <3> QED
            BY <2>2, <3>1 DEF Ordered
    <2>4. PICK i \in I :
              /\ \A j \in I : Stronger(list, i, j)
              /\ InheritedBelief(w, d, a, s) = Belief(held(w, list[i].target), "inherited", list[i].target, NoId)
        BY <1>6, <2>1, InheritedIsFirst
    <2>5. v.entity[a].type # Faction /\ Believing(v, d, a, s) # {}
        BY <1>3, <1>4, <1>6
    <2>6. PICK j \in Believing(v, d, a, s) :
              /\ \A k \in Believing(v, d, a, s) : Stronger(told, j, k)
              /\ InheritedBelief(v, d, a, s) = Belief(held(v, told[j].target), "inherited", told[j].target, NoId)
        BY <2>3, <2>5, InheritedIsFirst
    <2> HIDE DEF v, list, told, held, M, I
    <2>7. i \in I /\ j \in I /\ i \in M /\ j \in M
        BY <1>3, <2>4, <2>6
    <2>8. i \in DOMAIN list /\ j \in DOMAIN list
        BY <2>7 DEF M, list, Memberships
    <2>9. told[i] = list[i] /\ told[j] = list[j]
        BY <1>1, <2>7
    <2>10. i = j
        <3>1. Stronger(list, i, j) /\ Stronger(told, j, i)
            BY <1>3, <2>4, <2>6, <2>7
        <3>2. i \in Int /\ j \in Int /\ list[i].priority \in Nat /\ list[j].priority \in Nat
            BY <2>2, <2>8
        <3> QED
            BY <2>9, <3>1, <3>2 DEF Stronger
    <2>11. InheritedBelief(v, d, a, s) = InheritedBelief(w, d, a, s)
        BY <1>2, <2>4, <2>6, <2>7, <2>9, <2>10
    <2> QED
        BY <2>11 DEF v
<1> QED
    BY <1>5, <1>6

\* What is commonly known is told, and it is all that is told of what is true.
LEMMA SameCommon ==
    ASSUME NEW w, NEW c, IsWorld(w), NEW s \in PresentStatements(w, c)
    PROVE  CommonBelief(Story(w, c), s) = CommonBelief(w, s)
<1> DEFINE f == w.statement[s]
           g == Story(w, c).statement[s]
<1>1. /\ g.common = f.common
      /\ g.truth = IF c.omniscient \/ f.common THEN f.truth ELSE "unresolved"
    BY StoryStatement
<1> QED
    BY <1>1 DEF CommonBelief

\* The mind of a known agent.
LEMMA SameMind ==
    ASSUME NEW w, NEW c, NEW d, Left(w, c, d), NEW a \in PresentIds(w, c), c.omniscient \/ a = c.knower
    PROVE  /\ \A s \in PresentStatements(w, d) : ResolveBelief(Story(w, c), d, a, s) = ResolveBelief(w, d, a, s)
           /\ \A S \in SUBSET PresentStatements(w, d) : Mind(Story(w, c), d, a, S) = Mind(w, d, a, S)
<1>1. ASSUME NEW s \in PresentStatements(w, d)
      PROVE  ResolveBelief(Story(w, c), d, a, s) = ResolveBelief(w, d, a, s)
    <2>1. OwnBelief(Story(w, c), d, a, s) = OwnBelief(w, d, a, s)
        BY SameOwn DEF Known
    <2>2. InheritedBelief(Story(w, c), d, a, s) = InheritedBelief(w, d, a, s)
        BY SameInherited
    <2>3. CommonBelief(Story(w, c), s) = CommonBelief(w, s)
        BY SameCommon, SameStatements DEF Left
    <2> QED
        BY <2>1, <2>2, <2>3 DEF ResolveBelief
<1>2. ASSUME NEW S \in SUBSET PresentStatements(w, d)
      PROVE  Mind(Story(w, c), d, a, S) = Mind(w, d, a, S)
    <2>1. {<<s, ResolveBelief(Story(w, c), d, a, s)>> : s \in S} = {<<s, ResolveBelief(w, d, a, s)>> : s \in S}
        BY <1>1
    <2> QED
        BY <2>1 DEF Mind
<1> QED
    BY <1>1, <1>2
\* What agents say to those who are there, or to anyone.
LEMMA SameSaid ==
    ASSUME NEW w, NEW c, NEW d, Left(w, c, d), c.omniscient, NEW a \in PresentIds(w, c)
    PROVE  LET said(u) == {y \in Range(u.entity[a].asserts) : AssertionHolds(u, d, y)}
               Same(x, y) == x.other = y.other /\ x.statement = y.statement /\ x.value = y.value
           IN  /\ \A x \in said(Story(w, c)) : \E y \in said(w) : Same(x, y)
               /\ \A y \in said(w) : \E x \in said(Story(w, c)) : Same(x, y)
<1> DEFINE v == Story(w, c)
           list == w.entity[a].asserts
           heard == Heard(w, c, list)
           told == v.entity[a].asserts
           said(u) == {y \in Range(u.entity[a].asserts) : AssertionHolds(u, d, y)}
           Same(x, y) == x.other = y.other /\ x.statement = y.statement /\ x.value = y.value
           other(x) == IF x.other \in PresentIds(w, c) THEN x.other ELSE NoId
<1>1. a \in Entities(w) /\ told = ClaimsTold(w, c, heard) /\ list \in Seq(Claim)
    <2>1. a \in Entities(w) /\ told = ClaimsTold(w, c, heard)
        BY StoryEntity DEF Left
    <2> QED
        BY <2>1 DEF Left, IsWorld, Entity, Entities
<1>2. /\ DOMAIN heard = {i \in DOMAIN list : list[i].other \in PresentIds(w, c) \union {NoId}}
      /\ \A i \in DOMAIN heard : heard[i] = list[i]
    BY DEF Heard, Restrict
<1>3. \A i \in DOMAIN heard : heard[i] \in Claim
    <2>1. \A i \in DOMAIN list : list[i] \in Claim
        BY <1>1
    <2> HIDE DEF heard, list
    <2> QED
        BY <1>2, <2>1
<1>4. /\ DOMAIN told \subseteq DOMAIN heard
      /\ \A i \in DOMAIN told :
             /\ told[i].statement = heard[i].statement /\ told[i].value = heard[i].value
             /\ told[i].valid = heard[i].valid /\ told[i].other = other(heard[i])
      /\ \A i \in DOMAIN heard :
             Holds(heard[i].valid, d.wl) /\ heard[i].statement \in PresentStatements(w, d) => i \in DOMAIN told
    BY <1>1, <1>3, SameClaims
<1>5. /\ \A e : Present(v, d, e) <=> Present(w, d, e)
      /\ \A s : PresentStatement(v, d, s) <=> PresentStatement(w, d, s)
    BY SamePresent, SameStatements
<1>6. /\ \A s : PresentStatement(w, d, s) => s \in PresentStatements(w, d)
      /\ \A e : Present(w, d, e) => e \in PresentIds(w, c)
    <2>1. \A s : PresentStatement(w, d, s) => s \in PresentStatements(w, d)
        BY DEF PresentStatement, PresentStatements
    <2>2. \A e : Present(w, d, e) => e \in PresentIds(w, c)
        BY SameIds DEF Present, PresentIds
    <2> QED
        BY <2>1, <2>2
<1>7. \A u, y : y \in said(u) <=> y \in Range(u.entity[a].asserts) /\ AssertionHolds(u, d, y)
    OBVIOUS
<1>8. \A i \in DOMAIN told : other(heard[i]) = list[i].other /\ heard[i] = list[i] /\ i \in DOMAIN list
    BY <1>2, <1>4
<1>9. /\ \A x, y : Same(x, y) /\ x.valid = y.valid => (AssertionHolds(v, d, x) <=> AssertionHolds(w, d, y))
    BY <1>5 DEF AssertionHolds
<1> HIDE DEF v, list, heard, told, said, other
<1>10. ASSUME NEW x \in said(v) PROVE \E y \in said(w) : Same(x, y)
    <2>1. PICK i \in DOMAIN told : x = told[i]
        BY <1>7 DEF Range, told
    <2>2. Same(x, list[i]) /\ x.valid = list[i].valid /\ i \in DOMAIN list
        BY <1>4, <1>8, <2>1
    <2>3. AssertionHolds(w, d, list[i])
        BY <1>7, <1>9, <2>2
    <2>4. list[i] \in said(w)
        BY <1>7, <2>2, <2>3 DEF Range, list
    <2> QED
        BY <2>2, <2>4
<1>11. ASSUME NEW y \in said(w) PROVE \E x \in said(v) : Same(x, y)
    <2>1. PICK i \in DOMAIN list : y = list[i]
        BY <1>7 DEF Range, list
    <2>2. AssertionHolds(w, d, list[i])
        BY <1>7, <2>1
    <2>3. i \in DOMAIN heard /\ heard[i] = list[i]
        BY <1>2, <1>6, <2>2 DEF AssertionHolds
    <2>4. i \in DOMAIN told
        BY <1>4, <1>6, <2>2, <2>3 DEF AssertionHolds
    <2>5. Same(told[i], y) /\ told[i].valid = y.valid
        BY <1>4, <1>8, <2>1, <2>4
    <2>6. AssertionHolds(v, d, told[i])
        BY <1>9, <2>1, <2>2, <2>5
    <2>7. told[i] \in said(v)
        BY <1>7, <2>4, <2>6 DEF Range, told
    <2> QED
        BY <2>5, <2>7
<1> QED
    BY <1>10, <1>11 DEF v, said

\* The facts that a diff compares, and what is found where minds depart.
LEMMA SameFacts ==
    ASSUME NEW w, NEW c, NEW d, Left(w, c, d), c.omniscient
    PROVE  Facts(Story(w, c), d) = Facts(w, d)
<1> DEFINE v == Story(w, c)
           agents == PresentAgents(w, d)
           told == PresentStatements(w, d)
<1>1. /\ PresentAgents(v, d) = agents /\ PresentStatements(v, d) = told
      /\ PresentIds(v, d) = PresentIds(w, d)
    BY SameChecked, SameStatements, SameIds
<1>2. \A a \in agents : a \in PresentIds(w, c) /\ a \in Entities(w)
    BY SameIds DEF PresentAgents, Agent, PresentIds
<1>3. StoryFacts(v, d) = StoryFacts(w, d)
    <2>1. ASSUME NEW s \in told
          PROVE  v.statement[s].truth = w.statement[s].truth
        <3>1. s \in PresentStatements(w, c) /\ IsWorld(w)
            BY SameStatements DEF Left
        <3> QED
            BY <3>1, StoryStatement
    <2> HIDE DEF v, told
    <2>2. {<<"statement", s, v.statement[s].truth>> : s \in told} =
              {<<"statement", s, w.statement[s].truth>> : s \in told}
        BY <2>1
    <2> QED
        BY <1>1, <2>2 DEF StoryFacts, told
<1>4. EdgeFacts(v, d) = EdgeFacts(w, d)
    BY SameEdgesRead
<1>5. BeliefFacts(v, d) = BeliefFacts(w, d)
    <2>1. \A a \in agents, s \in told : /\ Own(v, d, a, s) = Own(w, d, a, s)
                                        /\ OwnBelief(v, d, a, s) = OwnBelief(w, d, a, s)
        BY <1>2, SameOwn DEF Known
    <2> DEFINE fact(u, a, s) == <<"belief", a, s, OwnBelief(u, d, a, s).held>>
    <2>2. ASSUME NEW u
          PROVE  BeliefFacts(u, d) =
                     UNION {{fact(u, a, s) : s \in {t \in PresentStatements(u, d) : Own(u, d, a, t) # {}}} :
                            a \in PresentAgents(u, d)}
        BY DEF BeliefFacts
    <2>3. \A a \in agents, s \in told : fact(v, a, s) = fact(w, a, s)
        BY <2>1
    <2> HIDE DEF fact
    <2>4. ASSUME NEW u, NEW z
          PROVE  z \in BeliefFacts(u, d) <=>
                     \E a \in PresentAgents(u, d) : \E s \in PresentStatements(u, d) :
                         Own(u, d, a, s) # {} /\ z = fact(u, a, s)
        BY <2>2
    <2> HIDE DEF v, agents, told
    <2>5. \A z : z \in BeliefFacts(v, d) <=> z \in BeliefFacts(w, d)
        BY <1>1, <2>1, <2>3, <2>4 DEF agents, told
    <2> QED
        BY <2>5 DEF BeliefFacts
<1>6. AssertionFacts(v, d) = AssertionFacts(w, d)
    <2> DEFINE said(u, a) == {y \in Range(u.entity[a].asserts) : AssertionHolds(u, d, y)}
               fact(a, x) == <<"assertion", a, x.other, x.statement, x.value>>
    <2>1. ASSUME NEW a \in agents, NEW z
          PROVE  (\E x \in said(v, a) : z = fact(a, x)) <=> (\E x \in said(w, a) : z = fact(a, x))
        <3>1. \A x \in said(v, a) : \E y \in said(w, a) :
                  x.other = y.other /\ x.statement = y.statement /\ x.value = y.value
            BY <1>2, SameSaid
        <3>2. \A y \in said(w, a) : \E x \in said(v, a) :
                  x.other = y.other /\ x.statement = y.statement /\ x.value = y.value
            BY <1>2, SameSaid
        <3> HIDE DEF said
        <3> QED
            BY <3>1, <3>2
    <2>2. ASSUME NEW u
          PROVE  AssertionFacts(u, d) = UNION {{fact(a, x) : x \in said(u, a)} : a \in PresentAgents(u, d)}
        BY DEF AssertionFacts
    <2> HIDE DEF said, fact
    <2>3. ASSUME NEW u, NEW z
          PROVE  z \in AssertionFacts(u, d) <=> \E a \in PresentAgents(u, d) : \E x \in said(u, a) : z = fact(a, x)
        BY <2>2
    <2> HIDE DEF v, agents
    <2>4. \A z : z \in AssertionFacts(v, d) <=> z \in AssertionFacts(w, d)
        BY <1>1, <2>1, <2>3 DEF agents
    <2> QED
        BY <2>4 DEF AssertionFacts
<1> QED
    BY <1>3, <1>4, <1>5, <1>6 DEF Facts
LEMMA SameDivergence ==
    ASSUME NEW w, NEW c, Left(w, c, c), c.omniscient
    PROVE  DivergenceRead(Story(w, c), c) = DivergenceRead(w, c)
<1> DEFINE v == Story(w, c)
           agents == PresentAgents(w, c)
           told == PresentStatements(w, c)
           found(u, a, s) == Heretic(u, c, a, s) \union Deceived(u, c, a, s) \union Liar(u, c, a, s)
<1>1. /\ PresentAgents(v, c) = agents /\ PresentStatements(v, c) = told
      /\ Checked(v, c) <=> Checked(w, c)
    BY SameChecked, SameStatements
<1>2. ASSUME NEW a \in agents, NEW s \in told
      PROVE  found(v, a, s) = found(w, a, s)
    <2>1. a \in PresentIds(w, c)
        BY DEF PresentAgents, Agent, PresentIds
    <2>2. /\ OwnBelief(v, c, a, s) = OwnBelief(w, c, a, s)
          /\ InheritedBelief(v, c, a, s) = InheritedBelief(w, c, a, s)
        BY <2>1, SameOwn, SameInherited DEF Known
    <2>3. ResolveBelief(v, c, a, s) = ResolveBelief(w, c, a, s)
        BY <2>1, SameMind
    <2>4. v.statement[s].truth = w.statement[s].truth
        BY StoryStatement DEF Left
    <2>5. Heretic(v, c, a, s) = Heretic(w, c, a, s) /\ Deceived(v, c, a, s) = Deceived(w, c, a, s)
        BY <2>2, <2>3, <2>4 DEF Heretic, Deceived
    <2>6. Liar(v, c, a, s) = Liar(w, c, a, s)
        <3> DEFINE b == ResolveBelief(w, c, a, s)
                   said(u) == {y \in Range(u.entity[a].asserts) : AssertionHolds(u, c, y)}
                   lies(u) == {<<a, s, "liar", b.held, x.value, x.other>> :
                                  x \in {y \in Range(u.entity[a].asserts) :
                                            y.statement = s /\ AssertionHolds(u, c, y) /\ y.value # b.held}}
        <3>1. /\ \A x \in said(v) : \E y \in said(w) :
                     x.other = y.other /\ x.statement = y.statement /\ x.value = y.value
              /\ \A y \in said(w) : \E x \in said(v) :
                     x.other = y.other /\ x.statement = y.statement /\ x.value = y.value
            BY <2>1, SameSaid
        <3>2. \A u, z : z \in lies(u) <=>
                  \E x \in said(u) : /\ x.statement = s /\ x.value # b.held
                                     /\ z = <<a, s, "liar", b.held, x.value, x.other>>
            OBVIOUS
        <3>3. lies(v) = lies(w)
            <4> DEFINE lie(p, o) == <<a, s, "liar", b.held, p, o>>
            <4>1. \A u, z : z \in lies(u) <=>
                      \E x \in said(u) : x.statement = s /\ x.value # b.held /\ z = lie(x.value, x.other)
                BY <3>2
            <4> HIDE DEF lie, said, b, v
            <4>2. \A z : z \in lies(v) <=> z \in lies(w)
                <5> HIDE DEF lies
                <5> QED
                    BY <3>1, <4>1
            <4> QED
                BY <4>2
        <3>4. /\ Liar(w, c, a, s) = IF b = Ignorance THEN {} ELSE lies(w)
              /\ Liar(v, c, a, s) = IF b = Ignorance THEN {} ELSE lies(v)
            BY <2>3 DEF Liar
        <3> QED
            BY <3>3, <3>4
    <2> QED
        BY <2>5, <2>6
<1> HIDE DEF v, agents, told, found
<1>3. UNION {found(v, a, s) : a \in agents, s \in told} = UNION {found(w, a, s) : a \in agents, s \in told}
    <2>1. {found(v, a, s) : a \in agents, s \in told} = {found(w, a, s) : a \in agents, s \in told}
        BY <1>2
    <2> QED
        BY <2>1
<1>4. DivergenceRead(v, c) = DivergenceRead(w, c)
    <2>1. ASSUME NEW u
          PROVE  DivergenceRead(u, c) =
                     IF Checked(u, c) /\ c.omniscient
                     THEN [found |-> UNION {found(u, a, s) :
                                              a \in PresentAgents(u, c), s \in PresentStatements(u, c)}]
                     ELSE Refused
        BY DEF DivergenceRead, found
    <2>2. PresentAgents(w, c) = agents /\ PresentStatements(w, c) = told
        BY DEF agents, told
    <2> DEFINE all(u) == UNION {found(u, a, s) : a \in agents, s \in told}
    <2>3. /\ DivergenceRead(v, c) = IF Checked(v, c) /\ c.omniscient THEN [found |-> all(v)] ELSE Refused
          /\ DivergenceRead(w, c) = IF Checked(w, c) /\ c.omniscient THEN [found |-> all(w)] ELSE Refused
        BY <1>1, <2>1, <2>2
    <2>4. all(v) = all(w)
        BY <1>3
    <2> HIDE DEF all
    <2> QED
        BY <1>1, <2>3, <2>4
<1> QED
    BY <1>4 DEF v

\* The entity page: its statements are canon for an omniscient context and the
\* knower's mind for another.
LEMMA SameEntity ==
    ASSUME NEW w, NEW c, Left(w, c, c), Checked(w, c), NEW e
    PROVE  EntityRead(Story(w, c), c, e) = EntityRead(w, c, e)
<1> DEFINE v == Story(w, c)
           told == PresentStatements(w, c)
<1>1. /\ Checked(v, c) <=> Checked(w, c)
      /\ Present(v, c, e) <=> Present(w, c, e)
      /\ PresentStatements(v, c) = told
    BY SameChecked, SamePresent, SameStatements
<1>2. CASE ~Present(w, c, e)
    BY <1>1, <1>2 DEF EntityRead
<1>3. CASE Present(w, c, e)
    <2>1. e \in PresentIds(w, c)
        BY <1>3 DEF Present, PresentIds
    <2>2. v.entity[e].type = w.entity[e].type /\ v.entity[e].outcomes = w.entity[e].outcomes
        BY <2>1, StoryEntity DEF Left
    <2>3. EdgesOut(v, c, e) = EdgesOut(w, c, e) /\ EdgesIn(v, c, e) = EdgesIn(w, c, e)
        BY <2>1, SameEdgesRead
    <2>4. ASSUME NEW s \in told
          PROVE  /\ v.statement[s].subject = w.statement[s].subject
                 /\ v.statement[s].object = w.statement[s].object
                 /\ c.omniscient => v.statement[s].truth = w.statement[s].truth
        BY StoryStatement DEF Left
    <2>5. About(v, c, e) = About(w, c, e)
        <3> HIDE DEF v, told
        <3> QED
            BY <1>1, <2>4 DEF About, told
    <2>6. StatementsAbout(v, c, e) = StatementsAbout(w, c, e)
        <3>1. About(w, c, e) \subseteq told
            BY DEF About
        <3>2. CASE c.omniscient
            <4> HIDE DEF v, told
            <4>1. {<<s, Belief(v.statement[s].truth, "canon", NoId, NoId)>> : s \in About(w, c, e)} =
                      {<<s, Belief(w.statement[s].truth, "canon", NoId, NoId)>> : s \in About(w, c, e)}
                BY <2>4, <3>1, <3>2
            <4> QED
                BY <2>5, <3>2, <4>1 DEF StatementsAbout
        <3>3. CASE ~c.omniscient
            <4>1. c.knower \in PresentIds(w, c)
                BY <3>3 DEF Checked, Agent, Present, PresentIds
            <4>2. Mind(v, c, c.knower, About(w, c, e)) = Mind(w, c, c.knower, About(w, c, e))
                BY <3>1, <4>1, SameMind
            <4> QED
                BY <2>5, <3>3, <4>2 DEF StatementsAbout
        <3> QED
            BY <3>2, <3>3
    <2> HIDE DEF v
    <2>7. EntityRead(v, c, e) = EntityRead(w, c, e)
        BY <1>1, <2>2, <2>3, <2>6 DEF EntityRead
    <2> QED
        BY <2>7 DEF v
<1> QED
    BY <1>2, <1>3

LEMMA SameBeliefs ==
    ASSUME NEW w, NEW c, Left(w, c, c), NEW a
    PROVE  BeliefsRead(Story(w, c), c, a) = BeliefsRead(w, c, a)
<1> DEFINE v == Story(w, c)
<1>1. /\ Checked(v, c) <=> Checked(w, c)
      /\ Agent(v, c, a) <=> Agent(w, c, a)
      /\ PresentStatements(v, c) = PresentStatements(w, c)
    BY SameChecked, SameStatements
<1>2. ASSUME c.omniscient \/ c.knower = a, Agent(w, c, a)
      PROVE  Mind(v, c, a, PresentStatements(w, c)) = Mind(w, c, a, PresentStatements(w, c))
    <2>1. a \in PresentIds(w, c)
        BY <1>2 DEF Agent, Present, PresentIds
    <2> QED
        BY <1>2, <2>1, SameMind
<1> HIDE DEF v
<1>3. BeliefsRead(v, c, a) = BeliefsRead(w, c, a)
    BY <1>1, <1>2 DEF BeliefsRead
<1> QED
    BY <1>3 DEF v

LEMMA SameExpand ==
    ASSUME NEW w, NEW c, Left(w, c, c), NEW e
    PROVE  ExpandRead(Story(w, c), c, e, MaxDepth) = ExpandRead(w, c, e, MaxDepth)
<1> DEFINE v == Story(w, c)
<1>1. /\ Checked(v, c) <=> Checked(w, c)
      /\ Present(v, c, e) <=> Present(w, c, e)
    BY SameChecked, SamePresent
<1>2. Clamp(MaxDepth) = 3
    BY DEF Clamp, MinDepth, MaxDepth
<1>3. \A F : EdgesAt(v, c, F) = EdgesAt(w, c, F)
    BY SameEdgesRead
<1> HIDE DEF v
<1>4. Walk(v, c, e, 3) = Walk(w, c, e, 3)
    BY <1>3, SameWalk
<1>5. ExpandRead(v, c, e, MaxDepth) = ExpandRead(w, c, e, MaxDepth)
    BY <1>1, <1>2, <1>4 DEF ExpandRead
<1> QED
    BY <1>5 DEF v

\* The empty worldline decides less than any.
LEMMA SameDiff ==
    ASSUME NEW w, NEW c, IsWorld(w), NEW d, Left(w, c, d)
    PROVE  DiffRead(Story(w, c), c, d) = DiffRead(w, c, d)
<1>1. Left(w, c, c)
    BY DEF Left, Extends
<1>2. /\ Checked(Story(w, c), c) <=> Checked(w, c)
      /\ Checked(Story(w, c), d) <=> Checked(w, d)
    BY <1>1, SameChecked
<1>3. ASSUME c.omniscient
      PROVE  /\ Facts(Story(w, c), c) = Facts(w, c)
             /\ Facts(Story(w, c), d) = Facts(w, d)
    BY <1>1, <1>3, SameFacts
<1> QED
    BY <1>2, <1>3 DEF DiffRead

LEMMA WorldStory ==
    ASSUME IsWorld(index) PROVE OnlyTheStory
<1> SUFFICES ASSUME NEW c \in Contexts PROVE Answers(index, c) = Answers(Story(index, c), c)
    BY DEF OnlyTheStory
<1> DEFINE v == Story(index, c)
           d == [c EXCEPT !.wl = <<>>]
<1>1. Checked(index, c) /\ Left(index, c, c)
    BY DEF Contexts, Left, Extends
<1>2. Left(index, c, d)
    <2>1. DOMAIN c = {"omniscient", "knower", "wl", "statuses"}
        BY DEF Contexts
    <2>2. d.wl = <<>> /\ d.omniscient = c.omniscient /\ d.knower = c.knower /\ d.statuses = c.statuses
        BY <2>1
    <2> HIDE DEF d
    <2> QED
        BY <2>2 DEF Left, Extends
<1>3. EntitiesRead(v, c) = EntitiesRead(index, c)
    BY <1>1, SameIds, SameChecked DEF EntitiesRead
<1>4. \A e : EntityRead(v, c, e) = EntityRead(index, c, e)
    BY <1>1, SameEntity
<1>5. \A e : BeliefsRead(v, c, e) = BeliefsRead(index, c, e)
    BY <1>1, SameBeliefs
<1>6. \A e : ExpandRead(v, c, e, MaxDepth) = ExpandRead(index, c, e, MaxDepth)
    BY <1>1, SameExpand
<1>7. DiffRead(v, c, d) = DiffRead(index, c, d)
    BY <1>2, SameDiff
<1>8. DivergenceRead(v, c) = DivergenceRead(index, c)
    <2>1. CASE c.omniscient
        BY <1>1, <2>1, SameDivergence
    <2>2. CASE ~c.omniscient
        BY <2>2 DEF DivergenceRead
    <2> QED
        BY <2>1, <2>2
<1> HIDE DEF v, d
<1>9. Answers(v, c) = Answers(index, c)
    BY <1>3, <1>4, <1>5, <1>6, <1>7, <1>8 DEF Answers, d
<1> QED
    BY <1>9 DEF v

\* Under every context every read answers as if the world held the context's
\* story and nothing else (Resolver, doc.go).
THEOREM StoryAlways == Spec => []OnlyTheStory
<1>1. Typed => OnlyTheStory
    BY WorldStory DEF Typed
<1> QED
    BY <1>1, TypedInit, TypedStep, PTL DEF Spec
=============================================================================
