------------------------------ MODULE Resolver ------------------------------
(***************************************************************************)
(* The query resolver (internal/resolve): what a world says under a        *)
(* context.  Every read is an operator of the compiled world w, a context  *)
(* c, and its arguments; a read that the code refuses is Refused.          *)
(*                                                                         *)
(* A context has omniscient, knower (NoId in an omniscient one), wl, a     *)
(* function from some decisions to outcomes, and the statuses it reads.    *)
(***************************************************************************)
EXTENDS World

Refused == [refused |-> TRUE]

-----------------------------------------------------------------------------
(***************************************************************************)
(* What exists under a context.                                            *)
(***************************************************************************)

\* Wrong: a decision the worldline leaves out meets any condition on it.
HoldsUnlessDenied(conds, wl) ==
    \A x \in Range(conds) : x.decision \in DOMAIN wl => wl[x.decision] = x.outcome

Holds(conds, wl) ==
    \A x \in Range(conds) : x.decision \in DOMAIN wl /\ wl[x.decision] = x.outcome

Admits(c, status) == status \in c.statuses

\* Resolver.entity
Present(w, c, id) ==
    /\ id \in Entities(w)
    /\ Holds(w.entity[id].valid, c.wl)
    /\ Admits(c, w.entity[id].status)

\* Wrong: a statement is looked at without its subject and object.
PresentAlone(w, c, s) ==
    /\ s \in Statements(w)
    /\ Holds(w.statement[s].valid, c.wl)
    /\ Admits(c, w.statement[s].status)

\* Resolver.statement
PresentStatement(w, c, s) ==
    /\ s \in Statements(w)
    /\ Holds(w.statement[s].valid, c.wl)
    /\ Admits(c, w.statement[s].status)
    /\ Present(w, c, w.statement[s].subject)
    /\ Present(w, c, w.statement[s].object)

EdgeHolds(w, c, source, x) ==
    /\ Holds(x.valid, c.wl)
    /\ Present(w, c, source)
    /\ Present(w, c, x.target)

PresentIds(w, c) == {id \in Entities(w) : Present(w, c, id)}
PresentStatements(w, c) == {s \in Statements(w) : PresentStatement(w, c, s)}

\* Resolver.agent
Agent(w, c, id) == Present(w, c, id) /\ w.entity[id].type \in Agents

\* Resolver.check
Checked(w, c) ==
    /\ \A d \in DOMAIN c.wl :
           /\ Present(w, c, d)
           /\ w.entity[d].type = Decision
           /\ c.wl[d] \in w.entity[d].outcomes
    /\ c.omniscient \/ Agent(w, c, c.knower)

-----------------------------------------------------------------------------
(***************************************************************************)
(* Minds: the belief chain.                                                *)
(***************************************************************************)

\* A belief: what is held of s, from whom (source, via, acquired).
Belief(held, source, via, from) == [held |-> held, source |-> source, via |-> via, from |-> from]
Ignorance == Belief("unknown", "none", NoId, NoId)

\* The beliefs of a on s that hold, by their places.
Own(w, c, a, s) ==
    LET list == w.entity[a].beliefs
    IN  {i \in DOMAIN list : list[i].statement = s /\ Holds(list[i].valid, c.wl)}

\* The most conditions, then the first authored.
Specific(list, i, j) ==
    \/ Len(list[i].valid) > Len(list[j].valid)
    \/ Len(list[i].valid) = Len(list[j].valid) /\ i <= j

\* ownBelief
OwnBelief(w, c, a, s) ==
    LET list == w.entity[a].beliefs
        best == list[CHOOSE i \in Own(w, c, a, s) :
                         \A j \in Own(w, c, a, s) : Specific(list, i, j)]
    IN  IF Own(w, c, a, s) = {} THEN Ignorance
        ELSE Belief(best.value, "explicit", NoId,
                    IF Present(w, c, best.other) THEN best.other ELSE NoId)

\* memberships, by their places among a's edges.
Memberships(w, c, a) ==
    LET list == w.entity[a].edges
    IN  {i \in DOMAIN list : IsMembership(list[i].relation) /\ EdgeHolds(w, c, a, list[i])}

\* comparePriority, in a stable sort: numbered ones first, the lowest first.
Stronger(list, i, j) ==
    LET p == list[i].priority
        q == list[j].priority
    IN  IF p = q THEN i <= j ELSE p # 0 /\ (q = 0 \/ p < q)

\* inheritedBelief
InheritedBelief(w, c, a, s) ==
    LET list == w.entity[a].edges
        believing == {i \in Memberships(w, c, a) : Own(w, c, list[i].target, s) # {}}
        first == CHOOSE i \in believing : \A j \in believing : Stronger(list, i, j)
        faction == list[first].target
    IN  IF w.entity[a].type = Faction \/ believing = {} THEN Ignorance
        ELSE Belief(OwnBelief(w, c, faction, s).held, "inherited", faction, NoId)

\* The end of the chain: common knowledge.
CommonBelief(w, s) ==
    LET d == w.statement[s]
    IN  IF d.common /\ d.truth # "unresolved" THEN Belief(d.truth, "common", NoId, NoId) ELSE Ignorance

\* resolveBelief
ResolveBelief(w, c, a, s) ==
    LET own == OwnBelief(w, c, a, s)
        inherited == InheritedBelief(w, c, a, s)
    IN  CASE own # Ignorance -> own
          [] own = Ignorance /\ inherited # Ignorance -> inherited
          [] OTHER -> CommonBelief(w, s)

\* What a believes of the statements, those a is ignorant of left out.
Mind(w, c, a, statements) ==
    {<<s, ResolveBelief(w, c, a, s)>> : s \in statements} \ {<<s, Ignorance>> : s \in statements}

-----------------------------------------------------------------------------
(***************************************************************************)
(* The reads.                                                              *)
(***************************************************************************)

\* Resolver.Entities
EntitiesRead(w, c) ==
    IF Checked(w, c) THEN [listed |-> PresentIds(w, c)] ELSE Refused

\* How an edge looks from its target: its inverse, itself if it is symmetric,
\* and else itself as one that comes in.
SeenFromTarget(r) ==
    CASE Relations[r].symmetric -> <<r, "derived">>
      [] ~Relations[r].symmetric /\ Relations[r].inverse # "" -> <<Relations[r].inverse, "derived">>
      [] OTHER -> <<r, "in">>

\* edges: those e authors, and those that point at it.
EdgesOut(w, c, e) ==
    {<<x.relation, "out", x.target, x.priority>> :
        x \in {y \in Range(w.entity[e].edges) : EdgeHolds(w, c, e, y)}}

EdgesIn(w, c, e) ==
    UNION {{SeenFromTarget(x.relation) \o <<f, x.priority>> :
               x \in {y \in Range(w.entity[f].edges) : y.target = e /\ EdgeHolds(w, c, f, y)}} :
           f \in Entities(w)}

About(w, c, e) ==
    {s \in PresentStatements(w, c) : e \in {w.statement[s].subject, w.statement[s].object}}

\* statementsAbout
StatementsAbout(w, c, e) ==
    IF c.omniscient
    THEN {<<s, Belief(w.statement[s].truth, "canon", NoId, NoId)>> : s \in About(w, c, e)}
    ELSE Mind(w, c, c.knower, About(w, c, e))

\* Resolver.Entity
EntityRead(w, c, e) ==
    IF Checked(w, c) /\ Present(w, c, e)
    THEN [type |-> w.entity[e].type, outcomes |-> w.entity[e].outcomes,
          edges |-> EdgesOut(w, c, e) \union EdgesIn(w, c, e),
          statements |-> StatementsAbout(w, c, e)]
    ELSE Refused

\* Resolver.Beliefs: a knower reads its own mind only.
BeliefsRead(w, c, a) ==
    IF Checked(w, c) /\ (c.omniscient \/ c.knower = a) /\ Agent(w, c, a)
    THEN [beliefs |-> Mind(w, c, a, PresentStatements(w, c))]
    ELSE Refused

\* Wrong: edges are followed only the way they are authored.
EdgesFrom(w, c, frontier) ==
    UNION {{<<f, x.relation, x.target>> :
               x \in {y \in Range(w.entity[f].edges) : EdgeHolds(w, c, f, y)}} :
           f \in frontier \intersect Entities(w)}

\* The edges incident to the entities of a set, as authored: those Expand
\* reaches from a frontier.
EdgesAt(w, c, frontier) ==
    UNION {{<<f, x.relation, x.target>> :
               x \in {y \in Range(w.entity[f].edges) :
                         EdgeHolds(w, c, f, y) /\ {f, y.target} \intersect frontier # {}}} :
           f \in Entities(w)}

Ends(edges) == {x[1] : x \in edges} \union {x[3] : x \in edges}

MinDepth == 1
MaxDepth == 3
Clamp(depth) == IF depth < MinDepth THEN MinDepth ELSE IF depth > MaxDepth THEN MaxDepth ELSE depth

\* The loop of Expand: who was seen, the frontier and the edges after n rounds.
Walk(w, c, root, depth) ==
    LET after[n \in 0..depth] ==
            IF n = 0 THEN [seen |-> {root}, frontier |-> {root}, edges |-> {}]
            ELSE LET last == after[n - 1]
                     found == EdgesAt(w, c, last.frontier)
                 IN  [seen |-> last.seen \union Ends(found),
                      frontier |-> Ends(found) \ last.seen,
                      edges |-> last.edges \union found]
    IN  after[depth]

\* Resolver.Expand along every relation.
ExpandRead(w, c, root, depth) ==
    IF Checked(w, c) /\ Present(w, c, root)
    THEN LET last == Walk(w, c, root, Clamp(depth))
         IN  [nodes |-> last.seen, edges |-> last.edges]
    ELSE Refused

-----------------------------------------------------------------------------
(***************************************************************************)
(* The authoring reads: facts, and where minds depart from them.           *)
(***************************************************************************)

\* assertionHolds
AssertionHolds(w, c, x) ==
    /\ Holds(x.valid, c.wl)
    /\ PresentStatement(w, c, x.statement)
    /\ x.other = NoId \/ Present(w, c, x.other)

PresentAgents(w, c) == {a \in Entities(w) : Agent(w, c, a)}

\* Wrong: an edge's priority is no part of the fact.
EdgeFactsOnly(w, c) ==
    UNION {{<<"edge", e, x.relation, x.target, 0>> :
               x \in {y \in Range(w.entity[e].edges) : EdgeHolds(w, c, e, y)}} : e \in Entities(w)}

EdgeFacts(w, c) ==
    UNION {{<<"edge", e, x.relation, x.target, x.priority>> :
               x \in {y \in Range(w.entity[e].edges) : EdgeHolds(w, c, e, y)}} : e \in Entities(w)}
BeliefFacts(w, c) ==
    UNION {{<<"belief", a, s, OwnBelief(w, c, a, s).held>> :
               s \in {t \in PresentStatements(w, c) : Own(w, c, a, t) # {}}} :
           a \in PresentAgents(w, c)}
AssertionFacts(w, c) ==
    UNION {{<<"assertion", a, x.other, x.statement, x.value>> :
               x \in {y \in Range(w.entity[a].asserts) : AssertionHolds(w, c, y)}} :
           a \in PresentAgents(w, c)}
StoryFacts(w, c) ==
    {<<"entity", e>> : e \in PresentIds(w, c)}
        \union {<<"statement", s, w.statement[s].truth>> : s \in PresentStatements(w, c)}

\* Resolver.facts
Facts(w, c) ==
    UNION {StoryFacts(w, c), EdgeFacts(w, c), BeliefFacts(w, c), AssertionFacts(w, c)}

\* Resolver.Diff
DiffRead(w, a, b) ==
    IF Checked(w, a) /\ Checked(w, b) /\ a.omniscient /\ b.omniscient
    THEN [onlyA |-> Facts(w, a) \ Facts(w, b), onlyB |-> Facts(w, b) \ Facts(w, a)]
    ELSE Refused

\* divergences
Heretic(w, c, a, s) ==
    LET own == OwnBelief(w, c, a, s)
        inherited == InheritedBelief(w, c, a, s)
    IN  IF own # Ignorance /\ inherited # Ignorance /\ own.held # inherited.held
        THEN {<<a, s, "heretic", own.held, inherited.held, inherited.via>>} ELSE {}

Deceived(w, c, a, s) ==
    LET held == ResolveBelief(w, c, a, s).held
        truth == w.statement[s].truth
    IN  IF {held, truth} = {"true", "false"}
        THEN {<<a, s, "deceived", held, truth, "canon">>} ELSE {}

Liar(w, c, a, s) ==
    LET b == ResolveBelief(w, c, a, s)
    IN  IF b = Ignorance THEN {}
        ELSE {<<a, s, "liar", b.held, x.value, x.other>> :
                 x \in {y \in Range(w.entity[a].asserts) :
                           y.statement = s /\ AssertionHolds(w, c, y) /\ y.value # b.held}}

\* Resolver.Divergence among every agent.
DivergenceRead(w, c) ==
    IF Checked(w, c) /\ c.omniscient
    THEN [found |-> UNION {Heretic(w, c, a, s) \union Deceived(w, c, a, s) \union Liar(w, c, a, s) :
                              a \in PresentAgents(w, c), s \in PresentStatements(w, c)}]
    ELSE Refused
=============================================================================
