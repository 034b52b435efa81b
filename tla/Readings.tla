------------------------------ MODULE Readings ------------------------------
(***************************************************************************)
(* A world that its authors change one thing at a time, the index built    *)
(* from it (internal/index: Load and Compile), and what the resolver       *)
(* answers from that index under every context.                            *)
(***************************************************************************)
EXTENDS Resolver

CONSTANTS
    Ids, StmtIds,  \* IDs of entities and of statements
    Outcomes,      \* outcomes of decisions
    BaseWorlds,    \* worlds the authors may begin from
    Valids,        \* valid_in lists they may write
    Priorities,    \* priorities they may write; 0 removes one
    StatusSets,    \* sets of statuses a context may read
    MaxEdits       \* bound: changes to the files

Truths == {"true", "false", "unresolved"}
Statuses == {"canon", "draft"}

Conditions == Seq([decision : Ids, outcome : Outcomes])
Edge == [relation : DOMAIN Relations, target : Ids, priority : Nat, valid : Conditions]
Claim == [statement : StmtIds, value : {"true", "false"}, other : Ids \union {NoId}, valid : Conditions]
Entity == [type : Types, status : Statuses, outcomes : SUBSET Outcomes, valid : Conditions,
           edges : Seq(Edge), beliefs : Seq(Claim), asserts : Seq(Claim)]
Statement == [subject : Ids, relation : DOMAIN Relations, object : Ids, truth : Truths,
              common : BOOLEAN, status : Statuses, valid : Conditions]

IsWorld(w) ==
    /\ w \in [entity : [Entities(w) -> Entity], statement : [Statements(w) -> Statement]]
    /\ Entities(w) \subseteq Ids /\ Statements(w) \subseteq StmtIds

ASSUME ReadingsOK ==
    /\ Valids \subseteq Conditions /\ Priorities \subseteq Nat
    /\ NoId \notin Ids
    /\ \A w \in BaseWorlds : IsWorld(w) /\ Sound(w)

VARIABLES
    files,         \* the world the files hold
    index,         \* the one the last good build compiled
    edits          \* changes made so far

vars == <<files, index, edits>>

Init ==
    /\ files \in BaseWorlds
    /\ index = files
    /\ edits = 0

\* Load: a world with a fault leaves the index of the last good build.
Loaded(w) == IF Sound(w) THEN w ELSE index

\* A read loads the files first if they changed (Serving), so none comes
\* between a change and the load after it.
Change(w) ==
    /\ edits < MaxEdits /\ edits' = edits + 1
    /\ files' = w
    /\ index' = Loaded(w)

\* What an author makes of an entity's file d, through the editor or outside it.
Conditioned(d) ==
    {[d EXCEPT !.valid = v] : v \in Valids}
        \union {[d EXCEPT !.edges[i].valid = v] : i \in DOMAIN d.edges, v \in Valids}
        \union {[d EXCEPT !.beliefs[i].valid = v] : i \in DOMAIN d.beliefs, v \in Valids}

Ranked(d) == {[d EXCEPT !.edges[i].priority = p] : i \in DOMAIN d.edges, p \in Priorities}
Published(d) == {[d EXCEPT !.status = t] : t \in Statuses}

\* And of a statement's file d.
Rewritten(d) ==
    {[d EXCEPT !.valid = v] : v \in Valids}
        \union UNION {{[d EXCEPT !.truth = t, !.common = b] : b \in BOOLEAN} : t \in Truths}

EditEntity(e) ==
    \E d \in Conditioned(files.entity[e]) \union Ranked(files.entity[e]) \union Published(files.entity[e]) :
        Change([files EXCEPT !.entity[e] = d])

EditStatement(s) ==
    \E d \in Rewritten(files.statement[s]) : Change([files EXCEPT !.statement[s] = d])

DeleteEntity(e) ==
    Change([files EXCEPT !.entity = [f \in Entities(files) \ {e} |-> files.entity[f]]])

Next ==
    \/ \E e \in Entities(files) : EditEntity(e) \/ DeleteEntity(e)
    \/ \E s \in Statements(files) : EditStatement(s)

Spec == Init /\ [][Next]_vars

-----------------------------------------------------------------------------
(***************************************************************************)
(* The contexts and the reads under them.                                  *)
(***************************************************************************)
Decisions == {e \in Entities(index) : index.entity[e].type = Decision}
Worldlines ==
    UNION {[D -> UNION {index.entity[d].outcomes : d \in D}] : D \in SUBSET Decisions}

Contexts ==
    {c \in [omniscient : BOOLEAN, knower : Entities(index) \union {NoId},
            wl : Worldlines, statuses : StatusSets] :
        /\ c.omniscient <=> c.knower = NoId
        /\ Checked(index, c)}
Omniscient == {c \in Contexts : c.omniscient}

Answers(w, c) ==
    [entities |-> EntitiesRead(w, c),
     entity |-> [e \in Entities(index) |-> EntityRead(w, c, e)],
     beliefs |-> [e \in Entities(index) |-> BeliefsRead(w, c, e)],
     expand |-> [e \in Entities(index) |-> ExpandRead(w, c, e, MaxDepth)],
     facts |-> DiffRead(w, c, [c EXCEPT !.wl = <<>>]),
     divergence |-> DivergenceRead(w, c)]

\* What a context may learn of, filtered first: the entities of its branch and
\* statuses, the edges, statements and claims of its branch among them, and of
\* the rest of the world nothing.  A scoped one learns what is true only where
\* that is common knowledge, and what is believed only by itself and by the
\* factions it is a member of.
StatementsTold(w, c) ==
    {s \in Statements(w) :
        /\ Holds(w.statement[s].valid, c.wl) /\ Admits(c, w.statement[s].status)
        /\ {w.statement[s].subject, w.statement[s].object} \subseteq PresentIds(w, c)}

Known(w, c, e) ==
    \/ c.omniscient \/ e = c.knower
    \/ e \in {w.entity[c.knower].edges[i].target : i \in Memberships(w, c, c.knower)}

\* What is left of a list keeps its place in it: places only say what comes
\* first.
EdgesTold(w, c, list) ==
    Restrict(list, {i \in DOMAIN list : Holds(list[i].valid, c.wl) /\ list[i].target \in PresentIds(w, c)})

\* The claims on what is told, without the minds that are absent.
ClaimsTold(w, c, list) ==
    [i \in {j \in DOMAIN list : Holds(list[j].valid, c.wl) /\ list[j].statement \in StatementsTold(w, c)} |->
        [list[i] EXCEPT !.other = IF @ \in PresentIds(w, c) THEN @ ELSE NoId]]

\* Those said to anyone, or to one who is there.
Heard(w, c, list) ==
    Restrict(list, {i \in DOMAIN list : list[i].other \in PresentIds(w, c) \union {NoId}})

Story(w, c) ==
    [entity |-> [e \in PresentIds(w, c) |->
        [w.entity[e] EXCEPT
            !.edges = EdgesTold(w, c, @),
            !.beliefs = IF Known(w, c, e) THEN ClaimsTold(w, c, @) ELSE <<>>,
            !.asserts = IF c.omniscient THEN ClaimsTold(w, c, Heard(w, c, @)) ELSE <<>>]],
     statement |-> [s \in StatementsTold(w, c) |->
        [w.statement[s] EXCEPT
            !.truth = IF c.omniscient \/ w.statement[s].common THEN @ ELSE "unresolved"]]]

-----------------------------------------------------------------------------
TypeOK ==
    /\ IsWorld(files) /\ IsWorld(index)
    /\ edits \in 0..MaxEdits

\* The index names nothing that is not in it: a world with a dangling
\* reference is never compiled (index.Load).
Conditional(conds) ==
    \A x \in Range(conds) : x.decision \in Entities(index) /\ x.outcome \in index.entity[x.decision].outcomes

IndexClosed ==
    /\ \A e \in Entities(index) :
           LET d == index.entity[e]
           IN  /\ Conditional(d.valid)
               /\ \A x \in Range(d.edges) : x.target \in Entities(index) /\ Conditional(x.valid)
               /\ \A x \in Range(d.beliefs) \union Range(d.asserts) :
                      /\ x.statement \in Statements(index) /\ Conditional(x.valid)
                      /\ x.other \in Entities(index) \union {NoId}
    /\ \A s \in Statements(index) :
           /\ {index.statement[s].subject, index.statement[s].object} \subseteq Entities(index)
           /\ Conditional(index.statement[s].valid)

\* No read tells of anything outside the context's story: every answer is the
\* one a world that holds nothing else would give (doc.go: what does not hold
\* "does not exist in that reading of the story").
OnlyTheStory ==
    \A c \in Contexts : Answers(index, c) = Answers(Story(index, c), c)

\* A worldline that decides more takes no entity, edge, statement or assertion
\* of the story away: only what is believed may change.
Extends(d, c) ==
    /\ d.statuses = c.statuses
    /\ \A x \in DOMAIN c.wl : x \in DOMAIN d.wl /\ d.wl[x] = c.wl[x]

Told(w, c) == StoryFacts(w, c) \union EdgeFacts(w, c) \union AssertionFacts(w, c)

MoreToldMoreFacts ==
    \A c, d \in Omniscient : Extends(d, c) => Told(index, c) \subseteq Told(index, d)

\* The order in which a file lists its relations decides no belief, in any
\* context, where the validator sees nothing to warn of and the agent has no
\* belief of its own (warnInheritedConflicts).
Reordered(w, a, p) ==
    LET list == w.entity[a].edges
    IN  [w EXCEPT !.entity[a].edges = [i \in DOMAIN list |-> list[p[i]]]]
OrderDecides(a, s) ==
    \E c \in Omniscient :
        /\ Agent(index, c, a) /\ PresentStatement(index, c, s)
        /\ \E p \in Bijection(DOMAIN index.entity[a].edges, DOMAIN index.entity[a].edges) :
               ResolveBelief(Reordered(index, a, p), c, a, s).held # ResolveBelief(index, c, a, s).held

OrderWarned ==
    \A a \in Entities(index), s \in Statements(index) :
        OrderDecides(a, s) => ConflictWarned(index, a, s) \/ BelievesItself(index, a, s)

\* Agent a is a member of an entity that is none, as a project's own pack may
\* permit, and inherits from it what is no fact.
OfNoAgent(w, a, s) ==
    \E x \in Range(w.entity[a].edges) :
        /\ IsMembership(x.relation)
        /\ w.entity[x.target].type \notin Agents /\ BelievesItself(w, x.target, s)

\* Agent a holds the same of s under contexts that show the same facts.
MindTold(a, s, told) ==
    \A x, y \in told :
        x[2] = y[2] /\ a \in PresentAgents(index, x[1]) /\ s \in PresentStatements(index, x[1]) =>
            ResolveBelief(index, x[1], a, s).held = ResolveBelief(index, y[1], a, s).held

\* Where two worldlines show the same facts every mind is the same: what is
\* inherited or common follows from other facts (diff.go, Fact), but where two
\* factions of an agent disagree with no priority between them, or what it
\* believes comes from an entity that is no agent.
DiffTellsMinds ==
    LET told == {<<c, Facts(index, c)>> : c \in Omniscient}
    IN  \A a \in Entities(index), s \in Statements(index) :
            Conflict(index, a, s) \/ OfNoAgent(index, a, s) \/ MindTold(a, s, told)

\* What diff.go:28-29 says: "Only an agent's own belief is a fact; inherited and
\* common beliefs follow from other facts".  Agents whose factions disagree
\* unranked, of which the validator warns, are left out. It is not so, and no run
\* lists it: MCOwnWorlds is a project for which it fails.
InheritedFollows ==
    LET told == {<<c, Facts(index, c)>> : c \in Omniscient}
    IN  \A a \in Entities(index), s \in Statements(index) :
            Conflict(index, a, s) \/ MindTold(a, s, told)

\* Expand shows every entity within depth hops and the edges of those nearer
\* than that, and one hop is to the other ends of the edges Entity shows.
ExpandExact ==
    \A c \in Omniscient : \A e \in PresentIds(index, c) :
        LET read(n) == ExpandRead(index, c, e, n)
            near == <<read(1), read(2), read(3)>>
        IN  /\ read(0) = near[1] /\ read(4) = near[3]
            /\ near[1].nodes = {e} \union {x[3] : x \in EntityRead(index, c, e).edges}
            /\ \A n \in 1..2 :
                   LET found == EdgesAt(index, c, near[n].nodes)
                   IN  near[n + 1] = [nodes |-> near[n].nodes \union Ends(found), edges |-> found]
=============================================================================
