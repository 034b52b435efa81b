------------------------------- MODULE World -------------------------------
(***************************************************************************)
(* What the files of a world say, and what the validator says of it        *)
(* (internal/world, internal/validate): entities with their relations,     *)
(* beliefs and assertions, and statements, each under the conditions of    *)
(* its valid_in.  Names, prose, intervals and visibility are left out: no  *)
(* read decides anything by them.                                          *)
(***************************************************************************)
EXTENDS Integers, Sequences, FiniteSets, Functions

CONSTANTS
    Types,         \* entity types of the schema pack
    Agents,        \* those in the agent group, with Faction
    Faction, Decision,
    Relations,     \* the pack's relations: name |-> RelationDef
    NoId           \* a field that names nobody

ASSUME PackOK ==
    /\ Agents \subseteq Types
    /\ Faction \in Agents /\ Decision \in Types \ Agents
    /\ \A r \in DOMAIN Relations :
           /\ DOMAIN Relations[r] = {"symmetric", "inverse", "role", "domain", "range"}
           /\ Relations[r].domain \subseteq Types /\ Relations[r].range \subseteq Types

(***************************************************************************)
(* A world has entity, a function on its entity IDs, and statement, one on *)
(* its statement IDs.  An entity has type, status, outcomes, valid (a      *)
(* sequence of conditions), and the sequences edges, beliefs and asserts;  *)
(* a statement has subject, relation, object, truth, common, status and    *)
(* valid.  A priority of 0 is an unnumbered one.                           *)
(***************************************************************************)
Entities(w) == DOMAIN w.entity
Statements(w) == DOMAIN w.statement

\* conditionKey without its order, for a list that names no condition twice.
SameConds(p, q) == Len(p) = Len(q) /\ Range(p) = Range(q)

-----------------------------------------------------------------------------
(***************************************************************************)
(* Faults that stop a build.                                               *)
(***************************************************************************)

\* checkConditions
CondsOK(w, conds) ==
    \A x \in Range(conds) :
        /\ x.decision \in Entities(w)
        /\ w.entity[x.decision].type = Decision
        /\ x.outcome \in w.entity[x.decision].outcomes

\* Wrong: the target is not looked up.
TripleNoTarget(w, from, r, to) ==
    /\ r \in DOMAIN Relations
    /\ from \in Entities(w)
    /\ w.entity[from].type \in Relations[r].domain

\* checkRelationName, resolveEntity, and the domain and range of the relation.
TripleOK(w, from, r, to) ==
    /\ r \in DOMAIN Relations
    /\ {from, to} \subseteq Entities(w)
    /\ w.entity[from].type \in Relations[r].domain
    /\ w.entity[to].type \in Relations[r].range

\* checkEntityEdges
EdgesOK(w, e) ==
    \A x \in Range(w.entity[e].edges) :
        CondsOK(w, x.valid) /\ TripleOK(w, e, x.relation, x.target)

\* checkBeliefs and checkAssertions: what an agent holds and what it says name
\* a statement, and the other mind, if any, is an entity.
ClaimsOK(w, claims) ==
    \A x \in Range(claims) :
        /\ CondsOK(w, x.valid)
        /\ x.statement \in Statements(w)
        /\ x.other \in Entities(w) \union {NoId}

\* checkEntityFields and checkOutcomes
FieldsOK(e) ==
    /\ e.type \in Types
    /\ e.type = Decision <=> e.outcomes # {}

\* checkDuplicateEdges: no edge is authored twice under the same conditions,
\* and no symmetric one from both its ends.
AuthoredOnce(w) ==
    \A e \in Entities(w) :
        LET own == w.entity[e].edges
        IN  /\ \A i, j \in DOMAIN own :
                   /\ own[i].relation = own[j].relation
                   /\ own[i].target = own[j].target
                   /\ SameConds(own[i].valid, own[j].valid)
                   => i = j
            /\ \A x \in Range(own) :
                   Relations[x.relation].symmetric /\ x.target # e =>
                       \A y \in Range(w.entity[x.target].edges) :
                           y.relation = x.relation => y.target # e

\* Validate finds no error.
Sound(w) ==
    /\ \A e \in Entities(w) :
           /\ FieldsOK(w.entity[e])
           /\ CondsOK(w, w.entity[e].valid)
           /\ EdgesOK(w, e)
           /\ ClaimsOK(w, w.entity[e].beliefs)
           /\ ClaimsOK(w, w.entity[e].asserts)
    /\ \A s \in Statements(w) :
           LET d == w.statement[s]
           IN  CondsOK(w, d.valid) /\ TripleOK(w, d.subject, d.relation, d.object)
    /\ AuthoredOnce(w)

-----------------------------------------------------------------------------
(***************************************************************************)
(* The warning on inherited beliefs, warnInheritedConflicts.               *)
(***************************************************************************)
IsMembership(r) == r \in DOMAIN Relations /\ Relations[r].role = "membership"

\* exclusive: no worldline meets all the conditions.
Exclusive(conds) == \E x, y \in conds : x.decision = y.decision /\ x.outcome # y.outcome

\* Wrong: of two unnumbered memberships the first in the file is taken to win.
PriorityOrdersFile(p, q) == p # q \/ p = 0

PriorityOrders(p, q) == p # q

\* The beliefs on s that agent a could inherit: the memberships of a, each
\* with a belief of its faction.
Inheritable(w, a, s) ==
    UNION {{[by |-> m, belief |-> b] :
               b \in {x \in Range(w.entity[m.target].beliefs) : x.statement = s}} :
           m \in {x \in Range(w.entity[a].edges) : IsMembership(x.relation)}}

BelievesItself(w, a, s) == \E b \in Range(w.entity[a].beliefs) : b.statement = s

\* Two factions of a disagree on s, at once, and no priority is between them.
Conflict(w, a, s) ==
    \E x, y \in Inheritable(w, a, s) :
        /\ x.by.target # y.by.target
        /\ x.belief.value # y.belief.value
        /\ ~PriorityOrders(x.by.priority, y.by.priority)
        /\ ~Exclusive(UNION {Range(x.by.valid), Range(y.by.valid),
                             Range(x.belief.valid), Range(y.belief.valid)})

ConflictWarned(w, a, s) ==
    /\ w.entity[a].type \in Agents \ {Faction}
    /\ ~BelievesItself(w, a, s)
    /\ Conflict(w, a, s)
=============================================================================
