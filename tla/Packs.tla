-------------------------------- MODULE Packs --------------------------------
(***************************************************************************)
(* The vocabulary of a world (internal/schema): a project's schema pack    *)
(* loaded from its files and merged over the core pack of the lorekeep     *)
(* version in use.  The author edits the project's pack and switches       *)
(* versions; every build and every page merges the two anew.  Prefixes,    *)
(* descriptions and which error is reported are left out: a pack loads or  *)
(* it is refused.                                                          *)
(***************************************************************************)
EXTENDS Naturals, Sequences, SequencesExt

CONSTANTS
    Releases,    \* the core packs of lorekeep's versions
    Folded,      \* names with their lower case
    TypeNames,   \* what the author may declare: entity types,
    GroupDecls,  \* groups,
    RelDecls,    \* relations,
    RoleNames,   \* roles
    ActKeys,     \* and acts
    Pins,        \* what pack.yaml may say of the core version
    MaxEdits     \* bound: edits of the project's pack

VARIABLES
    core,       \* which of the releases is in use
    project,    \* the project's pack as its files declare it
    edits       \* edits so far

packVars == <<core, project, edits>>

NoName == ""
NoVersion == <<>>     \* none, or one that parseVersion refuses
wildcard == "*"
Refused == [refused |-> TRUE]

NamesOf(decls) == [i \in DOMAIN decls |-> decls[i].name]
InversesOf(decls) == [i \in DOMAIN decls |-> decls[i].inverse]

\* The names a pack claims in one namespace, each for the declaration it is of.
Claims(what, names) == {[of |-> what, at |-> i, name |-> names[i]] : i \in DOMAIN names}
RelationClaims(p) ==
    Claims("relation", NamesOf(p.relations))
        \cup {c \in Claims("inverse", InversesOf(p.relations)) : c.name # NoName}
KindClaims(p) == Claims("type", p.types) \cup Claims("group", NamesOf(p.groups))

HasType(p, name) == name \in Range(p.types)
GroupNames(p) == Range(NamesOf(p.groups))
HasGroup(p, name) == name \in GroupNames(p)

-----------------------------------------------------------------------------
(* loadFS: what a pack must be by itself. *)

\* namespace.claim: no two names are one when case is ignored.
Apart(claims) == \A a, b \in claims : a # b => Folded[a.name] # Folded[b.name]
Named(claims) == \A a \in claims : a.name # NoName

\* readPackMeta: a project pins a core version, the core pack none.
checkMeta(p) ==
    /\ p.version # NoVersion
    /\ p.source = "project" <=> p.pin # NoVersion

reservedTypeNames == {"statement"}

checkTypes(p) ==
    /\ Named(KindClaims(p)) /\ Apart(KindClaims(p))
    /\ \A a \in KindClaims(p) : Folded[a.name] \notin reservedTypeNames
    /\ \A g \in Range(p.groups) : g.includes # <<>>

checkRelations(p) ==
    /\ Named(Claims("relation", NamesOf(p.relations))) /\ Apart(RelationClaims(p))
    /\ \A r \in Range(p.relations) :
        /\ r.domain # <<>> /\ r.range # <<>>
        /\ r.symmetric => r.inverse = NoName /\ ToBag(r.domain) = ToBag(r.range)

checkKeys(p) ==
    \A keys \in {p.roles, p.eras, p.acts} : Named(Claims("key", keys)) /\ Apart(Claims("key", keys))

\* Every file that is there parses, and the pack holds together.
Loads(p) == p.parses /\ checkMeta(p) /\ checkTypes(p) /\ checkRelations(p) /\ checkKeys(p)

-----------------------------------------------------------------------------
(***************************************************************************)
(* groupExpansion: the types a group covers, found depth first.  A memo    *)
(* says for which groups this is done and what was found, nothing for the  *)
(* others, so a group met again while it is being visited adds nothing.    *)
(***************************************************************************)
Memos(p) == [done : SUBSET GroupNames(p), out : [GroupNames(p) -> SUBSET Range(p.types)]]
Visits(p) == [name : GroupNames(p), seen : SUBSET GroupNames(p), memo : Memos(p)]
NoneDone(p) == [done |-> {}, out |-> [name \in GroupNames(p) |-> {}]]

byName(p, name) == p.groups[Min({i \in DOMAIN p.groups : p.groups[i].name = name})]

\* Wrong: groups are expanded in the order of their files.
NoneNested(p, g) == {}
\* Which of the things a group includes are visited.
Nested(p, g) ==
    {i \in DOMAIN g.includes :
        LET n == g.includes[i] IN n # wildcard /\ ~HasType(p, n) /\ HasGroup(p, n)}

\* What one of them adds to the types of the group.
Included(p, out, name) ==
    CASE name = wildcard -> Range(p.types)
      [] name # wildcard /\ HasType(p, name) -> {name}
      [] name # wildcard /\ ~HasType(p, name) /\ HasGroup(p, name) -> out[name]
      [] OTHER -> {}

\* Some of these names visited in turn, each with the memo the last one left.
InTurn(visit, names, which, seen, memo) ==
    LET after[i \in 0..Len(names)] ==
            IF i = 0 THEN memo
            ELSE IF i \in which
                 THEN visit[[name |-> names[i], seen |-> seen, memo |-> after[i - 1]]]
                 ELSE after[i - 1]
    IN  after[Len(names)]

Noted(p, name, memo) ==
    [done |-> memo.done \cup {name},
     out |-> [memo.out EXCEPT ![name] =
                  UNION {Included(p, memo.out, n) : n \in Range(byName(p, name).includes)}]]

Visited(p, visit, v) ==
    LET g == byName(p, v.name)
    IN  IF v.name \in v.memo.done \cup v.seen THEN v.memo
        ELSE Noted(p, v.name,
                   InTurn(visit, g.includes, Nested(p, g), v.seen \cup {v.name}, v.memo))

visitor(p) == LET visit[v \in Visits(p)] == Visited(p, visit, v) IN visit

groupExpansion(p) ==
    InTurn(visitor(p), NamesOf(p.groups), DOMAIN p.groups, {}, NoneDone(p)).out

\* resolveTypes: names that lead to nothing are dropped.
resolveTypes(p, expand, listed) ==
    UNION {CASE HasType(p, n) -> {n}
             [] ~HasType(p, n) /\ HasGroup(p, n) -> expand[n]
             [] OTHER -> {} : n \in Range(listed)}

\* index: the types that each relation permits at its ends.  A name leads to
\* its first declaration, and to the ends of its last one.
Declared(p, name) == {i \in DOMAIN p.relations : p.relations[i].name = name}
InverseOf(p, name) == {i \in DOMAIN p.relations : p.relations[i].inverse = name}
index(p) ==
    LET expand == groupExpansion(p)
    IN  [name \in Range(NamesOf(p.relations)) |->
            LET r == p.relations[Max(Declared(p, name))]
            IN  [domain |-> resolveTypes(p, expand, r.domain),
                 range |-> resolveTypes(p, expand, r.range)]]

\* checkRelationName of the validator: what a relation in a world file means.
Means(p, name) ==
    CASE InverseOf(p, name) # {} -> [inverseOf |-> p.relations[Min(InverseOf(p, name))].name]
      [] InverseOf(p, name) = {} /\ Declared(p, name) # {} ->
            [relation |-> p.relations[Min(Declared(p, name))]]
      [] OTHER -> [unknown |-> name]

-----------------------------------------------------------------------------
(* Merge. *)

checkTierRules(c, p) == c.eras = <<>> /\ c.acts = <<>> /\ p.roles = <<>>

\* version.compare.
Older(a, b) ==
    \E i \in 1..3 : a[i] < b[i] /\ \A j \in 1..(i - 1) : a[j] = b[j]
checkCoreVersion(c, p) == p.pin[1] = c.version[1] /\ ~Older(c.version, p.pin)

\* crossNamespace: nothing the project claims is the core's, whatever its case.
Free(claimed, held) == \A a \in claimed, b \in held : Folded[a.name] # Folded[b.name]
\* Wrong: what a name derives is not looked at.
checkDeclared(c, p) ==
    /\ Free(Claims("relation", NamesOf(p.relations)), Claims("relation", NamesOf(c.relations)))
    /\ Free(KindClaims(p), KindClaims(c))
\* Wrong: a relation is not taken for the core's when the two have inverses.
checkDerived(c, p) ==
    /\ Free(RelationClaims(p) \ Claims("relation", NamesOf(p.relations)), RelationClaims(c))
    /\ Free(KindClaims(p), KindClaims(c))
checkCollisions(c, p) ==
    /\ Free(RelationClaims(p), RelationClaims(c))
    /\ Free(KindClaims(p), KindClaims(c))

Known(m, name) == HasType(m, name) \/ HasGroup(m, name)

checkGroups(m) ==
    LET expand == groupExpansion(m)
    IN  \A g \in Range(m.groups) :
            /\ \A name \in Range(g.includes) : name = wildcard \/ Known(m, name)
            /\ expand[g.name] = {} => \E name \in Range(g.includes) : ~HasGroup(m, name)

checkCrossReferences(m) ==
    \A r \in Range(m.relations) :
        /\ \A name \in Range(r.domain \o r.range) : Known(m, name)
        /\ r.role = NoName \/ r.role \in Range(m.roles)

Merged(c, p) ==
    [p EXCEPT !.source = "merged", !.types = c.types \o @, !.groups = c.groups \o @,
              !.roles = c.roles \o @, !.relations = c.relations \o @,
              !.eras = c.eras \o @, !.acts = c.acts \o @]

Merge(c, p) ==
    IF /\ checkTierRules(c, p) /\ checkCoreVersion(c, p) /\ checkCollisions(c, p)
       /\ checkGroups(Merged(c, p)) /\ checkCrossReferences(Merged(c, p))
    THEN Merged(c, p)
    ELSE Refused

\* LoadProject.
LoadProject(c, p) == IF Loads(c) /\ Loads(p) THEN Merge(c, p) ELSE Refused

Pack == LoadProject(Releases[core], project)

-----------------------------------------------------------------------------
Empty(version) ==
    [source |-> "project", parses |-> TRUE, version |-> <<0, 1, 0>>, pin |-> version,
     types |-> <<>>, groups |-> <<>>, roles |-> <<>>, relations |-> <<>>,
     eras |-> <<>>, acts |-> <<>>]

\* TestCoreIsSelfConsistent: the releases' own packs hold together.
ASSUME ReleasesOK ==
    \A i \in DOMAIN Releases :
        LoadProject(Releases[i], Empty(Releases[i].version)) # Refused

\* What is declared are lists of declarations, and what these name are lists.
IsListed(s) == s \in Seq(Range(s))
ListsIn(groups, relations) ==
    /\ \A g \in groups : IsListed(g.includes)
    /\ \A r \in relations : IsListed(r.domain) /\ IsListed(r.range)
IsPack(p) ==
    /\ IsListed(p.types) /\ IsListed(p.groups) /\ IsListed(p.relations) /\ IsListed(p.roles)
    /\ IsListed(p.eras) /\ IsListed(p.acts)
    /\ ListsIn(Range(p.groups), Range(p.relations))
ASSUME DeclsOK == ListsIn(GroupDecls, RelDecls) /\ \A i \in DOMAIN Releases : IsPack(Releases[i])

ASSUME EditsOK == MaxEdits \in Nat

PackInit ==
    /\ core \in DOMAIN Releases
    /\ project = Empty(Releases[core].version)
    /\ edits = 0

Edited(p) ==
    /\ edits < MaxEdits /\ edits' = edits + 1
    /\ project' = p
    /\ UNCHANGED core

\* The author writes a declaration first or last in its file, or takes one out.
Writes(section, d) == \E p \in {<<d>> \o project[section], Append(project[section], d)} :
    Edited([project EXCEPT ![section] = p])
TakesOut(section) == \E i \in DOMAIN project[section] :
    Edited([project EXCEPT ![section] = RemoveAt(@, i)])
Repins(v) == Edited([project EXCEPT !.pin = v])
Garbles == Edited([project EXCEPT !.parses = ~@])

\* Another version of lorekeep runs the project.
Switch == \E c \in DOMAIN Releases \ {core} : core' = c /\ UNCHANGED <<project, edits>>

PackNext ==
    \/ \E t \in TypeNames : Writes("types", t)
    \/ \E g \in GroupDecls : Writes("groups", g)
    \/ \E r \in RelDecls : Writes("relations", r)
    \/ \E r \in RoleNames : Writes("roles", r)
    \/ \E k \in ActKeys : Writes("acts", k)
    \/ \E section \in {"types", "groups", "relations", "roles", "acts"} : TakesOut(section)
    \/ \E v \in Pins : Repins(v)
    \/ Garbles
    \/ Switch

PackSpec == PackInit /\ [][PackNext]_packVars

-----------------------------------------------------------------------------
\* What the author writes stays a pack, under a release there is.
Projects == [source : {"project"}, parses : BOOLEAN, version : {<<0, 1, 0>>},
             pin : Pins \cup {Releases[i].version : i \in DOMAIN Releases},
             types : Seq(TypeNames), groups : Seq(GroupDecls), roles : Seq(RoleNames),
             relations : Seq(RelDecls), eras : {<<>>}, acts : Seq(ActKeys)]
PackTypeOK == core \in DOMAIN Releases /\ edits \in 0..MaxEdits /\ project \in Projects

\* What a group covers, said without an order: the groups under it are those
\* in every set that has it and whatever groups its members include.
Direct(p, name) == UNION {Range(g.includes) : g \in {h \in Range(p.groups) : h.name = name}}
GroupsIn(p, name) == (Direct(p, name) \cap GroupNames(p)) \ {wildcard}
Closed(p, s) == \A n \in s : GroupsIn(p, n) \subseteq s
Under(p, name) ==
    {n \in GroupNames(p) : \A s \in SUBSET GroupNames(p) : Closed(p, s) /\ name \in s => n \in s}
Covers(p, name) ==
    LET said == UNION {Direct(p, n) : n \in Under(p, name)}
    IN  IF wildcard \in said THEN Range(p.types) ELSE said \cap Range(p.types)
InCycle(p, name) == \E n \in Under(p, name) : name \in GroupsIn(p, n)
LeadsToCycle(p, name) == \E n \in Under(p, name) : InCycle(p, n)

\* core/entity-types.yaml: no group of a release includes itself at any depth.
ASSUME CoresOK ==
    \A i \in DOMAIN Releases :
        \A name \in GroupNames(Releases[i]) : ~LeadsToCycle(Releases[i], name)

(***************************************************************************)
(* In a pack that merged, a group that leads to no cycle covers what it    *)
(* includes at any depth, types the project added under the wildcard       *)
(* included, whatever the order of the files and of the two packs          *)
(* (groupExpansion, pack.go:309).                                          *)
(***************************************************************************)
ExpansionExact ==
    Pack # Refused =>
        LET expand == groupExpansion(Pack)
        IN  \A name \in DOMAIN expand :
                ~LeadsToCycle(Pack, name) => expand[name] = Covers(Pack, name)

(***************************************************************************)
(* A project adds to the core's vocabulary and never changes it, and no    *)
(* version of the core changes what the project's own names mean           *)
(* (merge.go:12-19).  The core's relations mean what they mean in a        *)
(* project that declares nothing, and a relation of the project means what *)
(* the project wrote, under any core.                                      *)
(***************************************************************************)
EachKeepsItsOwn ==
    Pack # Refused =>
        LET c == Releases[core]
        IN  /\ \A claim \in RelationClaims(c) : Means(Pack, claim.name) = Means(c, claim.name)
            /\ \A r \in Range(project.relations) : Means(Pack, r.name) = [relation |-> r]

(***************************************************************************)
(* The ends of the core's relations permit a type of the core as they do   *)
(* without a project, and a type of the project as if it were the only     *)
(* thing the project declared, so that one joins the core's groups by the  *)
(* wildcard alone (index, pack.go:286).                                    *)
(***************************************************************************)
CoreWith(c, t) == Merged(c, [Empty(c.version) EXCEPT !.types = IF t \in Range(c.types) THEN <<>> ELSE <<t>>])
EndsKept ==
    Pack # Refused =>
        LET all == index(Pack)
        IN  \A t \in Range(Pack.types) :
                LET alone == index(CoreWith(Releases[core], t))
                IN  \A name \in DOMAIN alone :
                        /\ t \in all[name].domain <=> t \in alone[name].domain
                        /\ t \in all[name].range <=> t \in alone[name].range
=============================================================================
