--------------------------- MODULE RelationEdits ---------------------------
(***************************************************************************)
(* The relations panel (internal/editor/relations.go) and the condition    *)
(* chips (fields.go, condEdit): edits that name a relation by its place in *)
(* a list, sent from panels that may have been rendered before the list    *)
(* changed.                                                                *)
(*                                                                         *)
(* A relation is its type and target (one key), its note (the priority     *)
(* behaves the same) and its valid_in.  Its uid, which no code sees, tells *)
(* which relation an edit was meant for and which one it landed on.        *)
(***************************************************************************)
EXTENDS Naturals, Sequences, FiniteSets, SequencesExt

CONSTANTS
    Tabs,          \* browser windows on the entity's page
    Keys,          \* a relation type with a target
    Notes,         \* the notes of a relation
    NoNote,        \* the note of a relation that has none
    Conds,         \* conditions of a valid_in
    Worldline,     \* the conditions that hold in the editor's worldline
    BaseLists,     \* relation lists a file may have: sequences of Relation
    MaxEdits     \* bound: edits in one draft

Relation == [key : Keys, note : Notes, valid : SUBSET Conds]
None == [kind |-> "none"]

ASSUME ListsOK ==
    /\ BaseLists \subseteq Seq(Relation)
    /\ Worldline \subseteq Conds
    /\ NoNote \in Notes
    /\ MaxEdits \in Nat

VARIABLES
    relations, \* the file's relations when the draft began
    open,      \* those of them the panel lets the writer edit
    list,      \* the draft's relations: the changes applied to those (Draft.Bytes)
    changes,   \* the draft's changes to the list, each with its index
    broken,    \* a change does not apply: Draft.Bytes fails
    panel,     \* the rows each tab shows
    pending,   \* a condEdit of each tab, between its check and its edit
    hit,       \* the edit just made: what it changed, was that the relation of the row, is
               \* that one hidden, and had the writer seen the list as it was
    cut        \* history: the tabs whose condEdit has checked a list that was then cut short

panelVars == <<relations, open, list, changes, broken, panel, pending, hit, cut>>

NewRow == 0
Places(s) == 1..Len(s)

\* The place an item has in the file: what replayRelations works out.
PlaceOf(item) == IF item.uid <= Len(relations) THEN item.uid ELSE NewRow
WithUid(l) == [i \in Places(l) |-> [uid |-> i, rel |-> l[i]]]

-----------------------------------------------------------------------------
(***************************************************************************)
(* The panel: relPanelFor.                                                 *)
(***************************************************************************)

\* Wrong: a removed item keeps its place.
ReplayAddsOnly(origin, c) == IF c.op = "add" THEN Append(origin, NewRow) ELSE origin

\* One change: an edit inside an item keeps its place and its origin.  A list taken
\* out, or replaced by one of c.at items, is one no edit of the panel makes.
ReplayOne(origin, c) ==
    CASE c.op = "clear" -> <<>>
      [] c.op = "replace" -> [i \in 1..c.at |-> NewRow]
      [] c.op = "add" -> Append(origin, NewRow)
      [] c.op = "delete" /\ c.at \in Places(origin) -> RemoveAt(origin, c.at)
      [] OTHER -> origin

\* replayRelations: the place in the file of each item of the draft's list.
Replay(n, cs) ==
    LET after[k \in 0..Len(cs)] ==
            IF k = 0 THEN [i \in 1..n |-> i] ELSE ReplayOne(after[k - 1], cs[k])
    IN  after[Len(cs)]

\* relKey: what an edge the resolver shows says of a relation; no valid_in.
ShownKey(r) == <<r.key, r.note>>
Holds(r) == r.valid \subseteq Worldline

\* matchShown, for the relation at i of the file: the relations under its key, how
\* many edges the resolver shows for that key, and what that tells of i.
Candidates(i) == {j \in Places(relations) : ShownKey(relations[j]) = ShownKey(relations[i])}
EdgeCount(i) == Cardinality({j \in Candidates(i) : Holds(relations[j])})
Rank(i) == Cardinality({j \in Candidates(i) : j <= i})
Differ(i) == \E j, k \in Candidates(i) : relations[j].valid # relations[k].valid

Shown(i) == Rank(i) <= EdgeCount(i)
Ambiguous(i) == Shown(i) /\ EdgeCount(i) < Cardinality(Candidates(i)) /\ Differ(i)

Editable == {i \in Places(relations) : Shown(i) /\ ~Ambiguous(i)}

\* authoredRows that can be edited: an ambiguous one shows with no index.
Rows ==
    LET origin == Replay(Len(relations), changes)
    IN  {[at |-> i, key |-> list[i].rel.key, uid |-> list[i].uid] :
            i \in {j \in Places(list) \intersect Places(origin) :
                      origin[j] \in open \union {NewRow}}}

\* answerPanel and View: the tab's panel is rendered anew.
Render(t) == panel' = [panel EXCEPT ![t] = Rows']

-----------------------------------------------------------------------------
PanelInit ==
    /\ relations \in BaseLists
    /\ open = Editable
    /\ list = WithUid(relations)
    /\ changes = <<>> /\ broken = FALSE
    /\ panel = [t \in Tabs |-> Rows]
    /\ pending = [t \in Tabs |-> None]
    /\ hit = None /\ cut = {}

View(t) ==
    /\ ~broken
    /\ hit' = None
    /\ UNCHANGED <<relations, open, list, changes, broken, pending>>
    /\ Render(t)

Hidden(item) == PlaceOf(item) # NewRow /\ ~Holds(relations[PlaceOf(item)])

\* An edit meant for the row's relation, made to the item at i if there is one.
Hit(kind, row, i, fresh) ==
    LET landed == i \in Places(list)
    IN  [kind |-> kind, fresh |-> fresh,
         right |-> landed => list[i].uid = row.uid,
         hidden |-> landed /\ Hidden(list[i])]

\* The list changed: no condEdit under way has seen it as it is now.
Unseen == [u \in Tabs |-> IF pending[u] = None THEN None ELSE [pending[u] EXCEPT !.seen = FALSE]]

Room == Len(changes) < MaxEdits /\ ~broken
\* A change inside an item keeps every place, so it is logged without its own.
Log(op, i) == changes' = Append(changes, [op |-> op, at |-> i])

\* Wrong: the edit goes to the first relation of the row's type and target.
FirstLike(row) ==
    CHOOSE i \in Places(list) :
        list[i].rel.key = row.key /\ \A j \in 1..(i - 1) : list[j].rel.key # row.key

\* The relation a row's edit goes to, if it is of the row's type and target:
\* otherwise errRowMoved.
PlaceFor(row) == row.at
AtRow(row) == row.at \in Places(list) /\ list[row.at].rel.key = row.key

\* relationEdit with relationRemove.
RelationRemove(t) ==
    /\ Room
    /\ \E row \in panel[t] :
           /\ AtRow(row)
           /\ list' = RemoveAt(list, PlaceFor(row))
           /\ Log("delete", PlaceFor(row))
           /\ hit' = Hit("relation", row, PlaceFor(row), panel[t] = Rows)
    /\ pending' = Unseen
    /\ UNCHANGED <<relations, open, broken>>
    /\ Render(t)

\* relationEdit with relationNote, or relationPriority.
RelationNote(t) ==
    /\ Room
    /\ \E row \in panel[t], n \in Notes :
           /\ AtRow(row)
           /\ list' = [list EXCEPT ![PlaceFor(row)].rel.note = n]
           /\ Log("set", 0)
           /\ hit' = Hit("relation", row, PlaceFor(row), panel[t] = Rows)
    /\ pending' = Unseen
    /\ UNCHANGED <<relations, open, broken>>
    /\ Render(t)

RowMoved(t) ==
    /\ ~broken
    /\ \E row \in panel[t] : ~AtRow(row)
    /\ hit' = None
    /\ UNCHANGED <<relations, open, list, changes, broken, pending>>
    /\ Render(t)

\* addRelation, for relationLink and createLinked.  A new relation's uid is
\* one no relation of this draft has had.
AddRelation(t) ==
    /\ Room
    /\ \E k \in Keys :
           list' = Append(list, [uid |-> Len(relations) + Len(changes) + 1,
                                 rel |-> [key |-> k, note |-> NoNote, valid |-> {}]])
    /\ Log("add", Len(list) + 1)
    /\ pending' = Unseen
    /\ hit' = None
    /\ UNCHANGED <<relations, open, broken>>
    /\ Render(t)

\* condsAt: a condition's path names its relation by index alone.
CondIndex(row) == row.at

\* Wrong: a path that is well-formed is taken for one of the draft.
InDraftUnread(row) == TRUE

\* condTargetOf: the path is in the draft, or the request is refused.
InDraft(row) == CondIndex(row) \in Places(list)

\* condEdit: condTargetOf finds the list in the draft; the edit itself runs
\* later, under the drafts lock, with nothing but the index to go by.
CondCheck(t) ==
    /\ ~broken /\ pending[t] = None
    /\ \E row \in panel[t], c \in Conds, op \in {"add", "remove"} :
           /\ InDraft(row)
           /\ pending' = [pending EXCEPT ![t] =
                             [kind |-> op, row |-> row, cond |-> c,
                              seen |-> panel[t] = Rows]]
    /\ hit' = None
    /\ UNCHANGED <<relations, open, list, changes, broken, panel>>

\* The change condEdit makes to the conditions at its path, which are none
\* when the path is not in the draft any more: then it does not apply.
Adds(j, conds) == j.kind = "add" /\ j.cond \notin conds
Removes(j, conds) == j.kind = "remove" /\ j.cond \in conds
CondsAt(i) == IF i \in Places(list) THEN list[i].rel.valid ELSE {}

CondEdit(t) ==
    /\ pending[t] # None /\ Room
    /\ LET j == pending[t]
           i == CondIndex(j.row)
       IN  \/ /\ Adds(j, CondsAt(i)) \/ Removes(j, CondsAt(i))
              /\ Log("set", 0)
              /\ hit' = Hit("condition", j.row, i, j.seen)
              /\ IF i \in Places(list)
                 THEN /\ list' = [list EXCEPT ![i].rel.valid =
                                     IF j.kind = "add" THEN @ \union {j.cond} ELSE @ \ {j.cond}]
                      /\ UNCHANGED broken
                 ELSE broken' = TRUE /\ UNCHANGED list
           \/ /\ ~Adds(j, CondsAt(i)) /\ ~Removes(j, CondsAt(i))
              /\ UNCHANGED <<list, changes, broken>> /\ hit' = None
    /\ pending' = [Unseen EXCEPT ![t] = None]
    /\ UNCHANGED <<relations, open, panel>>

\* A request that finds the draft unreadable fails.
CondFails(t) ==
    /\ pending[t] # None /\ broken
    /\ pending' = [pending EXCEPT ![t] = None]
    /\ hit' = None
    /\ UNCHANGED <<relations, open, list, changes, broken, panel>>

\* discard: back to the file; the tab's page is loaded again.
DiscardEdits(t) ==
    /\ changes # <<>>
    /\ list' = WithUid(relations) /\ changes' = <<>> /\ broken' = FALSE
    /\ hit' = None
    /\ pending' = Unseen
    /\ UNCHANGED <<relations, open>>
    /\ Render(t)

Moves ==
    \E t \in Tabs :
        \/ View(t) \/ RelationRemove(t) \/ RelationNote(t) \/ RowMoved(t) \/ AddRelation(t)
        \/ CondCheck(t) \/ CondEdit(t) \/ CondFails(t) \/ DiscardEdits(t)

\* Another tab removes a relation, or discards the draft, between condEdit's two locks.
Cuts == cut' = {t \in Tabs : pending'[t] # None /\ (t \in cut \/ Len(list') < Len(list))}

PanelNext == Moves /\ Cuts

PanelSpec == PanelInit /\ [][PanelNext]_panelVars

-----------------------------------------------------------------------------
DraftItems == [uid : 1..(Len(relations) + MaxEdits), rel : Relation]
PanelRows == [at : 1..(Len(relations) + MaxEdits), key : Keys, uid : 1..(Len(relations) + MaxEdits)]
Jobs == [kind : {"add", "remove"}, row : PanelRows, cond : Conds, seen : BOOLEAN]

PanelTypeOK ==
    /\ relations \in BaseLists /\ open \subseteq Places(relations)
    /\ list \in Seq(DraftItems)
    /\ changes \in Seq([op : {"add", "delete", "set"}, at : Nat]) /\ Len(changes) <= MaxEdits
    /\ broken \in BOOLEAN
    /\ panel \in [Tabs -> SUBSET PanelRows]
    /\ pending \in [Tabs -> {None} \union Jobs]
    /\ cut \subseteq Tabs
    /\ hit = None \/
       hit \in [kind : {"relation", "condition"}, right : BOOLEAN, hidden : BOOLEAN, fresh : BOOLEAN]

\* The panel knows which relation of the file each row of the draft is: what
\* replayRelations works out from the changes is what applying them does.
ReplayExact ==
    LET origin == Replay(Len(relations), changes)
    IN  /\ Len(origin) = Len(list)
        /\ \A i \in Places(list) : origin[i] = PlaceOf(list[i])

\* An edit from a panel that shows the list as it is changes the relation the
\* writer saw in the row, whatever edits other tabs made before, and never one
\* that the worldline hides (matchShown: "so an edit never lands on a hidden one").
RightRelation == hit # None /\ hit.fresh => hit.right /\ ~hit.hidden

\* A change that does not apply, after which no page of the entity and no save of it
\* works until the draft is discarded, comes from an old panel or a new one only where
\* another tab shortened the list between condEdit's look at it and its edit, and then
\* of a condition that is added: condEdit does not try the draft as relationEdit does.
BreaksInTheGap(t) == t \in cut /\ pending'[t] = None /\ pending[t].kind = "add"
DraftReadable == [][~broken /\ broken' => \E t \in Tabs : BreaksInTheGap(t)]_panelVars

\* What condEdit's comment says (fields.go:873): a condition is removed from the
\* relation of the chip that was clicked, however old the click.  It is not so, and
\* no run lists it: the path names the relation by its index alone (MCBoth).
RemovedWhereClicked ==
    [][\A t \in Tabs : pending[t] # None /\ pending[t].kind = "remove" /\ pending'[t] = None
            => hit' = None \/ hit'.right]_panelVars
=============================================================================
