-------------------------- MODULE MCRelationEdits --------------------------
(***************************************************************************)
(* Instances of RelationEdits for TLC: a relation that is in its list      *)
(* twice, one of them hidden, and the same told apart by a note.           *)
(***************************************************************************)
EXTENDS RelationEdits, TLC

CONSTANTS k1, k2, hides, aside

Rel(k, n, v) == [key |-> k, note |-> n, valid |-> v]

MCLists == {
    <<Rel(k1, NoNote, {hides}), Rel(k1, NoNote, {})>>,
    <<Rel(k1, NoNote, {hides}), Rel(k1, aside, {})>>}

\* Both hold in the editor's worldline, under the same condition.
MCBoth == {<<Rel(k1, NoNote, {hides}), Rel(k2, NoNote, {hides})>>}

Perms == Permutations(Tabs)
=============================================================================
