----------------------------- MODULE FormProofs -----------------------------
(***************************************************************************)
(* What holds of the two panels that edit an entity's frontmatter: the     *)
(* relations panel (RelationEdits), and then the fields form (FieldsForm), *)
(* which implements EntityForm.                                            *)
(***************************************************************************)
EXTENDS RelationEdits, FieldsForm, FiniteSetTheorems, SequenceTheorems, WellFoundedInduction, TLAPS

\* The first of some naturals.
LEMMA LeastIsThere ==
    ASSUME NEW I, I \subseteq Nat, I # {}
    PROVE  \E x \in I : \A y \in I : x <= y
<1> DEFINE R == OpToRel(<, Nat)
<1>1. \A x, y \in Nat : y < x => <<y, x>> \in R
    BY DEF OpToRel
<1>2. IsWellFoundedOn(R, Nat)
    BY NatLessThanWellFounded
<1> HIDE DEF R
<1>3. PICK x \in I : \A y \in I : ~(<<y, x>> \in R)
    BY <1>2, WFMin
<1>4. \A y \in I : y < x => <<y, x>> \in R
    BY <1>1
<1>5. ASSUME NEW y \in I PROVE x <= y
    <2>1. x \in Nat /\ y \in Nat /\ ~(y < x)
        BY <1>3, <1>4
    <2> QED
        BY <2>1
<1> QED
    BY <1>3, <1>5

\* Induction over the naturals, for a set of them.
LEMMA AllNaturals ==
    ASSUME NEW S, S \subseteq Nat, 0 \in S, \A n \in S : n + 1 \in S
    PROVE  S = Nat
<1> DEFINE I == Nat \ S
<1> SUFFICES ASSUME I # {} PROVE FALSE
    OBVIOUS
<1>1. PICK x \in I : \A y \in I : x <= y
    BY LeastIsThere, I \subseteq Nat
<1>2. x \in Nat /\ x # 0
    BY <1>1
<1>3. x - 1 \in Nat /\ (x - 1) + 1 = x /\ ~(x <= x - 1)
    BY <1>2
<1>4. x - 1 \in S
    BY <1>1, <1>3
<1> QED
    BY <1>1, <1>3, <1>4

\* What replayRelations has worked out after each of the first m changes.
IsUpto(f, n, cs, m) ==
    f = [k \in 0..m |-> IF k = 0 THEN [i \in 1..n |-> i] ELSE ReplayOne(f[k - 1], cs[k])]

LEMMA UptoThere ==
    ASSUME NEW n, NEW cs, NEW m \in Nat
    PROVE  \E f : IsUpto(f, n, cs, m)
<1> DEFINE S == {k \in Nat : \E f : IsUpto(f, n, cs, k)}
<1>1. 0 \in S
    <2> DEFINE f == [k \in 0..0 |-> [i \in 1..n |-> i]]
    <2>1. IsUpto(f, n, cs, 0)
        BY DEF IsUpto
    <2> QED
        BY <2>1
<1>2. ASSUME NEW k \in S PROVE k + 1 \in S
    <2>1. PICK f : IsUpto(f, n, cs, k)
        BY DEF S
    <2> DEFINE g == [j \in 0..(k + 1) |-> IF j = k + 1 THEN ReplayOne(f[k], cs[k + 1]) ELSE f[j]]
    <2>2. k \in Nat /\ k + 1 \in Nat /\ \A j \in 0..(k + 1) : j = k + 1 \/ j \in 0..k
        OBVIOUS
    <2>3. \A j \in 0..k : f[j] = IF j = 0 THEN [i \in 1..n |-> i] ELSE ReplayOne(f[j - 1], cs[j])
        BY <2>1 DEF IsUpto
    <2>4. \A j \in 0..(k + 1) :
              g[j] = IF j = 0 THEN [i \in 1..n |-> i] ELSE ReplayOne(g[j - 1], cs[j])
        <3> TAKE j \in 0..(k + 1)
        <3>1. CASE j = k + 1
            <4>1. j # 0 /\ j - 1 = k /\ k \in 0..(k + 1) /\ k # k + 1
                BY <3>1, <2>2
            <4>2. g[j] = ReplayOne(f[k], cs[k + 1]) /\ g[k] = f[k]
                BY <3>1, <4>1
            <4> QED
                BY <3>1, <4>1, <4>2
        <3>2. CASE j \in 0..k
            <4>1. j # k + 1 /\ (j # 0 => j - 1 \in 0..(k + 1) /\ j - 1 # k + 1)
                BY <3>2, <2>2
            <4>2. g[j] = f[j] /\ (j # 0 => g[j - 1] = f[j - 1])
                BY <4>1
            <4> QED
                BY <3>2, <4>2, <2>3
        <3> QED
            BY <3>1, <3>2, <2>2
    <2>5. IsUpto(g, n, cs, k + 1)
        <3>1. g = [j \in 0..(k + 1) |-> g[j]]
            OBVIOUS
        <3> HIDE DEF g
        <3> QED
            BY <2>4, <3>1 DEF IsUpto
    <2> QED
        BY <2>2, <2>5
<1> HIDE DEF S
<1>3. S = Nat
    <2>1. S \subseteq Nat
        BY DEF S
    <2> QED
        BY <1>1, <1>2, <2>1, AllNaturals
<1> QED
    BY <1>3 DEF S

LEMMA UptoAgree ==
    ASSUME NEW n, NEW cs, NEW ds, NEW m \in Nat, NEW l \in Nat, m <= l,
           \A k \in 1..m : cs[k] = ds[k],
           NEW f, IsUpto(f, n, cs, m), NEW g, IsUpto(g, n, ds, l)
    PROVE  f[m] = g[m]
<1> DEFINE S == {k \in Nat : k <= m => f[k] = g[k]}
<1>1. \A k \in 0..m : f[k] = IF k = 0 THEN [i \in 1..n |-> i] ELSE ReplayOne(f[k - 1], cs[k])
    BY DEF IsUpto
<1>2. \A k \in 0..l : g[k] = IF k = 0 THEN [i \in 1..n |-> i] ELSE ReplayOne(g[k - 1], ds[k])
    BY DEF IsUpto
<1>3. 0 \in S
    <2>1. 0 \in 0..m /\ 0 \in 0..l
        OBVIOUS
    <2>2. f[0] = [i \in 1..n |-> i]
        BY <1>1, <2>1
    <2>3. g[0] = [i \in 1..n |-> i]
        BY <1>2, <2>1
    <2> QED
        BY <2>2, <2>3
<1>4. ASSUME NEW k \in S PROVE k + 1 \in S
    <2> SUFFICES ASSUME k + 1 <= m PROVE f[k + 1] = g[k + 1]
        OBVIOUS
    <2>1. /\ k + 1 \in 0..m /\ k + 1 \in 0..l /\ k + 1 \in 1..m
          /\ (k + 1) - 1 = k /\ k + 1 # 0 /\ k <= m
        OBVIOUS
    <2>2. f[k] = g[k]
        BY <2>1
    <2>3. f[k + 1] = ReplayOne(f[k], cs[k + 1])
        BY <2>1, <1>1
    <2>4. g[k + 1] = ReplayOne(g[k], ds[k + 1])
        BY <2>1, <1>2
    <2> QED
        BY <2>1, <2>2, <2>3, <2>4
<1>5. S = Nat
    <2>1. S \subseteq Nat
        OBVIOUS
    <2> HIDE DEF S
    <2> QED
        BY <1>3, <1>4, <2>1, AllNaturals
<1> QED
    BY <1>5

LEMMA ReplayIs ==
    ASSUME NEW n, NEW cs, Len(cs) \in Nat
    PROVE  \E f : IsUpto(f, n, cs, Len(cs)) /\ Replay(n, cs) = f[Len(cs)]
<1> DEFINE f == CHOOSE f : IsUpto(f, n, cs, Len(cs))
<1>1. \E g : IsUpto(g, n, cs, Len(cs))
    BY UptoThere
<1>2. IsUpto(f, n, cs, Len(cs))
    BY <1>1
<1>3. Replay(n, cs) = f[Len(cs)]
    BY DEF Replay, IsUpto
<1> QED
    BY <1>2, <1>3

LEMMA ReplayNone ==
    ASSUME NEW n
    PROVE  Replay(n, <<>>) = [i \in 1..n |-> i]
<1>1. Len(<<>>) = 0
    OBVIOUS
<1>2. PICK f : IsUpto(f, n, <<>>, 0) /\ Replay(n, <<>>) = f[0]
    BY <1>1, ReplayIs
<1> QED
    BY <1>2 DEF IsUpto

LEMMA ReplayMore ==
    ASSUME NEW n, NEW C, NEW cs \in Seq(C), NEW c
    PROVE  Replay(n, Append(cs, c)) = ReplayOne(Replay(n, cs), c)
<1> DEFINE ds == Append(cs, c)
           m == Len(cs)
<1>1. /\ m \in Nat /\ Len(ds) = m + 1 /\ ds[m + 1] = c
      /\ \A k \in 1..m : cs[k] = ds[k]
    OBVIOUS
<1> HIDE DEF ds, m
<1>2. PICK f : IsUpto(f, n, cs, m) /\ Replay(n, cs) = f[m]
    BY <1>1, ReplayIs DEF m
<1>3. PICK g : IsUpto(g, n, ds, m + 1) /\ Replay(n, ds) = g[m + 1]
    <2>1. m + 1 \in Nat
        BY <1>1
    <2> QED
        BY <1>1, <2>1, ReplayIs
<1>4. f[m] = g[m]
    <2>1. m + 1 \in Nat /\ m <= m + 1
        BY <1>1
    <2> QED
        BY <1>1, <1>2, <1>3, <2>1, UptoAgree
<1>5. g[m + 1] = ReplayOne(g[m], c)
    <2>1. m + 1 \in 0..(m + 1) /\ m + 1 # 0 /\ (m + 1) - 1 = m
        BY <1>1
    <2> QED
        BY <1>1, <1>3, <2>1 DEF IsUpto
<1> QED
    BY <1>2, <1>3, <1>4, <1>5 DEF ds

-----------------------------------------------------------------------------
LEMMA Removed ==
    ASSUME NEW S, NEW s \in Seq(S), NEW i \in 1..Len(s)
    PROVE  /\ RemoveAt(s, i) \in Seq(S) /\ Len(RemoveAt(s, i)) = Len(s) - 1
           /\ \A k \in 1..(Len(s) - 1) : RemoveAt(s, i)[k] = IF k < i THEN s[k] ELSE s[k + 1]
<1> DEFINE a == SubSeq(s, 1, i - 1)
           b == SubSeq(s, i + 1, Len(s))
<1>1. /\ a \in Seq(S) /\ Len(a) = i - 1 /\ \A k \in 1..(i - 1) : a[k] = s[k]
    OBVIOUS
<1>2. /\ b \in Seq(S) /\ Len(b) = Len(s) - i
      /\ \A k \in 1..(Len(s) - i) : b[k] = s[i + k]
    OBVIOUS
<1>3. RemoveAt(s, i) = a \o b
    BY DEF RemoveAt
<1> HIDE DEF a, b
<1>4. Len(s) \in Nat
    OBVIOUS
<1>5. a \o b \in Seq(S) /\ Len(a \o b) = Len(s) - 1
    <2>0. a \in Seq(S) /\ b \in Seq(S)
        BY <1>1, <1>2
    <2>1. a \o b \in Seq(S) /\ Len(a \o b) = Len(a) + Len(b)
        BY <2>0
    <2> QED
        BY <1>1, <1>2, <1>4, <2>1
<1>6. ASSUME NEW k \in 1..(Len(s) - 1)
      PROVE  (a \o b)[k] = IF k < i THEN s[k] ELSE s[k + 1]
    <2>1. CASE k < i
        <3>1. (a \o b)[k] = a[k]
            BY <1>1, <1>2, <1>4, <2>1
        <3> QED
            BY <1>1, <1>4, <2>1, <3>1
    <2>2. CASE ~(k < i)
        <3>1. k - (i - 1) \in 1..(Len(s) - i) /\ i + (k - (i - 1)) = k + 1
            BY <1>4, <2>2
        <3>2. (a \o b)[k] = b[k - (i - 1)]
            BY <1>1, <1>2, <1>4, <2>2
        <3>3. b[k - (i - 1)] = s[i + (k - (i - 1))]
            BY <1>2, <3>1
        <3> QED
            BY <2>2, <3>1, <3>2, <3>3
    <2> QED
        BY <2>1, <2>2
<1> QED
    BY <1>3, <1>5, <1>6

\* matchShown: a relation the panel lets the writer edit holds in the worldline.
LEMMA EditableHolds ==
    ASSUME relations \in Seq(Relation), NEW i \in Editable
    PROVE  Holds(relations[i])
<1> DEFINE C == Candidates(i)
           H == {j \in C : Holds(relations[j])}
           F == {j \in C : j <= i}
<1>1. /\ i \in Places(relations) /\ Cardinality(F) <= Cardinality(H)
      /\ Cardinality(H) < Cardinality(C) => ~Differ(i)
    BY DEF Editable, Shown, Ambiguous, Rank, EdgeCount
<1>2. i \in C /\ i \in F
    BY <1>1 DEF Candidates, Places
<1>3. IsFiniteSet(C)
    <2>1. Len(relations) \in Nat
        OBVIOUS
    <2>2. IsFiniteSet(1..Len(relations))
        BY <2>1, FS_Interval
    <2>3. C \subseteq 1..Len(relations)
        BY DEF Candidates, Places
    <2> QED
        BY <2>2, <2>3, FS_Subset
<1>4. ~Differ(i) => \A j \in C : relations[j].valid = relations[i].valid
    BY <1>2 DEF Differ
<1> HIDE DEF C
<1>5. H \subseteq C /\ F \subseteq C
    OBVIOUS
<1>6. IsFiniteSet(H) /\ IsFiniteSet(F)
    BY <1>3, <1>5, FS_Subset
<1>7. Cardinality(H) \in Nat /\ Cardinality(F) \in Nat /\ Cardinality(C) \in Nat
    BY <1>3, <1>6, FS_CardinalityType
<1>8. Cardinality(F) # 0
    BY <1>2, <1>6, FS_EmptySet
<1>9. CASE Cardinality(H) < Cardinality(C)
    <2>1. Cardinality(H) # 0
        BY <1>1, <1>7, <1>8
    <2>2. H # {}
        BY <2>1, FS_EmptySet
    <2>3. PICK j \in C : Holds(relations[j])
        BY <2>2
    <2> QED
        BY <1>1, <1>4, <1>9, <2>3 DEF Holds
<1>10. CASE Cardinality(H) = Cardinality(C)
    <2>1. H = C
        BY <1>3, <1>5, <1>10, FS_Subset
    <2> QED
        BY <1>2, <2>1
<1>11. Cardinality(H) <= Cardinality(C)
    BY <1>3, <1>5, FS_Subset
<1> QED
    BY <1>7, <1>9, <1>10, <1>11

-----------------------------------------------------------------------------
Lengths == Len(list) <= Len(relations) + Len(changes)
OpenIsEditable == open = Editable
OriginTyped == Replay(Len(relations), changes) \in Seq(Nat)

\* The row of a condition's edit whose list nobody changed since is still shown.
SeenIsShown == \A t \in Tabs : pending[t] # None /\ pending[t].seen => pending[t].row \in Rows

\* The list of a condition's edit under way is in the draft, unless another tab cut it.
CheckedThere == \A t \in Tabs : pending[t] # None => t \in cut \/ pending[t].row.at \in Places(list)

IInv ==
    /\ PanelTypeOK /\ Lengths /\ OpenIsEditable
    /\ OriginTyped /\ ReplayExact
    /\ SeenIsShown /\ CheckedThere /\ RightRelation

\* What a step does to the draft's list and its changes.
Keeps == list' = list /\ changes' = changes
Deletes ==
    \E i \in Places(list) :
        /\ list' = RemoveAt(list, i)
        /\ changes' = Append(changes, [op |-> "delete", at |-> i])
Sets ==
    /\ list' \in Seq(DraftItems) /\ Len(list') = Len(list)
    /\ \A i \in Places(list) : list'[i].uid = list[i].uid
    /\ changes' = Append(changes, [op |-> "set", at |-> 0])
AddsOne ==
    /\ \E r \in Relation : list' = Append(list, [uid |-> Len(relations) + Len(changes) + 1, rel |-> r])
    /\ changes' = Append(changes, [op |-> "add", at |-> Len(list) + 1])
GoesBack == list' = WithUid(relations) /\ changes' = <<>>

LEMMA ItemSet ==
    ASSUME NEW S, NEW s \in Seq(S), NEW i \in 1..Len(s), NEW x \in S
    PROVE  /\ [s EXCEPT ![i] = x] \in Seq(S) /\ Len([s EXCEPT ![i] = x]) = Len(s)
           /\ \A j \in 1..Len(s) : [s EXCEPT ![i] = x][j] = IF j = i THEN x ELSE s[j]
OBVIOUS

\* An edit inside an item.
LEMMA EditedInside ==
    ASSUME PanelTypeOK, NEW i \in Places(list), NEW r \in Relation,
           list' = [list EXCEPT ![i] = [uid |-> list[i].uid, rel |-> r]],
           changes' = Append(changes, [op |-> "set", at |-> 0])
    PROVE  Sets
<1>1. list \in Seq(DraftItems) /\ i \in 1..Len(list)
    BY DEF PanelTypeOK, Places
<1>2. list[i] \in DraftItems
    BY <1>1
<1> DEFINE x == [uid |-> list[i].uid, rel |-> r]
<1>3. x \in DraftItems /\ x.uid = list[i].uid
    BY <1>2 DEF DraftItems
<1> HIDE DEF x
<1>4. list' = [list EXCEPT ![i] = x]
    BY DEF x
<1>5. /\ list' \in Seq(DraftItems) /\ Len(list') = Len(list)
      /\ \A j \in 1..Len(list) : list'[j] = IF j = i THEN x ELSE list[j]
    BY <1>1, <1>3, <1>4, ItemSet
<1> QED
    BY <1>3, <1>5 DEF Sets, Places

LEMMA ListNoted ==
    ASSUME PanelTypeOK, NEW i \in Places(list), NEW n \in Notes,
           list' = [list EXCEPT ![i].rel.note = n]
    PROVE  \E r \in Relation : list' = [list EXCEPT ![i] = [uid |-> list[i].uid, rel |-> r]]
<1>1. list[i] \in DraftItems
    BY DEF PanelTypeOK, Places
<1> DEFINE r == list[i].rel
<1>2. r \in Relation /\ list[i] = [uid |-> list[i].uid, rel |-> r]
    BY <1>1 DEF DraftItems
<1> DEFINE q == [r EXCEPT !.note = n]
<1>3. q \in Relation
    BY <1>2 DEF Relation
<1>4. [list[i] EXCEPT !.rel = q] = [uid |-> list[i].uid, rel |-> q]
    BY <1>2
<1>5. list' = [list EXCEPT ![i] = [list[i] EXCEPT !.rel = q]]
    OBVIOUS
<1> HIDE DEF q, r
<1> QED
    BY <1>3, <1>4, <1>5

LEMMA ListConditioned ==
    ASSUME PanelTypeOK, NEW i \in Places(list), NEW v \in SUBSET Conds,
           list' = [list EXCEPT ![i].rel.valid = v]
    PROVE  \E r \in Relation : list' = [list EXCEPT ![i] = [uid |-> list[i].uid, rel |-> r]]
<1>1. list[i] \in DraftItems
    BY DEF PanelTypeOK, Places
<1> DEFINE r == list[i].rel
<1>2. r \in Relation /\ list[i] = [uid |-> list[i].uid, rel |-> r]
    BY <1>1 DEF DraftItems
<1> DEFINE q == [r EXCEPT !.valid = v]
<1>3. q \in Relation
    BY <1>2 DEF Relation
<1>4. [list[i] EXCEPT !.rel = q] = [uid |-> list[i].uid, rel |-> q]
    BY <1>2
<1>5. list' = [list EXCEPT ![i] = [list[i] EXCEPT !.rel = q]]
    OBVIOUS
<1> HIDE DEF q, r
<1> QED
    BY <1>3, <1>4, <1>5

LEMMA RowTyped ==
    ASSUME PanelTypeOK, NEW t \in Tabs, NEW row \in panel[t]
    PROVE  row \in PanelRows
BY DEF PanelTypeOK

LEMMA CondTyped ==
    ASSUME PanelTypeOK, NEW t \in Tabs, pending[t] # None
    PROVE  pending[t] \in Jobs
BY DEF PanelTypeOK

LEMMA RemoveDoes ==
    ASSUME PanelTypeOK, NEW t \in Tabs, RelationRemove(t)
    PROVE  Deletes /\ Room
BY DEF RelationRemove, Deletes, AtRow, PlaceFor, Log

LEMMA NoteDoes ==
    ASSUME PanelTypeOK, NEW t \in Tabs, RelationNote(t)
    PROVE  Sets /\ Room
<1>1. PICK row \in panel[t], n \in Notes :
          /\ AtRow(row) /\ Log("set", 0)
          /\ list' = [list EXCEPT ![PlaceFor(row)].rel.note = n]
    BY DEF RelationNote
<1>2. row.at \in Places(list) /\ list' = [list EXCEPT ![row.at].rel.note = n]
    BY <1>1 DEF AtRow, PlaceFor
<1>3. PICK r \in Relation :
          list' = [list EXCEPT ![row.at] = [uid |-> list[row.at].uid, rel |-> r]]
    BY <1>2, ListNoted
<1>4. changes' = Append(changes, [op |-> "set", at |-> 0])
    BY <1>1 DEF Log
<1>5. Sets
    BY <1>2, <1>3, <1>4, EditedInside
<1> QED
    BY <1>5 DEF RelationNote

LEMMA AddDoes ==
    ASSUME PanelTypeOK, NEW t \in Tabs, AddRelation(t)
    PROVE  AddsOne /\ Room
<1>1. PICK k \in Keys :
          list' = Append(list, [uid |-> Len(relations) + Len(changes) + 1,
                                rel |-> [key |-> k, note |-> NoNote, valid |-> {}]])
    BY DEF AddRelation
<1>2. [key |-> k, note |-> NoNote, valid |-> {}] \in Relation
    BY ListsOK DEF Relation
<1> QED
    BY <1>1, <1>2 DEF AddRelation, AddsOne, Log

LEMMA CondDoes ==
    ASSUME PanelTypeOK, NEW t \in Tabs, CondEdit(t)
    PROVE  Keeps \/ (Sets /\ Room)
<1> DEFINE j == pending[t]
           i == CondIndex(j.row)
           InPlace ==
               /\ Log("set", 0) /\ i \in Places(list)
               /\ list' = [list EXCEPT ![i].rel.valid =
                              IF j.kind = "add" THEN @ \union {j.cond} ELSE @ \ {j.cond}]
<1>1. CASE InPlace
    <2> DEFINE old == list[i].rel.valid
               v == IF j.kind = "add" THEN old \union {j.cond} ELSE old \ {j.cond}
    <2>1. j.cond \in Conds
        BY CondTyped DEF CondEdit, Jobs
    <2>2. list[i] \in DraftItems
        BY <1>1 DEF PanelTypeOK, Places
    <2>3. old \in SUBSET Conds
        BY <2>2 DEF DraftItems, Relation
    <2>4. v \in SUBSET Conds
        BY <2>1, <2>3
    <2>5. list' = [list EXCEPT ![i].rel.valid = v]
        BY <1>1
    <2> HIDE DEF v, i
    <2>6. PICK r \in Relation : list' = [list EXCEPT ![i] = [uid |-> list[i].uid, rel |-> r]]
        BY <1>1, <2>4, <2>5, ListConditioned
    <2>7. Sets
        BY <1>1, <2>6, EditedInside DEF Log
    <2> QED
        BY <2>7 DEF CondEdit
<1>2. CASE Log("set", 0) /\ list' = list
    <2>1. Sets
        BY <1>2 DEF Sets, Log, PanelTypeOK
    <2> QED
        BY <2>1 DEF CondEdit
<1>3. \/ Keeps
      \/ Log("set", 0) /\ list' = list
      \/ InPlace
    BY DEF CondEdit, Keeps
<1> HIDE DEF InPlace
<1> QED
    BY <1>1, <1>2, <1>3

\* What any step does to the file's list and to the draft's.
LEMMA ListStep ==
    PanelTypeOK /\ [PanelNext]_panelVars =>
        /\ relations' = relations /\ open' = open
        /\ Keeps \/ GoesBack \/ (Room /\ (Deletes \/ Sets \/ AddsOne))
<1> SUFFICES ASSUME PanelTypeOK, [PanelNext]_panelVars
             PROVE  /\ relations' = relations /\ open' = open
                    /\ Keeps \/ GoesBack \/ (Room /\ (Deletes \/ Sets \/ AddsOne))
    OBVIOUS
<1>1. CASE UNCHANGED panelVars
    BY <1>1 DEF panelVars, Keeps
<1>2. CASE PanelNext
    <2>1. PICK t \in Tabs :
              \/ View(t) \/ RelationRemove(t) \/ RelationNote(t) \/ RowMoved(t) \/ AddRelation(t)
              \/ CondCheck(t) \/ CondEdit(t) \/ CondFails(t) \/ DiscardEdits(t)
        BY <1>2 DEF PanelNext, Moves
    <2>2. relations' = relations /\ open' = open
        BY <2>1 DEF View, RelationRemove, RelationNote, RowMoved, AddRelation, CondCheck, CondEdit,
                    CondFails, DiscardEdits
    <2>3. CASE View(t) \/ RowMoved(t) \/ CondCheck(t) \/ CondFails(t)
        BY <2>3 DEF View, RowMoved, CondCheck, CondFails, Keeps
    <2>4. CASE RelationRemove(t)
        BY <2>2, <2>4, RemoveDoes
    <2>5. CASE RelationNote(t)
        BY <2>2, <2>5, NoteDoes
    <2>6. CASE AddRelation(t)
        BY <2>2, <2>6, AddDoes
    <2>7. CASE CondEdit(t)
        BY <2>2, <2>7, CondDoes
    <2>8. CASE DiscardEdits(t)
        BY <2>8 DEF DiscardEdits, GoesBack
    <2> QED
        BY <2>1, <2>2, <2>3, <2>4, <2>5, <2>6, <2>7, <2>8
<1> QED
    BY <1>1, <1>2

\* The draft's list and its changes keep their types, and the list is no longer
\* than the file's with the changes.
LEMMA ListTyped ==
    PanelTypeOK /\ Lengths /\ [PanelNext]_panelVars =>
        /\ relations' \in BaseLists /\ list' \in Seq(DraftItems)' /\ Lengths'
        /\ changes' \in Seq([op : {"add", "delete", "set"}, at : Nat])
        /\ Len(changes') <= MaxEdits
<1> SUFFICES ASSUME PanelTypeOK, Lengths, [PanelNext]_panelVars
             PROVE  /\ relations' \in BaseLists /\ list' \in Seq(DraftItems)' /\ Lengths'
                    /\ changes' \in Seq([op : {"add", "delete", "set"}, at : Nat])
                    /\ Len(changes') <= MaxEdits
    OBVIOUS
<1> DEFINE Ops == [op : {"add", "delete", "set"}, at : Nat]
<1>1. /\ relations' = relations /\ open' = open
      /\ Keeps \/ GoesBack \/ (Room /\ (Deletes \/ Sets \/ AddsOne))
    BY ListStep
<1>2. relations \in BaseLists /\ relations \in Seq(Relation) /\ Len(relations) \in Nat
    BY ListsOK DEF PanelTypeOK
<1>3. /\ changes \in Seq(Ops) /\ Len(changes) \in Nat /\ Len(changes) <= MaxEdits
      /\ list \in Seq(DraftItems) /\ Len(list) \in Nat /\ Len(list) <= Len(relations) + Len(changes)
    BY DEF PanelTypeOK, Lengths
<1>4. DraftItems' = DraftItems
    BY <1>1 DEF DraftItems
<1> SUFFICES /\ list' \in Seq(DraftItems) /\ Len(list') <= Len(relations) + Len(changes')
             /\ changes' \in Seq(Ops) /\ Len(changes') <= MaxEdits
    BY <1>1, <1>2, <1>4 DEF Lengths
<1>5. CASE Keeps
    BY <1>3, <1>5 DEF Keeps
<1>6. CASE GoesBack
    <2>1. WithUid(relations) \in Seq(DraftItems) /\ Len(WithUid(relations)) = Len(relations)
        <3>1. \A k \in 1..Len(relations) : [uid |-> k, rel |-> relations[k]] \in DraftItems
            BY <1>2, ListsOK DEF DraftItems
        <3> QED
            BY <1>2, <3>1 DEF WithUid, Places
    <2>2. changes' = <<>> /\ list' = WithUid(relations)
        BY <1>6 DEF GoesBack
    <2> QED
        BY <1>2, <2>1, <2>2, ListsOK
<1>7. CASE Room /\ Deletes
    <2>1. PICK i \in 1..Len(list) :
              /\ list' = RemoveAt(list, i)
              /\ changes' = Append(changes, [op |-> "delete", at |-> i])
        BY <1>7 DEF Deletes, Places
    <2>2. list' \in Seq(DraftItems) /\ Len(list') = Len(list) - 1
        BY <1>3, <2>1, Removed
    <2>3. [op |-> "delete", at |-> i] \in Ops
        BY <1>3
    <2>4. changes' \in Seq(Ops) /\ Len(changes') = Len(changes) + 1
        BY <1>3, <2>1, <2>3
    <2> QED
        BY <1>2, <1>3, <1>7, <2>2, <2>4, ListsOK DEF Room
<1>8. CASE Room /\ Sets
    <2>1. [op |-> "set", at |-> 0] \in Ops
        OBVIOUS
    <2>2. changes' \in Seq(Ops) /\ Len(changes') = Len(changes) + 1
        BY <1>3, <1>8, <2>1 DEF Sets
    <2> QED
        BY <1>2, <1>3, <1>8, <2>2, ListsOK DEF Room, Sets
<1>9. CASE Room /\ AddsOne
    <2>1. PICK r \in Relation :
              list' = Append(list, [uid |-> Len(relations) + Len(changes) + 1, rel |-> r])
        BY <1>9 DEF AddsOne
    <2>2. [uid |-> Len(relations) + Len(changes) + 1, rel |-> r] \in DraftItems
        BY <1>2, <1>3, <1>9, ListsOK DEF Room, DraftItems
    <2>3. list' \in Seq(DraftItems) /\ Len(list') = Len(list) + 1
        BY <1>3, <2>1, <2>2
    <2>4. [op |-> "add", at |-> Len(list) + 1] \in Ops
        BY <1>3
    <2>5. changes' \in Seq(Ops) /\ Len(changes') = Len(changes) + 1
        BY <1>3, <1>9, <2>4 DEF AddsOne
    <2> QED
        BY <1>2, <1>3, <1>9, <2>3, <2>5, ListsOK DEF Room
<1> QED
    BY <1>1, <1>5, <1>6, <1>7, <1>8, <1>9

\* Replaying a step's change does to the places what the step did to the list.
LEMMA ReplayStep ==
    PanelTypeOK /\ Lengths /\ OriginTyped /\ ReplayExact /\ [PanelNext]_panelVars => OriginTyped' /\ ReplayExact'
<1> SUFFICES ASSUME PanelTypeOK, Lengths, OriginTyped, ReplayExact, [PanelNext]_panelVars
             PROVE  OriginTyped' /\ ReplayExact'
    OBVIOUS
<1> DEFINE n == Len(relations)
           o == Replay(n, changes)
           p == Replay(n, changes')
           Place(u) == IF u <= n THEN u ELSE NewRow
<1>1. /\ relations' = relations
      /\ Keeps \/ GoesBack \/ (Room /\ (Deletes \/ Sets \/ AddsOne))
    BY ListStep
<1>2. relations \in Seq(Relation) /\ n \in Nat
    BY ListsOK DEF PanelTypeOK
<1>3. changes \in Seq([op : {"add", "delete", "set"}, at : Nat]) /\ Len(changes) \in Nat
    BY DEF PanelTypeOK
<1>4. list \in Seq(DraftItems) /\ Len(list) \in Nat
    BY DEF PanelTypeOK
<1>5. /\ o \in Seq(Nat) /\ Len(o) = Len(list)
      /\ \A i \in 1..Len(list) : o[i] = Place(list[i].uid)
    BY DEF OriginTyped, ReplayExact, PlaceOf, Places
<1>6. SUFFICES p \in Seq(Nat) /\ Len(p) = Len(list') /\ \A i \in 1..Len(list') : p[i] = Place(list'[i].uid)
    BY <1>1 DEF OriginTyped, ReplayExact, PlaceOf, Places
<1>7. \A c : Replay(n, Append(changes, c)) = ReplayOne(o, c)
    BY <1>3, ReplayMore
<1> HIDE DEF n, o, p, Place
<1>8. CASE Keeps
    BY <1>5, <1>8 DEF Keeps, o, p
<1>9. CASE GoesBack
    <2>1. p = [i \in 1..n |-> i]
        BY <1>9, ReplayNone DEF GoesBack, p
    <2>2. list' = [i \in 1..n |-> [uid |-> i, rel |-> relations[i]]]
        BY <1>9 DEF GoesBack, WithUid, Places, n
    <2>3. p \in Seq(Nat) /\ Len(p) = n
        BY <1>2, <2>1
    <2>4. Len(list') = n /\ \A i \in 1..n : list'[i].uid = i
        BY <1>2, <2>2
    <2>5. \A i \in 1..n : p[i] = Place(i)
        BY <1>2, <2>1 DEF Place
    <2> QED
        BY <2>3, <2>4, <2>5
<1>10. CASE Deletes
    <2>1. PICK i \in 1..Len(list) :
              /\ list' = RemoveAt(list, i)
              /\ changes' = Append(changes, [op |-> "delete", at |-> i])
        BY <1>10 DEF Deletes, Places
    <2>2. p = ReplayOne(o, [op |-> "delete", at |-> i])
        BY <1>7, <2>1 DEF p
    <2>3. p = RemoveAt(o, i)
        BY <1>5, <2>2 DEF ReplayOne, Places
    <2>4. i \in 1..Len(o)
        BY <1>5
    <2>5. /\ p \in Seq(Nat) /\ Len(p) = Len(o) - 1
          /\ \A k \in 1..(Len(o) - 1) : p[k] = IF k < i THEN o[k] ELSE o[k + 1]
        BY <1>5, <2>3, <2>4, Removed
    <2>6. /\ Len(list') = Len(list) - 1
          /\ \A k \in 1..(Len(list) - 1) : list'[k] = IF k < i THEN list[k] ELSE list[k + 1]
        BY <1>4, <2>1, Removed
    <2>7. ASSUME NEW k \in 1..(Len(list) - 1) PROVE p[k] = Place(list'[k].uid)
        <3>1. k \in 1..Len(list) /\ k + 1 \in 1..Len(list) /\ k \in 1..(Len(o) - 1)
            BY <1>4, <1>5
        <3>2. o[k] = Place(list[k].uid) /\ o[k + 1] = Place(list[k + 1].uid)
            BY <1>5, <3>1
        <3>3. p[k] = IF k < i THEN o[k] ELSE o[k + 1]
            BY <2>5, <3>1
        <3>4. list'[k] = IF k < i THEN list[k] ELSE list[k + 1]
            BY <2>6
        <3> QED
            BY <3>2, <3>3, <3>4
    <2> QED
        BY <1>5, <2>5, <2>6, <2>7
<1>11. CASE Sets
    <2>1. p = ReplayOne(o, [op |-> "set", at |-> 0])
        BY <1>7, <1>11 DEF p, Sets
    <2>2. p = o
        BY <2>1 DEF ReplayOne
    <2> QED
        BY <1>5, <1>11, <2>2 DEF Sets, Places
<1>12. CASE AddsOne
    <2>1. p = ReplayOne(o, [op |-> "add", at |-> Len(list) + 1])
        BY <1>7, <1>12 DEF p, AddsOne
    <2>2. p = Append(o, NewRow)
        BY <2>1 DEF ReplayOne
    <2>3. p \in Seq(Nat) /\ Len(p) = Len(o) + 1 /\ p[Len(o) + 1] = NewRow
          /\ \A k \in 1..Len(o) : p[k] = o[k]
        BY <1>5, <2>2 DEF NewRow
    <2> DEFINE u == n + Len(changes) + 1
    <2>4. PICK x : list' = Append(list, x) /\ x.uid = u
        BY <1>12 DEF AddsOne, n
    <2>5. Place(u) = NewRow
        BY <1>2, <1>3 DEF Place
    <2> HIDE DEF u
    <2>6. /\ Len(list') = Len(list) + 1 /\ list'[Len(list) + 1] = x
          /\ \A k \in 1..Len(list) : list'[k] = list[k]
        BY <1>4, <2>4
    <2>7. ASSUME NEW k \in 1..(Len(list) + 1) PROVE p[k] = Place(list'[k].uid)
        <3>1. k \in 1..Len(list) \/ k = Len(list) + 1
            BY <1>4
        <3>2. CASE k = Len(list) + 1
            BY <1>5, <2>3, <2>4, <2>5, <2>6, <3>2
        <3>3. CASE k \in 1..Len(list)
            BY <1>5, <2>3, <2>6, <3>3
        <3> QED
            BY <3>1, <3>2, <3>3
    <2> QED
        BY <1>5, <2>3, <2>6, <2>7
<1> QED
    BY <1>1, <1>8, <1>9, <1>10, <1>11, <1>12

-----------------------------------------------------------------------------
LEMMA RowsTyped ==
    relations \in Seq(Relation) /\ list \in Seq(DraftItems) /\ Lengths /\ Len(changes) \in 0..MaxEdits
        => Rows \subseteq PanelRows
<1> SUFFICES ASSUME relations \in Seq(Relation), list \in Seq(DraftItems), Lengths,
                    Len(changes) \in 0..MaxEdits, NEW row \in Rows
             PROVE  row \in PanelRows
    OBVIOUS
<1>1. PICK i \in Places(list) : row = [at |-> i, key |-> list[i].rel.key, uid |-> list[i].uid]
    BY DEF Rows
<1>2. list[i] \in DraftItems /\ Len(relations) \in Nat /\ Len(list) \in Nat
    BY DEF Places
<1>3. i \in 1..(Len(relations) + MaxEdits)
    BY <1>2, ListsOK DEF Places, Lengths
<1>4. list[i].rel.key \in Keys /\ list[i].uid \in 1..(Len(relations) + MaxEdits)
    BY <1>2 DEF DraftItems, Relation
<1> QED
    BY <1>1, <1>3, <1>4 DEF PanelRows

LEMMA RowShown ==
    ASSUME NEW row \in Rows
    PROVE  /\ row.at \in Places(list) /\ row.uid = list[row.at].uid
           /\ Replay(Len(relations), changes)[row.at] \in open \union {NewRow}
BY DEF Rows

\* A row of a list that did not change is a row still.
LEMMA RowsKept ==
    ASSUME relations' = relations, open' = open, Keeps
    PROVE  Rows' = Rows
BY DEF Keeps, Rows, Places

LEMMA UnseenTyped ==
    ASSUME PanelTypeOK, NEW u \in Tabs
    PROVE  Unseen[u] = None \/ (Unseen[u] \in Jobs /\ ~Unseen[u].seen)
<1>1. CASE pending[u] = None
    BY <1>1 DEF Unseen
<1>2. CASE pending[u] # None
    <2>1. pending[u] \in Jobs
        BY <1>2, CondTyped DEF Jobs
    <2>2. Unseen[u] = [pending[u] EXCEPT !.seen = FALSE]
        BY <1>2 DEF Unseen
    <2> QED
        BY <2>1, <2>2 DEF Jobs
<1> QED
    BY <1>1, <1>2

\* A condition's edit under way is one of before, one whose list has changed, or
\* one just checked against the panel.
LEMMA PendingStep ==
    PanelTypeOK /\ [PanelNext]_panelVars =>
        \A u \in Tabs :
            \/ pending'[u] = None
            \/ pending'[u] = pending[u] /\ Keeps
            \/ pending'[u] \in Jobs /\ ~pending'[u].seen
            \/ /\ pending'[u] \in Jobs /\ Keeps
               /\ pending'[u].seen => pending'[u].row \in Rows
<1> SUFFICES ASSUME PanelTypeOK, [PanelNext]_panelVars, NEW u \in Tabs
             PROVE  \/ pending'[u] = None
                    \/ pending'[u] = pending[u] /\ Keeps
                    \/ pending'[u] \in Jobs /\ ~pending'[u].seen
                    \/ /\ pending'[u] \in Jobs /\ Keeps
                       /\ pending'[u].seen => pending'[u].row \in Rows
    OBVIOUS
<1> DEFINE G == \/ pending'[u] = None
                \/ pending'[u] = pending[u] /\ Keeps
                \/ pending'[u] \in Jobs /\ ~pending'[u].seen
                \/ /\ pending'[u] \in Jobs /\ Keeps
                   /\ pending'[u].seen => pending'[u].row \in Rows
<1>1. CASE pending' = pending /\ Keeps
    BY <1>1
<1>2. CASE pending' = Unseen
    BY <1>2, UnseenTyped
<1>3. ASSUME NEW t \in Tabs, CondCheck(t) PROVE G
    <2>1. PICK row \in panel[t], c \in Conds, op \in {"add", "remove"} :
              pending' = [pending EXCEPT ![t] =
                             [kind |-> op, row |-> row, cond |-> c, seen |-> panel[t] = Rows]]
        BY <1>3 DEF CondCheck
    <2> DEFINE j == [kind |-> op, row |-> row, cond |-> c, seen |-> panel[t] = Rows]
    <2>2. row \in PanelRows
        BY RowTyped
    <2>3. j \in Jobs /\ j.seen = (panel[t] = Rows) /\ j.row = row
        BY <2>2 DEF Jobs
    <2>4. Keeps
        BY <1>3 DEF CondCheck, Keeps
    <2> HIDE DEF j
    <2>5. \A v \in Tabs : pending'[v] = IF v = t THEN j ELSE pending[v]
        BY <2>1 DEF PanelTypeOK, j
    <2> QED
        BY <2>3, <2>4, <2>5
<1>4. ASSUME NEW t \in Tabs, CondEdit(t) PROVE G
    <2>1. pending' = [Unseen EXCEPT ![t] = None]
        BY <1>4 DEF CondEdit
    <2>2. pending'[u] = None \/ pending'[u] = Unseen[u]
        BY <2>1 DEF Unseen
    <2> QED
        BY <2>2, UnseenTyped
<1>5. ASSUME NEW t \in Tabs, CondFails(t) PROVE G
    <2>1. pending' = [pending EXCEPT ![t] = None] /\ Keeps
        BY <1>5 DEF CondFails, Keeps
    <2> QED
        BY <2>1 DEF PanelTypeOK
<1>6. CASE UNCHANGED panelVars
    BY <1>1, <1>6 DEF panelVars, Keeps
<1>7. ASSUME NEW t \in Tabs, View(t) \/ RowMoved(t) PROVE G
    BY <1>1, <1>7 DEF View, RowMoved, Keeps
<1>8. ASSUME NEW t \in Tabs,
             RelationRemove(t) \/ RelationNote(t) \/ AddRelation(t) \/ DiscardEdits(t)
      PROVE  G
    BY <1>2, <1>8 DEF RelationRemove, RelationNote, AddRelation, DiscardEdits
<1> HIDE DEF G
<1>9. G
    BY <1>3, <1>4, <1>5, <1>6, <1>7, <1>8 DEF PanelNext, Moves, G
<1> QED
    BY <1>9 DEF G

\* And it has the path it had, or one just found in the draft.
LEMMA PathStep ==
    [PanelNext]_panelVars /\ PanelTypeOK =>
        \A u \in Tabs :
            \/ pending'[u] = None
            \/ pending[u] # None /\ pending'[u].row = pending[u].row
            \/ Keeps /\ pending'[u].row.at \in Places(list)
<1> SUFFICES ASSUME PanelTypeOK, [PanelNext]_panelVars, NEW u \in Tabs
             PROVE  \/ pending'[u] = None
                    \/ pending[u] # None /\ pending'[u].row = pending[u].row
                    \/ Keeps /\ pending'[u].row.at \in Places(list)
    OBVIOUS
<1> DEFINE G == \/ pending'[u] = None
                \/ pending[u] # None /\ pending'[u].row = pending[u].row
                \/ Keeps /\ pending'[u].row.at \in Places(list)
<1>1. CASE pending' = pending
    BY <1>1
<1>2. Unseen[u] = None \/ (pending[u] # None /\ Unseen[u].row = pending[u].row)
    <2>1. pending[u] = None \/ pending[u] \in Jobs
        BY DEF PanelTypeOK
    <2> QED
        BY <2>1 DEF Unseen, Jobs
<1>3. ASSUME NEW t \in Tabs, CondCheck(t) PROVE G
    <2>1. PICK row \in panel[t], c \in Conds, op \in {"add", "remove"} :
              /\ InDraft(row)
              /\ pending' = [pending EXCEPT ![t] =
                                [kind |-> op, row |-> row, cond |-> c, seen |-> panel[t] = Rows]]
        BY <1>3 DEF CondCheck
    <2> DEFINE j == [kind |-> op, row |-> row, cond |-> c, seen |-> panel[t] = Rows]
    <2>2. j.row = row
        OBVIOUS
    <2>3. Keeps /\ row.at \in Places(list)
        BY <1>3, <2>1 DEF CondCheck, Keeps, InDraft, CondIndex
    <2> HIDE DEF j
    <2>4. \A v \in Tabs : pending'[v] = IF v = t THEN j ELSE pending[v]
        BY <2>1 DEF PanelTypeOK, j
    <2> QED
        BY <2>2, <2>3, <2>4
<1>4. ASSUME NEW t \in Tabs, CondEdit(t) PROVE G
    <2>1. pending' = [Unseen EXCEPT ![t] = None]
        BY <1>4 DEF CondEdit
    <2>2. pending'[u] = None \/ pending'[u] = Unseen[u]
        BY <2>1 DEF Unseen
    <2> QED
        BY <1>2, <2>2
<1>5. ASSUME NEW t \in Tabs, CondFails(t) PROVE G
    BY <1>5 DEF CondFails, PanelTypeOK
<1>6. ASSUME NEW t \in Tabs, View(t) \/ RowMoved(t) PROVE G
    BY <1>1, <1>6 DEF View, RowMoved
<1>7. ASSUME NEW t \in Tabs,
             RelationRemove(t) \/ RelationNote(t) \/ AddRelation(t) \/ DiscardEdits(t)
      PROVE  G
    BY <1>2, <1>7 DEF RelationRemove, RelationNote, AddRelation, DiscardEdits
<1>8. CASE UNCHANGED panelVars
    BY <1>1, <1>8 DEF panelVars
<1> HIDE DEF G
<1>9. G
    BY <1>3, <1>4, <1>5, <1>6, <1>7, <1>8 DEF PanelNext, Moves, G
<1> QED
    BY <1>9 DEF G

LEMMA CheckedStep ==
    IInv /\ [PanelNext]_panelVars => CheckedThere'
<1> SUFFICES ASSUME IInv, [PanelNext]_panelVars, NEW u \in Tabs, pending'[u] # None, u \notin cut'
             PROVE  pending'[u].row.at \in Places(list')
    BY DEF CheckedThere
<1>1. PanelTypeOK /\ Lengths /\ CheckedThere
    BY DEF IInv
<1>2. Len(list) \in Nat /\ Len(list') \in Nat
    BY <1>1, ListTyped DEF PanelTypeOK
<1>3. CASE UNCHANGED panelVars
    BY <1>1, <1>3 DEF panelVars, CheckedThere
<1>4. CASE Cuts
    <2>1. u \notin cut /\ ~(Len(list') < Len(list))
        BY <1>4 DEF Cuts
    <2>2. pending[u] # None /\ pending'[u].row = pending[u].row => pending'[u].row.at \in Places(list)
        BY <1>1, <2>1 DEF CheckedThere
    <2>3. pending'[u].row.at \in Places(list)
        BY <1>1, <2>2, PathStep
    <2> QED
        BY <1>2, <2>1, <2>3 DEF Places
<1> QED
    BY <1>3, <1>4 DEF PanelNext

LEMMA PanelStep ==
    PanelTypeOK /\ Lengths /\ [PanelNext]_panelVars => (panel \in [Tabs -> SUBSET PanelRows])'
<1> SUFFICES ASSUME PanelTypeOK, Lengths, [PanelNext]_panelVars
             PROVE  panel' \in [Tabs -> SUBSET PanelRows']
    OBVIOUS
<1>1. relations' = relations /\ PanelRows' = PanelRows
    BY ListStep DEF PanelRows
<1>2. Rows' \subseteq PanelRows'
    <2>1. relations' \in Seq(Relation)
        BY <1>1, ListsOK DEF PanelTypeOK
    <2>2. list' \in Seq(DraftItems)' /\ Lengths' /\ Len(changes') \in 0..MaxEdits
        BY ListTyped, ListsOK
    <2>3. (relations \in Seq(Relation) /\ list \in Seq(DraftItems) /\ Lengths /\ Len(changes) \in 0..MaxEdits
             => Rows \subseteq PanelRows)'
        BY RowsTyped, PTL
    <2> QED
        BY <2>1, <2>2, <2>3
<1>3. panel \in [Tabs -> SUBSET PanelRows]
    BY DEF PanelTypeOK
<1>4. ASSUME NEW t \in Tabs, Render(t) PROVE panel' \in [Tabs -> SUBSET PanelRows]
    BY <1>1, <1>2, <1>3, <1>4 DEF Render
<1>5. panel' = panel \/ \E t \in Tabs : Render(t)
    BY DEF PanelNext, Moves, panelVars, View, RelationRemove, RelationNote, RowMoved, AddRelation, CondCheck,
           CondEdit, CondFails, DiscardEdits
<1> QED
    BY <1>1, <1>3, <1>4, <1>5

\* A row that the list shows as it is names its relation, which is not hidden.
LEMMA RowRight ==
    ASSUME IInv, NEW row \in Rows
    PROVE  /\ row.at \in Places(list) /\ list[row.at].uid = row.uid
           /\ ~Hidden(list[row.at])
<1> DEFINE i == row.at
           b == PlaceOf(list[i])
<1>1. i \in Places(list) /\ row.uid = list[i].uid /\ Replay(Len(relations), changes)[i] \in open \union {NewRow}
    BY RowShown
<1>2. Replay(Len(relations), changes)[i] = b
    BY <1>1 DEF IInv, ReplayExact
<1>3. b \in Editable \/ b = NewRow
    BY <1>1, <1>2 DEF IInv, OpenIsEditable
<1>4. relations \in Seq(Relation)
    BY ListsOK DEF IInv, PanelTypeOK
<1>5. b \in Editable => Holds(relations[b])
    BY <1>4, EditableHolds
<1>6. ~Hidden(list[i])
    BY <1>3, <1>5 DEF Hidden
<1> QED
    BY <1>1, <1>6

Hits == [kind : {"relation", "condition"}, right : BOOLEAN, hidden : BOOLEAN, fresh : BOOLEAN]

\* An edit of a row, fresh only when the list still shows it: what it says of itself.
LEMMA HitRight ==
    ASSUME IInv, NEW kind \in {"relation", "condition"}, NEW row, NEW fresh \in BOOLEAN,
           fresh => row \in Rows,
           NEW h, h = Hit(kind, row, row.at, fresh)
    PROVE  h \in Hits /\ h.fresh = fresh /\ (fresh => h.right /\ ~h.hidden)
<1> DEFINE landed == row.at \in Places(list)
           r == (landed => list[row.at].uid = row.uid)
           d == (landed /\ Hidden(list[row.at]))
<1>1. h = [kind |-> kind, fresh |-> fresh, right |-> r, hidden |-> d]
    BY DEF Hit
<1>2. r \in BOOLEAN /\ d \in BOOLEAN
    OBVIOUS
<1>3. fresh => r /\ ~d
    BY RowRight
<1> HIDE DEF r, d
<1>4. h \in Hits
    BY <1>1, <1>2 DEF Hits
<1>5. h.fresh = fresh /\ h.right = r /\ h.hidden = d
    BY <1>1
<1> QED
    BY <1>3, <1>4, <1>5

\* An edit's row is of a panel that shows the list as it is, or the edit is not fresh.
LEMMA HitStep ==
    IInv /\ [PanelNext]_panelVars =>
        /\ hit' = None \/ hit' \in Hits
        /\ RightRelation'
        /\ broken' \in BOOLEAN
<1> SUFFICES ASSUME IInv, [PanelNext]_panelVars
             PROVE  /\ hit' = None \/ hit' \in Hits
                    /\ RightRelation' /\ broken' \in BOOLEAN
    OBVIOUS
<1> DEFINE Good == /\ hit' = None \/ hit' \in Hits
                   /\ hit' # None /\ hit'.fresh => hit'.right /\ ~hit'.hidden
                   /\ broken' \in BOOLEAN
<1> SUFFICES Good
    BY DEF RightRelation
<1>1. broken \in BOOLEAN /\ (hit = None \/ hit \in Hits)
    BY DEF IInv, PanelTypeOK, Hits
<1>2. CASE hit' = None /\ broken' \in BOOLEAN
    BY <1>2
<1>3. CASE hit' = hit /\ broken' = broken
    BY <1>1, <1>3 DEF IInv, RightRelation
<1>4. ASSUME NEW t \in Tabs, RelationRemove(t) \/ RelationNote(t) PROVE Good
    <2>1. PICK row \in panel[t] : hit' = Hit("relation", row, row.at, panel[t] = Rows)
        BY <1>4 DEF RelationRemove, RelationNote, PlaceFor
    <2>2. ~broken /\ broken' = broken
        BY <1>4 DEF RelationRemove, RelationNote, Room
    <2> DEFINE fresh == (panel[t] = Rows)
    <2>3. fresh \in BOOLEAN /\ (fresh => row \in Rows)
        OBVIOUS
    <2>4. hit' = Hit("relation", row, row.at, fresh)
        BY <2>1
    <2> HIDE DEF fresh
    <2>5. hit' \in Hits /\ hit'.fresh = fresh /\ (fresh => hit'.right /\ ~hit'.hidden)
        <3>1. "relation" \in {"relation", "condition"}
            OBVIOUS
        <3> QED
            BY <2>3, <2>4, <3>1, HitRight, Zenon
    <2>6. broken' \in BOOLEAN /\ ~broken'
        BY <1>1, <2>2
    <2> QED
        BY <2>5, <2>6, Zenon
<1>5. ASSUME NEW t \in Tabs, CondEdit(t) PROVE Good
    <2> DEFINE row == pending[t].row
               fresh == pending[t].seen
               off == row.at \notin Places(list)
    <2>1. pending[t] # None /\ ~broken
        BY <1>5 DEF CondEdit, Room
    <2>2. pending[t] \in Jobs
        BY <2>1, CondTyped DEF IInv
    <2>3. fresh \in BOOLEAN
        BY <2>2 DEF Jobs
    <2>4. fresh => row \in Rows
        BY <2>1 DEF IInv, SeenIsShown
    <2>5. \/ hit' = None /\ broken' = broken
          \/ /\ hit' = Hit("condition", row, row.at, fresh)
             /\ broken' = broken \/ (off /\ broken' = TRUE)
        BY <1>5 DEF CondEdit, CondIndex
    <2> HIDE DEF row, fresh, off
    <2>7. CASE hit' = None /\ broken' = broken
        BY <1>1, <2>7
    <2>8. CASE hit' = Hit("condition", row, row.at, fresh)
        <3>1. "condition" \in {"relation", "condition"}
            OBVIOUS
        <3>2. hit' \in Hits /\ hit'.fresh = fresh /\ (fresh => hit'.right /\ ~hit'.hidden)
            BY <2>3, <2>4, <2>8, <3>1, HitRight, Zenon
        <3>3. broken' \in BOOLEAN
            BY <1>1, <2>5
        <3> QED
            BY <3>2, <3>3, Zenon
    <2> QED
        BY <2>5, <2>7, <2>8
<1>6. CASE UNCHANGED panelVars
    BY <1>3, <1>6 DEF panelVars
<1>7. ASSUME NEW t \in Tabs,
             \/ View(t) \/ RowMoved(t) \/ AddRelation(t) \/ CondCheck(t) \/ CondFails(t) \/ DiscardEdits(t)
      PROVE  Good
    BY <1>1, <1>2, <1>7 DEF View, RowMoved, AddRelation, CondCheck, CondFails, DiscardEdits
<1> HIDE DEF Good
<1> QED
    BY <1>4, <1>5, <1>6, <1>7 DEF PanelNext, Moves

-----------------------------------------------------------------------------
LEMMA EditsInit == PanelInit => IInv
<1> SUFFICES ASSUME PanelInit PROVE IInv
    OBVIOUS
<1>1. relations \in BaseLists /\ relations \in Seq(Relation) /\ Len(relations) \in Nat /\ changes = <<>>
      /\ list = [i \in 1..Len(relations) |-> [uid |-> i, rel |-> relations[i]]]
    BY ListsOK DEF PanelInit, WithUid, Places
<1>2. list \in Seq(DraftItems) /\ Len(list) = Len(relations)
    <2>1. \A k \in 1..Len(relations) : [uid |-> k, rel |-> relations[k]] \in DraftItems
        BY <1>1, ListsOK DEF DraftItems
    <2> QED
        BY <1>1, <2>1
<1>3. Lengths
    BY <1>1, <1>2 DEF Lengths
<1>4. Replay(Len(relations), changes) = [i \in 1..Len(relations) |-> i]
    BY <1>1, ReplayNone
<1>5. OriginTyped
    BY <1>1, <1>4 DEF OriginTyped
<1>6. ReplayExact
    <2>1. Len([i \in 1..Len(relations) |-> i]) = Len(relations)
        BY <1>1
    <2>2. \A i \in 1..Len(list) : PlaceOf(list[i]) = i
        BY <1>1, <1>2 DEF PlaceOf
    <2> QED
        BY <1>2, <1>4, <2>1, <2>2 DEF ReplayExact, Places
<1>7. Rows \subseteq PanelRows
    BY <1>1, <1>2, <1>3, RowsTyped, ListsOK
<1>8. SeenIsShown /\ CheckedThere /\ RightRelation
    BY DEF PanelInit, SeenIsShown, CheckedThere, RightRelation
<1>9. OpenIsEditable /\ open \subseteq Places(relations)
    BY DEF PanelInit, OpenIsEditable, Editable
<1>10. PanelTypeOK
    <2>1. changes \in Seq([op : {"add", "delete", "set"}, at : Nat]) /\ Len(changes) <= MaxEdits
        BY <1>1, ListsOK
    <2>2. panel \in [Tabs -> SUBSET PanelRows] /\ pending \in [Tabs -> {None} \union Jobs]
        BY <1>7 DEF PanelInit
    <2> QED
        BY <1>1, <1>2, <1>9, <2>1, <2>2 DEF PanelInit, PanelTypeOK
<1> QED
    BY <1>3, <1>5, <1>6, <1>8, <1>9, <1>10 DEF IInv

LEMMA EditsStep == IInv /\ [PanelNext]_panelVars => IInv'
<1> SUFFICES ASSUME IInv, [PanelNext]_panelVars PROVE IInv'
    OBVIOUS
<1>1. PanelTypeOK /\ Lengths /\ OriginTyped /\ ReplayExact /\ SeenIsShown /\ OpenIsEditable
    BY DEF IInv
<1>2. relations' = relations /\ open' = open /\ Jobs' = Jobs
    BY <1>1, ListStep DEF Jobs, PanelRows
<1>3. \A u \in Tabs :
            \/ pending'[u] = None
            \/ pending'[u] = pending[u] /\ Keeps
            \/ pending'[u] \in Jobs /\ ~pending'[u].seen
            \/ /\ pending'[u] \in Jobs /\ Keeps
               /\ pending'[u].seen => pending'[u].row \in Rows
    BY <1>1, PendingStep
<1>4. Keeps => Rows' = Rows
    BY <1>2, RowsKept
<1>5. SeenIsShown'
    BY <1>1, <1>3, <1>4 DEF SeenIsShown
<1>6. pending' \in [Tabs -> {None} \union Jobs]
    <2>1. DOMAIN pending = Tabs /\ \A u \in Tabs : pending[u] \in {None} \union Jobs
        BY <1>1 DEF PanelTypeOK
    <2>2. pending' = [u \in Tabs |-> pending'[u]]
        BY <1>1 DEF PanelNext, Moves, panelVars, View, RelationRemove, RelationNote, RowMoved, AddRelation,
               CondCheck, CondEdit, CondFails, DiscardEdits, Unseen, PanelTypeOK
    <2>3. \A u \in Tabs : pending'[u] \in {None} \union Jobs
        BY <1>3, <2>1
    <2> QED
        BY <2>2, <2>3
<1>7. OpenIsEditable' /\ open' \subseteq Places(relations')
    <2>1. Editable' = Editable
        BY <1>2 DEF Editable, Shown, Ambiguous, Rank, EdgeCount, Differ, Candidates
    <2> QED
        BY <1>1, <1>2, <2>1 DEF OpenIsEditable, PanelTypeOK
<1>8. cut' \subseteq Tabs
    BY <1>1 DEF PanelNext, Cuts, panelVars, PanelTypeOK
<1>9. PanelTypeOK'
    BY <1>1, <1>2, <1>6, <1>7, <1>8, ListTyped, PanelStep, HitStep DEF PanelTypeOK, Hits
<1>10. CheckedThere'
    BY CheckedStep
<1> QED
    BY <1>1, <1>5, <1>7, <1>9, <1>10, ListTyped, ReplayStep, HitStep DEF IInv

\* The panel's types and the bounds on its lists, for any file and any tabs.
THEOREM EditsTyped == PanelSpec => []PanelTypeOK
<1>1. IInv => PanelTypeOK
    BY DEF IInv
<1> QED
    BY EditsInit, EditsStep, <1>1, PTL DEF PanelSpec

\* After any edits of any tabs the panel knows which of the file's relations each
\* row of the draft is (replayRelations).
THEOREM PlacesAlways == PanelSpec => []ReplayExact
<1>1. IInv => ReplayExact
    BY DEF IInv
<1> QED
    BY EditsInit, EditsStep, <1>1, PTL DEF PanelSpec

\* An edit from a panel that shows the list as it is changes the relation the
\* writer saw and never one the worldline hides (relationEdit, condEdit, matchShown).
THEOREM RightAlways == PanelSpec => []RightRelation
<1>1. IInv => RightRelation
    BY DEF IInv
<1> QED
    BY EditsInit, EditsStep, <1>1, PTL DEF PanelSpec

\* From whatever panel, a draft that cannot be read is left only by a condition that
\* is added to a list which another tab cut between condEdit's two locks.
THEOREM ReadableAlways == PanelSpec => DraftReadable
<1>1. ASSUME IInv, [PanelNext]_panelVars, ~broken, broken'
      PROVE  \E t \in Tabs : BreaksInTheGap(t)
    <2>1. PICK t \in Tabs : CondEdit(t)
        BY <1>1 DEF PanelNext, Moves, panelVars, View, RelationRemove, RelationNote, RowMoved, AddRelation,
               CondCheck, CondFails, DiscardEdits
    <2> DEFINE j == pending[t]
               i == CondIndex(j.row)
    <2>2. pending[t] # None /\ i \notin Places(list) /\ (Adds(j, CondsAt(i)) \/ Removes(j, CondsAt(i)))
        BY <1>1, <2>1 DEF CondEdit
    <2>3. t \in cut
        BY <1>1, <2>2 DEF IInv, CheckedThere, CondIndex
    <2>4. j.kind = "add"
        BY <2>2 DEF CondsAt, Adds, Removes
    <2>5. pending'[t] = None
        BY <1>1, <2>1 DEF CondEdit, Unseen
    <2> QED
        BY <2>3, <2>4, <2>5 DEF BreaksInTheGap
<1>2. IInv /\ [PanelNext]_panelVars
      => [~broken /\ broken' => \E t \in Tabs : BreaksInTheGap(t)]_panelVars
    BY <1>1
<1> QED
    BY EditsInit, EditsStep, <1>2, PTL DEF PanelSpec, DraftReadable

-----------------------------------------------------------------------------
(***************************************************************************)
(* What the walks of edit.go do for a path of a key, and of a key and a    *)
(* segment below it: the paths the form uses.                              *)
(***************************************************************************)
LEMMA SetKey ==
    ASSUME NEW n, NEW key, NEW v
    PROVE  setPath(n, <<key>>, v) = Put(n, key, v)
<1> DEFINE path == <<key>>
           At(f) == f = [d \in 1..1 |-> IF d = 1 THEN n ELSE Descend(f[d - 1], path[d - 1], path[d])]
           at == CHOOSE f : At(f)
           Up(f) == f = [d \in 1..1 |->
                            LET seg == path[1 + 1 - d]
                            IN  Put(at[1 + 1 - d], seg, IF d = 1 THEN v ELSE f[d - 1])]
           up == CHOOSE f : Up(f)
<1>1. Len(path) = 1
    OBVIOUS
<1>2. setPath(n, path, v) = up[1]
    BY <1>1 DEF setPath
<1>3. at[1] = n
    <2> DEFINE g == [d \in 1..1 |-> n]
    <2>1. At(g)
        OBVIOUS
    <2>2. At(at)
        BY <2>1
    <2> QED
        BY <2>2
<1>4. up[1] = Put(n, key, v)
    <2> DEFINE g == [d \in 1..1 |-> Put(n, key, v)]
    <2> HIDE DEF at
    <2>1. Up(g)
        BY <1>3
    <2>2. Up(up)
        BY <2>1
    <2> HIDE DEF up
    <2> QED
        BY <2>2, <1>3
<1> QED
    BY <1>2, <1>4

LEMMA SetIn ==
    ASSUME NEW n, NEW key, NEW seg, NEW v
    PROVE  setPath(n, <<key, seg>>, v) = Put(n, key, Put(Descend(n, key, seg), seg, v))
<1> DEFINE path == <<key, seg>>
           At(f) == f = [d \in 1..2 |-> IF d = 1 THEN n ELSE Descend(f[d - 1], path[d - 1], path[d])]
           at == CHOOSE f : At(f)
           Up(f) == f = [d \in 1..2 |->
                            LET s == path[2 + 1 - d]
                            IN  Put(at[2 + 1 - d], s, IF d = 1 THEN v ELSE f[d - 1])]
           up == CHOOSE f : Up(f)
           below == Descend(n, key, seg)
           low == Put(below, seg, v)
<1>1. Len(path) = 2 /\ path[1] = key /\ path[2] = seg
    OBVIOUS
<1>2. setPath(n, path, v) = up[2]
    BY <1>1 DEF setPath
<1>3. 1..2 = {1, 2}
    OBVIOUS
<1> HIDE DEF path
<1>4. at[1] = n /\ at[2] = below
    <2> DEFINE g == [d \in 1..2 |-> IF d = 1 THEN n ELSE below]
    <2>1. At(g)
        BY <1>1, <1>3
    <2>2. At(at)
        BY <2>1
    <2> HIDE DEF at
    <2>3. at[1] = n
        BY <2>2, <1>3
    <2>4. at[2] = Descend(at[1], path[1], path[2])
        BY <2>2, <1>3
    <2> QED
        BY <1>1, <2>3, <2>4
<1> HIDE DEF at, below, low
<1>5. up[2] = Put(n, key, low)
    <2> DEFINE g == [d \in 1..2 |-> IF d = 1 THEN low ELSE Put(n, key, low)]
    <2>1. Up(g)
        BY <1>1, <1>3, <1>4 DEF low
    <2>2. Up(up)
        BY <2>1
    <2> HIDE DEF up
    <2>3. up[1] = Put(at[2], path[2], v)
        BY <2>2, <1>3
    <2>4. up[2] = Put(at[1], path[1], up[1])
        BY <2>2, <1>3
    <2> QED
        BY <1>1, <1>4, <2>3, <2>4 DEF low
<1> QED
    BY <1>2, <1>5 DEF path, low, below

LEMMA DeleteKey ==
    ASSUME NEW n, NEW key
    PROVE  deletePath(n, <<key>>) =
               CASE Enter(n, key) = Absent -> n
                 [] Enter(n, key) = Bad -> Bad
                 [] OTHER -> Cut(n, key)
<1> DEFINE path == <<key>>
           At(f) == f = [d \in 1..(1 + 1) |-> IF d = 1 THEN n ELSE Enter(f[d - 1], path[d - 1])]
           at == CHOOSE f : At(f)
           Up(f) == f = [d \in 1..1 |->
                            LET s == path[1 + 1 - d]
                            IN  IF d = 1 THEN Cut(at[1], s) ELSE Put(at[1 + 1 - d], s, f[d - 1])]
           up == CHOOSE f : Up(f)
<1>1. Len(path) = 1 /\ path[1] = key
    OBVIOUS
<1>2. deletePath(n, path) =
          CASE at[1 + 1] = Absent -> n
            [] at[1 + 1] = Bad -> Bad
            [] OTHER -> up[1]
    BY <1>1 DEF deletePath
<1>3. 1..2 = {1, 2}
    OBVIOUS
<1> HIDE DEF path
<1>4. at[1] = n /\ at[1 + 1] = Enter(n, key)
    <2> DEFINE g == [d \in 1..(1 + 1) |-> IF d = 1 THEN n ELSE Enter(n, key)]
    <2>1. At(g)
        BY <1>1, <1>3
    <2>2. At(at)
        BY <2>1
    <2> HIDE DEF at
    <2>3. at[1] = n
        BY <2>2, <1>3
    <2>4. at[2] = Enter(at[1], path[1])
        BY <2>2, <1>3
    <2> QED
        BY <1>1, <2>3, <2>4
<1> HIDE DEF at
<1>5. up[1] = Cut(n, key)
    <2> DEFINE g == [d \in 1..1 |-> Cut(n, key)]
    <2>1. Up(g)
        BY <1>1, <1>4
    <2>2. Up(up)
        BY <2>1
    <2> HIDE DEF up
    <2> QED
        BY <1>1, <1>4, <2>2
<1> HIDE DEF up
<1> QED
    BY <1>2, <1>4, <1>5 DEF path

LEMMA DeleteIn ==
    ASSUME NEW n, NEW key, NEW seg
    PROVE  deletePath(n, <<key, seg>>) =
               CASE Enter(Enter(n, key), seg) = Absent -> n
                 [] Enter(Enter(n, key), seg) = Bad -> Bad
                 [] OTHER -> Put(n, key, Cut(Enter(n, key), seg))
<1> DEFINE path == <<key, seg>>
           At(f) == f = [d \in 1..(2 + 1) |-> IF d = 1 THEN n ELSE Enter(f[d - 1], path[d - 1])]
           at == CHOOSE f : At(f)
           Up(f) == f = [d \in 1..2 |->
                            LET s == path[2 + 1 - d]
                            IN  IF d = 1 THEN Cut(at[2], s) ELSE Put(at[2 + 1 - d], s, f[d - 1])]
           up == CHOOSE f : Up(f)
           mid == Enter(n, key)
           end == Enter(mid, seg)
           low == Cut(mid, seg)
<1>1. Len(path) = 2 /\ path[1] = key /\ path[2] = seg
    OBVIOUS
<1>2. deletePath(n, path) =
          CASE at[2 + 1] = Absent -> n
            [] at[2 + 1] = Bad -> Bad
            [] OTHER -> up[2]
    BY <1>1 DEF deletePath
<1>3. 1..2 = {1, 2} /\ 1..(2 + 1) = {1, 2, 3}
    OBVIOUS
<1> HIDE DEF path
<1>4. at[1] = n /\ at[2] = mid /\ at[2 + 1] = end
    <2> DEFINE g == [d \in 1..(2 + 1) |-> IF d = 1 THEN n ELSE IF d = 2 THEN mid ELSE end]
    <2>1. At(g)
        BY <1>1, <1>3
    <2>2. At(at)
        BY <2>1
    <2> HIDE DEF at
    <2>3. at[1] = n
        BY <2>2, <1>3
    <2>4. at[2] = Enter(at[1], path[1])
        BY <2>2, <1>3
    <2>5. at[3] = Enter(at[2], path[2])
        BY <2>2, <1>3
    <2> QED
        BY <1>1, <2>3, <2>4, <2>5
<1> HIDE DEF at, mid, end, low
<1>5. up[2] = Put(n, key, low)
    <2> DEFINE g == [d \in 1..2 |-> IF d = 1 THEN low ELSE Put(n, key, low)]
    <2>1. Up(g)
        BY <1>1, <1>3, <1>4 DEF low
    <2>2. Up(up)
        BY <2>1
    <2> HIDE DEF up
    <2>3. up[1] = Cut(at[2], path[2])
        BY <2>2, <1>3
    <2>4. up[2] = Put(at[1], path[1], up[1])
        BY <2>2, <1>3
    <2> QED
        BY <1>1, <1>4, <2>3, <2>4 DEF low
<1> HIDE DEF up
<1> QED
    BY <1>2, <1>4, <1>5 DEF path, low, mid, end

LEMMA EditOnce ==
    ASSUME NEW n, NEW c
    PROVE  EditFrontmatter(n, <<c>>) = Apply(n, c)
<1> DEFINE cs == <<c>>
           Is(f) == f = [k \in 0..1 |-> IF k = 0 THEN n ELSE Apply(f[k - 1], cs[k])]
           after == CHOOSE f : Is(f)
<1>1. Len(cs) = 1 /\ cs[1] = c /\ 0..1 = {0, 1}
    OBVIOUS
<1>2. EditFrontmatter(n, cs) = after[1]
    BY <1>1 DEF EditFrontmatter
<1> HIDE DEF cs
<1> DEFINE g == [k \in 0..1 |-> IF k = 0 THEN n ELSE Apply(n, c)]
<1>3. Is(g)
    BY <1>1
<1>4. Is(after)
    BY <1>3
<1> HIDE DEF after
<1>5. after[0] = n /\ after[1] = Apply(after[0], cs[1])
    BY <1>1, <1>4
<1> QED
    BY <1>1, <1>2, <1>5 DEF cs

-----------------------------------------------------------------------------
(***************************************************************************)
(* Sequences.                                                              *)
(***************************************************************************)
LEMMA OrderedIsSeq ==
    ASSUME NEW s, Ordered(s)
    PROVE  /\ s \in Seq(Range(s)) /\ DOMAIN s = 1..Len(s)
           /\ \A x \in Range(s) : \E i \in 1..Len(s) : s[i] = x
<1>1. Len(s) \in Nat /\ s = [i \in 1..Len(s) |-> s[i]]
    BY DEF Ordered
<1>2. DOMAIN s = 1..Len(s)
    BY <1>1
<1>3. \A i \in 1..Len(s) : s[i] \in Range(s)
    BY <1>2 DEF Range
<1>4. [i \in 1..Len(s) |-> s[i]] \in [1..Len(s) -> Range(s)]
    BY <1>3
<1>5. s \in [1..Len(s) -> Range(s)]
    BY <1>1, <1>4
<1>6. s \in Seq(Range(s))
    BY <1>1, <1>5, SeqDef
<1> QED
    BY <1>2, <1>6 DEF Range

LEMMA SeqIsOrdered ==
    ASSUME NEW S, NEW s \in Seq(S)
    PROVE  Ordered(s)
<1>1. Len(s) \in Nat /\ s \in [1..Len(s) -> S]
    OBVIOUS
<1> QED
    BY <1>1 DEF Ordered

LEMMA SeqSame ==
    ASSUME NEW s, NEW r, Ordered(s), Ordered(r), Len(s) = Len(r), \A i \in 1..Len(s) : s[i] = r[i]
    PROVE  s = r
<1>1. s = [i \in 1..Len(s) |-> s[i]] /\ r = [i \in 1..Len(r) |-> r[i]]
    BY DEF Ordered
<1>2. [i \in 1..Len(s) |-> s[i]] = [i \in 1..Len(r) |-> r[i]]
    OBVIOUS
<1> QED
    BY <1>1, <1>2

LEMMA Appended ==
    ASSUME NEW s, Ordered(s), NEW v
    PROVE  /\ Ordered(Append(s, v)) /\ Len(Append(s, v)) = Len(s) + 1
           /\ Append(s, v)[Len(s) + 1] = v /\ \A i \in 1..Len(s) : Append(s, v)[i] = s[i]
<1> DEFINE S == Range(s) \union {v}
<1>1. s \in Seq(Range(s))
    BY OrderedIsSeq
<1>2. s \in Seq(S)
    <2>1. Len(s) \in Nat /\ s \in [1..Len(s) -> Range(s)]
        BY <1>1
    <2>2. s \in [1..Len(s) -> S]
        BY <2>1
    <2> QED
        BY <2>1, <2>2, SeqDef
<1>3. v \in S
    OBVIOUS
<1> HIDE DEF S
<1>4. Append(s, v) \in Seq(S) /\ Len(Append(s, v)) = Len(s) + 1
    BY <1>2, <1>3
<1>5. Append(s, v)[Len(s) + 1] = v /\ \A i \in 1..Len(s) : Append(s, v)[i] = s[i]
    BY <1>2, <1>3
<1> QED
    BY <1>4, <1>5, SeqIsOrdered

LEMMA ItemRemoved ==
    ASSUME NEW s, Ordered(s), NEW i \in 1..Len(s)
    PROVE  /\ Ordered(RemoveAt(s, i)) /\ Len(RemoveAt(s, i)) = Len(s) - 1
           /\ \A k \in 1..(Len(s) - 1) : RemoveAt(s, i)[k] = IF k < i THEN s[k] ELSE s[k + 1]
<1>1. s \in Seq(Range(s))
    BY OrderedIsSeq
<1>2. /\ RemoveAt(s, i) \in Seq(Range(s)) /\ Len(RemoveAt(s, i)) = Len(s) - 1
      /\ \A k \in 1..(Len(s) - 1) : RemoveAt(s, i)[k] = IF k < i THEN s[k] ELSE s[k + 1]
    BY <1>1, Removed
<1> QED
    BY <1>2, SeqIsOrdered

\* The greatest of some naturals up to m.
LEMMA GreatestIsThere ==
    ASSUME NEW m \in Nat, NEW I, I \subseteq 0..m, I # {}
    PROVE  \E x \in I : \A y \in I : y <= x
<1> DEFINE J == {m - i : i \in I}
<1>0. \A i \in I : i \in Int /\ m - i \in Nat
    <2>1. \A i \in 0..m : i \in Int /\ m - i \in Nat
        OBVIOUS
    <2> QED
        BY <2>1
<1>1. J \subseteq Nat /\ J # {}
    BY <1>0
<1>2. PICK x \in J : \A y \in J : x <= y
    BY <1>1, LeastIsThere
<1>3. PICK i \in I : x = m - i
    OBVIOUS
<1>4. ASSUME NEW y \in I PROVE y <= i
    <2>1. m - y \in J
        OBVIOUS
    <2>2. m - i <= m - y
        BY <1>2, <1>3, <2>1
    <2> QED
        BY <2>2, <1>0
<1> QED
    BY <1>4

\* A map of a finite set of naturals into itself that keeps their order moves none.
LEMMA OrderKeptMovesNone ==
    ASSUME NEW m \in Nat, NEW I, I \subseteq 1..m, NEW g,
           \A i \in I : g[i] \in I,
           \A i, j \in I : i < j => g[i] < g[j]
    PROVE  \A i \in I : g[i] = i
<1>0. \A i \in I : i \in 0..m /\ i \in Nat /\ g[i] \in I /\ g[i] \in Nat
    <2>1. \A i \in 1..m : i \in 0..m /\ i \in Nat
        OBVIOUS
    <2>2. \A i \in I : i \in 0..m /\ i \in Nat
        BY <2>1
    <2> QED
        BY <2>2
<1>1. ASSUME NEW k \in I, g[k] > k PROVE FALSE
    <2> DEFINE U == {i \in I : g[i] > i}
    <2>1. U \subseteq 0..m /\ U # {}
        BY <1>0, <1>1
    <2>2. PICK x \in U : \A y \in U : y <= x
        BY <2>1, GreatestIsThere
    <2>3. x \in I /\ g[x] \in I /\ g[x] > x /\ x \in Nat /\ g[x] \in Nat
        BY <1>0
    <2>4. g[g[x]] > g[x]
        BY <2>3
    <2>5. g[x] \in U
        BY <2>3, <2>4
    <2>6. g[x] <= x
        BY <2>2, <2>5
    <2> QED
        BY <2>3, <2>6
<1>2. ASSUME NEW k \in I, g[k] < k PROVE FALSE
    <2> DEFINE U == {i \in I : g[i] < i}
    <2>1. U \subseteq Nat /\ U # {}
        BY <1>0, <1>2
    <2>2. PICK x \in U : \A y \in U : x <= y
        BY <2>1, LeastIsThere
    <2>3. x \in I /\ g[x] \in I /\ g[x] < x /\ x \in Nat /\ g[x] \in Nat
        BY <1>0
    <2>4. g[g[x]] < g[x]
        BY <2>3
    <2>5. g[x] \in U
        BY <2>3, <2>4
    <2>6. x <= g[x]
        BY <2>2, <2>5
    <2> QED
        BY <2>3, <2>6
<1>3. ASSUME NEW i \in I PROVE g[i] = i
    <2>1. i \in Nat /\ g[i] \in Nat /\ ~(g[i] > i) /\ ~(g[i] < i)
        BY <1>0, <1>1, <1>2
    <2> QED
        BY <2>1
<1> QED
    BY <1>3

\* RemoveFirst, of an item that is there.
LEMMA FirstRemoved ==
    ASSUME NEW s, Ordered(s), NEW v, v \in Range(s)
    PROVE  LET first == CHOOSE i \in 1..Len(s) : s[i] = v /\ \A j \in 1..(i - 1) : s[j] # v
           IN  first \in 1..Len(s) /\ s[first] = v /\ RemoveFirst(s, v) = RemoveAt(s, first)
<1> DEFINE I == {i \in 1..Len(s) : s[i] = v}
           Is(i) == s[i] = v /\ \A j \in 1..(i - 1) : s[j] # v
           first == CHOOSE i \in 1..Len(s) : Is(i)
           least == CHOOSE x \in I : \A y \in I : x <= y
<1>1. Len(s) \in Nat /\ I # {} /\ I \subseteq Nat
    BY OrderedIsSeq DEF Ordered
<1>2. \E x \in I : \A y \in I : x <= y
    BY <1>1, LeastIsThere
<1>3. least \in I /\ \A y \in I : least <= y
    BY <1>2
<1> HIDE DEF least
<1>4. least \in 1..Len(s) /\ Is(least)
    BY <1>1, <1>3
<1>5. first \in 1..Len(s) /\ Is(first)
    BY <1>4
<1> HIDE DEF first
<1>6. first = least
    BY <1>1, <1>3, <1>5
<1>7. RemoveFirst(s, v) = RemoveAt(s, least)
    BY <1>1 DEF RemoveFirst, SelectInSeq, Min, least
<1> QED
    BY <1>5, <1>6, <1>7 DEF first

LEMMA NoneRemoved ==
    ASSUME NEW s, Ordered(s), NEW v, v \notin Range(s)
    PROVE  RemoveFirst(s, v) = s
<1>1. DOMAIN s = 1..Len(s)
    BY OrderedIsSeq
<1>2. \A i \in 1..Len(s) : s[i] # v
    BY <1>1 DEF Range
<1> QED
    BY <1>2 DEF RemoveFirst

-----------------------------------------------------------------------------
(***************************************************************************)
(* Files and drafts: mappings of nodes the parser or the form made.        *)
(***************************************************************************)
WellMade(n) ==
    /\ Parsed(n)
    /\ \A part \in Inside(n) : Parsed(part)
    /\ n.kind = "vis" => n = Visibility(n.vis.kind, n.vis.act)
    /\ n.kind = "vis" /\ n.vis.act # NoValue => n.vis.kind = "spoiler"

Whole(t) == t.kind = "map" /\ Parsed(t) /\ \A n \in Inside(t) : WellMade(n)

\* A node there is, or none.
Node(n) == n = Absent \/ WellMade(n)

\* Two mappings that differ in a field at most.
SameBut(t, u, f) == \A k : k # f => Field(u, k) = Field(t, k)

LEMMA Kinds ==
    /\ Absent # Bad /\ Null # Absent /\ Null # Bad /\ Null.kind = "null" /\ Absent.kind = "absent"
    /\ \A s : Str(s).kind = "str" /\ Str(s).str = s /\ Num(s).kind = "num" /\ Num(s).num = s
    /\ \A s : Map(s).kind = "map" /\ Map(s).map = s /\ List(s).kind = "list" /\ List(s).list = s
    /\ \A k, a : /\ Visibility(k, a).kind = "vis"
                 /\ Visibility(k, a).vis.kind = k /\ Visibility(k, a).vis.act = a
    /\ \A n : n.kind \in {"str", "num", "map", "list", "vis", "null"} => n \notin {Absent, Bad}
<1>1. /\ Null.kind = "null" /\ Absent.kind = "absent" /\ Bad.kind = "bad"
      /\ \A s : Str(s).kind = "str" /\ Str(s).str = s /\ Num(s).kind = "num" /\ Num(s).num = s
      /\ \A s : Map(s).kind = "map" /\ Map(s).map = s /\ List(s).kind = "list" /\ List(s).list = s
      /\ \A k, a : /\ Visibility(k, a).kind = "vis"
                   /\ Visibility(k, a).vis.kind = k /\ Visibility(k, a).vis.act = a
    BY DEF Null, Absent, Bad, Str, Num, Map, List, Visibility
<1> QED
    BY <1>1

LEMMA FieldIs ==
    ASSUME NEW t, Whole(t), NEW k
    PROVE  /\ Node(Field(t, k)) /\ Field(t, k) # Bad
           /\ k \in DOMAIN t.map <=> Field(t, k) # Absent
           /\ k \in DOMAIN t.map => Field(t, k) = t.map[k]
<1>1. t.kind = "map" /\ IsMap(t) /\ ~IsList(t)
    BY DEF Whole, IsMap, IsList
<1>2. Field(t, k) = IF k \in DOMAIN t.map THEN t.map[k] ELSE Absent
    BY <1>1 DEF Field, Lookup
<1>3. Inside(t) = {t.map[j] : j \in DOMAIN t.map}
    BY <1>1 DEF Inside
<1>4. k \in DOMAIN t.map => WellMade(t.map[k])
    BY <1>3 DEF Whole
<1>5. \A n : WellMade(n) => n # Absent /\ n # Bad
    BY DEF WellMade, Parsed
<1> QED
    BY <1>2, <1>4, <1>5, Kinds DEF Node

LEMMA Written ==
    ASSUME NEW t, Whole(t), NEW f, NEW n, WellMade(n)
    PROVE  /\ Whole(With(t, f, n)) /\ Field(With(t, f, n), f) = n
           /\ SameBut(t, With(t, f, n), f)
<1> DEFINE g == [k \in DOMAIN t.map \union {f} |-> IF k = f THEN n ELSE t.map[k]]
<1>1. With(t, f, n) = Map(g)
    BY DEF With
<1>2. DOMAIN g = DOMAIN t.map \union {f} /\ g[f] = n /\ \A k \in DOMAIN t.map : k # f => g[k] = t.map[k]
    OBVIOUS
<1>3. Keyed(g)
    BY DEF Keyed
<1> HIDE DEF g
<1>4. Map(g).kind = "map" /\ Map(g).map = g /\ Map(g) \notin {Absent, Bad}
    BY Kinds
<1>5. Parsed(Map(g))
    BY <1>3, <1>4 DEF Parsed
<1>6. t.kind = "map" /\ Inside(t) = {t.map[k] : k \in DOMAIN t.map}
    BY DEF Whole, IsMap, IsList, Inside
<1>7. Inside(Map(g)) = {g[k] : k \in DOMAIN g}
    BY <1>4 DEF IsMap, IsList, Inside
<1>8. \A k \in DOMAIN g : WellMade(g[k])
    BY <1>2, <1>6 DEF Whole
<1>9. Whole(Map(g))
    BY <1>4, <1>5, <1>7, <1>8 DEF Whole
<1>10. \A k : /\ Field(Map(g), k) = IF k \in DOMAIN g THEN g[k] ELSE Absent
              /\ Field(t, k) = IF k \in DOMAIN t.map THEN t.map[k] ELSE Absent
    BY <1>4, <1>6 DEF Field, Lookup, IsMap
<1>11. Field(Map(g), f) = n
    BY <1>2, <1>10
<1>12. SameBut(t, Map(g), f)
    BY <1>2, <1>10 DEF SameBut
<1> QED
    BY <1>1, <1>9, <1>11, <1>12

LEMMA Dropped ==
    ASSUME NEW t, Whole(t), NEW f
    PROVE  /\ Whole(Without(t, f)) /\ Field(Without(t, f), f) = Absent
           /\ SameBut(t, Without(t, f), f)
<1> DEFINE g == [k \in DOMAIN t.map \ {f} |-> t.map[k]]
<1>1. Without(t, f) = Map(g)
    BY DEF Without
<1>2. DOMAIN g = DOMAIN t.map \ {f} /\ \A k \in DOMAIN g : g[k] = t.map[k]
    OBVIOUS
<1>3. Keyed(g)
    BY DEF Keyed
<1> HIDE DEF g
<1>4. Map(g).kind = "map" /\ Map(g).map = g /\ Map(g) \notin {Absent, Bad}
    BY Kinds
<1>5. Parsed(Map(g))
    BY <1>3, <1>4 DEF Parsed
<1>6. t.kind = "map" /\ Inside(t) = {t.map[k] : k \in DOMAIN t.map}
    BY DEF Whole, IsMap, IsList, Inside
<1>7. Inside(Map(g)) = {g[k] : k \in DOMAIN g}
    BY <1>4 DEF IsMap, IsList, Inside
<1>8. \A k \in DOMAIN g : WellMade(g[k])
    BY <1>2, <1>6 DEF Whole
<1>9. Whole(Map(g))
    BY <1>4, <1>5, <1>7, <1>8 DEF Whole
<1>10. \A k : /\ Field(Map(g), k) = IF k \in DOMAIN g THEN g[k] ELSE Absent
              /\ Field(t, k) = IF k \in DOMAIN t.map THEN t.map[k] ELSE Absent
    BY <1>4, <1>6 DEF Field, Lookup, IsMap
<1>11. Field(Map(g), f) = Absent
    BY <1>2, <1>10
<1>12. SameBut(t, Map(g), f)
    BY <1>2, <1>10 DEF SameBut
<1> QED
    BY <1>1, <1>9, <1>11, <1>12

\* The nodes the form makes.
LEMMA Made ==
    /\ \A s : WellMade(Str(s)) /\ Parsed(Str(s)) /\ Parsed(Num(s))
    /\ \A k, a : (a # NoValue => k = "spoiler") => WellMade(Visibility(k, a))
    /\ \A l : Ordered(l) /\ (\A i \in 1..Len(l) : Parsed(l[i])) => WellMade(List(l))
    /\ \A f : Keyed(f) /\ (\A k \in DOMAIN f : Parsed(f[k])) => WellMade(Map(f))
<1>1. \A s : Parsed(Str(s)) /\ Parsed(Num(s))
    BY Kinds DEF Parsed
<1>2. ASSUME NEW s PROVE WellMade(Str(s))
    <2>1. Str(s).kind = "str"
        BY Kinds
    <2>2. Inside(Str(s)) = {}
        BY <2>1 DEF Inside, IsList, IsMap
    <2> QED
        BY <1>1, <2>1, <2>2 DEF WellMade
<1>3. ASSUME NEW k, NEW a, a # NoValue => k = "spoiler" PROVE WellMade(Visibility(k, a))
    <2> DEFINE n == Visibility(k, a)
    <2>1. n.kind = "vis" /\ n.vis.kind = k /\ n.vis.act = a
        BY Kinds
    <2>2. n \notin {Absent, Bad}
        BY <2>1, Kinds
    <2>3. n = Visibility(n.vis.kind, n.vis.act)
        BY <2>1
    <2> HIDE DEF n
    <2>4. Inside(n) = {}
        BY <2>1 DEF Inside, IsList, IsMap
    <2>5. Parsed(n)
        BY <2>1, <2>2 DEF Parsed
    <2>6. WellMade(n)
        BY <1>3, <2>1, <2>3, <2>4, <2>5 DEF WellMade
    <2> QED
        BY <2>6 DEF n
<1>4. ASSUME NEW l, Ordered(l), \A i \in 1..Len(l) : Parsed(l[i]) PROVE WellMade(List(l))
    <2>1. List(l).kind = "list" /\ List(l).list = l /\ List(l) \notin {Absent, Bad}
        BY Kinds
    <2>2. Inside(List(l)) = Range(l)
        BY <2>1 DEF Inside, IsList, IsMap
    <2>3. \A n \in Range(l) : Parsed(n)
        BY <1>4, OrderedIsSeq
    <2>4. Parsed(List(l))
        BY <1>4, <2>1 DEF Parsed
    <2> QED
        BY <2>1, <2>2, <2>3, <2>4 DEF WellMade
<1>5. ASSUME NEW f, Keyed(f), \A k \in DOMAIN f : Parsed(f[k]) PROVE WellMade(Map(f))
    <2>1. Map(f).kind = "map" /\ Map(f).map = f /\ Map(f) \notin {Absent, Bad}
        BY Kinds
    <2>2. Inside(Map(f)) = {f[k] : k \in DOMAIN f}
        BY <2>1 DEF Inside, IsList, IsMap
    <2>3. \A n \in {f[k] : k \in DOMAIN f} : Parsed(n)
        BY <1>5
    <2>4. Parsed(Map(f))
        BY <1>5, <2>1 DEF Parsed
    <2> QED
        BY <2>1, <2>2, <2>3, <2>4 DEF WellMade
<1> QED
    BY <1>1, <1>2, <1>3, <1>4, <1>5

-----------------------------------------------------------------------------
(***************************************************************************)
(* What one Change of the form does to a whole mapping.                    *)
(***************************************************************************)
LEMMA SetsKey ==
    ASSUME NEW t, Whole(t), NEW f, NEW v, v # Bad
    PROVE  EditFrontmatter(t, <<SetTo(<<f>>, v)>>) = With(t, f, v)
<1>1. EditFrontmatter(t, <<SetTo(<<f>>, v)>>) = Apply(t, SetTo(<<f>>, v))
    BY EditOnce
<1>2. t.kind = "map" /\ IsMap(t) /\ t # Bad
    BY Kinds DEF Whole, IsMap
<1>3. Apply(t, SetTo(<<f>>, v)) = setPath(t, <<f>>, v)
    BY <1>2 DEF Apply, SetTo
<1>4. setPath(t, <<f>>, v) = Put(t, f, v)
    BY SetKey
<1>5. Put(t, f, v) = With(t, f, v)
    BY <1>2 DEF Put, IsMap, IsList
<1> QED
    BY <1>1, <1>3, <1>4, <1>5

LEMMA SetsIn ==
    ASSUME NEW t, Whole(t), NEW f, NEW seg, ~IsIndex(seg), NEW v, NEW below,
           below = IF Field(t, f) \in {Absent, Null} THEN emptyCollection(seg) ELSE Field(t, f)
    PROVE  EditFrontmatter(t, <<SetTo(<<f, seg>>, v)>>) =
               IF Put(below, seg, v) = Bad THEN Bad ELSE With(t, f, Put(below, seg, v))
<1> DEFINE c == SetTo(<<f, seg>>, v)
<1>1. EditFrontmatter(t, <<c>>) = Apply(t, c)
    BY EditOnce
<1>2. t.kind = "map" /\ IsMap(t) /\ t # Bad
    BY Kinds DEF Whole, IsMap
<1>3. Apply(t, c) = setPath(t, <<f, seg>>, v)
    BY <1>2 DEF Apply, SetTo
<1>4. setPath(t, <<f, seg>>, v) = Put(t, f, Put(Descend(t, f, seg), seg, v))
    BY SetIn
<1>5. Field(t, f) = Lookup(t, f)
    BY <1>2 DEF Field
<1>6. Descend(t, f, seg) = below
    <2>1. CASE Lookup(t, f) = Absent
        BY <1>2, <1>5, <2>1 DEF Descend, IsMap, IsList
    <2>2. CASE Lookup(t, f) = Null
        BY <1>2, <1>5, <2>2, Kinds DEF Descend, IsMap, IsList
    <2>3. CASE Lookup(t, f) \notin {Absent, Null}
        BY <1>2, <1>5, <2>3 DEF Descend, IsMap, IsList
    <2> QED
        BY <2>1, <2>2, <2>3
<1> DEFINE low == Put(below, seg, v)
<1> HIDE DEF low
<1>7. Put(t, f, low) = IF low = Bad THEN Bad ELSE With(t, f, low)
    BY <1>2 DEF Put, IsMap, IsList
<1> QED
    BY <1>1, <1>3, <1>4, <1>6, <1>7 DEF low

LEMMA DropsKey ==
    ASSUME NEW t, Whole(t), NEW f, Field(t, f) # Absent
    PROVE  EditFrontmatter(t, <<Deleted(<<f>>)>>) = Without(t, f)
<1> DEFINE c == Deleted(<<f>>)
<1>1. EditFrontmatter(t, <<c>>) = Apply(t, c)
    BY EditOnce
<1>2. t.kind = "map" /\ IsMap(t) /\ t # Bad
    BY Kinds DEF Whole, IsMap
<1>3. Apply(t, c) = deletePath(t, <<f>>)
    BY <1>2 DEF Apply, Deleted
<1>4. Enter(t, f) = Field(t, f)
    BY <1>2, Kinds DEF Enter, Field, IsMap, IsList
<1>5. Field(t, f) # Bad
    BY FieldIs
<1>6. deletePath(t, <<f>>) =
          CASE Enter(t, f) = Absent -> t [] Enter(t, f) = Bad -> Bad [] OTHER -> Cut(t, f)
    BY DeleteKey
<1>7. Cut(t, f) = Without(t, f)
    BY <1>2 DEF Cut
<1> QED
    BY <1>1, <1>3, <1>4, <1>5, <1>6, <1>7

LEMMA DropsIn ==
    ASSUME NEW t, Whole(t), NEW f, NEW seg, NEW n, n = Field(t, f),
           Enter(n, seg) # Absent, Enter(n, seg) # Bad, Cut(n, seg) # Bad
    PROVE  EditFrontmatter(t, <<Deleted(<<f, seg>>)>>) = With(t, f, Cut(n, seg))
<1> DEFINE c == Deleted(<<f, seg>>)
<1>1. EditFrontmatter(t, <<c>>) = Apply(t, c)
    BY EditOnce
<1>2. t.kind = "map" /\ IsMap(t) /\ t # Bad
    BY Kinds DEF Whole, IsMap
<1>3. Apply(t, c) = deletePath(t, <<f, seg>>)
    BY <1>2 DEF Apply, Deleted
<1>4. Enter(t, f) = n
    BY <1>2, Kinds DEF Enter, Field, IsMap, IsList
<1>5. deletePath(t, <<f, seg>>) =
          CASE Enter(Enter(t, f), seg) = Absent -> t
            [] Enter(Enter(t, f), seg) = Bad -> Bad
            [] OTHER -> Put(t, f, Cut(Enter(t, f), seg))
    BY DeleteIn
<1>6. Put(t, f, Cut(n, seg)) = With(t, f, Cut(n, seg))
    BY <1>2 DEF Put, IsMap, IsList
<1> QED
    BY <1>1, <1>3, <1>4, <1>5, <1>6

\* The tree after the post of a control.
Edited(t, made) == IF made = <<>> THEN t ELSE EditFrontmatter(t, made)

LEMMA OneIsSome == \A c : <<c>> # <<>>
    OBVIOUS

-----------------------------------------------------------------------------
(***************************************************************************)
(* Lists.                                                                  *)
(***************************************************************************)
ItemsIn(n) == IF IsList(n) THEN n.list ELSE <<>>

\* What a post makes of the list in a field.
Extended(n, m) == \E v : v # NoValue /\ m = List(Append(ItemsIn(n), Str(v)))
Shortened(n, m) == \E i \in 1..Len(n.list) : IsList(n) /\ Len(n.list) > 1 /\ m = List(RemoveAt(n.list, i))
ListStepped(n, m) ==
    m = n \/ (m = Absent /\ IsList(n)) \/ (Extended(n, m) /\ (n \in {Absent, Null} \/ IsList(n)))
    \/ Shortened(n, m)

LEMMA TextsAre ==
    ASSUME NEW l, Ordered(l)
    PROVE  /\ Ordered(TextsOf(List(l))) /\ Len(TextsOf(List(l))) = Len(l)
           /\ \A i \in 1..Len(l) : TextsOf(List(l))[i] = TextOf(l[i])
<1>1. IsList(List(l)) /\ List(l).list = l
    BY Kinds DEF IsList
<1>2. TextsOf(List(l)) = [i \in 1..Len(l) |-> TextOf(l[i])]
    BY <1>1 DEF TextsOf
<1>3. Len(l) \in Nat
    BY DEF Ordered
<1> DEFINE s == [i \in 1..Len(l) |-> TextOf(l[i])]
<1>4. Len(s) = Len(l)
    BY <1>3
<1>5. Ordered(s)
    BY <1>3, <1>4 DEF Ordered
<1> QED
    BY <1>2, <1>4, <1>5

LEMMA NoTexts ==
    ASSUME NEW n, ~IsList(n)
    PROVE  TextsOf(n) = <<>> /\ Ordered(TextsOf(n)) /\ Range(TextsOf(n)) = {}
<1>1. TextsOf(n) = <<>>
    BY DEF TextsOf
<1>2. Ordered(<<>>) /\ Range(<<>>) = {}
    BY DEF Ordered, Range
<1> QED
    BY <1>1, <1>2

LEMMA ListIs ==
    ASSUME NEW n, WellMade(n), IsList(n)
    PROVE  /\ n = List(n.list) /\ Ordered(n.list)
           /\ \A i \in 1..Len(n.list) : Parsed(n.list[i])
<1>1. n.kind = "list" /\ Parsed(n) /\ \A part \in Inside(n) : Parsed(part)
    BY DEF WellMade, IsList
<1>2. n = List(n.list) /\ Ordered(n.list)
    BY <1>1 DEF Parsed
<1>3. Inside(n) = Range(n.list)
    BY <1>1 DEF Inside, IsList, IsMap
<1>4. DOMAIN n.list = 1..Len(n.list)
    BY <1>2, OrderedIsSeq
<1> QED
    BY <1>1, <1>2, <1>3, <1>4 DEF Range

\* An item added at the end.
LEMMA AddedTo ==
    ASSUME NEW l, Ordered(l), \A i \in 1..Len(l) : Parsed(l[i]), NEW v
    PROVE  /\ WellMade(List(Append(l, Str(v))))
           /\ TextsOf(List(Append(l, Str(v)))) = Append(TextsOf(List(l)), v)
<1> DEFINE r == Append(l, Str(v))
           s == TextsOf(List(l))
<1>1. /\ Ordered(r) /\ Len(r) = Len(l) + 1 /\ r[Len(l) + 1] = Str(v)
      /\ \A i \in 1..Len(l) : r[i] = l[i]
    BY Appended
<1> HIDE DEF r
<1>2. Len(l) \in Nat /\ \A i \in 1..(Len(l) + 1) : i \in 1..Len(l) \/ i = Len(l) + 1
    BY DEF Ordered
<1>3. \A i \in 1..Len(r) : Parsed(r[i])
    BY <1>1, <1>2, Made
<1>4. WellMade(List(r))
    BY <1>1, <1>3, Made
<1>5. Ordered(s) /\ Len(s) = Len(l) /\ \A i \in 1..Len(l) : s[i] = TextOf(l[i])
    BY TextsAre
<1> HIDE DEF s
<1>6. /\ Ordered(TextsOf(List(r))) /\ Len(TextsOf(List(r))) = Len(l) + 1
      /\ \A i \in 1..(Len(l) + 1) : TextsOf(List(r))[i] = TextOf(r[i])
    BY <1>1, TextsAre
<1>7. /\ Ordered(Append(s, v)) /\ Len(Append(s, v)) = Len(l) + 1
      /\ Append(s, v)[Len(l) + 1] = v /\ \A i \in 1..Len(l) : Append(s, v)[i] = s[i]
    BY <1>5, Appended
<1>8. TextOf(Str(v)) = v
    BY Kinds DEF TextOf
<1>9. \A i \in 1..(Len(l) + 1) : TextsOf(List(r))[i] = Append(s, v)[i]
    BY <1>1, <1>2, <1>5, <1>6, <1>7, <1>8
<1>10. TextsOf(List(r)) = Append(s, v)
    BY <1>6, <1>7, <1>9, SeqSame
<1> QED
    BY <1>4, <1>10 DEF r, s

\* An item taken out.
LEMMA TakenFrom ==
    ASSUME NEW l, Ordered(l), \A i \in 1..Len(l) : Parsed(l[i]), NEW k \in 1..Len(l)
    PROVE  /\ WellMade(List(RemoveAt(l, k)))
           /\ TextsOf(List(RemoveAt(l, k))) = RemoveAt(TextsOf(List(l)), k)
<1> DEFINE r == RemoveAt(l, k)
           s == TextsOf(List(l))
<1>1. /\ Ordered(r) /\ Len(r) = Len(l) - 1
      /\ \A i \in 1..(Len(l) - 1) : r[i] = IF i < k THEN l[i] ELSE l[i + 1]
    BY ItemRemoved
<1> HIDE DEF r
<1>2. Len(l) \in Nat /\ \A i \in 1..(Len(l) - 1) : i \in 1..Len(l) /\ i + 1 \in 1..Len(l)
    BY DEF Ordered
<1>3. \A i \in 1..Len(r) : Parsed(r[i])
    BY <1>1, <1>2
<1>4. WellMade(List(r))
    BY <1>1, <1>3, Made
<1>5. Ordered(s) /\ Len(s) = Len(l) /\ \A i \in 1..Len(l) : s[i] = TextOf(l[i])
    BY TextsAre
<1> HIDE DEF s
<1>6. /\ Ordered(TextsOf(List(r))) /\ Len(TextsOf(List(r))) = Len(l) - 1
      /\ \A i \in 1..(Len(l) - 1) : TextsOf(List(r))[i] = TextOf(r[i])
    BY <1>1, TextsAre
<1>7. /\ Ordered(RemoveAt(s, k)) /\ Len(RemoveAt(s, k)) = Len(l) - 1
      /\ \A i \in 1..(Len(l) - 1) : RemoveAt(s, k)[i] = IF i < k THEN s[i] ELSE s[i + 1]
    BY <1>5, ItemRemoved
<1>8. \A i \in 1..(Len(l) - 1) : TextsOf(List(r))[i] = RemoveAt(s, k)[i]
    BY <1>1, <1>2, <1>5, <1>6, <1>7
<1>9. TextsOf(List(r)) = RemoveAt(s, k)
    BY <1>6, <1>7, <1>8, SeqSame
<1> QED
    BY <1>4, <1>9 DEF r, s

\* A part of a mapping written, and taken out.
LEMMA PartWritten ==
    ASSUME NEW n, WellMade(n), IsMap(n), NEW k, NEW v, Parsed(v)
    PROVE  /\ WellMade(With(n, k, v)) /\ IsMap(With(n, k, v))
           /\ DOMAIN With(n, k, v).map = DOMAIN n.map \union {k}
           /\ Field(With(n, k, v), k) = v
           /\ SameBut(n, With(n, k, v), k)
<1> DEFINE g == [j \in DOMAIN n.map \union {k} |-> IF j = k THEN v ELSE n.map[j]]
<1>1. With(n, k, v) = Map(g)
    BY DEF With
<1>2. DOMAIN g = DOMAIN n.map \union {k} /\ g[k] = v /\ \A j \in DOMAIN n.map : j # k => g[j] = n.map[j]
    OBVIOUS
<1>3. Keyed(g)
    BY DEF Keyed
<1> HIDE DEF g
<1>4. n.kind = "map" /\ \A part \in Inside(n) : Parsed(part)
    BY DEF WellMade, IsMap
<1>5. Inside(n) = {n.map[j] : j \in DOMAIN n.map}
    BY <1>4 DEF Inside, IsList, IsMap
<1>6. \A j \in DOMAIN g : Parsed(g[j])
    BY <1>2, <1>4, <1>5
<1>7. WellMade(Map(g))
    BY <1>3, <1>6, Made
<1>8. Map(g).map = g /\ IsMap(Map(g))
    BY Kinds DEF IsMap
<1>9. \A j : /\ Field(Map(g), j) = IF j \in DOMAIN g THEN g[j] ELSE Absent
             /\ Field(n, j) = IF j \in DOMAIN n.map THEN n.map[j] ELSE Absent
    BY <1>8 DEF Field, Lookup
<1>10. SameBut(n, Map(g), k)
    BY <1>2, <1>9 DEF SameBut
<1>11. Field(Map(g), k) = v
    BY <1>2, <1>9
<1> QED
    BY <1>1, <1>2, <1>7, <1>8, <1>10, <1>11

LEMMA PartDropped ==
    ASSUME NEW n, WellMade(n), IsMap(n), NEW k
    PROVE  /\ WellMade(Without(n, k)) /\ IsMap(Without(n, k))
           /\ DOMAIN Without(n, k).map = DOMAIN n.map \ {k}
           /\ Field(Without(n, k), k) = Absent
           /\ SameBut(n, Without(n, k), k)
<1> DEFINE g == [j \in DOMAIN n.map \ {k} |-> n.map[j]]
<1>1. Without(n, k) = Map(g)
    BY DEF Without
<1>2. DOMAIN g = DOMAIN n.map \ {k} /\ \A j \in DOMAIN g : g[j] = n.map[j]
    OBVIOUS
<1>3. Keyed(g)
    BY DEF Keyed
<1> HIDE DEF g
<1>4. n.kind = "map" /\ \A part \in Inside(n) : Parsed(part)
    BY DEF WellMade, IsMap
<1>5. Inside(n) = {n.map[j] : j \in DOMAIN n.map}
    BY <1>4 DEF Inside, IsList, IsMap
<1>6. \A j \in DOMAIN g : Parsed(g[j])
    BY <1>2, <1>4, <1>5
<1>7. WellMade(Map(g))
    BY <1>3, <1>6, Made
<1>8. Map(g).map = g /\ IsMap(Map(g))
    BY Kinds DEF IsMap
<1>9. \A j : /\ Field(Map(g), j) = IF j \in DOMAIN g THEN g[j] ELSE Absent
             /\ Field(n, j) = IF j \in DOMAIN n.map THEN n.map[j] ELSE Absent
    BY <1>8 DEF Field, Lookup
<1>10. SameBut(n, Map(g), k)
    BY <1>2, <1>9 DEF SameBut
<1>11. Field(Map(g), k) = Absent
    BY <1>2, <1>9
<1> QED
    BY <1>1, <1>2, <1>7, <1>8, <1>10, <1>11

\* The index a post is worked out to leads to the item it was worked out from.
LEMMA IndexLeadsBack ==
    ASSUME NEW i \in 1..Len(Numerals)
    PROVE  ItemAt(Numerals[i]) = i
<1>1. DOMAIN Numerals = 1..Len(Numerals)
    BY NumeralsOK, OrderedIsSeq
<1>2. \A j \in 1..Len(Numerals) : Numerals[j] = Numerals[i] => j = i
    BY <1>1, NumeralsOK DEF IsInjective
<1> QED
    BY <1>2 DEF ItemAt

LEMMA ItemAdded ==
    ASSUME NEW t, Whole(t), NEW f, NEW n, n = Field(t, f), NEW v,
           NEW u, u = EditFrontmatter(t, <<SetTo(<<f, appendSegment>>, Str(v))>>)
    PROVE  \/ u = Bad /\ n \notin {Absent, Null} /\ ~IsList(n)
           \/ Whole(u) /\ SameBut(t, u, f) /\ IsMap(n) /\ IsMap(Field(u, f))
           \/ /\ Whole(u) /\ SameBut(t, u, f) /\ (n \in {Absent, Null} \/ IsList(n))
              /\ Field(u, f) = List(Append(ItemsIn(n), Str(v)))
              /\ TextsOf(Field(u, f)) = Append(TextsOf(n), v)
<1> DEFINE below == IF n \in {Absent, Null} THEN emptyCollection(appendSegment) ELSE n
           put == Put(below, appendSegment, Str(v))
<1>1. u = IF put = Bad THEN Bad ELSE With(t, f, put)
    <2>1. ~IsIndex(appendSegment)
        BY NumeralsOK
    <2> QED
        BY <2>1, SetsIn
<1>2. Node(n) /\ n # Bad
    BY FieldIs
<1>3. Str(v) # Bad /\ Parsed(Str(v))
    BY Kinds, Made
<1>4. emptyCollection(appendSegment) = List(<<>>)
    BY DEF emptyCollection
<1>5. ASSUME NEW l, below = List(l), Ordered(l), \A i \in 1..Len(l) : Parsed(l[i]),
             l = ItemsIn(n), TextsOf(List(l)) = TextsOf(n)
      PROVE  /\ Whole(u) /\ SameBut(t, u, f)
             /\ Field(u, f) = List(Append(ItemsIn(n), Str(v)))
             /\ TextsOf(Field(u, f)) = Append(TextsOf(n), v)
    <2>1. List(l).kind = "list" /\ List(l).list = l
        BY Kinds
    <2> HIDE DEF below
    <2>2. put = List(Append(l, Str(v)))
        <3>1. Put(List(l), appendSegment, Str(v)) = List(Append(l, Str(v)))
            BY <1>3, <2>1, NumeralsOK DEF Put, HasItem, IsMap, IsList
        <3> QED
            BY <1>5, <3>1
    <2>3. /\ WellMade(List(Append(l, Str(v))))
          /\ TextsOf(List(Append(l, Str(v)))) = Append(TextsOf(List(l)), v)
        BY <1>5, AddedTo
    <2> HIDE DEF put
    <2>4. put # Bad
        BY <2>2, Kinds
    <2>5. u = With(t, f, put)
        BY <1>1, <2>4
    <2>6. Whole(u) /\ Field(u, f) = put /\ SameBut(t, u, f)
        BY <2>2, <2>3, <2>5, Written
    <2> QED
        BY <1>5, <2>2, <2>3, <2>6
<1>6. CASE n \in {Absent, Null}
    <2>1. ~IsList(n)
        BY <1>6, Kinds DEF IsList
    <2>2. ItemsIn(n) = <<>> /\ TextsOf(n) = <<>>
        BY <2>1, NoTexts DEF ItemsIn
    <2>3. Ordered(<<>>) /\ Len(<<>>) = 0
        BY NoTexts DEF Ordered
    <2>4. TextsOf(List(<<>>)) = <<>>
        <3>1. Ordered(TextsOf(List(<<>>))) /\ Len(TextsOf(List(<<>>))) = 0
            BY <2>3, TextsAre
        <3> QED
            BY <2>3, <3>1, SeqSame
    <2>5. below = List(<<>>)
        BY <1>4, <1>6
    <2> QED
        BY <1>5, <1>6, <2>2, <2>3, <2>4, <2>5
<1>7. CASE IsList(n)
    <2>1. n.kind = "list" /\ n \notin {Absent, Null}
        BY <1>7, Kinds DEF IsList
    <2>2. below = n /\ WellMade(n) /\ ItemsIn(n) = n.list
        BY <1>2, <1>7, <2>1 DEF Node, ItemsIn
    <2>3. n = List(n.list) /\ Ordered(n.list) /\ \A i \in 1..Len(n.list) : Parsed(n.list[i])
        BY <1>7, <2>2, ListIs
    <2> QED
        BY <1>5, <1>7, <2>2, <2>3
<1>8. CASE IsMap(n)
    <2>1. n.kind = "map" /\ n \notin {Absent, Null}
        BY <1>8, Kinds DEF IsMap
    <2>2. below = n /\ WellMade(n)
        BY <1>2, <2>1 DEF Node
    <2>3. put = With(n, appendSegment, Str(v))
        BY <1>3, <2>1, <2>2 DEF Put, IsMap, IsList
    <2>4. WellMade(put) /\ IsMap(put)
        BY <1>3, <1>8, <2>2, <2>3, PartWritten
    <2> HIDE DEF put
    <2>5. put # Bad
        BY <2>4, Kinds DEF IsMap
    <2>6. u = With(t, f, put)
        BY <1>1, <2>5
    <2>7. Whole(u) /\ Field(u, f) = put /\ SameBut(t, u, f)
        BY <2>4, <2>6, Written
    <2> QED
        BY <1>8, <2>4, <2>7
<1>9. CASE n \notin {Absent, Null} /\ ~IsList(n) /\ ~IsMap(n)
    <2>1. below = n
        BY <1>9
    <2>2. put = Bad
        BY <1>3, <1>9, <2>1 DEF Put
    <2> HIDE DEF put
    <2> QED
        BY <1>1, <1>9, <2>2
<1> QED
    BY <1>6, <1>7, <1>8, <1>9

LEMMA ItemTaken ==
    ASSUME NEW t, Whole(t), NEW f, NEW n, n = Field(t, f), NEW v, v \in Range(TextsOf(n)),
           IsList(n) => Len(n.list) <= Len(Numerals),
           NEW u, u = EditFrontmatter(t, ItemGone(f, TextsOf(n), v))
    PROVE  /\ Whole(u) /\ SameBut(t, u, f) /\ IsList(n)
           /\ Field(u, f) = Absent \/ Shortened(n, Field(u, f))
           /\ TextsOf(Field(u, f)) = RemoveFirst(TextsOf(n), v)
<1> DEFINE items == TextsOf(n)
           first == CHOOSE i \in 1..Len(items) : items[i] = v /\ \A j \in 1..(i - 1) : items[j] # v
           l == n.list
<1>1. IsList(n) /\ n.kind = "list" /\ n \notin {Absent, Null, Bad}
    <2>1. IsList(n)
        BY NoTexts
    <2> QED
        BY <2>1, Kinds DEF IsList
<1>2. n = List(l) /\ Ordered(l) /\ \A i \in 1..Len(l) : Parsed(l[i])
    BY <1>1, FieldIs, ListIs DEF Node
<1>3. Ordered(items) /\ Len(items) = Len(l)
    BY <1>2, TextsAre
<1>4. first \in 1..Len(items) /\ items[first] = v /\ RemoveFirst(items, v) = RemoveAt(items, first)
    BY <1>3, FirstRemoved
<1>5. IndexOf(items, v) = Numerals[first]
    BY DEF IndexOf
<1> HIDE DEF items, first, l
<1>6. CASE Len(items) = 1
    <2>1. ItemGone(f, items, v) = <<Deleted(<<f>>)>>
        BY <1>6 DEF ItemGone
    <2>2. u = Without(t, f)
        BY <1>1, <2>1, DropsKey DEF items
    <2>3. Whole(u) /\ Field(u, f) = Absent /\ SameBut(t, u, f)
        BY <2>2, Dropped
    <2>4. Ordered(RemoveAt(items, first)) /\ Len(RemoveAt(items, first)) = 0
        BY <1>3, <1>4, <1>6, ItemRemoved
    <2>5. ~IsList(Absent)
        BY Kinds DEF IsList
    <2>6. TextsOf(Absent) = <<>> /\ Ordered(<<>>) /\ Len(<<>>) = 0
        BY <2>5, NoTexts
    <2>7. RemoveAt(items, first) = <<>>
        BY <2>4, <2>6, SeqSame
    <2> QED
        BY <1>1, <1>4, <2>3, <2>6, <2>7 DEF items
<1>7. CASE Len(items) # 1
    <2> DEFINE seg == Numerals[first]
    <2>1. ItemGone(f, items, v) = <<Deleted(<<f, seg>>)>>
        BY <1>5, <1>7 DEF ItemGone
    <2>2. Len(l) \in Nat /\ Len(l) <= Len(Numerals) /\ Len(Numerals) \in Nat /\ first \in 1..Len(l)
        BY <1>1, <1>2, <1>3, <1>4, NumeralsOK DEF Ordered, l
    <2>3. first \in 1..Len(Numerals) /\ Len(l) > 1
        BY <1>3, <1>7, <2>2
    <2>4. ItemAt(seg) = first
        BY <2>3, IndexLeadsBack
    <2>5. HasItem(n, seg)
        <3>1. IsIndex(seg)
            BY <2>3, NumeralsOK, OrderedIsSeq DEF IsIndex, Range
        <3> QED
            BY <2>2, <2>4, <3>1 DEF HasItem, l
    <2> HIDE DEF seg
    <2>6. Enter(n, seg) = l[first]
        BY <1>1, <2>4, <2>5, Kinds DEF Enter, IsMap, IsList, l
    <2>7. Cut(n, seg) = List(RemoveAt(l, first))
        BY <1>1, <2>4 DEF Cut, IsMap, l
    <2>8. Enter(n, seg) # Absent /\ Enter(n, seg) # Bad
        BY <1>2, <2>2, <2>6 DEF Parsed
    <2>9. Cut(n, seg) # Bad
        BY <2>7, Kinds
    <2>10. u = With(t, f, Cut(n, seg))
        BY <2>1, <2>8, <2>9, DropsIn DEF items
    <2>11. /\ WellMade(List(RemoveAt(l, first)))
           /\ TextsOf(List(RemoveAt(l, first))) = RemoveAt(TextsOf(List(l)), first)
        BY <1>2, <2>2, TakenFrom
    <2>12. Whole(u) /\ Field(u, f) = List(RemoveAt(l, first)) /\ SameBut(t, u, f)
        BY <2>7, <2>10, <2>11, Written
    <2>13. Shortened(n, Field(u, f))
        BY <1>1, <2>2, <2>3, <2>12 DEF Shortened, l
    <2> QED
        BY <1>1, <1>2, <1>4, <2>11, <2>12, <2>13 DEF items
<1> QED
    BY <1>6, <1>7

\* EntityForm's sequence operators are this module's.
LEMMA FormSequences ==
    /\ \A s : Form!Range(s) = Range(s)
    /\ \A s, e : Form!RemoveFirst(s, e) = RemoveFirst(s, e)
<1>1. \A s : Form!Range(s) = Range(s)
    BY DEF Form!Range, Range
<1>2. \A s, i : Form!RemoveAt(s, i) = RemoveAt(s, i)
    BY DEF Form!RemoveAt, RemoveAt
<1>3. \A S : Form!Min(S) = Min(S)
    BY DEF Form!Min, Min
<1>4. ASSUME NEW s, NEW e PROVE Form!RemoveFirst(s, e) = RemoveFirst(s, e)
    BY <1>2, <1>3 DEF Form!RemoveFirst, RemoveFirst, Form!SelectInSeq, SelectInSeq
<1> QED
    BY <1>1, <1>4

LEMMA ItemPosted ==
    ASSUME NEW t, Whole(t), NEW f, NEW p, p.op \in {"add", "remove"}, NEW n, n = Field(t, f),
           IsList(n) => Len(n.list) <= Len(Numerals),
           NEW u, u = Edited(t, ItemChange(f, TextsOf(n), p))
    PROVE  \/ u = Bad /\ n \notin {Absent, Null} /\ ~IsList(n)
           \/ Whole(u) /\ SameBut(t, u, f) /\ IsMap(n) /\ IsMap(Field(u, f))
           \/ /\ Whole(u) /\ SameBut(t, u, f) /\ ListStepped(n, Field(u, f))
              /\ TextsOf(Field(u, f)) = Form!ItemsAfter(TextsOf(n), p)
<1> DEFINE items == TextsOf(n)
           v == p.value
           adds == p.op = "add" /\ v \notin Range(items) \union {NoValue}
           takes == p.op = "remove" /\ v \in Range(items)
<1>1. Ordered(items)
    BY NoTexts, TextsAre, ListIs, FieldIs, Kinds DEF Node, IsList
<1>2. Form!ItemsAfter(items, p) =
          IF adds THEN Append(items, v) ELSE IF p.op = "remove" THEN RemoveFirst(items, v) ELSE items
    BY FormSequences DEF Form!ItemsAfter, Form!NoValue, NoValue
<1> HIDE DEF items
<1>3. CASE adds
    <2>1. ItemChange(f, items, p) = <<SetTo(<<f, appendSegment>>, Str(v))>>
        BY <1>3 DEF ItemChange
    <2>2. u = EditFrontmatter(t, <<SetTo(<<f, appendSegment>>, Str(v))>>)
        BY <2>1, OneIsSome DEF Edited, items
    <2>3. \/ u = Bad /\ n \notin {Absent, Null} /\ ~IsList(n)
          \/ Whole(u) /\ SameBut(t, u, f) /\ IsMap(n) /\ IsMap(Field(u, f))
          \/ /\ Whole(u) /\ SameBut(t, u, f) /\ (n \in {Absent, Null} \/ IsList(n))
             /\ Field(u, f) = List(Append(ItemsIn(n), Str(v)))
             /\ TextsOf(Field(u, f)) = Append(TextsOf(n), v)
        BY <2>2, ItemAdded
    <2>4. v # NoValue
        BY <1>3
    <2>5. Form!ItemsAfter(items, p) = Append(items, v)
        BY <1>2, <1>3
    <2> QED
        BY <2>3, <2>4, <2>5 DEF ListStepped, Extended, items
<1>4. CASE takes
    <2>1. ItemChange(f, items, p) = ItemGone(f, items, v)
        BY <1>4 DEF ItemChange
    <2>2. ItemGone(f, items, v) # <<>>
        BY OneIsSome DEF ItemGone
    <2>3. u = EditFrontmatter(t, ItemGone(f, items, v))
        BY <2>1, <2>2 DEF Edited, items
    <2>4. /\ Whole(u) /\ SameBut(t, u, f) /\ IsList(n)
          /\ Field(u, f) = Absent \/ Shortened(n, Field(u, f))
          /\ TextsOf(Field(u, f)) = RemoveFirst(TextsOf(n), v)
        BY <1>4, <2>3, ItemTaken DEF items
    <2>5. Form!ItemsAfter(items, p) = RemoveFirst(items, v)
        BY <1>2, <1>4
    <2> QED
        BY <2>4, <2>5 DEF ListStepped, items
<1>5. CASE ~adds /\ ~takes
    <2>1. ItemChange(f, items, p) = <<>>
        BY <1>5 DEF ItemChange
    <2>2. u = t
        BY <2>1 DEF Edited, items
    <2>3. Form!ItemsAfter(items, p) = items
        BY <1>1, <1>2, <1>5, NoneRemoved
    <2> QED
        BY <2>2, <2>3 DEF ListStepped, SameBut, items
<1> QED
    BY <1>3, <1>4, <1>5

-----------------------------------------------------------------------------
(***************************************************************************)
(* Spans.                                                                  *)
(***************************************************************************)
SpanParts == {"era", "earliest", "latest", "precision"}
SpanFits(n) == n \in {Absent, Null} \/ IsMap(n)
Nothing(sub) == IF sub \in Years THEN NoYear ELSE NoValue
PartOf(n, sub) == IF sub \in Years THEN YearIn(Field(n, sub)) ELSE TextOf(Field(n, sub))

\* A span as the form would have written it.
Canon(n) == n = Absent \/ (IsMap(n) /\ DOMAIN n.map # {} /\ SaysAll(n))
SpanStepped(n, m) == m = n \/ (SpanFits(n) /\ SpanFits(m) /\ (Canon(n) => Canon(m)))

LEMMA SpanIs ==
    ASSUME NEW n
    PROVE  /\ SpanOf(n) = [era |-> PartOf(n, "era"), earliest |-> PartOf(n, "earliest"),
                           latest |-> PartOf(n, "latest"), precision |-> PartOf(n, "precision")]
           /\ \A sub \in SpanParts : SpanOf(n)[sub] = PartOf(n, sub)
<1>1. SpanOf(n) = [era |-> PartOf(n, "era"), earliest |-> PartOf(n, "earliest"),
                   latest |-> PartOf(n, "latest"), precision |-> PartOf(n, "precision")]
    BY DEF SpanOf, PartOf, Years
<1> QED
    BY <1>1 DEF SpanParts

LEMMA EmptySpan ==
    /\ NoSpan = [era |-> Nothing("era"), earliest |-> Nothing("earliest"),
                 latest |-> Nothing("latest"), precision |-> Nothing("precision")]
    /\ DOMAIN NoSpan = SpanParts
    /\ \A sub \in SpanParts : NoSpan[sub] = Nothing(sub)
<1>1. NoSpan = [era |-> Nothing("era"), earliest |-> Nothing("earliest"),
                latest |-> Nothing("latest"), precision |-> Nothing("precision")]
    BY DEF NoSpan, Nothing, Years
<1> QED
    BY <1>1 DEF SpanParts

\* A part that says something is a part of a mapping.
LEMMA PartIsThere ==
    ASSUME NEW n, NEW sub, PartOf(n, sub) # Nothing(sub)
    PROVE  Field(n, sub) # Absent /\ IsMap(n)
<1>1. YearIn(Absent) = NoYear /\ TextOf(Absent) = NoValue
    BY Kinds DEF YearIn, TextOf
<1>2. Field(n, sub) # Absent
    BY <1>1 DEF PartOf, Nothing
<1> QED
    BY <1>2 DEF Field

LEMMA NoMapNoSpan ==
    ASSUME NEW n, ~IsMap(n)
    PROVE  SpanOf(n) = NoSpan
<1>1. \A sub : PartOf(n, sub) = Nothing(sub)
    BY PartIsThere
<1> QED
    BY <1>1, SpanIs, EmptySpan

\* The next span differs in the part the post is about, if at all.
LEMMA NextSpanIs ==
    ASSUME NEW n, NEW p, p.op \in SpanParts, NEW x, x = SpanOf(n), NEW y, y = NextSpan(x, p), y # x
    PROVE  /\ y = [era |-> y.era, earliest |-> y.earliest, latest |-> y.latest, precision |-> y.precision]
           /\ \A sub \in SpanParts : sub # p.op => y[sub] = x[sub]
           /\ y[p.op] # x[p.op]
           /\ p.op \in Years => y[p.op] = NoYear \/ y[p.op] = Year(y[p.op].year)
<1>1. x = [era |-> x.era, earliest |-> x.earliest, latest |-> x.latest, precision |-> x.precision]
    BY SpanIs
<1>2. CASE p.op = "era"
    <2>1. y = [x EXCEPT !.era = p.value]
        BY <1>2 DEF NextSpan, Years
    <2>2. y = [era |-> p.value, earliest |-> x.earliest, latest |-> x.latest, precision |-> x.precision]
        BY <1>1, <2>1
    <2> QED
        BY <1>1, <1>2, <2>2 DEF SpanParts, Years
<1>3. CASE p.op = "precision"
    <2>1. y = [x EXCEPT !.precision = Toggled(p, x)]
        BY <1>3 DEF NextSpan, Years
    <2>2. y = [era |-> x.era, earliest |-> x.earliest, latest |-> x.latest, precision |-> Toggled(p, x)]
        BY <1>1, <2>1
    <2> QED
        BY <1>1, <1>3, <2>2 DEF SpanParts, Years
<1>4. CASE p.op = "earliest"
    <2>1. \/ y = [x EXCEPT !.earliest = NoYear]
          \/ y = [x EXCEPT !.earliest = Year(YearOf[p.value])]
        <3>1. \/ NextSpan(x, p) = [x EXCEPT ![p.op] = NoYear]
              \/ NextSpan(x, p) = [x EXCEPT ![p.op] = Year(YearOf[p.value])]
              \/ NextSpan(x, p) = x
            <4>1. p.op \in Years /\ p.op # "era" /\ p.op # "precision"
                BY <1>4 DEF Years
            <4>2. CASE p.value = NoValue
                BY <4>1, <4>2, YearsOK DEF NextSpan, NoValue
            <4>3. CASE p.value # NoValue /\ p.value \in DOMAIN YearOf
                BY <4>1, <4>3 DEF NextSpan
            <4>4. CASE p.value # NoValue /\ p.value \notin DOMAIN YearOf
                BY <4>1, <4>4 DEF NextSpan
            <4> QED
                BY <4>2, <4>3, <4>4
        <3> QED
            BY <1>4, <3>1
    <2>2. PICK v : y = [x EXCEPT !.earliest = v] /\ (v = NoYear \/ v = Year(YearOf[p.value]))
        BY <2>1
    <2>3. y = [era |-> x.era, earliest |-> v, latest |-> x.latest, precision |-> x.precision]
        BY <1>1, <2>2
    <2>4. v = NoYear \/ v = Year(v.year)
        BY <2>2 DEF Year
    <2> QED
        BY <1>1, <1>4, <2>3, <2>4 DEF SpanParts, Years
<1>5. CASE p.op = "latest"
    <2>1. \/ y = [x EXCEPT !.latest = NoYear]
          \/ y = [x EXCEPT !.latest = Year(YearOf[p.value])]
        <3>1. \/ NextSpan(x, p) = [x EXCEPT ![p.op] = NoYear]
              \/ NextSpan(x, p) = [x EXCEPT ![p.op] = Year(YearOf[p.value])]
              \/ NextSpan(x, p) = x
            <4>1. p.op \in Years /\ p.op # "era" /\ p.op # "precision"
                BY <1>5 DEF Years
            <4>2. CASE p.value = NoValue
                BY <4>1, <4>2, YearsOK DEF NextSpan, NoValue
            <4>3. CASE p.value # NoValue /\ p.value \in DOMAIN YearOf
                BY <4>1, <4>3 DEF NextSpan
            <4>4. CASE p.value # NoValue /\ p.value \notin DOMAIN YearOf
                BY <4>1, <4>4 DEF NextSpan
            <4> QED
                BY <4>2, <4>3, <4>4
        <3> QED
            BY <1>5, <3>1
    <2>2. PICK v : y = [x EXCEPT !.latest = v] /\ (v = NoYear \/ v = Year(YearOf[p.value]))
        BY <2>1
    <2>3. y = [era |-> x.era, earliest |-> x.earliest, latest |-> v, precision |-> x.precision]
        BY <1>1, <2>2
    <2>4. v = NoYear \/ v = Year(v.year)
        BY <2>2 DEF Year
    <2> QED
        BY <1>1, <1>5, <2>3, <2>4 DEF SpanParts, Years
<1> QED
    BY <1>2, <1>3, <1>4, <1>5 DEF SpanParts

LEMMA FormSpans == \A x, p : Form!SpanAfter(x, p) = NextSpan(x, p)
<1>1. \A k : Form!Year(k) = Year(k)
    BY DEF Form!Year, Year
<1>2. Form!NoYear = NoYear /\ Form!NoValue = NoValue
    BY DEF Form!NoYear, NoYear, Form!NoValue, NoValue
<1> SUFFICES ASSUME NEW x, NEW p PROVE Form!SpanAfter(x, p) = NextSpan(x, p)
    OBVIOUS
<1> QED
    BY <1>1, <1>2 DEF Form!SpanAfter, NextSpan, Toggled, Years

\* When a mapping says of one part what the next span says, and of the others what
\* the last did, it says the next span.
LEMMA SpanBecomes ==
    ASSUME NEW x, NEW y, NEW s \in SpanParts,
           y = [era |-> y.era, earliest |-> y.earliest, latest |-> y.latest, precision |-> y.precision],
           \A sub \in SpanParts : sub # s => y[sub] = x[sub],
           NEW n, NEW m, SpanOf(n) = x, SameBut(n, m, s), PartOf(m, s) = y[s]
    PROVE  SpanOf(m) = y
<1>1. \A sub \in SpanParts : sub # s => PartOf(m, sub) = PartOf(n, sub)
    BY DEF PartOf, SameBut
<1>2. \A sub \in SpanParts : PartOf(m, sub) = y[sub]
    BY <1>1, SpanIs
<1>3. /\ PartOf(m, "era") = y.era /\ PartOf(m, "earliest") = y.earliest
      /\ PartOf(m, "latest") = y.latest /\ PartOf(m, "precision") = y.precision
    BY <1>2 DEF SpanParts
<1> QED
    BY <1>3, SpanIs

LEMMA SpanPosted ==
    ASSUME NEW t, Whole(t), NEW f, NEW p, p.op \in SpanParts, NEW n, n = Field(t, f),
           NEW u, u = Edited(t, IntervalChange(f, SpanOf(n), p))
    PROVE  \/ u = Bad /\ ~SpanFits(n)
           \/ /\ Whole(u) /\ SameBut(t, u, f) /\ SpanStepped(n, Field(u, f))
              /\ SpanOf(Field(u, f)) = Form!SpanAfter(SpanOf(n), p)
<1> DEFINE x == SpanOf(n)
           y == NextSpan(x, p)
           s == p.op
<1>1. Form!SpanAfter(x, p) = y
    BY FormSpans
<1>2. Node(n) /\ n # Bad
    BY FieldIs
<1>3. \A sub \in SpanParts : x[sub] = PartOf(n, sub)
    BY SpanIs
<1>4. CASE y = x
    <2>1. u = t
        BY <1>4 DEF IntervalChange, Edited
    <2> QED
        BY <1>1, <1>4, <2>1 DEF SpanStepped, SameBut
<1>5. CASE y # x
    <2>1. /\ y = [era |-> y.era, earliest |-> y.earliest, latest |-> y.latest, precision |-> y.precision]
          /\ \A sub \in SpanParts : sub # s => y[sub] = x[sub]
          /\ y[s] # x[s]
          /\ s \in Years => y[s] = NoYear \/ y[s] = Year(y[s].year)
        BY <1>5, NextSpanIs
    <2>2. u = EditFrontmatter(t, SpanTo(f, s, y)) /\ Form!SpanAfter(x, p) = y
        <3>1. IntervalChange(f, x, p) = SpanTo(f, s, y)
            BY <1>5 DEF IntervalChange
        <3>2. SpanTo(f, s, y) # <<>>
            BY OneIsSome DEF SpanTo
        <3> HIDE DEF x, y
        <3> QED
            BY <1>1, <3>1, <3>2 DEF Edited, x
    <2>3. s \in SpanParts /\ x = SpanOf(n)
        OBVIOUS
    <2> HIDE DEF x, y, s
    <2>4. Says(y, s) <=> y[s] # Nothing(s)
        BY DEF Says, Nothing
    <2>5. CASE y = NoSpan
        <3>1. SpanTo(f, s, y) = <<Deleted(<<f>>)>>
            <4>1. ~Says(y, s)
                BY <2>3, <2>4, <2>5, EmptySpan
            <4> QED
                BY <2>5, <4>1 DEF SpanTo
        <3>2. IsMap(n)
            BY <1>5, <2>3, <2>5, NoMapNoSpan
        <3>3. n # Absent /\ ~IsMap(Absent)
            BY <3>2, Kinds DEF IsMap
        <3>4. u = Without(t, f)
            BY <2>2, <3>1, <3>3, DropsKey
        <3>5. Whole(u) /\ Field(u, f) = Absent /\ SameBut(t, u, f)
            BY <3>4, Dropped
        <3>6. SpanOf(Absent) = NoSpan
            BY <3>3, NoMapNoSpan
        <3>7. SpanStepped(n, Field(u, f))
            BY <3>2, <3>5 DEF SpanStepped, SpanFits, Canon
        <3> QED
            BY <2>2, <2>3, <2>5, <3>5, <3>6, <3>7
    <2>6. CASE y # NoSpan /\ ~Says(y, s)
        <3> DEFINE m == Without(n, s)
        <3>1. SpanTo(f, s, y) = <<Deleted(<<f, s>>)>>
            BY <2>6 DEF SpanTo
        <3>2. PartOf(n, s) # Nothing(s)
            BY <1>3, <2>1, <2>3, <2>4, <2>6
        <3>3. Field(n, s) # Absent /\ IsMap(n) /\ n.kind = "map" /\ n \notin {Absent, Null}
            BY <3>2, PartIsThere, Kinds DEF IsMap
        <3>4. WellMade(n)
            BY <1>2, <3>3 DEF Node
        <3>5. Enter(n, s) = Field(n, s)
            BY <3>3 DEF Enter, Field, IsMap, IsList
        <3>6. Field(n, s) # Bad
            <4>1. Inside(n) = {n.map[k] : k \in DOMAIN n.map}
                BY <3>3 DEF Inside, IsMap, IsList
            <4>2. Field(n, s) \in Inside(n)
                BY <3>3, <4>1 DEF Field, Lookup
            <4> QED
                BY <3>4, <4>2 DEF WellMade, Parsed
        <3>7. Cut(n, s) = m
            BY <3>3 DEF Cut
        <3>8. /\ WellMade(m) /\ IsMap(m) /\ DOMAIN m.map = DOMAIN n.map \ {s}
              /\ Field(m, s) = Absent /\ SameBut(n, m, s)
            BY <3>3, <3>4, PartDropped
        <3> HIDE DEF m
        <3>9. m # Bad
            BY <3>8 DEF WellMade, Parsed
        <3>10. u = With(t, f, m)
            BY <2>2, <3>1, <3>3, <3>5, <3>6, <3>7, <3>9, DropsIn
        <3>11. Whole(u) /\ Field(u, f) = m /\ SameBut(t, u, f)
            BY <3>8, <3>10, Written
        <3>12. PartOf(m, s) = y[s]
            <4>1. PartOf(m, s) = Nothing(s)
                BY <3>8, Kinds DEF PartOf, Nothing, YearIn, TextOf
            <4> QED
                BY <2>4, <2>6, <4>1
        <3>13. SpanOf(m) = y
            BY <2>1, <2>3, <3>8, <3>12, SpanBecomes
        <3>14. Canon(n) => Canon(m)
            <4> SUFFICES ASSUME Canon(n) PROVE Canon(m)
                OBVIOUS
            <4>1. \A sub \in DOMAIN n.map : sub \in DOMAIN NoSpan /\ Says(x, sub)
                BY <2>3, <3>3 DEF Canon, SaysAll
            <4>2. \A sub \in DOMAIN m.map : sub \in DOMAIN NoSpan /\ Says(y, sub)
                BY <2>1, <3>8, <4>1, EmptySpan DEF Says
            <4>3. DOMAIN m.map # {}
                <5>1. PICK sub \in SpanParts : y[sub] # Nothing(sub)
                    <6>1. (\A sub \in SpanParts : y[sub] = Nothing(sub)) => y = NoSpan
                        BY <2>1, EmptySpan DEF SpanParts
                    <6> QED
                        BY <2>6, <6>1
                <5>2. PartOf(m, sub) # Nothing(sub)
                    BY <3>13, <5>1, SpanIs
                <5>3. Field(m, sub) # Absent
                    BY <5>2, PartIsThere
                <5> QED
                    BY <3>8, <5>3 DEF Field, Lookup
            <4> QED
                BY <3>8, <3>13, <4>2, <4>3 DEF Canon, SaysAll
        <3> QED
            BY <2>2, <2>3, <3>3, <3>8, <3>11, <3>13, <3>14 DEF SpanStepped, SpanFits
    <2>7. CASE Says(y, s)
        <3> DEFINE below == IF n \in {Absent, Null} THEN emptyCollection(s) ELSE n
                   v == PartNode(y, s)
        <3>1. SpanTo(f, s, y) = <<SetTo(<<f, s>>, v)>>
            <4>1. y # NoSpan
                BY <2>3, <2>4, <2>7, EmptySpan
            <4> QED
                BY <2>7, <4>1 DEF SpanTo
        <3>2. ~IsIndex(s) /\ s # appendSegment
            BY <2>3, BoundsOK DEF SpanParts, Years, appendSegment
        <3>3. Parsed(v) /\ v # Bad
            BY Made, Kinds DEF PartNode
        <3>4. IF s \in Years THEN YearIn(v) = y[s] ELSE TextOf(v) = y[s]
            BY <2>1, <2>4, <2>7, Kinds DEF PartNode, YearIn, TextOf, Nothing
        <3> HIDE DEF v
        <3>5. u = IF Put(below, s, v) = Bad THEN Bad ELSE With(t, f, Put(below, s, v))
            BY <2>2, <3>1, <3>2, SetsIn
        <3>6. CASE ~SpanFits(n)
            <4>1. below = n /\ ~IsMap(n)
                BY <3>6 DEF SpanFits
            <4>2. Put(n, s, v) = Bad
                BY <3>2, <3>3, <4>1 DEF Put, HasItem
            <4> QED
                BY <3>5, <3>6, <4>1, <4>2
        <3>7. CASE SpanFits(n)
            <4>1. /\ WellMade(below) /\ IsMap(below) /\ SpanOf(below) = x
                  /\ Canon(n) => \A sub \in DOMAIN below.map : sub \in DOMAIN NoSpan /\ Says(x, sub)
                <5>1. CASE n \in {Absent, Null}
                    <6>1. below = Map(<<>>)
                        BY <3>2, <5>1 DEF emptyCollection
                    <6>2. Keyed(<<>>) /\ DOMAIN <<>> = {}
                        BY DEF Keyed
                    <6>3. WellMade(Map(<<>>)) /\ IsMap(Map(<<>>)) /\ Map(<<>>).map = <<>>
                        BY <6>2, Made, Kinds DEF IsMap
                    <6>4. \A sub : Field(Map(<<>>), sub) = Absent
                        BY <6>2, <6>3 DEF Field, Lookup
                    <6>5. ~IsMap(n)
                        BY <5>1, Kinds DEF IsMap
                    <6>6. \A sub : Field(n, sub) = Absent
                        BY <6>5 DEF Field
                    <6>7. SpanOf(Map(<<>>)) = SpanOf(n)
                        BY <6>4, <6>6 DEF SpanOf
                    <6> HIDE DEF below
                    <6> QED
                        BY <2>3, <6>1, <6>2, <6>3, <6>7
                <5>2. CASE IsMap(n)
                    <6>1. n \notin {Absent, Null}
                        BY <5>2, Kinds DEF IsMap
                    <6>2. below = n /\ WellMade(n)
                        BY <1>2, <6>1 DEF Node
                    <6> HIDE DEF below
                    <6> QED
                        BY <2>3, <5>2, <6>1, <6>2 DEF Canon, SaysAll
                <5> QED
                    BY <3>7, <5>1, <5>2 DEF SpanFits
            <4> HIDE DEF below
            <4> DEFINE m == With(below, s, v)
            <4>2. Put(below, s, v) = m
                BY <3>3, <4>1 DEF Put, IsMap, IsList
            <4>3. /\ WellMade(m) /\ IsMap(m) /\ DOMAIN m.map = DOMAIN below.map \union {s}
                  /\ Field(m, s) = v /\ SameBut(below, m, s)
                BY <3>3, <4>1, PartWritten
            <4> HIDE DEF m
            <4>4. m # Bad
                BY <4>3 DEF WellMade, Parsed
            <4>5. u = With(t, f, m)
                BY <3>5, <4>2, <4>4
            <4>6. Whole(u) /\ Field(u, f) = m /\ SameBut(t, u, f)
                BY <4>3, <4>5, Written
            <4>7. PartOf(m, s) = y[s]
                BY <3>4, <4>3 DEF PartOf
            <4>8. SpanOf(m) = y
                BY <2>1, <2>3, <4>1, <4>3, <4>7, SpanBecomes
            <4>9. Canon(n) => Canon(m)
                <5> SUFFICES ASSUME Canon(n) PROVE Canon(m)
                    OBVIOUS
                <5>1. \A sub \in DOMAIN below.map : sub \in DOMAIN NoSpan /\ Says(x, sub)
                    BY <4>1
                <5>2. \A sub \in DOMAIN m.map : sub \in DOMAIN NoSpan /\ Says(y, sub)
                    BY <2>1, <2>3, <2>7, <4>3, <5>1, EmptySpan DEF Says
                <5>3. DOMAIN m.map # {}
                    BY <4>3
                <5> QED
                    BY <4>3, <4>8, <5>2, <5>3 DEF Canon, SaysAll
            <4> QED
                BY <2>2, <2>3, <3>7, <4>3, <4>6, <4>8, <4>9 DEF SpanStepped, SpanFits
        <3> QED
            BY <3>6, <3>7
    <2> QED
        BY <2>5, <2>6, <2>7
<1> QED
    BY <1>4, <1>5

-----------------------------------------------------------------------------
(***************************************************************************)
(* Names, statuses and visibilities.                                       *)
(***************************************************************************)
LEMMA NamePosted ==
    ASSUME NEW t, Whole(t), NEW v, NEW n, n = Field(t, "name"), NEW ent, ent.name = TextOf(n),
           NEW u, u = Edited(t, NameChange(ent, v))
    PROVE  /\ Whole(u) /\ SameBut(t, u, "name") /\ TextOf(Field(u, "name")) = v
           /\ Field(u, "name") = n \/ Field(u, "name") = Str(v)
<1>1. CASE v = TextOf(n)
    BY <1>1 DEF NameChange, Edited, SameBut
<1>2. CASE v # TextOf(n)
    <2>1. u = EditFrontmatter(t, <<SetTo(<<"name">>, Str(v))>>)
        BY <1>2, OneIsSome DEF NameChange, Edited
    <2>2. u = With(t, "name", Str(v))
        BY <2>1, SetsKey, Kinds
    <2>3. Whole(u) /\ Field(u, "name") = Str(v) /\ SameBut(t, u, "name")
        BY <2>2, Written, Made
    <2> QED
        BY <2>3, Kinds DEF TextOf
<1> QED
    BY <1>1, <1>2

LEMMA StatusPosted ==
    ASSUME NEW t, Whole(t), NEW v, NEW n, n = Field(t, "status"), NEW ent, ent.status = TextOf(n),
           NEW u, u = Edited(t, StatusChange(ent, v))
    PROVE  /\ Whole(u) /\ SameBut(t, u, "status")
           /\ TextOf(Field(u, "status")) = IF v \in Statuses THEN v ELSE TextOf(n)
           /\ Field(u, "status") = n \/ (v \in Statuses /\ Field(u, "status") = Str(v))
<1>1. CASE v \notin Statuses \/ v = TextOf(n)
    BY <1>1 DEF StatusChange, Edited, SameBut
<1>2. CASE v \in Statuses /\ v # TextOf(n)
    <2>1. u = EditFrontmatter(t, <<SetTo(<<"status">>, Str(v))>>)
        BY <1>2, OneIsSome DEF StatusChange, Edited
    <2>2. u = With(t, "status", Str(v))
        BY <2>1, SetsKey, Kinds
    <2>3. Whole(u) /\ Field(u, "status") = Str(v) /\ SameBut(t, u, "status")
        BY <2>2, Written, Made
    <2> QED
        BY <1>2, <2>3, Kinds DEF TextOf
<1> QED
    BY <1>1, <1>2

VisKinds == {"public", "spoiler", "internal"}

LEMMA VisibilityIs ==
    ASSUME NEW n, Node(n)
    PROVE  LET vis == VisibilityOf(n)
           IN  /\ vis = [kind |-> vis.kind, act |-> vis.act]
               /\ vis.act # NoValue => vis.kind = "spoiler"
<1>1. CASE n.kind = "vis"
    <2>1. n = Visibility(n.vis.kind, n.vis.act) /\ (n.vis.act # NoValue => n.vis.kind = "spoiler")
        BY <1>1, Kinds DEF Node, WellMade
    <2>2. n.vis = [kind |-> n.vis.kind, act |-> n.vis.act]
        BY <2>1 DEF Visibility
    <2> QED
        BY <1>1, <2>1, <2>2 DEF VisibilityOf
<1>2. CASE n.kind # "vis"
    BY <1>2 DEF VisibilityOf
<1> QED
    BY <1>1, <1>2

LEMMA VisibilityPosted ==
    ASSUME NEW t, Whole(t), NEW p, p.op \in {"kind", "act"}, p.op = "kind" => p.value \in VisKinds,
           NEW n, n = Field(t, "visibility"),
           NEW u, u = Edited(t, VisibilityChange(VisibilityOf(n), p))
    PROVE  /\ Whole(u) /\ SameBut(t, u, "visibility")
           /\ VisibilityOf(Field(u, "visibility")) = Form!VisibilityAfter(VisibilityOf(n), p)
           /\ Field(u, "visibility") = n
              \/ \E k \in VisKinds : \E a : Field(u, "visibility") = Visibility(k, a)
<1> DEFINE vis == VisibilityOf(n)
           want == Wanted(vis, p)
           refused == \/ p.op = "act" /\ p.value \notin Range(Acts)
                      \/ p.op = "kind" /\ p.value = "spoiler" /\ vis.act = NoValue /\ Acts = <<>>
<1>1. vis = [kind |-> vis.kind, act |-> vis.act] /\ (vis.act # NoValue => vis.kind = "spoiler")
    BY FieldIs, VisibilityIs
<1>2. Form!Range(Acts) = Range(Acts) /\ Form!NoValue = NoValue
    BY FormSequences DEF Form!NoValue, NoValue
<1> HIDE DEF vis
<1>3. /\ want = [kind |-> want.kind, act |-> want.act] /\ want.kind \in VisKinds
      /\ want.act # NoValue => want.kind = "spoiler"
    BY DEF Wanted, VisKinds
<1>4. refused => Form!VisibilityAfter(vis, p) = vis
    BY <1>2 DEF Form!VisibilityAfter
<1>5. ~refused => Form!VisibilityAfter(vis, p) = want
    <2> SUFFICES ASSUME ~refused PROVE Form!VisibilityAfter(vis, p) = want
        OBVIOUS
    <2>1. CASE p.op = "act"
        BY <1>2, <2>1 DEF Form!VisibilityAfter, Wanted
    <2>2. CASE p.op = "kind" /\ p.value \in {"public", "internal"}
        BY <1>2, <2>2 DEF Form!VisibilityAfter, Wanted
    <2>3. CASE p.op = "kind" /\ p.value = "spoiler" /\ vis.act = NoValue
        BY <1>2, <2>3 DEF Form!VisibilityAfter, Wanted
    <2>4. CASE p.op = "kind" /\ p.value = "spoiler" /\ vis.act # NoValue
        BY <1>1, <1>2, <2>4 DEF Form!VisibilityAfter, Wanted
    <2> QED
        BY <2>1, <2>2, <2>3, <2>4 DEF VisKinds
<1>6. CASE refused \/ want = vis
    <2>1. VisibilityChange(vis, p) = <<>>
        BY <1>6 DEF VisibilityChange
    <2>2. u = t
        BY <2>1 DEF Edited, vis
    <2> HIDE DEF want, refused
    <2>3. Form!VisibilityAfter(vis, p) = vis
        BY <1>4, <1>5, <1>6
    <2> QED
        BY <2>2, <2>3 DEF SameBut, vis
<1>7. CASE ~refused /\ want # vis
    <2> DEFINE m == Visibility(want.kind, want.act)
    <2>1. VisibilityChange(vis, p) = <<SetTo(<<"visibility">>, m)>>
        BY <1>7 DEF VisibilityChange
    <2> HIDE DEF want, refused
    <2>2. m.kind = "vis" /\ m.vis = want /\ m # Bad
        BY <1>3, Kinds DEF Visibility
    <2>3. WellMade(m)
        BY <1>3, Made
    <2>4. \E k \in VisKinds : \E a : m = Visibility(k, a)
        BY <1>3
    <2> HIDE DEF m
    <2>5. u = EditFrontmatter(t, <<SetTo(<<"visibility">>, m)>>)
        BY <2>1, OneIsSome DEF Edited, vis
    <2>6. u = With(t, "visibility", m)
        BY <2>2, <2>5, SetsKey
    <2>7. Whole(u) /\ Field(u, "visibility") = m /\ SameBut(t, u, "visibility")
        BY <2>3, <2>6, Written
    <2>8. VisibilityOf(m) = want
        BY <2>2 DEF VisibilityOf
    <2>9. Form!VisibilityAfter(vis, p) = want
        BY <1>5, <1>7
    <2> QED
        BY <2>4, <2>7, <2>8, <2>9 DEF vis
<1> QED
    BY <1>6, <1>7

-----------------------------------------------------------------------------
(***************************************************************************)
(* The prose below the frontmatter.                                        *)
(***************************************************************************)
LEMMA TrimFrom ==
    ASSUME NEW s, Ordered(s), NEW a \in 1..Len(s), NEW z \in 1..Len(s), s[a] # Blank, s[z] # Blank,
           \A i \in 1..Len(s) : s[i] # Blank => a <= i /\ i <= z
    PROVE  trimProse(s) = SubSeq(s, a, z)
<1> DEFINE text == {i \in 1..Len(s) : s[i] # Blank}
           first == CHOOSE i \in text : \A j \in text : i <= j
           last == CHOOSE i \in text : \A j \in text : i >= j
<1>1. Len(s) \in Nat /\ \A i \in text : i \in Nat
    BY DEF Ordered
<1>2. a \in text /\ z \in text /\ \A i \in text : a <= i /\ z >= i
    BY <1>1
<1>3. trimProse(s) = IF text = {} THEN <<>> ELSE SubSeq(s, first, last)
    BY DEF trimProse
<1> HIDE DEF text
<1>4. first \in text /\ \A j \in text : first <= j
    BY <1>2
<1>5. last \in text /\ \A j \in text : last >= j
    BY <1>2
<1> HIDE DEF first, last
<1>6. first = a
    BY <1>1, <1>2, <1>4
<1>7. last = z
    BY <1>1, <1>2, <1>5
<1> QED
    BY <1>2, <1>3, <1>6, <1>7

\* Prose without blank lines before and after it.
Trimmed(r) == Ordered(r) /\ (r = <<>> \/ (Len(r) > 0 /\ r[1] # Blank /\ r[Len(r)] # Blank))

LEMMA TrimTrims ==
    ASSUME NEW s, Ordered(s)
    PROVE  Trimmed(trimProse(s))
<1> DEFINE text == {i \in 1..Len(s) : s[i] # Blank}
<1>1. Len(s) \in Nat
    BY DEF Ordered
<1>2. CASE text = {}
    <2>1. trimProse(s) = <<>>
        BY <1>2 DEF trimProse
    <2> QED
        BY <2>1, NoTexts DEF Trimmed, Ordered
<1>3. CASE text # {}
    <2>1. text \subseteq Nat /\ text \subseteq 0..Len(s)
        BY <1>1
    <2>2. PICK a \in text : \A i \in text : a <= i
        BY <1>3, <2>1, LeastIsThere
    <2>3. PICK z \in text : \A i \in text : i <= z
        BY <1>1, <1>3, <2>1, GreatestIsThere
    <2>4. a \in 1..Len(s) /\ z \in 1..Len(s) /\ s[a] # Blank /\ s[z] # Blank /\ a <= z
        BY <2>2, <2>3
    <2>5. trimProse(s) = SubSeq(s, a, z)
        BY <2>2, <2>3, <2>4, TrimFrom
    <2> HIDE DEF text
    <2>6. s \in Seq(Range(s))
        BY OrderedIsSeq
    <2> DEFINE r == SubSeq(s, a, z)
    <2>7. r \in Seq(Range(s)) /\ Len(r) = z - a + 1 /\ \A i \in 1..(z - a + 1) : r[i] = s[a + i - 1]
        BY <1>1, <2>4, <2>6
    <2> HIDE DEF r
    <2>8. Ordered(r) /\ Len(r) > 0
        BY <2>4, <2>7, SeqIsOrdered
    <2>9. r[1] = s[a] /\ r[Len(r)] = s[z]
        <3>1. 1 \in 1..(z - a + 1) /\ z - a + 1 \in 1..(z - a + 1) /\ a + 1 - 1 = a /\ a + (z - a + 1) - 1 = z
            BY <2>4
        <3> QED
            BY <2>7, <3>1
    <2> QED
        BY <2>4, <2>5, <2>8, <2>9 DEF Trimmed, r
<1> QED
    BY <1>2, <1>3

LEMMA TrimmedStays ==
    ASSUME NEW r, Trimmed(r)
    PROVE  /\ trimProse(r) = r
           /\ r # <<>> => trimProse(<<Blank>> \o r) = r
<1>1. CASE r = <<>>
    <2>1. {i \in 1..Len(r) : r[i] # Blank} = {}
        BY <1>1
    <2> QED
        BY <1>1, <2>1 DEF trimProse
<1>2. CASE r # <<>>
    <2> DEFINE S == Range(r) \union {Blank}
               s == <<Blank>> \o r
    <2>1. Ordered(r) /\ Len(r) \in Nat /\ Len(r) > 0 /\ r[1] # Blank /\ r[Len(r)] # Blank
        BY <1>2 DEF Trimmed, Ordered
    <2>2. r \in Seq(S) /\ <<Blank>> \in Seq(S)
        <3>1. r \in Seq(Range(r))
            BY <2>1, OrderedIsSeq
        <3>2. r \in [1..Len(r) -> S]
            BY <3>1
        <3> QED
            BY <2>1, <3>2, SeqDef
    <2> HIDE DEF S
    <2>3. SubSeq(r, 1, Len(r)) = r
        BY <2>1, <2>2
    <2>4. trimProse(r) = r
        <3>1. 1 \in 1..Len(r) /\ Len(r) \in 1..Len(r) /\ \A i \in 1..Len(r) : 1 <= i /\ i <= Len(r)
            BY <2>1
        <3>2. trimProse(r) = SubSeq(r, 1, Len(r))
            BY <2>1, <3>1, TrimFrom
        <3> QED
            BY <2>3, <3>2
    <2>5. s \in Seq(S) /\ Len(s) = Len(r) + 1
        BY <2>1, <2>2
    <2>6. s[1] = Blank /\ \A i \in 1..Len(r) : s[i + 1] = r[i]
        <3>1. <<Blank>>[1] = Blank /\ Len(<<Blank>>) = 1
            OBVIOUS
        <3>2. \A i \in 1..Len(r) : i + 1 > 1 /\ i + 1 \in 1..(Len(r) + 1) /\ (i + 1) - 1 = i
            BY <2>1
        <3> QED
            BY <2>1, <2>2, <3>1, <3>2
    <2>7. \A i \in 1..(Len(r) + 1) : i = 1 \/ i - 1 \in 1..Len(r)
        BY <2>1
    <2> HIDE DEF s
    <2>8. Ordered(s)
        BY <2>5, SeqIsOrdered
    <2>9. trimProse(s) = SubSeq(s, 2, Len(s))
        <3>1. 2 \in 1..Len(s) /\ Len(s) \in 1..Len(s)
            BY <2>1, <2>5
        <3>2. s[2] # Blank /\ s[Len(s)] # Blank
            <4>1. 1 \in 1..Len(r) /\ Len(r) \in 1..Len(r)
                BY <2>1
            <4>2. s[1 + 1] = r[1] /\ s[Len(r) + 1] = r[Len(r)]
                BY <2>6, <4>1
            <4> QED
                BY <2>1, <2>5, <4>2
        <3>3. \A i \in 1..Len(s) : s[i] # Blank => 2 <= i /\ i <= Len(s)
            BY <2>1, <2>5, <2>6
        <3> QED
            BY <2>8, <3>1, <3>2, <3>3, TrimFrom
    <2>10. SubSeq(s, 2, Len(s)) = r
        <3> DEFINE q == SubSeq(s, 2, Len(s))
        <3>1. q \in Seq(S) /\ Len(q) = Len(r) /\ \A i \in 1..Len(r) : q[i] = s[i + 1]
            BY <2>1, <2>5
        <3> HIDE DEF q
        <3>2. q = r
            BY <2>1, <2>6, <3>1, SeqIsOrdered, SeqSame
        <3> QED
            BY <3>2 DEF q
    <2> QED
        BY <2>4, <2>9, <2>10 DEF s
<1> QED
    BY <1>1, <1>2

\* Prose written into a file reads as it was meant, and when it reads as before the
\* file is as before.
LEMMA ProseRead ==
    ASSUME NEW tail, Ordered(tail), NEW b, Ordered(b)
    PROVE  /\ RawBody(ReplaceBody(tail, b)) = trimProse(b)
           /\ RawBody(ReplaceBody(tail, b)) = RawBody(tail) => ReplaceBody(tail, b) = tail
<1> DEFINE r == trimProse(b)
<1>1. Trimmed(r)
    BY TrimTrims
<1>2. ReplaceBody(tail, b) = IF r = trimProse(tail) THEN tail ELSE IF r = <<>> THEN <<>> ELSE <<Blank>> \o r
    BY DEF ReplaceBody
<1> HIDE DEF r
<1>3. trimProse(<<>>) = <<>>
    <2>1. Trimmed(<<>>)
        BY DEF Trimmed, Ordered
    <2> QED
        BY <2>1, TrimmedStays
<1>4. RawBody(ReplaceBody(tail, b)) = r
    BY <1>1, <1>2, <1>3, TrimmedStays DEF RawBody
<1> QED
    BY <1>2, <1>4 DEF r, RawBody

-----------------------------------------------------------------------------
(***************************************************************************)
(* What a draft keeps of a list of the file: items with no text are never  *)
(* added, so those that are left are the file's, in the file's order.      *)
(***************************************************************************)
Blanks(n) == {i \in 1..Len(ItemsIn(n)) : TextOf(ItemsIn(n)[i]) = NoValue}
BlanksFrom(b, n, g) ==
    /\ \A i \in Blanks(n) : g[i] \in Blanks(b) /\ ItemsIn(n)[i] = ItemsIn(b)[g[i]]
    /\ \A i, j \in Blanks(n) : i < j => g[i] < g[j]

ListFits(n) == n \in {Absent, Null} \/ IsList(n)
ListKept(b, n) ==
    /\ ~ListFits(b) => n = b \/ (IsMap(b) /\ IsMap(n))
    /\ ListFits(b) => ListFits(n)
    /\ b = Absent => n # Null /\ (IsList(n) => n.list # <<>>)
    /\ \E g : BlanksFrom(b, n, g)

LEMMA NoBlanks ==
    ASSUME NEW b, NEW n, ~IsList(n)
    PROVE  \E g : BlanksFrom(b, n, g)
<1>1. Blanks(n) = {}
    BY DEF Blanks, ItemsIn
<1> QED
    BY <1>1 DEF BlanksFrom

LEMMA ListKeptAtFirst ==
    ASSUME NEW b, Node(b)
    PROVE  ListKept(b, b)
<1>1. b = Absent => b # Null /\ ~IsList(b)
    BY Kinds DEF IsList
<1> DEFINE g == [i \in Blanks(b) |-> i]
<1>2. \A i \in Blanks(b) : g[i] = i
    OBVIOUS
<1> HIDE DEF g
<1>3. BlanksFrom(b, b, g)
    BY <1>2 DEF BlanksFrom
<1> QED
    BY <1>1, <1>3 DEF ListKept

LEMMA ListStaysKept ==
    ASSUME NEW b, NEW n, Node(n), ListKept(b, n), NEW m, ListStepped(n, m)
    PROVE  ListKept(b, m)
<1>1. CASE m = n
    BY <1>1
<1>2. CASE m # n
    <2>1. ListFits(n)
        BY <1>2 DEF ListStepped, ListFits, Shortened
    <2>2. ~IsMap(n)
        BY <2>1, Kinds DEF ListFits, IsMap, IsList
    <2>3. ListFits(b)
        BY <2>1, <2>2 DEF ListKept
    <2>4. PICK g : BlanksFrom(b, n, g)
        BY DEF ListKept
    <2>5. Ordered(ItemsIn(n))
        <3>1. CASE IsList(n)
            <4>1. n # Absent
                BY <3>1, Kinds DEF IsList
            <4> QED
                BY <3>1, <4>1, ListIs DEF Node, ItemsIn
        <3>2. CASE ~IsList(n)
            <4>1. ItemsIn(n) = <<>> /\ TextsOf(n) = <<>>
                BY <3>2, NoTexts DEF ItemsIn
            <4> QED
                BY <3>2, <4>1, NoTexts
        <3> QED
            BY <3>1, <3>2
    <2> DEFINE l == ItemsIn(n)
    <2>6. Len(l) \in Nat
        BY <2>5 DEF Ordered
    <2> HIDE DEF l
    <2>7. CASE m = Absent
        <3>1. ~IsList(m) /\ m # Null
            BY <2>7, Kinds DEF IsList
        <3> QED
            BY <2>3, <2>7, <3>1, NoBlanks DEF ListKept, ListFits
    <2>8. CASE Extended(n, m)
        <3>1. PICK v : v # NoValue /\ m = List(Append(l, Str(v)))
            BY <2>8 DEF Extended, l
        <3> DEFINE r == Append(l, Str(v))
        <3>2. m.kind = "list" /\ m.list = r /\ IsList(m) /\ m # Null
            BY <3>1, Kinds DEF IsList
        <3>3. Len(r) = Len(l) + 1 /\ r[Len(l) + 1] = Str(v) /\ \A i \in 1..Len(l) : r[i] = l[i]
            BY <2>5, Appended DEF l
        <3> HIDE DEF r
        <3>4. ItemsIn(m) = r
            BY <3>2 DEF ItemsIn
        <3>5. r # <<>>
            BY <2>6, <3>3
        <3>6. TextOf(Str(v)) # NoValue
            BY <3>1, Kinds DEF TextOf
        <3>7. \A i \in 1..(Len(l) + 1) : i \in 1..Len(l) \/ i = Len(l) + 1
            BY <2>6
        <3>8. \A i \in Blanks(m) : i \in Blanks(n) /\ ItemsIn(m)[i] = ItemsIn(n)[i]
            BY <3>3, <3>4, <3>6, <3>7 DEF Blanks, l
        <3>9. BlanksFrom(b, m, g)
            BY <2>4, <3>8 DEF BlanksFrom
        <3> QED
            BY <2>3, <3>2, <3>5, <3>9 DEF ListKept, ListFits
    <2>9. CASE Shortened(n, m)
        <3>1. PICK i \in 1..Len(l) : IsList(n) /\ Len(l) > 1 /\ m = List(RemoveAt(l, i))
            BY <2>9 DEF Shortened, ItemsIn, l
        <3> DEFINE r == RemoveAt(l, i)
                   was(j) == IF j < i THEN j ELSE j + 1
        <3>2. m.kind = "list" /\ m.list = r /\ IsList(m) /\ m # Null
            BY <3>1, Kinds DEF IsList
        <3>3. Len(r) = Len(l) - 1 /\ \A j \in 1..(Len(l) - 1) : r[j] = IF j < i THEN l[j] ELSE l[j + 1]
            BY <2>5, ItemRemoved DEF l
        <3> HIDE DEF r
        <3>4. ItemsIn(m) = r
            BY <3>2 DEF ItemsIn
        <3>5. r # <<>>
            BY <2>6, <3>1, <3>3
        <3>6. \A j \in 1..(Len(l) - 1) : j \in Nat /\ was(j) \in 1..Len(l) /\ r[j] = l[was(j)]
            BY <2>6, <3>1, <3>3
        <3>7. \A j, k \in 1..(Len(l) - 1) : j < k => was(j) < was(k)
            BY <2>6, <3>1
        <3> HIDE DEF was
        <3>8. \A j \in Blanks(m) : /\ j \in 1..(Len(l) - 1) /\ was(j) \in Blanks(n)
                                   /\ ItemsIn(m)[j] = ItemsIn(n)[was(j)]
            BY <3>3, <3>4, <3>6 DEF Blanks, l
        <3> DEFINE h == [j \in Blanks(m) |-> g[was(j)]]
        <3>9. \A j \in Blanks(m) : h[j] = g[was(j)]
            OBVIOUS
        <3> HIDE DEF h
        <3>10. BlanksFrom(b, m, h)
            BY <2>4, <3>7, <3>8, <3>9 DEF BlanksFrom
        <3> QED
            BY <2>3, <3>2, <3>5, <3>10 DEF ListKept, ListFits
    <2> QED
        BY <1>2, <2>7, <2>8, <2>9 DEF ListStepped
<1> QED
    BY <1>1, <1>2

\* A mapping where a list should be stays one.
LEMMA MapStaysKept ==
    ASSUME NEW b, NEW n, ListKept(b, n), IsMap(n), NEW m, IsMap(m)
    PROVE  ListKept(b, m)
<1>1. ~ListFits(n) /\ ~IsList(m)
    BY Kinds DEF ListFits, IsMap, IsList
<1>2. ~ListFits(b) /\ IsMap(b)
    BY <1>1 DEF ListKept
<1>3. b # Absent
    BY <1>2 DEF ListFits
<1> QED
    BY <1>1, <1>2, <1>3, NoBlanks DEF ListKept

LEMMA ListBack ==
    ASSUME NEW b, Node(b), NEW n, Node(n), ListKept(b, n), TextsOf(n) = TextsOf(b),
           b # Null, ~IsMap(b), ~(IsList(b) /\ b.list = <<>>)
    PROVE  n = b
<1>1. CASE ~ListFits(b)
    BY <1>1 DEF ListKept
<1>2. CASE b = Absent
    <2>1. ListFits(n) /\ n # Null /\ (IsList(n) => n.list # <<>>)
        BY <1>2 DEF ListKept, ListFits
    <2>2. ~IsList(Absent)
        BY Kinds DEF IsList
    <2>3. Len(TextsOf(n)) = 0
        BY <1>2, <2>2, NoTexts
    <2>4. ASSUME IsList(n) PROVE FALSE
        <3>1. n # Absent
            BY <2>2, <2>4
        <3>2. n = List(n.list) /\ Ordered(n.list)
            BY <2>4, <3>1, ListIs DEF Node
        <3>3. Len(n.list) = 0
            BY <2>3, <3>2, TextsAre
        <3>4. Ordered(<<>>) /\ Len(<<>>) = 0
            BY NoTexts DEF Ordered
        <3>5. n.list = <<>>
            BY <3>2, <3>3, <3>4, SeqSame
        <3> QED
            BY <2>1, <2>4, <3>5
    <2> QED
        BY <1>2, <2>1, <2>4 DEF ListFits
<1>3. CASE IsList(b)
    <2> DEFINE l == b.list
               r == n.list
    <2>1. b # Absent
        BY <1>3, Kinds DEF IsList
    <2>2. b = List(l) /\ Ordered(l) /\ \A i \in 1..Len(l) : Parsed(l[i])
        BY <1>3, <2>1, ListIs DEF Node
    <2>3. Len(TextsOf(b)) = Len(l) /\ \A i \in 1..Len(l) : TextsOf(b)[i] = TextOf(l[i])
        BY <2>2, TextsAre
    <2>4. Ordered(<<>>) /\ Len(<<>>) = 0
        BY NoTexts DEF Ordered
    <2>5. Len(l) # 0
        BY <1>3, <2>2, <2>4, SeqSame
    <2>6. IsList(n)
        BY <2>3, <2>4, <2>5, NoTexts
    <2>7. n # Absent
        BY <2>6, Kinds DEF IsList
    <2>8. n = List(r) /\ Ordered(r) /\ \A i \in 1..Len(r) : Parsed(r[i])
        BY <2>6, <2>7, ListIs DEF Node
    <2>9. Len(TextsOf(n)) = Len(r) /\ \A i \in 1..Len(r) : TextsOf(n)[i] = TextOf(r[i])
        BY <2>8, TextsAre
    <2> HIDE DEF l, r
    <2>10. Len(r) = Len(l) /\ \A i \in 1..Len(l) : TextOf(r[i]) = TextOf(l[i])
        BY <2>3, <2>9
    <2>11. ItemsIn(b) = l /\ ItemsIn(n) = r
        BY <1>3, <2>6 DEF ItemsIn, l, r
    <2>12. Blanks(n) = Blanks(b) /\ Blanks(b) \subseteq 1..Len(l) /\ Len(l) \in Nat
        BY <2>2, <2>10, <2>11 DEF Blanks, Ordered
    <2>13. PICK g : BlanksFrom(b, n, g)
        BY DEF ListKept
    <2>14. \A i \in Blanks(b) : g[i] = i
        BY <2>12, <2>13, OrderKeptMovesNone DEF BlanksFrom
    <2>15. \A i \in 1..Len(l) : r[i] = l[i]
        <3> TAKE i \in 1..Len(l)
        <3>1. CASE TextOf(l[i]) = NoValue
            <4>1. i \in Blanks(b)
                BY <2>11, <3>1 DEF Blanks
            <4> QED
                BY <2>11, <2>12, <2>13, <2>14, <4>1 DEF BlanksFrom
        <3>2. CASE TextOf(l[i]) # NoValue
            <4>1. l[i].kind = "str" /\ r[i].kind = "str" /\ l[i].str = r[i].str
                BY <2>10, <3>2 DEF TextOf
            <4> QED
                BY <2>2, <2>8, <2>10, <4>1 DEF Parsed
        <3> QED
            BY <3>1, <3>2
    <2>16. r = l
        BY <2>2, <2>8, <2>10, <2>15, SeqSame
    <2> QED
        BY <2>2, <2>8, <2>16
<1> QED
    BY <1>1, <1>2, <1>3 DEF ListFits

\* A span that says what it said, written as the form writes it, is written as it was.
LEMMA SpanBack ==
    ASSUME NEW b, Node(b), NEW n, Node(n), SpanStepped(b, n), SpanOf(n) = SpanOf(b), b # Null,
           IsMap(b) => DOMAIN b.map # {} /\ SaysAll(b)
    PROVE  n = b
<1>1. CASE n = b
    BY <1>1
<1>2. CASE n # b
    <2>1. SpanFits(b) /\ SpanFits(n) /\ Canon(b) /\ Canon(n)
        BY <1>2 DEF SpanStepped, SpanFits, Canon
    <2>2. ASSUME NEW c, Canon(c), Node(c), c # Absent
          PROVE  /\ c = Map(c.map) /\ Keyed(c.map) /\ IsMap(c) /\ DOMAIN c.map # {}
                 /\ \A k : k \in DOMAIN c.map <=> k \in SpanParts /\ SpanOf(c)[k] # Nothing(k)
                 /\ \A k \in DOMAIN c.map : c.map[k] = IF k \in Years THEN Num(SpanOf(c)[k].year) ELSE Str(SpanOf(c)[k])
        <3>1. IsMap(c) /\ c.kind = "map" /\ DOMAIN c.map # {} /\ SaysAll(c)
            BY <2>2 DEF Canon, IsMap
        <3>2. WellMade(c) /\ c = Map(c.map) /\ Keyed(c.map)
            BY <2>2, <3>1 DEF Node, WellMade, Parsed
        <3>3. \A k \in DOMAIN c.map : k \in SpanParts /\ SpanOf(c)[k] # Nothing(k)
            BY <3>1, EmptySpan DEF SaysAll, Says, Nothing
        <3>4. \A k : k \in DOMAIN c.map <=> k \in SpanParts /\ SpanOf(c)[k] # Nothing(k)
            <4>1. ASSUME NEW k \in SpanParts, SpanOf(c)[k] # Nothing(k) PROVE k \in DOMAIN c.map
                <5>1. PartOf(c, k) # Nothing(k)
                    BY <4>1, SpanIs
                <5>2. Field(c, k) # Absent
                    BY <5>1, PartIsThere
                <5> QED
                    BY <3>1, <5>2 DEF Field, Lookup
            <4> QED
                BY <3>3, <4>1
        <3>5. ASSUME NEW k \in DOMAIN c.map
              PROVE  c.map[k] = IF k \in Years THEN Num(SpanOf(c)[k].year) ELSE Str(SpanOf(c)[k])
            <4>1. Inside(c) = {c.map[j] : j \in DOMAIN c.map}
                BY <3>1 DEF Inside, IsMap, IsList
            <4>2. Parsed(c.map[k])
                BY <3>2, <4>1 DEF WellMade
            <4>3. Field(c, k) = c.map[k]
                BY <3>1 DEF Field, Lookup
            <4>4. PartOf(c, k) = SpanOf(c)[k] /\ SpanOf(c)[k] # Nothing(k)
                BY <3>3, SpanIs
            <4>5. CASE k \in Years
                <5>1. YearIn(c.map[k]) # NoYear /\ YearIn(c.map[k]) = SpanOf(c)[k]
                    BY <4>3, <4>4, <4>5 DEF PartOf, Nothing
                <5>2. c.map[k].kind = "num" /\ SpanOf(c)[k] = Year(c.map[k].num)
                    BY <5>1 DEF YearIn
                <5>3. SpanOf(c)[k].year = c.map[k].num
                    BY <5>2 DEF Year
                <5> QED
                    BY <4>2, <4>5, <5>2, <5>3 DEF Parsed
            <4>6. CASE k \notin Years
                <5>1. TextOf(c.map[k]) # NoValue /\ TextOf(c.map[k]) = SpanOf(c)[k]
                    BY <4>3, <4>4, <4>6 DEF PartOf, Nothing
                <5>2. c.map[k].kind = "str" /\ SpanOf(c)[k] = c.map[k].str
                    BY <5>1 DEF TextOf
                <5> QED
                    BY <4>2, <4>6, <5>2 DEF Parsed
            <4> QED
                BY <4>5, <4>6
        <3> QED
            BY <3>1, <3>2, <3>4, <3>5
    <2>3. ASSUME NEW c, Canon(c), Node(c), SpanOf(c) = NoSpan PROVE c = Absent
        <3> SUFFICES ASSUME c # Absent PROVE FALSE
            OBVIOUS
        <3>1. PICK k : k \in DOMAIN c.map
            BY <2>2, <2>3
        <3>2. k \in SpanParts /\ NoSpan[k] # Nothing(k)
            BY <2>2, <2>3, <3>1
        <3> QED
            BY <3>2, EmptySpan
    <2>4. ~IsMap(Absent) /\ SpanOf(Absent) = NoSpan
        BY Kinds, NoMapNoSpan DEF IsMap
    <2>5. CASE b = Absent
        BY <2>1, <2>3, <2>4, <2>5
    <2>6. CASE b # Absent
        <3>1. n # Absent
            BY <2>1, <2>3, <2>4, <2>6
        <3>2. /\ b = Map(b.map) /\ Keyed(b.map)
              /\ \A k : k \in DOMAIN b.map <=> k \in SpanParts /\ SpanOf(b)[k] # Nothing(k)
              /\ \A k \in DOMAIN b.map : b.map[k] = IF k \in Years THEN Num(SpanOf(b)[k].year) ELSE Str(SpanOf(b)[k])
            BY <2>1, <2>2, <2>6
        <3>3. /\ n = Map(n.map) /\ Keyed(n.map)
              /\ \A k : k \in DOMAIN n.map <=> k \in SpanParts /\ SpanOf(b)[k] # Nothing(k)
              /\ \A k \in DOMAIN n.map : n.map[k] = IF k \in Years THEN Num(SpanOf(b)[k].year) ELSE Str(SpanOf(b)[k])
            BY <2>1, <2>2, <3>1
        <3>4. DOMAIN n.map = DOMAIN b.map
            BY <3>2, <3>3
        <3>5. \A k \in DOMAIN b.map : n.map[k] = b.map[k]
            BY <3>2, <3>3, <3>4
        <3>6. n.map = b.map
            <4>1. n.map = [k \in DOMAIN n.map |-> n.map[k]] /\ b.map = [k \in DOMAIN b.map |-> b.map[k]]
                BY <3>2, <3>3 DEF Keyed
            <4> QED
                BY <3>4, <3>5, <4>1
        <3> QED
            BY <3>2, <3>3, <3>6
    <2> QED
        BY <2>5, <2>6
<1> QED
    BY <1>1, <1>2

-----------------------------------------------------------------------------
(***************************************************************************)
(* A draft of a file.                                                      *)
(***************************************************************************)

\* What is left of the file's node b in a draft's node n.
Kept(key, b, n) ==
    /\ key = "name" => n = b \/ n.kind = "str"
    /\ key = "status" => n = b \/ (n.kind = "str" /\ n.str \in Statuses)
    /\ key = "visibility" => n = b \/ \E k \in VisKinds : \E a : n = Visibility(k, a)
    /\ key \in Lists => ListKept(b, n)
    /\ key \in Spans => SpanStepped(b, n)
    /\ key \notin fieldOrder => n = b

\* Its lists have indices for all their items, and for left more.
Short(t, left) ==
    \A key \in Lists : IsList(Field(t, key)) => Len(Field(t, key).list) + left <= Len(Numerals)

Drafted(t, left) ==
    /\ Whole(t) /\ Short(t, left)
    /\ \A key : Kept(key, Field(base.tree, key), Field(t, key))

\* What a post is made of.
Shaped(p) ==
    /\ p.field \in fieldOrder
    /\ p.field \in Lists => p.op \in {"add", "remove"}
    /\ p.field \in Spans => p.op \in SpanParts
    /\ p.field = "visibility" => p.op \in {"kind", "act"} /\ (p.op = "kind" => p.value \in VisKinds)

LEMMA PostIs == \A f, o, v : Post(f, o, v).field = f /\ Post(f, o, v).op = o /\ Post(f, o, v).value = v
    BY DEF Post

LEMMA OffersShaped ==
    ASSUME NEW tree, NEW p \in Offers(tree)
    PROVE  Shaped(p)
<1> DEFINE ent == Entity(tree, base.text)
           of == [name |-> {Post("name", "set", v) : v \in Names},
                  aliases |-> ItemPosts("aliases", ent.aliases),
                  outcomes |-> ItemPosts("outcomes", ent.outcomes),
                  status |-> {Post("status", "set", v) : v \in Statuses},
                  visibility |-> VisibilityPosts(ent.visibility),
                  lifespan |-> SpanPosts("lifespan", ent.lifespan),
                  date |-> SpanPosts("date", ent.date),
                  valid_in |-> CondPosts(ent.valid_in)]
<1>1. PICK f \in fieldOrder : p \in of[f]
    BY DEF Offers
<1> HIDE DEF ent
<1>2. ASSUME NEW g \in {"aliases", "outcomes"}, NEW items, p \in ItemPosts(g, items) PROVE Shaped(p)
    <2>1. p.field = g /\ p.op \in {"add", "remove"}
        BY <1>2, PostIs DEF ItemPosts
    <2> QED
        BY <2>1 DEF Shaped, fieldOrder, Lists, Spans
<1>3. ASSUME NEW g \in Spans, NEW span, p \in SpanPosts(g, span) PROVE Shaped(p)
    <2>1. p.field = g /\ p.op \in SpanParts
        BY <1>3, PostIs DEF SpanPosts, SpanParts, Years
    <2> QED
        BY <2>1 DEF Shaped, fieldOrder, Lists, Spans
<1>4. ASSUME NEW vis, p \in VisibilityPosts(vis) PROVE Shaped(p)
    <2>1. /\ p.field = "visibility" /\ p.op \in {"kind", "act"}
          /\ p.op = "kind" => p.value \in VisKinds
        BY <1>4, PostIs DEF VisibilityPosts, VisKinds
    <2> QED
        BY <2>1 DEF Shaped, fieldOrder, Lists, Spans
<1>5. ASSUME NEW conds, p \in CondPosts(conds) PROVE Shaped(p)
    <2>1. p.field = "valid_in" /\ p.op \in {"add", "remove"}
        BY <1>5, PostIs DEF CondPosts
    <2> QED
        BY <2>1 DEF Shaped, fieldOrder, Lists, Spans
<1>6. CASE f = "name" \/ f = "status"
    <2>1. p.field \in {"name", "status"}
        BY <1>1, <1>6, PostIs
    <2> QED
        BY <2>1 DEF Shaped, fieldOrder, Lists, Spans
<1>7. CASE f = "aliases" \/ f = "outcomes"
    BY <1>1, <1>2, <1>7
<1>8. CASE f = "lifespan" \/ f = "date"
    BY <1>1, <1>3, <1>8 DEF Spans
<1>9. CASE f = "visibility"
    BY <1>1, <1>4, <1>9
<1>10. CASE f = "valid_in"
    BY <1>1, <1>5, <1>10
<1> QED
    BY <1>6, <1>7, <1>8, <1>9, <1>10 DEF fieldOrder

-----------------------------------------------------------------------------
(***************************************************************************)
(* The entity a draft reads as.                                            *)
(***************************************************************************)
LEMMA EntityIs ==
    ASSUME NEW t, Whole(t), NEW tail
    PROVE  LET e == Entity(t, tail)
           IN  /\ e.name = TextOf(Field(t, "name")) /\ e.status = TextOf(Field(t, "status"))
               /\ e.visibility = VisibilityOf(Field(t, "visibility"))
               /\ \A key \in Lists : e[key] = TextsOf(Field(t, key))
               /\ \A key \in Spans : e[key] = SpanOf(Field(t, key))
               /\ e.body = RawBody(tail) /\ e.sound = Sound(t)
               /\ e # Unreadable
<1> DEFINE e == Entity(t, tail)
<1>1. t # Bad
    BY Kinds DEF Whole
<1>2. e = [name |-> TextOf(Field(t, "name")),
           aliases |-> TextsOf(Field(t, "aliases")),
           outcomes |-> TextsOf(Field(t, "outcomes")),
           status |-> TextOf(Field(t, "status")),
           visibility |-> VisibilityOf(Field(t, "visibility")),
           lifespan |-> SpanOf(Field(t, "lifespan")),
           date |-> SpanOf(Field(t, "date")),
           valid_in |-> TextsOf(Field(t, "valid_in")),
           body |-> RawBody(tail),
           sound |-> Sound(t)]
    BY <1>1 DEF Entity
<1> HIDE DEF e
<1>3. e # Unreadable
    <2>1. "name" \in DOMAIN e
        BY <1>2
    <2>2. "name" \notin DOMAIN Unreadable
        BY DEF Unreadable
    <2> QED
        BY <2>1, <2>2
<1>4. \A key \in Lists : e[key] = TextsOf(Field(t, key))
    BY <1>2 DEF Lists
<1>5. \A key \in Spans : e[key] = SpanOf(Field(t, key))
    BY <1>2 DEF Spans
<1>6. /\ e.name = TextOf(Field(t, "name")) /\ e.status = TextOf(Field(t, "status"))
      /\ e.visibility = VisibilityOf(Field(t, "visibility"))
      /\ e.body = RawBody(tail) /\ e.sound = Sound(t)
    BY <1>2
<1> QED
    BY <1>3, <1>4, <1>5, <1>6 DEF e

LEMMA EntityMoves ==
    ASSUME NEW t, Whole(t), NEW u, Whole(u), NEW f \in fieldOrder, SameBut(t, u, f),
           Sound(u) = Sound(t), NEW tail
    PROVE  Entity(u, tail) = [Entity(t, tail) EXCEPT ![f] = Entity(u, tail)[f]]
<1> DEFINE e(x) == [name |-> TextOf(Field(x, "name")),
                    aliases |-> TextsOf(Field(x, "aliases")),
                    outcomes |-> TextsOf(Field(x, "outcomes")),
                    status |-> TextOf(Field(x, "status")),
                    visibility |-> VisibilityOf(Field(x, "visibility")),
                    lifespan |-> SpanOf(Field(x, "lifespan")),
                    date |-> SpanOf(Field(x, "date")),
                    valid_in |-> TextsOf(Field(x, "valid_in")),
                    body |-> RawBody(tail),
                    sound |-> Sound(x)]
<1>1. Entity(t, tail) = e(t) /\ Entity(u, tail) = e(u)
    BY Kinds DEF Whole, Entity
<1>2. \A k : k # f => Field(u, k) = Field(t, k)
    BY DEF SameBut
<1>3. e(u) = [e(t) EXCEPT ![f] = e(u)[f]]
    <2>1. CASE f = "name"
        BY <1>2, <2>1
    <2>2. CASE f = "aliases"
        BY <1>2, <2>2
    <2>3. CASE f = "outcomes"
        BY <1>2, <2>3
    <2>4. CASE f = "status"
        BY <1>2, <2>4
    <2>5. CASE f = "visibility"
        BY <1>2, <2>5
    <2>6. CASE f = "lifespan"
        BY <1>2, <2>6
    <2>7. CASE f = "date"
        BY <1>2, <2>7
    <2>8. CASE f = "valid_in"
        BY <1>2, <2>8
    <2> QED
        BY <2>1, <2>2, <2>3, <2>4, <2>5, <2>6, <2>7, <2>8 DEF fieldOrder
<1> QED
    BY <1>1, <1>3

LEMMA SoundIs ==
    ASSUME NEW t, Whole(t)
    PROVE  Sound(t) <=> /\ \A key \in Lists : ListFits(Field(t, key))
                        /\ \A key \in Spans : SpanFits(Field(t, key))
<1>1. \A key : /\ key \in DOMAIN t.map => Field(t, key) = t.map[key] /\ Field(t, key) # Absent
               /\ key \notin DOMAIN t.map => Field(t, key) = Absent
    BY FieldIs
<1>2. ASSUME Sound(t) PROVE /\ \A key \in Lists : ListFits(Field(t, key))
                            /\ \A key \in Spans : SpanFits(Field(t, key))
    BY <1>1, <1>2 DEF Sound, ListFits, SpanFits
<1>3. ASSUME /\ \A key \in Lists : ListFits(Field(t, key))
             /\ \A key \in Spans : SpanFits(Field(t, key))
      PROVE  Sound(t)
    BY <1>1, <1>3 DEF Sound, ListFits, SpanFits
<1> QED
    BY <1>2, <1>3

\* A field of the wrong shape keeps it, and one of the right shape gets no other.
LEMMA KeptFits ==
    ASSUME NEW b, NEW n
    PROVE  /\ ListKept(b, n) => (ListFits(n) <=> ListFits(b))
           /\ SpanStepped(b, n) => (SpanFits(n) <=> SpanFits(b))
<1>1. IsMap(n) => ~ListFits(n)
    BY Kinds DEF ListFits, IsMap, IsList
<1> QED
    BY <1>1 DEF ListKept, SpanStepped

LEMMA SoundStays ==
    ASSUME Whole(base.tree), NEW t, NEW left, Drafted(t, left)
    PROVE  Sound(t) = Sound(base.tree)
<1>1. \A key \in Lists : ListFits(Field(t, key)) <=> ListFits(Field(base.tree, key))
    BY KeptFits DEF Drafted, Kept
<1>2. \A key \in Spans : SpanFits(Field(t, key)) <=> SpanFits(Field(base.tree, key))
    BY KeptFits DEF Drafted, Kept
<1>3. Sound(t) <=> Sound(base.tree)
    BY <1>1, <1>2, SoundIs DEF Drafted
<1>4. Sound(t) \in BOOLEAN /\ Sound(base.tree) \in BOOLEAN
    BY DEF Sound
<1> QED
    BY <1>3, <1>4

LEMMA DraftMoves ==
    ASSUME NEW t, NEW left \in Nat, Drafted(t, left), left > 0, NEW u, Whole(u), NEW f \in fieldOrder,
           SameBut(t, u, f), Kept(f, Field(base.tree, f), Field(u, f)),
           f \in Lists /\ IsList(Field(u, f)) => Len(Field(u, f).list) + (left - 1) <= Len(Numerals)
    PROVE  Drafted(u, left - 1)
<1>1. \A k : k # f => Field(u, k) = Field(t, k)
    BY DEF SameBut
<1>2. \A k : Kept(k, Field(base.tree, k), Field(u, k))
    BY <1>1 DEF Drafted
<1>3. ASSUME NEW k \in Lists, IsList(Field(u, k)) PROVE Len(Field(u, k).list) + (left - 1) <= Len(Numerals)
    <2>1. CASE k = f
        BY <1>3, <2>1
    <2>2. CASE k # f
        <3> DEFINE n == Field(t, k)
        <3>1. Field(u, k) = n
            BY <1>1, <2>2
        <3>2. Node(n) /\ n # Absent
            BY <1>3, <3>1, FieldIs, Kinds DEF Drafted, IsList
        <3>3. Ordered(n.list)
            BY <1>3, <3>1, <3>2, ListIs DEF Node
        <3>4. Len(n.list) \in Nat /\ Len(Numerals) \in Nat /\ Len(n.list) + left <= Len(Numerals)
            BY <1>3, <3>1, <3>3, NumeralsOK DEF Ordered, Drafted, Short
        <3> HIDE DEF n
        <3> QED
            BY <3>1, <3>4
    <2> QED
        BY <2>1, <2>2
<1> QED
    BY <1>2, <1>3 DEF Drafted, Short

-----------------------------------------------------------------------------
(***************************************************************************)
(* One post.                                                               *)
(***************************************************************************)
LEMMA AfterIs ==
    ASSUME NEW e, NEW p
    PROVE  /\ p.field = "name" => Form!After(e, p) = [e EXCEPT !["name"] = p.value]
           /\ p.field \in Lists =>
                  Form!After(e, p) = [e EXCEPT ![p.field] = Form!ItemsAfter(e[p.field], p)]
           /\ p.field = "status" =>
                  Form!After(e, p) = [e EXCEPT !["status"] = IF p.value \in Statuses THEN p.value ELSE e["status"]]
           /\ p.field = "visibility" =>
                  Form!After(e, p) = [e EXCEPT !["visibility"] = Form!VisibilityAfter(e["visibility"], p)]
           /\ p.field \in Spans =>
                  Form!After(e, p) = [e EXCEPT ![p.field] = Form!SpanAfter(e[p.field], p)]
           /\ p.field = "body" => Form!After(e, p) = [e EXCEPT !["body"] = p.lines]
<1>1. p.field = "name" => Form!After(e, p) = [e EXCEPT !["name"] = p.value]
    BY DEF Form!After
<1>2. p.field \in Lists =>
          Form!After(e, p) = [e EXCEPT ![p.field] = Form!ItemsAfter(e[p.field], p)]
    BY DEF Form!After, Lists
<1>3. p.field = "status" =>
          Form!After(e, p) = [e EXCEPT !["status"] = IF p.value \in Statuses THEN p.value ELSE e["status"]]
    BY DEF Form!After
<1>4. p.field = "visibility" =>
          Form!After(e, p) = [e EXCEPT !["visibility"] = Form!VisibilityAfter(e["visibility"], p)]
    BY DEF Form!After
<1>5. p.field \in Spans =>
          Form!After(e, p) = [e EXCEPT ![p.field] = Form!SpanAfter(e[p.field], p)]
    BY DEF Form!After, Spans
<1>6. p.field = "body" => Form!After(e, p) = [e EXCEPT !["body"] = p.lines]
    BY DEF Form!After
<1> QED
    BY <1>1, <1>2, <1>3, <1>4, <1>5, <1>6

LEMMA ListGrows ==
    ASSUME NEW n, Node(n), NEW left \in Nat, left > 0, left <= Len(Numerals),
           IsList(n) => Len(n.list) + left <= Len(Numerals),
           NEW m, ListStepped(n, m), IsList(m)
    PROVE  Len(m.list) + (left - 1) <= Len(Numerals)
<1> DEFINE l == ItemsIn(n)
<1>1. Len(Numerals) \in Nat
    BY NumeralsOK DEF Ordered
<1>2. Ordered(l) /\ Len(l) \in Nat /\ Len(l) + left <= Len(Numerals)
    <2>1. CASE IsList(n)
        <3>1. n # Absent
            BY <2>1, Kinds DEF IsList
        <3>2. Ordered(n.list)
            BY <2>1, <3>1, ListIs DEF Node
        <3> QED
            BY <2>1, <3>2 DEF ItemsIn, Ordered
    <2>2. CASE ~IsList(n)
        <3>1. l = <<>>
            BY <2>2 DEF ItemsIn
        <3>2. Ordered(<<>>) /\ Len(<<>>) = 0
            BY NoTexts DEF Ordered
        <3> HIDE DEF l
        <3> QED
            BY <1>1, <3>1, <3>2
    <2> QED
        BY <2>1, <2>2
<1>3. CASE m = n
    <2>1. Len(m.list) \in Nat /\ Len(m.list) + left <= Len(Numerals)
        BY <1>2, <1>3 DEF ItemsIn
    <2> QED
        BY <1>1, <2>1
<1> HIDE DEF l
<1>4. CASE m = Absent
    BY <1>4, Kinds DEF IsList
<1>5. CASE Extended(n, m)
    <2>1. PICK v : m = List(Append(l, Str(v)))
        BY <1>5 DEF Extended, l
    <2>2. m.list = Append(l, Str(v)) /\ Len(Append(l, Str(v))) = Len(l) + 1
        BY <1>2, <2>1, Appended, Kinds
    <2> QED
        BY <1>1, <1>2, <2>2
<1>6. CASE Shortened(n, m)
    <2>1. PICK i \in 1..Len(l) : m = List(RemoveAt(l, i))
        BY <1>6 DEF Shortened, ItemsIn, l
    <2>2. Len(m.list) = Len(l) - 1
        BY <1>2, <2>1, ItemRemoved, Kinds
    <2> QED
        BY <1>1, <1>2, <2>2
<1> QED
    BY <1>3, <1>4, <1>5, <1>6 DEF ListStepped

LEMMA PostStep ==
    ASSUME Whole(base.tree), NEW t, NEW left \in Nat, left > 0, left <= Len(Numerals), Drafted(t, left),
           NEW p, Shaped(p), NEW tail, NEW e, e = Entity(t, tail),
           NEW u, u = Edited(t, FieldChanges(e, p))
    PROVE  \/ u = Bad /\ ~Sound(base.tree)
           \/ /\ Drafted(u, left - 1)
              /\ \/ Entity(u, tail) = Form!After(e, p)
                 \/ ~Sound(base.tree) /\ Entity(u, tail) = e
<1> DEFINE f == p.field
           n == Field(t, f)
           b == Field(base.tree, f)
<1>1. Whole(t) /\ Node(n) /\ Kept(f, b, n) /\ f \in fieldOrder
    BY FieldIs DEF Drafted, Shaped
<1>2. /\ e.name = TextOf(Field(t, "name")) /\ e.status = TextOf(Field(t, "status"))
      /\ e.visibility = VisibilityOf(Field(t, "visibility"))
      /\ \A key \in Lists : e[key] = TextsOf(Field(t, key))
      /\ \A key \in Spans : e[key] = SpanOf(Field(t, key))
    BY <1>1, EntityIs
<1>3. ASSUME Whole(u), SameBut(t, u, f), Kept(f, b, Field(u, f)),
             f \in Lists /\ IsList(Field(u, f)) => Len(Field(u, f).list) + (left - 1) <= Len(Numerals)
      PROVE  Drafted(u, left - 1) /\ Entity(u, tail) = [e EXCEPT ![f] = Entity(u, tail)[f]]
    <2>1. Drafted(u, left - 1)
        BY <1>1, <1>3, DraftMoves
    <2> HIDE DEF f
    <2>2. Entity(u, tail) = [Entity(t, tail) EXCEPT ![f] = Entity(u, tail)[f]]
        <3>1. Sound(u) = Sound(t)
            <4>1. Sound(t) = Sound(base.tree)
                BY SoundStays
            <4>2. Sound(u) = Sound(base.tree)
                BY <2>1, SoundStays
            <4> QED
                BY <4>1, <4>2
        <3> QED
            BY <1>1, <1>3, <3>1, EntityMoves
    <2> QED
        BY <2>1, <2>2
<1>4. CASE f = "name"
    <2>1. FieldChanges(e, p) = NameChange(e, p.value)
        BY <1>4 DEF FieldChanges, Lists, Spans
    <2>2. /\ Whole(u) /\ SameBut(t, u, "name") /\ TextOf(Field(u, "name")) = p.value
          /\ Field(u, "name") = n \/ Field(u, "name") = Str(p.value)
        BY <1>1, <1>2, <1>4, <2>1, NamePosted
    <2>3. Kept(f, b, Field(u, f)) /\ f \notin Lists
        <3>1. f \notin Lists /\ f \notin Spans /\ f \in fieldOrder
            BY <1>4 DEF Lists, Spans, fieldOrder
        <3> HIDE DEF n
        <3> QED
            BY <1>1, <1>4, <2>2, <3>1, Kinds DEF Kept
    <2>4. Drafted(u, left - 1) /\ Entity(u, tail) = [e EXCEPT ![f] = Entity(u, tail)[f]]
        BY <1>3, <1>4, <2>2, <2>3
    <2>5. Entity(u, tail).name = p.value
        BY <2>2, EntityIs
    <2>6. Form!After(e, p) = [e EXCEPT !["name"] = p.value]
        BY <1>4, AfterIs
    <2> QED
        BY <1>4, <2>4, <2>5, <2>6
<1>5. CASE f = "status"
    <2> DEFINE v == p.value
    <2>1. FieldChanges(e, p) = StatusChange(e, v)
        BY <1>5 DEF FieldChanges, Lists, Spans
    <2>2. /\ Whole(u) /\ SameBut(t, u, "status")
          /\ TextOf(Field(u, "status")) = IF v \in Statuses THEN v ELSE TextOf(n)
          /\ Field(u, "status") = n \/ (v \in Statuses /\ Field(u, "status") = Str(v))
        BY <1>1, <1>2, <1>5, <2>1, StatusPosted
    <2>3. Kept(f, b, Field(u, f)) /\ f \notin Lists
        <3>1. f \notin Lists /\ f \notin Spans /\ f \in fieldOrder
            BY <1>5 DEF Lists, Spans, fieldOrder
        <3> HIDE DEF n
        <3> QED
            BY <1>1, <1>5, <2>2, <3>1, Kinds DEF Kept
    <2>4. Drafted(u, left - 1) /\ Entity(u, tail) = [e EXCEPT ![f] = Entity(u, tail)[f]]
        BY <1>3, <1>5, <2>2, <2>3
    <2>5. Entity(u, tail).status = IF v \in Statuses THEN v ELSE e.status
        BY <1>2, <1>5, <2>2, EntityIs
    <2>6. Form!After(e, p) = [e EXCEPT !["status"] = IF v \in Statuses THEN v ELSE e["status"]]
        BY <1>5, AfterIs
    <2> QED
        BY <1>5, <2>4, <2>5, <2>6
<1>6. CASE f = "visibility"
    <2>1. FieldChanges(e, p) = VisibilityChange(e.visibility, p)
        BY <1>6 DEF FieldChanges, Lists, Spans
    <2>2. p.op \in {"kind", "act"} /\ (p.op = "kind" => p.value \in VisKinds)
        BY <1>6 DEF Shaped
    <2>3. /\ Whole(u) /\ SameBut(t, u, "visibility")
          /\ VisibilityOf(Field(u, "visibility")) = Form!VisibilityAfter(VisibilityOf(n), p)
          /\ Field(u, "visibility") = n
             \/ \E k \in VisKinds : \E a : Field(u, "visibility") = Visibility(k, a)
        BY <1>1, <1>2, <1>6, <2>1, <2>2, VisibilityPosted
    <2>4. Kept(f, b, Field(u, f)) /\ f \notin Lists
        <3>1. f \notin Lists /\ f \notin Spans /\ f \in fieldOrder /\ f # "name" /\ f # "status"
            BY <1>6 DEF Lists, Spans, fieldOrder
        <3> HIDE DEF n
        <3> QED
            BY <1>1, <1>6, <2>3, <3>1 DEF Kept
    <2>5. Drafted(u, left - 1) /\ Entity(u, tail) = [e EXCEPT ![f] = Entity(u, tail)[f]]
        BY <1>3, <1>6, <2>3, <2>4
    <2>6. Entity(u, tail).visibility = Form!VisibilityAfter(e.visibility, p)
        BY <1>2, <1>6, <2>3, EntityIs
    <2>7. Form!After(e, p) = [e EXCEPT !["visibility"] = Form!VisibilityAfter(e["visibility"], p)]
        BY <1>6, AfterIs
    <2> QED
        BY <1>6, <2>5, <2>6, <2>7
<1>7. CASE f \in Lists
    <2>0. f # "name" /\ f # "status" /\ f # "visibility" /\ f \notin Spans
        BY <1>7 DEF Lists, Spans
    <2>1. FieldChanges(e, p) = ItemChange(f, TextsOf(n), p)
        <3>1. FieldChanges(e, p) = ItemChange(f, e[f], p)
            BY <1>7, <2>0 DEF FieldChanges
        <3> QED
            BY <1>2, <1>7, <3>1
    <2>2. p.op \in {"add", "remove"}
        BY <1>7 DEF Shaped
    <2>3. IsList(n) => Len(n.list) + left <= Len(Numerals) /\ Len(n.list) <= Len(Numerals)
        <3> SUFFICES ASSUME IsList(n) PROVE Len(n.list) + left <= Len(Numerals) /\ Len(n.list) <= Len(Numerals)
            OBVIOUS
        <3>1. n # Absent
            BY Kinds DEF IsList
        <3>2. Len(n.list) \in Nat /\ Len(Numerals) \in Nat
            BY <1>1, <3>1, ListIs, NumeralsOK DEF Node, Ordered
        <3>3. Len(n.list) + left <= Len(Numerals)
            BY <1>7 DEF Drafted, Short
        <3> QED
            BY <3>2, <3>3
    <2>4. \/ u = Bad /\ n \notin {Absent, Null} /\ ~IsList(n)
          \/ Whole(u) /\ SameBut(t, u, f) /\ IsMap(n) /\ IsMap(Field(u, f))
          \/ /\ Whole(u) /\ SameBut(t, u, f) /\ ListStepped(n, Field(u, f))
             /\ TextsOf(Field(u, f)) = Form!ItemsAfter(TextsOf(n), p)
        BY <1>1, <2>1, <2>2, <2>3, ItemPosted
    <2>5. ListKept(b, n)
        BY <1>1, <1>7 DEF Kept
    <2>6. Form!After(e, p) = [e EXCEPT ![f] = Form!ItemsAfter(e[f], p)]
        BY <1>7, AfterIs
    <2>7. \A x : ListKept(b, x) => Kept(f, b, x)
        BY <1>1, <2>0 DEF Kept
    <2>8. ~ListFits(n) => ~Sound(base.tree)
        <3>1. ListFits(b) <=> ListFits(n)
            BY <2>5, KeptFits
        <3> QED
            BY <1>7, <3>1, SoundIs
    <2> HIDE DEF f, n, b
    <2>9. CASE u = Bad /\ n \notin {Absent, Null} /\ ~IsList(n)
        BY <2>8, <2>9 DEF ListFits
    <2>10. CASE Whole(u) /\ SameBut(t, u, f) /\ IsMap(n) /\ IsMap(Field(u, f))
        <3> DEFINE m == Field(u, f)
        <3>1. Kept(f, b, m)
            BY <2>5, <2>7, <2>10, MapStaysKept
        <3>2. ~IsList(m) /\ ~IsList(n) /\ ~ListFits(n)
            BY <2>10, Kinds DEF IsMap, IsList, ListFits
        <3>3. Drafted(u, left - 1) /\ Entity(u, tail) = [e EXCEPT ![f] = Entity(u, tail)[f]]
            BY <1>3, <2>10, <3>1, <3>2
        <3>4. Entity(u, tail)[f] = <<>>
            BY <1>7, <2>10, <3>2, EntityIs, NoTexts
        <3>5. e[f] = <<>>
            BY <1>2, <1>7, <3>2, NoTexts DEF n
        <3>6. [e EXCEPT ![f] = e[f]] = e
            <4>1. t # Bad
                BY <1>1, Kinds DEF Whole
            <4> QED
                BY <4>1 DEF Entity
        <3>7. Entity(u, tail) = e
            BY <3>3, <3>4, <3>5, <3>6
        <3> QED
            BY <2>8, <3>2, <3>3, <3>7
    <2>11. CASE /\ Whole(u) /\ SameBut(t, u, f) /\ ListStepped(n, Field(u, f))
                /\ TextsOf(Field(u, f)) = Form!ItemsAfter(TextsOf(n), p)
        <3> DEFINE m == Field(u, f)
        <3>1. Kept(f, b, m)
            BY <1>1, <2>5, <2>7, <2>11, ListStaysKept
        <3>2. IsList(m) => Len(m.list) + (left - 1) <= Len(Numerals)
            BY <1>1, <2>3, <2>11, ListGrows
        <3>3. Drafted(u, left - 1) /\ Entity(u, tail) = [e EXCEPT ![f] = Entity(u, tail)[f]]
            BY <1>3, <2>11, <3>1, <3>2
        <3>4. Entity(u, tail)[f] = Form!ItemsAfter(e[f], p)
            BY <1>2, <1>7, <2>11, EntityIs DEF n
        <3> QED
            BY <2>6, <3>3, <3>4
    <2> QED
        BY <2>4, <2>9, <2>10, <2>11
<1>8. CASE f \in Spans
    <2>0. f # "name" /\ f # "status" /\ f # "visibility" /\ f \notin Lists
        BY <1>8 DEF Lists, Spans
    <2>1. FieldChanges(e, p) = IntervalChange(f, SpanOf(n), p)
        <3>1. FieldChanges(e, p) = IntervalChange(f, e[f], p)
            BY <1>8, <2>0 DEF FieldChanges
        <3> QED
            BY <1>2, <1>8, <3>1
    <2>2. p.op \in SpanParts
        BY <1>8 DEF Shaped
    <2>3. \/ u = Bad /\ ~SpanFits(n)
          \/ /\ Whole(u) /\ SameBut(t, u, f) /\ SpanStepped(n, Field(u, f))
             /\ SpanOf(Field(u, f)) = Form!SpanAfter(SpanOf(n), p)
        BY <1>1, <2>1, <2>2, SpanPosted
    <2>4. SpanStepped(b, n)
        BY <1>1, <1>8 DEF Kept
    <2>5. Form!After(e, p) = [e EXCEPT ![f] = Form!SpanAfter(e[f], p)]
        BY <1>8, AfterIs
    <2>6. \A x : SpanStepped(b, x) => Kept(f, b, x)
        BY <1>1, <2>0 DEF Kept
    <2>7. ~SpanFits(n) => ~Sound(base.tree)
        <3>1. SpanFits(b) <=> SpanFits(n)
            BY <2>4, KeptFits
        <3> QED
            BY <1>8, <3>1, SoundIs
    <2> HIDE DEF f, n, b
    <2>8. CASE u = Bad /\ ~SpanFits(n)
        BY <2>7, <2>8
    <2>9. CASE /\ Whole(u) /\ SameBut(t, u, f) /\ SpanStepped(n, Field(u, f))
               /\ SpanOf(Field(u, f)) = Form!SpanAfter(SpanOf(n), p)
        <3> DEFINE m == Field(u, f)
        <3>1. SpanStepped(b, m)
            BY <2>4, <2>9 DEF SpanStepped
        <3>2. Kept(f, b, m)
            BY <2>6, <3>1
        <3>3. Drafted(u, left - 1) /\ Entity(u, tail) = [e EXCEPT ![f] = Entity(u, tail)[f]]
            BY <1>3, <2>0, <2>9, <3>2
        <3>4. Entity(u, tail)[f] = Form!SpanAfter(e[f], p)
            BY <1>2, <1>8, <2>9, EntityIs DEF n
        <3> QED
            BY <2>5, <3>3, <3>4
    <2> QED
        BY <2>3, <2>8, <2>9
<1> QED
    BY <1>1, <1>4, <1>5, <1>6, <1>7, <1>8 DEF fieldOrder, Lists, Spans

-----------------------------------------------------------------------------
(***************************************************************************)
(* The inductive invariant of the form.                                    *)
(***************************************************************************)
Trees ==
    /\ Ordered(trees) /\ Len(trees) >= 1 /\ Len(trees) <= MaxChanges + 1 /\ trees[1] = base.tree
    /\ \A i \in 1..(Len(trees) - 1) : IsMap(trees[i])
Draft == IF Tree = Bad THEN ~Sound(base.tree) ELSE Drafted(Tree, MaxChanges + 1 - Len(trees))
FormInv ==
    /\ base \in BaseFiles /\ Trees /\ Draft
    /\ prose \in Proses \union {NoBody}
    /\ did.field \in fieldOrder \union {"none", "body"}

LEMMA FileDrafted ==
    ASSUME base \in BaseFiles
    PROVE  /\ Whole(base.tree) /\ Drafted(base.tree, MaxChanges) /\ base.tree # Bad
           /\ Ordered(base.text)
<1> DEFINE t == base.tree
<1>1. File(base)
    BY FilesOK
<1>2. /\ t.kind = "map" /\ Parsed(t) /\ Ordered(base.text)
      /\ \A n \in Inside(t) :
             /\ Parsed(n) /\ \A part \in Inside(n) : Parsed(part)
             /\ n.kind = "vis" => n = Visibility(n.vis.kind, n.vis.act)
             /\ n.kind = "vis" /\ n.vis.act # NoValue => n.vis.kind = "spoiler"
             /\ IsList(n) => Len(n.list) + MaxChanges <= Len(Numerals)
    BY <1>1 DEF File
<1> HIDE DEF t
<1>3. Whole(t)
    BY <1>2 DEF Whole, WellMade
<1>4. Short(t, MaxChanges)
    <2> SUFFICES ASSUME NEW key \in Lists, IsList(Field(t, key))
                 PROVE  Len(Field(t, key).list) + MaxChanges <= Len(Numerals)
        BY DEF Short
    <2>1. Field(t, key) # Absent
        BY Kinds DEF IsList
    <2>2. key \in DOMAIN t.map /\ Field(t, key) = t.map[key]
        BY <1>3, <2>1, FieldIs
    <2>3. Inside(t) = {t.map[k] : k \in DOMAIN t.map}
        BY <1>2 DEF Inside, IsMap, IsList
    <2>4. Field(t, key) \in Inside(t)
        BY <2>2, <2>3
    <2> QED
        BY <1>2, <2>4
<1>5. \A key : Kept(key, Field(t, key), Field(t, key))
    <2> TAKE key
    <2> DEFINE n == Field(t, key)
    <2>1. Node(n)
        BY <1>3, FieldIs
    <2>2. ListKept(n, n) /\ SpanStepped(n, n)
        BY <2>1, ListKeptAtFirst DEF SpanStepped
    <2> HIDE DEF n
    <2> QED
        BY <2>2 DEF Kept, n
<1>6. t # Bad
    BY <1>2, Kinds
<1> QED
    BY <1>2, <1>3, <1>4, <1>5, <1>6 DEF Drafted, t

LEMMA OneTree ==
    ASSUME NEW t
    PROVE  Ordered(<<t>>) /\ Len(<<t>>) = 1 /\ <<t>>[1] = t /\ Last(<<t>>) = t
<1>1. <<t>> \in Seq({t}) /\ Len(<<t>>) = 1 /\ <<t>>[1] = t
    OBVIOUS
<1> QED
    BY <1>1, SeqIsOrdered DEF Last

LEMMA FreshDraft ==
    base \in BaseFiles /\ trees = <<base.tree>> => Trees /\ Draft /\ Tree = base.tree
<1> SUFFICES ASSUME base \in BaseFiles, trees = <<base.tree>>
             PROVE  Trees /\ Draft /\ Tree = base.tree
    OBVIOUS
<1>1. Ordered(trees) /\ Len(trees) = 1 /\ trees[1] = base.tree /\ Tree = base.tree
    BY OneTree DEF Tree
<1>2. MaxChanges \in Nat /\ MaxChanges + 1 - 1 = MaxChanges
    BY BoundsOK
<1>3. base.tree # Bad /\ Drafted(base.tree, MaxChanges)
    BY FileDrafted
<1>4. Draft
    BY <1>1, <1>2, <1>3 DEF Draft
<1>5. Trees
    BY <1>1, <1>2 DEF Trees
<1> QED
    BY <1>1, <1>4, <1>5

LEMMA FormInit == Init => FormInv
<1> SUFFICES ASSUME Init PROVE FormInv
    OBVIOUS
<1>1. Trees /\ Draft
    BY FreshDraft DEF Init
<1> QED
    BY <1>1 DEF Init, FormInv, NoPost

LEMMA Reads ==
    ASSUME FormInv, Tree # Bad
    PROVE  /\ Whole(base.tree) /\ Whole(Tree) /\ Drafted(Tree, MaxChanges + 1 - Len(trees))
           /\ Entity(Tree, Text) # Unreadable
           /\ Len(trees) \in Nat /\ MaxChanges \in Nat /\ Ordered(trees)
<1>1. Whole(base.tree)
    BY FileDrafted DEF FormInv
<1>2. Drafted(Tree, MaxChanges + 1 - Len(trees))
    BY DEF FormInv, Draft
<1>3. Whole(Tree)
    BY <1>2 DEF Drafted
<1>4. Entity(Tree, Text) # Unreadable
    BY <1>3, EntityIs
<1>5. Len(trees) \in Nat /\ MaxChanges \in Nat /\ Ordered(trees)
    BY BoundsOK DEF FormInv, Trees, Ordered
<1> QED
    BY <1>1, <1>2, <1>3, <1>4, <1>5

LEMMA FileReads ==
    ASSUME FormInv
    PROVE  Form!WellFormed <=> Sound(base.tree)
<1>1. Whole(base.tree)
    BY FileDrafted DEF FormInv
<1>2. Entity(base.tree, base.text) # Unreadable /\ Entity(base.tree, base.text).sound = Sound(base.tree)
    BY <1>1, EntityIs
<1>3. Form!Unreadable = Unreadable
    BY DEF Form!Unreadable, Unreadable
<1> QED
    BY <1>2, <1>3 DEF Form!WellFormed

\* An edit of a field is one of EntityForm's edits.
LEMMA FieldEdited == FormInv /\ FieldEdit => FormInv' /\ Form!Edit
<1> SUFFICES ASSUME FormInv, FieldEdit PROVE FormInv' /\ Form!Edit
    OBVIOUS
<1>1. PICK p : /\ \E tree \in Range(trees) : p \in Offers(tree)
               /\ trees' = IF FieldChanges(Entity(Tree, Text), p) = <<>> THEN trees
                           ELSE Append(trees, EditFrontmatter(Tree, FieldChanges(Entity(Tree, Text), p)))
               /\ did' = p
    BY Zenon DEF FieldEdit
<1>2. Tree # Bad /\ Len(trees) <= MaxChanges /\ base' = base /\ prose' = prose
    BY DEF FieldEdit
<1> DEFINE t == Tree
           e == Entity(Tree, Text)
           made == FieldChanges(e, p)
           u == Edited(t, made)
           left == MaxChanges + 1 - Len(trees)
<1>3. /\ Whole(base.tree) /\ Whole(t) /\ Drafted(t, left) /\ e # Unreadable
      /\ Len(trees) \in Nat /\ MaxChanges \in Nat /\ Ordered(trees)
    BY <1>2, Reads
<1>4. Shaped(p)
    BY <1>1, OffersShaped
<1>5. left \in Nat /\ left > 0 /\ left <= MaxChanges /\ MaxChanges <= Len(Numerals) /\ Len(trees) >= 1
    BY <1>2, <1>3, BoundsOK DEF FormInv, Trees
<1>6. \/ u = Bad /\ ~Sound(base.tree)
      \/ /\ Drafted(u, left - 1)
         /\ \/ Entity(u, Text) = Form!After(e, p)
            \/ ~Sound(base.tree) /\ Entity(u, Text) = e
    <2> HIDE DEF left, u, t, e
    <2>1. left <= Len(Numerals)
        BY <1>3, <1>5, NumeralsOK DEF Ordered
    <2> QED
        BY <1>3, <1>4, <1>5, <2>1, PostStep DEF u, made, e, t
<1>7. Text' = Text
    BY <1>2 DEF Text
<1>8. Tree' = u /\ Trees' /\ Len(trees') \in {Len(trees), Len(trees) + 1}
      /\ (Len(trees') = Len(trees) => u = t)
    <2>1. CASE made = <<>>
        <3>1. trees' = trees /\ u = t
            BY <1>1, <2>1 DEF Edited
        <3>2. Tree' = t
            BY <3>1 DEF Tree
        <3> HIDE DEF u, t
        <3> QED
            BY <1>2, <3>1, <3>2 DEF FormInv, Trees
    <2>2. CASE made # <<>>
        <3>1. trees' = Append(trees, u)
            BY <1>1, <2>2 DEF Edited
        <3> HIDE DEF u
        <3>2. /\ Ordered(trees') /\ Len(trees') = Len(trees) + 1 /\ trees'[Len(trees) + 1] = u
              /\ \A i \in 1..Len(trees) : trees'[i] = trees[i]
            BY <1>3, <3>1, Appended
        <3>3. Tree' = u
            BY <3>2 DEF Tree, Last
        <3>4. IsMap(trees[Len(trees)])
            BY <1>3 DEF Whole, IsMap, Tree, Last
        <3>5. \A i \in 1..Len(trees) : IsMap(trees[i])
            <4>1. \A i \in 1..Len(trees) : i = Len(trees) \/ i \in 1..(Len(trees) - 1)
                BY <1>3
            <4> QED
                BY <3>4, <4>1 DEF FormInv, Trees
        <3>6. trees'[1] = base'.tree
            BY <1>2, <1>3, <1>5, <3>2 DEF FormInv, Trees
        <3>7. \A i \in 1..(Len(trees') - 1) : IsMap(trees'[i])
            BY <1>3, <3>2, <3>5
        <3>8. Trees'
            BY <1>2, <1>3, <3>2, <3>6, <3>7 DEF Trees
        <3> QED
            BY <1>3, <3>2, <3>3, <3>8
    <2> QED
        BY <2>1, <2>2
<1> HIDE DEF u, t, e
<1>9. Draft'
    <2>1. CASE u = Bad
        <3>1. t # Bad
            BY <1>2 DEF t
        <3>2. ~Sound(base.tree)
            BY <1>6, <2>1, Kinds DEF Drafted, Whole
        <3> QED
            BY <1>2, <1>8, <2>1, <3>2 DEF Draft
    <2>2. CASE u # Bad
        <3>1. Drafted(u, MaxChanges + 1 - Len(trees'))
            <4>1. CASE Len(trees') = Len(trees)
                BY <1>3, <1>8, <4>1
            <4>2. CASE Len(trees') = Len(trees) + 1
                <5>1. MaxChanges + 1 - Len(trees') = left - 1
                    BY <1>3, <4>2
                <5> QED
                    BY <1>6, <2>2, <5>1
            <4> QED
                BY <1>8, <4>1, <4>2
        <3>2. Drafted(Tree, MaxChanges + 1 - Len(trees))'
            BY <1>2, <1>8, <3>1 DEF Drafted
        <3> QED
            BY <1>8, <2>2, <3>2 DEF Draft
    <2> QED
        BY <2>1, <2>2
<1>10. FormInv'
    BY <1>1, <1>2, <1>4, <1>8, <1>9 DEF FormInv, Shaped
<1>11. Form!Edit
    <2>1. e # Form!Unreadable /\ Form!Unreadable = Unreadable
        BY <1>3 DEF Form!Unreadable, Unreadable
    <2>2. did' # Form!NoPost
        <3>1. p.field # "none"
            BY <1>4 DEF Shaped, fieldOrder
        <3> QED
            BY <1>1, <3>1 DEF Form!NoPost
    <2>3. Entity(Tree', Text') = Entity(u, Text)
        BY <1>7, <1>8
    <2>4. Entity(Bad, Text) = Unreadable
        BY DEF Entity
    <2>5. \/ Entity(Tree', Text') = Form!After(e, did')
          \/ ~Form!WellFormed /\ Entity(Tree', Text') \in {e, Unreadable}
        BY <1>1, <1>6, <2>3, <2>4, FileReads
    <2>6. Entity(base.tree, base.text)' = Entity(base.tree, base.text)
        BY <1>2
    <2> QED
        BY <2>1, <2>2, <2>5, <2>6 DEF Form!Edit, e
<1> QED
    BY <1>10, <1>11

\* So is an edit of the prose.
LEMMA BodyEdited == FormInv /\ BodyEdit => FormInv' /\ Form!Edit
<1> SUFFICES ASSUME FormInv, BodyEdit PROVE FormInv' /\ Form!Edit
    OBVIOUS
<1>1. PICK b \in Proses : /\ prose' = IF ReplaceBody(base.text, b) = base.text THEN NoBody ELSE b
                          /\ did' = [field |-> "body", lines |-> trimProse(b)]
    BY DEF BodyEdit
<1>2. Tree # Bad /\ base' = base /\ trees' = trees
    BY DEF BodyEdit
<1>3. Tree' = Tree
    BY <1>2 DEF Tree
<1>4. Whole(Tree) /\ Entity(Tree, Text) # Unreadable
    BY <1>2, Reads
<1>5. Ordered(base.text) /\ Ordered(b) /\ b # NoBody
    BY FileDrafted, BoundsOK DEF FormInv
<1>6. Text' = ReplaceBody(base.text, b)
    BY <1>1, <1>2, <1>5 DEF Text
<1>7. RawBody(Text') = trimProse(b)
    BY <1>5, <1>6, ProseRead
<1>8. FormInv'
    <2>1. Trees' /\ Draft'
        <3>1. Trees'
            BY <1>2 DEF FormInv, Trees
        <3>2. Draft'
            BY <1>2, <1>3 DEF FormInv, Draft, Drafted
        <3> QED
            BY <3>1, <3>2
    <2>2. prose' \in Proses \union {NoBody}
        BY <1>1
    <2>3. did'.field = "body"
        BY <1>1
    <2> QED
        BY <1>2, <2>1, <2>2, <2>3 DEF FormInv
<1>9. Form!Edit
    <2> DEFINE e == Entity(Tree, Text)
    <2>1. e # Form!Unreadable
        BY <1>4 DEF Form!Unreadable, Unreadable
    <2>2. did'.field = "body" /\ did'.lines = trimProse(b)
        BY <1>1
    <2>3. did' # Form!NoPost
        BY <2>2 DEF Form!NoPost
    <2>4. Entity(Tree', Text') = [e EXCEPT !["body"] = trimProse(b)]
        <3>1. Tree # Bad
            BY <1>2
        <3>2. Entity(Tree, Text') = [e EXCEPT !["body"] = RawBody(Text')]
            BY <3>1 DEF Entity
        <3> QED
            BY <1>3, <1>7, <3>2
    <2>5. Form!After(e, did') = [e EXCEPT !["body"] = did'.lines]
        BY <2>2, AfterIs
    <2>6. Entity(base.tree, base.text)' = Entity(base.tree, base.text)
        BY <1>2
    <2> QED
        BY <2>1, <2>2, <2>3, <2>4, <2>5, <2>6 DEF Form!Edit
<1> QED
    BY <1>8, <1>9

LEMMA FormStep == FormInv /\ [Next]_vars => FormInv' /\ [Form!Next]_(Form!avars)
<1> SUFFICES ASSUME FormInv, [Next]_vars PROVE FormInv' /\ [Form!Next]_(Form!avars)
    OBVIOUS
<1>1. CASE FieldEdit
    BY <1>1, FieldEdited DEF Form!Next
<1>2. CASE BodyEdit
    BY <1>2, BodyEdited DEF Form!Next
<1>3. CASE Fails
    <2>1. Tree = Bad /\ did' = NoPost /\ base' = base /\ trees' = trees /\ prose' = prose
        BY <1>3 DEF Fails
    <2>2. Tree' = Tree /\ Text' = Text
        BY <2>1 DEF Tree, Text
    <2>3. FormInv'
        <3>1. Trees' /\ Draft'
            BY <2>1, <2>2 DEF FormInv, Trees, Draft
        <3> QED
            BY <2>1, <3>1 DEF FormInv, NoPost
    <2>4. Entity(Tree, Text) = Form!Unreadable
        BY <2>1 DEF Entity, Form!Unreadable, Unreadable
    <2>5. Form!Fails
        BY <2>1, <2>2, <2>4 DEF Form!Fails, Form!NoPost, NoPost
    <2> QED
        BY <2>3, <2>5 DEF Form!Next
<1>4. CASE Discard
    <2>1. trees' = <<base.tree>> /\ prose' = NoBody /\ did' = NoPost /\ base' = base
        BY <1>4 DEF Discard
    <2>2. base' \in BaseFiles /\ trees' = <<base'.tree>>
        BY <2>1 DEF FormInv
    <2>3. Trees' /\ Draft' /\ Tree' = base.tree
        <3>1. (base \in BaseFiles /\ trees = <<base.tree>>)' => (Trees /\ Draft /\ Tree = base.tree)'
            BY FreshDraft, PTL
        <3> QED
            BY <2>1, <2>2, <3>1
    <2>4. FormInv'
        BY <2>1, <2>2, <2>3 DEF FormInv, NoPost
    <2>5. Text' = base.text
        BY <2>1 DEF Text
    <2>6. Form!Discard
        BY <2>1, <2>3, <2>5 DEF Form!Discard, Form!NoPost, NoPost
    <2> QED
        BY <2>4, <2>6 DEF Form!Next
<1>5. CASE UNCHANGED vars
    <2>1. base' = base /\ trees' = trees /\ prose' = prose /\ did' = did
        BY <1>5 DEF vars
    <2>2. Tree' = Tree /\ Text' = Text
        BY <2>1 DEF Tree, Text
    <2>3. FormInv'
        <3>1. Trees' /\ Draft'
            BY <2>1, <2>2 DEF FormInv, Trees, Draft, Drafted
        <3> QED
            BY <2>1, <3>1 DEF FormInv
    <2>4. UNCHANGED Form!avars
        BY <2>1, <2>2 DEF Form!avars
    <2> QED
        BY <2>3, <2>4
<1> QED
    BY <1>1, <1>2, <1>3, <1>4, <1>5 DEF Next

-----------------------------------------------------------------------------
(***************************************************************************)
(* Every post does to the fields of the entity what its control says: the  *)
(* form implements EntityForm, for every file, vocabulary and number of    *)
(* edits (fields.go fieldChanges, world/edit.go EditFrontmatter).          *)
(***************************************************************************)
THEOREM PromiseAlways == Spec => Promise
<1>1. Init => Form!Init
    <2> SUFFICES ASSUME Init PROVE Form!Init
        OBVIOUS
    <2>1. Tree = base.tree /\ Text = base.text
        BY FreshDraft DEF Init, Text
    <2> QED
        BY <2>1 DEF Init, Form!Init, Form!NoPost, NoPost
<1> QED
    BY <1>1, FormInit, FormStep, PTL DEF Spec, Promise, Form!Spec

LEMMA FormAlways == Spec => []FormInv
    BY FormInit, FormStep, PTL DEF Spec

\* A draft always reads, unless the file it began from has a field of the wrong
\* shape, and then an edit of it may be the last (Draft.Entity).
THEOREM FormTyped == Spec => []TypeOK
<1>1. FormInv => TypeOK
    <2> SUFFICES ASSUME FormInv PROVE TypeOK
        OBVIOUS
    <2>1. base.tree.kind = "map"
        BY FileDrafted DEF FormInv, Whole
    <2>2. Len(trees) \in Nat /\ trees[1] = base.tree /\ Len(trees) <= MaxChanges + 1
        BY DEF FormInv, Trees, Ordered
    <2>3. ASSUME NEW i \in 1..Len(trees)
          PROVE  IsMap(trees[i]) \/ (trees[i] = Bad /\ i = Len(trees) /\ ~Sound(base.tree))
        <3>1. CASE i # Len(trees)
            <4>1. i \in 1..(Len(trees) - 1)
                BY <2>2, <3>1
            <4> QED
                BY <4>1 DEF FormInv, Trees
        <3>2. CASE i = Len(trees)
            <4>1. trees[i] = Tree
                BY <3>2 DEF Tree, Last
            <4> QED
                BY <3>2, <4>1 DEF FormInv, Draft, Drafted, Whole, IsMap
        <3> QED
            BY <3>1, <3>2
    <2> QED
        BY <2>1, <2>2, <2>3 DEF TypeOK, FormInv
<1> QED
    BY <1>1, FormAlways, PTL

\* A field put back as it was is written as the file had it, and what the form does
\* not edit is never touched (world/edit.go EditFrontmatter, fields.go extraFields).
THEOREM UndoAlways == Spec => []UndoLeavesFile
<1>1. FormInv => UndoLeavesFile
    <2> DEFINE now == Entity(Tree, Text)
               then == Entity(base.tree, base.text)
    <2> SUFFICES ASSUME FormInv, now # Unreadable
                 PROVE  /\ \A key \in fieldOrder :
                               now[key] = then[key] /\ ~Unsaid(key, Field(base.tree, key))
                                   => Field(Tree, key) = Field(base.tree, key)
                        /\ \A key \in (DOMAIN base.tree.map \union DOMAIN Tree.map) \ fieldOrder :
                               Field(Tree, key) = Field(base.tree, key)
                        /\ now.body = then.body => Text = base.text
        BY DEF UndoLeavesFile
    <2>1. Tree # Bad
        BY DEF Entity
    <2>2. /\ Whole(base.tree) /\ Whole(Tree)
          /\ \A key : Kept(key, Field(base.tree, key), Field(Tree, key))
        BY <2>1, Reads DEF Drafted
    <2>3. /\ now.name = TextOf(Field(Tree, "name")) /\ now.status = TextOf(Field(Tree, "status"))
          /\ now.visibility = VisibilityOf(Field(Tree, "visibility"))
          /\ \A key \in Lists : now[key] = TextsOf(Field(Tree, key))
          /\ \A key \in Spans : now[key] = SpanOf(Field(Tree, key))
          /\ now.body = RawBody(Text)
        BY <2>2, EntityIs
    <2>4. /\ then.name = TextOf(Field(base.tree, "name")) /\ then.status = TextOf(Field(base.tree, "status"))
          /\ then.visibility = VisibilityOf(Field(base.tree, "visibility"))
          /\ \A key \in Lists : then[key] = TextsOf(Field(base.tree, key))
          /\ \A key \in Spans : then[key] = SpanOf(Field(base.tree, key))
          /\ then.body = RawBody(base.text)
        BY <2>2, EntityIs
    <2> HIDE DEF now, then
    <2>5. ASSUME NEW key \in fieldOrder, now[key] = then[key], ~Unsaid(key, Field(base.tree, key))
          PROVE  Field(Tree, key) = Field(base.tree, key)
        <3> DEFINE n == Field(Tree, key)
                   b == Field(base.tree, key)
        <3>1. Node(n) /\ Node(b) /\ Kept(key, b, n)
            BY <2>2, FieldIs
        <3>2. b # Null
            BY <2>5 DEF Unsaid
        <3>3. b.kind = "str" /\ n.kind = "str" /\ b.str = n.str => n = b
            BY <3>1, Kinds DEF Node, WellMade, Parsed
        <3>4. CASE key = "name"
            <4>1. TextOf(n) = TextOf(b) /\ b.kind = "str"
                BY <2>3, <2>4, <2>5, <3>4 DEF Unsaid
            <4> HIDE DEF n, b
            <4>2. n = b \/ n.kind = "str"
                BY <3>1, <3>4 DEF Kept
            <4>3. n = b
                BY <3>3, <4>1, <4>2 DEF TextOf
            <4> QED
                BY <4>3 DEF n, b
        <3>5. CASE key = "status"
            <4>1. TextOf(n) = TextOf(b)
                BY <2>3, <2>4, <2>5, <3>5
            <4> HIDE DEF n, b
            <4>2. n = b \/ (n.kind = "str" /\ n.str \in Statuses)
                BY <3>1, <3>5 DEF Kept
            <4>3. n = b
                BY <3>3, <4>1, <4>2, StatusesOK DEF TextOf, NoValue
            <4> QED
                BY <4>3 DEF n, b
        <3>6. CASE key = "visibility"
            <4>1. VisibilityOf(n) = VisibilityOf(b)
                BY <2>3, <2>4, <2>5, <3>6
            <4> HIDE DEF n, b
            <4>2. n = b \/ \E k \in VisKinds : \E a : n = Visibility(k, a)
                BY <3>1, <3>6 DEF Kept
            <4>3. ASSUME NEW k \in VisKinds, NEW a, n = Visibility(k, a) PROVE n = b
                <5>1. VisibilityOf(n) = n.vis /\ n.vis.kind = k /\ n.vis.act = a
                    BY <4>3, Kinds DEF VisibilityOf
                <5>2. b.kind = "vis" /\ VisibilityOf(b) = b.vis
                    <6>1. VisibilityOf(b).kind # NoValue
                        BY <4>1, <5>1 DEF VisKinds, NoValue
                    <6> QED
                        BY <6>1 DEF VisibilityOf
                <5>3. b = Visibility(b.vis.kind, b.vis.act)
                    BY <3>1, <5>2, Kinds DEF Node, WellMade
                <5> QED
                    BY <4>1, <4>3, <5>1, <5>2, <5>3
            <4> QED
                BY <4>2, <4>3 DEF n, b
        <3>7. CASE key \in Lists
            <4>1. TextsOf(n) = TextsOf(b) /\ ~IsMap(b) /\ ~(IsList(b) /\ b.list = <<>>)
                BY <2>3, <2>4, <2>5, <3>7 DEF Unsaid
            <4> HIDE DEF n, b
            <4>2. ListKept(b, n)
                BY <3>1, <3>7 DEF Kept
            <4>3. n = b
                BY <3>1, <3>2, <4>1, <4>2, ListBack
            <4> QED
                BY <4>3 DEF n, b
        <3>8. CASE key \in Spans
            <4>1. SpanOf(n) = SpanOf(b) /\ (IsMap(b) => DOMAIN b.map # {} /\ SaysAll(b))
                BY <2>3, <2>4, <2>5, <3>8 DEF Unsaid
            <4> HIDE DEF n, b
            <4>2. SpanStepped(b, n)
                BY <3>1, <3>8 DEF Kept
            <4>3. n = b
                BY <3>1, <3>2, <4>1, <4>2, SpanBack
            <4> QED
                BY <4>3 DEF n, b
        <3> QED
            BY <3>4, <3>5, <3>6, <3>7, <3>8 DEF fieldOrder, Lists, Spans
    <2>6. \A key : key \notin fieldOrder => Field(Tree, key) = Field(base.tree, key)
        BY <2>2 DEF Kept
    <2>7. now.body = then.body => Text = base.text
        <3>1. CASE prose = NoBody
            BY <3>1 DEF Text
        <3>2. CASE prose # NoBody
            <4>1. Text = ReplaceBody(base.text, prose) /\ Ordered(prose) /\ Ordered(base.text)
                BY <3>2, FileDrafted, BoundsOK DEF Text, FormInv
            <4>2. RawBody(ReplaceBody(base.text, prose)) = RawBody(base.text)
                      => ReplaceBody(base.text, prose) = base.text
                BY <4>1, ProseRead
            <4> QED
                BY <2>3, <2>4, <4>1, <4>2
        <3> QED
            BY <3>1, <3>2
    <2> QED
        BY <2>5, <2>6, <2>7
<1> QED
    BY <1>1, FormAlways, PTL
=============================================================================
