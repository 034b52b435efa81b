----------------------------- MODULE FieldsForm -----------------------------
(***************************************************************************)
(* The fields form of an entity (internal/editor/fields.go): a post of one *)
(* control becomes Changes to the file's frontmatter, worked out against   *)
(* the draft as it is now, from a page that may show the draft as it was   *)
(* any number of edits ago.  A draft is the file it began from and its     *)
(* Changes, which here are the frontmatters they lead through.             *)
(***************************************************************************)
EXTENDS Frontmatter, FiniteSets

CONSTANTS
    Names,         \* what the name box can hold
    Items,         \* what an alias or outcome box can hold
    Statuses,      \* statuses
    Acts,          \* cur.idx.Vocabulary.Acts: the project's acts, in order
    Eras,          \* cur.idx.Vocabulary.Eras
    YearOf,        \* the texts strconv.Atoi reads, with what it reads
    Texts,         \* what a year box can hold
    Conditions,    \* a decision present with an outcome of it: one item of valid_in
    Proses,        \* what the prose box can hold
    BaseFiles,     \* files the form may be opened on
    MaxChanges     \* bound: changes in one draft

ASSUME ActsOK == IsInjective(Acts)
ASSUME StatusesOK == "" \notin Statuses     \* Status.Valid
ASSUME YearsOK == "" \notin DOMAIN YearOf   \* strconv.Atoi

VARIABLES
    base,       \* the entity's file when the draft began (Draft.Base)
    trees,      \* the frontmatter after none, one, two... of Draft.Changes
    prose,      \* Draft.Body, or NoBody
    did         \* the post just answered

vars == <<base, trees, prose, did>>

NoBody == <<"no body">>
NoValue == ""
Years == {"earliest", "latest"}
NoYear == [none |-> "none"]
Year(n) == [year |-> n]
NoSpan == [era |-> NoValue, earliest |-> NoYear, latest |-> NoYear, precision |-> NoValue]
Unreadable == [unreadable |-> TRUE]
NoPost == [field |-> "none"]

-----------------------------------------------------------------------------
(***************************************************************************)
(* Reading a file as an entity (world.Parse): a key that is missing, null  *)
(* or of the wrong shape leaves its field empty.                           *)
(***************************************************************************)
Field(tree, key) == IF IsMap(tree) THEN Lookup(tree, key) ELSE Absent

TextOf(n) == IF n.kind = "str" THEN n.str ELSE NoValue
TextsOf(n) == IF IsList(n) THEN [i \in 1..Len(n.list) |-> TextOf(n.list[i])] ELSE <<>>
YearIn(n) == IF n.kind = "num" THEN Year(n.num) ELSE NoYear

\* Visibility.UnmarshalYAML: a text that is no visibility leaves the kind empty.
Visibility(kind, act) == [kind |-> "vis", vis |-> [kind |-> kind, act |-> act]]
VisibilityOf(n) == IF n.kind = "vis" THEN n.vis ELSE [kind |-> NoValue, act |-> NoValue]

SpanOf(n) == [era |-> TextOf(Field(n, "era")), earliest |-> YearIn(Field(n, "earliest")),
              latest |-> YearIn(Field(n, "latest")), precision |-> TextOf(Field(n, "precision"))]

\* The files there are: what the parser makes of a mapping of fields and of the
\* lists and mappings in it.  A visibility that names an act is a spoiler.
Inside(n) == CASE IsList(n) -> Range(n.list) [] IsMap(n) -> {n.map[k] : k \in DOMAIN n.map} [] OTHER -> {}
File(f) ==
    /\ f.tree.kind = "map" /\ Parsed(f.tree)
    /\ \A n \in Inside(f.tree) :
           /\ Parsed(n) /\ \A part \in Inside(n) : Parsed(part)
           /\ n.kind = "vis" => n = Visibility(n.vis.kind, n.vis.act)
           /\ n.kind = "vis" /\ n.vis.act # NoValue => n.vis.kind = "spoiler"
           /\ IsList(n) => Len(n.list) + MaxChanges <= Len(Numerals)
    /\ Ordered(f.text)
ASSUME FilesOK == \A f \in BaseFiles : File(f)
ASSUME BoundsOK ==
    /\ MaxChanges \in Nat /\ MaxChanges <= Len(Numerals)
    /\ \A sub \in Years \union {"era", "precision"} : ~IsIndex(sub)
    /\ \A b \in Proses : Ordered(b) /\ b # NoBody

\* The shape each field has in a file the parser finds nothing wrong with.
Lists == {"aliases", "outcomes", "valid_in"}
Spans == {"lifespan", "date"}
Sound(tree) ==
    \A key \in DOMAIN tree.map :
        LET n == tree.map[key]
        IN  /\ key \in Lists => IsList(n) \/ n = Null
            /\ key \in Spans => IsMap(n) \/ n = Null

\* Draft.Bytes and Draft.Entity.
Tree == Last(trees)
Text == IF prose = NoBody THEN base.text ELSE ReplaceBody(base.text, prose)

Entity(tree, tail) ==
    IF tree = Bad THEN Unreadable
    ELSE [name |-> TextOf(Field(tree, "name")),
          aliases |-> TextsOf(Field(tree, "aliases")),
          outcomes |-> TextsOf(Field(tree, "outcomes")),
          status |-> TextOf(Field(tree, "status")),
          visibility |-> VisibilityOf(Field(tree, "visibility")),
          lifespan |-> SpanOf(Field(tree, "lifespan")),
          date |-> SpanOf(Field(tree, "date")),
          valid_in |-> TextsOf(Field(tree, "valid_in")),
          body |-> RawBody(tail),
          sound |-> Sound(tree)]

-----------------------------------------------------------------------------
(***************************************************************************)
(* The form: its rows, and what their controls post (buildFields).         *)
(***************************************************************************)
fieldOrder == {"name", "aliases", "status", "visibility", "lifespan", "date", "outcomes", "valid_in"}
typedFields == [lifespan |-> "character", date |-> "event", outcomes |-> "decision"]
handledKeys == {"id", "type", "relations", "beliefs", "asserts"}

fieldApplies(field, type) ==
    /\ field \in fieldOrder
    /\ field \in DOMAIN typedFields => typedFields[field] = type

TypeOf(tree) == TextOf(Field(tree, "type"))

\* extraFields: shown read-only.
extraFields(tree) ==
    {key \in DOMAIN tree.map :
        key \notin handledKeys /\ ~fieldApplies(key, TypeOf(tree))}

Post(field, op, value) == [field |-> field, op |-> op, value |-> value]

ItemPosts(field, items) ==
    {Post(field, "add", v) : v \in Items} \union {Post(field, "remove", v) : v \in Range(items)}

\* The act dropdown is there for a spoiler, with the act it has in front when
\* the project does not know it.
VisibilityPosts(vis) ==
    {Post("visibility", "kind", k) : k \in {"public", "spoiler", "internal"}}
        \union (IF vis.kind = "spoiler"
                THEN {Post("visibility", "act", a) : a \in Range(Acts) \union {vis.act}} ELSE {})

\* intervalRowOf: an era the project does not know is listed as well.
SpanPosts(field, span) ==
    {Post(field, "era", v) : v \in Eras \union {NoValue, span.era}}
        \union {Post(field, sub, v) : sub \in Years, v \in Texts}
        \union {Post(field, "precision", p) : p \in {"exact", "approximate"}}

\* conditionChips and condPicker.
CondPosts(conds) ==
    {Post("valid_in", "add", c) : c \in Conditions}
        \union {Post("valid_in", "remove", c) : c \in Range(conds)}

Offers(tree) ==
    LET ent == Entity(tree, base.text)
        rows == {f \in fieldOrder : fieldApplies(f, TypeOf(tree))}
        of == [name |-> {Post("name", "set", v) : v \in Names},
               aliases |-> ItemPosts("aliases", ent.aliases),
               outcomes |-> ItemPosts("outcomes", ent.outcomes),
               status |-> {Post("status", "set", v) : v \in Statuses},
               visibility |-> VisibilityPosts(ent.visibility),
               lifespan |-> SpanPosts("lifespan", ent.lifespan),
               date |-> SpanPosts("date", ent.date),
               valid_in |-> CondPosts(ent.valid_in)]
    IN  UNION {of[f] : f \in rows}

-----------------------------------------------------------------------------
(***************************************************************************)
(* fieldChanges: what one post changes in the entity as the draft has it;  *)
(* nothing when it says what is there, and nothing when it is refused.     *)
(***************************************************************************)
NameChange(ent, v) == IF v = ent.name THEN <<>> ELSE <<SetTo(<<"name">>, Str(v))>>

IndexOf(items, v) == Numerals[CHOOSE i \in 1..Len(items) :
                                  items[i] = v /\ \A j \in 1..(i - 1) : items[j] # v]

\* Wrong: the first item, whatever it is.
ItemGoneFirst(field, items, v) ==
    IF Len(items) = 1 THEN <<Deleted(<<field>>)>> ELSE <<Deleted(<<field, Numerals[1]>>)>>

\* By value, and the key itself with the last item.
ItemGone(field, items, v) ==
    IF Len(items) = 1 THEN <<Deleted(<<field>>)>>
    ELSE <<Deleted(<<field, IndexOf(items, v)>>)>>

ItemChange(field, items, p) ==
    CASE p.op = "add" /\ p.value \notin Range(items) \union {NoValue} ->
            <<SetTo(<<field, appendSegment>>, Str(p.value))>>
      [] p.op = "remove" /\ p.value \in Range(items) -> ItemGone(field, items, p.value)
      [] OTHER -> <<>>

StatusChange(ent, v) ==
    IF v \notin Statuses \/ v = ent.status THEN <<>> ELSE <<SetTo(<<"status">>, Str(v))>>

\* visibilityChange: a spoiler keeps its act, or takes the project's first.
Wanted(vis, p) ==
    CASE p.op = "act" -> [kind |-> "spoiler", act |-> p.value]
      [] p.op = "kind" /\ p.value = "spoiler" /\ vis.act # NoValue -> [kind |-> "spoiler", act |-> vis.act]
      [] p.op = "kind" /\ p.value = "spoiler" /\ vis.act = NoValue -> [kind |-> "spoiler", act |-> Acts[1]]
      [] OTHER -> [kind |-> p.value, act |-> NoValue]

VisibilityChange(vis, p) ==
    IF \/ p.op = "act" /\ p.value \notin Range(Acts)
       \/ p.op = "kind" /\ p.value = "spoiler" /\ vis.act = NoValue /\ Acts = <<>>
       \/ Wanted(vis, p) = vis
    THEN <<>>
    ELSE <<SetTo(<<"visibility">>, Visibility(Wanted(vis, p).kind, Wanted(vis, p).act))>>

\* intervalChange: the span with one part replaced, or refused.
Toggled(p, span) == IF p.value = span.precision THEN NoValue ELSE p.value
NextSpan(span, p) ==
    CASE p.op = "era" /\ p.value \in Eras \union {NoValue} -> [span EXCEPT !.era = p.value]
      [] p.op \in Years /\ p.value = NoValue -> [span EXCEPT ![p.op] = NoYear]
      [] p.op \in Years /\ p.value \in DOMAIN YearOf ->
            [span EXCEPT ![p.op] = Year(YearOf[p.value])]
      [] p.op = "precision" -> [span EXCEPT !.precision = Toggled(p, span)]
      [] OTHER -> span

Says(span, sub) == span[sub] # (IF sub \in Years THEN NoYear ELSE NoValue)
SaysAll(n) == \A sub \in DOMAIN n.map : sub \in DOMAIN NoSpan /\ Says(SpanOf(n), sub)
PartNode(span, sub) == IF sub \in Years THEN Num(span[sub].year) ELSE Str(span[sub])

\* Wrong: a span that says nothing any more keeps its key.
SpanPartsOnly(field, sub, next) ==
    IF Says(next, sub) THEN <<SetTo(<<field, sub>>, PartNode(next, sub))>>
    ELSE <<Deleted(<<field, sub>>)>>

SpanTo(field, sub, next) ==
    CASE next = NoSpan -> <<Deleted(<<field>>)>>
      [] next # NoSpan /\ ~Says(next, sub) -> <<Deleted(<<field, sub>>)>>
      [] Says(next, sub) -> <<SetTo(<<field, sub>>, PartNode(next, sub))>>

IntervalChange(field, span, p) ==
    IF NextSpan(span, p) = span THEN <<>> ELSE SpanTo(field, p.op, NextSpan(span, p))

FieldChanges(ent, p) ==
    CASE p.field = "name" -> NameChange(ent, p.value)
      [] p.field \in Lists -> ItemChange(p.field, ent[p.field], p)
      [] p.field = "status" -> StatusChange(ent, p.value)
      [] p.field = "visibility" -> VisibilityChange(ent.visibility, p)
      [] p.field \in Spans -> IntervalChange(p.field, ent[p.field], p)

-----------------------------------------------------------------------------
Init ==
    /\ base \in BaseFiles
    /\ trees = <<base.tree>> /\ prose = NoBody /\ did = NoPost

\* fieldEdit, and condEdit on the entity's own list.  The page was rendered
\* from the draft as it was after some of its changes.
FieldEdit ==
    /\ Tree # Bad /\ Len(trees) <= MaxChanges
    /\ \E p \in UNION {Offers(tree) : tree \in Range(trees)} :
           /\ fieldApplies(p.field, TypeOf(Tree))
           /\ LET made == FieldChanges(Entity(Tree, Text), p)
              IN  trees' = IF made = <<>> THEN trees
                           ELSE Append(trees, EditFrontmatter(Tree, made))
           /\ did' = p
    /\ UNCHANGED <<base, prose>>

\* bodyEdit compares with the file, not with the draft.
BodyEdit ==
    /\ Tree # Bad
    /\ \E b \in Proses :
           /\ prose' = IF ReplaceBody(base.text, b) = base.text THEN NoBody ELSE b
           /\ did' = [field |-> "body", lines |-> trimProse(b)]
    /\ UNCHANGED <<base, trees>>

\* Every other request of an entity whose draft does not read.
Fails == Tree = Bad /\ did' = NoPost /\ UNCHANGED <<base, trees, prose>>

Dirty == Len(trees) > 1 \/ prose # NoBody

\* EntitySave has the save, which is the other way a draft ends.
Discard ==
    /\ Dirty
    /\ trees' = <<base.tree>> /\ prose' = NoBody /\ did' = NoPost
    /\ UNCHANGED base

Next == FieldEdit \/ BodyEdit \/ Fails \/ Discard

Spec == Init /\ [][Next]_vars

-----------------------------------------------------------------------------
TypeOK ==
    /\ base.tree.kind = "map"
    /\ trees[1] = base.tree /\ Len(trees) <= MaxChanges + 1
    /\ \A i \in 1..Len(trees) : IsMap(trees[i]) \/ (trees[i] = Bad /\ i = Len(trees) /\ ~Sound(base.tree))
    /\ prose \in Proses \union {NoBody}
    /\ did.field \in fieldOrder \union {"none", "body"}

\* Every post does to the fields what its control says, whatever page it came
\* from and however the file writes its fields (null, missing, in part), and
\* a draft of a file that reads cleanly always reads: the promise of EntityForm.
Form == INSTANCE EntityForm WITH
            entity <- Entity(Tree, Text), saved <- Entity(base.tree, base.text)
Promise == Form!Spec

\* Putting a field back as it was leaves nothing of it to write: its key is as
\* the file has it, and no empty list or mapping is left where there was none,
\* so a hand-written file keeps its formatting (EditFrontmatter: changed = false).
\* What other panels own and what this version does not know is never touched
\* (extraFields: "keeps them untouched").
\* That holds for a field the form can write as it was.  It cannot write null, an
\* empty collection, a name that is no text, a mapping in place of a list, and what
\* a span has beside what it says, which goes when the span says nothing any more.
Unsaid(key, n) ==
    \/ n = Null
    \/ IsList(n) /\ n.list = <<>>
    \/ key = "name" /\ n.kind # "str"
    \/ key \in Lists /\ IsMap(n)
    \/ key \in Spans /\ IsMap(n) /\ (DOMAIN n.map = {} \/ ~SaysAll(n))
UndoLeavesFile ==
    LET then == Entity(base.tree, base.text)
        now == Entity(Tree, Text)
    IN  now # Unreadable =>
            /\ \A key \in fieldOrder :
                   now[key] = then[key] /\ ~Unsaid(key, Field(base.tree, key))
                       => Field(Tree, key) = Field(base.tree, key)
            /\ \A key \in (DOMAIN base.tree.map \union DOMAIN Tree.map) \ fieldOrder :
                   Field(Tree, key) = Field(base.tree, key)
            /\ now.body = then.body => Text = base.text
=============================================================================
