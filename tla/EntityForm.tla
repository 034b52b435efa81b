----------------------------- MODULE EntityForm -----------------------------
(***************************************************************************)
(* What the fields form promises a writer: a record of an entity's fields, *)
(* edited one field at a time by what each control says, and discarded     *)
(* whole.  It knows nothing of files, paths, drafts and lists of changes;  *)
(* FieldsForm implements it.                                               *)
(***************************************************************************)
EXTENDS Naturals, Sequences, SequencesExt

CONSTANTS
    Statuses,     \* the statuses there are
    Acts,         \* the project's acts, in order
    Eras,         \* the project's eras
    YearOf        \* the texts that are whole numbers, with their numbers

VARIABLES
    entity,   \* the fields as the form shows them, or Unreadable
    saved,    \* the fields as the file has them
    did       \* the post of a control just answered

avars == <<entity, saved, did>>

NoValue == ""
NoYear == [none |-> "none"]
Year(n) == [year |-> n]
NoSpan == [era |-> NoValue, earliest |-> NoYear, latest |-> NoYear, precision |-> NoValue]
Unreadable == [unreadable |-> TRUE]
NoPost == [field |-> "none"]

-----------------------------------------------------------------------------
(***************************************************************************)
(* What one post means for a field's value.                                *)
(***************************************************************************)
ItemsAfter(items, p) ==
    CASE p.op = "add" /\ p.value \notin Range(items) \union {NoValue} -> Append(items, p.value)
      [] p.op = "remove" -> RemoveFirst(items, p.value)
      [] OTHER -> items

VisibilityAfter(vis, p) ==
    CASE p.op = "act" /\ p.value \in Range(Acts) -> [kind |-> "spoiler", act |-> p.value]
      [] p.op = "kind" /\ p.value \in {"public", "internal"} -> [kind |-> p.value, act |-> NoValue]
      [] p.op = "kind" /\ p.value = "spoiler" /\ vis.act = NoValue /\ Acts # <<>> ->
            [kind |-> "spoiler", act |-> Acts[1]]
      [] OTHER -> vis

\* An empty value clears a part of the span; clicking the precision that is on
\* clears it.
SpanAfter(span, p) ==
    CASE p.op = "era" /\ p.value \in Eras \union {NoValue} -> [span EXCEPT !.era = p.value]
      [] p.op \in {"earliest", "latest"} /\ p.value = NoValue -> [span EXCEPT ![p.op] = NoYear]
      [] p.op \in {"earliest", "latest"} /\ p.value \in DOMAIN YearOf ->
            [span EXCEPT ![p.op] = Year(YearOf[p.value])]
      [] p.op = "precision" ->
            [span EXCEPT !.precision = IF p.value = span.precision THEN NoValue ELSE p.value]
      [] OTHER -> span

After(e, p) ==
    CASE p.field = "name" -> [e EXCEPT !.name = p.value]
      [] p.field \in {"aliases", "outcomes", "valid_in"} -> [e EXCEPT ![p.field] = ItemsAfter(@, p)]
      [] p.field = "status" -> [e EXCEPT !.status = IF p.value \in Statuses THEN p.value ELSE @]
      [] p.field = "visibility" -> [e EXCEPT !.visibility = VisibilityAfter(@, p)]
      [] p.field \in {"lifespan", "date"} -> [e EXCEPT ![p.field] = SpanAfter(@, p)]
      [] p.field = "body" -> [e EXCEPT !.body = p.lines]

-----------------------------------------------------------------------------
\* A file whose fields all have the shape their field has stays readable.  In one
\* that has not, an edit may be lost or make the file unreadable.
WellFormed == saved # Unreadable /\ saved.sound

Edit ==
    /\ entity # Unreadable
    /\ did' # NoPost
    /\ \/ entity' = After(entity, did')
       \/ ~WellFormed /\ entity' \in {entity, Unreadable}
    /\ UNCHANGED saved

Fails == entity = Unreadable /\ did' = NoPost /\ UNCHANGED <<entity, saved>>

Discard == entity' = saved /\ did' = NoPost /\ UNCHANGED saved

Init == entity = saved /\ did = NoPost

Next == Edit \/ Fails \/ Discard

Spec == Init /\ [][Next]_avars
=============================================================================
