--------------------------------- MODULE Desk ---------------------------------
(***************************************************************************)
(* What surrounds the drafts of an editor: the tabs, which live in the     *)
(* address of the page (internal/editor/tabs.go, shell.go), the two-step   *)
(* Ctrl+C (cmd/lorekeep/edit.go), and the key bindings, one user's file    *)
(* that every open editor reads and writes (internal/editor/settings.go,   *)
(* keys.go).  A page's links are drawn when it is loaded; the drafts       *)
(* behind it change until it is loaded again.                              *)
(***************************************************************************)
EXTENDS Integers, Sequences, SequencesExt

CONSTANTS
    Entities,   \* entities that can have a tab
    Editors,    \* editors open on one user's settings
    Actions,    \* bindable actions
    Typed,      \* combinations as a form sends them
    Norm,       \* the one way a combination is written; "" for no shortcut
    Default,    \* each action's first binding
    Reserved,   \* combinations the browser keeps
    MaxOps,     \* bound: things done
    Lists       \* lists of ids that an address may hold

ASSUME KeysOK ==
    /\ Norm \in [Typed -> STRING \ {"none"}]
    /\ Default \in [Actions -> STRING]
    /\ \A a, b \in Actions : Default[a] = Default[b] => a = b
    /\ \A a \in Actions : Default[a] \notin Reserved

\* url.Values: an address holds lists of ids.
ASSUME ListsOK == \A list \in Lists : list \in Seq(Range(list))

VARIABLES
    tabs,    \* the address of the page: the open tabs and the active one
    drawn,   \* the tabs the structure panel's links were drawn with, and
             \* those that had unsaved changes then
    panel,   \* the same for the links of the relations panel
    dirty,   \* entities with unsaved changes
    stage,   \* how far the editor is from stopping
    told,    \* entities the Ctrl+C warning named
    late,    \* entities edited after it, or while the server shuts down
    lost,    \* entities whose changes went with the process
    file,    \* the settings file: the bindings changed from their default
    mem,     \* each editor's copy
    busy,    \* whether an editor is between refresh and save
    read,    \* history: the file as each editor last read it
    asked,   \* history: the bindings asked of each editor since then
    ops      \* things done so far

desk == <<tabs, drawn, panel, dirty>>
quit == <<stage, told, late, lost>>
keys == <<file, mem, busy, read, asked>>
vars == <<desk, quit, keys, ops>>

None == "none"
Op == ops < MaxOps /\ ops' = ops + 1

-----------------------------------------------------------------------------
(* Tabs: a list of ids and the active one. *)

Place(ids, id) == SelectInSeq(ids, LAMBDA x : x = id)
Tabs(ids, active) == [ids |-> ids, active |-> active]

\* parseTabs: each id once, the active one added at the end.
parseTabs(list, active) ==
    LET firsts == {i \in DOMAIN list : \A k \in 1..(i - 1) : list[k] # list[i]}
        nth(n) == CHOOSE i \in firsts : Cardinality({j \in firsts : j <= i}) = n
        seen == [n \in 1..Cardinality(firsts) |-> list[nth(n)]]
    IN Tabs(IF active = None \/ Contains(seen, active) THEN seen ELSE Append(seen, active),
            active)

\* The page that Tabs.URL leads to.
URL(t) ==
    IF t.ids = <<>> THEN Tabs(<<>>, None)
    ELSE IF Contains(t.ids, t.active) THEN t ELSE Tabs(t.ids, t.ids[1])

Background(t, id) ==
    IF Contains(t.ids, id) THEN t
    ELSE Tabs(InsertAt(t.ids, Place(t.ids, t.active) + 1, id), t.active)

Add(t, id) == Tabs(Background(t, id).ids, id)

Replaced(t, id) ==
    IF Contains(t.ids, id) THEN Tabs(t.ids, id)
    ELSE IF ~Contains(t.ids, t.active) THEN Tabs(Append(t.ids, id), id)
    ELSE Tabs(ReplaceAt(t.ids, Place(t.ids, t.active), id), id)

\* Wrong: also a tab with unsaved changes makes way.
OpenOver(t, keep, id) == Replaced(t, id)

\* keep are the tabs with unsaved changes.
Open(t, keep, id) ==
    IF t.active \in keep /\ ~Contains(t.ids, id) THEN Add(t, id) ELSE Replaced(t, id)

Close(t, id) ==
    LET i == Place(t.ids, id)
        rest == RemoveAt(t.ids, i)
    IN Tabs(rest, IF t.active # id THEN t.active
                  ELSE IF rest = <<>> THEN None
                  ELSE rest[IF i > 1 THEN i - 1 ELSE 1])

Step(t, delta) ==
    Tabs(t.ids, t.ids[((Place(t.ids, t.active) - 1 + delta + Len(t.ids)) % Len(t.ids)) + 1])

\* Links drawn for the tabs t while the entities in d have unsaved changes.
Links(t, d) == [at |-> t, keep |-> d]

\* The browser loads the page of t.
Load(t) ==
    /\ Op
    /\ tabs' = URL(t)
    /\ drawn' = Links(URL(t), dirty)
    /\ panel' = Links(URL(t), dirty)
    /\ UNCHANGED <<dirty, quit, keys>>

Up == stage \in {"running", "warned"}

Click(id) == Up /\ \E l \in {drawn, panel} : Load(Open(l.at, l.keep, id))
CtrlClick(id) == Up /\ \E l \in {drawn, panel} : Load(Add(l.at, id))
ShowTab(id) == Up /\ Contains(tabs.ids, id) /\ Load(Tabs(tabs.ids, id))
CloseTab(id) == Up /\ Contains(tabs.ids, id) /\ Load(Close(tabs, id))
StepTab(delta) == Up /\ Len(tabs.ids) > 1 /\ Load(Step(tabs, delta))

\* An address from the history or typed by hand, or the page reloaded.
Address(list, active) == Up /\ Load(parseTabs(list, active))

\* Requests still running while the server shuts down are answered.
Alive == stage # "stopped"

Changes(id) ==
    /\ dirty' = dirty \cup {id}
    /\ late' = IF stage = "running" THEN late ELSE late \cup {id}

\* An edit of the prose or of a field; the tab strip is drawn again, and the
\* links of the panels are not.
Edit ==
    /\ Op /\ Alive /\ tabs.active # None
    /\ Changes(tabs.active)
    /\ UNCHANGED <<tabs, drawn, panel, stage, told, lost, keys>>

\* An edit in the relations panel, which is drawn again.
PanelEdit ==
    /\ Op /\ Alive /\ tabs.active # None
    /\ panel' = Links(tabs, dirty)    \* tabsFrom comes before the edit
    /\ Changes(tabs.active)
    /\ UNCHANGED <<tabs, drawn, stage, told, lost, keys>>

\* A created entity opens in a background tab: the address, the strip and
\* the relations panel change with it.
CreateLinked(id) ==
    /\ Op /\ Up /\ tabs.active # None /\ ~Contains(tabs.ids, id)
    /\ tabs' = Background(tabs, id)
    /\ panel' = Links(Background(tabs, id), dirty)
    /\ Changes(tabs.active)
    /\ UNCHANGED <<drawn, stage, told, lost, keys>>

Save ==
    /\ Op /\ Alive /\ tabs.active \in dirty
    /\ dirty' = dirty \ {tabs.active}
    /\ UNCHANGED <<tabs, drawn, panel, quit, keys>>

\* Discard drops the draft and has the page loaded again.
Discard ==
    /\ Op /\ Alive /\ tabs.active \in dirty
    /\ dirty' = dirty \ {tabs.active}
    /\ drawn' = Links(tabs, dirty')
    /\ panel' = Links(tabs, dirty')
    /\ UNCHANGED <<tabs, quit, keys>>

-----------------------------------------------------------------------------
(* Ctrl+C: the first names what is unsaved, the second stops. *)

\* Wrong: only the tab in front counts.
WarnsOfOpenTab == stage = "running" /\ tabs.active \in dirty
Warns == stage = "running" /\ dirty # {}

Interrupt ==
    /\ Op /\ Up
    /\ IF Warns
       THEN stage' = "warned" /\ told' = dirty
       ELSE stage' = "stopping" /\ UNCHANGED told
    /\ UNCHANGED <<desk, late, lost, keys>>

Stop ==
    /\ stage = "stopping"
    /\ stage' = "stopped"
    /\ lost' = dirty
    /\ UNCHANGED <<desk, told, late, keys, ops>>

-----------------------------------------------------------------------------
(* Settings: reread before a change, written as a whole. *)

Bound(s, a) == IF s[a] = None THEN Default[a] ELSE s[a]

\* refresh: the file as it is, or what is in memory if it cannot be read.
\* Wrong: the file is not read again.
InMemory(e, ok) == mem[e]
Refreshed(e, ok) == IF ok THEN file ELSE mem[e]

\* Wrong: combinations are compared as they were typed.
ClashTyped(s, a, combo) == \E b \in Actions \ {a} : Bound(s, b) = combo
Clash(s, a, combo) == \E b \in Actions \ {a} : Bound(s, b) = Norm[combo]

With(s, a, combo) ==
    [s EXCEPT ![a] = IF Norm[combo] = Default[a] THEN None ELSE Norm[combo]]

\* The editor's own lock keeps its changes apart, nothing those of two editors.
Change(e, what, s) ==
    /\ busy[e] = None
    /\ mem' = [mem EXCEPT ![e] = s]
    /\ busy' = [busy EXCEPT ![e] = what]
    /\ UNCHANGED <<file, desk, quit>>

\* What e was asked for is on top of what it has just read, or of its memory.
Asks(e, what, ok) ==
    /\ read' = IF ok THEN [read EXCEPT ![e] = file] ELSE read
    /\ asked' = [asked EXCEPT ![e] = IF ok THEN what ELSE @ \cup what]

Allowed(combo) == Norm[combo] # "" /\ Norm[combo] \notin Reserved

Bind(e, a, combo) == \E ok \in BOOLEAN :
    LET s == Refreshed(e, ok)
    IN  /\ Op /\ Allowed(combo)
        /\ \/ Clash(s, a, combo) /\ Change(e, None, s) /\ Asks(e, {}, ok)
           \/ ~Clash(s, a, combo) /\ Change(e, a, With(s, a, combo)) /\ Asks(e, {a}, ok)

ResetKeys(e) == \E ok \in BOOLEAN :
    /\ Op
    /\ Change(e, "reset", [a \in Actions |-> None]) /\ Asks(e, Actions, ok)

SaveKeys(e) ==
    /\ busy[e] # None
    /\ file' = mem[e]
    /\ busy' = [busy EXCEPT ![e] = None]
    /\ UNCHANGED <<desk, quit, mem, read, asked, ops>>

\* Writing or renaming fails: the file stays whole and memory keeps the change.
SaveKeysFails(e) ==
    /\ busy[e] # None
    /\ busy' = [busy EXCEPT ![e] = None]
    /\ UNCHANGED <<desk, quit, file, mem, read, asked, ops>>

\* An editor is closed, at any moment, and another opened.
Reopen(e) ==
    /\ Op
    /\ mem' = [mem EXCEPT ![e] = file]
    /\ busy' = [busy EXCEPT ![e] = None]
    /\ Asks(e, {}, TRUE)
    /\ UNCHANGED <<desk, quit, file>>

-----------------------------------------------------------------------------
Init ==
    /\ tabs = Tabs(<<>>, None)
    /\ drawn = Links(tabs, {}) /\ panel = Links(tabs, {})
    /\ dirty = {}
    /\ stage = "running" /\ told = {} /\ late = {} /\ lost = {}
    /\ file = [a \in Actions |-> None]
    /\ mem = [e \in Editors |-> file]
    /\ busy = [e \in Editors |-> None]
    /\ read = mem /\ asked = [e \in Editors |-> {}]
    /\ ops = 0

Next ==
    \/ \E id \in Entities :
        Click(id) \/ CtrlClick(id) \/ ShowTab(id) \/ CloseTab(id) \/ CreateLinked(id)
    \/ \E delta \in {-1, 1} : StepTab(delta)
    \/ \E list \in Lists, id \in Entities : Address(list, id)
    \/ Edit \/ PanelEdit \/ Save \/ Discard \/ Interrupt \/ Stop
    \/ \E e \in Editors :
        \/ \E a \in Actions, combo \in Typed : Bind(e, a, combo)
        \/ ResetKeys(e) \/ SaveKeys(e) \/ SaveKeysFails(e) \/ Reopen(e)

Spec == Init /\ [][Next]_vars

-----------------------------------------------------------------------------
(***************************************************************************)
(* A tab whose unsaved changes were there when the links were drawn stays  *)
(* open until its writer closes it or goes to another address, through any *)
(* sequence of clicks, created entities and steps (tabs.go:69-71).         *)
(***************************************************************************)
KeptBy(links, id) == id \in links.keep /\ Contains(links.at.ids, id)

UnsavedTabKept ==
    [][\A id \in Entities :
          KeptBy(drawn, id) /\ KeptBy(panel, id) /\ Contains(tabs.ids, id)
              /\ ~Contains(tabs'.ids, id) =>
              \/ CloseTab(id)
              \/ \E list \in Lists, a \in Entities : Address(list, a)
      ]_vars

(***************************************************************************)
(* What a stop loses was named before it (edit.go:64-66), or was edited    *)
(* after the naming.                                                       *)
(***************************************************************************)
LostWasNamed == lost \subseteq told \cup late

(***************************************************************************)
(* Every action has keys of its own, none of them the browser's, in every  *)
(* editor and in the file, however editors bind, reset, fail and restart   *)
(* beside each other; else keyMap (settings.go:235) would drop one.        *)
(***************************************************************************)
KeysReachable ==
    \A s \in {file} \cup {mem[e] : e \in Editors} :
        \A a \in Actions :
            /\ Bound(s, a) \notin Reserved
            /\ \A b \in Actions \ {a} : Bound(s, a) # Bound(s, b)

(***************************************************************************)
(* "A change made by another editor is kept rather than overwritten"       *)
(* (settings.go:65-66): a save changes the bindings asked of its editor    *)
(* since that editor last read the file, and no other, but for those that  *)
(* another editor has changed since, whether the reading failed or the     *)
(* other came between the reading and the save.                            *)
(***************************************************************************)
OtherBindingsKept ==
    [][\A a \in Actions :
          file'[a] # file[a] =>
              \E e \in Editors : busy[e] # None /\ (a \in asked[e] \/ read[e][a] # file[a])]_vars
=============================================================================
