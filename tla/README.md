# lorekeep in TLA+

Specifications of lorekeep, model-checked with TLC on small instances and, but
for the two liveness properties, proved with TLAPS for every value of their
constants.
lorekeep keeps a fictional world as Markdown files under `world/`, validates and
compiles them into `build/index.db`, and serves them to a web editor and to MCP
clients. Paths below are relative to the repository.

- [The system](#the-system)
- [Modules](#modules)
- [Runs and their bounds](#runs-and-their-bounds)
- [Where the code differs from its comments](#where-the-code-differs-from-its-comments)
- [Proofs](#proofs)
- [Not modelled, and the plan](#not-modelled-and-the-plan)

## The system

| Part | State it keeps | Operations | Talks to | What makes it correct |
|---|---|---|---|---|
| Build lock (`internal/editor/save.go`) | the file `build/editor.lock` | take, wait, take over a stale one, release | every editor process that saves | one rebuild at a time; nobody's lock is removed; no save waits for ever |
| Drafts and save (`internal/editor/draft.go`, `save.go`, `entity.go`) | open drafts in memory, files under `world/` | edit prose, link, create an entity, save, discard | files shared with any program; build lock; serving | nothing anyone wrote is overwritten; links on disk never dangle; "saved" is true; a failed save can be retried |
| Relations panel, conditions (`internal/editor/relations.go`, `fields.go`) | a draft's list of changes; the rows each tab shows | remove, note, priority, add, add and remove a condition | drafts; resolver for what is visible | an edit reaches the relation the writer saw, and the draft stays readable |
| Fields form (`internal/editor/fields.go`, `internal/world/edit.go`) | a draft's list of changes; pages shown earlier | set a name, status, visibility, interval, add and remove items, prose | drafts, world files | each control does what it says and nothing else; an undo leaves the file as it was |
| Serving (`internal/editor/server.go`, `internal/mcp/server.go`, `internal/index`) | last good build, its stamp and report; `build/index.db` | read, reload, forced rebuild | drafts lock, files, other processes | answers are fresh or say why not; a read is not changed under its feet; every request ends |
| Version dispatch (`cmd/lorekeep/dispatch.go`, `internal/versions`, `internal/project/pin.go`) | pin file, cache of versions, `state.json` | run a command, offer a release, update | GitHub, the project's build, other lorekeep processes | the pinned version runs; the pin moves only to a version that builds the project; no means no |
| Resolver (`internal/resolve`) | none: reads an index under a context | entities, edges, beliefs, expansion, diff, divergence | index | nothing outside the context is told; deciding more takes nothing away; beliefs hang on no file order unwarned; expansion stops at its depth and misses nothing |
| Index compiler (`internal/index/model.go`, `dump.go`, `search.go`) | none | compile, snapshot, search | validator, SQLite | inverses and tiers agree with the files |
| Validator (`internal/validate`) | none | one check per rule | world, schema | a dangling name is never compiled; a belief left to file order is reported; the order of files changes no finding |
| World files (`internal/world`) | none | parse, edit frontmatter, replace prose | drafts | an edit changes only what it names |
| Schema packs (`internal/schema`) | none: reads a project's pack and the core's | load, merge, expand groups, look names up | validator, compiler, editor | a project can add and never redefine; another version of the core changes no name a project uses; groups cover what they include |
| MCP tools, roles, proposals (`internal/mcp`) | `proposals/` | read tools, validate, propose | serving, resolver | a proposal never reaches `world/`; a role's ceiling holds |
| Client setup (`internal/mcp/install.go`) | the client's JSON file | merge one entry | other programs' settings | every other key is kept |
| Settings, keys, tabs (`internal/editor/settings.go`, `keys.go`, `tabs.go`) | a settings file shared by editors | bind, reset, open and close a tab | other editors | one action per key combination; the active tab is in the strip |
| Set-up, recent list (`internal/scaffold`, `internal/project/recent.go`) | a new project's files; the recent list | setup, add git files, remember | file system | a failed set-up removes only its own files |
| Command line, shutdown (`cmd/lorekeep`) | the signals seen | run, edit, Ctrl+C | all of the above | unsaved work is named before it is lost |

What is hard here is not in any one function. Several processes share files
with no common lock but `editor.lock`: two editors, MCP sessions, the writer's
own text editor, git, the desktop client's own programs. Each handler of the
editor takes the drafts lock and the build lock (`Server.mu`) several times, and pages act on what they showed
earlier. Any file operation can fail and any process can stop. `PROJECT.json`
lists the hazards at their lines.

## Modules

Each component has a module whose constants bound it, and an `MC` module with
the instances TLC checks. BuildLock, EntitySave, RelationEdits, Serving,
VersionDispatch, Proposals, Projects, Packs and Desk stand alone; World is extended by
Resolver, and Resolver by Readings; Frontmatter is extended by FieldsForm, which
implements EntityForm. Theorems are in modules of their own, named after the
module they are about; `EntitySaveProofs` also has the proofs of BuildLock,
`FormProofs` those of the two panels of an entity's page, RelationEdits and
FieldsForm, and `PacksProofs` those of Desk. A specification that shares a module
of proofs with another has its name in those of its parts (`LockSpec`,
`PanelTypeOK`, `packVars`). In the specifications a definition that begins with
the comment "Wrong:" is a plausible mistake in the code. It is used nowhere: a
property is worth having when putting the mistake in the place of the right
definition makes TLC reject it (`mutants` in `PROJECT.json`).

Some of what the code promises fails in a race that nothing in it rules out.
No constant rules these races out either. Where a property needs to name one,
a history variable, which no action reads, remembers that it happened: `exposed`
in BuildLock and in Projects, `lost`, `cut`, `said`, `refused`, `overtaken`,
`meddled`, `read` and `asked` below. The property then says that nothing but the
named race does the harm, in behaviours that have it and in those that do not.

### BuildLock

`Create` and `WriteToken` are the two halves of `createLock`; `ReadHeld`,
`StatAge`, `RereadHeld` and `RemoveStale` the four file operations of
`takeOverStale`; `ReadOwn` and `Release` those of `removeOwnLock`; `Wait` and
`Expire` the loop of `withBuildLock`. Any of them can fail, and `Crash` can
follow any of them. A lock file is remembered with the call that created it, so
a write that reaches an unlinked file is told from one that reaches the path.

`exposed` remembers the two situations the protocol has no defence against
(`AtRisk`): two writers have judged the lock that is there stale and neither
has acted on it yet, or a rebuild has outlived `buildLockStale` (2 minutes; the
code says "a rebuild takes seconds"). It is over when nobody judges or holds.
The code means its second read to rule out the first; it does not, see below.
`LiveLocksAge` says whether an instance has the second.

### EntitySave

A file is its prose and its links. Prose is a set of marks, each written once,
so a change that is overwritten shows as a mark that is gone. `job` is the
request that holds a server's drafts lock; a save is the sequence `SaveBegin`
(bytes of the file), `SaveCheck` (its time, and the comparison with the draft's
stamp), `SaveFiles`, then for each created entity `SaveLstat` and
`SaveCreated`, then `SaveMain` and `SaveEnd`. `StartDraft` and `EditNew` are the
two reads of `readWorldFile` at the start of a draft. `Restart` loses the
drafts. `Outside` is every other program: it adds prose, puts a file where a
created entity would go, or removes one. A modification time need not change
with a write (`ticked`), because clocks are coarse; the hash is taken to tell
any two texts apart.

A page may be of any age: `BodyEdit` is a post from a page as it was when it was
shown, whatever the file has become, and others may write between any two file
operations of a save. `lost` is the marks that a write has put out of a file.
`TakesOut` says when a save may do so: the draft it writes began from that text
and leaves it out, or the text came between the save's check and its rename. The
code narrows that window and cannot close it.

The rebuild at the end of a save is one step here. BuildLock and Serving model
what it does.

### RelationEdits

One draft of one entity. A relation's type and target are its `key`; `uid`,
which no code sees, says which relation an edit was meant for. `Replay` is
`replayRelations`, `Candidates` to `Ambiguous` are `matchShown`, `Rows` is
`authoredRows`, and each edit re-renders its tab (`Render`) as `answerPanel`
does. `condEdit` takes the drafts lock twice, so it is two actions, `CondCheck`
and `CondEdit`, and another tab's edits come between. `hit` records the edit
just made: did it reach the relation of the row, is that one hidden, and had the
writer seen the list as it was. `cut` is the tabs between the two whose list has
been cut short since. `ReplayOne` is also what the code does with a change of the
whole list, which no control of the panel makes. The index the resolver answers from is taken to
be of the draft's base file. `MaxEdits` bounds the edits in a draft.

### Serving

The world is its version. `StatWorld`, `LoadWorld`, `RemoveIndex`,
`CreateIndex`, `CommitIndex` and `LoadPack` are `reload`, at the points where
another process can come between; `Lock` and `RLock` are `Server.mu`, and
`TakeDrafts` is the drafts lock, which a page lets go at once and an edit or a
save holds. A page, an edit and a save of the editor and a call of the MCP
server differ in the locks they take and in whether the rebuild is forced.
`need` is the version of the world when a request arrived. `of` says which
process each request is in; it is chosen once from `Deployments`, so one run
has two requests of one process, of an editor beside a session, and of two
sessions. Not modelled: two edits with one modification time (the change check
cannot see the second), and a load that reads part of its files before an edit
and part after. The stamp taken before such a load makes the next read build
again, as for any edit during a build.

### VersionDispatch

A version is its number; 0 is a development build. A file that the code writes
in place is torn between the truncation and the write: `TruncatePin` and
`WritePin` for the pin, `SaveState` and `StateSaved` for `state.json`. `Offer`,
`AskYes`, `AskNo` are `offerUpdate`; `InstallTo`, `CheckBuild` and the pin's two
steps are `moveProject`; `Dispatch` and `Fetch` the rest of `runPinned`. A
save of `state.json` has three outcomes (`os.WriteFile` truncates first, and
`offerUpdate` ignores its error): it is written whole, it is as it was, or it is
torn. A kill may leave either file torn; a torn pin makes every command refuse the
project, as `ParsePin` does. Which versions build the project is chosen at each
check, because the world is edited at any time. Any number of commands run at
once. `said` is the releases the writer said no to, `refused` those that the last
save that worked was to hold, and `overtaken` the commands whose pin another has
moved since they read it.

### World, Resolver and Readings

`World` is what the files say: entities with their relations, beliefs and
assertions, and statements, each under the conditions of its `valid_in`. It has
the validator's errors on them (`Sound`: references, conditions, the domain and
range of a triple, outcomes, duplicate edges) and the warning on inherited
beliefs (`ConflictWarned` is `warnInheritedConflicts`). `Resolver` has one
operator per function of `internal/resolve`, of a world and a context: what is
present (`Present`, `EdgeHolds`, `PresentStatement`), the belief chain
(`OwnBelief`, `InheritedBelief`, `CommonBelief`), and the reads (`EntitiesRead`,
`EntityRead`, `BeliefsRead`, `ExpandRead`, `DiffRead`, `DivergenceRead`), each of
which is `Refused` where the code returns an error.

`Readings` makes a state machine of them. Its state is what the files hold and
the index of the last good build. An author changes one thing: a `valid_in`, a
priority, a status, a statement's truth or whether it is common, or removes an
entity. A change and the load after it are one step, because every read loads
changed files before it answers (Serving has what can come between). A world
with a fault leaves the index alone. `Compile` copies what is modelled, so the
index is a world.

Answers are sets where the code returns sorted lists: their order says nothing.
A priority of 0 is an unnumbered one. A status is canon or one other. A list of
conditions names a condition once. Left out, because no read decides anything by
them: names, aliases, prose, notes, intervals, visibility, confidence. Also left
out are the list of relations `Expand` may be told to follow and the list of
agents `Divergence` may be asked about; both select part of what is modelled.

`OnlyTheStory` says the most. `Story` cuts from a world what a context may not
learn: what does not hold in its branch or has another status, then every claim
that names such a thing, and for a knower the truth of what is not common
knowledge and the minds of all but itself and its factions. Every read must
answer from the whole index what it answers from that part of it. What is left
of a list keeps its place: places only say what comes first.

### Frontmatter, EntityForm and FieldsForm

`Frontmatter` is `internal/world/edit.go`: a file's frontmatter is a tree of
mappings, lists and scalars, a change names a node by its path, and
`EditFrontmatter` applies a sequence of them, with the errors it returns as
`Bad`. `setPath`, `deletePath` and what they do to null, to a missing key and to
a node of another shape are each an operator; walking down and rebuilding the
way up are recursive functions over the path.

`FieldsForm` is the form over it. A draft is the file it began from and the
trees its changes lead through. A page is the form as it was after any of these
changes (`Offers`), so every post may come from an old page. `FieldEdit` is
`fieldEdit` and `condEdit` on the entity's own list, with one operator per kind
of field (`NameChange`, `ItemChange`, `VisibilityChange`, `IntervalChange`);
`BodyEdit` is `bodyEdit`; `Fails` is every request of an entity whose draft does
not read; `Discard` drops the draft. Base files are bare, in part, with nulls,
with keys of another type, or with a field of the wrong shape.

What the constants must be is said by four assumptions: a base file is what the
parser makes of some file (`FilesOK`, by `File`); the empty text is no status and
no year (`StatusesOK`, `YearsOK`, as `Status.Valid` and `strconv.Atoi` have it);
and `BoundsOK`. `Numerals` are the indices a path can name, in order, and so bound
the length of a list: no list of a file, with what `MaxChanges` edits can add to
it, outgrows them.

`UndoLeavesFile` speaks of a field that the form can write the way the file had
it. `Unsaid` names the others: a null, an empty list, a name that is no text, and
what a span holds beside what the form shows of it.

`EntityForm` is what the form promises: a record of fields and the meaning of
each control, with no files, paths or drafts. `Form` instantiates it with
`entity <- Entity(Tree, Text)`, the fields as parsed, and
`saved <- Entity(base.tree, base.text)`; `Promise` is `Form!Spec`. So the run
shows that the changes worked out from paths do, after parsing, what the
controls say, and that a file that parses cleanly never gets a draft that does
not. In a file with a field of the wrong shape an edit of it may also be lost:
`EntityForm` promises such a file no more.

### Proposals

A call of `validate` or `propose` is `Begin` (the checks of its paths), `CopyFile`
once per file of the world, which the author goes on writing, `Load` and
`Validated`; then `Folder` looks at `proposals/`, `MakeDir` tries identifiers and
`Write` fills the directory, one file after another, `validation.txt` last.
`OverlayFails`, `FolderRefused`, `NameTaken` and `WriteFails` are the error
returns, `Undo` and `UndoStops` the clean-up, and `Stop` a kill at any step, with
the file being written left in part. A path carries what the code asks of it:
the file it leads to, whether its spelling is accepted, whether the loader
enters its folder, and whether a link is on the way; two spellings may be one
file on a file system that folds case.

### Projects

Four commands over the same folders and files. `SetupBegin` to `SetupUndo` are
`Setup` and its clean-up; `GitLook` decides what a file is, `GitAgree` asks,
`GitSkip` leaves it and `GitWrite` writes; `InstallBegin`, `InstallBackup` and
`InstallWrite` read the client's configuration, ask, read it again, copy it and
merge one entry; `MenuOpen`, `RecentRead` and `RecentWrite` are the menu. Every
write may be cut off, `Stop` is a kill, and writers and other programs change the
folders and the configuration in between (`WriterPuts`, `WriterMakes`,
`WriterRemoves`, `ProgramPuts`). A plan is the list `Order`, and what is left of
it the set `todo` of positions in it; the next is the least (`Upcoming`).

Others may do so at any step, also between a look and the write that follows it,
in a folder a set-up is filling, and between an install's copy and its write. A
write cut off leaves a torn file or an empty one (`CutOff`): `os.WriteFile`
truncates first. `meddled` is the set-ups of whose files or directories another
has changed one; `exposed` the servers put at risk by an install: entered between
its reading and its write, or there when the copy beside the configuration was
spoilt (`CopySpoilt`).

### Packs

A pack is a record of its sections; `Loads` is what `loadFS` asks of one pack,
`Merge` what is asked of two, with one operator per check of the code. What a
pack claims of a namespace is a set of claims, each a name and the declaration it
is of (`RelationClaims`, `KindClaims`); names are compared by `Folded`, their
lower case. `groupExpansion` is the depth-first search with its memo. `Visited` is
one call of the code's `visit`, from the groups it is inside of and the memo it
finds to the memo it leaves; `visitor` is the recursive function of these, and
`InTurn` the loops that call it, so that the order of the files and of the two
packs is in the model. `index` builds the tables of permitted types from it.
`Means` is what the validator takes a
relation's name for. The state is the project's pack and the version in use: an
author writes a declaration first or last in its file, takes one out, changes
the pin, leaves a file unreadable, and switches versions. Nothing is kept
between loads, so every property is about what the files load as.

Of the releases it is assumed that each loads by itself (`ReleasesOK`,
`TestCoreIsSelfConsistent`), that declarations hold lists (`DeclsOK`), and that no
group of a release is in a cycle (`CoresOK`, `core/entity-types.yaml`).
`ExpansionExact` asks of every group outside a cycle what it covers when nothing is
said of an order; `EachKeepsItsOwn` what a name means; `EndsKept` what the ends of
the core's relations permit.

### Desk

Three small systems of an editor that share nothing but the writer. The tabs
are the address of the page (`parseTabs`, `URL`); `drawn` and `panel` are the
links of the page and of the relations panel as they were rendered, with the
marks of what was unsaved then, and are followed after drafts have changed.
`Interrupt` and `Stop` are the two signals of `edit.go`. `Bind`, `ResetKeys`,
`SaveKeys` and `SaveKeysFails` are `settings.go`: refresh, check for a clash,
change, save, over one file that several editors hold a copy of.

Editors do so at once, and each reading and each save may fail: a refresh that
fails goes on with what is in memory. `read` is the file as each editor last read
it, `asked` the bindings asked of it since.

## Runs and their bounds

Distinct states and times are of two TLC workers.

| Run | Instance | Shows |
|---|---|---|
| `lock` | 3 writers, 1 save each, anything at the lock's path, live locks that age, 214,049 states, 95 seconds | `ExclusiveUnlessExposed`, `HolderOwnsLock`, `NeverStolen`, and `WaitEnds` under fairness. Three writers are a holder, a taker and one more that comes between |
| `save` | 2 editors, 1 entity, 1 created entity, 1 mark; 549,899 states, 30 seconds | `NoDanglingLink`, `RetryNotBlocked`, `NoLostProse`, `SavedIsOnDisk`. A mark is one to lose: what it is lost to is a page, a draft or a file without it |
| `relations` | 2 tabs, 2 lists of two relations, 2 changes in a draft; 640,607 states, 50 seconds | `ReplayExact`, `RightRelation`, `DraftReadable`. One list holds one relation twice, one of them hidden; the other tells the two apart by a note. A relation that is added may have another target. With two changes a tab removes a relation and another acts on what it showed before, or has looked and has not acted yet |
| `fields` | 6 files, 3 changes, pages of any age; 41,184 states | `UndoLeavesFile`, `Promise`. Three changes are one to make, one to undo it, and one from a page older than both |
| `serving` | 2 requests, spread over processes in 4 ways, 1 edit, failing disks; 156,962 states, under a minute | `FreshOrReported`, `SearchExact`, and `Answered` under fairness |
| `versions` | 2 commands at once, releases 1 and 2, either of which reads a pin; 1,611,635 states, 50 to 90 seconds | `RunsPinned`, `MovedWhenClean`, `NeverLowered`, `DeclinedStays`. Two releases are a pin and a newer one, or the pin another update wrote and an older one; two commands are one and what overtakes it |
| `story` | 5 entities, 1 statement, 1 decision, every context, 2 changes | `IndexClosed`, `OnlyTheStory`, `MoreToldMoreFacts`, `OrderWarned`, `DiffTellsMinds`, `ExpandExact`. A member of two factions that disagree, one of its memberships under a priority that depends on the decision; a relation of each kind; two changes make one thing absent and leave another that names it |
| `proposals` | 2 calls, 2 identifiers, 2 tries, 2 writes by the author | `AnsweredWhole`, `WholeIfValidated`, `CheckedAsBuilt`. Two calls and two identifiers let both choose one name, one wait for another and both run out |
| `projects` | 2 processes, 1 folder, 6 entries in a plan, 2 commands, 2 changes by others, 1 server of others, a recent list of 2; 359,713 states, 30 seconds | `ServersKept`, `RecentSound`, `TheirsKept`, `SetUpWholeOrGone`. Two commands are one and its retry or rival; two changes are a server there before and one that comes between, or a file made and a file changed; a list of 2 that begins full is cut by the first menu |
| `packs` | 3 releases of the core, 4 edits; 79,653 states, 20 seconds | `ExpansionExact`, `EachKeepsItsOwn`, `EndsKept`. The second release adopts a type and a relation that a project may have, the third is a major one; four edits are two groups, a type and a relation over them |
| `desk` | 3 entities, 2 editors, 2 actions, 6 combinations, 5 things done; 440,878 states, 35 seconds | `LostWasNamed`, `KeysReachable`, `UnsavedTabKept`, `OtherBindingsKept`. Two spellings of one combination, one the browser keeps and one no shortcut can be; three tabs are the one left, the one replaced and one beside them; five things done are a bind of each editor, a save between them and one after, and a bind more |
| `lock_takeover` | 2 writers, 2 saves each, live locks that do not age | a violation, below |

Larger instances were run once: `versions` with three releases, of which the first
cannot be pinned (`MaxVersion = 3`, `FirstPin = 2`, 7,694,954 states), `save` with
three marks and no created entity (`Marks = {m1, m2, m3}`, `NewFiles = {}`), `desk`
with `MaxOps = 6` (2,240,565 states) and `projects` with a second folder and the shorter
plan (`Dirs = {"d", "e"}`, `Order <- MCShort`). They find nothing more.

Symmetry is used only where no liveness property is checked. Deadlock is
checked in `serving`. The other systems may rightly
stop, when their bounded counters are used up or when a torn pin makes every
command refuse. Each stateful module but Desk has a
type invariant. It holds on the instances above (name it as an INVARIANT to see) and
says little of the code, so no run lists it. It is proved by itself for BuildLock,
EntitySave, Serving, VersionDispatch, Proposals, RelationEdits, FieldsForm and
Packs; the proofs of the others need parts of it and carry those with them.

Fairness is assumed in two runs. `lock` takes each writer's steps and its
clock as weakly fair: a live goroutine goes on, and time passes. A crash ends the
writer's obligation. It says nothing of `Begin`. `serving` takes each
request's own steps as weakly fair, and its lock steps as strongly fair:
`sync.Mutex` hands over to a waiter that has waited a millisecond, and a waiting
writer of `sync.RWMutex` keeps new readers out, so a goroutine that waits for a
lock that is free again and again gets it. No fairness is given to edits.

## Where the code differs from its comments

One is a run with one property, which TLC finds violated; the trace is the
scenario.

- `lock_takeover` (`MutualExclusion`). Two writers find one stale
  lock. The first reads it twice; the second reads it twice, removes it, creates
  its own and rebuilds; the first removes that one and rebuilds too. `save.go`:
  "so two writers never both take over one lock".

The rest have no run of their own. Five more are stated in the modules as what the
comment says; to see the trace, name the definition as a property of the instance.

- `RemovedWhereClicked` (RelationEdits; `BaseLists <- MCBoth`, `Worldline =
  {hides}`). A writer clicks a condition away in a panel that another tab has
  outrun: it goes from the relation that has moved to that place.
  `fields.go:873-874`: "so a condition removed by value cannot hit another one
  after a stale click".
- `NotAskedAgain` (VersionDispatch). The save of a no fails, nobody looks at the
  error, and the next run offers the release again. `dispatch.go:184`, before the
  save: "Not asking about %s again".
- `ReplacedOnYes` (Projects). A file a writer makes between git's look and its
  write is replaced unasked. `git.go:29-30`: "is replaced only when replace returns
  true for its path".
- `RemovesItsOwn` (Projects). A set-up that made its folder and fails removes the
  whole folder, with what a writer has put there since. `scaffold.go:88-89`: "if it
  fails part-way it removes what it wrote".
- `InheritedFollows` (Readings; `Relations <- MCOwnRelations`, `BaseWorlds <-
  MCOwnWorlds`, with `"place"` among the types). A project's pack lets a membership
  lead to an entity that is no agent; a diff lists the beliefs of agents only, so two
  worldlines show the same facts and a mind differs. `diff.go:28-29`: "inherited and
  common beliefs follow from other facts".

Others are what a property allows by name.

- Pages and saves. A page is open, another program writes the file, the writer
  types. The draft begins from the new file, so the stamp is right, and the prose
  box, whole, replaces the new prose; `save_test.go:459-460` says "a file written
  behind the editor's back is never overwritten". What is written between a
  save's check and its rename is lost too. `NoLostProse` allows these and nothing
  else.
- Conditions. A condition is added where another tab shortened the list between
  condEdit's two locks: the draft cannot be read any more until it is discarded.
  `DraftReadable` allows this one.
- Versions. Two commands that wait for an answer at once each save the whole of
  `state.json`, and the one that saves last erases the other's no; two updates that
  chose different versions can end with the older one pinned. `DeclinedStays` and
  `NeverLowered` allow it of a command that had read the file before, or whose pin
  another has moved.
- Settings. A save that comes between another editor's refresh and its save, or
  after a refresh that failed, writes back the other's old bindings;
  `settings.go:65-66` says a change made by another editor is kept.
  `OtherBindingsKept` allows it of bindings that were changed since the editor's
  last reading.
- Client set-up. A configuration left empty is read as none, its copy is
  overwritten by the next install, and the other servers are gone; a server entered
  between an install's reading and its write is lost. `ServersKept` names them
  (`exposed`).
- Relations panel. An edit from a panel that another tab has outrun is checked
  by type and target only; with two relations alike in both it lands on the
  other. `relations.go:370-372`: "refused instead of landing on another
  relation". `RightRelation` therefore speaks of an up-to-date panel.
- Serving. `Server.mu` orders the rebuilds and reads of one process. Two MCP
  sessions are two processes on one `build/index.db`. `mcp/server.go:66-68`: "so
  build/index.db is never rewritten under a search". `SearchExact` therefore
  speaks of a process that has the file to itself.
- Beliefs. An agent has a belief of its own on a statement in one branch of a
  decision. In the others it inherits from two factions that disagree, with no
  priority between them, so the order of its relations decides. The warning
  takes the belief for an answer everywhere and says nothing
  (`warnings.go:23-24`). `DiffTellsMinds` leaves out an agent whose factions disagree
  so, and one that believes what it does by an entity that is no agent
  (`OfNoAgent`). `divergence.go` says `Against` is
  empty when a lie's audience is absent; such a lie is not listed at all
  (`assertionHolds`).
- Fields form. A scalar where `aliases` or `lifespan` should be parses with a
  finding, and one edit of the field then makes a draft that no longer reads; of a
  mapping where a list should be, an edit is lost. `EntityForm` promises more only
  of files without such findings. `fields.go:572-573`: "a file with no
  visibility key reads as public, and clicking the lit" choice "adds nothing"; such
  a file shows no choice lit, and a click on public adds the key. A name emptied in a file without one leaves `name: ""`. A
  span whose last said part is cleared goes whole, with the parts in it that are
  null or that the form does not know.
- Packs. A group includes another and the other it, and one of them a type as
  well. Neither covers nothing, so the merge accepts both; the expansion is cut
  where the cycle was met, so the group declared first covers what both include
  and the other less. `pack.go:310`: "A group that cycles resolves to nothing;
  the merge reports the cycle." `ExpansionExact` leaves such groups out, and those
  that lead to one (`LeadsToCycle`): what they get hangs on the order as well.
- Proposals. A comment of the copy says the loader skips a broken link as the
  copy does; the loader reports it.
- Tabs. The structure panel's links and those of the relations panel are drawn
  before an edit and not again after it, so a tab that has become unsaved can be
  replaced by a click on one of them; `tabs.go:69-71` says it is kept.
  `UnsavedTabKept` is about a tab that both kinds of links were drawn to keep.
- Set-up and shutdown. A set-up that fails in an existing empty folder leaves
  `schema/` and `world/`, so the folder counts as a project and the next set-up
  refuses it. Two menus at once lose one entry of the recent list, and a torn
  list is read as an empty one. What is edited after the Ctrl+C warning, or
  while the server shuts down, is lost unnamed (`late`).

## Proofs

`EntitySaveProofs` proves of BuildLock, for any set of writers and any `MaxCalls`:

- `LockTyped`: `LockSpec => []LockTypeOK`, from `ConstantsOK` alone.
- `Exclusion`, `OwnLock`, `NotStolen`: `LockSpec => []ExclusiveUnlessExposed`,
  `LockSpec => []HolderOwnsLock`, `LockSpec => NeverStolen`, whether live locks age
  or not and however many judge at once.

`HolderOwnsLock` is not inductive: from a state that satisfies it, a writer that
is about to remove a lock it judged stale could remove a holder's. `LockInv` adds
what keeps that from happening, in named parts:

- `CallBegun`, `PastCall`: a lock at the path was created by a call that began,
  and never by one that still waits;
- and, unless `exposed`: `HolderCreated`, `HolderWrote`: the lock a holder created
  is at the path from its create to its release, with its token from `WriteToken`
  on; `StaleIsDead`: a stale lock's creator is gone; `JudgedIsStale`: while a writer
  judges, the lock it judged is at the path, and stale; `SoleJudge`: one writer judges
  at a time.

`exposed` falls when nobody judges or holds, and then the last five hold of nothing;
that is why what a race has spoilt does not last.

`LockTypeInit` and `LockTypeStep` prove the type invariant, `LockInvInit` and
`LockInvStep` the
strengthened one, one step per action; the theorems follow by temporal logic.
`ExclusiveUnlessExposed` follows from `HolderCreated`: two rebuilding writers would own
one file.

`ReadingsProofs` proves `MoreToldAlways`, `Spec => []MoreToldMoreFacts`, for
every pack, every world and every context: a worldline that extends another
shows every entity, statement, edge and assertion that the other shows. Nothing
is assumed of the world, so the invariant needs no strengthening: it holds in
any state. One lemma follows another as one function of the resolver calls
another: a list of conditions (`HoldsGrows`), an entity (`PresentGrows`), then
edges, statements and assertions, and all of them together (`ToldGrows`). The
proof stops before beliefs, and has to: what a mind holds may change when more
is decided.

It also proves `ClosedAlways`, `Spec => []IndexClosed`, for any number of
changes. `IndexClosed` is not inductive, since it says nothing of the file a
faulty change leaves behind; `IndexSound` is: the index is a world the validator
found no error in. `SoundChange` shows that a change keeps it, whatever the
change, and `SoundIsClosed` that each check of the validator looks up what
`IndexClosed` asks for. It uses the part of `ReadingsOK` that says the first
index was compiled from a sound world, as `Load` compiles no other.

`VersionDispatchProofs` is about any terminals and any releases, assuming of the
constants only `FirstPinOK`.

- `VersionsTyped` and `MovesWhenClean` (`Spec => []TypeOK`,
  `Spec => MovedWhenClean`) hold for any number of commands at once. `MoveInv`
  is the type invariant and `Ready`: a command past its install has its version
  in the cache, and one past its check was built by that version itself.
  `ReadyMore` says that a growing cache keeps this, which is why other commands
  cannot disturb it. `OnlyWritePin` says that a pin that changes was written by
  a command that had chosen its new version.
- `RunsAsPinned` and `PinNeverLowered`: `Spec => []RunsPinned`,
  `Spec => NeverLowered`, for any number of commands at once. `PinInv` adds
  `Honest`, what a command believes of the pin: the pin it read is the pin there
  is, unless another has overtaken it; what it moves to is newer than the pin it
  read unless it was named; and a release that runs is that pin.
- `NoMeansNo`: `Spec => DeclinedStays`, whatever saves fail, are torn or killed.
  `DeclinedInv` says that `state.json`, unless torn, has every no that its last
  save was to hold, and that a command's copy has every no it saw and its own
  (`Knows`).

`PacksProofs` is, of Desk, about any editors, actions, combinations and entities, and any
number of things done.

- `KeysAlways`: `Spec => []KeysReachable`, from `KeysOK`. `KeysInv` says that
  every copy of the settings, the file's and each editor's, is `Sound`, that is
  well typed, with keys of its own for each action. It speaks of all copies
  together because a bind starts from the file or, when that cannot be read,
  from memory, and a save puts memory into the file. `BindSound` is the one lemma about
  what a bind does.
- `LostAlways`: `Spec => []LostWasNamed`, by `LostInv`: once the warning is out,
  what is unsaved is named or late.
- `BindingsKept`: `Spec => OtherBindingsKept`, for any number of editors at once,
  with readings and saves that fail. `AskedInv` adds to `KeysInv` that what an editor
  holds differs from the file as it last read it only in what it was asked since.

`EntitySaveProofs` is about any editors, files and marks, with failures, kills
and other programs between any two file operations.

- `SavesTyped`: `Spec => []TypeOK`, from `EditedOK` (what is edited is a file)
  and `ValuesOK` (the markers for no file, no draft and no prose are none of
  the values they stand beside).
- `LinksAlways`: `Spec => []NoDanglingLink`, by `LinksInv`: what a save has in
  hand leads to files that were there, and what a draft adds to them is on its
  list of entities to create.
- `RetryAlways`: `Spec => []RetryNotBlocked`, by `CreatedInv`: a created entity
  is on one list, once, and no save goes to its file, so the only program that
  can put a file there is another one.
- `ProseAlways` and `SavedAlways`: `Spec => NoLostProse` and
  `Spec => SavedIsOnDisk`, for pages of any age. `ProseInv` says that a save past
  its check holds a draft that began from what it read, and that what it read, and
  later what it wrote, is in the file or known to be put out of it (`lost`), unless
  another program has removed the file. `Accounted` is what every write does for
  this, and `SaveStays` carries a save over the writes of others. `SavedIsOnDisk` leaves
  out a file that another program removed: a save does not look at it again.

`ServingProofs` is about any processes, requests and deployments, from `BoundOK`
and `ValuesOK`.

- `ServingTyped`, `FreshAlways`, `SearchAlways`: `Spec => []TypeOK`,
  `Spec => []FreshOrReported`, `Spec => []SearchExact`. One inductive invariant
  serves all three. `LockInv` is what `Server.mu` gives: who reloads is alone in
  its process. `StampInv` is the heart of the freshness: the stamp is never ahead
  of the build it vouches for, and a request that goes on to read has seen a
  stamp later than the world it needs, or a report that says why not. `DbInv`
  says, for a process that has the index file to itself, how far the file is at
  each step of a rebuild.

`ProposalsProofs` is about any calls, requests, identifiers and tries. It takes
from `RequestsOK` and `NamesOK` that no file of a request has the name of one
`propose` adds: those of a request lie under `world/` and the others beside it
(`propose.go`, `writeProposal`).

- `CheckedAlways`: `Spec => []CheckedAsBuilt`, by `CopyInv`: what a call has
  copied of each file is a version that the author had there since the call
  began.
- `WholeAlways` and `AnsweredAlways`: `Spec => []WholeIfValidated` and
  `Spec => []AnsweredWhole`, by `DirInv`: an identifier is one call's, the files
  there are those it has come to, and `validation.txt` is the last of them.
  `TypeOK` is proved on the way (`ProposalsTyped`).

`ProjectsProofs` is about any processes, folders, template and servers, with other
programs at any step, and takes of the template what `OrderOK` and `PlanOK` say: every
plan makes `schema/` and `world/`.

- `TheirsAlways`, `SetUpAlways`: `Spec => TheirsKept`, `Spec => SetUpWholeOrGone`.
  `SetUpInv` says that the files a set-up has made are the ones it wrote and, unless
  another meddled, are still its own, and that its directories are there or still to
  come. Each action is first reduced to what it changes of the folder (`Kinds`), so
  that one lemma serves all the commands that change the same.
- `ServersAlways`: `Spec => []ServersKept`, by `ConfigInv`: what others entered, but
  for the servers at risk (`Safe`), is in the file, or, while that is torn or empty,
  in the copy, and in what an install is about to write.
- `RecentAlways`: `Spec => []RecentSound`; of the list it needs `RecentOK`, that it
  can begin full. `RecentInv`
  says that the list a menu has read and is about to write is sound too, so it
  does not matter how many do. `Ranked` counts the places that are kept: each
  gets one of its own in the shorter list, and none of those stays empty.

`PacksProofs` also has, of Desk, `TabsKept`: `Spec => UnsavedTabKept`, from `ListsOK` (an
address holds lists). `ListsInv` says that the open tabs, and those a link was
drawn with, are lists that name a tab once. `parseTabs` drops repeated ids, so
the lemmas before it are about the positions where an id stands first.

`ReadingsProofs` goes on to minds and to `Expand`, again for every world, pack
and context. `Typed`, that files and index are worlds, is all the invariant they
need.

- `OrderAlways`: `Spec => []OrderWarned`. A list of memberships that is not
  empty has a strongest (`BestIsThere`, by a least element). When an agent's
  belief changes with the order of its relations, two of its memberships tie and
  disagree (`Disagreement`), and that is the pair the validator warns of.
- `DiffAlways`: `Spec => []DiffTellsMinds`. The facts of a diff hold
  each agent's own claims and memberships; with the same facts, in two contexts,
  the one inherited from is the same, and its claims are an agent's, or what is
  believed is believed by an entity that is none (`OfNoAgent`).
- `ExpandAlways`: `Spec => []ExpandExact`. A round follows the edges of the
  frontier only; `Walked` says that the edges found so far are nevertheless those
  of all that was seen before it.

- `StoryAlways`: `Spec => []OnlyTheStory`. `Left(w, c, d)` says that the story of
  `c` was cut from `w`, and that `d` is `c` or decides less (`Diff` reads the
  world without decisions too). Under every such `d` each function of the
  resolver, in the order one calls the other, finds in the story what it finds
  in the world: presence and conditions (`SamePresent`, `SameIds`,
  `SameChecked`), edges and what is reached along them (`SameEdges`,
  `SameWalk`), a mind's own claim, its memberships and what it inherits
  (`SameOwn`, `SameMemberships`, `SameInherited`), what is said (`SameSaid`), the
  facts and the heretics, deceived and liars (`SameFacts`, `SameDivergence`).
  The first claim by order and the strongest faction are unique (`OwnIsFirst`,
  `InheritedIsFirst`), which is what makes the two readings choose the same.

The core pack lets `member_of` lead to factions only. A project's pack may give the
role to a relation that leads elsewhere: the merge checks that the role exists
(`merge.go`, `checkCrossReferences`), any entity may have beliefs, and a member
inherits from whatever it is a member of. That is what `OfNoAgent` leaves out and
`InheritedFollows` does not.

`FormProofs` has first what holds of RelationEdits, for any file, notes, conditions
and tabs and any bound on the edits, from `ListsOK`.

- `PlacesAlways`: `PanelSpec => []ReplayExact`. `Replay` is a recursive function of
  how many changes it has replayed, so it is reasoned about by induction over that
  number: a set of naturals that has 0 and with a number the next has them all
  (`AllNaturals`, from a least element). An edit adds one change at the end of the
  draft, and `ReplayStep` says for each kind of change that replaying it
  does to the places what the edit did to the list.
- `RightAlways`: `PanelSpec => []RightRelation`. It is not inductive. `IInv` adds that
  the list is no longer than its file and changes make it (`Lengths`), that the
  relations open to edits are those of the file (`OpenIsEditable`), and, for `condEdit`,
  which looks twice, that a row seen in a list nobody changed since is still one of its
  rows (`SeenIsShown`). That `matchShown` opens no hidden relation is a count
  (`EditableHolds`): of the relations alike in type and target some may not hold in
  the worldline; then either their conditions differ and none is opened, or none
  holds and none is matched.
- `ReadableAlways`: `PanelSpec => DraftReadable`, for panels of any age.
  `CheckedThere` says that what a condEdit has checked is within the list until
  another tab cuts it short. `PathStep` says that a path a tab holds is the one it
  held, or was looked for in the list as it is; `CheckedStep` follows from it.
- `EditsTyped`: `PanelSpec => []PanelTypeOK`.

Then what holds of FieldsForm, for any files the parser can make, any vocabulary,
texts and number of changes, and pages of any age.

- `PromiseAlways`: `Spec => Promise`, that is `Spec => Form!Spec`: the form implements
  EntityForm. `FormStep` takes the actions in turn and shows each to be a step of
  EntityForm; for a post, field by field, that what `EditFrontmatter` makes of the
  changes parses as `After` says. The walks of `edit.go` are recursive over a path, and
  the form's paths have one or two keys, so the lemmas on them unfold twice and no more.
- A draft alone does not say enough for this: that a field reads as it should after
  one more edit needs what was left of the file's node in it. `FormInv` has, for each
  draft that reads: every node in it is one the parser or the form made (`Whole`);
  its lists leave room for the edits that are left (`Short`); and each field is the
  file's, or became what it is by steps of its own kind (`Kept`): a text, a visibility
  the form writes, a list that keeps the file's blank items in their order
  (`ListKept`), a span that is as the form writes it if the file's was (`SpanStepped`,
  `Canon`).
- `UndoAlways`: `Spec => []UndoLeavesFile`, from `Kept`. For lists: no post adds or
  removes an item without text, so a draft has the file's in their order; when the
  texts read as they did, each such item is at its place, since a map of a finite set
  of naturals into itself that keeps their order moves none.
- `FormTyped`: `Spec => []TypeOK`.

`PacksProofs` is about any releases, declarations, names and number of edits, from
the four assumptions of the model.

- `PacksTyped`: `PackSpec => []PackTypeOK`. It is the whole inductive invariant, as
  nothing is kept between loads; the rest is about any pack that merges.
- `ExpansionAlways`: `PackSpec => []ExpansionExact`. First there must be a function that
  does as `visitor` says: `SolutionThere` makes one for the visits with at most so
  many groups unseen, by induction over that number, as a visit calls others with
  one more seen; and a list of names is visited in turn by induction over its places
  (`InTurnIs`, `InTurnDoes`). Then what it finds, again by induction: `Does` says that
  a visit leaves a memo that is right for every group outside a cycle (`RightMemos`)
  and has the group visited, if it was not seen. `VisitedRight` is the step: all that a
  group outside a cycle includes is in the memo when its own types are put together,
  because a group that is met while it is being visited leads back to itself
  (`Below`, `CycleFound`), and what it covers splits into what it names and what the groups it
  includes cover (`CoversSplits`). The merge's checks make the groups and types of the
  union differ in name (`MergedApart`), which all this needs.
- `OwnAlways`: `PackSpec => []EachKeepsItsOwn`. `Joins` says where the declarations of each
  pack are in the union. No relation of a project claims what the core claims
  (`NoneOfTheProject`), and none of it claims what another of it does.
- `EndsAlways`: `PackSpec => []EndsKept`. A group of the core names only what the core has
  (`CoresAre`, by `ReleasesOK`), so it leads to the same groups and says the same
  whatever is joined to the core (`CoreLeads`). By `CoresOK` its expansion is then
  exact in both unions, and both ends are what `Permits` says of the core alone.
  Without `CoresOK` the proof would need the order in which a cycle is met.

Proved for every value of the constants: every property of the passing runs but
the two of liveness, `WaitEnds` and `Answered`, which stay with TLC: the prover
does not handle fairness and ENABLED.

An induction theorem with an operator as a parameter cannot be used here. Where a
recursive function goes along a sequence, a bounded path or a set that shrinks, the
proofs above do without: the induction is over a set of naturals.

No module has a RECURSIVE operator.

## Not modelled, and the plan

Modelled in part, with what is missing:

- Validator: claim identity, interval checks, enumerations and the warnings
  other than the one on inherited beliefs.
- MCP tools: the ceilings of roles, the neighbourhood of an answer, the limit of
  the search tool (its ranking is SQLite's).
- Resolver: the relations `Expand` may be told to follow and the agents
  `Divergence` may be asked about, names, prose, notes and intervals.
- Client setup: the project's own `.mcp.json`, which is lorekeep's alone, and
  finding the client's file.
- World files: positions, comments, quoting and line ends.

What comes next, the parts that more can go wrong with first:

1. Compositions: a save of EntitySave implements an abstract atomic write of a
   file with its created entities (refinement); a save's rebuild runs inside
   BuildLock with Serving's `reload`.
2. The rest of the validator against reference definitions; role ceilings.

Left out for good: ID prefixes, HTML templates and their generated Go, printing
and argument parsing, YAML styling, the SQL text, HTTP tokens and headers,
checksums of downloads. They keep no state that these properties could be about,
or are text work that a model would only repeat.
