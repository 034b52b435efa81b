------------------------------- MODULE Projects -------------------------------
(***************************************************************************)
(* The commands that make and prepare projects, and the small files they   *)
(* share: set-up (internal/scaffold/scaffold.go), git (internal/scaffold/  *)
(* git.go), mcp install (cmd/lorekeep/mcp.go, internal/mcp/install.go) and *)
(* the menu with its recent list (cmd/lorekeep/menu.go, internal/project/  *)
(* recent.go).  Every file is written by a step of its own, any of which   *)
(* may fail or be the last one before the process is killed, and writers   *)
(* and other programs change the same folders in between.                  *)
(*                                                                         *)
(* Two history variables, which no step reads, say what the actors have    *)
(* done to one another.                                                    *)
(***************************************************************************)
EXTENDS Naturals, Sequences, FiniteSets

CONSTANTS
    Procs,        \* processes, each running one command at a time
    Dirs,         \* folders the commands are about
    Elsewhere,    \* projects the list begins with, which stay
    Others,       \* servers that other programs have in the client's config
    Order,        \* what a plan may hold, in the order it is written
    MaxRecent,    \* 8 in recent.go
    MaxCommands,  \* bound: commands started
    MaxOthers     \* bound: changes by writers and other programs

\* An entry of a plan: its name, the directory it lies in ("" for the folder
\* itself), the option that asks for it, and whether it is a file at all.
ASSUME OrderOK ==
    \A i \in DOMAIN Order :
        /\ Order[i].part \in {"base", "git", "ci"}
        /\ Order[i].sub \in {"", "schema", "world", ".github"}
        /\ Order[i].file \in BOOLEAN

\* Whatever is asked for, a plan makes both folders a project is known by.
ASSUME PlanOK ==
    \A sub \in {"schema", "world"} :
        \E i \in DOMAIN Order : Order[i].part = "base" /\ Order[i].sub = sub

\* The list begins full.
OnceEach(list) == \A i, j \in DOMAIN list : i < j => list[i] # list[j]
Full == {list \in [1..MaxRecent -> Elsewhere] : OnceEach(list)}
ASSUME RecentOK == MaxRecent \in Nat /\ Full # {}

VARIABLES
    folder,   \* the folders and what is in them
    cmd,      \* the command each process runs
    recent,   \* projects.json: a list of folders, or torn
    config,   \* the client's config and its backup
    had,      \* what other programs last wrote in the config
    started,  \* commands started so far
    others,   \* changes by others so far
    meddled,  \* history: set-ups of whose files or directories another changed one
    exposed   \* history: servers that another install has put at risk

shared == <<folder, cmd, recent, config, had, started, others>>
vars == <<shared, meddled, exposed>>

\* What a file that is not there, or is there in part, reads as.
NoFile == [is |-> "none", servers |-> {}]
TornFile == [NoFile EXCEPT !.is = "torn"]
EmptiedFile == [NoFile EXCEPT !.is = "emptied"]

\* What os.WriteFile leaves when it is cut off after its truncation.
CutOff == {TornFile, EmptiedFile}

Names == {Order[i].name : i \in {j \in DOMAIN Order : Order[j].file}}

Absent == [made |-> FALSE, subs |-> {}, file |-> [n \in Names |-> "none"]]
Empty == [Absent EXCEPT !.made = TRUE]
IsEmpty(f) == f.made /\ f.subs = {} /\ \A n \in Names : f.file[n] = "none"

\* project.IsProject
IsProject(d) == d \in Dirs => {"schema", "world"} \subseteq folder[d].subs

Idle == [at |-> "idle", dir |-> CHOOSE d \in Dirs : TRUE, todo |-> {},
         created |-> FALSE, written |-> {}, touched |-> {}, found |-> "",
         list |-> <<>>, seen |-> NoFile]
At(p, step) == cmd[p].at = step
Set(p, r) == cmd' = [cmd EXCEPT ![p] = r]
Done(p) == Set(p, Idle)
Dir(p) == cmd[p].dir

InSetup(p) == cmd[p].at \in {"setup", "undo"}

Start(p, r) ==
    /\ At(p, "idle") /\ started < MaxCommands
    /\ started' = started + 1
    /\ Set(p, r)

\* The entries a set-up or a git command plans, by the options given, as
\* their places in Order, and the place of the one that is next.
Plan(parts) == {i \in DOMAIN Order : Order[i].part \in parts}
Upcoming(p) == {i \in cmd[p].todo : \A j \in cmd[p].todo : i <= j}
Parts == {{"base"}, {"base", "git"}, {"base", "git", "ci"}}

-----------------------------------------------------------------------------
(* Set-up: an empty folder, then one entry after another. *)

InFolder(d, e) == [folder[d] EXCEPT !.made = TRUE,
                                    !.subs = IF e.sub = "" THEN @ ELSE @ \cup {e.sub}]

SetupBegin(p, d) == \E parts \in Parts :
    /\ ~folder[d].made \/ IsEmpty(folder[d])
    /\ Start(p, [Idle EXCEPT !.at = "setup", !.dir = d, !.todo = Plan(parts),
                             !.created = ~folder[d].made])
    /\ folder' = [folder EXCEPT ![d].made = TRUE]
    /\ UNCHANGED <<recent, config, had, others>>

\* Writes entry e of the plan with O_EXCL, or makes the directory it names.
SetupWrite(p) == \E i \in Upcoming(p) :
    LET e == Order[i] IN
    /\ At(p, "setup")
    /\ e.file => folder[Dir(p)].file[e.name] = "none"
    /\ folder' = [folder EXCEPT ![Dir(p)] =
           IF e.file THEN [InFolder(Dir(p), e) EXCEPT !.file[e.name] = "ours"]
                     ELSE InFolder(Dir(p), e)]
    /\ Set(p, [cmd[p] EXCEPT !.todo = @ \ {i},
                             !.written = IF e.file THEN @ \cup {e.name} ELSE @,
                             !.touched = IF e.file THEN @ \cup {e.name} ELSE @])
    /\ UNCHANGED <<recent, config, had, started, others>>

\* Wrong: a file is counted as written only once all of it is.
SetupFailsUncounted(p) == \E i \in Upcoming(p) :
    LET e == Order[i] IN
    /\ At(p, "setup") /\ e.file
    /\ folder[Dir(p)].file[e.name] = "none"
    /\ folder' = [folder EXCEPT ![Dir(p)] =
           [InFolder(Dir(p), e) EXCEPT !.file[e.name] = "torn"]]
    /\ Set(p, [cmd[p] EXCEPT !.at = "undo", !.touched = @ \cup {e.name}])
    /\ UNCHANGED <<recent, config, had, started, others>>

\* The file is made and then cannot be written or closed.
SetupFails(p) == \E i \in Upcoming(p) :
    LET e == Order[i] IN
    /\ At(p, "setup") /\ e.file
    /\ folder[Dir(p)].file[e.name] = "none"
    /\ folder' = [folder EXCEPT ![Dir(p)] =
           [InFolder(Dir(p), e) EXCEPT !.file[e.name] = "torn"]]
    /\ Set(p, [cmd[p] EXCEPT !.at = "undo", !.written = @ \cup {e.name},
                             !.touched = @ \cup {e.name}])
    /\ UNCHANGED <<recent, config, had, started, others>>

\* The file is there already, or neither it nor its directory can be made.
SetupRefused(p) == \E i \in Upcoming(p) :
    /\ At(p, "setup")
    /\ \/ UNCHANGED folder
       \/ folder' = [folder EXCEPT ![Dir(p)] = InFolder(Dir(p), Order[i])]
    /\ Set(p, [cmd[p] EXCEPT !.at = "undo"])
    /\ UNCHANGED <<recent, config, had, started, others>>

\* Folder f without these files.
Without(f, names) ==
    [f EXCEPT !.file = [n \in Names |-> IF n \in names THEN "none" ELSE f.file[n]]]

SetupUndo(p) ==
    /\ At(p, "undo")
    /\ folder' = [folder EXCEPT ![Dir(p)] =
           IF cmd[p].created THEN Absent ELSE Without(@, cmd[p].written)]
    /\ Done(p)
    /\ UNCHANGED <<recent, config, had, started, others>>

\* From the menu the new project becomes the current one and is remembered.
SetupEnd(p) ==
    /\ At(p, "setup") /\ cmd[p].todo = {}
    /\ Done(p) \/ Set(p, [Idle EXCEPT !.at = "remember", !.dir = Dir(p)])
    /\ UNCHANGED <<folder, recent, config, had, started, others>>

-----------------------------------------------------------------------------
(* git: the files of the template, one after another: a look, and on what  *)
(* was found a write; a writer's own file is replaced only on a yes.       *)

GitBegin(p, d) == \E parts \in {{"git"}, {"git", "ci"}} :
    /\ IsProject(d)
    /\ Start(p, [Idle EXCEPT !.at = "git", !.dir = d, !.todo = Plan(parts)])
    /\ UNCHANGED <<folder, recent, config, had, others>>

GitEntry(p) == Order[CHOOSE i \in Upcoming(p) : TRUE]
GitFound(p, what) == At(p, "git") /\ cmd[p].found \in what
GitNext(p) ==
    LET left == cmd[p].todo \ Upcoming(p) IN
    Set(p, IF left = {} THEN Idle ELSE [cmd[p] EXCEPT !.todo = left, !.found = ""])

GitLook(p) ==
    /\ GitFound(p, {""})
    /\ Set(p, [cmd[p] EXCEPT !.found = folder[Dir(p)].file[GitEntry(p).name]])
    /\ UNCHANGED <<folder, recent, config, had, started, others>>

GitSkip(p) ==
    /\ GitFound(p, {"ours", "theirs", "torn"})    \* Present, or Kept on a no
    /\ GitNext(p)
    /\ UNCHANGED <<folder, recent, config, had, started, others>>

GitAgree(p) ==
    /\ GitFound(p, {"theirs", "torn"})
    /\ Set(p, [cmd[p] EXCEPT !.found = "agreed"])
    /\ UNCHANGED <<folder, recent, config, had, started, others>>

\* Wrong: without a yes.
GitMayWriteAnyway(p) == GitFound(p, {"none", "agreed", "theirs", "torn"})
GitMayWrite(p) == GitFound(p, {"none", "agreed"})

GitWrite(p) ==
    /\ GitMayWrite(p)
    /\ folder' = [folder EXCEPT ![Dir(p)] =
           [InFolder(Dir(p), GitEntry(p)) EXCEPT !.file[GitEntry(p).name] = "ours"]]
    /\ GitNext(p)
    /\ UNCHANGED <<recent, config, had, started, others>>

GitFails(p) ==
    /\ GitMayWrite(p)
    /\ \/ UNCHANGED folder
       \/ folder' = [folder EXCEPT ![Dir(p)] =
              [InFolder(Dir(p), GitEntry(p)) EXCEPT !.file[GitEntry(p).name] = "torn"]]
    /\ Done(p)
    /\ UNCHANGED <<recent, config, had, started, others>>

-----------------------------------------------------------------------------
(* mcp install: one entry into the client's config, asked for, with the    *)
(* file that was there kept beside it.  A project's entry is known by its   *)
(* folder.                                                                 *)

Merged(file, d) == [is |-> "json", servers |-> file.servers \cup {d}]
Needed(file, d) == file.is # "torn" /\ d \notin file.servers

InstallBegin(p, d) ==
    /\ folder[d].made
    /\ Start(p, [Idle EXCEPT !.at = "ask", !.dir = d, !.seen = config.file])
    /\ UNCHANGED <<folder, recent, config, had, others>>

\* The entry is there already, the file is no JSON, or the answer is no.
InstallEnd(p) ==
    /\ At(p, "ask")
    /\ Done(p)
    /\ UNCHANGED <<folder, recent, config, had, started, others>>

\* Wrong: the config as it was when the question was put.
ReadBefore(p) == cmd[p].seen
ReadAgain(p) == config.file

\* On a yes WriteConfig reads the file again and backs it up.
InstallBackup(p) ==
    /\ At(p, "ask") /\ Needed(cmd[p].seen, Dir(p)) /\ Needed(ReadAgain(p), Dir(p))
    /\ config' = [config EXCEPT
           !.bak = IF ReadAgain(p).is = "none" THEN @ ELSE ReadAgain(p)]
    /\ Set(p, [cmd[p] EXCEPT !.at = "merge", !.seen = ReadAgain(p)])
    /\ UNCHANGED <<folder, recent, had, started, others>>

\* The copy cannot be written, or not all of it.
BackupTears(p) ==
    /\ At(p, "ask") /\ Needed(cmd[p].seen, Dir(p)) /\ Needed(ReadAgain(p), Dir(p))
    /\ ReadAgain(p).is # "none"
    /\ \E bak \in CutOff : config' = [config EXCEPT !.bak = bak]
    /\ Done(p)
    /\ UNCHANGED <<folder, recent, had, started, others>>

InstallWrite(p) ==
    /\ At(p, "merge")
    /\ config' = [config EXCEPT !.file = Merged(cmd[p].seen, Dir(p))]
    /\ Done(p)
    /\ UNCHANGED <<folder, recent, had, started, others>>

\* os.WriteFile fails, or the process is killed, part-way.
InstallTears(p) ==
    /\ At(p, "merge")
    /\ \E file \in CutOff : config' = [config EXCEPT !.file = file]
    /\ Done(p)
    /\ UNCHANGED <<folder, recent, had, started, others>>

-----------------------------------------------------------------------------
(* The menu's recent list, read, changed and written in place. *)

Listed == IF recent.is = "torn" THEN <<>> ELSE recent.list

\* The entries of a list at these places, in their order (slices.DeleteFunc).
Keeping(list, places) ==
    LET Rank(i) == Cardinality({j \in places : j <= i})
    IN  [n \in 1..Cardinality(places) |-> list[CHOOSE i \in places : Rank(i) = n]]

LoadRecent == Keeping(Listed, {i \in DOMAIN Listed : IsProject(Listed[i])})

Cut(list) == IF Len(list) > MaxRecent THEN SubSeq(list, 1, MaxRecent) ELSE list

\* Wrong: a folder that is listed is listed again.
RememberedTwice(d, list) == Cut(<<d>> \o list)

\* AddRecent: to the front, once, and no more than the list holds.
Remembered(d, list) == Cut(<<d>> \o Keeping(list, {i \in DOMAIN list : list[i] # d}))

MenuOpen(p, d) ==
    /\ IsProject(d)
    /\ Start(p, [Idle EXCEPT !.at = "remember", !.dir = d])
    /\ UNCHANGED <<folder, recent, config, had, others>>

RecentRead(p) ==
    /\ At(p, "remember")
    /\ Set(p, [cmd[p] EXCEPT !.at = "list", !.list = Remembered(Dir(p), LoadRecent)])
    /\ UNCHANGED <<folder, recent, config, had, started, others>>

RecentWrite(p) ==
    /\ At(p, "list")
    /\ recent' = [is |-> "json", list |-> cmd[p].list]
    /\ Done(p)
    /\ UNCHANGED <<folder, config, had, started, others>>

RecentTears(p) ==
    /\ At(p, "list")
    /\ recent' = [is |-> "torn", list |-> <<>>]
    /\ Done(p)
    /\ UNCHANGED <<folder, config, had, started, others>>

-----------------------------------------------------------------------------
\* The process is killed between two file operations, or its clean-up fails.
Stop(p) ==
    /\ ~At(p, "idle")
    /\ Done(p)
    /\ UNCHANGED <<folder, recent, config, had, started, others>>

Other == others < MaxOthers /\ others' = others + 1

\* A writer makes, changes or removes a file, or makes or removes a folder.
WriterPuts(d, n) ==
    /\ Other /\ folder[d].made
    /\ \E to \in {"none", "theirs"} : folder' = [folder EXCEPT ![d].file[n] = to]
    /\ UNCHANGED <<cmd, recent, config, had, started>>

WriterMakes(d) ==
    /\ Other /\ ~folder[d].made
    /\ folder' = [folder EXCEPT ![d] = Empty]
    /\ UNCHANGED <<cmd, recent, config, had, started>>

WriterRemoves(d) ==
    /\ Other
    /\ folder' = [folder EXCEPT ![d] = Absent]
    /\ UNCHANGED <<cmd, recent, config, had, started>>

\* Another program adds an entry of its own.
ProgramPuts(server) ==
    /\ Other /\ config.file.is \in {"none", "json"}
    /\ config' = [config EXCEPT !.file =
           [is |-> "json", servers |-> config.file.servers \cup {server}]]
    /\ had' = had \cup {server}
    /\ UNCHANGED <<folder, cmd, recent, started>>

Init ==
    /\ folder = [d \in Dirs |-> Absent]
    /\ cmd = [p \in Procs |-> Idle]
    /\ recent = [is |-> "json", list |-> CHOOSE list \in Full : TRUE]
    /\ config = [file |-> NoFile, bak |-> NoFile]
    /\ had = {}
    /\ started = 0
    /\ others = 0
    /\ meddled = {} /\ exposed = {}

Moves ==
    \/ \E p \in Procs :
        \/ \E d \in Dirs : SetupBegin(p, d) \/ GitBegin(p, d)
                           \/ InstallBegin(p, d) \/ MenuOpen(p, d)
        \/ SetupWrite(p) \/ SetupFails(p) \/ SetupRefused(p) \/ SetupUndo(p) \/ SetupEnd(p)
        \/ GitLook(p) \/ GitSkip(p) \/ GitAgree(p) \/ GitWrite(p) \/ GitFails(p)
        \/ InstallBackup(p) \/ BackupTears(p) \/ InstallWrite(p) \/ InstallTears(p) \/ InstallEnd(p)
        \/ RecentRead(p) \/ RecentWrite(p) \/ RecentTears(p) \/ Stop(p)
    \/ \E d \in Dirs :
        \/ \E n \in Names : WriterPuts(d, n)
        \/ WriterMakes(d) \/ WriterRemoves(d)
    \/ \E server \in Others : ProgramPuts(server)

\* Another than set-up p changes a file that p has written, or removes a
\* directory of its folder.
Meddling(p) ==
    /\ cmd'[p] = cmd[p]
    /\ \/ \E n \in cmd[p].written : folder'[Dir(p)].file[n] # folder[Dir(p)].file[n]
       \/ ~(folder[Dir(p)].subs \subseteq folder'[Dir(p)].subs)

\* An install keeps as its copy a config that a cut-off left empty, or spoils
\* the copy that another install may need.
CopySpoilt == \E p \in Procs :
    \/ (InstallBackup(p) \/ BackupTears(p)) /\ config.file = EmptiedFile
    \/ BackupTears(p) /\ \E q \in Procs \ {p} : At(q, "merge")

\* A server is at risk too that is entered between an install's reading and its
\* write, until it is entered again.
Exposed ==
    LET entered == {server \in Others : ProgramPuts(server)} IN
    /\ exposed' = (exposed \ entered)
                  \cup (IF \E p \in Procs : At(p, "merge") THEN entered ELSE {})
                  \cup (IF CopySpoilt THEN had ELSE {})

Next ==
    /\ Moves
    /\ meddled' = {p \in Procs : InSetup(p)' /\ (p \in meddled \/ (InSetup(p) /\ Meddling(p)))}
    /\ Exposed

Spec == Init /\ [][Next]_vars

-----------------------------------------------------------------------------
\* Every variable keeps to its kind.
TypeOK ==
    /\ folder \in [Dirs -> [made : BOOLEAN,
                            subs : SUBSET {"schema", "world", ".github"},
                            file : [Names -> {"none", "ours", "torn", "theirs"}]]]
    /\ \A p \in Procs :
        /\ cmd[p].at \in {"idle", "setup", "undo", "git", "ask", "merge",
                          "remember", "list"}
        /\ cmd[p].dir \in Dirs /\ cmd[p].written \subseteq Names
    /\ {config.file.is, config.bak.is} \subseteq {"none", "json", "torn", "emptied"}
    /\ config.file.servers \cup config.bak.servers \subseteq Dirs \cup Others
    /\ meddled \subseteq Procs /\ exposed \subseteq Others

(***************************************************************************)
(* No command changes or removes a file that is the writer's, but: git on  *)
(* a yes (git.go:29-31), or one made since git looked and found none; and  *)
(* the clean-up of a set-up (scaffold.go:88-89), which takes with it what  *)
(* has come into the folder it made itself, or in the place of a file it   *)
(* wrote.                                                                  *)
(***************************************************************************)
TheirsKept ==
    [][\A d \in Dirs, n \in Names :
          folder[d].file[n] = "theirs" /\ folder'[d].file[n] # "theirs" =>
              \/ others' # others
              \/ \E p \in Procs :
                    /\ Dir(p) = d
                    /\ \/ GitFound(p, {"agreed", "none"}) /\ GitEntry(p).name = n
                       \/ At(p, "undo") /\ (cmd[p].created \/ n \in cmd[p].written)
      ]_vars

(***************************************************************************)
(* What git.go:29-30 says: "A file that exists with other contents is the  *)
(* writer's, and is replaced only when replace returns true for its path". *)
(* It is not so, and no run lists it: the look and the write are two       *)
(* steps, and a file can come in between.                                  *)
(***************************************************************************)
ReplacedOnYes ==
    [][\A p \in Procs, n \in Names :
          (GitWrite(p) \/ GitFails(p)) /\ folder[Dir(p)].file[n] = "theirs" =>
              folder'[Dir(p)].file[n] = "theirs" \/ GitFound(p, {"agreed"})
      ]_vars

(***************************************************************************)
(* What scaffold.go:88-89 says of a failed set-up: "it removes what it     *)
(* wrote".  It is not so, and no run lists it: a folder that it made goes  *)
(* as a whole (os.RemoveAll).                                              *)
(***************************************************************************)
RemovesItsOwn ==
    [][\A p \in Procs, n \in Names :
          SetupUndo(p) /\ folder[Dir(p)].file[n] = "theirs" =>
              folder'[Dir(p)].file[n] = "theirs" \/ n \in cmd[p].written
      ]_vars

(***************************************************************************)
(* A set-up that says it is done has left a project with every file it     *)
(* planned, unless another changed one of them, or removed a directory,    *)
(* since it wrote it; one that fails and cleans up has left none of the    *)
(* files it made, whole or in part (scaffold.go:88-89), so that only what  *)
(* was there before can stop the next one.                                 *)
(***************************************************************************)
SetUpWholeOrGone ==
    [][\A p \in Procs :
          /\ p \notin meddled /\ At(p, "setup") /\ SetupEnd(p) =>
                /\ IsProject(Dir(p))
                /\ \A n \in cmd[p].touched : folder[Dir(p)].file[n] = "ours"
          /\ At(p, "undo") /\ SetupUndo(p) =>
                \A n \in cmd[p].touched : folder'[Dir(p)].file[n] \notin {"ours", "torn"}
      ]_vars

(***************************************************************************)
(* mcp install keeps "every other key and server as it was" (install.go:   *)
(* 108-109): what other programs entered before, while the question stood  *)
(* open or after it is in the config, and if the config was left half      *)
(* written or empty, in the copy beside it.  At risk are only a server     *)
(* that is entered between an install's reading and its write, and those   *)
(* there when the copy is spoilt beside another install, or is made of a   *)
(* config that a cut-off left empty.                                       *)
(***************************************************************************)
ServersKept ==
    had \ exposed \subseteq IF config.file.is \in {"torn", "emptied"} THEN config.bak.servers
                                                                     ELSE config.file.servers

(***************************************************************************)
(* The recent list names no folder twice and is no longer than MaxRecent,  *)
(* whatever menus read and wrote it at the same time (recent.go:51-62).    *)
(***************************************************************************)
RecentSound ==
    /\ Len(Listed) <= MaxRecent
    /\ OnceEach(Listed)
=============================================================================
