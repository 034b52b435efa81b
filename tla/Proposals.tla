------------------------------ MODULE Proposals ------------------------------
(***************************************************************************)
(* The validate and propose tools of the MCP server                        *)
(* (internal/mcp/propose.go).  A call checks the paths it is given, copies *)
(* the world file by file while the author goes on writing, puts its files *)
(* over the copy and reads the result.  propose then makes a directory of  *)
(* its own under proposals/ and fills it one file after another.  Calls    *)
(* run side by side, in one session or in several, and any of them may     *)
(* fail or be killed at any step.                                          *)
(***************************************************************************)
EXTENDS Naturals, Sequences

CONSTANTS
    Calls,      \* one call of one tool each
    Paths,      \* the paths a call may name
    Requests,   \* the lists of files a call may give
    Ids,        \* the identifiers one second leaves to choose from
    MaxTries,   \* 32 in proposalDir
    MaxWrites   \* bound: the changes the author makes to one file

(***************************************************************************)
(* A path is known by the file it leads to, whether checkPath takes its    *)
(* spelling, whether the world loader enters its folders, and whether a    *)
(* part of it is a link.  `file` is the name a file system that folds case *)
(* gives it, so two spellings can be one file.                             *)
(***************************************************************************)
ASSUME PathsOK ==
    Paths \subseteq [name : STRING, file : STRING,
                     clean : BOOLEAN, read : BOOLEAN, linked : BOOLEAN]

\* A path of the world is never the name of a file that propose adds.
ASSUME NamesOK == \A p \in Paths : p.file \notin {"proposal.json", "validation.txt"}

Given == [path : Paths, kind : {"entity", "statement", "neither"}, text : STRING]
ASSUME RequestsOK == Requests \subseteq Seq(Given)

\* A call is no text.
ASSUME CallsOK == Calls \cap {"none", "torn"} = {}

ASSUME BoundsOK == Ids # {} /\ MaxTries \in Nat \ {0} /\ MaxWrites \in Nat \ {0}

VARIABLES
    world,      \* the author's version of each file, 0 when there is none
    parent,     \* what proposals/ is
    dirs,       \* the directories under it
    call        \* where each call stands

vars == <<world, parent, dirs, call>>

Places == {p.file : p \in Paths}

\* What a file holds: nothing, part of what was being written, a version of
\* the author's, a proposed text, or what call c wrote about its proposal.
Missing == [from |-> "none", n |-> 0]
Torn == [from |-> "torn", n |-> 0]
Authored(n) == IF n = 0 THEN Missing ELSE [from |-> "author", n |-> n]
Proposed(f) == [from |-> f.text, n |-> 0]
About(c) == [from |-> c, n |-> 0]

\* The folders the loader enters; in the project it follows no link, in the
\* copy there is none left.
ReadFrom(paths) == {p.file : p \in {q \in paths : q.clean /\ q.read}}
Loads == ReadFrom({p \in Paths : ~p.linked})

(***************************************************************************)
(* What a call is given and what is checked before anything is read.       *)
(***************************************************************************)
\* Wrong: a folder the loader never enters is as good as any.
checkPathSpelling(p) == p.clean
checkPath(p) == p.clean /\ p.read
confined(p) == ~p.linked

Twice(r) ==
    \E i, j \in DOMAIN r : i < j /\ r[i].path.file = r[j].path.file

checkFiles(r) ==
    /\ r # <<>>
    /\ \A i \in DOMAIN r : checkPath(r[i].path) /\ confined(r[i].path)
    /\ ~Twice(r)
    /\ \A i \in DOMAIN r : r[i].kind # "neither"

\* The tree with the files of a request put over it.
Over(tree, r) ==
    [p \in DOMAIN tree |->
        IF \E i \in DOMAIN r : r[i].path.file = p
        THEN Proposed(r[CHOOSE i \in DOMAIN r :
                 /\ r[i].path.file = p
                 /\ \A j \in DOMAIN r : r[j].path.file = p => j <= i])
        ELSE tree[p]]

Overlaid(tree, r) == Over(tree, r)

\* The files a proposal is made of, in the order they are written.
Outputs(r) ==
    [i \in DOMAIN r |-> r[i].path.file] \o <<"proposal.json", "validation.txt">>

\* Wrong: the findings are written first.
OutputsTextFirst(r) ==
    <<"validation.txt", "proposal.json">> \o [i \in DOMAIN r |-> r[i].path.file]

writeProposal(r) == Outputs(r)

Names == Places \cup {"proposal.json", "validation.txt"}
TextFor(c, r, o) ==
    IF o \in Places THEN Over([p \in Places |-> Missing], r)[o] ELSE About(c)

NoDir == [made |-> FALSE, holds |-> [o \in Names |-> Missing]]
NewDir == [made |-> TRUE, holds |-> [o \in Names |-> Missing]]

-----------------------------------------------------------------------------
Idle == [at |-> "idle", tool |-> "none", files |-> <<>>,
         began |-> [p \in Places |-> 0], copy |-> [p \in Places |-> Missing],
         todo |-> {}, id |-> CHOOSE i \in Ids : TRUE, tries |-> 0, done |-> 0]

\* Files the loader never enters or follows are left out of the world.
Init ==
    /\ world \in {w \in [Places -> {0, 1}] : \A p \in Places \ Loads : w[p] = 0}
    /\ parent \in {"none", "folder", "link"}
    /\ dirs = [i \in Ids |-> NoDir]
    /\ call = [c \in Calls |-> Idle]

At(c, step) == call[c].at = step
End(c, how) == call' = [call EXCEPT ![c] = [Idle EXCEPT !.at = how]]

\* The author's own editor, which no lock of the server holds back.
Author == \E p \in Loads :
    /\ world[p] < MaxWrites
    /\ world' = [world EXCEPT ![p] = @ + 1]
    /\ UNCHANGED <<parent, dirs, call>>

Begin(c) == \E tool \in {"validate", "propose"}, r \in Requests :
    /\ At(c, "idle") /\ checkFiles(r)
    /\ call' = [call EXCEPT ![c] = [Idle EXCEPT
           !.at = "copy", !.tool = tool, !.files = r, !.began = world, !.todo = Loads]]
    /\ UNCHANGED <<world, parent, dirs>>

Refuse(c) == \E r \in Requests :
    /\ At(c, "idle") /\ ~checkFiles(r)
    /\ End(c, "refused")
    /\ UNCHANGED <<world, parent, dirs>>

CopyFile(c) == \E p \in call[c].todo :
    /\ At(c, "copy")
    /\ call' = [call EXCEPT ![c].copy[p] = Authored(world[p]), ![c].todo = @ \ {p}]
    /\ UNCHANGED <<world, parent, dirs>>

\* The overlay is read.  What is found is what its files say, so the answer
\* is known by them.
Load(c) ==
    /\ At(c, "copy") /\ call[c].todo = {}
    /\ call' = [call EXCEPT ![c].at = "loaded"]
    /\ UNCHANGED <<world, parent, dirs>>

\* The overlay is removed; validate writes nothing and has its answer.
Leave(c, step) ==
    call' = [call EXCEPT ![c] = [Idle EXCEPT
        !.at = step, !.tool = call[c].tool, !.files = call[c].files]]

Validated(c) ==
    /\ At(c, "loaded") /\ call[c].tool = "validate"
    /\ Leave(c, "answered")
    /\ UNCHANGED <<world, parent, dirs>>

\* A file of the world or of the copy cannot be read or written, or the
\* schema pack cannot be loaded.
OverlayFails(c) ==
    /\ At(c, "copy")
    /\ End(c, "refused")
    /\ UNCHANGED <<world, parent, dirs>>

\* proposals/ is made, or found to be a plain folder of the project.
Folder(c) ==
    /\ At(c, "loaded") /\ call[c].tool = "propose" /\ parent # "link"
    /\ parent' = "folder"
    /\ Leave(c, "name")
    /\ UNCHANGED <<world, dirs>>

FolderRefused(c) ==
    /\ At(c, "loaded") /\ call[c].tool = "propose" /\ parent = "link"
    /\ End(c, "refused")
    /\ UNCHANGED <<world, parent, dirs>>

Take(c, i) ==
    /\ dirs' = [dirs EXCEPT ![i] = IF @.made THEN @ ELSE NewDir]
    /\ call' = [call EXCEPT ![c].at = "write", ![c].id = i]

\* Wrong: os.MkdirAll, which is content with a directory that is there.
MakeDirShared(c, i) == At(c, "name") /\ Take(c, i) /\ UNCHANGED <<world, parent>>

\* os.Mkdir: the directory is new, or the next identifier is tried.
MakeDir(c, i) ==
    /\ At(c, "name") /\ ~dirs[i].made
    /\ Take(c, i)
    /\ UNCHANGED <<world, parent>>

NameTaken(c, i) ==
    /\ At(c, "name") /\ dirs[i].made
    /\ IF call[c].tries + 1 < MaxTries
       THEN call' = [call EXCEPT ![c].tries = @ + 1]
       ELSE End(c, "refused")
    /\ UNCHANGED <<world, parent, dirs>>

\* The file the call writes next, in its own directory.
NextFile(c) == writeProposal(call[c].files)[call[c].done + 1]
Puts(c, text) == dirs' = [dirs EXCEPT ![call[c].id].holds[NextFile(c)] = text]

More(c) == call[c].done < Len(writeProposal(call[c].files))

Write(c) ==
    /\ At(c, "write") /\ More(c)
    /\ Puts(c, TextFor(c, call[c].files, NextFile(c)))
    /\ call' = [call EXCEPT ![c].done = @ + 1]
    /\ UNCHANGED <<world, parent>>

Answer(c) ==
    /\ At(c, "write") /\ ~More(c)
    /\ call' = [call EXCEPT ![c].at = "answered"]
    /\ UNCHANGED <<world, parent, dirs>>

\* A write fails, having left nothing or part of the file.
WriteFails(c) ==
    /\ At(c, "write") /\ More(c)
    /\ Puts(c, Torn) \/ UNCHANGED dirs
    /\ call' = [call EXCEPT ![c].at = "undo"]
    /\ UNCHANGED <<world, parent>>

\* os.RemoveAll of the call's own directory.
Undo(c) ==
    /\ At(c, "undo")
    /\ dirs' = [dirs EXCEPT ![call[c].id] = NoDir]
    /\ End(c, "refused")
    /\ UNCHANGED <<world, parent>>

\* Removing stops part-way, because a file resists or the process is killed;
\* the error is ignored.
UndoStops(c) == \E o \in Names :
    /\ At(c, "undo")
    /\ dirs' = [dirs EXCEPT ![call[c].id].holds[o] = Missing]
    /\ End(c, "refused")
    /\ UNCHANGED <<world, parent>>

\* The process is killed; a file being written is left in part.
Stop(c) ==
    /\ call[c].at \notin {"idle", "undo", "answered", "refused", "stopped"}
    /\ \/ At(c, "write") /\ More(c) /\ Puts(c, Torn)
       \/ UNCHANGED dirs
    /\ call' = [call EXCEPT ![c] = [Idle EXCEPT
           !.at = "stopped", !.files = call[c].files, !.id = call[c].id]]
    /\ UNCHANGED <<world, parent>>

Step(c) ==
    \/ Begin(c) \/ Refuse(c) \/ CopyFile(c) \/ Load(c) \/ OverlayFails(c)
    \/ Validated(c) \/ Folder(c) \/ FolderRefused(c)
    \/ \E i \in Ids : MakeDir(c, i) \/ NameTaken(c, i)
    \/ Write(c) \/ Answer(c) \/ WriteFails(c) \/ Undo(c) \/ UndoStops(c) \/ Stop(c)

Next == Author \/ \E c \in Calls : Step(c)

Spec == Init /\ [][Next]_vars

-----------------------------------------------------------------------------
Texts ==
    {Missing, Torn} \cup {About(c) : c \in Calls}
    \cup {Authored(n) : n \in 1..MaxWrites}
    \cup UNION {{Proposed(r[i]) : i \in DOMAIN r} : r \in Requests}

Progress ==
    [at : {"idle", "copy", "loaded", "name", "write", "undo",
           "answered", "refused", "stopped"},
     tool : {"none", "validate", "propose"}, files : Requests \cup {<<>>},
     began : [Places -> 0..MaxWrites], copy : [Places -> Texts], todo : SUBSET Loads,
     id : Ids, tries : 0..(MaxTries - 1), done : Nat]

\* Every variable keeps to its kind, and a call writes no more than its
\* proposal has files.
TypeOK ==
    /\ world \in [Places -> 0..MaxWrites]
    /\ parent \in {"none", "folder", "link"}
    /\ dirs \in [Ids -> [made : BOOLEAN, holds : [Names -> Texts]]]
    /\ call \in [Calls -> Progress]
    /\ \A c \in Calls : call[c].done <= Len(writeProposal(call[c].files))

(***************************************************************************)
(* The promise of propose (propose.go:113-115): a call that answered has   *)
(* left its proposal whole in the directory it names, every file with the  *)
(* text it was given, and no other call, failure or clean-up ever spoils   *)
(* it, also where two spellings are one file.                              *)
(***************************************************************************)
WholeOf(c, d) ==
    LET in == dirs[d].holds
        r == call[c].files
    IN /\ \A i \in DOMAIN r : in[r[i].path.file] = Proposed(r[i])
       /\ in["proposal.json"] = About(c)
       /\ in["validation.txt"] = About(c)

AnsweredWhole ==
    \A c \in Calls :
        At(c, "answered") /\ call[c].tool = "propose" => WholeOf(c, call[c].id)

(***************************************************************************)
(* An author may trust a directory with a validation.txt of its own: it    *)
(* is written last (propose.go:482-500), so wherever a call was killed or  *)
(* failed, the rest of the proposal is there and is of the same call.      *)
(***************************************************************************)
WholeIfValidated ==
    \A i \in Ids, c \in Calls :
        dirs[i].holds["validation.txt"] = About(c) => WholeOf(c, i)

(***************************************************************************)
(* What validate and propose report is about the world the author would    *)
(* build with these files put in place (propose.go:161-163): every file    *)
(* given is one the world loader will read and was read with its own text, *)
(* and every other file in a version it had while the call ran.            *)
(***************************************************************************)
CheckedAsBuilt ==
    \A c \in Calls :
        At(c, "loaded") =>
            LET r == call[c].files
                found == Overlaid(call[c].copy, r)
                given == {r[i].path.file : i \in DOMAIN r}
            IN /\ given \subseteq Loads
               /\ \A i \in DOMAIN r : found[r[i].path.file] = Proposed(r[i])
               /\ \A p \in Loads \ given :
                    \E n \in call[c].began[p]..world[p] : found[p] = Authored(n)
=============================================================================
