--------------------------- MODULE ProjectsProofs ---------------------------
(***************************************************************************)
(* Projects, for any number of processes, folders and servers, and any     *)
(* template: what set-up, git and install leave of what others made, and   *)
(* the recent list, whoever else is at work in the folder, the config or   *)
(* the list meanwhile.                                                     *)
(***************************************************************************)
EXTENDS Projects, FiniteSetTheorems, SequenceTheorems, TLAPS

-----------------------------------------------------------------------------
(***************************************************************************)
(* The inductive invariants.                                               *)
(***************************************************************************)
Fields == {"at", "dir", "todo", "created", "written", "touched", "found", "list", "seen"}

Formed ==
    /\ DOMAIN cmd = Procs /\ \A p \in Procs : DOMAIN cmd[p] = Fields
    /\ \A p \in Procs : ~At(p, "idle") => Dir(p) \in Dirs
    /\ DOMAIN folder = Dirs
    /\ \A d \in Dirs : DOMAIN folder[d] = {"made", "subs", "file"} /\ DOMAIN folder[d].file = Names

\* The files a set-up has made stay its own, and the planned directories are
\* there or still to come, but for what another has changed.
SetUpInv ==
    \A p \in Procs : InSetup(p) =>
        /\ cmd[p].touched \subseteq cmd[p].written /\ cmd[p].written \subseteq Names
        /\ cmd[p].todo \subseteq DOMAIN Order
        /\ p \notin meddled /\ At(p, "setup") =>
              /\ \A n \in cmd[p].written : folder[Dir(p)].file[n] = "ours"
              /\ \A i \in DOMAIN Order :
                     Order[i].part = "base" /\ Order[i].sub # "" =>
                         i \in cmd[p].todo \/ Order[i].sub \in folder[Dir(p)].subs

\* What others entered is in the config, in the copy while an install writes
\* or after it was cut off, and in what an install is about to write, but for
\* the servers at risk.
Safe == had \ exposed

ConfigInv ==
    /\ DOMAIN config = {"file", "bak"} /\ DOMAIN cmd = Procs
    /\ \A p \in Procs : DOMAIN cmd[p] = Fields
    /\ config.file.is \in {"none", "json", "torn", "emptied"}
    /\ config.file.is = "none" => had = {}
    /\ config.file.is = "emptied" => config.file = EmptiedFile
    /\ config.file.is \in {"torn", "emptied"} => Safe \subseteq config.bak.servers
    /\ config.file.is \in {"none", "json"} => Safe \subseteq config.file.servers
    /\ \A p \in Procs : At(p, "merge") =>
           Safe \subseteq cmd[p].seen.servers /\ Safe \subseteq config.bak.servers

-----------------------------------------------------------------------------
(***************************************************************************)
(* What steps change.                                                      *)
(***************************************************************************)
LEMMA IdleOK == /\ DOMAIN Idle = Fields /\ Idle.at = "idle"
                /\ Idle.dir = CHOOSE d \in Dirs : TRUE
                /\ ~Idle.created /\ Idle.written = {} /\ Idle.touched = {}
                /\ Idle.todo = {} /\ Idle.found = ""
BY DEF Idle, Fields

LEMMA SetOK ==
    ASSUME Formed, NEW p \in Procs, NEW r, Set(p, r)
    PROVE  /\ cmd'[p] = r /\ DOMAIN cmd' = Procs
           /\ \A q \in Procs \ {p} : cmd'[q] = cmd[q]
BY DEF Formed, Set

\* One file of a folder is written, and its directory made.
Writes(d, e, x) == folder' = [folder EXCEPT ![d] = [InFolder(d, e) EXCEPT !.file[e.name] = x]]
MakesDir(d, e) == folder' = [folder EXCEPT ![d] = InFolder(d, e)]

Wrote(d, e, x) ==
    /\ DOMAIN folder' = Dirs
    /\ \A c \in Dirs \ {d} : folder'[c] = folder[c]
    /\ DOMAIN folder'[d] = {"made", "subs", "file"} /\ DOMAIN folder'[d].file = Names
    /\ folder'[d].made
    /\ folder[d].subs \subseteq folder'[d].subs
    /\ e.sub # "" => e.sub \in folder'[d].subs
    /\ \A n \in Names : folder'[d].file[n] = IF n = e.name THEN x ELSE folder[d].file[n]

LEMMA PutOK ==
    ASSUME Formed, NEW d \in Dirs, NEW e, NEW x, Writes(d, e, x)
    PROVE  Wrote(d, e, x)
<1> DEFINE f == InFolder(d, e)
           g == [f EXCEPT !.file[e.name] = x]
<1>1. DOMAIN folder = Dirs /\ DOMAIN folder[d] = {"made", "subs", "file"} /\ DOMAIN folder[d].file = Names
    BY DEF Formed
<1>2. folder' = [folder EXCEPT ![d] = g]
    BY DEF Writes
<1>3. /\ DOMAIN f = {"made", "subs", "file"} /\ f.made /\ f.file = folder[d].file
      /\ f.subs = IF e.sub = "" THEN folder[d].subs ELSE folder[d].subs \cup {e.sub}
    BY <1>1 DEF InFolder
<1> HIDE DEF f
<1>4. /\ DOMAIN g = {"made", "subs", "file"} /\ g.made = f.made /\ g.subs = f.subs
      /\ g.file = [f.file EXCEPT ![e.name] = x]
    BY <1>3
<1> HIDE DEF g
<1>5. folder'[d] = g /\ DOMAIN folder' = Dirs /\ \A c \in Dirs \ {d} : folder'[c] = folder[c]
    BY <1>1, <1>2
<1>6. DOMAIN g.file = Names /\ \A n \in Names : g.file[n] = IF n = e.name THEN x ELSE folder[d].file[n]
    BY <1>1, <1>3, <1>4
<1>7. g.made /\ folder[d].subs \subseteq g.subs /\ (e.sub # "" => e.sub \in g.subs)
    BY <1>3, <1>4
<1>8. DOMAIN g = {"made", "subs", "file"}
    BY <1>4
<1> QED
    BY <1>5, <1>6, <1>7, <1>8 DEF Wrote

\* A directory is made.
LEMMA MkdirOK ==
    ASSUME Formed, NEW d \in Dirs, NEW e, MakesDir(d, e)
    PROVE  /\ DOMAIN folder' = Dirs
           /\ \A c \in Dirs \ {d} : folder'[c] = folder[c]
           /\ DOMAIN folder'[d] = {"made", "subs", "file"} /\ folder'[d].file = folder[d].file
           /\ folder'[d].made
           /\ folder[d].subs \subseteq folder'[d].subs
           /\ e.sub # "" => e.sub \in folder'[d].subs
<1> DEFINE f == InFolder(d, e)
<1>1. DOMAIN folder = Dirs /\ DOMAIN folder[d] = {"made", "subs", "file"}
    BY DEF Formed
<1>2. /\ DOMAIN f = {"made", "subs", "file"} /\ f.made /\ f.file = folder[d].file
      /\ f.subs = IF e.sub = "" THEN folder[d].subs ELSE folder[d].subs \cup {e.sub}
    BY <1>1 DEF InFolder
<1>3. folder' = [folder EXCEPT ![d] = f]
    BY DEF MakesDir
<1> HIDE DEF f
<1> QED
    BY <1>1, <1>2, <1>3
-----------------------------------------------------------------------------
(***************************************************************************)
(* The kinds of steps, by what they do to folders and to set-ups.          *)
(***************************************************************************)
\* A command that is not a set-up, or the end of one, with no file made.
Quits(p) == folder' = folder /\ ~InSetup(p)'

SameJob(p) == cmd'[p].dir = cmd[p].dir /\ cmd'[p].created = cmd[p].created
Adds(p, e) == /\ cmd'[p].written = cmd[p].written \cup {e.name}
              /\ cmd'[p].touched = cmd[p].touched \cup {e.name}
AddsNone(p) == cmd'[p].written = cmd[p].written /\ cmd'[p].touched = cmd[p].touched

Begins(p) == \E d \in Dirs :
    /\ cmd'[p].at = "setup" /\ cmd'[p].dir = d
    /\ \A i \in DOMAIN Order : Order[i].part = "base" => i \in cmd'[p].todo
    /\ cmd'[p].todo \subseteq DOMAIN Order
    /\ cmd'[p].written = {} /\ cmd'[p].touched = {}
    /\ folder' = [folder EXCEPT ![d].made = TRUE]

Grows(p) == \E i \in cmd[p].todo :
    /\ At(p, "setup") /\ cmd'[p].at = "setup" /\ SameJob(p)
    /\ cmd'[p].todo = cmd[p].todo \ {i}
    /\ \/ /\ Order[i].file /\ folder[Dir(p)].file[Order[i].name] = "none"
          /\ Writes(Dir(p), Order[i], "ours") /\ Adds(p, Order[i])
       \/ ~Order[i].file /\ MakesDir(Dir(p), Order[i]) /\ AddsNone(p)

Spoils(p) == \E i \in cmd[p].todo :
    /\ At(p, "setup") /\ cmd'[p].at = "undo" /\ SameJob(p)
    /\ cmd'[p].todo = cmd[p].todo
    /\ Order[i].file /\ folder[Dir(p)].file[Order[i].name] = "none"
    /\ Writes(Dir(p), Order[i], "torn") /\ Adds(p, Order[i])

Refuses(p) ==
    /\ At(p, "setup") /\ cmd'[p].at = "undo" /\ SameJob(p) /\ AddsNone(p)
    /\ cmd'[p].todo = cmd[p].todo
    /\ folder' = folder \/ \E e : MakesDir(Dir(p), e)

Undoes(p) ==
    /\ At(p, "undo") /\ cmd'[p].at = "idle"
    /\ folder' = [folder EXCEPT ![Dir(p)] =
           IF cmd[p].created THEN Absent ELSE Without(@, cmd[p].written)]

Replaces(p) ==
    /\ At(p, "git") /\ GitMayWrite(p)
    /\ ~InSetup(p)'
    /\ \E x \in {"ours", "torn"} : Writes(Dir(p), GitEntry(p), x)

Kinds(p) ==
    \/ Quits(p) \/ Begins(p) \/ Grows(p) \/ Spoils(p) \/ Refuses(p) \/ Undoes(p) \/ Replaces(p)

Runs(p) ==
    \/ \E d \in Dirs : SetupBegin(p, d) \/ GitBegin(p, d) \/ InstallBegin(p, d) \/ MenuOpen(p, d)
    \/ SetupWrite(p) \/ SetupFails(p) \/ SetupRefused(p) \/ SetupUndo(p) \/ SetupEnd(p)
    \/ GitLook(p) \/ GitSkip(p) \/ GitAgree(p) \/ GitWrite(p) \/ GitFails(p)
    \/ InstallBackup(p) \/ BackupTears(p) \/ InstallWrite(p) \/ InstallTears(p) \/ InstallEnd(p)
    \/ RecentRead(p) \/ RecentWrite(p) \/ RecentTears(p) \/ Stop(p)

LEMMA Effects ==
    ASSUME Formed, NEW p \in Procs, Runs(p)
    PROVE  /\ Kinds(p)
           /\ DOMAIN cmd' = Procs /\ DOMAIN cmd'[p] = Fields
           /\ \A q \in Procs \ {p} : cmd'[q] = cmd[q]
           /\ cmd'[p].at # "idle" => cmd'[p].dir \in Dirs
<1> DEFINE c == cmd[p]
           n == cmd'[p]
           Well == DOMAIN n = Fields /\ (n.at # "idle" => n.dir \in Dirs)
<1>1. DOMAIN c = Fields /\ (~At(p, "idle") => Dir(p) \in Dirs)
    BY DEF Formed
<1>2. ASSUME NEW r, Set(p, r) PROVE n = r
    BY <1>2, SetOK
<1>3. ASSUME Done(p) PROVE n.at = "idle" /\ DOMAIN n = Fields
    BY <1>2, <1>3, IdleOK DEF Done
<1>4. ASSUME NEW d \in Dirs, SetupBegin(p, d) PROVE Begins(p) /\ Well
    <2>1. PICK parts \in Parts :
              /\ ~folder[d].made \/ IsEmpty(folder[d])
              /\ Start(p, [Idle EXCEPT !.at = "setup", !.dir = d, !.todo = Plan(parts),
                                          !.created = ~folder[d].made])
              /\ folder' = [folder EXCEPT ![d].made = TRUE]
        BY <1>4 DEF SetupBegin
    <2> DEFINE r == [Idle EXCEPT !.at = "setup", !.dir = d, !.todo = Plan(parts),
                                 !.created = ~folder[d].made]
    <2>2. /\ DOMAIN r = Fields /\ r.at = "setup" /\ r.dir = d /\ r.todo = Plan(parts)
          /\ r.written = {} /\ r.touched = {}
        BY DEF Idle, Fields
    <2>3. n = r
        BY <1>2, <2>1 DEF Start
    <2> HIDE DEF r
    <2>4. /\ \A i \in DOMAIN Order : Order[i].part = "base" => i \in Plan(parts)
          /\ Plan(parts) \subseteq DOMAIN Order
        BY DEF Parts, Plan
    <2> QED
        BY <2>1, <2>2, <2>3, <2>4 DEF Begins
<1>5. ASSUME NEW d \in Dirs, GitBegin(p, d) PROVE Quits(p) /\ Well
    <2>1. PICK parts \in {{"git"}, {"git", "ci"}} :
              Start(p, [Idle EXCEPT !.at = "git", !.dir = d, !.todo = Plan(parts)])
        BY <1>5 DEF GitBegin
    <2>2. n = [Idle EXCEPT !.at = "git", !.dir = d, !.todo = Plan(parts)]
        BY <1>2, <2>1 DEF Start
    <2>3. n.at = "git" /\ n.dir = d /\ n.found = "" /\ DOMAIN n = Fields
        BY <2>2 DEF Fields, Idle
    <2> QED
        BY <1>5, <2>3 DEF GitBegin, Quits, InSetup
<1>6. ASSUME NEW d \in Dirs, InstallBegin(p, d) \/ MenuOpen(p, d) PROVE Quits(p) /\ Well
    <2>1. /\ folder' = folder
          /\ \/ n = [Idle EXCEPT !.at = "ask", !.dir = d, !.seen = config.file]
             \/ n = [Idle EXCEPT !.at = "remember", !.dir = d]
        BY <1>2, <1>6 DEF InstallBegin, MenuOpen, Start
    <2>2. n.at \in {"ask", "remember"} /\ n.dir = d /\ DOMAIN n = Fields
        BY <2>1 DEF Fields, Idle
    <2> QED
        BY <2>1, <2>2 DEF Quits, InSetup
<1>7. ASSUME SetupWrite(p) PROVE Grows(p) /\ Well
    <2>1. PICK i \in Upcoming(p) :
              LET e == Order[i] IN
              /\ At(p, "setup")
              /\ e.file => folder[Dir(p)].file[e.name] = "none"
              /\ folder' = [folder EXCEPT ![Dir(p)] =
                     IF e.file THEN [InFolder(Dir(p), e) EXCEPT !.file[e.name] = "ours"]
                               ELSE InFolder(Dir(p), e)]
              /\ Set(p, [cmd[p] EXCEPT !.todo = @ \ {i},
                                       !.written = IF e.file THEN @ \cup {e.name} ELSE @,
                                       !.touched = IF e.file THEN @ \cup {e.name} ELSE @])
        BY <1>7 DEF SetupWrite
    <2> DEFINE e == Order[i]
               r == [c EXCEPT !.todo = @ \ {i},
                              !.written = IF e.file THEN @ \cup {e.name} ELSE @,
                              !.touched = IF e.file THEN @ \cup {e.name} ELSE @]
    <2>2. /\ DOMAIN r = Fields /\ r.at = c.at /\ r.dir = c.dir /\ r.created = c.created
          /\ r.todo = c.todo \ {i}
          /\ r.written = IF e.file THEN c.written \cup {e.name} ELSE c.written
          /\ r.touched = IF e.file THEN c.touched \cup {e.name} ELSE c.touched
        BY <1>1 DEF Fields
    <2>3. n = r
        BY <1>2, <2>1
    <2>4. /\ i \in c.todo /\ At(p, "setup") /\ Dir(p) \in Dirs
          /\ (e.file => folder[Dir(p)].file[e.name] = "none")
        BY <1>1, <2>1 DEF Upcoming, At
    <2> HIDE DEF r
    <2>5. n.at = "setup" /\ SameJob(p) /\ n.todo = c.todo \ {i} /\ Well
        BY <2>2, <2>3, <2>4 DEF SameJob, At, Dir
    <2>6. CASE e.file
        <3>1. Writes(Dir(p), e, "ours")
            BY <2>1, <2>6 DEF Writes
        <3> QED
            BY <2>2, <2>3, <2>4, <2>5, <2>6, <3>1 DEF Grows, Adds
    <2>7. CASE ~e.file
        <3>1. MakesDir(Dir(p), e)
            BY <2>1, <2>7 DEF MakesDir
        <3> QED
            BY <2>2, <2>3, <2>4, <2>5, <2>7, <3>1 DEF Grows, AddsNone
    <2> QED
        BY <2>6, <2>7
<1>8. ASSUME SetupFails(p) PROVE Spoils(p) /\ Well
    <2>1. PICK i \in Upcoming(p) :
              LET e == Order[i] IN
              /\ At(p, "setup") /\ e.file
              /\ folder[Dir(p)].file[e.name] = "none"
              /\ folder' = [folder EXCEPT ![Dir(p)] =
                     [InFolder(Dir(p), e) EXCEPT !.file[e.name] = "torn"]]
              /\ Set(p, [cmd[p] EXCEPT !.at = "undo", !.written = @ \cup {e.name},
                                       !.touched = @ \cup {e.name}])
        BY <1>8 DEF SetupFails
    <2> DEFINE e == Order[i]
               r == [c EXCEPT !.at = "undo", !.written = @ \cup {e.name},
                              !.touched = @ \cup {e.name}]
    <2>2. /\ DOMAIN r = Fields /\ r.at = "undo" /\ r.dir = c.dir /\ r.created = c.created
          /\ r.todo = c.todo
          /\ r.written = c.written \cup {e.name} /\ r.touched = c.touched \cup {e.name}
        BY <1>1 DEF Fields
    <2>3. n = r
        BY <1>2, <2>1
    <2>4. /\ i \in c.todo /\ At(p, "setup") /\ Dir(p) \in Dirs
          /\ e.file /\ folder[Dir(p)].file[e.name] = "none"
        BY <1>1, <2>1 DEF Upcoming, At
    <2> HIDE DEF r
    <2>5. Writes(Dir(p), e, "torn")
        BY <2>1 DEF Writes
    <2> QED
        BY <2>2, <2>3, <2>4, <2>5 DEF Spoils, SameJob, Adds, Dir
<1>9. ASSUME SetupRefused(p) PROVE Refuses(p) /\ Well
    <2>1. n = [c EXCEPT !.at = "undo"] /\ At(p, "setup")
          /\ (folder' = folder \/ \E e : MakesDir(Dir(p), e))
        BY <1>2, <1>9 DEF SetupRefused, MakesDir
    <2> QED
        BY <1>1, <2>1 DEF Fields, Idle, Refuses, SameJob, AddsNone, At, Dir
<1>10. ASSUME SetupUndo(p) PROVE Undoes(p) /\ Well
    BY <1>3, <1>10 DEF SetupUndo, Undoes
<1>11. ASSUME SetupEnd(p) PROVE Quits(p) /\ Well
    <2>1. ASSUME Set(p, [Idle EXCEPT !.at = "remember", !.dir = Dir(p)])
          PROVE  n.at = "remember" /\ n.dir = Dir(p) /\ DOMAIN n = Fields
        BY <1>2, <2>1 DEF Fields, Idle
    <2> QED
        BY <1>1, <1>3, <1>11, <2>1 DEF SetupEnd, Quits, InSetup, At
<1>12. ASSUME GitNext(p), At(p, "git")
       PROVE  Well /\ ~InSetup(p)'
    <2>1. n = Idle \/ n = [c EXCEPT !.todo = c.todo \ Upcoming(p), !.found = ""]
        BY <1>2, <1>12 DEF GitNext
    <2>2. CASE n = Idle
        BY <2>2, IdleOK DEF InSetup
    <2>3. CASE n = [c EXCEPT !.todo = c.todo \ Upcoming(p), !.found = ""]
        <3>1. DOMAIN n = Fields /\ n.at = c.at /\ n.dir = c.dir
            BY <1>1, <2>3 DEF Fields
        <3> QED
            BY <1>1, <1>12, <3>1 DEF InSetup, At, Dir
    <2> QED
        BY <2>1, <2>2, <2>3
<1>13. ASSUME GitLook(p) PROVE Quits(p) /\ Well
    <2>1. n = [c EXCEPT !.found = folder[Dir(p)].file[GitEntry(p).name]] /\ At(p, "git")
        BY <1>2, <1>13 DEF GitLook, GitFound
    <2> QED
        BY <1>1, <1>13, <2>1 DEF Fields, GitLook, Quits, InSetup, At, Dir
<1>14. ASSUME GitSkip(p) PROVE Quits(p) /\ Well
    BY <1>12, <1>14 DEF GitSkip, GitFound, Quits
<1>15. ASSUME GitAgree(p) PROVE Quits(p) /\ Well
    <2>1. n = [c EXCEPT !.found = "agreed"] /\ At(p, "git")
        BY <1>2, <1>15 DEF GitAgree, GitFound
    <2> QED
        BY <1>1, <1>15, <2>1 DEF Fields, GitAgree, Quits, InSetup, At, Dir
<1>16. ASSUME GitWrite(p) PROVE Replaces(p) /\ Well
    BY <1>12, <1>16 DEF GitWrite, GitMayWrite, GitFound, Replaces, Writes
<1>17. ASSUME GitFails(p) PROVE (Replaces(p) \/ Quits(p)) /\ Well
    BY <1>3, <1>17 DEF GitFails, GitMayWrite, GitFound, Replaces, Writes, Quits, InSetup
<1>18. ASSUME InstallBackup(p) PROVE Quits(p) /\ Well
    <2>1. n = [c EXCEPT !.at = "merge", !.seen = ReadAgain(p)] /\ At(p, "ask") /\ folder' = folder
        BY <1>2, <1>18 DEF InstallBackup
    <2> QED
        BY <1>1, <2>1 DEF Fields, Idle, Quits, InSetup, At, Dir
<1>19. ASSUME RecentRead(p) PROVE Quits(p) /\ Well
    <2>1. n = [c EXCEPT !.at = "list", !.list = Remembered(Dir(p), LoadRecent)]
          /\ At(p, "remember") /\ folder' = folder
        BY <1>2, <1>19 DEF RecentRead
    <2> QED
        BY <1>1, <2>1 DEF Fields, Idle, Quits, InSetup, At, Dir
<1>20. ASSUME BackupTears(p) \/ InstallWrite(p) \/ InstallTears(p) \/ InstallEnd(p) \/ RecentWrite(p)
              \/ RecentTears(p) \/ Stop(p)
       PROVE  Quits(p) /\ Well
    <2>1. Done(p) /\ folder' = folder
        BY <1>20 DEF BackupTears, InstallWrite, InstallTears, InstallEnd, RecentWrite, RecentTears, Stop
    <2> QED
        BY <1>3, <2>1 DEF Quits, InSetup
<1> HIDE DEF Well
<1>21. Kinds(p) /\ Well
    BY <1>4, <1>5, <1>6, <1>7, <1>8, <1>9, <1>10, <1>11, <1>13, <1>14, <1>15, <1>16, <1>17, <1>18,
       <1>19, <1>20 DEF Runs, Kinds
<1>22. Well => DOMAIN n = Fields /\ (n.at # "idle" => n.dir \in Dirs)
    BY DEF Well
<1>23. \E r : Set(p, r)
    BY DEF Runs, SetupBegin, GitBegin, InstallBegin, MenuOpen, Start, SetupWrite, SetupFails, SetupRefused,
       SetupUndo, SetupEnd, GitLook, GitSkip, GitAgree, GitWrite, GitFails, GitNext, InstallBackup,
       BackupTears, InstallWrite, InstallTears, InstallEnd, RecentRead, RecentWrite, RecentTears, Stop, Done
<1> QED
    BY <1>21, <1>22, <1>23, SetOK
-----------------------------------------------------------------------------
(***************************************************************************)
(* Folders that are made, cleared and removed.                             *)
(***************************************************************************)
LEMMA AbsentOK ==
    /\ DOMAIN Absent = {"made", "subs", "file"} /\ DOMAIN Absent.file = Names
    /\ ~Absent.made /\ Absent.subs = {} /\ \A n \in Names : Absent.file[n] = "none"
BY DEF Absent

LEMMA MadeOK ==
    ASSUME Formed, NEW d \in Dirs, folder' = [folder EXCEPT ![d].made = TRUE]
    PROVE  /\ DOMAIN folder' = Dirs
           /\ \A c \in Dirs \ {d} : folder'[c] = folder[c]
           /\ DOMAIN folder'[d] = {"made", "subs", "file"} /\ folder'[d].made
           /\ folder'[d].subs = folder[d].subs /\ folder'[d].file = folder[d].file
BY DEF Formed

LEMMA ClearedOK ==
    ASSUME Formed, NEW p \in Procs, Undoes(p), ~cmd[p].created
    PROVE  /\ DOMAIN folder' = Dirs
           /\ \A c \in Dirs \ {Dir(p)} : folder'[c] = folder[c]
           /\ DOMAIN folder'[Dir(p)] = {"made", "subs", "file"} /\ DOMAIN folder'[Dir(p)].file = Names
           /\ folder'[Dir(p)].made = folder[Dir(p)].made
           /\ folder'[Dir(p)].subs = folder[Dir(p)].subs
           /\ \A n \in Names : folder'[Dir(p)].file[n] =
                  IF n \in cmd[p].written THEN "none" ELSE folder[Dir(p)].file[n]
<1>1. DOMAIN folder = Dirs /\ Dir(p) \in Dirs /\ DOMAIN folder[Dir(p)] = {"made", "subs", "file"}
    BY DEF Formed, Undoes, At
<1> DEFINE g == Without(folder[Dir(p)], cmd[p].written)
<1>2. folder' = [folder EXCEPT ![Dir(p)] = g]
    BY DEF Undoes
<1>3. /\ DOMAIN g = {"made", "subs", "file"} /\ DOMAIN g.file = Names
      /\ g.made = folder[Dir(p)].made /\ g.subs = folder[Dir(p)].subs
      /\ \A n \in Names : g.file[n] = IF n \in cmd[p].written THEN "none" ELSE folder[Dir(p)].file[n]
    BY <1>1 DEF Without
<1> QED
    BY <1>1, <1>2, <1>3

LEMMA RemovedOK ==
    ASSUME Formed, NEW d \in Dirs, NEW f, folder' = [folder EXCEPT ![d] = f]
    PROVE  /\ DOMAIN folder' = Dirs /\ folder'[d] = f
           /\ \A c \in Dirs \ {d} : folder'[c] = folder[c]
BY DEF Formed

-----------------------------------------------------------------------------
\* What a command changes of a file, and of which.
Changes(p, d, n) ==
    \/ folder'[d].file[n] = folder[d].file[n]
    \/ /\ d = Dir(p)
       /\ \/ /\ At(p, "setup") /\ folder[d].file[n] = "none"
             /\ folder'[d].file[n] \in {"ours", "torn"}
          \/ /\ At(p, "undo") /\ (cmd[p].created \/ n \in cmd[p].written)
             /\ folder'[d].file[n] = "none"
          \/ /\ At(p, "git") /\ GitMayWrite(p) /\ GitEntry(p).name = n
             /\ folder'[d].file[n] \in {"ours", "torn"}

LEMMA FileChanges ==
    ASSUME Formed, NEW p \in Procs, NEW d \in Dirs, NEW n \in Names,
           Kinds(p)
    PROVE  Changes(p, d, n)
<1>1. ~At(p, "idle") => Dir(p) \in Dirs
    BY DEF Formed
<1>2. ASSUME NEW e, MakesDir(Dir(p), e), Dir(p) \in Dirs PROVE Changes(p, d, n)
    <2>2. folder'[Dir(p)].file = folder[Dir(p)].file
          /\ \A c \in Dirs \ {Dir(p)} : folder'[c] = folder[c]
        BY <1>2, MkdirOK
    <2> QED
        BY <2>2 DEF Changes
<1>3. ASSUME NEW c \in Dirs, NEW e, NEW x \in {"ours", "torn"}, Writes(c, e, x)
      PROVE  \/ folder'[d].file[n] = folder[d].file[n]
             \/ d = c /\ n = e.name /\ folder'[d].file[n] = x
    <2>1. Wrote(c, e, x)
        BY <1>3, PutOK
    <2> QED
        BY <2>1 DEF Wrote
<1>4. CASE Begins(p)
    <2>1. PICK c \in Dirs : folder' = [folder EXCEPT ![c].made = TRUE]
        BY <1>4 DEF Begins
    <2>2. folder'[c].file = folder[c].file /\ \A b \in Dirs \ {c} : folder'[b] = folder[b]
        BY <2>1, MadeOK
    <2> QED
        BY <2>2 DEF Changes
<1>5. CASE Grows(p)
    <2>1. PICK i \in cmd[p].todo :
              /\ At(p, "setup")
              /\ \/ folder[Dir(p)].file[Order[i].name] = "none" /\ Writes(Dir(p), Order[i], "ours")
                 \/ MakesDir(Dir(p), Order[i])
        BY <1>5 DEF Grows
    <2>2. Dir(p) \in Dirs
        BY <1>1, <2>1 DEF At
    <2> QED
        BY <1>2, <1>3, <2>1, <2>2 DEF Changes
<1>6. CASE Spoils(p)
    <2>1. PICK i \in cmd[p].todo :
              /\ At(p, "setup")
              /\ folder[Dir(p)].file[Order[i].name] = "none" /\ Writes(Dir(p), Order[i], "torn")
        BY <1>6 DEF Spoils
    <2>2. Dir(p) \in Dirs
        BY <1>1, <2>1 DEF At
    <2> QED
        BY <1>3, <2>1, <2>2 DEF Changes
<1>7. CASE Refuses(p)
    <2>1. Dir(p) \in Dirs
        BY <1>1, <1>7 DEF Refuses, At
    <2>2. CASE folder' = folder
        BY <2>2 DEF Changes
    <2>3. CASE \E e : MakesDir(Dir(p), e)
        BY <1>2, <2>1, <2>3
    <2> QED
        BY <1>7, <2>2, <2>3 DEF Refuses
<1>8. CASE Undoes(p)
    <2>1. Dir(p) \in Dirs /\ At(p, "undo")
        BY <1>1, <1>8 DEF Undoes, At
    <2>2. CASE cmd[p].created
        <3>1. folder' = [folder EXCEPT ![Dir(p)] = Absent]
            BY <1>8, <2>2 DEF Undoes
        <3>2. folder'[Dir(p)] = Absent /\ \A c \in Dirs \ {Dir(p)} : folder'[c] = folder[c]
            BY <2>1, <3>1, RemovedOK
        <3> QED
            BY <2>1, <2>2, <3>2, AbsentOK DEF Changes
    <2>3. CASE ~cmd[p].created
        <3>1. /\ \A c \in Dirs \ {Dir(p)} : folder'[c] = folder[c]
              /\ folder'[Dir(p)].file[n] =
                     IF n \in cmd[p].written THEN "none" ELSE folder[Dir(p)].file[n]
            BY <1>8, <2>3, ClearedOK
        <3> QED
            BY <2>1, <3>1 DEF Changes
    <2> QED
        BY <2>2, <2>3
<1>9. CASE Replaces(p)
    <2>1. PICK x \in {"ours", "torn"} : Writes(Dir(p), GitEntry(p), x)
        BY <1>9 DEF Replaces
    <2>2. Dir(p) \in Dirs /\ At(p, "git") /\ GitMayWrite(p)
        BY <1>1, <1>9 DEF Replaces, At
    <2> QED
        BY <1>3, <2>1, <2>2 DEF Changes
<1>10. CASE Quits(p)
    BY <1>10 DEF Quits, Changes
<1> QED
    BY <1>4, <1>5, <1>6, <1>7, <1>8, <1>9, <1>10 DEF Kinds

-----------------------------------------------------------------------------
(***************************************************************************)
(* What writers and other programs do.                                     *)
(***************************************************************************)
Writer ==
    \/ \E d \in Dirs : \/ \E n \in Names : WriterPuts(d, n)
                       \/ WriterMakes(d) \/ WriterRemoves(d)
    \/ \E server \in Others : ProgramPuts(server)

LEMMA Steps == Next => Writer \/ \E p \in Procs : Runs(p)
BY DEF Next, Moves, Writer, Runs

\* Every folder keeps the fields of a folder.
Folders ==
    /\ DOMAIN folder = Dirs
    /\ \A d \in Dirs : DOMAIN folder[d] = {"made", "subs", "file"} /\ DOMAIN folder[d].file = Names

LEMMA WriterFolders ==
    ASSUME Formed, Writer
    PROVE  Folders' /\ cmd' = cmd
<1>1. Folders
    BY DEF Formed, Folders
<1>2. cmd' = cmd
    BY DEF Writer, WriterPuts, WriterMakes, WriterRemoves, ProgramPuts
<1>3. ASSUME NEW c \in Dirs, NEW n \in Names, WriterPuts(c, n) PROVE Folders'
    <2>1. PICK to : folder' = [folder EXCEPT ![c].file[n] = to]
        BY <1>3 DEF WriterPuts
    <2> DEFINE f == folder[c]
               g == [f EXCEPT !.file[n] = to]
    <2>2. folder' = [folder EXCEPT ![c] = g]
        BY <2>1
    <2>3. DOMAIN f = {"made", "subs", "file"} /\ DOMAIN f.file = Names
        BY <1>1 DEF Folders
    <2> HIDE DEF f
    <2>4. DOMAIN g = {"made", "subs", "file"} /\ g.file = [f.file EXCEPT ![n] = to]
        BY <2>3
    <2> HIDE DEF g
    <2>5. DOMAIN g.file = Names
        BY <2>3, <2>4
    <2> QED
        BY <1>1, <2>2, <2>4, <2>5 DEF Folders
<1>4. ASSUME NEW c \in Dirs, WriterMakes(c) \/ WriterRemoves(c) PROVE Folders'
    <2>1. PICK f \in {Empty, Absent} : folder' = [folder EXCEPT ![c] = f]
        BY <1>4 DEF WriterMakes, WriterRemoves
    <2>2. DOMAIN f = {"made", "subs", "file"} /\ DOMAIN f.file = Names
        BY AbsentOK DEF Empty
    <2> QED
        BY <1>1, <2>1, <2>2 DEF Folders
<1>5. ASSUME NEW server \in Others, ProgramPuts(server) PROVE Folders'
    BY <1>1, <1>5 DEF ProgramPuts, Folders
<1> QED
    BY <1>2, <1>3, <1>4, <1>5 DEF Writer

LEMMA KindsFolders ==
    ASSUME Formed, NEW p \in Procs, Kinds(p)
    PROVE  Folders'
<1>1. Folders /\ (~At(p, "idle") => Dir(p) \in Dirs)
    BY DEF Formed, Folders
<1>2. ASSUME folder' = folder PROVE Folders'
    BY <1>1, <1>2 DEF Folders
<1>3. ASSUME NEW d \in Dirs, NEW e, NEW x \in {"ours", "torn"}, Writes(d, e, x) PROVE Folders'
    <2>1. Wrote(d, e, x)
        BY <1>3, PutOK
    <2> QED
        BY <1>1, <2>1 DEF Wrote, Folders
<1>4. ASSUME NEW d \in Dirs, NEW e, MakesDir(d, e) PROVE Folders'
    <2>1. /\ DOMAIN folder' = Dirs
          /\ \A c \in Dirs \ {d} : folder'[c] = folder[c]
          /\ DOMAIN folder'[d] = {"made", "subs", "file"} /\ folder'[d].file = folder[d].file
        BY <1>4, MkdirOK
    <2> QED
        BY <1>1, <2>1 DEF Folders
<1>5. CASE Begins(p)
    <2>1. PICK d \in Dirs : folder' = [folder EXCEPT ![d].made = TRUE]
        BY <1>5 DEF Begins
    <2> QED
        BY <1>1, <2>1, MadeOK DEF Folders
<1>6. CASE Undoes(p)
    <2>1. Dir(p) \in Dirs
        BY <1>1, <1>6 DEF Undoes, At
    <2>2. CASE cmd[p].created
        <3>1. folder' = [folder EXCEPT ![Dir(p)] = Absent]
            BY <1>6, <2>2 DEF Undoes
        <3> QED
            BY <1>1, <2>1, <3>1, RemovedOK, AbsentOK DEF Folders
    <2>3. CASE ~cmd[p].created
        BY <1>1, <1>6, <2>1, <2>3, ClearedOK DEF Folders
    <2> QED
        BY <2>2, <2>3
<1>7. CASE Grows(p) \/ Spoils(p) \/ Refuses(p) \/ Replaces(p)
    <2>1. Dir(p) \in Dirs
        BY <1>1, <1>7 DEF Grows, Spoils, Refuses, Replaces, At
    <2>2. \/ folder' = folder \/ \E e : MakesDir(Dir(p), e)
          \/ \E x \in {"ours", "torn"} : \E e : Writes(Dir(p), e, x)
        BY <1>7 DEF Grows, Spoils, Refuses, Replaces
    <2>3. CASE \E e : MakesDir(Dir(p), e)
        <3>1. PICK e : MakesDir(Dir(p), e)
            BY <2>3
        <3> QED
            BY <1>4, <2>1, <3>1
    <2>4. CASE \E x \in {"ours", "torn"} : \E e : Writes(Dir(p), e, x)
        <3>1. PICK x \in {"ours", "torn"} : \E e : Writes(Dir(p), e, x)
            BY <2>4
        <3>2. PICK e : Writes(Dir(p), e, x)
            BY <3>1
        <3> QED
            BY <1>3, <2>1, <3>2
    <2> QED
        BY <1>2, <2>2, <2>3, <2>4
<1>8. CASE Quits(p)
    BY <1>2, <1>8 DEF Quits
<1> QED
    BY <1>5, <1>6, <1>7, <1>8 DEF Kinds

LEMMA FormedStep == Formed /\ [Next]_vars => Formed'
<1> SUFFICES ASSUME Formed, [Next]_vars PROVE Formed'
    OBVIOUS
<1>1. CASE Writer
    BY <1>1, WriterFolders DEF Formed, Folders, At, Dir
<1>2. ASSUME NEW p \in Procs, Runs(p) PROVE Formed'
    <2>1. /\ DOMAIN cmd' = Procs /\ DOMAIN cmd'[p] = Fields
          /\ \A q \in Procs \ {p} : cmd'[q] = cmd[q]
          /\ cmd'[p].at # "idle" => cmd'[p].dir \in Dirs
          /\ Kinds(p)
        BY <1>2, Effects
    <2>2. Folders'
        BY <2>1, KindsFolders
    <2> QED
        BY <2>1, <2>2 DEF Formed, Folders, At, Dir
<1>3. CASE UNCHANGED vars
    BY <1>3 DEF Formed, vars, shared, At, Dir
<1> QED
    BY <1>1, <1>2, <1>3, Steps

-----------------------------------------------------------------------------
(***************************************************************************)
(* Set-ups.                                                                *)
(***************************************************************************)
\* What SetUpInv says of one process.
Own(p) ==
    InSetup(p) =>
        /\ cmd[p].touched \subseteq cmd[p].written /\ cmd[p].written \subseteq Names
        /\ cmd[p].todo \subseteq DOMAIN Order
        /\ p \notin meddled /\ At(p, "setup") =>
              /\ \A n \in cmd[p].written : folder[Dir(p)].file[n] = "ours"
              /\ \A i \in DOMAIN Order :
                     Order[i].part = "base" /\ Order[i].sub # "" =>
                         i \in cmd[p].todo \/ Order[i].sub \in folder[Dir(p)].subs

\* A set-up that is not meddled with keeps what it has made, whatever the
\* others do.
LEMMA OthersKeep ==
    ASSUME NEW q \in Procs, Own(q), cmd'[q] = cmd[q],
           meddled' = {p \in Procs : InSetup(p)' /\ (p \in meddled \/ (InSetup(p) /\ Meddling(p)))}
    PROVE  Own(q)'
<1>1. (InSetup(q)' <=> InSetup(q)) /\ (At(q, "setup")' <=> At(q, "setup")) /\ Dir(q)' = Dir(q)
    BY DEF InSetup, At, Dir
<1>2. InSetup(q)' /\ q \notin meddled' => q \notin meddled /\ ~Meddling(q)
    BY <1>1
<1>3. ~Meddling(q) =>
          /\ \A n \in cmd[q].written : folder'[Dir(q)].file[n] = folder[Dir(q)].file[n]
          /\ folder[Dir(q)].subs \subseteq folder'[Dir(q)].subs
    BY DEF Meddling
<1> QED
    BY <1>1, <1>2, <1>3 DEF Own

\* A set-up's own step.
LEMMA OwnStep ==
    ASSUME Formed, NEW p \in Procs, Own(p), Kinds(p), InSetup(p)',
           meddled' = {q \in Procs : InSetup(q)' /\ (q \in meddled \/ (InSetup(q) /\ Meddling(q)))}
    PROVE  Own(p)'
<1> DEFINE n == cmd'[p]
           Kept == p \notin meddled' /\ n.at = "setup" =>
                      /\ \A m \in n.written : folder'[n.dir].file[m] = "ours"
                      /\ \A i \in DOMAIN Order :
                             Order[i].part = "base" /\ Order[i].sub # "" =>
                                 i \in n.todo \/ Order[i].sub \in folder'[n.dir].subs
           Names3 == /\ n.touched \subseteq n.written /\ n.written \subseteq Names
                     /\ n.todo \subseteq DOMAIN Order
<1>1. Names3 /\ Kept => Own(p)'
    BY DEF Own, At, Dir
<1>2. CASE Begins(p)
    BY <1>1, <1>2 DEF Begins
<1>3. CASE Grows(p) \/ Spoils(p) \/ Refuses(p)
    <2>1. /\ At(p, "setup") /\ InSetup(p) /\ Dir(p) \in Dirs /\ n.dir = Dir(p)
          /\ n.todo \subseteq cmd[p].todo
        BY <1>3 DEF Grows, Spoils, Refuses, SameJob, Formed, InSetup, At, Dir
    <2>2. /\ cmd[p].touched \subseteq cmd[p].written /\ cmd[p].written \subseteq Names
          /\ cmd[p].todo \subseteq DOMAIN Order
        BY <2>1 DEF Own
    <2>3. p \notin meddled' => p \notin meddled
        OBVIOUS
    <2>4. p \notin meddled' =>
              /\ \A m \in cmd[p].written : folder[Dir(p)].file[m] = "ours"
              /\ \A i \in DOMAIN Order :
                     Order[i].part = "base" /\ Order[i].sub # "" =>
                         i \in cmd[p].todo \/ Order[i].sub \in folder[Dir(p)].subs
        BY <2>1, <2>3 DEF Own
    <2>5. Names3
        <3>1. \A i \in cmd[p].todo : Order[i].file => Order[i].name \in Names
            BY <2>2 DEF Names
        <3>2. AddsNone(p) \/ \E i \in cmd[p].todo : Order[i].file /\ Adds(p, Order[i])
            BY <1>3 DEF Grows, Spoils, Refuses
        <3> QED
            BY <2>1, <2>2, <3>1, <3>2 DEF Adds, AddsNone
    <2>6. CASE ~Grows(p)
        BY <1>1, <1>3, <2>5, <2>6 DEF Spoils, Refuses
    <2>7. CASE Grows(p)
        <3>1. PICK i \in cmd[p].todo :
                  /\ n.todo = cmd[p].todo \ {i}
                  /\ \/ Writes(Dir(p), Order[i], "ours") /\ Adds(p, Order[i])
                     \/ MakesDir(Dir(p), Order[i]) /\ AddsNone(p)
            BY <2>7 DEF Grows
        <3>2. /\ folder[Dir(p)].subs \subseteq folder'[Dir(p)].subs
              /\ Order[i].sub # "" => Order[i].sub \in folder'[Dir(p)].subs
              /\ \A m \in n.written :
                     folder'[Dir(p)].file[m] = "ours"
                     \/ (m \in cmd[p].written /\ folder'[Dir(p)].file[m] = folder[Dir(p)].file[m])
            <4>1. CASE Writes(Dir(p), Order[i], "ours") /\ Adds(p, Order[i])
                <5>1. Wrote(Dir(p), Order[i], "ours")
                    BY <2>1, <4>1, PutOK
                <5>2. \A m \in n.written : m \in Names /\ (m = Order[i].name \/ m \in cmd[p].written)
                    BY <2>5, <4>1 DEF Adds
                <5> QED
                    BY <5>1, <5>2 DEF Wrote
            <4>2. CASE MakesDir(Dir(p), Order[i]) /\ AddsNone(p)
                BY <2>1, <4>2, MkdirOK DEF AddsNone
            <4> QED
                BY <3>1, <4>1, <4>2
        <3>3. Kept
            <4>1. SUFFICES ASSUME p \notin meddled'
                           PROVE  /\ \A m \in n.written : folder'[n.dir].file[m] = "ours"
                                  /\ \A j \in DOMAIN Order :
                                         Order[j].part = "base" /\ Order[j].sub # "" =>
                                             j \in n.todo \/ Order[j].sub \in folder'[n.dir].subs
                OBVIOUS
            <4>2. \A m \in n.written : folder'[n.dir].file[m] = "ours"
                BY <2>1, <2>4, <3>2, <4>1
            <4>3. ASSUME NEW j \in DOMAIN Order, Order[j].part = "base", Order[j].sub # "", j \notin n.todo
                  PROVE  Order[j].sub \in folder'[n.dir].subs
                BY <2>1, <2>4, <3>1, <3>2, <4>1, <4>3
            <4> QED
                BY <4>2, <4>3
        <3> QED
            BY <1>1, <2>5, <3>3
    <2> QED
        BY <2>6, <2>7
<1> QED
    BY <1>2, <1>3 DEF Kinds, Quits, Undoes, Replaces, InSetup

LEMMA SetUpStep == Formed /\ SetUpInv /\ [Next]_vars => SetUpInv'
<1> SUFFICES ASSUME Formed, SetUpInv, [Next]_vars PROVE SetUpInv'
    OBVIOUS
<1>1. \A q \in Procs : Own(q)
    BY DEF SetUpInv, Own
<1>2. (\A q \in Procs : Own(q)') => SetUpInv'
    BY DEF SetUpInv, Own
<1>3. CASE Next
    <2>1. meddled' = {q \in Procs : InSetup(q)' /\ (q \in meddled \/ (InSetup(q) /\ Meddling(q)))}
        BY <1>3 DEF Next
    <2>2. CASE Writer
        BY <1>1, <1>2, <2>1, <2>2, WriterFolders, OthersKeep
    <2>3. ASSUME NEW p \in Procs, Runs(p) PROVE SetUpInv'
        <3>1. \A q \in Procs \ {p} : Own(q)'
            BY <1>1, <2>1, <2>3, Effects, OthersKeep
        <3>2. InSetup(p)' => Own(p)'
            BY <1>1, <2>1, <2>3, Effects, OwnStep
        <3>3. ~InSetup(p)' => Own(p)'
            BY DEF Own
        <3> QED
            BY <1>2, <3>1, <3>2, <3>3
    <2> QED
        BY <1>3, <2>2, <2>3, Steps
<1>4. CASE UNCHANGED vars
    BY <1>4 DEF SetUpInv, vars, shared, InSetup, At, Dir
<1> QED
    BY <1>3, <1>4

LEMMA PlacesInit == Init => Formed /\ SetUpInv
<1> SUFFICES ASSUME Init PROVE Formed /\ SetUpInv
    OBVIOUS
<1>1. /\ \A d \in Dirs : folder[d] = Absent /\ \A p \in Procs : cmd[p] = Idle
      /\ DOMAIN folder = Dirs /\ DOMAIN cmd = Procs
    BY DEF Init
<1>2. \A p \in Procs : cmd[p].at = "idle" /\ DOMAIN cmd[p] = Fields
    BY IdleOK DEF Init
<1>3. \A p \in Procs : At(p, "idle") /\ ~InSetup(p)
    BY <1>2 DEF At, InSetup
<1>4. Formed
    BY <1>1, <1>2, <1>3, AbsentOK DEF Formed
<1> QED
    BY <1>3, <1>4 DEF SetUpInv

LEMMA PlacesAlways == Spec => [](Formed /\ SetUpInv)
<1>1. Formed /\ SetUpInv /\ [Next]_vars => (Formed /\ SetUpInv)'
    BY FormedStep, SetUpStep
<1> QED
    BY PlacesInit, <1>1, PTL DEF Spec

-----------------------------------------------------------------------------
(***************************************************************************)
(* The theorems.                                                           *)
(***************************************************************************)
(***************************************************************************)
(* Whatever processes run in one folder, and whatever writers do there     *)
(* between their steps, no command takes a writer's file but git, on a yes *)
(* or in the place where its look found none, and the clean-up of a        *)
(* set-up, in a folder it made or in the place of a file it wrote          *)
(* (git.go:29-31, scaffold.go:88-89).                                      *)
(***************************************************************************)
THEOREM TheirsAlways == Spec => TheirsKept
<1> DEFINE Kept == \A d \in Dirs, n \in Names :
                       folder[d].file[n] = "theirs" /\ folder'[d].file[n] # "theirs" =>
                           \/ others' # others
                           \/ \E p \in Procs :
                                 /\ Dir(p) = d
                                 /\ \/ GitFound(p, {"agreed", "none"}) /\ GitEntry(p).name = n
                                    \/ At(p, "undo") /\ (cmd[p].created \/ n \in cmd[p].written)
<1>1. ASSUME Formed, others \in Nat, [Next]_vars PROVE [Kept]_vars
    <2>1. CASE UNCHANGED vars
        BY <2>1
    <2>2. CASE Writer
        BY <1>1, <2>2 DEF Writer, WriterPuts, WriterMakes, WriterRemoves, ProgramPuts, Other
    <2>3. ASSUME NEW p \in Procs, Runs(p) PROVE Kept
        <3>1. SUFFICES ASSUME NEW d \in Dirs, NEW n \in Names,
                              folder[d].file[n] = "theirs", folder'[d].file[n] # "theirs"
                       PROVE  /\ Dir(p) = d
                              /\ \/ GitFound(p, {"agreed", "none"}) /\ GitEntry(p).name = n
                                 \/ At(p, "undo") /\ (cmd[p].created \/ n \in cmd[p].written)
            OBVIOUS
        <3>2. Changes(p, d, n)
            BY <1>1, <2>3, Effects, FileChanges
        <3> QED
            BY <3>1, <3>2 DEF Changes, GitMayWrite, GitFound
    <2> QED
        BY <1>1, <2>1, <2>2, <2>3, Steps
<1>2. Init => others \in Nat
    BY DEF Init
<1>3. others \in Nat /\ [Next]_vars => (others \in Nat)'
    <2> SUFFICES ASSUME others \in Nat, [Next]_vars PROVE others' \in Nat
        OBVIOUS
    <2>1. CASE Writer
        BY <2>1 DEF Writer, WriterPuts, WriterMakes, WriterRemoves, ProgramPuts, Other
    <2>2. CASE others' = others
        BY <2>2
    <2>3. ASSUME NEW p \in Procs, Runs(p) PROVE others' = others
        BY <2>3 DEF Runs, SetupBegin, GitBegin, InstallBegin, MenuOpen, Start, SetupWrite, SetupFails,
           SetupRefused, SetupUndo, SetupEnd, GitLook, GitSkip, GitAgree, GitWrite, GitFails,
           InstallBackup, BackupTears, InstallWrite, InstallTears, InstallEnd, RecentRead, RecentWrite,
           RecentTears, Stop
    <2>4. CASE UNCHANGED vars
        BY <2>4 DEF vars, shared
    <2> QED
        BY <2>1, <2>2, <2>3, <2>4, Steps
<1> QED
    BY PlacesAlways, <1>1, <1>2, <1>3, PTL DEF Spec, TheirsKept

(***************************************************************************)
(* Whatever processes and writers are at work in the folder: a set-up that *)
(* ends has made a project with every file it planned, but for what        *)
(* another has changed since; and one that has cleaned up has left none of *)
(* its files, whole or in part (scaffold.go:88-89).                        *)
(***************************************************************************)
THEOREM SetUpAlways == Spec => SetUpWholeOrGone
<1> DEFINE Whole(p) == /\ IsProject(Dir(p))
                       /\ \A n \in cmd[p].touched : folder[Dir(p)].file[n] = "ours"
           Gone(p) == \A n \in cmd[p].touched : folder'[Dir(p)].file[n] \notin {"ours", "torn"}
           Ends == \A p \in Procs :
                      /\ p \notin meddled /\ At(p, "setup") /\ SetupEnd(p) => Whole(p)
                      /\ At(p, "undo") /\ SetupUndo(p) => Gone(p)
<1>1. ASSUME Formed, SetUpInv, NEW p \in Procs, p \notin meddled, At(p, "setup"), SetupEnd(p)
      PROVE  Whole(p)
    <2>1. InSetup(p) /\ cmd[p].todo = {}
        BY <1>1 DEF InSetup, At, SetupEnd
    <2>2. \A n \in cmd[p].touched : folder[Dir(p)].file[n] = "ours"
        BY <1>1, <2>1 DEF SetUpInv
    <2>3. \A sub \in {"schema", "world"} : sub \in folder[Dir(p)].subs
        <3>1. SUFFICES ASSUME NEW sub \in {"schema", "world"} PROVE sub \in folder[Dir(p)].subs
            OBVIOUS
        <3>2. PICK i \in DOMAIN Order : Order[i].part = "base" /\ Order[i].sub = sub
            BY PlanOK
        <3>3. Order[i].sub # ""
            BY <3>2
        <3>4. i \in cmd[p].todo \/ Order[i].sub \in folder[Dir(p)].subs
            BY <1>1, <2>1, <3>2, <3>3 DEF SetUpInv
        <3> QED
            BY <2>1, <3>2, <3>4
    <2> QED
        BY <2>2, <2>3 DEF IsProject
<1>2. ASSUME Formed, SetUpInv, NEW p \in Procs, At(p, "undo"), SetupUndo(p) PROVE Gone(p)
    <2>1. InSetup(p) /\ Dir(p) \in Dirs
        BY <1>2 DEF InSetup, Formed, At
    <2>2. cmd[p].touched \subseteq cmd[p].written /\ cmd[p].written \subseteq Names
        BY <1>2, <2>1 DEF SetUpInv
    <2>3. Undoes(p)
        BY <1>2, IdleOK, SetOK DEF SetupUndo, Done, Undoes
    <2>4. CASE cmd[p].created
        <3>1. folder' = [folder EXCEPT ![Dir(p)] = Absent]
            BY <2>3, <2>4 DEF Undoes
        <3>2. folder'[Dir(p)] = Absent
            BY <1>2, <2>1, <3>1, RemovedOK
        <3> QED
            BY <2>2, <3>2, AbsentOK
    <2>5. CASE ~cmd[p].created
        <3>1. \A n \in Names : folder'[Dir(p)].file[n] =
                  IF n \in cmd[p].written THEN "none" ELSE folder[Dir(p)].file[n]
            BY <1>2, <2>3, <2>5, ClearedOK
        <3> QED
            BY <2>2, <3>1
    <2> QED
        BY <2>4, <2>5
<1> HIDE DEF Whole, Gone
<1>3. Formed /\ SetUpInv => [Ends]_vars
    BY <1>1, <1>2
<1> USE DEF Whole, Gone
<1> QED
    BY PlacesAlways, <1>3, PTL DEF Spec, SetUpWholeOrGone

-----------------------------------------------------------------------------
(***************************************************************************)
(* The client's config.                                                    *)
(***************************************************************************)
LEMMA ConfigInit == Init => ConfigInv
<1> SUFFICES ASSUME Init PROVE ConfigInv
    OBVIOUS
<1>1. DOMAIN cmd = Procs /\ \A p \in Procs : DOMAIN cmd[p] = Fields /\ ~At(p, "merge")
    BY IdleOK DEF Init, At
<1>2. /\ DOMAIN config = {"file", "bak"} /\ config.file = NoFile /\ had = {}
      /\ NoFile.is = "none"
    BY DEF Init, NoFile
<1> QED
    BY <1>1, <1>2 DEF ConfigInv, Safe

\* Only a copy that was made, or a list that was read, takes a command on to
\* its write.
LEMMA WritesLast ==
    ASSUME DOMAIN cmd = Procs, \A p \in Procs : DOMAIN cmd[p] = Fields,
           NEW p \in Procs, Runs(p)
    PROVE  /\ DOMAIN cmd' = Procs /\ DOMAIN cmd'[p] = Fields
           /\ cmd'[p].at = "merge" => InstallBackup(p)
           /\ cmd'[p].at = "list" => RecentRead(p)
           /\ \A q \in Procs \ {p} : cmd'[q] = cmd[q]
<1> DEFINE c == cmd[p]
           n == cmd'[p]
           Fine(r) == DOMAIN r = Fields /\ r.at \notin {"merge", "list"}
<1>1. ASSUME NEW r, Set(p, r), Fine(r)
      PROVE  DOMAIN cmd' = Procs /\ n = r /\ Fine(n) /\ \A q \in Procs \ {p} : cmd'[q] = cmd[q]
    BY <1>1 DEF Set
<1>2. DOMAIN c = Fields /\ Fine(Idle)
    BY IdleOK
<1>3. ASSUME NEW d, \/ SetupBegin(p, d) \/ GitBegin(p, d) \/ InstallBegin(p, d) \/ MenuOpen(p, d)
      PROVE  \E r : Set(p, r) /\ Fine(r)
    <2>1. CASE SetupBegin(p, d)
        <3>1. PICK parts \in Parts :
                  Set(p, [Idle EXCEPT !.at = "setup", !.dir = d, !.todo = Plan(parts),
                                      !.created = ~folder[d].made])
            BY <2>1 DEF SetupBegin, Start
        <3>2. Fine([Idle EXCEPT !.at = "setup", !.dir = d, !.todo = Plan(parts),
                                !.created = ~folder[d].made])
            BY IdleOK DEF Fields
        <3> QED
            BY <3>1, <3>2
    <2>2. CASE GitBegin(p, d)
        <3>1. PICK parts \in {{"git"}, {"git", "ci"}} :
                  Set(p, [Idle EXCEPT !.at = "git", !.dir = d, !.todo = Plan(parts)])
            BY <2>2 DEF GitBegin, Start
        <3>2. Fine([Idle EXCEPT !.at = "git", !.dir = d, !.todo = Plan(parts)])
            BY IdleOK DEF Fields
        <3> QED
            BY <3>1, <3>2
    <2>3. CASE InstallBegin(p, d)
        <3>1. Set(p, [Idle EXCEPT !.at = "ask", !.dir = d, !.seen = config.file])
            BY <2>3 DEF InstallBegin, Start
        <3>2. Fine([Idle EXCEPT !.at = "ask", !.dir = d, !.seen = config.file])
            BY IdleOK DEF Fields
        <3> QED
            BY <3>1, <3>2
    <2>4. CASE MenuOpen(p, d)
        <3>1. Set(p, [Idle EXCEPT !.at = "remember", !.dir = d])
            BY <2>4 DEF MenuOpen, Start
        <3>2. Fine([Idle EXCEPT !.at = "remember", !.dir = d])
            BY IdleOK DEF Fields
        <3> QED
            BY <3>1, <3>2
    <2> QED
        BY <1>3, <2>1, <2>2, <2>3, <2>4
<1>4. CASE SetupWrite(p)
    <2>1. PICK i \in Upcoming(p) :
              At(p, "setup") /\
              LET e == Order[i] IN
              Set(p, [cmd[p] EXCEPT !.todo = @ \ {i},
                                    !.written = IF e.file THEN @ \cup {e.name} ELSE @,
                                    !.touched = IF e.file THEN @ \cup {e.name} ELSE @])
        BY <1>4 DEF SetupWrite
    <2>2. Fine([c EXCEPT !.todo = @ \ {i},
                         !.written = IF Order[i].file THEN @ \cup {Order[i].name} ELSE @,
                         !.touched = IF Order[i].file THEN @ \cup {Order[i].name} ELSE @])
        BY <1>2, <2>1 DEF Fields, At
    <2> QED
        BY <1>1, <2>1, <2>2
<1>5. CASE SetupFails(p)
    <2>1. PICK i \in Upcoming(p) :
              Set(p, [cmd[p] EXCEPT !.at = "undo", !.written = @ \cup {Order[i].name},
                                    !.touched = @ \cup {Order[i].name}])
        BY <1>5 DEF SetupFails
    <2>2. Fine([c EXCEPT !.at = "undo", !.written = @ \cup {Order[i].name},
                         !.touched = @ \cup {Order[i].name}])
        BY <1>2 DEF Fields
    <2> QED
        BY <1>1, <2>1, <2>2
<1>6. CASE SetupRefused(p)
    <2>1. Set(p, [c EXCEPT !.at = "undo"]) /\ Fine([c EXCEPT !.at = "undo"])
        BY <1>2, <1>6 DEF SetupRefused, Fields
    <2> QED
        BY <1>1, <2>1
<1>7. CASE SetupEnd(p)
    <2>1. Fine([Idle EXCEPT !.at = "remember", !.dir = Dir(p)])
        BY IdleOK DEF Fields
    <2> QED
        BY <1>1, <1>2, <1>7, <2>1 DEF SetupEnd, Done
<1>8. CASE GitSkip(p) \/ GitWrite(p)
    <2>1. GitNext(p) /\ c.at = "git"
        BY <1>8 DEF GitSkip, GitWrite, GitMayWrite, GitFound, At
    <2>2. Fine([c EXCEPT !.todo = c.todo \ Upcoming(p), !.found = ""])
        BY <1>2, <2>1 DEF Fields
    <2>3. Set(p, Idle) \/ Set(p, [c EXCEPT !.todo = c.todo \ Upcoming(p), !.found = ""])
        BY <2>1 DEF GitNext
    <2> QED
        BY <1>1, <1>2, <2>2, <2>3
<1>9. CASE GitLook(p)
    <2>1. Set(p, [c EXCEPT !.found = folder[Dir(p)].file[GitEntry(p).name]]) /\ c.at = "git"
        BY <1>9 DEF GitLook, GitFound, At
    <2>2. Fine([c EXCEPT !.found = folder[Dir(p)].file[GitEntry(p).name]])
        BY <1>2, <2>1 DEF Fields
    <2> QED
        BY <1>1, <2>1, <2>2
<1>10. CASE GitAgree(p)
    <2>1. Set(p, [c EXCEPT !.found = "agreed"]) /\ c.at = "git"
        BY <1>10 DEF GitAgree, GitFound, At
    <2>2. Fine([c EXCEPT !.found = "agreed"])
        BY <1>2, <2>1 DEF Fields
    <2> QED
        BY <1>1, <2>1, <2>2
<1>11. CASE RecentRead(p)
    <2>1. Set(p, [c EXCEPT !.at = "list", !.list = Remembered(Dir(p), LoadRecent)])
        BY <1>11 DEF RecentRead
    <2>2. n.at = "list" /\ DOMAIN n = Fields /\ DOMAIN cmd' = Procs /\ \A q \in Procs \ {p} : cmd'[q] = cmd[q]
        BY <1>2, <2>1 DEF Fields, Set
    <2> QED
        BY <1>11, <2>2
<1>15. CASE InstallBackup(p)
    <2>1. Set(p, [c EXCEPT !.at = "merge", !.seen = ReadAgain(p)])
        BY <1>15 DEF InstallBackup
    <2>2. n.at = "merge" /\ DOMAIN n = Fields /\ DOMAIN cmd' = Procs /\ \A q \in Procs \ {p} : cmd'[q] = cmd[q]
        BY <1>2, <2>1 DEF Fields, Set
    <2> QED
        BY <1>15, <2>2
<1>12. CASE Done(p)
    BY <1>1, <1>2, <1>12 DEF Done
<1>13. ASSUME \/ SetupUndo(p) \/ GitFails(p) \/ BackupTears(p) \/ InstallWrite(p) \/ InstallTears(p)
              \/ InstallEnd(p) \/ RecentWrite(p) \/ RecentTears(p) \/ Stop(p)
       PROVE  Done(p)
    BY <1>13 DEF SetupUndo, GitFails, BackupTears, InstallWrite, InstallTears, InstallEnd, RecentWrite,
       RecentTears, Stop
<1>14. CASE \E d \in Dirs : SetupBegin(p, d) \/ GitBegin(p, d) \/ InstallBegin(p, d) \/ MenuOpen(p, d)
    <2>1. PICK d \in Dirs : SetupBegin(p, d) \/ GitBegin(p, d) \/ InstallBegin(p, d) \/ MenuOpen(p, d)
        BY <1>14
    <2> HIDE DEF Fine
    <2>2. PICK r : Set(p, r) /\ Fine(r)
        BY <1>3, <2>1
    <2>3. DOMAIN cmd' = Procs /\ Fine(n) /\ \A q \in Procs \ {p} : cmd'[q] = cmd[q]
        BY <1>1, <2>2
    <2> QED
        BY <2>3 DEF Fine
<1> QED
    BY <1>4, <1>5, <1>6, <1>7, <1>8, <1>9, <1>10, <1>11, <1>12, <1>13, <1>14, <1>15 DEF Runs

\* The parts of ConfigInv that a step may disturb.
Held ==
    /\ DOMAIN config = {"file", "bak"}
    /\ config.file.is \in {"none", "json", "torn", "emptied"}
    /\ config.file.is = "none" => had = {}
    /\ config.file.is = "emptied" => config.file = EmptiedFile
    /\ config.file.is \in {"torn", "emptied"} => Safe \subseteq config.bak.servers
    /\ config.file.is \in {"none", "json"} => Safe \subseteq config.file.servers
HeldFor(p) == Safe \subseteq cmd[p].seen.servers /\ Safe \subseteq config.bak.servers

LEMMA HeldOK ==
    ConfigInv <=> /\ DOMAIN cmd = Procs /\ \A p \in Procs : DOMAIN cmd[p] = Fields
                  /\ Held /\ \A p \in Procs : At(p, "merge") => HeldFor(p)
BY DEF ConfigInv, Held, HeldFor

LEMMA CutOffOK ==
    /\ TornFile.is = "torn" /\ EmptiedFile.is = "emptied"
    /\ \A f \in CutOff : f.is \in {"torn", "emptied"} /\ (f.is = "emptied" => f = EmptiedFile)
BY DEF CutOff, TornFile, EmptiedFile, NoFile

\* A command, which enters no other's server.
LEMMA CommandHolds ==
    ASSUME ConfigInv, NEW p \in Procs, Runs(p), had' = had,
           exposed \subseteq exposed', CopySpoilt => had \subseteq exposed'
    PROVE  ConfigInv'
<1>1. /\ DOMAIN cmd = Procs /\ \A q \in Procs : DOMAIN cmd[q] = Fields
      /\ Held /\ \A q \in Procs : At(q, "merge") => HeldFor(q)
    BY HeldOK
<1>2. /\ DOMAIN cmd' = Procs /\ \A q \in Procs : DOMAIN cmd'[q] = Fields
      /\ cmd'[p].at = "merge" => InstallBackup(p)
      /\ \A q \in Procs \ {p} : cmd'[q] = cmd[q]
    BY <1>1, WritesLast
<1>3. Safe' \subseteq Safe /\ (CopySpoilt => Safe' = {})
    BY DEF Safe
<1>4. ASSUME Held', \A q \in Procs : At(q, "merge")' => HeldFor(q)' PROVE ConfigInv'
    BY <1>2, <1>4 DEF ConfigInv, Held, HeldFor
<1>5. CASE InstallBackup(p)
    <2>1. /\ config' = [config EXCEPT !.bak = IF config.file.is = "none" THEN @ ELSE config.file]
          /\ cmd' = [cmd EXCEPT ![p] = [cmd[p] EXCEPT !.at = "merge", !.seen = config.file]]
          /\ config.file.is # "torn"
        BY <1>5 DEF InstallBackup, ReadAgain, Needed, Set
    <2>2. /\ DOMAIN config' = {"file", "bak"} /\ config'.file = config.file
          /\ config'.bak = IF config.file.is = "none" THEN config.bak ELSE config.file
        BY <1>1, <2>1 DEF Held
    <2>3. cmd'[p].seen = config.file
        BY <1>1, <2>1 DEF Fields
    <2>4. Safe' \subseteq config'.bak.servers /\ Safe' \subseteq config.file.servers
        <3>1. CASE config.file.is = "none"
            BY <1>1, <1>3, <3>1 DEF Held, Safe
        <3>2. CASE config.file.is = "json"
            BY <1>1, <1>3, <2>2, <3>2 DEF Held
        <3>3. CASE config.file.is = "emptied"
            <4>1. CopySpoilt
                BY <1>1, <1>5, <3>3 DEF Held, CopySpoilt
            <4> QED
                BY <1>3, <4>1
        <3> QED
            BY <1>1, <2>1, <3>1, <3>2, <3>3 DEF Held
    <2>5. Held'
        BY <1>1, <2>1, <2>2, <2>4 DEF Held
    <2>6. ASSUME NEW q \in Procs, At(q, "merge")' PROVE HeldFor(q)'
        BY <1>1, <1>2, <1>3, <2>3, <2>4, <2>6 DEF HeldFor, At
    <2> QED
        BY <1>4, <2>5, <2>6
<1>6. CASE ~InstallBackup(p)
    <2>1. \A q \in Procs : At(q, "merge")' => q # p /\ At(q, "merge") /\ cmd'[q].seen = cmd[q].seen
        BY <1>2, <1>6 DEF At
    <2>2. CASE BackupTears(p)
        <3>1. /\ config.file.is \notin {"torn", "none"}
              /\ \E bak \in CutOff : config' = [config EXCEPT !.bak = bak]
            BY <2>2 DEF BackupTears, ReadAgain, Needed
        <3>2. DOMAIN config' = {"file", "bak"} /\ config'.file = config.file
            BY <1>1, <3>1 DEF Held
        <3>3. CASE CopySpoilt
            BY <1>1, <1>3, <1>4, <3>1, <3>2, <3>3 DEF Held, HeldFor
        <3>4. CASE ~CopySpoilt
            <4>1. config.file # EmptiedFile /\ \A q \in Procs \ {p} : ~At(q, "merge")
                BY <2>2, <3>4 DEF CopySpoilt
            <4>2. config.file.is = "json"
                BY <1>1, <3>1, <4>1 DEF Held
            <4>3. Held'
                BY <1>1, <1>3, <3>2, <4>2 DEF Held
            <4> QED
                BY <1>4, <2>1, <4>1, <4>3
        <3> QED
            BY <3>3, <3>4
    <2>3. CASE InstallWrite(p)
        <3>1. /\ config' = [config EXCEPT !.file = Merged(cmd[p].seen, Dir(p))]
              /\ At(p, "merge")
            BY <2>3 DEF InstallWrite
        <3>2. /\ DOMAIN config' = {"file", "bak"} /\ config'.bak = config.bak
              /\ config'.file.is = "json" /\ cmd[p].seen.servers \subseteq config'.file.servers
            BY <1>1, <3>1 DEF Held, Merged
        <3>3. Safe' \subseteq config'.file.servers
            BY <1>1, <1>3, <3>1, <3>2 DEF HeldFor
        <3>4. Held'
            BY <3>2, <3>3 DEF Held
        <3>5. \A q \in Procs : At(q, "merge")' => HeldFor(q)'
            BY <1>1, <1>3, <2>1, <3>2 DEF HeldFor
        <3> QED
            BY <1>4, <3>4, <3>5
    <2>4. CASE InstallTears(p)
        <3>1. PICK file \in CutOff : config' = [config EXCEPT !.file = file]
            BY <2>4 DEF InstallTears
        <3>2. DOMAIN config' = {"file", "bak"} /\ config'.bak = config.bak /\ config'.file = file
            BY <1>1, <3>1 DEF Held
        <3>3. Safe \subseteq config.bak.servers
            BY <1>1, <2>4 DEF InstallTears, HeldFor
        <3>4. Held'
            BY <1>3, <3>2, <3>3, CutOffOK DEF Held
        <3>5. \A q \in Procs : At(q, "merge")' => HeldFor(q)'
            BY <1>1, <1>3, <2>1, <3>2 DEF HeldFor
        <3> QED
            BY <1>4, <3>4, <3>5
    <2>5. CASE config' = config
        <3>1. Held'
            BY <1>1, <1>3, <2>5 DEF Held
        <3>2. \A q \in Procs : At(q, "merge")' => HeldFor(q)'
            BY <1>1, <1>3, <2>1, <2>5 DEF HeldFor
        <3> QED
            BY <1>4, <3>1, <3>2
    <2>6. BackupTears(p) \/ InstallWrite(p) \/ InstallTears(p) \/ config' = config
        BY <1>6 DEF Runs, SetupBegin, GitBegin, InstallBegin, MenuOpen, SetupWrite, SetupFails,
           SetupRefused, SetupUndo, SetupEnd, GitLook, GitSkip, GitAgree, GitWrite, GitFails,
           InstallEnd, RecentRead, RecentWrite, RecentTears, Stop
    <2> QED
        BY <2>2, <2>3, <2>4, <2>5, <2>6
<1> QED
    BY <1>5, <1>6

LEMMA ConfigStep == ConfigInv /\ [Next]_vars => ConfigInv'
<1> SUFFICES ASSUME ConfigInv, [Next]_vars PROVE ConfigInv'
    OBVIOUS
<1> DEFINE entered == {server \in Others : ProgramPuts(server)}
<1>1. /\ DOMAIN cmd = Procs /\ \A q \in Procs : DOMAIN cmd[q] = Fields
      /\ Held /\ \A q \in Procs : At(q, "merge") => HeldFor(q)
    BY HeldOK
<1>2. CASE Next /\ entered # {}
    <2>1. PICK server \in Others : ProgramPuts(server)
        BY <1>2
    <2>2. /\ config' = [config EXCEPT !.file =
                            [is |-> "json", servers |-> config.file.servers \cup {server}]]
          /\ had' = had \cup {server} /\ cmd' = cmd
          /\ config.file.is \in {"none", "json"}
        BY <2>1 DEF ProgramPuts
    <2>3. /\ DOMAIN config' = {"file", "bak"} /\ config'.bak = config.bak /\ config'.file.is = "json"
          /\ config'.file.servers = config.file.servers \cup {server}
        BY <1>1, <2>2 DEF Held
    <2>4. \A s \in entered : s \in config'.file.servers
        <3> SUFFICES ASSUME NEW s \in Others, ProgramPuts(s) PROVE s \in config'.file.servers
            OBVIOUS
        <3>1. config' = [config EXCEPT !.file =
                            [is |-> "json", servers |-> config.file.servers \cup {s}]]
            BY DEF ProgramPuts
        <3>2. config'.file = [is |-> "json", servers |-> config.file.servers \cup {s}]
            BY <1>1, <3>1 DEF Held
        <3> QED
            BY <3>2
    <2>5. /\ exposed \ entered \subseteq exposed'
          /\ (\E q \in Procs : At(q, "merge")) => entered \subseteq exposed'
        BY <1>2 DEF Next, Exposed
    <2>6. server \in entered
        BY <2>1
    <2> HIDE DEF entered
    <2>7. Safe' \subseteq Safe \cup entered
        BY <2>2, <2>5, <2>6 DEF Safe
    <2>8. (\E q \in Procs : At(q, "merge")) => Safe' \subseteq Safe
        BY <2>5, <2>7 DEF Safe
    <2>9. Held'
        BY <1>1, <2>2, <2>3, <2>4, <2>7 DEF Held
    <2>10. \A q \in Procs : At(q, "merge")' => HeldFor(q)'
        BY <1>1, <2>2, <2>3, <2>8 DEF HeldFor, At
    <2>11. DOMAIN cmd' = Procs /\ \A q \in Procs : DOMAIN cmd'[q] = Fields
        BY <1>1, <2>2
    <2> QED
        BY <2>9, <2>10, <2>11 DEF ConfigInv, Held, HeldFor
<1>3. CASE Next /\ entered = {}
    <2>1. exposed \subseteq exposed' /\ (CopySpoilt => had \subseteq exposed')
        BY <1>3 DEF Next, Exposed
    <2>2. ASSUME NEW p \in Procs, Runs(p) PROVE ConfigInv'
        <3>1. had' = had
            BY <2>2 DEF Runs, SetupBegin, GitBegin, InstallBegin, MenuOpen, SetupWrite, SetupFails,
               SetupRefused, SetupUndo, SetupEnd, GitLook, GitSkip, GitAgree, GitWrite, GitFails,
               InstallBackup, BackupTears, InstallWrite, InstallTears, InstallEnd, RecentRead,
               RecentWrite, RecentTears, Stop
        <3> QED
            BY <2>1, <2>2, <3>1, CommandHolds
    <2>3. CASE Writer
        <3>1. UNCHANGED <<config, cmd, had>>
            BY <1>3, <2>3 DEF Writer, WriterPuts, WriterMakes, WriterRemoves
        <3>2. Safe' \subseteq Safe
            BY <2>1, <3>1 DEF Safe
        <3>3. Held'
            BY <1>1, <3>1, <3>2 DEF Held
        <3>4. \A q \in Procs : At(q, "merge")' => HeldFor(q)'
            BY <1>1, <3>1, <3>2 DEF HeldFor, At
        <3>5. DOMAIN cmd' = Procs /\ \A q \in Procs : DOMAIN cmd'[q] = Fields
            BY <1>1, <3>1
        <3> QED
            BY <3>3, <3>4, <3>5 DEF ConfigInv, Held, HeldFor
    <2> QED
        BY <1>3, <2>2, <2>3, Steps
<1>4. CASE UNCHANGED vars
    BY <1>4 DEF ConfigInv, Safe, vars, shared, At
<1> QED
    BY <1>2, <1>3, <1>4

(***************************************************************************)
(* Whatever installs and other programs write between one another's steps, *)
(* and wherever an install is cut off, what the others entered is in the   *)
(* config or, while that is left half written or empty, in the copy beside *)
(* it, but for the servers at risk (install.go:108-109).                   *)
(***************************************************************************)
THEOREM ServersAlways == Spec => []ServersKept
<1>1. ConfigInv => ServersKept
    BY DEF ConfigInv, ServersKept, Safe
<1> QED
    BY ConfigInit, ConfigStep, <1>1, PTL DEF Spec

-----------------------------------------------------------------------------
(***************************************************************************)
(* The recent list.                                                        *)
(***************************************************************************)
\* A list of some length that names nothing twice.
Unique(list) ==
    /\ \E n \in Nat : DOMAIN list = 1..n
    /\ list \in Seq({list[i] : i \in DOMAIN list})
    /\ OnceEach(list)

Short(list) == Unique(list) /\ Len(list) <= MaxRecent

RecentInv ==
    /\ DOMAIN cmd = Procs /\ \A p \in Procs : DOMAIN cmd[p] = Fields
    /\ Short(Listed)
    /\ \A p \in Procs : At(p, "list") => Short(cmd[p].list)

\* Every place that is kept gets a place of its own, and none is left empty.
LEMMA Ranked ==
    ASSUME NEW m \in Nat, NEW places \in SUBSET (1..m), NEW n \in 1..Cardinality(places)
    PROVE  \E i \in places : Cardinality({j \in places : j <= i}) = n
<1> DEFINE UpTo(i) == {j \in places : j <= i}
           rank == [i \in places |-> Cardinality(UpTo(i))]
<1>1. IsFiniteSet(places)
    <2>1. IsFiniteSet(1..m)
        BY FS_Interval
    <2> QED
        BY <2>1, FS_Subset
<1>2. Cardinality(places) \in Nat
    BY <1>1, FS_CardinalityType
<1>3. \A i \in places : Cardinality(UpTo(i)) \in 1..Cardinality(places)
    <2> TAKE i \in places
    <2>1. UpTo(i) \in SUBSET places
        OBVIOUS
    <2>2. IsFiniteSet(UpTo(i)) /\ Cardinality(UpTo(i)) <= Cardinality(places)
        BY <1>1, <2>1, FS_Subset
    <2>3. i \in UpTo(i)
        OBVIOUS
    <2>4. Cardinality(UpTo(i)) \in Nat /\ Cardinality(UpTo(i)) # 0
        BY <2>2, <2>3, FS_CardinalityType, FS_EmptySet
    <2> HIDE DEF UpTo
    <2> QED
        BY <1>2, <2>2, <2>4
<1>4. \A i, j \in places : i < j => Cardinality(UpTo(i)) # Cardinality(UpTo(j))
    <2> SUFFICES ASSUME NEW i \in places, NEW j \in places, i < j
                 PROVE  Cardinality(UpTo(i)) # Cardinality(UpTo(j))
        OBVIOUS
    <2>1. UpTo(i) \in SUBSET UpTo(j) /\ j \in UpTo(j) /\ j \notin UpTo(i)
        <3>1. i \in Nat /\ j \in Nat /\ i < j /\ \A k \in places : k \in Nat
            OBVIOUS
        <3>2. ~(j <= i) /\ j <= j /\ \A k \in Nat : k <= i => k <= j
            BY <3>1
        <3> QED
            BY <3>1, <3>2
    <2>2. IsFiniteSet(UpTo(j))
        <3>1. UpTo(j) \in SUBSET places
            OBVIOUS
        <3> QED
            BY <1>1, <3>1, FS_Subset
    <2> HIDE DEF UpTo
    <2> QED
        BY <2>1, <2>2, FS_Subset
<1> HIDE DEF UpTo
<1>5. rank \in Injection(places, 1..Cardinality(places))
    <2>1. rank \in [places -> 1..Cardinality(places)]
        BY <1>3
    <2>2. \A i, j \in places : rank[i] = rank[j] => i = j
        BY <1>4
    <2> HIDE DEF rank
    <2> QED
        BY <2>1, <2>2 DEF Injection, IsInjective
<1>6. IsFiniteSet(1..Cardinality(places)) /\ Cardinality(1..Cardinality(places)) = Cardinality(places)
    BY <1>2, FS_Interval
<1>7. rank \in Surjection(places, 1..Cardinality(places))
    BY <1>5, <1>6, FS_Injection
<1>8. \E i \in places : rank[i] = n
    BY <1>7 DEF Surjection
<1> QED
    BY <1>8 DEF UpTo

\* What is kept of a list that names nothing twice names nothing twice.
LEMMA KeepingUnique ==
    ASSUME NEW list, Unique(list), NEW places \in SUBSET DOMAIN list
    PROVE  /\ Unique(Keeping(list, places))
           /\ \A n \in DOMAIN Keeping(list, places) :
                  \E i \in places : Keeping(list, places)[n] = list[i]
<1> DEFINE kept == Keeping(list, places)
           Rank(i) == Cardinality({j \in places : j <= i})
           Old(n) == CHOOSE i \in places : Rank(i) = n
<1>1. PICK m \in Nat : DOMAIN list = 1..m
    BY DEF Unique
<1>2. Cardinality(places) \in Nat
    <2>1. IsFiniteSet(places)
        BY <1>1, FS_Interval, FS_Subset
    <2> QED
        BY <2>1, FS_CardinalityType
<1>3. DOMAIN kept = 1..Cardinality(places) /\ \A n \in DOMAIN kept : kept[n] = list[Old(n)]
    BY DEF Keeping
<1>4. \A n \in DOMAIN kept : Old(n) \in places /\ Rank(Old(n)) = n
    <2> TAKE n \in DOMAIN kept
    <2>1. \E i \in places : Rank(i) = n
        BY <1>1, <1>3, Ranked
    <2> HIDE DEF Rank
    <2> QED
        BY <2>1
<1>5. kept = [n \in 1..Cardinality(places) |-> kept[n]]
    BY DEF Keeping
<1> HIDE DEF kept, Rank, Old
<1>6. OnceEach(kept)
    <2> SUFFICES ASSUME NEW a \in DOMAIN kept, NEW b \in DOMAIN kept, a < b
                 PROVE  kept[a] # kept[b]
        BY DEF OnceEach
    <2>1. Old(a) \in 1..m /\ Old(b) \in 1..m /\ Old(a) # Old(b)
        BY <1>1, <1>2, <1>3, <1>4
    <2>2. \A i, j \in 1..m : i < j => list[i] # list[j]
        BY <1>1 DEF Unique, OnceEach
    <2>3. list[Old(a)] # list[Old(b)]
        BY <2>1, <2>2
    <2> QED
        BY <1>3, <2>3
<1>7. kept \in Seq({kept[n] : n \in DOMAIN kept})
    BY <1>2, <1>3, <1>5
<1>8. Unique(kept) /\ \A n \in DOMAIN kept : \E i \in places : kept[n] = list[i]
    BY <1>2, <1>3, <1>4, <1>6, <1>7 DEF Unique
<1> QED
    BY <1>8 DEF kept

\* A folder that a list does not name may go before it.
LEMMA FrontUnique ==
    ASSUME NEW d, NEW list, Unique(list), \A i \in DOMAIN list : list[i] # d
    PROVE  Unique(<<d>> \o list)
<1> DEFINE S == {list[i] : i \in DOMAIN list} \cup {d}
           long == <<d>> \o list
<1>1. list \in Seq(S) /\ <<d>> \in Seq(S) /\ Len(<<d>>) = 1 /\ <<d>>[1] = d
    BY DEF Unique
<1> DEFINE one == <<d>>
<1> HIDE DEF S, one
<1>2. one \in Seq(S) /\ Len(one) = 1 /\ one[1] = d
    BY <1>1 DEF one
<1>3. /\ one \o list \in Seq(S) /\ Len(one \o list) = 1 + Len(list)
      /\ \A i \in 1..Len(one \o list) :
             (one \o list)[i] = IF i <= 1 THEN one[i] ELSE list[i - 1]
    <2>1. list \in Seq(S)
        BY <1>1
    <2>2. /\ one \o list \in Seq(S) /\ Len(one \o list) = Len(one) + Len(list)
          /\ \A i \in 1..(Len(one) + Len(list)) :
                 (one \o list)[i] = IF i <= Len(one) THEN one[i] ELSE list[i - Len(one)]
        BY <1>2, <2>1, ConcatProperties
    <2> QED
        BY <1>2, <2>2
<1>4. /\ Len(list) \in Nat /\ DOMAIN list = 1..Len(list)
      /\ DOMAIN long = 1..(1 + Len(list)) /\ long \in Seq(S)
      /\ \A i \in 1..(1 + Len(list)) : long[i] = IF i = 1 THEN d ELSE list[i - 1]
    BY <1>1, <1>2, <1>3 DEF one
<1> HIDE DEF long
<1>5. OnceEach(long)
    <2> SUFFICES ASSUME NEW i \in DOMAIN long, NEW j \in DOMAIN long, i < j
                 PROVE  long[i] # long[j]
        BY DEF OnceEach
    <2>1. long[j] = list[j - 1] /\ j - 1 \in DOMAIN list
        BY <1>4
    <2>2. CASE i = 1
        BY <1>4, <2>1, <2>2
    <2>3. CASE i # 1
        <3>1. i - 1 \in DOMAIN list /\ i - 1 < j - 1 /\ long[i] = list[i - 1]
            BY <1>4, <2>3
        <3> QED
            BY <2>1, <3>1 DEF Unique, OnceEach
    <2> QED
        BY <2>2, <2>3
<1>6. long \in Seq({long[i] : i \in DOMAIN long})
    BY <1>4
<1> QED
    BY <1>4, <1>5, <1>6 DEF Unique, long

\* Cutting a list off makes it short and repeats nothing.
LEMMA CutShort ==
    ASSUME NEW list, Unique(list)
    PROVE  Short(Cut(list))
<1>1. Len(list) \in Nat /\ DOMAIN list = 1..Len(list) /\ MaxRecent \in Nat
    BY RecentOK DEF Unique
<1>2. CASE Len(list) <= MaxRecent
    BY <1>1, <1>2 DEF Cut, Short
<1>3. CASE Len(list) > MaxRecent
    <2> DEFINE S == {list[i] : i \in DOMAIN list}
               cut == SubSeq(list, 1, MaxRecent)
    <2>1. list \in Seq(S)
        BY DEF Unique
    <2> HIDE DEF S
    <2>2. cut \in Seq(S) /\ Len(cut) = MaxRecent /\ \A i \in 1..MaxRecent : cut[i] = list[i]
        BY <1>1, <1>3, <2>1
    <2> HIDE DEF cut
    <2>3. DOMAIN cut = 1..MaxRecent
        BY <2>2
    <2>4. OnceEach(cut)
        BY <1>1, <1>3, <2>2, <2>3 DEF Unique, OnceEach
    <2>5. cut \in Seq({cut[i] : i \in DOMAIN cut})
        BY <2>2, <2>3
    <2>6. Short(cut)
        BY <1>1, <2>2, <2>3, <2>4, <2>5 DEF Short, Unique
    <2> QED
        BY <1>1, <1>3, <2>6 DEF Cut, cut
<1> QED
    BY <1>1, <1>2, <1>3

\* What AddRecent makes of a sound list is one.
LEMMA RememberedShort ==
    ASSUME NEW d, NEW list, Unique(list)
    PROVE  Short(Remembered(d, list))
<1> DEFINE places == {i \in DOMAIN list : list[i] # d}
           kept == Keeping(list, places)
<1>1. Unique(kept) /\ \A n \in DOMAIN kept : \E i \in places : kept[n] = list[i]
    <2>1. places \in SUBSET DOMAIN list
        OBVIOUS
    <2> HIDE DEF places
    <2> QED
        BY <2>1, KeepingUnique
<1>2. \A n \in DOMAIN kept : kept[n] # d
    BY <1>1
<1> HIDE DEF kept
<1>3. Short(Cut(<<d>> \o kept))
    BY <1>1, <1>2, FrontUnique, CutShort
<1> QED
    BY <1>3 DEF Remembered, kept

LEMMA RecentInit == Init => RecentInv
<1> SUFFICES ASSUME Init PROVE RecentInv
    OBVIOUS
<1>1. DOMAIN cmd = Procs /\ \A p \in Procs : DOMAIN cmd[p] = Fields /\ ~At(p, "list")
    BY IdleOK DEF Init, At
<1>2. Listed \in Full
    BY RecentOK DEF Init, Listed
<1>3. MaxRecent \in Nat /\ Listed \in [1..MaxRecent -> Elsewhere] /\ OnceEach(Listed)
    BY <1>2, RecentOK DEF Full
<1> HIDE DEF Listed
<1>4. Short(Listed)
    BY <1>3 DEF Short, Unique
<1> QED
    BY <1>1, <1>4 DEF RecentInv

LEMMA RecentStep == RecentInv /\ [Next]_vars => RecentInv'
<1> SUFFICES ASSUME RecentInv, [Next]_vars PROVE RecentInv'
    OBVIOUS
<1> USE DEF RecentInv
<1>1. ASSUME NEW p \in Procs, Runs(p) PROVE RecentInv'
    <2>1. /\ DOMAIN cmd' = Procs /\ DOMAIN cmd'[p] = Fields
          /\ cmd'[p].at = "list" => RecentRead(p)
          /\ \A q \in Procs \ {p} : cmd'[q] = cmd[q]
        BY <1>1, WritesLast
    <2>2. RecentRead(p) => Short(cmd'[p].list)
        <3> SUFFICES ASSUME RecentRead(p) PROVE Short(cmd'[p].list)
            OBVIOUS
        <3>1. cmd' = [cmd EXCEPT ![p] =
                  [cmd[p] EXCEPT !.at = "list", !.list = Remembered(Dir(p), LoadRecent)]]
            BY DEF RecentRead, Set
        <3>2. cmd'[p].list = Remembered(Dir(p), LoadRecent)
            BY <3>1 DEF Fields
        <3>3. Unique(LoadRecent)
            <4> DEFINE places == {i \in DOMAIN Listed : IsProject(Listed[i])}
            <4>1. Unique(Keeping(Listed, places))
                BY KeepingUnique DEF Short
            <4> QED
                BY <4>1 DEF LoadRecent
        <3> QED
            BY <3>2, <3>3, RememberedShort
    <2>3. Short(Listed')
        <3>1. CASE RecentWrite(p)
            <4>1. Listed' = cmd[p].list /\ At(p, "list")
                BY <3>1 DEF RecentWrite, Listed
            <4> QED
                BY <4>1
        <3>2. CASE RecentTears(p)
            <4>1. Listed' = <<>>
                BY <3>2 DEF RecentTears, Listed
            <4>2. Short(<<>>)
                BY RecentOK DEF Short, Unique, OnceEach
            <4> QED
                BY <4>1, <4>2
        <3>3. CASE recent' = recent
            BY <3>3 DEF Listed
        <3>4. RecentWrite(p) \/ RecentTears(p) \/ recent' = recent
            BY <1>1 DEF Runs, SetupBegin, GitBegin, InstallBegin, MenuOpen, SetupWrite, SetupFails,
               SetupRefused, SetupUndo, SetupEnd, GitLook, GitSkip, GitAgree, GitWrite, GitFails,
               InstallBackup, BackupTears, InstallWrite, InstallTears, InstallEnd, RecentRead, Stop
        <3> QED
            BY <3>1, <3>2, <3>3, <3>4
    <2>4. \A q \in Procs : At(q, "list")' => Short(cmd'[q].list)
        BY <2>1, <2>2 DEF At
    <2>5. \A q \in Procs : DOMAIN cmd'[q] = Fields
        BY <2>1
    <2> QED
        BY <2>1, <2>3, <2>4, <2>5
<1>2. ASSUME UNCHANGED <<recent, cmd>> PROVE RecentInv'
    BY <1>2 DEF At, Listed
<1>3. CASE Writer
    BY <1>2, <1>3 DEF Writer, WriterPuts, WriterMakes, WriterRemoves, ProgramPuts
<1>4. CASE UNCHANGED vars
    BY <1>2, <1>4 DEF vars, shared
<1> QED
    BY <1>1, <1>3, <1>4, Steps

(***************************************************************************)
(* Whatever menus read and write the list at the same time, each working   *)
(* on what it read, and wherever a write is cut off, it names no folder    *)
(* twice and is no longer than MaxRecent (recent.go:51-62).                *)
(***************************************************************************)
THEOREM RecentAlways == Spec => []RecentSound
<1>1. RecentInv => RecentSound
    BY DEF RecentInv, Short, Unique, RecentSound
<1> QED
    BY RecentInit, RecentStep, <1>1, PTL DEF Spec
=============================================================================
