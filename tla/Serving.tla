------------------------------ MODULE Serving ------------------------------
(***************************************************************************)
(* Serving a world that changes on disk: the editor and the MCP server     *)
(* (internal/editor/server.go, internal/mcp/server.go) keep the last good  *)
(* build in memory, check the modification times under schema/ and world/  *)
(* at every read, and rebuild, with build/index.db, when they moved.       *)
(*                                                                         *)
(* The world is its version: what the n-th edit left.  An index is the     *)
(* version it was compiled from.  A request is a goroutine; it takes the   *)
(* drafts lock and the build lock in the order its handler does.           *)
(***************************************************************************)
EXTENDS Naturals, FiniteSets

CONSTANTS
    Editors, Mcps,      \* processes serving the project
    Requests,           \* goroutines
    Deployments,        \* the ways requests are spread over processes
    MaxEdits,           \* bound: edits of the world
    DiskErrors,         \* may a read or a write of a file fail
    NoServer, NoBuild, Missing

Servers == Editors \union Mcps
Versions == 0..MaxEdits
Kinds == {"sound", "findings", "unreadable"}

ASSUME DeploymentsOK == Deployments \subseteq [Requests -> Servers]
ASSUME BoundOK == MaxEdits \in Nat
ASSUME ValuesOK ==
    /\ NoBuild \notin [idx : Versions, pack : Versions]
    /\ Missing \notin [ver : Versions, by : Requests \union {NoServer}, whole : BOOLEAN]

VARIABLES
    world,     \* version, what a build makes of it, latest modification time
    stamp,     \* Server.stamp; 0 is time.Time{}
    cur,       \* Server.cur: the versions of its index and of its schema pack
    report,    \* Server.report, or findings and buildErr: "ok" or what failed
    db,        \* build/index.db: its version, who created the file, whether it is whole
    req,       \* the requests
    of         \* the process of each request, which never changes

vars == <<world, stamp, cur, report, db, req, of>>

Idle == [op |-> "none", pc |-> "idle", need |-> 0, got |-> 0]
S(r) == of[r]
At(r, pc) == req[r].pc = pc
Goto(r, pc) == req' = [req EXCEPT ![r].pc = pc]
Forced(r) == req[r].op = "save"

-----------------------------------------------------------------------------
(***************************************************************************)
(* The locks of a process.  mu is an RWMutex: reload holds it for writing, *)
(* a read's fn for reading.  The drafts lock is a Mutex.                   *)
(***************************************************************************)
Reloading == {"stat", "load", "remove", "create", "commit", "pack"}
Reads(r) == At(r, "fn")
WriterOf(s) == {r \in Requests : S(r) = s /\ req[r].pc \in Reloading}
ReadersOf(s) == {r \in Requests : S(r) = s /\ Reads(r)}

HoldsDrafts(r) == req[r].op \in {"edit", "save"} /\ req[r].pc \notin {"idle", "drafts"}
DraftsFree(s) == \A r \in Requests : S(r) = s => ~HoldsDrafts(r)

-----------------------------------------------------------------------------
Init ==
    /\ world \in [ver : {0}, kind : Kinds \ {"unreadable"}, time : {1}]
    /\ stamp = [s \in Servers |-> 1]
    /\ cur = [s \in Servers |-> IF world.kind = "sound" THEN [idx |-> 0, pack |-> 0] ELSE NoBuild]
    /\ report = [s \in Servers |-> IF world.kind = "sound" THEN "ok" ELSE "findings"]
    /\ db = IF world.kind = "sound"
            THEN [ver |-> 0, by |-> NoServer, whole |-> TRUE] ELSE Missing
    /\ req = [r \in Requests |-> Idle]
    /\ of \in Deployments

\* A file under schema/ or world/ is written, by whatever program.
Edit ==
    /\ world.ver < MaxEdits
    /\ \E k \in Kinds :
           world' = [ver |-> world.ver + 1, kind |-> k, time |-> world.time + 1]
    /\ UNCHANGED <<stamp, cur, report, db, req, of>>

Ops(s) == IF s \in Mcps THEN {"call"} ELSE {"page", "edit", "save"}

\* A request arrives.  It needs every edit made until now.
Begin(r) ==
    /\ At(r, "idle")
    /\ \E op \in Ops(S(r)) :
           req' = [req EXCEPT ![r] = [op |-> op, pc |-> IF op = "call" THEN "lock" ELSE "drafts",
                                      need |-> world.ver, got |-> 0]]
    /\ UNCHANGED <<world, stamp, cur, report, db, of>>

\* snapshot, editDraft, withDrafts: a page lets the drafts lock go at once,
\* an edit and a save hold it to their end.
TakeDrafts(r) ==
    /\ At(r, "drafts") /\ DraftsFree(S(r))
    /\ Goto(r, "lock")
    /\ UNCHANGED <<world, stamp, cur, report, db, of>>

Lock(r) ==
    /\ At(r, "lock") /\ WriterOf(S(r)) = {} /\ ReadersOf(S(r)) = {}
    /\ Goto(r, "stat")
    /\ UNCHANGED <<world, stamp, cur, report, db, of>>

\* The end of reload, which gives up the write lock: a save's rebuild is done,
\* a read goes on.
AfterReload(r) == IF Forced(r) THEN Idle ELSE [req[r] EXCEPT !.pc = "rlock"]
EndReload(r) == req' = [req EXCEPT ![r] = AfterReload(r)]

\* latestMtime against the last build's stamp.
StatWorld(r) ==
    /\ At(r, "stat")
    /\ \/ /\ ~Forced(r) /\ world.time = stamp[S(r)]
          /\ EndReload(r) /\ UNCHANGED stamp
       \/ /\ Forced(r) \/ world.time # stamp[S(r)]
          /\ stamp' = [stamp EXCEPT ![S(r)] = world.time]
          /\ Goto(r, "load")
       \/ DiskErrors /\ req' = [req EXCEPT ![r] = Idle] /\ UNCHANGED stamp
    /\ UNCHANGED <<world, cur, report, db, of>>

Report(r, x) == report' = [report EXCEPT ![S(r)] = x]

\* index.Load: a world that does not build leaves the last good one in place.
LoadWorld(r) ==
    /\ At(r, "load")
    /\ \/ /\ world.kind = "sound"
          /\ req' = [req EXCEPT ![r].pc = "remove", ![r].got = world.ver]
          /\ UNCHANGED report
       \/ world.kind = "findings" /\ Report(r, "findings") /\ EndReload(r)
       \/ /\ world.kind = "unreadable" \/ DiskErrors
          /\ Report(r, "error") /\ EndReload(r)
    /\ UNCHANGED <<world, stamp, cur, db, of>>

\* WriteSQLite.  The old file is removed; the new one is created, which fails
\* when another process has put its own there meanwhile; its rows are
\* committed, into a file another process may have unlinked.
RemoveIndex(r) ==
    /\ At(r, "remove")
    /\ \/ db' = Missing /\ Goto(r, "create") /\ UNCHANGED report
       \/ DiskErrors /\ Report(r, "error") /\ EndReload(r) /\ UNCHANGED db
    /\ UNCHANGED <<world, stamp, cur, of>>

CreateIndex(r) ==
    /\ At(r, "create")
    /\ \/ /\ db = Missing
          /\ db' = [ver |-> req[r].got, by |-> r, whole |-> FALSE]
          /\ Goto(r, "commit") /\ UNCHANGED report
       \/ /\ db # Missing \/ DiskErrors
          /\ Report(r, "error") /\ EndReload(r) /\ UNCHANGED db
    /\ UNCHANGED <<world, stamp, cur, of>>

Mine(r) == db # Missing /\ db.by = r

\* The commit, and the snapshot after it; then the build is good.  The editor
\* goes on to read the schema pack, the MCP server is done.
CommitIndex(r) ==
    /\ At(r, "commit")
    /\ \/ /\ db' = IF Mine(r) THEN [db EXCEPT !.whole = TRUE] ELSE db
          /\ Report(r, "ok")
          /\ IF S(r) \in Editors
             THEN Goto(r, "pack") /\ UNCHANGED cur
             ELSE /\ cur' = [cur EXCEPT ![S(r)] = [idx |-> req[r].got, pack |-> req[r].got]]
                  /\ EndReload(r)
       \/ /\ DiskErrors
          /\ db' \in {db} \union (IF Mine(r) THEN {[db EXCEPT !.whole = TRUE]} ELSE {})
          /\ Report(r, "error") /\ EndReload(r) /\ UNCHANGED cur
    /\ UNCHANGED <<world, stamp, of>>

\* Wrong: the stamp is the world's when the build is done.
LoadPackStamps(r) ==
    /\ At(r, "pack")
    /\ cur' = [cur EXCEPT ![S(r)] = [idx |-> req[r].got, pack |-> world.ver]]
    /\ stamp' = [stamp EXCEPT ![S(r)] = world.time]
    /\ EndReload(r)
    /\ UNCHANGED <<world, report, db, of>>

\* reload, editor: the pack as it is now; on an error the stamp is cleared.
LoadPack(r) ==
    /\ At(r, "pack")
    /\ \/ /\ cur' = [cur EXCEPT ![S(r)] = [idx |-> req[r].got, pack |-> world.ver]]
          /\ UNCHANGED <<stamp, report>>
       \/ /\ world.kind = "unreadable" \/ DiskErrors
          /\ stamp' = [stamp EXCEPT ![S(r)] = 0]
          /\ Report(r, "error")
          /\ UNCHANGED cur
    /\ EndReload(r)
    /\ UNCHANGED <<world, db, of>>

\* Wrong: a read waits for no rebuild, and asks for no build.
RLockAnyTime(r) ==
    /\ At(r, "rlock")
    /\ Goto(r, "fn")
    /\ UNCHANGED <<world, stamp, cur, report, db, of>>

\* read: the read lock, and cur as it is then.
RLock(r) ==
    /\ At(r, "rlock") /\ WriterOf(S(r)) = {}
    /\ req' = [req EXCEPT ![r] = IF cur[S(r)] = NoBuild THEN Idle ELSE [@ EXCEPT !.pc = "fn"]]
    /\ UNCHANGED <<world, stamp, cur, report, db, of>>

\* Wrong: a page asks for the drafts while its read runs.
AnswerAsksDrafts(r) ==
    /\ Reads(r) /\ req[r].op = "page" => DraftsFree(S(r))
    /\ req' = [req EXCEPT ![r] = Idle]
    /\ UNCHANGED <<world, stamp, cur, report, db, of>>

\* fn returns: every lock is given up and the request is answered.
Answer(r) ==
    /\ Reads(r)
    /\ req' = [req EXCEPT ![r] = Idle]
    /\ UNCHANGED <<world, stamp, cur, report, db, of>>

Serve(r) ==
    \/ StatWorld(r) \/ LoadWorld(r) \/ RemoveIndex(r) \/ CreateIndex(r) \/ CommitIndex(r)
    \/ LoadPack(r) \/ Answer(r)
Acquire(r) == TakeDrafts(r) \/ Lock(r) \/ RLock(r)

Next == Edit \/ \E r \in Requests : Begin(r) \/ Acquire(r) \/ Serve(r)

Spec == Init /\ [][Next]_vars

\* A goroutine keeps running; Go's Mutex and RWMutex starve nobody: who waits
\* for a lock that is free again and again gets it.
FairSpec == Spec /\ \A r \in Requests : WF_vars(Serve(r)) /\ SF_vars(Acquire(r))

-----------------------------------------------------------------------------
TypeOK ==
    /\ world \in [ver : Versions, kind : Kinds, time : 1..(MaxEdits + 1)]
    /\ stamp \in [Servers -> 0..(MaxEdits + 1)]
    /\ cur \in [Servers -> {NoBuild} \union [idx : Versions, pack : Versions]]
    /\ report \in [Servers -> {"ok", "findings", "error"}]
    /\ db \in {Missing} \union [ver : Versions, by : Requests \union {NoServer}, whole : BOOLEAN]
    /\ req \in [Requests ->
           [op : {"none", "call", "page", "edit", "save"},
            pc : {"idle", "drafts", "lock", "rlock", "fn"} \union Reloading,
            need : Versions, got : Versions]]
    /\ of \in Deployments
    /\ \A r \in Requests : Reads(r) => cur[S(r)] # NoBuild

\* An answer holds every edit made before its request arrived, or the failed
\* build that keeps it from that is reported with it (mcp/server.go: "an edit
\* made during it is seen by the next call").
FreshOrReported ==
    \A r \in Requests :
        Reads(r) /\ report[S(r)] = "ok" =>
            /\ cur[S(r)].idx >= req[r].need
            /\ cur[S(r)].pack >= req[r].need

\* While a read runs, build/index.db is whole and is the database of the index
\* the read answers from, so what a search finds there can be read back
\* (mcp/server.go: "so build/index.db is never rewritten under a search"), or
\* the failed build is reported.  The lock that sees to it is one process's:
\* nothing is said of two processes on one project.
SearchExact ==
    \A r \in Requests :
        /\ Reads(r) /\ report[S(r)] = "ok"
        /\ \A q \in Requests : S(q) = S(r)
        => db # Missing /\ db.whole /\ db.ver = cur[S(r)].idx

\* Every request is answered: no locks are taken in two orders, and no
\* rebuild starts another one without end.
Answered == \A r \in Requests : ~At(r, "idle") ~> At(r, "idle")
=============================================================================
