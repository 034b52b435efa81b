---------------------------- MODULE ServingProofs ----------------------------
(***************************************************************************)
(* Serving, for any number of processes, goroutines and edits: what a read *)
(* answers from, whoever edits and rebuilds meanwhile.                     *)
(***************************************************************************)
EXTENDS Serving, TLAPS

Request ==
    [op : {"none", "call", "page", "edit", "save"},
     pc : {"idle", "drafts", "lock", "rlock", "fn"} \union Reloading,
     need : Versions, got : Versions]

-----------------------------------------------------------------------------
(***************************************************************************)
(* The inductive invariants.                                               *)
(***************************************************************************)
\* An edit is later than the one before it.
Typed == TypeOK /\ world.time = world.ver + 1

\* The lock of a process: who reloads is alone.
LockInv ==
    \A r, q \in Requests :
        S(r) = S(q) /\ req[r].pc \in Reloading /\ req[q].pc \in Reloading \union {"fn"} => r = q

\* A reload has looked at the times and goes on to build.
Building == Reloading \ {"stat"}
Built == {"remove", "create", "commit", "pack"}

\* The time a process remembers is that of the world it has built, or older:
\* what it serves, what it is about to serve and what its reads need.
StampInv ==
    /\ \A s \in Servers :
           /\ stamp[s] <= world.time
           /\ report[s] = "ok" /\ (\A r \in Requests : S(r) = s => req[r].pc \notin Building) =>
                  /\ cur[s] # NoBuild
                  /\ cur[s].idx + 1 >= stamp[s] /\ cur[s].pack + 1 >= stamp[s]
    /\ \A r \in Requests :
           /\ req[r].need <= world.ver
           /\ req[r].pc \in Building => stamp[S(r)] > req[r].need
           /\ req[r].pc \in Built => req[r].got + 1 >= stamp[S(r)] /\ req[r].got <= world.ver
           /\ req[r].pc \in {"rlock", "fn"} =>
                  stamp[S(r)] > req[r].need \/ (stamp[S(r)] = 0 /\ report[S(r)] # "ok")

\* The requests of one process, and no other process, write the database.
Alone == \A r, q \in Requests : S(r) = S(q)
Writing == {"create", "commit", "pack"}
DbInv ==
    Alone => \A r \in Requests :
        /\ report[S(r)] = "ok" /\ (\A q \in Requests : req[q].pc \notin Writing) =>
               db # Missing /\ db.whole /\ db.ver = cur[S(r)].idx
        /\ At(r, "create") => db = Missing
        /\ At(r, "commit") => Mine(r) /\ db.ver = req[r].got
        /\ At(r, "pack") => db # Missing /\ db.whole /\ db.ver = req[r].got

-----------------------------------------------------------------------------
(***************************************************************************)
(* Steps.  Every one but an edit is a request's, and changes no other      *)
(* request.                                                                *)
(***************************************************************************)
Does(r) == Begin(r) \/ Acquire(r) \/ Serve(r)

LEMMA Kept == TypeOK => req \in [Requests -> Request] /\ \A r \in Requests : S(r) \in Servers
BY DeploymentsOK DEF TypeOK, Request, S

LEMMA MovesOne ==
    ASSUME TypeOK, NEW r \in Requests, Does(r)
    PROVE  /\ of' = of /\ world' = world
           /\ \E j \in Request : req' = [req EXCEPT ![r] = j]
<1> DEFINE k == req[r]
<1>1. k \in Request /\ S(r) \in Servers /\ Idle \in Request
    BY Kept, BoundOK DEF Request, Idle, Versions
<1>2. \A p \in {"idle", "drafts", "lock", "rlock", "fn"} \union Reloading :
          [k EXCEPT !.pc = p] \in Request
    BY <1>1 DEF Request
<1>3. world.ver \in Versions
    BY DEF TypeOK
<1>4. \A p : Goto(r, p) => req' = [req EXCEPT ![r] = [k EXCEPT !.pc = p]]
    BY DEF Goto
<1>5. AfterReload(r) \in Request
    BY <1>1, <1>2 DEF AfterReload
<1>6. CASE Begin(r)
    <2>1. PICK op \in Ops(S(r)) :
              req' = [req EXCEPT ![r] = [op |-> op, pc |-> IF op = "call" THEN "lock" ELSE "drafts",
                                         need |-> world.ver, got |-> 0]]
        BY <1>6 DEF Begin
    <2>2. [op |-> op, pc |-> IF op = "call" THEN "lock" ELSE "drafts",
           need |-> world.ver, got |-> 0] \in Request
        BY <1>3, <2>1, BoundOK DEF Ops, Request, Versions
    <2> QED
        BY <1>6, <2>1, <2>2 DEF Begin
<1>7. CASE LoadWorld(r)
    <2>1. [k EXCEPT !.pc = "remove", !.got = world.ver] \in Request
        BY <1>1, <1>3 DEF Request, Reloading
    <2>2. world.kind = "sound" /\ req' = [req EXCEPT ![r].pc = "remove", ![r].got = world.ver] =>
              req' = [req EXCEPT ![r] = [k EXCEPT !.pc = "remove", !.got = world.ver]]
        BY Kept
    <2> QED
        BY <1>5, <1>7, <2>1, <2>2 DEF LoadWorld, EndReload
<1>8. CASE RLock(r)
    BY <1>1, <1>2, <1>8 DEF RLock
<1>9. CASE TakeDrafts(r)
    BY <1>2, <1>4, <1>9 DEF TakeDrafts
<1>10. CASE Lock(r)
    BY <1>2, <1>4, <1>10 DEF Lock, Reloading
<1>11. CASE StatWorld(r)
    BY <1>1, <1>2, <1>4, <1>5, <1>11 DEF StatWorld, EndReload, Reloading
<1>12. CASE RemoveIndex(r)
    BY <1>2, <1>4, <1>5, <1>12 DEF RemoveIndex, EndReload, Reloading
<1>13. CASE CreateIndex(r)
    BY <1>2, <1>4, <1>5, <1>13 DEF CreateIndex, EndReload, Reloading
<1>14. CASE CommitIndex(r)
    BY <1>2, <1>4, <1>5, <1>14 DEF CommitIndex, EndReload, Reloading
<1>15. CASE LoadPack(r)
    BY <1>5, <1>15 DEF LoadPack, EndReload
<1>16. CASE Answer(r)
    BY <1>1, <1>16 DEF Answer
<1> QED
    BY <1>6, <1>7, <1>8, <1>9, <1>10, <1>11, <1>12, <1>13, <1>14, <1>15, <1>16
    DEF Does, Acquire, Serve

LEMMA Edits ==
    ASSUME Typed, Edit
    PROVE  /\ UNCHANGED <<stamp, cur, report, db, req, of>>
           /\ world'.ver = world.ver + 1 /\ world'.time = world.time + 1
           /\ world' \in [ver : Versions, kind : Kinds, time : 1..(MaxEdits + 1)]
BY BoundOK DEF Edit, Typed, TypeOK, Versions
\* Where a request goes.
LEMMA Went ==
    ASSUME TypeOK, NEW r \in Requests
    PROVE  /\ \A p : Goto(r, p) => /\ req'[r].pc = p
                                   /\ req'[r].need = req[r].need /\ req'[r].got = req[r].got
           /\ EndReload(r) => /\ req'[r].pc \in {"idle", "rlock"}
                              /\ req'[r].need \in {0, req[r].need}
           /\ EndReload(r) /\ req'[r].pc = "rlock" => req'[r].need = req[r].need
           /\ req' = [req EXCEPT ![r] = Idle] => req'[r].pc = "idle" /\ req'[r].need = 0
           /\ Begin(r) => req'[r].pc \in {"lock", "drafts"} /\ req'[r].need = world.ver
           /\ RLock(r) => \/ req'[r].pc = "idle" /\ req'[r].need = 0
                          \/ /\ req'[r].pc = "fn" /\ req'[r].need = req[r].need
                             /\ cur[S(r)] # NoBuild
           /\ req' = [req EXCEPT ![r].pc = "remove", ![r].got = world.ver] =>
                  req'[r].pc = "remove" /\ req'[r].need = req[r].need /\ req'[r].got = world.ver
<1>1. req[r] \in Request
    BY Kept
<1>2. \A p : Goto(r, p) => req'[r] = [req[r] EXCEPT !.pc = p]
    BY Kept DEF Goto
<1>3. EndReload(r) => req'[r] = AfterReload(r)
    BY Kept DEF EndReload
<1>4. req' = [req EXCEPT ![r] = Idle] => req'[r] = Idle
    BY Kept
<1>5. ASSUME Begin(r) PROVE req'[r].pc \in {"lock", "drafts"} /\ req'[r].need = world.ver
    <2>1. PICK op \in Ops(S(r)) :
              req' = [req EXCEPT ![r] = [op |-> op, pc |-> IF op = "call" THEN "lock" ELSE "drafts",
                                         need |-> world.ver, got |-> 0]]
        BY <1>5 DEF Begin
    <2>2. req'[r] = [op |-> op, pc |-> IF op = "call" THEN "lock" ELSE "drafts",
                     need |-> world.ver, got |-> 0]
        BY <2>1, Kept
    <2> QED
        BY <2>2
<1>6. RLock(r) => req'[r] = IF cur[S(r)] = NoBuild THEN Idle ELSE [req[r] EXCEPT !.pc = "fn"]
    BY Kept DEF RLock
<1>7. req' = [req EXCEPT ![r].pc = "remove", ![r].got = world.ver] =>
          req'[r] = [req[r] EXCEPT !.pc = "remove", !.got = world.ver]
    BY Kept
<1>8. Idle.pc = "idle" /\ Idle.need = 0
    BY DEF Idle
<1>9. AfterReload(r).pc \in {"idle", "rlock"} /\ AfterReload(r).need \in {0, req[r].need}
      /\ (AfterReload(r).pc = "rlock" => AfterReload(r).need = req[r].need)
    BY <1>1, <1>8 DEF AfterReload, Request
<1>10. \A p : [req[r] EXCEPT !.pc = p].pc = p /\ [req[r] EXCEPT !.pc = p].need = req[r].need
              /\ [req[r] EXCEPT !.pc = p].got = req[r].got
    BY <1>1 DEF Request
<1>11. [req[r] EXCEPT !.pc = "remove", !.got = world.ver].pc = "remove"
       /\ [req[r] EXCEPT !.pc = "remove", !.got = world.ver].need = req[r].need
       /\ [req[r] EXCEPT !.pc = "remove", !.got = world.ver].got = world.ver
    BY <1>1 DEF Request
<1>12. \A p : Goto(r, p) => /\ req'[r].pc = p
                              /\ req'[r].need = req[r].need /\ req'[r].got = req[r].got
    BY <1>2, <1>10
<1>13. RLock(r) => \/ req'[r].pc = "idle" /\ req'[r].need = 0
                   \/ /\ req'[r].pc = "fn" /\ req'[r].need = req[r].need
                      /\ cur[S(r)] # NoBuild
    BY <1>6, <1>8, <1>10
<1>14. EndReload(r) => /\ req'[r].pc \in {"idle", "rlock"}
                       /\ req'[r].need \in {0, req[r].need}
                       /\ req'[r].pc = "rlock" => req'[r].need = req[r].need
    BY <1>3, <1>9
<1> QED
    BY <1>4, <1>5, <1>7, <1>8, <1>11, <1>12, <1>13, <1>14

Index == [idx : Versions, pack : Versions]

LEMMA DoesTyped ==
    ASSUME TypeOK, NEW r \in Requests, Does(r)
    PROVE  TypeOK'
<1> DEFINE s == S(r)
           reports == {"ok", "findings", "error"}
           dbs == {Missing} \union [ver : Versions, by : Requests \union {NoServer}, whole : BOOLEAN]
<1>1. req[r] \in Request /\ s \in Servers /\ world.ver \in Versions /\ world.kind \in Kinds
      /\ world.time \in 0..(MaxEdits + 1) /\ 0 \in 0..(MaxEdits + 1)
    BY Kept, BoundOK DEF TypeOK
<1>2. PICK j \in Request : req' = [req EXCEPT ![r] = j]
    BY MovesOne
<1>3. req' \in [Requests -> Request]
    BY <1>2, Kept
<1>4. \A x \in reports : Report(r, x) => report' \in [Servers -> reports]
    BY <1>1 DEF Report, TypeOK
<1>5. stamp' \in [Servers -> 0..(MaxEdits + 1)]
    BY <1>1 DEF Does, Begin, Acquire, Serve, TakeDrafts, Lock, RLock, StatWorld, LoadWorld, RemoveIndex,
        CreateIndex, CommitIndex, LoadPack, Answer, TypeOK
<1>6. report' \in [Servers -> reports]
    BY <1>4 DEF Does, Begin, Acquire, Serve, TakeDrafts, Lock, RLock, StatWorld, LoadWorld, RemoveIndex,
        CreateIndex, CommitIndex, LoadPack, Answer, TypeOK
<1>7. /\ cur' \in [Servers -> {NoBuild} \union Index]
      /\ \A t \in Servers : cur[t] # NoBuild => cur'[t] # NoBuild
    <2>1. req[r].got \in Versions /\ cur \in [Servers -> {NoBuild} \union Index]
        BY <1>1 DEF Request, TypeOK, Index
    <2>2. [idx |-> req[r].got, pack |-> req[r].got] \in Index \ {NoBuild}
          /\ [idx |-> req[r].got, pack |-> world.ver] \in Index \ {NoBuild}
        BY <1>1, <2>1, ValuesOK DEF Index
    <2>3. \/ cur' = cur
          \/ \E i \in Index \ {NoBuild} : cur' = [cur EXCEPT ![s] = i]
        BY <2>2 DEF Does, Begin, Acquire, Serve, TakeDrafts, Lock, RLock, StatWorld, LoadWorld, RemoveIndex,
            CreateIndex, CommitIndex, LoadPack, Answer
    <2> QED
        BY <1>1, <2>1, <2>3
<1>8. db' \in dbs
    <2>1. db \in dbs
        BY DEF TypeOK
    <2>2. [ver |-> req[r].got, by |-> r, whole |-> FALSE] \in dbs
        BY <1>1 DEF Request
    <2>3. Mine(r) => [db EXCEPT !.whole = TRUE] \in dbs
        BY <2>1 DEF Mine
    <2> HIDE DEF dbs
    <2>4. \/ db' = db \/ db' = Missing
          \/ db' = [ver |-> req[r].got, by |-> r, whole |-> FALSE]
          \/ Mine(r) /\ db' = [db EXCEPT !.whole = TRUE]
        BY DEF Does, Begin, Acquire, Serve, TakeDrafts, Lock, RLock, StatWorld, LoadWorld, RemoveIndex,
            CreateIndex, CommitIndex, LoadPack, Answer
    <2>5. Missing \in dbs
        BY DEF dbs
    <2> QED
        BY <2>1, <2>2, <2>3, <2>4, <2>5
<1>9. of' = of /\ world' = world
    BY MovesOne
<1>10. \A q \in Requests : Reads(q)' => cur'[S(q)] # NoBuild
    <2>1. TAKE q \in Requests
    <2>2. req'[q].pc = "fn" => req[q].pc = "fn" \/ cur[S(q)] # NoBuild
        <3>1. CASE q # r
            BY <1>2, <3>1, Kept
        <3>2. CASE q = r
            BY <3>2, Went DEF Does, Acquire, Serve, TakeDrafts, Lock, StatWorld, LoadWorld,
                RemoveIndex, CreateIndex, CommitIndex, LoadPack, Answer
        <3> QED
            BY <3>1, <3>2
    <2>3. S(q) \in Servers /\ (req[q].pc = "fn" => cur[S(q)] # NoBuild)
        BY Kept DEF TypeOK, Reads, At
    <2> QED
        BY <1>7, <1>9, <2>2, <2>3 DEF Reads, At, S
<1> QED
    BY <1>3, <1>5, <1>6, <1>7, <1>8, <1>9, <1>10 DEF TypeOK, Request, Index, Reads, At, S
\* Another request stays where it is, and in its process.
LEMMA Others ==
    ASSUME TypeOK, NEW r \in Requests, Does(r)
    PROVE  /\ \A q \in Requests \ {r} : req'[q] = req[q]
           /\ \A q \in Requests : S(q)' = S(q)
BY MovesOne, Kept DEF S

LEMMA DoesLock ==
    ASSUME TypeOK, LockInv, NEW r \in Requests, Does(r)
    PROVE  LockInv'
<1>1. /\ \A q \in Requests \ {r} : req'[q] = req[q]
      /\ \A q \in Requests : S(q)' = S(q)
    BY Others
<1>2. CASE Lock(r)
    <2>1. \A q \in Requests : S(q) = S(r) => req[q].pc \notin Reloading \union {"fn"}
        BY <1>2 DEF Lock, WriterOf, ReadersOf, Reads, At
    <2> QED
        BY <1>1, <2>1 DEF LockInv
<1>3. CASE RLock(r)
    <2>1. \A q \in Requests : S(q) = S(r) => req[q].pc \notin Reloading
        BY <1>3 DEF RLock, WriterOf
    <2>2. req'[r].pc \in {"idle", "fn"}
        BY <1>3, Went
    <2> QED
        BY <1>1, <2>1, <2>2 DEF LockInv, Reloading
<1>4. CASE ~Lock(r) /\ ~RLock(r)
    <2>1. req'[r].pc \in Reloading \union {"fn"} => req[r].pc \in Reloading
        BY <1>4, Went DEF Does, Acquire, Serve, TakeDrafts, StatWorld, LoadWorld, RemoveIndex,
            CreateIndex, CommitIndex, LoadPack, Answer, Reloading, At
    <2>2. req'[r].pc # "fn"
        BY <1>4, Went DEF Does, Acquire, Serve, TakeDrafts, StatWorld, LoadWorld, RemoveIndex,
            CreateIndex, CommitIndex, LoadPack, Answer
    <2> QED
        BY <1>1, <2>1, <2>2 DEF LockInv
<1> QED
    BY <1>2, <1>3, <1>4

\* What a step of a request does to what its process serves.
LEMMA DoesStamp ==
    ASSUME Typed, LockInv, StampInv, NEW r \in Requests, Does(r)
    PROVE  StampInv'
<1> DEFINE s == S(r)
           Quiet(t) == \A q \in Requests : S(q) = t => req[q].pc \notin Building
           QuietNext(t) == \A q \in Requests : S(q)' = t => req'[q].pc \notin Building
<1>0. TypeOK
    BY DEF Typed
<1>1. /\ \A q \in Requests \ {r} : req'[q] = req[q]
      /\ \A q \in Requests : S(q)' = S(q) /\ S(q) \in Servers
      /\ world' = world
    BY Others, MovesOne, Kept DEF Typed
<1>2. /\ world.time = world.ver + 1 /\ world.ver \in Nat /\ world.time \in Nat
      /\ \A t \in Servers : stamp[t] \in Nat /\ (cur[t] # NoBuild => cur[t].idx \in Nat /\ cur[t].pack \in Nat)
      /\ \A q \in Requests : req[q].need \in Nat /\ req[q].got \in Nat
      /\ \A t \in Servers : stamp'[t] \in Nat
      /\ \A q \in Requests : req'[q].need \in Nat
      /\ req \in [Requests -> Request]
    BY DoesTyped, Kept, BoundOK DEF Typed, TypeOK, Versions, Request
<1>3. req'[r].need <= world.ver
    BY <1>2, Went DEF StampInv, Typed, Does, Acquire, Serve, TakeDrafts, Lock, StatWorld, LoadWorld,
        RemoveIndex, CreateIndex, CommitIndex, LoadPack, Answer
<1>4. \A t \in Servers \ {s} : stamp'[t] = stamp[t] /\ report'[t] = report[t] /\ cur'[t] = cur[t]
    BY <1>1 DEF Typed, TypeOK, Does, Begin, Acquire, Serve, TakeDrafts, Lock, RLock, StatWorld, LoadWorld,
        RemoveIndex, CreateIndex, CommitIndex, LoadPack, Answer, Report
<1>5. \/ stamp'[s] = stamp[s] /\ (report'[s] = report[s] \/ report'[s] # "ok" \/ stamp[s] > 0)
      \/ stamp'[s] = world.time /\ req[r].pc \in Reloading
      \/ stamp'[s] = 0 /\ report'[s] # "ok" /\ req[r].pc \in Reloading
    <2>1. CommitIndex(r) => stamp[s] > 0
        BY <1>1, <1>2 DEF CommitIndex, At, StampInv, Building, Reloading
    <2>2. stamp \in [Servers -> 0..(MaxEdits + 1)] /\ report \in [Servers -> {"ok", "findings", "error"}]
        BY DEF Typed, TypeOK
    <2> QED
        BY <1>1, <2>1, <2>2 DEF Does, Begin, Acquire, Serve, TakeDrafts, Lock, RLock, StatWorld, LoadWorld,
            RemoveIndex, CreateIndex, CommitIndex, LoadPack, Answer, Report, Reloading, At
<1>6. \A q \in Requests \ {r} :
          S(q) = s =>
           /\ req[q].pc \in Building => stamp'[s] = stamp[s]
           /\ req[q].pc \in {"rlock", "fn"} =>
                  stamp'[s] > req[q].need \/ (stamp'[s] = 0 /\ report'[s] # "ok")
    <2>1. SUFFICES ASSUME NEW q \in Requests \ {r}, S(q) = s
                   PROVE  /\ req[q].pc \in Building => stamp'[s] = stamp[s]
                          /\ req[q].pc \in {"rlock", "fn"} =>
                                 stamp'[s] > req[q].need \/ (stamp'[s] = 0 /\ report'[s] # "ok")
        OBVIOUS
    <2>2. req[q].pc \in Building => req[r].pc \notin Reloading
        BY <2>1 DEF LockInv, Building
    <2>3. req[q].need <= world.ver
          /\ (req[q].pc \in {"rlock", "fn"} =>
                  stamp[s] > req[q].need \/ (stamp[s] = 0 /\ report[s] # "ok"))
        BY <2>1 DEF StampInv
    <2> QED
        BY <1>1, <1>2, <1>5, <2>1, <2>2, <2>3
<1>7. /\ req'[r].pc \in Building => stamp'[s] > req'[r].need
      /\ req'[r].pc \in Built => req'[r].got + 1 >= stamp'[s] /\ req'[r].got <= world.ver
      /\ req'[r].pc \in {"rlock", "fn"} =>
             stamp'[s] > req'[r].need \/ (stamp'[s] = 0 /\ report'[s] # "ok")
    <2>1. stamp \in [Servers -> 0..(MaxEdits + 1)] /\ report \in [Servers -> {"ok", "findings", "error"}]
        BY DEF Typed, TypeOK
    <2>2. req[r].need \in Nat /\ req[r].got \in Nat /\ req[r].need <= world.ver
          /\ (req[r].pc \in Building => stamp[s] > req[r].need)
          /\ (req[r].pc \in Built => req[r].got + 1 >= stamp[s] /\ req[r].got <= world.ver)
          /\ (req[r].pc \in {"rlock", "fn"} =>
                  stamp[s] > req[r].need \/ (stamp[s] = 0 /\ report[s] # "ok"))
          /\ stamp[s] <= world.time
        <3>1. stamp[s] <= world.time
            BY <1>1 DEF StampInv
        <3> QED
            BY <1>2, <3>1, SMTT(60) DEF StampInv
    <2>3. CASE Begin(r) \/ TakeDrafts(r) \/ Lock(r) \/ Answer(r)
        <3>1. req'[r].pc \in {"idle", "lock", "drafts", "stat"}
            BY <1>0, <2>3, Went DEF TakeDrafts, Lock, Answer
        <3> QED
            BY <3>1 DEF Building, Built, Reloading
    <2>4. CASE RLock(r)
        <3>1. req'[r].pc = "idle" \/ (req'[r].pc = "fn" /\ req'[r].need = req[r].need)
            BY <1>0, <2>4, Went
        <3>2. req[r].pc = "rlock" /\ stamp' = stamp /\ report' = report
            BY <2>4 DEF RLock, At
        <3> QED
            BY <2>2, <3>1, <3>2 DEF Building, Built, Reloading
    <2>5. CASE StatWorld(r)
        <3>1. CASE world.time = stamp[s] /\ EndReload(r) /\ UNCHANGED <<stamp, report>>
            <4>1. req'[r].pc = "idle" \/ (req'[r].pc = "rlock" /\ req'[r].need = req[r].need)
                BY <1>0, <3>1, Went
            <4> QED
                BY <1>2, <2>2, <3>1, <4>1 DEF Building, Built, Reloading
        <3>2. CASE Goto(r, "load") /\ stamp'[s] = world.time
            <4>1. req'[r].pc = "load" /\ req'[r].need = req[r].need
                BY <1>0, <3>2, Went DEF Goto
            <4> QED
                BY <1>2, <2>2, <3>2, <4>1 DEF Built
        <3>3. CASE req' = [req EXCEPT ![r] = Idle]
            BY <1>0, <3>3, Went DEF Building, Built, Reloading
        <3> QED
            BY <1>1, <2>1, <2>5, <3>1, <3>2, <3>3 DEF StatWorld
    <2>6. CASE LoadWorld(r)
        <3>1. req[r].pc \in Building /\ stamp' = stamp
            BY <2>6 DEF LoadWorld, At, Building, Reloading
        <3>2. CASE req' = [req EXCEPT ![r].pc = "remove", ![r].got = world.ver]
            <4>1. /\ req'[r].pc = "remove" /\ req'[r].need = req[r].need /\ req'[r].got = world.ver
                BY <1>0, <3>2, Went
            <4> QED
                BY <1>2, <2>2, <3>1, <4>1
        <3>3. CASE EndReload(r)
            BY <1>0, <1>2, <2>2, <3>1, <3>3, Went DEF Building, Built, Reloading
        <3> QED
            BY <2>6, <3>2, <3>3 DEF LoadWorld
    <2>7. CASE RemoveIndex(r) \/ CreateIndex(r) \/ CommitIndex(r)
        <3>1. req[r].pc \in Building /\ req[r].pc \in Built /\ stamp' = stamp
            BY <2>7 DEF RemoveIndex, CreateIndex, CommitIndex, At, Building, Built, Reloading
        <3>2. CASE \E p \in {"create", "commit", "pack"} : Goto(r, p)
            BY <1>0, <1>2, <2>2, <3>1, <3>2, Went
        <3>3. CASE EndReload(r)
            BY <1>0, <1>2, <2>2, <3>1, <3>3, Went DEF Building, Built, Reloading
        <3> QED
            BY <2>7, <3>2, <3>3 DEF RemoveIndex, CreateIndex, CommitIndex
    <2>8. CASE LoadPack(r)
        <3>1. req[r].pc \in Building /\ EndReload(r)
            BY <2>8 DEF LoadPack, At, Building, Reloading
        <3>2. stamp' = stamp \/ (stamp'[s] = 0 /\ report'[s] = "error")
            BY <1>1, <2>1, <2>8 DEF LoadPack, Report
        <3> QED
            BY <1>0, <1>2, <2>2, <3>1, <3>2, Went DEF Building, Built, Reloading
    <2> QED
        BY <2>3, <2>4, <2>5, <2>6, <2>7, <2>8 DEF Does, Acquire, Serve
<1>8. stamp'[s] <= world.time
    BY <1>1, <1>2, <1>5 DEF StampInv
<1>9. report'[s] = "ok" /\ QuietNext(s) =>
          /\ cur'[s] # NoBuild
          /\ cur'[s].idx + 1 >= stamp'[s] /\ cur'[s].pack + 1 >= stamp'[s]
    <2>1. SUFFICES ASSUME report'[s] = "ok", QuietNext(s)
                   PROVE  /\ cur'[s] # NoBuild
                          /\ cur'[s].idx + 1 >= stamp'[s] /\ cur'[s].pack + 1 >= stamp'[s]
        OBVIOUS
    <2>2. /\ stamp \in [Servers -> 0..(MaxEdits + 1)] /\ report \in [Servers -> {"ok", "findings", "error"}]
          /\ cur \in [Servers -> {NoBuild} \union Index]
        BY DEF Typed, TypeOK, Index
    <2>3. req'[r].pc \notin Building
        BY <1>1, <2>1
    <2>4. CASE req[r].pc \notin Building
        <3>1. Quiet(s)
            BY <1>1, <2>1, <2>4
        <3>2. stamp' = stamp /\ report' = report /\ cur' = cur
            <4>1. StatWorld(r) => ~Goto(r, "load")
                <5>1. Goto(r, "load") => req'[r].pc = "load"
                    BY <1>0, Went DEF Goto
                <5> QED
                    BY <2>3, <5>1 DEF Building, Reloading
            <4> QED
                BY <2>4, <4>1 DEF Does, Begin, Acquire, Serve, TakeDrafts, Lock, RLock, StatWorld, LoadWorld,
                    RemoveIndex, CreateIndex, CommitIndex, LoadPack, Answer, At, Building, Reloading
        <3> QED
            BY <1>1, <2>1, <3>1, <3>2 DEF StampInv
    <2>5. CASE req[r].pc \in Building
        <3>1. req[r].pc \in Built => req[r].got + 1 >= stamp[s] /\ req[r].got <= world.ver /\ req[r].got \in Versions
            BY Kept DEF StampInv, Typed, Request
        <3>2. ~Report(r, "error") /\ ~Report(r, "findings")
            BY <1>1, <2>1, <2>2 DEF Report
        <3>3. CASE CommitIndex(r)
            <4>1. cur' = [cur EXCEPT ![s] = [idx |-> req[r].got, pack |-> req[r].got]] /\ stamp' = stamp
                <5>1. Goto(r, "pack") => req'[r].pc = "pack"
                    BY <1>0, Went DEF Goto
                <5>2. ~Goto(r, "pack")
                    BY <2>3, <5>1 DEF Building, Reloading
                <5> QED
                    BY <3>2, <3>3, <5>2 DEF CommitIndex
            <4>2. req[r].pc \in Built
                BY <3>3 DEF CommitIndex, At, Built
            <4>3. cur'[s] = [idx |-> req[r].got, pack |-> req[r].got]
                BY <1>1, <2>2, <4>1
            <4> QED
                BY <3>1, <4>1, <4>2, <4>3, ValuesOK
        <3>4. CASE LoadPack(r)
            <4>1. cur' = [cur EXCEPT ![s] = [idx |-> req[r].got, pack |-> world.ver]] /\ stamp' = stamp
                BY <3>2, <3>4 DEF LoadPack
            <4>2. req[r].pc \in Built /\ world.ver \in Versions
                BY <3>4 DEF LoadPack, At, Built, Typed, TypeOK
            <4>3. cur'[s] = [idx |-> req[r].got, pack |-> world.ver]
                BY <1>1, <2>2, <4>1
            <4>4. stamp[s] <= world.ver + 1
                BY <1>1, <1>2 DEF StampInv
            <4> QED
                BY <3>1, <4>1, <4>2, <4>3, <4>4, ValuesOK
        <3>5. ~LoadWorld(r) /\ ~RemoveIndex(r) /\ ~CreateIndex(r)
            BY <1>0, <2>3, <3>2, Went DEF LoadWorld, RemoveIndex, CreateIndex, Building, Reloading
        <3>6. ~Begin(r) /\ ~Acquire(r) /\ ~StatWorld(r) /\ ~Answer(r)
            BY <2>5 DEF Begin, Acquire, TakeDrafts, Lock, RLock, StatWorld, Answer, Reads, At,
                Building, Reloading
        <3> QED
            BY <3>3, <3>4, <3>5, <3>6 DEF Does, Serve
    <2> QED
        BY <2>4, <2>5
<1> QED
    <2>1. ASSUME NEW t \in Servers
          PROVE  /\ stamp'[t] <= world.time
                 /\ report'[t] = "ok" /\ QuietNext(t) =>
                      /\ cur'[t] # NoBuild
                      /\ cur'[t].idx + 1 >= stamp'[t] /\ cur'[t].pack + 1 >= stamp'[t]
        <3>1. CASE t = s
            BY <1>8, <1>9, <3>1
        <3>2. ASSUME t # s, QuietNext(t) PROVE Quiet(t)
            BY <1>1, <3>2
        <3>3. CASE t # s
            BY <1>1, <1>4, <3>2, <3>3 DEF StampInv
        <3> QED
            BY <3>1, <3>3
    <2>2. ASSUME NEW q \in Requests
          PROVE  /\ req'[q].need <= world.ver
                 /\ req'[q].pc \in Building => stamp'[S(q)] > req'[q].need
                 /\ req'[q].pc \in Built => req'[q].got + 1 >= stamp'[S(q)] /\ req'[q].got <= world.ver
                 /\ req'[q].pc \in {"rlock", "fn"} =>
                        stamp'[S(q)] > req'[q].need \/ (stamp'[S(q)] = 0 /\ report'[S(q)] # "ok")
        <3>1. CASE q = r
            BY <1>3, <1>7, <3>1
        <3>2. CASE q # r /\ S(q) # s
            BY <1>1, <1>4, <3>2 DEF StampInv
        <3>3. CASE q # r /\ S(q) = s
            <4>1. req[q].pc \in Built => req[q].pc \in Building
                BY DEF Built, Building, Reloading
            <4> QED
                BY <1>1, <1>6, <3>3, <4>1 DEF StampInv
        <3> QED
            BY <3>1, <3>2, <3>3
    <2> QED
        BY <1>1, <2>1, <2>2 DEF StampInv
\* What a step of a request does to the database, when no other process
\* writes it.
LEMMA DoesDb ==
    ASSUME Typed, LockInv, DbInv, NEW r \in Requests, Does(r)
    PROVE  DbInv'
<1> DEFINE s == S(r)
           row == [ver |-> req[r].got, by |-> r, whole |-> FALSE]
           rows == [ver : Versions, by : Requests \union {NoServer}, whole : BOOLEAN]
<1>0. TypeOK
    BY DEF Typed
<1>1. /\ \A q \in Requests \ {r} : req'[q] = req[q]
      /\ \A q \in Requests : S(q)' = S(q) /\ S(q) \in Servers
    BY <1>0, Others, Kept
<1>2. SUFFICES ASSUME Alone PROVE DbInv'
    BY <1>1 DEF DbInv, Alone
<1>3. /\ \A q \in Requests : S(q) = s
      /\ req[r].pc \in Reloading => \A q \in Requests \ {r} : req[q].pc \notin Reloading
      /\ s \in Servers
    BY <1>1, <1>2 DEF Alone, LockInv
<1>4. /\ stamp \in [Servers -> 0..(MaxEdits + 1)] /\ report \in [Servers -> {"ok", "findings", "error"}]
      /\ cur \in [Servers -> {NoBuild} \union Index] /\ db \in {Missing} \union rows
      /\ req[r].got \in Versions
    BY <1>0, Kept DEF TypeOK, Index, Request
<1>5. row # Missing /\ row.ver = req[r].got /\ row.by = r
    <2>1. row \in rows
        BY <1>4
    <2> QED
        BY <2>1, ValuesOK
<1>6. At(r, "commit") => db # Missing /\ db \in rows /\ db.by = r /\ db.ver = req[r].got
    BY <1>2, <1>4 DEF DbInv, Mine
<1>7. At(r, "commit") => /\ [db EXCEPT !.whole = TRUE] \in rows \ {Missing}
                         /\ [db EXCEPT !.whole = TRUE].whole /\ [db EXCEPT !.whole = TRUE].ver = req[r].got
    <2> HIDE DEF rows
    <2>1. At(r, "commit") => db \in rows /\ db.ver = req[r].got
        BY <1>6
    <2>2. \A d \in rows : [d EXCEPT !.whole = TRUE] \in rows \ {Missing}
                          /\ [d EXCEPT !.whole = TRUE].whole /\ [d EXCEPT !.whole = TRUE].ver = d.ver
        BY ValuesOK DEF rows
    <2> QED
        BY <2>1, <2>2
<1> HIDE DEF rows
<1>8. Report(r, "error") \/ Report(r, "findings") => report'[s] # "ok"
    BY <1>3, <1>4 DEF Report
\* The request itself.
<1>9. /\ At(r, "create")' => db' = Missing
      /\ At(r, "commit")' => Mine(r)' /\ db'.ver = req'[r].got
      /\ At(r, "pack")' => db' # Missing /\ db'.whole /\ db'.ver = req'[r].got
    <2>1. CASE RemoveIndex(r)
        <3>1. Goto(r, "create") => req'[r].pc = "create"
            BY <1>0, Went DEF Goto
        <3>2. EndReload(r) => req'[r].pc \in {"idle", "rlock"}
            BY <1>0, Went
        <3> QED
            BY <2>1, <3>1, <3>2 DEF RemoveIndex, At
    <2>2. CASE CreateIndex(r)
        <3>1. Goto(r, "commit") => req'[r].pc = "commit" /\ req'[r].got = req[r].got
            BY <1>0, Went DEF Goto
        <3>2. EndReload(r) => req'[r].pc \in {"idle", "rlock"}
            BY <1>0, Went
        <3> QED
            BY <1>5, <2>2, <3>1, <3>2 DEF CreateIndex, At, Mine
    <2>3. CASE CommitIndex(r)
        <3>1. Goto(r, "pack") => req'[r].pc = "pack" /\ req'[r].got = req[r].got
            BY <1>0, Went DEF Goto
        <3>2. EndReload(r) => req'[r].pc \in {"idle", "rlock"}
            BY <1>0, Went
        <3>3. CASE Goto(r, "pack") /\ db' = [db EXCEPT !.whole = TRUE]
            BY <1>7, <2>3, <3>1, <3>3 DEF CommitIndex, At
        <3>4. CASE EndReload(r)
            BY <3>2, <3>4 DEF At
        <3>5. At(r, "commit") => Mine(r)
            BY <1>6 DEF Mine
        <3> QED
            BY <2>3, <3>3, <3>4, <3>5 DEF CommitIndex
    <2>4. CASE ~RemoveIndex(r) /\ ~CreateIndex(r) /\ ~CommitIndex(r)
        <3>1. req'[r].pc \notin Writing
            <4>1. /\ Goto(r, "lock") => req'[r].pc = "lock"
                  /\ Goto(r, "stat") => req'[r].pc = "stat"
                  /\ Goto(r, "load") => req'[r].pc = "load"
                BY <1>0, Went DEF Goto
            <4> QED
                BY <1>0, <2>4, <4>1, Went DEF Does, Acquire, Serve, TakeDrafts, Lock, StatWorld, LoadWorld,
                    LoadPack, Answer, Writing
        <3> QED
            BY <3>1 DEF At, Writing
    <2> QED
        BY <2>1, <2>2, <2>3, <2>4
<1>10. req[r].pc \notin Reloading => db' = db
    BY DEF Does, Begin, Acquire, Serve, TakeDrafts, Lock, RLock, StatWorld, LoadWorld, RemoveIndex,
        CreateIndex, CommitIndex, LoadPack, Answer, At, Reloading
\* What is served.
<1>11. ASSUME report'[s] = "ok", \A q \in Requests : req'[q].pc \notin Writing
       PROVE  db' # Missing /\ db'.whole /\ db'.ver = cur'[s].idx
    <2>2. CASE CreateIndex(r)
        <3>1. Goto(r, "commit") => req'[r].pc = "commit"
            BY <1>0, Went DEF Goto
        <3> QED
            BY <1>8, <1>11, <2>2, <3>1 DEF CreateIndex, Writing
    <2>3. CASE CommitIndex(r)
        <3>1. Goto(r, "pack") => req'[r].pc = "pack"
            BY <1>0, Went DEF Goto
        <3>2. /\ db' = IF Mine(r) THEN [db EXCEPT !.whole = TRUE] ELSE db
              /\ cur' = [cur EXCEPT ![s] = [idx |-> req[r].got, pack |-> req[r].got]]
            BY <1>8, <1>11, <2>3, <3>1 DEF CommitIndex, Writing
        <3>3. At(r, "commit") /\ Mine(r)
            BY <1>6, <2>3 DEF CommitIndex, Mine
        <3>4. cur'[s].idx = req[r].got
            BY <1>3, <1>4, <3>2
        <3> QED
            BY <1>7, <3>2, <3>3, <3>4
    <2>4. CASE LoadPack(r)
        <3>1. cur' = [cur EXCEPT ![s] = [idx |-> req[r].got, pack |-> world.ver]] /\ db' = db
              /\ At(r, "pack")
            BY <1>8, <1>11, <2>4 DEF LoadPack
        <3>2. cur'[s].idx = req[r].got
            BY <1>3, <1>4, <3>1
        <3> QED
            BY <1>2, <3>1, <3>2 DEF DbInv
    <2>5. CASE ~CreateIndex(r) /\ ~CommitIndex(r) /\ ~LoadPack(r)
        <3>1. req[r].pc \notin Writing
            BY <2>5 DEF Does, Begin, Acquire, Serve, TakeDrafts, Lock, RLock, StatWorld, LoadWorld, RemoveIndex,
                Answer, Reads, At, Writing
        <3>2. Goto(r, "create") => req'[r].pc = "create"
            BY <1>0, Went DEF Goto
        <3>3. report' = report /\ cur' = cur /\ db' = db
            BY <1>8, <1>11, <2>5, <3>2 DEF Does, Begin, Acquire, Serve, TakeDrafts, Lock, RLock, StatWorld,
                LoadWorld, RemoveIndex, Answer, Writing
        <3>4. \A q \in Requests : req[q].pc \notin Writing
            BY <1>1, <1>11, <3>1
        <3> QED
            BY <1>2, <1>11, <3>3, <3>4 DEF DbInv
    <2> QED
        BY <2>2, <2>3, <2>4, <2>5
<1>12. ASSUME NEW q \in Requests
       PROVE  /\ req'[q].pc = "create" => db' = Missing
              /\ req'[q].pc = "commit" => db' # Missing /\ db'.by = q /\ db'.ver = req'[q].got
              /\ req'[q].pc = "pack" => db' # Missing /\ db'.whole /\ db'.ver = req'[q].got
    <2>1. CASE q = r
        BY <1>9, <2>1 DEF At, Mine
    <2>2. CASE q # r
        <3>1. req'[q] = req[q]
            BY <1>1, <2>2
        <3>2. req[q].pc \in Reloading => db' = db
            BY <1>3, <1>10, <2>2
        <3> QED
            BY <1>2, <3>1, <3>2 DEF DbInv, At, Mine, Reloading
    <2> QED
        BY <2>1, <2>2
<1> QED
    BY <1>1, <1>3, <1>11, <1>12 DEF DbInv, At, Mine
-----------------------------------------------------------------------------
(***************************************************************************)
(* Every reachable state.                                                  *)
(***************************************************************************)
IInv == Typed /\ LockInv /\ StampInv /\ DbInv

LEMMA InitInv == Init => IInv
<1> SUFFICES ASSUME Init PROVE IInv
    OBVIOUS
<1>1. world.ver = 0 /\ world.time = 1 /\ world.kind \in {"sound", "findings"}
      /\ world \in [ver : Versions, kind : Kinds, time : 1..(MaxEdits + 1)] /\ 0 \in Versions
    BY BoundOK DEF Init, Kinds, Versions
<1>2. \A r \in Requests : req[r] = Idle /\ Idle.pc = "idle" /\ Idle.need = 0 /\ S(r) \in Servers
    BY DeploymentsOK DEF Init, Idle, S
<1>3. Idle \in Request
    BY <1>1 DEF Idle, Request
<1>4. [idx |-> 0, pack |-> 0] \in Index \ {NoBuild}
    BY <1>1, ValuesOK DEF Index
<1>5. /\ \A s \in Servers : cur[s] = IF world.kind = "sound" THEN [idx |-> 0, pack |-> 0] ELSE NoBuild
      /\ \A s \in Servers : report[s] = IF world.kind = "sound" THEN "ok" ELSE "findings"
      /\ \A s \in Servers : stamp[s] = 1
    BY DEF Init
<1>6. [ver |-> 0, by |-> NoServer, whole |-> TRUE] \in
          [ver : Versions, by : Requests \union {NoServer}, whole : BOOLEAN] \ {Missing}
    <2>1. [ver |-> 0, by |-> NoServer, whole |-> TRUE] \in
              [ver : Versions, by : Requests \union {NoServer}, whole : BOOLEAN]
        BY <1>1
    <2> QED
        BY <2>1, ValuesOK
<1>7. TypeOK
    <2>1. req \in [Requests -> Request] /\ stamp \in [Servers -> 0..(MaxEdits + 1)]
          /\ of \in Deployments
        BY <1>3, BoundOK DEF Init
    <2>2. cur \in [Servers -> {NoBuild} \union Index]
        BY <1>4 DEF Init
    <2>3. report \in [Servers -> {"ok", "findings", "error"}]
        BY DEF Init
    <2>4. db \in {Missing} \union [ver : Versions, by : Requests \union {NoServer}, whole : BOOLEAN]
        BY <1>6 DEF Init
    <2>5. \A r \in Requests : ~Reads(r)
        BY <1>2 DEF Reads, At
    <2> QED
        BY <1>1, <2>1, <2>2, <2>3, <2>4, <2>5 DEF TypeOK, Request, Index
<1>8. LockInv
    BY <1>2 DEF LockInv, Reloading
<1>9. StampInv
    BY <1>1, <1>2, <1>4, <1>5 DEF StampInv, Built, Building, Reloading
<1>10. DbInv
    <2>1. world.kind = "sound" => db # Missing /\ db.whole /\ db.ver = 0
        BY <1>6 DEF Init
    <2> QED
        BY <1>2, <1>5, <2>1 DEF DbInv, At
<1> QED
    BY <1>1, <1>7, <1>8, <1>9, <1>10 DEF IInv, Typed

LEMMA StepInv == IInv /\ [Next]_vars => IInv'
<1> SUFFICES ASSUME IInv, [Next]_vars PROVE IInv'
    OBVIOUS
<1> USE DEF IInv
<1>1. ASSUME NEW r \in Requests, Does(r) PROVE IInv'
    <2>1. TypeOK'
        BY <1>1, DoesTyped DEF Typed
    <2>2. Typed'
        BY <1>1, <2>1, MovesOne DEF Typed
    <2>3. LockInv'
        BY <1>1, DoesLock DEF Typed
    <2>4. StampInv'
        BY <1>1, DoesStamp
    <2>5. DbInv'
        BY <1>1, DoesDb
    <2> QED
        BY <2>2, <2>3, <2>4, <2>5
<1>2. CASE Edit
    <2>1. /\ UNCHANGED <<stamp, cur, report, db, req, of>>
          /\ world'.ver = world.ver + 1 /\ world'.time = world.time + 1
          /\ world' \in [ver : Versions, kind : Kinds, time : 1..(MaxEdits + 1)]
        BY <1>2, Edits
    <2>2. Typed'
        BY <2>1, BoundOK DEF Typed, TypeOK, Versions, S, Reads, At
    <2>3. /\ world.ver \in Nat /\ world.time \in Nat
          /\ \A s \in Servers : stamp[s] \in Nat
          /\ \A r \in Requests : req[r].need \in Nat /\ req[r].got \in Nat
        BY Kept, BoundOK DEF Typed, TypeOK, Versions, Request
    <2>4. StampInv'
        BY <2>1, <2>3, Kept DEF Typed, StampInv, S
    <2> QED
        BY <2>1, <2>2, <2>4 DEF LockInv, DbInv, Alone, At, Mine, S
<1>3. CASE UNCHANGED vars
    BY <1>3 DEF vars, Typed, TypeOK, LockInv, StampInv, DbInv, Alone, Reads, At, Mine, S
<1> QED
    BY <1>1, <1>2, <1>3 DEF Next, Does

LEMMA Invariant == Spec => []IInv
BY InitInv, StepInv, PTL DEF Spec

-----------------------------------------------------------------------------
\* Every reachable state is of the right types.
THEOREM ServingTyped == Spec => []TypeOK
<1>1. IInv => TypeOK
    BY DEF IInv, Typed
<1> QED
    BY <1>1, Invariant, PTL

\* What is answered holds every edit made before it was asked for, or the
\* build that failed is reported with it: index and pack are those of the
\* last build, and the time taken before that build was not before the
\* request.
THEOREM FreshAlways == Spec => []FreshOrReported
<1>1. IInv => FreshOrReported
    <2> SUFFICES ASSUME IInv, NEW r \in Requests, Reads(r), report[S(r)] = "ok"
                 PROVE  cur[S(r)].idx >= req[r].need /\ cur[S(r)].pack >= req[r].need
        BY DEF FreshOrReported
    <2>1. \A q \in Requests : S(q) = S(r) => req[q].pc \notin Building
        BY DEF IInv, LockInv, Building, Reloading, Reads, At
    <2>2. /\ cur[S(r)] # NoBuild
          /\ cur[S(r)].idx + 1 >= stamp[S(r)] /\ cur[S(r)].pack + 1 >= stamp[S(r)]
          /\ stamp[S(r)] > req[r].need
        BY <2>1, Kept DEF IInv, StampInv, Typed, Reads, At
    <2>3. /\ req[r].need \in Nat /\ stamp[S(r)] \in Nat
          /\ cur[S(r)].idx \in Nat /\ cur[S(r)].pack \in Nat
        BY <2>2, Kept, BoundOK DEF IInv, Typed, TypeOK, Versions, Request
    <2> QED
        BY <2>2, <2>3
<1> QED
    BY <1>1, Invariant, PTL

\* In the one process that serves a project, a search finds what can be read
\* back: the database is the index's while anybody reads.
THEOREM SearchAlways == Spec => []SearchExact
<1>1. IInv => SearchExact
    <2> SUFFICES ASSUME IInv, NEW r \in Requests, Reads(r), report[S(r)] = "ok",
                        \A q \in Requests : S(q) = S(r)
                 PROVE  db # Missing /\ db.whole /\ db.ver = cur[S(r)].idx
        BY DEF SearchExact
    <2>1. \A q \in Requests : req[q].pc \notin Writing
        BY DEF IInv, LockInv, Writing, Reloading, Reads, At
    <2>2. Alone
        BY DEF Alone
    <2> QED
        BY <2>1, <2>2 DEF IInv, DbInv
<1> QED
    BY <1>1, Invariant, PTL
=============================================================================
