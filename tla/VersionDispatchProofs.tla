------------------------ MODULE VersionDispatchProofs ------------------------
(***************************************************************************)
(* VersionDispatch, for any terminals and releases and whatever commands   *)
(* run at once, fail or are killed.  The pin moves only to an installed    *)
(* version that has built the project itself; a release binary runs only   *)
(* as the pinned version, and only a version that was asked for lowers a   *)
(* pin, unless another command has moved the pin meanwhile; and a no that  *)
(* state.json was last saved with is not asked about again.                *)
(***************************************************************************)
EXTENDS VersionDispatch, TLAPS

LEMMA VersionsAreNumbers == Versions \subseteq Nat /\ FirstPin \in Versions /\ 1 \in Versions
BY FirstPinOK DEF Versions

Steps == {"load", "ask", "save", "saving", "install", "check", "truncate", "write",
          "dispatch", "fetch", "running"}

\* A command that has chosen the version it moves to.
Moving == {"ask", "install", "check", "truncate", "write"}
Chosen == \A p \in Shells : job[p].step \in Moving => job[p].to \in Versions

-----------------------------------------------------------------------------
\* A command that begins, and one that goes on, is a command.
LEMMA BegunOK ==
    ASSUME NEW cmd \in {"run", "update", "pick"}, NEW self \in Versions \union {Dev},
           NEW terminal \in BOOLEAN, NEW step \in {"load", "dispatch", "fetch", "install"},
           NEW to \in Versions \union {NoVersion}, pin.ver \in Versions
    PROVE  Begun(cmd, self, terminal, step, to) \in Commands
BY DEF Begun, Commands, Forgotten, Remembered, NoVersion, Dev

LEMMA TypeInit == Init => TypeOK /\ Chosen
<1> SUFFICES ASSUME Init PROVE TypeOK /\ Chosen
    OBVIOUS
<1>1. TypeOK
    BY VersionsAreNumbers DEF Init, TypeOK, Forgotten, Remembered, NoVersion
<1>2. Chosen
    BY DEF Init, Chosen, Moving, Idle
<1> QED
    BY <1>1, <1>2

LEMMA TypeStep == TypeOK /\ Chosen /\ [Next]_vars => TypeOK'
<1> SUFFICES ASSUME TypeOK, Chosen, [Next]_vars PROVE TypeOK'
    OBVIOUS
<1> USE VersionsAreNumbers DEF TypeOK
<1>1. CASE UNCHANGED vars
    BY <1>1 DEF vars, shared
<1>0. overtaken' \subseteq Shells
    BY DEF Next, vars
<1> USE <1>0
<1>2. CASE Publish
    BY <1>2, FirstPinOK DEF Publish, Versions
<1>4. CASE DayPasses
    BY <1>4 DEF DayPasses, Remembered
<1>5. ASSUME NEW p \in Shells, Command(p) PROVE TypeOK'
    \* A step that leaves its command a command, or ends it, and no file torn or
    \* changed.
    <2>1. ASSUME NEW j \in {Idle} \union Commands, Become(p, j),
                 UNCHANGED <<pin, state, stateTorn, cache, published, said, refused>>
          PROVE  TypeOK'
        BY <2>1 DEF Become
    <2>2. job[p] \in Commands \/ At(p, "idle")
        BY DEF At, Idle
    <2>3. ASSUME job[p] \in Commands, NEW step \in Steps
          PROVE  [job[p] EXCEPT !.step = step] \in Commands
        BY <2>3 DEF Commands, Steps
    <2>4. CASE BeginRun(p)
        <3>1. PICK self \in Versions \union {Dev}, terminal \in BOOLEAN :
                  Become(p, Begun("run", self, terminal,
                                  IF terminal THEN "load" ELSE "dispatch", NoVersion))
            BY <2>4 DEF BeginRun
        <3>2. Begun("run", self, terminal, IF terminal THEN "load" ELSE "dispatch", NoVersion)
                  \in Commands
            BY BegunOK
        <3> QED
            BY <2>1, <2>4, <3>1, <3>2 DEF BeginRun
    <2>5. CASE BeginUpdate(p)
        <3> DEFINE to == LatestFor(p)
        <3>1. Begun("update", Dev, TRUE, IF to = pin.ver THEN "fetch" ELSE "install", to)
                  \in Commands
            BY BegunOK DEF LatestFor
        <3> QED
            BY <2>1, <2>5, <3>1 DEF BeginUpdate
    <2>6. CASE BeginPick(p)
        <3>1. PICK to \in Picks :
                  Become(p, Begun("pick", Dev, TRUE,
                                  IF to = pin.ver THEN "fetch" ELSE "install", to))
            BY <2>6 DEF BeginPick
        <3>2. to \in Versions
            BY FirstPinOK DEF Picks, Versions
        <3>3. Begun("pick", Dev, TRUE, IF to = pin.ver THEN "fetch" ELSE "install", to) \in Commands
            BY <3>2, BegunOK
        <3> QED
            BY <2>1, <2>6, <3>1, <3>3 DEF BeginPick
    <2>7. CASE Offer(p)
        <3> DEFINE mem == IF stateTorn THEN Forgotten ELSE state
        <3>1. PICK latest \in IF mem.due THEN {mem.latest, published} ELSE {mem.latest} :
                  Become(p, [job[p] EXCEPT
                      !.mem = [mem EXCEPT !.due = FALSE, !.latest = latest],
                      !.saw = IF stateTorn THEN {} ELSE refused,
                      !.to = latest,
                      !.step = IF latest > job[p].pin /\ latest \notin mem.declined
                               THEN "ask" ELSE "save"])
            BY <2>7 DEF Offer
        <3>2. mem \in Remembered
            BY DEF Remembered, Forgotten
        <3>3. latest \in Versions \union {NoVersion}
            BY <3>2 DEF Remembered
        <3>4. [mem EXCEPT !.due = FALSE, !.latest = latest] \in Remembered
            BY <3>2, <3>3 DEF Remembered
        <3>5. job[p] \in Commands
            BY <2>2, <2>7 DEF Offer, At
        <3>6. ASSUME NEW m \in Remembered, NEW saw \in SUBSET Versions, NEW step \in {"ask", "save"}
              PROVE  [job[p] EXCEPT !.mem = m, !.saw = saw, !.to = latest, !.step = step]
                         \in Commands
            BY <3>3, <3>5 DEF Commands
        <3>7. (IF stateTorn THEN {} ELSE refused) \in SUBSET Versions
            OBVIOUS
        <3> QED
            BY <2>1, <2>7, <3>1, <3>4, <3>6, <3>7 DEF Offer
    <2>8. CASE AskYes(p)
        BY <2>1, <2>2, <2>3, <2>8 DEF AskYes, Go, At, Steps
    <2>9. CASE AskNo(p)
        <3>1. job[p] \in Commands /\ job[p].to \in Versions
            BY <2>2, <2>9 DEF AskNo, At, Chosen, Moving
        <3>2. ASSUME NEW m \in Remembered
              PROVE  [m EXCEPT !.declined = @ \union {job[p].to}] \in Remembered
            BY <3>1 DEF Remembered
        <3>3. [job[p] EXCEPT !.no = job[p].to, !.step = "save",
                             !.mem.declined = @ \union {job[p].to}] \in Commands
            BY <3>1, <3>2 DEF Commands
        <3>4. said' \subseteq Versions
            BY <2>9, <3>1 DEF AskNo
        <3>5. job' \in [Shells -> {Idle} \union Commands]
            BY <2>9, <3>3 DEF AskNo, Become
        <3> QED
            BY <2>9, <3>4, <3>5 DEF AskNo
    <2>10. CASE SaveState(p)
        BY <2>2, <2>3, <2>10 DEF SaveState, Go, Become, At, Steps
    <2>11. CASE StateSaved(p)
        <3>1. job[p] \in Commands
            BY <2>2, <2>11 DEF StateSaved, At
        <3>2. /\ job[p].mem \in Remembered /\ job[p].saw \subseteq Versions
              /\ job[p].no \in Versions \union {NoVersion}
            BY <3>1 DEF Commands
        <3>3. job' \in [Shells -> {Idle} \union Commands]
            BY <2>3, <2>11, <3>1 DEF StateSaved, Go, Become, Steps
        <3>4. state' \in Remembered /\ stateTorn' \in BOOLEAN /\ refused' \subseteq Versions
            BY <2>11, <3>2 DEF StateSaved
        <3> QED
            BY <2>11, <3>3, <3>4 DEF StateSaved
    <2>12. ASSUME NotMoved(p), job[p] \in Commands,
                  UNCHANGED <<pin, state, stateTorn, cache, published, said, refused>>
           PROVE  TypeOK'
        BY <2>1, <2>3, <2>12 DEF NotMoved, Go, End, Steps
    <2>13. CASE InstallTo(p)
        <3>1. job[p] \in Commands /\ job[p].to \in Versions
            BY <2>2, <2>13 DEF InstallTo, At, Chosen, Moving
        <3>2. CASE cache' = cache \union {job[p].to} /\ Go(p, "check")
            BY <2>3, <2>13, <3>1, <3>2 DEF InstallTo, Go, Become, Steps
        <3>3. CASE NotMoved(p) /\ UNCHANGED cache
            BY <2>12, <2>13, <3>1, <3>3 DEF InstallTo
        <3> QED
            BY <2>13, <3>2, <3>3 DEF InstallTo
    <2>14. CASE CheckBuild(p)
        <3>1. job[p] \in Commands /\ job[p].to \in Versions
            BY <2>2, <2>14 DEF CheckBuild, At, Chosen, Moving
        <3>2. [job[p] EXCEPT !.step = "truncate", !.built = Builder(p)] \in Commands
            BY <3>1 DEF Commands, Builder
        <3> QED
            BY <2>1, <2>12, <2>14, <3>1, <3>2 DEF CheckBuild
    <2>15. CASE TruncatePin(p)
        <3>1. job[p] \in Commands
            BY <2>2, <2>15 DEF TruncatePin, At
        <3>2. CASE pin' = [pin EXCEPT !.torn = TRUE] /\ Go(p, "write")
            BY <2>3, <2>15, <3>1, <3>2 DEF TruncatePin, Go, Become, Steps
        <3>3. CASE NotMoved(p) /\ UNCHANGED pin
            BY <2>12, <2>15, <3>1, <3>3 DEF TruncatePin
        <3> QED
            BY <2>15, <3>2, <3>3 DEF TruncatePin
    <2>16. CASE WritePin(p)
        <3>1. job[p] \in Commands /\ job[p].to \in Versions
            BY <2>2, <2>16 DEF WritePin, At, Chosen, Moving
        <3>2. CASE /\ \E torn \in {FALSE, ~pin.torn} : pin' = [ver |-> job[p].to, torn |-> torn]
                   /\ Moved(p)
            <4>1. [job[p] EXCEPT !.step = "save", !.pin = job[p].to] \in Commands
                BY <3>1 DEF Commands
            <4>2. job' \in [Shells -> {Idle} \union Commands]
                BY <3>2, <4>1 DEF Moved, Become, End
            <4>3. pin' \in [ver : Versions, torn : BOOLEAN]
                <5>1. PICK torn \in {FALSE, ~pin.torn} : pin' = [ver |-> job[p].to, torn |-> torn]
                    BY <3>2
                <5>2. torn \in BOOLEAN
                    OBVIOUS
                <5> QED
                    BY <3>1, <5>1, <5>2
            <4> QED
                BY <2>16, <4>2, <4>3 DEF WritePin
        <3>3. CASE NotMoved(p) /\ UNCHANGED pin
            BY <2>12, <2>16, <3>1, <3>3 DEF WritePin
        <3> QED
            BY <2>16, <3>2, <3>3 DEF WritePin
    <2>17. CASE Dispatch(p)
        <3>1. job[p] \in Commands
            BY <2>2, <2>17 DEF Dispatch, At
        <3>2. /\ [job[p] EXCEPT !.step = "running", !.by = job[p].self] \in Commands
              /\ [job[p] EXCEPT !.step = "running", !.by = job[p].pin] \in Commands
              /\ [job[p] EXCEPT !.step = "fetch"] \in Commands
            BY <3>1 DEF Commands
        <3> QED
            BY <2>1, <2>17, <3>2 DEF Dispatch, Go, End
    <2>18. CASE Fetch(p)
        <3>1. job[p] \in Commands
            BY <2>2, <2>18 DEF Fetch, At
        <3>2. [job[p] EXCEPT !.step = "running", !.by = job[p].pin] \in Commands
              /\ job[p].pin \in Versions
            BY <3>1 DEF Commands
        <3> QED
            BY <2>18, <3>2 DEF Fetch, Become, End
    <2>19. CASE Finish(p) \/ Killed(p)
        BY <2>1, <2>19 DEF Finish, Killed, End
    <2> QED
        BY <1>5, <2>4, <2>5, <2>6, <2>7, <2>8, <2>9, <2>10, <2>11, <2>13, <2>14, <2>15,
           <2>16, <2>17, <2>18, <2>19 DEF Command
<1> QED
    BY <1>1, <1>2, <1>4, <1>5 DEF Next, Moves

-----------------------------------------------------------------------------
\* What a command may count on as it moves a project: it has chosen a version,
\* from the check on the version is installed, after it the version has built
\* the project.
Ready(j, installed) ==
    /\ j.step \in Moving => j.to \in Versions
    /\ j.step \in {"check", "truncate", "write"} => j.to \in installed
    /\ j.step \in {"truncate", "write"} => j.built = j.to

MoveInv == TypeOK /\ \A p \in Shells : Ready(job[p], cache)

LEMMA ReadyMore ==
    ASSUME NEW j, NEW c, NEW d, c \subseteq d, Ready(j, c) PROVE Ready(j, d)
BY DEF Ready

LEMMA MoveInit == Init => MoveInv
<1>1. Ready(Idle, cache)
    BY DEF Ready, Moving, Idle
<1> QED
    BY <1>1, TypeInit DEF Init, MoveInv

LEMMA MoveStep == MoveInv /\ [Next]_vars => MoveInv'
<1> SUFFICES ASSUME MoveInv, [Next]_vars PROVE MoveInv'
    OBVIOUS
<1>1. TypeOK /\ Chosen
    BY DEF MoveInv, Chosen, Ready
<1>2. TypeOK'
    BY <1>1, TypeStep
<1>3. CASE job' = job /\ cache' = cache
    BY <1>2, <1>3 DEF MoveInv
<1>4. ASSUME NEW p \in Shells, Command(p) PROVE MoveInv'
    <2>1. ASSUME NEW j, Become(p, j), cache \subseteq cache', Ready(j, cache')
          PROVE  MoveInv'
        <3>1. ASSUME NEW q \in Shells PROVE Ready(job'[q], cache')
            <4>1. CASE q = p
                BY <1>1, <2>1, <4>1 DEF Become, TypeOK
            <4>2. CASE q # p
                BY <1>1, <2>1, <4>2, ReadyMore DEF Become, TypeOK, MoveInv
            <4> QED
                BY <4>1, <4>2
        <3> QED
            BY <1>2, <3>1 DEF MoveInv
    <2>2. job[p] \in Commands \/ At(p, "idle")
        BY <1>1 DEF At, Idle, TypeOK
    <2>3. Ready(Idle, cache')
        BY DEF Ready, Idle, Moving
    \* Steps that no longer move the project.
    <2>4. ASSUME job[p] \in Commands, NEW step \in {"save", "saving", "dispatch", "fetch"}
          PROVE  Ready([job[p] EXCEPT !.step = step], cache')
        BY <2>4 DEF Ready, Commands, Moving
    <2>5. CASE BeginRun(p)
        BY <2>1, <2>5 DEF BeginRun, Begun, Ready, Moving, NoVersion
    <2>6. CASE BeginUpdate(p)
        <3>1. LatestFor(p) \in Versions
            BY <1>1 DEF LatestFor, TypeOK
        <3> QED
            BY <2>1, <2>6, <3>1 DEF BeginUpdate, Begun, Ready, Moving
    <2>7. CASE BeginPick(p)
        <3>1. Picks \subseteq Versions
            BY FirstPinOK DEF Picks, Versions
        <3> QED
            BY <2>1, <2>7, <3>1 DEF BeginPick, Begun, Ready, Moving
    <2>8. CASE Offer(p)
        <3> DEFINE mem == IF stateTorn THEN Forgotten ELSE state
        <3>1. PICK latest \in IF mem.due THEN {mem.latest, published} ELSE {mem.latest} :
                  Become(p, [job[p] EXCEPT
                      !.mem = [mem EXCEPT !.due = FALSE, !.latest = latest],
                      !.saw = IF stateTorn THEN {} ELSE refused,
                      !.to = latest,
                      !.step = IF latest > job[p].pin /\ latest \notin mem.declined
                               THEN "ask" ELSE "save"])
            BY <2>8 DEF Offer
        <3>2. latest \in Versions \union {NoVersion}
            BY <1>1 DEF TypeOK, Remembered, Forgotten
        <3>3. job[p] \in Commands /\ job[p].pin \in Versions
            BY <2>2, <2>8 DEF Offer, At, Commands
        <3>4. latest > job[p].pin => latest \in Versions
            BY <3>2, <3>3 DEF Versions, NoVersion
        <3>5. ASSUME NEW m, NEW saw, NEW step \in {"ask", "save"}, step = "ask" => latest \in Versions
              PROVE  Ready([job[p] EXCEPT !.mem = m, !.saw = saw, !.to = latest, !.step = step], cache')
            BY <3>3, <3>5 DEF Ready, Commands, Moving
        <3> QED
            BY <2>1, <2>8, <3>1, <3>4, <3>5 DEF Offer
    <2>9. CASE AskYes(p)
        <3>1. job[p] \in Commands /\ job[p].to \in Versions
            BY <1>1, <2>2, <2>9 DEF AskYes, At, Chosen, Moving
        <3>2. Ready([job[p] EXCEPT !.step = "install"], cache')
            BY <3>1 DEF Ready, Commands
        <3> QED
            BY <2>1, <2>9, <3>2 DEF AskYes, Go
    <2>10. CASE AskNo(p)
        <3>1. job[p] \in Commands
            BY <2>2, <2>10 DEF AskNo, At
        <3>2. Ready([job[p] EXCEPT !.no = job[p].to, !.step = "save",
                                   !.mem.declined = @ \union {job[p].to}], cache')
            BY <3>1 DEF Ready, Commands, Moving
        <3> QED
            BY <2>1, <2>10, <3>2 DEF AskNo
    <2>11. CASE SaveState(p) \/ StateSaved(p)
        BY <2>1, <2>2, <2>4, <2>11 DEF SaveState, StateSaved, At, Go
    <2>12. ASSUME NotMoved(p), job[p] \in Commands, cache' = cache PROVE MoveInv'
        BY <2>1, <2>3, <2>4, <2>12 DEF NotMoved, Go, End
    <2>13. CASE InstallTo(p)
        <3>1. job[p] \in Commands /\ job[p].to \in Versions
            BY <1>1, <2>2, <2>13 DEF InstallTo, At, Chosen, Moving
        <3>2. CASE cache' = cache \union {job[p].to} /\ Go(p, "check")
            <4>1. Ready([job[p] EXCEPT !.step = "check"], cache')
                BY <3>1, <3>2 DEF Ready, Commands
            <4> QED
                BY <2>1, <3>2, <4>1 DEF Go
        <3>3. CASE NotMoved(p) /\ UNCHANGED cache
            BY <2>12, <3>1, <3>3
        <3> QED
            BY <2>13, <3>2, <3>3 DEF InstallTo
    <2>14. CASE CheckBuild(p)
        <3>1. job[p] \in Commands /\ job[p].to \in Versions /\ job[p].to \in cache
            BY <1>1, <2>2, <2>14 DEF CheckBuild, At, Chosen, Moving, MoveInv, Ready
        <3>2. Ready([job[p] EXCEPT !.step = "truncate", !.built = Builder(p)], cache)
            BY <3>1 DEF Ready, Commands, Builder
        <3> QED
            BY <2>1, <2>12, <2>14, <3>1, <3>2 DEF CheckBuild
    <2>15. CASE TruncatePin(p)
        <3>1. /\ job[p] \in Commands /\ job[p].to \in Versions /\ job[p].to \in cache
              /\ job[p].built = job[p].to
            BY <1>1, <2>2, <2>15 DEF TruncatePin, At, Chosen, Moving, MoveInv, Ready
        <3>2. Ready([job[p] EXCEPT !.step = "write"], cache)
            BY <3>1 DEF Ready, Commands
        <3> QED
            BY <2>1, <2>12, <2>15, <3>1, <3>2 DEF TruncatePin, Go
    <2>16. CASE WritePin(p)
        <3>1. job[p] \in Commands
            BY <2>2, <2>16 DEF WritePin, At
        <3>2. Ready([job[p] EXCEPT !.step = "save", !.pin = job[p].to], cache')
            BY <3>1 DEF Ready, Commands, Moving
        <3> QED
            BY <2>1, <2>3, <2>12, <2>16, <3>1, <3>2 DEF WritePin, Moved, End
    <2>17. CASE Dispatch(p) \/ Fetch(p)
        <3>1. job[p] \in Commands
            BY <2>2, <2>17 DEF Dispatch, Fetch, At
        <3>2. ASSUME NEW v PROVE Ready([job[p] EXCEPT !.step = "running", !.by = v], cache')
            BY <3>1 DEF Ready, Commands, Moving
        <3> QED
            BY <2>1, <2>3, <2>4, <2>17, <3>1, <3>2 DEF Dispatch, Fetch, Go, End
    <2>18. CASE Finish(p) \/ Killed(p)
        BY <2>1, <2>3, <2>18 DEF Finish, Killed, End
    <2> QED
        BY <1>4, <2>5, <2>6, <2>7, <2>8, <2>9, <2>10, <2>11, <2>13, <2>14, <2>15, <2>16,
           <2>17, <2>18 DEF Command
<1> QED
    BY <1>3, <1>4 DEF Next, Moves, vars, shared, Publish, DayPasses

\* Every state is well typed, for any terminals and releases (runPinned and
\* what it calls).
THEOREM VersionsTyped == Spec => []TypeOK
<1>1. MoveInv => TypeOK
    BY DEF MoveInv
<1> QED
    BY MoveInit, MoveStep, <1>1, PTL DEF Spec

\* The pin is written by one step only, and it is the step of its command.
LEMMA OnlyWritePin ==
    ASSUME MoveInv, Next, pin'.ver # pin.ver
    PROVE  \E p \in Shells : WritePin(p) /\ pin'.ver = job[p].to /\ Writes(p)
<1>1. pin \in [ver : Versions, torn : BOOLEAN] /\ TypeOK
    BY DEF MoveInv, TypeOK
<1>2. PICK p \in Shells : Command(p)
    BY DEF Next, Moves, Publish, DayPasses
<1>3. ~TruncatePin(p)
    BY <1>1 DEF TruncatePin
<1>4. WritePin(p)
    BY <1>2, <1>3 DEF Command, BeginRun, BeginUpdate, BeginPick, Offer, AskYes, AskNo, SaveState,
                      StateSaved, InstallTo, CheckBuild, Dispatch, Fetch, Finish, Killed
<1>5. pin'.ver = job[p].to /\ Moved(p) /\ At(p, "write") /\ job[p] \in Commands
    BY <1>1, <1>4 DEF WritePin, At, TypeOK, Idle
<1>6. job'[p] \in {Idle, [job[p] EXCEPT !.step = "save", !.pin = job[p].to]}
    BY <1>1, <1>5 DEF Moved, Become, End, TypeOK
<1>7. job'[p].step \in {"idle", "save"}
    <2>1. CASE job'[p] = Idle
        BY <2>1 DEF Idle
    <2>2. CASE job'[p] = [job[p] EXCEPT !.step = "save", !.pin = job[p].to]
        BY <1>5, <2>2 DEF Commands
    <2> QED
        BY <1>6, <2>1, <2>2
<1> QED
    BY <1>4, <1>5, <1>7 DEF Writes, At

\* A project is moved only to an installed version that has built it, whatever
\* commands run at once and wherever they are killed (moveProject).
THEOREM MovesWhenClean == Spec => MovedWhenClean
<1>1. MoveInv /\ [Next]_vars =>
        [pin'.ver # pin.ver =>
            /\ pin'.ver \in cache
            /\ \E p \in Shells : Writes(p) /\ job[p].built = pin'.ver]_vars
    <2> SUFFICES ASSUME MoveInv, Next, pin'.ver # pin.ver
                 PROVE  /\ pin'.ver \in cache
                        /\ \E p \in Shells : Writes(p) /\ job[p].built = pin'.ver
        OBVIOUS
    <2>1. PICK p \in Shells : WritePin(p) /\ pin'.ver = job[p].to /\ Writes(p)
        BY OnlyWritePin
    <2> QED
        BY <2>1 DEF Writes, At, MoveInv, Ready
<1> QED
    BY MoveInit, MoveStep, <1>1, PTL DEF Spec, MovedWhenClean

-----------------------------------------------------------------------------
\* A command that no other has overtaken has the project's pin; every command
\* raises its pin unless it was told the version, and runs as it.
Honest(j, fresh, ver) ==
    /\ fresh /\ j.step # "idle" => j.pin = ver
    /\ j.step \in Moving /\ j.cmd # "pick" => j.to > j.pin
    /\ j.step = "running" => j.by \in {j.pin, Dev}

PinInv ==
    /\ MoveInv
    /\ \A p \in Shells : Honest(job[p], p \notin overtaken, pin.ver)

LEMMA PinInit == Init => PinInv
<1> SUFFICES ASSUME Init PROVE PinInv
    OBVIOUS
<1>1. Honest(Idle, TRUE, pin.ver) /\ \A p \in Shells : job[p] = Idle /\ p \notin overtaken
    BY DEF Init, Honest, Moving, Idle
<1> QED
    BY <1>1, MoveInit DEF PinInv, Honest

LEMMA PinStep == PinInv /\ [Next]_vars => PinInv'
<1> SUFFICES ASSUME PinInv, [Next]_vars PROVE PinInv'
    OBVIOUS
<1>1. MoveInv /\ TypeOK /\ MoveInv'
    BY MoveStep DEF PinInv, MoveInv
<1>2. CASE UNCHANGED vars
    BY <1>1, <1>2 DEF PinInv, vars, shared
<1>3. ASSUME Next PROVE overtaken' = {q \in Shells : Overtaken(q)}
    BY <1>3 DEF Next
\* A command that takes no step stays as it was.
<1>4. ASSUME Next, NEW q \in Shells, job'[q] = job[q]
      PROVE  Honest(job'[q], q \notin overtaken', pin'.ver)
    <2>1. Honest(job[q], q \notin overtaken, pin.ver)
        BY DEF PinInv
    <2>2. q \notin overtaken' /\ job[q].step # "idle" => q \notin overtaken /\ pin'.ver = pin.ver
        BY <1>3, <1>4 DEF Overtaken, Writes, At
    <2> QED
        BY <1>4, <2>1, <2>2 DEF Honest
<1>5. CASE Next /\ job' = job
    BY <1>1, <1>4, <1>5 DEF PinInv
<1>6. ASSUME Next, NEW p \in Shells, Command(p) PROVE PinInv'
    <2> DEFINE fresh == p \notin overtaken
    <2>0. ASSUME NEW j, Become(p, j), Honest(j, p \notin overtaken', pin'.ver) PROVE PinInv'
        <3>1. job'[p] = j /\ \A q \in Shells \ {p} : job'[q] = job[q]
            BY <1>1, <2>0 DEF Become, TypeOK
        <3>2. ASSUME NEW q \in Shells PROVE Honest(job'[q], q \notin overtaken', pin'.ver)
            BY <1>4, <1>6, <2>0, <3>1
        <3> QED
            BY <1>1, <3>2 DEF PinInv
    \* A step that does not write the pin leaves its command as fresh as it was.
    <2>2. ASSUME NEW j, Become(p, j), Honest(j, fresh, pin.ver), pin'.ver = pin.ver,
                 pin' = pin \/ job[p].step # "write"
          PROVE  PinInv'
        <3>1. job'[p] = j
            BY <1>1, <2>2 DEF Become, TypeOK
        <3>2. p \notin overtaken' /\ j.step # "idle" => fresh
            BY <1>3, <1>6, <2>2, <3>1 DEF Overtaken, Writes, At
        <3>3. Honest(j, p \notin overtaken', pin'.ver)
            BY <2>2, <3>2 DEF Honest
        <3> QED
            BY <2>0, <2>2, <3>3
    <2>3. /\ job[p] \in Commands \/ At(p, "idle")
          /\ ~At(p, "idle") /\ fresh => job[p].pin = pin.ver
          /\ job[p].step \in Moving /\ job[p].cmd # "pick" => job[p].to > job[p].pin
          /\ pin.ver \in Versions
        BY <1>1 DEF At, Idle, TypeOK, PinInv, Honest
    <2>4. Honest(Idle, fresh, pin.ver)
        BY DEF Honest, Idle, Moving
    <2> DEFINE Known == job[p] \in Commands /\ (fresh => job[p].pin = pin.ver)
    <2>5. ASSUME Known, NEW step \in {"save", "saving", "dispatch", "fetch"}
          PROVE  Honest([job[p] EXCEPT !.step = step], fresh, pin.ver)
        BY <2>5 DEF Honest, Commands, Moving
    <2>6. ASSUME Known, job[p].step \in Moving, NEW step \in Moving
          PROVE  Honest([job[p] EXCEPT !.step = step], fresh, pin.ver)
        BY <2>3, <2>6 DEF Honest, Commands, Moving
    <2>7. CASE BeginRun(p)
        BY <2>2, <2>7 DEF BeginRun, Begun, Honest, Moving
    <2>8. CASE BeginUpdate(p)
        <3> DEFINE to == LatestFor(p)
        <3>0. published \in Nat /\ pin.ver \in Nat
            BY <1>1, VersionsAreNumbers DEF TypeOK
        <3>1. to # pin.ver => to > pin.ver
            BY <3>0 DEF LatestFor
        <3>2. Honest(Begun("update", Dev, TRUE, IF to = pin.ver THEN "fetch" ELSE "install", to),
                     fresh, pin.ver)
            BY <2>8, <3>1 DEF BeginUpdate, Begun, Honest, Moving
        <3> QED
            BY <2>2, <2>8, <3>2 DEF BeginUpdate
    <2>9. CASE BeginPick(p)
        BY <2>2, <2>9 DEF BeginPick, Begun, Honest, Moving
    <2>10. CASE Offer(p)
        <3> DEFINE mem == IF stateTorn THEN Forgotten ELSE state
        <3>1. PICK latest \in IF mem.due THEN {mem.latest, published} ELSE {mem.latest} :
                  Become(p, [job[p] EXCEPT
                      !.mem = [mem EXCEPT !.due = FALSE, !.latest = latest],
                      !.saw = IF stateTorn THEN {} ELSE refused,
                      !.to = latest,
                      !.step = IF latest > job[p].pin /\ latest \notin mem.declined
                               THEN "ask" ELSE "save"])
            BY <2>10 DEF Offer
        <3>2. Known /\ pin' = pin
            BY <2>3, <2>10 DEF Offer, At
        <3>3. ASSUME NEW m, NEW saw, NEW step \in {"ask", "save"}, step = "ask" => latest > job[p].pin
              PROVE  Honest([job[p] EXCEPT !.mem = m, !.saw = saw, !.to = latest, !.step = step],
                            fresh, pin.ver)
            BY <3>2, <3>3 DEF Honest, Commands, Moving
        <3> QED
            BY <2>2, <3>1, <3>2, <3>3
    <2>11. CASE AskYes(p)
        BY <2>2, <2>3, <2>6, <2>11 DEF AskYes, At, Go, Moving
    <2>12. CASE AskNo(p)
        <3>1. Known /\ pin' = pin
            BY <2>3, <2>12 DEF AskNo, At
        <3>2. Honest([job[p] EXCEPT !.no = job[p].to, !.step = "save",
                                    !.mem.declined = @ \union {job[p].to}], fresh, pin.ver)
            BY <3>1 DEF Honest, Commands, Moving
        <3> QED
            BY <2>2, <2>12, <3>1, <3>2 DEF AskNo
    <2>13. CASE SaveState(p) \/ StateSaved(p)
        BY <2>2, <2>3, <2>5, <2>13 DEF SaveState, StateSaved, At, Go
    <2>14. ASSUME NotMoved(p), Known, pin' = pin PROVE PinInv'
        BY <2>2, <2>4, <2>5, <2>14 DEF NotMoved, Go, End
    <2>15. CASE InstallTo(p)
        BY <2>2, <2>3, <2>6, <2>14, <2>15 DEF InstallTo, At, Go, Moving
    <2>16. CASE CheckBuild(p)
        <3>1. Known /\ pin' = pin /\ job[p].step = "check"
            BY <2>3, <2>16 DEF CheckBuild, At
        <3>2. Honest([job[p] EXCEPT !.step = "truncate", !.built = Builder(p)], fresh, pin.ver)
            BY <2>3, <3>1 DEF Honest, Commands, Moving
        <3> QED
            BY <2>2, <2>14, <2>16, <3>1, <3>2 DEF CheckBuild
    <2>17. CASE TruncatePin(p)
        <3>1. Known /\ job[p].step = "truncate"
            BY <2>3, <2>17 DEF TruncatePin, At
        <3>2. pin'.ver = pin.ver
            BY <1>1, <2>17 DEF TruncatePin, TypeOK
        <3> QED
            BY <2>2, <2>6, <2>14, <2>17, <3>1, <3>2 DEF TruncatePin, Go, Moving
    <2>18. CASE WritePin(p)
        <3>1. Known
            BY <2>3, <2>18 DEF WritePin, At
        <3>2. CASE pin'.ver = job[p].to /\ Moved(p)
            <4>1. Honest([job[p] EXCEPT !.step = "save", !.pin = job[p].to],
                         p \notin overtaken', pin'.ver)
                BY <3>1, <3>2 DEF Honest, Commands, Moving
            <4>2. Honest(Idle, p \notin overtaken', pin'.ver)
                BY DEF Honest, Idle, Moving
            <4> QED
                BY <2>0, <3>2, <4>1, <4>2 DEF Moved, End
        <3>3. CASE NotMoved(p) /\ UNCHANGED pin
            BY <2>14, <3>1, <3>3
        <3> QED
            BY <2>18, <3>2, <3>3 DEF WritePin
    <2>19. CASE Dispatch(p) \/ Fetch(p)
        <3>1. Known /\ pin' = pin
            BY <2>3, <2>19 DEF Dispatch, Fetch, At
        <3>2. ASSUME NEW v \in {job[p].pin, Dev}
              PROVE  Honest([job[p] EXCEPT !.step = "running", !.by = v], fresh, pin.ver)
            BY <3>1, <3>2 DEF Honest, Commands, Moving
        <3> QED
            BY <2>2, <2>4, <2>5, <2>19, <3>1, <3>2 DEF Dispatch, Fetch, Go, End
    <2>20. CASE Finish(p) \/ Killed(p)
        BY <2>2, <2>4, <2>20 DEF Finish, Killed, End
    <2> QED
        BY <1>6, <2>7, <2>8, <2>9, <2>10, <2>11, <2>12, <2>13, <2>15, <2>16, <2>17, <2>18,
           <2>19, <2>20 DEF Command
<1> QED
    BY <1>2, <1>5, <1>6 DEF Next, Moves, Publish, DayPasses

\* Whatever commands run at once, a release binary runs only as the version the
\* project pins then, unless another command moved it meanwhile (runPinned).
THEOREM RunsAsPinned == Spec => []RunsPinned
<1>1. PinInv => RunsPinned
    BY DEF PinInv, RunsPinned, Honest, At
<1> QED
    BY PinInit, PinStep, <1>1, PTL DEF Spec

\* Whatever commands run at once, the pin is lowered only by a command that was
\* told the version or has been overtaken (update).
THEOREM PinNeverLowered == Spec => NeverLowered
<1>1. PinInv /\ [Next]_vars =>
        [pin'.ver < pin.ver =>
             \E p \in Shells : Writes(p) /\ (job[p].cmd = "pick" \/ p \in overtaken)]_vars
    <2> SUFFICES ASSUME PinInv, Next, pin'.ver < pin.ver
                 PROVE  \E p \in Shells : Writes(p) /\ (job[p].cmd = "pick" \/ p \in overtaken)
        OBVIOUS
    <2>1. pin \in [ver : Versions, torn : BOOLEAN] /\ pin.ver \in Nat /\ MoveInv
        BY VersionsAreNumbers DEF PinInv, MoveInv, TypeOK
    <2>2. PICK p \in Shells : WritePin(p) /\ pin'.ver = job[p].to /\ Writes(p)
        BY <2>1, OnlyWritePin
    <2>3. At(p, "write") /\ job[p].to \in Versions /\ (p \notin overtaken => job[p].pin = pin.ver)
        BY <2>2 DEF WritePin, At, PinInv, Honest, MoveInv, Ready, Moving
    <2>4. job[p].cmd # "pick" /\ p \notin overtaken => job[p].to > pin.ver
        BY <2>3 DEF At, PinInv, Honest, Moving
    <2>5. job[p].to \in Nat
        BY <2>3, VersionsAreNumbers
    <2>6. job[p].cmd = "pick" \/ p \in overtaken
        BY <2>1, <2>2, <2>4, <2>5
    <2> QED
        BY <2>2, <2>6
<1> QED
    BY PinInit, PinStep, <1>1, PTL DEF Spec, NeverLowered

-----------------------------------------------------------------------------
\* Between its reading of state.json and its end, a command's state has every no
\* that it saw, and its own.
Knowing == {"ask", "install", "check", "truncate", "write", "save", "saving"}
Knows(j) ==
    /\ j.step \in {"load", "ask", "save", "saving"} => j.cmd = "run"
    /\ j.step = "load" => j.no = NoVersion
    /\ j.step \in Knowing /\ j.cmd = "run" =>
           j.saw \union ({j.no} \ {NoVersion}) \subseteq j.mem.declined

\* state.json has, unless it is torn, every no that the last save was to hold.
DeclinedInv ==
    /\ MoveInv
    /\ \A p \in Shells : Knows(job[p])
    /\ ~stateTorn => refused \subseteq state.declined

LEMMA DeclinedInit == Init => DeclinedInv
<1>1. Knows(Idle)
    BY DEF Knows, Knowing, Idle
<1> QED
    BY <1>1, MoveInit DEF Init, DeclinedInv

LEMMA DeclinedStep == DeclinedInv /\ [Next]_vars => DeclinedInv'
<1> SUFFICES ASSUME DeclinedInv, [Next]_vars PROVE DeclinedInv'
    OBVIOUS
<1>1. MoveInv' /\ TypeOK
    BY MoveStep DEF DeclinedInv, MoveInv
<1>2. CASE UNCHANGED <<job, refused, stateTorn>> /\ state'.declined = state.declined
    BY <1>1, <1>2 DEF DeclinedInv
<1>3. ASSUME NEW p \in Shells, Command(p) PROVE DeclinedInv'
    <2>2. job[p] \in Commands \/ At(p, "idle")
        BY <1>1 DEF At, Idle, TypeOK
    <2>4. Knows(job[p]) /\ (~stateTorn => refused \subseteq state.declined)
        BY DEF DeclinedInv
    <2>5. ASSUME NEW j, Become(p, j), Knows(j), ~stateTorn' => refused' \subseteq state'.declined
          PROVE  DeclinedInv'
        <3>1. job'[p] = j /\ \A q \in Shells \ {p} : job'[q] = job[q]
            BY <1>1, <2>5 DEF Become, TypeOK
        <3>2. \A q \in Shells : Knows(job'[q])
            BY <2>5, <3>1 DEF DeclinedInv
        <3> QED
            BY <1>1, <2>5, <3>2 DEF DeclinedInv
    <2>6. Knows(Idle)
        BY DEF Knows, Knowing, Idle
    <2>7. ASSUME job[p] \in Commands, job[p].step \in Knowing, NEW step \in Steps \ {"load"},
                 step \in {"ask", "save", "saving"} => job[p].cmd = "run"
          PROVE  Knows([job[p] EXCEPT !.step = step])
        <3>1. /\ [job[p] EXCEPT !.step = step].step = step
              /\ [job[p] EXCEPT !.step = step].cmd = job[p].cmd
              /\ [job[p] EXCEPT !.step = step].no = job[p].no
              /\ [job[p] EXCEPT !.step = step].saw = job[p].saw
              /\ [job[p] EXCEPT !.step = step].mem = job[p].mem
            BY <2>7 DEF Commands
        <3> QED
            BY <2>4, <2>7, <3>1 DEF Knows, Steps
    <2>8. ASSUME NEW cmd, NEW self, NEW terminal, NEW step, NEW to,
                 \/ step \in {"load", "dispatch"} /\ cmd = "run"
                 \/ step \in {"fetch", "install"} /\ cmd # "run"
          PROVE  Knows(Begun(cmd, self, terminal, step, to))
        BY <2>8 DEF Begun, Knows, Knowing
    <2>9. CASE BeginRun(p)
        <3>1. PICK self \in Versions \union {Dev}, step \in {"load", "dispatch"}, terminal \in BOOLEAN :
                  Become(p, Begun("run", self, terminal, step, NoVersion))
            BY <2>9 DEF BeginRun
        <3>2. Knows(Begun("run", self, terminal, step, NoVersion))
            BY <2>8
        <3> QED
            BY <2>4, <2>5, <2>9, <3>1, <3>2 DEF BeginRun
    <2>10. CASE BeginUpdate(p) \/ BeginPick(p)
        <3>1. PICK cmd \in {"update", "pick"}, step \in {"fetch", "install"} :
                  \E to : Become(p, Begun(cmd, Dev, TRUE, step, to))
            BY <2>10 DEF BeginUpdate, BeginPick
        <3>2. PICK to : Become(p, Begun(cmd, Dev, TRUE, step, to))
            BY <3>1
        <3>3. Knows(Begun(cmd, Dev, TRUE, step, to))
            BY <2>8
        <3>4. UNCHANGED <<state, stateTorn, refused>>
            BY <2>10 DEF BeginUpdate, BeginPick
        <3> QED
            BY <2>4, <2>5, <3>2, <3>3, <3>4
    <2>11. CASE Offer(p)
        <3> DEFINE mem == IF stateTorn THEN Forgotten ELSE state
                   seen == IF stateTorn THEN {} ELSE refused
        <3>1. PICK latest \in IF mem.due THEN {mem.latest, published} ELSE {mem.latest} :
                  Become(p, [job[p] EXCEPT
                      !.mem = [mem EXCEPT !.due = FALSE, !.latest = latest],
                      !.saw = seen,
                      !.to = latest,
                      !.step = IF latest > job[p].pin /\ latest \notin mem.declined
                               THEN "ask" ELSE "save"])
            BY <2>11 DEF Offer
        <3>2. job[p] \in Commands /\ job[p].cmd = "run" /\ job[p].no = NoVersion
            BY <2>2, <2>4, <2>11 DEF Offer, At, Knows
        <3>3. mem \in Remembered /\ seen \subseteq mem.declined
            BY <1>1, <2>4 DEF TypeOK, Remembered, Forgotten, NoVersion
        <3>4. [mem EXCEPT !.due = FALSE, !.latest = latest].declined = mem.declined
            BY <3>3 DEF Remembered
        <3>5. ASSUME NEW m, NEW step \in {"ask", "save"}, seen \subseteq m.declined
              PROVE  Knows([job[p] EXCEPT !.mem = m, !.saw = seen, !.to = latest, !.step = step])
            <4> DEFINE j == [job[p] EXCEPT !.mem = m, !.saw = seen, !.to = latest, !.step = step]
            <4>1. j.step = step /\ j.cmd = "run" /\ j.no = NoVersion /\ j.mem = m /\ j.saw = seen
                BY <3>2 DEF Commands
            <4> HIDE DEF j, seen
            <4>2. Knows(j)
                BY <3>5, <4>1 DEF Knows
            <4> QED
                BY <4>2 DEF j
        <3>6. UNCHANGED <<state, stateTorn, refused>>
            BY <2>11 DEF Offer
        <3> HIDE DEF mem, seen
        <3> QED
            BY <2>4, <2>5, <3>1, <3>3, <3>4, <3>5, <3>6
    <2>12. CASE AskYes(p)
        BY <2>2, <2>4, <2>5, <2>7, <2>12 DEF AskYes, Go, At, Knowing, Steps
    <2>13. CASE AskNo(p)
        <3>1. job[p] \in Commands /\ job[p].cmd = "run" /\ job[p].step = "ask"
            BY <2>2, <2>4, <2>13 DEF AskNo, At, Knows
        <3> DEFINE j == [job[p] EXCEPT !.no = job[p].to, !.step = "save",
                                       !.mem.declined = @ \union {job[p].to}]
        <3>2. /\ j.step = "save" /\ j.cmd = "run" /\ j.no = job[p].to /\ j.saw = job[p].saw
              /\ j.mem.declined = job[p].mem.declined \union {job[p].to}
            BY <3>1 DEF Commands, Remembered
        <3>3. job[p].saw \subseteq job[p].mem.declined
            BY <2>4, <3>1 DEF Knows, Knowing
        <3>4. Become(p, j) /\ UNCHANGED <<state, stateTorn, refused>>
            BY <2>13 DEF AskNo
        <3> HIDE DEF j
        <3>5. Knows(j)
            BY <3>2, <3>3 DEF Knows
        <3> QED
            BY <2>4, <2>5, <3>4, <3>5
    <2>14. CASE SaveState(p)
        <3>1. job[p] \in Commands /\ job[p].step = "save" /\ job[p].cmd = "run"
            BY <2>2, <2>4, <2>14 DEF SaveState, At, Knows
        <3>2. Knows([job[p] EXCEPT !.step = "saving"]) /\ Knows([job[p] EXCEPT !.step = "dispatch"])
            BY <2>7, <3>1 DEF Knowing, Steps
        <3> QED
            BY <2>4, <2>5, <2>14, <3>2 DEF SaveState, Go
    <2>15. CASE StateSaved(p)
        <3>1. job[p] \in Commands /\ job[p].step = "saving" /\ job[p].cmd = "run"
            BY <2>2, <2>4, <2>15 DEF StateSaved, At, Knows
        <3>2. job[p].saw \union ({job[p].no} \ {NoVersion}) \subseteq job[p].mem.declined
            BY <2>4, <3>1 DEF Knows, Knowing
        <3>3. ~stateTorn' => refused' \subseteq state'.declined
            BY <2>4, <2>15, <3>2 DEF StateSaved
        <3>4. Knows([job[p] EXCEPT !.step = "dispatch"])
            BY <2>7, <3>1 DEF Knowing, Steps
        <3> QED
            BY <2>5, <2>15, <3>3, <3>4 DEF StateSaved, Go
    <2>16. ASSUME NotMoved(p), job[p] \in Commands, job[p].step \in Knowing,
                  UNCHANGED <<state, stateTorn, refused>>
           PROVE  DeclinedInv'
        BY <2>4, <2>5, <2>6, <2>7, <2>16 DEF NotMoved, Go, End, Steps
    <2>17. CASE InstallTo(p)
        <3>1. job[p] \in Commands /\ job[p].step \in Knowing
            BY <2>2, <2>17 DEF InstallTo, At, Knowing
        <3>2. Knows([job[p] EXCEPT !.step = "check"])
            BY <2>7, <3>1 DEF Steps
        <3> QED
            BY <2>4, <2>5, <2>16, <2>17, <3>1, <3>2 DEF InstallTo, Go
    <2>18. CASE CheckBuild(p)
        <3>1. job[p] \in Commands /\ job[p].step = "check"
            BY <2>2, <2>18 DEF CheckBuild, At
        <3> DEFINE j == [job[p] EXCEPT !.step = "truncate", !.built = Builder(p)]
        <3>2. /\ j.step = "truncate" /\ j.cmd = job[p].cmd /\ j.no = job[p].no
              /\ j.saw = job[p].saw /\ j.mem = job[p].mem
            BY <3>1 DEF Commands
        <3>3. (Become(p, j) \/ NotMoved(p)) /\ UNCHANGED <<state, stateTorn, refused>>
            BY <2>18 DEF CheckBuild
        <3> HIDE DEF j
        <3>4. Knows(j)
            BY <2>4, <3>1, <3>2 DEF Knows, Knowing
        <3>5. job[p].step \in Knowing
            BY <3>1 DEF Knowing
        <3> QED
            BY <2>4, <2>5, <2>16, <3>1, <3>3, <3>4, <3>5
    <2>19. CASE TruncatePin(p)
        <3>1. job[p] \in Commands /\ job[p].step \in Knowing
            BY <2>2, <2>19 DEF TruncatePin, At, Knowing
        <3>2. Knows([job[p] EXCEPT !.step = "write"])
            BY <2>7, <3>1 DEF Steps
        <3> QED
            BY <2>4, <2>5, <2>16, <2>19, <3>1, <3>2 DEF TruncatePin, Go
    <2>20. CASE WritePin(p)
        <3>1. job[p] \in Commands /\ job[p].step = "write"
            BY <2>2, <2>20 DEF WritePin, At
        <3> DEFINE j == [job[p] EXCEPT !.step = "save", !.pin = job[p].to]
        <3>2. /\ j.step = "save" /\ j.cmd = job[p].cmd /\ j.no = job[p].no
              /\ j.saw = job[p].saw /\ j.mem = job[p].mem
            BY <3>1 DEF Commands
        <3>3. /\ \/ job[p].cmd = "run" /\ Become(p, j)
                 \/ Become(p, Idle)
                 \/ NotMoved(p)
              /\ UNCHANGED <<state, stateTorn, refused>>
            BY <2>20 DEF WritePin, Moved, End
        <3> HIDE DEF j
        <3>4. job[p].cmd = "run" => Knows(j)
            BY <2>4, <3>1, <3>2 DEF Knows, Knowing
        <3>5. job[p].step \in Knowing
            BY <3>1 DEF Knowing
        <3> QED
            BY <2>4, <2>5, <2>6, <2>16, <3>1, <3>3, <3>4, <3>5
    <2>21. CASE Dispatch(p) \/ Fetch(p)
        <3>1. job[p] \in Commands /\ UNCHANGED <<state, stateTorn, refused>>
            BY <2>2, <2>21 DEF Dispatch, Fetch, At
        <3>2. ASSUME NEW v PROVE Knows([job[p] EXCEPT !.step = "running", !.by = v])
            BY <3>1 DEF Knows, Knowing, Commands
        <3>3. Knows([job[p] EXCEPT !.step = "fetch"])
            BY <3>1 DEF Knows, Knowing, Commands
        <3> QED
            BY <2>4, <2>5, <2>6, <2>21, <3>1, <3>2, <3>3 DEF Dispatch, Fetch, Go, End
    <2>22. CASE Finish(p) \/ Killed(p)
        BY <2>4, <2>5, <2>6, <2>22 DEF Finish, Killed, End
    <2> QED
        BY <1>3, <2>9, <2>10, <2>11, <2>12, <2>13, <2>14, <2>15, <2>17, <2>18, <2>19, <2>20,
           <2>21, <2>22 DEF Command
<1>4. CASE UNCHANGED vars \/ Publish
    BY <1>2, <1>4 DEF vars, shared, Publish
<1>5. CASE DayPasses
    <2>1. state'.declined = state.declined
        BY <1>1, <1>5 DEF DayPasses, TypeOK, Remembered
    <2> QED
        BY <1>2, <1>5, <2>1 DEF DayPasses
<1> QED
    BY <1>3, <1>4, <1>5 DEF Next, Moves

\* Whatever commands run at once, fail or are killed, a no that the last save
\* was to hold is asked about again only when that file is torn (offerUpdate).
THEOREM NoMeansNo == Spec => DeclinedStays
<1> DEFINE Stays == \A p \in Shells :
                       At(p, "load") /\ At(p, "ask")' /\ ~stateTorn => job'[p].to \notin refused
<1>1. DeclinedInv /\ [Next]_vars => [Stays]_vars
    <2> SUFFICES ASSUME DeclinedInv, Next, NEW p \in Shells, At(p, "load"), At(p, "ask")', ~stateTorn
                 PROVE  job'[p].to \notin refused
        OBVIOUS
    <2>1. TypeOK /\ job[p] \in Commands
        BY DEF DeclinedInv, MoveInv, TypeOK, At, Idle
    <2>2. PICK q \in Shells : Command(q)
        BY DEF Next, Moves, Publish, DayPasses, At
    <2>3. q = p
        <3>1. PICK j : Become(q, j)
            BY <2>2 DEF Command, BeginRun, BeginUpdate, BeginPick, Offer, AskYes, AskNo, SaveState,
                StateSaved, InstallTo, CheckBuild, TruncatePin, WritePin, Dispatch, Fetch, Finish,
                Killed, NotMoved, Moved, Go, End
        <3> QED
            BY <2>1, <3>1 DEF Become, TypeOK, At
    <2>4. Offer(p)
        <3>1. Idle.step = "idle"
            BY DEF Idle
        <3>2. ~Killed(p)
            BY <2>1, <3>1 DEF Killed, End, Become, TypeOK, At
        <3> QED
            BY <2>2, <2>3, <3>2 DEF Command, BeginRun, BeginUpdate, BeginPick, AskYes, AskNo,
                SaveState, StateSaved, InstallTo, CheckBuild, TruncatePin, WritePin, Dispatch, Fetch,
                Finish, At
    <2>5. PICK latest, mem, saw :
              Become(p, [job[p] EXCEPT
                  !.mem = mem,
                  !.saw = saw,
                  !.to = latest,
                  !.step = IF latest > job[p].pin /\ latest \notin state.declined
                           THEN "ask" ELSE "save"])
        BY <2>4 DEF Offer
    <2>6. /\ job'[p].to = latest
          /\ job'[p].step = IF latest > job[p].pin /\ latest \notin state.declined
                            THEN "ask" ELSE "save"
        BY <2>1, <2>5 DEF Become, TypeOK, Commands
    <2> QED
        BY <2>6 DEF At, DeclinedInv
<1> QED
    BY DeclinedInit, DeclinedStep, <1>1, PTL DEF Spec, DeclinedStays

=============================================================================
