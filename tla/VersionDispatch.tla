-------------------------- MODULE VersionDispatch --------------------------
(***************************************************************************)
(* Which lorekeep runs a command on a project (cmd/lorekeep/dispatch.go,   *)
(* internal/versions, internal/project/pin.go): the project pins a         *)
(* version, a command runs the pinned one from a cache, and a writer at a  *)
(* terminal is offered each newer release once.  The pin file, the cache   *)
(* and state.json are shared by every lorekeep process of the writer.      *)
(*                                                                         *)
(* A version is its number.  A file written with os.WriteFile is torn      *)
(* between its truncation and its write, after a write that failed or was  *)
(* killed, and where two writes overlap.                                   *)
(*                                                                         *)
(* History variables, which no step reads, say what the commands that run  *)
(* beside each other have done to one another.                             *)
(***************************************************************************)
EXTENDS Naturals, FiniteSets

CONSTANTS
    Shells,        \* terminals, one lorekeep process in each at a time
    MaxVersion,    \* bound: releases
    FirstPin       \* project.FirstPinVersion

Versions == 1..MaxVersion
Dev == 0       \* a development build's version()
NoVersion == 0 \* no release known, none chosen

ASSUME FirstPinOK == MaxVersion \in Nat /\ FirstPin \in Versions

VARIABLES
    pin,        \* the pin file: the last version written, and whether it is torn
    state,      \* state.json: is a check due, the release found, those declined
    stateTorn,  \* state.json is torn
    cache,      \* the versions installed
    published,  \* GitHub's latest release
    job,        \* the command in each shell
    said,       \* history: the releases the writer said no to
    refused,    \* history: of those, the ones the last save that worked was to hold: what its
                \* command had seen refused when it read the file whole, and its own no
    overtaken   \* history: the commands whose pin another has moved since they read it

shared == <<pin, state, stateTorn, cache, published, job, said, refused>>
vars == <<shared, overtaken>>

Remembered == [due : BOOLEAN, latest : Versions \union {NoVersion}, declined : SUBSET Versions]
Forgotten == [due |-> TRUE, latest |-> NoVersion, declined |-> {}]

Idle == [step |-> "idle"]
At(p, step) == job[p].step = step
Become(p, j) == job' = [job EXCEPT ![p] = j]
Go(p, step) == Become(p, [job[p] EXCEPT !.step = step])
End(p) == Become(p, Idle)

Init ==
    /\ pin \in [ver : Versions, torn : {FALSE}]
    /\ state = Forgotten /\ stateTorn = FALSE
    /\ cache = {} /\ published = 1
    /\ job = [p \in Shells |-> Idle]
    /\ said = {} /\ refused = {} /\ overtaken = {}

\* A release is published, a day passes.
Publish ==
    /\ published < MaxVersion /\ published' = published + 1
    /\ UNCHANGED <<pin, state, stateTorn, cache, job, said, refused>>

DayPasses ==
    /\ ~state.due /\ state' = [state EXCEPT !.due = TRUE]
    /\ UNCHANGED <<pin, stateTorn, cache, job, published, said, refused>>

-----------------------------------------------------------------------------
(***************************************************************************)
(* A command begins: ReadPin and ParsePin, which refuse a torn file.       *)
(***************************************************************************)
Begun(cmd, self, terminal, step, to) ==
    [cmd |-> cmd, self |-> self, terminal |-> terminal, step |-> step, to |-> to,
     pin |-> pin.ver, mem |-> Forgotten, saw |-> {}, no |-> NoVersion, built |-> NoVersion,
     by |-> NoVersion]

\* runPinned.
BeginRun(p) ==
    /\ At(p, "idle") /\ ~pin.torn /\ pin.ver >= FirstPin
    /\ \E self \in Versions \union {Dev}, terminal \in BOOLEAN :
           Become(p, Begun("run", self, terminal, IF terminal THEN "load" ELSE "dispatch", NoVersion))
    /\ UNCHANGED <<pin, state, stateTorn, cache, published, said, refused>>

\* Wrong: lorekeep update goes to the latest release, whatever the pin.
LatestAnyway(p) == published

\* lorekeep update: never a downgrade by default.
LatestFor(p) == IF published <= pin.ver THEN pin.ver ELSE published

BeginUpdate(p) ==
    /\ At(p, "idle") /\ ~pin.torn
    /\ LET to == LatestFor(p)
       IN  Become(p, Begun("update", Dev, TRUE, IF to = pin.ver THEN "fetch" ELSE "install", to))
    /\ UNCHANGED <<pin, state, stateTorn, cache, published, said, refused>>

\* lorekeep update -version: a release this file can pin.
Picks == FirstPin..MaxVersion

BeginPick(p) ==
    /\ At(p, "idle") /\ ~pin.torn
    /\ \E to \in Picks :
           Become(p, Begun("pick", Dev, TRUE, IF to = pin.ver THEN "fetch" ELSE "install", to))
    /\ UNCHANGED <<pin, state, stateTorn, cache, published, said, refused>>

-----------------------------------------------------------------------------
(***************************************************************************)
(* offerUpdate.  The state is read at its start and saved at its end.      *)
(***************************************************************************)

\* LoadState, Refresh and the test for an offer.  (saw is history.)
Offer(p) ==
    /\ At(p, "load")
    /\ LET mem == IF stateTorn THEN Forgotten ELSE state
       IN  \E latest \in IF mem.due THEN {mem.latest, published} ELSE {mem.latest} :
               Become(p, [job[p] EXCEPT
                   !.mem = [mem EXCEPT !.due = FALSE, !.latest = latest],
                   !.saw = IF stateTorn THEN {} ELSE refused,
                   !.to = latest,
                   !.step = IF latest > job[p].pin /\ latest \notin mem.declined
                            THEN "ask" ELSE "save"])
    /\ UNCHANGED <<pin, state, stateTorn, cache, published, said, refused>>

AskYes(p) ==
    /\ At(p, "ask") /\ Go(p, "install")
    /\ UNCHANGED <<pin, state, stateTorn, cache, published, said, refused>>

\* Wrong: the state is saved as it was before the question.
AskNoForgets(p) ==
    /\ At(p, "ask")
    /\ Become(p, [job[p] EXCEPT !.no = job[p].to, !.step = "save"])
    /\ said' = said \union {job[p].to}
    /\ UNCHANGED <<pin, state, stateTorn, cache, published, refused>>

AskNo(p) ==
    /\ At(p, "ask")
    /\ Become(p, [job[p] EXCEPT !.no = job[p].to, !.step = "save",
                                !.mem.declined = @ \union {job[p].to}])
    /\ said' = said \union {job[p].to}
    /\ UNCHANGED <<pin, state, stateTorn, cache, published, refused>>

\* The deferred Save; its error is ignored.
SaveState(p) ==
    /\ At(p, "save")
    /\ \/ stateTorn' = TRUE /\ Go(p, "saving")
       \/ Go(p, "dispatch") /\ UNCHANGED stateTorn
    /\ UNCHANGED <<pin, state, cache, published, said, refused>>

\* The write, whole; or it fails after the truncation; or it goes over another
\* command's, which leaves neither.
StateSaved(p) ==
    /\ At(p, "saving") /\ Go(p, "dispatch")
    /\ \/ /\ state' = job[p].mem /\ stateTorn' = FALSE
          /\ refused' = job[p].saw \union ({job[p].no} \ {NoVersion})
       \/ UNCHANGED <<state, stateTorn, refused>>
       \/ ~stateTorn /\ stateTorn' = TRUE /\ UNCHANGED <<state, refused>>
    /\ UNCHANGED <<pin, cache, published, said>>

-----------------------------------------------------------------------------
(***************************************************************************)
(* moveProject.                                                            *)
(***************************************************************************)

\* A move that is made.
Moved(p) ==
    IF job[p].cmd = "run" THEN Become(p, [job[p] EXCEPT !.step = "save", !.pin = job[p].to]) ELSE End(p)

\* Wrong: a move that failed counts as made.
NotMovedAnyway(p) == Moved(p)

\* A move that fails leaves a run with the old pin; an update ends.
NotMoved(p) == IF job[p].cmd = "run" THEN Go(p, "save") ELSE End(p)

\* install: into the cache by rename, so it is there as a whole or not at all.
InstallTo(p) ==
    /\ At(p, "install")
    /\ \/ cache' = cache \union {job[p].to} /\ Go(p, "check")
       \/ job[p].to \notin cache /\ NotMoved(p) /\ UNCHANGED cache
    /\ UNCHANGED <<pin, state, stateTorn, published, said, refused>>

\* Wrong: the candidate's build is dispatched to the pinned version.
BuilderPinned(p) == pin.ver

\* Run: NoDispatchEnv makes the candidate run as itself.
Builder(p) == job[p].to

CheckBuild(p) ==
    /\ At(p, "check")
    /\ \/ Become(p, [job[p] EXCEPT !.step = "truncate", !.built = Builder(p)])
       \/ NotMoved(p)
    /\ UNCHANGED <<pin, state, stateTorn, cache, published, said, refused>>

\* WritePin, which can fail before the truncation and after it.
TruncatePin(p) ==
    /\ At(p, "truncate")
    /\ \/ pin' = [pin EXCEPT !.torn = TRUE] /\ Go(p, "write")
       \/ NotMoved(p) /\ UNCHANGED pin
    /\ UNCHANGED <<state, stateTorn, cache, published, said, refused>>

WritePin(p) ==
    /\ At(p, "write")
    /\ \/ /\ \E torn \in {FALSE, ~pin.torn} : pin' = [ver |-> job[p].to, torn |-> torn]
          /\ Moved(p)
       \/ NotMoved(p) /\ UNCHANGED pin
    /\ UNCHANGED <<state, stateTorn, cache, published, said, refused>>

-----------------------------------------------------------------------------
\* runPinned: this binary, the cached one, or a download the writer agrees to.
Dispatch(p) ==
    /\ At(p, "dispatch")
    /\ \/ /\ job[p].self \in {job[p].pin, Dev}
          /\ Become(p, [job[p] EXCEPT !.step = "running", !.by = job[p].self])
       \/ /\ job[p].self \notin {job[p].pin, Dev} /\ job[p].pin \in cache
          /\ Become(p, [job[p] EXCEPT !.step = "running", !.by = job[p].pin])
       \/ /\ job[p].self \notin {job[p].pin, Dev} /\ job[p].pin \notin cache
          /\ job[p].terminal /\ Go(p, "fetch")
       \/ /\ job[p].self \notin {job[p].pin, Dev} /\ job[p].pin \notin cache
          /\ End(p)
    /\ UNCHANGED <<pin, state, stateTorn, cache, published, said, refused>>

\* install, for a run or for an update that is already on its version.
Fetch(p) ==
    /\ At(p, "fetch")
    /\ \/ /\ cache' = cache \union {job[p].pin}
          /\ IF job[p].cmd = "run"
             THEN Become(p, [job[p] EXCEPT !.step = "running", !.by = job[p].pin])
             ELSE End(p)
       \/ End(p) /\ UNCHANGED cache
    /\ UNCHANGED <<pin, state, stateTorn, published, said, refused>>

Finish(p) ==
    /\ At(p, "running") /\ End(p)
    /\ UNCHANGED <<pin, state, stateTorn, cache, published, said, refused>>

\* The process is killed at any step; a torn file stays as it is.
Killed(p) ==
    /\ ~At(p, "idle") /\ End(p)
    /\ UNCHANGED <<pin, state, stateTorn, cache, published, said, refused>>

Command(p) ==
    \/ BeginRun(p) \/ BeginUpdate(p) \/ BeginPick(p)
    \/ Offer(p) \/ AskYes(p) \/ AskNo(p) \/ SaveState(p) \/ StateSaved(p)
    \/ InstallTo(p) \/ CheckBuild(p) \/ TruncatePin(p) \/ WritePin(p)
    \/ Dispatch(p) \/ Fetch(p) \/ Finish(p) \/ Killed(p)

Moves == Publish \/ DayPasses \/ \E p \in Shells : Command(p)

\* p takes the step that writes the pin.
Writes(p) == At(p, "write") /\ ~At(p, "write")'

Overtaken(p) ==
    /\ ~At(p, "idle")'
    /\ p \in overtaken \/ pin'.ver # pin.ver
    /\ ~(Writes(p) /\ pin' # pin)

Next == Moves /\ overtaken' = {p \in Shells : Overtaken(p)}

Spec == Init /\ [][Next]_vars

-----------------------------------------------------------------------------
Commands == [cmd : {"run", "update", "pick"}, self : Versions \union {Dev}, terminal : BOOLEAN,
             step : {"load", "ask", "save", "saving", "install", "check", "truncate", "write",
                     "dispatch", "fetch", "running"},
             to : Versions \union {NoVersion}, pin : Versions, mem : Remembered,
             saw : SUBSET Versions, no : Versions \union {NoVersion}, built : Versions \union {NoVersion},
             by : Versions \union {Dev}]

TypeOK ==
    /\ pin \in [ver : Versions, torn : BOOLEAN]
    /\ state \in Remembered /\ stateTorn \in BOOLEAN
    /\ cache \subseteq Versions /\ published \in Versions
    /\ job \in [Shells -> {Idle} \union Commands]
    /\ said \subseteq Versions /\ refused \subseteq Versions /\ overtaken \subseteq Shells

\* A release binary runs a command on a project only as the version the
\* project pins then, unless another command moved the project after this one
\* had read the pin (dispatch.go: "makes sure a command on the project runs
\* with the lorekeep version the project pins").
RunsPinned ==
    \A p \in Shells \ overtaken : At(p, "running") => job[p].by \in {pin.ver, Dev}

\* A project is moved only to a version that is installed and that has built
\* the project cleanly itself (dispatch.go: "only if the new version builds
\* it cleanly").
MovedWhenClean ==
    [][pin'.ver # pin.ver =>
           /\ pin'.ver \in cache
           /\ \E p \in Shells : Writes(p) /\ job[p].built = pin'.ver]_vars

\* Only lorekeep update -version lowers a pin, or a command under whose hands
\* another has moved the project since it read the pin (dispatch.go: "Never a
\* downgrade by default; -version asks for one explicitly").
NeverLowered ==
    [][pin'.ver < pin.ver =>
           \E p \in Shells : Writes(p) /\ (job[p].cmd = "pick" \/ p \in overtaken)]_vars

\* A release the writer said no to, in a command whose state was saved, is
\* offered again only when state.json is torn, or has been saved since by a
\* command that read it before that no was in it or while it was torn
\* (state.go: "They are not offered again").
DeclinedStays ==
    [][\A p \in Shells :
           At(p, "load") /\ At(p, "ask")' /\ ~stateTorn => job'[p].to \notin refused]_vars

\* What the writer is told after a no (dispatch.go: "Not asking about %s
\* again"): the release is not offered again. It is not so, and no run lists it: the
\* state is saved afterwards, and nobody looks at the error.
NotAskedAgain ==
    [][\A p \in Shells : At(p, "load") /\ At(p, "ask")' => job'[p].to \notin said]_vars
=============================================================================
