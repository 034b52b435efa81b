----------------------------- MODULE BuildLock -----------------------------
(***************************************************************************)
(* The build lock of lorekeep, build/editor.lock: the file that every      *)
(* editor process takes around the rebuild that follows a save             *)
(* (internal/editor/save.go, withBuildLock and the helpers below it).      *)
(*                                                                         *)
(* Each file operation is a step of its own, because another process can   *)
(* run between any two of them: the exclusive create and the write of the  *)
(* token, the two reads and the stat of takeOverStale and its Remove, the  *)
(* read and the Remove of removeOwnLock.  A process may stop at any step   *)
(* and leave its lock file behind.                                         *)
(***************************************************************************)
EXTENDS Naturals

CONSTANTS
    Writers,        \* the processes that save; one save at a time in each
    MaxCalls,       \* bound: calls of withBuildLock by one writer
    LiveLocksAge,   \* may a lock grow older than buildLockStale under a live holder
    Empty,          \* what a lock holds between its create and its first write
    NoLock,         \* nothing at the lock's path
    Obstacle        \* something at the lock's path that is not a regular file

Tokens == Writers \X (1..MaxCalls)
Texts == Tokens \union {Empty}

\* A lock file: the call that created it, what it holds, and whether its
\* modification time is more than buildLockStale ago.
LockFile == [by : Tokens, text : Texts, stale : BOOLEAN]

ASSUME ConstantsOK ==
    /\ MaxCalls \in Nat
    /\ LiveLocksAge \in BOOLEAN
    /\ NoLock \notin LockFile
    /\ Obstacle \notin LockFile

VARIABLES
    pc,      \* the next step of each writer
    calls,   \* how often each writer has called withBuildLock
    late,    \* whether a writer's deadline (buildLockWait) has passed
    held,    \* the contents takeOverStale read first
    lock,    \* the path build/editor.lock
    exposed  \* history: the lock's protocol has lost its footing (AtRisk below)

lockVars == <<pc, calls, late, held, lock>>

\* The token of a writer's current call: unique to the call, as the random
\* nonce makes it.
Token(w) == <<w, calls[w]>>

Judging == {"reread", "remove"}
Waiting == {"create", "read", "stat", "wait"} \union Judging
Holding == {"write", "fn", "own", "release"}

OnDisk == lock \in LockFile
Live(t) == \E w \in Writers : Token(w) = t /\ pc[w] \in Holding

\* The two situations the protocol has no defence against, and which nothing
\* in the code rules out: two writers have both judged a lock stale and not
\* yet acted on it, or a rebuild outlives buildLockStale.  What they can spoil
\* is over when nobody judges or holds.
AtRisk ==
    \/ \E v, w \in Writers : v # w /\ pc[v] \in Judging /\ pc[w] \in Judging
    \/ OnDisk /\ lock.stale /\ Live(lock.by)
Engaged == \E w \in Writers : pc[w] \in Judging \union Holding

Goto(w, step) == pc' = [pc EXCEPT ![w] = step]

LockInit ==
    /\ pc = [w \in Writers |-> "idle"]
    /\ calls = [w \in Writers |-> 0]
    /\ late = [w \in Writers |-> FALSE]
    /\ held = [w \in Writers |-> Empty]
    /\ lock \in {NoLock, Obstacle}
    /\ exposed = FALSE

\* A save reaches its rebuild: a new token, a new deadline.
Begin(w) ==
    /\ pc[w] = "idle"
    /\ calls[w] < MaxCalls
    /\ calls' = [calls EXCEPT ![w] = @ + 1]
    /\ late' = [late EXCEPT ![w] = FALSE]
    /\ held' = [held EXCEPT ![w] = Empty]
    /\ Goto(w, "create")
    /\ UNCHANGED lock

\* Wrong: the create is not exclusive.
CreateShared(w) ==
    /\ pc[w] = "create" /\ lock # Obstacle
    /\ lock' = [by |-> Token(w), text |-> Empty, stale |-> FALSE]
    /\ Goto(w, "write")
    /\ UNCHANGED <<calls, late, held>>

\* OpenFile with O_EXCL: the lock is created, or found, or the create is
\* denied while a removed lock is delete-pending, or it fails outright.
Create(w) ==
    /\ pc[w] = "create"
    /\ \/ /\ lock = NoLock
          /\ lock' = [by |-> Token(w), text |-> Empty, stale |-> FALSE]
          /\ Goto(w, "write")
       \/ lock # NoLock /\ Goto(w, "read") /\ UNCHANGED lock
       \/ lock = NoLock /\ Goto(w, "wait") /\ UNCHANGED lock
       \/ Goto(w, "idle") /\ UNCHANGED lock
    /\ UNCHANGED <<calls, late, held>>

\* The token goes into the file this call created, which may no longer be
\* the one at the path.  A failed write removes whatever is at the path, if
\* that Remove works.
WriteToken(w) ==
    /\ pc[w] = "write"
    /\ \/ /\ lock' = IF OnDisk /\ lock.by = Token(w)
                     THEN [lock EXCEPT !.text = Token(w), !.stale = FALSE]
                     ELSE lock
          /\ Goto(w, "fn")
       \/ lock' \in {NoLock, lock} /\ Goto(w, "idle")
    /\ UNCHANGED <<calls, late, held>>

\* takeOverStale, one file operation at a time.  Any of them can fail (the
\* file is gone, unreadable or no regular file): the lock is then left alone.
ReadHeld(w) ==
    /\ pc[w] = "read"
    /\ \/ OnDisk /\ held' = [held EXCEPT ![w] = lock.text] /\ Goto(w, "stat")
       \/ Goto(w, "wait") /\ UNCHANGED held
    /\ UNCHANGED <<calls, late, lock>>

\* Wrong: a lock of any age is taken over.
StatAnyAge(w) ==
    /\ pc[w] = "stat" /\ OnDisk /\ Goto(w, "reread")
    /\ UNCHANGED <<calls, late, held, lock>>

StatAge(w) ==
    /\ pc[w] = "stat"
    /\ \/ OnDisk /\ lock.stale /\ Goto(w, "reread")
       \/ Goto(w, "wait")
    /\ UNCHANGED <<calls, late, held, lock>>

RereadHeld(w) ==
    /\ pc[w] = "reread"
    /\ \/ OnDisk /\ lock.text = held[w] /\ Goto(w, "remove")
       \/ Goto(w, "wait")
    /\ UNCHANGED <<calls, late, held, lock>>

\* A taker that has passed its deadline removes the lock and still gives up.
RemoveStale(w) ==
    /\ pc[w] = "remove"
    /\ \/ OnDisk /\ lock' = NoLock /\ Goto(w, IF late[w] THEN "wait" ELSE "create")
       \/ Goto(w, "wait") /\ UNCHANGED lock
    /\ UNCHANGED <<calls, late, held>>

\* Wrong: the loop has no deadline.
WaitForever(w) ==
    /\ pc[w] = "wait" /\ Goto(w, "create")
    /\ UNCHANGED <<calls, late, held, lock>>

\* The end of one turn of the loop: give up after the deadline (the save
\* stands, "not checked yet"), or sleep buildLockPoll and try again.
Wait(w) ==
    /\ pc[w] = "wait"
    /\ Goto(w, IF late[w] THEN "idle" ELSE "create")
    /\ UNCHANGED <<calls, late, held, lock>>

\* fn, the rebuild, returns; the deferred removeOwnLock follows.
FnReturns(w) ==
    /\ pc[w] = "fn"
    /\ Goto(w, "own")
    /\ UNCHANGED <<calls, late, held, lock>>

ReadOwn(w) ==
    /\ pc[w] = "own"
    /\ \/ OnDisk /\ lock.text = Token(w) /\ Goto(w, "release")
       \/ Goto(w, "idle")
    /\ UNCHANGED <<calls, late, held, lock>>

Release(w) ==
    /\ pc[w] = "release"
    /\ lock' \in {NoLock, lock}
    /\ Goto(w, "idle")
    /\ UNCHANGED <<calls, late, held>>

\* The process stops at any step; a later save is a new call.
Crash(w) ==
    /\ pc[w] # "idle"
    /\ Goto(w, "idle")
    /\ UNCHANGED <<calls, late, held, lock>>

Expire(w) ==
    /\ pc[w] \in Waiting /\ ~late[w]
    /\ late' = [late EXCEPT ![w] = TRUE]
    /\ UNCHANGED <<pc, calls, held, lock>>

\* Two minutes pass over a lock file.
Age ==
    /\ OnDisk /\ ~lock.stale
    /\ LiveLocksAge \/ ~Live(lock.by)
    /\ lock' = [lock EXCEPT !.stale = TRUE]
    /\ UNCHANGED <<pc, calls, late, held>>

Step(w) ==
    \/ Create(w) \/ WriteToken(w)
    \/ ReadHeld(w) \/ StatAge(w) \/ RereadHeld(w) \/ RemoveStale(w)
    \/ Wait(w) \/ FnReturns(w) \/ ReadOwn(w) \/ Release(w)

Moves ==
    \/ \E w \in Writers : Begin(w) \/ Step(w) \/ Crash(w) \/ Expire(w)
    \/ Age

LockNext == Moves /\ exposed' = (AtRisk' \/ (exposed /\ Engaged'))

LockSpec == LockInit /\ [][LockNext]_<<lockVars, exposed>>

\* A live process goes on and its clock runs; nobody is obliged to save.
FairSpec == LockSpec /\ \A w \in Writers : WF_lockVars(Step(w)) /\ WF_lockVars(Expire(w))

-----------------------------------------------------------------------------
LockTypeOK ==
    /\ pc \in [Writers -> {"idle"} \union Waiting \union Holding]
    /\ calls \in [Writers -> 0..MaxCalls]
    /\ late \in [Writers -> BOOLEAN]
    /\ held \in [Writers -> Texts]
    /\ lock \in {NoLock, Obstacle} \union LockFile
    /\ exposed \in BOOLEAN

Rebuilding(w) == pc[w] \in {"fn", "own"}

\* Two writers are never inside the rebuild at the same time (save.go: the
\* lock "every writer of the world takes around its rebuild").
MutualExclusion ==
    \A v, w \in Writers : Rebuilding(v) /\ Rebuilding(w) => v = w

\* The exclusion is lost in one way only: two writers judged one stale lock
\* at once, or a rebuild outlived buildLockStale, and not everybody has left
\* since (withBuildLock).
ExclusiveUnlessExposed == exposed \/ MutualExclusion

\* While a writer rebuilds, the file at the path is the one it created and
\* holds its token: what removeOwnLock then removes is never another's, but
\* for the same two cases.
HolderOwnsLock ==
    \/ exposed
    \/ \A w \in Writers :
          pc[w] \in {"fn", "own", "release"} =>
              OnDisk /\ lock.by = Token(w) /\ lock.text = Token(w)

\* A lock disappears from the path only when its holder removes it or when
\* that holder is gone: no step takes the lock away from a live rebuild,
\* unless one of the two cases came before it.
LockKept ==
    OnDisk /\ lock' = NoLock =>
        \/ exposed
        \/ ~Live(lock.by)
        \/ \E w \in Writers : Token(w) = lock.by /\ pc'[w] = "idle"

NeverStolen == [][LockKept]_<<lockVars, exposed>>

\* A save never hangs on the lock: each writer that waits ends up rebuilding
\* or giving up, whatever is at the path and whatever the others do.
WaitEnds == \A w \in Writers : pc[w] \in Waiting ~> pc[w] \notin Waiting
=============================================================================
