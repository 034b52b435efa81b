---------------------------- MODULE EntitySave ----------------------------
(***************************************************************************)
(* The editor's drafts and its save (internal/editor/draft.go, save.go):   *)
(* how unsaved edits become files under world/ while other programs, and   *)
(* editors of the same project in other processes, write the same files.   *)
(*                                                                         *)
(* A file is an entity: its prose and its links.  The prose is the set of  *)
(* marks its writers have put there; a writer adds a mark nobody has used, *)
(* so an overwritten change shows as a mark that is gone from the disk.    *)
(* A save is the sequence of file operations commit makes, one step each.  *)
(***************************************************************************)
EXTENDS Naturals, Sequences, SequencesExt

CONSTANTS
    Servers,       \* editor processes open on the project
    Entities,      \* files present at the start
    NewFiles,      \* files that created entities may get
    Edited,        \* bound: the entities whose pages the writers open
    Marks,         \* pieces of prose, each written once
    Absent, NoDraft, NoBody

Files == Entities \union NewFiles
ASSUME EditedOK == Edited \subseteq Files

Text == [body : SUBSET Marks, links : SUBSET Files]

\* A draft: the file as read when it began, whether the modification time is
\* still the one noted then, the prose if edited, the links as its relation
\* edits leave them, whether it holds such edits, and the entities to create.
Draft == [base : Text, fresh : BOOLEAN, body : {NoBody} \union SUBSET Marks,
          links : SUBSET Files, edited : BOOLEAN, created : Seq(NewFiles)]

ASSUME ValuesOK ==
    /\ Absent \notin Text \union Servers /\ NoDraft \notin Draft
    /\ \A b \in SUBSET Marks : b # NoBody

Steps == {"none", "stat", "check", "files", "write", "rename", "rebuild"}

VARIABLES
    disk,      \* the files under world/
    draft,     \* each server's open drafts, by file
    page,      \* the prose box of each entity page in each server's browser
    job,       \* the request that holds each server's drafts lock
    used,      \* marks written so far
    ids,       \* created entities' files drawn so far
    foreign,   \* created files that another program has put there
    removed,   \* files that another program has removed
    lost       \* history: marks that a file has held and a write has put out of it

vars == <<disk, draft, page, job, used, ids, foreign, removed, lost>>
stored == <<disk, lost>>
seen == <<used, ids, foreign, removed>>

Idle == [step |-> "none"]
Busy(s, step, f, t) == [step |-> step, file |-> f, data |-> t]

Present(f) == disk[f] # Absent
Prose(f) == IF Present(f) THEN disk[f].body ELSE {}

\* Draft.Bytes and Draft.Dirty.
Bytes(d) == [body |-> IF d.body = NoBody THEN d.base.body ELSE d.body, links |-> d.links]
Dirty(d) == d.edited \/ d.body # NoBody \/ d.created # <<>>

Init ==
    /\ disk = [f \in Files |-> IF f \in Entities THEN [body |-> {}, links |-> {}] ELSE Absent]
    /\ draft = [s \in Servers |-> [f \in Files |-> NoDraft]]
    /\ page = [s \in Servers |-> [f \in Files |-> {}]]
    /\ job = [s \in Servers |-> Idle]
    /\ used = {} /\ ids = {} /\ foreign = {} /\ removed = {} /\ lost = {}

-----------------------------------------------------------------------------
(***************************************************************************)
(* Writing a file.                                                         *)
(***************************************************************************)

\* The file f becomes t.  Every draft of f sees a new modification time,
\* unless the clock has not ticked since the draft's own.
Put(f, t, ds) ==
    /\ disk' = [disk EXCEPT ![f] = t]
    /\ lost' = lost \union (IF t = Absent THEN {} ELSE Prose(f) \ t.body)
    /\ \E ticked \in BOOLEAN :
           draft' = [s \in Servers |->
                        IF ticked /\ ds[s][f] # NoDraft
                        THEN [ds[s] EXCEPT ![f].fresh = FALSE]
                        ELSE ds[s]]

-----------------------------------------------------------------------------
(***************************************************************************)
(* Edits.  Each runs under the drafts lock on the draft d of f.            *)
(***************************************************************************)

Keep(s, f, d) == draft' = [draft EXCEPT ![s][f] = d]

\* bodyEdit: the prose box as a whole, the mark just typed included, or with
\* nothing typed, whatever the draft or the file holds by then.  Prose equal
\* to the file's leaves the draft's unset.
BodyEdit(s, f, d) ==
    /\ \E new \in {{}} \union {{m} : m \in Marks \ used} :
           LET b == page[s][f] \union new
           IN  /\ Keep(s, f, [d EXCEPT !.body = IF b = d.base.body THEN NoBody ELSE b])
               /\ page' = [page EXCEPT ![s][f] = b]
               /\ used' = used \union new
    /\ UNCHANGED <<ids, foreign, removed>>

\* relationLink and relationRemove: a link to an entity that the last good
\* build holds, which may be gone since, and a link taken out again.
LinkEdit(s, f, d) ==
    /\ \/ \E g \in Files \ {f} :
              /\ Present(g) \/ g \in removed
              /\ Keep(s, f, [d EXCEPT !.links = @ \union {g}, !.edited = TRUE])
       \/ \E g \in d.links : Keep(s, f, [d EXCEPT !.links = @ \ {g}, !.edited = TRUE])
    /\ UNCHANGED <<page, seen>>

\* createLinked: a new entity under a fresh ID and the link to it, in one edit.
CreateEdit(s, f, d) ==
    /\ \E g \in NewFiles \ (ids \union removed) :
           /\ ~Present(g)
           /\ Keep(s, f, [d EXCEPT !.links = @ \union {g}, !.edited = TRUE,
                                   !.created = Append(@, g)])
           /\ ids' = ids \union {g}
    /\ UNCHANGED <<page, used, foreign, removed>>

Edit(s, f, d) == BodyEdit(s, f, d) \/ LinkEdit(s, f, d) \/ CreateEdit(s, f, d)

\* editDraft on an open draft.
EditOpen(s, f) ==
    /\ job[s] = Idle /\ draft[s][f] # NoDraft
    /\ Edit(s, f, draft[s][f])
    /\ UNCHANGED <<stored, job>>

\* editDraft with no draft open: startDraft reads the file, then its stamp.
StartDraft(s, f) ==
    /\ job[s] = Idle /\ draft[s][f] = NoDraft /\ Present(f)
    /\ job' = [job EXCEPT ![s] = Busy(s, "stat", f, disk[f])]
    /\ UNCHANGED <<stored, draft, page, seen>>

EditNew(s) ==
    /\ job[s].step = "stat"
    /\ LET f == job[s].file
           t == job[s].data
       IN  /\ Present(f)
           /\ Edit(s, f, [base |-> t, fresh |-> TRUE, body |-> NoBody, links |-> t.links,
                          edited |-> FALSE, created |-> <<>>])
    /\ job' = [job EXCEPT ![s] = Idle]
    /\ UNCHANGED stored

\* The file is gone at the stat, or the edit is refused: no draft is kept.
EditRefused(s) ==
    /\ job[s].step = "stat"
    /\ job' = [job EXCEPT ![s] = Idle]
    /\ UNCHANGED <<stored, draft, page, seen>>

\* A page of the entity: the draft as it stands, or the file.
View(s, f) ==
    /\ job[s] = Idle /\ Present(f)
    /\ page' = [page EXCEPT ![s][f] =
                   IF draft[s][f] # NoDraft THEN Bytes(draft[s][f]).body ELSE disk[f].body]
    /\ UNCHANGED <<stored, draft, job, seen>>

\* discard: the draft is dropped and the page reloads.
Discard(s, f) ==
    /\ job[s] = Idle /\ draft[s][f] # NoDraft
    /\ Keep(s, f, NoDraft)
    /\ page' = [page EXCEPT ![s][f] = Prose(f)]
    /\ UNCHANGED <<stored, job, seen>>

-----------------------------------------------------------------------------
(***************************************************************************)
(* Saving.  The drafts lock is held from SaveBegin to the end of the save. *)
(***************************************************************************)

Stop(s) == job' = [job EXCEPT ![s] = Idle]
Go(s, step) == job' = [job EXCEPT ![s].step = step]

\* readWorldFile of the draft's file: its bytes first.
SaveBegin(s, f) ==
    /\ job[s] = Idle /\ draft[s][f] # NoDraft /\ Dirty(draft[s][f]) /\ Present(f)
    /\ job' = [job EXCEPT ![s] = Busy(s, "check", f, disk[f])]
    /\ UNCHANGED <<stored, draft, page, seen>>

Saving(s, step) == job[s].step = step /\ draft[s][job[s].file] # NoDraft
Own(s) == draft[s][job[s].file]

\* Wrong: the stamp is the modification time alone.
SaveCheckTimeOnly(s) ==
    /\ Saving(s, "check")
    /\ \/ Present(job[s].file) /\ Own(s).fresh /\ Go(s, "files")
       \/ Stop(s)
    /\ UNCHANGED <<stored, draft, page, seen>>

\* ... then its modification time; both must be the draft's stamp.
SaveCheck(s) ==
    /\ Saving(s, "check")
    /\ \/ Present(job[s].file) /\ Own(s).fresh /\ job[s].data = Own(s).base /\ Go(s, "files")
       \/ Stop(s)
    /\ UNCHANGED <<stored, draft, page, seen>>

\* No created entity's file may exist yet.
SaveFiles(s) ==
    /\ Saving(s, "files")
    /\ \/ (\A g \in ToSet(Own(s).created) : ~Present(g)) /\ Go(s, "write")
       \/ Stop(s)
    /\ UNCHANGED <<stored, draft, page, seen>>

\* writeAtomic of the next created file: the Lstat, then the rename.  A
\* created file that is on disk leaves the draft at once.
SaveLstat(s) ==
    /\ Saving(s, "write") /\ Own(s).created # <<>>
    /\ \/ ~Present(Head(Own(s).created)) /\ Go(s, "rename")
       \/ Stop(s)
    /\ UNCHANGED <<stored, draft, page, seen>>

\* Wrong: a created entity stays in the draft until the whole save is done.
SaveCreatedKept(s) ==
    /\ Saving(s, "rename")
    /\ Put(Head(Own(s).created), [body |-> {}, links |-> {}], draft)
    /\ Go(s, "write")
    /\ UNCHANGED <<page, seen>>

SaveCreated(s) ==
    /\ Saving(s, "rename")
    /\ LET f == job[s].file
           g == Head(Own(s).created)
       IN  \/ /\ Put(g, [body |-> {}, links |-> {}], [draft EXCEPT ![s][f].created = Tail(@)])
              /\ Go(s, "write")
           \/ Stop(s) /\ UNCHANGED <<stored, draft>>
    /\ UNCHANGED <<page, seen>>

\* Wrong: the entity's own file goes first.
SaveMainFirst(s) ==
    /\ Saving(s, "write")
    /\ Put(job[s].file, Bytes(Own(s)), draft)
    /\ Go(s, "rebuild")
    /\ UNCHANGED <<page, seen>>

\* Wrong: a failed write of the entity's own file is ignored.
SaveMainUnchecked(s) ==
    /\ Saving(s, "write") /\ Own(s).created = <<>>
    /\ Put(job[s].file, Bytes(Own(s)), draft) \/ UNCHANGED <<stored, draft>>
    /\ Go(s, "rebuild")
    /\ UNCHANGED <<page, seen>>

\* The entity's own file, written only when its bytes change.
SaveMain(s) ==
    /\ Saving(s, "write") /\ Own(s).created = <<>>
    /\ LET f == job[s].file
       IN  \/ Bytes(Own(s)) = job[s].data /\ Go(s, "rebuild") /\ UNCHANGED <<stored, draft>>
           \/ /\ Bytes(Own(s)) # job[s].data
              /\ Put(f, Bytes(Own(s)), draft)
              /\ Go(s, "rebuild")
           \/ Stop(s) /\ UNCHANGED <<stored, draft>>
    /\ UNCHANGED <<page, seen>>

\* The rebuild under the build lock; whatever it reports, the draft is saved.
SaveEnd(s) ==
    /\ Saving(s, "rebuild")
    /\ Keep(s, job[s].file, NoDraft)
    /\ Stop(s)
    /\ UNCHANGED <<stored, page, seen>>

-----------------------------------------------------------------------------
\* The process stops at any step and is started again: the drafts are lost.
Restart(s) ==
    /\ draft' = [draft EXCEPT ![s] = [f \in Files |-> NoDraft]]
    /\ page' = [page EXCEPT ![s] = [f \in Files |-> Prose(f)]]
    /\ Stop(s)
    /\ UNCHANGED <<stored, seen>>

\* Another program adds to a file, puts one where a created entity's would
\* go, or removes one.
Outside(f) ==
    /\ \/ \E m \in Marks \ used :
              /\ Present(f)
              /\ Put(f, [disk[f] EXCEPT !.body = @ \union {m}], draft)
              /\ used' = used \union {m}
              /\ UNCHANGED <<foreign, removed>>
       \/ /\ f \in ids /\ f \notin foreign \union removed /\ ~Present(f)
          /\ \E m \in Marks \ used :
                 Put(f, [body |-> {m}, links |-> {}], draft) /\ used' = used \union {m}
          /\ foreign' = foreign \union {f}
          /\ UNCHANGED removed
       \/ /\ Present(f)
          /\ Put(f, Absent, draft)
          /\ removed' = removed \union {f}
          /\ UNCHANGED <<used, foreign>>
    /\ UNCHANGED <<page, job, ids>>

Server(s) ==
    \/ \E f \in Edited : EditOpen(s, f) \/ StartDraft(s, f) \/ View(s, f) \/ Discard(s, f) \/ SaveBegin(s, f)
    \/ EditNew(s) \/ EditRefused(s)
    \/ SaveCheck(s) \/ SaveFiles(s) \/ SaveLstat(s) \/ SaveCreated(s) \/ SaveMain(s) \/ SaveEnd(s)
    \/ Restart(s)

Next == (\E s \in Servers : Server(s)) \/ (\E f \in Files : Outside(f))

Spec == Init /\ [][Next]_vars

-----------------------------------------------------------------------------
TypeOK ==
    /\ disk \in [Files -> {Absent} \union Text]
    /\ draft \in [Servers -> [Files -> {NoDraft} \union Draft]]
    /\ page \in [Servers -> [Files -> SUBSET Marks]]
    /\ job \in [Servers -> {Idle} \union [step : Steps, file : Files, data : Text]]
    /\ used \subseteq Marks
    /\ ids \subseteq NewFiles /\ foreign \subseteq ids /\ removed \subseteq Files
    /\ lost \subseteq Marks

\* A link on disk never names a missing file, at any point of any save and
\* after a crash or a failure part-way (save.go: "Created entities first, so
\* the entity's links never name a missing file"), unless another program
\* removed the file it names.
NoDanglingLink ==
    \A f \in Files : Present(f) =>
        \A g \in disk[f].links : Present(g) \/ g \in removed

\* An entity still waiting to be created is not on disk by the editor's own
\* doing, so a save that failed part-way is not refused when it is retried.
RetryNotBlocked ==
    \A s \in Servers, f \in Files :
        draft[s][f] # NoDraft =>
            \A g \in ToSet(draft[s][f].created) : Present(g) => g \in foreign

\* What a save may put out of a file: what its draft began from and the text
\* posted to it leaves out, and what has come into the file since the save
\* read it or looked for it, which commit cannot see.
TakesOut(s, f, m) ==
    \/ /\ job[s].step = "write" /\ job[s].file = f
       /\ m \in Own(s).base.body \/ m \notin job[s].data.body
    \/ job[s].step = "rename" /\ f = Head(Own(s).created)

\* Prose that a writer has put on disk, in this editor or outside it, stays
\* there unless a save's own draft began from it and leaves it out, or it
\* came between that save's look and its write (save_test.go: a file changed
\* behind the editor's back "is never overwritten, and nothing is merged").
ProseKept ==
    \A f \in Files : disk[f] # Absent /\ disk'[f] # Absent =>
        \A m \in disk[f].body \ disk'[f].body : \E s \in Servers : TakesOut(s, f, m)

NoLostProse == [][ProseKept]_vars

\* A draft is dropped as saved only when its prose is on disk, or was there
\* and another write has put it out since, unless another program has removed
\* the file.
SavedIsOnDisk ==
    [][\A s \in Servers :
           job[s].step = "rebuild" /\ job'[s] = Idle /\ draft'[s][job[s].file] = NoDraft
           /\ job[s].file \notin removed =>
               Bytes(Own(s)).body \subseteq disk[job[s].file].body \union lost]_vars
=============================================================================
