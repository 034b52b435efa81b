--------------------------- MODULE EntitySaveProofs ---------------------------
(***************************************************************************)
(* EntitySave, for any number of servers, files and pieces of prose: what  *)
(* links, created entities and prose can become, whatever is saved,        *)
(* killed, failed or written from outside meanwhile.                       *)
(***************************************************************************)
EXTENDS EntitySave, BuildLock, TLAPS, SequenceTheorems

USE DEF stored

(***************************************************************************)
(* Sequences of files, each in it once.                                    *)
(***************************************************************************)
Once(q) == \A i, j \in DOMAIN q : q[i] = q[j] => i = j

-----------------------------------------------------------------------------
(***************************************************************************)
(* The inductive invariants.  What was on disk once is there unless        *)
(* another program removed it.                                             *)
(***************************************************************************)
Named(g) == Present(g) \/ g \in removed

Queued(s, f) == IF draft[s][f] = NoDraft THEN {} ELSE ToSet(draft[s][f].created)

\* A link leads to a file that was there, or that its draft creates first.
LinksInv ==
    /\ NoDanglingLink
    /\ \A s \in Servers :
           job[s].step # "none" =>
               Named(job[s].file) /\ \A g \in job[s].data.links : Named(g)
    /\ \A s \in Servers, f \in Files :
           draft[s][f] # NoDraft =>
               \A g \in draft[s][f].links : Named(g) \/ g \in Queued(s, f)

\* A created entity is in one draft, once, and its file is no other's.
CreatedInv ==
    /\ RetryNotBlocked
    /\ \A s \in Servers, f \in Files :
           /\ Queued(s, f) \subseteq ids
           /\ draft[s][f] # NoDraft => Once(draft[s][f].created)
    /\ \A s, t \in Servers, f, g \in Files :
           Queued(s, f) \cap Queued(t, g) # {} => s = t /\ f = g
    /\ \A s, t \in Servers, f \in Files :
           job[s].step # "none" /\ job[s].file \in Queued(t, f) => job[s].file \in foreign

\* A save past its check holds a draft that began from what it read; what it
\* read or has written is on disk or known to have been put out, unless the
\* file is gone.
ProseInv ==
    \A s \in Servers :
        /\ job[s].step \in {"check", "files", "write", "rename"} /\ job[s].file \notin removed =>
               Present(job[s].file) /\ job[s].data.body \subseteq disk[job[s].file].body \union lost
        /\ job[s].step \in {"files", "write", "rename"} =>
               draft[s][job[s].file] # NoDraft /\ Own(s).base = job[s].data
        /\ job[s].step = "rebuild" /\ job[s].file \notin removed =>
               /\ draft[s][job[s].file] # NoDraft /\ Present(job[s].file)
               /\ Bytes(Own(s)).body \subseteq disk[job[s].file].body \union lost

-----------------------------------------------------------------------------
(***************************************************************************)
(* The sequence of entities a draft has still to create.                   *)
(***************************************************************************)
LEMMA AppendOK ==
    ASSUME NEW S, NEW q \in Seq(S), NEW g \in S
    PROVE  /\ Append(q, g) \in Seq(S) /\ ToSet(Append(q, g)) = ToSet(q) \union {g}
           /\ Once(q) /\ g \notin ToSet(q) => Once(Append(q, g))
<1> DEFINE r == Append(q, g)
<1>1. Len(q) \in Nat /\ DOMAIN q = 1..Len(q)
    BY LenProperties
<1>2. /\ r \in Seq(S) /\ Len(r) = Len(q) + 1 /\ DOMAIN r = 1..(Len(q) + 1)
      /\ r[Len(q) + 1] = g /\ \A i \in 1..Len(q) : r[i] = q[i]
    <2>1. r \in Seq(S) /\ Len(r) = Len(q) + 1
        BY AppendProperties
    <2> QED
        BY <1>1, <2>1, LenProperties
<1> HIDE DEF r
<1>3. ToSet(r) = ToSet(q) \union {g}
    <2>1. DOMAIN r = DOMAIN q \union {Len(q) + 1}
        BY <1>1, <1>2
    <2> QED
        BY <1>1, <1>2, <2>1 DEF ToSet
<1>4. Once(q) /\ g \notin ToSet(q) => Once(r)
    BY <1>1, <1>2 DEF Once, ToSet
<1> QED
    BY <1>2, <1>3, <1>4 DEF r

LEMMA TailOK ==
    ASSUME NEW S, NEW q \in Seq(S), q # <<>>
    PROVE  /\ Head(q) \in S /\ Tail(q) \in Seq(S)
           /\ ToSet(q) = ToSet(Tail(q)) \union {Head(q)}
           /\ Once(q) => Once(Tail(q)) /\ Head(q) \notin ToSet(Tail(q))
<1> DEFINE r == Tail(q)
<1>1. Len(q) \in Nat \ {0} /\ DOMAIN q = 1..Len(q) /\ Head(q) = q[1] /\ Head(q) \in S
    BY LenProperties, EmptySeq, HeadTailProperties
<1>2. /\ r \in Seq(S) /\ DOMAIN r = 1..(Len(q) - 1)
      /\ \A i \in 1..(Len(q) - 1) : r[i] = q[i + 1]
    BY <1>1, HeadTailProperties, LenProperties
<1> HIDE DEF r
<1>3. ToSet(r) \union {q[1]} = ToSet(q)
    <2>1. \A i \in DOMAIN r : i + 1 \in DOMAIN q /\ r[i] = q[i + 1]
        BY <1>1, <1>2
    <2>2. \A i \in DOMAIN q : i = 1 \/ (i - 1 \in DOMAIN r /\ r[i - 1] = q[i])
        BY <1>1, <1>2
    <2>3. 1 \in DOMAIN q
        BY <1>1
    <2> QED
        BY <2>1, <2>2, <2>3 DEF ToSet
<1>4. ASSUME Once(q) PROVE Once(r) /\ q[1] \notin ToSet(r)
    <2>1. ASSUME NEW i \in DOMAIN r, NEW j \in DOMAIN r, r[i] = r[j] PROVE i = j
        <3>1. i + 1 \in DOMAIN q /\ j + 1 \in DOMAIN q /\ q[i + 1] = q[j + 1] /\ i \in Nat /\ j \in Nat
            BY <1>1, <1>2, <2>1
        <3> QED
            BY <1>4, <3>1 DEF Once
    <2>2. ASSUME NEW i \in DOMAIN r PROVE r[i] # q[1]
        <3>1. i + 1 \in DOMAIN q /\ 1 \in DOMAIN q /\ i + 1 # 1 /\ r[i] = q[i + 1]
            BY <1>1, <1>2
        <3> QED
            BY <1>4, <3>1 DEF Once
    <2> QED
        BY <2>1, <2>2 DEF Once, ToSet
<1> QED
    BY <1>1, <1>2, <1>3, <1>4 DEF r

LEMMA NoneWaiting == ToSet(<<>>) = {} /\ \A S : <<>> \in Seq(S)
BY EmptySeq DEF ToSet

-----------------------------------------------------------------------------
(***************************************************************************)
(* What edits and writes change.                                           *)
(***************************************************************************)
\* A draft is the same but for whether its file's time is.
Same(d, e) ==
    /\ d = NoDraft <=> e = NoDraft
    /\ d # NoDraft => /\ d.base = e.base /\ d.body = e.body /\ d.links = e.links
                      /\ d.edited = e.edited /\ d.created = e.created

Drafts == [Servers -> [Files -> {NoDraft} \union Draft]]

LEMMA PutOK ==
    ASSUME TypeOK, NEW f \in Files, NEW t, NEW ds \in Drafts, Put(f, t, ds)
    PROVE  /\ disk'[f] = t /\ \A g \in Files \ {f} : disk'[g] = disk[g]
           /\ disk' \in [Files -> {Absent} \union Text] \/ t \notin {Absent} \union Text
           /\ draft' \in Drafts
           /\ lost' = lost \union (IF t = Absent THEN {} ELSE Prose(f) \ t.body)
           /\ lost' \subseteq Marks
           /\ \A s \in Servers, g \in Files : Same(draft'[s][g], ds[s][g])
<1>1. disk' = [disk EXCEPT ![f] = t] /\ disk \in [Files -> {Absent} \union Text]
    BY DEF Put, TypeOK
<1>2. PICK ticked \in BOOLEAN :
          draft' = [s \in Servers |-> IF ticked /\ ds[s][f] # NoDraft
                                      THEN [ds[s] EXCEPT ![f].fresh = FALSE] ELSE ds[s]]
    BY DEF Put
<1>3. ASSUME NEW s \in Servers
      PROVE  /\ draft'[s] \in [Files -> {NoDraft} \union Draft]
             /\ \A g \in Files : Same(draft'[s][g], ds[s][g])
    <2>1. ds[s] \in [Files -> {NoDraft} \union Draft]
        BY DEF Drafts
    <2>2. CASE ticked /\ ds[s][f] # NoDraft
        <3> DEFINE e == [ds[s][f] EXCEPT !.fresh = FALSE]
        <3>1. draft'[s] = [ds[s] EXCEPT ![f] = e]
            BY <1>2, <2>1, <2>2
        <3>2. ds[s][f] \in Draft
            BY <2>1, <2>2
        <3>3. e \in Draft /\ Same(e, ds[s][f])
            <4>1. e \in Draft
                BY <3>2 DEF Draft
            <4> QED
                BY <3>2, <4>1, ValuesOK DEF Draft, Same
        <3> HIDE DEF e
        <3>4. \A g \in Files : draft'[s][g] = IF g = f THEN e ELSE ds[s][g]
            BY <2>1, <3>1
        <3> QED
            BY <2>1, <3>1, <3>3, <3>4 DEF Same
    <2>3. CASE ~(ticked /\ ds[s][f] # NoDraft)
        BY <1>2, <2>1, <2>3 DEF Same
    <2> QED
        BY <2>2, <2>3
<1>4. draft' \in Drafts
    BY <1>2, <1>3 DEF Drafts
<1>5. lost' = lost \union (IF t = Absent THEN {} ELSE Prose(f) \ t.body)
    BY DEF Put
<1>6. lost \subseteq Marks /\ Prose(f) \subseteq Marks
    BY <1>1 DEF TypeOK, Prose, Present, Text
<1> QED
    BY <1>1, <1>3, <1>4, <1>5, <1>6

\* What one edit makes of a draft d of f.
LEMMA EditOK ==
    ASSUME TypeOK, NEW s \in Servers, NEW f \in Files, NEW d \in Draft, Edit(s, f, d)
    PROVE  /\ page' \in [Servers -> [Files -> SUBSET Marks]] /\ used' \subseteq Marks
           /\ UNCHANGED <<foreign, removed>>
           /\ \E e \in Draft :
                  /\ Keep(s, f, e) /\ e.base = d.base
                  /\ \/ e.created = d.created /\ ids' = ids
                     \/ \E g \in NewFiles \ (ids \union removed) :
                            ~Present(g) /\ e.created = Append(d.created, g) /\ ids' = ids \union {g}
                  /\ \A g \in e.links : g \in d.links \/ Named(g) \/ g \in ToSet(e.created)
<1>1. page \in [Servers -> [Files -> SUBSET Marks]] /\ used \subseteq Marks
    BY DEF TypeOK
<1>2. CASE BodyEdit(s, f, d)
    <2>1. PICK new \in {{}} \union {{m} : m \in Marks \ used} :
              LET b == page[s][f] \union new
              IN  /\ Keep(s, f, [d EXCEPT !.body = IF b = d.base.body THEN NoBody ELSE b])
                  /\ page' = [page EXCEPT ![s][f] = b]
                  /\ used' = used \union new
        BY <1>2 DEF BodyEdit
    <2> DEFINE b == page[s][f] \union new
               e == [d EXCEPT !.body = IF b = d.base.body THEN NoBody ELSE b]
    <2>2. b \in SUBSET Marks /\ new \subseteq Marks
        BY <1>1
    <2>3. e \in Draft /\ e.base = d.base /\ e.created = d.created /\ e.links = d.links
          /\ e.body = IF b = d.base.body THEN NoBody ELSE b
        BY <2>2 DEF Draft
    <2>6. page' \in [Servers -> [Files -> SUBSET Marks]] /\ used' \subseteq Marks
        BY <1>1, <2>1, <2>2
    <2> QED
        BY <1>2, <2>1, <2>3, <2>6 DEF BodyEdit
<1>3. CASE LinkEdit(s, f, d)
    <2>1. PICK l \in SUBSET Files :
              /\ Keep(s, f, [d EXCEPT !.links = l, !.edited = TRUE])
              /\ \A g \in l : g \in d.links \/ Named(g)
        <3>1. ASSUME NEW g \in Files \ {f}, Named(g),
                     Keep(s, f, [d EXCEPT !.links = @ \union {g}, !.edited = TRUE])
              PROVE  \E l \in SUBSET Files :
                         /\ Keep(s, f, [d EXCEPT !.links = l, !.edited = TRUE])
                         /\ \A h \in l : h \in d.links \/ Named(h)
            <4> DEFINE l == d.links \union {g}
            <4>1. l \in SUBSET Files /\ \A h \in l : h \in d.links \/ Named(h)
                BY <3>1 DEF Draft
            <4>2. Keep(s, f, [d EXCEPT !.links = l, !.edited = TRUE])
                BY <3>1
            <4> QED
                BY <4>1, <4>2
        <3>2. ASSUME NEW g \in d.links, Keep(s, f, [d EXCEPT !.links = @ \ {g}, !.edited = TRUE])
              PROVE  \E l \in SUBSET Files :
                         /\ Keep(s, f, [d EXCEPT !.links = l, !.edited = TRUE])
                         /\ \A h \in l : h \in d.links \/ Named(h)
            <4> DEFINE l == d.links \ {g}
            <4>1. l \in SUBSET Files /\ \A h \in l : h \in d.links \/ Named(h)
                BY DEF Draft
            <4>2. Keep(s, f, [d EXCEPT !.links = l, !.edited = TRUE])
                BY <3>2
            <4> QED
                BY <4>1, <4>2
        <3> QED
            BY <1>3, <3>1, <3>2 DEF LinkEdit, Named
    <2> DEFINE e == [d EXCEPT !.links = l, !.edited = TRUE]
    <2>2. e \in Draft /\ e.base = d.base /\ e.created = d.created /\ e.links = l /\ e.body = d.body
        BY DEF Draft
    <2> QED
        BY <1>1, <1>3, <2>1, <2>2 DEF LinkEdit, seen
<1>4. CASE CreateEdit(s, f, d)
    <2>1. PICK g \in NewFiles \ (ids \union removed) :
              /\ ~Present(g) /\ ids' = ids \union {g}
              /\ Keep(s, f, [d EXCEPT !.links = @ \union {g}, !.edited = TRUE,
                                      !.created = Append(@, g)])
        BY <1>4 DEF CreateEdit
    <2> DEFINE e == [d EXCEPT !.links = @ \union {g}, !.edited = TRUE, !.created = Append(@, g)]
    <2>2. d.created \in Seq(NewFiles) /\ g \in Files
        BY DEF Draft, Files
    <2>3. Append(d.created, g) \in Seq(NewFiles) /\ g \in ToSet(Append(d.created, g))
        BY <2>2, AppendOK
    <2>4. /\ e \in Draft /\ e.base = d.base /\ e.created = Append(d.created, g)
          /\ e.links = d.links \union {g} /\ e.body = d.body
        BY <2>2, <2>3 DEF Draft
    <2> QED
        BY <1>1, <1>4, <2>1, <2>3, <2>4 DEF CreateEdit
<1> QED
    BY <1>2, <1>3, <1>4 DEF Edit

-----------------------------------------------------------------------------
(***************************************************************************)
(* Kinds: every step keeps them.                                           *)
(***************************************************************************)
Request == [step : Steps, file : Files, data : Text]
Jobs == [Servers -> {Idle} \union Request]

LEMMA GoOK ==
    ASSUME TypeOK, NEW s \in Servers, job[s].step # "none", NEW step \in Steps \ {"none"}, Go(s, step)
    PROVE  /\ job[s] \in Request /\ job' \in Jobs
           /\ job'[s].step = step /\ job'[s].file = job[s].file /\ job'[s].data = job[s].data
           /\ \A t \in Servers \ {s} : job'[t] = job[t]
<1>1. job \in Jobs /\ job[s] \in Request
    BY DEF TypeOK, Jobs, Request, Idle
<1>2. [job[s] EXCEPT !.step = step] \in Request
    BY <1>1 DEF Request
<1>3. job' = [job EXCEPT ![s] = [job[s] EXCEPT !.step = step]]
    BY DEF Go
<1>4. job'[s] = [job[s] EXCEPT !.step = step]
    BY <1>1, <1>3 DEF Jobs
<1> QED
    BY <1>1, <1>2, <1>3, <1>4 DEF Jobs, Request

LEMMA StopOK ==
    ASSUME TypeOK, NEW s \in Servers, Stop(s)
    PROVE  job' \in Jobs /\ job'[s].step = "none" /\ \A t \in Servers \ {s} : job'[t] = job[t]
BY DEF TypeOK, Jobs, Request, Stop, Idle

LEMMA BusyOK ==
    ASSUME TypeOK, NEW s \in Servers, NEW f \in Files, Present(f), NEW step \in Steps,
           job' = [job EXCEPT ![s] = Busy(s, step, f, disk[f])]
    PROVE  /\ job' \in Jobs /\ job'[s].step = step
           /\ job'[s].file = f /\ job'[s].data = disk[f]
           /\ \A t \in Servers \ {s} : job'[t] = job[t]
<1>1. disk[f] \in Text
    BY DEF TypeOK, Present
<1> QED
    BY <1>1 DEF TypeOK, Jobs, Request, Busy

LEMMA KeepOK ==
    ASSUME TypeOK, NEW s \in Servers, NEW f \in Files, NEW d \in {NoDraft} \union Draft, Keep(s, f, d)
    PROVE  /\ draft' \in Drafts /\ draft'[s][f] = d
           /\ \A t \in Servers, g \in Files : (t # s \/ g # f) => draft'[t][g] = draft[t][g]
BY DEF TypeOK, Drafts, Keep

\* A step that writes no file and edits no draft.
Quiet(s) ==
    \/ \E f \in Edited : StartDraft(s, f) \/ View(s, f) \/ Discard(s, f) \/ SaveBegin(s, f)
    \/ EditRefused(s) \/ SaveCheck(s) \/ SaveFiles(s) \/ SaveLstat(s) \/ SaveEnd(s) \/ Restart(s)

\* The save goes on to its next step.
GoesOn(s) ==
    /\ job[s].step # "none" /\ draft' = draft /\ Own(s) # NoDraft
    /\ job'[s].file = job[s].file /\ job'[s].data = job[s].data
    /\ \/ job[s].step = "check" /\ job'[s].step = "files" /\ job[s].data = Own(s).base
       \/ job[s].step = "files" /\ job'[s].step = "write"
       \/ /\ job[s].step = "write" /\ job'[s].step = "rename"
          /\ Own(s).created # <<>> /\ ~Present(Head(Own(s).created))
       \/ /\ job[s].step = "write" /\ job'[s].step = "rebuild"
          /\ Bytes(Own(s)) = job[s].data

\* What it leaves as it was.
Calm(s) ==
    /\ UNCHANGED <<stored, seen>>
    /\ page' \in [Servers -> [Files -> SUBSET Marks]]
    /\ draft' \in Drafts
    /\ \A t \in Servers, g \in Files : draft'[t][g] \in {draft[t][g], NoDraft}
    /\ \A t \in Servers \ {s} : draft'[t] = draft[t] /\ job'[t] = job[t]
    /\ job' \in Jobs
    /\ \/ job'[s].step = "none"
       \/ /\ job'[s].step \in {"stat", "check"} /\ draft' = draft
          /\ Present(job'[s].file) /\ job'[s].data = disk[job'[s].file]
       \/ GoesOn(s)

LEMMA QuietOK ==
    ASSUME TypeOK, NEW s \in Servers, Quiet(s)
    PROVE  Calm(s)
<1>1. /\ disk \in [Files -> {Absent} \union Text]
      /\ page \in [Servers -> [Files -> SUBSET Marks]]
      /\ draft \in Drafts /\ job \in Jobs
    BY DEF TypeOK, Drafts, Jobs, Request
<1>2. \A f \in Files : /\ Present(f) => disk[f] \in Text
                       /\ Prose(f) \in SUBSET Marks
    BY <1>1 DEF Present, Prose, Text
<1>3. ASSUME NEW f \in Edited, StartDraft(s, f) \/ SaveBegin(s, f)
      PROVE  Calm(s)
    <2>1. PICK step \in {"stat", "check"} : job' = [job EXCEPT ![s] = Busy(s, step, f, disk[f])]
        BY <1>3 DEF StartDraft, SaveBegin
    <2>2. Present(f) /\ f \in Files
        BY <1>3, EditedOK DEF StartDraft, SaveBegin
    <2>3. /\ job' \in Jobs /\ job'[s].step = step /\ job'[s].file = f /\ job'[s].data = disk[f]
          /\ \A t \in Servers \ {s} : job'[t] = job[t]
        BY <2>1, <2>2, BusyOK DEF Steps
    <2> QED
        BY <1>1, <1>3, <2>2, <2>3 DEF StartDraft, SaveBegin, Calm
<1>4. ASSUME NEW f \in Edited, View(s, f)
      PROVE  Calm(s)
    <2>1. draft[s][f] # NoDraft => Bytes(draft[s][f]).body \in SUBSET Marks
        <3>1. draft[s][f] \in {NoDraft} \union Draft
            BY <1>1, EditedOK DEF Drafts
        <3> QED
            BY <3>1 DEF Draft, Bytes, Text
    <2>2. disk[f].body \in SUBSET Marks
        BY <1>2, <1>4, EditedOK DEF View, Text
    <2>3. page' \in [Servers -> [Files -> SUBSET Marks]]
        BY <1>1, <1>4, <2>1, <2>2, EditedOK DEF View
    <2> QED
        BY <1>1, <1>4, <2>3 DEF View, Calm, Idle
<1>5. ASSUME NEW f \in Edited, Discard(s, f) PROVE Calm(s)
    <2>1. f \in Files /\ Keep(s, f, NoDraft)
        BY <1>5, EditedOK DEF Discard
    <2>2. /\ draft' \in Drafts
          /\ \A t \in Servers, g \in Files : draft'[t][g] \in {draft[t][g], NoDraft}
          /\ \A t \in Servers \ {s} : draft'[t] = draft[t]
        BY <1>1, <2>1, KeepOK DEF Keep, Drafts
    <2>3. page' \in [Servers -> [Files -> SUBSET Marks]]
        BY <1>1, <1>2, <1>5, <2>1 DEF Discard
    <2> QED
        BY <1>1, <1>5, <2>2, <2>3 DEF Discard, Calm, Idle
<1>6. CASE EditRefused(s)
    <2>1. Stop(s) /\ UNCHANGED <<stored, draft, page, seen>>
        BY <1>6 DEF EditRefused, Stop
    <2> QED
        BY <1>1, <2>1, StopOK DEF Calm
<1>7. CASE SaveCheck(s) \/ SaveFiles(s) \/ SaveLstat(s)
    <2>1. job[s].step \in {"check", "files", "write"} /\ UNCHANGED <<stored, draft, page, seen>>
        BY <1>7 DEF SaveCheck, SaveFiles, SaveLstat, Saving
    <2>2. \/ Stop(s)
          \/ /\ Own(s) # NoDraft
             /\ \/ job[s].step = "check" /\ Go(s, "files") /\ job[s].data = Own(s).base
                \/ job[s].step = "files" /\ Go(s, "write")
                \/ /\ job[s].step = "write" /\ Go(s, "rename")
                   /\ Own(s).created # <<>> /\ ~Present(Head(Own(s).created))
        BY <1>7 DEF SaveCheck, SaveFiles, SaveLstat, Saving, Own
    <2>3. CASE Stop(s)
        BY <1>1, <2>1, <2>3, StopOK DEF Calm
    <2>4. CASE ~Stop(s)
        <3>1. PICK step \in {"files", "write", "rename"} : Go(s, step)
            BY <2>2, <2>4
        <3>2. /\ job' \in Jobs /\ \A t \in Servers \ {s} : job'[t] = job[t]
              /\ job'[s].step = step /\ job'[s].file = job[s].file /\ job'[s].data = job[s].data
            BY <2>1, <3>1, GoOK DEF Steps
        <3>3. ASSUME NEW other \in {"files", "write", "rename"}, Go(s, other)
              PROVE  other = step
            BY <2>1, <3>2, <3>3, GoOK DEF Steps
        <3>4. GoesOn(s)
            BY <2>1, <2>2, <2>4, <3>2, <3>3 DEF GoesOn
        <3> QED
            BY <1>1, <2>1, <3>2, <3>4 DEF Calm
    <2> QED
        BY <2>3, <2>4
<1>8. CASE SaveEnd(s)
    <2>1. job[s] \in Request
        BY <1>1, <1>8 DEF SaveEnd, Saving, Jobs, Idle
    <2>2. job[s].file \in Files /\ Keep(s, job[s].file, NoDraft) /\ Stop(s)
        BY <1>8, <2>1 DEF SaveEnd, Request
    <2>3. /\ draft' \in Drafts /\ \A t \in Servers, g \in Files : draft'[t][g] \in {draft[t][g], NoDraft}
        BY <2>2, KeepOK
    <2>4. \A t \in Servers \ {s} : draft'[t] = draft[t]
        BY <1>1, <2>2 DEF Keep, Drafts
    <2> QED
        BY <1>1, <1>8, <2>2, <2>3, <2>4, StopOK DEF SaveEnd, Calm
<1>9. CASE Restart(s)
    <2>1. draft' = [draft EXCEPT ![s] = [f \in Files |-> NoDraft]]
        BY <1>9 DEF Restart
    <2>2. /\ draft' \in Drafts /\ \A t \in Servers \ {s} : draft'[t] = draft[t]
          /\ \A t \in Servers, g \in Files : draft'[t][g] \in {draft[t][g], NoDraft}
        BY <1>1, <2>1 DEF Drafts
    <2>3. page' \in [Servers -> [Files -> SUBSET Marks]]
        BY <1>1, <1>2, <1>9 DEF Restart
    <2> QED
        BY <1>9, <2>2, <2>3, StopOK DEF Restart, Calm
<1> QED
    BY <1>3, <1>4, <1>5, <1>6, <1>7, <1>8, <1>9 DEF Quiet

\* What a server that edits a draft changes.
Edits(s, f, d) ==
    /\ UNCHANGED <<stored, foreign, removed>>
    /\ page' \in [Servers -> [Files -> SUBSET Marks]] /\ used' \subseteq Marks
    /\ draft' \in Drafts /\ draft'[s][f] \in Draft /\ draft'[s][f].base = d.base
    /\ \A t \in Servers, g \in Files : (t # s \/ g # f) => draft'[t][g] = draft[t][g]
    /\ LET e == draft'[s][f] IN
       /\ \/ e.created = d.created /\ ids' = ids
          \/ \E g \in NewFiles \ (ids \union removed) :
                 ~Present(g) /\ e.created = Append(d.created, g) /\ ids' = ids \union {g}
       /\ \A g \in e.links : g \in d.links \/ Named(g) \/ g \in ToSet(e.created)
    /\ job' \in Jobs /\ \A t \in Servers \ {s} : job'[t] = job[t]
    /\ job'[s].step = "none"

\* A draft as startDraft leaves it.
Begun(t) == [base |-> t, fresh |-> TRUE, body |-> NoBody, links |-> t.links,
             edited |-> FALSE, created |-> <<>>]

LEMMA EditsOK ==
    ASSUME TypeOK, NEW s \in Servers, NEW f \in Files, NEW d \in Draft, Edit(s, f, d), UNCHANGED stored,
           job' \in Jobs, \A t \in Servers \ {s} : job'[t] = job[t], job'[s].step = "none"
    PROVE  Edits(s, f, d)
<1>1. PICK e \in Draft :
          /\ Keep(s, f, e) /\ e.base = d.base
          /\ \/ e.created = d.created /\ ids' = ids
             \/ \E g \in NewFiles \ (ids \union removed) :
                    ~Present(g) /\ e.created = Append(d.created, g) /\ ids' = ids \union {g}
          /\ \A g \in e.links : g \in d.links \/ Named(g) \/ g \in ToSet(e.created)
    BY EditOK
<1>2. /\ draft' \in Drafts /\ draft'[s][f] = e
      /\ \A t \in Servers, g \in Files : (t # s \/ g # f) => draft'[t][g] = draft[t][g]
    BY <1>1, KeepOK
<1>3. /\ page' \in [Servers -> [Files -> SUBSET Marks]] /\ used' \subseteq Marks
      /\ UNCHANGED <<foreign, removed>>
    BY EditOK
<1> QED
    BY <1>1, <1>2, <1>3 DEF Edits

LEMMA EditOpenOK ==
    ASSUME TypeOK, NEW s \in Servers, NEW f \in Edited, EditOpen(s, f)
    PROVE  draft[s][f] # NoDraft /\ draft[s][f] \in Draft /\ f \in Files /\ Edits(s, f, draft[s][f])
<1>1. draft[s][f] # NoDraft /\ draft[s][f] \in Draft /\ f \in Files
    BY EditedOK DEF EditOpen, TypeOK
<1>2. job' \in Jobs /\ job' = job /\ job[s].step = "none"
    BY DEF EditOpen, TypeOK, Jobs, Request, Idle
<1>3. UNCHANGED stored /\ Edit(s, f, draft[s][f])
    BY DEF EditOpen
<1> QED
    BY <1>1, <1>2, <1>3, EditsOK

LEMMA EditNewOK ==
    ASSUME TypeOK, NEW s \in Servers, EditNew(s)
    PROVE  /\ job[s].step = "stat" /\ job[s] \in Request /\ Begun(job[s].data) \in Draft
           /\ Present(job[s].file)
           /\ Edits(s, job[s].file, Begun(job[s].data))
<1>1. job[s].step = "stat" /\ job[s] \in Request
    BY DEF EditNew, TypeOK, Request, Idle
<1>2. job[s].file \in Files /\ job[s].data \in Text
    BY <1>1 DEF Request
<1>3. Begun(job[s].data) \in Draft
    BY <1>2, NoneWaiting DEF Begun, Draft, Text
<1>4. /\ Present(job[s].file) /\ Edit(s, job[s].file, Begun(job[s].data))
      /\ UNCHANGED stored /\ Stop(s)
    BY DEF EditNew, Begun, Stop
<1> QED
    BY <1>1, <1>2, <1>3, <1>4, EditsOK, StopOK

-----------------------------------------------------------------------------
(***************************************************************************)
(* The steps that write a file f.                                          *)
(***************************************************************************)
Writes(f, t) ==
    /\ disk'[f] = t /\ \A g \in Files \ {f} : disk'[g] = disk[g]
    /\ disk' \in [Files -> {Absent} \union Text]
    /\ draft' \in Drafts
    /\ lost' = lost \union (IF t = Absent THEN {} ELSE Prose(f) \ t.body)
    /\ lost' \subseteq Marks
    /\ page' = page /\ ids' = ids

SameDrafts == \A s \in Servers, f \in Files : Same(draft'[s][f], draft[s][f])

LEMMA PutSame ==
    ASSUME TypeOK, NEW f \in Files, NEW t \in {Absent} \union Text, Put(f, t, draft), UNCHANGED <<page, ids>>
    PROVE  Writes(f, t) /\ SameDrafts
<1>1. draft \in Drafts
    BY DEF TypeOK, Drafts
<1> QED
    BY <1>1, PutOK DEF Writes, SameDrafts

\* A save about to rename has an entity to create.
RenameOK ==
    \A s \in Servers :
        job[s].step = "rename" /\ draft[s][job[s].file] # NoDraft => Own(s).created # <<>>

NewEntity == [body |-> {}, links |-> {}]

\* A created file is put on disk and leaves its draft.
Creates(s) ==
    LET g == Head(Own(s).created) IN
    /\ job[s].step = "rename" /\ job[s].file \in Files
    /\ Own(s) \in Draft /\ Own(s) # NoDraft /\ Own(s).created # <<>>
    /\ Writes(g, NewEntity)
    /\ \A t \in Servers, f \in Files :
           t # s \/ f # job[s].file => Same(draft'[t][f], draft[t][f])
    /\ Same(draft'[s][job[s].file], [Own(s) EXCEPT !.created = Tail(@)])
    /\ Go(s, "write") /\ UNCHANGED seen

LEMMA SaveCreatedOK ==
    ASSUME TypeOK, RenameOK, NEW s \in Servers, SaveCreated(s)
    PROVE  Calm(s) \/ Creates(s)
<1>1. /\ job[s].step = "rename" /\ job[s] \in Request /\ draft \in Drafts
      /\ page \in [Servers -> [Files -> SUBSET Marks]]
    BY DEF SaveCreated, Saving, TypeOK, Request, Idle, Drafts
<1> DEFINE f == job[s].file
           g == Head(Own(s).created)
           d == [Own(s) EXCEPT !.created = Tail(@)]
           ds == [draft EXCEPT ![s][f] = d]
<1>2. f \in Files /\ Own(s) \in Draft /\ Own(s) # NoDraft /\ Own(s) = draft[s][f]
    BY <1>1, ValuesOK DEF SaveCreated, Saving, Request, Own, Drafts
<1>3. Own(s).created \in Seq(NewFiles) /\ Own(s).created # <<>>
    BY <1>1, <1>2 DEF Draft, RenameOK
<1>4. g \in Files /\ Tail(Own(s).created) \in Seq(NewFiles)
    BY <1>3, TailOK DEF Files
<1>5. d \in Draft
    BY <1>2, <1>4 DEF Draft
<1> HIDE DEF d
<1>6. ds \in Drafts /\ ds[s][f] = d
      /\ \A t \in Servers, h \in Files : t # s \/ h # f => ds[t][h] = draft[t][h]
    BY <1>1, <1>2, <1>5 DEF Drafts
<1>7. NewEntity \in Text
    BY DEF NewEntity, Text
<1>8. \/ Put(g, NewEntity, ds) /\ Go(s, "write")
      \/ Stop(s) /\ UNCHANGED <<stored, draft>>
    <2>1. [draft EXCEPT ![s][f].created = Tail(@)] = ds
        BY <1>1, <1>2 DEF d, Drafts
    <2> QED
        BY <2>1 DEF SaveCreated, NewEntity
<1>9. UNCHANGED <<page, seen>>
    BY DEF SaveCreated
<1>10. CASE Stop(s) /\ UNCHANGED <<stored, draft>>
    BY <1>1, <1>9, <1>10, StopOK DEF Calm
<1>11. CASE Put(g, NewEntity, ds) /\ Go(s, "write")
    <2> HIDE DEF ds, g, f
    <2>1. /\ disk'[g] = NewEntity /\ \A h \in Files \ {g} : disk'[h] = disk[h]
          /\ disk' \in [Files -> {Absent} \union Text]
          /\ draft' \in Drafts
          /\ lost' = lost \union (IF NewEntity = Absent THEN {} ELSE Prose(g) \ NewEntity.body)
          /\ lost' \subseteq Marks
          /\ \A t \in Servers, h \in Files : Same(draft'[t][h], ds[t][h])
        BY <1>4, <1>6, <1>7, <1>11, PutOK
    <2>2. Writes(g, NewEntity)
        BY <1>9, <2>1 DEF Writes, seen
    <2>3. Same(draft'[s][f], d) /\ \A t \in Servers, h \in Files :
              t # s \/ h # f => Same(draft'[t][h], draft[t][h])
        BY <1>2, <1>6, <2>1
    <2> QED
        BY <1>1, <1>2, <1>3, <1>9, <1>11, <2>2, <2>3 DEF Creates, d, g, f
<1> QED
    BY <1>8, <1>10, <1>11

\* The entity's own file is replaced.
Replaces(s) ==
    LET f == job[s].file IN
    /\ job[s].step = "write" /\ job[s] \in Request
    /\ Own(s) \in Draft /\ Own(s) # NoDraft /\ Own(s).created = <<>>
    /\ Writes(f, Bytes(Own(s))) /\ SameDrafts
    /\ Go(s, "rebuild") /\ UNCHANGED seen

LEMMA BytesOK ==
    ASSUME NEW d \in Draft
    PROVE  Bytes(d) \in Text
BY DEF Draft, Bytes, Text

LEMMA SaveMainOK ==
    ASSUME TypeOK, NEW s \in Servers, SaveMain(s)
    PROVE  Calm(s) \/ Replaces(s)
<1>1. /\ job[s].step = "write" /\ job[s] \in Request /\ draft \in Drafts
      /\ page \in [Servers -> [Files -> SUBSET Marks]]
    BY DEF SaveMain, Saving, TypeOK, Request, Idle, Drafts
<1> DEFINE f == job[s].file
<1>2. f \in Files /\ Own(s) \in Draft /\ Own(s) # NoDraft /\ Own(s) = draft[s][f]
    BY <1>1, ValuesOK DEF SaveMain, Saving, Request, Own, Drafts
<1>3. UNCHANGED <<page, seen>> /\ Own(s).created = <<>>
    BY DEF SaveMain
<1>4. CASE /\ Stop(s) \/ (Go(s, "rebuild") /\ Bytes(Own(s)) = job[s].data)
           /\ UNCHANGED <<stored, draft>>
    <2>1. CASE Stop(s)
        BY <1>1, <1>3, <1>4, <2>1, StopOK DEF Calm
    <2>2. CASE Go(s, "rebuild") /\ Bytes(Own(s)) = job[s].data
        <3>1. /\ job' \in Jobs /\ \A t \in Servers \ {s} : job'[t] = job[t]
              /\ job'[s].step = "rebuild" /\ job'[s].file = job[s].file /\ job'[s].data = job[s].data
            BY <1>1, <2>2, GoOK DEF Steps
        <3>2. GoesOn(s)
            BY <1>1, <1>2, <1>4, <2>2, <3>1 DEF GoesOn
        <3> QED
            BY <1>1, <1>3, <1>4, <3>1, <3>2 DEF Calm
    <2> QED
        BY <1>4, <2>1, <2>2
<1>5. CASE Put(f, Bytes(Own(s)), draft) /\ Go(s, "rebuild")
    <2>1. Writes(f, Bytes(Own(s))) /\ SameDrafts
        BY <1>2, <1>3, <1>5, PutSame, BytesOK DEF seen
    <2> QED
        BY <1>1, <1>2, <1>3, <1>5, <2>1 DEF Replaces
<1> QED
    BY <1>4, <1>5 DEF SaveMain

\* Another program writes prose, puts a file in the way, or removes one.
Disturbs(f) ==
    /\ UNCHANGED <<page, job, ids>> /\ SameDrafts /\ used' \subseteq Marks
    /\ \/ /\ Present(f) /\ UNCHANGED <<foreign, removed>>
          /\ \E m \in Marks : Writes(f, [disk[f] EXCEPT !.body = @ \union {m}])
       \/ /\ ~Present(f) /\ f \in ids \ removed /\ foreign' = foreign \union {f} /\ removed' = removed
          /\ \E m \in Marks : Writes(f, [body |-> {m}, links |-> {}])
       \/ /\ Present(f) /\ Writes(f, Absent)
          /\ removed' = removed \union {f} /\ foreign' = foreign

LEMMA OutsideOK ==
    ASSUME TypeOK, NEW f \in Files, Outside(f)
    PROVE  Disturbs(f)
<1>1. UNCHANGED <<page, job, ids>> /\ used \subseteq Marks
    BY DEF Outside, TypeOK
<1>2. ASSUME NEW m \in Marks, Present(f), UNCHANGED <<foreign, removed>>, used' = used \union {m},
             Put(f, [disk[f] EXCEPT !.body = @ \union {m}], draft)
      PROVE  Disturbs(f)
    <2>1. [disk[f] EXCEPT !.body = @ \union {m}] \in Text
        BY <1>2 DEF Present, TypeOK, Text
    <2>2. Writes(f, [disk[f] EXCEPT !.body = @ \union {m}]) /\ SameDrafts
        BY <1>1, <1>2, <2>1, PutSame
    <2> QED
        BY <1>1, <1>2, <2>2 DEF Disturbs
<1>3. ASSUME NEW m \in Marks, ~Present(f), f \in ids, f \notin foreign \union removed,
             foreign' = foreign \union {f}, removed' = removed, used' = used \union {m},
             Put(f, [body |-> {m}, links |-> {}], draft)
      PROVE  Disturbs(f)
    <2>1. [body |-> {m}, links |-> {}] \in Text
        BY DEF Text
    <2>2. Writes(f, [body |-> {m}, links |-> {}]) /\ SameDrafts
        BY <1>1, <1>3, <2>1, PutSame
    <2> QED
        BY <1>1, <1>3, <2>2 DEF Disturbs
<1>4. ASSUME Present(f), Put(f, Absent, draft), removed' = removed \union {f}, UNCHANGED <<used, foreign>>
      PROVE  Disturbs(f)
    BY <1>1, <1>4, PutSame DEF Disturbs
<1> QED
    BY <1>2, <1>3, <1>4 DEF Outside

\* Every step is one of these.
LEMMA Cases ==
    ASSUME TypeOK, RenameOK, Next
    PROVE  \/ \E s \in Servers :
                  \/ \E f \in Files : draft[s][f] # NoDraft /\ draft[s][f] \in Draft /\ Edits(s, f, draft[s][f])
                  \/ EditNew(s)
                  \/ Calm(s)
                  \/ Creates(s)
                  \/ Replaces(s)
           \/ \E f \in Files : Disturbs(f)
<1>1. ASSUME NEW s \in Servers, NEW f \in Edited, EditOpen(s, f)
      PROVE  f \in Files /\ draft[s][f] # NoDraft /\ draft[s][f] \in Draft /\ Edits(s, f, draft[s][f])
    BY <1>1, EditOpenOK
<1>2. ASSUME NEW s \in Servers, Quiet(s)
      PROVE  Calm(s)
    BY <1>2, QuietOK
<1>3. ASSUME NEW s \in Servers, SaveCreated(s)
      PROVE  Calm(s) \/ Creates(s)
    BY <1>3, SaveCreatedOK
<1>4. ASSUME NEW s \in Servers, SaveMain(s)
      PROVE  Calm(s) \/ Replaces(s)
    BY <1>4, SaveMainOK
<1>5. ASSUME NEW f \in Files, Outside(f)
      PROVE  Disturbs(f)
    BY <1>5, OutsideOK
<1> QED
    BY <1>1, <1>2, <1>3, <1>4, <1>5 DEF Next, Server, Quiet

-----------------------------------------------------------------------------
LEMMA KindInit == Init => TypeOK /\ RenameOK
BY DEF Init, TypeOK, RenameOK, Files, Text, Idle

LEMMA KindStep == TypeOK /\ RenameOK /\ [Next]_vars => TypeOK' /\ RenameOK'
<1> SUFFICES ASSUME TypeOK, RenameOK, [Next]_vars PROVE TypeOK' /\ RenameOK'
    OBVIOUS
<1>1. /\ draft \in Drafts /\ job \in Jobs /\ disk \in [Files -> {Absent} \union Text]
      /\ ids \subseteq NewFiles /\ foreign \subseteq ids /\ removed \subseteq Files
      /\ page \in [Servers -> [Files -> SUBSET Marks]] /\ used \subseteq Marks
      /\ lost \subseteq Marks
    BY DEF TypeOK, Drafts, Jobs, Request
<1>2. CASE UNCHANGED vars
    BY <1>2 DEF vars, TypeOK, RenameOK, Own
<1>3. ASSUME /\ draft' \in Drafts /\ job' \in Jobs /\ disk' \in [Files -> {Absent} \union Text]
             /\ page' \in [Servers -> [Files -> SUBSET Marks]] /\ used' \subseteq Marks
             /\ ids' \subseteq NewFiles /\ foreign' \subseteq ids' /\ removed' \subseteq Files
             /\ lost' \subseteq Marks
      PROVE  TypeOK'
    BY <1>3 DEF TypeOK, Drafts, Jobs, Request
<1>4. ASSUME NEW s \in Servers, job'[s].step # "rename",
             \A t \in Servers \ {s} : job'[t] = job[t],
             \A t \in Servers \ {s}, f \in Files : Same(draft'[t][f], draft[t][f])
      PROVE  RenameOK'
    <2> SUFFICES ASSUME NEW t \in Servers, job'[t].step = "rename", draft'[t][job'[t].file] # NoDraft
                 PROVE  draft'[t][job'[t].file].created # <<>>
        BY DEF RenameOK, Own
    <2>1. t # s /\ job'[t] = job[t] /\ job[t].file \in Files
        BY <1>1, <1>4 DEF Jobs, Request, Idle
    <2>2. Same(draft'[t][job[t].file], draft[t][job[t].file])
        BY <1>4, <2>1
    <2> QED
        BY <2>1, <2>2 DEF RenameOK, Own, Same
<1>5. ASSUME NEW s \in Servers, NEW f \in Files, NEW d \in Draft, Edits(s, f, d)
      PROVE  TypeOK' /\ RenameOK'
    <2>1. ids' \subseteq NewFiles /\ foreign' \subseteq ids'
        BY <1>1, <1>5 DEF Edits
    <2>2. TypeOK'
        BY <1>1, <1>3, <1>5, <2>1 DEF Edits
    <2>3. \A t \in Servers \ {s}, g \in Files : Same(draft'[t][g], draft[t][g])
        BY <1>5 DEF Edits, Same
    <2> QED
        BY <1>4, <1>5, <2>2, <2>3 DEF Edits
<1>6. ASSUME NEW s \in Servers, EditNew(s)
      PROVE  TypeOK' /\ RenameOK'
    BY <1>5, <1>6, EditNewOK DEF Request
<1>7. ASSUME NEW s \in Servers, Calm(s)
      PROVE  TypeOK' /\ RenameOK'
    <2>1. TypeOK'
        BY <1>1, <1>3, <1>7 DEF Calm, seen
    <2>2. CASE job'[s].step # "rename"
        BY <1>4, <1>7, <2>1, <2>2 DEF Calm, Same
    <2>3. CASE job'[s].step = "rename"
        <3>1. draft' = draft /\ job'[s].file = job[s].file /\ Own(s).created # <<>>
            BY <1>7, <2>3 DEF Calm, GoesOn
        <3> QED
            BY <1>7, <2>1, <3>1 DEF Calm, RenameOK, Own
    <2> QED
        BY <2>2, <2>3
<1>8. ASSUME NEW s \in Servers, Creates(s) \/ Replaces(s)
      PROVE  TypeOK' /\ RenameOK'
    <2>1. PICK step \in {"write", "rebuild"} : Go(s, step) /\ job[s].step # "none"
        BY <1>8 DEF Creates, Replaces
    <2>2. job' \in Jobs /\ job'[s].step = step /\ \A t \in Servers \ {s} : job'[t] = job[t]
        BY <2>1, GoOK DEF Steps
    <2>3. TypeOK'
        BY <1>1, <1>3, <1>8, <2>2 DEF Creates, Replaces, Writes, seen
    <2>4. \A t \in Servers \ {s}, g \in Files : Same(draft'[t][g], draft[t][g])
        BY <1>8 DEF Creates, Replaces, SameDrafts
    <2> QED
        BY <1>4, <2>2, <2>3, <2>4
<1>9. ASSUME NEW f \in Files, Disturbs(f)
      PROVE  TypeOK' /\ RenameOK'
    <2>1. foreign' \subseteq ids' /\ removed' \subseteq Files
        BY <1>1, <1>9 DEF Disturbs
    <2>2. TypeOK'
        BY <1>1, <1>3, <1>9, <2>1 DEF Disturbs, Writes
    <2>3. ASSUME NEW t \in Servers, job[t].step = "rename", draft'[t][job[t].file] # NoDraft
          PROVE  draft'[t][job[t].file].created # <<>>
        <3>1. job[t].file \in Files
            BY <1>1, <2>3 DEF Jobs, Request, Idle
        <3> QED
            BY <1>9, <2>3, <3>1 DEF Disturbs, SameDrafts, Same, RenameOK, Own
    <2> QED
        BY <1>9, <2>2, <2>3 DEF RenameOK, Own, Disturbs
<1> QED
    BY <1>2, <1>5, <1>6, <1>7, <1>8, <1>9, Cases

\* Every variable keeps to its kind.
THEOREM SavesTyped == Spec => []TypeOK
BY KindInit, KindStep, PTL DEF Spec

-----------------------------------------------------------------------------
(***************************************************************************)
(* Links.                                                                  *)
(***************************************************************************)
NamedNext(g) == disk'[g] # Absent \/ g \in removed'

\* A file that was on disk is there, or another program removed it.
LEMMA NamedStays ==
    ASSUME TypeOK, RenameOK, [Next]_vars
    PROVE  \A g \in Files : Named(g) => NamedNext(g)
<1>1. CASE UNCHANGED <<stored, removed>>
    BY <1>1 DEF Named, NamedNext, Present
<1>2. ASSUME NEW s \in Servers, Creates(s)
      PROVE  \A g \in Files : Named(g) => NamedNext(g)
    <2>1. NewEntity # Absent
        BY ValuesOK DEF NewEntity, Text
    <2> QED
        BY <1>2, <2>1 DEF Creates, Writes, seen, Named, NamedNext, Present
<1>3. ASSUME NEW s \in Servers, Replaces(s)
      PROVE  \A g \in Files : Named(g) => NamedNext(g)
    <2>1. Bytes(Own(s)) # Absent
        BY <1>3, BytesOK, ValuesOK DEF Replaces
    <2> QED
        BY <1>3, <2>1 DEF Replaces, Writes, seen, Named, NamedNext, Present
<1>4. ASSUME NEW f \in Files, Disturbs(f)
      PROVE  \A g \in Files : Named(g) => NamedNext(g)
    <2>1. CASE \E m \in Marks : Writes(f, [disk[f] EXCEPT !.body = @ \union {m}])
                   /\ Present(f) /\ removed' = removed
        <3>1. ASSUME NEW m \in Marks PROVE [disk[f] EXCEPT !.body = @ \union {m}] # Absent
            <4>1. disk[f] \in Text
                BY <2>1 DEF TypeOK, Present
            <4>2. [disk[f] EXCEPT !.body = @ \union {m}] \in Text
                BY <4>1 DEF Text
            <4> QED
                BY <4>2, ValuesOK
        <3> QED
            BY <2>1, <3>1 DEF Writes, Named, NamedNext, Present
    <2>2. CASE \E m \in Marks : Writes(f, [body |-> {m}, links |-> {}]) /\ removed' = removed
        <3>1. \A m \in Marks : [body |-> {m}, links |-> {}] # Absent
            BY ValuesOK DEF Text
        <3> QED
            BY <2>2, <3>1 DEF Writes, Named, NamedNext, Present
    <2>3. CASE Writes(f, Absent) /\ removed' = removed \union {f}
        BY <2>3 DEF Writes, Named, NamedNext, Present
    <2> QED
        BY <1>4, <2>1, <2>2, <2>3 DEF Disturbs
<1>5. ASSUME NEW s \in Servers, NEW f \in Files, NEW d \in Draft, Edits(s, f, d)
      PROVE  UNCHANGED <<stored, removed>>
    BY <1>5 DEF Edits
<1>6. ASSUME NEW s \in Servers, EditNew(s)
      PROVE  UNCHANGED <<stored, removed>>
    BY <1>5, <1>6, EditNewOK DEF Request
<1>7. ASSUME NEW s \in Servers, Calm(s)
      PROVE  UNCHANGED <<stored, removed>>
    BY <1>7 DEF Calm, seen
<1> QED
    BY <1>1, <1>2, <1>3, <1>4, <1>5, <1>6, <1>7, Cases DEF vars

\* The links of a draft lead to what was there or what it creates first.
LinksOf(d) ==
    d # NoDraft => \A g \in d.links : Named(g) \/ g \in ToSet(d.created)

LEMMA LinksInit == Init => LinksInv
<1> SUFFICES ASSUME Init PROVE LinksInv
    OBVIOUS
<1>1. \A f \in Files : Present(f) => disk[f].links = {}
    BY DEF Init, Present
<1>2. \A s \in Servers : job[s].step = "none"
    BY DEF Init, Idle
<1>3. \A s \in Servers, f \in Files : draft[s][f] = NoDraft
    BY DEF Init
<1> QED
    BY <1>1, <1>2, <1>3 DEF LinksInv, NoDanglingLink

LEMMA LinksStep == TypeOK /\ RenameOK /\ LinksInv /\ [Next]_vars => LinksInv'
<1> SUFFICES ASSUME TypeOK, RenameOK, LinksInv, [Next]_vars PROVE LinksInv'
    OBVIOUS
<1>1. /\ draft \in Drafts /\ job \in Jobs /\ disk \in [Files -> {Absent} \union Text]
      /\ \A g \in Files : Named(g) => NamedNext(g)
    BY NamedStays DEF TypeOK, Drafts, Jobs, Request
<1>2. /\ \A f \in Files : Present(f) => disk[f] \in Text /\ \A g \in disk[f].links : g \in Files /\ Named(g)
      /\ \A s \in Servers : job[s].step # "none" =>
             /\ job[s] \in Request /\ Named(job[s].file)
             /\ \A g \in job[s].data.links : g \in Files /\ Named(g)
      /\ \A s \in Servers, f \in Files : LinksOf(draft[s][f])
    <2>1. \A f \in Files : Present(f) => disk[f] \in Text
        BY <1>1 DEF Present
    <2>2. \A s \in Servers : job[s].step # "none" => job[s] \in Request
        BY <1>1 DEF Jobs, Idle
    <2>3. \A s \in Servers, f \in Files : LinksOf(draft[s][f])
        BY DEF LinksInv, LinksOf, Queued
    <2> QED
        BY <2>1, <2>2, <2>3 DEF LinksInv, NoDanglingLink, Named, Text, Request
<1>3. ASSUME \A f \in Files : disk'[f] # Absent => \A g \in disk'[f].links : NamedNext(g),
             \A s \in Servers : job'[s].step # "none" =>
                 NamedNext(job'[s].file) /\ \A g \in job'[s].data.links : NamedNext(g),
             \A s \in Servers, f \in Files : LinksOf(draft[s][f])'
      PROVE  LinksInv'
    BY <1>3 DEF LinksInv, NoDanglingLink, Present, LinksOf, Queued, Named, NamedNext
\* What stays the same stays good.
<1>4. ASSUME disk' = disk
      PROVE  \A f \in Files : disk'[f] # Absent => \A g \in disk'[f].links : NamedNext(g)
    BY <1>1, <1>2, <1>4 DEF Present
<1>5. ASSUME NEW s \in Servers, job'[s].step # "none", job[s].step # "none",
             job'[s].file = job[s].file, job'[s].data = job[s].data
      PROVE  NamedNext(job'[s].file) /\ \A g \in job'[s].data.links : NamedNext(g)
    <2>1. job[s].file \in Files
        BY <1>2, <1>5 DEF Request
    <2> QED
        BY <1>1, <1>2, <1>5, <2>1
<1>6. ASSUME NEW s \in Servers, NEW f \in Files, Same(draft'[s][f], draft[s][f])
      PROVE  LinksOf(draft[s][f])'
    <2>1. draft[s][f] # NoDraft => draft[s][f].links \subseteq Files
        BY <1>1 DEF Drafts, Draft
    <2> QED
        BY <1>1, <1>2, <1>6, <2>1 DEF Same, LinksOf, Named, NamedNext, Present
<1>7. CASE UNCHANGED vars
    BY <1>3, <1>4, <1>5, <1>6, <1>7 DEF vars, Same
<1>8. ASSUME NEW s \in Servers, NEW f \in Files, NEW d \in Draft, Edits(s, f, d), LinksOf(d)
      PROVE  LinksInv'
    <2>1. LinksOf(draft[s][f])'
        <3> SUFFICES ASSUME NEW g \in draft'[s][f].links
                     PROVE  NamedNext(g) \/ g \in ToSet(draft'[s][f].created)
            BY DEF LinksOf, Named, NamedNext, Present
        <3>1. g \in Files
            BY <1>8 DEF Edits, Draft
        <3>2. ToSet(d.created) \subseteq ToSet(draft'[s][f].created)
            <4>1. d.created \in Seq(NewFiles)
                BY DEF Draft
            <4>2. \A h \in NewFiles : ToSet(d.created) \subseteq ToSet(Append(d.created, h))
                BY <4>1, AppendOK
            <4> QED
                BY <1>8, <4>2 DEF Edits
        <3>3. d # NoDraft
            BY ValuesOK
        <3> QED
            BY <1>1, <1>8, <3>1, <3>2, <3>3 DEF Edits, LinksOf
    <2>2. \A t \in Servers, g \in Files : LinksOf(draft[t][g])'
        <3> TAKE t \in Servers, g \in Files
        <3>1. CASE t = s /\ g = f
            BY <2>1, <3>1
        <3>2. CASE t # s \/ g # f
            BY <1>6, <1>8, <3>2 DEF Edits, Same
        <3> QED
            BY <3>1, <3>2
    <2>3. \A t \in Servers : job'[t].step # "none" =>
              NamedNext(job'[t].file) /\ \A g \in job'[t].data.links : NamedNext(g)
        BY <1>5, <1>8 DEF Edits
    <2> QED
        BY <1>3, <1>4, <1>8, <2>2, <2>3 DEF Edits
<1>9. ASSUME NEW s \in Servers, EditNew(s)
      PROVE  LinksInv'
    <2>1. /\ job[s].step = "stat" /\ job[s].file \in Files /\ Begun(job[s].data) \in Draft
          /\ Edits(s, job[s].file, Begun(job[s].data))
        BY <1>9, EditNewOK DEF Request
    <2>2. LinksOf(Begun(job[s].data))
        BY <1>2, <2>1 DEF LinksOf, Begun
    <2> QED
        BY <1>8, <2>1, <2>2
<1>10. ASSUME NEW s \in Servers, Calm(s)
       PROVE  LinksInv'
    <2>1. \A t \in Servers, g \in Files : LinksOf(draft[t][g])'
        <3> TAKE t \in Servers, g \in Files
        <3>1. CASE draft'[t][g] = NoDraft
            BY <3>1 DEF LinksOf
        <3>2. CASE draft'[t][g] = draft[t][g]
            BY <1>6, <3>2 DEF Same
        <3> QED
            BY <1>10, <3>1, <3>2 DEF Calm
    <2>2. ASSUME job'[s].step \in {"stat", "check"},
                 Present(job'[s].file), job'[s].data = disk[job'[s].file], disk' = disk
          PROVE  NamedNext(job'[s].file) /\ \A g \in job'[s].data.links : NamedNext(g)
        <3>1. job'[s].file \in Files
            BY <1>10, <2>2 DEF Calm, Jobs, Request, Idle
        <3> QED
            BY <1>1, <1>2, <2>2, <3>1 DEF Named, NamedNext, Present
    <2>3. \A t \in Servers : job'[t].step # "none" =>
              NamedNext(job'[t].file) /\ \A g \in job'[t].data.links : NamedNext(g)
        <3> SUFFICES ASSUME NEW t \in Servers, job'[t].step # "none"
                     PROVE  NamedNext(job'[t].file) /\ \A g \in job'[t].data.links : NamedNext(g)
            OBVIOUS
        <3>1. CASE t # s
            BY <1>5, <1>10, <3>1 DEF Calm
        <3>2. CASE t = s /\ GoesOn(s)
            BY <1>5, <3>2 DEF GoesOn
        <3>3. CASE t = s /\ ~GoesOn(s)
            BY <1>10, <2>2, <3>3 DEF Calm
        <3> QED
            BY <3>1, <3>2, <3>3
    <2> QED
        BY <1>3, <1>4, <1>10, <2>1, <2>3 DEF Calm
<1>11. ASSUME NEW s \in Servers, NEW step \in {"write", "rebuild"}, job[s].step # "none", Go(s, step)
       PROVE  \A t \in Servers : job'[t].step # "none" =>
                  NamedNext(job'[t].file) /\ \A g \in job'[t].data.links : NamedNext(g)
    BY <1>5, <1>11, GoOK DEF Steps
<1>12. ASSUME NEW s \in Servers, Creates(s)
       PROVE  LinksInv'
    <2> DEFINE g == Head(Own(s).created)
               f == job[s].file
    <2>1. /\ f \in Files /\ g \in Files /\ Own(s) = draft[s][f] /\ Own(s) \in Draft
          /\ ToSet(Own(s).created) = ToSet(Tail(Own(s).created)) \union {g}
        <3>1. Own(s) = draft[s][f]
            BY DEF Own
        <3>2. Own(s).created \in Seq(NewFiles) /\ Own(s).created # <<>> /\ f \in Files
            BY <1>12 DEF Creates, Draft
        <3> QED
            BY <1>12, <3>1, <3>2, TailOK DEF Creates, Files
    <2>2. NamedNext(g)
        <3>1. NewEntity # Absent
            BY ValuesOK DEF NewEntity, Text
        <3> QED
            BY <1>12, <3>1 DEF Creates, Writes, NamedNext
    <2>3. \A t \in Servers, h \in Files : LinksOf(draft[t][h])'
        <3> TAKE t \in Servers, h \in Files
        <3>1. CASE t = s /\ h = f
            <4>1. Same(draft'[s][f], [Own(s) EXCEPT !.created = Tail(@)])
                BY <1>12 DEF Creates
            <4>2. /\ draft'[s][f].links = Own(s).links
                  /\ draft'[s][f].created = Tail(Own(s).created)
                <5>1. [Own(s) EXCEPT !.created = Tail(@)].created = Tail(Own(s).created)
                      /\ [Own(s) EXCEPT !.created = Tail(@)].links = Own(s).links
                      /\ [Own(s) EXCEPT !.created = Tail(@)] \in Draft
                    BY <1>12, <2>1, TailOK DEF Draft, Creates
                <5> QED
                    BY <4>1, <5>1, ValuesOK DEF Same
            <4>3. LinksOf(Own(s)) /\ Own(s) # NoDraft /\ Own(s).links \subseteq Files
                BY <1>2, <1>12, <2>1 DEF Creates, Draft
            <4> SUFFICES ASSUME NEW l \in draft'[s][f].links
                         PROVE  NamedNext(l) \/ l \in ToSet(draft'[s][f].created)
                BY <3>1 DEF LinksOf, Named, NamedNext, Present
            <4>4. l \in Files /\ (Named(l) \/ l = g \/ l \in ToSet(Tail(Own(s).created)))
                BY <2>1, <4>2, <4>3 DEF LinksOf
            <4> QED
                BY <1>1, <2>2, <4>2, <4>4
        <3>2. CASE t # s \/ h # f
            BY <1>6, <1>12, <3>2 DEF Creates
        <3> QED
            BY <3>1, <3>2
    <2>4. \A h \in Files : disk'[h] # Absent => \A l \in disk'[h].links : NamedNext(l)
        <3>1. NewEntity.links = {}
            BY DEF NewEntity
        <3> QED
            BY <1>1, <1>2, <1>12, <3>1 DEF Creates, Writes, Present
    <2> QED
        BY <1>3, <1>11, <1>12, <2>3, <2>4 DEF Creates
<1>13. ASSUME NEW s \in Servers, Replaces(s)
       PROVE  LinksInv'
    <2> DEFINE f == job[s].file
    <2>1. f \in Files /\ Own(s) = draft[s][f] /\ Own(s) \in Draft /\ Own(s) # NoDraft
        BY <1>13 DEF Replaces, Own, Request
    <2>2. \A l \in Bytes(Own(s)).links : NamedNext(l)
        <3>1. LinksOf(Own(s)) /\ Own(s).created = <<>> /\ Own(s).links \subseteq Files
            BY <1>2, <1>13, <2>1 DEF Replaces, Draft
        <3> QED
            BY <1>1, <2>1, <3>1, NoneWaiting DEF LinksOf, Bytes
    <2>3. \A h \in Files : disk'[h] # Absent => \A l \in disk'[h].links : NamedNext(l)
        BY <1>1, <1>2, <1>13, <2>2 DEF Replaces, Writes, Present
    <2> QED
        BY <1>3, <1>6, <1>11, <1>13, <2>3 DEF Replaces, SameDrafts
<1>14. ASSUME NEW f \in Files, Disturbs(f)
       PROVE  LinksInv'
    <2>1. ASSUME disk'[f] # Absent PROVE \A l \in disk'[f].links : NamedNext(l)
        <3>1. CASE Present(f) /\ \E m \in Marks : Writes(f, [disk[f] EXCEPT !.body = @ \union {m}])
            BY <1>1, <1>2, <3>1 DEF Writes, Text
        <3>2. CASE \E m \in Marks : Writes(f, [body |-> {m}, links |-> {}])
            BY <3>2 DEF Writes
        <3>3. CASE Writes(f, Absent)
            BY <2>1, <3>3 DEF Writes
        <3> QED
            BY <1>14, <3>1, <3>2, <3>3 DEF Disturbs
    <2>2. \A h \in Files \ {f} : disk'[h] = disk[h]
        BY <1>14 DEF Disturbs, Writes
    <2>3. \A h \in Files : disk'[h] # Absent => \A l \in disk'[h].links : NamedNext(l)
        BY <1>1, <1>2, <2>1, <2>2 DEF Present
    <2> QED
        BY <1>3, <1>5, <1>6, <1>14, <2>3 DEF Disturbs, SameDrafts
<1> QED
    BY <1>2, <1>7, <1>8, <1>9, <1>10, <1>12, <1>13, <1>14, Cases

\* No link on disk names a missing file that no other program removed, at any
\* point of any save, failure or crash (commit in save.go).
THEOREM LinksAlways == Spec => []NoDanglingLink
<1>1. LinksInv => NoDanglingLink
    BY DEF LinksInv
<1> QED
    BY KindInit, KindStep, LinksInit, LinksStep, <1>1, PTL DEF Spec

-----------------------------------------------------------------------------
(***************************************************************************)
(* Created entities.                                                       *)
(***************************************************************************)
LEMMA CreatedInit == Init => CreatedInv
<1> SUFFICES ASSUME Init PROVE CreatedInv
    OBVIOUS
<1>1. \A s \in Servers, f \in Files : draft[s][f] = NoDraft
    BY DEF Init
<1>2. \A s \in Servers : job[s].step = "none"
    BY DEF Init, Idle
<1> QED
    BY <1>1, <1>2 DEF CreatedInv, RetryNotBlocked, Queued

QueuedNext(s, f) == IF draft'[s][f] = NoDraft THEN {} ELSE ToSet(draft'[s][f].created)

\* Nothing is added to what waits.
LEMMA NoneAdded ==
    ASSUME CreatedInv, ids \subseteq ids', foreign \subseteq foreign',
           \A t \in Servers, h \in Files :
               /\ QueuedNext(t, h) \subseteq Queued(t, h)
               /\ draft'[t][h] # NoDraft => Once(draft'[t][h].created),
           \A t \in Servers, h \in Files : \A g \in QueuedNext(t, h) :
               disk'[g] # Absent => Present(g) \/ g \in foreign',
           \A t \in Servers :
               job'[t].step # "none" => \/ job[t].step # "none" /\ job'[t].file = job[t].file
                                        \/ Present(job'[t].file)
    PROVE  CreatedInv'
<1>1. \A t \in Servers, h \in Files : \A g \in Queued(t, h) : Present(g) => g \in foreign
    BY DEF CreatedInv, RetryNotBlocked, Queued
<1>2. RetryNotBlocked'
    BY <1>1 DEF RetryNotBlocked, QueuedNext, Present
<1>3. \A t, u \in Servers, h \in Files :
          job'[t].step # "none" /\ job'[t].file \in QueuedNext(u, h) => job'[t].file \in foreign'
    BY <1>1 DEF CreatedInv
<1>4. \A t \in Servers, h \in Files : QueuedNext(t, h) \subseteq ids'
    BY DEF CreatedInv
<1>5. \A t, u \in Servers, h, i \in Files :
          QueuedNext(t, h) \cap QueuedNext(u, i) # {} => t = u /\ h = i
    BY DEF CreatedInv
<1>6. \A t \in Servers, h \in Files : Queued(t, h)' = QueuedNext(t, h)
    BY DEF Queued, QueuedNext
<1> HIDE DEF QueuedNext
<1> QED
    BY <1>2, <1>3, <1>4, <1>5, <1>6 DEF CreatedInv

LEMMA CreatedStep == TypeOK /\ RenameOK /\ LinksInv /\ CreatedInv /\ [Next]_vars => CreatedInv'
<1> SUFFICES ASSUME TypeOK, RenameOK, LinksInv, CreatedInv, [Next]_vars PROVE CreatedInv'
    OBVIOUS
<1>1. /\ draft \in Drafts /\ job \in Jobs /\ disk \in [Files -> {Absent} \union Text]
      /\ ids \subseteq NewFiles /\ foreign \subseteq ids
    BY DEF TypeOK, Drafts, Jobs, Request
<1>2. \A s \in Servers, f \in Files :
          Same(draft'[s][f], draft[s][f]) =>
              /\ QueuedNext(s, f) = Queued(s, f)
              /\ draft'[s][f] # NoDraft => Once(draft'[s][f].created)
    BY DEF Same, Queued, QueuedNext, CreatedInv
<1>3. CASE UNCHANGED vars
    BY <1>2, <1>3, NoneAdded DEF vars, Same, Present
<1>4. ASSUME NEW s \in Servers, NEW f \in Files, NEW d \in Draft, Edits(s, f, d),
             ToSet(d.created) \subseteq Queued(s, f), Once(d.created)
      PROVE  CreatedInv'
    <2>1. /\ disk' = disk /\ foreign' = foreign /\ ids \subseteq ids'
          /\ \A t \in Servers, h \in Files : t # s \/ h # f => Same(draft'[t][h], draft[t][h])
          /\ \A t \in Servers : job'[t].step # "none" => t # s /\ job'[t] = job[t]
        BY <1>4 DEF Edits, Same
    <2>2. d.created \in Seq(NewFiles) /\ draft'[s][f] # NoDraft
        BY <1>4, ValuesOK DEF Draft, Edits
    <2>3. CASE draft'[s][f].created = d.created
        <3>1. QueuedNext(s, f) \subseteq Queued(s, f) /\ Once(draft'[s][f].created)
            BY <1>4, <2>2, <2>3 DEF QueuedNext
        <3>2. ASSUME NEW t \in Servers, NEW h \in Files
              PROVE  /\ QueuedNext(t, h) \subseteq Queued(t, h)
                     /\ draft'[t][h] # NoDraft => Once(draft'[t][h].created)
            BY <1>2, <2>1, <3>1
        <3> QED
            BY <2>1, <3>2, NoneAdded DEF Present
    <2>4. ASSUME NEW g \in NewFiles \ (ids \union removed), ~Present(g),
                 draft'[s][f].created = Append(d.created, g), ids' = ids \union {g}
          PROVE  CreatedInv'
        <3>1. /\ QueuedNext(s, f) = ToSet(d.created) \union {g}
              /\ g \notin ToSet(d.created) => Once(draft'[s][f].created)
            BY <1>4, <2>2, <2>4, AppendOK DEF QueuedNext
        <3>2. \A t \in Servers, h \in Files : g \notin Queued(t, h) /\ Queued(t, h) \subseteq ids
            BY <2>4 DEF CreatedInv
        <3>3. ASSUME NEW t \in Servers, NEW h \in Files
              PROVE  IF t = s /\ h = f THEN QueuedNext(t, h) \subseteq Queued(t, h) \union {g}
                     ELSE QueuedNext(t, h) = Queued(t, h)
            BY <1>2, <1>4, <2>1, <3>1
        <3>4. ASSUME NEW t \in Servers, NEW h \in Files
              PROVE  /\ QueuedNext(t, h) \subseteq ids'
                     /\ draft'[t][h] # NoDraft => Once(draft'[t][h].created)
            <4>1. QueuedNext(t, h) \subseteq ids'
                BY <2>4, <3>2, <3>3
            <4>2. CASE t = s /\ h = f
                <5>1. g \notin ToSet(d.created)
                    BY <1>4, <3>2
                <5> QED
                    BY <3>1, <4>1, <4>2, <5>1
            <4>3. CASE t # s \/ h # f
                BY <1>2, <2>1, <4>1, <4>3
            <4> QED
                BY <4>2, <4>3
        <3>5. ASSUME NEW t \in Servers, NEW u \in Servers, NEW h \in Files, NEW i \in Files,
                     QueuedNext(t, h) \cap QueuedNext(u, i) # {}
              PROVE  t = u /\ h = i
            BY <3>2, <3>3, <3>5 DEF CreatedInv
        <3>6. \A t \in Servers, h \in Files : \A l \in QueuedNext(t, h) :
                  disk'[l] # Absent => l \in foreign'
            <4>1. \A t \in Servers, h \in Files : \A l \in Queued(t, h) : Present(l) => l \in foreign
                BY DEF CreatedInv, RetryNotBlocked, Queued
            <4> QED
                BY <2>1, <2>4, <3>3, <4>1 DEF Present
        <3>7. ASSUME NEW t \in Servers, NEW u \in Servers, NEW h \in Files,
                     job'[t].step # "none", job'[t].file \in QueuedNext(u, h)
              PROVE  job'[t].file \in foreign'
            <4>1. job'[t] = job[t] /\ job[t].file # g
                BY <2>1, <2>4, <3>7 DEF LinksInv, Named
            <4> QED
                BY <2>1, <3>3, <3>7, <4>1 DEF CreatedInv
        <3>8. RetryNotBlocked'
            BY <3>6 DEF RetryNotBlocked, QueuedNext, Present
        <3>9. \A t \in Servers, h \in Files : Queued(t, h)' = QueuedNext(t, h)
            BY DEF Queued, QueuedNext
        <3> HIDE DEF QueuedNext
        <3> QED
            BY <3>4, <3>5, <3>7, <3>8, <3>9 DEF CreatedInv
    <2> QED
        BY <1>4, <2>3, <2>4 DEF Edits
<1>5. ASSUME NEW s \in Servers, NEW f \in Files, draft[s][f] # NoDraft, draft[s][f] \in Draft,
             Edits(s, f, draft[s][f])
      PROVE  CreatedInv'
    <2>1. ToSet(draft[s][f].created) = Queued(s, f) /\ Once(draft[s][f].created)
        BY <1>5 DEF Queued, CreatedInv
    <2> QED
        BY <1>4, <1>5, <2>1
<1>6. ASSUME NEW s \in Servers, EditNew(s)
      PROVE  CreatedInv'
    <2>1. /\ job[s].file \in Files /\ Begun(job[s].data) \in Draft
          /\ Edits(s, job[s].file, Begun(job[s].data))
        BY <1>6, EditNewOK DEF Request
    <2>2. ToSet(Begun(job[s].data).created) = {} /\ Once(Begun(job[s].data).created)
        BY NoneWaiting DEF Begun, Once
    <2> QED
        BY <1>4, <2>1, <2>2
<1>7. ASSUME NEW s \in Servers, Calm(s)
      PROVE  CreatedInv'
    <2>1. /\ disk' = disk /\ ids' = ids /\ foreign' = foreign
          /\ \A t \in Servers \ {s} : job'[t] = job[t]
        BY <1>7 DEF Calm, seen
    <2>2. ASSUME NEW t \in Servers, NEW h \in Files
          PROVE  /\ QueuedNext(t, h) \subseteq Queued(t, h)
                 /\ draft'[t][h] # NoDraft => Once(draft'[t][h].created)
        BY <1>7 DEF Calm, QueuedNext, Queued, CreatedInv
    <2>3. job'[s].step # "none" => \/ job[s].step # "none" /\ job'[s].file = job[s].file
                                   \/ Present(job'[s].file)
        BY <1>7 DEF Calm, GoesOn
    <2> QED
        BY <2>1, <2>2, <2>3, NoneAdded DEF Present
<1>8. ASSUME NEW s \in Servers, Creates(s)
      PROVE  CreatedInv'
    <2> DEFINE g == Head(Own(s).created)
               f == job[s].file
    <2>1. /\ f \in Files /\ Own(s) = draft[s][f] /\ Own(s) # NoDraft /\ Own(s) \in Draft
          /\ Own(s).created \in Seq(NewFiles) /\ Own(s).created # <<>>
        BY <1>8 DEF Creates, Own, Draft
    <2>2. /\ ToSet(Own(s).created) = ToSet(Tail(Own(s).created)) \union {g}
          /\ g \notin ToSet(Tail(Own(s).created)) /\ Once(Tail(Own(s).created))
        <3>1. Once(Own(s).created)
            BY <2>1 DEF CreatedInv
        <3> QED
            BY <2>1, <3>1, TailOK
    <2>3. draft'[s][f] # NoDraft /\ draft'[s][f].created = Tail(Own(s).created)
        <3>1. Same(draft'[s][f], [Own(s) EXCEPT !.created = Tail(@)])
            BY <1>8 DEF Creates
        <3>2. /\ [Own(s) EXCEPT !.created = Tail(@)].created = Tail(Own(s).created)
              /\ [Own(s) EXCEPT !.created = Tail(@)] \in Draft
            BY <2>1, TailOK DEF Draft
        <3> QED
            BY <3>1, <3>2, ValuesOK DEF Same
    <2>4. QueuedNext(s, f) \subseteq Queued(s, f) /\ g \notin QueuedNext(s, f) /\ g \in Queued(s, f)
        BY <2>1, <2>2, <2>3 DEF Queued, QueuedNext
    <2>5. ASSUME NEW t \in Servers, NEW h \in Files
          PROVE  /\ QueuedNext(t, h) \subseteq Queued(t, h) \ {g}
                 /\ draft'[t][h] # NoDraft => Once(draft'[t][h].created)
        <3>1. CASE t = s /\ h = f
            BY <2>2, <2>3, <2>4, <3>1
        <3>2. CASE t # s \/ h # f
            <4>1. Same(draft'[t][h], draft[t][h])
                BY <1>8, <3>2 DEF Creates
            <4>2. g \notin Queued(t, h)
                BY <2>1, <2>4, <3>2 DEF CreatedInv
            <4> QED
                BY <1>2, <4>1, <4>2
        <3> QED
            BY <3>1, <3>2
    <2>6. ids' = ids /\ foreign' = foreign /\ \A h \in Files \ {g} : disk'[h] = disk[h]
        BY <1>8 DEF Creates, Writes, seen
    <2>7. ASSUME NEW t \in Servers, NEW h \in Files, NEW l \in QueuedNext(t, h), disk'[l] # Absent
          PROVE  Present(l)
        <3>1. l \in Files /\ l # g
            BY <1>1, <2>5 DEF CreatedInv, Files
        <3> QED
            BY <2>6, <2>7, <3>1 DEF Present
    <2>8. \A t \in Servers : job'[t].step # "none" => job[t].step # "none" /\ job'[t].file = job[t].file
        BY <1>8, GoOK DEF Creates, Steps
    <2> QED
        BY <2>5, <2>6, <2>7, <2>8, NoneAdded
<1>9. ASSUME NEW s \in Servers, Replaces(s)
      PROVE  CreatedInv'
    <2> DEFINE f == job[s].file
    <2>1. ids' = ids /\ foreign' = foreign /\ \A h \in Files \ {f} : disk'[h] = disk[h]
        BY <1>9 DEF Replaces, Writes, seen
    <2>2. \A t \in Servers, h \in Files : f \in Queued(t, h) => f \in foreign
        BY <1>9 DEF Replaces, CreatedInv
    <2>3. ASSUME NEW t \in Servers, NEW h \in Files
          PROVE  /\ QueuedNext(t, h) = Queued(t, h) /\ Queued(t, h) \subseteq Files
                 /\ draft'[t][h] # NoDraft => Once(draft'[t][h].created)
        <3>1. Same(draft'[t][h], draft[t][h])
            BY <1>9 DEF Replaces, SameDrafts
        <3> QED
            BY <1>1, <1>2, <3>1 DEF CreatedInv, Files
    <2>4. \A t \in Servers, h \in Files : \A l \in QueuedNext(t, h) :
              disk'[l] # Absent => Present(l) \/ l \in foreign'
        BY <2>1, <2>2, <2>3 DEF Present
    <2>5. \A t \in Servers : job'[t].step # "none" => job[t].step # "none" /\ job'[t].file = job[t].file
        BY <1>9, GoOK DEF Replaces, Steps
    <2> QED
        BY <2>1, <2>3, <2>4, <2>5, NoneAdded
<1>10. ASSUME NEW f \in Files, Disturbs(f)
       PROVE  CreatedInv'
    <2>1. /\ ids' = ids /\ foreign \subseteq foreign' /\ job' = job
          /\ \A h \in Files \ {f} : disk'[h] = disk[h]
          /\ disk'[f] # Absent => Present(f) \/ f \in foreign'
        BY <1>10 DEF Disturbs, Writes
    <2>2. ASSUME NEW t \in Servers, NEW h \in Files
          PROVE  /\ QueuedNext(t, h) = Queued(t, h) /\ Queued(t, h) \subseteq Files
                 /\ draft'[t][h] # NoDraft => Once(draft'[t][h].created)
        <3>1. Same(draft'[t][h], draft[t][h])
            BY <1>10 DEF Disturbs, SameDrafts
        <3> QED
            BY <1>1, <1>2, <3>1 DEF CreatedInv, Files
    <2>3. \A t \in Servers, h \in Files : \A l \in QueuedNext(t, h) :
              disk'[l] # Absent => Present(l) \/ l \in foreign'
        BY <2>1, <2>2 DEF Present
    <2> QED
        BY <2>1, <2>2, <2>3, NoneAdded
<1> QED
    BY <1>3, <1>5, <1>6, <1>7, <1>8, <1>9, <1>10, Cases

\* A save that stopped part-way finds none of its created entities on disk by
\* the editor's own doing, so its retry is not refused (commit in save.go).
THEOREM RetryAlways == Spec => []RetryNotBlocked
<1>1. CreatedInv => RetryNotBlocked
    BY DEF CreatedInv
<1> QED
    BY KindInit, KindStep, LinksInit, LinksStep, CreatedInit, CreatedStep, <1>1, PTL DEF Spec

-----------------------------------------------------------------------------
(***************************************************************************)
(* Prose, from pages of any age and with writers between any two steps of  *)
(* a save.                                                                 *)
(***************************************************************************)
LEMMA ProseInit == Init => ProseInv
<1> SUFFICES ASSUME Init PROVE ProseInv
    OBVIOUS
<1>1. \A s \in Servers, f \in Files : draft[s][f] = NoDraft
    BY DEF Init
<1>2. \A s \in Servers : job[s].step = "none"
    BY DEF Init, Idle
<1> QED
    BY <1>1, <1>2 DEF ProseInv

\* ProseInv of the save with job j of a server whose drafts are ds, when the
\* disk is k, r is what was removed and l what was put out.
SaveAt(j, ds, k, r, l) ==
    /\ j.step \in {"check", "files", "write", "rename"} /\ j.file \notin r =>
           k[j.file] # Absent /\ j.data.body \subseteq k[j.file].body \union l
    /\ j.step \in {"files", "write", "rename"} =>
           ds[j.file] # NoDraft /\ ds[j.file].base = j.data
    /\ j.step = "rebuild" /\ j.file \notin r =>
           /\ ds[j.file] # NoDraft /\ k[j.file] # Absent
           /\ Bytes(ds[j.file]).body \subseteq k[j.file].body \union l

LEMMA ProseParts ==
    /\ ProseInv <=> \A s \in Servers : SaveAt(job[s], draft[s], disk, removed, lost)
    /\ ProseInv' <=> \A s \in Servers : SaveAt(job'[s], draft'[s], disk', removed', lost')
BY DEF ProseInv, SaveAt, Own, Present, Bytes

\* A write accounts for what it puts out of a file: the file is gone by
\* another program's hand, or the marks it held are in it or lost.
Accounted ==
    /\ removed \subseteq removed' /\ lost \subseteq lost'
    /\ \A f \in Files : disk[f] # Absent /\ f \notin removed' =>
           disk'[f] # Absent /\ disk[f].body \subseteq disk'[f].body \union lost'

\* A save goes on over such a write that leaves its draft as it is.
LEMMA SaveStays ==
    ASSUME NEW j \in Request, NEW ds \in [Files -> {NoDraft} \union Draft],
           SaveAt(j, ds, disk, removed, lost), Accounted, NEW es,
           \A f \in Files : Same(es[f], ds[f])
    PROVE  SaveAt(j, es, disk', removed', lost')
<1>1. j.file \in Files /\ Same(es[j.file], ds[j.file])
    BY DEF Request
<1>2. es[j.file] # NoDraft => Bytes(es[j.file]) = Bytes(ds[j.file])
    BY <1>1 DEF Same, Bytes
<1>3. ASSUME j.file \notin removed', disk[j.file] # Absent
      PROVE  /\ j.file \notin removed /\ disk'[j.file] # Absent
             /\ \A S : S \subseteq disk[j.file].body \union lost => S \subseteq disk'[j.file].body \union lost'
    BY <1>1, <1>3 DEF Accounted
<1>4. j.file \notin removed' => j.file \notin removed
    BY DEF Accounted
<1>5. j.step \in {"check", "files", "write", "rename"} /\ j.file \notin removed' =>
          disk'[j.file] # Absent /\ j.data.body \subseteq disk'[j.file].body \union lost'
    BY <1>3, <1>4 DEF SaveAt
<1>6. j.step \in {"files", "write", "rename"} => es[j.file] # NoDraft /\ es[j.file].base = j.data
    BY <1>1 DEF SaveAt, Same
<1>7. j.step = "rebuild" /\ j.file \notin removed' =>
          /\ es[j.file] # NoDraft /\ disk'[j.file] # Absent
          /\ Bytes(es[j.file]).body \subseteq disk'[j.file].body \union lost'
    BY <1>1, <1>2, <1>3, <1>4 DEF SaveAt, Same
<1> QED
    BY <1>5, <1>6, <1>7 DEF SaveAt

LEMMA WriteAccounts ==
    ASSUME NEW f \in Files, NEW t, t # Absent, Writes(f, t), removed \subseteq removed'
    PROVE  Accounted
<1>1. lost' = lost \union (Prose(f) \ t.body)
    BY DEF Writes
<1>2. disk[f] # Absent => disk'[f] = t /\ disk[f].body \subseteq t.body \union lost'
    BY <1>1 DEF Writes, Prose, Present
<1> QED
    BY <1>1, <1>2 DEF Accounted, Writes

LEMMA ProseStep ==
    ASSUME TypeOK, RenameOK, ProseInv, [Next]_vars
    PROVE  ProseInv' /\ ProseKept
<1>1. /\ draft \in Drafts /\ job \in Jobs /\ disk \in [Files -> {Absent} \union Text]
      /\ \A s \in Servers : /\ draft[s] \in [Files -> {NoDraft} \union Draft]
                            /\ job[s].step # "none" => job[s] \in Request
    BY DEF TypeOK, Drafts, Jobs, Request, Idle
<1>2. \A s \in Servers : SaveAt(job[s], draft[s], disk, removed, lost)
    BY ProseParts
<1>3. ASSUME \A s \in Servers : SaveAt(job'[s], draft'[s], disk', removed', lost')
      PROVE  ProseInv'
    BY <1>3, ProseParts
<1>4. \A j, ds, k, r, l : j.step \in {"none", "stat"} => SaveAt(j, ds, k, r, l)
    BY DEF SaveAt
<1>5. disk' = disk => ProseKept
    BY DEF ProseKept
<1>6. CASE UNCHANGED vars
    BY <1>2, <1>3, <1>5, <1>6 DEF vars
<1>7. ASSUME NEW s \in Servers, NEW f \in Files, NEW d \in Draft, Edits(s, f, d)
      PROVE  ProseInv' /\ ProseKept
    <2>1. /\ disk' = disk /\ lost' = lost /\ removed' = removed
          /\ \A t \in Servers \ {s}, g \in Files : draft'[t][g] = draft[t][g]
          /\ \A t \in Servers \ {s} : job'[t] = job[t]
          /\ job'[s].step = "none" /\ draft' \in Drafts
        BY <1>7 DEF Edits
    <2>2. ASSUME NEW t \in Servers \ {s} PROVE draft'[t] = draft[t]
        BY <1>1, <2>1 DEF Drafts
    <2>3. \A t \in Servers : SaveAt(job'[t], draft'[t], disk', removed', lost')
        BY <1>2, <1>4, <2>1, <2>2
    <2> QED
        BY <1>3, <1>5, <2>1, <2>3
<1>8. ASSUME NEW s \in Servers, EditNew(s)
      PROVE  ProseInv' /\ ProseKept
    BY <1>7, <1>8, EditNewOK DEF Request
<1>9. ASSUME NEW s \in Servers, Calm(s)
      PROVE  ProseInv' /\ ProseKept
    <2>1. /\ disk' = disk /\ lost' = lost /\ removed' = removed
          /\ \A t \in Servers \ {s} : draft'[t] = draft[t] /\ job'[t] = job[t]
        BY <1>9 DEF Calm, seen
    <2>2. SaveAt(job'[s], draft'[s], disk', removed', lost')
        <3>1. CASE job'[s].step \in {"none", "stat"}
            BY <1>4, <3>1
        <3>2. CASE /\ job'[s].step = "check" /\ job'[s].data = disk[job'[s].file]
                   /\ Present(job'[s].file)
            BY <2>1, <3>2 DEF SaveAt, Present
        <3>3. CASE GoesOn(s)
            <4>1. /\ job[s] \in Request /\ draft'[s] = draft[s] /\ Own(s) = draft[s][job[s].file]
                  /\ job'[s].file = job[s].file /\ job'[s].data = job[s].data
                  /\ SaveAt(job[s], draft[s], disk, removed, lost) /\ Own(s) # NoDraft
                BY <1>1, <1>2, <3>3 DEF GoesOn, Own
            <4>2. CASE job[s].step = "check" /\ job'[s].step = "files" /\ job[s].data = Own(s).base
                BY <2>1, <4>1, <4>2 DEF SaveAt
            <4>3. CASE job[s].step = "files" /\ job'[s].step = "write"
                BY <2>1, <4>1, <4>3 DEF SaveAt
            <4>4. CASE job[s].step = "write" /\ job'[s].step = "rename"
                BY <2>1, <4>1, <4>4 DEF SaveAt
            <4>5. CASE /\ job[s].step = "write" /\ job'[s].step = "rebuild"
                       /\ Bytes(Own(s)) = job[s].data
                BY <2>1, <4>1, <4>5 DEF SaveAt
            <4> QED
                BY <3>3, <4>2, <4>3, <4>4, <4>5 DEF GoesOn
        <3> QED
            BY <1>9, <3>1, <3>2, <3>3 DEF Calm
    <2>3. \A t \in Servers : SaveAt(job'[t], draft'[t], disk', removed', lost')
        BY <1>2, <2>1, <2>2
    <2> QED
        BY <1>3, <1>5, <2>1, <2>3
<1>10. ASSUME NEW s \in Servers, Creates(s)
       PROVE  ProseInv' /\ ProseKept
    <2> DEFINE g == Head(Own(s).created)
               f == job[s].file
    <2>1. /\ f \in Files /\ Own(s) = draft[s][f] /\ Own(s) # NoDraft /\ Own(s) \in Draft
          /\ Own(s).created \in Seq(NewFiles) /\ Own(s).created # <<>>
          /\ job[s].step = "rename" /\ SaveAt(job[s], draft[s], disk, removed, lost)
        BY <1>2, <1>10 DEF Creates, Own, Draft
    <2>2. g \in Files
        BY <2>1, TailOK DEF Files
    <2>3. \A h \in Files \ {g} : disk'[h] = disk[h]
        BY <1>10 DEF Creates, Writes
    <2>4. removed' = removed
        BY <1>10 DEF Creates, seen
    <2>5. ProseKept
        <3>1. \A m : TakesOut(s, g, m)
            BY <2>1 DEF TakesOut
        <3> QED
            BY <2>3, <3>1 DEF ProseKept
    <2>6. /\ draft'[s][f] # NoDraft /\ draft'[s][f].base = Own(s).base
        <3> DEFINE d == [Own(s) EXCEPT !.created = Tail(@)]
        <3>1. Same(draft'[s][f], d)
            BY <1>10 DEF Creates
        <3>2. d.base = Own(s).base /\ d \in Draft
            BY <2>1, TailOK DEF Draft
        <3> QED
            BY <3>1, <3>2, ValuesOK DEF Same
    <2>7. Accounted
        <3>1. NewEntity # Absent /\ Writes(g, NewEntity)
            BY <1>10, ValuesOK DEF Creates, NewEntity, Text
        <3> QED
            BY <2>2, <2>4, <3>1, WriteAccounts
    <2>8. /\ job'[s].step = "write" /\ job'[s].file = f /\ job'[s].data = job[s].data
          /\ \A t \in Servers \ {s} : job'[t] = job[t]
        BY <1>10, GoOK DEF Creates, Steps
    <2>9. SaveAt(job'[s], draft'[s], disk', removed', lost')
        <3>1. f \notin removed' =>
                  disk'[f] # Absent /\ job[s].data.body \subseteq disk'[f].body \union lost'
            BY <2>1, <2>7 DEF SaveAt, Accounted
        <3>2. Own(s).base = job[s].data
            BY <2>1 DEF SaveAt
        <3> QED
            BY <2>6, <2>8, <3>1, <3>2 DEF SaveAt
    <2>10. ASSUME NEW t \in Servers \ {s}, job[t].step \notin {"none", "stat"}
           PROVE  SaveAt(job[t], draft'[t], disk', removed', lost')
        <3>1. job[t] \in Request /\ SaveAt(job[t], draft[t], disk, removed, lost)
            BY <1>1, <1>2, <2>10
        <3>2. \A h \in Files : Same(draft'[t][h], draft[t][h])
            BY <1>10 DEF Creates
        <3> QED
            BY <1>1, <2>7, <3>1, <3>2, SaveStays
    <2>11. \A t \in Servers : SaveAt(job'[t], draft'[t], disk', removed', lost')
        BY <1>4, <2>8, <2>9, <2>10
    <2> QED
        BY <1>3, <2>5, <2>11
<1>11. ASSUME NEW s \in Servers, Replaces(s)
       PROVE  ProseInv' /\ ProseKept
    <2> DEFINE f == job[s].file
    <2>1. /\ f \in Files /\ Own(s) = draft[s][f] /\ Own(s) # NoDraft /\ Own(s) \in Draft
          /\ job[s].step = "write" /\ job[s] \in Request
          /\ SaveAt(job[s], draft[s], disk, removed, lost)
        BY <1>2, <1>11 DEF Replaces, Own, Request
    <2>2. Bytes(Own(s)) # Absent
        BY <2>1, BytesOK, ValuesOK
    <2>3. /\ disk'[f] = Bytes(Own(s)) /\ disk'[f] # Absent /\ Writes(f, Bytes(Own(s)))
          /\ \A h \in Files \ {f} : disk'[h] = disk[h]
        BY <1>11, <2>2 DEF Replaces, Writes
    <2>4. removed' = removed
        BY <1>11 DEF Replaces, seen
    <2>5. ProseKept
        <3>1. Own(s).base = job[s].data
            BY <2>1 DEF SaveAt
        <3>2. \A m : TakesOut(s, f, m)
            BY <2>1, <3>1 DEF TakesOut
        <3> QED
            BY <2>3, <3>2 DEF ProseKept
    <2>6. \A t \in Servers, h \in Files : Same(draft'[t][h], draft[t][h])
        BY <1>11 DEF Replaces, SameDrafts
    <2>7. Accounted
        BY <2>1, <2>2, <2>3, <2>4, WriteAccounts
    <2>8. /\ job'[s].step = "rebuild" /\ job'[s].file = f
          /\ \A t \in Servers \ {s} : job'[t] = job[t]
        BY <1>11, GoOK DEF Replaces, Steps
    <2>9. SaveAt(job'[s], draft'[s], disk', removed', lost')
        <3>1. draft'[s][f] # NoDraft /\ Bytes(draft'[s][f]) = Bytes(Own(s))
            BY <2>1, <2>6 DEF Same, Bytes
        <3> QED
            BY <2>3, <2>8, <3>1 DEF SaveAt
    <2>10. ASSUME NEW t \in Servers \ {s}, job[t].step \notin {"none", "stat"}
           PROVE  SaveAt(job[t], draft'[t], disk', removed', lost')
        <3>1. job[t] \in Request /\ SaveAt(job[t], draft[t], disk, removed, lost)
            BY <1>1, <1>2, <2>10
        <3> QED
            BY <1>1, <2>6, <2>7, <3>1, SaveStays
    <2>11. \A t \in Servers : SaveAt(job'[t], draft'[t], disk', removed', lost')
        BY <1>4, <2>8, <2>9, <2>10
    <2> QED
        BY <1>3, <2>5, <2>11
<1>12. ASSUME NEW f \in Files, Disturbs(f)
       PROVE  ProseInv' /\ ProseKept
    <2>1. /\ job' = job /\ removed \subseteq removed'
          /\ \A t \in Servers, h \in Files : Same(draft'[t][h], draft[t][h])
          /\ \A h \in Files \ {f} : disk'[h] = disk[h]
        BY <1>12 DEF Disturbs, SameDrafts, Writes
    <2>2. Accounted /\ (disk[f] # Absent /\ disk'[f] # Absent => disk[f].body \subseteq disk'[f].body)
        <3>1. ASSUME NEW m \in Marks, Present(f), Writes(f, [disk[f] EXCEPT !.body = @ \union {m}])
              PROVE  Accounted /\ disk[f].body \subseteq disk'[f].body
            <4>1. disk[f] \in Text
                BY <1>1, <3>1 DEF Present
            <4>2. /\ [disk[f] EXCEPT !.body = @ \union {m}] \in Text
                  /\ [disk[f] EXCEPT !.body = @ \union {m}].body = disk[f].body \union {m}
                BY <4>1 DEF Text
            <4>3. disk'[f] = [disk[f] EXCEPT !.body = @ \union {m}]
                BY <3>1 DEF Writes
            <4> QED
                BY <2>1, <3>1, <4>2, <4>3, ValuesOK, WriteAccounts
        <3>2. ASSUME NEW m \in Marks, ~Present(f), Writes(f, [body |-> {m}, links |-> {}])
              PROVE  Accounted
            <4>1. [body |-> {m}, links |-> {}] # Absent
                BY ValuesOK DEF Text
            <4> QED
                BY <2>1, <3>2, <4>1, WriteAccounts
        <3>3. ASSUME Writes(f, Absent), removed' = removed \union {f}
              PROVE  Accounted
            BY <2>1, <3>3 DEF Writes, Accounted
        <3>4. CASE Present(f) /\ \E m \in Marks : Writes(f, [disk[f] EXCEPT !.body = @ \union {m}])
            BY <3>1, <3>4
        <3>5. CASE ~Present(f) /\ \E m \in Marks : Writes(f, [body |-> {m}, links |-> {}])
            BY <3>2, <3>5 DEF Present
        <3>6. CASE Present(f) /\ Writes(f, Absent) /\ removed' = removed \union {f}
            BY <3>3, <3>6 DEF Writes
        <3> QED
            BY <1>12, <3>4, <3>5, <3>6 DEF Disturbs
    <2>3. ProseKept
        BY <2>1, <2>2 DEF ProseKept
    <2>4. ASSUME NEW t \in Servers, job[t].step \notin {"none", "stat"}
          PROVE  SaveAt(job[t], draft'[t], disk', removed', lost')
        <3>1. job[t] \in Request /\ SaveAt(job[t], draft[t], disk, removed, lost)
            BY <1>1, <1>2, <2>4
        <3> QED
            BY <1>1, <2>1, <2>2, <3>1, SaveStays
    <2>5. \A t \in Servers : SaveAt(job'[t], draft'[t], disk', removed', lost')
        BY <1>4, <2>1, <2>4
    <2> QED
        BY <1>3, <2>3, <2>5
<1>13. ASSUME NEW s \in Servers, NEW f \in Files, draft[s][f] # NoDraft, draft[s][f] \in Draft,
              Edits(s, f, draft[s][f])
       PROVE  ProseInv' /\ ProseKept
    BY <1>7, <1>13
<1> QED
    BY <1>6, <1>8, <1>9, <1>10, <1>11, <1>12, <1>13, Cases

\* From pages of any age and whoever writes meanwhile: a save puts out only
\* prose that its own draft began from and leaves out, or that came between
\* its look and its write (stampFile, commit).
THEOREM ProseAlways == Spec => NoLostProse
<1>1. /\ Init => TypeOK /\ RenameOK /\ ProseInv
      /\ TypeOK /\ RenameOK /\ ProseInv /\ [Next]_vars
             => (TypeOK /\ RenameOK /\ ProseInv)' /\ ProseKept
    BY KindInit, KindStep, ProseInit, ProseStep
<1> QED
    BY <1>1, PTL DEF Spec, NoLostProse

\* A draft is dropped as saved only with its prose on disk, or put out of the
\* file by a later write (SaveEnd of commit).
THEOREM SavedAlways == Spec => SavedIsOnDisk
<1>1. /\ Init => TypeOK /\ RenameOK /\ ProseInv
      /\ TypeOK /\ RenameOK /\ ProseInv /\ [Next]_vars
             => (TypeOK /\ RenameOK /\ ProseInv)'
    BY KindInit, KindStep, ProseInit, ProseStep
<1>2. ASSUME ProseInv
      PROVE  \A s \in Servers :
                 job[s].step = "rebuild" /\ job'[s] = Idle /\ draft'[s][job[s].file] = NoDraft
                 /\ job[s].file \notin removed =>
                     Bytes(Own(s)).body \subseteq disk[job[s].file].body \union lost
    BY <1>2 DEF ProseInv
<1> QED
    BY <1>1, <1>2, PTL DEF Spec, SavedIsOnDisk
-----------------------------------------------------------------------------
(***************************************************************************)
(* The build lock that a save's rebuild takes (BuildLock), for any set of  *)
(* writers and any number of calls.  Nothing is assumed of the writers or   *)
(* of the clock: what the exclusion needs is in the history exposed, which *)
(* an invariant ties to the two situations that can spoil it.              *)
(* BuildLock_takeover.cfg shows that the first of them does.               *)
(***************************************************************************)
\* A call that is under way has drawn its token.
CallBegun == \A w \in Writers : pc[w] # "idle" => calls[w] \in 1..MaxCalls

\* A writer between its create and its Remove owns the file at the path, and
\* the file holds its token from the moment the token is written.
HolderCreated == \A w \in Writers : pc[w] \in Holding => OnDisk /\ lock.by = Token(w)
HolderWrote ==
    \A w \in Writers : pc[w] \in Holding /\ pc[w] # "write" => lock.text = Token(w)

\* The file at the path comes from a call already begun, and never from a
\* call that still waits.
PastCall ==
    OnDisk => /\ lock.by[2] <= calls[lock.by[1]]
              /\ \A w \in Writers : pc[w] \in Waiting => lock.by # Token(w)

\* The reason a takeover is safe: a stale file's creator is gone, the file a
\* writer judges stays stale and in place, and one writer judges at a time.
StaleIsDead == OnDisk /\ lock.stale => ~Live(lock.by)
JudgedIsStale == \A w \in Writers : pc[w] \in Judging => OnDisk /\ lock.stale
SoleJudge == \A v, w \in Writers : pc[v] \in Judging /\ pc[w] \in Judging => v = w

LockInv ==
    /\ LockTypeOK /\ CallBegun
    /\ PastCall
    /\ exposed \/ (HolderCreated /\ HolderWrote /\ StaleIsDead /\ JudgedIsStale /\ SoleJudge)

-----------------------------------------------------------------------------
LEMMA LockTypeInit == LockInit => LockTypeOK /\ CallBegun
<1> SUFFICES ASSUME LockInit PROVE LockTypeOK /\ CallBegun
  OBVIOUS
<1>1. exposed \in BOOLEAN
  BY DEF LockInit
<1> QED
  BY <1>1, ConstantsOK DEF LockInit, LockTypeOK, CallBegun, Texts

LEMMA LockTypeStep == LockTypeOK /\ CallBegun /\ [LockNext]_<<lockVars, exposed>> => LockTypeOK' /\ CallBegun'
<1> SUFFICES ASSUME LockTypeOK, CallBegun, [LockNext]_<<lockVars, exposed>> PROVE LockTypeOK' /\ CallBegun'
  OBVIOUS
<1>0. exposed' \in BOOLEAN
  BY DEF LockTypeOK, LockNext
<1> USE <1>0, ConstantsOK DEF LockTypeOK, CallBegun, Waiting, Holding, Judging, Texts, Tokens, Token,
        LockFile, OnDisk, Goto
<1>1. ASSUME NEW w \in Writers, Begin(w) PROVE LockTypeOK' /\ CallBegun'
  <2>1. calls[w] + 1 \in 1..MaxCalls
    BY <1>1 DEF Begin
  <2>2. calls' \in [Writers -> 0..MaxCalls]
    BY <2>1, <1>1 DEF Begin
  <2>3. pc' \in [Writers -> {"idle"} \union Waiting \union Holding]
    BY <1>1 DEF Begin
  <2>4. CallBegun'
    BY <2>1, <1>1 DEF Begin
  <2> QED
    BY <2>2, <2>3, <2>4, <1>1 DEF Begin
<1>2. ASSUME NEW w \in Writers, Create(w) PROVE LockTypeOK' /\ CallBegun'
  <2>1. calls[w] \in 1..MaxCalls
    BY <1>2 DEF Create
  <2>2. [by |-> Token(w), text |-> Empty, stale |-> FALSE] \in LockFile
    BY <2>1
  <2>3. lock' \in {NoLock, Obstacle} \union LockFile
    <3>1. lock' = [by |-> Token(w), text |-> Empty, stale |-> FALSE] \/ lock' = lock
      BY <1>2 DEF Create
    <3> QED
      BY <2>2, <3>1
  <2>4. pc' \in [Writers -> {"idle"} \union Waiting \union Holding]
    BY <1>2 DEF Create
  <2>5. CallBegun'
    BY <2>1, <1>2 DEF Create
  <2> QED
    BY <2>3, <2>4, <2>5, <1>2 DEF Create
<1>3. ASSUME NEW w \in Writers, WriteToken(w) PROVE LockTypeOK' /\ CallBegun'
  <2>1. lock' \in {NoLock, Obstacle} \union LockFile
    <3>1. \/ lock' \in {NoLock, lock}
          \/ OnDisk /\ lock' = [lock EXCEPT !.text = Token(w), !.stale = FALSE]
      BY <1>3 DEF WriteToken
    <3>2. Token(w) \in Texts
      BY <1>3 DEF WriteToken
    <3>3. ASSUME lock \in LockFile PROVE [lock EXCEPT !.text = Token(w), !.stale = FALSE] \in LockFile
      BY <3>2, <3>3
    <3> QED
      BY <3>1, <3>3
  <2>2. pc' \in [Writers -> {"idle"} \union Waiting \union Holding]
    BY <1>3 DEF WriteToken
  <2>3. CallBegun'
    BY <1>3 DEF WriteToken
  <2> QED
    BY <2>1, <2>2, <2>3, <1>3 DEF WriteToken
<1>4. ASSUME NEW w \in Writers, ReadHeld(w) PROVE LockTypeOK' /\ CallBegun'
  BY <1>4 DEF ReadHeld
<1>5. ASSUME NEW w \in Writers, StatAge(w) \/ RereadHeld(w) PROVE LockTypeOK' /\ CallBegun'
  BY <1>5 DEF StatAge, RereadHeld
<1>6. ASSUME NEW w \in Writers, RemoveStale(w) PROVE LockTypeOK' /\ CallBegun'
  BY <1>6 DEF RemoveStale
<1>7. ASSUME NEW w \in Writers, Wait(w) \/ FnReturns(w) \/ ReadOwn(w) PROVE LockTypeOK' /\ CallBegun'
  BY <1>7 DEF Wait, FnReturns, ReadOwn
<1>8. ASSUME NEW w \in Writers, Release(w) PROVE LockTypeOK' /\ CallBegun'
  BY <1>8 DEF Release
<1>9. ASSUME NEW w \in Writers, Crash(w) \/ Expire(w) PROVE LockTypeOK' /\ CallBegun'
  BY <1>9 DEF Crash, Expire
<1>10. CASE Age
  BY <1>10 DEF Age
<1>11. CASE UNCHANGED lockVars
  BY <1>11 DEF lockVars
<1> QED
  BY <1>1, <1>2, <1>3, <1>4, <1>5, <1>6, <1>7, <1>8, <1>9, <1>10, <1>11 DEF LockNext, Moves, Step

\* Type correctness of the lock's protocol, whatever the writers do.
THEOREM LockTyped == LockSpec => []LockTypeOK
<1>1. LockSpec => [](LockTypeOK /\ CallBegun)
  BY LockTypeInit, LockTypeStep, PTL DEF LockSpec
<1> QED
  BY <1>1, PTL

-----------------------------------------------------------------------------
LEMMA LockInvInit == LockInit => LockInv
<1> SUFFICES ASSUME LockInit PROVE LockInv
  OBVIOUS
<1>1. lock \notin LockFile
  BY ConstantsOK DEF LockInit
<1> QED
  BY <1>1, LockTypeInit DEF LockInit, LockInv, HolderCreated, HolderWrote, PastCall, StaleIsDead, JudgedIsStale,
     SoleJudge, OnDisk, Live, Waiting, Holding, Judging

\* The file at the path is never one a waiting call has yet to create.
LEMMA PastStep ==
    ASSUME LockTypeOK, CallBegun, PastCall, [LockNext]_<<lockVars, exposed>>
    PROVE  PastCall'
<1> USE ConstantsOK
    DEF LockTypeOK, CallBegun, PastCall, OnDisk, Waiting, Holding, Judging, Token, Tokens, LockFile, Goto
<1>1. ASSUME NEW w \in Writers, Begin(w) PROVE PastCall'
  BY <1>1 DEF Begin
<1>2. ASSUME NEW w \in Writers, Create(w) PROVE PastCall'
  <2>1. CASE lock' = lock
    BY <2>1, <1>2 DEF Create
  <2>2. CASE lock' # lock
    <3>1. /\ lock' = [by |-> Token(w), text |-> Empty, stale |-> FALSE]
          /\ pc' = [pc EXCEPT ![w] = "write"]
          /\ calls' = calls
      BY <2>2, <1>2 DEF Create
    <3>2. lock'.by[1] = w /\ lock'.by[2] = calls[w]
      BY <3>1
    <3>3. \A v \in Writers : pc'[v] \in Waiting => lock'.by # Token(v)'
      BY <3>1
    <3> QED
      BY <3>1, <3>2, <3>3
  <2> QED
    BY <2>1, <2>2
<1>3. ASSUME NEW w \in Writers, WriteToken(w) PROVE PastCall'
  <2>1. OnDisk' => OnDisk /\ lock'.by = lock.by
    BY <1>3 DEF WriteToken
  <2>2. \A v \in Writers : pc'[v] \in Waiting => pc[v] \in Waiting
    BY <1>3 DEF WriteToken
  <2>3. calls' = calls
    BY <1>3 DEF WriteToken
  <2> QED
    BY <2>1, <2>2, <2>3
<1>4. ASSUME NEW w \in Writers, ReadHeld(w) \/ StatAge(w) \/ RereadHeld(w) \/ RemoveStale(w) PROVE PastCall'
  BY <1>4 DEF ReadHeld, StatAge, RereadHeld, RemoveStale
<1>5. ASSUME NEW w \in Writers, Wait(w) \/ FnReturns(w) \/ ReadOwn(w) \/ Release(w) PROVE PastCall'
  BY <1>5 DEF Wait, FnReturns, ReadOwn, Release
<1>6. ASSUME NEW w \in Writers, Crash(w) \/ Expire(w) PROVE PastCall'
  BY <1>6 DEF Crash, Expire
<1>7. CASE Age
  BY <1>7 DEF Age
<1>8. CASE UNCHANGED lockVars
  BY <1>8 DEF lockVars
<1> QED
  BY <1>1, <1>2, <1>3, <1>4, <1>5, <1>6, <1>7, <1>8 DEF LockNext, Moves, Step

LEMMA LockInvStep ==
    ASSUME LockInv, [LockNext]_<<lockVars, exposed>>
    PROVE  LockInv'
<1>1. LockTypeOK' /\ CallBegun' /\ PastCall'
  BY LockTypeStep, PastStep DEF LockInv
<1> DEFINE Safe == HolderCreated /\ HolderWrote /\ JudgedIsStale
<1> SUFFICES ASSUME ~exposed' PROVE Safe' /\ StaleIsDead' /\ SoleJudge'
  BY <1>1 DEF LockInv
<1>20. StaleIsDead' /\ SoleJudge'
  <2>1. CASE LockNext
    BY <2>1 DEF LockNext, AtRisk, StaleIsDead, SoleJudge
  <2>2. CASE UNCHANGED <<lockVars, exposed>>
    BY <2>2 DEF LockInv, StaleIsDead, SoleJudge, lockVars, Live, OnDisk, Token, Holding, Judging
  <2> QED
    BY <2>1, <2>2
<1>21. CASE exposed
  <2>1. ~Engaged'
    BY <1>21 DEF LockNext
  <2>2. \A w \in Writers : pc'[w] \notin Judging /\ pc'[w] \notin Holding
    BY <2>1 DEF Engaged, Holding, Judging
  <2> QED
    BY <1>20, <2>2 DEF HolderCreated, HolderWrote, JudgedIsStale, Holding, Judging
<1> SUFFICES ASSUME ~exposed PROVE Safe'
  BY <1>20, <1>21
<1> USE <1>1, <1>20, ConstantsOK
    DEF LockInv, LockTypeOK, CallBegun, HolderCreated, HolderWrote, PastCall, StaleIsDead, JudgedIsStale,
        SoleJudge, OnDisk, Live, Waiting, Holding, Judging, Token, Tokens, LockFile, Goto
<1>2. ASSUME NEW w \in Writers, Begin(w) PROVE Safe'
  BY <1>2 DEF Begin
<1>3. ASSUME NEW w \in Writers, Create(w) PROVE Safe'
  <2>1. CASE lock' = lock
    <3>1. pc' \in {[pc EXCEPT ![w] = s] : s \in {"read", "wait", "idle"}}
      <4>1. [by |-> Token(w), text |-> Empty, stale |-> FALSE] \in LockFile
        BY <1>3 DEF Create, Texts
      <4> QED
        BY <4>1, <2>1, <1>3 DEF Create
    <3>2. calls' = calls
      BY <1>3 DEF Create
    <3> QED
      BY <2>1, <3>1, <3>2, <1>3 DEF Create
  <2>2. CASE lock' # lock
    <3>1. /\ lock = NoLock
          /\ lock' = [by |-> Token(w), text |-> Empty, stale |-> FALSE]
          /\ pc' = [pc EXCEPT ![w] = "write"]
          /\ calls' = calls
      BY <2>2, <1>3 DEF Create
    <3>2. \A v \in Writers : pc[v] \notin Holding /\ pc[v] \notin Judging
      BY <3>1
    <3>3. lock'.by = Token(w) /\ ~lock'.stale /\ lock'.by[2] = calls[w] /\ lock'.by[1] = w
      BY <3>1
    <3>4. \A v \in Writers : v # w => pc'[v] = pc[v]
      BY <3>1
    <3>5. pc'[w] = "write" /\ pc[w] = "create"
      BY <3>1, <1>3 DEF Create
    <3>6. lock' \in LockFile
      BY <3>1, <3>5 DEF Texts
    <3>7. HolderCreated' /\ HolderWrote'
      BY <3>1, <3>2, <3>3, <3>4, <3>5, <3>6
    <3> QED
      BY <3>2, <3>3, <3>4, <3>5, <3>6, <3>7
  <2> QED
    BY <2>1, <2>2
<1>4. ASSUME NEW w \in Writers, WriteToken(w) PROVE Safe'
  <2>1. lock \in LockFile /\ lock.by = Token(w)
    BY <1>4 DEF WriteToken
  <2>2. \A v \in Writers : v # w => pc[v] \notin Holding
    BY <2>1
  <2>3. \A v \in Writers : pc[v] \notin Judging
    BY <2>1, <1>4 DEF WriteToken
  <2>4. \A v \in Writers : v # w => pc'[v] = pc[v]
    BY <1>4 DEF WriteToken
  <2>5. calls' = calls
    BY <1>4 DEF WriteToken
  <2>6. CASE pc'[w] = "fn"
    <3>1. lock' = [lock EXCEPT !.text = Token(w), !.stale = FALSE]
      BY <2>1, <2>6, <1>4 DEF WriteToken
    <3>2. lock' \in LockFile
      BY <3>1, <2>1, <1>4 DEF WriteToken, Texts
    <3>3. lock'.by = Token(w) /\ lock'.text = Token(w) /\ ~lock'.stale
      BY <3>1, <2>1
    <3> QED
      BY <2>1, <2>2, <2>3, <2>4, <2>5, <2>6, <3>2, <3>3
  <2>7. CASE pc'[w] = "idle"
    <3>1. lock' = lock \/ lock' = NoLock
      BY <2>7, <1>4 DEF WriteToken
    <3> QED
      BY <2>1, <2>2, <2>3, <2>4, <2>5, <2>7, <3>1
  <2> QED
    BY <2>6, <2>7, <1>4 DEF WriteToken
<1>5. ASSUME NEW w \in Writers, ReadHeld(w) PROVE Safe'
  BY <1>5 DEF ReadHeld
<1>6. ASSUME NEW w \in Writers, StatAge(w) PROVE Safe'
  BY <1>6 DEF StatAge
<1>7. ASSUME NEW w \in Writers, RereadHeld(w) PROVE Safe'
  BY <1>7 DEF RereadHeld
<1>8. ASSUME NEW w \in Writers, RemoveStale(w) PROVE Safe'
  BY <1>8 DEF RemoveStale
<1>9. ASSUME NEW w \in Writers, Wait(w) PROVE Safe'
  BY <1>9 DEF Wait
<1>10. ASSUME NEW w \in Writers, FnReturns(w) PROVE Safe'
  BY <1>10 DEF FnReturns
<1>11. ASSUME NEW w \in Writers, ReadOwn(w) PROVE Safe'
  BY <1>11 DEF ReadOwn
<1>12. ASSUME NEW w \in Writers, Release(w) PROVE Safe'
  BY <1>12 DEF Release
<1>13. ASSUME NEW w \in Writers, Crash(w) PROVE Safe'
  BY <1>13 DEF Crash
<1>14. ASSUME NEW w \in Writers, Expire(w) PROVE Safe'
  BY <1>14 DEF Expire
<1>15. ASSUME Age PROVE Safe'
  BY <1>15 DEF Age
<1>16. CASE UNCHANGED lockVars
  BY <1>16 DEF lockVars
<1> QED
  BY <1>2, <1>3, <1>4, <1>5, <1>6, <1>7, <1>8, <1>9, <1>10, <1>11, <1>12, <1>13, <1>14, <1>15, <1>16
  DEF LockNext, Moves, Step

-----------------------------------------------------------------------------
\* Whatever the writers, their crashes and the clock do: two writers rebuild
\* at once only after two judged one stale lock together or a rebuild outlived
\* buildLockStale (withBuildLock, takeOverStale).
THEOREM Exclusion == LockSpec => []ExclusiveUnlessExposed
<1>1. LockSpec => []LockInv
  BY LockInvInit, LockInvStep, PTL DEF LockSpec
<1>2. LockInv => ExclusiveUnlessExposed
  BY DEF LockInv, LockTypeOK, HolderCreated, ExclusiveUnlessExposed, MutualExclusion, Rebuilding, Holding, Token
<1> QED
  BY <1>1, <1>2, PTL

\* But for those two cases, the file at the path is the rebuilding writer's
\* own, so the Remove in removeOwnLock takes no other writer's lock away.
THEOREM OwnLock == LockSpec => []HolderOwnsLock
<1>1. LockSpec => []LockInv
  BY LockInvInit, LockInvStep, PTL DEF LockSpec
<1>2. LockInv => HolderOwnsLock
  BY DEF LockInv, HolderCreated, HolderWrote, HolderOwnsLock, Holding
<1> QED
  BY <1>1, <1>2, PTL

\* But for those two cases, no step removes the lock of a live rebuild: the
\* one that removes a live writer's lock is that writer leaving.
THEOREM NotStolen == LockSpec => NeverStolen
<1>1. LockSpec => []LockInv
  BY LockInvInit, LockInvStep, PTL DEF LockSpec
<1>2. LockInv /\ [LockNext]_<<lockVars, exposed>> => [LockKept]_<<lockVars, exposed>>
  <2> SUFFICES ASSUME LockInv, ~exposed, [LockNext]_<<lockVars, exposed>>, OnDisk, lock' = NoLock, Live(lock.by)
               PROVE  \E w \in Writers : Token(w) = lock.by /\ pc'[w] = "idle"
    BY DEF LockKept
  <2>1. lock' # lock
    BY ConstantsOK DEF OnDisk
  <2>2. PICK w \in Writers : WriteToken(w) \/ RemoveStale(w) \/ Release(w)
    BY <2>1, ConstantsOK DEF LockNext, Moves, Step, lockVars, Begin, Create, ReadHeld, StatAge, RereadHeld, Wait,
       FnReturns, ReadOwn, Crash, Expire, Age, OnDisk, LockFile
  <2>3. CASE RemoveStale(w)
    BY <2>3 DEF RemoveStale, LockInv, JudgedIsStale, StaleIsDead, Judging
  <2>4. CASE WriteToken(w)
    <3>1. lock.by = Token(w)
      BY <2>4 DEF WriteToken, LockInv, HolderCreated, Holding
    <3>2. [lock EXCEPT !.text = Token(w), !.stale = FALSE].by = lock.by
      BY DEF OnDisk, LockFile
    <3>3. NoLock # [lock EXCEPT !.text = Token(w), !.stale = FALSE]
      <4>1. Token(w) \in Texts
        BY <3>1 DEF OnDisk, LockFile, Texts
      <4>2. [lock EXCEPT !.text = Token(w), !.stale = FALSE] \in LockFile
        BY <4>1 DEF OnDisk, LockFile
      <4> QED
        BY <4>2, ConstantsOK
    <3>4. pc'[w] = "idle"
      BY <2>4, <3>1, <3>3 DEF WriteToken, LockInv, LockTypeOK, Goto
    <3> QED
      BY <3>1, <3>4
  <2>5. CASE Release(w)
    BY <2>5 DEF Release, LockInv, LockTypeOK, HolderCreated, Holding, Goto
  <2> QED
    BY <2>2, <2>3, <2>4, <2>5
<1> QED
  BY <1>1, <1>2, PTL DEF NeverStolen, LockSpec
===============================================================================
