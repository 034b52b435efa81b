---------------------------- MODULE ProposalsProofs ----------------------------
(***************************************************************************)
(* Proposals, for any number of calls, paths, requests and identifiers.    *)
(* First what the overlay is made of, then what a directory under          *)
(* proposals/ can come to hold.                                            *)
(***************************************************************************)
EXTENDS Proposals, TLAPS, SequenceTheorems

Files == Requests \cup {<<>>}

LEMMA FilesOK ==
    ASSUME NEW r \in Files
    PROVE  /\ r \in Seq(Given) /\ Len(r) \in Nat /\ DOMAIN r = 1..Len(r)
           /\ \A i \in 1..Len(r) : /\ r[i] \in Given
                                   /\ r[i].path.file \in Places
                                   /\ r[i].path.file \notin {"proposal.json", "validation.txt"}
<1>1. r \in Seq(Given)
    BY RequestsOK, EmptySeq DEF Files
<1>2. Len(r) \in Nat /\ DOMAIN r = 1..Len(r)
    BY <1>1, LenProperties
<1>3. ASSUME NEW i \in 1..Len(r)
      PROVE  r[i] \in Given
    BY <1>1, ElementOfSeq
<1>4. ASSUME NEW f \in Given
      PROVE  f.path.file \in Places /\ f.path.file \notin {"proposal.json", "validation.txt"}
    BY NamesOK DEF Given, Places
<1> QED
    BY <1>1, <1>2, <1>3, <1>4

\* The files of a proposal, in the order they are written.
LEMMA OutputsOK ==
    ASSUME NEW r \in Files
    PROVE  /\ Len(writeProposal(r)) = Len(r) + 2
           /\ \A i \in 1..Len(r) : writeProposal(r)[i] = r[i].path.file
           /\ writeProposal(r)[Len(r) + 1] = "proposal.json"
           /\ writeProposal(r)[Len(r) + 2] = "validation.txt"
           /\ \A k \in 1..(Len(r) + 2) :
                  /\ writeProposal(r)[k] \in Names
                  /\ writeProposal(r)[k] = "validation.txt" => k = Len(r) + 2
<1> DEFINE own == [i \in DOMAIN r |-> r[i].path.file]
           rest == <<"proposal.json", "validation.txt">>
<1>1. /\ Len(r) \in Nat /\ DOMAIN r = 1..Len(r)
      /\ \A i \in 1..Len(r) : r[i].path.file \in Names /\ r[i].path.file # "validation.txt"
    BY FilesOK DEF Names
<1>2. own \in [1..Len(r) -> Names]
    BY <1>1
<1>3. own \in Seq(Names) /\ Len(own) = Len(r)
    BY <1>1, <1>2, SeqDef
<1>4. rest \in Seq(Names) /\ Len(rest) = 2 /\ rest[1] = "proposal.json" /\ rest[2] = "validation.txt"
    BY DEF Names
<1>5. writeProposal(r) = own \o rest
    BY DEF writeProposal, Outputs
<1> HIDE DEF own, rest
<1>6. /\ Len(own \o rest) = Len(r) + 2
      /\ \A k \in 1..(Len(r) + 2) :
             (own \o rest)[k] = IF k <= Len(r) THEN own[k] ELSE rest[k - Len(r)]
    <2>1. /\ Len(own \o rest) = Len(own) + Len(rest)
          /\ \A k \in 1..(Len(own) + Len(rest)) :
                 (own \o rest)[k] = IF k <= Len(own) THEN own[k] ELSE rest[k - Len(own)]
        <3>1. own \in Seq(Names) /\ rest \in Seq(Names)
            BY <1>3, <1>4
        <3> QED
            BY <3>1, ConcatProperties, Zenon
    <2>2. Len(own) = Len(r) /\ Len(rest) = 2
        BY <1>3, <1>4
    <2> QED
        BY <2>1, <2>2, Zenon
<1>7. \A i \in 1..Len(r) : own[i] = r[i].path.file
    BY <1>1 DEF own
<1>8. ASSUME NEW k \in 1..(Len(r) + 2)
      PROVE  /\ writeProposal(r)[k] \in Names
             /\ writeProposal(r)[k] = "validation.txt" => k = Len(r) + 2
    <2>1. CASE k <= Len(r)
        BY <1>1, <1>5, <1>6, <1>7, <2>1
    <2>2. CASE k = Len(r) + 1
        BY <1>1, <1>4, <1>5, <1>6, <2>2 DEF Names
    <2>3. CASE k = Len(r) + 2
        BY <1>1, <1>4, <1>5, <1>6, <2>3 DEF Names
    <2> QED
        BY <1>1, <2>1, <2>2, <2>3
<1>9. /\ writeProposal(r)[Len(r) + 1] = "proposal.json"
      /\ writeProposal(r)[Len(r) + 2] = "validation.txt"
    <2>1. Len(r) + 1 \in 1..(Len(r) + 2) /\ Len(r) + 2 \in 1..(Len(r) + 2)
        BY <1>1
    <2>2. /\ (own \o rest)[Len(r) + 1] = rest[1]
          /\ (own \o rest)[Len(r) + 2] = rest[2]
        BY <1>1, <1>6, <2>1
    <2> QED
        BY <1>4, <1>5, <2>2
<1>10. \A i \in 1..Len(r) : writeProposal(r)[i] = r[i].path.file
    BY <1>1, <1>5, <1>6, <1>7
<1> QED
    BY <1>5, <1>6, <1>8, <1>9, <1>10

\* Over puts each file of a request, none of which is given twice, in its
\* place and leaves the rest of the tree alone.
LEMMA OverGiven ==
    ASSUME NEW r \in Files, ~Twice(r), NEW tree, NEW i \in 1..Len(r),
           r[i].path.file \in DOMAIN tree
    PROVE  Over(tree, r)[r[i].path.file] = Proposed(r[i])
<1> DEFINE p == r[i].path.file
           Last(j) == /\ r[j].path.file = p
                      /\ \A k \in DOMAIN r : r[k].path.file = p => k <= j
<1>1. Len(r) \in Nat /\ DOMAIN r = 1..Len(r)
    BY FilesOK
<1>2. \A j \in DOMAIN r : r[j].path.file = p => j = i
    BY <1>1 DEF Twice
<1>3. Last(i) /\ \A j \in DOMAIN r : Last(j) => j = i
    BY <1>1, <1>2
<1>4. (CHOOSE j \in DOMAIN r : Last(j)) = i
    BY <1>1, <1>3
<1> QED
    BY <1>1, <1>4 DEF Over

LEMMA OverOther ==
    ASSUME NEW r, NEW tree, NEW p \in DOMAIN tree,
           \A i \in DOMAIN r : r[i].path.file # p
    PROVE  Over(tree, r)[p] = tree[p]
BY DEF Over

-----------------------------------------------------------------------------
\* Every call is where one may be, and every text is one that something wrote.
LEMMA LoadsOK == Loads \subseteq Places
BY DEF Loads, ReadFrom, Places

LEMMA IdleOK == Idle \in Progress /\ Idle.done = 0 /\ Idle.files = <<>>
<1>1. (CHOOSE i \in Ids : TRUE) \in Ids
    BY BoundsOK
<1>2. Missing \in Texts
    BY DEF Texts
<1>3. 0 \in 0..MaxWrites /\ 0 \in 0..(MaxTries - 1)
    BY BoundsOK
<1> QED
    BY <1>1, <1>2, <1>3 DEF Idle, Progress

LEMMA TextForOK ==
    ASSUME NEW c \in Calls, NEW r \in Files, ~Twice(r), NEW o \in Names
    PROVE  TextFor(c, r, o) \in Texts
<1>1. Missing \in Texts /\ About(c) \in Texts
    BY DEF Texts
<1>2. \A i \in 1..Len(r) : Proposed(r[i]) \in Texts
    <2>1. CASE r = <<>>
        BY <2>1, EmptySeq
    <2>2. CASE r \in Requests
        BY <2>2, FilesOK DEF Texts
    <2> QED
        BY <2>1, <2>2 DEF Files
<1>3. CASE o \notin Places
    BY <1>1, <1>3 DEF TextFor
<1>4. CASE o \in Places /\ \E i \in 1..Len(r) : r[i].path.file = o
    BY <1>2, <1>4, OverGiven DEF TextFor
<1>5. CASE o \in Places /\ \A i \in 1..Len(r) : r[i].path.file # o
    BY <1>1, <1>5, FilesOK, OverOther DEF TextFor
<1> QED
    BY <1>3, <1>4, <1>5

\* One call goes on, and nothing else is less of its kind.
LEMMA CallOK ==
    ASSUME TypeOK, NEW c \in Calls, NEW r \in Progress, r.done <= Len(writeProposal(r.files)),
           call' = [call EXCEPT ![c] = r], world' = world,
           parent' \in {"none", "folder", "link"},
           dirs' \in [Ids -> [made : BOOLEAN, holds : [Names -> Texts]]]
    PROVE  TypeOK'
BY DEF TypeOK

\* A call past its checks has files that passed them.
Checked(r) == r \in Requests /\ checkFiles(r)
GivenOK ==
    \A c \in Calls :
        At(c, "copy") \/ At(c, "loaded") \/ At(c, "name") \/ At(c, "write")
        \/ At(c, "undo") \/ At(c, "answered") => Checked(call[c].files)

LEMMA CheckedOK ==
    ASSUME NEW r, Checked(r)
    PROVE  r \in Files /\ ~Twice(r)
BY DEF Checked, checkFiles, Files

LEMMA TypeInit == Init => TypeOK /\ GivenOK
<1> SUFFICES ASSUME Init PROVE TypeOK /\ GivenOK
    OBVIOUS
<1>1. call \in [Calls -> Progress] /\ \A c \in Calls : call[c] = Idle
    BY IdleOK DEF Init
<1>2. 0 <= Len(writeProposal(<<>>))
    BY OutputsOK, FilesOK DEF Files
<1>3. \A c \in Calls : call[c].done <= Len(writeProposal(call[c].files))
    BY <1>1, <1>2, IdleOK
<1>4. dirs \in [Ids -> [made : BOOLEAN, holds : [Names -> Texts]]]
    BY DEF Init, NoDir, Texts
<1>5. world \in [Places -> 0..MaxWrites]
    BY BoundsOK DEF Init
<1>6. GivenOK
    BY <1>1 DEF GivenOK, At, Idle
<1> QED
    BY <1>1, <1>3, <1>4, <1>5, <1>6 DEF TypeOK, Init

\* What a step of call c can do to the call.
LEMMA StepOK ==
    ASSUME TypeOK, GivenOK, NEW c \in Calls, NEW r \in Progress,
           call' = [call EXCEPT ![c] = r],
           r.at \in {"copy", "loaded", "name", "write", "undo", "answered"} => Checked(r.files)
    PROVE  GivenOK'
BY DEF TypeOK, GivenOK, At, Checked, checkFiles

LEMMA TypeStep == TypeOK /\ GivenOK /\ [Next]_vars => TypeOK' /\ GivenOK'
<1> SUFFICES ASSUME TypeOK, GivenOK, [Next]_vars PROVE TypeOK' /\ GivenOK'
    OBVIOUS
<1>1. CASE UNCHANGED vars
    BY <1>1 DEF vars, TypeOK, GivenOK, At, Checked
<1>2. CASE Author
    <2>1. world' \in [Places -> 0..MaxWrites]
        <3>1. PICK p \in Loads : world[p] < MaxWrites /\ world' = [world EXCEPT ![p] = @ + 1]
            BY <1>2 DEF Author
        <3>2. world \in [Places -> 0..MaxWrites] /\ MaxWrites \in Nat /\ p \in Places
            BY BoundsOK, LoadsOK DEF TypeOK
        <3>3. world[p] + 1 \in 0..MaxWrites
            BY <3>1, <3>2
        <3> QED
            BY <3>1, <3>2, <3>3
    <2> QED
        BY <1>2, <2>1 DEF Author, TypeOK, GivenOK, At, Checked
<1>3. ASSUME NEW c \in Calls, Step(c) PROVE TypeOK' /\ GivenOK'
    <2> DEFINE j == call[c]
    <2>1. j \in Progress /\ j.done <= Len(writeProposal(j.files)) /\ j.files \in Files
        BY DEF TypeOK, Progress, Files
    <2>2. ASSUME NEW r \in Progress, r.done <= Len(writeProposal(r.files)),
                 call' = [call EXCEPT ![c] = r],
                 r.at \in {"copy", "loaded", "name", "write", "undo", "answered"} => Checked(r.files),
                 world' = world, parent' \in {"none", "folder", "link"},
                 dirs' \in [Ids -> [made : BOOLEAN, holds : [Names -> Texts]]]
          PROVE  TypeOK' /\ GivenOK'
        BY <2>2, CallOK, StepOK
    <2>3. parent \in {"none", "folder", "link"}
          /\ dirs \in [Ids -> [made : BOOLEAN, holds : [Names -> Texts]]]
        BY DEF TypeOK
    <2>4. ASSUME End(c, "refused"), world' = world, parent' \in {"none", "folder", "link"},
                 dirs' \in [Ids -> [made : BOOLEAN, holds : [Names -> Texts]]]
          PROVE  TypeOK' /\ GivenOK'
        <3> DEFINE k == [Idle EXCEPT !.at = "refused"]
        <3>1. k \in Progress /\ k.at = "refused" /\ k.done = 0 /\ k.files = <<>>
            BY IdleOK DEF Progress
        <3>2. k.done <= Len(writeProposal(k.files))
            BY <3>1, OutputsOK, FilesOK DEF Files
        <3> QED
            BY <2>2, <2>4, <3>1, <3>2 DEF End
    \* A call with checked files goes on with them.
    <2>5. ASSUME NEW k \in Progress, k.files = j.files, k.done <= Len(writeProposal(j.files)),
                 call' = [call EXCEPT ![c] = k], world' = world, parent' = parent,
                 dirs' \in [Ids -> [made : BOOLEAN, holds : [Names -> Texts]]],
                 At(c, "copy") \/ At(c, "loaded") \/ At(c, "name") \/ At(c, "write")
          PROVE  TypeOK' /\ GivenOK'
        <3>1. Checked(j.files)
            BY <2>5 DEF GivenOK
        <3> QED
            BY <2>2, <2>3, <2>5, <3>1
    <2>20. CASE Begin(c)
        <3>1. PICK tool \in {"validate", "propose"}, r \in Requests :
                  /\ checkFiles(r)
                  /\ call' = [call EXCEPT ![c] = [Idle EXCEPT
                         !.at = "copy", !.tool = tool, !.files = r, !.began = world, !.todo = Loads]]
                  /\ UNCHANGED <<world, parent, dirs>>
            BY <2>20 DEF Begin
        <3> DEFINE k == [Idle EXCEPT
                !.at = "copy", !.tool = tool, !.files = r, !.began = world, !.todo = Loads]
        <3>2. k \in Progress /\ k.done = 0 /\ k.files = r
            BY IdleOK DEF Progress, TypeOK
        <3>3. k.done <= Len(writeProposal(k.files))
            BY <3>2, OutputsOK, FilesOK DEF Files
        <3> QED
            BY <2>2, <2>3, <3>1, <3>2, <3>3 DEF Checked
    <2>6. CASE Refuse(c) \/ OverlayFails(c) \/ FolderRefused(c)
        BY <2>3, <2>4, <2>6 DEF Refuse, OverlayFails, FolderRefused
    <2>7. CASE CopyFile(c)
        <3>1. PICK p \in j.todo :
                  call' = [call EXCEPT ![c] = [j EXCEPT !.copy[p] = Authored(world[p]),
                                                        !.todo = @ \ {p}]]
            BY <2>7 DEF CopyFile
        <3>2. p \in Places /\ Authored(world[p]) \in Texts
            BY <2>1 DEF TypeOK, Progress, Loads, ReadFrom, Places, Texts, Authored
        <3> DEFINE k == [j EXCEPT !.copy[p] = Authored(world[p]), !.todo = @ \ {p}]
        <3>3. k \in Progress /\ k.done = j.done /\ k.files = j.files /\ k.at = j.at
            BY <2>1, <3>2 DEF Progress
        <3> QED
            BY <2>1, <2>3, <2>5, <2>7, <3>1, <3>3 DEF CopyFile
    <2>8. CASE Load(c) \/ Answer(c)
        <3>1. PICK step \in {"loaded", "answered"} : call' = [call EXCEPT ![c] = [j EXCEPT !.at = step]]
            BY <2>8 DEF Load, Answer
        <3> DEFINE k == [j EXCEPT !.at = step]
        <3>2. k \in Progress /\ k.files = j.files /\ k.done = j.done
            BY <2>1 DEF Progress
        <3> QED
            BY <2>1, <2>3, <2>5, <2>8, <3>1, <3>2 DEF Load, Answer
    <2>9. CASE Validated(c) \/ Folder(c)
        <3>1. PICK step \in {"answered", "name"} :
                  call' = [call EXCEPT ![c] = [Idle EXCEPT
                      !.at = step, !.tool = j.tool, !.files = j.files]]
            BY <2>9 DEF Validated, Folder, Leave
        <3> DEFINE k == [Idle EXCEPT !.at = step, !.tool = j.tool, !.files = j.files]
        <3>2. k \in Progress /\ k.done = 0 /\ k.files = j.files
            BY <2>1, IdleOK DEF Progress
        <3>3. k.done <= Len(writeProposal(k.files))
            BY <2>1, <3>2, OutputsOK, FilesOK
        <3> QED
            BY <2>2, <2>3, <2>9, <3>1, <3>2, <3>3 DEF Validated, Folder, GivenOK, At
    <2>10. ASSUME NEW i \in Ids, MakeDir(c, i) PROVE TypeOK' /\ GivenOK'
        <3> DEFINE k == [j EXCEPT !.at = "write", !.id = i]
        <3>1. k \in Progress /\ k.files = j.files /\ k.done = j.done
            BY <2>1 DEF Progress
        <3>2. NewDir \in [made : BOOLEAN, holds : [Names -> Texts]]
            BY DEF NewDir, Texts
        <3>3. dirs' \in [Ids -> [made : BOOLEAN, holds : [Names -> Texts]]]
            BY <2>3, <2>10, <3>2 DEF MakeDir, Take
        <3>4. call' = [call EXCEPT ![c] = k]
            BY <2>10 DEF MakeDir, Take
        <3> QED
            BY <2>1, <2>5, <2>10, <3>1, <3>3, <3>4 DEF MakeDir
    <2>11. ASSUME NEW i \in Ids, NameTaken(c, i) PROVE TypeOK' /\ GivenOK'
        <3>1. CASE j.tries + 1 < MaxTries
            <4> DEFINE k == [j EXCEPT !.tries = @ + 1]
            <4>1. k \in Progress /\ k.files = j.files /\ k.done = j.done
                BY <2>1, <3>1, BoundsOK DEF Progress
            <4> QED
                BY <2>1, <2>3, <2>5, <2>11, <3>1, <4>1 DEF NameTaken
        <3>2. CASE ~(j.tries + 1 < MaxTries)
            BY <2>3, <2>4, <2>11, <3>2 DEF NameTaken
        <3> QED
            BY <3>1, <3>2
    \* The text of the file a call writes next can change to any other.
    <2>12. ASSUME At(c, "write"), More(c)
           PROVE  /\ NextFile(c) \in Names
                  /\ j.done + 1 <= Len(writeProposal(j.files))
                  /\ \A t \in Texts : Puts(c, t) =>
                         dirs' \in [Ids -> [made : BOOLEAN, holds : [Names -> Texts]]]
        <3>1. /\ j.done \in Nat /\ Len(j.files) \in Nat /\ j.done < Len(j.files) + 2
              /\ Len(writeProposal(j.files)) = Len(j.files) + 2
            BY <2>1, <2>12, OutputsOK, FilesOK DEF More, Progress
        <3>2. j.done + 1 \in 1..(Len(j.files) + 2)
            BY <3>1
        <3>3. NextFile(c) \in Names
            BY <2>1, <3>2, OutputsOK DEF NextFile
        <3>4. ASSUME NEW t \in Texts, Puts(c, t)
              PROVE  dirs' \in [Ids -> [made : BOOLEAN, holds : [Names -> Texts]]]
            <4>1. dirs' = [dirs EXCEPT ![j.id].holds[NextFile(c)] = t]
                BY <3>4 DEF Puts
            <4> QED
                BY <2>3, <4>1
        <3> QED
            BY <3>1, <3>3, <3>4
    <2>13. Torn \in Texts /\ Missing \in Texts
        BY DEF Texts
    <2>14. CASE Write(c)
        <3>1. At(c, "write") /\ More(c)
            BY <2>14 DEF Write
        <3>2. TextFor(c, j.files, NextFile(c)) \in Texts
            BY <2>12, <3>1, CheckedOK, TextForOK DEF GivenOK
        <3> DEFINE k == [j EXCEPT !.done = @ + 1]
        <3>3. k \in Progress /\ k.files = j.files /\ k.done = j.done + 1
            BY <2>1 DEF Progress
        <3> QED
            BY <2>5, <2>12, <2>14, <3>1, <3>2, <3>3 DEF Write
    <2>15. CASE WriteFails(c)
        <3> DEFINE k == [j EXCEPT !.at = "undo"]
        <3>1. k \in Progress /\ k.files = j.files /\ k.done = j.done
            BY <2>1 DEF Progress
        <3> QED
            BY <2>1, <2>3, <2>5, <2>12, <2>13, <2>15, <3>1 DEF WriteFails
    <2>16. CASE Undo(c)
        <3>1. dirs' \in [Ids -> [made : BOOLEAN, holds : [Names -> Texts]]]
            BY <2>3, <2>13, <2>16 DEF Undo, NoDir
        <3> QED
            BY <2>3, <2>4, <2>16, <3>1 DEF Undo
    <2>17. CASE UndoStops(c)
        <3>1. dirs' \in [Ids -> [made : BOOLEAN, holds : [Names -> Texts]]]
            <4>1. PICK o \in Names : dirs' = [dirs EXCEPT ![j.id].holds[o] = Missing]
                BY <2>17 DEF UndoStops
            <4> QED
                BY <2>3, <2>13, <4>1
        <3> QED
            BY <2>3, <2>4, <2>17, <3>1 DEF UndoStops
    <2>18. CASE Stop(c)
        <3> DEFINE k == [Idle EXCEPT !.at = "stopped", !.files = j.files, !.id = j.id]
        <3>1. k \in Progress /\ k.done = 0 /\ k.files = j.files /\ k.at = "stopped"
            BY <2>1, IdleOK DEF Progress
        <3>2. k.done <= Len(writeProposal(k.files))
            BY <2>1, <3>1, OutputsOK, FilesOK
        <3> QED
            BY <2>2, <2>3, <2>12, <2>13, <2>18, <3>1, <3>2 DEF Stop
    <2> QED
        BY <1>3, <2>20, <2>6, <2>7, <2>8, <2>9, <2>10, <2>11, <2>14, <2>15, <2>16, <2>17, <2>18
        DEF Step
<1> QED
    BY <1>1, <1>2, <1>3 DEF Next

\* Every variable keeps to its kind, for any calls, paths and requests.
THEOREM ProposalsTyped == Spec => []TypeOK
BY TypeInit, TypeStep, PTL DEF Spec

-----------------------------------------------------------------------------
\* Every file copied so far is in a version it had since the call began.
CopiedOK(c) ==
    /\ \A p \in Loads : call[c].began[p] <= world[p]
    /\ \A p \in Loads \ call[c].todo :
           \E n \in call[c].began[p]..world[p] : call[c].copy[p] = Authored(n)
    /\ At(c, "loaded") => call[c].todo = {}
CopyInv == \A c \in Calls : At(c, "copy") \/ At(c, "loaded") => CopiedOK(c)

LEMMA CopyInit == Init => CopyInv
BY DEF Init, CopyInv, At, Idle

\* A step of call c leaves the world and the other calls alone.
LEMMA StepAlone ==
    ASSUME TypeOK, NEW c \in Calls, Step(c)
    PROVE  world' = world /\ \A d \in Calls \ {c} : call'[d] = call[d]
<1>1. call \in [Calls -> Progress]
    BY DEF TypeOK
<1>2. CASE Begin(c) \/ Refuse(c) \/ CopyFile(c) \/ Load(c) \/ OverlayFails(c)
    BY <1>1, <1>2 DEF Begin, Refuse, CopyFile, Load, OverlayFails, End
<1>3. CASE Validated(c) \/ Folder(c) \/ FolderRefused(c)
    BY <1>1, <1>3 DEF Validated, Folder, FolderRefused, Leave, End
<1>4. ASSUME NEW i \in Ids, MakeDir(c, i) \/ NameTaken(c, i)
      PROVE  world' = world /\ \A d \in Calls \ {c} : call'[d] = call[d]
    BY <1>1, <1>4 DEF MakeDir, NameTaken, Take, End
<1>5. CASE Write(c) \/ Answer(c) \/ WriteFails(c) \/ Undo(c) \/ UndoStops(c) \/ Stop(c)
    BY <1>1, <1>5 DEF Write, Answer, WriteFails, Undo, UndoStops, Stop, End
<1> QED
    BY <1>2, <1>3, <1>4, <1>5 DEF Step

\* Where a step can lead that leaves a call copying.
LEMMA StaysCopying ==
    ASSUME TypeOK, NEW c \in Calls, Step(c), At(c, "copy")' \/ At(c, "loaded")'
    PROVE  Begin(c) \/ CopyFile(c) \/ Load(c)
<1>1. call \in [Calls -> Progress] /\ call[c] \in Progress
    BY DEF TypeOK
<1>2. ~(Refuse(c) \/ OverlayFails(c) \/ FolderRefused(c) \/ Undo(c) \/ UndoStops(c))
    BY <1>1 DEF Refuse, OverlayFails, FolderRefused, Undo, UndoStops, End, At, Idle
<1>3. ~(Validated(c) \/ Folder(c))
    BY <1>1 DEF Validated, Folder, Leave, At, Idle
<1>4. ASSUME NEW i \in Ids PROVE ~(MakeDir(c, i) \/ NameTaken(c, i))
    BY <1>1 DEF MakeDir, NameTaken, Take, End, At, Idle, Progress
<1>5. ~Write(c)
    <2> SUFFICES ASSUME Write(c) PROVE FALSE
        OBVIOUS
    <2>1. call'[c] = [call[c] EXCEPT !.done = @ + 1] /\ call[c].at = "write"
        BY <1>1 DEF Write, At
    <2> QED
        BY <1>1, <2>1 DEF At, Progress
<1>6. ~Answer(c)
    BY <1>1 DEF Answer, At, Progress
<1>7. ~WriteFails(c)
    BY <1>1 DEF WriteFails, At, Progress
<1>8. ~Stop(c)
    BY <1>1 DEF Stop, At, Idle
<1> QED
    BY <1>2, <1>3, <1>4, <1>5, <1>6, <1>7, <1>8 DEF Step

LEMMA CopyStep == TypeOK /\ CopyInv /\ [Next]_vars => CopyInv'
<1> SUFFICES ASSUME TypeOK, CopyInv, [Next]_vars PROVE CopyInv'
    OBVIOUS
<1>1. CASE UNCHANGED vars
    BY <1>1 DEF vars, CopyInv, CopiedOK, At
\* A file that changes later has had the version that was copied.
<1>2. CASE Author
    <2>1. /\ world \in [Places -> Nat] /\ world' \in [Places -> Nat]
          /\ \A p \in Places : world[p] <= world'[p]
        BY <1>2, BoundsOK, LoadsOK DEF Author, TypeOK
    <2> SUFFICES ASSUME NEW c \in Calls, At(c, "copy") \/ At(c, "loaded") PROVE CopiedOK(c)'
        BY <1>2 DEF CopyInv, Author, At
    <2>2. CopiedOK(c) /\ call' = call /\ call[c].began \in [Places -> Nat]
        BY <1>2, BoundsOK DEF CopyInv, Author, TypeOK, Progress
    <2>3. ASSUME NEW p \in Loads PROVE call'[c].began[p] <= world'[p]
        BY <2>1, <2>2, LoadsOK DEF CopiedOK
    <2>4. ASSUME NEW p \in Loads \ call[c].todo
          PROVE  \E n \in call[c].began[p]..world'[p] : call[c].copy[p] = Authored(n)
        <3>1. PICK n \in call[c].began[p]..world[p] : call[c].copy[p] = Authored(n)
            BY <2>2 DEF CopiedOK
        <3>2. n \in call[c].began[p]..world'[p]
            BY <2>1, <2>2, <3>1, LoadsOK
        <3> QED
            BY <3>1, <3>2
    <2> QED
        BY <2>2, <2>3, <2>4 DEF CopiedOK, At
<1>3. ASSUME NEW c \in Calls, Step(c) PROVE CopyInv'
    <2> SUFFICES ASSUME NEW d \in Calls, At(d, "copy")' \/ At(d, "loaded")' PROVE CopiedOK(d)'
        BY DEF CopyInv
    <2>1. world' = world /\ call \in [Calls -> Progress] /\ call[c] \in Progress
        BY <1>3, StepAlone DEF TypeOK
    <2>2. CASE d # c
        BY <1>3, <2>1, <2>2, StepAlone DEF CopyInv, CopiedOK, At
    <2>3. CASE d = c /\ Begin(c)
        <3>1. call'[c].began = world /\ call'[c].todo = Loads /\ call'[c].at = "copy"
            BY <2>1, <2>3 DEF Begin, Idle
        <3>2. \A p \in Loads : world[p] <= world[p]
            BY LoadsOK, BoundsOK DEF TypeOK
        <3> QED
            BY <2>1, <2>3, <3>1, <3>2 DEF CopiedOK, At
    <2>4. CASE d = c /\ CopyFile(c)
        <3>1. PICK p \in call[c].todo :
                  /\ At(c, "copy")
                  /\ call' = [call EXCEPT ![c].copy[p] = Authored(world[p]), ![c].todo = @ \ {p}]
            BY <2>4 DEF CopyFile
        <3>2. /\ call'[c].began = call[c].began /\ call'[c].todo = call[c].todo \ {p}
              /\ call'[c].at = "copy"
              /\ call'[c].copy = [call[c].copy EXCEPT ![p] = Authored(world[p])]
            BY <2>1, <3>1 DEF Progress, At
        <3>3. CopiedOK(c) /\ p \in Loads
            BY <2>1, <3>1 DEF CopyInv, Progress
        <3>4. world[p] \in call[c].began[p]..world[p]
            BY <2>1, <3>3, LoadsOK, BoundsOK DEF CopiedOK, TypeOK, Progress
        <3>5. p \in Places /\ call[c].copy \in [Places -> Texts]
            BY <2>1, <3>3, LoadsOK DEF Progress
        <3>6. \A q \in Loads \ call'[c].todo :
                  \E n \in call[c].began[q]..world[q] : call'[c].copy[q] = Authored(n)
            BY <3>2, <3>3, <3>4, <3>5, LoadsOK DEF CopiedOK
        <3> QED
            BY <2>1, <2>4, <3>2, <3>3, <3>6 DEF CopiedOK, At
    <2>5. CASE d = c /\ Load(c)
        <3>1. /\ CopiedOK(c) /\ call[c].todo = {}
              /\ call'[c] = [call[c] EXCEPT !.at = "loaded"]
            BY <2>1, <2>5 DEF Load, CopyInv
        <3> QED
            BY <2>1, <2>5, <3>1 DEF CopiedOK, Progress
    <2> QED
        BY <1>3, <2>2, <2>3, <2>4, <2>5, StaysCopying
<1> QED
    BY <1>1, <1>2, <1>3 DEF Next

\* What validate and propose report is about the world as it would be with the
\* files of the call in place, however the author writes while it is copied
\* (checkFiles, overlay, copyTree).
THEOREM CheckedAlways == Spec => []CheckedAsBuilt
<1>1. TypeOK /\ GivenOK /\ CopyInv => CheckedAsBuilt
    <2> SUFFICES ASSUME TypeOK, GivenOK, CopyInv, NEW c \in Calls, At(c, "loaded")
                 PROVE  LET r == call[c].files
                            found == Overlaid(call[c].copy, r)
                            given == {r[i].path.file : i \in DOMAIN r}
                        IN /\ given \subseteq Loads
                           /\ \A i \in DOMAIN r : found[r[i].path.file] = Proposed(r[i])
                           /\ \A p \in Loads \ given :
                                \E n \in call[c].began[p]..world[p] : found[p] = Authored(n)
        BY DEF CheckedAsBuilt
    <2> DEFINE r == call[c].files
               tree == call[c].copy
    <2>1. Checked(r) /\ CopiedOK(c)
        BY DEF GivenOK, CopyInv
    <2>2. r \in Files /\ ~Twice(r) /\ DOMAIN r = 1..Len(r) /\ DOMAIN tree = Places
        BY <2>1, CheckedOK, FilesOK DEF TypeOK, Progress
    <2>3. ASSUME NEW i \in DOMAIN r
          PROVE  /\ r[i].path.file \in Loads
                 /\ Over(tree, r)[r[i].path.file] = Proposed(r[i])
        <3>1. r[i].path \in Paths /\ checkPath(r[i].path) /\ confined(r[i].path)
            BY <2>1, <2>2, FilesOK DEF Checked, checkFiles, Given
        <3>2. r[i].path.file \in Loads
            BY <3>1 DEF Loads, ReadFrom, checkPath, confined
        <3> QED
            BY <2>2, <3>2, LoadsOK, OverGiven
    <2>4. ASSUME NEW p \in Loads, \A i \in DOMAIN r : r[i].path.file # p
          PROVE  \E n \in call[c].began[p]..world[p] : Over(tree, r)[p] = Authored(n)
        <3>1. Over(tree, r)[p] = tree[p]
            BY <2>2, <2>4, LoadsOK, OverOther
        <3> QED
            BY <2>1, <3>1 DEF CopiedOK
    <2> QED
        BY <2>3, <2>4 DEF Overlaid
<1> QED
    BY TypeInit, TypeStep, CopyInit, CopyStep, <1>1, PTL DEF Spec

-----------------------------------------------------------------------------
(***************************************************************************)
(* What keeps proposals whole.  A call in its directory, or answered from  *)
(* it, has it to itself; it has filled it as far as it says; and the       *)
(* findings are there only when the rest is, of one call, and that call    *)
(* will not clean up.                                                      *)
(***************************************************************************)
Has(c, i) ==
    /\ call[c].id = i
    /\ At(c, "write") \/ At(c, "undo") \/ (At(c, "answered") /\ call[c].tool = "propose")

NotMade == \A i \in Ids : ~dirs[i].made => dirs[i] = NoDir
HasMade == \A c \in Calls, i \in Ids : Has(c, i) => dirs[i].made
HasAlone == \A c, d \in Calls, i \in Ids : Has(c, i) /\ Has(d, i) => c = d

Filled(c) ==
    \A k \in 1..call[c].done :
        LET o == writeProposal(call[c].files)[k]
        IN  dirs[call[c].id].holds[o] = TextFor(c, call[c].files, o)
WritingFills == \A c \in Calls : At(c, "write") => Filled(c)
NothingYet == \A c \in Calls : At(c, "name") => call[c].done = 0

TextIsLast ==
    \A c \in Calls, i \in Ids :
        dirs[i].holds["validation.txt"] = About(c) =>
            /\ At(c, "write") \/ At(c, "answered") \/ At(c, "stopped")
            /\ At(c, "write") => call[c].id = i /\ ~More(c)
            /\ \A d \in Calls : Has(d, i) => d = c

DirInv ==
    /\ NotMade /\ HasMade /\ HasAlone /\ WritingFills /\ NothingYet /\ TextIsLast
    /\ WholeIfValidated /\ AnsweredWhole

LEMMA AboutOK ==
    ASSUME NEW c \in Calls
    PROVE  /\ About(c) # Missing /\ About(c) # Torn
           /\ \A d \in Calls : About(d) = About(c) => d = c
BY CallsOK DEF About, Missing, Torn

LEMMA TextForEach ==
    ASSUME NEW c \in Calls, NEW r, Checked(r)
    PROVE  /\ TextFor(c, r, "proposal.json") = About(c)
           /\ TextFor(c, r, "validation.txt") = About(c)
           /\ \A i \in 1..Len(r) : TextFor(c, r, r[i].path.file) = Proposed(r[i])
<1>1. r \in Files /\ ~Twice(r)
    BY CheckedOK
<1>2. "proposal.json" \notin Places /\ "validation.txt" \notin Places
    BY NamesOK DEF Places
<1>3. \A i \in 1..Len(r) : TextFor(c, r, r[i].path.file) = Proposed(r[i])
    BY <1>1, FilesOK, OverGiven DEF TextFor
<1> QED
    BY <1>2, <1>3 DEF TextFor

\* How far a call that writes has come.
LEMMA MoreOK ==
    ASSUME TypeOK, NEW c \in Calls
    PROVE  LET n == Len(call[c].files) + 2 IN
           /\ n \in Nat /\ call[c].done \in 0..n /\ call[c].files \in Files
           /\ More(c) <=> call[c].done < n
           /\ More(c) => /\ NextFile(c) \in Names
                         /\ NextFile(c) = "validation.txt" => call[c].done + 1 = n
<1>1. /\ call[c].files \in Files /\ call[c].done \in Nat
      /\ call[c].done <= Len(writeProposal(call[c].files))
    BY DEF TypeOK, Progress, Files
<1>2. /\ Len(call[c].files) \in Nat
      /\ Len(writeProposal(call[c].files)) = Len(call[c].files) + 2
    BY <1>1, FilesOK, OutputsOK
<1>3. More(c) => call[c].done + 1 \in 1..(Len(call[c].files) + 2)
    BY <1>1, <1>2 DEF More
<1> QED
    BY <1>1, <1>2, <1>3, OutputsOK DEF More, NextFile

\* A directory with every file of a request in it has the whole proposal.
LEMMA FilledWhole ==
    ASSUME NEW c \in Calls, NEW r, Checked(r), NEW in,
           \A k \in 1..(Len(r) + 2) : in[writeProposal(r)[k]] = TextFor(c, r, writeProposal(r)[k])
    PROVE  /\ \A i \in DOMAIN r : in[r[i].path.file] = Proposed(r[i])
           /\ in["proposal.json"] = About(c)
           /\ in["validation.txt"] = About(c)
<1>1. r \in Files /\ Len(r) \in Nat /\ DOMAIN r = 1..Len(r)
    BY CheckedOK, FilesOK
<1>2. \A i \in 1..Len(r) : in[r[i].path.file] = Proposed(r[i])
    <2> TAKE i \in 1..Len(r)
    <2>1. i \in 1..(Len(r) + 2) /\ writeProposal(r)[i] = r[i].path.file
        BY <1>1, OutputsOK
    <2> QED
        BY <2>1, TextForEach
<1>3. in["proposal.json"] = About(c) /\ in["validation.txt"] = About(c)
    <2>1. Len(r) + 1 \in 1..(Len(r) + 2) /\ Len(r) + 2 \in 1..(Len(r) + 2)
        BY <1>1
    <2>2. /\ writeProposal(r)[Len(r) + 1] = "proposal.json"
          /\ writeProposal(r)[Len(r) + 2] = "validation.txt"
        BY <1>1, OutputsOK
    <2> QED
        BY <2>1, <2>2, TextForEach
<1> QED
    BY <1>1, <1>2, <1>3

LEMMA DirInit == Init => DirInv
<1> SUFFICES ASSUME Init PROVE DirInv
    OBVIOUS
<1>1. \A c \in Calls : call[c].at = "idle"
    BY DEF Init, Idle
<1>2. \A i \in Ids : dirs[i] = NoDir /\ dirs[i].holds["validation.txt"] = Missing
    BY DEF Init, NoDir, Names
<1>3. \A i \in Ids, c \in Calls : dirs[i].holds["validation.txt"] # About(c)
    BY <1>2, AboutOK
<1> QED
    BY <1>1, <1>2, <1>3 DEF DirInv, NotMade, HasMade, HasAlone, WritingFills, NothingYet,
       TextIsLast, WholeIfValidated, AnsweredWhole, Has, At

\* A call whose findings are nowhere goes on to anything but writing or
\* answering a proposal, and no directory but its own changes.
LEMMA GivesUp ==
    ASSUME TypeOK, DirInv, NEW c \in Calls, NEW k \in Progress,
           call' = [call EXCEPT ![c] = k],
           \A i \in Ids : dirs[i].holds["validation.txt"] # About(c),
           \A i \in Ids : dirs'[i] = dirs[i] \/ (Has(c, i) /\
               /\ ~dirs'[i].made => dirs'[i] = NoDir
               /\ dirs'[i].holds["validation.txt"]
                      \in {dirs[i].holds["validation.txt"], Missing, Torn}),
           k.at # "write", k.at = "name" => k.done = 0,
           k.at = "answered" => k.tool # "propose",
           k.at = "undo" => At(c, "write") /\ k.id = call[c].id /\ dirs'[k.id].made
    PROVE  DirInv'
<1>1. call \in [Calls -> Progress] /\ call'[c] = k
      /\ \A d \in Calls \ {c} : call'[d] = call[d]
    BY DEF TypeOK
<1>2. \A d \in Calls \ {c}, i \in Ids : Has(d, i)' <=> Has(d, i)
    BY <1>1 DEF Has, At
<1>3. \A i \in Ids : Has(c, i)' => /\ Has(c, i) /\ dirs'[i].made
    BY <1>1 DEF Has, At
<1>4. \A i \in Ids, d \in Calls \ {c} : Has(d, i) => dirs'[i] = dirs[i]
    BY DEF DirInv, HasAlone
<1>5. \A i \in Ids, d \in Calls :
          dirs'[i].holds["validation.txt"] = About(d) =>
              d # c /\ dirs[i].holds["validation.txt"] = About(d) /\ dirs'[i] = dirs[i]
    <2> SUFFICES ASSUME NEW i \in Ids, NEW d \in Calls,
                        dirs'[i].holds["validation.txt"] = About(d)
                 PROVE  d # c /\ dirs[i].holds["validation.txt"] = About(d) /\ dirs'[i] = dirs[i]
        OBVIOUS
    <2>1. dirs[i].holds["validation.txt"] = About(d)
        BY AboutOK
    <2>2. d # c /\ (Has(c, i) => c = d)
        BY <2>1 DEF DirInv, TextIsLast
    <2> QED
        BY <2>1, <2>2
<1>6. NotMade' /\ HasMade' /\ HasAlone' /\ NothingYet'
    <2>1. NotMade'
        BY DEF DirInv, NotMade
    <2>2. HasMade'
        BY <1>2, <1>3, <1>4 DEF DirInv, HasMade
    <2>3. HasAlone'
        BY <1>2, <1>3 DEF DirInv, HasAlone
    <2>4. NothingYet'
        BY <1>1 DEF DirInv, NothingYet, At
    <2> QED
        BY <2>1, <2>2, <2>3, <2>4
<1>7. WritingFills'
    <2> SUFFICES ASSUME NEW d \in Calls, At(d, "write")' PROVE Filled(d)'
        BY DEF WritingFills
    <2>1. d # c /\ call'[d] = call[d] /\ At(d, "write") /\ call[d].id \in Ids
        BY <1>1 DEF At, Progress
    <2>2. dirs'[call[d].id] = dirs[call[d].id] /\ Filled(d)
        BY <1>4, <2>1 DEF Has, DirInv, WritingFills
    <2> QED
        BY <2>1, <2>2 DEF Filled
<1>8. TextIsLast'
    BY <1>1, <1>2, <1>3, <1>5 DEF DirInv, TextIsLast, At, More
<1>9. WholeIfValidated'
    BY <1>1, <1>5 DEF DirInv, WholeIfValidated, WholeOf
<1>10. AnsweredWhole'
    <2> SUFFICES ASSUME NEW d \in Calls, At(d, "answered")', call'[d].tool = "propose"
                 PROVE  WholeOf(d, call[d].id)'
        BY DEF AnsweredWhole
    <2>1. d # c /\ call'[d] = call[d] /\ At(d, "answered") /\ call[d].id \in Ids
        BY <1>1 DEF At, Progress
    <2>2. dirs'[call[d].id] = dirs[call[d].id] /\ WholeOf(d, call[d].id)
        BY <1>4, <2>1 DEF Has, DirInv, AnsweredWhole
    <2> QED
        BY <2>1, <2>2 DEF WholeOf
<1> QED
    BY <1>6, <1>7, <1>8, <1>9, <1>10 DEF DirInv

\* A call that has written everything answers, or is killed before it can.
LEMMA Ends ==
    ASSUME TypeOK, GivenOK, DirInv, NEW c \in Calls, NEW step \in {"answered", "stopped"},
           At(c, "write"), ~More(c), dirs' = dirs, NEW k \in Progress,
           call' = [call EXCEPT ![c] = k],
           k.at = step, k.files = call[c].files, k.id = call[c].id
    PROVE  DirInv'
<1>1. call \in [Calls -> Progress] /\ call'[c] = k
      /\ \A d \in Calls \ {c} : call'[d] = call[d]
    BY DEF TypeOK
<1>2. \A d \in Calls, i \in Ids : Has(d, i)' => Has(d, i)
    BY <1>1 DEF Has, At
<1>3. \A d \in Calls : At(d, "write")' \/ At(d, "name")' => call'[d] = call[d] /\ d # c
    BY <1>1 DEF At
<1>4. NotMade' /\ HasMade' /\ HasAlone' /\ NothingYet'
    BY <1>2, <1>3 DEF DirInv, NotMade, HasMade, HasAlone, NothingYet, At
<1>5. WritingFills'
    BY <1>3 DEF DirInv, WritingFills, Filled, At
<1>6. TextIsLast'
    BY <1>1, <1>2, <1>3 DEF DirInv, TextIsLast, At, More
<1>7. \A d \in Calls : call'[d].files = call[d].files
    BY <1>1
<1>8. WholeIfValidated'
    BY <1>7 DEF DirInv, WholeIfValidated, WholeOf
<1>9. AnsweredWhole'
    <2> SUFFICES ASSUME NEW d \in Calls, At(d, "answered")', call'[d].tool = "propose"
                 PROVE  WholeOf(d, call[d].id)'
        BY DEF AnsweredWhole
    <2>1. WholeOf(c, call[c].id)
        <3>1. Filled(c) /\ Checked(call[c].files)
            BY DEF DirInv, WritingFills, GivenOK
        <3>2. call[c].done = Len(call[c].files) + 2
            BY MoreOK
        <3> DEFINE in == dirs[call[c].id].holds
                   r == call[c].files
        <3>3. \A m \in 1..(Len(r) + 2) : in[writeProposal(r)[m]] = TextFor(c, r, writeProposal(r)[m])
            BY <3>1, <3>2 DEF Filled
        <3>4. /\ \A i \in DOMAIN r : in[r[i].path.file] = Proposed(r[i])
              /\ in["proposal.json"] = About(c)
              /\ in["validation.txt"] = About(c)
            <4> HIDE DEF in, r
            <4>1. Checked(r)
                BY <3>1 DEF r
            <4> QED
                BY <3>3, <4>1, FilledWhole
        <3> QED
            BY <3>4 DEF WholeOf
    <2> QED
        BY <1>1, <2>1 DEF DirInv, AnsweredWhole, WholeOf, At
<1> QED
    BY <1>4, <1>5, <1>6, <1>8, <1>9 DEF DirInv

LEMMA MakesDir ==
    ASSUME TypeOK, DirInv, NEW c \in Calls, NEW i \in Ids, MakeDir(c, i)
    PROVE  DirInv'
<1>1. /\ call \in [Calls -> Progress] /\ At(c, "name") /\ ~dirs[i].made
      /\ call'[c] = [call[c] EXCEPT !.at = "write", !.id = i]
      /\ \A d \in Calls \ {c} : call'[d] = call[d]
    BY DEF TypeOK, MakeDir, Take
<1>2. /\ dirs[i] = NoDir /\ dirs'[i] = NewDir
      /\ \A m \in Ids \ {i} : dirs'[m] = dirs[m]
    BY <1>1 DEF TypeOK, MakeDir, Take, DirInv, NotMade
<1>3. /\ call'[c].at = "write" /\ call'[c].id = i /\ call'[c].done = 0
      /\ call'[c].files = call[c].files
    BY <1>1 DEF DirInv, NothingYet, Progress
<1>4. \A d \in Calls : ~Has(d, i)
    BY <1>1 DEF DirInv, HasMade
<1>5. \A d \in Calls, m \in Ids : Has(d, m)' <=> (d = c /\ m = i) \/ (d # c /\ Has(d, m))
    BY <1>1, <1>3 DEF Has, At
<1>6. \A m \in Ids : dirs'[m].holds = dirs[m].holds
    BY <1>2 DEF NoDir, NewDir
<1>7. \A m \in Ids : dirs[m].holds["validation.txt"] # About(c)
    BY <1>1 DEF DirInv, TextIsLast, At
<1>8. \A d \in Calls : dirs[i].holds["validation.txt"] # About(d)
    BY <1>2, AboutOK DEF NoDir, Names
<1>9. NotMade' /\ HasMade' /\ HasAlone' /\ NothingYet'
    <2>1. NotMade'
        BY <1>2 DEF DirInv, NotMade, NewDir
    <2>2. HasMade'
        BY <1>2, <1>5 DEF DirInv, HasMade, NewDir
    <2>3. HasAlone'
        BY <1>4, <1>5 DEF DirInv, HasAlone
    <2>4. NothingYet'
        BY <1>1, <1>3 DEF DirInv, NothingYet, At
    <2> QED
        BY <2>1, <2>2, <2>3, <2>4
<1>10. WritingFills'
    <2>1. Filled(c)'
        BY <1>3 DEF Filled
    <2>2. ASSUME NEW d \in Calls \ {c}, At(d, "write")' PROVE Filled(d)'
        <3>1. Filled(d) /\ call'[d] = call[d] /\ call[d].id \in Ids
            BY <1>1, <2>2 DEF DirInv, WritingFills, At, Progress
        <3> QED
            BY <1>6, <3>1 DEF Filled
    <2> QED
        BY <2>1, <2>2 DEF WritingFills
<1>11. TextIsLast'
    <2> SUFFICES ASSUME NEW d \in Calls, NEW m \in Ids,
                        dirs'[m].holds["validation.txt"] = About(d)
                 PROVE  /\ At(d, "write")' \/ At(d, "answered")' \/ At(d, "stopped")'
                        /\ At(d, "write")' => call'[d].id = m /\ ~More(d)'
                        /\ \A e \in Calls : Has(e, m)' => e = d
        BY DEF TextIsLast
    <2>1. /\ d # c /\ m # i /\ call'[d] = call[d]
          /\ dirs[m].holds["validation.txt"] = About(d)
        BY <1>1, <1>6, <1>7, <1>8
    <2>2. \A e \in Calls : Has(e, m)' => e = d
        BY <1>5, <2>1 DEF DirInv, TextIsLast
    <2> QED
        BY <2>1, <2>2 DEF DirInv, TextIsLast, At, More
<1>12. WholeIfValidated'
    <2>1. \A d \in Calls : call'[d].files = call[d].files
        BY <1>1, <1>3
    <2> QED
        BY <1>6, <2>1 DEF DirInv, WholeIfValidated, WholeOf
<1>13. AnsweredWhole'
    <2> SUFFICES ASSUME NEW d \in Calls, At(d, "answered")', call'[d].tool = "propose"
                 PROVE  WholeOf(d, call[d].id)'
        BY DEF AnsweredWhole
    <2>1. call'[d] = call[d] /\ WholeOf(d, call[d].id) /\ call[d].id \in Ids
        BY <1>1, <1>3 DEF DirInv, AnsweredWhole, At, Progress
    <2> QED
        BY <1>6, <2>1 DEF WholeOf
<1> QED
    BY <1>9, <1>10, <1>11, <1>12, <1>13 DEF DirInv

\* The next file is written, and the findings only after the rest.
LEMMA Writes ==
    ASSUME TypeOK, TypeOK', GivenOK, GivenOK', DirInv, NEW c \in Calls, Write(c)
    PROVE  DirInv'
<1> DEFINE r == call[c].files
           m == call[c].id
           o == NextFile(c)
<1>1. /\ At(c, "write") /\ More(c) /\ m \in Ids /\ call \in [Calls -> Progress]
      /\ call'[c] = [call[c] EXCEPT !.done = @ + 1]
      /\ \A d \in Calls \ {c} : call'[d] = call[d]
    BY DEF Write, TypeOK, Progress
<1>2. /\ call'[c].at = "write" /\ call'[c].files = r /\ call'[c].id = m
      /\ call'[c].done = call[c].done + 1 /\ call'[c].tool = call[c].tool
    BY <1>1 DEF Progress, At
<1>3. o \in Names /\ call[c].done \in Nat /\ o = writeProposal(r)[call[c].done + 1]
    BY <1>1, MoreOK DEF NextFile
<1>4. /\ dirs'[m].made = dirs[m].made
      /\ dirs'[m].holds[o] = TextFor(c, r, o)
      /\ \A q \in Names \ {o} : dirs'[m].holds[q] = dirs[m].holds[q]
      /\ \A i \in Ids \ {m} : dirs'[i] = dirs[i]
    <2>1. dirs' = [dirs EXCEPT ![m].holds[o] = TextFor(c, r, o)]
        BY DEF Write, Puts
    <2>2. dirs \in [Ids -> [made : BOOLEAN, holds : [Names -> Texts]]]
        BY DEF TypeOK
    <2> QED
        BY <1>1, <1>3, <2>1, <2>2
<1>5. Has(c, m) /\ \A d \in Calls, i \in Ids : Has(d, i)' <=> Has(d, i)
    BY <1>1, <1>2 DEF Has, At
<1>6. \A d \in Calls \ {c} : Has(d, call[d].id) => call[d].id # m
    BY <1>1, <1>5 DEF DirInv, HasAlone
<1>7. NotMade' /\ HasMade' /\ HasAlone' /\ NothingYet'
    <2>1. dirs[m].made
        BY <1>1, <1>5 DEF DirInv, HasMade
    <2>2. NotMade'
        BY <1>4, <2>1 DEF DirInv, NotMade
    <2>3. HasMade'
        BY <1>4, <1>5 DEF DirInv, HasMade
    <2>4. HasAlone'
        BY <1>5 DEF DirInv, HasAlone
    <2>5. NothingYet'
        BY <1>1, <1>2 DEF DirInv, NothingYet, At
    <2> QED
        BY <2>2, <2>3, <2>4, <2>5
<1>8. Filled(c)'
    <2> SUFFICES ASSUME NEW k \in 1..(call[c].done + 1)
                 PROVE  dirs'[m].holds[writeProposal(r)[k]] = TextFor(c, r, writeProposal(r)[k])
        BY <1>2 DEF Filled
    <2>1. CASE writeProposal(r)[k] = o
        BY <1>4, <2>1
    <2>2. CASE writeProposal(r)[k] # o
        <3>1. k \in 1..call[c].done
            BY <1>3, <2>2
        <3>2. writeProposal(r)[k] \in Names
            BY <3>1, MoreOK, OutputsOK
        <3>3. Filled(c)
            BY <1>1 DEF DirInv, WritingFills
        <3> QED
            BY <1>4, <2>2, <3>1, <3>2, <3>3 DEF Filled
    <2> QED
        BY <2>1, <2>2
<1>9. WritingFills'
    <2> SUFFICES ASSUME NEW d \in Calls \ {c}, At(d, "write")' PROVE Filled(d)'
        BY <1>8 DEF WritingFills
    <2>1. call'[d] = call[d] /\ Filled(d) /\ Has(d, call[d].id) /\ call[d].id \in Ids
        BY <1>1 DEF DirInv, WritingFills, At, Has, Progress
    <2>2. dirs'[call[d].id] = dirs[call[d].id]
        BY <1>4, <1>6, <2>1
    <2> QED
        BY <2>1, <2>2 DEF Filled
\* Only the last file of a proposal is a validation.txt, and only of its own.
<1>10. \A i \in Ids, d \in Calls :
           dirs'[i].holds["validation.txt"] = About(d) =>
               IF d = c THEN i = m /\ call'[c].done = Len(r) + 2
               ELSE dirs'[i] = dirs[i] /\ i # m
    <2> SUFFICES ASSUME NEW i \in Ids, NEW d \in Calls,
                        dirs'[i].holds["validation.txt"] = About(d)
                 PROVE  IF d = c THEN i = m /\ call'[c].done = Len(r) + 2
                        ELSE dirs'[i] = dirs[i] /\ i # m
        OBVIOUS
    <2>1. dirs[i].holds["validation.txt"] # About(c)
        BY <1>1 DEF DirInv, TextIsLast
    <2>2. CASE i # m
        BY <1>4, <2>1, <2>2
    <2>3. CASE i = m /\ o = "validation.txt"
        <3>1. d = c
            <4>1. TextFor(c, r, o) = About(c)
                BY <1>1, <2>3, TextForEach DEF GivenOK
            <4> QED
                BY <1>4, <2>3, <4>1, AboutOK
        <3>2. call[c].done + 1 = Len(r) + 2
            BY <1>1, <2>3, MoreOK
        <3> QED
            BY <1>2, <2>3, <3>1, <3>2
    <2>4. CASE i = m /\ o # "validation.txt"
        <3>1. dirs[m].holds["validation.txt"] = About(d)
            BY <1>4, <2>4 DEF Names
        <3> QED
            BY <1>5, <2>1, <2>4, <3>1 DEF DirInv, TextIsLast
    <2> QED
        BY <2>2, <2>3, <2>4
<1>11. TextIsLast'
    <2> SUFFICES ASSUME NEW d \in Calls, NEW i \in Ids,
                        dirs'[i].holds["validation.txt"] = About(d)
                 PROVE  /\ At(d, "write")' \/ At(d, "answered")' \/ At(d, "stopped")'
                        /\ At(d, "write")' => call'[d].id = i /\ ~More(d)'
                        /\ \A e \in Calls : Has(e, i)' => e = d
        BY DEF TextIsLast
    <2>1. CASE d = c
        <3>1. i = m /\ call'[c].done = Len(r) + 2
            BY <1>10, <2>1
        <3>2. Len(writeProposal(r)) = Len(r) + 2 /\ Len(r) \in Nat
            BY MoreOK, OutputsOK, FilesOK
        <3>3. ~More(c)'
            BY <1>2, <3>1, <3>2 DEF More
        <3> QED
            BY <1>2, <1>5, <2>1, <3>1, <3>3 DEF At, DirInv, HasAlone
    <2>2. CASE d # c
        <3>1. dirs[i].holds["validation.txt"] = About(d) /\ call'[d] = call[d]
            BY <1>1, <1>10, <2>2
        <3> QED
            BY <1>5, <3>1 DEF DirInv, TextIsLast, At, More
    <2> QED
        BY <2>1, <2>2
<1>12. WholeIfValidated'
    <2> SUFFICES ASSUME NEW i \in Ids, NEW d \in Calls,
                        dirs'[i].holds["validation.txt"] = About(d)
                 PROVE  WholeOf(d, i)'
        BY DEF WholeIfValidated
    <2>1. CASE d = c
        <3>1. i = m /\ call'[c].done = Len(r) + 2 /\ Checked(r)
            BY <1>1, <1>10, <2>1 DEF GivenOK
        <3>2. \A k \in 1..(Len(r) + 2) :
                  dirs'[m].holds[writeProposal(r)[k]] = TextFor(c, r, writeProposal(r)[k])
            BY <1>2, <1>8, <3>1 DEF Filled
        <3> DEFINE in == dirs'[m].holds
        <3>3. /\ \A j \in DOMAIN r : in[r[j].path.file] = Proposed(r[j])
              /\ in["proposal.json"] = About(c)
              /\ in["validation.txt"] = About(c)
            <4>1. \A k \in 1..(Len(r) + 2) :
                      in[writeProposal(r)[k]] = TextFor(c, r, writeProposal(r)[k])
                BY <3>2
            <4>2. Checked(r)
                BY <3>1
            <4> HIDE DEF in, r
            <4> QED
                BY <4>1, <4>2, FilledWhole
        <3> QED
            BY <1>2, <2>1, <3>1, <3>3 DEF WholeOf
    <2>2. CASE d # c
        <3>1. dirs'[i] = dirs[i] /\ call'[d] = call[d]
            BY <1>1, <1>10, <2>2
        <3> QED
            BY <3>1 DEF DirInv, WholeIfValidated, WholeOf
    <2> QED
        BY <2>1, <2>2
<1>13. AnsweredWhole'
    <2> SUFFICES ASSUME NEW d \in Calls, At(d, "answered")', call'[d].tool = "propose"
                 PROVE  WholeOf(d, call[d].id)'
        BY DEF AnsweredWhole
    <2>1. /\ d # c /\ call'[d] = call[d] /\ WholeOf(d, call[d].id) /\ call[d].id \in Ids
          /\ Has(d, call[d].id)
        BY <1>1, <1>2 DEF DirInv, AnsweredWhole, At, Progress, Has
    <2>2. dirs'[call[d].id] = dirs[call[d].id]
        BY <1>4, <1>6, <2>1
    <2> QED
        BY <2>1, <2>2 DEF WholeOf
<1> QED
    BY <1>7, <1>9, <1>11, <1>12, <1>13 DEF DirInv

LEMMA DirStep ==
    TypeOK /\ TypeOK' /\ GivenOK /\ GivenOK' /\ DirInv /\ [Next]_vars => DirInv'
<1> SUFFICES ASSUME TypeOK, TypeOK', GivenOK, GivenOK', DirInv, [Next]_vars PROVE DirInv'
    OBVIOUS
<1>1. CASE UNCHANGED <<dirs, call>>
    BY <1>1 DEF DirInv, NotMade, HasMade, HasAlone, WritingFills, NothingYet, TextIsLast,
       WholeIfValidated, AnsweredWhole, Has, Filled, WholeOf, At, More
<1>2. ASSUME NEW c \in Calls, Step(c) PROVE DirInv'
    <2> DEFINE j == call[c]
    <2>1. j \in Progress /\ call \in [Calls -> Progress] /\ j.id \in Ids
        BY DEF TypeOK, Progress
    <2>2. dirs \in [Ids -> [made : BOOLEAN, holds : [Names -> Texts]]]
        BY DEF TypeOK
    \* Before its findings are written, they are nowhere.
    <2>3. ~(At(c, "write") /\ ~More(c)) /\ ~At(c, "answered") /\ ~At(c, "stopped") =>
              \A i \in Ids : dirs[i].holds["validation.txt"] # About(c)
        BY DEF DirInv, TextIsLast
    <2>4. ASSUME NEW k \in Progress, call' = [call EXCEPT ![c] = k], dirs' = dirs,
                 At(c, "idle") \/ At(c, "copy") \/ At(c, "loaded") \/ At(c, "name"),
                 k.at \notin {"write", "undo"}, k.at = "name" => k.done = 0,
                 k.at = "answered" => k.tool # "propose"
          PROVE  DirInv'
        BY <2>3, <2>4, GivesUp DEF At
    <2>6. CASE Begin(c)
        <3>1. /\ call' = [call EXCEPT ![c] = call'[c]] /\ call'[c] \in Progress
              /\ dirs' = dirs /\ At(c, "idle") /\ call'[c].at = "copy"
            <4>1. call'[c].at = "copy"
                BY <2>1, <2>6 DEF Begin, Idle
            <4> QED
                BY <2>1, <2>6, <4>1 DEF Begin, TypeOK
        <3> QED
            BY <2>4, <3>1
    <2>7. CASE Refuse(c) \/ OverlayFails(c) \/ FolderRefused(c)
        <3>1. /\ call' = [call EXCEPT ![c] = call'[c]] /\ call'[c] \in Progress
              /\ dirs' = dirs /\ call'[c].at = "refused"
              /\ At(c, "idle") \/ At(c, "copy") \/ At(c, "loaded")
            <4>1. call'[c].at = "refused"
                BY <2>1, <2>7 DEF Refuse, OverlayFails, FolderRefused, End, Idle
            <4> QED
                BY <2>1, <2>7, <4>1 DEF Refuse, OverlayFails, FolderRefused, End, TypeOK
        <3> QED
            BY <2>4, <3>1
    <2>8. CASE CopyFile(c) \/ Load(c)
        <3>1. call'[c].at \in {"copy", "loaded"} /\ dirs' = dirs /\ At(c, "copy")
            <4>1. CASE CopyFile(c)
                <5>1. PICK p \in j.todo : /\ At(c, "copy") /\ dirs' = dirs
                          /\ call'[c] = [j EXCEPT !.copy[p] = Authored(world[p]), !.todo = @ \ {p}]
                    BY <2>1, <4>1 DEF CopyFile
                <5>2. call'[c].at = j.at
                    BY <2>1, <5>1 DEF Progress
                <5> QED
                    BY <5>1, <5>2 DEF At
            <4>2. CASE Load(c)
                BY <2>1, <4>2 DEF Load, Progress
            <4> QED
                BY <2>8, <4>1, <4>2
        <3>2. call' = [call EXCEPT ![c] = call'[c]] /\ call'[c] \in Progress
            BY <2>1, <2>8 DEF CopyFile, Load, TypeOK
        <3> QED
            BY <2>4, <3>1, <3>2
    <2>9. CASE Validated(c)
        <3>1. /\ call'[c].at = "answered" /\ call'[c].tool = "validate" /\ dirs' = dirs
              /\ At(c, "loaded")
            BY <2>1, <2>9 DEF Validated, Leave, Idle
        <3>2. call' = [call EXCEPT ![c] = call'[c]] /\ call'[c] \in Progress
            BY <2>1, <2>9 DEF Validated, Leave, TypeOK
        <3> QED
            BY <2>4, <3>1, <3>2
    <2>10. CASE Folder(c)
        <3>1. call'[c].at = "name" /\ call'[c].done = 0 /\ dirs' = dirs /\ At(c, "loaded")
            BY <2>1, <2>10 DEF Folder, Leave, Idle
        <3>2. call' = [call EXCEPT ![c] = call'[c]] /\ call'[c] \in Progress
            BY <2>1, <2>10 DEF Folder, Leave, TypeOK
        <3> QED
            BY <2>4, <3>1, <3>2
    <2>11. ASSUME NEW i \in Ids, NameTaken(c, i) PROVE DirInv'
        <3>1. /\ call'[c].at \in {"name", "refused"} /\ call'[c].done = 0
              /\ dirs' = dirs /\ At(c, "name")
            <4>1. At(c, "name") /\ j.done = 0 /\ j.at = "name"
                BY <2>11 DEF NameTaken, DirInv, NothingYet, At
            <4>2. CASE call' = [call EXCEPT ![c].tries = @ + 1]
                <5>1. call'[c] = [j EXCEPT !.tries = @ + 1]
                    BY <2>1, <4>2
                <5>2. call'[c].at = "name" /\ call'[c].done = 0
                    BY <2>1, <4>1, <5>1 DEF Progress
                <5> QED
                    BY <2>11, <4>1, <5>2 DEF NameTaken
            <4>3. CASE End(c, "refused")
                BY <2>1, <2>11, <4>1, <4>3 DEF NameTaken, End, Idle
            <4> QED
                BY <2>11, <4>2, <4>3 DEF NameTaken
        <3>2. call' = [call EXCEPT ![c] = call'[c]] /\ call'[c] \in Progress
            <4>1. call' = [call EXCEPT ![c] = [j EXCEPT !.tries = @ + 1]] \/ End(c, "refused")
                BY <2>11 DEF NameTaken
            <4> QED
                BY <2>1, <4>1 DEF End, TypeOK
        <3> QED
            BY <2>4, <3>1, <3>2
    <2>12. ASSUME NEW i \in Ids, MakeDir(c, i) PROVE DirInv'
        BY <2>12, MakesDir
    <2>13. CASE Write(c)
        BY <2>13, Writes
    <2>14. CASE Answer(c)
        <3> DEFINE k == [j EXCEPT !.at = "answered"]
        <3>1. k \in Progress /\ k.at = "answered" /\ k.files = j.files /\ k.id = j.id
            BY <2>1 DEF Progress
        <3> QED
            BY <2>14, <3>1, Ends DEF Answer
    \* A call changes or clears its own directory.
    <2>15. ASSUME NEW k \in Progress, call' = [call EXCEPT ![c] = k], At(c, "write") \/ At(c, "undo"),
                  k.at \in {"undo", "refused", "stopped"},
                  At(c, "write") => More(c),
                  \A i \in Ids \ {j.id} : dirs'[i] = dirs[i],
                  ~dirs'[j.id].made => dirs'[j.id] = NoDir,
                  dirs'[j.id].holds["validation.txt"]
                      \in {dirs[j.id].holds["validation.txt"], Missing, Torn},
                  k.at = "undo" => At(c, "write") /\ k.id = j.id /\ dirs'[j.id].made
           PROVE  DirInv'
        <3>1. \A i \in Ids : dirs[i].holds["validation.txt"] # About(c)
            BY <2>3, <2>15 DEF At
        <3>2. Has(c, j.id) /\ k.at \notin {"write", "name", "answered"}
            BY <2>15 DEF Has
        <3> HIDE DEF j
        <3>3. \A i \in Ids : dirs'[i] = dirs[i] \/ (Has(c, i) /\
                  /\ ~dirs'[i].made => dirs'[i] = NoDir
                  /\ dirs'[i].holds["validation.txt"]
                         \in {dirs[i].holds["validation.txt"], Missing, Torn})
            BY <2>15, <3>2
        <3> QED
            BY <2>15, <3>1, <3>2, <3>3, GivesUp DEF j
    \* A file of its own is left torn, if it was at one.
    <2>16. ASSUME At(c, "write"), More(c), Puts(c, Torn) \/ UNCHANGED dirs
           PROVE  /\ \A i \in Ids \ {j.id} : dirs'[i] = dirs[i]
                  /\ dirs'[j.id].made
                  /\ dirs'[j.id].holds["validation.txt"]
                         \in {dirs[j.id].holds["validation.txt"], Torn}
        <3>1. dirs[j.id].made
            BY <2>1, <2>16 DEF DirInv, HasMade, Has
        <3>2. CASE Puts(c, Torn)
            <4>1. NextFile(c) \in Names /\ "validation.txt" \in Names
                BY <2>16, MoreOK DEF Names
            <4>2. dirs' = [dirs EXCEPT ![j.id].holds[NextFile(c)] = Torn]
                BY <3>2 DEF Puts
            <4> QED
                BY <2>1, <2>2, <3>1, <4>1, <4>2
        <3> QED
            BY <2>16, <3>1, <3>2
    <2>17. CASE WriteFails(c)
        <3> DEFINE k == [j EXCEPT !.at = "undo"]
        <3>1. k \in Progress /\ k.at = "undo" /\ k.id = j.id
            BY <2>1 DEF Progress
        <3>2. /\ call' = [call EXCEPT ![c] = k] /\ At(c, "write") /\ More(c)
              /\ Puts(c, Torn) \/ UNCHANGED dirs
            BY <2>17 DEF WriteFails
        <3> QED
            BY <2>15, <2>16, <3>1, <3>2
    <2>18. CASE Undo(c) \/ UndoStops(c)
        <3>1. dirs[j.id].made /\ At(c, "undo") /\ End(c, "refused")
            BY <2>1, <2>18 DEF Undo, UndoStops, DirInv, HasMade, Has
        <3>2. /\ \A i \in Ids \ {j.id} : dirs'[i] = dirs[i]
              /\ ~dirs'[j.id].made => dirs'[j.id] = NoDir
              /\ dirs'[j.id].holds["validation.txt"]
                     \in {dirs[j.id].holds["validation.txt"], Missing}
            <4>1. CASE Undo(c)
                BY <2>1, <2>2, <4>1 DEF Undo, NoDir, Names
            <4>2. CASE UndoStops(c)
                <5>1. PICK o \in Names : dirs' = [dirs EXCEPT ![j.id].holds[o] = Missing]
                    BY <4>2 DEF UndoStops
                <5>2. "validation.txt" \in Names
                    BY DEF Names
                <5> QED
                    BY <2>1, <2>2, <3>1, <5>1, <5>2
            <4> QED
                BY <2>18, <4>1, <4>2
        <3> DEFINE k == [Idle EXCEPT !.at = "refused"]
        <3>3. k \in Progress /\ k.at = "refused"
            BY IdleOK DEF Progress
        <3> QED
            BY <2>15, <3>1, <3>2, <3>3 DEF End, At
    <2>19. CASE Stop(c)
        <3> DEFINE k == [Idle EXCEPT !.at = "stopped", !.files = j.files, !.id = j.id]
        <3>1. /\ k \in Progress /\ k.at = "stopped" /\ k.files = j.files /\ k.id = j.id
              /\ call' = [call EXCEPT ![c] = k]
            BY <2>1, <2>19, IdleOK DEF Progress, Stop
        <3>2. CASE At(c, "write") /\ More(c)
            BY <2>15, <2>16, <2>19, <3>1, <3>2 DEF Stop
        <3>3. CASE At(c, "write") /\ ~More(c)
            BY <2>19, <3>1, <3>3, Ends DEF Stop
        <3>4. CASE ~At(c, "write")
            <4>1. /\ At(c, "idle") \/ At(c, "copy") \/ At(c, "loaded") \/ At(c, "name")
                  /\ dirs' = dirs
                BY <2>1, <2>19, <3>4 DEF Stop, At, Progress
            <4> QED
                BY <2>4, <3>1, <4>1
        <3> QED
            BY <3>2, <3>3, <3>4
    <2> QED
        BY <1>2, <2>6, <2>7, <2>8, <2>9, <2>10, <2>11, <2>12, <2>13, <2>14, <2>17, <2>18, <2>19
        DEF Step
<1> QED
    BY <1>1, <1>2 DEF Next, Author, vars

\* Whatever is killed, fails or runs beside it, a directory with the findings of
\* a call in it has the rest of that call's proposal (writeProposal,
\* proposalDir), for any calls, paths, requests and identifiers.
THEOREM WholeAlways == Spec => []WholeIfValidated
<1>1. DirInv => WholeIfValidated
    BY DEF DirInv
<1> QED
    BY TypeInit, TypeStep, DirInit, DirStep, <1>1, PTL DEF Spec

\* A call of propose that answered has left its proposal whole, and no other
\* call, failure or clean-up spoils it.
THEOREM AnsweredAlways == Spec => []AnsweredWhole
<1>1. DirInv => AnsweredWhole
    BY DEF DirInv
<1> QED
    BY TypeInit, TypeStep, DirInit, DirStep, <1>1, PTL DEF Spec
================================================================================
