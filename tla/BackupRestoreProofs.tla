-------------------------- MODULE BackupRestoreProofs --------------------------
(***************************************************************************)
(* Theorems about BackupRestore, for any anchors, photos, restores and     *)
(* stops: an archive can be restored from itself, a row has its file, and  *)
(* a restore that came to its end has brought everything back.             *)
(*                                                                         *)
(* BackupInv carries what the backup has read to the archive, while the    *)
(* person goes on; RestoreInv says what a restore knows of the instance,   *)
(* which nobody else changes; FreshInv that an instance nobody has acted   *)
(* in holds nothing but what the archive does.  With the latter and the    *)
(* uniqueness of anchors and hashes, having everything is being equal.     *)
(***************************************************************************)
EXTENDS BackupRestore, TLAPS

ArchivedPhoto == [hash : Hashes, anchor : Anchors, thumb : Thumbs]

\* The types TypeOK leaves out.
WorkTypes ==
    /\ listed \subseteq DecisionRow /\ unread \subseteq PhotoRow
    /\ gathered \subseteq [hash : Hashes, decision : Ids, thumb : Thumbs]
    /\ current \in [Restores -> SUBSET ArchivedPhoto]
    /\ seen \in [Restores -> SUBSET ArchivedPhoto]

\* What a backup has read: a snapshot of the decisions, one of the photos, whose
\* decisions are in the first, and thumbnails that were there.
BackupInv ==
    /\ backup \in {"idle", "listed"} => unread = {} /\ gathered = {}
    /\ \A d, e \in listed : d.id = e.id \/ d.anchor = e.anchor => d = e
    /\ backup \in {"reading", "written"} =>
        \A p \in unread \union gathered : \E d \in listed : d.id = p.decision
    /\ \A p, q \in unread : p.hash = q.hash => p = q
    /\ \A p, q \in gathered : p.hash = q.hash => p = q
    /\ \A p \in unread, q \in gathered : p.hash # q.hash
    /\ \A p \in gathered : p.thumb # "none"

\* Nothing is restored before there is an archive, and there is one archive, of
\* distinct trips and distinct photos.
ArchiveInv ==
    /\ archive # {} \/ fresh \/ settled \/ Restoring => backup = "written"
    /\ \A a, b \in archive : a = b
    /\ \A a \in archive :
        /\ \A d, e \in a.decisions : d.anchor = e.anchor => d = e
        /\ \A p, q \in a.photos : p.hash = q.hash => p = q

\* A row has a file, and so has the photo whose row is to come.
FileInv ==
    /\ \A p \in photos : thumbs[p.hash] # "none"
    /\ \A r \in Restores : pc[r] = "row" => \A x \in current[r] : thumbs[x.hash] # "none"

\* A thumbnail was cut short by a restore that was stopped.
CutInv ==
    stops = 0 =>
        /\ \A h \in Hashes : thumbs[h] # "cut"
        /\ \A p \in gathered : p.thumb # "cut"
        /\ \A a \in archive : \A p \in a.photos : p.thumb # "cut"

\* What a restore knows is so, and is all there is in the archive up to where
\* it is.
RestoreInv ==
    \A r \in Restores :
        /\ pc[r] \notin {"decisions", "thumbs", "row"} => ids[r] = {} /\ seen[r] = {}
        /\ \A m \in ids[r] : \E d \in decisions : d.id = m.id /\ d.anchor = m.anchor
        /\ \A x \in seen[r] : HashUsed(x.hash)
        /\ pc[r] \in {"thumbs", "row"} =>
            \A a \in archive : \A x \in a.decisions : \E m \in ids[r] : m.anchor = x.anchor

\* What an instance holds in which only restores have been at work.
FreshInv ==
    fresh => \A a \in archive :
        /\ \A d \in decisions : [anchor |-> d.anchor, action |-> d.action] \in a.decisions
        /\ \A p \in photos, d \in decisions : p.decision = d.id =>
            \E x \in a.photos : x.hash = p.hash /\ x.anchor = d.anchor

\* What a finished restore leaves.
SettledInv ==
    settled => \A a \in archive :
        /\ \A x \in a.decisions : AnchorUsed(x.anchor)
        /\ \A x \in a.photos : HashUsed(x.hash)

IInv ==
    /\ TypeOK /\ WorkTypes /\ BackupInv /\ ArchiveInv /\ FileInv /\ CutInv
    /\ RestoreInv /\ FreshInv /\ SettledInv /\ ArchiveIsRestorable

-----------------------------------------------------------------------------

\* The unique indexes and the foreign key hold whatever the commands do.
LEMMA StepType ==
    ASSUME TypeOK, WorkTypes, RestoreInv, [Next]_vars
    PROVE  TypeOK'
<1> USE BackupAssumption
    DEF TypeOK, DecisionRow, PhotoRow, Thumbs, Actions, WorkTypes, RestoreInv, ArchivedPhoto,
         instance, writing, restoring
<1>1. CASE \E i \in Ids, a \in Anchors, action \in Actions : Decide(i, a, action)
  BY <1>1 DEF PersonActs, Restoring, FreeId, AnchorUsed, Decide
<1>2. CASE \E d \in decisions, a \in Anchors, action \in Actions : Redecide(d, a, action)
  <2>1. PICK d \in decisions, a \in Anchors, action \in Actions :
            /\ a = d.anchor \/ ~AnchorUsed(a)
            /\ decisions' = (decisions \ {d}) \union {[id |-> d.id, anchor |-> a, action |-> action]}
    BY <1>2 DEF Redecide
  <2>2. UNCHANGED <<photos, thumbs, backup, archive, pc, ids, stops>>
    BY <1>2 DEF Redecide, PersonActs
  <2>3. d \in DecisionRow /\ [id |-> d.id, anchor |-> a, action |-> action] \in DecisionRow
    OBVIOUS
  <2>4. decisions' \subseteq DecisionRow
    BY <2>1, <2>3
  <2>5. \A e, f \in decisions' : e.id = f.id \/ e.anchor = f.anchor => e = f
    BY <2>1, <2>3 DEF AnchorUsed
  <2>6. ASSUME NEW p \in photos PROVE \E e \in decisions' : e.id = p.decision
    <3>1. PICK e \in decisions : e.id = p.decision
      OBVIOUS
    <3>2. CASE e = d
      <4>1. [id |-> d.id, anchor |-> a, action |-> action] \in decisions'
        BY <2>1
      <4> QED
        BY <3>1, <3>2, <4>1
    <3>3. CASE e # d
      BY <2>1, <3>1, <3>3
    <3> QED
      BY <3>2, <3>3
  <2> QED
    BY <2>2, <2>4, <2>5, <2>6
<1>3. CASE \E d \in decisions, h \in Hashes : Attach(d, h)
  BY <1>3 DEF PersonActs, Restoring, Attach
<1>4. CASE \E p \in photos : RemovePhoto(p)
  BY <1>4 DEF PersonActs, Restoring, RemovePhoto
<1>5. CASE Lose
  BY <1>5 DEF Restoring, Lose
<1>6. CASE ListDecisions \/ ListAllPhotos
  BY <1>6 DEF ListDecisions, ListAllPhotos, AllListed
<1>7. CASE \E p \in unread : ReadThumb(p)
  BY <1>7 DEF ReadThumb, Readable
<1>8. CASE WriteArchive
  <2>1. archive' \subseteq Archived
    BY <1>8 DEF WriteArchive, AnchorOf, Archived
  <2> QED
    BY <1>8, <2>1 DEF WriteArchive
<1>9. CASE \E r \in Restores : StartRestore(r) \/ StopRestore(r)
  BY <1>9 DEF StartRestore, StopRestore, Restoring, Goto, End
<1>10. CASE \E r \in Restores, a \in archive :
            \E x \in a.decisions, i \in Ids : RestoreDecision(r, x, i)
  <2>1. PICK r \in Restores, a \in archive :
                \E x \in a.decisions, i \in Ids : RestoreDecision(r, x, i)
    BY <1>10
  <2>2. PICK x \in a.decisions, i \in Ids : RestoreDecision(r, x, i)
    BY <2>1
  <2>3. x \in [anchor : Anchors, action : Actions] /\ [anchor |-> x.anchor, id |-> i] \in [anchor : Anchors, id : Ids]
    BY DEF Archived
  <2>4. ids' \in [Restores -> SUBSET [anchor : Anchors, id : Ids]]
    BY <2>2, <2>3 DEF RestoreDecision
  <2>5. [id |-> i, anchor |-> x.anchor, action |-> x.action] \in DecisionRow
    BY <2>3
  <2> QED
    BY <2>2, <2>4, <2>5 DEF RestoreDecision, Same, FreeId
<1>11. CASE \E r \in Restores, a \in archive : DecisionsRestored(r, a) \/ FinishRestore(r, a)
  BY <1>11 DEF DecisionsRestored, FinishRestore, Goto, End
<1>12. CASE \E r \in Restores, a \in archive :
            \E x \in a.photos : RestoreThumb(r, x) \/ ThumbCutShort(r, x)
  <2>1. PICK r \in Restores, a \in archive :
                \E x \in a.photos : RestoreThumb(r, x) \/ ThumbCutShort(r, x)
    BY <1>12
  <2>2. PICK x \in a.photos : RestoreThumb(r, x) \/ ThumbCutShort(r, x)
    BY <2>1
  <2>3. x \in [hash : Hashes, anchor : Anchors, thumb : Thumbs]
    BY DEF Archived
  <2>4. CASE RestoreThumb(r, x)
    BY <2>3, <2>4 DEF RestoreThumb, Placed, Goto
  <2>5. CASE ThumbCutShort(r, x)
    <3>1. thumbs' \in [Hashes -> Thumbs] /\ UNCHANGED <<decisions, photos, backup, archive>>
      BY <2>3, <2>5 DEF ThumbCutShort
    <3>2. pc' \in [Restores -> {"idle", "decisions", "thumbs", "row", "done", "stopped"}]
      BY <2>5 DEF ThumbCutShort, End, Goto
    <3>3. ids' \in [Restores -> SUBSET [anchor : Anchors, id : Ids]]
      BY <2>5 DEF ThumbCutShort, End
    <3>4. stops' \in 0 .. MaxStops
      BY <2>5 DEF ThumbCutShort
    <3> QED
      BY <3>1, <3>2, <3>3, <3>4
  <2> QED
    BY <2>2, <2>4, <2>5
<1>13. CASE \E r \in Restores, a \in archive : \E x \in a.photos : RestorePhoto(r, x)
  BY <1>13 DEF RestorePhoto, Owner, HashUsed, Goto
<1>14. CASE UNCHANGED vars
  BY <1>14 DEF vars
<1> QED
  BY <1>1, <1>2, <1>3, <1>4, <1>5, <1>6, <1>7, <1>8, <1>9, <1>10, <1>11, <1>12, <1>13,
       <1>14 DEF Next, Person, Backup, Restore

\* The types of what the commands have in hand.
LEMMA StepWorkTypes ==
    ASSUME TypeOK, WorkTypes, [Next]_vars
    PROVE  WorkTypes'
<1> USE BackupAssumption
    DEF TypeOK, DecisionRow, PhotoRow, Thumbs, Actions, WorkTypes, Archived, ArchivedPhoto,
         instance, writing, restoring
<1>1. CASE \E i \in Ids, a \in Anchors, action \in Actions : Decide(i, a, action)
  BY <1>1 DEF PersonActs, Restoring, FreeId, AnchorUsed, Decide
<1>2. CASE \E d \in decisions, a \in Anchors, action \in Actions : Redecide(d, a, action)
  BY <1>2 DEF PersonActs, Restoring, AnchorUsed, Redecide
<1>3. CASE \E d \in decisions, h \in Hashes : Attach(d, h)
  BY <1>3 DEF PersonActs, Restoring, Attach
<1>4. CASE \E p \in photos : RemovePhoto(p)
  BY <1>4 DEF PersonActs, Restoring, RemovePhoto
<1>5. CASE Lose
  BY <1>5 DEF Restoring, Lose
<1>6. CASE ListDecisions \/ ListAllPhotos
  BY <1>6 DEF ListDecisions, ListAllPhotos, AllListed
<1>7. CASE \E p \in unread : ReadThumb(p)
  BY <1>7 DEF ReadThumb, Readable
<1>8. CASE WriteArchive
  BY <1>8 DEF WriteArchive, AnchorOf
<1>9. CASE \E r \in Restores : StartRestore(r) \/ StopRestore(r)
  BY <1>9 DEF StartRestore, StopRestore, Restoring, Goto, End
<1>10. CASE \E r \in Restores, a \in archive :
            \E x \in a.decisions, i \in Ids : RestoreDecision(r, x, i)
  BY <1>10 DEF RestoreDecision, Same, FreeId
<1>11. CASE \E r \in Restores, a \in archive : DecisionsRestored(r, a) \/ FinishRestore(r, a)
  BY <1>11 DEF DecisionsRestored, FinishRestore, Goto, End
<1>12. CASE \E r \in Restores, a \in archive :
            \E x \in a.photos : RestoreThumb(r, x) \/ ThumbCutShort(r, x)
  BY <1>12 DEF RestoreThumb, ThumbCutShort, Placed, Goto, End
<1>13. CASE \E r \in Restores, a \in archive : \E x \in a.photos : RestorePhoto(r, x)
  BY <1>13 DEF RestorePhoto, Owner, HashUsed, Goto
<1>14. CASE UNCHANGED vars
  BY <1>14 DEF vars
<1> QED
  BY <1>1, <1>2, <1>3, <1>4, <1>5, <1>6, <1>7, <1>8, <1>9, <1>10, <1>11, <1>12, <1>13,
       <1>14 DEF Next, Person, Backup, Restore

\* Neither the person nor a restore touches what the backup has in hand.
LEMMA OnlyTheBackupWrites == ASSUME [Next]_vars PROVE Backup \/ UNCHANGED writing
<1>1. Person => UNCHANGED writing
  BY DEF Person, Decide, Redecide, Attach, RemovePhoto, PersonActs, Lose
<1>2. \A r \in Restores : Restore(r) => UNCHANGED writing
  BY DEF Restore, StartRestore, StopRestore, RestoreDecision, DecisionsRestored,
         RestoreThumb, ThumbCutShort, RestorePhoto, FinishRestore
<1> QED
  BY <1>1, <1>2 DEF Next, vars

\* What a backup has read stays consistent while the person goes on.
LEMMA StepBackup ==
    ASSUME TypeOK, WorkTypes, BackupInv, [Next]_vars
    PROVE  BackupInv'
<1> USE DEF TypeOK, DecisionRow, PhotoRow, Thumbs, WorkTypes, BackupInv, instance, writing
<1>1. CASE ListDecisions \/ ListAllPhotos
  BY <1>1 DEF ListDecisions, ListAllPhotos, AllListed
<1>2. CASE \E p \in unread : ReadThumb(p)
  BY <1>2 DEF ReadThumb, Readable
<1>3. CASE WriteArchive
  BY <1>3 DEF WriteArchive
<1>4. CASE UNCHANGED writing
  BY <1>4
<1> QED
  BY <1>1, <1>2, <1>3, <1>4, OnlyTheBackupWrites DEF Backup

\* The archive is made of what was read.
LEMMA StepArchive ==
    ASSUME TypeOK, WorkTypes, BackupInv, ArchiveInv, [Next]_vars
    PROVE  ArchiveInv'
<1> USE BackupAssumption
    DEF TypeOK, DecisionRow, PhotoRow, Thumbs, Actions, WorkTypes, BackupInv, ArchiveInv,
        Restoring, instance, writing, restoring
<1>1. CASE \E i \in Ids, a \in Anchors, action \in Actions : Decide(i, a, action)
  BY <1>1 DEF PersonActs, Restoring, FreeId, AnchorUsed, Decide
<1>2. CASE \E d \in decisions, a \in Anchors, action \in Actions : Redecide(d, a, action)
  BY <1>2 DEF PersonActs, Restoring, AnchorUsed, Redecide
<1>3. CASE \E d \in decisions, h \in Hashes : Attach(d, h)
  BY <1>3 DEF PersonActs, Restoring, Attach
<1>4. CASE \E p \in photos : RemovePhoto(p)
  BY <1>4 DEF PersonActs, Restoring, RemovePhoto
<1>5. CASE Lose
  BY <1>5 DEF Restoring, Lose
<1>6. CASE ListDecisions \/ ListAllPhotos
  BY <1>6 DEF ListDecisions, ListAllPhotos, AllListed
<1>7. CASE \E p \in unread : ReadThumb(p)
  BY <1>7 DEF ReadThumb, Readable
<1>8. CASE WriteArchive
  BY <1>8 DEF WriteArchive, AnchorOf
<1>9. CASE \E r \in Restores : StartRestore(r) \/ StopRestore(r)
  BY <1>9 DEF StartRestore, StopRestore, Restoring, Goto, End
<1>10. CASE \E r \in Restores, a \in archive :
            \E x \in a.decisions, i \in Ids : RestoreDecision(r, x, i)
  BY <1>10 DEF RestoreDecision, Same, FreeId
<1>11. CASE \E r \in Restores, a \in archive : DecisionsRestored(r, a) \/ FinishRestore(r, a)
  BY <1>11 DEF DecisionsRestored, FinishRestore, Goto, End
<1>12. CASE \E r \in Restores, a \in archive :
            \E x \in a.photos : RestoreThumb(r, x) \/ ThumbCutShort(r, x)
  BY <1>12 DEF RestoreThumb, ThumbCutShort, Placed, Goto, End
<1>13. CASE \E r \in Restores, a \in archive : \E x \in a.photos : RestorePhoto(r, x)
  BY <1>13 DEF RestorePhoto, Owner, HashUsed, Goto
<1>14. CASE UNCHANGED vars
  BY <1>14 DEF vars
<1> QED
  BY <1>1, <1>2, <1>3, <1>4, <1>5, <1>6, <1>7, <1>8, <1>9, <1>10, <1>11, <1>12, <1>13,
       <1>14 DEF Next, Person, Backup, Restore

\* An archive names what it needs.
LEMMA StepRestorable ==
    ASSUME TypeOK, WorkTypes, BackupInv, ArchiveInv, ArchiveIsRestorable, [Next]_vars
    PROVE  ArchiveIsRestorable'
<1> USE DEF TypeOK, DecisionRow, PhotoRow, Thumbs, Actions, WorkTypes, BackupInv, ArchiveInv,
        ArchiveIsRestorable, instance, writing
<1>1. CASE WriteArchive
  <2> SUFFICES ASSUME NEW a \in archive'
               PROVE /\ {p.hash : p \in a.photos} = {p.hash : p \in gathered'}
                     /\ \A p \in a.photos : p.thumb # "none" /\ \E d \in a.decisions : d.anchor = p.anchor
    OBVIOUS
  <2>1. /\ unread = {} /\ backup = "reading" /\ gathered' = gathered
        /\ a.decisions = {[anchor |-> d.anchor, action |-> d.action] : d \in listed}
        /\ a.photos = {[hash |-> x[1].hash, anchor |-> x[2], thumb |-> x[1].thumb] :
                        x \in {y \in gathered \X Anchors : y[2] \in AnchorOf(y[1].decision)}}
    BY <1>1 DEF WriteArchive
  <2>2. ASSUME NEW q \in gathered PROVE \E p \in a.photos : p.hash = q.hash
    <3>1. PICK d \in listed : d.id = q.decision
      BY <2>1
    <3>2. <<q, d.anchor>> \in {y \in gathered \X Anchors : y[2] \in AnchorOf(y[1].decision)}
      BY <3>1 DEF AnchorOf
    <3>3. [hash |-> q.hash, anchor |-> d.anchor, thumb |-> q.thumb] \in a.photos
      BY <2>1, <3>2
    <3> QED
      BY <3>3
  <2>3. ASSUME NEW p \in a.photos
        PROVE  \E q \in gathered : /\ p.hash = q.hash /\ p.thumb = q.thumb
                                   /\ \E d \in listed : d.anchor = p.anchor
    BY <2>1 DEF AnchorOf
  <2>4. {p.hash : p \in a.photos} = {p.hash : p \in gathered}
    BY <2>2, <2>3
  <2>5. ASSUME NEW p \in a.photos
        PROVE  p.thumb # "none" /\ \E d \in a.decisions : d.anchor = p.anchor
    <3>1. PICK q \in gathered, d \in listed : p.thumb = q.thumb /\ d.anchor = p.anchor
      BY <2>3
    <3>2. p.thumb # "none"
      BY <3>1
    <3>3. [anchor |-> d.anchor, action |-> d.action] \in a.decisions
      BY <2>1
    <3> QED
      BY <3>1, <3>2, <3>3
  <2> QED
    BY <2>1, <2>4, <2>5
<1>2. CASE ListDecisions \/ ListAllPhotos
  BY <1>2 DEF ListDecisions, ListAllPhotos
<1>3. CASE \E p \in unread : ReadThumb(p)
  BY <1>3 DEF ReadThumb
<1>4. CASE UNCHANGED writing
  BY <1>4
<1> QED
  BY <1>1, <1>2, <1>3, <1>4, OnlyTheBackupWrites DEF Backup

\* Files come before rows, and go with them.
LEMMA StepFile ==
    ASSUME TypeOK, WorkTypes, ArchiveIsRestorable, FileInv, [Next]_vars
    PROVE  FileInv'
<1> USE BackupAssumption
    DEF TypeOK, DecisionRow, PhotoRow, Thumbs, Actions, WorkTypes, ArchiveIsRestorable, FileInv,
         instance, writing, restoring
<1>1. CASE \E i \in Ids, a \in Anchors, action \in Actions : Decide(i, a, action)
  BY <1>1 DEF PersonActs, Restoring, FreeId, AnchorUsed, Decide
<1>2. CASE \E d \in decisions, a \in Anchors, action \in Actions : Redecide(d, a, action)
  BY <1>2 DEF PersonActs, Restoring, AnchorUsed, Redecide
<1>3. CASE \E d \in decisions, h \in Hashes : Attach(d, h)
  BY <1>3 DEF PersonActs, Restoring, Attach
<1>4. CASE \E p \in photos : RemovePhoto(p)
  BY <1>4 DEF PersonActs, Restoring, RemovePhoto
<1>5. CASE Lose
  BY <1>5 DEF Restoring, Lose
<1>6. CASE ListDecisions \/ ListAllPhotos
  BY <1>6 DEF ListDecisions, ListAllPhotos, AllListed
<1>7. CASE \E p \in unread : ReadThumb(p)
  BY <1>7 DEF ReadThumb, Readable
<1>8. CASE WriteArchive
  BY <1>8 DEF WriteArchive, AnchorOf
<1>9. CASE \E r \in Restores : StartRestore(r) \/ StopRestore(r)
  BY <1>9 DEF StartRestore, StopRestore, Restoring, Goto, End
<1>10. CASE \E r \in Restores, a \in archive :
            \E x \in a.decisions, i \in Ids : RestoreDecision(r, x, i)
  BY <1>10 DEF RestoreDecision, Same, FreeId
<1>11. CASE \E r \in Restores, a \in archive : DecisionsRestored(r, a) \/ FinishRestore(r, a)
  BY <1>11 DEF DecisionsRestored, FinishRestore, Goto, End
<1>12. CASE \E r \in Restores, a \in archive :
            \E x \in a.photos : RestoreThumb(r, x) \/ ThumbCutShort(r, x)
  <2>1. PICK r \in Restores, a \in archive :
                \E x \in a.photos : RestoreThumb(r, x) \/ ThumbCutShort(r, x)
    BY <1>12
  <2>2. PICK x \in a.photos : RestoreThumb(r, x) \/ ThumbCutShort(r, x)
    BY <2>1
  <2>3. x \in ArchivedPhoto /\ x.thumb # "none"
    BY DEF Archived, ArchivedPhoto
  <2>4. \A h \in Hashes : thumbs[h] # "none" => thumbs'[h] # "none"
    BY <2>2, <2>3 DEF RestoreThumb, ThumbCutShort, Placed, ArchivedPhoto
  <2>5. photos' = photos
    BY <2>2 DEF RestoreThumb, ThumbCutShort
  <2>6. ASSUME NEW q \in Restores, pc'[q] = "row", NEW y \in current'[q] PROVE thumbs'[y.hash] # "none"
    <3>1. CASE q = r
      BY <2>2, <2>3, <2>6, <3>1 DEF RestoreThumb, ThumbCutShort, Placed, Goto, End, ArchivedPhoto
    <3>2. CASE q # r
      BY <2>2, <2>4, <2>6, <3>2 DEF RestoreThumb, ThumbCutShort, Goto, End, ArchivedPhoto
    <3> QED
      BY <3>1, <3>2
  <2> QED
    BY <2>4, <2>5, <2>6
<1>13. CASE \E r \in Restores, a \in archive : \E x \in a.photos : RestorePhoto(r, x)
  BY <1>13 DEF RestorePhoto, Owner, HashUsed, Goto
<1>14. CASE UNCHANGED vars
  BY <1>14 DEF vars
<1> QED
  BY <1>1, <1>2, <1>3, <1>4, <1>5, <1>6, <1>7, <1>8, <1>9, <1>10, <1>11, <1>12, <1>13,
       <1>14 DEF Next, Person, Backup, Restore

\* Only a stop cuts a file short.
LEMMA StepCut ==
    ASSUME TypeOK, WorkTypes, CutInv, [Next]_vars
    PROVE  CutInv'
<1> USE BackupAssumption
    DEF TypeOK, DecisionRow, PhotoRow, Thumbs, Actions, WorkTypes, Archived, CutInv, instance,
         writing, restoring
<1>1. CASE \E i \in Ids, a \in Anchors, action \in Actions : Decide(i, a, action)
  BY <1>1 DEF PersonActs, Restoring, FreeId, AnchorUsed, Decide
<1>2. CASE \E d \in decisions, a \in Anchors, action \in Actions : Redecide(d, a, action)
  BY <1>2 DEF PersonActs, Restoring, AnchorUsed, Redecide
<1>3. CASE \E d \in decisions, h \in Hashes : Attach(d, h)
  BY <1>3 DEF PersonActs, Restoring, Attach
<1>4. CASE \E p \in photos : RemovePhoto(p)
  BY <1>4 DEF PersonActs, Restoring, RemovePhoto
<1>5. CASE Lose
  BY <1>5 DEF Restoring, Lose
<1>6. CASE ListDecisions \/ ListAllPhotos
  BY <1>6 DEF ListDecisions, ListAllPhotos, AllListed
<1>7. CASE \E p \in unread : ReadThumb(p)
  BY <1>7 DEF ReadThumb, Readable
<1>8. CASE WriteArchive
  BY <1>8 DEF WriteArchive, AnchorOf
<1>9. CASE \E r \in Restores : StartRestore(r) \/ StopRestore(r)
  BY <1>9 DEF StartRestore, StopRestore, Restoring, Goto, End
<1>10. CASE \E r \in Restores, a \in archive :
            \E x \in a.decisions, i \in Ids : RestoreDecision(r, x, i)
  BY <1>10 DEF RestoreDecision, Same, FreeId
<1>11. CASE \E r \in Restores, a \in archive : DecisionsRestored(r, a) \/ FinishRestore(r, a)
  BY <1>11 DEF DecisionsRestored, FinishRestore, Goto, End
<1>12. CASE \E r \in Restores, a \in archive :
            \E x \in a.photos : RestoreThumb(r, x) \/ ThumbCutShort(r, x)
  BY <1>12 DEF RestoreThumb, ThumbCutShort, Placed, Goto, End
<1>13. CASE \E r \in Restores, a \in archive : \E x \in a.photos : RestorePhoto(r, x)
  BY <1>13 DEF RestorePhoto, Owner, HashUsed, Goto
<1>14. CASE UNCHANGED vars
  BY <1>14 DEF vars
<1> QED
  BY <1>1, <1>2, <1>3, <1>4, <1>5, <1>6, <1>7, <1>8, <1>9, <1>10, <1>11, <1>12, <1>13,
       <1>14 DEF Next, Person, Backup, Restore

\* While a restore runs nobody else acts.
LEMMA StepRestore ==
    ASSUME TypeOK, WorkTypes, ArchiveInv, RestoreInv, [Next]_vars
    PROVE  RestoreInv'
<1> USE BackupAssumption
    DEF TypeOK, DecisionRow, PhotoRow, Thumbs, Actions, WorkTypes, ArchiveInv, RestoreInv,
         HashUsed, instance, writing, restoring
<1>1. CASE \E i \in Ids, a \in Anchors, action \in Actions : Decide(i, a, action)
  BY <1>1 DEF PersonActs, Restoring, FreeId, AnchorUsed, Decide
<1>2. CASE \E d \in decisions, a \in Anchors, action \in Actions : Redecide(d, a, action)
  BY <1>2 DEF PersonActs, Restoring, AnchorUsed, Redecide
<1>3. CASE \E d \in decisions, h \in Hashes : Attach(d, h)
  BY <1>3 DEF PersonActs, Restoring, Attach
<1>4. CASE \E p \in photos : RemovePhoto(p)
  BY <1>4 DEF PersonActs, Restoring, RemovePhoto
<1>5. CASE Lose
  BY <1>5 DEF Restoring, Lose
<1>6. CASE ListDecisions \/ ListAllPhotos
  BY <1>6 DEF ListDecisions, ListAllPhotos, AllListed
<1>7. CASE \E p \in unread : ReadThumb(p)
  BY <1>7 DEF ReadThumb, Readable
<1>8. CASE WriteArchive
  BY <1>8 DEF WriteArchive, Restoring
<1>9. CASE \E r \in Restores : StartRestore(r) \/ StopRestore(r)
  BY <1>9 DEF StartRestore, StopRestore, Restoring, Goto, End
<1>10. CASE \E r \in Restores, a \in archive :
            \E x \in a.decisions, i \in Ids : RestoreDecision(r, x, i)
  <2>1. PICK q \in Restores, a \in archive : \E x \in a.decisions, i \in Ids : RestoreDecision(q, x, i)
    BY <1>10
  <2>2. PICK x \in a.decisions, i \in Ids : RestoreDecision(q, x, i)
    BY <2>1
  <2>3. /\ pc[q] = "decisions" /\ UNCHANGED <<photos, archive, pc, seen>>
        /\ ids' = [ids EXCEPT ![q] = @ \union {[anchor |-> x.anchor, id |-> i]}]
    BY <2>2 DEF RestoreDecision
  <2>4. decisions \subseteq decisions' /\ \E d \in decisions' : d.id = i /\ d.anchor = x.anchor
    <3>1. CASE \E d \in decisions : Same(d, x)
      BY <2>2, <3>1 DEF RestoreDecision, Same
    <3>2. CASE ~\E d \in decisions : Same(d, x)
      <4>1. decisions' = decisions \union {[id |-> i, anchor |-> x.anchor, action |-> x.action]}
        BY <2>2, <3>2 DEF RestoreDecision
      <4>2. [id |-> i, anchor |-> x.anchor, action |-> x.action] \in decisions'
        BY <4>1
      <4> QED
        BY <4>1, <4>2
    <3> QED
      BY <3>1, <3>2
  <2>5. ASSUME NEW r \in Restores, NEW m \in ids'[r]
        PROVE  \E d \in decisions' : d.id = m.id /\ d.anchor = m.anchor
    <3>1. m \in ids[r] \/ m = [anchor |-> x.anchor, id |-> i]
      <4>1. CASE r = q
        BY <2>3, <2>5, <4>1
      <4>2. CASE r # q
        BY <2>3, <2>5, <4>2
      <4> QED
        BY <4>1, <4>2
    <3>2. CASE m \in ids[r]
      BY <2>4, <3>2
    <3>3. CASE m = [anchor |-> x.anchor, id |-> i]
      BY <2>4, <3>3
    <3> QED
      BY <3>1, <3>2, <3>3
  <2>6. \A r \in Restores : pc[r] # "decisions" => ids'[r] = ids[r]
    BY <2>3
  <2>7. ASSUME NEW r \in Restores, pc[r] \notin {"decisions", "thumbs", "row"}
        PROVE  ids'[r] = {} /\ seen[r] = {}
    BY <2>6, <2>7
  <2>8. ASSUME NEW r \in Restores, pc[r] \in {"thumbs", "row"}, NEW b \in archive, NEW y \in b.decisions
        PROVE  \E m \in ids'[r] : m.anchor = y.anchor
    BY <2>6, <2>8
  <2>9. \A r \in Restores : \A y \in seen[r] : \E p \in photos : p.hash = y.hash
    OBVIOUS
  <2> QED
    BY ONLY <2>3, <2>5, <2>7, <2>8, <2>9 DEF RestoreInv, HashUsed
<1>11. CASE \E r \in Restores, a \in archive : DecisionsRestored(r, a) \/ FinishRestore(r, a)
  <2>1. PICK q \in Restores, a \in archive : DecisionsRestored(q, a) \/ FinishRestore(q, a)
    BY <1>11
  <2>2. CASE DecisionsRestored(q, a)
    <3>1. /\ pc[q] = "decisions" /\ pc' = [pc EXCEPT ![q] = "thumbs"]
          /\ {x.anchor : x \in a.decisions} = {m.anchor : m \in ids[q]}
          /\ UNCHANGED <<instance, archive, ids, seen>>
      BY <2>2 DEF DecisionsRestored, Goto
    <3>2. ASSUME NEW b \in archive, NEW x \in b.decisions PROVE \E m \in ids[q] : m.anchor = x.anchor
      <4>1. x \in a.decisions
        OBVIOUS
      <4>2. x.anchor \in {y.anchor : y \in a.decisions}
        BY <4>1
      <4>3. {y.anchor : y \in a.decisions} = {m.anchor : m \in ids[q]}
        BY <3>1
      <4> QED
        BY ONLY <4>2, <4>3
    <3>3. \A r \in Restores : r # q => pc'[r] = pc[r]
      BY <3>1
    <3> QED
      BY <3>1, <3>2, <3>3
  <2>3. CASE FinishRestore(q, a)
    BY <2>3 DEF FinishRestore, Goto, End
  <2> QED
    BY <2>1, <2>2, <2>3
<1>12. CASE \E r \in Restores, a \in archive :
            \E x \in a.photos : RestoreThumb(r, x) \/ ThumbCutShort(r, x)
  BY <1>12 DEF RestoreThumb, ThumbCutShort, Placed, Goto, End
<1>13. CASE \E r \in Restores, a \in archive : \E x \in a.photos : RestorePhoto(r, x)
  <2>1. PICK q \in Restores, a \in archive : \E x \in a.photos : RestorePhoto(q, x)
    BY <1>13
  <2>2. PICK x \in a.photos : RestorePhoto(q, x)
    BY <2>1
  <2>3. /\ pc[q] = "row" /\ pc' = [pc EXCEPT ![q] = "thumbs"]
        /\ seen' = [seen EXCEPT ![q] = @ \union {x}] /\ UNCHANGED <<decisions, archive, ids>>
    BY <2>2 DEF RestorePhoto, Goto
  <2>4. photos \subseteq photos' /\ \E p \in photos' : p.hash = x.hash
    <3>1. CASE HashUsed(x.hash)
      BY <2>2, <3>1 DEF RestorePhoto
    <3>2. CASE ~HashUsed(x.hash)
      <4>1. PICK i \in Owner(q, x) : photos' = photos \union {[hash |-> x.hash, decision |-> i]}
        BY <2>2, <3>2 DEF RestorePhoto
      <4>2. [hash |-> x.hash, decision |-> i] \in photos'
        BY <4>1
      <4> QED
        BY <4>1, <4>2
    <3> QED
      BY <3>1, <3>2
  <2>5. ASSUME NEW r \in Restores, NEW y \in seen'[r] PROVE \E p \in photos' : p.hash = y.hash
    <3>1. y \in seen[r] \/ y = x
      <4>1. CASE r = q
        BY <2>3, <2>5, <4>1
      <4>2. CASE r # q
        BY <2>3, <2>5, <4>2
      <4> QED
        BY <4>1, <4>2
    <3>2. CASE y \in seen[r]
      BY <2>4, <3>2
    <3>3. CASE y = x
      BY <2>4, <3>3
    <3> QED
      BY <3>1, <3>2, <3>3
  <2>6. \A r \in Restores : pc'[r] = pc[r] \/ (r = q /\ pc'[r] = "thumbs")
    BY <2>3
  <2>7. \A r \in Restores : r # q => seen'[r] = seen[r]
    BY <2>3
  <2> QED
    BY <2>3, <2>5, <2>6, <2>7
<1>14. CASE UNCHANGED vars
  BY <1>14 DEF vars
<1> QED
  BY <1>1, <1>2, <1>3, <1>4, <1>5, <1>6, <1>7, <1>8, <1>9, <1>10, <1>11, <1>12, <1>13,
       <1>14 DEF Next, Person, Backup, Restore

\* What FreshInv and SettledInv are about stays as it is.
LEMMA QuietFresh ==
    ASSUME FreshInv, UNCHANGED <<decisions, photos, archive, fresh>>
    PROVE  FreshInv'
BY DEF FreshInv

LEMMA QuietSettled ==
    ASSUME SettledInv, UNCHANGED <<decisions, photos, archive, settled>> PROVE SettledInv'
BY DEF SettledInv, AnchorUsed, HashUsed

\* A restore adds nothing that is not archived.
LEMMA StepFresh ==
    ASSUME TypeOK, WorkTypes, ArchiveInv, RestoreInv, FreshInv, [Next]_vars
    PROVE  FreshInv'
<1> USE BackupAssumption
    DEF TypeOK, DecisionRow, PhotoRow, Thumbs, Actions, WorkTypes, ArchiveInv, RestoreInv,
         FreshInv, instance, writing, restoring
<1>1. CASE \E i \in Ids, a \in Anchors, action \in Actions : Decide(i, a, action)
  BY <1>1 DEF PersonActs, Restoring, FreeId, AnchorUsed, Decide
<1>2. CASE \E d \in decisions, a \in Anchors, action \in Actions : Redecide(d, a, action)
  BY <1>2 DEF PersonActs, Restoring, AnchorUsed, Redecide
<1>3. CASE \E d \in decisions, h \in Hashes : Attach(d, h)
  BY <1>3 DEF PersonActs, Restoring, Attach
<1>4. CASE \E p \in photos : RemovePhoto(p)
  BY <1>4 DEF PersonActs, Restoring, RemovePhoto
<1>5. CASE Lose
  BY <1>5 DEF Restoring, Lose
<1>6. CASE ListDecisions \/ ListAllPhotos
  BY <1>6 DEF ListDecisions, ListAllPhotos, AllListed
<1>7. CASE \E p \in unread : ReadThumb(p)
  BY <1>7 DEF ReadThumb, Readable
<1>8. CASE WriteArchive
  BY <1>8 DEF WriteArchive, AnchorOf
<1>9. CASE \E r \in Restores : StartRestore(r) \/ StopRestore(r)
  BY <1>9, QuietFresh DEF StartRestore, StopRestore
<1>10. CASE \E r \in Restores, a \in archive :
            \E x \in a.decisions, i \in Ids : RestoreDecision(r, x, i)
  <2>1. PICK r \in Restores, a \in archive :
                \E x \in a.decisions, i \in Ids : RestoreDecision(r, x, i)
    BY <1>10
  <2>2. PICK x \in a.decisions, i \in Ids : RestoreDecision(r, x, i)
    BY <2>1
  <2>3. UNCHANGED <<photos, archive, fresh>>
    BY <2>2 DEF RestoreDecision
  <2>4. CASE decisions' = decisions
    BY <2>3, <2>4, QuietFresh
  <2>5. CASE /\ FreeId(i)
             /\ decisions' = decisions \union {[id |-> i, anchor |-> x.anchor, action |-> x.action]}
    <3>1. x = [anchor |-> x.anchor, action |-> x.action]
      BY DEF Archived
    <3>2. \A p \in photos : p.decision # i
      BY <2>5 DEF FreeId
    <3> QED
      BY <2>3, <2>5, <3>1, <3>2
  <2> QED
    BY <2>2, <2>4, <2>5 DEF RestoreDecision
<1>11. CASE \E r \in Restores, a \in archive : DecisionsRestored(r, a) \/ FinishRestore(r, a)
  BY <1>11, QuietFresh DEF DecisionsRestored, FinishRestore
<1>12. CASE \E r \in Restores, a \in archive :
            \E x \in a.photos : RestoreThumb(r, x) \/ ThumbCutShort(r, x)
  BY <1>12, QuietFresh DEF RestoreThumb, ThumbCutShort
<1>13. CASE \E r \in Restores, a \in archive : \E x \in a.photos : RestorePhoto(r, x)
  BY <1>13 DEF RestorePhoto, Owner, HashUsed, Goto
<1>14. CASE UNCHANGED vars
  BY <1>14 DEF vars
<1> QED
  BY <1>1, <1>2, <1>3, <1>4, <1>5, <1>6, <1>7, <1>8, <1>9, <1>10, <1>11, <1>12, <1>13,
       <1>14 DEF Next, Person, Backup, Restore

\* A restore at its end has been through the whole archive.
LEMMA StepSettled ==
    ASSUME TypeOK, WorkTypes, ArchiveInv, RestoreInv, SettledInv, [Next]_vars
    PROVE  SettledInv'
<1> USE BackupAssumption
    DEF TypeOK, DecisionRow, PhotoRow, Thumbs, Actions, WorkTypes, ArchiveInv, RestoreInv,
         SettledInv, AnchorUsed, HashUsed, instance, writing, restoring
<1>1. CASE \E i \in Ids, a \in Anchors, action \in Actions : Decide(i, a, action)
  BY <1>1 DEF PersonActs, Restoring, FreeId, AnchorUsed, Decide
<1>2. CASE \E d \in decisions, a \in Anchors, action \in Actions : Redecide(d, a, action)
  BY <1>2 DEF PersonActs, Restoring, AnchorUsed, Redecide
<1>3. CASE \E d \in decisions, h \in Hashes : Attach(d, h)
  BY <1>3 DEF PersonActs, Restoring, Attach
<1>4. CASE \E p \in photos : RemovePhoto(p)
  BY <1>4 DEF PersonActs, Restoring, RemovePhoto
<1>5. CASE Lose
  BY <1>5 DEF Restoring, Lose
<1>6. CASE ListDecisions \/ ListAllPhotos
  BY <1>6 DEF ListDecisions, ListAllPhotos, AllListed
<1>7. CASE \E p \in unread : ReadThumb(p)
  BY <1>7 DEF ReadThumb, Readable
<1>8. CASE WriteArchive
  BY <1>8 DEF WriteArchive, AnchorOf
<1>9. CASE \E r \in Restores : StartRestore(r) \/ StopRestore(r)
  BY <1>9 DEF StartRestore, StopRestore, Restoring, Goto, End
<1>10. CASE \E r \in Restores, a \in archive :
            \E x \in a.decisions, i \in Ids : RestoreDecision(r, x, i)
  BY <1>10 DEF RestoreDecision, Same, FreeId
<1>11. CASE \E r \in Restores, a \in archive : DecisionsRestored(r, a) \/ FinishRestore(r, a)
  <2>1. PICK r \in Restores, a \in archive : DecisionsRestored(r, a) \/ FinishRestore(r, a)
    BY <1>11
  <2>2. CASE DecisionsRestored(r, a)
    BY <2>2, QuietSettled DEF DecisionsRestored
  <2>3. CASE FinishRestore(r, a)
    <3>1. pc[r] = "thumbs" /\ seen[r] = a.photos /\ UNCHANGED <<decisions, photos, archive>>
      BY <2>3 DEF FinishRestore
    <3>2. \A x \in a.decisions : AnchorUsed(x.anchor)
      BY <3>1
    <3>3. \A x \in a.photos : HashUsed(x.hash)
      BY <3>1
    <3> QED
      BY <3>1, <3>2, <3>3
  <2> QED
    BY <2>1, <2>2, <2>3
<1>12. CASE \E r \in Restores, a \in archive :
            \E x \in a.photos : RestoreThumb(r, x) \/ ThumbCutShort(r, x)
  BY <1>12, QuietSettled DEF RestoreThumb, ThumbCutShort
<1>13. CASE \E r \in Restores, a \in archive : \E x \in a.photos : RestorePhoto(r, x)
  BY <1>13 DEF RestorePhoto, Owner, HashUsed, Goto
<1>14. CASE UNCHANGED vars
  BY <1>14 DEF vars
<1> QED
  BY <1>1, <1>2, <1>3, <1>4, <1>5, <1>6, <1>7, <1>8, <1>9, <1>10, <1>11, <1>12, <1>13,
       <1>14 DEF Next, Person, Backup, Restore

-----------------------------------------------------------------------------

\* The invariant holds on an empty instance.
LEMMA InitInv == Init => IInv
BY BackupAssumption
   DEF Init, IInv, TypeOK, WorkTypes, BackupInv, ArchiveInv, FileInv, CutInv, RestoreInv,
       FreshInv, SettledInv, ArchiveIsRestorable, Restoring, Thumbs, DecisionRow, PhotoRow,
       ArchivedPhoto, Archived

\* The invariant of the module: whatever the person, the backup and any number of
\* restores do, in whatever order, and wherever they are stopped.
THEOREM InductiveInvariant == Spec => []IInv
<1>1. Init => IInv
  BY InitInv
<1>2. IInv /\ [Next]_vars => IInv'
  BY StepType, StepWorkTypes, StepBackup, StepArchive, StepRestorable, StepFile, StepCut,
     StepRestore, StepFresh, StepSettled DEF IInv
<1> QED
  BY <1>1, <1>2, PTL DEF Spec

\* The rows keep to their types, the unique indexes of decisions and photos and
\* the foreign key between them.
THEOREM TypeCorrect == Spec => []TypeOK
<1>1. IInv => TypeOK
  BY DEF IInv
<1> QED
  BY <1>1, InductiveInvariant, PTL

\* What backup.Write writes names the decision and holds the thumbnail of every
\* photo in it, although it reads the tables one after the other while the
\* person goes on deciding, attaching and removing.
THEOREM ArchivesAreRestorable == Spec => []ArchiveIsRestorable
<1>1. IInv => ArchiveIsRestorable
  BY DEF IInv
<1> QED
  BY <1>1, InductiveInvariant, PTL

\* Whoever acts, and wherever a restore is stopped, a row has its file; and
\* only a stop can have cut it short.
THEOREM RowsHaveFiles == Spec => []RowHasThumb
<1>1. ASSUME IInv PROVE RowHasThumb
  <2> SUFFICES ASSUME NEW p \in photos
               PROVE  thumbs[p.hash] = "whole" \/ (thumbs[p.hash] = "cut" /\ stops > 0)
    BY DEF RowHasThumb
  <2>1. p.hash \in Hashes /\ thumbs[p.hash] \in Thumbs /\ thumbs[p.hash] # "none"
    BY <1>1 DEF IInv, TypeOK, PhotoRow, FileInv
  <2>2. stops \in Nat /\ (stops = 0 => thumbs[p.hash] # "cut")
    BY <1>1, <2>1, BackupAssumption DEF IInv, TypeOK, CutInv
  <2> QED
    BY <2>1, <2>2 DEF Thumbs
<1> QED
  BY <1>1, InductiveInvariant, PTL

\* A restore that came to its end, after however many that were stopped, has
\* brought every archived trip and photo back; an instance nobody has acted in
\* then holds exactly the archive, each photo with its trip under its new id.
THEOREM RestoreRecovers == Spec => []Recovers
<1>1. ASSUME IInv PROVE Recovers
  <2> SUFFICES ASSUME settled, NEW a \in archive
               PROVE  LET archivedPhotos == {[hash |-> p.hash, anchor |-> p.anchor] : p \in a.photos} IN
                      /\ {d.anchor : d \in a.decisions} \subseteq {d.anchor : d \in decisions}
                      /\ {p.hash : p \in archivedPhotos} \subseteq {p.hash : p \in photos}
                      /\ fresh => Kept = a.decisions /\ Owned = archivedPhotos
    BY DEF Recovers
  <2> DEFINE archivedPhotos == {[hash |-> p.hash, anchor |-> p.anchor] : p \in a.photos}
  <2>1. ASSUME NEW x \in a.decisions PROVE \E d \in decisions : d.anchor = x.anchor
    BY <1>1 DEF IInv, SettledInv, AnchorUsed
  <2>2. ASSUME NEW x \in a.photos PROVE \E p \in photos : p.hash = x.hash
    BY <1>1 DEF IInv, SettledInv, HashUsed
  <2>3. {d.anchor : d \in a.decisions} \subseteq {d.anchor : d \in decisions}
    BY <2>1
  <2>4. ASSUME NEW y \in archivedPhotos PROVE \E p \in photos : p.hash = y.hash
    <3>1. PICK x \in a.photos : y = [hash |-> x.hash, anchor |-> x.anchor]
      OBVIOUS
    <3> QED
      BY <2>2, <3>1
  <2>5. ASSUME fresh PROVE Kept = a.decisions
    <3>1. \A d \in decisions : [anchor |-> d.anchor, action |-> d.action] \in a.decisions
      BY <1>1, <2>5 DEF IInv, FreshInv
    <3>2. ASSUME NEW x \in a.decisions PROVE x \in Kept
      <4>1. PICK d \in decisions : d.anchor = x.anchor
        BY <2>1
      <4>2. [anchor |-> d.anchor, action |-> d.action] = x
        BY <1>1, <3>1, <4>1 DEF IInv, ArchiveInv
      <4> QED
        BY <4>2 DEF Kept
    <3> QED
      BY <3>1, <3>2 DEF Kept
  <2>6. ASSUME fresh PROVE Owned = archivedPhotos
    <3>1. ASSUME NEW p \in photos, NEW d \in decisions, p.decision = d.id
          PROVE  \E x \in a.photos : x.hash = p.hash /\ x.anchor = d.anchor
      BY <1>1, <2>6, <3>1 DEF IInv, FreshInv
    <3>2. ASSUME NEW y \in Owned PROVE y \in archivedPhotos
      <4>1. PICK p \in photos, d \in decisions :
                p.decision = d.id /\ y = [hash |-> p.hash, anchor |-> d.anchor]
        BY DEF Owned
      <4>2. PICK x \in a.photos : x.hash = p.hash /\ x.anchor = d.anchor
        BY <3>1, <4>1
      <4> QED
        BY <4>1, <4>2
    <3>3. ASSUME NEW y \in archivedPhotos PROVE y \in Owned
      <4>1. PICK z \in a.photos : y = [hash |-> z.hash, anchor |-> z.anchor]
        OBVIOUS
      <4>2. PICK p \in photos : p.hash = z.hash
        BY <2>2
      <4>3. PICK d \in decisions : d.id = p.decision
        BY <1>1 DEF IInv, TypeOK
      <4>4. PICK x \in a.photos : x.hash = p.hash /\ x.anchor = d.anchor
        BY <3>1, <4>3
      <4>5. x = z
        BY <1>1, <4>2, <4>4 DEF IInv, ArchiveInv
      <4>6. <<p, d>> \in {w \in photos \X decisions : w[1].decision = w[2].id}
        BY <4>3
      <4>7. [hash |-> p.hash, anchor |-> d.anchor] \in Owned
        BY <4>6 DEF Owned
      <4> QED
        BY <4>1, <4>2, <4>4, <4>5, <4>7
    <3> QED
      BY <3>2, <3>3
  <2> QED
    BY <2>3, <2>4, <2>5, <2>6
<1> QED
  BY <1>1, InductiveInvariant, PTL

=============================================================================
