---------------------------- MODULE BackupRestore ----------------------------
(***************************************************************************)
(* roadbook backup and roadbook restore, for the built-in user.  A backup  *)
(* reads the decisions, then the photos, then one thumbnail after the      *)
(* other, outside a transaction, while the server may be running.  A       *)
(* restore goes through an archive row by row and file by file, each in a  *)
(* statement of its own, into whatever the instance holds by then; it may  *)
(* be stopped anywhere and started again.                                  *)
(*                                                                         *)
(* Rows are archived by identity: a decision by its anchor, a photo by its *)
(* content hash.  An archive holds a thumbnail for every photo it names,   *)
(* so the loop over photos that have none in it does nothing.              *)
(***************************************************************************)
EXTENDS Naturals, FiniteSets

CONSTANTS
    Anchors,        \* what a decision can be anchored at
    Hashes,         \* the photos there are, by content hash
    Restores,       \* runs of the restore command
    Ids,            \* bound: ids of decisions
    MaxStops,       \* bound: runs that are killed or refused a statement
    Live,           \* the person goes on while the backup runs
    DiskMayFill     \* a thumbnail may be cut short by a full disk

ASSUME BackupAssumption ==
    /\ Ids = 1 .. Cardinality(Ids)
    /\ MaxStops \in Nat /\ Live \in BOOLEAN /\ DiskMayFill \in BOOLEAN

VARIABLES
    decisions,      \* rows: [id, anchor, action]
    photos,         \* rows: [hash, decision], unique by hash
    thumbs,         \* hash |-> "none", "whole" or "cut"
    \* The backup command.
    backup,         \* how far it is
    listed,         \* the decisions it has read
    unread,         \* the photos whose thumbnails it has still to read
    gathered,       \* the photos it will archive
    archive,        \* the file it wrote, as a set of at most one
    \* The restore commands.
    pc,             \* how far each is
    ids,            \* restore |-> idByAnchor, as pairs
    current,        \* restore |-> the photo whose thumbnail is there
    seen,           \* restore |-> the photos it is through with
    stops,
    \* History, for the properties only.
    fresh,          \* nothing but restores has happened since the loss
    settled         \* a restore was the last thing that happened

instance == <<decisions, photos, thumbs>>
writing == <<backup, listed, unread, gathered, archive>>
restoring == <<pc, ids, current, seen>>
vars == <<instance, writing, restoring, stops, fresh, settled>>

Actions == {"confirmed", "dismissed"}
Thumbs == {"none", "whole", "cut"}

DecisionRow == [id : Ids, anchor : Anchors, action : Actions]
PhotoRow == [hash : Hashes, decision : Ids]
Archived ==
    [decisions : SUBSET [anchor : Anchors, action : Actions],
     photos : SUBSET [hash : Hashes, anchor : Anchors, thumb : Thumbs]]

\* Beside its type: the unique indexes, and the foreign key of photos.
TypeOK ==
    /\ decisions \subseteq DecisionRow /\ photos \subseteq PhotoRow
    /\ \A d, e \in decisions : d.id = e.id \/ d.anchor = e.anchor => d = e
    /\ \A p, q \in photos : p.hash = q.hash => p = q
    /\ \A p \in photos : \E d \in decisions : d.id = p.decision
    /\ thumbs \in [Hashes -> Thumbs]
    /\ backup \in {"idle", "listed", "reading", "written", "failed"}
    /\ archive \subseteq Archived
    /\ pc \in [Restores -> {"idle", "decisions", "thumbs", "row", "done", "stopped"}]
    /\ ids \in [Restores -> SUBSET [anchor : Anchors, id : Ids]]
    /\ stops \in 0 .. MaxStops

Init ==
    /\ decisions = {} /\ photos = {} /\ thumbs = [h \in Hashes |-> "none"]
    /\ backup = "idle" /\ listed = {} /\ unread = {} /\ gathered = {} /\ archive = {}
    /\ pc = [r \in Restores |-> "idle"]
    /\ ids = [r \in Restores |-> {}]
    /\ current = [r \in Restores |-> {}]
    /\ seen = [r \in Restores |-> {}]
    /\ stops = 0 /\ fresh = FALSE /\ settled = FALSE

-----------------------------------------------------------------------------
(* The person, through the server: Triage and ThumbFiles have the details. *)

Restoring == \E r \in Restores : pc[r] \in {"decisions", "thumbs", "row"}

PersonActs ==
    /\ ~Restoring
    /\ Live \/ backup \notin {"listed", "reading"}
    /\ fresh' = FALSE /\ settled' = FALSE
    /\ UNCHANGED <<writing, restoring, stops>>

AnchorUsed(a) == \E d \in decisions : d.anchor = a
FreeId(i) == \A d \in decisions : d.id # i

\* A trip is decided for the first time.
Decide(i, a, action) ==
    /\ PersonActs
    /\ FreeId(i) /\ ~AnchorUsed(a)
    /\ \A j \in 1 .. i - 1 : ~FreeId(j)
    /\ decisions' = decisions \union {[id |-> i, anchor |-> a, action |-> action]}
    /\ UNCHANGED <<photos, thumbs>>

\* A trip is decided again, after its boundaries moved.
Redecide(d, a, action) ==
    /\ PersonActs
    /\ d \in decisions /\ (a = d.anchor \/ ~AnchorUsed(a))
    /\ decisions' = (decisions \ {d}) \union
                        {[id |-> d.id, anchor |-> a, action |-> action]}
    /\ UNCHANGED <<photos, thumbs>>

Attach(d, h) ==
    /\ PersonActs
    /\ d \in decisions /\ d.action = "confirmed"
    /\ \A p \in photos : p.hash # h
    /\ thumbs' = [thumbs EXCEPT ![h] = "whole"]
    /\ photos' = photos \union {[hash |-> h, decision |-> d.id]}
    /\ UNCHANGED decisions

RemovePhoto(p) ==
    /\ PersonActs
    /\ p \in photos
    /\ photos' = photos \ {p}
    /\ thumbs' = [thumbs EXCEPT ![p.hash] = "none"]
    /\ UNCHANGED decisions

\* The instance is lost, and set up anew.
Lose ==
    /\ ~Restoring /\ backup = "written"
    /\ decisions' = {} /\ photos' = {} /\ thumbs' = [h \in Hashes |-> "none"]
    /\ fresh' = TRUE /\ settled' = FALSE
    /\ UNCHANGED <<writing, restoring, stops>>

-----------------------------------------------------------------------------
(* backup.Write *)

ListDecisions ==
    /\ backup = "idle" /\ ~Restoring
    /\ listed' = decisions
    /\ backup' = "listed"
    /\ UNCHANGED <<instance, unread, gathered, archive, restoring, stops, fresh, settled>>

\* Mutation: the photos of a decision that was not listed are just left.
MutAllListed(rows) == TRUE

AllListed(rows) == \A p \in rows : \E d \in listed : d.id = p.decision

\* ListAllPhotos, and the check that "the foreign key makes impossible" to fail.
ListAllPhotos ==
    /\ backup = "listed"
    /\ unread' = photos
    /\ backup' = IF AllListed(photos) THEN "reading" ELSE "failed"
    /\ UNCHANGED <<instance, listed, gathered, archive, restoring, stops, fresh, settled>>

Readable(h) == thumbs[h] # "none"

\* ReadThumb; a photo whose file is missing is left out, with a warning.
ReadThumb(p) ==
    /\ backup = "reading" /\ p \in unread
    /\ unread' = unread \ {p}
    /\ gathered' = IF Readable(p.hash)
                   THEN gathered \union {[hash |-> p.hash, decision |-> p.decision,
                                          thumb |-> thumbs[p.hash]]}
                   ELSE gathered
    /\ UNCHANGED <<instance, backup, listed, archive, restoring, stops, fresh, settled>>

AnchorOf(i) == {d.anchor : d \in {e \in listed : e.id = i}}

\* The archive is on disk; no part of it is ever taken for one.
WriteArchive ==
    /\ backup = "reading" /\ unread = {}
    /\ archive' =
        {[decisions |-> {[anchor |-> d.anchor, action |-> d.action] : d \in listed},
          photos |-> {[hash |-> x[1].hash, anchor |-> x[2], thumb |-> x[1].thumb] :
                        x \in {y \in gathered \X Anchors : y[2] \in AnchorOf(y[1].decision)}}]}
    /\ backup' = "written"
    /\ UNCHANGED <<instance, listed, unread, gathered, restoring, stops, fresh, settled>>

-----------------------------------------------------------------------------
(* backup.Restore *)

Goto(r, phase) == pc' = [pc EXCEPT ![r] = phase]

\* The command ends, and what it knew is gone.
End(r, phase) ==
    /\ Goto(r, phase)
    /\ ids' = [ids EXCEPT ![r] = {}]
    /\ current' = [current EXCEPT ![r] = {}]
    /\ seen' = [seen EXCEPT ![r] = {}]

\* The manifest is read, and is of a format this program knows.
StartRestore(r) ==
    /\ pc[r] = "idle" /\ ~Restoring /\ backup = "written"
    /\ Goto(r, "decisions")
    /\ UNCHANGED <<instance, writing, ids, current, seen, stops, fresh, settled>>

\* The conflict target of the insert: a row of the same anchor.
Same(d, x) == d.anchor = x.anchor

\* store.RestoreDecision: an anchor that is there is left as it is, and gives
\* its id to the archived photos.
RestoreDecision(r, x, i) ==
    /\ pc[r] = "decisions"
    /\ \A m \in ids[r] : m.anchor # x.anchor
    /\ IF \E d \in decisions : Same(d, x)
       THEN /\ \E d \in decisions : Same(d, x) /\ d.id = i
            /\ UNCHANGED decisions
       ELSE /\ FreeId(i) /\ \A j \in 1 .. i - 1 : ~FreeId(j)
            /\ decisions' = decisions \union
                                {[id |-> i, anchor |-> x.anchor, action |-> x.action]}
    /\ ids' = [ids EXCEPT ![r] = @ \union {[anchor |-> x.anchor, id |-> i]}]
    /\ UNCHANGED <<photos, thumbs, writing, pc, current, seen, stops, fresh, settled>>

DecisionsRestored(r, a) ==
    /\ pc[r] = "decisions"
    /\ {x.anchor : x \in a.decisions} = {m.anchor : m \in ids[r]}
    /\ Goto(r, "thumbs")
    /\ UNCHANGED <<instance, writing, ids, current, seen, stops, fresh, settled>>

\* Mutation: only a file that is there is written.
MutPlaced(x) == IF thumbs[x.hash] = "none" THEN "none" ELSE x.thumb

\* A file that is there is kept, one that is not is written.
Placed(x) == IF thumbs[x.hash] = "none" THEN x.thumb ELSE thumbs[x.hash]

\* The file comes before the row.
RestoreThumb(r, x) ==
    /\ pc[r] = "thumbs" /\ x \notin seen[r]
    /\ thumbs' = [thumbs EXCEPT ![x.hash] = Placed(x)]
    /\ current' = [current EXCEPT ![r] = {x}]
    /\ Goto(r, "row")
    /\ UNCHANGED <<decisions, photos, writing, ids, seen, stops, fresh, settled>>

\* os.WriteFile runs out of space, and the command ends with its error.
ThumbCutShort(r, x) ==
    /\ DiskMayFill /\ stops < MaxStops
    /\ pc[r] = "thumbs" /\ x \notin seen[r] /\ thumbs[x.hash] = "none"
    /\ thumbs' = [thumbs EXCEPT ![x.hash] = "cut"]
    /\ stops' = stops + 1
    /\ End(r, "stopped")
    /\ UNCHANGED <<decisions, photos, writing, fresh, settled>>

\* Mutation: the photo goes to whatever decision comes first.
MutOwner(r, x) == {m.id : m \in ids[r]}

\* The decision an archived photo belongs to: the id its anchor has here.
Owner(r, x) == {m.id : m \in {n \in ids[r] : n.anchor = x.anchor}}

HashUsed(h) == \E p \in photos : p.hash = h

\* store.RestorePhoto: ON CONFLICT DO NOTHING by content hash.
RestorePhoto(r, x) ==
    /\ pc[r] = "row" /\ x \in current[r]
    /\ \E i \in Owner(r, x) :
        photos' = IF HashUsed(x.hash) THEN photos
                  ELSE photos \union {[hash |-> x.hash, decision |-> i]}
    /\ seen' = [seen EXCEPT ![r] = @ \union {x}]
    /\ current' = [current EXCEPT ![r] = {}]
    /\ Goto(r, "thumbs")
    /\ UNCHANGED <<decisions, thumbs, writing, ids, stops, fresh, settled>>

FinishRestore(r, a) ==
    /\ pc[r] = "thumbs" /\ seen[r] = a.photos
    /\ End(r, "done")
    /\ settled' = TRUE
    /\ UNCHANGED <<instance, writing, stops, fresh>>

\* Killed, or refused a statement: what it has done so far stands.
StopRestore(r) ==
    /\ pc[r] \in {"decisions", "thumbs", "row"}
    /\ stops < MaxStops /\ stops' = stops + 1
    /\ End(r, "stopped")
    /\ UNCHANGED <<instance, writing, fresh, settled>>

-----------------------------------------------------------------------------

Person ==
    \/ \E i \in Ids, a \in Anchors, action \in Actions : Decide(i, a, action)
    \/ \E d \in decisions, a \in Anchors, action \in Actions : Redecide(d, a, action)
    \/ \E d \in decisions, h \in Hashes : Attach(d, h)
    \/ \E p \in photos : RemovePhoto(p)
    \/ Lose

Backup ==
    \/ ListDecisions \/ ListAllPhotos \/ WriteArchive
    \/ \E p \in unread : ReadThumb(p)

Restore(r) ==
    \/ StartRestore(r) \/ StopRestore(r)
    \/ \E a \in archive :
        \/ \E x \in a.decisions, i \in Ids : RestoreDecision(r, x, i)
        \/ DecisionsRestored(r, a)
        \/ \E x \in a.photos : RestoreThumb(r, x) \/ ThumbCutShort(r, x) \/ RestorePhoto(r, x)
        \/ FinishRestore(r, a)

Next == Person \/ Backup \/ \E r \in Restores : Restore(r)

Spec == Init /\ [][Next]_vars

-----------------------------------------------------------------------------
(* Properties. *)

\* What a backup writes can be restored from itself, whatever the person did
\* while it was written: it names the decision of every photo it holds, holds
\* the thumbnail of every photo it names, and drops none that it has read.
ArchiveIsRestorable ==
    \A a \in archive :
        /\ {p.hash : p \in a.photos} = {p.hash : p \in gathered}
        /\ \A p \in a.photos :
            p.thumb # "none" /\ \E d \in a.decisions : d.anchor = p.anchor

Kept == {[anchor |-> d.anchor, action |-> d.action] : d \in decisions}
Owned == {[hash |-> x[1].hash, anchor |-> x[2].anchor] :
            x \in {y \in photos \X decisions : y[1].decision = y[2].id}}

\* After a restore that came to its end, by however many attempts, every
\* archived trip and photo is there; and if nobody has acted since the
\* instance was lost, it holds what the archive does, each photo with its
\* trip, although every id is new.
Recovers ==
    settled => \A a \in archive :
        LET archivedPhotos == {[hash |-> p.hash, anchor |-> p.anchor] : p \in a.photos} IN
        /\ {d.anchor : d \in a.decisions} \subseteq {d.anchor : d \in decisions}
        /\ {p.hash : p \in archivedPhotos} \subseteq {p.hash : p \in photos}
        /\ fresh => Kept = a.decisions /\ Owned = archivedPhotos

\* "Never a row without its file".  And the file is no broken image, unless a
\* restore was stopped: a thumbnail that was cut short then is kept for good.
RowHasThumb ==
    \A p \in photos : thumbs[p.hash] = "whole" \/ (thumbs[p.hash] = "cut" /\ stops > 0)
=============================================================================
