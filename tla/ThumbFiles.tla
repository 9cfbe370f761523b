------------------------------ MODULE ThumbFiles ------------------------------
(***************************************************************************)
(* The thumbnail directory and the two tables that name its files.  A file *)
(* is called by the content hash of the photo it was cut from, so one file *)
(* serves every row, of every user and of both tables, that carries the    *)
(* hash: photos (attached to a kept trip by UploadCandidatePhotos, removed *)
(* by DeletePhoto) and photo_records (written by a photo import).  Only    *)
(* the photo import and the deletion of an account take importMu.          *)
(*                                                                         *)
(* Every step that touches the disk or the database is one action.  The    *)
(* photos are JPEGs: a HEIC has no thumbnail, and no file.                 *)
(***************************************************************************)
EXTENDS Naturals, FiniteSets

CONSTANTS
    Attaches,       \* POST /candidates/{id}/photos
    PhotoImports,   \* POST /imports/photos
    PhotoDeletes,   \* DELETE /photos/{id}
    AccountDeletes, \* DELETE /my-data
    Users,
    Hashes,         \* the photos there are, by content hash
    UserOf,         \* request |-> the user it is made for
    Carries,        \* request |-> the photos it is about
    Existing,       \* <<user, hash>> of the photos rows there already are
    Free,           \* nobody holds importMu
    DropsAccount,   \* deletion also drops the users row (-auth oidc)
    MaxCrashes,     \* bound: crashes of the serve process
    MaxFaults       \* bound: statements the database or the disk refuses

Locking == PhotoImports \union AccountDeletes
Requests == Attaches \union PhotoDeletes \union Locking

ASSUME ThumbRequestsAssumption ==
    /\ Attaches \cap (PhotoDeletes \union Locking) = {}
    /\ PhotoDeletes \cap Locking = {}
    /\ PhotoImports \cap AccountDeletes = {}
    /\ Free \notin Requests
ASSUME ThumbDataAssumption ==
    /\ UserOf \in [Requests -> Users]
    /\ Carries \in [Requests -> SUBSET Hashes]
    /\ \A r \in PhotoDeletes : \E h \in Hashes : Carries[r] = {h}
    /\ Existing \subseteq Users \X Hashes
    /\ DropsAccount \in BOOLEAN
    /\ ~DropsAccount => \E self \in Users : Users = {self}
    /\ MaxCrashes \in Nat /\ MaxFaults \in Nat

VARIABLES
    up,             \* the serve process is running
    lock,           \* Server.importMu: the request holding it, or Free
    pc,             \* how far each request is
    todo,           \* request |-> the thumbnails it still has to write or remove
    inHand,         \* attach |-> the photo whose row it is about to write
    doomed,         \* deletion |-> the photos rows its open transaction has deleted
    thumbs,         \* content hashes with a <hash>.jpg file
    photos,         \* rows of photos: <<user, hash>>
    records,        \* rows of photo_records: <<user, hash>>
    kept,           \* users whose kept trip (the decision photos attach to) exists
    accounts,       \* rows of users
    crashes, faults,
    \* history
    stragglers      \* requests under way while a deletion of their account was

process == <<up, lock, pc>>
work == <<todo, inHand, doomed>>
rows == <<photos, records, kept, accounts, stragglers>>
environment == <<crashes, faults>>
vars == <<process, work, thumbs, rows, environment>>

Phases == {"idle", "authenticated", "attaching", "inserting", "fetching",
           "writing", "storing", "detecting", "found", "erasing", "listed", "photosErased",
           "decisionsErased", "unlinking", "done", "dead"}
Erasing == {"erasing", "listed", "photosErased", "decisionsErased"}

TypeOK ==
    /\ up \in BOOLEAN
    /\ lock \in Locking \union {Free}
    /\ pc \in [Requests -> Phases]
    /\ todo \in [Requests -> SUBSET Hashes]
    /\ inHand \in [Attaches -> SUBSET Hashes]
    /\ doomed \in [AccountDeletes -> SUBSET Hashes]
    /\ thumbs \subseteq Hashes
    /\ photos \subseteq Users \X Hashes
    /\ records \subseteq Users \X Hashes
    /\ kept \subseteq Users /\ accounts \subseteq Users
    /\ crashes \in 0 .. MaxCrashes /\ faults \in 0 .. MaxFaults
    /\ stragglers \subseteq Requests

Init ==
    /\ up = TRUE /\ lock = Free
    /\ pc = [r \in Requests |-> "idle"]
    /\ todo = [r \in Requests |-> {}]
    /\ inHand = [r \in Attaches |-> {}]
    /\ doomed = [r \in AccountDeletes |-> {}]
    /\ photos = Existing /\ records = {}
    /\ thumbs = {h \in Hashes : \E u \in Users : <<u, h>> \in Existing}
    /\ kept = Users /\ accounts = Users
    /\ crashes = 0 /\ faults = 0 /\ stragglers = {}

-----------------------------------------------------------------------------

Goto(r, phase) ==
    /\ pc' = [pc EXCEPT ![r] = phase]
    /\ UNCHANGED <<up, lock>>

\* The handler, or the goroutine it handed importMu to, returns.
Finish(r) ==
    /\ pc' = [pc EXCEPT ![r] = "done"]
    /\ lock' = IF lock = r THEN Free ELSE lock
    /\ UNCHANGED up

\* A statement or system call is refused (or the client has gone).
Refused ==
    /\ faults < MaxFaults
    /\ faults' = faults + 1
    /\ UNCHANGED crashes

\* Some row of either table names the file.
Named(h) == \E u \in Users : <<u, h>> \in photos \union records

-----------------------------------------------------------------------------
(* UploadCandidatePhotos: photos for a kept trip.  No lock. *)

\* History: a request that is let in beside a deletion of its account.
LetIn(r) ==
    stragglers' = IF \E d \in AccountDeletes : UserOf[d] = UserOf[r] /\ pc[d] \in Erasing
                  THEN stragglers \union {r} ELSE stragglers

\* The trip is the user's and kept, and the body has arrived.
BeginAttach(r) ==
    /\ up /\ r \in Attaches /\ pc[r] = "idle"
    /\ UserOf[r] \in kept
    /\ todo' = [todo EXCEPT ![r] = Carries[r]]
    /\ Goto(r, "attaching")
    /\ LetIn(r)
    /\ UNCHANGED <<inHand, doomed, thumbs, photos, records, kept, accounts, environment>>

\* PhotoFiles.WriteThumb: file before row.
WritesThumb(h) == thumbs' = thumbs \union {h}

\* storePhoto writes the thumbnail of the next photo.
WriteAttached(r) ==
    /\ r \in Attaches /\ pc[r] = "attaching"
    /\ \E h \in todo[r] :
        /\ WritesThumb(h)
        /\ todo' = [todo EXCEPT ![r] = @ \ {h}]
        /\ inHand' = [inHand EXCEPT ![r] = {h}]
    /\ Goto(r, "inserting")
    /\ UNCHANGED <<doomed, rows, environment>>

\* Mutation: photos.decision_id is not a foreign key.
MutDecisionStands(r) == TRUE

\* The decision an attach resolved is still there.
DecisionStands(r) == UserOf[r] \in kept

\* A deletion's open transaction has deleted the row, or the user's decisions:
\* who writes the row, or one that refers to the decision, waits.
RowIsTaken(u, h) == \E d \in AccountDeletes : UserOf[d] = u /\ h \in doomed[d]
DecisionIsTaken(u) ==
    \E d \in AccountDeletes : UserOf[d] = u /\ pc[d] = "decisionsErased"

\* InsertPhoto: DO NOTHING on the user's own duplicate, and the original is
\* then fetched.  The row's decision must still be there.
InsertPhoto(r) ==
    /\ r \in Attaches /\ pc[r] = "inserting"
    /\ DecisionStands(r) /\ ~DecisionIsTaken(UserOf[r])
    /\ \A h \in inHand[r] : ~RowIsTaken(UserOf[r], h)
    /\ LET row == {UserOf[r]} \X inHand[r] IN
        /\ photos' = photos \union row
        /\ Goto(r, IF row \subseteq photos THEN "fetching" ELSE "attaching")
    /\ UNCHANGED <<work, thumbs, records, kept, accounts, stragglers,
                   environment>>

\* The decision went with its account, or the statement is refused: the
\* handler returns, and the rest of the photos is not stored.
InsertPhotoFails(r) ==
    /\ r \in Attaches /\ pc[r] = "inserting"
    /\ \/ ~DecisionStands(r) /\ UNCHANGED environment
       \/ Refused
    /\ Finish(r)
    /\ UNCHANGED <<work, thumbs, rows>>

\* The duplicate's original is read back, unless somebody deleted it since.
FetchOriginal(r) ==
    /\ r \in Attaches /\ pc[r] = "fetching"
    /\ IF {UserOf[r]} \X inHand[r] \subseteq photos
       THEN Goto(r, "attaching") ELSE Finish(r)
    /\ UNCHANGED <<work, thumbs, rows, environment>>

AttachAnswers(r) ==
    /\ r \in Attaches /\ pc[r] = "attaching" /\ todo[r] = {}
    /\ Finish(r)
    /\ UNCHANGED <<work, thumbs, rows, environment>>

-----------------------------------------------------------------------------
(* The two that take importMu. *)

MayEnter(r) == lock = Free

\* AuthMiddleware resolves the request to a user who exists at that moment.
\* (The requests without the lock find their user's rows gone, if they are.)
Authenticate(r) ==
    /\ up /\ r \in Locking /\ pc[r] = "idle"
    /\ UserOf[r] \in accounts
    /\ Goto(r, "authenticated")
    /\ LetIn(r)
    /\ UNCHANGED <<work, thumbs, photos, records, kept, accounts, environment>>

\* importMu.TryLock; a photo import then receives and resolves its batch in
\* memory.
TryLock(r) ==
    /\ r \in Locking /\ pc[r] = "authenticated"
    /\ \/ /\ MayEnter(r)
          /\ lock' = r
          /\ pc' = [pc EXCEPT ![r] =
                        IF r \in AccountDeletes THEN "erasing" ELSE "writing"]
          /\ todo' = [todo EXCEPT ![r] =
                        IF r \in AccountDeletes THEN {} ELSE Carries[r]]
       \/ /\ ~MayEnter(r)
          /\ pc' = [pc EXCEPT ![r] = "done"]
          /\ UNCHANGED <<lock, todo>>
    /\ UNCHANGED <<up, inHand, doomed, thumbs, rows, environment>>

\* The batch's thumbnails are written before anything of it is in a table.
WriteImported(r) ==
    /\ r \in PhotoImports /\ pc[r] = "writing"
    /\ \E h \in todo[r] :
        /\ WritesThumb(h)
        /\ todo' = [todo EXCEPT ![r] = @ \ {h}]
    /\ UNCHANGED <<process, inHand, doomed, rows, environment>>

\* BeginImport: the imports row needs the user's row.
BeginImport(r) ==
    /\ r \in PhotoImports /\ pc[r] = "writing" /\ todo[r] = {}
    /\ UserOf[r] \in accounts
    /\ Goto(r, "storing")
    /\ UNCHANGED <<work, thumbs, rows, environment>>

\* ImportPhotos, one transaction, then the hand-over to the goroutine.
ImportPhotos(r) ==
    /\ r \in PhotoImports /\ pc[r] = "storing"
    /\ records' = records \union ({UserOf[r]} \X Carries[r])
    /\ Goto(r, "detecting")
    /\ UNCHANGED <<work, thumbs, photos, kept, accounts, stragglers,
                   environment>>

\* A thumbnail cannot be written, or the transaction or one of its rows is
\* refused.
PhotoImportFails(r) ==
    /\ r \in PhotoImports /\ pc[r] \in {"writing", "storing"}
    /\ \/ UserOf[r] \notin accounts /\ UNCHANGED environment
       \/ Refused
    /\ Finish(r)
    /\ UNCHANGED <<work, thumbs, rows>>

\* The automatic detection is over; its goroutine gives the lock back.
Detected(r) ==
    /\ r \in PhotoImports /\ pc[r] = "detecting"
    /\ Finish(r)
    /\ UNCHANGED <<work, thumbs, rows, environment>>

\* Mutation: the photos that were imported are forgotten.
MutHashesOf(u) == {h \in Hashes : <<u, h>> \in photos}

\* The thumbnails a user's rows name, in either table.
HashesOf(u) == {h \in Hashes : <<u, h>> \in photos \union records}

\* The request has been let in and has not ended.
UnderWay(q) == pc[q] \notin {"idle", "done", "dead"}

\* DeleteUserData, one transaction at READ COMMITTED: "hashes first, while the
\* rows still exist".
ListHashes(r) ==
    /\ r \in AccountDeletes /\ pc[r] = "erasing"
    /\ todo' = [todo EXCEPT ![r] = HashesOf(UserOf[r])]
    /\ stragglers' = stragglers \union
            {q \in Requests \ {r} : UserOf[q] = UserOf[r] /\ UnderWay(q)}
    /\ Goto(r, "listed")
    /\ UNCHANGED <<inHand, doomed, thumbs, photos, records, kept, accounts, environment>>

\* The DELETE of photos takes what is committed by then.
ErasePhotos(r) ==
    /\ r \in AccountDeletes /\ pc[r] = "listed"
    /\ doomed' = [doomed EXCEPT ![r] = {h \in Hashes : <<UserOf[r], h>> \in photos}]
    /\ Goto(r, "photosErased")
    /\ UNCHANGED <<todo, inHand, thumbs, rows, environment>>

\* A photo was attached behind the DELETE of photos: its decision cannot go.
Restricted(r) == \E h \in Hashes \ doomed[r] : <<UserOf[r], h>> \in photos

\* The DELETE of decisions.
EraseDecisions(r) ==
    /\ r \in AccountDeletes /\ pc[r] = "photosErased" /\ ~Restricted(r)
    /\ Goto(r, "decisionsErased")
    /\ UNCHANGED <<work, thumbs, rows, environment>>

\* Mutation: what photo imports name is not looked at.
MutOrphans(r) == {h \in todo[r] : \A v \in Users \ {UserOf[r]} : <<v, h>> \notin photos}

\* The listed thumbnails no row, of any user and either table, names any more.
Orphans(r) ==
    {h \in todo[r] : \A v \in Users \ {UserOf[r]} : <<v, h>> \notin photos \union records}

\* The rest of the tables, the users row, the orphans and the commit.
CommitErasure(r) ==
    LET u == UserOf[r] IN
    /\ r \in AccountDeletes /\ pc[r] = "decisionsErased"
    /\ photos' = photos \ ({u} \X doomed[r])
    /\ records' = records \ ({u} \X Hashes)
    /\ kept' = kept \ {u}
    /\ accounts' = IF DropsAccount THEN accounts \ {u} ELSE accounts
    /\ todo' = [todo EXCEPT ![r] = Orphans(r)]
    /\ doomed' = [doomed EXCEPT ![r] = {}]
    /\ Goto(r, "unlinking")
    /\ UNCHANGED <<inHand, thumbs, stragglers, environment>>

DeleteUserDataFails(r) ==
    /\ r \in AccountDeletes /\ pc[r] \in Erasing
    /\ \/ pc[r] = "photosErased" /\ Restricted(r) /\ UNCHANGED environment
       \/ Refused
    /\ doomed' = [doomed EXCEPT ![r] = {}]
    /\ Finish(r)
    /\ UNCHANGED <<todo, inHand, thumbs, rows>>

-----------------------------------------------------------------------------
(* DeletePhoto.  No lock. *)

GetPhoto(r) ==
    /\ up /\ r \in PhotoDeletes /\ pc[r] = "idle"
    /\ {UserOf[r]} \X Carries[r] \subseteq photos
    /\ Goto(r, "found")
    /\ UNCHANGED <<work, thumbs, rows, environment>>

\* Row first; whether there still was one is not looked at.  The file then
\* goes, whoever else names it.
DeletePhotoRow(r) ==
    /\ r \in PhotoDeletes /\ pc[r] = "found"
    /\ \A h \in Carries[r] : ~RowIsTaken(UserOf[r], h)
    /\ photos' = photos \ ({UserOf[r]} \X Carries[r])
    /\ todo' = [todo EXCEPT ![r] = Carries[r]]
    /\ Goto(r, "unlinking")
    /\ UNCHANGED <<inHand, doomed, thumbs, records, kept, accounts, stragglers,
                   environment>>

DeletePhotoFails(r) ==
    /\ r \in PhotoDeletes /\ pc[r] = "found"
    /\ Refused
    /\ Finish(r)
    /\ UNCHANGED <<work, thumbs, rows>>

-----------------------------------------------------------------------------
(* Files last, for both kinds of deletion. *)

\* DeleteThumb; a refusal leaves the file (and is logged, or answered 500).
DeleteThumb(r) ==
    /\ pc[r] = "unlinking"
    /\ \E h \in todo[r] :
        /\ todo' = [todo EXCEPT ![r] = @ \ {h}]
        /\ \/ thumbs' = thumbs \ {h} /\ UNCHANGED environment
           \/ Refused /\ UNCHANGED thumbs
    /\ UNCHANGED <<process, inHand, doomed, rows>>

DeleteAnswers(r) ==
    /\ pc[r] = "unlinking" /\ todo[r] = {}
    /\ Finish(r)
    /\ UNCHANGED <<work, thumbs, rows, environment>>

-----------------------------------------------------------------------------

Crash ==
    /\ up /\ crashes < MaxCrashes
    /\ up' = FALSE /\ lock' = Free
    /\ pc' = [r \in Requests |->
                IF pc[r] \in {"idle", "done"} THEN pc[r] ELSE "dead"]
    /\ doomed' = [r \in AccountDeletes |-> {}]
    /\ crashes' = crashes + 1
    /\ UNCHANGED <<todo, inHand, thumbs, rows, faults>>

\* runServe: no sweep looks at the thumbnails.
Restart ==
    /\ ~up /\ up' = TRUE
    /\ UNCHANGED <<lock, pc, work, thumbs, rows, environment>>

AttachStep(r) ==
    \/ WriteAttached(r) \/ InsertPhoto(r) \/ InsertPhotoFails(r)
    \/ FetchOriginal(r) \/ AttachAnswers(r)

ImportStep(r) ==
    \/ WriteImported(r) \/ BeginImport(r) \/ ImportPhotos(r)
    \/ PhotoImportFails(r) \/ Detected(r)

DeleteStep(r) ==
    \/ ListHashes(r) \/ ErasePhotos(r) \/ EraseDecisions(r) \/ CommitErasure(r)
    \/ DeleteUserDataFails(r)
    \/ DeletePhotoRow(r) \/ DeletePhotoFails(r)
    \/ DeleteThumb(r) \/ DeleteAnswers(r)

Arrive(r) == BeginAttach(r) \/ Authenticate(r) \/ TryLock(r) \/ GetPhoto(r)

Next ==
    \/ \E r \in Requests : Arrive(r) \/ AttachStep(r) \/ ImportStep(r) \/ DeleteStep(r)
    \/ Crash \/ Restart

Spec == Init /\ [][Next]_vars

-----------------------------------------------------------------------------
(* Properties. *)

\* "Never a row pointing at nothing": every row that says it has a thumbnail
\* has the file, whichever of the handlers that write and remove it ran, in
\* whatever order, and wherever one of them stopped.
RowHasThumb ==
    \A u \in Users, h \in Hashes : <<u, h>> \in photos \union records => h \in thumbs

\* A handler is between the file and its row, or still has to remove the file.
InHand(h) ==
    \/ \E r \in Attaches : pc[r] = "inserting" /\ h \in inHand[r]
    \/ \E r \in PhotoImports :
        pc[r] \in {"writing", "storing"} /\ h \in Carries[r] \ todo[r]
    \/ \E r \in AccountDeletes \union PhotoDeletes : pc[r] = "unlinking" /\ h \in todo[r]

\* An account's photos end with it, at the deletion and ever after: no handler
\* that was under way puts a photo back into the tables.
\* (deletion.go:57-70, 00006_photos.sql:21, photo_imports.go:129)
ErasedStaysErased ==
    /\ \A u \in Users \ kept, h \in Hashes : <<u, h>> \notin photos
    /\ \A u \in Users \ accounts, h \in Hashes : <<u, h>> \notin records

\* And so do their files: once the handlers have answered, a file that no row
\* names was written by a request that was under way while a deletion of its account
\* was, unless a crash or a refused statement cut one of them short.  (photos.go:306,
\* deletion.go:29-35, 72-84)
FilesEndWithRows ==
    crashes = 0 /\ faults = 0 =>
        \A h \in thumbs : Named(h) \/ InHand(h) \/ \E s \in stragglers : h \in Carries[s]
=============================================================================
