--------------------------- MODULE ImportPipeline ---------------------------
(***************************************************************************)
(* The import paths of Roadbook and everything that shares their lock and  *)
(* their rows: the browser upload of a Timeline export, the browser upload *)
(* of a photo batch, the automatic detection behind both, account          *)
(* deletion, the command line's `import` and `detect -from-db`, and the    *)
(* serve process that crashes and sweeps on its next start.                *)
(*                                                                         *)
(* A request is used once and, when it imports something, names the one    *)
(* imports row it may write.  Whose it is and which bytes it carries are   *)
(* constants.                                                              *)
(***************************************************************************)
EXTENDS Naturals, FiniteSets, Sequences

CONSTANTS
    Uploads,        \* POST /imports: a Timeline export from a browser
    PhotoBatches,   \* POST /imports/photos: a batch of photos from a browser
    Deletes,        \* DELETE /my-data
    CliImports,     \* `roadbook import -src`
    CliDetects,     \* `roadbook detect -from-db`
    Users,
    Self,           \* the built-in user the command line works for
    Exports,        \* the distinct uploads, by content hash
    Observations,
    UserOf,         \* request |-> the user it is made for
    BytesOf,        \* importing request |-> the bytes it carries
    Content,        \* bytes |-> the observations parsed from them
    TableOf,        \* observation |-> the table it is a row of
    NoRun,          \* the user has no detection run
    Free,           \* nobody holds importMu
    DropsAccount,   \* deletion also drops the users row (-auth oidc)
    MaxFileParts,   \* bound: "file" parts in one multipart body
    MaxCrashes,     \* bound: crashes of the serve process
    MaxFaults,      \* bound: statements the database or the disk refuses
    ClientsMayLeave,\* a client may close its connection early
    DetectMayPanic  \* detect.Run may panic on hostile observations

Http == Uploads \union PhotoBatches \union Deletes
Cli == CliImports \union CliDetects
Requests == Http \union Cli
Imports == Uploads \union PhotoBatches \union CliImports

ObservationTables == {"photo_records", "raw_positions", "path_points", "activities", "visits"}

ASSUME RequestsAssumption ==
    /\ Uploads \cap PhotoBatches = {}
    /\ Deletes \cap (Uploads \union PhotoBatches) = {}
    /\ Http \cap Cli = {}
    /\ CliImports \cap CliDetects = {}
    /\ Free \notin Requests
ASSUME OwnersAssumption ==
    /\ Self \in Users
    /\ UserOf \in [Requests -> Users]
    /\ \A r \in Cli : UserOf[r] = Self
    /\ DropsAccount \in BOOLEAN
    /\ DropsAccount => \A r \in Http : UserOf[r] # Self
ASSUME ContentAssumption ==
    /\ BytesOf \in [Imports -> Exports]
    /\ Content \in [Exports -> SUBSET Observations]
    /\ TableOf \in [Observations -> ObservationTables]
    /\ NoRun \notin [seen : SUBSET Observations, by : {"serve", "cli"}]
ASSUME BoundsAssumption ==
    /\ MaxFileParts \in Nat /\ MaxCrashes \in Nat /\ MaxFaults \in Nat
    /\ ClientsMayLeave \in BOOLEAN /\ DetectMayPanic \in BOOLEAN

VARIABLES
    \* the serve process
    up,             \* it is running
    lock,           \* Server.importMu: the request holding it, or Free
    pc,             \* how far each request is
    loaded,         \* request |-> the observations its detection loaded
    unlinks,        \* deletion |-> the retained files it still has to remove
    \* the transactions that are open
    mine,           \* import |-> the observations its transaction has inserted
    erasure,        \* deletion |-> what its transaction has deleted
    \* the uploads directory
    temps,          \* request |-> its upload-*.tmp files on disk
    retained,       \* content hashes with a <hash>.json file
    \* the database
    accounts,       \* rows of users
    status,         \* imports.status, "none" before the row, "deleted" after
    detectStatus,   \* imports.detect_status
    stored,         \* user |-> rows of the observation tables
    latestRun,      \* user |-> what the newest detection run was made from
    \* the environment
    gone,           \* requests whose context is cancelled
    crashes, faults,
    \* history
    standing,       \* deletion |-> what there was of the user when it began
    beside          \* imports completed while a deletion of their user was under way

memory == <<up, lock, pc, loaded, unlinks>>
open == <<mine, erasure, standing, beside>>
disk == <<temps, retained>>
rows == <<accounts, status, detectStatus, stored, latestRun>>
environment == <<gone, crashes, faults>>
vars == <<memory, open, disk, rows, environment>>

Busy == {"receiving", "accepted", "parsing", "storing", "inserted", "failing",
         "stored", "loading", "detecting", "saved", "undetected",
         "deleting", "unlinking"}
Phases == Busy \union {"idle", "authenticated", "done", "dead"}
Statuses == {"none", "running", "completed", "failed", "deleted"}
Run == [seen : SUBSET Observations, by : {"serve", "cli"}]

\* Mutation: the imports go before what they brought.
MutImportsFirst ==
    <<"imports", "photo_records", "raw_positions", "path_points", "activities",
      "visits", "detection_runs">>

\* The tables a deletion goes through, in its order: those this module has rows
\* of (a run stands for its candidates too).
UserDataTables ==
    <<"photo_records", "raw_positions", "path_points", "activities", "visits",
      "detection_runs", "imports">>

\* A deletion's transaction: how many tables it is past, and the observations,
\* the imports rows and (run) the newest detection run it has deleted.
Erasure == [past : 0 .. Len(UserDataTables), doomed : SUBSET Observations,
            condemned : SUBSET Imports, run : BOOLEAN]
NoErasure == [past |-> 0, doomed |-> {}, condemned |-> {}, run |-> FALSE]

\* What there was of a user at the first DELETE of a deletion that is under way.
Standing == [on : BOOLEAN, rows : SUBSET Imports, seen : SUBSET Observations]
NotErasing == [on |-> FALSE, rows |-> {}, seen |-> {}]

TypeOK ==
    /\ up \in BOOLEAN
    /\ lock \in Http \union {Free}
    /\ pc \in [Requests -> Phases]
    /\ loaded \in [Requests -> SUBSET Observations]
    /\ unlinks \in [Deletes -> SUBSET Exports]
    /\ mine \in [Imports -> SUBSET Observations]
    /\ erasure \in [Deletes -> Erasure]
    /\ temps \in [Uploads -> 0 .. MaxFileParts]
    /\ retained \subseteq Exports
    /\ accounts \subseteq Users
    /\ status \in [Imports -> Statuses]
    /\ detectStatus \in [Imports -> {"null", "running", "completed", "failed"}]
    /\ stored \in [Users -> SUBSET Observations]
    /\ latestRun \in [Users -> Run \union {NoRun}]
    /\ gone \subseteq Http
    /\ crashes \in 0 .. MaxCrashes /\ faults \in 0 .. MaxFaults
    /\ standing \in [Deletes -> Standing] /\ beside \subseteq Imports

Init ==
    /\ up = TRUE /\ lock = Free
    /\ pc = [r \in Requests |-> "idle"]
    /\ loaded = [r \in Requests |-> {}]
    /\ unlinks = [r \in Deletes |-> {}]
    /\ mine = [r \in Imports |-> {}]
    /\ erasure = [r \in Deletes |-> NoErasure]
    /\ temps = [r \in Uploads |-> 0] /\ retained = {}
    /\ accounts = Users
    /\ status = [r \in Imports |-> "none"]
    /\ detectStatus = [r \in Imports |-> "null"]
    /\ stored = [u \in Users |-> {}]
    /\ latestRun = [u \in Users |-> NoRun]
    /\ gone = {} /\ crashes = 0 /\ faults = 0
    /\ standing = [r \in Deletes |-> NotErasing] /\ beside = {}

-----------------------------------------------------------------------------
(* Control: moving on, and the two ways a statement can fail. *)

Goto(r, phase) ==
    /\ pc' = [pc EXCEPT ![r] = phase]
    /\ UNCHANGED <<up, lock>>

\* Mutation: the unlock is not deferred, and the handler returns early.
MutFinish(r) == pc' = [pc EXCEPT ![r] = "done"] /\ UNCHANGED <<up, lock>>

\* The handler or its goroutine returns: the deferred Unlock runs.
Finish(r) ==
    /\ pc' = [pc EXCEPT ![r] = "done"]
    /\ lock' = IF lock = r THEN Free ELSE lock
    /\ UNCHANGED up

\* A statement or system call is refused.
Refused ==
    /\ faults < MaxFaults
    /\ faults' = faults + 1
    /\ UNCHANGED <<gone, crashes>>

\* The statements a handler issues before it answers use the request's
\* context, and fail once the client has gone.
Cancelled(r) == r \in gone /\ UNCHANGED environment

-----------------------------------------------------------------------------
(* Arriving. *)

\* AuthMiddleware resolves the request to a user who exists at that moment.
Authenticate(r) ==
    /\ up /\ r \in Http /\ pc[r] = "idle"
    /\ UserOf[r] \in accounts
    /\ Goto(r, "authenticated")
    /\ UNCHANGED <<open, loaded, unlinks, disk, rows, environment>>

\* Mutation: deletion does not wait for an import to finish.
MutMayEnter(r) == lock = Free \/ r \in Deletes

\* The mutex can be had.
MayEnter(r) == lock = Free

\* importMu.TryLock: whoever does not get it answers 409.
TryLock(r) ==
    /\ r \in Http /\ pc[r] = "authenticated"
    /\ \/ /\ MayEnter(r)
          /\ lock' = r
          /\ pc' = [pc EXCEPT ![r] =
                        IF r \in Deletes THEN "deleting" ELSE "receiving"]
       \/ /\ ~MayEnter(r)
          /\ pc' = [pc EXCEPT ![r] = "done"]
          /\ UNCHANGED lock
    /\ UNCHANGED <<open, up, loaded, unlinks, disk, rows, environment>>

\* The steps a handler runs on its request's context; an upload's goroutine
\* and every detection run on context.Background().
OnRequestContext(r) ==
    \/ pc[r] \in {"receiving", "accepted", "deleting"}
    \/ r \in PhotoBatches /\ pc[r] \in {"storing", "inserted", "failing"}

\* The client closes its connection; net/http cancels the request's context.
ClientLeaves(r) ==
    /\ ClientsMayLeave
    /\ r \in Http \ gone /\ OnRequestContext(r)
    /\ gone' = gone \union {r}
    /\ UNCHANGED <<open, memory, disk, rows, crashes, faults>>

-----------------------------------------------------------------------------
(* Receiving the body. *)

\* A "file" part is streamed to a temp file of its own; tmpPath names the
\* last one only.
ReceiveFile(r) ==
    /\ r \in Uploads \ gone /\ pc[r] = "receiving"
    /\ temps[r] < MaxFileParts
    /\ temps' = [temps EXCEPT ![r] = @ + 1]
    /\ UNCHANGED <<open, memory, retained, rows, environment>>

\* tmpPath is removed, as the deferred cleanup does and as Promote does.
DropTemp(r) ==
    temps' = [temps EXCEPT ![r] = IF @ = 0 THEN 0 ELSE @ - 1]

\* The stream breaks, the file is over the cap, no file arrived, or the
\* sniff refuses it: no row exists yet and none is written.
AbandonBody(r) ==
    /\ r \in Uploads \union PhotoBatches /\ pc[r] = "receiving"
    /\ Finish(r)
    /\ IF r \in Uploads THEN DropTemp(r) ELSE UNCHANGED temps
    /\ UNCHANGED <<open, loaded, unlinks, retained, rows, environment>>

\* The sniff accepts the file and Promote gives it its content-hash name, or
\* discards it for the identical file already retained.
Promote(r) ==
    /\ r \in Uploads /\ pc[r] = "receiving" /\ temps[r] > 0
    /\ retained' = retained \union {BytesOf[r]}
    /\ DropTemp(r)
    /\ Goto(r, "accepted")
    /\ UNCHANGED <<open, loaded, unlinks, rows, environment>>

\* The photo batch is scanned and resolved in memory (its thumbnails are
\* ThumbFiles' concern).
ResolveBatch(r) ==
    /\ r \in PhotoBatches \ gone /\ pc[r] = "receiving"
    /\ Goto(r, "accepted")
    /\ UNCHANGED <<open, loaded, unlinks, disk, rows, environment>>

-----------------------------------------------------------------------------
(* The imports row. *)

\* BeginImport / BeginUploadImport.  An upload is handed to its goroutine;
\* a photo batch is stored by the handler itself.
BeginImport(r) ==
    /\ r \in Imports
    /\ IF r \in CliImports THEN pc[r] = "idle"
                           ELSE pc[r] = "accepted" /\ r \notin gone
    /\ UserOf[r] \in accounts
    /\ status' = [status EXCEPT ![r] = "running"]
    /\ Goto(r, IF r \in PhotoBatches THEN "storing" ELSE "parsing")
    /\ UNCHANGED <<open, loaded, unlinks, disk, accounts, detectStatus, stored,
                   latestRun, environment>>

\* The row cannot be inserted: the client has gone, the database refuses,
\* or the user's account was dropped since the middleware resolved it.
BeginImportFails(r) ==
    /\ r \in Imports /\ pc[r] = "accepted"
    /\ \/ Cancelled(r)
       \/ Refused
       \/ UserOf[r] \notin accounts /\ UNCHANGED environment
    /\ Finish(r)
    /\ UNCHANGED <<open, loaded, unlinks, disk, rows>>

\* timeline.Parse accepts the file; an upload reads it back from the
\* uploads directory.
Parse(r) ==
    /\ pc[r] = "parsing"
    /\ r \in Uploads => BytesOf[r] \in retained
    /\ Goto(r, "storing")
    /\ UNCHANGED <<open, loaded, unlinks, disk, rows, environment>>

\* The retained file cannot be opened, or it is truncated, unsupported or
\* makes the parser panic.
ParseFails(r) ==
    /\ pc[r] = "parsing"
    /\ Goto(r, "failing")
    /\ UNCHANGED <<open, loaded, unlinks, disk, rows, environment>>

\* The observations an import leaves in the tables, new or already there.
Inserted(r) == Content[BytesOf[r]]

\* The deletions of the same user that are under way.
Erasers(r) == {d \in Deletes : UserOf[d] = UserOf[r] /\ erasure[d].past > 0}

\* ON CONFLICT DO NOTHING waits for the open transaction that has inserted or
\* deleted a row of the same hash.
InsertWaits(r) ==
    \/ \E q \in Imports \ {r} : UserOf[q] = UserOf[r] /\ Inserted(r) \cap mine[q] # {}
    \/ \E d \in Erasers(r) : Inserted(r) \cap erasure[d].doomed # {}

\* The first statements of ImportObservations / ImportPhotos' transaction: the
\* rows that are not there yet.  (Intake sends them one by one.)
InsertBatch(r) ==
    /\ r \in Imports /\ pc[r] = "storing"
    /\ r \in PhotoBatches => r \notin gone
    /\ ~InsertWaits(r)
    /\ mine' = [mine EXCEPT ![r] = Inserted(r) \ stored[UserOf[r]]]
    /\ Goto(r, "inserted")
    /\ UNCHANGED <<loaded, unlinks, erasure, standing, beside, disk, rows, environment>>

\* A deletion's open transaction has deleted the import's row: who updates it
\* waits.
RowIsTaken(r) == \E d \in Erasers(r) : r \in erasure[d].condemned

\* Mutation: the UPDATE that finalises the row has no status guard.
MutStillRunning(r) == TRUE

\* The guard of the finalising UPDATE.
StillRunning(r) == status[r] = "running"

\* Its last ones: the row's 'completed', guarded by 'running', and the commit.
StoreBatch(r) ==
    /\ r \in Imports /\ pc[r] = "inserted" /\ StillRunning(r)
    /\ r \in PhotoBatches => r \notin gone
    /\ ~RowIsTaken(r)
    /\ stored' = [stored EXCEPT ![UserOf[r]] = @ \union mine[r]]
    /\ mine' = [mine EXCEPT ![r] = {}]
    /\ status' = [status EXCEPT ![r] = "completed"]
    /\ beside' = IF Erasers(r) = {} THEN beside ELSE beside \union {r}
    /\ Goto(r, IF r \in CliImports THEN "done" ELSE "stored")
    /\ UNCHANGED <<loaded, unlinks, erasure, standing, disk, accounts, detectStatus,
                   latestRun, environment>>

\* The transaction rolls back: the row is no longer running (swept or
\* deleted), the database refuses, or the photo batch's client has gone.
StoreBatchFails(r) ==
    /\ r \in Imports /\ pc[r] \in {"storing", "inserted"}
    /\ \/ pc[r] = "inserted" /\ ~StillRunning(r) /\ UNCHANGED environment
       \/ Refused
       \/ r \in PhotoBatches /\ Cancelled(r)
    /\ mine' = [mine EXCEPT ![r] = {}]
    /\ Goto(r, "failing")
    /\ UNCHANGED <<loaded, unlinks, erasure, standing, beside, disk, rows>>

\* FailImport: no guard on the row's status; a deleted row is not there to
\* update.
FailImport(r) ==
    /\ r \in Imports /\ pc[r] = "failing"
    /\ r \in PhotoBatches => r \notin gone
    /\ ~RowIsTaken(r)
    /\ status' = [status EXCEPT ![r] = IF @ = "deleted" THEN @ ELSE "failed"]
    /\ Finish(r)
    /\ UNCHANGED <<open, loaded, unlinks, disk, accounts, detectStatus, stored,
                   latestRun, environment>>

\* FailImport itself fails, which is only logged.
FailImportFails(r) ==
    /\ r \in Imports /\ pc[r] = "failing"
    /\ \/ Refused
       \/ r \in PhotoBatches /\ Cancelled(r)
    /\ Finish(r)
    /\ UNCHANGED <<open, loaded, unlinks, disk, rows>>

-----------------------------------------------------------------------------
(* runAutoDetect, and `roadbook detect -from-db`. *)

\* setDetect(d): a refused update is only logged; a deleted row has none.
SetDetect(r, d) ==
    /\ \/ /\ detectStatus' = [detectStatus EXCEPT ![r] =
                                IF status[r] = "deleted" THEN @ ELSE d]
          /\ UNCHANGED environment
       \/ Refused /\ UNCHANGED detectStatus
    /\ UNCHANGED <<open, loaded, unlinks, disk, accounts, status, stored, latestRun>>

MarkDetecting(r) ==
    /\ r \in Imports /\ pc[r] = "stored"
    /\ SetDetect(r, "running")
    /\ Goto(r, "loading")

\* Mutation: detection runs over the new import only.
MutEvidence(r) ==
    IF r \in Imports THEN Content[BytesOf[r]] ELSE stored[UserOf[r]]

\* What detection runs over: everything the user has stored.
Evidence(r) == stored[UserOf[r]]

LoadObservations(r) ==
    /\ \/ pc[r] = "loading"
       \/ r \in CliDetects /\ pc[r] = "idle"
    /\ loaded' = [loaded EXCEPT ![r] = Evidence(r)]
    /\ Goto(r, "detecting")
    /\ UNCHANGED <<open, unlinks, disk, rows, environment>>

\* detect.Run over what was loaded, then SaveRun.  Run ids ascend, so the
\* run saved last is the one every reader takes as the latest; a deletion that
\* is past the runs has not deleted this one.
SaveRun(r) ==
    /\ pc[r] = "detecting" /\ UserOf[r] \in accounts
    /\ latestRun' = [latestRun EXCEPT ![UserOf[r]] =
            [seen |-> loaded[r], by |-> IF r \in Cli THEN "cli" ELSE "serve"]]
    /\ erasure' = [d \in Deletes |->
            IF d \in Erasers(r) THEN [erasure[d] EXCEPT !.run = FALSE] ELSE erasure[d]]
    /\ Goto(r, IF r \in Cli THEN "done" ELSE "saved")
    /\ UNCHANGED <<loaded, unlinks, mine, standing, beside, disk, accounts, status,
                   detectStatus, stored, environment>>

\* Loading or saving is refused.
DetectFails(r) ==
    /\ pc[r] \in {"loading", "detecting"}
    /\ Refused
    /\ Goto(r, IF r \in Cli THEN "done" ELSE "undetected")
    /\ UNCHANGED <<open, loaded, unlinks, disk, rows>>

\* Mutation: the verdict is never written.
MutVerdict(r) == "running"

Verdict(r) == IF pc[r] = "saved" THEN "completed" ELSE "failed"

MarkDetected(r) ==
    /\ r \in Imports /\ pc[r] \in {"saved", "undetected"}
    /\ SetDetect(r, Verdict(r))
    /\ Finish(r)

\* detect.Run panics.  The upload's goroutine recovers by failing the
\* import; the photo batch's only logs.
DetectPanics(r) ==
    /\ DetectMayPanic
    /\ r \in Uploads \union PhotoBatches /\ pc[r] = "detecting"
    /\ IF r \in Uploads THEN Goto(r, "failing") ELSE Finish(r)
    /\ UNCHANGED <<open, loaded, unlinks, disk, rows, environment>>

-----------------------------------------------------------------------------
(* Deleting everything a user owns. *)

RowsOf(u) == {i \in Imports : UserOf[i] = u /\ status[i] \notin {"none", "deleted"}}

\* Mutation: the other users' rows are not looked at.
MutCondemned(u) == {BytesOf[i] : i \in RowsOf(u) \cap Uploads}

\* The retained files only this user's rows name.
Condemned(u) ==
    {BytesOf[i] : i \in RowsOf(u) \cap Uploads} \
        UNION {{BytesOf[i] : i \in RowsOf(v) \cap Uploads} : v \in Users \ {u}}

\* DeleteUserData goes through the tables at READ COMMITTED.  A statement
\* deletes what is committed when it starts, and the DELETE of the imports rows
\* waits for whoever has updated one.  Nothing of it shows before the commit.
EraseTable(r) ==
    LET u == UserOf[r]
        x == erasure[r]
        table == UserDataTables[x.past + 1] IN
    /\ r \in Deletes \ gone /\ pc[r] = "deleting" /\ x.past < Len(UserDataTables)
    /\ erasure' = [erasure EXCEPT ![r] =
            [past |-> x.past + 1,
             doomed |-> x.doomed \union {o \in stored[u] : TableOf[o] = table},
             condemned |-> IF table = "imports" THEN RowsOf(u) ELSE x.condemned,
             run |-> x.run \/ table = "detection_runs"]]
    /\ standing' = [standing EXCEPT ![r] =
            IF x.past = 0 THEN [on |-> TRUE, rows |-> RowsOf(u), seen |-> stored[u]] ELSE @]
    /\ UNCHANGED <<memory, mine, beside, disk, rows, environment>>

\* The transaction is over, by a commit or by a rollback.
EndErasure(r) ==
    /\ erasure' = [erasure EXCEPT ![r] = NoErasure]
    /\ standing' = [standing EXCEPT ![r] = NotErasing]
    /\ UNCHANGED <<mine, beside>>

\* The end of DeleteUserData: the users row, which of the retained files no
\* other user's row names, and the commit.
CommitErasure(r) ==
    LET u == UserOf[r]
        x == erasure[r] IN
    /\ r \in Deletes \ gone /\ pc[r] = "deleting" /\ x.past = Len(UserDataTables)
    /\ status' = [i \in Imports |-> IF i \in x.condemned THEN "deleted" ELSE status[i]]
    /\ stored' = [stored EXCEPT ![u] = @ \ x.doomed]
    /\ latestRun' = [latestRun EXCEPT ![u] = IF x.run THEN NoRun ELSE @]
    /\ accounts' = IF DropsAccount THEN accounts \ {u} ELSE accounts
    /\ unlinks' = [unlinks EXCEPT ![r] = Condemned(u)]
    /\ EndErasure(r)
    /\ Goto(r, "unlinking")
    /\ UNCHANGED <<loaded, disk, detectStatus, environment>>

DeleteUserDataFails(r) ==
    /\ r \in Deletes /\ pc[r] = "deleting"
    /\ Cancelled(r) \/ Refused
    /\ EndErasure(r)
    /\ Finish(r)
    /\ UNCHANGED <<loaded, unlinks, disk, rows>>

\* One retained file is removed; a refusal is logged and the file stays.
UnlinkUpload(r) ==
    /\ r \in Deletes /\ pc[r] = "unlinking"
    /\ \E h \in unlinks[r] :
        /\ unlinks' = [unlinks EXCEPT ![r] = @ \ {h}]
        /\ \/ retained' = retained \ {h} /\ UNCHANGED environment
           \/ Refused /\ UNCHANGED retained
    /\ UNCHANGED <<open, up, lock, pc, loaded, temps, rows>>

DeleteAnswers(r) ==
    /\ r \in Deletes /\ pc[r] = "unlinking" /\ unlinks[r] = {}
    /\ Finish(r)
    /\ UNCHANGED <<open, loaded, unlinks, disk, rows, environment>>

-----------------------------------------------------------------------------
(* Processes that die. *)

\* serve dies: every handler, goroutine and the mutex go with it, and the
\* database rolls its transactions back.
Crash ==
    /\ up /\ crashes < MaxCrashes
    /\ up' = FALSE /\ lock' = Free
    /\ pc' = [r \in Requests |->
                IF r \in Http /\ pc[r] \notin {"idle", "done"}
                THEN "dead" ELSE pc[r]]
    /\ mine' = [r \in Imports |-> IF r \in Http THEN {} ELSE mine[r]]
    /\ erasure' = [r \in Deletes |-> NoErasure]
    /\ standing' = [r \in Deletes |-> NotErasing]
    /\ crashes' = crashes + 1
    /\ UNCHANGED <<loaded, unlinks, beside, disk, rows, gone, faults>>

\* Mutation: there is no sweep.
MutSweepsNothing(i) == FALSE

\* The WHERE clause of SweepRunningImports.
Sweeps(i) == status[i] = "running"

\* runServe: SweepRunningImports before the listener opens.
Restart ==
    /\ ~up /\ up' = TRUE
    /\ status' = [i \in Imports |->
                    IF Sweeps(i) THEN "failed" ELSE status[i]]
    /\ UNCHANGED <<open, lock, pc, loaded, unlinks, disk, accounts, detectStatus,
                   stored, latestRun, environment>>

\* A command is interrupted at its terminal.
CliKilled(r) ==
    /\ r \in Cli /\ pc[r] \in Busy
    /\ crashes < MaxCrashes /\ crashes' = crashes + 1
    /\ pc' = [pc EXCEPT ![r] = "dead"]
    /\ mine' = IF r \in CliImports THEN [mine EXCEPT ![r] = {}] ELSE mine
    /\ UNCHANGED <<up, lock, loaded, unlinks, erasure, standing, beside, disk, rows,
                   gone, faults>>

-----------------------------------------------------------------------------

\* What a request does once its body has arrived.  Nothing here waits for a
\* client; an import may wait for another transaction on the same user's rows.
Work(r) ==
    \/ TryLock(r)
    \/ BeginImport(r) \/ BeginImportFails(r)
    \/ Parse(r) \/ ParseFails(r)
    \/ InsertBatch(r) \/ StoreBatch(r) \/ StoreBatchFails(r)
    \/ FailImport(r) \/ FailImportFails(r)
    \/ MarkDetecting(r) \/ LoadObservations(r) \/ SaveRun(r)
    \/ DetectFails(r) \/ MarkDetected(r) \/ DetectPanics(r)
    \/ EraseTable(r) \/ CommitErasure(r) \/ DeleteUserDataFails(r)
    \/ UnlinkUpload(r) \/ DeleteAnswers(r)

\* What waits for a client to send, or to go.
Client(r) ==
    \/ Authenticate(r) \/ ClientLeaves(r) \/ ReceiveFile(r)
    \/ AbandonBody(r) \/ Promote(r) \/ ResolveBatch(r)

Next ==
    \/ \E r \in Requests : Work(r) \/ Client(r) \/ CliKilled(r)
    \/ Crash \/ Restart

Spec == Init /\ [][Next]_vars

\* A request's own steps are taken while its process lives; the operator
\* (or the service manager) starts serve again.  Nothing is assumed of a
\* client: net/http's default server has no read timeout.
Fairness ==
    /\ \A r \in Requests : WF_vars(pc[r] # "idle" /\ Work(r))
    /\ WF_vars(Restart)

-----------------------------------------------------------------------------
(* Properties. *)

\* One import or deletion at a time: whoever is inside the critical section
\* is the one importMu names, and the mutex is never held by a handler that
\* has returned (a leaked lock would answer 409 for ever).
OneAtATime ==
    \A r \in Http : (pc[r] \in Busy) <=> (lock = r)

\* The row of an upload names a file that is there: deletion removes a
\* retained file only when no row names it and none can appear meanwhile.
RowHasRetainedFile ==
    \A r \in Uploads :
        status[r] \in {"running", "completed", "failed"} => BytesOf[r] \in retained

\* What the latest run was made from is still the user's: no goroutine writes
\* a run behind a deletion.  (The command line takes no lock and can.)
EvidenceIsStored ==
    \A u \in Users : latestRun[u] # NoRun =>
        (latestRun[u].by = "serve" => latestRun[u].seen \subseteq stored[u])

\* "Done" is declared when detect_status says completed: the latest run then
\* saw everything that import brought in, whatever imports ran since, unless
\* the operator's own detect command replaced it.
CompletedDetectionSaw ==
    \A r \in Uploads \union PhotoBatches :
        detectStatus[r] = "completed" /\ status[r] = "completed" =>
            /\ latestRun[UserOf[r]] # NoRun
            /\ latestRun[UserOf[r]].by = "serve" =>
                    Content[BytesOf[r]] \subseteq latestRun[UserOf[r]].seen

\* The rows and the stored history behave as ImportLedger says, beside a
\* deletion that goes through the tables one by one too.
Ledger == INSTANCE ImportLedger WITH
    Deletions <- Deletes,
    OwnerOf <- [r \in Imports \union Deletes |-> UserOf[r]],
    Carries <- [i \in Imports |-> Content[BytesOf[i]]],
    rowStatus <- status,
    history <- stored

ImplementsLedger == Ledger!LedgerSpec

\* What an import that is shown as completed carried is stored, and nothing is
\* stored that no completed import carried, except what an import from the
\* terminal committed beside a deletion: it takes no lock, its row is there to
\* be deleted and its rows may be in a table the deletion is past.
\* (deletion.go:57-63, main.go:205-241)
HistoryIsCompleted == Ledger!HistoryIsCompleted

\* Once its body is in, the request that holds the lock gives it back,
\* whatever fails and whoever crashes.
LockReleased ==
    \A r \in Http : (lock = r /\ pc[r] # "receiving") ~> (lock # r)

\* Who would have finalised the row is gone without having done so: a command
\* killed at its terminal, a photo batch whose client left before the failure was
\* recorded (on the request's context), or a failure the database refused to
\* record.
Stranded(r) ==
    \/ r \in CliImports /\ pc[r] = "dead"
    \/ r \in PhotoBatches /\ pc[r] = "done" /\ r \in gone
    \/ pc[r] = "done" /\ faults > 0

\* Every row is finalised or erased by its worker, except those that are
\* stranded; and whatever is running when serve is down, stranded or not, the
\* next start ends.  (imports.go:167-176, photo_imports.go:129-139,
\* uploads.go:90-103)
RunningEnds ==
    \A r \in Imports :
        /\ (status[r] = "running") ~> (status[r] # "running" \/ Stranded(r))
        /\ (status[r] = "running" /\ ~up) ~> (status[r] # "running")

\* The page that polls a completed upload stops polling: detect_status
\* reaches a verdict.  The process may crash or the statement that records it
\* be refused, and the sweep does not look at it; and a detection that panics
\* behind a photo batch is only logged.
DetectionResolves ==
    \A r \in Uploads \union PhotoBatches :
        (status[r] = "completed") ~>
            \/ detectStatus[r] \in {"completed", "failed"}
            \/ status[r] # "completed"
            \/ crashes > 0 \/ faults > 0
            \/ DetectMayPanic /\ r \in PhotoBatches
=============================================================================
