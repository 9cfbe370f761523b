# Roadbook, specified

TLA+ specifications of Roadbook's server and command line, the TLC runs that
check them on small instances, and TLAPS proofs about the import pipeline, the
statements an import and a deletion send, the detection of trips, the journeys
and the batches that route their gaps, triage, accounts, the photo files, and
backup and restore. Everything is translated from the Go code
under `src/` and the SQL of `src/migrations/`; `PROJECT.json` maps every
definition to the lines it stands for.

## 1. The system

Roadbook turns a person's location history into trips. A Timeline export or a
batch of photos is imported; a detector finds candidate trips in everything
imported so far; the person keeps or dismisses each candidate; kept trips take
photos and share links, and are drawn as journeys whose gaps an operator may
have routed along roads. One Go process (`serve`) answers HTTP, the same binary
has commands an operator runs in a terminal beside it (`import`, `detect`,
`route`, `backup`, `restore`, ...). Both work on one PostgreSQL database and
one uploads directory. With `-auth off` there is one built-in user; with
`-auth oidc` people sign in.

### Components

| Component | State it keeps | Operations | Talks to |
|---|---|---|---|
| Import pipeline (`api/imports.go`, `api/photo_imports.go`, `store/uploads.go`, `store/observations.go`, `store/photo_records.go`) | `Server.importMu`; `upload-*.tmp` and `<hash>.json` files; rows of `imports` with `status` and `detect_status`; the observation tables | upload, photo batch, automatic detection, `import`, `detect -from-db`, sweep at start-up | deletion (lock, files, rows), detection runs |
| Self-serve deletion (`api/deletion.go`, `store/deletion.go`) | none of its own | delete all rows of a user table by table in one transaction, then unlink what no row names | every table, both file stores |
| Photo storage (`api/photos.go`, `store/photos.go`) | `<hash>.jpg` files shared by all users; rows of `photos` and `photo_records` | attach, import, remove, erase | decisions, imports |
| Timeline parser (`timeline`) | none | sniff a file, read its entries | import pipeline |
| Photo readers (`photo`, `photosource`) | none | read EXIF, HEIF and sidecars, pair, merge, scale | import pipeline |
| Trip detection (`detect/*.go`) | none: recomputed from everything after every import | stays, outliers, bases, away-spans, candidates | observations |
| Matching (`detect/match.go`) | none: an assignment computed at every read | `Match` | triage, journeys, photos, shares |
| Triage (`api/server.go`, `store/decisions.go`, `store/runs.go`) | detection runs, candidates, decisions (unique by anchor) | save a run, decide, decide in bulk, list | matching, photos, shares |
| Journey assembly (`journey`, `geo`) | none: assembled at every read | select, reject, thin, legs, stops, figures, place photos | observations, routes |
| Routing and route cache (`route`, `store/routes.go`, `route` command) | answers of a router by pair of places; a record of each run | fill, refresh, apply to a journey | a routing service |
| Accounts (`api/auth.go`, `store/sessions.go`, `store/users.go`) | users, sessions, the user cap of the process | complete a sign-in, sign out, expire, delete the account, restart | deletion, an advisory lock of the database |
| Share links (`api/shares.go`, `store/shares.go`) | share links | mint, revoke, read by token | decisions, journeys |
| Backup and restore (`backup/backup.go`, `store/backup.go`) | the archive file | write an archive beside a running server, restore it | decisions, photos, thumbnails |
| Reference data (`countries`, `states`) | polygons | load, look up | journeys |
| Suggestions (`suggest`) | none | ask a geocoder for a name | a service |
| Command line (`cmd/roadbook`) | none | the commands | all of the above |
| Web application (`web/`) | the page | reads the API | API |
| Operations scripts (`scripts/`) | containers, waiting list | back up a stack, restore it | the commands |

### What is hard here

* Handlers, background goroutines and terminal commands interleave at every
  statement; only imports and deletions share a mutex, and the commands are
  outside it.
* A deletion goes table by table at READ COMMITTED, beside an import from the
  terminal; overlapping exports imported at once wait for each other's hashes.
* A handler resolves something (a candidate, a decision, an account), does slow
  work (reads a body, stores a file), and writes afterwards.
* Files and rows have to agree although no transaction spans them; a thumbnail
  file belongs to every user who has that photo.
* The process may die between any two steps; the next start sweeps.
* A failure is recorded on a context that may be the very thing that failed.
* Associations between decisions and candidates are recomputed at every read
  from two unordered lists.
* Detection forgets everything and starts again after each import, whatever the
  order the history arrives in; candidates have to stay what they were where
  nothing new was learnt.
* What arrives is malformed in places: one bad point, entry or tag among
  millions has to cost itself and nothing else.
* A journey is put together from fixes of which some are impossible; its gaps
  are collected by one function for the router and drawn by another.
* Routing batches run beside each other and beside readers, fail pair by pair
  and are cut off.
* Admission under a cap, beside deletions, at READ COMMITTED.
* A backup reads a live database and a live directory without a transaction.

`PROJECT.json` lists each of these as a hazard at its line.

### What makes each component correct

* Import pipeline: the lock given back on every path; every row finalised
  exactly once; observations stored exactly with `completed`, and each of them
  once; a detection that reports success saw the import; no row without its
  file; every detection comes to a verdict.
* Deletion: nothing that was stored when it began is left; no import is half
  deleted and says it is whole; it never waits in a ring.
* Photo storage: never a row whose thumbnail is gone; nothing of an erased
  account comes back, and its files end with its rows.
* Readers: what cannot be read is absent, costs itself only, and depends on
  nothing beside it.
* Matching: one-to-one, stable, independent of the order of its inputs,
  insensitive to boundaries that drift.
* Detection: no two trips overlap; a destination was dwelt at on its trip; a
  stay is what photos witness; an import from another time leaves a finished
  trip alone.
* Triage: a decision changes no other candidate's decision; a batch is the same
  as its decisions one by one; photos and links land on the decision that their
  trip shows.
* Journeys: a rejection mends the path and takes no flight; every instant has
  its place; a road replaces only what was unknown, and what was measured stays.
* Routing: a run's record is true; nothing is asked twice; a router that fails
  takes no road away.
* Accounts: admission respects the cap, a session opens the account of who signed in, nobody waits for ever.
* Backup: an archive can be restored from itself; restoring brings everything
  back and can be interrupted.

## 2. The modules

| Module | Models | Uses |
|---|---|---|
| `ImportLedger` | abstract: what the `imports` table and the stored history promise | |
| `ImportPipeline` | uploads, photo batches, automatic detection, deletion, `import`, `detect`, crash and restart | refines `ImportLedger` |
| `Intake` | the statements of imports and of a deletion on one user's tables, with the locks and waits of the database | |
| `TimelineParse` | `timeline.Sniff` and `timeline.Parse` as functions of a file | |
| `PhotoMetadata` | `exif.go`, `heif.go`, `sidecar.go`, `photo.go` as functions of a file | |
| `PhotoBatch` | `photosource`: scanning, pairing, merging, the verdict of each file of a batch | `PhotoMetadata` |
| `ThumbFiles` | the thumbnail directory and the two tables that name its files | |
| `Line` | the world of the next two: places on a line, stable sorts | |
| `Detection` | `detect.Run` with `bases.go` and `synth.go` as functions of a history | `Line` |
| `Journey` | `journey.Assemble`, its figures, the placement of photos, `route.Apply` | `Line` |
| `Routing` | batches of the `route` command and the cache | |
| `Matching` | `detect.Match` as a function of two sets | |
| `Triage` | decisions over detection runs that change beneath them | `Matching` |
| `Accounts` | sign-in, sessions, deletion of accounts, restarts with another cap | |
| `BackupRestore` | `backup.Write` and `backup.Restore` beside a person who goes on | |
| `...Proofs` | the theorems about `ImportPipeline`, `Intake` with the files it reads, `Journey` with `Routing` (`RoutingProofs`, which takes its lemmas about sequences from `DetectionProofs`), `Accounts`, `ThumbFiles`, `BackupRestore`, `Detection`, `Triage` with `Matching` | the module they are named after or its composition, `TLAPS` |
| `MCIntake` | composition: files are read as the parsers read them, and go through `Intake` | `TimelineParse`, `PhotoBatch`, `Intake` |
| `MCJourneys` | composition: history arrives, the journey is assembled, batches route its gaps, the page is drawn from the cache | `Journey`, `Routing` |
| `MC...` | the small instances | the module they are named after |

### How state and actions correspond to the code

**ImportPipeline.** A request is a constant, used once; `pc` is where its
handler (or the goroutine it started, or the command) is, `lock` is
`Server.importMu`, `status` and `detectStatus` are the two columns of its
`imports` row, `temps` and `retained` the files of the uploads directory,
`stored` the observation tables of a user as one set, `latestRun` what the
newest detection run was computed from. `gone` are requests whose context is
cancelled. Every statement that reaches the database, every file operation and
every lock operation is one action; each can be refused (`...Fails`, bounded by
`MaxFaults`), the process can die between any two (`Crash`), and `Restart` is
`runServe` with its sweep. What a failing step runs afterwards (recording the
failure, removing the temporary file, unlocking) is in the action or in the
action it leads to, in the code's order. An import's transaction is two steps: what it
inserts is `mine` (`Parse`, `InsertBatch`) until `StoreBatch` finalises the row and
commits. A deletion's goes through `UserDataTables` one after the other
(`EraseTable`): `erasure` holds how many tables it is past and what it has deleted,
which everybody else sees until `CommitErasure`; an import from the terminal, which
takes no lock, may commit between two of them. `LoadObservations`, which reads its
tables one by one, is one step. In `ImportLedger` a deletion begins (`BeginErase`) and
ends (`Erase`): it takes all that stood when it began, and what came meanwhile it may
take or leave, an import's row and its observations each by themselves.

**Intake** takes those transactions apart further, to the single row that waits for
another. `stored` and `imports` are what is committed; `mine` are the rows an import's transaction has inserted, `doomed`
and `condemned` what the deletion's has deleted, and `erased` how many of
`UserDataTables` it is past. A row is an observation with the offset it is
written in, its hash is the observation alone. A statement sees what is
committed, and an insert of a hash another transaction holds waits for it; a
ring of waiting imports is broken as PostgreSQL does, by failing one of them
(`Deadlocked`). The order of the tables is `DeleteUserData`'s, and the imports
row is finalised by the transaction that inserts the observations. `importMu` is
taken by photo imports and the deletion, not by the terminal.

**TimelineParse, PhotoMetadata, PhotoBatch.** A file is a record: the container
its first bytes announce, the sections and entries of an export, the segments,
boxes and directories of a photo. What the text or the bytes of one value come to
is part of the file: a time is an instant or `BadTime`, a tag's value a value,
`Garbage` (it lies inside the file and is not what its reader reads) or
`Unlocated` (it lies outside). Which of them are looked at, in which order, with
which limits, what is skipped and what ends the parse, is the code's.

**ThumbFiles.** As in `ImportPipeline`, for `storePhoto`, `UploadPhotoImport`,
`DeletePhoto` and `DeleteMyData`, with the files by content hash. A deletion goes statement by
statement: it lists the hashes, deletes `photos` and the other tables, is refused by a photo whose decision
it removes, commits, and only then asks which hashes nobody names and unlinks them.
Thumbnails are written whole; `BackupRestore` has the ones that are cut short.

**Matching.** `Key` is the comparison the pairs are sorted by, `Clash` the two
used-up maps, `Match` the assignment loop; instants are integers and the
distance test is the constant relation `Near`.

**Detection and Journey.** One operator per function of the packages, over
places on a line: a place is an integer number of kilometres and `Dist` the
absolute difference, so that nearness, speed, medians, polylines and grid cells
are arithmetic TLC can do. A loop over a slice that keeps or drops its elements is
the set of the indices it keeps (`Only`, `Where`); one that opens something at an
element and closes it at a later one gives every index the index that opened it
(`Leader`: stays, clusters of fixes, runs of records, the rejection of teleports);
only `Clusters` and `FindSpans`, which carry more than that from one element to the
next, are folds. Binary searches by start are sets. `MCDetection` and `MCJourneys` import observations one at a time and
run the functions after each, as `runAutoDetect` and the page do; `MCDetection` begins
with one of several first files (`Begun`).

**Routing.** A batch is an invocation of the command: it collects the keys of
its scope (`Collect`), looks each up (`LookUp`), asks the router about those
that are not answered (`RouterAnswers`, `RouterFails`), saves each answer as it
comes (`SaveRoute`) and records the run (`Record`). A statement may be refused
and the command killed (`Abort`). In `MCJourneys` the scope is what
`UnknownKeys` finds in the journey at that moment, and `Served` is the journey
with what the cache holds.

**Triage.** The handlers are split where they read: the candidate
(`Resolve`), the latest run (`ReadRun`), the decisions and `Match`
(`ReadDecisions`), and the write. The two queries of `LatestRun` are one step,
because candidates of a run never change. Candidates of one run are taken to be
disjoint.

**Accounts.** Statement by statement at READ COMMITTED: a statement sees what
was committed when it began, waits for a row another transaction has changed
and then goes on, which is how `INSERT ... ON CONFLICT` behaves. The cap
changes only at a restart, as it is read from the flags.

**BackupRestore.** One read of the backup, one row or file of the restore, one
thing the person does per action. The person does not act during a restore (the
instance is set up for it); two commands do not overlap.

## 3. The runs

| Run | Instance | Checks |
|---|---|---|
| `import_accounts` | oidc; two uploads of the same bytes by two users, a photo batch, a deletion; a crash, a refused statement, a detector that may panic, clients that may leave | `RowHasRetainedFile`, `CompletedDetectionSaw` |
| `import_operator` | one user; an upload, a photo batch, a deletion table by table, `import` and `detect` in a terminal without the lock; a crash, a refused statement | `HistoryIsCompleted`, `EvidenceIsStored`, `ImplementsLedger` |
| `import_fair` | one user; a photo batch, a deletion, and either an upload or an `import` in a terminal; a crash or a killed command, a refused statement, a detector that may panic, clients that may leave, under fairness | `LockReleased`, `RunningEnds`, `DetectionResolves` |
| `intake_erased` | two imports from the terminal, a photo batch, a deletion, one death or failure; every malformed file and batch by itself | `SkippedCostsOnlyItself`, `PhotosKeepToThemselves`, `MalformationIsAbsence`, `StoredOnce`, `CompletedIsWhole`, `ErasedIsGone`, `ErasureNeverDeadlocks` |
| `thumbs_shared` | two users, four photos, an attach, two photo imports, a removal, an account deletion; a crash, a refusal | `RowHasThumb`, `ErasedStaysErased`, `FilesEndWithRows` |
| `thumbs_twopeople` | two users who both have the photo that one removes | *violates* `RowHasThumb` |
| `match_stable` | all pairs of lists of two candidates and two decisions | `MatchIsTheStableOne`, `DriftKeepsIdentity` |
| `detect_growth` | histories of up to four observations, imported in any order; a first file with one or two trips and up to two more observations | `StaysAsWitnessed`, `CandidatesDisjoint`, `DestinationOnTheTrip`, `ImportElsewhereChangesNothing` |
| `journeys_routed` | histories of up to four points, fixes and activities, imported in any order; on three of them two routing batches | `RejectionMends`, `CoverageHasNoHoles`, `RoadsAreInference`, `RoutedGapsAreDrawn`, `RecordedIsTrue`, `AskedOnce`, `RoadsGoOnlyByAnswers` |
| `triage_handlers` | a single decision, a bulk, an attach and a link, two at a time, two detection runs at any time | `BulkAddsNothing`, `DecideIsLocal`, `CarriedByItsTrip` |
| `accounts_signin` | three sign-ins of two people, two deletions, a restart that may lower or raise the cap, a refused statement, under fairness | `SessionsOpenTheirAccount`, `AdmittedBelowCap`, `EveryoneAnswered` |
| `backup_cycle` | two trips, two photos, a backup, a loss, two restores of which one may stop or fill the disk | `ArchiveIsRestorable`, `Recovers`, `RowHasThumb` |

What each property says is stated in front of it. Every property of a passing
run has a mutation in `PROJECT.json`: a change of one definition, of the kind
somebody might make to the code, that violates it. The type invariants are in
no run: all of them are theorems (section 4). `OneAtATime` of `ImportPipeline` is a
theorem as well. Some variables are histories, which a property needs and no statement
reads: `standing` in `Intake` and `ImportPipeline` (what was there when a deletion
began), `beside` in `ImportPipeline` (who completed during one), `stragglers` in `ThumbFiles` (who brings a photo
while a deletion of the same account is under way), `overtaken` and `crossed` in `Triage` (who was
at work when a run was saved, or when another wrote), `overfull` in `Accounts` (who
waits for the deletion of their own account while there are more accounts than the cap).

`CHECK_DEADLOCK FALSE` everywhere: requests are used once, so every instance
comes to rest when they are all answered. Waiting in a ring is a property of its
own (`ErasureNeverDeadlocks`), and waiting for ever is `EveryoneAnswered` and
`LockReleased`.

### Bounds, and why they are enough

* *Requests* are finite and used once. Two users, and two requests of the kind
  that race, reach every interleaving of a pair of handlers; a third (the
  deletion or a command) is there wherever the code has three parties. Nothing
  in the code counts handlers. In `import_fair` either the upload or the import from the
  terminal is made (`OneExport`): beside each other they are in `import_operator`. Since making
  a request is never assumed, leaving one out takes nothing from the fairness.
* *Crashes* 1, *faults* 1: the effects of a crash are forgotten with the
  process, except for files and rows, which the states before a crash already
  range over. A second one only repeats this from another such state.
* *File parts* 1 (`MaxFileParts`): more only leave more temporary files, see
  section 5.
* *Intake*: two imports from the terminal that bring the same visit in two
  offsets and the same points in two orders are the smallest that wait for each
  other in a ring; they are interchangeable (symmetry). One deletion: the user is
  empty before it begins anew. Files that meet are plain, in four kinds (whole,
  in another order, blank, cut off); the malformed ones are imported alone, since
  what they come to does not depend on who else imports. Of these there are all
  sequences of two entries, of one to three points, of two files and sidecars in
  every order (`Limit` 2: the third is refused), and every directory with every
  one of its entries broken.
* *Detection runs* 2 in `Triage`: whole, split and drifted spans in either
  order, so that a decision meets a list it was not made on. *Handlers under
  way* 2 (`MaxActive`).
* *Match*: five instants give every order of the ends of two spans over two
  disjoint candidates; three places in a chain make nearness intransitive.
* *Histories* of four observations of eleven shapes in six hours: a home, a trip of
  two observations and one more, before, in or after it; days of three hours let
  a home's era end within the history; a place nobody can reach in time makes
  outliers. Two trips take more observations than can be imported one by one in any
  order, so they are in a first file: home, a trip, home, and perhaps a second trip, each of the
  two by a visit or by photos, over eleven hours; two observations of any shape follow, before,
  in, between and behind the trips. The thresholds are scaled to these distances.
* *Journeys*: up to four observations (`MaxEvidence`) over seven instants and one
  past the window, at places 10, 30 and 200 (where nobody can have been) at any instant,
  and at 12 (in the cluster of 10), 50, the null island and no place at all at some; raw
  fixes inside and outside the accuracy; a flight and a walk. Four fixes are a
  path, a cluster to reject and one on the other side of it. The offset changes
  within the window.
* *Batches* 2 at work of four kinds (two plain ones, one with `-refresh`, one
  with `-router none`; `MaxBatches`), one fault and one failure of the router:
  two are what can be beside each other, and the third finds what two have left
  only if nothing was left by one. They run on three histories, with one gap, with a
  second one, and with one to the far place.
* *Caps* 1 and 2 with two people: below, at and (after a restart) above it.
* *Stops* 1 in `BackupRestore`: the second restore starts from whatever the
  first has left.

The theorems of section 4 hold for every value of these constants.

### Fairness

`import_fair` (`Fairness`): weak fairness of every request's own steps once it has started
(a goroutine or a command that can run does run; the database answers or
refuses) and of `Restart` (the service is kept up by its container's restart
policy). No fairness for clients: one may stall for ever while its body is
read, under the lock, since `serve` sets no read timeout. `LockReleased`
therefore starts when the body is in. Starting a command, leaving, crashing and
being refused are never assumed. They do happen in the run, and what they leave is in the
properties: `RunningEnds` says that a row stops running unless who would have
finalised it is gone (`Stranded`: a killed command, a photo batch whose client left, a
failure the database refused to record), and that the next start ends those too.

`accounts_signin`: weak fairness of the handlers, and of taking the advisory
lock, which PostgreSQL grants in order of arrival, so that a request in line
gets it.

## 4. What is proved

All theorems hold for every set of requests, users, photos, rows, keys, files and
lists, and every value of the bounds.

| Module | Theorem | Says |
|---|---|---|
| `ImportPipelineProofs` | `PipelineTypeOK`, `OneAtATimeHolds` | `TypeOK`; at most one HTTP import or deletion is past the lock |
| | `RowHasRetainedFileHolds` | `Spec => []RowHasRetainedFile` |
| | `EvidenceIsStoredHolds` | `Spec => []EvidenceIsStored` |
| | `CompletedDetectionSawHolds` | `Spec => []CompletedDetectionSaw` |
| | `PipelineImplementsLedger` | without a panicking detector, and with deletions that go table by table beside imports without the lock, `Spec => ImplementsLedger` |
| | `HistoryIsCompletedHolds` | without a panicking detector, `Spec => []HistoryIsCompleted` |
| `IntakeProofs` | `TypeCorrect`, `ObservationsOnce`, `ImportsAreWhole` | `TypeOK`, `StoredOnce`, `CompletedIsWhole` |
| | `ErasuresAreWhole`, `ErasuresNeverDeadlock` | `ErasedIsGone`, `ErasureNeverDeadlocks` |
| | `FilesAreImported` | imports of files as the parsers read them implement the imports: `MCSpec => Spec` |
| | `PhotosComeToTheSame` | `MCSpec => []PhotosKeepToThemselves` |
| | `UnusableCostsOnlyItself` | `MCSpec => []SkippedCostsOnlyItself`, for files of any size |
| | `MalformedIsAbsent` | `MCSpec => []MalformationIsAbsence`, for directories of up to any `MaxEntries` |
| `RoutingProofs` | `TypeCorrect`, `RunsAreTrue`, `NothingIsAskedTwice`, `RoadsStay` | `TypeOK`, `RecordedIsTrue`, `AskedOnce`, `RoadsGoOnlyByAnswers` |
| | `JourneysRunBatches` | routing the gaps of a journey that grows meanwhile implements the batches: `JourneysSpec => Spec` |
| | `GapsAreDrawn` | `JourneysSpec => []RoutedGapsAreDrawn` |
| | `RoadsOnlyInfer`, `RejectionDoesMend` | `RoadsAreInference`, `RejectionMends`, for histories of any length |
| | `NoHoles` | with a positive `ThinSpacing`, `JourneysSpec => []CoverageHasNoHoles` |
| `AccountsProofs` | `TypeCorrect`, `SessionsAreRight`, `AdmissionsRespectTheCap` | `TypeOK`, `SessionsOpenTheirAccount`, `AdmittedBelowCap` |
| `ThumbFilesProofs` | `TypeCorrect`, `ErasedAccountsStayErased`, `FilesEndWithTheirRows` | `TypeOK`, `ErasedStaysErased`, `FilesEndWithRows` |
| | `UnsharedRowsHaveThumbs` | where nobody shares a photo with the handlers that take no lock, `Spec => []RowHasThumb` |
| `BackupRestoreProofs` | `TypeCorrect`, `ArchivesAreRestorable`, `RestoreRecovers`, `RowsHaveFiles` | `TypeOK` with the unique indexes and the foreign key, `ArchiveIsRestorable`, `Recovers`, `RowHasThumb` |
| `TriageProofs` | `MatchIsTheStableOneHolds`, `DriftKeepsIdentityHolds` | `MatchIsTheStableOne`, `DriftKeepsIdentity`, for all lists of any length |
| | `TypeCorrect`, `DecidingIsLocal`, `CarriedByTheirTrips`, `BulksAddNothing` | `TypeOK`, `DecideIsLocal`, `CarriedByItsTrip`, `BulkAddsNothing` |
| `DetectionProofs` | `SpansAreRuns` | `findSpans` finds the maximal runs of what is away from home, all of them and nothing else |
| | `TripsAreDisjoint`, `StaysAreWitnessed` | `CandidatesDisjoint`, `StaysAsWitnessed`, for histories of any length and any parameters |
| | `DestinationsAreOnTheTrip` | with `NearKm <= FarKm` and a positive `MinDwell`, `HistorySpec => []DestinationOnTheTrip` |

They rest on the assumptions the modules state about their constants: kinds of
requests are disjoint, the commands work for the built-in user, a marker such as
`Free` or `NoRow` is none of the values it stands beside, and the bounds are
numbers. TLC evaluates each of them in the module's runs. Eight say more. `AreTrips` of
`Triage`: the candidates of one run last for some time, do not overlap and are near
themselves, which is what `detect.Run` gives with a positive `MinHrs`
(`TripsAreDisjoint` proves the overlap, but for observations that straddle a return);
a decision that is made on one is then matched to it again. `ListsAssumption` of
`MCMatching`: the lists are finite and their ids are their own. `ShapesAssumption` of `MCDetection`: observations
end no earlier than they start, at integer instants and places. `BegunAssumption`: those of
a first file start apart, and its visits and activities follow each other, as those of one
person do. `EvidenceAssumption` of
`MCJourneys`: so do those of a journey, some of them without a place. `LineAssumption`: a
day has instants. `KeysAssumption` of
`MCJourneys`: the pairs the cache is keyed by include those of every journey that is
routed. `FilesAssumption` of `MCIntake`: files have the fields the parsers look at, and their
sections, entries and points are sequences; no file that is none of the phone's exports is
called one; a photo's directories are sequences of entries, and `None`, `Unlocated` and
`Garbage` are none; the rows there are include what files bring, and a batch is a sequence. Four hypotheses are in
the theorems: `~DetectMayPanic` (section 5 says what a panic does); `Unshared`
of `ThumbFilesProofs`, which the instance of `thumbs_shared` satisfies and that of
`thumbs_twopeople`, whose run is a counterexample, does not; `ThinSpacing > 0` of
`NoHoles`, since with a spacing of 0 two fixes of one instant are both kept, and the leg
that holds the instant need not be the one that passes the second of them; and
`NearKm <= FarKm`, `MinDwell > 0` of `DestinationsAreOnTheTrip`, since otherwise what
is far enough for a destination may be at home, and a visit of no length at the very end
of a trip may begin with the observation that ends it. The code's defaults satisfy the
last two (`NEAR` 25 km, `FAR` 100 km, 60 minutes; `cmd/roadbook/main.go:534`), and nothing
checks what is given on the command line.

### The arguments

*ImportPipeline.* `TypeOK` and `OneAtATime` are inductive together: a request is
past the lock exactly when the lock names it, so two of them cannot be. Nothing
after that is inductive by itself. `RowHasRetainedFile` needs `FilesInv`,
which adds what is true before the row exists (an accepted upload's file is
retained) and between a deletion's transaction and its unlinking (a condemned
file belongs to no row), and that no row can appear meanwhile, which is where
`OneAtATime` comes in. `EvidenceIsStored` needs `EvidenceInv`: what a detection
under the lock has loaded is still stored, since only a deletion takes
observations away and it would have to be inside as well. `CompletedDetectionSaw`
needs `SawInv`: a completed import's observations are stored; what a detection
has loaded under the lock covers every import that has a verdict, because nobody
else can be given one meanwhile; so the run it saves does. A deletion goes table by
table, and so two more invariants are about its transaction. `ErasureInv`: once it
is past a table, all that stood in it when it began is deleted, and the rows of uploads and photo
batches there are were there when it began, since they are made under its lock. `WholeInv`: an
import whose row a deletion leaves has none of its observations deleted by it; because
`imports` is the last table, a row it leaves was made after everything else was
deleted. For the refinement,
`RowsInv` says that a request that has not begun its row has none and that one
which is parsing, storing or failing has no completed one; then every action maps to one step of
`ImportLedger` or to a stutter: the first table a deletion enters to `BeginErase`, its commit to
`Erase`, a crash to `Abandon`, and a restart's sweep to one `Fail` of all
running rows. `HistoryIsCompleted` is then proved of the ledger and carried over.

*Intake.* `Once`: no hash is in two transactions, or in one and the table.
`Secured`: what an import has sent is stored or in its own transaction, as long
as its row stands. `Condemning`: once the deletion is past the `imports` table, it
has condemned every import that counts on a row it has deleted; before, the import
would still be condemned, because `imports` is the last table. What an import is
told is there may be doomed, and this is why it matters that its row goes too.

`Reached`: of what stood when the deletion began, every table it is past is doomed, and
nobody else removes any of it: so after the last table all of it goes. The deletion is
in no ring because those it waits for have nothing left to wait for. With the
parsers in front, `Chosen` says that an import that has begun has a file; whatever is
found in it is a sequence of rows, so every step is one of `Intake`. What a photo
comes to is proved of two batches of which one is part of the other (`PartOf`): where
no name repeats a sidecar has at most one candidate, it keeps it in the smaller
batch (`PartnerCarries`), and so the photo keeps its sidecar (`ResolvesAlike`); a
permutation is such a part both ways, a photo with its sidecar one way. What a
file comes to is what its parts come to one after the other (`Collect`), a sequence of
reads, in two sizes: points in a path, entries in a section, sections in a file.
`OneReadLeftOut` takes an unusable one out of such a sequence, `OneReadLess` passes the
one skip less on to the next size; both run along the two sums, which are functions over
the indices (`WalkExists` says there are such functions, `StepByStep` is the induction). The
verdict on the file looks at nothing else that changes (`ExportIs`). Of a directory the
last usable entry of each tag counts (`ValueIs`): an entry out of the file is none
(`BrokenIsAbsent`), and one that cannot be read leaves its tag without a value, unless
another of the tag comes before it, which without it would be the last. A pointer is always the
last of its tag, so the other directories are read as they were (`PointersAreFollowed`).

*Routing.* What a batch has looked up, asked, got and failed are disjoint and add
up to its scope; two batches that asked the same key were under way together, or
the later one would have found the row. For the page: a leg that `Apply` leaves unknown
has a key without a road (`ServedLegs`); a batch that is recorded, without a failure,
has a row for every key of its scope; and the scope was collected with the function
the page asks with. The journey is the one assembled from what is imported at every
step (`IsAssembled`), and an import between two steps of a batch changes none of its
variables.

*Accounts.* A sign-in that has its row in hand knows that the row will be there,
and be its person's only one, when it commits: from the advisory lock
(`MutexInv`), from ids that are nobody's yet (`FreshInv`), and from the row locks
of the deletion (`AccountInv`). `CapInv` carries the room a sign-in was admitted
into to its commit, past the wait for a deletion of its own account too: who waits
is within the cap or one of `overfull`.

*ThumbFiles.* `ErasedStaysErased` is about every state after a deletion: who is still under
way has no decision to bring a photo to any more, and a photo import that began
before the deletion finds its row gone (`ErasedInv`, with `LockInv` for who is inside). `FilesEndWithRows`
needs `StrayInv`: whoever is under way without an account has been noted, and from the
moment a deletion has listed the hashes, every photo of the account is in its list or is
brought by somebody noted. For `RowHasThumb`: a file is there between
its writing and its row (`WrittenInv`), and what is about to be unlinked nobody
has a row for or is bringing one (`UnlinkInv`, with `BroughtInv` for where rows
come from).

*BackupRestore.* `BackupInv` carries the two snapshots of the backup to its
archive: a photo that was read has its decision in the decisions that were read
before. `RestoreInv` says that what a restore knows of the instance is so;
`FreshInv` that an instance nobody has acted in holds only what the archive does;
with the unique indexes, having everything is then being equal.

*Matching.* `Match` is a recursive function on the subsets of the pairs: it takes the best
pair and goes on with those that are left. That the function exists is an induction
over the number of pairs (`AssignmentExists`); what it returns is read off a smallest
subset for which it would be otherwise, and a finite set that is not empty has a smallest
member (`SmallestMember`). From that follow that every set of pairs has a best one
(`HasFirst`), that the assignment is stable (`AssignmentIsStable`), and that two stable
assignments cannot first differ anywhere (`OneStableAssignment`). Under drift, the
pair that overlaps longest stands in nobody's way. These are the first lemmas of
`TriageProofs`.

*Triage.* `TriageInv` says of the rows that ids and anchors tell confirmed ones apart
(`RowsInv`), of every handler how what it has read and computed is related to the
rows as they are now (`RequestInv`: what it carries is there, what it means to insert
has an id that is nobody's), of the run that it is one of the lists (`RunInv`), of what is
to be attached or shared that there is a decision to put it on, which is confirmed if nobody has written
meanwhile (`HoldingInv`, `CarryInv`), and, for every handler that no detection has overtaken, that the list
it matched agrees with what is decided on it (`AgreementInv`): whatever others
write meanwhile, what it holds is what the trip shows. That is what `CarriedByItsTrip`
comes down to (`PuttingIsCarrying`). `DecideIsLocal` needs
the uniqueness of the stable assignment: with one row more, the assignment that is as
before but for the new pair is stable, so it is what `Match` returns. A bulk's updates,
one after the other, touch different rows (`BulkAddsNothing`).

*Detection.* A sort and a filter are known by what they do to the indices: `Sorts` is a
permutation by rising keys, and by rising indices where keys are equal (`Sorting`);
`Selects` is the increasing list of the indices chosen (`Selecting`). What a fold over
indices computes is a function on the sets of them that exists (`FoldExists`) and is
followed along `1 .. k` (`FoldInvariant`). In `findSpans` that invariant is: the spans so
far are the maximal runs that end before `k` with something near home behind them, and
the open span, if there is one, is the run that ends at `k` (`Open`). So the result is
exactly the maximal runs, and between two of them lies an observation near home
(`SpansApart`).

`HistoryInv` says that the stages are those of what is imported and that no two
observations start together, which makes what is read back of a kind all of it, once, in
order (`Lists`, `KindsListed`). `Staged` says what follows for the stages: everything
handed on is sorted by start (`ByStartOrders`) or a part of what was (`OnlyInOrder`); the
bases are finitely many and at a place, so that the distance to the nearest one is a
number (`BasesType`, `HomeDistType`); and no observation comes before a visit that starts
with it (`Foremost`), because stays start with photos, so that visits start apart
(`StaysApart`), and visits are merged in front of everything else by a stable sort.

`TripsAreDisjoint` is then order: what the first trip ends with is over before the
observation near home, unless it straddles it, and the second begins after that. For
`DestinationsAreOnTheTrip`: the destination is a visit that begins within the span
(`DestinationIsDwelt`), and if it was not rejected it is one of the observations. One near home that begins after
the departure and no later than the visit is behind the span, so it begins no
earlier than the span ends and therefore with the visit; it is not in front of it, because the visit is
foremost, and not behind it, because the visit lasts. For `StaysAreWitnessed`: a stay is a
run of photos with one leader (`StaysGoOn`), none of which breaks with those before it;
the mean of the run lies between its extremes (`SumBetween`, `NearMean`), and so a photo
near the mean is near some photos on either side; photos that were taken during the stay are in the
run, since the list has all of them.

*Journey.* A loop that opens and closes is a function of the indices, each value from the
one before (`WalkExists`, `LeaderExists`), and an induction over the index says that
leaders lead runs, one after the other (`LeadersLeadRuns`, `RunsEnd`, `RunsMeet`). The journey is the one
assembled from what is imported at every step (`AlwaysAssembled`), so the three
invariants are about the functions.
`LegsChain`: the legs are a chain over the kept fixes, the first from the first fix, each one from
where the one before it ends, the last to the last fix; sums over it telescope along the
odometer of the path (`PartsMeasured`), so the observed and the inferred kilometres are
those of the path (`LegsMeasureThePath`), and `Apply` changes nothing but unknown legs
(`ServedIs`), which `summarize` does not look at (`SummaryStays`). For `NoHoles`, every
instant of the chain is in one of its legs (`InstantsAreHeld`); with thinned fixes no two
instants are equal (`ThinSpaces`, `SpacedAscends`), so that the first leg that holds the
instant of a fix passes its place, and the polyline is at no distance from there
(`NoWayFromALine`). For `RejectionDoesMend`: whatever is accepted in front of a cluster
is the anchor it is judged from, so an impossible step that is left over was judged, and could not be mended
(`NoneMendable`); where no step is impossible nobody is astray (`AllFlightsSurvive` is the
invariant of that run).

Each proof has one lemma or case per action. Every invariant was run through TLC
on the module's instance before it was proved.

*Only model-checked:* liveness (`LockReleased`, `RunningEnds`, `DetectionResolves`,
`EveryoneAnswered`), since the proof system does not do fairness or `ENABLED` here, and
`ImportElsewhereChangesNothing`: it compares two runs of every stage of the
detection, so that a proof needs of each stage how it depends on what is added, where the
theorems above are about one run. Its exception (`MayProlong`) is in section 5.

`MalformationIsAbsence` is about directories of no more than `MaxEntries` entries, in the
run and in its theorem: of a longer one a removed entry lets another in.

## 5. Where the code and its documentation differ

The run `thumbs_twopeople` is a counterexample to a sentence of the repository
and is listed as a finding: `DeletePhoto` (`photos.go:306`) removes a file other
users' rows name, although `store/deletion.go:72-73` says that "a hash another
user still holds stays". The following were met in the models as well. The
properties of the passing runs name them as their exceptions, or their instances
leave them out, so that everything else is still checked. Paths are under
`src/internal` unless they begin with `migrations` or are the README's.

**Imports and deletion**

* *A detector that panics* (`DetectPanics`, `DetectMayPanic`): the recovery of
  `api/imports.go:156` fails the import whose observations are stored, although
  `imports.go:200` says that "a detect failure never marks the import failed".
  `HistoryIsCompleted` and the refinement are checked and proved without it.
* *A blank file*: `timeline/parse.go:340` indexes the first byte of what is left
  after trimming, and nothing is (`"panic"` of `TimelineParse`). A request is
  aborted; the command dies and its row stays `running` until the next start.
* *A client leaves while its photo batch is stored*: `api/photo_imports.go:134`
  records the failure on the cancelled context, so that it is not recorded, and
  the row says `running` until the next start (`Stranded`, exception of
  `RunningEnds`, as are a command killed at its terminal and a failure the database refuses to record).
* *A crash during automatic detection* (exception of `DetectionResolves`): the
  sweep of `store/uploads.go:98` only looks at `status`; `detect_status` says
  `running` for ever.
* *Two file parts in one body*: `api/imports.go:85` overwrites the name of the
  first temporary file, which nobody removes before the next start.
* *An upload interrupted between rename and row*: `api/imports.go:122-132` leaves
  a retained file no row names and no deletion looks for.
* *An import from the terminal that commits between two tables of a deletion*:
  its observations stay, some or all of them, and its `imports` row goes
  (`store/deletion.go:29`). `ErasedIsGone` is therefore about what was stored
  when the deletion began; `ImportLedger` allows it and nothing else, and
  `HistoryIsCompleted` names it as its exception (`beside`).

**Photos**

* *An attach beside another user's deletion* (excluded by `Unshared`): the
  thumbnail is written, counted as orphaned, unlinked, and then its row is
  inserted (`api/photos.go:193`, `api/deletion.go:30`).
* *A photo import let in before its account's deletion* (`stragglers`, exception of
  `FilesEndWithRows`): its thumbnails are written before its row is refused, and stay. So
  does the file of an attach that a deletion of the same account overtakes: its row is refused,
  or comes after the deletion has listed the hashes (`store/deletion.go:44`) and goes with
  the decision.
* *A trip dismissed while its photos are being uploaded* (`crossed` in
  `CarriedByItsTrip`): `api/photos.go:44` looks at the decision before it reads
  the body, and the photos land on a trip that is dismissed by then.
* *A length with the top bit set* in a HEIF item's 8-byte extent comes out
  negative, and `photo/heif.go:55` does not look at its sign.

**Detection and triage**

* *An observation at home while another is still away* (`Straddled`, exception of
  `CandidatesDisjoint`): the span ends with the end of the away one, behind the
  start of the next span, and two candidates overlap (`detect/detect.go:149`).
* *A visit rejected as an outlier* (exception of `DestinationOnTheTrip`): it is
  gone from the observations but not from the visits a destination is chosen from
  (`detect.go:159`).
* *A photo after the return can prolong the trip* (`MayProlong`, exception of
  `ImportElsewhereChangesNothing`): stays are made of photos before anybody asks
  where home is (`detect/detect.go:105`), so that a photo within `StayMaxGap` of one on
  the trip, at the same place, joins its stay across the visit home between them. With the code's
  defaults that takes a visit home of less than four hours.
* *The first and the last observation, or one with a neighbour at the same
  instant*, have one neighbour to be too fast from and are dropped on that one's
  account, although `detect.go:284` says "from *both* neighbours".
* *A photo taken during the last visit of a trip* ends the trip at the photo
  (`detect.go:149`), where the repository's README (lines 27-29) has photos add
  to what is known.
* *An update onto another decision's anchor* (the `"conflict"` answer of
  `Triage`): detections that split and merge a trip lead `UpdateDecision`
  (`store/decisions.go:100`) onto an anchor that is taken, and the unique index of
  `migrations/00008_decision_anchor_unique.sql` refuses it.
* *A decision on an overtaken candidate* (exception of `DecideIsLocal`):
  `api/server.go:346` reads the candidate of the latest run and writes later; a
  new run in between makes it what `store/runs.go:120-121` says must 404, and
  another handler may be deciding the candidate it is matched by.

**Journeys and routes**

* *A genuine cluster can be rejected*, if the path without it is plausible, which
  `journey/journey.go:53-56` rules out; and consecutive bogus clusters do not fall
  together, as lines 337-341 say, when the next one cannot be bridged from the
  anchor.
* *A stop between activities without points* has the location (0, 0), and photos
  are flagged for being far from it.
* *No civil day at all*: the range begins no later than the window's start and
  ends no earlier than the window's end (`journey/summary.go:88`), each in its own
  offset. The comment at lines 19-21 takes both edges for both ends. Where the
  start's date is after the end's and no leg or stop mends it, the count is 0.
* *An aborted batch* leaves the routes it has saved, and no record of what
  produced them, although `store/routes.go:100` asks for one.
* *A slower batch beside a faster one*, without `-refresh`, overwrites the newer
  answer (exception of `RoadsGoOnlyByAnswers`).

**Accounts and backup**

* *A cap lowered below the population* (`overfull`, exception of
  `AdmittedBelowCap`): a returning sign-in that waits for the deletion of its own
  account inserts a new one without counting again (`store/sessions.go:51-57`,
  against lines 29-30).
* *A trip kept and given a photo between two reads of a backup* (the `failed`
  backup of `BackupRestore`): the check that the foreign key makes "impossible"
  to fail (`backup/backup.go:122`) fails, and no archive is written.
* *A full disk during a restore* (`"cut"`, exception of `RowHasThumb`): the piece
  of a thumbnail is taken for the file by the next restore (`backup.go:317`).

## 6. What is not modelled

* *Text and bytes*: the JSON decoder, the text of times and coordinates, the
  bytes of a TIFF value and the thumbnail scaler. They are functions of one value
  without state; the parsers' modules take their results from the file.
* *Geometry on a sphere*: distances, polylines and nearness are on a line or a
  relation. A property about them would be about floating point.
* *Labels of candidates*: scores, modes, track lengths, repeat counts and names
  decide nothing.
* *`probe.go`, `journey` and other printing commands* read and print.
* *OIDC verification*: the protocol of a provider and two libraries. `Accounts`
  starts where an identity is verified.
* *Share links*: minting is in `Triage`; a revocation is one statement and the
  reads by token change nothing.
* *Reference data* is loaded in one transaction and read. *Suggestions* keep
  nothing.
* *The web application* holds nothing beyond a page; the *scripts* are shell
  around containers; the *generated code* only carries requests and answers.

Two hazards have no property. `LoadObservations` (`store/observations.go:204`)
reads its tables one by one, and a commit between them gives a mixture; each
import is followed by a detection of its own, which replaces it, so that there is
nothing the code promises about the meantime. A client that stalls under the lock
(`api/imports.go:60`) is given no deadline, so no property can say it ends.

## 7. Plan

Done, in order of what the system would lose if it were wrong: the pipeline with
its ledger; detection, matching and triage; accounts; photos; backups; the
erasure of an account table by table; the route cache and the journeys it is
drawn into; the readers and the resolution of a batch; proofs about every module
that changes state, about `Match`, about the parser, the metadata and the resolution of photos, about the two
compositions, about the stays, the trips and their destinations, and about the journeys.

Left:

1. **Detection composed with matching**: a decision stays on its trip while the
   history around it grows. Each is checked alone; `DriftKeepsIdentity` assumes
   the drift that `ImportElsewhereChangesNothing` bounds.
2. **Sharing**: revocation and the reads by token, beside decisions that are
   dismissed and accounts that are deleted.

Runs are kept few: a module gets one instance with every actor in it before it
gets a second, and properties that fail in a named circumstance carry the
circumstance instead of a run of their own.
