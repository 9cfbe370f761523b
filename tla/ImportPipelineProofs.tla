------------------------ MODULE ImportPipelineProofs ------------------------
(***************************************************************************)
(* Proofs about ImportPipeline, for every set of requests, users and       *)
(* exports and every value of the bounds.                                  *)
(***************************************************************************)
EXTENDS ImportPipeline, TLAPS

-----------------------------------------------------------------------------
(* Type correctness. *)

\* The tables a deletion goes through, one by one.
LEMMA TablesInOrder ==
    /\ Len(UserDataTables) = 7
    /\ UserDataTables[6] = "detection_runs" /\ UserDataTables[7] = "imports"
    /\ \A k \in 1 .. 6 : UserDataTables[k] # "imports"
    /\ \A t \in ObservationTables : \E k \in 1 .. 5 : UserDataTables[k] = t
<1>1. /\ Len(UserDataTables) = 7
      /\ UserDataTables[1] = "photo_records" /\ UserDataTables[2] = "raw_positions"
      /\ UserDataTables[3] = "path_points" /\ UserDataTables[4] = "activities"
      /\ UserDataTables[5] = "visits" /\ UserDataTables[6] = "detection_runs"
      /\ UserDataTables[7] = "imports"
  BY DEF UserDataTables
<1>2. \A k \in 1 .. 6 : k = 1 \/ k = 2 \/ k = 3 \/ k = 4 \/ k = 5 \/ k = 6
  OBVIOUS
<1>3. 1 \in 1 .. 5 /\ 2 \in 1 .. 5 /\ 3 \in 1 .. 5 /\ 4 \in 1 .. 5 /\ 5 \in 1 .. 5
  OBVIOUS
<1>4. \A k \in 1 .. 6 : UserDataTables[k] # "imports"
  BY <1>1, <1>2
<1>5. \A t \in ObservationTables : \E k \in 1 .. 5 : UserDataTables[k] = t
  BY <1>1, <1>3 DEF ObservationTables
<1>6. QED
  BY <1>1, <1>4, <1>5

LEMMA InitType == Init => TypeOK
BY RequestsAssumption, OwnersAssumption, BoundsAssumption, TablesInOrder
DEF Init, TypeOK, Phases, Statuses, Http, Imports, Requests, Erasure, NoErasure, Standing,
    NotErasing

LEMMA PastType ==
    ASSUME TypeOK, NEW d \in Deletes
    PROVE  erasure[d].past \in 0 .. 7
BY TablesInOrder DEF TypeOK, Erasure

LEMMA RunSpared ==
    ASSUME NEW x \in Erasure
    PROVE  [x EXCEPT !.run = FALSE] \in Erasure
BY DEF Erasure

LEMMA NoErasureType == NoErasure \in Erasure /\ NotErasing \in Standing
BY TablesInOrder DEF NoErasure, Erasure, NotErasing, Standing

LEMMA EndErasureType ==
    ASSUME TypeOK, NEW r \in Deletes, EndErasure(r)
    PROVE  erasure' \in [Deletes -> Erasure] /\ standing' \in [Deletes -> Standing]
BY NoErasureType DEF TypeOK, EndErasure

LEMMA WorkType ==
    ASSUME TypeOK, NEW r \in Requests, Work(r)
    PROVE  TypeOK'
<1> USE RequestsAssumption, OwnersAssumption, ContentAssumption, BoundsAssumption
    DEF TypeOK, Phases, Busy, Statuses, Http, Cli, Imports, Requests, Run,
        memory, open, disk, rows, environment, Goto, Finish, Refused, Cancelled
<1>1. CASE TryLock(r)
  <2>1. pc' \in [Requests -> Phases]
    <3>1. PICK p \in {"deleting", "receiving", "done"} : pc' = [pc EXCEPT ![r] = p]
      BY <1>1 DEF TryLock
    <3>2. QED BY <3>1
  <2>2. lock' \in Http \union {Free}
    BY <1>1 DEF TryLock
  <2>3. UNCHANGED <<open, up, loaded, unlinks, disk, rows, environment>>
    BY <1>1 DEF TryLock
  <2>4. QED BY <2>1, <2>2, <2>3
<1>2. CASE BeginImport(r) BY <1>2 DEF BeginImport
<1>3. CASE BeginImportFails(r) BY <1>3 DEF BeginImportFails
<1>4. CASE Parse(r) BY <1>4 DEF Parse
<1>5. CASE ParseFails(r) BY <1>5 DEF ParseFails
<1>6. CASE InsertBatch(r) BY <1>6 DEF InsertBatch, Inserted
<1>7. CASE StoreBatch(r) BY <1>7 DEF StoreBatch, StillRunning
<1>8. CASE StoreBatchFails(r) BY <1>8 DEF StoreBatchFails, StillRunning
<1>9. CASE FailImport(r) BY <1>9 DEF FailImport
<1>10. CASE FailImportFails(r) BY <1>10 DEF FailImportFails
<1>11. CASE MarkDetecting(r) BY <1>11 DEF MarkDetecting, SetDetect
<1>12. CASE LoadObservations(r) BY <1>12 DEF LoadObservations, Evidence
<1>13. CASE SaveRun(r)
  <2>1. erasure' \in [Deletes -> Erasure]
    BY <1>13, RunSpared DEF SaveRun
  <2>2. QED BY <1>13, <2>1 DEF SaveRun
<1>14. CASE DetectFails(r) BY <1>14 DEF DetectFails
<1>15. CASE MarkDetected(r) BY <1>15 DEF MarkDetected, SetDetect, Verdict
<1>16. CASE DetectPanics(r) BY <1>16 DEF DetectPanics
<1>17. CASE EraseTable(r)
  <2>0. r \in Deletes /\ erasure[r].past < Len(UserDataTables)
    BY <1>17 DEF EraseTable
  <2>1. r \in Deletes /\ erasure[r].past + 1 \in 0 .. Len(UserDataTables)
    <3>1. erasure[r].past \in 0 .. 7 /\ Len(UserDataTables) = 7
      BY <2>0, TablesInOrder, PastType
    <3>2. QED BY <2>0, <3>1
  <2>2. RowsOf(UserOf[r]) \subseteq Imports
    BY DEF RowsOf
  <2>3. erasure' \in [Deletes -> Erasure]
    BY <1>17, <2>1, <2>2 DEF EraseTable, Erasure
  <2>4. standing' \in [Deletes -> Standing]
    BY <1>17, <2>1, <2>2 DEF EraseTable, Standing
  <2>5. QED BY <1>17, <2>3, <2>4 DEF EraseTable
<1>18. CASE CommitErasure(r)
  <2>1. erasure' \in [Deletes -> Erasure] /\ standing' \in [Deletes -> Standing]
    BY <1>18, EndErasureType DEF CommitErasure
  <2>2. QED
    BY <1>18, <2>1 DEF CommitErasure, EndErasure, Condemned
<1>19. CASE DeleteUserDataFails(r)
  <2>1. erasure' \in [Deletes -> Erasure] /\ standing' \in [Deletes -> Standing]
    BY <1>19, EndErasureType DEF DeleteUserDataFails
  <2>2. QED
    BY <1>19, <2>1 DEF DeleteUserDataFails, EndErasure
<1>20. CASE UnlinkUpload(r) BY <1>20 DEF UnlinkUpload
<1>21. CASE DeleteAnswers(r) BY <1>21 DEF DeleteAnswers
<1>22. QED
  BY <1>1, <1>2, <1>3, <1>4, <1>5, <1>6, <1>7, <1>8, <1>9, <1>10, <1>11,
     <1>12, <1>13, <1>14, <1>15, <1>16, <1>17, <1>18, <1>19, <1>20, <1>21 DEF Work

LEMMA DropTempType ==
    ASSUME TypeOK, NEW r \in Uploads, DropTemp(r)
    PROVE  temps' \in [Uploads -> 0 .. MaxFileParts]
BY BoundsAssumption DEF TypeOK, DropTemp

LEMMA ClientType ==
    ASSUME TypeOK, NEW r \in Requests, Client(r)
    PROVE  TypeOK'
<1> USE RequestsAssumption, BoundsAssumption, ContentAssumption
    DEF TypeOK, Phases, Busy, Http, Cli, Imports, Requests,
        memory, open, disk, rows, environment, Goto, Finish, DropTemp
<1>1. CASE Authenticate(r) BY <1>1 DEF Authenticate
<1>2. CASE ClientLeaves(r) BY <1>2 DEF ClientLeaves
<1>3. CASE ReceiveFile(r) BY <1>3 DEF ReceiveFile
<1>4. CASE AbandonBody(r)
  <2>1. temps' \in [Uploads -> 0 .. MaxFileParts]
    <3>1. CASE r \in Uploads
      BY <3>1, <1>4, DropTempType DEF AbandonBody
    <3>2. CASE r \notin Uploads
      BY <3>2, <1>4 DEF AbandonBody
    <3>3. QED BY <3>1, <3>2
  <2>2. pc' \in [Requests -> Phases] /\ lock' \in Http \union {Free}
    BY <1>4 DEF AbandonBody
  <2>3. QED BY <1>4, <2>1, <2>2 DEF AbandonBody
<1>5. CASE Promote(r) BY <1>5 DEF Promote
<1>6. CASE ResolveBatch(r) BY <1>6 DEF ResolveBatch
<1>7. QED BY <1>1, <1>2, <1>3, <1>4, <1>5, <1>6 DEF Client

LEMMA NextType == TypeOK /\ [Next]_vars => TypeOK'
<1> SUFFICES ASSUME TypeOK, [Next]_vars PROVE TypeOK'
  OBVIOUS
<1> USE DEF memory, open, disk, rows, environment
<1>1. ASSUME NEW r \in Requests, Work(r) PROVE TypeOK'
  BY <1>1, WorkType
<1>2. ASSUME NEW r \in Requests, Client(r) PROVE TypeOK'
  BY <1>2, ClientType
<1>3. ASSUME NEW r \in Requests, CliKilled(r) PROVE TypeOK'
  <2>1. pc' \in [Requests -> Phases] /\ crashes' \in 0 .. MaxCrashes
    BY <1>3, BoundsAssumption DEF CliKilled, TypeOK, Phases
  <2>2. mine' \in [Imports -> SUBSET Observations]
    BY <1>3 DEF CliKilled, TypeOK
  <2>3. QED BY <1>3, <2>1, <2>2 DEF CliKilled, TypeOK
<1>4. CASE Crash
  <2>1. pc' \in [Requests -> Phases]
    BY <1>4 DEF Crash, TypeOK, Phases
  <2>2. crashes' \in 0 .. MaxCrashes
    BY <1>4, BoundsAssumption DEF Crash, TypeOK
  <2>3. /\ mine' \in [Imports -> SUBSET Observations]
        /\ erasure' \in [Deletes -> Erasure] /\ standing' \in [Deletes -> Standing]
    BY <1>4, NoErasureType DEF Crash, TypeOK
  <2>4. QED
    BY <1>4, <2>1, <2>2, <2>3 DEF Crash, TypeOK
<1>5. CASE Restart
  BY <1>5 DEF Restart, Sweeps, TypeOK, Statuses
<1>6. CASE UNCHANGED vars
  BY <1>6 DEF vars, TypeOK
<1>7. QED
  BY <1>1, <1>2, <1>3, <1>4, <1>5, <1>6 DEF Next

\* Every variable keeps its type in every behaviour of the pipeline.
THEOREM PipelineTypeOK == Spec => []TypeOK
BY InitType, NextType, PTL DEF Spec

-----------------------------------------------------------------------------
(* The lock.  OneAtATime is inductive on its own: every step of a handler   *)
(* either stays inside the critical section, or leaves it by Finish.        *)

LEMMA WorkLock ==
    ASSUME TypeOK, OneAtATime, NEW r \in Requests, Work(r)
    PROVE  OneAtATime'
<1> USE RequestsAssumption
    DEF TypeOK, OneAtATime, Busy, Http, Cli, Imports, Requests, Goto, Finish
<1>1. CASE TryLock(r) BY <1>1 DEF TryLock, MayEnter
<1>2. CASE BeginImport(r) BY <1>2 DEF BeginImport
<1>3. CASE BeginImportFails(r) BY <1>3 DEF BeginImportFails
<1>4. CASE Parse(r) BY <1>4 DEF Parse
<1>5. CASE ParseFails(r) BY <1>5 DEF ParseFails
<1>6. CASE InsertBatch(r) BY <1>6 DEF InsertBatch, Inserted
<1>7. CASE StoreBatch(r) BY <1>7 DEF StoreBatch, StillRunning
<1>8. CASE StoreBatchFails(r) BY <1>8 DEF StoreBatchFails, StillRunning
<1>9. CASE FailImport(r) BY <1>9 DEF FailImport
<1>10. CASE FailImportFails(r) BY <1>10 DEF FailImportFails
<1>11. CASE MarkDetecting(r) BY <1>11 DEF MarkDetecting
<1>12. CASE LoadObservations(r) BY <1>12 DEF LoadObservations, Evidence
<1>13. CASE SaveRun(r) BY <1>13 DEF SaveRun
<1>14. CASE DetectFails(r) BY <1>14 DEF DetectFails
<1>15. CASE MarkDetected(r) BY <1>15 DEF MarkDetected
<1>16. CASE DetectPanics(r) BY <1>16 DEF DetectPanics
<1>17. CASE EraseTable(r) BY <1>17 DEF EraseTable, memory
<1>18. CASE CommitErasure(r) BY <1>18 DEF CommitErasure, EndErasure, Condemned
<1>19. CASE DeleteUserDataFails(r) BY <1>19 DEF DeleteUserDataFails, EndErasure
<1>20. CASE UnlinkUpload(r) BY <1>20 DEF UnlinkUpload
<1>21. CASE DeleteAnswers(r) BY <1>21 DEF DeleteAnswers
<1>22. QED
  BY <1>1, <1>2, <1>3, <1>4, <1>5, <1>6, <1>7, <1>8, <1>9, <1>10, <1>11,
     <1>12, <1>13, <1>14, <1>15, <1>16, <1>17, <1>18, <1>19, <1>20, <1>21 DEF Work

LEMMA ClientLock ==
    ASSUME TypeOK, OneAtATime, NEW r \in Requests, Client(r)
    PROVE  OneAtATime'
<1> USE RequestsAssumption
    DEF TypeOK, OneAtATime, Busy, Http, Cli, Requests, Goto, Finish, memory
<1>1. CASE Authenticate(r) BY <1>1 DEF Authenticate
<1>2. CASE ClientLeaves(r) BY <1>2 DEF ClientLeaves
<1>3. CASE ReceiveFile(r) BY <1>3 DEF ReceiveFile
<1>4. CASE AbandonBody(r) BY <1>4 DEF AbandonBody
<1>5. CASE Promote(r) BY <1>5 DEF Promote
<1>6. CASE ResolveBatch(r) BY <1>6 DEF ResolveBatch
<1>7. QED BY <1>1, <1>2, <1>3, <1>4, <1>5, <1>6 DEF Client

LEMMA NextLock == TypeOK /\ OneAtATime /\ [Next]_vars => OneAtATime'
<1> SUFFICES ASSUME TypeOK, OneAtATime, [Next]_vars PROVE OneAtATime'
  OBVIOUS
<1>1. ASSUME NEW r \in Requests, Work(r) PROVE OneAtATime'
  BY <1>1, WorkLock
<1>2. ASSUME NEW r \in Requests, Client(r) PROVE OneAtATime'
  BY <1>2, ClientLock
<1>3. ASSUME NEW r \in Requests, CliKilled(r) PROVE OneAtATime'
  BY <1>3, RequestsAssumption
  DEF CliKilled, OneAtATime, TypeOK, Http, Cli, Requests
<1>4. CASE Crash
  <2>1. \A r \in Http : pc'[r] \notin Busy
    BY <1>4 DEF Crash, TypeOK, Phases, Busy, Requests
  <2>2. \A r \in Http : lock' # r
    BY <1>4, RequestsAssumption DEF Crash, Requests
  <2>3. QED BY <2>1, <2>2 DEF OneAtATime
<1>5. CASE Restart
  BY <1>5 DEF Restart, OneAtATime
<1>6. CASE UNCHANGED vars
  BY <1>6 DEF vars, memory, OneAtATime
<1>7. QED
  BY <1>1, <1>2, <1>3, <1>4, <1>5, <1>6 DEF Next

\* At most one import or deletion is in its critical section, and importMu
\* names it: no path returns with the mutex held, none runs without it.
THEOREM OneAtATimeHolds == Spec => []OneAtATime
<1>1. Init => OneAtATime
  BY RequestsAssumption DEF Init, OneAtATime, Busy, Requests
<1>2. QED
  BY <1>1, NextLock, PipelineTypeOK, PTL DEF Spec

-----------------------------------------------------------------------------
(* The deletion's transaction.  ErasureInv says what it has deleted by the  *)
(* time it is past a table, and that whoever could begin a row, an upload   *)
(* or a photo batch, waits outside the lock meanwhile: the deletion takes   *)
(* all rows of theirs.                                                      *)

HttpImports == Uploads \union PhotoBatches

ErasureOk(d) ==
    /\ pc[d] # "deleting" => erasure[d].past = 0
    /\ standing[d].on <=> erasure[d].past > 0
    /\ erasure[d].past < 7 => erasure[d].condemned = {}
    /\ erasure[d].condemned \subseteq RowsOf(UserOf[d])
    /\ standing[d].on => /\ standing[d].rows \subseteq RowsOf(UserOf[d])
                         /\ standing[d].seen \subseteq stored[UserOf[d]]
    /\ erasure[d].past = 7 =>
            /\ standing[d].rows \subseteq erasure[d].condemned
            /\ RowsOf(UserOf[d]) \cap HttpImports \subseteq erasure[d].condemned
    /\ standing[d].on => \A o \in standing[d].seen : \A k \in 1 .. erasure[d].past :
            TableOf[o] = UserDataTables[k] => o \in erasure[d].doomed

ErasureInv == \A d \in Deletes : ErasureOk(d)

\* What others do leaves a deletion's transaction as it is, if they begin rows
\* only and none of an upload or a photo batch.
LEMMA ErasureKept ==
    ASSUME NEW d \in Deletes, ErasureOk(d),
           pc'[d] = "deleting" \/ pc[d] # "deleting",
           standing'[d] = standing[d],
           erasure'[d].past = erasure[d].past,
           erasure'[d].doomed = erasure[d].doomed,
           erasure'[d].condemned = erasure[d].condemned,
           erasure[d].past > 0 =>
                /\ RowsOf(UserOf[d]) \subseteq RowsOf(UserOf[d])'
                /\ RowsOf(UserOf[d])' \cap HttpImports \subseteq RowsOf(UserOf[d])
                /\ stored[UserOf[d]] \subseteq stored'[UserOf[d]],
           erasure[d].past \in Nat
    PROVE  ErasureOk(d)'
<1>1. CASE erasure[d].past > 0
  BY <1>1 DEF ErasureOk
<1>2. CASE erasure[d].past = 0
  BY <1>2 DEF ErasureOk
<1>3. QED BY <1>1, <1>2

\* A deletion's transaction is over.
LEMMA ErasureOver ==
    ASSUME NEW d \in Deletes, erasure'[d] = NoErasure, standing'[d] = NotErasing
    PROVE  ErasureOk(d)'
<1>1. /\ erasure'[d].past = 0 /\ erasure'[d].condemned = {} /\ ~standing'[d].on
  BY DEF NoErasure, NotErasing
<1>2. QED BY <1>1 DEF ErasureOk

\* While a deletion is under way it holds the lock, and nobody else who needs
\* it is at work.
LEMMA EraserAlone ==
    ASSUME TypeOK, OneAtATime, ErasureInv, NEW d \in Deletes, erasure[d].past > 0
    PROVE  /\ lock = d /\ pc[d] = "deleting"
           /\ \A r \in Http \ {d} : pc[r] \notin Busy
BY RequestsAssumption DEF OneAtATime, ErasureInv, ErasureOk, Busy, Http

LEMMA WorkErasure ==
    ASSUME TypeOK, OneAtATime, ErasureInv, NEW r \in Requests, Work(r)
    PROVE  ErasureInv'
<1> SUFFICES ASSUME NEW d \in Deletes PROVE ErasureOk(d)'
  BY DEF ErasureInv
<1> DEFINE Same == /\ pc'[d] = "deleting" \/ pc[d] # "deleting"
                   /\ standing'[d] = standing[d]
                   /\ erasure'[d].past = erasure[d].past
                   /\ erasure'[d].doomed = erasure[d].doomed
                   /\ erasure'[d].condemned = erasure[d].condemned
           RowsSame == erasure[d].past > 0 =>
                /\ RowsOf(UserOf[d]) \subseteq RowsOf(UserOf[d])'
                /\ RowsOf(UserOf[d])' \cap HttpImports \subseteq RowsOf(UserOf[d])
                /\ stored[UserOf[d]] \subseteq stored'[UserOf[d]]
<1>a. ErasureOk(d) /\ erasure[d].past \in Nat
  BY PastType DEF ErasureInv
<1>b. ASSUME Same, RowsSame PROVE ErasureOk(d)'
  BY <1>a, <1>b, ErasureKept
<1>c. ASSUME erasure[d].past > 0, r # d PROVE r \in Cli \/ pc[r] \notin Busy
  BY <1>c, EraserAlone DEF Requests
<1> HIDE DEF Same, RowsSame
<1>d. ASSUME UNCHANGED <<open, status, stored>>, pc'[d] = "deleting" \/ pc[d] # "deleting"
      PROVE  Same /\ RowsSame
  BY <1>d DEF Same, RowsSame, open, RowsOf
<1>1. CASE /\ ~EraseTable(r) /\ ~CommitErasure(r) /\ ~DeleteUserDataFails(r)
           /\ ~BeginImport(r) /\ ~InsertBatch(r) /\ ~StoreBatch(r) /\ ~StoreBatchFails(r)
           /\ ~FailImport(r) /\ ~SaveRun(r)
  <2>1. UNCHANGED <<open, status, stored>>
    BY <1>1 DEF Work, TryLock, BeginImportFails, Parse, ParseFails, FailImportFails,
                MarkDetecting, LoadObservations, DetectFails, MarkDetected, SetDetect,
                DetectPanics, UnlinkUpload, DeleteAnswers, rows
  <2>2. pc'[d] = "deleting" \/ pc[d] # "deleting"
    BY <1>1, RequestsAssumption
    DEF Work, TryLock, BeginImportFails, Parse, ParseFails, FailImportFails,
        MarkDetecting, LoadObservations, DetectFails, MarkDetected, SetDetect, DetectPanics,
        UnlinkUpload, DeleteAnswers, Goto, Finish, TypeOK, Requests, Imports, Http, Cli
  <2>3. QED BY <2>1, <2>2, <1>b, <1>d
<1>2. CASE BeginImport(r) \/ StoreBatch(r) \/ FailImport(r)
  <2>1. r \in Imports /\ UNCHANGED <<erasure, standing>> /\ r # d
    BY <1>2, RequestsAssumption DEF BeginImport, StoreBatch, FailImport, open, Imports, Http, Cli
  <2>2. pc'[d] = pc[d]
    BY <1>2, <2>1 DEF BeginImport, StoreBatch, FailImport, Goto, Finish, TypeOK, Requests, Http
  <2>3. Same
    BY <2>1, <2>2 DEF Same
  <2>4. status' = [status EXCEPT ![r] = status'[r]]
        /\ (status[r] # "none" => status'[r] # "none")
        /\ (status[r] # "deleted" => status'[r] # "deleted")
    BY <1>2 DEF BeginImport, StoreBatch, FailImport, TypeOK
  <2>5. RowsSame
    <3> SUFFICES ASSUME erasure[d].past > 0
                 PROVE  /\ RowsOf(UserOf[d]) \subseteq RowsOf(UserOf[d])'
                        /\ RowsOf(UserOf[d])' \cap HttpImports \subseteq RowsOf(UserOf[d])
                        /\ stored[UserOf[d]] \subseteq stored'[UserOf[d]]
      BY DEF RowsSame
    <3>1. r \in Cli \/ pc[r] \notin Busy
      BY <1>c, <2>1
    <3>2. r \notin HttpImports
      BY <3>1, <1>2, RequestsAssumption
      DEF BeginImport, StoreBatch, FailImport, Busy, HttpImports, Http, Cli
    <3>3. stored[UserOf[d]] \subseteq stored'[UserOf[d]]
      <4>1. stored' = stored \/ stored' = [stored EXCEPT ![UserOf[r]] = @ \union mine[r]]
        BY <1>2 DEF BeginImport, StoreBatch, FailImport
      <4>2. stored \in [Users -> SUBSET Observations] /\ UserOf[d] \in Users
        BY OwnersAssumption DEF TypeOK, Requests, Http
      <4>3. QED BY <4>1, <4>2
    <3>4. QED BY <3>2, <3>3, <2>4 DEF RowsOf, TypeOK
  <2>6. QED BY <2>3, <2>5, <1>b
<1>3. CASE InsertBatch(r) \/ StoreBatchFails(r)
  <2>1. r \in Imports /\ UNCHANGED <<erasure, standing, status, stored>> /\ r # d
    BY <1>3, RequestsAssumption
    DEF InsertBatch, StoreBatchFails, open, rows, Imports, Http, Cli
  <2>2. pc'[d] = pc[d]
    BY <1>3, <2>1 DEF InsertBatch, StoreBatchFails, Goto, TypeOK, Requests, Http
  <2>3. Same /\ RowsSame
    BY <2>1, <2>2 DEF Same, RowsSame, RowsOf
  <2>4. QED BY <2>3, <1>b
<1>4. CASE SaveRun(r)
  <2>1. UNCHANGED <<standing, status, stored>> /\ (pc'[d] = "deleting" \/ pc[d] # "deleting")
    BY <1>4 DEF SaveRun, Goto, TypeOK, Requests, Http
  <2>2. /\ erasure'[d].past = erasure[d].past /\ erasure'[d].doomed = erasure[d].doomed
        /\ erasure'[d].condemned = erasure[d].condemned
    BY <1>4 DEF SaveRun, TypeOK, Erasure
  <2>3. Same /\ RowsSame
    BY <2>1, <2>2 DEF Same, RowsSame, RowsOf
  <2>4. QED BY <2>3, <1>b
<1>5. CASE EraseTable(r)
  <2>1. r \in Deletes /\ pc[r] = "deleting" /\ erasure[r].past \in 0 .. 6 /\ UNCHANGED <<pc, status, stored>>
    BY <1>5, TablesInOrder, PastType DEF EraseTable, memory, rows
  <2>2. CASE r # d
    <3>1. erasure'[d] = erasure[d] /\ standing'[d] = standing[d]
      BY <1>5, <2>2 DEF EraseTable, TypeOK
    <3>2. Same /\ RowsSame
      BY <2>1, <3>1 DEF Same, RowsSame, RowsOf
    <3>3. QED BY <3>2, <1>b
  <2>3. CASE r = d
    <3> DEFINE u == UserOf[d]
               p == erasure[d].past
               table == UserDataTables[p + 1]
    <3>1. /\ erasure'[d].past = p + 1
          /\ erasure'[d].doomed = erasure[d].doomed \union {o \in stored[u] : TableOf[o] = table}
          /\ erasure'[d].condemned = IF table = "imports" THEN RowsOf(u) ELSE erasure[d].condemned
      BY <1>5, <2>3, <2>1 DEF EraseTable, TypeOK
    <3>2. standing'[d] = IF p = 0 THEN [on |-> TRUE, rows |-> RowsOf(u), seen |-> stored[u]]
                                  ELSE standing[d]
      BY <1>5, <2>3, <2>1 DEF EraseTable, TypeOK
    <3>3. RowsOf(u)' = RowsOf(u)
      BY <2>1 DEF RowsOf
    <3>4. p \in 0 .. 6 /\ (p = 6 <=> table = "imports") /\ (p < 6 => p + 1 < 7)
      BY <2>1, <2>3, TablesInOrder
    <3>5. standing'[d].on /\ p + 1 > 0 /\ pc'[d] = "deleting"
      BY <2>1, <2>3, <3>2, <3>4, <1>a DEF ErasureOk
    <3>6. standing'[d].rows \subseteq RowsOf(u) /\ standing'[d].seen \subseteq stored[u]
      BY <3>2, <3>4, <1>a DEF ErasureOk
    <3>7. ASSUME NEW o \in standing'[d].seen, NEW k \in 1 .. p + 1,
                 TableOf[o] = UserDataTables[k]
          PROVE  o \in erasure'[d].doomed
      <4>1. CASE k = p + 1
        <5>1. o \in stored[u]
          BY <3>6, <3>7
        <5>2. QED BY <5>1, <4>1, <3>1, <3>7
      <4>2. CASE k # p + 1
        <5>1. p > 0 /\ k \in 1 .. p
          BY <4>2, <3>4
        <5>2. o \in standing[d].seen /\ standing[d].on
          BY <5>1, <3>2, <3>7, <1>a DEF ErasureOk
        <5>3. QED BY <5>1, <5>2, <3>1, <3>7, <1>a DEF ErasureOk
      <4>3. QED BY <4>1, <4>2
    <3>8. CASE p = 6
      <4>1. erasure'[d].condemned = RowsOf(u) /\ erasure'[d].past = 7
        BY <3>8, <3>1, <3>4
      <4>2. QED BY <3>8, <4>1, <3>3, <3>5, <3>6, <3>7, <2>1 DEF ErasureOk
    <3>9. CASE p < 6
      <4>1. erasure'[d].condemned = {}
        BY <3>9, <3>1, <3>4, <1>a DEF ErasureOk
      <4>2. erasure'[d].past = p + 1 /\ p + 1 < 7
        BY <3>9, <3>1, <3>4
      <4>3. QED BY <4>1, <4>2, <3>3, <3>5, <3>6, <3>7, <2>1 DEF ErasureOk
    <3>10. QED BY <3>4, <3>8, <3>9
  <2>4. QED BY <2>2, <2>3
<1>6. CASE CommitErasure(r) \/ DeleteUserDataFails(r)
  <2>1. r \in Deletes /\ EndErasure(r) /\ pc[r] = "deleting"
    BY <1>6 DEF CommitErasure, DeleteUserDataFails
  <2>2. CASE r = d
    BY <2>1, <2>2, ErasureOver DEF EndErasure, TypeOK
  <2>3. CASE r # d
    <3>1. erasure'[d] = erasure[d] /\ standing'[d] = standing[d] /\ pc'[d] = pc[d]
      BY <1>6, <2>1, <2>3
      DEF EndErasure, CommitErasure, DeleteUserDataFails, Goto, Finish, TypeOK, Requests, Http
    <3>2. ~(erasure[d].past > 0)
      BY <2>1, <2>3, EraserAlone DEF Busy, Http
    <3>3. Same /\ RowsSame
      BY <3>1, <3>2 DEF Same, RowsSame
    <3>4. QED BY <3>3, <1>b
  <2>4. QED BY <2>2, <2>3
<1>7. QED
  BY <1>1, <1>2, <1>3, <1>4, <1>5, <1>6

\* A deletion takes every row of an upload or a photo batch of its user.
LEMMA CommitTakesAll ==
    ASSUME TypeOK, ErasureInv, NEW r \in Deletes, CommitErasure(r)
    PROVE  \A i \in HttpImports : UserOf[i] = UserOf[r] => status'[i] \in {"none", "deleted"}
<1>1. RowsOf(UserOf[r]) \cap HttpImports \subseteq erasure[r].condemned
  BY TablesInOrder DEF CommitErasure, ErasureInv, ErasureOk
<1>2. \A i \in HttpImports : i \in Imports
  BY DEF HttpImports, Imports
<1>3. QED
  BY <1>1, <1>2 DEF CommitErasure, RowsOf

LEMMA NextErasure ==
    TypeOK /\ OneAtATime /\ ErasureInv /\ [Next]_vars => ErasureInv'
<1> SUFFICES ASSUME TypeOK, OneAtATime, ErasureInv, [Next]_vars PROVE ErasureInv'
  OBVIOUS
<1>1. ASSUME NEW r \in Requests, Work(r) PROVE ErasureInv'
  BY <1>1, WorkErasure
<1>2. ASSUME NEW d \in Deletes, UNCHANGED <<erasure, standing, stored>>,
             pc'[d] = "deleting" \/ pc[d] # "deleting",
             \A i \in Imports : status'[i] \in {"none", "deleted"} <=> status[i] \in {"none", "deleted"}
      PROVE  ErasureOk(d)'
  <2>1. RowsOf(UserOf[d])' = RowsOf(UserOf[d])
    BY <1>2 DEF RowsOf
  <2>2. ErasureOk(d) /\ erasure[d].past \in Nat
    BY PastType DEF ErasureInv
  <2>3. QED BY <1>2, <2>1, <2>2, ErasureKept
<1>3. ASSUME NEW r \in Requests, Client(r) \/ CliKilled(r) PROVE ErasureInv'
  <2>1. UNCHANGED <<erasure, standing, stored, status>>
    BY <1>3 DEF Client, Authenticate, ClientLeaves, ReceiveFile, AbandonBody, Promote,
                ResolveBatch, CliKilled, open, rows
  <2>2. \A d \in Deletes : pc'[d] = "deleting" \/ pc[d] # "deleting"
    BY <1>3, RequestsAssumption
    DEF Client, Authenticate, ClientLeaves, ReceiveFile, AbandonBody, Promote, ResolveBatch,
        CliKilled, memory, Goto, Finish, TypeOK, Requests, Http, Cli
  <2>3. QED BY <2>1, <2>2, <1>2 DEF ErasureInv
<1>4. CASE Crash
  BY <1>4, ErasureOver DEF Crash, ErasureInv
<1>5. CASE Restart
  <2>1. UNCHANGED <<erasure, standing, stored, pc>>
    BY <1>5 DEF Restart, open
  <2>2. \A i \in Imports : status'[i] \in {"none", "deleted"} <=> status[i] \in {"none", "deleted"}
    BY <1>5 DEF Restart, Sweeps
  <2>3. QED BY <2>1, <2>2, <1>2 DEF ErasureInv
<1>6. CASE UNCHANGED vars
  BY <1>6, <1>2 DEF vars, open, rows, memory, ErasureInv
<1>7. QED
  BY <1>1, <1>3, <1>4, <1>5, <1>6 DEF Next

THEOREM ErasureInvHolds == Spec => []ErasureInv
<1>1. Init => ErasureInv
  BY DEF Init, ErasureInv, ErasureOk, NoErasure, NotErasing
<1>2. QED
  BY <1>1, NextErasure, PipelineTypeOK, OneAtATimeHolds, PTL DEF Spec

-----------------------------------------------------------------------------
(* Observations and rows.  An import's transaction holds what of its file   *)
(* was not stored; what was may be doomed meanwhile, but then the deletion  *)
(* has still to come to the imports, or has the row of this one.            *)

WholeOk(r) ==
    LET u == UserOf[r] IN
    /\ mine[r] \subseteq Inserted(r)
    /\ status[r] = "completed" => Inserted(r) \subseteq stored[u]
    /\ pc[r] = "inserted" /\ r \in RowsOf(u) => Inserted(r) \subseteq stored[u] \union mine[r]
    /\ \A d \in Deletes :
        /\ UserOf[d] = u /\ erasure[d].past = 7
        /\ r \in RowsOf(u) /\ r \notin erasure[d].condemned
        /\ status[r] = "completed" \/ pc[r] = "inserted"
        => Inserted(r) \cap erasure[d].doomed = {}

WholeInv == \A r \in Imports : WholeOk(r)

\* Nothing is lost to an import whose transaction and row nobody touches.
LEMMA WholeKept ==
    ASSUME NEW r \in Imports, WholeOk(r),
           mine'[r] = mine[r], stored[UserOf[r]] \subseteq stored'[UserOf[r]],
           status'[r] = "completed" => status[r] = "completed",
           pc'[r] = "inserted" => pc[r] = "inserted",
           r \in RowsOf(UserOf[r])' => r \in RowsOf(UserOf[r]),
           \A d \in Deletes : erasure'[d].past = 7 =>
                /\ erasure[d].past = 7 /\ erasure'[d].doomed = erasure[d].doomed
                /\ erasure'[d].condemned = erasure[d].condemned
    PROVE  WholeOk(r)'
BY DEF WholeOk, Inserted

LEMMA WorkWhole ==
    ASSUME TypeOK, WholeInv, NEW q \in Requests, Work(q)
    PROVE  WholeInv'
<1> SUFFICES ASSUME NEW r \in Imports PROVE WholeOk(r)'
  BY DEF WholeInv
<1>a. WholeOk(r)
  BY DEF WholeInv
<1>b. r \in Requests /\ r \notin Deletes
  BY RequestsAssumption DEF Imports, Requests, Http, Cli
<1>1. CASE /\ ~EraseTable(q) /\ ~CommitErasure(q) /\ ~DeleteUserDataFails(q)
           /\ ~BeginImport(q) /\ ~InsertBatch(q) /\ ~StoreBatch(q) /\ ~StoreBatchFails(q)
           /\ ~FailImport(q) /\ ~SaveRun(q)
  <2>1. UNCHANGED <<open, status, stored>>
    BY <1>1 DEF Work, TryLock, BeginImportFails, Parse, ParseFails, FailImportFails,
                MarkDetecting, LoadObservations, DetectFails, MarkDetected, SetDetect,
                DetectPanics, UnlinkUpload, DeleteAnswers, rows
  <2>2. pc'[r] = "inserted" => pc[r] = "inserted"
    BY <1>1, <1>b
    DEF Work, TryLock, BeginImportFails, Parse, ParseFails, FailImportFails,
        MarkDetecting, LoadObservations, DetectFails, MarkDetected, SetDetect, DetectPanics,
        UnlinkUpload, DeleteAnswers, Goto, Finish, TypeOK
  <2>3. QED BY <2>1, <2>2, <1>a, WholeKept DEF open, RowsOf
<1>2. CASE BeginImport(q) \/ FailImport(q)
  <2>1. UNCHANGED <<open, stored>> /\ q \in Imports
        /\ (pc'[r] = "inserted" => pc[r] = "inserted" /\ q # r)
    BY <1>2, <1>b DEF BeginImport, FailImport, Goto, Finish, TypeOK
  <2>2. \/ status' = [status EXCEPT ![q] = status'[q]] /\ status'[q] # "completed"
        \/ status' = status
    BY <1>2 DEF BeginImport, FailImport, TypeOK
  <2>3. CASE q = r
    <3>1. pc'[r] # "inserted" /\ mine'[r] = mine[r] /\ UNCHANGED <<stored, erasure>>
      BY <2>1, <2>3 DEF open
    <3>2. status'[r] # "completed" \/ status' = status
      BY <2>2, <2>3 DEF TypeOK
    <3>3. CASE status'[r] # "completed"
      BY <3>1, <3>3, <1>a DEF WholeOk, Inserted
    <3>4. CASE status' = status
      BY <3>1, <3>4, <1>a, WholeKept DEF RowsOf
    <3>5. QED BY <3>2, <3>3, <3>4
  <2>4. CASE q # r
    BY <2>1, <2>2, <2>4, <1>a, WholeKept DEF open, RowsOf, TypeOK
  <2>5. QED BY <2>3, <2>4
<1>3. CASE InsertBatch(q)
  <2>1. UNCHANGED <<erasure, status, stored>> /\ q \in Imports
    BY <1>3 DEF InsertBatch, rows
  <2>2. CASE q = r
    <3>1. mine'[r] = Inserted(r) \ stored[UserOf[r]] /\ status'[r] = status[r]
      BY <1>3, <2>1, <2>2 DEF InsertBatch, TypeOK
    <3>2. \A d \in Deletes : UserOf[d] = UserOf[r] /\ erasure[d].past = 7 =>
                Inserted(r) \cap erasure[d].doomed = {}
      BY <1>3, <2>2 DEF InsertBatch, InsertWaits, Erasers
    <3>3. QED BY <3>1, <3>2, <2>1, <1>a DEF WholeOk, Inserted
  <2>3. CASE q # r
    <3>1. mine'[r] = mine[r] /\ pc'[r] = pc[r]
      BY <1>3, <2>3, <1>b DEF InsertBatch, Goto, TypeOK
    <3>2. QED BY <3>1, <2>1, <1>a, WholeKept DEF RowsOf
  <2>4. QED BY <2>2, <2>3
<1>4. CASE StoreBatch(q)
  <2>1. UNCHANGED erasure /\ q \in Imports /\ status[q] = "running" /\ pc[q] = "inserted"
        /\ ~RowIsTaken(q)
    BY <1>4 DEF StoreBatch, StillRunning
  <2>2. stored[UserOf[r]] \subseteq stored'[UserOf[r]]
    BY <1>4, <1>b, OwnersAssumption DEF StoreBatch, TypeOK
  <2>3. CASE q = r
    <3>1. r \in RowsOf(UserOf[r])
      BY <2>1, <2>3 DEF RowsOf
    <3>2. mine'[r] = {} /\ stored'[UserOf[r]] = stored[UserOf[r]] \union mine[r] /\ pc'[r] # "inserted"
      BY <1>4, <2>3, <1>b, OwnersAssumption DEF StoreBatch, Goto, TypeOK
    <3>3. Inserted(r) \subseteq stored'[UserOf[r]]
      BY <3>1, <3>2, <2>1, <2>3, <1>a DEF WholeOk
    <3>4. QED BY <3>1, <3>2, <3>3, <2>1, <2>3, <1>a DEF WholeOk, Inserted
  <2>4. CASE q # r
    <3>1. mine'[r] = mine[r] /\ pc'[r] = pc[r] /\ status'[r] = status[r]
      BY <1>4, <2>4, <1>b DEF StoreBatch, Goto, TypeOK
    <3>2. QED BY <3>1, <2>1, <2>2, <1>a, WholeKept DEF RowsOf
  <2>5. QED BY <2>3, <2>4
<1>5. CASE StoreBatchFails(q)
  <2>1. UNCHANGED <<erasure, status, stored>> /\ q \in Imports
    BY <1>5 DEF StoreBatchFails, rows
  <2>2. CASE q = r
    <3>1. mine'[r] = {} /\ pc'[r] # "inserted"
      BY <1>5, <2>2, <1>b DEF StoreBatchFails, Goto, TypeOK
    <3>2. QED BY <3>1, <2>1, <1>a DEF WholeOk, Inserted, RowsOf
  <2>3. CASE q # r
    <3>1. mine'[r] = mine[r] /\ pc'[r] = pc[r]
      BY <1>5, <2>3, <1>b DEF StoreBatchFails, Goto, TypeOK
    <3>2. QED BY <3>1, <2>1, <1>a, WholeKept DEF RowsOf
  <2>4. QED BY <2>2, <2>3
<1>6. CASE SaveRun(q)
  <2>1. UNCHANGED <<mine, status, stored>> /\ (pc'[r] = "inserted" => pc[r] = "inserted")
    BY <1>6, <1>b DEF SaveRun, Goto, TypeOK
  <2>2. \A d \in Deletes :
            /\ erasure'[d].past = erasure[d].past /\ erasure'[d].doomed = erasure[d].doomed
            /\ erasure'[d].condemned = erasure[d].condemned
    BY <1>6 DEF SaveRun, TypeOK, Erasure
  <2>3. QED BY <2>1, <2>2, <1>a, WholeKept DEF RowsOf
<1>7. CASE EraseTable(q)
  <2>1. UNCHANGED <<pc, mine, status, stored>> /\ q \in Deletes
    BY <1>7 DEF EraseTable, memory, rows
  <2>2. ASSUME NEW d \in Deletes, UserOf[d] = UserOf[r], erasure'[d].past = 7,
               r \in RowsOf(UserOf[r]), r \notin erasure'[d].condemned,
               status[r] = "completed" \/ pc[r] = "inserted"
        PROVE  Inserted(r) \cap erasure'[d].doomed = {}
    <3>1. CASE d = q
      <4>1. erasure[d].past + 1 = 7
        BY <1>7, <2>2, <3>1, PastType DEF EraseTable, TypeOK
      <4>2. UserDataTables[erasure[d].past + 1] = "imports"
        BY <4>1, TablesInOrder
      <4>3. erasure'[d].condemned = RowsOf(UserOf[d])
        BY <1>7, <3>1, <4>2 DEF EraseTable, TypeOK
      <4>4. QED BY <4>3, <2>2
    <3>2. CASE d # q
      BY <1>7, <2>2, <3>2, <1>a DEF EraseTable, WholeOk, TypeOK
    <3>3. QED BY <3>1, <3>2
  <2>3. RowsOf(UserOf[r])' = RowsOf(UserOf[r])
    BY <2>1 DEF RowsOf
  <2>4. QED BY <2>1, <2>2, <2>3, <1>a DEF WholeOk, Inserted
<1>8. CASE CommitErasure(q)
  <2> DEFINE x == erasure[q]
  <2>1. /\ q \in Deletes /\ x.past = 7 /\ mine' = mine /\ EndErasure(q)
        /\ pc'[r] = pc[r]
    BY <1>8, <1>b, TablesInOrder DEF CommitErasure, EndErasure, Goto, TypeOK
  <2>2. /\ status'[r] = IF r \in x.condemned THEN "deleted" ELSE status[r]
        /\ stored' = [stored EXCEPT ![UserOf[q]] = @ \ x.doomed]
    BY <1>8 DEF CommitErasure
  <2>3. \A d \in Deletes : erasure'[d].past = 7 => d # q /\ erasure'[d] = erasure[d]
    BY <2>1 DEF EndErasure, NoErasure, TypeOK
  <2>4. CASE r \in x.condemned
    BY <2>1, <2>2, <2>4, <1>a DEF WholeOk, Inserted, RowsOf
  <2>5. CASE r \notin x.condemned /\ UserOf[r] = UserOf[q]
    <3>1. status'[r] = status[r] /\ stored'[UserOf[r]] = stored[UserOf[r]] \ x.doomed
      BY <2>2, <2>5, <1>b, OwnersAssumption DEF TypeOK
    <3>2. status[r] = "completed" => r \in RowsOf(UserOf[r])
      BY DEF RowsOf
    <3>3. (status[r] = "completed" \/ pc[r] = "inserted") /\ r \in RowsOf(UserOf[r])
          => Inserted(r) \cap x.doomed = {}
      BY <2>1, <2>5, <1>a DEF WholeOk
    <3>4. RowsOf(UserOf[r])' = RowsOf(UserOf[r]) \/ (r \in RowsOf(UserOf[r])' <=> r \in RowsOf(UserOf[r]))
      BY <3>1 DEF RowsOf
    <3>5. r \in RowsOf(UserOf[r])' <=> r \in RowsOf(UserOf[r])
      BY <3>4
    <3>6. QED BY <3>1, <3>2, <3>3, <3>5, <2>1, <2>3, <1>a DEF WholeOk, Inserted
  <2>6. CASE r \notin x.condemned /\ UserOf[r] # UserOf[q]
    <3>1. status'[r] = status[r] /\ stored'[UserOf[r]] = stored[UserOf[r]]
      BY <2>2, <2>6, <1>b, OwnersAssumption DEF TypeOK
    <3>2. r \in RowsOf(UserOf[r])' <=> r \in RowsOf(UserOf[r])
      BY <3>1 DEF RowsOf
    <3>3. QED BY <3>1, <3>2, <2>1, <2>3, <1>a, WholeKept
  <2>7. QED BY <2>4, <2>5, <2>6
<1>9. CASE DeleteUserDataFails(q)
  <2>1. UNCHANGED <<mine, status, stored>> /\ q \in Deletes /\ EndErasure(q) /\ pc'[r] = pc[r]
    BY <1>9, <1>b DEF DeleteUserDataFails, EndErasure, Finish, TypeOK, rows
  <2>2. \A d \in Deletes : erasure'[d].past = 7 => erasure'[d] = erasure[d]
    BY <2>1 DEF EndErasure, NoErasure, TypeOK
  <2>3. QED BY <2>1, <2>2, <1>a, WholeKept DEF RowsOf
<1>10. QED
  BY <1>1, <1>2, <1>3, <1>4, <1>5, <1>6, <1>7, <1>8, <1>9

LEMMA NextWhole == TypeOK /\ WholeInv /\ [Next]_vars => WholeInv'
<1> SUFFICES ASSUME TypeOK, WholeInv, [Next]_vars PROVE WholeInv'
  OBVIOUS
<1>1. ASSUME NEW q \in Requests, Work(q) PROVE WholeInv'
  BY <1>1, WorkWhole
<1>2. ASSUME NEW q \in Requests, Client(q) PROVE WholeInv'
  <2>1. UNCHANGED <<open, status, stored>>
    BY <1>2 DEF Client, Authenticate, ClientLeaves, ReceiveFile, AbandonBody, Promote,
                ResolveBatch, rows
  <2>2. \A r \in Imports : pc'[r] = "inserted" => pc[r] = "inserted"
    BY <1>2
    DEF Client, Authenticate, ClientLeaves, ReceiveFile, AbandonBody, Promote, ResolveBatch,
        memory, Goto, Finish, TypeOK, Requests, Imports, Http, Cli
  <2>3. QED BY <2>1, <2>2, WholeKept DEF WholeInv, open, RowsOf
<1>3. ASSUME NEW q \in Requests, CliKilled(q) PROVE WholeInv'
  <2> SUFFICES ASSUME NEW r \in Imports PROVE WholeOk(r)'
    BY DEF WholeInv
  <2>1. UNCHANGED <<erasure, status, stored>> /\ WholeOk(r) /\ r \in Requests
    BY <1>3 DEF CliKilled, rows, WholeInv, Imports, Requests, Http, Cli
  <2>2. pc'[r] = "inserted" => pc[r] = "inserted" /\ r # q
    BY <1>3, <2>1 DEF CliKilled, TypeOK
  <2>3. mine'[r] = mine[r] \/ (mine'[r] = {} /\ r = q)
    BY <1>3 DEF CliKilled, TypeOK
  <2>4. CASE mine'[r] = mine[r]
    BY <2>1, <2>2, <2>4, WholeKept DEF RowsOf
  <2>5. CASE mine'[r] = {} /\ r = q
    BY <2>1, <2>2, <2>5 DEF WholeOk, Inserted, RowsOf
  <2>6. QED BY <2>3, <2>4, <2>5
<1>4. CASE Crash
  <2> SUFFICES ASSUME NEW r \in Imports PROVE WholeOk(r)'
    BY DEF WholeInv
  <2>1. UNCHANGED <<status, stored>> /\ WholeOk(r) /\ r \in Requests
        /\ \A d \in Deletes : erasure'[d].past # 7
    BY <1>4 DEF Crash, rows, WholeInv, Imports, Requests, Http, Cli, NoErasure
  <2>2. CASE r \in Http
    <3>1. mine'[r] = {} /\ pc'[r] # "inserted"
      BY <1>4, <2>1, <2>2 DEF Crash, TypeOK
    <3>2. QED BY <2>1, <3>1 DEF WholeOk, Inserted
  <2>3. CASE r \notin Http
    <3>1. mine'[r] = mine[r] /\ pc'[r] = pc[r]
      BY <1>4, <2>1, <2>3 DEF Crash, TypeOK
    <3>2. QED BY <2>1, <3>1, WholeKept DEF RowsOf
  <2>4. QED BY <2>2, <2>3
<1>5. CASE Restart
  <2>1. UNCHANGED <<open, stored, pc>>
    BY <1>5 DEF Restart
  <2>2. \A r \in Imports :
            /\ status'[r] = "completed" => status[r] = "completed"
            /\ status'[r] \in {"none", "deleted"} <=> status[r] \in {"none", "deleted"}
    BY <1>5 DEF Restart, Sweeps
  <2>3. QED BY <2>1, <2>2, WholeKept DEF WholeInv, open, RowsOf
<1>6. CASE UNCHANGED vars
  BY <1>6, WholeKept DEF vars, open, rows, memory, WholeInv, RowsOf
<1>7. QED
  BY <1>1, <1>2, <1>3, <1>4, <1>5, <1>6 DEF Next

THEOREM WholeInvHolds == Spec => []WholeInv
<1>1. Init => WholeInv
  BY DEF Init, WholeInv, WholeOk, NoErasure, Imports, Requests, Http, Cli
<1>2. QED
  BY <1>1, NextWhole, PipelineTypeOK, PTL DEF Spec

-----------------------------------------------------------------------------
(* Retained files.  RowHasRetainedFile is not inductive: between Promote    *)
(* and BeginUploadImport the file has no row, and between CommitErasure     *)
(* and its last unlink a hash is condemned.  What keeps the two apart is    *)
(* the lock, so FilesInv states both and is proved on top of OneAtATime.    *)

Named(r) == status[r] \in {"running", "completed", "failed"}

FilesInv ==
    /\ \A r \in Uploads : Named(r) => BytesOf[r] \in retained
    /\ \A r \in Uploads : pc[r] = "accepted" => BytesOf[r] \in retained
    /\ \A r \in Uploads : pc[r] \in {"parsing", "storing", "inserted", "failing"} =>
                            status[r] # "none"
    /\ \A r \in Uploads : pc[r] \in {"stored", "loading", "detecting"} =>
                            status[r] # "none"
    /\ \A d \in Deletes : pc[d] = "unlinking" =>
            \A r \in Uploads : Named(r) => BytesOf[r] \notin unlinks[d]

LEMMA WorkFiles ==
    ASSUME TypeOK, OneAtATime, ErasureInv, FilesInv, NEW r \in Requests, Work(r)
    PROVE  FilesInv'
<1> USE RequestsAssumption, ContentAssumption
    DEF TypeOK, OneAtATime, FilesInv, Named, Busy, Statuses, Http, Cli, Imports,
        Requests, Goto, Finish, disk, open, rows
<1>1. CASE TryLock(r)
  <2>1. UNCHANGED <<unlinks, disk, rows>>
    BY <1>1 DEF TryLock
  <2>2. \A q \in Requests : pc'[q] = pc[q] \/ pc'[q] \in {"deleting", "receiving", "done"}
    BY <1>1 DEF TryLock
  <2>3. QED BY <2>1, <2>2
<1>2. CASE BeginImport(r) BY <1>2 DEF BeginImport
<1>3. CASE BeginImportFails(r) BY <1>3 DEF BeginImportFails
<1>4. CASE Parse(r) BY <1>4 DEF Parse
<1>5. CASE ParseFails(r) BY <1>5 DEF ParseFails
<1>6. CASE InsertBatch(r) BY <1>6 DEF InsertBatch, Inserted
<1>7. CASE StoreBatch(r) BY <1>7 DEF StoreBatch, StillRunning
<1>8. CASE StoreBatchFails(r) BY <1>8 DEF StoreBatchFails, StillRunning
<1>9. CASE FailImport(r) BY <1>9 DEF FailImport
<1>10. CASE FailImportFails(r) BY <1>10 DEF FailImportFails
<1>11. CASE MarkDetecting(r) BY <1>11 DEF MarkDetecting, SetDetect
<1>12. CASE LoadObservations(r) BY <1>12 DEF LoadObservations, Evidence
<1>13. CASE SaveRun(r) BY <1>13 DEF SaveRun
<1>14. CASE DetectFails(r) BY <1>14 DEF DetectFails
<1>15. CASE MarkDetected(r) BY <1>15 DEF MarkDetected, SetDetect, Verdict
<1>16. CASE DetectPanics(r)
  <2>1. UNCHANGED <<open, loaded, unlinks, disk, rows>> /\ pc[r] = "detecting"
    BY <1>16 DEF DetectPanics
  <2>2. \A q \in Requests : pc'[q] = pc[q] \/ (q = r /\ pc'[q] \in {"failing", "done"})
    BY <1>16 DEF DetectPanics
  <2>3. QED BY <2>1, <2>2
<1>17. CASE EraseTable(r) BY <1>17 DEF EraseTable, memory
<1>18. CASE CommitErasure(r)
  <2> DEFINE u == UserOf[r]
  <2>1. ASSUME NEW i \in Uploads, Named(i)'
        PROVE  /\ Named(i) /\ UserOf[i] \in Users \ {u}
               /\ BytesOf[i] \notin Condemned(u)
    <3>1. Named(i) /\ i \notin erasure[r].condemned
      BY <1>18, <2>1 DEF CommitErasure
    <3>2. UserOf[i] # u
      BY <1>18, <2>1, CommitTakesAll DEF CommitErasure, HttpImports
    <3>3. UserOf[i] \in Users /\ i \in RowsOf(UserOf[i]) \cap Uploads
      BY <3>1, OwnersAssumption DEF RowsOf
    <3>4. QED BY <3>1, <3>2, <3>3 DEF Condemned
  <2>2. \A d \in Deletes : pc'[d] = "unlinking" => d = r
    BY <1>18 DEF CommitErasure
  <2>3. unlinks'[r] = Condemned(u)
    BY <1>18 DEF CommitErasure
  <2>4. \A i \in Uploads : pc'[i] = pc[i] /\ (status[i] # "none" => status'[i] # "none")
    BY <1>18 DEF CommitErasure
  <2>5. retained' = retained
    BY <1>18 DEF CommitErasure
  <2>6. QED BY <2>1, <2>2, <2>3, <2>4, <2>5
<1>19. CASE DeleteUserDataFails(r) BY <1>19 DEF DeleteUserDataFails, EndErasure
<1>20. CASE UnlinkUpload(r) BY <1>20 DEF UnlinkUpload
<1>21. CASE DeleteAnswers(r) BY <1>21 DEF DeleteAnswers
<1>22. QED
  BY <1>1, <1>2, <1>3, <1>4, <1>5, <1>6, <1>7, <1>8, <1>9, <1>10, <1>11,
     <1>12, <1>13, <1>14, <1>15, <1>16, <1>17, <1>18, <1>19, <1>20, <1>21 DEF Work

LEMMA ClientFiles ==
    ASSUME TypeOK, OneAtATime, FilesInv, NEW r \in Requests, Client(r)
    PROVE  FilesInv'
<1> USE RequestsAssumption, ContentAssumption
    DEF TypeOK, OneAtATime, FilesInv, Named, Busy, Http, Cli, Imports, Requests,
        Goto, Finish, memory, disk, open, rows
<1>1. CASE Authenticate(r) BY <1>1 DEF Authenticate
<1>2. CASE ClientLeaves(r) BY <1>2 DEF ClientLeaves
<1>3. CASE ReceiveFile(r) BY <1>3 DEF ReceiveFile
<1>4. CASE AbandonBody(r) BY <1>4 DEF AbandonBody
<1>5. CASE Promote(r) BY <1>5 DEF Promote
<1>6. CASE ResolveBatch(r) BY <1>6 DEF ResolveBatch
<1>7. QED
  BY <1>1, <1>2, <1>3, <1>4, <1>5, <1>6 DEF Client

LEMMA NextFiles ==
    TypeOK /\ OneAtATime /\ ErasureInv /\ FilesInv /\ [Next]_vars => FilesInv'
<1> SUFFICES ASSUME TypeOK, OneAtATime, ErasureInv, FilesInv, [Next]_vars PROVE FilesInv'
  OBVIOUS
<1> USE RequestsAssumption
    DEF FilesInv, Named, TypeOK, Http, Cli, Imports, Requests, disk, open, rows
<1>1. ASSUME NEW r \in Requests, Work(r) PROVE FilesInv'
  BY <1>1, WorkFiles
<1>2. ASSUME NEW r \in Requests, Client(r) PROVE FilesInv'
  BY <1>2, ClientFiles
<1>3. ASSUME NEW r \in Requests, CliKilled(r) PROVE FilesInv'
  BY <1>3 DEF CliKilled
<1>4. CASE Crash
  BY <1>4 DEF Crash
<1>5. CASE Restart
  BY <1>5 DEF Restart, Sweeps
<1>6. CASE UNCHANGED vars
  BY <1>6 DEF vars, memory
<1>7. QED
  BY <1>1, <1>2, <1>3, <1>4, <1>5, <1>6 DEF Next

\* Every upload's row names a file that is on disk, although deletion removes
\* shared files after its transaction and uploads promote theirs before it.
THEOREM RowHasRetainedFileHolds == Spec => []RowHasRetainedFile
<1>1. Init => FilesInv
  BY RequestsAssumption DEF Init, FilesInv, Named, Imports, Requests, Http
<1>2. FilesInv => RowHasRetainedFile
  BY DEF FilesInv, Named, RowHasRetainedFile
<1>3. QED
  BY <1>1, <1>2, NextFiles, PipelineTypeOK, OneAtATimeHolds, ErasureInvHolds, PTL DEF Spec

-----------------------------------------------------------------------------
(* The evidence of the latest run.  The strengthening: what a goroutine has *)
(* loaded and not yet saved is still stored, because deletion waits for it; *)
(* and a run a deletion past the runs does not take is the command's.       *)

EvidenceInv ==
    /\ EvidenceIsStored
    /\ \A r \in Http : pc[r] = "detecting" => loaded[r] \subseteq stored[UserOf[r]]
    /\ \A d \in Deletes : erasure[d].past > 5 /\ ~erasure[d].run /\ latestRun[UserOf[d]] # NoRun =>
            latestRun[UserOf[d]].by = "cli"

LEMMA WorkEvidence ==
    ASSUME TypeOK, OneAtATime, ErasureInv, EvidenceInv, NEW r \in Requests, Work(r)
    PROVE  EvidenceInv'
<1> USE RequestsAssumption, OwnersAssumption, ContentAssumption
    DEF TypeOK, OneAtATime, EvidenceInv, EvidenceIsStored, Run, Busy, Http, Cli,
        Imports, Requests, Goto, Finish, disk, open, rows
<1>1. CASE TryLock(r) BY <1>1 DEF TryLock, MayEnter
<1>2. CASE BeginImport(r) BY <1>2 DEF BeginImport
<1>3. CASE BeginImportFails(r) BY <1>3 DEF BeginImportFails
<1>4. CASE Parse(r) BY <1>4 DEF Parse
<1>5. CASE ParseFails(r) BY <1>5 DEF ParseFails
<1>6. CASE InsertBatch(r) BY <1>6 DEF InsertBatch, Inserted
<1>7. CASE StoreBatch(r) BY <1>7 DEF StoreBatch, StillRunning
<1>8. CASE StoreBatchFails(r) BY <1>8 DEF StoreBatchFails, StillRunning
<1>9. CASE FailImport(r) BY <1>9 DEF FailImport
<1>10. CASE FailImportFails(r) BY <1>10 DEF FailImportFails
<1>11. CASE MarkDetecting(r) BY <1>11 DEF MarkDetecting, SetDetect
<1>12. CASE LoadObservations(r) BY <1>12 DEF LoadObservations, Evidence
<1>13. CASE SaveRun(r)
  <2>1. EvidenceIsStored'
    BY <1>13 DEF SaveRun
  <2>2. \A q \in Http : pc'[q] = "detecting" => loaded'[q] \subseteq stored'[UserOf[q]]
    BY <1>13 DEF SaveRun
  <2>3. ASSUME NEW d \in Deletes, erasure'[d].past > 5, ~erasure'[d].run,
               latestRun'[UserOf[d]] # NoRun
        PROVE  latestRun'[UserOf[d]].by = "cli"
    <3>1. erasure'[d].past = erasure[d].past /\ erasure[d].past > 0
      BY <1>13, <2>3, PastType DEF SaveRun, Erasure
    <3>2. r \in Cli
      BY <1>13, <3>1, EraserAlone DEF SaveRun
    <3>3. CASE UserOf[r] = UserOf[d]
      BY <1>13, <3>2, <3>3 DEF SaveRun
    <3>4. CASE UserOf[r] # UserOf[d]
      <4>1. erasure'[d] = erasure[d] /\ latestRun'[UserOf[d]] = latestRun[UserOf[d]]
        BY <1>13, <3>4 DEF SaveRun, Erasers
      <4>2. QED BY <4>1, <2>3
    <3>5. QED BY <3>3, <3>4
  <2>4. QED BY <2>1, <2>2, <2>3
<1>14. CASE DetectFails(r) BY <1>14 DEF DetectFails
<1>15. CASE MarkDetected(r) BY <1>15 DEF MarkDetected, SetDetect, Verdict
<1>16. CASE DetectPanics(r) BY <1>16 DEF DetectPanics
<1>17. CASE EraseTable(r)
  <2>1. UNCHANGED <<pc, loaded, stored, latestRun>> /\ r \in Deletes
    BY <1>17 DEF EraseTable, memory
  <2>2. ASSUME NEW d \in Deletes, erasure'[d].past > 5, ~erasure'[d].run
        PROVE  erasure[d].past > 5 /\ ~erasure[d].run
    <3>1. CASE d # r
      BY <1>17, <2>2, <3>1 DEF EraseTable
    <3>2. CASE d = r
      <4>1. /\ erasure'[r].past = erasure[r].past + 1
            /\ erasure'[r].run = (erasure[r].run \/ UserDataTables[erasure[r].past + 1] = "detection_runs")
        BY <1>17, <2>1 DEF EraseTable
      <4>2. erasure[r].past \in 0 .. 7
        BY <2>1, PastType
      <4>3. ~erasure[r].run /\ erasure[r].past + 1 # 6
        BY <4>1, <2>2, <3>2, TablesInOrder
      <4>4. QED BY <4>1, <4>2, <4>3, <2>2, <3>2
    <3>3. QED BY <3>1, <3>2
  <2>3. QED BY <2>1, <2>2
<1>18. CASE CommitErasure(r)
  <2> DEFINE u == UserOf[r]
  <2>1. r \in Deletes /\ u \in Users /\ erasure[r].past = 7
    BY <1>18, TablesInOrder DEF CommitErasure
  <2>2. /\ stored' = [stored EXCEPT ![u] = @ \ erasure[r].doomed]
        /\ latestRun' = [latestRun EXCEPT ![u] = IF erasure[r].run THEN NoRun ELSE @]
    BY <1>18 DEF CommitErasure
  <2>3. ~erasure[r].run => (latestRun[u] # NoRun => latestRun[u].by = "cli")
    BY <2>1
  <2>4. EvidenceIsStored'
    BY <2>1, <2>2, <2>3
  <2>5. \A q \in Http : pc'[q] # "detecting"
    BY <1>18 DEF CommitErasure
  <2>6. \A d \in Deletes : erasure'[d].past > 5 => erasure'[d] = erasure[d]
    BY <1>18 DEF CommitErasure, EndErasure, NoErasure
  <2>7. QED BY <2>1, <2>2, <2>4, <2>5, <2>6
<1>19. CASE DeleteUserDataFails(r)
  <2>1. \A d \in Deletes : erasure'[d].past > 5 => erasure'[d] = erasure[d]
    BY <1>19 DEF DeleteUserDataFails, EndErasure, NoErasure
  <2>2. QED BY <1>19, <2>1 DEF DeleteUserDataFails
<1>20. CASE UnlinkUpload(r) BY <1>20 DEF UnlinkUpload
<1>21. CASE DeleteAnswers(r) BY <1>21 DEF DeleteAnswers
<1>22. QED
  BY <1>1, <1>2, <1>3, <1>4, <1>5, <1>6, <1>7, <1>8, <1>9, <1>10, <1>11,
     <1>12, <1>13, <1>14, <1>15, <1>16, <1>17, <1>18, <1>19, <1>20, <1>21 DEF Work

LEMMA ClientEvidence ==
    ASSUME TypeOK, EvidenceInv, NEW r \in Requests, Client(r)
    PROVE  EvidenceInv'
<1> USE RequestsAssumption, OwnersAssumption
    DEF TypeOK, EvidenceInv, EvidenceIsStored, Http, Requests,
        Goto, Finish, memory, disk, open, rows
<1>1. CASE Authenticate(r) BY <1>1 DEF Authenticate
<1>2. CASE ClientLeaves(r) BY <1>2 DEF ClientLeaves
<1>3. CASE ReceiveFile(r) BY <1>3 DEF ReceiveFile
<1>4. CASE AbandonBody(r) BY <1>4 DEF AbandonBody
<1>5. CASE Promote(r) BY <1>5 DEF Promote
<1>6. CASE ResolveBatch(r) BY <1>6 DEF ResolveBatch
<1>7. QED
  BY <1>1, <1>2, <1>3, <1>4, <1>5, <1>6 DEF Client

LEMMA NextEvidence ==
    TypeOK /\ OneAtATime /\ ErasureInv /\ EvidenceInv /\ [Next]_vars => EvidenceInv'
<1> SUFFICES ASSUME TypeOK, OneAtATime, ErasureInv, EvidenceInv, [Next]_vars
             PROVE  EvidenceInv'
  OBVIOUS
<1> USE DEF EvidenceInv, EvidenceIsStored, TypeOK, Requests, disk, open, rows
<1>1. ASSUME NEW r \in Requests, Work(r) PROVE EvidenceInv'
  BY <1>1, WorkEvidence
<1>2. ASSUME NEW r \in Requests, Client(r) PROVE EvidenceInv'
  BY <1>2, ClientEvidence
<1>3. ASSUME NEW r \in Requests, CliKilled(r) PROVE EvidenceInv'
  BY <1>3 DEF CliKilled
<1>4. CASE Crash
  BY <1>4 DEF Crash, NoErasure
<1>5. CASE Restart
  BY <1>5 DEF Restart, Sweeps
<1>6. CASE UNCHANGED vars
  BY <1>6 DEF vars, memory
<1>7. QED
  BY <1>1, <1>2, <1>3, <1>4, <1>5, <1>6 DEF Next

\* The latest run of serve is made of observations its user still has: no
\* goroutine brings back, as candidates, what a deletion has removed.
THEOREM EvidenceIsStoredHolds == Spec => []EvidenceIsStored
<1>1. Init => EvidenceInv
  BY DEF Init, EvidenceInv, EvidenceIsStored, Requests, NoErasure
<1>2. EvidenceInv => EvidenceIsStored
  BY DEF EvidenceInv
<1>3. QED
  BY <1>1, <1>2, NextEvidence, PipelineTypeOK, OneAtATimeHolds, ErasureInvHolds, PTL DEF Spec

-----------------------------------------------------------------------------
(* What a completed detection saw.  The strengthening follows the evidence: *)
(* a completed import's observations are stored, the ones a verdict has     *)
(* been given for are in whatever a goroutine has loaded, because nobody    *)
(* else is given a verdict meanwhile, and so in every run that is saved.    *)

\* The latest run was made of everything the import brought, unless it is the
\* operator's.
RunCovers(i) ==
    /\ latestRun[UserOf[i]] # NoRun
    /\ latestRun[UserOf[i]].by = "serve" =>
            Content[BytesOf[i]] \subseteq latestRun[UserOf[i]].seen

\* There is a verdict only after the import, and one to come only by its request.
VerdictInv ==
    \A i \in HttpImports :
        pc[i] \in {"idle", "authenticated", "receiving", "accepted", "parsing", "storing",
                  "inserted"} =>
            detectStatus[i] = "null"

LoadedInv ==
    \A r \in Http, i \in HttpImports :
        /\ pc[r] = "detecting" /\ UserOf[i] = UserOf[r]
        /\ status[i] = "completed" /\ (detectStatus[i] = "completed" \/ i = r)
        => Content[BytesOf[i]] \subseteq loaded[r]

CoveredInv ==
    \A i \in HttpImports :
        status[i] = "completed" /\ (detectStatus[i] = "completed" \/ pc[i] = "saved") => RunCovers(i)

SawInv == VerdictInv /\ LoadedInv /\ CoveredInv

LEMMA WorkVerdict ==
    ASSUME TypeOK, VerdictInv, NEW r \in Requests, Work(r)
    PROVE  VerdictInv'
<1> USE RequestsAssumption, OwnersAssumption
    DEF TypeOK, VerdictInv, HttpImports, Http, Cli, Imports, Requests, Goto, Finish, open, rows
<1>1. CASE TryLock(r) BY <1>1 DEF TryLock, MayEnter
<1>2. CASE BeginImport(r) BY <1>2 DEF BeginImport
<1>3. CASE BeginImportFails(r) BY <1>3 DEF BeginImportFails
<1>4. CASE Parse(r) BY <1>4 DEF Parse
<1>5. CASE ParseFails(r) BY <1>5 DEF ParseFails
<1>6. CASE InsertBatch(r) BY <1>6 DEF InsertBatch, Inserted
<1>7. CASE StoreBatch(r) BY <1>7 DEF StoreBatch, StillRunning
<1>8. CASE StoreBatchFails(r) BY <1>8 DEF StoreBatchFails, StillRunning
<1>9. CASE FailImport(r) BY <1>9 DEF FailImport
<1>10. CASE FailImportFails(r) BY <1>10 DEF FailImportFails
<1>11. CASE MarkDetecting(r) BY <1>11 DEF MarkDetecting, SetDetect
<1>12. CASE LoadObservations(r) BY <1>12 DEF LoadObservations, Evidence
<1>13. CASE SaveRun(r) BY <1>13 DEF SaveRun
<1>14. CASE DetectFails(r) BY <1>14 DEF DetectFails
<1>15. CASE MarkDetected(r) BY <1>15 DEF MarkDetected, SetDetect, Verdict
<1>16. CASE DetectPanics(r) BY <1>16 DEF DetectPanics
<1>17. CASE EraseTable(r) BY <1>17 DEF EraseTable, memory
<1>18. CASE CommitErasure(r) BY <1>18 DEF CommitErasure
<1>19. CASE DeleteUserDataFails(r) BY <1>19 DEF DeleteUserDataFails, EndErasure
<1>20. CASE UnlinkUpload(r) BY <1>20 DEF UnlinkUpload
<1>21. CASE DeleteAnswers(r) BY <1>21 DEF DeleteAnswers
<1>22. QED
  BY <1>1, <1>2, <1>3, <1>4, <1>5, <1>6, <1>7, <1>8, <1>9, <1>10, <1>11,
     <1>12, <1>13, <1>14, <1>15, <1>16, <1>17, <1>18, <1>19, <1>20, <1>21 DEF Work

LEMMA WorkLoaded ==
    ASSUME TypeOK, OneAtATime, ErasureInv, WholeInv, SawInv, NEW r \in Requests, Work(r)
    PROVE  LoadedInv'
<1> USE RequestsAssumption, OwnersAssumption, ContentAssumption
    DEF TypeOK, OneAtATime, SawInv, VerdictInv, LoadedInv, HttpImports, Busy, Statuses,
        Http, Cli, Imports, Requests, Goto, Finish, open, rows
<1>1. CASE TryLock(r) BY <1>1 DEF TryLock, MayEnter
<1>2. CASE BeginImport(r) BY <1>2 DEF BeginImport
<1>3. CASE BeginImportFails(r) BY <1>3 DEF BeginImportFails
<1>4. CASE Parse(r) BY <1>4 DEF Parse
<1>5. CASE ParseFails(r) BY <1>5 DEF ParseFails
<1>6. CASE InsertBatch(r) BY <1>6 DEF InsertBatch, Inserted
<1>7. CASE StoreBatch(r) BY <1>7 DEF StoreBatch, StillRunning
<1>8. CASE StoreBatchFails(r) BY <1>8 DEF StoreBatchFails, StillRunning
<1>9. CASE FailImport(r) BY <1>9 DEF FailImport
<1>10. CASE FailImportFails(r) BY <1>10 DEF FailImportFails
<1>11. CASE MarkDetecting(r) BY <1>11 DEF MarkDetecting, SetDetect
<1>12. CASE LoadObservations(r) BY <1>12 DEF LoadObservations, Evidence, WholeInv, WholeOk, Inserted
<1>13. CASE SaveRun(r) BY <1>13 DEF SaveRun
<1>14. CASE DetectFails(r) BY <1>14 DEF DetectFails
<1>15. CASE MarkDetected(r)
  <2>1. CASE r \in Http
    <3>1. \A q \in Http : pc'[q] # "detecting"
      BY <1>15, <2>1 DEF MarkDetected
    <3>2. QED BY <3>1
  <2>2. CASE r \notin Http
    <3>1. \A q \in Http : pc'[q] = pc[q] /\ loaded'[q] = loaded[q]
      BY <1>15, <2>2 DEF MarkDetected, SetDetect
    <3>2. \A i \in HttpImports : detectStatus'[i] = detectStatus[i] /\ status'[i] = status[i]
      BY <1>15, <2>2 DEF MarkDetected, SetDetect
    <3>3. QED BY <3>1, <3>2
  <2>3. QED BY <2>1, <2>2
<1>16. CASE DetectPanics(r)
  <2>1. UNCHANGED <<status, detectStatus, latestRun, loaded>>
    BY <1>16 DEF DetectPanics
  <2>2. \A q \in Http : pc'[q] = "detecting" => pc[q] = "detecting"
    BY <1>16 DEF DetectPanics
  <2>3. QED BY <2>1, <2>2
<1>17. CASE EraseTable(r) BY <1>17 DEF EraseTable, memory
<1>18. CASE CommitErasure(r)
  <2>1. \A i \in HttpImports : UserOf[i] = UserOf[r] => status'[i] # "completed"
    BY <1>18, CommitTakesAll DEF CommitErasure
  <2>2. \A i \in HttpImports : status'[i] = "completed" =>
            status[i] = "completed" /\ pc'[i] = pc[i] /\ detectStatus'[i] = detectStatus[i]
    BY <1>18 DEF CommitErasure
  <2>3. \A i \in HttpImports : UserOf[i] # UserOf[r] => latestRun'[UserOf[i]] = latestRun[UserOf[i]]
    BY <1>18 DEF CommitErasure
  <2>4. loaded' = loaded /\ \A q \in Http : pc'[q] = "detecting" => pc[q] = "detecting"
    BY <1>18 DEF CommitErasure
  <2>5. QED BY <2>1, <2>2, <2>3, <2>4
<1>19. CASE DeleteUserDataFails(r) BY <1>19 DEF DeleteUserDataFails, EndErasure
<1>20. CASE UnlinkUpload(r) BY <1>20 DEF UnlinkUpload
<1>21. CASE DeleteAnswers(r) BY <1>21 DEF DeleteAnswers
<1>22. QED
  BY <1>1, <1>2, <1>3, <1>4, <1>5, <1>6, <1>7, <1>8, <1>9, <1>10, <1>11,
     <1>12, <1>13, <1>14, <1>15, <1>16, <1>17, <1>18, <1>19, <1>20, <1>21 DEF Work

LEMMA WorkCovered ==
    ASSUME TypeOK, OneAtATime, ErasureInv, WholeInv, SawInv, NEW r \in Requests, Work(r)
    PROVE  CoveredInv'
<1> USE RequestsAssumption, OwnersAssumption, ContentAssumption
    DEF TypeOK, OneAtATime, SawInv, VerdictInv, LoadedInv, CoveredInv, RunCovers, HttpImports,
        Run, Busy, Statuses, Http, Cli, Imports, Requests, Goto, Finish, open, rows
<1>1. CASE TryLock(r) BY <1>1 DEF TryLock, MayEnter
<1>2. CASE BeginImport(r) BY <1>2 DEF BeginImport
<1>3. CASE BeginImportFails(r) BY <1>3 DEF BeginImportFails
<1>4. CASE Parse(r) BY <1>4 DEF Parse
<1>5. CASE ParseFails(r) BY <1>5 DEF ParseFails
<1>6. CASE InsertBatch(r) BY <1>6 DEF InsertBatch, Inserted
<1>7. CASE StoreBatch(r) BY <1>7 DEF StoreBatch, StillRunning
<1>8. CASE StoreBatchFails(r) BY <1>8 DEF StoreBatchFails, StillRunning
<1>9. CASE FailImport(r) BY <1>9 DEF FailImport
<1>10. CASE FailImportFails(r) BY <1>10 DEF FailImportFails
<1>11. CASE MarkDetecting(r) BY <1>11 DEF MarkDetecting, SetDetect
<1>12. CASE LoadObservations(r) BY <1>12 DEF LoadObservations, Evidence
<1>13. CASE SaveRun(r) BY <1>13 DEF SaveRun
<1>14. CASE DetectFails(r) BY <1>14 DEF DetectFails
<1>15. CASE MarkDetected(r) BY <1>15 DEF MarkDetected, SetDetect, Verdict
<1>16. CASE DetectPanics(r) BY <1>16 DEF DetectPanics
<1>17. CASE EraseTable(r) BY <1>17 DEF EraseTable, memory
<1>18. CASE CommitErasure(r)
  <2>1. \A i \in HttpImports : UserOf[i] = UserOf[r] => status'[i] # "completed"
    BY <1>18, CommitTakesAll DEF CommitErasure
  <2>2. \A i \in HttpImports : status'[i] = "completed" =>
            status[i] = "completed" /\ pc'[i] = pc[i] /\ detectStatus'[i] = detectStatus[i]
    BY <1>18 DEF CommitErasure
  <2>3. \A i \in HttpImports : UserOf[i] # UserOf[r] => latestRun'[UserOf[i]] = latestRun[UserOf[i]]
    BY <1>18 DEF CommitErasure
  <2>4. loaded' = loaded /\ \A q \in Http : pc'[q] = "detecting" => pc[q] = "detecting"
    BY <1>18 DEF CommitErasure
  <2>5. QED BY <2>1, <2>2, <2>3, <2>4
<1>19. CASE DeleteUserDataFails(r) BY <1>19 DEF DeleteUserDataFails, EndErasure
<1>20. CASE UnlinkUpload(r) BY <1>20 DEF UnlinkUpload
<1>21. CASE DeleteAnswers(r) BY <1>21 DEF DeleteAnswers
<1>22. QED
  BY <1>1, <1>2, <1>3, <1>4, <1>5, <1>6, <1>7, <1>8, <1>9, <1>10, <1>11,
     <1>12, <1>13, <1>14, <1>15, <1>16, <1>17, <1>18, <1>19, <1>20, <1>21 DEF Work

LEMMA NextSaw ==
    TypeOK /\ OneAtATime /\ ErasureInv /\ WholeInv /\ SawInv /\ [Next]_vars => SawInv'
<1> SUFFICES ASSUME TypeOK, OneAtATime, ErasureInv, WholeInv, SawInv, [Next]_vars
             PROVE  SawInv'
  OBVIOUS
<1> USE RequestsAssumption
    DEF TypeOK, SawInv, VerdictInv, LoadedInv, CoveredInv, RunCovers, HttpImports,
        Imports, Requests, Http, Cli, Goto, Finish, open, rows
<1>1. ASSUME NEW r \in Requests, Work(r) PROVE SawInv'
  BY <1>1, WorkVerdict, WorkLoaded, WorkCovered
<1>2. ASSUME NEW r \in Requests, Client(r) PROVE SawInv'
  <2>1. UNCHANGED <<status, detectStatus, stored, latestRun, loaded>>
    BY <1>2 DEF Client, Authenticate, ClientLeaves, ReceiveFile, AbandonBody, Promote,
                ResolveBatch, memory
  <2>2. \A q \in Requests : pc'[q] = pc[q] \/ pc[q] \in {"idle", "authenticated", "receiving"}
    BY <1>2 DEF Client, Authenticate, ClientLeaves, ReceiveFile, AbandonBody, Promote,
                ResolveBatch, memory
  <2>3. \A q \in Requests : pc'[q] # pc[q] => pc'[q] \in {"authenticated", "accepted", "done"}
    BY <1>2 DEF Client, Authenticate, ClientLeaves, ReceiveFile, AbandonBody, Promote,
                ResolveBatch, memory
  <2> QED
    BY <2>1, <2>2, <2>3
<1>3. ASSUME NEW r \in Requests, CliKilled(r) PROVE SawInv'
  BY <1>3 DEF CliKilled
<1>4. CASE Crash
  BY <1>4 DEF Crash
<1>5. CASE Restart
  BY <1>5 DEF Restart, Sweeps
<1>6. CASE UNCHANGED vars
  BY <1>6 DEF vars, memory
<1>7. QED
  BY <1>1, <1>2, <1>3, <1>4, <1>5, <1>6 DEF Next

\* When a browser is told that detection has run, the candidates on its page
\* were made from everything its import brought in, whatever other imports,
\* deletions, crashes and restarts came between, and unless the operator's own
\* command has replaced the run.
THEOREM CompletedDetectionSawHolds == Spec => []CompletedDetectionSaw
<1>1. Init => SawInv
  BY RequestsAssumption
  DEF Init, SawInv, VerdictInv, LoadedInv, CoveredInv, HttpImports, Imports, Requests,
      Http
<1>2. SawInv => CompletedDetectionSaw
  BY DEF SawInv, CoveredInv, RunCovers, CompletedDetectionSaw, HttpImports
<1>3. QED
  BY <1>1, <1>2, NextSaw, PipelineTypeOK, OneAtATimeHolds, ErasureInvHolds, WholeInvHolds, PTL
  DEF Spec

-----------------------------------------------------------------------------
(* Refinement.  RowsInv says which statuses a row can have while its        *)
(* request is at each step; the failing step never meets a completed row    *)
(* as long as detection does not panic, which is the theorem's assumption.  *)

RowsInv ==
    \A r \in Imports :
        /\ pc[r] \in {"idle", "authenticated", "receiving", "accepted"} =>
                status[r] = "none"
        /\ pc[r] \in {"parsing", "storing", "inserted", "failing"} =>
                status[r] \in {"running", "failed", "deleted"}

LEMMA WorkRows ==
    ASSUME TypeOK, ErasureInv, RowsInv, ~DetectMayPanic, NEW r \in Requests, Work(r)
    PROVE  RowsInv'
<1> USE RequestsAssumption
    DEF TypeOK, RowsInv, Statuses, Http, Cli, Imports, Requests, Goto, Finish, open, rows
<1>1. CASE TryLock(r) BY <1>1 DEF TryLock, MayEnter
<1>2. CASE BeginImport(r) BY <1>2 DEF BeginImport
<1>3. CASE BeginImportFails(r) BY <1>3 DEF BeginImportFails
<1>4. CASE Parse(r) BY <1>4 DEF Parse
<1>5. CASE ParseFails(r) BY <1>5 DEF ParseFails
<1>6. CASE InsertBatch(r) BY <1>6 DEF InsertBatch, Inserted
<1>7. CASE StoreBatch(r) BY <1>7 DEF StoreBatch, StillRunning
<1>8. CASE StoreBatchFails(r) BY <1>8 DEF StoreBatchFails, StillRunning
<1>9. CASE FailImport(r) BY <1>9 DEF FailImport
<1>10. CASE FailImportFails(r) BY <1>10 DEF FailImportFails
<1>11. CASE MarkDetecting(r) BY <1>11 DEF MarkDetecting, SetDetect
<1>12. CASE LoadObservations(r) BY <1>12 DEF LoadObservations, Evidence
<1>13. CASE SaveRun(r) BY <1>13 DEF SaveRun
<1>14. CASE DetectFails(r) BY <1>14 DEF DetectFails
<1>15. CASE MarkDetected(r) BY <1>15 DEF MarkDetected, SetDetect, Verdict
<1>16. CASE DetectPanics(r) BY <1>16 DEF DetectPanics
<1>17. CASE EraseTable(r) BY <1>17 DEF EraseTable, memory
<1>18. CASE CommitErasure(r)
  <2>1. erasure[r].condemned \subseteq RowsOf(UserOf[r]) /\ r \in Deletes
    BY <1>18 DEF CommitErasure, ErasureInv, ErasureOk
  <2>2. QED BY <1>18, <2>1 DEF CommitErasure, RowsOf
<1>19. CASE DeleteUserDataFails(r) BY <1>19 DEF DeleteUserDataFails, EndErasure
<1>20. CASE UnlinkUpload(r) BY <1>20 DEF UnlinkUpload
<1>21. CASE DeleteAnswers(r) BY <1>21 DEF DeleteAnswers
<1>22. QED
  BY <1>1, <1>2, <1>3, <1>4, <1>5, <1>6, <1>7, <1>8, <1>9, <1>10, <1>11,
     <1>12, <1>13, <1>14, <1>15, <1>16, <1>17, <1>18, <1>19, <1>20, <1>21 DEF Work

LEMMA ClientRows ==
    ASSUME TypeOK, RowsInv, NEW r \in Requests, Client(r)
    PROVE  RowsInv'
<1> USE RequestsAssumption
    DEF TypeOK, RowsInv, Http, Cli, Imports, Requests, Goto, Finish, memory, open, rows
<1>1. CASE Authenticate(r) BY <1>1 DEF Authenticate
<1>2. CASE ClientLeaves(r) BY <1>2 DEF ClientLeaves
<1>3. CASE ReceiveFile(r) BY <1>3 DEF ReceiveFile
<1>4. CASE AbandonBody(r) BY <1>4 DEF AbandonBody
<1>5. CASE Promote(r) BY <1>5 DEF Promote
<1>6. CASE ResolveBatch(r) BY <1>6 DEF ResolveBatch
<1>7. QED
  BY <1>1, <1>2, <1>3, <1>4, <1>5, <1>6 DEF Client

LEMMA NextRows ==
    TypeOK /\ ErasureInv /\ RowsInv /\ ~DetectMayPanic /\ [Next]_vars => RowsInv'
<1> SUFFICES ASSUME TypeOK, ErasureInv, RowsInv, ~DetectMayPanic, [Next]_vars
             PROVE  RowsInv'
  OBVIOUS
<1> USE DEF RowsInv, TypeOK, Imports, Requests, Http, Cli, open, rows
<1>1. ASSUME NEW r \in Requests, Work(r) PROVE RowsInv'
  BY <1>1, WorkRows
<1>2. ASSUME NEW r \in Requests, Client(r) PROVE RowsInv'
  BY <1>2, ClientRows
<1>3. ASSUME NEW r \in Requests, CliKilled(r) PROVE RowsInv'
  BY <1>3 DEF CliKilled
<1>4. CASE Crash
  BY <1>4 DEF Crash
<1>5. CASE Restart
  BY <1>5 DEF Restart, Sweeps
<1>6. CASE UNCHANGED vars
  BY <1>6 DEF vars, memory
<1>7. QED
  BY <1>1, <1>2, <1>3, <1>4, <1>5, <1>6 DEF Next

\* A step of a request's own work is a step of the ledger or leaves it alone.
LEMMA WorkImplements ==
    ASSUME TypeOK, ErasureInv, WholeInv, RowsInv, NEW r \in Requests, Work(r)
    PROVE  [Ledger!LedgerNext]_(Ledger!ledgerVars)
<1> USE DEF Ledger!ledgerVars
<1> DEFINE owner == [q \in Imports \union Deletes |-> UserOf[q]]
           carries == [i \in Imports |-> Content[BytesOf[i]]]
<1>a. ASSUME UNCHANGED <<status, stored, standing, beside>>
      PROVE  UNCHANGED Ledger!ledgerVars
  BY <1>a
<1>1. CASE BeginImport(r)
  <2>1. r \in Imports /\ status[r] = "none"
    BY <1>1 DEF BeginImport, RowsInv
  <2>2. Ledger!Begin(r)
    BY <1>1, <2>1 DEF BeginImport, Ledger!Begin, open
  <2>3. QED BY <2>1, <2>2 DEF Ledger!LedgerNext
<1>2. CASE StoreBatch(r)
  <2>1. /\ r \in Imports /\ r \in Requests /\ status[r] = "running" /\ pc[r] = "inserted"
        /\ UserOf[r] \in Users
    BY <1>2, OwnersAssumption DEF StoreBatch, StillRunning
  <2>2. stored[UserOf[r]] \union mine[r] = stored[UserOf[r]] \union carries[r]
    <3>1. WholeOk(r) /\ r \in RowsOf(UserOf[r])
      BY <2>1 DEF WholeInv, RowsOf
    <3>2. QED BY <2>1, <3>1 DEF WholeOk, Inserted
  <2>3. stored' = [stored EXCEPT ![owner[r]] = @ \union carries[r]]
    BY <1>2, <2>1, <2>2 DEF StoreBatch, TypeOK
  <2>4. Erasers(r) = {} <=> ~\E d \in Deletes : owner[d] = owner[r] /\ standing[d].on
    BY <2>1 DEF Erasers, ErasureInv, ErasureOk
  <2>5. beside' = IF \E d \in Deletes : owner[d] = owner[r] /\ standing[d].on
                  THEN beside \union {r} ELSE beside
    BY <1>2, <2>4 DEF StoreBatch
  <2>6. Ledger!Complete(r)
    BY <1>2, <2>1, <2>3, <2>5 DEF StoreBatch, Ledger!Complete
  <2>7. QED BY <2>1, <2>6 DEF Ledger!LedgerNext
<1>3. CASE FailImport(r)
  <2>1. r \in Imports /\ status[r] \in {"running", "failed", "deleted"}
    BY <1>3 DEF FailImport, RowsInv
  <2>2. CASE status[r] = "running"
    <3>1. Ledger!Fail({r})
      BY <1>3, <2>1, <2>2 DEF FailImport, Ledger!Fail, TypeOK, open
    <3>2. {r} \in SUBSET Imports
      BY <2>1
    <3>3. QED BY <3>1, <3>2 DEF Ledger!LedgerNext
  <2>3. CASE status[r] # "running"
    <3>1. status' = status
      BY <1>3, <2>1, <2>3 DEF FailImport, TypeOK
    <3>2. QED BY <1>3, <3>1 DEF FailImport, open
  <2>4. QED BY <2>2, <2>3
<1>4. CASE EraseTable(r)
  <2>1. r \in Deletes /\ erasure[r].past \in 0 .. 7 /\ UNCHANGED <<status, stored, beside>>
    BY <1>4, PastType DEF EraseTable, rows
  <2>2. CASE erasure[r].past = 0
    <3>1. ~standing[r].on
      BY <2>1, <2>2 DEF ErasureInv, ErasureOk
    <3>2. Ledger!RowsThere(owner[r]) = RowsOf(UserOf[r])
      BY <2>1 DEF Ledger!RowsThere, RowsOf
    <3>3. standing' = [standing EXCEPT ![r] =
                [on |-> TRUE, rows |-> RowsOf(UserOf[r]), seen |-> stored[UserOf[r]]]]
      BY <1>4, <2>2 DEF EraseTable
    <3>4. Ledger!BeginErase(r)
      BY <2>1, <3>1, <3>2, <3>3 DEF Ledger!BeginErase
    <3>5. QED BY <2>1, <3>4 DEF Ledger!LedgerNext
  <2>3. CASE erasure[r].past # 0
    <3>1. standing' = standing
      BY <1>4, <2>1, <2>3 DEF EraseTable, TypeOK
    <3>2. QED BY <2>1, <3>1
  <2>4. QED BY <2>2, <2>3
<1>5. CASE CommitErasure(r)
  <2> DEFINE u == UserOf[r]
             E == erasure[r].condemned
             left == stored[u] \ erasure[r].doomed
  <2>1. /\ r \in Deletes /\ u \in Users /\ erasure[r].past = 7 /\ standing[r].on
        /\ ErasureOk(r) /\ owner[r] = u
    BY <1>5, OwnersAssumption, TablesInOrder DEF CommitErasure, ErasureInv, ErasureOk
  <2>2. Ledger!RowsThere(u) = RowsOf(u)
    BY DEF Ledger!RowsThere, RowsOf
  <2>3. standing[r].rows \subseteq E /\ E \subseteq RowsOf(u)
    BY <2>1 DEF ErasureOk
  <2>4. left \subseteq stored[u] \ standing[r].seen
    <3> SUFFICES ASSUME NEW o \in standing[r].seen PROVE o \in erasure[r].doomed
      OBVIOUS
    <3>1. o \in Observations
      BY <2>1 DEF TypeOK, Standing
    <3>2. PICK k \in 1 .. 5 : UserDataTables[k] = TableOf[o]
      BY <3>1, ContentAssumption, TablesInOrder
    <3>3. k \in 1 .. erasure[r].past
      BY <2>1
    <3>4. QED BY <2>1, <3>2, <3>3 DEF ErasureOk
  <2>5. ASSUME NEW i \in RowsOf(u) \ E, status[i] = "completed"
        PROVE  carries[i] \subseteq left
    <3>1. i \in Imports /\ WholeOk(i) /\ UserOf[i] = u
      BY <2>5 DEF RowsOf, WholeInv
    <3>2. QED BY <2>1, <2>5, <3>1 DEF WholeOk, Inserted
  <2>6. /\ status' = [i \in Imports |-> IF i \in E THEN "deleted" ELSE status[i]]
        /\ stored' = [stored EXCEPT ![u] = left]
        /\ standing' = [standing EXCEPT ![r] = NotErasing]
        /\ UNCHANGED beside
    BY <1>5, <2>1 DEF CommitErasure, EndErasure, TypeOK
  <2>7. Ledger!Erase(r, E, left)
    BY <2>1, <2>2, <2>3, <2>4, <2>5, <2>6 DEF Ledger!Erase, Ledger!Over, NotErasing
  <2>8. E \in SUBSET Imports /\ left \in SUBSET Observations
    BY <2>1, <2>3 DEF TypeOK, RowsOf
  <2>9. QED BY <2>1, <2>7, <2>8 DEF Ledger!LedgerNext
<1>6. CASE DeleteUserDataFails(r)
  <2>1. r \in Deletes /\ UNCHANGED <<status, stored, beside>>
        /\ standing' = [standing EXCEPT ![r] = NotErasing]
    BY <1>6 DEF DeleteUserDataFails, EndErasure, rows
  <2>2. Ledger!Abandon({r})
    BY <2>1 DEF Ledger!Abandon, Ledger!Over, NotErasing, TypeOK
  <2>3. {r} \in SUBSET Deletes
    BY <2>1
  <2>4. QED BY <2>2, <2>3 DEF Ledger!LedgerNext
<1>7. CASE ~BeginImport(r) /\ ~StoreBatch(r) /\ ~FailImport(r) /\ ~EraseTable(r)
           /\ ~CommitErasure(r) /\ ~DeleteUserDataFails(r)
  BY <1>7, <1>a
  DEF Work, TryLock, BeginImportFails, Parse, ParseFails, InsertBatch, StoreBatchFails,
      FailImportFails, MarkDetecting, SetDetect, LoadObservations, SaveRun, DetectFails,
      MarkDetected, DetectPanics, UnlinkUpload, DeleteAnswers, open, rows
<1>8. QED
  BY <1>1, <1>2, <1>3, <1>4, <1>5, <1>6, <1>7

LEMMA NextImplements ==
    TypeOK /\ ErasureInv /\ WholeInv /\ RowsInv /\ [Next]_vars
        => [Ledger!LedgerNext]_(Ledger!ledgerVars)
<1> SUFFICES ASSUME TypeOK, ErasureInv, WholeInv, RowsInv, [Next]_vars
             PROVE  [Ledger!LedgerNext]_(Ledger!ledgerVars)
  OBVIOUS
<1>1. ASSUME NEW r \in Requests, Work(r)
      PROVE  [Ledger!LedgerNext]_(Ledger!ledgerVars)
  BY <1>1, WorkImplements
<1>2. ASSUME NEW r \in Requests, Client(r) \/ CliKilled(r)
      PROVE  UNCHANGED <<status, stored, standing, beside>>
  BY <1>2 DEF Client, Authenticate, ClientLeaves, ReceiveFile, AbandonBody,
              Promote, ResolveBatch, CliKilled, open, rows
<1>3. CASE Restart
  <2> DEFINE F == {i \in Imports : status[i] = "running"}
  <2>1. Ledger!Fail(F)
    BY <1>3 DEF Restart, Sweeps, Ledger!Fail, open
  <2>2. F \in SUBSET Imports
    OBVIOUS
  <2>3. QED BY <2>1, <2>2 DEF Ledger!LedgerNext
<1>4. CASE Crash
  <2>1. Ledger!Abandon(Deletes)
    BY <1>4 DEF Crash, rows, Ledger!Abandon, Ledger!Over, NotErasing
  <2>2. QED BY <2>1 DEF Ledger!LedgerNext
<1>5. CASE UNCHANGED vars
  BY <1>5 DEF vars, open, rows, Ledger!ledgerVars
<1>6. QED
  BY <1>1, <1>2, <1>3, <1>4, <1>5 DEF Next, Ledger!ledgerVars

\* As long as detection does not panic, the pipeline implements the ledger:
\* every row is finalised once, together with its observations, through
\* crashes, sweeps, the command line and deletions that go through the tables
\* one by one beside it.
THEOREM PipelineImplementsLedger ==
    ASSUME ~DetectMayPanic
    PROVE  Spec => ImplementsLedger
<1>1. Init => Ledger!LedgerInit /\ RowsInv
  BY DEF Init, Ledger!LedgerInit, Ledger!Over, NotErasing, RowsInv, Imports, Requests, Http, Cli
<1>2. TypeOK /\ ErasureInv /\ RowsInv /\ [Next]_vars => RowsInv'
  BY NextRows
<1>3. QED
  BY <1>1, <1>2, NextImplements, PipelineTypeOK, ErasureInvHolds, WholeInvHolds, PTL
  DEF Spec, ImplementsLedger, Ledger!LedgerSpec

-----------------------------------------------------------------------------
(* The history invariant of the ledger, proved of its steps and therefore   *)
(* of the pipeline's.  Its second half needs more while a deletion is under *)
(* way: what did not stand when it began was brought beside it.             *)

Carried(i) == Content[BytesOf[i]]

Brought(u, o, i) == i \in Imports /\ UserOf[i] = u /\ o \in Carried(i)

CompletedStand == \A i \in Imports : status[i] = "completed" => Carried(i) \subseteq stored[UserOf[i]]

StoredWereBrought ==
    \A u \in Users : \A o \in stored[u] :
        \E i \in Imports : Brought(u, o, i) /\ (status[i] = "completed" \/ i \in beside)

NewWereBeside ==
    \A d \in Deletes : standing[d].on =>
        \A o \in stored[UserOf[d]] \ standing[d].seen :
            \E i \in Imports : Brought(UserOf[d], o, i) /\ i \in beside

HistoryInv == CompletedStand /\ StoredWereBrought /\ NewWereBeside

LEMMA LedgerHistory ==
    TypeOK /\ HistoryInv /\ [Ledger!LedgerNext]_(Ledger!ledgerVars) => HistoryInv'
<1> SUFFICES ASSUME TypeOK, HistoryInv, [Ledger!LedgerNext]_(Ledger!ledgerVars)
             PROVE  HistoryInv'
  OBVIOUS
<1> DEFINE owner == [q \in Imports \union Deletes |-> UserOf[q]]
<1>a. \A i \in Imports \union Deletes : UserOf[i] \in Users /\ owner[i] = UserOf[i]
  BY OwnersAssumption DEF Requests, Imports, Http, Cli
<1> USE DEF HistoryInv, CompletedStand, StoredWereBrought, NewWereBeside, Brought
<1>1. ASSUME NEW i \in Imports, Ledger!Begin(i) PROVE HistoryInv'
  BY <1>1 DEF Ledger!Begin, TypeOK
<1>2. ASSUME NEW i \in Imports, Ledger!Complete(i) PROVE HistoryInv'
  <2>1. \A j \in Imports : status'[j] = "completed" <=> (j = i \/ status[j] = "completed")
    BY <1>2 DEF Ledger!Complete, TypeOK
  <2>2. \A u \in Users, o \in Observations : o \in stored'[u] <=>
            (o \in stored[u] \/ (u = UserOf[i] /\ o \in Carried(i)))
    BY <1>2, <1>a DEF Ledger!Complete, Carried, TypeOK
  <2>3. /\ standing' = standing /\ beside \subseteq beside'
        /\ \A d \in Deletes : UserOf[d] = UserOf[i] /\ standing[d].on => i \in beside'
    BY <1>2, <1>a DEF Ledger!Complete
  <2>4. \A j \in Imports : Carried(j) \subseteq Observations
    BY ContentAssumption DEF Carried
  <2>5. \A u \in Users : stored'[u] \subseteq stored[u] \union Carried(i)
    BY <1>2, <1>a DEF Ledger!Complete, Carried, TypeOK
  <2>6. \A u \in Users : stored'[u] \subseteq Observations
    BY <2>4, <2>5 DEF TypeOK
  <2>7. CompletedStand'
    BY <2>1, <2>2, <2>4, <1>a DEF Carried
  <2>8. StoredWereBrought'
    BY <2>1, <2>2, <2>3, <2>6, <1>a DEF Carried
  <2>9. NewWereBeside'
    <3> SUFFICES ASSUME NEW d \in Deletes, standing[d].on,
                        NEW o \in stored'[UserOf[d]] \ standing[d].seen
                 PROVE  \E j \in Imports : Brought(UserOf[d], o, j) /\ j \in beside'
      BY <2>3 DEF Carried
    <3>1. UserOf[d] \in Users /\ o \in Observations
      BY <2>6, <1>a
    <3>2. CASE o \in stored[UserOf[d]]
      BY <3>2, <2>3
    <3>3. CASE o \notin stored[UserOf[d]]
      <4>1. UserOf[d] = UserOf[i] /\ o \in Carried(i)
        BY <3>1, <3>3, <2>2
      <4>2. i \in beside'
        BY <4>1, <2>3
      <4>3. QED BY <4>1, <4>2
    <3>4. QED BY <3>2, <3>3
  <2>10. QED BY <2>7, <2>8, <2>9
<1>3. ASSUME NEW F \in SUBSET Imports, Ledger!Fail(F) PROVE HistoryInv'
  <2>1. UNCHANGED <<stored, standing, beside>>
    BY <1>3 DEF Ledger!Fail
  <2>2. \A i \in Imports : status'[i] = "completed" <=> status[i] = "completed"
    BY <1>3 DEF Ledger!Fail
  <2>3. QED BY <2>1, <2>2 DEF Carried
<1>4. ASSUME NEW d \in Deletes, Ledger!BeginErase(d) PROVE HistoryInv'
  <2>1. UNCHANGED <<status, stored, beside>>
    BY <1>4 DEF Ledger!BeginErase
  <2>2. standing' = [standing EXCEPT ![d] = standing'[d]] /\ standing'[d].seen = stored[UserOf[d]]
    BY <1>4, <1>a DEF Ledger!BeginErase, TypeOK
  <2>3. \A e \in Deletes \ {d} : standing'[e] = standing[e]
    BY <2>2 DEF TypeOK
  <2>4. NewWereBeside'
    BY <2>1, <2>2, <2>3 DEF Carried
  <2>5. QED BY <2>1, <2>4 DEF Carried
<1>5. ASSUME NEW d \in Deletes, NEW E \in SUBSET Imports, NEW left \in SUBSET Observations,
             Ledger!Erase(d, E, left)
      PROVE  HistoryInv'
  <2> DEFINE u == UserOf[d]
  <2>1. /\ u \in Users /\ standing[d].on /\ left \subseteq stored[u] \ standing[d].seen
        /\ stored' = [stored EXCEPT ![u] = left] /\ beside' = beside
    BY <1>5, <1>a DEF Ledger!Erase
  <2>2. /\ stored'[u] = left
        /\ \A v \in Users \ {u} : stored'[v] = stored[v]
    BY <2>1 DEF TypeOK
  <2>3. status' = [i \in Imports |-> IF i \in E THEN "deleted" ELSE status[i]]
        /\ E \subseteq Ledger!RowsThere(u)
    BY <1>5, <1>a DEF Ledger!Erase
  <2>4. \A i \in E : UserOf[i] = u
    BY <2>3, <1>a DEF Ledger!RowsThere
  <2>5. ASSUME NEW i \in Imports, UserOf[i] = u, i \notin E, status[i] = "completed"
        PROVE  Carried(i) \subseteq left
    <3>1. i \in Ledger!RowsThere(u)
      BY <2>5, <1>a DEF Ledger!RowsThere
    <3>2. QED BY <1>5, <1>a, <2>5, <3>1 DEF Ledger!Erase, Carried
  <2>6. \A e \in Deletes : standing'[e].on => e # d /\ standing'[e] = standing[e]
    BY <1>5 DEF Ledger!Erase, Ledger!Over, TypeOK
  <2>7. CompletedStand'
    <3> SUFFICES ASSUME NEW i \in Imports, status'[i] = "completed"
                 PROVE  Carried(i) \subseteq stored'[UserOf[i]]
      BY DEF Carried
    <3>1. i \notin E /\ status[i] = "completed"
      BY <2>3
    <3>2. CASE UserOf[i] = u
      BY <3>1, <3>2, <2>5, <2>2
    <3>3. CASE UserOf[i] # u
      BY <3>1, <3>3, <2>2, <1>a
    <3>4. QED BY <3>2, <3>3
  <2>8. StoredWereBrought'
    <3> SUFFICES ASSUME NEW v \in Users, NEW o \in stored'[v]
                 PROVE  \E i \in Imports : Brought(v, o, i)
                                         /\ (status'[i] = "completed" \/ i \in beside)
      BY <2>1 DEF Carried
    <3>1. CASE v = u
      BY <3>1, <2>1, <2>2
    <3>2. CASE v # u
      <4>1. PICK i \in Imports : Brought(v, o, i) /\ (status[i] = "completed" \/ i \in beside)
        BY <3>2, <2>2
      <4>2. status'[i] = status[i]
        BY <4>1, <3>2, <2>3, <2>4
      <4>3. QED BY <4>1, <4>2
    <3>3. QED BY <3>1, <3>2
  <2>9. NewWereBeside'
    <3> SUFFICES ASSUME NEW e \in Deletes, standing'[e].on,
                        NEW o \in stored'[UserOf[e]] \ standing'[e].seen
                 PROVE  \E i \in Imports : Brought(UserOf[e], o, i) /\ i \in beside
      BY <2>1 DEF Carried
    <3>1. standing'[e] = standing[e] /\ stored'[UserOf[e]] \subseteq stored[UserOf[e]]
      BY <2>1, <2>2, <2>6, <1>a
    <3>2. QED BY <3>1
  <2>10. QED BY <2>7, <2>8, <2>9
<1>6. ASSUME NEW D \in SUBSET Deletes, Ledger!Abandon(D) PROVE HistoryInv'
  <2>1. UNCHANGED <<status, stored, beside>>
    BY <1>6 DEF Ledger!Abandon
  <2>2. \A e \in Deletes : standing'[e].on => standing'[e] = standing[e]
    BY <1>6 DEF Ledger!Abandon, Ledger!Over
  <2>3. QED BY <2>1, <2>2 DEF Carried
<1>7. CASE UNCHANGED Ledger!ledgerVars
  BY <1>7 DEF Ledger!ledgerVars, Carried
<1>8. QED
  BY <1>1, <1>2, <1>3, <1>4, <1>5, <1>6, <1>7 DEF Ledger!LedgerNext

\* As long as detection does not panic, what a completed import carried is
\* stored, and what is stored was carried by a completed import, or by one of
\* the terminal's that was completed while a deletion was under way: no failed
\* attempt left any of it, and a deletion alone leaves none.
THEOREM HistoryIsCompletedHolds ==
    ASSUME ~DetectMayPanic
    PROVE  Spec => []HistoryIsCompleted
<1>1. Init => RowsInv
  BY DEF Init, RowsInv, Imports, Requests, Http, Cli
<1>2. Init => HistoryInv
  BY OwnersAssumption
  DEF Init, HistoryInv, CompletedStand, StoredWereBrought, NewWereBeside, NotErasing, Requests,
      Http
<1>3. TypeOK /\ ErasureInv /\ RowsInv /\ [Next]_vars => RowsInv'
  BY NextRows
<1>4. HistoryInv => HistoryIsCompleted
  BY DEF HistoryInv, CompletedStand, StoredWereBrought, Brought, Carried, HistoryIsCompleted,
         Ledger!HistoryIsCompleted
<1>5. QED
  BY <1>1, <1>2, <1>3, <1>4, NextImplements, LedgerHistory, PipelineTypeOK, ErasureInvHolds,
     WholeInvHolds, PTL
  DEF Spec
=============================================================================
