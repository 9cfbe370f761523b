---------------------------- MODULE ThumbFilesProofs ----------------------------
(***************************************************************************)
(* Theorems about ThumbFiles.  That an erased account stays erased holds   *)
(* of any requests: whoever could bring a row back needs the account or    *)
(* the decision, which are gone.  That the files go with the rows holds of *)
(* any requests too.  That a row has its thumbnail holds where nobody      *)
(* shares a photo with the handlers that take no lock (Unshared); without  *)
(* it, it does not hold.                                                   *)
(***************************************************************************)
EXTENDS ThumbFiles, TLAPS

Bringers == Attaches \union PhotoImports

\* u has a row that names h, or may come to have one.
Brings(u, h) ==
    <<u, h>> \in Existing \/ \E q \in Bringers : UserOf[q] = u /\ h \in Carries[q]

\* What an upload for a trip attaches is nobody else's, and what is removed is
\* nobody else's and is not brought again.
Unshared ==
    /\ \A r \in Attaches, h \in Hashes, u \in Users :
        h \in Carries[r] /\ Brings(u, h) => u = UserOf[r]
    /\ \A r \in PhotoDeletes, h \in Hashes : h \in Carries[r] =>
        /\ \A q \in Bringers : h \notin Carries[q]
        /\ \A u \in Users : <<u, h>> \in Existing => u = UserOf[r]

\* Who is past importMu has it.
LockInv ==
    /\ \A r \in PhotoImports : pc[r] \in {"writing", "storing", "detecting"} => lock = r
    /\ \A r \in AccountDeletes : pc[r] \in Erasing \union {"unlinking"} => lock = r

\* Nothing of an erased account is there, nothing it could be attached to, and
\* nobody who is about to store; and once a deletion has deleted the decisions it
\* has deleted every photo.
ErasedInv ==
    /\ ErasedStaysErased
    /\ \A q \in PhotoImports : pc[q] = "storing" => UserOf[q] \in accounts
    /\ \A d \in AccountDeletes : pc[d] = "unlinking" =>
        UserOf[d] \notin kept /\ \A h \in Hashes : <<UserOf[d], h>> \notin photos \union records
    /\ \A d \in AccountDeletes : pc[d] = "decisionsErased" =>
        \A h \in Hashes : <<UserOf[d], h>> \in photos => h \in doomed[d]

IInv == TypeOK /\ LockInv /\ ErasedInv

\* Rows come from the requests that bring them, and each has in hand what it
\* carries.
BroughtInv ==
    /\ \A u \in Users, h \in Hashes :
        /\ <<u, h>> \in photos \union records => Brings(u, h)
        /\ <<u, h>> \in records => \E q \in PhotoImports : h \in Carries[q]
    /\ \A r \in Attaches : inHand[r] \union todo[r] \subseteq Carries[r]
    /\ \A r \in Requests : pc[r] = "unlinking" => r \in AccountDeletes \union PhotoDeletes
    /\ \A d \in AccountDeletes : pc[d] \in Erasing \ {"erasing"} =>
        \A h \in todo[d] : Brings(UserOf[d], h)

\* Between the file and the row the file is there, for as long as the row may
\* still come.
WrittenInv ==
    /\ \A r \in Attaches : pc[r] = "inserting" /\ UserOf[r] \in kept => inHand[r] \subseteq thumbs
    /\ \A r \in PhotoImports :
        /\ pc[r] = "writing" => Carries[r] \ todo[r] \subseteq thumbs
        /\ pc[r] = "storing" => Carries[r] \subseteq thumbs

\* What is about to be unlinked is named by no row.
UnlinkInv ==
    /\ \A d \in AccountDeletes : pc[d] = "unlinking" =>
        \A h \in todo[d] : ~Named(h) /\ Brings(UserOf[d], h)
    /\ \A r \in PhotoDeletes : pc[r] = "unlinking" =>
        todo[r] \subseteq Carries[r] /\ \A h \in Carries[r] : ~Named(h)

FilesInv == BroughtInv /\ WrittenInv /\ UnlinkInv /\ RowHasThumb

-----------------------------------------------------------------------------
(* Types, the lock, and what an erased account leaves. *)

\* Every step keeps the types.
LEMMA StepType ==
    ASSUME TypeOK, [Next]_vars
    PROVE  TypeOK'
<1> USE ThumbRequestsAssumption, ThumbDataAssumption
    DEF TypeOK, Phases, Erasing, process, work, rows, environment, Goto, Finish, Refused, Requests,
        Locking, LetIn
<1>1. ASSUME NEW r \in Requests, Arrive(r) PROVE TypeOK'
  BY <1>1 DEF Arrive, BeginAttach, LetIn, Authenticate, TryLock, MayEnter, GetPhoto
<1>2. ASSUME NEW r \in Requests, AttachStep(r) PROVE TypeOK'
  BY <1>2 DEF AttachStep, WriteAttached, WritesThumb, InsertPhoto, DecisionStands,
       InsertPhotoFails, FetchOriginal,
             AttachAnswers
<1>3. ASSUME NEW r \in Requests, ImportStep(r) PROVE TypeOK'
  BY <1>3 DEF ImportStep, WriteImported, WritesThumb, BeginImport, ImportPhotos, PhotoImportFails,
       Detected
<1>4. ASSUME NEW r \in Requests, DeleteStep(r) PROVE TypeOK'
  <2>1. CASE ListHashes(r)
    <3>1. todo' \in [Requests -> SUBSET Hashes]
      BY <2>1 DEF ListHashes, HashesOf
    <3> QED
      BY <2>1, <3>1 DEF ListHashes
  <2>2. CASE CommitErasure(r)
    <3>1. todo' \in [Requests -> SUBSET Hashes]
      BY <2>2 DEF CommitErasure, Orphans
    <3>2. photos' \subseteq photos /\ records' \subseteq records
      BY <2>2 DEF CommitErasure
    <3> QED
      BY <2>2, <3>1, <3>2 DEF CommitErasure
  <2>3. CASE ErasePhotos(r)
    BY <2>3 DEF ErasePhotos
  <2>4. CASE EraseDecisions(r) \/ DeleteUserDataFails(r)
    BY <2>4 DEF EraseDecisions, DeleteUserDataFails
  <2>5. CASE DeletePhotoRow(r) \/ DeletePhotoFails(r)
    BY <2>5 DEF DeletePhotoRow, DeletePhotoFails
  <2>6. CASE DeleteThumb(r) \/ DeleteAnswers(r)
    BY <2>6 DEF DeleteThumb, DeleteAnswers
  <2> QED
    BY <1>4, <2>1, <2>2, <2>3, <2>4, <2>5, <2>6 DEF DeleteStep
<1>5. CASE Crash
  <2>1. pc' \in [Requests -> Phases]
    BY <1>5 DEF Crash
  <2>2. crashes' \in 0 .. MaxCrashes
    BY <1>5 DEF Crash
  <2> QED
    BY <1>5, <2>1, <2>2 DEF Crash
<1>6. CASE Restart
  BY <1>6 DEF Restart
<1>7. CASE UNCHANGED vars
  BY <1>7 DEF vars
<1> QED
  BY <1>1, <1>2, <1>3, <1>4, <1>5, <1>6, <1>7 DEF Next

\* Only who has the lock goes past it, and gives it back at its end.
LEMMA StepLock ==
    ASSUME TypeOK, LockInv, [Next]_vars
    PROVE  LockInv'
<1> USE ThumbRequestsAssumption, ThumbDataAssumption
    DEF TypeOK, LockInv, Erasing, process, work, rows, environment, Goto, Finish, Refused, Requests, Locking
<1>1. ASSUME NEW r \in Requests, Arrive(r) PROVE LockInv'
  BY <1>1 DEF Arrive, BeginAttach, LetIn, Authenticate, TryLock, MayEnter, GetPhoto
<1>2. ASSUME NEW r \in Requests, AttachStep(r) PROVE LockInv'
  BY <1>2 DEF AttachStep, WriteAttached, WritesThumb, InsertPhoto, DecisionStands,
       InsertPhotoFails, FetchOriginal,
             AttachAnswers
<1>3. ASSUME NEW r \in Requests, ImportStep(r) PROVE LockInv'
  BY <1>3 DEF ImportStep, WriteImported, WritesThumb, BeginImport, ImportPhotos, PhotoImportFails,
       Detected
<1>4. ASSUME NEW r \in Requests, DeleteStep(r) PROVE LockInv'
  BY <1>4 DEF DeleteStep, ListHashes, ErasePhotos, EraseDecisions, CommitErasure,
       DeleteUserDataFails, Erasing, DeletePhotoRow, DeletePhotoFails,
       DeleteThumb,
             DeleteAnswers
<1>5. CASE Crash
  BY <1>5 DEF Crash
<1>6. CASE Restart
  BY <1>6 DEF Restart
<1>7. CASE UNCHANGED vars
  BY <1>7 DEF vars
<1> QED
  BY <1>1, <1>2, <1>3, <1>4, <1>5, <1>6, <1>7 DEF Next

\* Whoever could bring a row back has lost the lock or the decision.
LEMMA StepErased ==
    ASSUME IInv, LockInv', [Next]_vars
    PROVE  ErasedInv'
<1> USE ThumbRequestsAssumption, ThumbDataAssumption
    DEF IInv, TypeOK, LockInv, ErasedInv, ErasedStaysErased, Erasing, process, work, rows, environment, Goto, Finish, Refused,
         Requests, Locking
<1>1. ASSUME NEW r \in Requests, Arrive(r) PROVE ErasedInv'
  BY <1>1 DEF Arrive, BeginAttach, LetIn, Authenticate, TryLock, MayEnter, GetPhoto
<1>2. ASSUME NEW r \in Requests, AttachStep(r) PROVE ErasedInv'
  <2>1. CASE InsertPhoto(r)
    <3>1. /\ UserOf[r] \in kept /\ ~DecisionIsTaken(UserOf[r])
          /\ photos' = photos \union ({UserOf[r]} \X inHand[r])
          /\ UNCHANGED <<records, kept, accounts, doomed>>
      BY <2>1 DEF InsertPhoto, DecisionStands
    <3>2. /\ \A q \in Requests : pc'[q] = pc[q] \/ pc'[q] \in {"fetching", "attaching"}
          /\ UserOf[r] \in Users
      BY <2>1 DEF InsertPhoto
    <3> QED
      BY <3>1, <3>2 DEF DecisionIsTaken
  <2>2. CASE WriteAttached(r) \/ InsertPhotoFails(r) \/ FetchOriginal(r) \/ AttachAnswers(r)
    BY <2>2 DEF WriteAttached, WritesThumb, InsertPhotoFails, FetchOriginal, AttachAnswers
  <2> QED
    BY <1>2, <2>1, <2>2 DEF AttachStep
<1>3. ASSUME NEW r \in Requests, ImportStep(r) PROVE ErasedInv'
  BY <1>3 DEF ImportStep, WriteImported, WritesThumb, BeginImport, ImportPhotos, PhotoImportFails,
       Detected
<1>4. ASSUME NEW r \in Requests, DeleteStep(r) PROVE ErasedInv'
  <2>1. CASE ListHashes(r)
    BY <2>1 DEF ListHashes
  <2>2. CASE ErasePhotos(r)
    BY <2>2 DEF ErasePhotos
  <2>3. CASE EraseDecisions(r)
    BY <2>3 DEF EraseDecisions, Restricted
  <2>4. CASE CommitErasure(r)
    BY <2>4 DEF CommitErasure
  <2>5. CASE DeleteUserDataFails(r) \/ DeletePhotoRow(r) \/ DeletePhotoFails(r)
    BY <2>5 DEF DeleteUserDataFails, DeletePhotoRow, DeletePhotoFails
  <2>6. CASE DeleteThumb(r) \/ DeleteAnswers(r)
    BY <2>6 DEF DeleteThumb, DeleteAnswers
  <2> QED
    BY <1>4, <2>1, <2>2, <2>3, <2>4, <2>5, <2>6 DEF DeleteStep
<1>5. CASE Crash
  BY <1>5 DEF Crash
<1>6. CASE Restart
  BY <1>6 DEF Restart
<1>7. CASE UNCHANGED vars
  BY <1>7 DEF vars
<1> QED
  BY <1>1, <1>2, <1>3, <1>4, <1>5, <1>6, <1>7 DEF Next

\* The invariant of the module, for any photos, users and handlers: who holds the
\* lock, and what an account that was deleted has left.
THEOREM InductiveInvariant == Spec => []IInv
<1>1. Init => IInv
  <2> SUFFICES ASSUME Init PROVE IInv
    OBVIOUS
  <2> USE ThumbRequestsAssumption, ThumbDataAssumption DEF Init, Requests, Locking
  <2>1. TypeOK
    <3>1. pc \in [Requests -> Phases] /\ todo \in [Requests -> SUBSET Hashes]
      BY DEF Phases
    <3>2. crashes \in 0 .. MaxCrashes /\ faults \in 0 .. MaxFaults
      OBVIOUS
    <3> QED
      BY <3>1, <3>2 DEF TypeOK
  <2>2. LockInv /\ ErasedInv
    BY DEF LockInv, ErasedInv, ErasedStaysErased, Erasing
  <2> QED
    BY <2>1, <2>2 DEF IInv
<1>2. IInv /\ [Next]_vars => IInv'
  BY StepType, StepLock, StepErased DEF IInv
<1> QED
  BY <1>1, <1>2, PTL DEF Spec

\* Every variable keeps its type.
THEOREM TypeCorrect == Spec => []TypeOK
<1>1. IInv => TypeOK
  BY DEF IInv
<1> QED
  BY <1>1, InductiveInvariant, PTL

\* From the deletion's commit on, no photo of the account comes back, whichever
\* handlers were under way and however long they go on after its answer.
THEOREM ErasedAccountsStayErased == Spec => []ErasedStaysErased
<1>1. IInv => ErasedStaysErased
  BY DEF IInv, ErasedInv, ErasedStaysErased
<1> QED
  BY <1>1, InductiveInvariant, PTL

-----------------------------------------------------------------------------
(* Rows and their files, where nobody shares a photo with the handlers that   *)
(* take no lock.                                                            *)

\* What a request carries its user may come to have a row for.
LEMMA CarriedIsBrought ==
    \A q \in Bringers, h \in Hashes : h \in Carries[q] => Brings(UserOf[q], h)
BY DEF Brings

\* Rows are only written for what a request carries.
LEMMA StepBrought ==
    ASSUME IInv, BroughtInv, [Next]_vars
    PROVE  BroughtInv'
<1> USE ThumbRequestsAssumption, ThumbDataAssumption, CarriedIsBrought
    DEF IInv, TypeOK, BroughtInv, Bringers, Erasing, process, work, rows, environment, Goto, Finish, Refused,
         Requests, Locking
<1>1. ASSUME NEW r \in Requests, Arrive(r) PROVE BroughtInv'
  BY <1>1 DEF Arrive, BeginAttach, LetIn, Authenticate, TryLock, MayEnter, GetPhoto
<1>2. ASSUME NEW r \in Requests, AttachStep(r) PROVE BroughtInv'
  BY <1>2 DEF AttachStep, WriteAttached, WritesThumb, InsertPhoto, DecisionStands,
       InsertPhotoFails, FetchOriginal,
             AttachAnswers
<1>3. ASSUME NEW r \in Requests, ImportStep(r) PROVE BroughtInv'
  BY <1>3 DEF ImportStep, WriteImported, WritesThumb, BeginImport, ImportPhotos, PhotoImportFails,
       Detected
<1>4. ASSUME NEW r \in Requests, DeleteStep(r) PROVE BroughtInv'
  <2>1. CASE ListHashes(r)
    BY <2>1 DEF ListHashes, HashesOf
  <2>2. CASE ErasePhotos(r)
    BY <2>2 DEF ErasePhotos
  <2>3. CASE EraseDecisions(r)
    BY <2>3 DEF EraseDecisions, Restricted
  <2>4. CASE CommitErasure(r)
    BY <2>4 DEF CommitErasure, Orphans
  <2>5. CASE DeleteUserDataFails(r) \/ DeletePhotoRow(r) \/ DeletePhotoFails(r)
    BY <2>5 DEF DeleteUserDataFails, DeletePhotoRow, DeletePhotoFails
  <2>6. CASE DeleteThumb(r) \/ DeleteAnswers(r)
    BY <2>6 DEF DeleteThumb, DeleteAnswers
  <2> QED
    BY <1>4, <2>1, <2>2, <2>3, <2>4, <2>5, <2>6 DEF DeleteStep
<1>5. CASE Crash
  BY <1>5 DEF Crash
<1>6. CASE Restart
  BY <1>6 DEF Restart
<1>7. CASE UNCHANGED vars
  BY <1>7 DEF vars
<1> QED
  BY <1>1, <1>2, <1>3, <1>4, <1>5, <1>6, <1>7 DEF Next

\* What is about to be unlinked no row names, and nobody is between writing it
\* and its row.
LEMMA UnlinkedIsNobodys ==
    ASSUME Unshared, IInv, BroughtInv, UnlinkInv,
           NEW r \in Requests, pc[r] = "unlinking", NEW h \in todo[r]
    PROVE  /\ ~Named(h)
           /\ \A a \in Attaches : UserOf[a] \in kept => h \notin inHand[a]
           /\ \A q \in PhotoImports : pc[q] \in {"writing", "storing"} => h \notin Carries[q]
<1> USE ThumbRequestsAssumption, ThumbDataAssumption DEF IInv, TypeOK, Requests, Locking
<1>1. h \in Hashes
  OBVIOUS
<1>2. CASE r \in AccountDeletes
  <2>1. ~Named(h) /\ Brings(UserOf[r], h) /\ UserOf[r] \notin kept
    BY <1>2 DEF UnlinkInv, ErasedInv
  <2>2. \A a \in Attaches : h \in inHand[a] => UserOf[a] = UserOf[r]
    BY <1>1, <2>1 DEF Unshared, BroughtInv
  <2>3. \A q \in PhotoImports : pc[q] \notin {"writing", "storing"}
    BY <1>2 DEF LockInv
  <2> QED
    BY <2>1, <2>2, <2>3
<1>3. CASE r \in PhotoDeletes
  <2>1. ~Named(h) /\ h \in Carries[r]
    BY <1>3 DEF UnlinkInv
  <2>2. \A q \in Bringers : h \notin Carries[q]
    BY <1>1, <1>3, <2>1 DEF Unshared
  <2> QED
    BY <2>1, <2>2 DEF Bringers, BroughtInv
<1> QED
  BY <1>2, <1>3 DEF BroughtInv

\* A file stays until its row is there: nobody else removes it meanwhile.
LEMMA StepWritten ==
    ASSUME Unshared, IInv, BroughtInv, UnlinkInv, WrittenInv, [Next]_vars
    PROVE  WrittenInv'
<1> USE ThumbRequestsAssumption, ThumbDataAssumption
    DEF IInv, TypeOK, LockInv, BroughtInv, WrittenInv, Bringers, process, work, rows, environment, Goto,
         Finish, Refused, Requests, Locking
<1>1. ASSUME NEW r \in Requests, Arrive(r) PROVE WrittenInv'
  BY <1>1 DEF Arrive, BeginAttach, LetIn, Authenticate, TryLock, MayEnter, GetPhoto
<1>2. ASSUME NEW r \in Requests, AttachStep(r) PROVE WrittenInv'
  BY <1>2 DEF AttachStep, WriteAttached, WritesThumb, InsertPhoto, DecisionStands,
       InsertPhotoFails, FetchOriginal,
             AttachAnswers
<1>3. ASSUME NEW r \in Requests, ImportStep(r) PROVE WrittenInv'
  BY <1>3 DEF ImportStep, WriteImported, WritesThumb, BeginImport, ImportPhotos, PhotoImportFails,
       Detected
<1>4. ASSUME NEW r \in Requests, DeleteStep(r) PROVE WrittenInv'
  <2>1. CASE DeleteThumb(r)
    <3>1. PICK h \in todo[r] : thumbs \ {h} \subseteq thumbs'
      BY <2>1 DEF DeleteThumb
    <3>2. /\ \A a \in Attaches : UserOf[a] \in kept => h \notin inHand[a]
          /\ \A q \in PhotoImports : pc[q] \in {"writing", "storing"} => h \notin Carries[q]
      BY <2>1, <3>1, UnlinkedIsNobodys DEF DeleteThumb
    <3>3. UNCHANGED <<process, inHand, rows>> /\ \A q \in PhotoImports : todo'[q] = todo[q]
      BY <2>1 DEF DeleteThumb
    <3> QED
      BY <3>1, <3>2, <3>3
  <2>2. CASE DeletePhotoRow(r) \/ DeletePhotoFails(r) \/ DeleteAnswers(r)
    BY <2>2 DEF DeletePhotoRow, DeletePhotoFails, DeleteAnswers
  <2>3. CASE ListHashes(r) \/ ErasePhotos(r) \/ EraseDecisions(r)
    BY <2>3 DEF ListHashes, ErasePhotos, EraseDecisions
  <2>4. CASE CommitErasure(r) \/ DeleteUserDataFails(r)
    BY <2>4 DEF CommitErasure, DeleteUserDataFails
  <2> QED
    BY <1>4, <2>1, <2>2, <2>3, <2>4 DEF DeleteStep
<1>5. CASE Crash
  BY <1>5 DEF Crash
<1>6. CASE Restart
  BY <1>6 DEF Restart
<1>7. CASE UNCHANGED vars
  BY <1>7 DEF vars
<1> QED
  BY <1>1, <1>2, <1>3, <1>4, <1>5, <1>6, <1>7 DEF Next

\* Nothing changes for what is about to be unlinked but that it goes.
LEMMA QuietUnlink ==
    ASSUME UnlinkInv, UNCHANGED <<photos, records>>,
           \A d \in AccountDeletes \union PhotoDeletes :
                pc'[d] = "unlinking" => pc[d] = "unlinking" /\ todo'[d] \subseteq todo[d]
    PROVE  UnlinkInv'
<1>1. \A h : Named(h)' <=> Named(h)
  BY DEF Named
<1> QED
  BY <1>1 DEF UnlinkInv

\* No row comes to name a file that is about to go.
LEMMA StepUnlink ==
    ASSUME Unshared, IInv, BroughtInv, BroughtInv', UnlinkInv, [Next]_vars
    PROVE  UnlinkInv'
<1> USE ThumbRequestsAssumption, ThumbDataAssumption
    DEF IInv, TypeOK, BroughtInv, UnlinkInv, Bringers, process, work, rows, environment, Goto, Finish,
         Refused, Requests, Locking
<1>1. ASSUME NEW r \in Requests, Arrive(r) PROVE UnlinkInv'
  BY <1>1, QuietUnlink DEF Arrive, BeginAttach, LetIn, Authenticate, TryLock, MayEnter, GetPhoto
<1>2. ASSUME NEW r \in Requests, AttachStep(r) PROVE UnlinkInv'
  <2>1. CASE InsertPhoto(r)
    <3>1. ASSUME NEW d \in Requests, pc[d] = "unlinking", NEW h \in todo[d] PROVE ~Named(h)'
      BY <2>1, <3>1, UnlinkedIsNobodys DEF InsertPhoto, DecisionStands, Named
    <3>2. ASSUME NEW d \in PhotoDeletes, NEW h \in Carries[d], ~Named(h) PROVE ~Named(h)'
      BY <2>1, <3>2 DEF InsertPhoto, Named, Unshared
    <3>3. UNCHANGED todo /\ \A d \in AccountDeletes \union PhotoDeletes : pc'[d] = pc[d]
      BY <2>1 DEF InsertPhoto
    <3> QED
      BY <3>1, <3>2, <3>3
  <2>2. CASE WriteAttached(r) \/ InsertPhotoFails(r) \/ FetchOriginal(r) \/ AttachAnswers(r)
    BY <2>2, QuietUnlink DEF WriteAttached, InsertPhotoFails, FetchOriginal, AttachAnswers
  <2> QED
    BY <1>2, <2>1, <2>2 DEF AttachStep
<1>3. ASSUME NEW r \in Requests, ImportStep(r) PROVE UnlinkInv'
  <2>1. CASE ImportPhotos(r)
    <3>1. ASSUME NEW d \in Requests, pc[d] = "unlinking", NEW h \in todo[d] PROVE ~Named(h)'
      BY <2>1, <3>1, UnlinkedIsNobodys DEF ImportPhotos, Named
    <3>2. ASSUME NEW d \in PhotoDeletes, NEW h \in Carries[d], ~Named(h) PROVE ~Named(h)'
      BY <2>1, <3>2 DEF ImportPhotos, Named, Unshared
    <3>3. UNCHANGED todo /\ \A d \in AccountDeletes \union PhotoDeletes : pc'[d] = pc[d]
      BY <2>1 DEF ImportPhotos
    <3> QED
      BY <3>1, <3>2, <3>3
  <2>2. CASE WriteImported(r) \/ BeginImport(r) \/ PhotoImportFails(r) \/ Detected(r)
    BY <2>2, QuietUnlink DEF WriteImported, BeginImport, PhotoImportFails, Detected
  <2> QED
    BY <1>3, <2>1, <2>2 DEF ImportStep
<1>4. ASSUME NEW r \in Requests, DeleteStep(r) PROVE UnlinkInv'
  <2>1. CASE CommitErasure(r)
    <3>1. \A d \in AccountDeletes \ {r} : pc[d] # "unlinking"
      BY <2>1 DEF CommitErasure, LockInv, Erasing
    <3>2. ASSUME NEW h \in Orphans(r) PROVE ~Named(h)' /\ Brings(UserOf[r], h)
      <4>1. /\ h \in Hashes /\ h \in todo[r]
            /\ \A v \in Users \ {UserOf[r]} : <<v, h>> \notin photos \union records
        BY <2>1, <3>2 DEF CommitErasure, Orphans
      <4>2. \A u \in Users : <<u, h>> \notin photos' \union records'
        BY <2>1, <4>1 DEF CommitErasure, ErasedInv
      <4> QED
        BY <2>1, <4>1, <4>2 DEF CommitErasure, Named, Erasing
    <3>3. \A h \in Hashes : ~Named(h) => ~Named(h)'
      BY <2>1 DEF CommitErasure, Named
    <3>4. /\ todo' = [todo EXCEPT ![r] = Orphans(r)]
          /\ pc' = [pc EXCEPT ![r] = "unlinking"] /\ r \in AccountDeletes
      BY <2>1 DEF CommitErasure
    <3> QED
      BY <3>1, <3>2, <3>3, <3>4
  <2>2. CASE DeletePhotoRow(r)
    <3>1. ASSUME NEW h \in Carries[r] PROVE ~Named(h)'
      <4>1. r \in PhotoDeletes /\ h \in Hashes /\ \A q \in Bringers : h \notin Carries[q]
        BY <2>2 DEF DeletePhotoRow, Unshared
      <4>2. \A u \in Users : Brings(u, h) => u = UserOf[r]
        BY <4>1 DEF Brings, Unshared
      <4>3. \A u \in Users : <<u, h>> \notin records /\ (<<u, h>> \in photos => u = UserOf[r])
        BY <4>1, <4>2
      <4> QED
        BY <2>2, <4>3 DEF DeletePhotoRow, Named
    <3>2. \A h \in Hashes : ~Named(h) => ~Named(h)'
      BY <2>2 DEF DeletePhotoRow, Named
    <3>3. /\ todo' = [todo EXCEPT ![r] = Carries[r]]
          /\ pc' = [pc EXCEPT ![r] = "unlinking"] /\ r \in PhotoDeletes
      BY <2>2 DEF DeletePhotoRow
    <3> QED
      BY <3>1, <3>2, <3>3
  <2>3. CASE DeleteThumb(r) \/ DeleteUserDataFails(r) \/ DeletePhotoFails(r) \/ DeleteAnswers(r)
    BY <2>3, QuietUnlink
    DEF DeleteThumb, DeleteUserDataFails, DeletePhotoFails, DeleteAnswers, Erasing
  <2>4. CASE ListHashes(r) \/ ErasePhotos(r) \/ EraseDecisions(r)
    BY <2>4, QuietUnlink DEF ListHashes, ErasePhotos, EraseDecisions
  <2> QED
    BY <1>4, <2>1, <2>2, <2>3, <2>4 DEF DeleteStep
<1>5. CASE Crash
  BY <1>5, QuietUnlink DEF Crash
<1>6. CASE Restart
  BY <1>6, QuietUnlink DEF Restart
<1>7. CASE UNCHANGED vars
  BY <1>7, QuietUnlink DEF vars
<1> QED
  BY <1>1, <1>2, <1>3, <1>4, <1>5, <1>6, <1>7 DEF Next

\* A row is written after its file, and a file removed after its rows.
LEMMA StepThumb ==
    ASSUME Unshared, IInv, BroughtInv, WrittenInv, UnlinkInv, RowHasThumb, [Next]_vars
    PROVE  RowHasThumb'
<1> USE ThumbRequestsAssumption, ThumbDataAssumption
    DEF IInv, TypeOK, WrittenInv, RowHasThumb, process, work, rows, environment, Goto, Finish, Refused,
         Requests, Locking
<1>1. ASSUME NEW r \in Requests, Arrive(r) PROVE RowHasThumb'
  BY <1>1 DEF Arrive, BeginAttach, LetIn, Authenticate, TryLock, MayEnter, GetPhoto
<1>2. ASSUME NEW r \in Requests, AttachStep(r) PROVE RowHasThumb'
  BY <1>2 DEF AttachStep, WriteAttached, WritesThumb, InsertPhoto, DecisionStands,
       InsertPhotoFails, FetchOriginal,
             AttachAnswers
<1>3. ASSUME NEW r \in Requests, ImportStep(r) PROVE RowHasThumb'
  BY <1>3 DEF ImportStep, WriteImported, WritesThumb, BeginImport, ImportPhotos, PhotoImportFails,
       Detected
<1>4. ASSUME NEW r \in Requests, DeleteStep(r) PROVE RowHasThumb'
  <2>1. CASE DeleteThumb(r)
    <3>1. PICK h \in todo[r] : thumbs \ {h} \subseteq thumbs'
      BY <2>1 DEF DeleteThumb
    <3>2. ~Named(h)
      BY <2>1, <3>1, UnlinkedIsNobodys DEF DeleteThumb
    <3>3. UNCHANGED <<photos, records>>
      BY <2>1 DEF DeleteThumb
    <3> QED
      BY <3>1, <3>2, <3>3 DEF Named
  <2>2. CASE DeletePhotoRow(r) \/ DeletePhotoFails(r) \/ DeleteAnswers(r)
    BY <2>2 DEF DeletePhotoRow, DeletePhotoFails, DeleteAnswers
  <2>3. CASE ListHashes(r) \/ ErasePhotos(r) \/ EraseDecisions(r)
    BY <2>3 DEF ListHashes, ErasePhotos, EraseDecisions
  <2>4. CASE CommitErasure(r) \/ DeleteUserDataFails(r)
    BY <2>4 DEF CommitErasure, DeleteUserDataFails
  <2> QED
    BY <1>4, <2>1, <2>2, <2>3, <2>4 DEF DeleteStep
<1>5. CASE Crash
  BY <1>5 DEF Crash
<1>6. CASE Restart
  BY <1>6 DEF Restart
<1>7. CASE UNCHANGED vars
  BY <1>7 DEF vars
<1> QED
  BY <1>1, <1>2, <1>3, <1>4, <1>5, <1>6, <1>7 DEF Next

\* Every row has its file, wherever one of the handlers stopped, as long as
\* nobody shares a photo with those that take no lock.
THEOREM UnsharedRowsHaveThumbs == ASSUME Unshared PROVE Spec => []RowHasThumb
<1>1. Init => FilesInv
  <2> SUFFICES ASSUME Init PROVE FilesInv
    OBVIOUS
  <2> USE ThumbRequestsAssumption, ThumbDataAssumption DEF Init, Requests, Locking
  <2>1. BroughtInv
    BY DEF BroughtInv, Brings, Erasing
  <2>2. WrittenInv /\ UnlinkInv
    BY DEF WrittenInv, UnlinkInv
  <2>3. RowHasThumb
    BY DEF RowHasThumb
  <2> QED
    BY <2>1, <2>2, <2>3 DEF FilesInv
<1>2. IInv /\ FilesInv /\ [Next]_vars => FilesInv'
  BY StepBrought, StepWritten, StepUnlink, StepThumb DEF FilesInv
<1>3. FilesInv => RowHasThumb
  BY DEF FilesInv
<1> QED
  BY <1>1, <1>2, <1>3, InductiveInvariant, PTL DEF Spec

-----------------------------------------------------------------------------
(* The files of rows that are gone.                                         *)

\* Who is under way without the account or the decision has been noted, and so
\* has, once a deletion has listed the thumbnails, whoever may bring one more.
StrayInv ==
    /\ \A q \in Attaches : UnderWay(q) /\ UserOf[q] \notin kept => q \in stragglers
    /\ \A q \in PhotoImports :
        /\ UnderWay(q) /\ UserOf[q] \notin accounts => q \in stragglers
        /\ todo[q] \subseteq Carries[q]
    /\ \A d \in AccountDeletes : pc[d] \in Erasing \ {"erasing"} =>
        /\ \A q \in Bringers : UserOf[q] = UserOf[d] /\ UnderWay(q) => q \in stragglers
        /\ \A h \in Hashes : <<UserOf[d], h>> \in photos \union records =>
                h \in todo[d] \/ \E s \in stragglers : h \in Carries[s]

\* Nobody comes under way unnoticed.
LEMMA StepStray ==
    ASSUME IInv, BroughtInv, StrayInv, [Next]_vars
    PROVE  StrayInv'
<1> USE ThumbRequestsAssumption, ThumbDataAssumption
    DEF IInv, TypeOK, StrayInv, UnderWay, Bringers, Erasing, process, work, rows, environment,
        Goto, Finish, Refused, Requests, Locking
<1>1. ASSUME NEW r \in Requests, Arrive(r) PROVE StrayInv'
  <2>1. CASE BeginAttach(r)
    BY <2>1 DEF BeginAttach, LetIn
  <2>2. CASE Authenticate(r)
    BY <2>2 DEF Authenticate, LetIn
  <2>3. CASE TryLock(r)
    BY <2>3 DEF TryLock, MayEnter
  <2>4. CASE GetPhoto(r)
    BY <2>4 DEF GetPhoto
  <2> QED
    BY <1>1, <2>1, <2>2, <2>3, <2>4 DEF Arrive
<1>2. ASSUME NEW r \in Requests, AttachStep(r) PROVE StrayInv'
  <2>1. CASE InsertPhoto(r)
    BY <2>1 DEF InsertPhoto, BroughtInv
  <2>2. CASE WriteAttached(r) \/ InsertPhotoFails(r) \/ FetchOriginal(r) \/ AttachAnswers(r)
    BY <2>2 DEF WriteAttached, WritesThumb, InsertPhotoFails, FetchOriginal, AttachAnswers
  <2> QED
    BY <1>2, <2>1, <2>2 DEF AttachStep
<1>3. ASSUME NEW r \in Requests, ImportStep(r) PROVE StrayInv'
  BY <1>3 DEF ImportStep, WriteImported, WritesThumb, BeginImport, ImportPhotos, PhotoImportFails,
       Detected, LockInv
<1>4. ASSUME NEW r \in Requests, DeleteStep(r) PROVE StrayInv'
  <2>1. CASE ListHashes(r)
    BY <2>1 DEF ListHashes, HashesOf
  <2>2. CASE ErasePhotos(r) \/ EraseDecisions(r)
    BY <2>2 DEF ErasePhotos, EraseDecisions
  <2>3. CASE CommitErasure(r)
    BY <2>3 DEF CommitErasure, LockInv
  <2>4. CASE DeleteUserDataFails(r) \/ DeletePhotoRow(r) \/ DeletePhotoFails(r)
    BY <2>4 DEF DeleteUserDataFails, DeletePhotoRow, DeletePhotoFails
  <2>5. CASE DeleteThumb(r) \/ DeleteAnswers(r)
    BY <2>5 DEF DeleteThumb, DeleteAnswers
  <2> QED
    BY <1>4, <2>1, <2>2, <2>3, <2>4, <2>5 DEF DeleteStep
<1>5. CASE Crash
  BY <1>5 DEF Crash
<1>6. CASE Restart
  BY <1>6 DEF Restart
<1>7. CASE UNCHANGED vars
  BY <1>7 DEF vars
<1> QED
  BY <1>1, <1>2, <1>3, <1>4, <1>5, <1>6, <1>7 DEF Next

Accounted(h) == Named(h) \/ InHand(h) \/ \E s \in stragglers : h \in Carries[s]

\* A step that writes no file and after which every file is still accounted for.
LEMMA StillAccounted ==
    ASSUME FilesEndWithRows, crashes' = 0 /\ faults' = 0 => crashes = 0 /\ faults = 0,
           \A h \in thumbs' : h \in thumbs /\ (Accounted(h) => Accounted(h)')
    PROVE  FilesEndWithRows'
BY DEF FilesEndWithRows, Accounted

\* A file is in somebody's hand from its writing to its row, and from the end of
\* its last row to its removal.
LEMMA StepFiles ==
    ASSUME IInv, BroughtInv, StrayInv, FilesEndWithRows, [Next]_vars
    PROVE  FilesEndWithRows'
<1> USE ThumbRequestsAssumption, ThumbDataAssumption
    DEF IInv, TypeOK, Bringers, process, work, rows, environment, Goto, Finish, Refused, Requests,
        Locking
<1> DEFINE Quiet == crashes' = 0 /\ faults' = 0 => crashes = 0 /\ faults = 0
<1>1. ASSUME NEW r \in Requests, Arrive(r) PROVE FilesEndWithRows'
  <2>1. /\ UNCHANGED <<thumbs, photos, records, inHand, environment>>
        /\ stragglers \subseteq stragglers'
    BY <1>1 DEF Arrive, BeginAttach, LetIn, Authenticate, TryLock, GetPhoto
  <2>2. \A q \in Requests : pc[q] \in {"inserting", "writing", "storing", "unlinking"} =>
            pc'[q] = pc[q] /\ todo'[q] = todo[q]
    BY <1>1 DEF Arrive, BeginAttach, Authenticate, TryLock, GetPhoto
  <2>3. \A h \in thumbs : Accounted(h) => Accounted(h)'
    BY <2>1, <2>2 DEF Accounted, Named, InHand
  <2> QED
    BY <2>1, <2>3, StillAccounted
<1>2. ASSUME NEW r \in Requests, AttachStep(r) PROVE FilesEndWithRows'
  <2>1. CASE WriteAttached(r)
    <3>1. PICK g \in todo[r] : thumbs' = thumbs \union {g} /\ inHand' = [inHand EXCEPT ![r] = {g}]
      BY <2>1 DEF WriteAttached, WritesThumb
    <3>2. /\ UNCHANGED <<photos, records, stragglers, environment>>
          /\ r \in Attaches /\ pc[r] = "attaching" /\ pc' = [pc EXCEPT ![r] = "inserting"]
          /\ \A q \in Requests \ {r} : todo'[q] = todo[q]
      BY <2>1 DEF WriteAttached
    <3>3. Accounted(g)'
      BY <3>1, <3>2 DEF Accounted, InHand
    <3>4. \A h \in thumbs : Accounted(h) => Accounted(h)'
      BY <3>1, <3>2 DEF Accounted, Named, InHand
    <3> QED
      BY <3>1, <3>2, <3>3, <3>4 DEF FilesEndWithRows, Accounted
  <2>2. CASE InsertPhoto(r)
    <3>1. /\ photos' = photos \union ({UserOf[r]} \X inHand[r]) /\ r \in Attaches
          /\ UNCHANGED <<thumbs, records, inHand, todo, stragglers, environment>>
          /\ \A q \in Requests \ {r} : pc'[q] = pc[q]
      BY <2>2 DEF InsertPhoto
    <3>2. \A h \in inHand[r] : Named(h)'
      BY <3>1 DEF Named
    <3>3. \A h \in thumbs : Named(h) => Named(h)'
      BY <3>1 DEF Named
    <3>4. \A h \in thumbs : InHand(h) => InHand(h)' \/ Named(h)'
      BY <3>1, <3>2 DEF InHand
    <3>5. \A h \in thumbs : Accounted(h) => Accounted(h)'
      BY <3>1, <3>3, <3>4 DEF Accounted
    <3> QED
      BY <3>1, <3>5, StillAccounted
  <2>3. CASE InsertPhotoFails(r)
    <3>1. CASE faults' # 0
      BY <3>1 DEF FilesEndWithRows
    <3>2. CASE faults' = 0
      <4>1. /\ UserOf[r] \notin kept /\ pc[r] = "inserting" /\ r \in Attaches
            /\ UNCHANGED <<thumbs, rows, inHand, todo, environment>>
            /\ \A q \in Requests \ {r} : pc'[q] = pc[q]
        BY <2>3, <3>2 DEF InsertPhotoFails, DecisionStands
      <4>2. r \in stragglers /\ inHand[r] \subseteq Carries[r]
        BY <4>1 DEF StrayInv, UnderWay, BroughtInv
      <4>3. \A h \in thumbs : Accounted(h) => Accounted(h)'
        BY <4>1, <4>2 DEF Accounted, Named, InHand
      <4> QED
        BY <4>1, <4>3, StillAccounted
    <3> QED
      BY <3>1, <3>2
  <2>4. CASE FetchOriginal(r) \/ AttachAnswers(r)
    <3>1. /\ UNCHANGED <<work, thumbs, rows, environment>> /\ r \in Attaches
          /\ pc[r] # "inserting" /\ \A q \in Requests \ {r} : pc'[q] = pc[q]
      BY <2>4 DEF FetchOriginal, AttachAnswers
    <3>2. \A h \in thumbs : InHand(h) => InHand(h)'
      BY <3>1 DEF InHand
    <3>3. \A h \in thumbs : Accounted(h) => Accounted(h)'
      BY <3>1, <3>2 DEF Accounted, Named
    <3> QED
      BY <3>1, <3>3, StillAccounted
  <2> QED
    BY <1>2, <2>1, <2>2, <2>3, <2>4 DEF AttachStep
<1>3. ASSUME NEW r \in Requests, ImportStep(r) PROVE FilesEndWithRows'
  <2>1. CASE WriteImported(r)
    <3>1. PICK g \in todo[r] : thumbs' = thumbs \union {g} /\ todo' = [todo EXCEPT ![r] = @ \ {g}]
      BY <2>1 DEF WriteImported, WritesThumb
    <3>2. /\ UNCHANGED <<process, inHand, rows, environment>>
          /\ r \in PhotoImports /\ pc[r] = "writing"
      BY <2>1 DEF WriteImported
    <3>3. \A h \in thumbs : Accounted(h) => Accounted(h)'
      BY <3>1, <3>2 DEF Accounted, Named, InHand
    <3>4. g \in Carries[r] => Accounted(g)'
      BY <3>1, <3>2 DEF Accounted, InHand
    <3>5. g \in Carries[r]
      BY <3>1, <3>2 DEF StrayInv
    <3> QED
      BY <3>1, <3>2, <3>3, <3>4, <3>5 DEF FilesEndWithRows, Accounted
  <2>2. CASE BeginImport(r) \/ Detected(r)
    <3>1. /\ UNCHANGED <<work, thumbs, rows, environment>> /\ r \in PhotoImports
          /\ \A q \in Requests \ {r} : pc'[q] = pc[q]
          /\ pc[r] \in {"writing", "storing"} => pc'[r] \in {"writing", "storing"}
      BY <2>2 DEF BeginImport, Detected
    <3>2. \A h \in thumbs : InHand(h) => InHand(h)'
      BY <3>1 DEF InHand
    <3>3. \A h \in thumbs : Accounted(h) => Accounted(h)'
      BY <3>1, <3>2 DEF Accounted, Named
    <3> QED
      BY <3>1, <3>3, StillAccounted
  <2>3. CASE ImportPhotos(r)
    <3>1. /\ records' = records \union ({UserOf[r]} \X Carries[r]) /\ r \in PhotoImports
          /\ UNCHANGED <<thumbs, photos, inHand, todo, stragglers, environment>>
          /\ \A q \in Requests \ {r} : pc'[q] = pc[q]
      BY <2>3 DEF ImportPhotos
    <3>2. \A h \in Carries[r] : Named(h)'
      BY <3>1 DEF Named
    <3>3. \A h \in thumbs : Named(h) => Named(h)'
      BY <3>1 DEF Named
    <3>4. \A h \in thumbs : InHand(h) => InHand(h)' \/ Named(h)'
      BY <3>1, <3>2 DEF InHand
    <3>5. \A h \in thumbs : Accounted(h) => Accounted(h)'
      BY <3>1, <3>3, <3>4 DEF Accounted
    <3> QED
      BY <3>1, <3>5, StillAccounted
  <2>4. CASE PhotoImportFails(r)
    <3>1. CASE faults' # 0
      BY <3>1 DEF FilesEndWithRows
    <3>2. CASE faults' = 0
      <4>1. /\ UserOf[r] \notin accounts /\ pc[r] \in {"writing", "storing"}
            /\ r \in PhotoImports
            /\ UNCHANGED <<thumbs, rows, inHand, todo, environment>>
            /\ \A q \in Requests \ {r} : pc'[q] = pc[q]
        BY <2>4, <3>2 DEF PhotoImportFails
      <4>2. r \in stragglers
        BY <4>1 DEF StrayInv, UnderWay
      <4>3. \A h \in thumbs : Accounted(h) => Accounted(h)'
        BY <4>1, <4>2 DEF Accounted, Named, InHand
      <4> QED
        BY <4>1, <4>3, StillAccounted
    <3> QED
      BY <3>1, <3>2
  <2> QED
    BY <1>3, <2>1, <2>2, <2>3, <2>4 DEF ImportStep
<1>4. ASSUME NEW r \in Requests, DeleteStep(r) PROVE FilesEndWithRows'
  <2>1. CASE ListHashes(r) \/ ErasePhotos(r) \/ EraseDecisions(r)
    <3>1. /\ UNCHANGED <<thumbs, photos, records, inHand, environment>> /\ r \in AccountDeletes
          /\ stragglers \subseteq stragglers' /\ pc[r] # "unlinking"
          /\ \A q \in Requests \ {r} : pc'[q] = pc[q] /\ todo'[q] = todo[q]
      BY <2>1 DEF ListHashes, ErasePhotos, EraseDecisions
    <3>2. \A h \in thumbs : InHand(h) => InHand(h)'
      BY <3>1 DEF InHand
    <3>3. \A h \in thumbs : Accounted(h) => Accounted(h)'
      BY <3>1, <3>2 DEF Accounted, Named
    <3> QED
      BY <3>1, <3>3, StillAccounted
  <2>2. CASE CommitErasure(r)
    <3>1. /\ photos' = photos \ ({UserOf[r]} \X doomed[r])
          /\ records' = records \ ({UserOf[r]} \X Hashes)
          /\ todo' = [todo EXCEPT ![r] = Orphans(r)] /\ pc' = [pc EXCEPT ![r] = "unlinking"]
          /\ r \in AccountDeletes /\ pc[r] = "decisionsErased"
          /\ UNCHANGED <<thumbs, inHand, stragglers, environment>>
      BY <2>2 DEF CommitErasure
    <3>2. ASSUME NEW h \in thumbs, Named(h), ~Named(h)' PROVE Accounted(h)'
      <4>1. h \in Hashes /\ \A v \in Users \ {UserOf[r]} : <<v, h>> \notin photos \union records
        BY <3>1, <3>2 DEF Named
      <4>2. <<UserOf[r], h>> \in photos \union records
        BY <3>2, <4>1 DEF Named
      <4>3. h \in todo[r] \/ \E s \in stragglers : h \in Carries[s]
        BY <3>1, <4>1, <4>2 DEF StrayInv, Erasing
      <4>4. h \in todo[r] => h \in Orphans(r)
        BY <4>1 DEF Orphans
      <4> QED
        BY <3>1, <4>3, <4>4 DEF Accounted, InHand
    <3>3. \A h \in thumbs : InHand(h) => InHand(h)'
      BY <3>1 DEF InHand
    <3>4. \A h \in thumbs : Accounted(h) => Accounted(h)'
      BY <3>1, <3>2, <3>3 DEF Accounted
    <3> QED
      BY <3>1, <3>4, StillAccounted
  <2>3. CASE DeletePhotoRow(r)
    <3>1. /\ photos' = photos \ ({UserOf[r]} \X Carries[r])
          /\ todo' = [todo EXCEPT ![r] = Carries[r]] /\ pc' = [pc EXCEPT ![r] = "unlinking"]
          /\ r \in PhotoDeletes /\ pc[r] = "found"
          /\ UNCHANGED <<thumbs, inHand, records, stragglers, environment>>
      BY <2>3 DEF DeletePhotoRow
    <3>2. \A h \in Hashes : Named(h) => Named(h)' \/ h \in Carries[r]
      BY <3>1 DEF Named
    <3>3. \A h \in Carries[r] : Accounted(h)'
      BY <3>1 DEF Accounted, InHand
    <3>4. \A h \in thumbs : InHand(h) => InHand(h)'
      BY <3>1 DEF InHand
    <3>5. \A h \in thumbs : Accounted(h) => Accounted(h)'
      BY <3>1, <3>2, <3>3, <3>4 DEF Accounted
    <3> QED
      BY <3>1, <3>5, StillAccounted
  <2>4. CASE DeleteUserDataFails(r) \/ DeletePhotoFails(r) \/ DeleteAnswers(r)
    <3>1. /\ UNCHANGED <<thumbs, rows, inHand, todo, crashes>> /\ r \in Requests
          /\ faults' = 0 => faults = 0
          /\ pc[r] \in Erasing \union {"found"} \/ (pc[r] = "unlinking" /\ todo[r] = {})
          /\ \A q \in Requests \ {r} : pc'[q] = pc[q]
      BY <2>4 DEF DeleteUserDataFails, DeletePhotoFails, DeleteAnswers
    <3>2. \A h \in thumbs : Accounted(h) => Accounted(h)'
      BY <3>1 DEF Accounted, Named, InHand, Erasing
    <3> QED
      BY <3>1, <3>2, StillAccounted
  <2>5. CASE DeleteThumb(r)
    <3>1. CASE faults' # 0
      BY <3>1 DEF FilesEndWithRows
    <3>2. CASE faults' = 0
      <4>1. ~Refused
        BY <3>2
      <4>2. PICK g \in todo[r] : thumbs' = thumbs \ {g} /\ todo' = [todo EXCEPT ![r] = @ \ {g}]
        BY <2>5, <4>1 DEF DeleteThumb
      <4>3. UNCHANGED <<process, inHand, rows, crashes>> /\ pc[r] = "unlinking" /\ faults = 0
        BY <2>5, <3>2 DEF DeleteThumb
      <4>4. r \in AccountDeletes \union PhotoDeletes
        BY <4>3 DEF BroughtInv
      <4>5. \A h \in thumbs' : Accounted(h) => Accounted(h)'
        BY <4>2, <4>3, <4>4 DEF Accounted, Named, InHand
      <4> QED
        BY <4>2, <4>3, <4>5, StillAccounted
    <3> QED
      BY <3>1, <3>2
  <2> QED
    BY <1>4, <2>1, <2>2, <2>3, <2>4, <2>5 DEF DeleteStep
<1>5. CASE Crash
  BY <1>5 DEF Crash, FilesEndWithRows
<1>6. CASE Restart
  <2>1. UNCHANGED <<pc, work, thumbs, rows, environment>>
    BY <1>6 DEF Restart
  <2>2. \A h \in thumbs : Accounted(h) => Accounted(h)'
    BY <2>1 DEF Accounted, Named, InHand
  <2> QED
    BY <2>1, <2>2, StillAccounted
<1>7. CASE UNCHANGED vars
  <2>1. UNCHANGED <<pc, work, thumbs, rows, environment>>
    BY <1>7 DEF vars
  <2>2. \A h \in thumbs : Accounted(h) => Accounted(h)'
    BY <2>1 DEF Accounted, Named, InHand
  <2> QED
    BY <2>1, <2>2, StillAccounted
<1> QED
  BY <1>1, <1>2, <1>3, <1>4, <1>5, <1>6, <1>7 DEF Next

\* Wherever nothing is cut short, a file that no row names is in the hand of a
\* handler or was carried by one that was under way while a deletion of its
\* account was, whoever shares which photos.
THEOREM FilesEndWithTheirRows == Spec => []FilesEndWithRows
<1>1. Init => BroughtInv /\ StrayInv /\ FilesEndWithRows
  <2> SUFFICES ASSUME Init PROVE BroughtInv /\ StrayInv /\ FilesEndWithRows
    OBVIOUS
  <2> USE ThumbRequestsAssumption, ThumbDataAssumption DEF Init, Requests, Locking
  <2>1. BroughtInv
    BY DEF BroughtInv, Brings, Erasing
  <2>2. StrayInv
    BY DEF StrayInv, UnderWay, Erasing
  <2>3. FilesEndWithRows
    BY DEF FilesEndWithRows, Named
  <2> QED
    BY <2>1, <2>2, <2>3
<1>2. IInv /\ BroughtInv /\ StrayInv /\ FilesEndWithRows /\ [Next]_vars
        => BroughtInv' /\ StrayInv' /\ FilesEndWithRows'
  BY StepBrought, StepStray, StepFiles
<1> QED
  BY <1>1, <1>2, InductiveInvariant, PTL DEF Spec
=============================================================================
