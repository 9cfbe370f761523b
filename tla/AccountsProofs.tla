----------------------------- MODULE AccountsProofs -----------------------------
(***************************************************************************)
(* Theorems about Accounts: whatever sign-ins, deletions and restarts do   *)
(* beside each other, a person has one account, a session opens it, and    *)
(* nobody is admitted at the cap.                                          *)
(*                                                                         *)
(* None of this is inductive by itself.  A sign-in that has its row in     *)
(* hand must know that the row will be there, and be the only one, when it *)
(* commits: AccountInv says so, from the admission lock (MutexInv), from   *)
(* the ids that are nobody's yet (FreshInv) and from the row locks of the  *)
(* deletion.  CapInv carries the room a sign-in was admitted into to its   *)
(* commit, also past the wait for a deletion of its own account.           *)
(***************************************************************************)
EXTENDS Accounts, FiniteSetTheorems, TLAPS

\* At most one sign-in is in its transaction, and the lock names it.
MutexInv ==
    \A r \in SignIns : pc[r] \in {"admitting", "waiting", "admitted"} => admission = r

\* The id a sign-in may still bring in is nobody's.
FreshInv ==
    \A r \in SignIns : pc[r] \in {"idle", "admitting", "waiting", "admitted"} =>
        /\ r \notin users
        /\ \A q \in Requests \ {r} : r \notin account[q]

\* One account each, and what a sign-in has in hand is the account of its
\* subject: the one there is, or the one to come, and no deletion's.
AccountInv ==
    /\ \A u, v \in users : SubjectOf[u] = SubjectOf[v] => u = v
    /\ \A r \in SignIns : pc[r] \in {"admitted", "signed"} =>
        \E u \in SignIns : account[r] = {u} /\ SubjectOf[u] = SubjectOf[r]
    /\ \A r \in SignIns : pc[r] = "admitted" =>
        /\ AccountsOf(SubjectOf[r]) \subseteq account[r]
        /\ \A d \in Erasures : pc[d] = "erased" => account[r] \cap account[d] = {}

\* A session is of an account that stands, and of the person who signed in.
SessionInv ==
    \A s \in sessions : s.user \in users /\ SubjectOf[s.user] = SubjectOf[s.token]

IInv == TypeOK /\ MutexInv /\ FreshInv /\ AccountInv /\ SessionInv

\* There is room for one more, or nobody counts, or it is the exception.
Room(r) == cap = 0 \/ r \in overfull \/ Cardinality(users) < cap

\* Who has been let in and will bring a row has room for it, and who waits will
\* have it once the account that is being deleted has gone.
CapInv ==
    /\ IsFiniteSet(users)
    /\ \A r \in SignIns :
        /\ pc[r] = "waiting" => cap = 0 \/ r \in overfull \/ Cardinality(users) <= cap
        /\ pc[r] = "waiting" /\ AccountsOf(SubjectOf[r]) = {} => Room(r)
        /\ pc[r] = "admitted" /\ ~(account[r] \subseteq users) => Room(r)
        /\ pc[r] = "admitted" => account[r] \subseteq users \union {r}

-----------------------------------------------------------------------------

\* The invariant holds before anyone has signed in; then, action by action, it stays.
LEMMA InitIInv == Init => IInv
<1> SUFFICES ASSUME Init PROVE IInv
  OBVIOUS
<1> USE AccountsAssumption DEF Init, Requests
<1>1. TypeOK
  <2>1. pc \in [Requests -> Phases] /\ account \in [Requests -> SUBSET SignIns]
    BY DEF Phases
  <2>2. restarts \in 0 .. MaxRestarts /\ faults \in 0 .. MaxFaults
    OBVIOUS
  <2> QED
    BY <2>1, <2>2 DEF TypeOK
<1>2. MutexInv /\ FreshInv
  BY DEF MutexInv, FreshInv
<1>3. AccountInv /\ SessionInv
  BY DEF AccountInv, SessionInv
<1> QED
  BY <1>1, <1>2, <1>3 DEF IInv

LEMMA LockAdmissionIInv == ASSUME IInv, NEW r \in SignIns, LockAdmission(r) PROVE IInv'
<1> USE AccountsAssumption DEF IInv, LockAdmission, AdmissionFree, Goto, Requests
<1>1. TypeOK'
  BY DEF TypeOK, Phases
<1>2. MutexInv'
  BY DEF MutexInv, TypeOK
<1>3. FreshInv'
  BY DEF FreshInv, TypeOK, AccountsOf, SessionInv
<1>4. AccountInv'
  BY <1>1 DEF AccountInv, FreshInv, MutexInv, TypeOK, AccountsOf, SessionInv
<1>5. SessionInv'
  BY DEF SessionInv, AccountInv, TypeOK
<1> QED
  BY <1>1, <1>2, <1>3, <1>4, <1>5

LEMMA AdmitIInv == ASSUME IInv, NEW r \in SignIns, Admit(r) PROVE IInv'
<1> USE AccountsAssumption DEF IInv, Admit, NewId, EndAdmission, Condemned, Goto, Requests
<1>0. AccountsOf(SubjectOf[r]) \subseteq SignIns
  BY DEF AccountsOf, TypeOK
<1>1. TypeOK'
  <2>1. account' \in [Requests -> SUBSET SignIns]
    BY <1>0 DEF TypeOK
  <2> QED
    BY <2>1 DEF TypeOK, Phases
<1>2. MutexInv'
  BY DEF MutexInv, TypeOK
<1>3. FreshInv'
  BY DEF FreshInv, TypeOK, AccountsOf, SessionInv
<1>4. AccountInv'
  BY <1>1 DEF AccountInv, FreshInv, MutexInv, TypeOK, AccountsOf, SessionInv
<1>5. SessionInv'
  BY DEF SessionInv, AccountInv, TypeOK
<1> QED
  BY <1>1, <1>2, <1>3, <1>4, <1>5

LEMMA WaitOverIInv == ASSUME IInv, NEW r \in SignIns, WaitOver(r) PROVE IInv'
<1> USE AccountsAssumption DEF IInv, WaitOver, NewId, Condemned, Goto, Requests
<1>0. AccountsOf(SubjectOf[r]) \subseteq SignIns
  BY DEF AccountsOf, TypeOK
<1>1. TypeOK'
  <2>1. account' \in [Requests -> SUBSET SignIns]
    BY <1>0 DEF TypeOK
  <2> QED
    BY <2>1 DEF TypeOK, Phases
<1>2. MutexInv'
  BY DEF MutexInv, TypeOK
<1>3. FreshInv'
  BY DEF FreshInv, TypeOK, AccountsOf, SessionInv
<1>4. AccountInv'
  BY <1>1 DEF AccountInv, FreshInv, MutexInv, TypeOK, AccountsOf, SessionInv
<1>5. SessionInv'
  BY DEF SessionInv, AccountInv, TypeOK
<1> QED
  BY <1>1, <1>2, <1>3, <1>4, <1>5

LEMMA CommitAdmissionIInv == ASSUME IInv, NEW r \in SignIns, CommitAdmission(r) PROVE IInv'
<1> USE AccountsAssumption DEF IInv, CommitAdmission, EndAdmission, Goto, Requests
<1>1. TypeOK'
  BY DEF TypeOK, Phases
<1>2. MutexInv'
  BY DEF MutexInv, TypeOK
<1>3. FreshInv'
  BY DEF FreshInv, TypeOK, AccountsOf, SessionInv
<1>4. AccountInv'
  BY <1>1 DEF AccountInv, FreshInv, MutexInv, TypeOK, AccountsOf, SessionInv
<1>5. SessionInv'
  BY DEF SessionInv, AccountInv, TypeOK
<1> QED
  BY <1>1, <1>2, <1>3, <1>4, <1>5

LEMMA AdmissionFailsIInv == ASSUME IInv, NEW r \in SignIns, AdmissionFails(r) PROVE IInv'
<1> USE AccountsAssumption DEF IInv, AdmissionFails, EndAdmission, Refused, Answer, Goto, Requests
<1>1. TypeOK'
  BY DEF TypeOK, Phases
<1>2. MutexInv'
  BY DEF MutexInv, TypeOK
<1>3. FreshInv'
  BY DEF FreshInv, TypeOK, AccountsOf, SessionInv
<1>4. AccountInv'
  BY <1>1 DEF AccountInv, FreshInv, MutexInv, TypeOK, AccountsOf, SessionInv
<1>5. SessionInv'
  BY DEF SessionInv, AccountInv, TypeOK
<1> QED
  BY <1>1, <1>2, <1>3, <1>4, <1>5

LEMMA CreateSessionIInv == ASSUME IInv, NEW r \in SignIns, CreateSession(r) PROVE IInv'
<1> USE AccountsAssumption DEF IInv, CreateSession, UserStands, Answer, Goto, Requests
<1>1. TypeOK'
  BY DEF TypeOK, Phases
<1>2. MutexInv'
  BY DEF MutexInv, TypeOK
<1>3. FreshInv'
  BY DEF FreshInv, TypeOK, AccountsOf, SessionInv
<1>4. AccountInv'
  BY <1>1 DEF AccountInv, FreshInv, MutexInv, TypeOK, AccountsOf, SessionInv
<1>5. SessionInv'
  <2>1. PICK u \in SignIns : account[r] = {u} /\ SubjectOf[u] = SubjectOf[r]
    BY DEF AccountInv
  <2>2. \A s \in sessions' : s \in sessions \/ (s.token = r /\ s.user = u)
    BY <2>1
  <2> QED
    BY <2>1, <2>2 DEF SessionInv
<1> QED
  BY <1>1, <1>2, <1>3, <1>4, <1>5

LEMMA CreateSessionFailsIInv == ASSUME IInv, NEW r \in SignIns, CreateSessionFails(r) PROVE IInv'
<1> USE AccountsAssumption DEF IInv, CreateSessionFails, UserStands, Refused, Answer, Goto,
     Requests
<1>1. TypeOK'
  BY DEF TypeOK, Phases
<1>2. MutexInv'
  BY DEF MutexInv, TypeOK
<1>3. FreshInv'
  BY DEF FreshInv, TypeOK, AccountsOf, SessionInv
<1>4. AccountInv'
  BY <1>1 DEF AccountInv, FreshInv, MutexInv, TypeOK, AccountsOf, SessionInv
<1>5. SessionInv'
  BY DEF SessionInv, AccountInv, TypeOK
<1> QED
  BY <1>1, <1>2, <1>3, <1>4, <1>5

LEMMA SignOutIInv == ASSUME IInv, NEW s \in sessions, SignOut(s) PROVE IInv'
<1> USE AccountsAssumption DEF IInv, SignOut, memory, Requests
<1>1. TypeOK'
  BY DEF TypeOK, Phases
<1>2. MutexInv'
  BY DEF MutexInv, TypeOK
<1>3. FreshInv'
  BY DEF FreshInv, TypeOK, AccountsOf, SessionInv
<1>4. AccountInv'
  BY <1>1 DEF AccountInv, FreshInv, MutexInv, TypeOK, AccountsOf, SessionInv
<1>5. SessionInv'
  BY DEF SessionInv, AccountInv, TypeOK
<1> QED
  BY <1>1, <1>2, <1>3, <1>4, <1>5

LEMMA ExpireIInv == ASSUME IInv, NEW s \in sessions, Expire(s) PROVE IInv'
<1> USE AccountsAssumption DEF IInv, Expire, memory, Requests
<1>1. TypeOK'
  BY DEF TypeOK, Phases
<1>2. MutexInv'
  BY DEF MutexInv, TypeOK
<1>3. FreshInv'
  BY DEF FreshInv, TypeOK, AccountsOf, SessionInv
<1>4. AccountInv'
  BY <1>1 DEF AccountInv, FreshInv, MutexInv, TypeOK, AccountsOf, SessionInv
<1>5. SessionInv'
  BY DEF SessionInv, AccountInv, TypeOK
<1> QED
  BY <1>1, <1>2, <1>3, <1>4, <1>5

LEMMA AuthenticateIInv ==
    ASSUME IInv, NEW d \in Erasures, NEW s \in sessions, Authenticate(d, s)
    PROVE  IInv'
<1> USE AccountsAssumption DEF IInv, Authenticate, Goto, Requests
<1>1. TypeOK'
  BY DEF TypeOK, Phases
<1>2. MutexInv'
  BY DEF MutexInv, TypeOK
<1>3. FreshInv'
  BY DEF FreshInv, TypeOK, AccountsOf, SessionInv
<1>4. AccountInv'
  BY <1>1 DEF AccountInv, FreshInv, MutexInv, TypeOK, AccountsOf, SessionInv
<1>5. SessionInv'
  BY DEF SessionInv, AccountInv, TypeOK
<1> QED
  BY <1>1, <1>2, <1>3, <1>4, <1>5

LEMMA LockImportsIInv == ASSUME IInv, NEW d \in Erasures, LockImports(d) PROVE IInv'
<1> USE AccountsAssumption DEF IInv, LockImports, Answer, Goto, Requests
<1>1. TypeOK'
  BY DEF TypeOK, Phases
<1>2. MutexInv'
  BY DEF MutexInv, TypeOK
<1>3. FreshInv'
  BY DEF FreshInv, TypeOK, AccountsOf, SessionInv
<1>4. AccountInv'
  BY <1>1 DEF AccountInv, FreshInv, MutexInv, TypeOK, AccountsOf, SessionInv
<1>5. SessionInv'
  BY DEF SessionInv, AccountInv, TypeOK
<1> QED
  BY <1>1, <1>2, <1>3, <1>4, <1>5

LEMMA EraseSessionsIInv == ASSUME IInv, NEW d \in Erasures, EraseSessions(d) PROVE IInv'
<1> USE AccountsAssumption DEF IInv, EraseSessions, Goto, Requests
<1>1. TypeOK'
  BY DEF TypeOK, Phases
<1>2. MutexInv'
  BY DEF MutexInv, TypeOK
<1>3. FreshInv'
  BY DEF FreshInv, TypeOK, AccountsOf, SessionInv
<1>4. AccountInv'
  BY <1>1 DEF AccountInv, FreshInv, MutexInv, TypeOK, AccountsOf, SessionInv
<1>5. SessionInv'
  BY DEF SessionInv, AccountInv, TypeOK
<1> QED
  BY <1>1, <1>2, <1>3, <1>4, <1>5

LEMMA EraseUserIInv == ASSUME IInv, NEW d \in Erasures, EraseUser(d) PROVE IInv'
<1> USE AccountsAssumption DEF IInv, EraseUser, Refreshing, Goto, Requests
<1>1. TypeOK'
  BY DEF TypeOK, Phases
<1>2. MutexInv'
  BY DEF MutexInv, TypeOK
<1>3. FreshInv'
  BY DEF FreshInv, TypeOK, AccountsOf, SessionInv
<1>4. AccountInv'
  BY <1>1 DEF AccountInv, FreshInv, MutexInv, TypeOK, AccountsOf, SessionInv
<1>5. SessionInv'
  BY DEF SessionInv, AccountInv, TypeOK
<1> QED
  BY <1>1, <1>2, <1>3, <1>4, <1>5

LEMMA CommitErasureIInv == ASSUME IInv, NEW d \in Erasures, CommitErasure(d) PROVE IInv'
<1> USE AccountsAssumption DEF IInv, CommitErasure, Cascades, Answer, Goto, Requests
<1>1. TypeOK'
  BY DEF TypeOK, Phases
<1>2. MutexInv'
  BY DEF MutexInv, TypeOK
<1>3. FreshInv'
  BY DEF FreshInv, TypeOK, AccountsOf, SessionInv
<1>4. AccountInv'
  BY <1>1 DEF AccountInv, FreshInv, MutexInv, TypeOK, AccountsOf, SessionInv
<1>5. SessionInv'
  BY DEF SessionInv, AccountInv, TypeOK
<1> QED
  BY <1>1, <1>2, <1>3, <1>4, <1>5

LEMMA ErasureFailsIInv == ASSUME IInv, NEW d \in Erasures, ErasureFails(d) PROVE IInv'
<1> USE AccountsAssumption DEF IInv, ErasureFails, Refused, Answer, Goto, Requests
<1>1. TypeOK'
  BY DEF TypeOK, Phases
<1>2. MutexInv'
  BY DEF MutexInv, TypeOK
<1>3. FreshInv'
  BY DEF FreshInv, TypeOK, AccountsOf, SessionInv
<1>4. AccountInv'
  BY <1>1 DEF AccountInv, FreshInv, MutexInv, TypeOK, AccountsOf, SessionInv
<1>5. SessionInv'
  BY DEF SessionInv, AccountInv, TypeOK
<1> QED
  BY <1>1, <1>2, <1>3, <1>4, <1>5

LEMMA RestartIInv == ASSUME IInv, Restart PROVE IInv'
<1> USE AccountsAssumption DEF IInv, Restart, AtRest, Requests
<1>1. TypeOK'
  BY DEF TypeOK, Phases
<1>2. MutexInv'
  BY DEF MutexInv, TypeOK
<1>3. FreshInv'
  BY DEF FreshInv, TypeOK, AccountsOf, SessionInv
<1>4. AccountInv'
  BY <1>1 DEF AccountInv, FreshInv, MutexInv, TypeOK, AccountsOf, SessionInv
<1>5. SessionInv'
  BY DEF SessionInv, AccountInv, TypeOK
<1> QED
  BY <1>1, <1>2, <1>3, <1>4, <1>5

\* Every step keeps the invariant.
LEMMA StepIInv == IInv /\ [Next]_vars => IInv'
<1> SUFFICES ASSUME IInv, [Next]_vars PROVE IInv'
  OBVIOUS
<1>1. CASE \E r \in SignIns : LockAdmission(r) \/ SignInStep(r)
  BY <1>1, LockAdmissionIInv, AdmitIInv, WaitOverIInv, CommitAdmissionIInv, AdmissionFailsIInv,
     CreateSessionIInv, CreateSessionFailsIInv DEF SignInStep
<1>2. CASE \E d \in Erasures : ErasureStep(d) \/ \E s \in sessions : Authenticate(d, s)
  BY <1>2, LockImportsIInv, EraseSessionsIInv, EraseUserIInv, CommitErasureIInv, ErasureFailsIInv,
     AuthenticateIInv DEF ErasureStep
<1>3. CASE \E s \in sessions : SignOut(s) \/ Expire(s)
  BY <1>3, SignOutIInv, ExpireIInv
<1>4. CASE Restart
  BY <1>4, RestartIInv
<1>5. CASE UNCHANGED vars
  <2> USE <1>5 DEF vars, memory, IInv
  <2>1. TypeOK' /\ MutexInv' /\ FreshInv'
    BY DEF TypeOK, MutexInv, FreshInv
  <2>2. AccountInv' /\ SessionInv'
    BY DEF AccountInv, SessionInv, AccountsOf
  <2> QED
    BY <2>1, <2>2
<1> QED
  BY <1>1, <1>2, <1>3, <1>4, <1>5 DEF Next

\* The invariant of the module: sign-ins, sign-outs, deletions and restarts keep
\* it in whatever order their statements come.
THEOREM InductiveInvariant == Spec => []IInv
BY InitIInv, StepIInv, PTL DEF Spec

\* Every variable keeps its type, for any requests, people and caps.
THEOREM TypeCorrect == Spec => []TypeOK
<1>1. IInv => TypeOK
  BY DEF IInv
<1> QED
  BY <1>1, InductiveInvariant, PTL

\* A session opens the one account of the person who signed in for it, with
\* deletions, restarts and other sign-ins of the same person at any moment.
THEOREM SessionsAreRight == Spec => []SessionsOpenTheirAccount
<1>1. IInv => SessionsOpenTheirAccount
  <2> SUFFICES ASSUME IInv, NEW s \in sessions PROVE AccountsOf(SubjectOf[s.token]) = {s.user}
    BY DEF SessionsOpenTheirAccount
  <2>1. s.user \in users /\ SubjectOf[s.user] = SubjectOf[s.token]
    BY DEF IInv, SessionInv
  <2> QED
    BY <2>1 DEF IInv, AccountInv, AccountsOf
<1> QED
  BY <1>1, InductiveInvariant, PTL

-----------------------------------------------------------------------------

\* Taking users away makes room, and never takes any.
LEMMA FewerUsers ==
    ASSUME NEW S, IsFiniteSet(S), NEW U \in SUBSET S
    PROVE  /\ IsFiniteSet(U) /\ Cardinality(S) \in Nat /\ Cardinality(U) \in Nat
           /\ Cardinality(U) <= Cardinality(S)
           /\ U # S => Cardinality(U) < Cardinality(S)
BY FS_Subset, FS_CardinalityType

\* A step that leaves users and the cap alone lets in only who there is room
\* for, or who has an account.
LEMMA QuietCapInv ==
    ASSUME IInv, CapInv, UNCHANGED <<users, cap>>, overfull \subseteq overfull',
           \A r \in SignIns :
            \/ pc'[r] = pc[r] /\ account'[r] = account[r]
            \/ pc'[r] \notin {"waiting", "admitted"}
            \/ Admit(r) \/ WaitOver(r)
    PROVE  CapInv'
<1> DEFINE Fits(r) ==
        /\ pc[r] = "waiting" => cap = 0 \/ r \in overfull \/ Cardinality(users) <= cap
        /\ pc[r] = "waiting" /\ AccountsOf(SubjectOf[r]) = {} => Room(r)
        /\ pc[r] = "admitted" /\ ~(account[r] \subseteq users) => Room(r)
        /\ pc[r] = "admitted" => account[r] \subseteq users \union {r}
<1>1. IsFiniteSet(users') /\ \A r \in SignIns : Fits(r)
  BY DEF CapInv
<1>2. ASSUME NEW r \in SignIns, Admit(r) PROVE Fits(r)'
  <2>1. cap \in Nat /\ Cardinality(users) \in Nat
    BY AccountsAssumption, FS_CardinalityType DEF IInv, TypeOK, CapInv
  <2> DEFINE mine == AccountsOf(SubjectOf[r])
  <2>2. mine \subseteq users
    BY DEF AccountsOf
  <2>3. pc'[r] = "waiting" => /\ Admits(r) /\ mine # {}
                              /\ overfull' = IF cap # 0 /\ Cardinality(users) > cap
                                             THEN overfull \union {r} ELSE overfull
    BY <1>2 DEF Admit, Goto, IInv, TypeOK, Requests
  <2>4. pc'[r] = "admitted" => /\ Admits(r)
                               /\ account'[r] = IF mine = {} THEN {r} ELSE mine
    BY <1>2 DEF Admit, NewId, Goto, IInv, TypeOK, Requests
  <2>5. mine' = mine
    BY DEF AccountsOf
  <2> HIDE DEF mine
  <2>6. pc'[r] = "waiting" => cap' = 0 \/ r \in overfull' \/ Cardinality(users') <= cap'
    BY <2>1, <2>3
  <2>7. pc'[r] = "admitted" /\ ~(account'[r] \subseteq users') => Room(r)'
    BY <2>2, <2>4 DEF Admits, Room, mine
  <2>8. pc'[r] = "admitted" => account'[r] \subseteq users' \union {r}
    BY <2>2, <2>4
  <2> QED
    BY <2>3, <2>5, <2>6, <2>7, <2>8 DEF mine
<1>3. ASSUME NEW r \in SignIns, WaitOver(r) PROVE Fits(r)'
  <2>1. pc[r] = "waiting" /\ pc'[r] = "admitted" /\ AccountsOf(SubjectOf[r]) \subseteq users
    BY <1>3 DEF WaitOver, Goto, IInv, TypeOK, Requests, AccountsOf
  <2>2. account'[r] = IF AccountsOf(SubjectOf[r]) = {} THEN {r} ELSE AccountsOf(SubjectOf[r])
    BY <1>3 DEF WaitOver, NewId, IInv, TypeOK, Requests
  <2>3. AccountsOf(SubjectOf[r]) = {} => Room(r)
    BY <1>1, <2>1
  <2> QED
    BY <2>1, <2>2, <2>3 DEF Room
<1>4. ASSUME NEW r \in SignIns,
             \/ pc'[r] = pc[r] /\ account'[r] = account[r]
             \/ pc'[r] \notin {"waiting", "admitted"}
      PROVE  Fits(r)'
  BY <1>1, <1>4 DEF Room, AccountsOf
<1> HIDE DEF Fits
<1>5. \A r \in SignIns : Fits(r)'
  BY <1>2, <1>3, <1>4
<1> QED
  BY <1>1, <1>5 DEF CapInv, Fits

\* The room found at admission is still there at the commit.
LEMMA CommitAdmissionCapInv ==
    ASSUME IInv, CapInv, NEW r \in SignIns, CommitAdmission(r)
    PROVE  CapInv'
<1> USE AccountsAssumption DEF IInv, TypeOK, Requests, CommitAdmission, Goto
<1>1. PICK u \in SignIns : account[r] = {u}
  BY DEF AccountInv
<1>2. IsFiniteSet(users')
  BY <1>1, FS_AddElement DEF CapInv
<1>3. \A q \in SignIns : pc'[q] \notin {"waiting", "admitted"}
  BY DEF MutexInv
<1> QED
  BY <1>2, <1>3 DEF CapInv

\* A deletion makes the room that who waits for it will need, and leaves the
\* account alone that another sign-in has in hand.
LEMMA CommitErasureCapInv ==
    ASSUME IInv, CapInv, NEW d \in Erasures, CommitErasure(d)
    PROVE  CapInv'
<1> USE AccountsAssumption DEF IInv, TypeOK, Requests, CommitErasure, Answer, Goto
<1>1. /\ IsFiniteSet(users') /\ Cardinality(users) \in Nat /\ Cardinality(users') \in Nat
      /\ Cardinality(users') <= Cardinality(users)
      /\ users' # users => Cardinality(users') < Cardinality(users)
  BY FewerUsers DEF CapInv
<1>2. cap \in Nat /\ cap' = cap /\ overfull' = overfull
  OBVIOUS
<1>3. \A r \in SignIns : Room(r) => Room(r)'
  BY <1>1, <1>2 DEF Room
<1>4. ASSUME NEW r \in SignIns, pc'[r] = "waiting"
      PROVE  cap' = 0 \/ r \in overfull' \/ Cardinality(users') <= cap'
  BY <1>1, <1>2, <1>4 DEF CapInv
<1>5. ASSUME NEW r \in SignIns, pc'[r] = "waiting", AccountsOf(SubjectOf[r])' = {}
      PROVE  Room(r)'
  <2>1. pc[r] = "waiting" /\ (AccountsOf(SubjectOf[r]) # {} => users' # users)
    BY <1>5 DEF AccountsOf
  <2>2. users' # users => Room(r)'
    BY <1>1, <1>2, <2>1 DEF CapInv, Room
  <2> QED
    BY <1>3, <2>1, <2>2 DEF CapInv
<1>6. ASSUME NEW r \in SignIns, pc'[r] = "admitted"
      PROVE  /\ ~(account'[r] \subseteq users') => Room(r)'
             /\ account'[r] \subseteq users' \union {r}
  <2>1. pc[r] = "admitted" /\ account[r] = account'[r] /\ account[r] \cap account[d] = {}
    BY <1>6 DEF AccountInv
  <2>2. ~(account'[r] \subseteq users') => ~(account[r] \subseteq users)
    BY <2>1
  <2> QED
    BY <1>3, <2>1, <2>2 DEF CapInv
<1> QED
  BY <1>1, <1>4, <1>5, <1>6 DEF CapInv

\* Nobody is under way after a restart.
LEMMA RestartCapInv == ASSUME IInv, CapInv, Restart PROVE CapInv'
<1> USE AccountsAssumption DEF IInv, TypeOK, Requests, Restart
<1>1. \A r \in Requests : pc'[r] = IF pc[r] \in AtRest THEN pc[r] ELSE "done"
  OBVIOUS
<1>2. \A r \in SignIns : pc'[r] \notin {"waiting", "admitted"}
  BY <1>1 DEF AtRest
<1> QED
  BY <1>2 DEF CapInv

\* Every step keeps the room of those who were let in.
LEMMA StepCapInv == IInv /\ CapInv /\ [Next]_vars => CapInv'
<1> SUFFICES ASSUME IInv, CapInv, [Next]_vars PROVE CapInv'
  OBVIOUS
<1> USE AccountsAssumption
<1>1. CASE \E r \in SignIns : LockAdmission(r) \/ AdmissionFails(r) \/ CreateSession(r)
                                \/ CreateSessionFails(r)
  <2> SUFFICES UNCHANGED <<users, cap, overfull>>
               /\ \A r \in SignIns : \/ pc'[r] = pc[r] /\ account'[r] = account[r]
                                     \/ pc'[r] \notin {"waiting", "admitted"}
    BY QuietCapInv
  <2> QED
    BY <1>1 DEF LockAdmission, AdmissionFails, CreateSession, CreateSessionFails, Answer, Goto,
                IInv, TypeOK, Requests
<1>2. CASE \E r \in SignIns : Admit(r) \/ WaitOver(r)
  <2>1. PICK r \in SignIns : Admit(r) \/ WaitOver(r)
    BY <1>2
  <2>2. UNCHANGED <<users, cap>> /\ overfull \subseteq overfull'
    BY <2>1 DEF Admit, WaitOver
  <2>3. \A q \in SignIns \ {r} : pc'[q] = pc[q] /\ account'[q] = account[q]
    BY <2>1 DEF Admit, WaitOver, Goto, IInv, TypeOK, Requests
  <2> QED
    BY <2>1, <2>2, <2>3, QuietCapInv
<1>3. CASE \E d \in Erasures : \/ LockImports(d) \/ EraseSessions(d) \/ EraseUser(d)
                                \/ ErasureFails(d) \/ \E s \in sessions : Authenticate(d, s)
  <2> SUFFICES UNCHANGED <<users, cap, overfull>>
               /\ \A r \in SignIns : pc'[r] = pc[r] /\ account'[r] = account[r]
    BY QuietCapInv
  <2> QED
    BY <1>3 DEF LockImports, EraseSessions, EraseUser, ErasureFails, Authenticate, Answer, Goto,
                IInv, TypeOK, Requests
<1>4. CASE \E s \in sessions : SignOut(s) \/ Expire(s)
  BY <1>4, QuietCapInv DEF SignOut, Expire, memory
<1>5. CASE UNCHANGED vars
  BY <1>5, QuietCapInv DEF vars, memory
<1>6. CASE \E r \in SignIns : CommitAdmission(r)
  BY <1>6, CommitAdmissionCapInv
<1>7. CASE \E d \in Erasures : CommitErasure(d)
  BY <1>7, CommitErasureCapInv
<1>8. CASE Restart
  BY <1>8, RestartCapInv
<1> QED
  BY <1>1, <1>2, <1>3, <1>4, <1>5, <1>6, <1>7, <1>8 DEF Next, SignInStep, ErasureStep

\* Whoever the cap has let in has room, whatever is deleted meanwhile.
THEOREM CapInvariant == Spec => [](IInv /\ CapInv)
<1>1. Init => IInv /\ CapInv
  <2> SUFFICES ASSUME Init PROVE CapInv
    BY InitIInv
  <2> QED
    BY AccountsAssumption, FS_EmptySet DEF Init, CapInv, Requests
<1> QED
  BY <1>1, StepIInv, StepCapInv, PTL DEF Spec

\* A new account is made below the cap, with any number of sign-ins and deletions
\* at once, except by who waited for the deletion of their own account while there
\* were more accounts than the cap.
THEOREM AdmissionsRespectTheCap == Spec => AdmittedBelowCap
<1> DEFINE Step == \A u \in users' \ users : cap = 0 \/ Cardinality(users) < cap \/ u \in overfull
<1>1. IInv /\ CapInv /\ [Next]_vars => [Step]_vars
  <2> SUFFICES ASSUME IInv, CapInv, Next, NEW u \in users' \ users
               PROVE cap = 0 \/ Cardinality(users) < cap \/ u \in overfull
    OBVIOUS
  <2>1. PICK r \in SignIns : CommitAdmission(r)
    BY DEF Next, SignInStep, ErasureStep, LockAdmission, Admit, WaitOver, AdmissionFails,
           CreateSession, CreateSessionFails, LockImports, EraseSessions, EraseUser,
                CommitErasure,
           ErasureFails, Authenticate, SignOut, Expire, Restart
  <2>2. PICK v \in SignIns : account[r] = {v}
    BY <2>1 DEF CommitAdmission, IInv, AccountInv
  <2>3. u = v /\ u = r
    BY <2>1, <2>2 DEF CommitAdmission, CapInv
  <2> QED
    BY <2>1, <2>2, <2>3 DEF CommitAdmission, CapInv, Room
<1> QED
  BY <1>1, CapInvariant, PTL DEF Spec, AdmittedBelowCap

=============================================================================
