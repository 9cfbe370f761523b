------------------------------- MODULE Accounts -------------------------------
(***************************************************************************)
(* Accounts and sessions under -auth oidc: CompleteSignIn, which admits a  *)
(* verified subject under the user cap and mints a session, SignOut, the   *)
(* deletion of an account, and restarts, at which the operator may change  *)
(* the cap.  The transactions run statement by statement, at READ          *)
(* COMMITTED: a statement sees what was committed when it started, and     *)
(* waits where it meets a row another transaction has changed.             *)
(*                                                                         *)
(* A sign-in makes at most one account and one session, so both are called *)
(* by the request that made them (newID and the token are random).         *)
(***************************************************************************)
EXTENDS Naturals, FiniteSets

CONSTANTS
    SignIns,        \* GET /auth/callback, the provider's answer verified
    Erasures,       \* DELETE /my-data
    Subjects,       \* the people, by the provider's subject
    SubjectOf,      \* sign-in |-> who signs in
    Caps,           \* the caps an operator sets, 0 for none
    Nobody,         \* nobody holds the lock
    MaxRestarts,    \* bound: restarts of the serve process
    MaxFaults       \* bound: refused statements

Requests == SignIns \union Erasures

ASSUME AccountsAssumption ==
    /\ SignIns \cap Erasures = {} /\ Nobody \notin Requests
    /\ SubjectOf \in [SignIns -> Subjects]
    /\ Caps \subseteq Nat /\ Caps # {}
    /\ MaxRestarts \in Nat /\ MaxFaults \in Nat

VARIABLES
    cap,            \* Server.UserCap
    users,          \* committed rows of users, by id
    sessions,       \* committed rows of sessions
    pc,             \* how far each request is
    admission,      \* the sign-in holding the advisory lock, or Nobody
    importMu,       \* the erasure holding Server.importMu, or Nobody
    account,        \* request |-> the user id it works with, as a set
    swept,          \* erasure |-> the tokens its statement has deleted
    restarts, faults,
    overfull        \* history: sign-ins that began to wait for the deletion of
                    \* their account while there were more accounts than the cap

memory == <<pc, admission, importMu, account, swept>>
vars == <<cap, users, sessions, memory, restarts, faults, overfull>>

Phases == {"idle", "admitting", "waiting", "admitted", "signed", "full",
           "authenticated", "erasing", "swept", "erased", "done"}
AtRest == {"idle", "full", "done"}

TypeOK ==
    /\ cap \in Caps
    /\ users \subseteq SignIns
    /\ sessions \subseteq [token : SignIns, user : SignIns, expired : BOOLEAN]
    /\ pc \in [Requests -> Phases]
    /\ admission \in SignIns \union {Nobody}
    /\ importMu \in Erasures \union {Nobody}
    /\ account \in [Requests -> SUBSET SignIns]
    /\ swept \in [Erasures -> SUBSET SignIns]
    /\ restarts \in 0 .. MaxRestarts /\ faults \in 0 .. MaxFaults
    /\ overfull \subseteq SignIns

Init ==
    /\ cap \in Caps
    /\ users = {} /\ sessions = {}
    /\ pc = [r \in Requests |-> "idle"]
    /\ admission = Nobody /\ importMu = Nobody
    /\ account = [r \in Requests |-> {}]
    /\ swept = [d \in Erasures |-> {}]
    /\ restarts = 0 /\ faults = 0 /\ overfull = {}

Goto(r, phase) == pc' = [pc EXCEPT ![r] = phase]

\* The handler returns, and what it knew is gone.
Answer(r) ==
    /\ Goto(r, "done")
    /\ account' = [account EXCEPT ![r] = {}]

Refused ==
    /\ faults < MaxFaults
    /\ faults' = faults + 1

-----------------------------------------------------------------------------
(* Rows and row locks. *)

AccountsOf(s) == {u \in users : SubjectOf[u] = s}

\* Rows of users deleted by a transaction that has not ended.
Condemned == UNION {account[d] : d \in {e \in Erasures : pc[e] = "erased"}}

\* Rows of users refreshed by a sign-in that has not committed.
Refreshing == UNION {account[r] : r \in {q \in SignIns : pc[q] = "admitted"}}

-----------------------------------------------------------------------------
(* UpsertOIDCUser, one transaction. *)

\* Mutation: first sign-ins are not serialised.
MutAdmissionFree == TRUE

AdmissionFree == admission = Nobody

\* pg_advisory_xact_lock.
LockAdmission(r) ==
    /\ r \in SignIns /\ pc[r] = "idle"
    /\ AdmissionFree
    /\ admission' = r
    /\ Goto(r, "admitting")
    /\ UNCHANGED <<cap, users, sessions, importMu, account, swept, restarts, faults, overfull>>

\* The WHERE clause of the insert.
Admits(r) ==
    \/ cap = 0
    \/ AccountsOf(SubjectOf[r]) # {}
    \/ Cardinality(users) < cap

\* Mutation: a refused sign-in keeps the lock.
MutEndAdmission == UNCHANGED admission

\* The transaction ends, and its advisory lock with it.
EndAdmission == admission' = Nobody

\* Every insert brings an id of its own.
NewId(r) == {r}

\* INSERT .. ON CONFLICT (oidc_subject) DO UPDATE: no row is an admission
\* refused; a row that is being deleted is waited for.
Admit(r) ==
    LET mine == AccountsOf(SubjectOf[r]) IN
    /\ r \in SignIns /\ pc[r] = "admitting"
    /\ \/ /\ ~Admits(r)
          /\ Goto(r, "full")
          /\ EndAdmission
          /\ UNCHANGED <<account, overfull>>
       \/ /\ Admits(r) /\ mine \cap Condemned # {}
          /\ Goto(r, "waiting")
          /\ overfull' = IF cap # 0 /\ Cardinality(users) > cap
                          THEN overfull \union {r} ELSE overfull
          /\ UNCHANGED <<admission, account>>
       \/ /\ Admits(r) /\ mine \cap Condemned = {}
          /\ account' = [account EXCEPT ![r] = IF mine = {} THEN NewId(r) ELSE mine]
          /\ Goto(r, "admitted")
          /\ UNCHANGED <<admission, overfull>>
    /\ UNCHANGED <<cap, users, sessions, importMu, swept, restarts, faults>>

\* The deletion has ended.  If it went through nothing conflicts any more, and
\* the row is inserted; the WHERE clause is not evaluated again.
WaitOver(r) ==
    LET mine == AccountsOf(SubjectOf[r]) IN
    /\ r \in SignIns /\ pc[r] = "waiting"
    /\ mine \cap Condemned = {}
    /\ account' = [account EXCEPT ![r] = IF mine = {} THEN NewId(r) ELSE mine]
    /\ Goto(r, "admitted")
    /\ UNCHANGED <<cap, users, sessions, admission, importMu, swept, restarts, faults, overfull>>

CommitAdmission(r) ==
    /\ r \in SignIns /\ pc[r] = "admitted"
    /\ users' = users \union account[r]
    /\ EndAdmission
    /\ Goto(r, "signed")
    /\ UNCHANGED <<cap, sessions, importMu, account, swept, restarts, faults, overfull>>

AdmissionFails(r) ==
    /\ r \in SignIns /\ pc[r] \in {"admitting", "waiting", "admitted"}
    /\ Refused
    /\ EndAdmission
    /\ Answer(r)
    /\ UNCHANGED <<cap, users, sessions, importMu, swept, restarts, overfull>>

\* The foreign key of sessions, looked at when its row is inserted.
UserStands(r) == account[r] \subseteq users

\* CreateSession, a statement of its own: it waits for a deletion of its user.
CreateSession(r) ==
    /\ r \in SignIns /\ pc[r] = "signed"
    /\ account[r] \cap Condemned = {}
    /\ UserStands(r)
    /\ sessions' = sessions \union [token : {r}, user : account[r], expired : {FALSE}]
    /\ Answer(r)
    /\ UNCHANGED <<cap, users, admission, importMu, swept, restarts, faults, overfull>>

CreateSessionFails(r) ==
    /\ r \in SignIns /\ pc[r] = "signed"
    /\ \/ ~UserStands(r) /\ UNCHANGED faults
       \/ Refused
    /\ Answer(r)
    /\ UNCHANGED <<cap, users, sessions, admission, importMu, swept, restarts, overfull>>

\* SignOut: the row goes, unless a deletion has it already.
SignOut(s) ==
    /\ s \in sessions /\ s.user \notin Condemned
    /\ \A d \in Erasures : s.token \notin swept[d]
    /\ sessions' = sessions \ {s}
    /\ UNCHANGED <<cap, users, memory, restarts, faults, overfull>>

\* Thirty days go by.
Expire(s) ==
    /\ s \in sessions /\ ~s.expired
    /\ sessions' = (sessions \ {s}) \union {[s EXCEPT !.expired = TRUE]}
    /\ UNCHANGED <<cap, users, memory, restarts, faults, overfull>>

-----------------------------------------------------------------------------
(* DeleteMyData, by whoever has a live session. *)

\* AuthMiddleware: the cookie becomes a user id, once, at the start.
Authenticate(d, s) ==
    /\ d \in Erasures /\ pc[d] = "idle"
    /\ s \in sessions /\ ~s.expired
    /\ account' = [account EXCEPT ![d] = {s.user}]
    /\ Goto(d, "authenticated")
    /\ UNCHANGED <<cap, users, sessions, admission, importMu, swept, restarts, faults, overfull>>

\* importMu.TryLock, or 409.
LockImports(d) ==
    /\ d \in Erasures /\ pc[d] = "authenticated"
    /\ \/ importMu = Nobody /\ importMu' = d /\ Goto(d, "erasing") /\ UNCHANGED account
       \/ importMu # Nobody /\ UNCHANGED importMu /\ Answer(d)
    /\ UNCHANGED <<cap, users, sessions, admission, swept, restarts, faults, overfull>>

\* The last of UserDataTables: the sessions there are at this moment.
EraseSessions(d) ==
    /\ d \in Erasures /\ pc[d] = "erasing"
    /\ swept' = [swept EXCEPT ![d] = {s.token : s \in {t \in sessions : t.user \in account[d]}}]
    /\ Goto(d, "swept")
    /\ UNCHANGED <<cap, users, sessions, admission, importMu, account, restarts, faults, overfull>>

\* DELETE FROM users, which waits for a sign-in that has refreshed the row.
EraseUser(d) ==
    /\ d \in Erasures /\ pc[d] = "swept"
    /\ account[d] \cap Refreshing = {}
    /\ Goto(d, "erased")
    /\ UNCHANGED <<cap, users, sessions, admission, importMu, account, swept, restarts, faults, overfull>>

\* Mutation: a session minted since the statement that deletes them stays.
MutCascades(d) == {s \in sessions : s.token \in swept[d]}

\* sessions.user_id is ON DELETE CASCADE.
Cascades(d) == {s \in sessions : s.user \in account[d]}

CommitErasure(d) ==
    /\ d \in Erasures /\ pc[d] = "erased"
    /\ users' = users \ account[d]
    /\ sessions' = sessions \ Cascades(d)
    /\ swept' = [swept EXCEPT ![d] = {}]
    /\ importMu' = Nobody
    /\ Answer(d)
    /\ UNCHANGED <<cap, admission, restarts, faults, overfull>>

ErasureFails(d) ==
    /\ d \in Erasures /\ pc[d] \in {"erasing", "swept", "erased"}
    /\ Refused
    /\ swept' = [swept EXCEPT ![d] = {}]
    /\ importMu' = Nobody
    /\ Answer(d)
    /\ UNCHANGED <<cap, users, sessions, admission, restarts, overfull>>

-----------------------------------------------------------------------------

\* The process dies with its requests, whose transactions roll back, and
\* comes up again, perhaps with another cap; runServe sweeps what has expired.
Restart ==
    /\ restarts < MaxRestarts
    /\ restarts' = restarts + 1
    /\ cap' \in Caps
    /\ sessions' = {s \in sessions : ~s.expired}
    /\ pc' = [r \in Requests |-> IF pc[r] \in AtRest THEN pc[r] ELSE "done"]
    /\ account' = [r \in Requests |-> {}]
    /\ admission' = Nobody /\ importMu' = Nobody
    /\ swept' = [d \in Erasures |-> {}]
    /\ UNCHANGED <<users, faults, overfull>>

SignInStep(r) ==
    \/ Admit(r) \/ WaitOver(r) \/ CommitAdmission(r) \/ AdmissionFails(r)
    \/ CreateSession(r) \/ CreateSessionFails(r)

ErasureStep(d) ==
    \/ LockImports(d) \/ EraseSessions(d) \/ EraseUser(d)
    \/ CommitErasure(d) \/ ErasureFails(d)

Next ==
    \/ \E r \in SignIns : LockAdmission(r) \/ SignInStep(r)
    \/ \E d \in Erasures : ErasureStep(d) \/ \E s \in sessions : Authenticate(d, s)
    \/ \E s \in sessions : SignOut(s) \/ Expire(s)
    \/ Restart

Spec == Init /\ [][Next]_vars

\* A handler goes on running; a request in line for the lock gets it in turn.
FairSpec ==
    /\ Spec
    /\ \A r \in SignIns : WF_vars(LockAdmission(r)) /\ WF_vars(SignInStep(r))
    /\ \A d \in Erasures : WF_vars(ErasureStep(d))

-----------------------------------------------------------------------------
(* Properties. *)

\* "A NEW subject is admitted only while the count of OIDC accounts is below"
\* the cap, whoever signs in or deletes an account at the same time.  Only where
\* the operator lowered the cap below the count may a person come in at the cap:
\* one who was let in as returning while that account was being deleted.
\* (sessions.go:36-64)
AdmittedBelowCap ==
    [][\A u \in users' \ users : cap = 0 \/ Cardinality(users) < cap \/ u \in overfull]_vars

\* Every session opens the one account of the person who signed in for it:
\* not an account that is deleted, and not a second one of the same person.
SessionsOpenTheirAccount ==
    \A s \in sessions : AccountsOf(SubjectOf[s.token]) = {s.user}

\* Nobody waits for ever: not the sign-in that holds the admission lock and
\* waits for a deletion, not those in line behind it, not the deletion.
EveryoneAnswered ==
    /\ \A r \in SignIns : pc[r] = "idle" ~> pc[r] \in AtRest \ {"idle"}
    /\ \A d \in Erasures : pc[d] = "authenticated" ~> pc[d] \in AtRest
=============================================================================
