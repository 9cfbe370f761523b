---------------------------- MODULE ImportLedger ----------------------------
(***************************************************************************)
(* What the imports table promises its readers, whoever writes it: the     *)
(* abstract specification that ImportPipeline is shown to implement.       *)
(*                                                                         *)
(* One attempt is one row.  A row is 'running' once, is finalised once,    *)
(* and leaves the table only when its owner deletes everything they own.   *)
(* The observations an attempt carries appear in the owner's stored        *)
(* history at the very step that finalises the row to 'completed', and     *)
(* at no other step.                                                       *)
(*                                                                         *)
(* A deletion takes its time.  What stood when it began goes, all of it;   *)
(* of what came meanwhile it takes some rows and some observations, but    *)
(* never an observation of a completed row that it leaves.                 *)
(***************************************************************************)
CONSTANTS
    Imports,        \* attempts to import something
    Deletions,
    Users,
    Observations,   \* visits, activities, path points, raw positions, photo records
    OwnerOf,        \* the user an attempt or a deletion belongs to
    Carries         \* the observations an attempt carries

VARIABLES
    rowStatus,      \* the imports row of every attempt
    history,        \* the observations stored for every user
    standing,       \* deletion |-> whether it is under way, and what stood when it began
    beside          \* attempts completed while a deletion of their owner was under way

ledgerVars == <<rowStatus, history, standing, beside>>

Over == [on |-> FALSE, rows |-> {}, seen |-> {}]

LedgerInit ==
    /\ rowStatus = [i \in Imports |-> "none"]
    /\ history = [u \in Users |-> {}]
    /\ standing = [d \in Deletions |-> Over]
    /\ beside = {}

RowsThere(u) ==
    {i \in Imports : OwnerOf[i] = u /\ rowStatus[i] \notin {"none", "deleted"}}

\* The attempt is recorded before anything of it is parsed.
Begin(i) ==
    /\ rowStatus[i] = "none"
    /\ rowStatus' = [rowStatus EXCEPT ![i] = "running"]
    /\ UNCHANGED <<history, standing, beside>>

\* Status and observations land together or not at all.
Complete(i) ==
    /\ rowStatus[i] = "running"
    /\ rowStatus' = [rowStatus EXCEPT ![i] = "completed"]
    /\ history' = [history EXCEPT ![OwnerOf[i]] = @ \union Carries[i]]
    /\ beside' = IF \E d \in Deletions : OwnerOf[d] = OwnerOf[i] /\ standing[d].on
                 THEN beside \union {i} ELSE beside
    /\ UNCHANGED standing

\* Some running attempts fail at once: one by its own error, or every one
\* of them when the server restarts.
Fail(F) ==
    /\ \A i \in F : rowStatus[i] = "running"
    /\ rowStatus' = [i \in Imports |->
                        IF i \in F THEN "failed" ELSE rowStatus[i]]
    /\ UNCHANGED <<history, standing, beside>>

\* A user begins to delete everything they own.
BeginErase(d) ==
    /\ ~standing[d].on
    /\ standing' = [standing EXCEPT ![d] =
            [on |-> TRUE, rows |-> RowsThere(OwnerOf[d]), seen |-> history[OwnerOf[d]]]]
    /\ UNCHANGED <<rowStatus, history, beside>>

\* It is done: the rows E and all observations but `left` are gone.
Erase(d, E, left) ==
    LET u == OwnerOf[d] IN
    /\ standing[d].on
    /\ standing[d].rows \subseteq E /\ E \subseteq RowsThere(u)
    /\ left \subseteq history[u] \ standing[d].seen
    /\ \A i \in RowsThere(u) \ E : rowStatus[i] = "completed" => Carries[i] \subseteq left
    /\ rowStatus' = [i \in Imports |-> IF i \in E THEN "deleted" ELSE rowStatus[i]]
    /\ history' = [history EXCEPT ![u] = left]
    /\ standing' = [standing EXCEPT ![d] = Over]
    /\ UNCHANGED beside

\* Some deletions fail, and have deleted nothing.
Abandon(D) ==
    /\ standing' = [d \in Deletions |-> IF d \in D THEN Over ELSE standing[d]]
    /\ UNCHANGED <<rowStatus, history, beside>>

LedgerNext ==
    \/ \E i \in Imports : Begin(i) \/ Complete(i)
    \/ \E F \in SUBSET Imports : Fail(F)
    \/ \E d \in Deletions :
        \/ BeginErase(d)
        \/ \E E \in SUBSET Imports, left \in SUBSET Observations : Erase(d, E, left)
    \/ \E D \in SUBSET Deletions : Abandon(D)

LedgerSpec == LedgerInit /\ [][LedgerNext]_ledgerVars

-----------------------------------------------------------------------------

\* What a completed import carried is stored; and what is stored was carried by
\* an import that is shown as completed, or by one that was completed while a
\* deletion was going through the tables: of such a one the row may be gone and
\* observations may stay.  No failed attempt leaves any.
HistoryIsCompleted ==
    /\ \A i \in Imports : rowStatus[i] = "completed" => Carries[i] \subseteq history[OwnerOf[i]]
    /\ \A u \in Users : \A o \in history[u] :
        \E i \in Imports : /\ OwnerOf[i] = u /\ o \in Carries[i]
                           /\ rowStatus[i] = "completed" \/ i \in beside
=============================================================================
