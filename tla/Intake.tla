--------------------------------- MODULE Intake --------------------------------
(***************************************************************************)
(* What imports and a deletion do to one user's tables, statement by       *)
(* statement.  An import run from the terminal takes no lock: its imports  *)
(* row is committed first, its observations are inserted in one            *)
(* transaction, each unless its hash is there, and the same transaction    *)
(* completes the row (store/observations.go).  A photo import does the     *)
(* same under importMu (store/photo_records.go).  The deletion of the      *)
(* user's data, under importMu too, goes through the tables one DELETE at  *)
(* a time in one transaction (store/deletion.go).  PostgreSQL runs them at *)
(* READ COMMITTED: a statement sees what is committed, and waits for the   *)
(* transaction that has put its hands on a row it wants.                   *)
(***************************************************************************)
EXTENDS Naturals, FiniteSets, Sequences

CONSTANTS
    Cli,            \* imports run from the terminal
    Photos,         \* photo imports, which come in over HTTP
    Rows,           \* [table, obs, off]: an observation, and the offsets it is written in
    Free,           \* importMu is free
    Eraser,         \* the deletion
    MaxErasures,    \* bound: deletions
    MaxFaults       \* bound: processes killed, and deletions that fail

Importers == Cli \union Photos

ObservationTables == {"photo_records", "raw_positions", "path_points", "activities", "visits"}

ASSUME IntakeAssumption ==
    /\ Cli \intersect Photos = {}
    /\ Free \notin Importers \union {Eraser} /\ Eraser \notin Importers
    /\ \A r \in Rows : r.table \in ObservationTables
    /\ MaxErasures \in Nat /\ MaxFaults \in Nat

VARIABLES
    stored,         \* the committed observations and photo records
    imports,        \* the committed imports row of each import, or "none"
    pc,             \* where each import is
    brings,         \* the rows an import found in its file
    todo,           \* those it has not sent yet, in order
    mine,           \* the rows its transaction has inserted
    importMu,       \* who holds the lock
    erased,         \* how many tables the deletion is past; 0 when there is none
    doomed,         \* the rows the deletion's transaction has deleted
    condemned,      \* the imports rows it has deleted
    erasures, faults,
    standing        \* history: what was stored when the deletion began

erasure == <<erased, doomed, condemned, erasures, standing>>
rows == <<brings, todo, mine>>
vars == <<stored, imports, pc, rows, importMu, erasure, faults>>

\* Mutation: the imports go before what they brought.
MutImportsFirst ==
    <<"photo_records", "imports", "raw_positions", "path_points", "activities", "visits">>

\* Mutation: a table added later is missing from the list.
MutForgotten == <<"photo_records", "raw_positions", "activities", "visits", "imports">>

\* The tables the deletion goes through, in the order it names them; those the
\* imports never write are left out.
UserDataTables ==
    <<"photo_records", "raw_positions", "path_points", "activities", "visits", "imports">>

\* Mutation: the time is hashed as written, with its offset.
MutHashOf(r) == <<r.table, r.obs, r.off>>

\* What the unique index is on: the observation in UTC.
HashOf(r) == <<r.table, r.obs>>

Hashes(S) == {HashOf(r) : r \in S}

States == {"idle", "begun", "inserting", "finalised", "failing", "done", "dead"}

TypeOK ==
    /\ stored \subseteq Rows /\ doomed \subseteq stored
    /\ imports \in [Importers -> {"none", "running", "completed", "failed"}]
    /\ pc \in [Importers -> States]
    /\ brings \in [Importers -> SUBSET Rows]
    /\ todo \in [Importers -> Seq(Rows)]
    /\ mine \in [Importers -> SUBSET Rows]
    /\ importMu \in Photos \union {Free, Eraser}
    /\ erased \in 0 .. Len(UserDataTables) + 1
    /\ condemned \subseteq Importers /\ standing \subseteq Rows
    /\ erasures \in Nat /\ faults \in Nat

Init ==
    /\ stored = {} /\ doomed = {} /\ condemned = {} /\ standing = {}
    /\ imports = [i \in Importers |-> "none"]
    /\ pc = [i \in Importers |-> "idle"]
    /\ brings = [i \in Importers |-> {}]
    /\ todo = [i \in Importers |-> <<>>]
    /\ mine = [i \in Importers |-> {}]
    /\ importMu = Free
    /\ erased = 0 /\ erasures = 0 /\ faults = 0

-----------------------------------------------------------------------------
(* An import. *)

\* The imports row, running, in a transaction of its own.
BeginImport(i) ==
    /\ pc[i] = "idle"
    /\ i \in Photos => importMu = Free
    /\ importMu' = IF i \in Photos THEN i ELSE importMu
    /\ imports' = [imports EXCEPT ![i] = "running"]
    /\ pc' = [pc EXCEPT ![i] = "begun"]
    /\ UNCHANGED <<stored, rows, erasure, faults>>

\* The file was read and found to hold these rows, to be sent in this order.
Found(i, s) ==
    /\ pc[i] = "begun"
    /\ brings' = [brings EXCEPT ![i] = {s[k] : k \in 1 .. Len(s)}]
    /\ todo' = [todo EXCEPT ![i] = s]
    /\ pc' = [pc EXCEPT ![i] = "inserting"]
    /\ UNCHANGED <<stored, imports, mine, importMu, erasure, faults>>

\* The file was not one to import.
Unsupported(i) ==
    /\ pc[i] = "begun"
    /\ pc' = [pc EXCEPT ![i] = "failing"]
    /\ UNCHANGED <<stored, imports, rows, importMu, erasure, faults>>

Holder(h) == {j \in Importers : h \in Hashes(mine[j])}

\* The transactions the next insert of i has to wait for: an import that has
\* inserted the hash already, or the deletion, when it has deleted its row.
InsertWaitsFor(i) ==
    IF pc[i] # "inserting" \/ todo[i] = <<>> THEN {}
    ELSE LET h == HashOf(Head(todo[i])) IN
         (Holder(h) \ {i}) \union (IF h \in Hashes(doomed) THEN {Eraser} ELSE {})

\* INSERT ... ON CONFLICT DO NOTHING.
Insert(i) ==
    /\ pc[i] = "inserting" /\ todo[i] # <<>>
    /\ InsertWaitsFor(i) = {}
    /\ LET r == Head(todo[i]) IN
        mine' = IF HashOf(r) \in Hashes(stored \union mine[i]) THEN mine
                ELSE [mine EXCEPT ![i] = @ \union {r}]
    /\ todo' = [todo EXCEPT ![i] = Tail(@)]
    /\ UNCHANGED <<stored, imports, pc, brings, importMu, erasure, faults>>

RollBack(i) ==
    /\ mine' = [mine EXCEPT ![i] = {}]
    /\ todo' = [todo EXCEPT ![i] = <<>>]

\* Imports that wait for one another in a ring: one of them is told.
Deadlocked(i) ==
    /\ \E S \in SUBSET Importers :
        /\ i \in S
        /\ \A j \in S : /\ InsertWaitsFor(j) \intersect S # {}
                        /\ \E k \in S : j \in InsertWaitsFor(k)
    /\ RollBack(i)
    /\ pc' = [pc EXCEPT ![i] = "failing"]
    /\ UNCHANGED <<stored, imports, brings, importMu, erasure, faults>>

\* UPDATE imports ... WHERE status = 'running': it waits for a deletion that
\* has the row, and an import whose row is gone is rolled back.
Finalise(i) ==
    /\ pc[i] = "inserting" /\ todo[i] = <<>>
    /\ i \notin condemned
    /\ \/ /\ imports[i] = "running"
          /\ pc' = [pc EXCEPT ![i] = "finalised"]
          /\ UNCHANGED rows
       \/ /\ imports[i] # "running"
          /\ RollBack(i)
          /\ pc' = [pc EXCEPT ![i] = "failing"]
          /\ UNCHANGED brings
    /\ UNCHANGED <<stored, imports, importMu, erasure, faults>>

Unlock(i) == importMu' = IF importMu = i THEN Free ELSE importMu

Commit(i) ==
    /\ pc[i] = "finalised"
    /\ stored' = stored \union mine[i]
    /\ mine' = [mine EXCEPT ![i] = {}]
    /\ imports' = [imports EXCEPT ![i] = "completed"]
    /\ pc' = [pc EXCEPT ![i] = "done"]
    /\ Unlock(i)
    /\ UNCHANGED <<brings, todo, erasure, faults>>

\* UPDATE imports SET status = 'failed', of the row that is there.
FailImport(i) ==
    /\ pc[i] = "failing"
    /\ i \notin condemned
    /\ imports' = [imports EXCEPT ![i] = IF @ = "none" THEN @ ELSE "failed"]
    /\ pc' = [pc EXCEPT ![i] = "done"]
    /\ Unlock(i)
    /\ UNCHANGED <<stored, rows, erasure, faults>>

\* The process ends, by a panic or from outside; its row is left running.
Dies(i) ==
    /\ RollBack(i)
    /\ pc' = [pc EXCEPT ![i] = "dead"]
    /\ UNCHANGED <<stored, imports, brings, importMu, erasure>>

Panic(i) == i \in Cli /\ pc[i] = "begun" /\ Dies(i) /\ UNCHANGED faults

Kill(i) ==
    /\ i \in Cli /\ faults < MaxFaults
    /\ pc[i] \in {"begun", "inserting", "finalised", "failing"}
    /\ Dies(i)
    /\ faults' = faults + 1

-----------------------------------------------------------------------------
(* The deletion. *)

\* Mutation: the imports row is updated before the observations go in.
MutHoldsRow(i) == pc[i] \in {"inserting", "finalised"}

\* The import's transaction has its imports row.
HoldsRow(i) == pc[i] = "finalised"

BeginErasure ==
    /\ importMu = Free /\ erasures < MaxErasures
    /\ importMu' = Eraser
    /\ erased' = 1
    /\ erasures' = erasures + 1
    /\ standing' = stored
    /\ UNCHANGED <<stored, imports, pc, rows, doomed, condemned, faults>>

\* The imports the next statement has to wait for.
ErasureWaitsFor ==
    IF erased \in 1 .. Len(UserDataTables) /\ UserDataTables[erased] = "imports"
    THEN {i \in Importers : HoldsRow(i)} ELSE {}

\* DELETE FROM <table> WHERE user_id = $1.
EraseTable ==
    /\ erased \in 1 .. Len(UserDataTables)
    /\ ErasureWaitsFor = {}
    /\ IF UserDataTables[erased] = "imports"
       THEN condemned' = {i \in Importers : imports[i] # "none"} /\ UNCHANGED doomed
       ELSE doomed' = doomed \union {r \in stored : r.table = UserDataTables[erased]}
            /\ UNCHANGED condemned
    /\ erased' = erased + 1
    /\ UNCHANGED <<stored, imports, pc, rows, importMu, erasures, faults, standing>>

EndErasure ==
    /\ erased' = 0 /\ doomed' = {} /\ condemned' = {} /\ standing' = {}
    /\ importMu' = Free
    /\ UNCHANGED <<pc, rows, erasures>>

CommitErasure ==
    /\ erased = Len(UserDataTables) + 1
    /\ stored' = stored \ doomed
    /\ imports' = [i \in Importers |-> IF i \in condemned THEN "none" ELSE imports[i]]
    /\ EndErasure
    /\ UNCHANGED faults

ErasureFails ==
    /\ erased > 0 /\ faults < MaxFaults
    /\ faults' = faults + 1
    /\ EndErasure
    /\ UNCHANGED <<stored, imports>>

-----------------------------------------------------------------------------
\* One statement of an import past its file, or its end.
ImportStep(i) ==
    Insert(i) \/ Deadlocked(i) \/ Finalise(i) \/ Commit(i) \/ FailImport(i) \/ Kill(i)

ErasureStep == BeginErasure \/ EraseTable \/ CommitErasure \/ ErasureFails

\* One of each row a file may hold, whatever the files are: the module that
\* composes this one with the parsers says what a file holds.
Next ==
    \/ \E i \in Importers : BeginImport(i) \/ Unsupported(i) \/ Panic(i) \/ ImportStep(i)
    \/ \E i \in Importers : \E s \in Seq(Rows) : Found(i, s)
    \/ ErasureStep

Spec == Init /\ [][Next]_vars

-----------------------------------------------------------------------------
(* Properties. *)

\* An import that is shown as completed has all its observations stored, its
\* own or an earlier one's: a deletion that is under way takes the import when
\* it takes any of them.  (observations.go:78-80)
CompletedIsWhole ==
    \A i \in Importers : imports[i] = "completed" => Hashes(brings[i]) \subseteq Hashes(stored)

\* An observation is stored once, in however many offsets, files and imports
\* it comes.  (observations.go:74-77, 379-382)
StoredOnce ==
    \A r, s \in stored : r.table = s.table /\ r.obs = s.obs => r = s

\* The deletion and an import never wait for each other in a ring: only
\* imports do.  (deletion.go:57-63, observations.go:117-166)
ErasureNeverDeadlocks ==
    LET WaitsFor(x) ==
            IF x = Eraser THEN ErasureWaitsFor
            ELSE InsertWaitsFor(x) \union
                 (IF pc[x] \in {"inserting", "failing"} /\ todo[x] = <<>> /\ x \in condemned
                  THEN {Eraser} ELSE {})
    IN  ~\E S \in SUBSET (Importers \union {Eraser}) :
            /\ Eraser \in S
            /\ \A x \in S : /\ WaitsFor(x) \intersect S # {}
                            /\ \E y \in S : x \in WaitsFor(y)

\* A deletion that commits leaves nothing of what was stored when it began.
\* (deletion.go:29-33)
ErasedIsGone == [][CommitErasure => stored' \intersect standing = {}]_vars
=============================================================================
