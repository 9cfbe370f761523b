------------------------------ MODULE IntakeProofs ------------------------------
(***************************************************************************)
(* What a deletion beside any number of imports of any files keeps true;   *)
(* that it does so when the files are read as the parsers read them; and   *)
(* what a batch of photos comes to.                                        *)
(***************************************************************************)
EXTENDS MCIntake, FiniteSetTheorems, SequenceTheorems, NaturalsInduction, TLAPS

Elements(s) == {s[k] : k \in 1 .. Len(s)}

\* The import's rows so far are in its transaction, or count on rows stored.
Underway(i) == pc[i] \in {"inserting", "finalised"} \/ imports[i] = "completed"

\* An import's transaction is open only while it inserts and finalises; its
\* row is then there and running, unless the deletion took it.
Phases ==
    /\ \A i \in Importers :
        /\ pc[i] \in {"idle", "begun"} => brings[i] = {}
        /\ mine[i] # {} => pc[i] \in {"inserting", "finalised"}
        /\ todo[i] # <<>> => pc[i] = "inserting"
        /\ pc[i] = "finalised" => imports[i] = "running" /\ i \notin condemned
        /\ imports[i] = "completed" => pc[i] = "done"
    /\ erased <= 6 => condemned = {}
    /\ erased = 0 => doomed = {}
    /\ erased # 0 => importMu = Eraser

\* Two transactions never hold one hash, nor one that is stored.
Once ==
    /\ \A r, s \in stored : HashOf(r) = HashOf(s) => r = s
    /\ \A i \in Importers : \A r \in mine[i] :
        /\ \A s \in mine[i] : HashOf(r) = HashOf(s) => r = s
        /\ \A s \in stored : HashOf(r) # HashOf(s)
        /\ \A j \in Importers \ {i} : \A s \in mine[j] : HashOf(r) # HashOf(s)

\* What an import has sent is stored, or will be when it commits.
Secured ==
    \A i \in Importers : Underway(i) /\ imports[i] # "none" =>
        \A r \in brings[i] \ Elements(todo[i]) : HashOf(r) \in Hashes(stored \union mine[i])

\* Once the deletion is past the imports, it has taken every import that
\* counts on a row it has deleted.
Condemning ==
    erased = 7 =>
        \A i \in Importers \ condemned : Underway(i) /\ imports[i] # "none" =>
            \A r \in brings[i] \ Elements(todo[i]) : HashOf(r) \notin Hashes(doomed)

\* The deletion has gone through what was stored when it began, as far as it
\* has come, and nobody else removes any of it.
Reached ==
    /\ erased # 0 => standing \subseteq stored
    /\ \A k \in 1 .. 5 : k < erased =>
        \A r \in standing : r.table = UserDataTables[k] => r \in doomed

IInv == TypeOK /\ Phases /\ Once /\ Secured /\ Condemning /\ Reached

-----------------------------------------------------------------------------

LEMMA Tables ==
    /\ Len(UserDataTables) = 6
    /\ UserDataTables[6] = "imports"
    /\ \A k \in 1 .. 5 : UserDataTables[k] # "imports"
    /\ \A t \in ObservationTables : \E k \in 1 .. 5 : UserDataTables[k] = t
BY DEF UserDataTables, ObservationTables

LEMMA SendsTheHead ==
    ASSUME NEW S, NEW s \in Seq(S), s # <<>>
    PROVE  /\ Head(s) \in S /\ Head(s) \in Elements(s)
           /\ Tail(s) \in Seq(S)
           /\ \A x \in Elements(s) : x = Head(s) \/ x \in Elements(Tail(s))
<1>1. Head(s) = s[1] /\ 1 \in 1 .. Len(s) /\ s[1] \in S
  OBVIOUS
<1>2. Tail(s) \in Seq(S) /\ Len(Tail(s)) = Len(s) - 1
  OBVIOUS
<1>3. \A k \in 1 .. Len(s) : k # 1 => k - 1 \in 1 .. Len(Tail(s)) /\ Tail(s)[k - 1] = s[k]
  BY <1>2
<1> QED
  BY <1>1, <1>2, <1>3 DEF Elements

LEMMA HashesUnion ==
    ASSUME NEW S, NEW U, NEW h
    PROVE  h \in Hashes(S \union U) <=> h \in Hashes(S) \/ h \in Hashes(U)
BY DEF Hashes

LEMMA HashesGrow ==
    ASSUME NEW S, NEW U, S \subseteq U
    PROVE  Hashes(S) \subseteq Hashes(U)
BY DEF Hashes

LEMMA InitIInv == Init => IInv
<1> SUFFICES ASSUME Init PROVE IInv
  OBVIOUS
<1> USE IntakeAssumption DEF Init
<1>1. TypeOK
  BY Tables DEF TypeOK, States
<1> QED
  BY <1>1 DEF IInv, Phases, Once, Secured, Condemning, Reached, Underway

LEMMA BeginImportIInv == ASSUME IInv, NEW i \in Importers, BeginImport(i) PROVE IInv'
<1> USE IntakeAssumption, Tables DEF IInv, BeginImport, rows, erasure
<1>1. TypeOK'
  BY DEF TypeOK, States
<1>2. Phases'
  BY DEF Phases, TypeOK
<1>3. Once'
  BY DEF Once, TypeOK
<1>4. Secured'
  <2> SUFFICES ASSUME NEW j \in Importers, Underway(j)', imports'[j] # "none",
                      NEW r \in brings'[j] \ Elements(todo'[j])
               PROVE  HashOf(r) \in Hashes(stored' \union mine'[j])
    BY DEF Secured
  <2>1. Underway(j) /\ imports[j] # "none" /\ r \in brings[j] \ Elements(todo[j])
    BY DEF Underway, TypeOK, Phases
  <2>2. HashOf(r) \in Hashes(stored \union mine[j])
    BY <2>1 DEF Secured
  <2> QED
    BY <2>2
<1>5. Condemning'
  BY DEF Condemning, Underway, Phases, TypeOK
<1>6. Reached'
  BY DEF Reached
<1> QED
  BY <1>1, <1>2, <1>3, <1>4, <1>5, <1>6

LEMMA FoundIInv == ASSUME IInv, NEW i \in Importers, NEW s \in Seq(Rows), Found(i, s) PROVE IInv'
<1> USE IntakeAssumption, Tables DEF IInv, Found, rows, erasure
<1>1. TypeOK'
  BY DEF TypeOK, States
<1>2. Phases'
  BY DEF Phases, TypeOK
<1>3. Once'
  BY DEF Once, TypeOK
<1>4. Secured'
  <2> SUFFICES ASSUME NEW j \in Importers, Underway(j)', imports'[j] # "none",
                      NEW r \in brings'[j] \ Elements(todo'[j])
               PROVE  HashOf(r) \in Hashes(stored' \union mine'[j])
    BY DEF Secured
  <2>1. CASE j = i
    <3>1. brings'[j] = Elements(s) /\ todo'[j] = s
      BY <2>1 DEF TypeOK, Elements
    <3> QED
      BY <3>1
  <2>2. CASE j # i
    BY <2>2 DEF Secured, Underway, TypeOK
  <2> QED
    BY <2>1, <2>2
<1>5. Condemning'
  <2> SUFFICES ASSUME erased = 7, NEW j \in Importers \ condemned, Underway(j)', imports'[j] # "none",
                      NEW r \in brings'[j] \ Elements(todo'[j])
               PROVE  HashOf(r) \notin Hashes(doomed)
    BY DEF Condemning
  <2>1. CASE j = i
    <3>1. brings'[j] = Elements(s) /\ todo'[j] = s
      BY <2>1 DEF TypeOK, Elements
    <3> QED
      BY <3>1
  <2>2. CASE j # i
    BY <2>2 DEF Condemning, Underway, TypeOK
  <2> QED
    BY <2>1, <2>2
<1>6. Reached'
  BY DEF Reached
<1> QED
  BY <1>1, <1>2, <1>3, <1>4, <1>5, <1>6

LEMMA UnsupportedIInv == ASSUME IInv, NEW i \in Importers, Unsupported(i) PROVE IInv'
<1> USE IntakeAssumption, Tables DEF IInv, Unsupported, rows, erasure
<1>1. TypeOK'
  BY DEF TypeOK, States
<1>2. Phases'
  BY DEF Phases, TypeOK
<1>3. Once'
  BY DEF Once, TypeOK
<1>4. Secured'
  <2> SUFFICES ASSUME NEW j \in Importers, Underway(j)', imports'[j] # "none",
                      NEW r \in brings'[j] \ Elements(todo'[j])
               PROVE  HashOf(r) \in Hashes(stored' \union mine'[j])
    BY DEF Secured
  <2>1. Underway(j) /\ imports[j] # "none" /\ r \in brings[j] \ Elements(todo[j])
    BY DEF Underway, TypeOK, Phases
  <2>2. HashOf(r) \in Hashes(stored \union mine[j])
    BY <2>1 DEF Secured
  <2> QED
    BY <2>2
<1>5. Condemning'
  BY DEF Condemning, Underway, Phases, TypeOK
<1>6. Reached'
  BY DEF Reached
<1> QED
  BY <1>1, <1>2, <1>3, <1>4, <1>5, <1>6

LEMMA DeadlockedIInv == ASSUME IInv, NEW i \in Importers, Deadlocked(i) PROVE IInv'
<1>0. /\ pc[i] = "inserting" /\ RollBack(i)
      /\ pc' = [pc EXCEPT ![i] = "failing"]
      /\ UNCHANGED <<stored, imports, brings, importMu, erasure, faults>>
  BY DEF Deadlocked, InsertWaitsFor
<1> USE <1>0, IntakeAssumption, Tables DEF IInv, RollBack, erasure
<1>1. TypeOK'
  BY DEF TypeOK, States
<1>2. Phases'
  BY DEF Phases, TypeOK
<1>3. Once'
  BY DEF Once, TypeOK
<1>4. Secured'
  <2> SUFFICES ASSUME NEW j \in Importers, Underway(j)', imports'[j] # "none",
                      NEW r \in brings'[j] \ Elements(todo'[j])
               PROVE  HashOf(r) \in Hashes(stored' \union mine'[j])
    BY DEF Secured
  <2>1. j # i
    BY DEF Underway, Phases, TypeOK
  <2> QED
    BY <2>1 DEF Secured, Underway, TypeOK
<1>5. Condemning'
  BY DEF Condemning, Underway, Phases, TypeOK
<1>6. Reached'
  BY DEF Reached
<1> QED
  BY <1>1, <1>2, <1>3, <1>4, <1>5, <1>6

LEMMA FinaliseIInv == ASSUME IInv, NEW i \in Importers, Finalise(i) PROVE IInv'
<1> USE IntakeAssumption, Tables DEF IInv, Finalise, rows, erasure
<1>1. TypeOK'
  <2>1. CASE UNCHANGED rows
    BY <2>1 DEF TypeOK, States
  <2>2. CASE RollBack(i) /\ UNCHANGED brings
    <3>1. mine' \in [Importers -> SUBSET Rows] /\ todo' \in [Importers -> Seq(Rows)]
      BY <2>2 DEF TypeOK, RollBack
    <3>2. pc' \in [Importers -> States]
      <4>1. pc' \in {[pc EXCEPT ![i] = "finalised"], [pc EXCEPT ![i] = "failing"]}
        OBVIOUS
      <4>2. "finalised" \in States /\ "failing" \in States
        BY DEF States
      <4>3. pc \in [Importers -> States]
        BY DEF TypeOK
      <4> HIDE DEF Finalise, IInv
      <4> QED
        BY <4>1, <4>2, <4>3
    <3> QED
      BY <2>2, <3>1, <3>2, SMTT(30) DEF TypeOK
  <2> QED
    BY <2>1, <2>2
<1>2. Phases'
  BY DEF Phases, TypeOK, RollBack
<1>3. Once'
  <2>1. mine'[i] \subseteq mine[i] /\ \A j \in Importers \ {i} : mine'[j] = mine[j]
    BY DEF TypeOK, RollBack
  <2>2. \A j \in Importers : mine'[j] \subseteq mine[j]
    BY <2>1
  <2>3. stored' = stored
    OBVIOUS
  <2> HIDE DEF Finalise
  <2> QED
    BY <2>2, <2>3 DEF Once
<1>4. Secured'
  <2>1. CASE imports[i] = "running" /\ UNCHANGED rows
    <3>1. \A j \in Importers : Underway(j)' => Underway(j)
      BY DEF Underway, TypeOK
    <3> QED
      BY <2>1, <3>1 DEF Secured
  <2>2. CASE RollBack(i) /\ imports[i] # "running" /\ UNCHANGED brings /\ pc' = [pc EXCEPT ![i] = "failing"]
    <3> SUFFICES ASSUME NEW j \in Importers, Underway(j)', imports'[j] # "none",
                        NEW r \in brings'[j] \ Elements(todo'[j])
                 PROVE  HashOf(r) \in Hashes(stored' \union mine'[j])
      BY DEF Secured
    <3>1. j # i
      BY <2>2 DEF Underway, Phases, TypeOK
    <3> QED
      BY <2>2, <3>1 DEF Secured, Underway, TypeOK, RollBack
  <2> QED
    BY <2>1, <2>2
<1>5. Condemning'
  BY DEF Condemning, Underway, Phases, TypeOK, RollBack
<1>6. Reached'
  BY DEF Reached
<1> QED
  BY <1>1, <1>2, <1>3, <1>4, <1>5, <1>6

LEMMA CommitIInv == ASSUME IInv, NEW i \in Importers, Commit(i) PROVE IInv'
<1> USE IntakeAssumption, Tables DEF IInv, Commit, Unlock, rows, erasure
<1>1. TypeOK'
  BY DEF TypeOK, States
<1>2. Phases'
  BY DEF Phases, TypeOK
<1>3. Once'
  BY DEF Once, TypeOK
<1>4. Secured'
  <2> SUFFICES ASSUME NEW j \in Importers, Underway(j)', imports'[j] # "none",
                      NEW r \in brings'[j] \ Elements(todo'[j])
               PROVE  HashOf(r) \in Hashes(stored' \union mine'[j])
    BY DEF Secured
  <2>0. Underway(j) /\ imports[j] # "none" /\ r \in brings[j] \ Elements(todo[j])
    BY DEF Underway, Phases, TypeOK
  <2>1. HashOf(r) \in Hashes(stored \union mine[j])
    BY <2>0 DEF Secured
  <2>2. stored \union mine[j] \subseteq stored' \union mine'[j]
    BY DEF TypeOK
  <2> QED
    BY <2>1, <2>2, HashesGrow
<1>5. Condemning'
  BY DEF Condemning, Underway, Phases, TypeOK
<1>6. Reached'
  BY DEF Reached
<1> QED
  BY <1>1, <1>2, <1>3, <1>4, <1>5, <1>6

LEMMA FailImportIInv == ASSUME IInv, NEW i \in Importers, FailImport(i) PROVE IInv'
<1> USE IntakeAssumption, Tables DEF IInv, FailImport, Unlock, rows, erasure
<1>1. TypeOK'
  BY DEF TypeOK, States
<1>2. Phases'
  BY DEF Phases, TypeOK
<1>3. Once'
  BY DEF Once, TypeOK
<1>4. Secured'
  <2> SUFFICES ASSUME NEW j \in Importers, Underway(j)', imports'[j] # "none",
                      NEW r \in brings'[j] \ Elements(todo'[j])
               PROVE  HashOf(r) \in Hashes(stored' \union mine'[j])
    BY DEF Secured
  <2>1. j # i
    BY DEF Underway, Phases, TypeOK
  <2> QED
    BY <2>1 DEF Secured, Underway, TypeOK
<1>5. Condemning'
  BY DEF Condemning, Underway, Phases, TypeOK
<1>6. Reached'
  BY DEF Reached
<1> QED
  BY <1>1, <1>2, <1>3, <1>4, <1>5, <1>6

LEMMA DiesIInv ==
    ASSUME IInv, NEW i \in Importers, Dies(i),
           UNCHANGED faults \/ faults' = faults + 1,
           pc[i] \in {"begun", "inserting", "finalised", "failing"}
    PROVE  IInv'
<1> USE IntakeAssumption, Tables DEF IInv, Dies, RollBack, erasure
<1>1. TypeOK'
  BY DEF TypeOK, States
<1>2. Phases'
  BY DEF Phases, TypeOK
<1>3. Once'
  BY DEF Once, TypeOK
<1>4. Secured'
  <2> SUFFICES ASSUME NEW j \in Importers, Underway(j)', imports'[j] # "none",
                      NEW r \in brings'[j] \ Elements(todo'[j])
               PROVE  HashOf(r) \in Hashes(stored' \union mine'[j])
    BY DEF Secured
  <2>1. j # i
    BY DEF Underway, Phases, TypeOK
  <2> QED
    BY <2>1 DEF Secured, Underway, TypeOK
<1>5. Condemning'
  BY DEF Condemning, Underway, Phases, TypeOK
<1>6. Reached'
  BY DEF Reached
<1> QED
  BY <1>1, <1>2, <1>3, <1>4, <1>5, <1>6

LEMMA BeginErasureIInv == ASSUME IInv, BeginErasure PROVE IInv'
<1> USE IntakeAssumption, Tables DEF IInv, BeginErasure, rows
<1>1. TypeOK'
  BY DEF TypeOK, States
<1>2. Phases'
  BY DEF Phases, TypeOK
<1>3. Once'
  BY DEF Once, TypeOK
<1>4. Secured'
  <2> SUFFICES ASSUME NEW j \in Importers, Underway(j)', imports'[j] # "none",
                      NEW r \in brings'[j] \ Elements(todo'[j])
               PROVE  HashOf(r) \in Hashes(stored' \union mine'[j])
    BY DEF Secured
  <2>1. Underway(j) /\ imports[j] # "none" /\ r \in brings[j] \ Elements(todo[j])
    BY DEF Underway, TypeOK, Phases
  <2>2. HashOf(r) \in Hashes(stored \union mine[j])
    BY <2>1 DEF Secured
  <2> QED
    BY <2>2
<1>5. Condemning'
  BY DEF Condemning, Underway, Phases, TypeOK
<1>6. Reached'
  BY DEF Reached
<1> QED
  BY <1>1, <1>2, <1>3, <1>4, <1>5, <1>6

LEMMA EraseTableIInv == ASSUME IInv, EraseTable PROVE IInv'
<1> USE IntakeAssumption, Tables DEF IInv, EraseTable, rows
<1>1. TypeOK'
  BY DEF TypeOK, States
<1>2. Phases'
  BY DEF Phases, TypeOK, ErasureWaitsFor, HoldsRow
<1>3. Once'
  BY DEF Once, TypeOK
<1>4. Secured'
  <2> SUFFICES ASSUME NEW j \in Importers, Underway(j)', imports'[j] # "none",
                      NEW r \in brings'[j] \ Elements(todo'[j])
               PROVE  HashOf(r) \in Hashes(stored' \union mine'[j])
    BY DEF Secured
  <2>1. Underway(j) /\ imports[j] # "none" /\ r \in brings[j] \ Elements(todo[j])
    BY DEF Underway, TypeOK, Phases
  <2>2. HashOf(r) \in Hashes(stored \union mine[j])
    BY <2>1 DEF Secured
  <2> QED
    BY <2>2
<1>5. Condemning'
  BY DEF Condemning, Underway, Phases, TypeOK
<1>6. Reached'
  BY DEF Reached
<1> QED
  BY <1>1, <1>2, <1>3, <1>4, <1>5, <1>6

LEMMA CommitErasureIInv == ASSUME IInv, CommitErasure PROVE IInv'
<1> USE IntakeAssumption, Tables DEF IInv, CommitErasure, EndErasure, rows
<1>1. TypeOK'
  BY DEF TypeOK, States
<1>2. Phases'
  BY DEF Phases, TypeOK
<1>3. Once'
  BY DEF Once, TypeOK
<1>4. Secured'
  <2> SUFFICES ASSUME NEW j \in Importers, Underway(j)', imports'[j] # "none",
                      NEW r \in brings'[j] \ Elements(todo'[j])
               PROVE  HashOf(r) \in Hashes(stored' \union mine'[j])
    BY DEF Secured
  <2>1. /\ j \notin condemned /\ erased = 7
        /\ Underway(j) /\ imports[j] # "none" /\ r \in brings[j] \ Elements(todo[j])
    BY DEF Underway, TypeOK
  <2>2. HashOf(r) \in Hashes(stored \union mine[j])
    BY <2>1 DEF Secured
  <2>3. HashOf(r) \notin Hashes(doomed)
    BY <2>1 DEF Condemning
  <2> QED
    BY <2>2, <2>3 DEF Hashes
<1>5. Condemning'
  BY DEF Condemning, Underway, Phases, TypeOK
<1>6. Reached'
  BY DEF Reached
<1> QED
  BY <1>1, <1>2, <1>3, <1>4, <1>5, <1>6

LEMMA ErasureFailsIInv == ASSUME IInv, ErasureFails PROVE IInv'
<1> USE IntakeAssumption, Tables DEF IInv, ErasureFails, EndErasure, rows
<1>1. TypeOK'
  BY DEF TypeOK, States
<1>2. Phases'
  BY DEF Phases, TypeOK
<1>3. Once'
  BY DEF Once, TypeOK
<1>4. Secured'
  <2> SUFFICES ASSUME NEW j \in Importers, Underway(j)', imports'[j] # "none",
                      NEW r \in brings'[j] \ Elements(todo'[j])
               PROVE  HashOf(r) \in Hashes(stored' \union mine'[j])
    BY DEF Secured
  <2>1. Underway(j) /\ imports[j] # "none" /\ r \in brings[j] \ Elements(todo[j])
    BY DEF Underway, TypeOK, Phases
  <2>2. HashOf(r) \in Hashes(stored \union mine[j])
    BY <2>1 DEF Secured
  <2> QED
    BY <2>2
<1>5. Condemning'
  BY DEF Condemning, Underway, Phases, TypeOK
<1>6. Reached'
  BY DEF Reached
<1> QED
  BY <1>1, <1>2, <1>3, <1>4, <1>5, <1>6

LEMMA InsertIInv == ASSUME IInv, NEW i \in Importers, Insert(i) PROVE IInv'
<1> USE IntakeAssumption, Tables DEF IInv, Insert, rows, erasure
<1> DEFINE r0 == Head(todo[i])
<1>a. /\ todo[i] \in Seq(Rows) /\ todo[i] # <<>>
      /\ todo' = [todo EXCEPT ![i] = Tail(@)]
      /\ todo'[i] = Tail(todo[i]) /\ \A j \in Importers \ {i} : todo'[j] = todo[j]
  BY DEF TypeOK
<1>b. /\ r0 \in Rows /\ r0 \in Elements(todo[i]) /\ Tail(todo[i]) \in Seq(Rows)
      /\ \A x \in Elements(todo[i]) : x = r0 \/ x \in Elements(Tail(todo[i]))
  BY <1>a, SendsTheHead
<1>c. /\ HashOf(r0) \notin Hashes(doomed)
      /\ \A j \in Importers \ {i} : HashOf(r0) \notin Hashes(mine[j])
  BY <1>a DEF InsertWaitsFor, Holder
<1>d. \/ HashOf(r0) \in Hashes(stored \union mine[i]) /\ mine' = mine
      \/ /\ HashOf(r0) \notin Hashes(stored \union mine[i])
         /\ mine' = [mine EXCEPT ![i] = @ \union {r0}]
  OBVIOUS
<1>e. UNCHANGED <<stored, imports, pc, brings, importMu, erased, doomed, condemned, erasures, standing,
                faults>>
  OBVIOUS
<1> HIDE DEF Insert, r0
<1>1. TypeOK'
  <2>1. todo' \in [Importers -> Seq(Rows)]
    BY <1>a, <1>b DEF TypeOK
  <2>2. mine' \in [Importers -> SUBSET Rows]
    <3>1. mine \in [Importers -> SUBSET Rows] /\ mine[i] \union {r0} \in SUBSET Rows
      BY <1>b DEF TypeOK
    <3> QED
      BY <3>1, <1>d
  <2> QED
    BY <2>1, <2>2, <1>e DEF TypeOK
<1>2. Phases'
  <2>1. pc[i] = "inserting"
    BY DEF Insert
  <2> QED
    BY <2>1, <1>a, <1>d, <1>e DEF TypeOK, Phases
<1>3. Once'
  <2>1. CASE mine' = mine
    BY <2>1, <1>e DEF Once
  <2>2. CASE /\ HashOf(r0) \notin Hashes(stored \union mine[i])
             /\ mine' = [mine EXCEPT ![i] = @ \union {r0}]
    <3>1. \A s \in stored \union mine[i] : HashOf(s) # HashOf(r0)
      BY <2>2 DEF Hashes
    <3>2. \A j \in Importers \ {i} : \A s \in mine[j] : HashOf(s) # HashOf(r0)
      BY <1>c DEF Hashes
    <3>3. mine'[i] = mine[i] \union {r0} /\ \A j \in Importers \ {i} : mine'[j] = mine[j]
      BY <2>2 DEF TypeOK
    <3> QED
      BY <1>e, <3>1, <3>2, <3>3 DEF Once
  <2> QED
    BY <2>1, <2>2, <1>d
<1>4. Secured'
  <2> SUFFICES ASSUME NEW j \in Importers, Underway(j)', imports'[j] # "none",
                      NEW r \in brings'[j] \ Elements(todo'[j])
               PROVE  HashOf(r) \in Hashes(stored' \union mine'[j])
    BY DEF Secured
  <2>0. pc[i] = "inserting"
    BY DEF Insert
  <2>1. CASE j # i
    <3>1. HashOf(r) \in Hashes(stored \union mine[j])
      BY <2>1, <1>a, <1>e DEF Secured, Underway
    <3> QED
      BY <2>1, <3>1, <1>d, <1>e DEF TypeOK
  <2>2. CASE j = i
    <3>1. stored \union mine[i] \subseteq stored' \union mine'[i]
      BY <1>d, <1>e DEF TypeOK
    <3>2. CASE r = r0
      <4>1. CASE HashOf(r0) \in Hashes(stored \union mine[i])
        BY <2>2, <3>1, <3>2, <4>1, HashesGrow
      <4>2. CASE HashOf(r0) \notin Hashes(stored \union mine[i])
        <5>1. r0 \in mine'[i]
          BY <4>2, <1>d DEF TypeOK
        <5> QED
          BY <2>2, <3>2, <5>1 DEF Hashes
      <4> QED
        BY <4>1, <4>2
    <3>3. CASE r # r0
      <4>1. r \in brings[i] \ Elements(todo[i])
        BY <2>2, <3>3, <1>a, <1>b, <1>e
      <4>2. HashOf(r) \in Hashes(stored \union mine[i])
        BY <2>0, <2>2, <4>1, <1>e DEF Secured, Underway
      <4> QED
        BY <2>2, <3>1, <4>2, HashesGrow
    <3> QED
      BY <3>2, <3>3
  <2> QED
    BY <2>1, <2>2
<1>5. Condemning'
  <2> SUFFICES ASSUME erased = 7, NEW j \in Importers \ condemned, Underway(j)', imports'[j] # "none",
                      NEW r \in brings'[j] \ Elements(todo'[j])
               PROVE  HashOf(r) \notin Hashes(doomed)
    BY <1>e DEF Condemning
  <2>1. CASE j = i /\ r = r0
    BY <2>1, <1>c
  <2>2. CASE j # i \/ r # r0
    <3>1. Underway(j) /\ imports[j] # "none" /\ r \in brings[j] \ Elements(todo[j])
      BY <2>2, <1>a, <1>b, <1>e DEF Underway
    <3> QED
      BY <3>1 DEF Condemning
  <2> QED
    BY <2>1, <2>2
<1>6. Reached'
  BY <1>e DEF Reached
<1> QED
  BY <1>1, <1>2, <1>3, <1>4, <1>5, <1>6

\* The invariant of the module: imports, their failures and their deaths, and the
\* statements of the deletion keep it.
THEOREM InductiveInvariant == Spec => []IInv
<1>1. IInv /\ [Next]_vars => IInv'
  <2> SUFFICES ASSUME IInv, [Next]_vars PROVE IInv'
    OBVIOUS
  <2>1. CASE UNCHANGED vars
    BY <2>1 DEF vars, rows, erasure, IInv, TypeOK, Phases, Once, Secured, Condemning, Reached, Underway
  <2>2. CASE \E i \in Importers : BeginImport(i) \/ Unsupported(i)
    BY <2>2, BeginImportIInv, UnsupportedIInv
  <2>3. CASE \E i \in Importers : Panic(i) \/ Kill(i)
    <3>1. PICK i \in Importers : Panic(i) \/ Kill(i)
      BY <2>3
    <3> QED
      BY <3>1, DiesIInv DEF Panic, Kill
  <2>4. CASE \E i \in Importers : ImportStep(i) /\ ~Kill(i)
    BY <2>4, InsertIInv, DeadlockedIInv, FinaliseIInv, CommitIInv, FailImportIInv DEF ImportStep
  <2>5. CASE \E i \in Importers : \E s \in Seq(Rows) : Found(i, s)
    BY <2>5, FoundIInv
  <2>6. CASE ErasureStep
    BY <2>6, BeginErasureIInv, EraseTableIInv, CommitErasureIInv, ErasureFailsIInv DEF ErasureStep
  <2> QED
    BY <2>1, <2>2, <2>3, <2>4, <2>5, <2>6 DEF Next, ImportStep
<1> QED
  BY <1>1, InitIInv, PTL DEF Spec

\* Every variable keeps its type, for any imports, rows and bounds.
THEOREM TypeCorrect == Spec => []TypeOK
BY InductiveInvariant, PTL DEF IInv

\* The hashes keep every observation to one row, however the imports and the
\* deletion interleave.
THEOREM ObservationsOnce == Spec => []StoredOnce
<1>1. IInv => StoredOnce
  BY DEF IInv, Once, StoredOnce, HashOf
<1> QED
  BY <1>1, InductiveInvariant, PTL

\* A completed import that is still there has everything it brought, because
\* the deletion comes to the imports last.
THEOREM ImportsAreWhole == Spec => []CompletedIsWhole
<1>1. IInv => CompletedIsWhole
  <2> SUFFICES ASSUME IInv, NEW i \in Importers, imports[i] = "completed", NEW r \in brings[i]
               PROVE HashOf(r) \in Hashes(stored)
    BY DEF CompletedIsWhole, Hashes
  <2>1. todo[i] = <<>> /\ mine[i] = {}
    BY DEF IInv, Phases
  <2>2. Elements(todo[i]) = {}
    BY <2>1 DEF Elements
  <2>3. HashOf(r) \in Hashes(stored \union mine[i])
    BY <2>2 DEF IInv, Secured, Underway
  <2> QED
    BY <2>1, <2>3, HashesUnion DEF Hashes
<1> QED
  BY <1>1, InductiveInvariant, PTL

\* What was stored when a deletion began is gone when it commits: it has been
\* through all the tables, and only it removes.
THEOREM ErasuresAreWhole == Spec => ErasedIsGone
<1>1. ASSUME IInv, CommitErasure PROVE stored' \intersect standing = {}
  <2>1. erased = 7 /\ stored' = stored \ doomed
    BY <1>1, Tables DEF CommitErasure
  <2>2. standing \subseteq doomed
    <3> SUFFICES ASSUME NEW r \in standing PROVE r \in doomed
      OBVIOUS
    <3>1. PICK k \in 1 .. 5 : UserDataTables[k] = r.table
      BY <1>1, Tables, IntakeAssumption DEF IInv, TypeOK
    <3> QED
      BY <1>1, <2>1, <3>1 DEF IInv, Reached
  <2> QED
    BY <2>1, <2>2
<1>2. IInv /\ [Next]_vars => [CommitErasure => stored' \intersect standing = {}]_vars
  BY <1>1
<1> QED
  BY <1>2, InductiveInvariant, PTL DEF Spec, ErasedIsGone

\* The deletion waits only for imports that are about to commit, and those wait
\* for nobody: it is in no ring of waiting transactions.
THEOREM ErasuresNeverDeadlock == Spec => []ErasureNeverDeadlocks
<1>1. ErasureNeverDeadlocks
  <2> DEFINE WaitsFor(x) ==
        IF x = Eraser THEN ErasureWaitsFor
        ELSE InsertWaitsFor(x) \union
             (IF pc[x] \in {"inserting", "failing"} /\ todo[x] = <<>> /\ x \in condemned
              THEN {Eraser} ELSE {})
  <2> SUFFICES ASSUME NEW S \in SUBSET (Importers \union {Eraser}), Eraser \in S,
                      \A x \in S : WaitsFor(x) \intersect S # {}
               PROVE  FALSE
    BY DEF ErasureNeverDeadlocks
  <2>1. PICK i \in S : i \in ErasureWaitsFor
    OBVIOUS
  <2>2. i \in Importers /\ i # Eraser /\ pc[i] = "finalised"
    BY <2>1, IntakeAssumption DEF ErasureWaitsFor, HoldsRow
  <2>3. WaitsFor(i) = {}
    BY <2>2 DEF InsertWaitsFor
  <2> QED
    BY <2>3
<1> QED
  BY <1>1, PTL

-----------------------------------------------------------------------------
(* The files.  What an import finds is what the parsers make of its file.    *)

\* An import that has begun has a file or a batch.
Chosen ==
    /\ pc \in [Importers -> States]
    /\ file = [i \in Importers |-> file[i]] /\ window = [i \in Cli |-> window[i]]
    /\ \A i \in Importers : pc[i] = "begun" =>
        IF i \in Cli THEN file[i] \in PlainFiles \union RichFiles /\ window[i] \in Windows
        ELSE file[i] \in PlainBatches \union RichBatches

LEMMA BeginChosen == ASSUME Chosen, NEW i \in Importers, MCBegin(i) PROVE Chosen'
<1> USE DEF Chosen
<1>1. /\ file' = [file EXCEPT ![i] = file'[i]]
      /\ IF i \in Cli THEN file'[i] \in PlainFiles \union RichFiles
         ELSE file'[i] \in PlainBatches \union RichBatches
  BY DEF MCBegin
<1>2. IF i \in Cli THEN window' = [window EXCEPT ![i] = window'[i]] /\ window'[i] \in Windows
      ELSE window' = window
  BY DEF MCBegin
<1>3. pc' = [pc EXCEPT ![i] = "begun"]
  BY DEF MCBegin, BeginImport
<1>4. pc' \in [Importers -> States]
  BY <1>3 DEF States
<1>5. file' = [k \in Importers |-> file'[k]]
  BY <1>1
<1>6. window' = [k \in Cli |-> window'[k]]
  BY <1>2
<1>7. ASSUME NEW k \in Importers, pc'[k] = "begun"
      PROVE  IF k \in Cli THEN file'[k] \in PlainFiles \union RichFiles /\ window'[k] \in Windows
             ELSE file'[k] \in PlainBatches \union RichBatches
  <2>1. CASE k = i
    BY <1>1, <1>2, <2>1
  <2>2. CASE k # i
    <3>1. pc[k] = "begun" /\ file'[k] = file[k] /\ (k \in Cli => window'[k] = window[k])
      BY <1>1, <1>2, <1>3, <1>7, <2>2
    <3> QED
      BY <3>1
  <2> QED
    BY <2>1, <2>2
<1> QED
  BY <1>4, <1>5, <1>6, <1>7

\* No other step begins an import or changes what it reads.
LEMMA OthersKeepChosen ==
    ASSUME Chosen, UNCHANGED <<file, window>>, pc' \in [Importers -> States],
           \A i \in Importers : pc'[i] = "begun" => pc[i] = "begun"
    PROVE  Chosen'
BY DEF Chosen

LEMMA StepsBeginNothing ==
    ASSUME pc \in [Importers -> States],
           (\E i \in Importers : ReadFile(i) \/ ImportStep(i)) \/ ErasureStep
    PROVE  /\ pc' \in [Importers -> States]
           /\ \A i \in Importers : pc'[i] = "begun" => pc[i] = "begun"
<1>1. ASSUME NEW i \in Importers, ReadFile(i) \/ ImportStep(i)
      PROVE  pc' = pc \/ \E s \in States \ {"begun"} : pc' = [pc EXCEPT ![i] = s]
  BY <1>1 DEF ReadFile, Found, Panic, Unsupported, ImportStep, Insert, Deadlocked, Finalise,
              Commit, FailImport, Kill, Dies, States
<1>2. ErasureStep => pc' = pc
  BY DEF ErasureStep, BeginErasure, EraseTable, CommitErasure, ErasureFails, EndErasure
<1> QED
  BY <1>1, <1>2

LEMMA AlwaysChosen == MCSpec => []Chosen
<1>1. MCInit => Chosen
  BY DEF MCInit, Init, Chosen, States
<1>2. Chosen /\ [MCNext]_mcVars => Chosen'
  <2> SUFFICES ASSUME Chosen, [MCNext]_mcVars PROVE Chosen'
    OBVIOUS
  <2>1. CASE UNCHANGED mcVars
    BY <2>1 DEF mcVars, vars, Chosen
  <2>2. CASE MCNext
    <3>1. ASSUME NEW i \in Importers, MCBegin(i) PROVE Chosen'
      BY <3>1, BeginChosen
    <3>2. CASE /\ (\E i \in Importers : ReadFile(i) \/ ImportStep(i)) \/ ErasureStep
               /\ UNCHANGED <<file, window>>
      <4>1. pc \in [Importers -> States]
        BY DEF Chosen
      <4> QED
        BY <3>2, <4>1, StepsBeginNothing, OthersKeepChosen
    <3> QED
      BY <2>2, <3>1, <3>2 DEF MCNext
  <2> QED
    BY <2>1, <2>2
<1> QED
  BY <1>1, <1>2, PTL DEF MCSpec

\* Reading a file finds rows, or that there are none to be found.
LEMMA ReadingIsAStep ==
    ASSUME Chosen, NEW i \in Importers, ReadFile(i)
    PROVE  (\E s \in Seq(Rows) : Found(i, s)) \/ Unsupported(i) \/ Panic(i)
<1>1. CASE i \in Photos
  <2>1. file[i] \in PlainBatches \union RichBatches
    BY <1>1, IntakeAssumption DEF ReadFile, Chosen
  <2> QED
    BY <1>1, <2>1, FilesAssumption DEF ReadFile
<1>2. CASE i \notin Photos
  <2>1. i \in Cli
    BY <1>2 DEF Importers
  <2>2. file[i] \in PlainFiles \union RichFiles /\ window[i] \in Windows
    BY <2>1 DEF ReadFile, Chosen
  <2>3. AsWritten(FilterWindow(Parse(file[i]).rows, window[i])) \in Seq(Rows)
    BY <2>2, FilesAssumption
  <2> QED
    BY <1>2, <2>3, Zenon DEF ReadFile
<1> QED
  BY <1>1, <1>2

\* The imports of files are imports: a refinement, step by step, so that what is
\* proved of the imports and the deletion holds whatever the parsers find.
THEOREM FilesAreImported == MCSpec => Spec
<1>1. MCInit => Init
  BY DEF MCInit
<1>2. Chosen /\ [MCNext]_mcVars => [Next]_vars
  <2> SUFFICES ASSUME Chosen, [MCNext]_mcVars PROVE [Next]_vars
    OBVIOUS
  <2>1. CASE UNCHANGED mcVars
    BY <2>1 DEF mcVars
  <2>2. ASSUME NEW i \in Importers, MCBegin(i) PROVE Next
    BY <2>2 DEF MCBegin, Next
  <2>3. ASSUME NEW i \in Importers, ReadFile(i) PROVE Next
    BY <2>3, ReadingIsAStep DEF Next
  <2>4. ASSUME NEW i \in Importers, ImportStep(i) PROVE Next
    BY <2>4 DEF Next
  <2>5. ErasureStep => Next
    BY DEF Next
  <2> QED
    BY <2>1, <2>2, <2>3, <2>4, <2>5 DEF MCNext
<1> QED
  BY <1>1, <1>2, AlwaysChosen, PTL DEF MCSpec, Spec

-----------------------------------------------------------------------------
(* The photos.  A batch s contains another, t: position n of t is position   *)
(* f[n] of s.                                                                *)

\* No two photos have one name.
UniqueNames(s) ==
    \A k, n \in DOMAIN s : s[k].kind = "photo" /\ s[n].kind = "photo" /\ s[k].name = s[n].name => k = n

PartOf(s, t, f) ==
    /\ DOMAIN s \subseteq Nat \ {0} /\ DOMAIN t \subseteq Nat \ {0}
    /\ f \in [DOMAIN t -> DOMAIN s]
    /\ \A m, n \in DOMAIN t : f[m] = f[n] => m = n
    /\ \A n \in DOMAIN t : t[n] = s[f[n]]

Claimed(s, k) == {n \in DOMAIN s : Partner(s, n) = k}

\* No two sidecars claim the photo.
ClaimedOnce(s, k) == \A c, d \in Claimed(s, k) : c = d

LEMMA MaxOfOne == ASSUME NEW x \in Nat PROVE Max({x}) = x
BY DEF Max

\* The photos of a name are at most one, and so are the candidates of a sidecar.
LEMMA PartnerIsNamed ==
    ASSUME NEW s, DOMAIN s \subseteq Nat \ {0}, UniqueNames(s), NEW c \in DOMAIN s, NEW k \in DOMAIN s
    PROVE  Partner(s, c) = k <=>
            /\ s[c].kind = "sidecar" /\ s[k].kind = "photo"
            /\ \/ s[k].name = SidecarPairName(s[c].name)
               \/ /\ s[k].name = s[c].sidecar.title
                  /\ \A n \in DOMAIN s : s[n].kind = "photo" => s[n].name # SidecarPairName(s[c].name)
<1> DEFINE Named(n) == {i \in DOMAIN s : s[i].kind = "photo" /\ s[i].name = n}
           beside == Named(SidecarPairName(s[c].name))
           titled == Named(s[c].sidecar.title)
           candidates == IF beside # {} THEN beside ELSE titled
<1>1. Partner(s, c) = IF s[c].kind = "sidecar" /\ candidates # {} THEN Max(candidates) ELSE 0
  BY Zenon DEF Partner
<1>2. \A n : Named(n) = {} \/ \E i \in DOMAIN s : Named(n) = {i}
  BY DEF UniqueNames
<1>3. candidates = {} \/ \E i \in DOMAIN s : candidates = {i} /\ Max(candidates) = i
  <2>1. ASSUME NEW i \in DOMAIN s, candidates = {i} PROVE Max(candidates) = i
    BY <2>1, MaxOfOne
  <2>2. candidates = {} \/ \E i \in DOMAIN s : candidates = {i}
    BY <1>2
  <2> HIDE DEF candidates
  <2> QED
    BY <2>1, <2>2
<1>4. Partner(s, c) = k <=> s[c].kind = "sidecar" /\ k \in candidates
  <2> HIDE DEF candidates
  <2> QED
    BY <1>1, <1>3
<1> QED
  BY <1>4

\* In a smaller batch a sidecar keeps the photo it has, if both are there.
LEMMA PartnerCarries ==
    ASSUME NEW s, NEW t, NEW f, PartOf(s, t, f), UniqueNames(s),
           NEW c \in DOMAIN t, NEW m \in DOMAIN t, Partner(s, f[c]) = f[m]
    PROVE  Partner(t, c) = m
<1>1. UniqueNames(t)
  BY DEF UniqueNames, PartOf
<1>2. f[c] \in DOMAIN s /\ f[m] \in DOMAIN s /\ t[c] = s[f[c]] /\ t[m] = s[f[m]]
  BY DEF PartOf
<1>3. \A n \in DOMAIN t : f[n] \in DOMAIN s /\ t[n] = s[f[n]]
  BY DEF PartOf
<1> QED
  BY <1>1, <1>2, <1>3, PartnerIsNamed DEF PartOf

\* A photo whose sidecar is the same in both batches comes to the same.
LEMMA ResolvesAlike ==
    ASSUME NEW s, NEW t, NEW f, PartOf(s, t, f), NEW m \in DOMAIN t,
           s[f[m]].kind = "photo",
           ClaimedOnce(s, f[m]),
           \A c \in Claimed(s, f[m]) : \E n \in DOMAIN t : f[n] = c,
           \A n \in DOMAIN t : Partner(t, n) = m <=> Partner(s, f[n]) = f[m]
    PROVE  ResolveOne(t, m) = ResolveOne(s, f[m])
<1>1. t[m] = s[f[m]] /\ f[m] \in DOMAIN s
  BY DEF PartOf
<1>2. Merged(t, m) = Merged(s, f[m])
  <2>1. CASE Claimed(s, f[m]) = {}
    <3>1. Claimed(t, m) = {}
      BY <2>1 DEF Claimed, PartOf
    <3> QED
      BY <1>1, <2>1, <3>1 DEF Merged, Claimed
  <2>2. CASE Claimed(s, f[m]) # {}
    <3>1. PICK n \in DOMAIN t : f[n] \in Claimed(s, f[m])
      BY <2>2
    <3>2. Claimed(s, f[m]) = {f[n]}
      BY <3>1 DEF ClaimedOnce
    <3>3. Claimed(t, m) = {n}
      BY <3>1, <3>2 DEF Claimed, PartOf
    <3>4. f[n] \in Nat /\ n \in Nat /\ t[n] = s[f[n]]
      BY <3>1 DEF PartOf
    <3>5. Max(Claimed(s, f[m])) = f[n] /\ Max(Claimed(t, m)) = n
      BY <3>2, <3>3, <3>4, MaxOfOne
    <3>6. Merged(s, f[m]) = MergeSidecar(s[f[m]].meta, s[f[n]].sidecar)
      BY <3>2, <3>5, Zenon DEF Merged, Claimed
    <3>7. Merged(t, m) = MergeSidecar(t[m].meta, t[n].sidecar)
      BY <3>3, <3>5, Zenon DEF Merged, Claimed
    <3> QED
      BY <1>1, <3>4, <3>6, <3>7
  <2> QED
    BY <2>1, <2>2
<1> QED
  BY <1>1, <1>2 DEF ResolveOne

\* A photo is no sidecar of its own.
LEMMA PhotoClaimsNothing ==
    ASSUME NEW s, NEW k, s[k].kind = "photo" PROVE Partner(s, k) = 0
BY DEF Partner

\* The order of a batch makes no difference.
LEMMA OrderIsNothing ==
    ASSUME NEW s, DOMAIN s \subseteq Nat \ {0}, UniqueNames(s),
           NEW order \in Bijection(DOMAIN s, DOMAIN s),
           NEW t, t = [n \in DOMAIN s |-> s[order[n]]],
           NEW m \in DOMAIN s, s[order[m]].kind = "photo",
           ClaimedOnce(s, order[m])
    PROVE  ResolveOne(t, m) = ResolveOne(s, order[m])
<1> DEFINE back == [k \in DOMAIN s |-> CHOOSE n \in DOMAIN s : order[n] = k]
<1>3. /\ order \in [DOMAIN s -> DOMAIN s]
      /\ \A c, d \in DOMAIN s : order[c] = order[d] => c = d
      /\ \A k \in DOMAIN s : \E n \in DOMAIN s : order[n] = k
  BY DEF Bijection, Injection, Surjection, IsInjective
<1>4. \A k \in DOMAIN s : back[k] \in DOMAIN s /\ order[back[k]] = k
  BY <1>3
<1>5. \A n \in DOMAIN s : order[n] \in DOMAIN s /\ back[order[n]] = n
  BY <1>3, <1>4
<1>6. PartOf(s, t, order)
  BY <1>3, <1>5 DEF PartOf
<1>7. PartOf(t, s, back)
  <2>1. back \in [DOMAIN s -> DOMAIN s]
    BY <1>4
  <2>2. \A c, d \in DOMAIN s : back[c] = back[d] => c = d
    BY <1>4
  <2>3. \A n \in DOMAIN s : s[n] = t[back[n]]
    BY <1>4
  <2> HIDE DEF back
  <2> QED
    BY <2>1, <2>2, <2>3 DEF PartOf
<1>8. UniqueNames(t)
  BY <1>3, <1>5 DEF UniqueNames
<1> HIDE DEF back
<1>9. DOMAIN t = DOMAIN s
  OBVIOUS
<1>10. \A n \in DOMAIN t : Partner(t, n) = m <=> Partner(s, order[n]) = order[m]
  <2>1. ASSUME NEW n \in DOMAIN t, Partner(s, order[n]) = order[m] PROVE Partner(t, n) = m
    BY <2>1, <1>6, <1>9, PartnerCarries
  <2>2. ASSUME NEW n \in DOMAIN t, Partner(t, n) = m PROVE Partner(s, order[n]) = order[m]
    <3>1. order[n] \in DOMAIN s /\ order[m] \in DOMAIN s
          /\ Partner(t, back[order[n]]) = back[order[m]]
      BY <2>2, <1>5, <1>9
    <3> QED
      BY <3>1, <1>7, <1>8, PartnerCarries
  <2> QED
    BY <2>1, <2>2
<1>11. \A c \in Claimed(s, order[m]) : \E n \in DOMAIN t : order[n] = c
  BY <1>4, <1>9 DEF Claimed
<1> QED
  BY <1>6, <1>9, <1>10, <1>11, ResolvesAlike

\* Nor does anything in it but the photo's own sidecar.
LEMMA OthersAreNothing ==
    ASSUME NEW s, DOMAIN s \subseteq Nat \ {0}, UniqueNames(s),
           NEW k \in DOMAIN s, s[k].kind = "photo",
           ClaimedOnce(s, k)
    PROVE  /\ Claimed(s, k) = {} => ResolveOne(<<s[k]>>, 1) = ResolveOne(s, k)
           /\ \A c \in Claimed(s, k) : ResolveOne(<<s[c], s[k]>>, 2) = ResolveOne(s, k)
<1>1. ASSUME Claimed(s, k) = {} PROVE ResolveOne(<<s[k]>>, 1) = ResolveOne(s, k)
  <2> DEFINE t == <<s[k]>>
             f == [n \in {1} |-> k]
  <2>1. DOMAIN t = {1} /\ t[1] = s[k] /\ f[1] = k
    OBVIOUS
  <2> HIDE DEF t
  <2>2. PartOf(s, t, f)
    BY <2>1 DEF PartOf
  <2>3. Partner(t, 1) = 0 /\ Partner(s, k) = 0
    BY <2>1, PhotoClaimsNothing
  <2> HIDE DEF f
  <2>4. \A n \in DOMAIN t : Partner(t, n) = 1 <=> Partner(s, f[n]) = f[1]
    BY <2>1, <2>3
  <2>5. \A c \in Claimed(s, f[1]) : \E n \in DOMAIN t : f[n] = c
    BY <1>1, <2>1
  <2>6. ResolveOne(t, 1) = ResolveOne(s, f[1])
    BY <2>1, <2>2, <2>4, <2>5, ResolvesAlike
  <2> QED
    BY <2>1, <2>6 DEF t
<1>2. ASSUME NEW c \in Claimed(s, k) PROVE ResolveOne(<<s[c], s[k]>>, 2) = ResolveOne(s, k)
  <2> DEFINE t == <<s[c], s[k]>>
             f == [n \in {1, 2} |-> IF n = 1 THEN c ELSE k]
  <2>0. Partner(s, k) = 0 /\ Partner(s, c) = k /\ c \in DOMAIN s /\ k # 0 /\ c # k
    BY PhotoClaimsNothing DEF Claimed
  <2>1. DOMAIN t = {1, 2} /\ t[1] = s[c] /\ t[2] = s[k] /\ f[1] = c /\ f[2] = k
    OBVIOUS
  <2> HIDE DEF t
  <2>2. PartOf(s, t, f)
    BY <2>0, <2>1 DEF PartOf
  <2>3. Partner(t, 2) = 0
    BY <2>1, PhotoClaimsNothing
  <2> HIDE DEF f
  <2>4. Partner(t, 1) = 2
    BY <2>0, <2>1, <2>2, PartnerCarries
  <2>5. \A n \in DOMAIN t : Partner(t, n) = 2 <=> Partner(s, f[n]) = f[2]
    BY <2>0, <2>1, <2>3, <2>4
  <2>6. \A d \in Claimed(s, f[2]) : \E n \in DOMAIN t : f[n] = d
    BY <1>2, <2>1 DEF ClaimedOnce
  <2>7. 2 \in DOMAIN t /\ s[f[2]].kind = "photo" /\ ClaimedOnce(s, f[2])
    BY <2>1
  <2>8. ResolveOne(t, 2) = ResolveOne(s, f[2])
    BY <2>2, <2>5, <2>6, <2>7, ResolvesAlike
  <2> QED
    BY <2>1, <2>8 DEF t
<1> QED
  BY <1>1, <1>2

\* What the bytes say of the place is what the fix says.
LEMMA PlaceIsThePhotos ==
    ASSUME NEW f, NEW s, NEW k, s[k] = ScanFile(f), s[k].kind = "photo", s[k].meta.pos # None,
           ResolveOne(s, k).verdict = "fix"
    PROVE  ResolveOne(s, k).pos = s[k].meta.pos
<1>1. "pos" \in DOMAIN s[k].meta
  BY DEF ScanFile, Scanned, ExtractEXIF, ExtractHEIF, ParseTIFF, NoMeta
<1>2. Merged(s, k).pos = s[k].meta.pos
  BY <1>1 DEF Merged, MergeSidecar
<1> QED
  BY <1>2 DEF ResolveOne, Verdict

LEMMA ClaimsAreEqual ==
    ASSUME NEW C, IsFiniteSet(C), Cardinality(C) <= 1 PROVE \A c, d \in C : c = d
<1> SUFFICES ASSUME NEW c \in C, NEW d \in C, c # d PROVE FALSE
  OBVIOUS
<1>1. IsFiniteSet({c}) /\ Cardinality({c}) = 1
  BY FS_Singleton
<1>2. IsFiniteSet({c} \union {d}) /\ Cardinality({c} \union {d}) = 2
  BY <1>1, FS_AddElement
<1>3. Cardinality({c} \union {d}) <= Cardinality(C) /\ Cardinality(C) \in Nat
  BY FS_Subset, FS_CardinalityType
<1> QED
  BY <1>2, <1>3

\* A photo comes to what it comes to with its own sidecar alone, whatever else
\* is in the batch and in whatever order, and no sidecar moves it: for batches
\* of any number of files.
THEOREM PhotosComeToTheSame == MCSpec => []PhotosKeepToThemselves
<1>1. ASSUME Chosen PROVE PhotosKeepToThemselves
  <2> SUFFICES ASSUME NEW i \in Photos, pc[i] = "begun" PROVE PhotosKeepToThemselves!(i)!2
    BY DEF PhotosKeepToThemselves
  <2> DEFINE files == file[i]
             scans == [k \in DOMAIN files |-> ScanFile(files[k])]
             photos == {k \in DOMAIN scans : scans[k].kind = "photo"}
             Claims(k) == {n \in DOMAIN scans : Partner(scans, n) = k}
             clear == /\ \A k, n \in photos : k # n => scans[k].name # scans[n].name
                      /\ \A k \in photos : Cardinality(Claims(k)) <= 1
             Own(k) == IF Claims(k) = {} THEN <<scans[k]>>
                       ELSE <<scans[CHOOSE n \in Claims(k) : TRUE], scans[k]>>
             own(k) == Last(Resolve(Own(k)))
             Reordered(order) == Resolve([n \in DOMAIN files |-> scans[order[n]]])
             Same(k) ==
                /\ \A order \in Bijection(DOMAIN files, DOMAIN files) :
                    Reordered(order)[CHOOSE n \in DOMAIN files : order[n] = k] = own(k)
                /\ own(k).verdict = "fix" /\ scans[k].meta.pos # None => own(k).pos = scans[k].meta.pos
  <2>1. SUFFICES ASSUME clear, NEW k \in photos PROVE Same(k)
    OBVIOUS
  <2>2. /\ UniqueNames(scans) /\ Claims(k) = Claimed(scans, k)
        /\ k \in DOMAIN scans /\ scans[k].kind = "photo" /\ Cardinality(Claims(k)) <= 1
    BY <2>1, SMTT(30) DEF UniqueNames, Claimed
  <2>3. DOMAIN scans = DOMAIN files /\ DOMAIN files = 1 .. Len(files) /\ Len(files) \in Nat
    <3>1. i \in Importers \ Cli
      BY IntakeAssumption DEF Importers
    <3>2. file[i] \in PlainBatches \union RichBatches
      BY <1>1, <3>1 DEF Chosen
    <3>3. files \in Seq(Range(files))
      BY <3>2, FilesAssumption
    <3> QED
      BY <3>3
  <2>4. scans[k] = ScanFile(files[k])
    BY <2>2
  <2>5. Claims(k) = {} => own(k) = Last(Resolve(<<scans[k]>>))
    OBVIOUS
  <2>6. Claims(k) # {} => \E c \in Claims(k) : own(k) = Last(Resolve(<<scans[c], scans[k]>>))
    OBVIOUS
  <2> HIDE DEF files, scans, photos, Claims, clear, own
  <2>7. ClaimedOnce(scans, k)
    <3>1. IsFiniteSet(DOMAIN scans)
      BY <2>3, FS_Interval
    <3>2. IsFiniteSet(Claimed(scans, k))
      BY <3>1, FS_Subset DEF Claimed
    <3> QED
      BY <2>2, <3>2, ClaimsAreEqual DEF ClaimedOnce
  <2>8. DOMAIN scans \subseteq Nat \ {0}
    BY <2>3
  <2>9. own(k) = ResolveOne(scans, k)
    <3>1. /\ Claimed(scans, k) = {} => ResolveOne(<<scans[k]>>, 1) = ResolveOne(scans, k)
          /\ \A c \in Claimed(scans, k) :
                ResolveOne(<<scans[c], scans[k]>>, 2) = ResolveOne(scans, k)
      BY <2>2, <2>7, <2>8, OthersAreNothing
    <3>2. CASE Claims(k) = {}
      <4>1. own(k) = ResolveOne(<<scans[k]>>, 1)
        BY <2>5, <3>2 DEF Last, Resolve
      <4> QED
        BY <2>2, <3>1, <3>2, <4>1
    <3>3. CASE Claims(k) # {}
      <4>1. PICK c \in Claims(k) : own(k) = Last(Resolve(<<scans[c], scans[k]>>))
        BY <2>6, <3>3
      <4>2. own(k) = ResolveOne(<<scans[c], scans[k]>>, 2)
        BY <4>1 DEF Last, Resolve
      <4> QED
        BY <2>2, <3>1, <4>2
    <3> QED
      BY <3>2, <3>3
  <2>10. ASSUME NEW order \in Bijection(DOMAIN files, DOMAIN files)
         PROVE  Reordered(order)[CHOOSE n \in DOMAIN files : order[n] = k] = own(k)
    <3> DEFINE t == [n \in DOMAIN scans |-> scans[order[n]]]
               m == CHOOSE n \in DOMAIN files : order[n] = k
    <3>1. t = [n \in DOMAIN scans |-> scans[order[n]]] /\ Reordered(order) = Resolve(t)
      BY <2>3
    <3>2. order \in Bijection(DOMAIN scans, DOMAIN scans)
      BY <2>3
    <3>3. \E n \in DOMAIN files : order[n] = k
      BY <2>2, <2>3 DEF Bijection, Surjection
    <3>4. m \in DOMAIN files /\ order[m] = k
      BY <3>3
    <3>5. Resolve(t)[m] = ResolveOne(t, m)
      BY <2>3, <3>4 DEF Resolve
    <3> HIDE DEF t, m
    <3>6. m \in DOMAIN scans /\ scans[order[m]].kind = "photo" /\ ClaimedOnce(scans, order[m])
      BY <2>2, <2>3, <2>7, <3>4
    <3>7. ResolveOne(t, m) = ResolveOne(scans, order[m])
      BY <2>2, <2>8, <3>1, <3>2, <3>6, OrderIsNothing
    <3>8. Reordered(order)[m] = own(k)
      BY <2>9, <3>1, <3>4, <3>5, <3>7
    <3> QED
      BY <3>8 DEF m
  <2>11. own(k).verdict = "fix" /\ scans[k].meta.pos # None => own(k).pos = scans[k].meta.pos
    BY <2>2, <2>4, <2>9, PlaceIsThePhotos
  <2> QED
    BY <2>10, <2>11
<1> QED
  BY <1>1, AlwaysChosen, PTL

-----------------------------------------------------------------------------
(* What is read one after the other.                                         *)

LEMMA Least ==
    ASSUME NEW N, N \subseteq Nat, N # {}
    PROVE  \E n \in N : \A m \in N : n <= m
<1>1. PICK n \in N : \A m \in N : ~(<<m, n>> \in OpToRel(<, Nat))
  BY NatLessThanWellFounded, WFMin
<1>2. \A a, b \in Nat : a < b => <<a, b>> \in OpToRel(<, Nat)
  BY DEF OpToRel
<1>3. \A m \in N : m \in Nat /\ n \in Nat /\ ~(m < n)
  BY <1>1, <1>2
<1> QED
  BY <1>3

\* What each index makes of the one before it, every index has.
LEMMA StepByStep ==
    ASSUME NEW n \in Nat, NEW N, 0 \in N, \A i \in 1 .. n : i - 1 \in N => i \in N
    PROVE  0 .. n \subseteq N
<1> DEFINE M == {i \in Nat : i <= n /\ i \notin N}
<1> SUFFICES ASSUME M # {} PROVE FALSE
  OBVIOUS
<1>1. PICK i \in M : \A m \in M : i <= m
  <2>1. M \subseteq Nat
    OBVIOUS
  <2> HIDE DEF M
  <2> QED
    BY <2>1, Least
<1>2. i \in 1 .. n /\ i - 1 \in Nat /\ i - 1 \notin M
  BY <1>1
<1>3. i - 1 \in N
  BY <1>2
<1> QED
  BY <1>2, <1>3

\* A function by recursion over the first n numbers: G says where each index
\* leads from the value before it.
IsWalk(f, n, base, G) == f[0] = base /\ \A i \in 1 .. n : f[i] = G[<<f[i - 1], i>>]

LEMMA WalkExists ==
    ASSUME NEW n \in Nat, NEW X, NEW base \in X, NEW G \in [X \X (1 .. n) -> X]
    PROVE  \E f \in [0 .. n -> X] : IsWalk(f, n, base, G)
<1> DEFINE N == {m \in 0 .. n : \E f \in [0 .. m -> X] : IsWalk(f, m, base, G)}
<1>1. 0 \in N
  <2> DEFINE f == [i \in 0 .. 0 |-> base]
  <2>1. f \in [0 .. 0 -> X] /\ IsWalk(f, 0, base, G)
    BY DEF IsWalk
  <2> HIDE DEF f
  <2> QED
    BY <2>1
<1>2. ASSUME NEW m \in 1 .. n, m - 1 \in N PROVE m \in N
  <2>1. PICK f \in [0 .. m - 1 -> X] : IsWalk(f, m - 1, base, G)
    BY <1>2
  <2> DEFINE h == [i \in 0 .. m |-> IF i = m THEN G[<<f[m - 1], m>>] ELSE f[i]]
  <2>2. \A i \in 0 .. m : i = m \/ i \in 0 .. m - 1
    OBVIOUS
  <2>3. h \in [0 .. m -> X]
    <3>1. f[m - 1] \in X
      BY <2>1
    <3>2. G[<<f[m - 1], m>>] \in X
      BY <3>1
    <3> QED
      BY <2>1, <2>2, <3>2
  <2>4. h[0] = base
    BY <2>1 DEF IsWalk
  <2>5. ASSUME NEW i \in 1 .. m PROVE h[i] = G[<<h[i - 1], i>>]
    <3>1. i - 1 \in 0 .. m /\ i - 1 # m /\ i \in 0 .. m
      OBVIOUS
    <3>2. h[i - 1] = f[i - 1]
      BY <3>1
    <3>3. CASE i = m
      BY <3>1, <3>2, <3>3
    <3>4. CASE i # m
      <4>1. i \in 1 .. m - 1
        BY <3>4
      <4>2. f[i] = G[<<f[i - 1], i>>]
        BY <2>1, <4>1 DEF IsWalk
      <4> QED
        BY <3>1, <3>2, <3>4, <4>2
    <3> QED
      BY <3>3, <3>4
  <2>6. IsWalk(h, m, base, G)
    BY <2>4, <2>5 DEF IsWalk
  <2> HIDE DEF h
  <2> QED
    BY <2>3, <2>6
<1>3. n \in N
  <2> HIDE DEF N
  <2> QED
    BY <1>1, <1>2, StepByStep
<1> QED
  BY <1>3

ReadsOf(R) == [rows : Seq(R), skipped : Nat]

\* One result of reading behind another.
Both(x, y) == Read(x.rows \o y.rows, x.skipped + y.skipped)

LEMMA BothType ==
    ASSUME NEW R, NEW x \in ReadsOf(R), NEW y \in ReadsOf(R)
    PROVE  Both(x, y) \in ReadsOf(R)
<1>1. x.rows \o y.rows \in Seq(R) /\ x.skipped + y.skipped \in Nat
  BY DEF ReadsOf
<1> QED
  BY <1>1 DEF Both, Read, ReadsOf

\* What has been read up to each.
CollectsUpTo(upto, reads) ==
    upto[0] = Nothing /\ \A k \in 1 .. Len(reads) : upto[k] = Both(upto[k - 1], reads[k])

LEMMA CollectIs ==
    ASSUME NEW R, NEW reads \in Seq(ReadsOf(R))
    PROVE  \E upto \in [0 .. Len(reads) -> ReadsOf(R)] :
                CollectsUpTo(upto, reads) /\ Collect(reads) = upto[Len(reads)]
<1> DEFINE n == Len(reads)
           X == ReadsOf(R)
           Collects(f) == f = [k \in 0 .. n |-> IF k = 0 THEN Nothing ELSE Both(f[k - 1], reads[k])]
           G == [p \in X \X (1 .. n) |-> Both(p[1], reads[p[2]])]
<1>1. n \in Nat /\ \A k \in 1 .. n : reads[k] \in X
  OBVIOUS
<1>2. Nothing \in X
  BY DEF Nothing, Read, ReadsOf
<1> HIDE DEF n, X
<1>3. \A p \in X \X (1 .. n) : p[1] \in X /\ p[2] \in 1 .. n
  OBVIOUS
<1>4. G \in [X \X (1 .. n) -> X]
  <2>1. \A p \in X \X (1 .. n) : Both(p[1], reads[p[2]]) \in X
    BY <1>1, <1>3, BothType DEF X
  <2> QED
    BY <2>1
<1>5. PICK f \in [0 .. n -> X] : IsWalk(f, n, Nothing, G)
  <2> HIDE DEF G
  <2> QED
    BY <1>1, <1>2, <1>4, WalkExists
<1>6. ASSUME NEW k \in 1 .. n PROVE f[k] = Both(f[k - 1], reads[k])
  <2>1. k - 1 \in 0 .. n
    BY <1>1
  <2>2. <<f[k - 1], k>> \in X \X (1 .. n)
    BY <2>1
  <2>3. G[<<f[k - 1], k>>] = Both(f[k - 1], reads[k])
    BY <2>2
  <2> HIDE DEF G
  <2> QED
    BY <1>5, <2>3 DEF IsWalk
<1>7. Collects(f)
  <2> HIDE DEF G
  <2>1. \A k \in 0 .. n : k = 0 \/ k \in 1 .. n
    BY <1>1
  <2>2. \A k \in 0 .. n : f[k] = IF k = 0 THEN Nothing ELSE Both(f[k - 1], reads[k])
    BY <1>1, <1>5, <1>6, <2>1 DEF IsWalk
  <2> QED
    BY <2>2
<1> DEFINE upto == CHOOSE h : Collects(h)
<1>8. Collect(reads) = upto[n]
  BY DEF Collect, Both, n
<1>9. Collects(upto)
  <2> HIDE DEF Collects
  <2> QED
    BY <1>7
<1> HIDE DEF upto
<1>10. upto[0] = Nothing /\ \A k \in 1 .. n : upto[k] = Both(upto[k - 1], reads[k])
  <2>1. 0 \in 0 .. n /\ \A k \in 1 .. n : k \in 0 .. n /\ k # 0
    BY <1>1
  <2> QED
    BY <1>9, <2>1
<1>11. upto \in [0 .. n -> X]
  <2> DEFINE N == {k \in 0 .. n : upto[k] \in X}
  <2>1. 0 \in N
    BY <1>1, <1>2, <1>10
  <2>2. ASSUME NEW k \in 1 .. n, k - 1 \in N PROVE k \in N
    <3>1. upto[k - 1] \in X /\ reads[k] \in X /\ k \in 0 .. n
      BY <1>1, <2>2
    <3>2. Both(upto[k - 1], reads[k]) \in X
      BY <3>1, BothType DEF X
    <3> QED
      BY <1>10, <3>1, <3>2
  <2>3. 0 .. n \subseteq N
    <3> HIDE DEF N, Collects
    <3> QED
      BY <1>1, <2>1, <2>2, StepByStep
  <2>4. upto = [k \in 0 .. n |-> upto[k]]
    BY <1>9
  <2> HIDE DEF Collects
  <2> QED
    BY <2>3, <2>4
<1> HIDE DEF Collects
<1> QED
  BY <1>8, <1>10, <1>11 DEF CollectsUpTo, n, X

\* One skip less, and the rest the same.
OneSkipLess(x, y) == x.rows = y.rows /\ x.skipped + 1 = y.skipped

LEMMA LessBehind ==
    ASSUME NEW R, NEW x \in ReadsOf(R), NEW y \in ReadsOf(R), NEW z \in ReadsOf(R), OneSkipLess(y, z)
    PROVE  OneSkipLess(Both(x, y), Both(x, z)) /\ OneSkipLess(Both(y, x), Both(z, x))
<1>1. x.skipped \in Nat /\ y.skipped \in Nat /\ y.rows = z.rows /\ z.skipped = y.skipped + 1
  BY DEF ReadsOf, OneSkipLess
<1>2. x.skipped + z.skipped = x.skipped + y.skipped + 1 /\ z.skipped + x.skipped = y.skipped + x.skipped + 1
  BY <1>1
<1> QED
  BY <1>1, <1>2 DEF OneSkipLess, Both, Read

LEMMA UnusableIsSkipped ==
    ASSUME NEW R, NEW x \in ReadsOf(R)
    PROVE  Unusable \in ReadsOf(R) /\ OneSkipLess(x, Both(x, Unusable))
<1>1. x.rows \in Seq(R) /\ x.skipped \in Nat /\ x.rows \o <<>> = x.rows
  BY DEF ReadsOf
<1> QED
  BY <1>1 DEF OneSkipLess, Both, Read, Unusable, ReadsOf

LEMMA OneReadLess ==
    ASSUME NEW R, NEW q \in Seq(ReadsOf(R)), NEW r \in Seq(ReadsOf(R)), Len(q) = Len(r),
           NEW m \in 1 .. Len(r), OneSkipLess(q[m], r[m]),
           \A k \in 1 .. Len(r) : k # m => q[k] = r[k]
    PROVE  OneSkipLess(Collect(q), Collect(r))
<1> DEFINE n == Len(r)
<1>1. n \in Nat /\ m \in 1 .. n /\ \A k \in 1 .. n : q[k] \in ReadsOf(R) /\ r[k] \in ReadsOf(R)
  OBVIOUS
<1>2. PICK uq \in [0 .. n -> ReadsOf(R)] : CollectsUpTo(uq, q) /\ Collect(q) = uq[n]
  BY CollectIs
<1>3. PICK ur \in [0 .. n -> ReadsOf(R)] : CollectsUpTo(ur, r) /\ Collect(r) = ur[n]
  BY CollectIs
<1> DEFINE N == {k \in 0 .. n : IF k < m THEN uq[k] = ur[k] ELSE OneSkipLess(uq[k], ur[k])}
<1>4. 0 \in N
  BY <1>1, <1>2, <1>3 DEF CollectsUpTo
<1>5. ASSUME NEW k \in 1 .. n, k - 1 \in N PROVE k \in N
  <2>1. uq[k] = Both(uq[k - 1], q[k]) /\ ur[k] = Both(ur[k - 1], r[k])
    BY <1>2, <1>3 DEF CollectsUpTo
  <2>2. k - 1 \in 0 .. n /\ uq[k - 1] \in ReadsOf(R) /\ ur[k - 1] \in ReadsOf(R)
    BY <1>1
  <2>3. CASE k < m
    BY <1>1, <1>5, <2>1, <2>3
  <2>4. CASE k = m
    <3>1. uq[k - 1] = ur[k - 1]
      BY <1>1, <1>5, <2>4
    <3>2. OneSkipLess(uq[k], ur[k])
      BY <1>1, <2>1, <2>2, <2>4, <3>1, LessBehind
    <3> QED
      BY <1>1, <2>4, <3>2
  <2>5. CASE k > m
    <3>1. OneSkipLess(uq[k - 1], ur[k - 1]) /\ q[k] = r[k]
      BY <1>1, <1>5, <2>5
    <3>2. OneSkipLess(uq[k], ur[k])
      BY <1>1, <2>1, <2>2, <3>1, LessBehind
    <3> QED
      BY <1>1, <2>5, <3>2
  <2> QED
    BY <1>1, <2>3, <2>4, <2>5
<1>6. 0 .. n \subseteq N
  <2> HIDE DEF N, n
  <2> QED
    BY <1>1, <1>4, <1>5, StepByStep
<1>7. n \in N /\ ~(n < m)
  BY <1>1, <1>6
<1> QED
  BY <1>2, <1>3, <1>7

LEMMA OneReadLeftOut ==
    ASSUME NEW R, NEW q \in Seq(ReadsOf(R)), NEW r \in Seq(ReadsOf(R)), Len(r) = Len(q) + 1,
           NEW m \in 1 .. Len(r), r[m] = Unusable,
           \A k \in 1 .. Len(q) : q[k] = r[IF k < m THEN k ELSE k + 1]
    PROVE  OneSkipLess(Collect(q), Collect(r))
<1> DEFINE n == Len(q)
<1>1. /\ n \in Nat /\ m \in 1 .. n + 1
      /\ \A k \in 1 .. n : q[k] \in ReadsOf(R)
      /\ \A k \in 1 .. n + 1 : r[k] \in ReadsOf(R)
  OBVIOUS
<1>2. PICK uq \in [0 .. n -> ReadsOf(R)] : CollectsUpTo(uq, q) /\ Collect(q) = uq[n]
  BY CollectIs
<1>3. PICK ur \in [0 .. n + 1 -> ReadsOf(R)] : CollectsUpTo(ur, r) /\ Collect(r) = ur[n + 1]
  BY CollectIs
<1> DEFINE N == {k \in 0 .. n : IF k < m - 1 THEN uq[k] = ur[k] ELSE OneSkipLess(uq[k], ur[k + 1])}
<1>4. 0 \in N
  <2>1. uq[0] = ur[0] /\ ur[0] \in ReadsOf(R) /\ 0 \in 0 .. n
    BY <1>1, <1>2, <1>3 DEF CollectsUpTo
  <2>2. CASE m = 1
    <3>1. ur[1] = Both(ur[0], Unusable)
      BY <1>1, <1>3, <2>2 DEF CollectsUpTo
    <3> QED
      BY <2>1, <2>2, <3>1, UnusableIsSkipped
  <2> QED
    BY <1>1, <2>1, <2>2
<1>5. ASSUME NEW k \in 1 .. n, k - 1 \in N PROVE k \in N
  <2>1. uq[k] = Both(uq[k - 1], q[k]) /\ ur[k] = Both(ur[k - 1], r[k])
        /\ ur[k + 1] = Both(ur[k], r[k + 1])
    <3>1. k \in 1 .. Len(q) /\ k \in 1 .. Len(r) /\ k + 1 \in 1 .. Len(r) /\ (k + 1) - 1 = k
      BY <1>1
    <3> QED
      BY <1>2, <1>3, <3>1 DEF CollectsUpTo
  <2>2. k - 1 \in 0 .. n /\ k \in 0 .. n + 1 /\ uq[k - 1] \in ReadsOf(R) /\ ur[k] \in ReadsOf(R)
        /\ q[k] = r[IF k < m THEN k ELSE k + 1]
    BY <1>1, SMTT(30)
  <2>3. CASE k < m
    <3>1. uq[k - 1] = ur[k - 1] /\ uq[k] = ur[k]
      BY <1>1, <1>5, <2>1, <2>2, <2>3
    <3>2. k = m - 1 => r[k + 1] = Unusable
      BY <1>1
    <3>3. k = m - 1 => OneSkipLess(uq[k], ur[k + 1])
      BY <2>1, <2>2, <3>1, <3>2, UnusableIsSkipped
    <3> QED
      BY <1>1, <2>3, <3>1, <3>3
  <2>4. CASE ~(k < m)
    <3>1. OneSkipLess(uq[k - 1], ur[k]) /\ q[k] = r[k + 1]
      BY <1>1, <1>5, <2>2, <2>4
    <3>2. OneSkipLess(uq[k], ur[k + 1])
      BY <1>1, <2>1, <2>2, <3>1, LessBehind
    <3> QED
      BY <1>1, <2>4, <3>2
  <2> QED
    BY <2>3, <2>4
<1>6. 0 .. n \subseteq N
  <2> HIDE DEF N, n
  <2> QED
    BY <1>1, <1>4, <1>5, StepByStep
<1>7. n \in N /\ ~(n < m - 1)
  <2>1. n \in 0 .. n /\ ~(n < m - 1)
    BY <1>1
  <2> HIDE DEF N, n
  <2> QED
    BY <1>6, <2>1
<1> HIDE DEF N
<1>8. OneSkipLess(uq[n], ur[n + 1])
  BY <1>7 DEF N
<1> QED
  BY <1>2, <1>3, <1>8

-----------------------------------------------------------------------------
(* The first rule that holds.                                                *)

FirstAt(rules, n) ==
    /\ n \in 1 .. Len(rules) /\ rules[n].when
    /\ \A m \in 1 .. Len(rules) : m < n => ~rules[m].when

LEMMA FirstIs == ASSUME NEW rules, NEW n \in Nat, FirstAt(rules, n) PROVE FirstOf(rules) = rules[n].is
<1> DEFINE I == {i \in 1 .. Len(rules) : rules[i].when}
<1>1. n \in I /\ \A i \in I : n <= i
  BY DEF FirstAt
<1>2. Min(I) = n
  <2>1. \A i \in I : (\A k \in I : i <= k) => i <= n /\ n <= i
    BY <1>1
  <2>2. \A i \in I : i \in Int
    OBVIOUS
  <2> HIDE DEF I
  <2>3. \A i \in I : (\A k \in I : i <= k) => i = n
    BY <2>1, <2>2
  <2> QED
    BY <1>1, <2>3 DEF Min
<1>3. SelectInSeq(rules, LAMBDA r : r.when) = n
  BY <1>1, <1>2 DEF SelectInSeq
<1> QED
  BY <1>3 DEF FirstOf

LEMMA SomeIsFirst ==
    ASSUME NEW rules, NEW n \in Nat, n \in 1 .. Len(rules), rules[n].when
    PROVE  \E m \in 1 .. Len(rules) : FirstAt(rules, m) /\ FirstOf(rules) = rules[m].is
<1> DEFINE I == {i \in 1 .. Len(rules) : rules[i].when}
<1>1. n \in I /\ I \subseteq Nat
  OBVIOUS
<1>2. PICK m \in I : \A i \in I : m <= i
  <2> HIDE DEF I
  <2> QED
    BY <1>1, Least
<1>3. FirstAt(rules, m)
  BY <1>2 DEF FirstAt
<1> QED
  BY <1>3, FirstIs

\* What a file comes to, of what Parse has found of it.
FileVerdict(kind, lead, misshapen, end, foreign, read) ==
    FirstOf(<<
        If(kind # "ok", Rejected(kind)),
        If(lead # "object" \/ misshapen, Rejected("malformed-json")),
        If(end # "whole", Rejected(end)),
        If(foreign, Rejected("json-unrecognised")),
        If(TRUE, [format |-> PhoneTimelineFormat, rows |-> read.rows, skipped |-> read.skipped])>>)

\* A file counts as an export exactly when none of the rules before says no.
LEMMA ExportIs ==
    ASSUME NEW kind, NEW lead, NEW misshapen, NEW end, NEW foreign, NEW read,
           PhoneTimelineFormat \notin {kind, end},
           FileVerdict(kind, lead, misshapen, end, foreign, read).format = PhoneTimelineFormat
    PROVE  \A other : /\ FileVerdict(kind, lead, misshapen, end, foreign, other).rows = other.rows
                      /\ FileVerdict(kind, lead, misshapen, end, foreign, other).skipped = other.skipped
<1> DEFINE Rules(x) == <<
        If(kind # "ok", Rejected(kind)),
        If(lead # "object" \/ misshapen, Rejected("malformed-json")),
        If(end # "whole", Rejected(end)),
        If(foreign, Rejected("json-unrecognised")),
        If(TRUE, [format |-> PhoneTimelineFormat, rows |-> x.rows, skipped |-> x.skipped])>>
<1>1. \A x : Len(Rules(x)) = 5 /\ 1 .. 5 = {1, 2, 3, 4, 5}
  OBVIOUS
<1>2. \A x : \A m \in 1 .. 4 : Rules(x)[m] = Rules(read)[m]
  OBVIOUS
<1>3. \A m \in 1 .. 4 : Rules(read)[m].is.format # PhoneTimelineFormat
  BY DEF If, Rejected, PhoneTimelineFormat
<1>4. \A x : /\ Rules(x)[5].when
             /\ Rules(x)[5].is = [format |-> PhoneTimelineFormat, rows |-> x.rows, skipped |-> x.skipped]
  BY DEF If
<1>5. \A x : FileVerdict(kind, lead, misshapen, end, foreign, x) = FirstOf(Rules(x))
  BY DEF FileVerdict
<1> HIDE DEF Rules
<1>6. PICK m \in 1 .. 5 : FirstAt(Rules(read), m) /\ FirstOf(Rules(read)) = Rules(read)[m].is
  <2>1. 5 \in 1 .. Len(Rules(read)) /\ Rules(read)[5].when
    BY <1>1, <1>4
  <2> QED
    BY <1>1, <2>1, SomeIsFirst
<1>7. m = 5
  <2>1. m \in 1 .. 4 \/ m = 5
    OBVIOUS
  <2> QED
    BY <1>3, <1>5, <1>6, <2>1
<1>8. ASSUME NEW x PROVE FirstOf(Rules(x)) = Rules(x)[5].is
  <2>1. \A k \in 1 .. 5 : k < 5 => ~Rules(x)[k].when
    <3>1. \A k \in 1 .. 5 : k < 5 => k \in 1 .. 4
      OBVIOUS
    <3>2. \A k \in 1 .. 5 : k < 5 => ~Rules(read)[k].when
      BY <1>1, <1>6, <1>7 DEF FirstAt
    <3> QED
      BY <1>2, <3>1, <3>2
  <2>2. FirstAt(Rules(x), 5)
    BY <1>1, <1>4, <2>1 DEF FirstAt
  <2> QED
    BY <2>2, FirstIs
<1>9. ASSUME NEW x
      PROVE  FileVerdict(kind, lead, misshapen, end, foreign, x)
                = [format |-> PhoneTimelineFormat, rows |-> x.rows, skipped |-> x.skipped]
  <2>1. FirstOf(Rules(x)) = Rules(x)[5].is
    BY <1>8
  <2> QED
    BY <1>4, <1>5, <2>1, Zenon
<1> QED
  BY <1>9

LEMMA SniffIsNoFormat ==
    ASSUME NEW f, PhoneTimelineFormat \notin {f.lead, f.magic}
    PROVE  Sniff(f) # PhoneTimelineFormat
<1> DEFINE rules == <<
        If(f.lead = "empty", "empty"),
        If(f.magic # "none", f.magic),
        If(f.lead \in {"html", "kml", "xml", "binary", "not-json"}, f.lead),
        If({"semanticSegments", "rawSignals"} \intersect f.markers # {}, "ok"),
        If("timelineObjects" \in f.markers, "semantic-history"),
        If({"latitudeE7", "longitudeE7"} \intersect f.markers # {}, "records-json"),
        If(f.lead = "blank", "panic"),
        If(f.lead = "array" /\ "titleUrl" \in f.markers, "my-activity"),
        If(TRUE, "ok")>>
<1>1. Len(rules) = 9 /\ 1 .. 9 = {1, 2, 3, 4, 5, 6, 7, 8, 9} /\ rules[9].when
  BY DEF If
<1>2. \A m \in 1 .. 9 : rules[m].is # PhoneTimelineFormat
  BY <1>1 DEF If, PhoneTimelineFormat
<1>3. Sniff(f) = FirstOf(rules)
  BY DEF Sniff
<1> HIDE DEF rules
<1>4. \E m \in 1 .. 9 : FirstOf(rules) = rules[m].is
  BY <1>1, SomeIsFirst
<1> QED
  BY <1>2, <1>3, <1>4

-----------------------------------------------------------------------------
(* What the parts of a file come to.                                         *)

IsRead(x) == x \in ReadsOf(Range(x.rows))

AreReads(reads) == \E R : reads \in Seq(ReadsOf(R))

LEMMA FunctionsAreSequences ==
    ASSUME NEW S, NEW n \in Nat, NEW s \in [1 .. n -> S]
    PROVE  s \in Seq(S) /\ Len(s) = n
OBVIOUS

LEMMA OneRowIsRead == ASSUME NEW row PROVE IsRead(Read(<<row>>, 0)) /\ IsRead(Unusable) /\ IsRead(Nothing)
<1>1. <<row>> \in Seq(Range(<<row>>)) /\ <<>> \in Seq(Range(<<>>))
  BY DEF Range
<1> QED
  BY <1>1 DEF IsRead, ReadsOf, Read, Unusable, Nothing

LEMMA CollectedIsRead == ASSUME NEW reads, AreReads(reads) PROVE IsRead(Collect(reads))
<1>1. PICK R : reads \in Seq(ReadsOf(R))
  BY DEF AreReads
<1>2. Collect(reads) \in ReadsOf(R)
  <2>1. Len(reads) \in 0 .. Len(reads)
    BY <1>1
  <2> QED
    BY <1>1, <2>1, CollectIs
<1> DEFINE s == Collect(reads).rows
<1>3. s \in Seq(R) /\ Collect(reads) = [rows |-> s, skipped |-> Collect(reads).skipped]
      /\ Collect(reads).skipped \in Nat
  BY <1>2 DEF ReadsOf
<1> HIDE DEF s
<1>4. s \in Seq(Range(s))
  <2>1. Len(s) \in Nat /\ DOMAIN s = 1 .. Len(s) /\ s = [k \in 1 .. Len(s) |-> s[k]]
    BY <1>3
  <2>2. s \in [1 .. Len(s) -> Range(s)]
    BY <2>1 DEF Range
  <2> QED
    BY <2>1, <2>2, FunctionsAreSequences
<1>5. Collect(reads) \in ReadsOf(Range(s))
  BY <1>3, <1>4 DEF ReadsOf
<1> QED
  BY <1>5 DEF IsRead, s

LEMMA ReadsAreReads ==
    ASSUME NEW n \in Nat, NEW reads, reads = [k \in 1 .. n |-> reads[k]],
           \A k \in 1 .. n : IsRead(reads[k])
    PROVE  AreReads(reads) /\ Len(reads) = n
<1> DEFINE R == UNION {Range(reads[k].rows) : k \in 1 .. n}
<1>1. ASSUME NEW k \in 1 .. n PROVE reads[k] \in ReadsOf(R)
  <2>1. /\ reads[k].rows \in Seq(Range(reads[k].rows))
        /\ reads[k].skipped \in Nat
        /\ reads[k] = [rows |-> reads[k].rows, skipped |-> reads[k].skipped]
    BY DEF IsRead, ReadsOf
  <2>2. Range(reads[k].rows) \subseteq R
    OBVIOUS
  <2> HIDE DEF R
  <2>3. reads[k].rows \in Seq(R)
    BY <2>1, <2>2, SeqMonotonic
  <2> QED
    BY <2>1, <2>3 DEF ReadsOf
<1> HIDE DEF R
<1>2. reads \in [1 .. n -> ReadsOf(R)]
  BY <1>1
<1>3. reads \in Seq(ReadsOf(R)) /\ Len(reads) = n
  BY <1>2, FunctionsAreSequences
<1> QED
  BY <1>3 DEF AreReads

\* Two sequences of reads are over the rows of both.
LEMMA OverBoth ==
    ASSUME NEW q, NEW r, AreReads(q), AreReads(r)
    PROVE  \E R : q \in Seq(ReadsOf(R)) /\ r \in Seq(ReadsOf(R))
<1>1. PICK Q : q \in Seq(ReadsOf(Q))
  BY DEF AreReads
<1>2. PICK S : r \in Seq(ReadsOf(S))
  BY DEF AreReads
<1>3. ASSUME NEW V, NEW W, V \subseteq W PROVE ReadsOf(V) \subseteq ReadsOf(W)
  BY <1>3, SeqMonotonic DEF ReadsOf
<1>4. ReadsOf(Q) \subseteq ReadsOf(Q \union S) /\ ReadsOf(S) \subseteq ReadsOf(Q \union S)
  BY <1>3
<1>5. q \in Seq(ReadsOf(Q \union S)) /\ r \in Seq(ReadsOf(Q \union S))
  BY <1>1, <1>2, <1>4, SeqMonotonic
<1> QED
  BY <1>5

LEMMA WithoutOne ==
    ASSUME NEW S, NEW s \in Seq(S), NEW n \in 1 .. Len(s)
    PROVE  /\ RemoveAt(s, n) \in Seq(S)
           /\ Len(s) = Len(RemoveAt(s, n)) + 1
           /\ \A k \in 1 .. Len(RemoveAt(s, n)) : RemoveAt(s, n)[k] = s[IF k < n THEN k ELSE k + 1]
<1> DEFINE a == SubSeq(s, 1, n - 1)
           b == SubSeq(s, n + 1, Len(s))
<1>1. a \in Seq(S) /\ Len(a) = n - 1 /\ \A k \in 1 .. n - 1 : a[k] = s[k]
  OBVIOUS
<1>2. b \in Seq(S) /\ Len(b) = Len(s) - n /\ \A k \in 1 .. Len(s) - n : b[k] = s[n + k]
  OBVIOUS
<1>3. RemoveAt(s, n) = a \o b
  BY DEF RemoveAt
<1> HIDE DEF a, b
<1>4. Len(a \o b) = Len(s) - 1 /\ a \o b \in Seq(S)
  <2>1. Len(a \o b) = Len(a) + Len(b) /\ a \o b \in Seq(S)
    BY <1>1, <1>2, ConcatProperties
  <2>2. (n - 1) + (Len(s) - n) = Len(s) - 1
    OBVIOUS
  <2> QED
    BY <1>1, <1>2, <2>1, <2>2
<1>5. ASSUME NEW k \in 1 .. Len(s) - 1 PROVE (a \o b)[k] = s[IF k < n THEN k ELSE k + 1]
  <2>1. CASE k < n
    BY <1>1, <1>2, <2>1
  <2>2. CASE ~(k < n)
    <3>1. k - (n - 1) \in 1 .. Len(s) - n /\ n + (k - (n - 1)) = k + 1
      BY <2>2
    <3>2. (a \o b)[k] = b[k - (n - 1)]
      BY <1>1, <1>2, <2>2
    <3> QED
      BY <1>2, <2>2, <3>1, <3>2
  <2> QED
    BY <2>1, <2>2
<1> QED
  BY <1>3, <1>4, <1>5

IsSequence(s) == s \in Seq(Range(s))

IsEntry(e) ==
    /\ e = [has |-> e.has, start |-> e.start, end |-> e.end, loc |-> e.loc, what |-> e.what,
            path |-> e.path]
    /\ IsSequence(e.path)

IsSection(s) ==
    /\ s = [key |-> s.key, array |-> s.array, entries |-> s.entries]
    /\ IsSequence(s.entries)
    /\ \A n \in DOMAIN s.entries : IsEntry(s.entries[n])

LEMMA FileParts ==
    ASSUME NEW f, IsFile(f)
    PROVE  /\ f = [lead |-> f.lead, magic |-> f.magic, markers |-> f.markers,
                   sections |-> f.sections, end |-> f.end]
           /\ PhoneTimelineFormat \notin {f.lead, f.magic, f.end}
           /\ IsSequence(f.sections)
           /\ \A k \in DOMAIN f.sections : IsSection(f.sections[k])
<1>1. \A k \in DOMAIN f.sections : f.sections[k] \in Range(f.sections)
  BY DEF Range
<1>2. \A s \in Range(f.sections) : \A n \in DOMAIN s.entries : s.entries[n] \in Range(s.entries)
  BY DEF Range
<1>3. ASSUME NEW s \in Range(f.sections) PROVE IsSection(s)
  BY <1>2 DEF IsFile, IsSection, IsEntry, IsSequence
<1> QED
  BY <1>1, <1>3 DEF IsFile, IsSequence

LEMMA SequencesHaveLength ==
    ASSUME NEW s, IsSequence(s)
    PROVE  Len(s) \in Nat /\ DOMAIN s = 1 .. Len(s) /\ s = [k \in 1 .. Len(s) |-> s[k]]
BY DEF IsSequence

LEMMA ListsAreSequences ==
    ASSUME NEW n \in Nat, NEW s, s = [k \in 1 .. n |-> s[k]]
    PROVE  IsSequence(s) /\ Len(s) = n
<1>1. s \in [1 .. n -> Range(s)]
  BY DEF Range
<1> QED
  BY <1>1, FunctionsAreSequences DEF IsSequence

LEMMA PathIsRead ==
    ASSUME NEW path, IsSequence(path), NEW reads, reads = [k \in DOMAIN path |-> ReadPoint(path[k])]
    PROVE  AreReads(reads) /\ Len(reads) = Len(path) /\ IsRead(ReadPath(path))
<1>1. Len(path) \in Nat /\ DOMAIN path = 1 .. Len(path)
  BY SequencesHaveLength
<1>2. \A k \in 1 .. Len(path) : reads[k] = ReadPoint(path[k])
  BY <1>1
<1>3. \A k \in 1 .. Len(path) : IsRead(ReadPoint(path[k]))
  BY OneRowIsRead DEF ReadPoint
<1>4. reads = [k \in 1 .. Len(path) |-> reads[k]]
  BY <1>1
<1>5. AreReads(reads) /\ Len(reads) = Len(path)
  BY <1>1, <1>2, <1>3, <1>4, ReadsAreReads
<1> QED
  BY <1>5, CollectedIsRead DEF ReadPath

LEMMA EntryIsRead == ASSUME NEW key, NEW e, IsEntry(e) PROVE IsRead(ReadEntry(key, e))
<1>1. \A table : IsRead(ReadStay(table, e))
  BY OneRowIsRead DEF ReadStay
<1>2. IsRead(ReadPath(e.path))
  BY PathIsRead DEF IsEntry
<1>3. IsRead(Nothing) /\ IsRead(Unusable)
  BY OneRowIsRead
<1>4. IsRead(ProcessSegment(e))
  <2> DEFINE rules == <<If("visit" \in e.has, ReadStay("visits", e)),
                        If("activity" \in e.has, ReadStay("activities", e)),
                        If("path" \in e.has, ReadPath(e.path)),
                        If(TRUE, Nothing)>>
  <2>1. Len(rules) = 4 /\ 1 .. 4 = {1, 2, 3, 4} /\ rules[4].when
    BY DEF If
  <2>2. \A m \in 1 .. 4 : IsRead(rules[m].is)
    BY <1>1, <1>2, <1>3, <2>1 DEF If
  <2>3. ProcessSegment(e) = FirstOf(rules)
    BY DEF ProcessSegment
  <2> HIDE DEF rules
  <2>4. \E m \in 1 .. 4 : FirstOf(rules) = rules[m].is
    BY <2>1, SomeIsFirst
  <2> QED
    BY <2>2, <2>3, <2>4
<1>5. IsRead(ReadSignal(e))
  BY <1>3, OneRowIsRead DEF ReadSignal
<1> QED
  BY <1>3, <1>4, <1>5 DEF ReadEntry

\* What is read of the entries of a section.
OfEntries(s) == [k \in DOMAIN s.entries |-> ReadEntry(s.key, s.entries[k])]

LEMMA SectionIsRead ==
    ASSUME NEW s, IsSection(s)
    PROVE  AreReads(OfEntries(s)) /\ Len(OfEntries(s)) = Len(s.entries) /\ IsRead(ReadSection(s))
<1> DEFINE reads == OfEntries(s)
<1>1. Len(s.entries) \in Nat /\ DOMAIN s.entries = 1 .. Len(s.entries)
  BY SequencesHaveLength DEF IsSection
<1>2. \A k \in 1 .. Len(s.entries) : reads[k] = ReadEntry(s.key, s.entries[k])
  BY <1>1 DEF OfEntries
<1>3. \A k \in 1 .. Len(s.entries) : IsRead(ReadEntry(s.key, s.entries[k]))
  BY <1>1, EntryIsRead DEF IsSection
<1>4. reads = [k \in 1 .. Len(s.entries) |-> reads[k]]
  BY <1>1 DEF OfEntries
<1> HIDE DEF reads
<1>5. AreReads(reads) /\ Len(reads) = Len(s.entries)
  <2>1. \A k \in 1 .. Len(s.entries) : IsRead(reads[k])
    BY <1>2, <1>3
  <2> QED
    BY <1>1, <1>4, <2>1, ReadsAreReads, ZenonT(40)
<1>6. ReadSection(s) = IF s.key \in Sections THEN Collect(reads) ELSE Nothing
  BY DEF ReadSection, OfEntries, reads
<1>7. IsRead(ReadSection(s))
  BY <1>5, <1>6, CollectedIsRead, OneRowIsRead
<1> QED
  BY <1>5, <1>7 DEF reads

\* A section whose entries are those of s, but for one, and one that costs one
\* skip less.
LEMMA OneEntryLess ==
    ASSUME NEW s, IsSection(s), s.key \in Sections, NEW t, IsSection(t), t.key = s.key,
           NEW n \in DOMAIN s.entries, NEW e, t.entries = [s.entries EXCEPT ![n] = e],
           OneSkipLess(ReadEntry(s.key, e), ReadEntry(s.key, s.entries[n]))
    PROVE  OneSkipLess(ReadSection(t), ReadSection(s))
<1> DEFINE q == OfEntries(t)
           r == OfEntries(s)
<1>1. Len(s.entries) \in Nat /\ DOMAIN s.entries = 1 .. Len(s.entries)
  BY SequencesHaveLength DEF IsSection
<1>2. DOMAIN t.entries = DOMAIN s.entries /\ Len(t.entries) \in Nat
      /\ DOMAIN t.entries = 1 .. Len(t.entries)
  BY SequencesHaveLength DEF IsSection
<1>3. Len(t.entries) = Len(s.entries)
  BY <1>1, <1>2
<1>4. \A k \in 1 .. Len(s.entries) : q[k] = ReadEntry(s.key, t.entries[k])
                                     /\ r[k] = ReadEntry(s.key, s.entries[k])
  BY <1>1, <1>2 DEF OfEntries
<1>5. AreReads(q) /\ AreReads(r) /\ Len(q) = Len(t.entries) /\ Len(r) = Len(s.entries)
  BY SectionIsRead
<1>6. ReadSection(t) = Collect(q) /\ ReadSection(s) = Collect(r)
  BY DEF ReadSection, OfEntries
<1>7. t.entries[n] = e /\ \A k \in DOMAIN s.entries : k # n => t.entries[k] = s.entries[k]
  OBVIOUS
<1> HIDE DEF q, r
<1>8. PICK R : q \in Seq(ReadsOf(R)) /\ r \in Seq(ReadsOf(R))
  BY <1>5, OverBoth
<1>9. n \in 1 .. Len(r) /\ Len(q) = Len(r) /\ OneSkipLess(q[n], r[n])
  BY <1>1, <1>3, <1>4, <1>5, <1>7
<1>10. \A k \in 1 .. Len(r) : k # n => q[k] = r[k]
  BY <1>1, <1>4, <1>5, <1>7
<1> QED
  <2>1. OneSkipLess(Collect(q), Collect(r))
    BY <1>8, <1>9, <1>10, OneReadLess, SMTT(30)
  <2> QED
    BY <1>6, <2>1

\* A section without one of its entries, which could not be used.
LEMMA OneEntryLeftOut ==
    ASSUME NEW s, IsSection(s), s.key \in Sections, NEW t, IsSection(t), t.key = s.key,
           NEW n \in DOMAIN s.entries, t.entries = RemoveAt(s.entries, n),
           ReadEntry(s.key, s.entries[n]) = Unusable
    PROVE  OneSkipLess(ReadSection(t), ReadSection(s))
<1> DEFINE q == OfEntries(t)
           r == OfEntries(s)
<1>1. Len(s.entries) \in Nat /\ DOMAIN s.entries = 1 .. Len(s.entries)
  BY SequencesHaveLength DEF IsSection
<1>2. Len(t.entries) \in Nat /\ DOMAIN t.entries = 1 .. Len(t.entries)
  BY SequencesHaveLength DEF IsSection
<1>3. /\ Len(s.entries) = Len(t.entries) + 1
      /\ \A k \in 1 .. Len(t.entries) : t.entries[k] = s.entries[IF k < n THEN k ELSE k + 1]
  BY <1>1, WithoutOne DEF IsSection, IsSequence
<1>4. /\ \A k \in 1 .. Len(t.entries) : q[k] = ReadEntry(s.key, t.entries[k])
      /\ \A k \in 1 .. Len(s.entries) : r[k] = ReadEntry(s.key, s.entries[k])
  BY <1>1, <1>2 DEF OfEntries
<1>5. AreReads(q) /\ AreReads(r) /\ Len(q) = Len(t.entries) /\ Len(r) = Len(s.entries)
  BY SectionIsRead
<1>6. ReadSection(t) = Collect(q) /\ ReadSection(s) = Collect(r)
  BY DEF ReadSection, OfEntries
<1> HIDE DEF q, r
<1>7. PICK R : q \in Seq(ReadsOf(R)) /\ r \in Seq(ReadsOf(R))
  BY <1>5, OverBoth
<1>8. n \in 1 .. Len(r) /\ Len(r) = Len(q) + 1 /\ r[n] = Unusable
  BY <1>1, <1>3, <1>4, <1>5
<1>9. ASSUME NEW k \in 1 .. Len(q) PROVE q[k] = r[IF k < n THEN k ELSE k + 1]
  <2>1. (IF k < n THEN k ELSE k + 1) \in 1 .. Len(s.entries)
    BY <1>1, <1>2, <1>3, <1>5
  <2> QED
    BY <1>3, <1>4, <1>5, <2>1
<1> QED
  BY <1>6, <1>7, <1>8, <1>9, OneReadLeftOut

\* A path without one of its points, whose time is none.
LEMMA OnePointLeftOut ==
    ASSUME NEW path, IsSequence(path), NEW m \in DOMAIN path, path[m].time = BadTime
    PROVE  IsSequence(RemoveAt(path, m)) /\ OneSkipLess(ReadPath(RemoveAt(path, m)), ReadPath(path))
<1> DEFINE p == RemoveAt(path, m)
           q == [k \in DOMAIN p |-> ReadPoint(p[k])]
           r == [k \in DOMAIN path |-> ReadPoint(path[k])]
<1>1. Len(path) \in Nat /\ DOMAIN path = 1 .. Len(path)
  BY SequencesHaveLength
<1>2. /\ p \in Seq(Range(path)) /\ Len(path) = Len(p) + 1
      /\ \A k \in 1 .. Len(p) : p[k] = path[IF k < m THEN k ELSE k + 1]
  <2>1. m \in 1 .. Len(path) /\ path \in Seq(Range(path))
    BY <1>1 DEF IsSequence
  <2> QED
    BY <2>1, WithoutOne
<1> HIDE DEF p
<1>3. IsSequence(p)
  <2>1. Len(p) \in Nat /\ p \in [1 .. Len(p) -> Range(p)]
    BY <1>2 DEF Range
  <2> QED
    BY <2>1, FunctionsAreSequences DEF IsSequence
<1>4. Len(p) \in Nat /\ DOMAIN p = 1 .. Len(p)
  BY <1>3, SequencesHaveLength
<1>5. /\ \A k \in 1 .. Len(p) : q[k] = ReadPoint(p[k])
      /\ \A k \in 1 .. Len(path) : r[k] = ReadPoint(path[k])
  BY <1>1, <1>4
<1>6. AreReads(q) /\ Len(q) = Len(p)
  BY <1>3, PathIsRead
<1>7. AreReads(r) /\ Len(r) = Len(path)
  BY PathIsRead
<1>8. ReadPath(p) = Collect(q) /\ ReadPath(path) = Collect(r)
  BY DEF ReadPath
<1> HIDE DEF q, r
<1>9. PICK R : q \in Seq(ReadsOf(R)) /\ r \in Seq(ReadsOf(R))
  BY <1>6, <1>7, OverBoth
<1>10. m \in 1 .. Len(r) /\ Len(r) = Len(q) + 1 /\ r[m] = Unusable
  BY <1>1, <1>2, <1>5, <1>6, <1>7 DEF ReadPoint
<1>11. ASSUME NEW k \in 1 .. Len(q) PROVE q[k] = r[IF k < m THEN k ELSE k + 1]
  <2>1. (IF k < m THEN k ELSE k + 1) \in 1 .. Len(path)
    BY <1>1, <1>2, <1>4, <1>6
  <2> QED
    BY <1>2, <1>5, <1>6, <2>1
<1>12. OneSkipLess(ReadPath(p), ReadPath(path))
  BY <1>8, <1>9, <1>10, <1>11, OneReadLeftOut
<1> QED
  BY <1>3, <1>12 DEF p

Misshapen(f) == \E s \in ToSet(f.sections) : s.key \in Sections /\ ~s.array

Foreign(f) == "semanticSegments" \notin {s.key : s \in ToSet(f.sections)}

OfSections(f) == [k \in DOMAIN f.sections |-> ReadSection(f.sections[k])]

LEMMA ParseIs ==
    ASSUME NEW f
    PROVE  Parse(f) = FileVerdict(Sniff(f), f.lead, Misshapen(f), f.end, Foreign(f), Collect(OfSections(f)))
BY DEF Parse, FileVerdict, Misshapen, Foreign, OfSections

LEMMA SectionsAreRead ==
    ASSUME NEW f, IsSequence(f.sections), \A k \in DOMAIN f.sections : IsSection(f.sections[k])
    PROVE  AreReads(OfSections(f)) /\ Len(OfSections(f)) = Len(f.sections)
<1> DEFINE reads == OfSections(f)
<1>1. Len(f.sections) \in Nat /\ DOMAIN f.sections = 1 .. Len(f.sections)
  BY SequencesHaveLength
<1>2. /\ \A k \in 1 .. Len(f.sections) : reads[k] = ReadSection(f.sections[k])
      /\ reads = [k \in 1 .. Len(f.sections) |-> reads[k]]
  BY <1>1 DEF OfSections
<1>3. \A k \in 1 .. Len(f.sections) : IsRead(ReadSection(f.sections[k]))
  BY <1>1, SectionIsRead
<1> HIDE DEF reads
<1>4. AreReads(reads) /\ Len(reads) = Len(f.sections)
  <2>1. \A k \in 1 .. Len(f.sections) : IsRead(reads[k])
    BY <1>2, <1>3
  <2> QED
    BY <1>1, <1>2, <2>1, ReadsAreReads, ZenonT(40)
<1> QED
  BY <1>4 DEF reads

\* An export but for one section, which costs one skip less.
LEMMA OneSectionLess ==
    ASSUME NEW f, IsFile(f), Parse(f).format = PhoneTimelineFormat, NEW k \in DOMAIN f.sections,
           NEW t, IsSection(t), t.key = f.sections[k].key, t.array = f.sections[k].array,
           OneSkipLess(ReadSection(t), ReadSection(f.sections[k])),
           NEW g, g = [lead |-> f.lead, magic |-> f.magic, markers |-> f.markers,
                       sections |-> [f.sections EXCEPT ![k] = t], end |-> f.end]
    PROVE  OneSkipLess(Parse(g), Parse(f))
<1>1. /\ g.lead = f.lead /\ g.magic = f.magic /\ g.markers = f.markers /\ g.end = f.end
      /\ g.sections = [f.sections EXCEPT ![k] = t]
  OBVIOUS
<1>2. /\ PhoneTimelineFormat \notin {f.lead, f.magic, f.end}
      /\ IsSequence(f.sections) /\ \A n \in DOMAIN f.sections : IsSection(f.sections[n])
  BY FileParts
<1>3. /\ DOMAIN g.sections = DOMAIN f.sections /\ g.sections[k] = t
      /\ \A n \in DOMAIN f.sections : n # k => g.sections[n] = f.sections[n]
  BY <1>1
<1>4. \A n \in DOMAIN f.sections : /\ g.sections[n].key = f.sections[n].key
                                   /\ g.sections[n].array = f.sections[n].array
                                   /\ IsSection(g.sections[n])
  BY <1>2, <1>3
<1>5. Len(f.sections) \in Nat /\ DOMAIN f.sections = 1 .. Len(f.sections)
      /\ f.sections = [n \in 1 .. Len(f.sections) |-> f.sections[n]]
  BY <1>2, SequencesHaveLength
<1>6. IsSequence(g.sections) /\ Len(g.sections) = Len(f.sections)
  <2>1. g.sections = [n \in 1 .. Len(f.sections) |-> g.sections[n]]
    BY <1>1, <1>5
  <2> QED
    BY <1>5, <2>1, ListsAreSequences
<1>7. Sniff(g) = Sniff(f)
  BY <1>1 DEF Sniff
<1>8. Misshapen(g) = Misshapen(f)
  <2>1. Misshapen(g) <=> \E n \in DOMAIN f.sections :
                            g.sections[n].key \in Sections /\ ~g.sections[n].array
    BY <1>3 DEF Misshapen, ToSet
  <2>2. Misshapen(f) <=> \E n \in DOMAIN f.sections :
                            f.sections[n].key \in Sections /\ ~f.sections[n].array
    BY DEF Misshapen, ToSet
  <2>3. Misshapen(g) \in BOOLEAN /\ Misshapen(f) \in BOOLEAN
    BY DEF Misshapen
  <2> QED
    BY <1>4, <2>1, <2>2, <2>3
<1>9. Foreign(g) = Foreign(f)
  <2>1. Foreign(g) <=> ~\E n \in DOMAIN f.sections : g.sections[n].key = "semanticSegments"
    BY <1>3 DEF Foreign, ToSet
  <2>2. Foreign(f) <=> ~\E n \in DOMAIN f.sections : f.sections[n].key = "semanticSegments"
    BY DEF Foreign, ToSet
  <2>3. Foreign(g) \in BOOLEAN /\ Foreign(f) \in BOOLEAN
    BY DEF Foreign
  <2> QED
    BY <1>4, <2>1, <2>2, <2>3
<1>10. OneSkipLess(Collect(OfSections(g)), Collect(OfSections(f)))
  <2> DEFINE q == OfSections(g)
             r == OfSections(f)
  <2>1. AreReads(q) /\ Len(q) = Len(f.sections)
    BY <1>3, <1>4, <1>6, SectionsAreRead
  <2>2. AreReads(r) /\ Len(r) = Len(f.sections)
    BY <1>2, SectionsAreRead
  <2>3. \A n \in DOMAIN f.sections : /\ q[n] = ReadSection(g.sections[n])
                                     /\ r[n] = ReadSection(f.sections[n])
    BY <1>3 DEF OfSections
  <2> HIDE DEF q, r
  <2>4. PICK R : q \in Seq(ReadsOf(R)) /\ r \in Seq(ReadsOf(R))
    BY <2>1, <2>2, OverBoth
  <2>5. k \in 1 .. Len(r) /\ Len(q) = Len(r) /\ OneSkipLess(q[k], r[k])
    BY <1>3, <1>5, <2>1, <2>2, <2>3
  <2>6. \A n \in 1 .. Len(r) : n # k => q[n] = r[n]
    BY <1>3, <1>5, <2>2, <2>3
  <2>7. OneSkipLess(Collect(q), Collect(r))
    BY <2>4, <2>5, <2>6, OneReadLess
  <2> QED
    BY <2>7 DEF q, r
<1>11. ASSUME NEW x
       PROVE  LET v == FileVerdict(Sniff(f), f.lead, Misshapen(f), f.end, Foreign(f), x)
              IN  v.rows = x.rows /\ v.skipped = x.skipped
  <2>1. PhoneTimelineFormat \notin {Sniff(f), f.end}
    BY <1>2, SniffIsNoFormat
  <2>2. Parse(f) = FileVerdict(Sniff(f), f.lead, Misshapen(f), f.end, Foreign(f), Collect(OfSections(f)))
    BY ParseIs
  <2>3. FileVerdict(Sniff(f), f.lead, Misshapen(f), f.end, Foreign(f), Collect(OfSections(f))).format
            = PhoneTimelineFormat
    BY <2>2
  <2> QED
    BY <2>1, <2>3, ExportIs
<1>12. Parse(f).rows = Collect(OfSections(f)).rows /\ Parse(f).skipped = Collect(OfSections(f)).skipped
  BY <1>11, ParseIs
<1>13. Parse(g) = FileVerdict(Sniff(f), f.lead, Misshapen(f), f.end, Foreign(f), Collect(OfSections(g)))
  BY <1>1, <1>7, <1>8, <1>9, ParseIs
<1>14. Parse(g).rows = Collect(OfSections(g)).rows /\ Parse(g).skipped = Collect(OfSections(g)).skipped
  BY <1>11, <1>13
<1> QED
  BY <1>10, <1>12, <1>14 DEF OneSkipLess

LEMMA SectionWithoutOne ==
    ASSUME NEW s, IsSection(s), NEW n \in DOMAIN s.entries, NEW t,
           t = [key |-> t.key, array |-> t.array, entries |-> t.entries],
           t.entries = RemoveAt(s.entries, n)
    PROVE  IsSection(t)
<1>1. Len(s.entries) \in Nat /\ DOMAIN s.entries = 1 .. Len(s.entries)
  BY SequencesHaveLength DEF IsSection
<1>2. /\ t.entries \in Seq(Range(s.entries)) /\ Len(s.entries) = Len(t.entries) + 1
      /\ \A k \in 1 .. Len(t.entries) : t.entries[k] = s.entries[IF k < n THEN k ELSE k + 1]
  <2>1. n \in 1 .. Len(s.entries) /\ s.entries \in Seq(Range(s.entries))
    BY <1>1 DEF IsSection, IsSequence
  <2> QED
    BY <2>1, WithoutOne, ZenonT(40)
<1>3. Len(t.entries) \in Nat /\ t.entries = [k \in 1 .. Len(t.entries) |-> t.entries[k]]
      /\ DOMAIN t.entries = 1 .. Len(t.entries)
  BY <1>2
<1>4. ASSUME NEW k \in DOMAIN t.entries PROVE IsEntry(t.entries[k])
  <2>1. (IF k < n THEN k ELSE k + 1) \in DOMAIN s.entries
    BY <1>1, <1>2, <1>3
  <2> QED
    BY <1>2, <1>3, <2>1 DEF IsSection
<1>5. IsSequence(t.entries)
  BY <1>3, ListsAreSequences
<1> QED
  BY <1>4, <1>5 DEF IsSection

LEMMA SectionWithAnother ==
    ASSUME NEW s, IsSection(s), NEW n \in DOMAIN s.entries, NEW e, IsEntry(e), NEW t,
           t = [key |-> t.key, array |-> t.array, entries |-> t.entries],
           t.entries = [s.entries EXCEPT ![n] = e]
    PROVE  IsSection(t)
<1>1. Len(s.entries) \in Nat /\ DOMAIN s.entries = 1 .. Len(s.entries)
  BY SequencesHaveLength DEF IsSection
<1>2. t.entries = [k \in 1 .. Len(s.entries) |-> t.entries[k]] /\ DOMAIN t.entries = DOMAIN s.entries
  BY <1>1
<1>3. IsSequence(t.entries)
  BY <1>1, <1>2, ListsAreSequences
<1>4. \A k \in DOMAIN s.entries : t.entries[k] = IF k = n THEN e ELSE s.entries[k]
  OBVIOUS
<1> QED
  BY <1>2, <1>3, <1>4 DEF IsSection

LEMMA AnotherPath ==
    ASSUME NEW e, NEW p,
           e = [has |-> e.has, start |-> e.start, end |-> e.end, loc |-> e.loc, what |-> e.what,
                path |-> e.path]
    PROVE  [e EXCEPT !.path = p] = [has |-> e.has, start |-> e.start, end |-> e.end, loc |-> e.loc,
                                    what |-> e.what, path |-> p]
OBVIOUS

LEMMA OtherEntries ==
    ASSUME NEW s, NEW es, s = [key |-> s.key, array |-> s.array, entries |-> s.entries]
    PROVE  [s EXCEPT !.entries = es] = [key |-> s.key, array |-> s.array, entries |-> es]
OBVIOUS

LEMMA OtherSections ==
    ASSUME NEW f, NEW ss,
           f = [lead |-> f.lead, magic |-> f.magic, markers |-> f.markers, sections |-> f.sections,
                end |-> f.end]
    PROVE  [f EXCEPT !.sections = ss]
                = [lead |-> f.lead, magic |-> f.magic, markers |-> f.markers, sections |-> ss,
                   end |-> f.end]
OBVIOUS

\* A segment that is a path and nothing else is read as one.
LEMMA PathsAreRead ==
    ASSUME NEW e, e.has = {"path"}
    PROVE  ReadEntry("semanticSegments", e) = ReadPath(e.path)
<1> DEFINE rules == <<If("visit" \in e.has, ReadStay("visits", e)),
                      If("activity" \in e.has, ReadStay("activities", e)),
                      If("path" \in e.has, ReadPath(e.path)),
                      If(TRUE, Nothing)>>
<1>1. Len(rules) = 4 /\ 1 .. 4 = {1, 2, 3, 4}
  OBVIOUS
<1>2. ~rules[1].when /\ ~rules[2].when /\ rules[3].when /\ rules[3].is = ReadPath(e.path)
  BY DEF If
<1>3. ReadEntry("semanticSegments", e) = FirstOf(rules)
  BY DEF ReadEntry, ProcessSegment
<1> HIDE DEF rules
<1>4. FirstAt(rules, 3)
  BY <1>1, <1>2 DEF FirstAt
<1> QED
  BY <1>2, <1>3, <1>4, FirstIs

\* An entry or a point that cannot be used costs itself and nothing else, in
\* whatever file: the file without it brings the same, with one less skipped.
THEOREM UnusableCostsOnlyItself == MCSpec => []SkippedCostsOnlyItself
<1>1. ASSUME Chosen PROVE SkippedCostsOnlyItself
  <2> SUFFICES ASSUME NEW i \in Cli, pc[i] = "begun", Parse(file[i]).format = PhoneTimelineFormat,
                      NEW k \in DOMAIN file[i].sections, file[i].sections[k].key \in Sections,
                      NEW n \in DOMAIN file[i].sections[k].entries
               PROVE
                LET f == file[i]
                    e == f.sections[k].entries[n]
                    Costs(g) == Parse(g).rows = Parse(f).rows /\ Parse(g).skipped + 1 = Parse(f).skipped
                IN  /\ ReadEntry(f.sections[k].key, e) = Unusable =>
                            Costs([f EXCEPT !.sections[k].entries = RemoveAt(@, n)])
                    /\ f.sections[k].key = "semanticSegments" /\ e.has = {"path"} =>
                            \A m \in DOMAIN e.path : e.path[m].time = BadTime =>
                                Costs([f EXCEPT !.sections[k].entries[n].path = RemoveAt(@, m)])
    BY DEF SkippedCostsOnlyItself
  <2> DEFINE f == file[i]
             s == f.sections[k]
             e == s.entries[n]
             With(t) == [lead |-> f.lead, magic |-> f.magic, markers |-> f.markers,
                         sections |-> [f.sections EXCEPT ![k] = t], end |-> f.end]
  <2>1. IsFile(f)
    <3>1. i \in Importers
      BY DEF Importers
    <3>2. f \in PlainFiles \union RichFiles
      BY <1>1, <3>1 DEF Chosen
    <3> QED
      BY <3>2, FilesAssumption
  <2>2. /\ f = [lead |-> f.lead, magic |-> f.magic, markers |-> f.markers, sections |-> f.sections,
                end |-> f.end]
        /\ IsSequence(f.sections) /\ IsSection(s)
    BY <2>1, FileParts
  <2>3. /\ IsEntry(e) /\ IsSequence(s.entries)
        /\ s = [key |-> s.key, array |-> s.array, entries |-> s.entries]
    BY <2>2 DEF IsSection
  <2>4. Parse(f).format = PhoneTimelineFormat /\ k \in DOMAIN f.sections /\ s.key \in Sections
        /\ n \in DOMAIN s.entries
    OBVIOUS
  <2>5. ASSUME ReadEntry(s.key, e) = Unusable
        PROVE  OneSkipLess(Parse([f EXCEPT !.sections[k].entries = RemoveAt(@, n)]), Parse(f))
    <3> DEFINE t == [key |-> s.key, array |-> s.array, entries |-> RemoveAt(s.entries, n)]
    <3>1. [f EXCEPT !.sections[k].entries = RemoveAt(@, n)] = With(t)
      BY <2>2, <2>3
    <3>2. t.key = s.key /\ t.array = s.array /\ t.entries = RemoveAt(s.entries, n)
          /\ t = [key |-> t.key, array |-> t.array, entries |-> t.entries]
      OBVIOUS
    <3> HIDE DEF f, s, e, t
    <3>3. IsSection(t)
      BY <2>2, <2>4, <3>2, SectionWithoutOne
    <3>4. OneSkipLess(ReadSection(t), ReadSection(s))
      BY <2>2, <2>4, <2>5, <3>2, <3>3, OneEntryLeftOut DEF e
    <3>5. OneSkipLess(Parse(With(t)), Parse(f))
      BY <2>1, <2>4, <3>2, <3>3, <3>4, OneSectionLess DEF s
    <3> QED
      BY <3>1, <3>5
  <2>6. ASSUME s.key = "semanticSegments", e.has = {"path"},
               NEW m \in DOMAIN e.path, e.path[m].time = BadTime
        PROVE  OneSkipLess(Parse([f EXCEPT !.sections[k].entries[n].path = RemoveAt(@, m)]), Parse(f))
    <3> DEFINE d == [has |-> e.has, start |-> e.start, end |-> e.end, loc |-> e.loc, what |-> e.what,
                     path |-> RemoveAt(e.path, m)]
               t == [key |-> s.key, array |-> s.array, entries |-> [s.entries EXCEPT ![n] = d]]
    <3>1. [f EXCEPT !.sections[k].entries[n].path = RemoveAt(@, m)] = With(t)
      <4>1. [e EXCEPT !.path = RemoveAt(@, m)] = d
        BY <2>3, AnotherPath DEF IsEntry
      <4>2. [s EXCEPT !.entries = [@ EXCEPT ![n] = d]] = t
        BY <2>3, OtherEntries
      <4>3. [f EXCEPT !.sections = [@ EXCEPT ![k] = t]] = With(t)
        BY <2>2, OtherSections
      <4> QED
        BY <4>1, <4>2, <4>3, Zenon
    <3>2. t.key = s.key /\ t.array = s.array /\ t.entries = [s.entries EXCEPT ![n] = d]
          /\ t = [key |-> t.key, array |-> t.array, entries |-> t.entries]
      OBVIOUS
    <3>3. d.has = {"path"} /\ d.path = RemoveAt(e.path, m)
          /\ d = [has |-> d.has, start |-> d.start, end |-> d.end, loc |-> d.loc, what |-> d.what,
                  path |-> d.path]
      BY <2>6
    <3> HIDE DEF f, s, e, d, t
    <3>4. IsSequence(d.path) /\ OneSkipLess(ReadPath(d.path), ReadPath(e.path))
      BY <2>3, <2>6, <3>3, OnePointLeftOut DEF IsEntry
    <3>5. OneSkipLess(ReadEntry(s.key, d), ReadEntry(s.key, e))
      BY <2>6, <3>3, <3>4, PathsAreRead
    <3>6. IsEntry(d)
      BY <3>3, <3>4 DEF IsEntry
    <3>7. IsSection(t)
      BY <2>2, <2>4, <3>2, <3>6, SectionWithAnother
    <3>8. OneSkipLess(ReadSection(t), ReadSection(s))
      BY <2>2, <2>4, <3>2, <3>5, <3>7, OneEntryLess DEF e
    <3>9. OneSkipLess(Parse(With(t)), Parse(f))
      BY <2>1, <2>4, <3>2, <3>7, <3>8, OneSectionLess DEF s
    <3> QED
      BY <3>1, <3>9
  <2> QED
    BY <2>5, <2>6 DEF OneSkipLess
<1> QED
  BY <1>1, AlwaysChosen, PTL

-----------------------------------------------------------------------------
(* What a photo without one of its entries comes to.                         *)

\* The entries of a tag that are read.
Kept(s, want, t) ==
    {n \in DOMAIN s : /\ n <= MaxEntries
                      /\ s[n].tag \in want /\ s[n].typ # "unknown" /\ s[n].val # Unlocated
                      /\ s[n].tag = t}

LastKept(s, want, t, n) == n \in Kept(s, want, t) /\ \A m \in Kept(s, want, t) : m <= n

LEMMA MaxIs == ASSUME NEW N, N \subseteq Int, NEW n \in N, \A m \in N : m <= n PROVE Max(N) = n
<1>1. \A m \in N : (\A k \in N : m >= k) => m = n
  OBVIOUS
<1>2. \A k \in N : n >= k
  OBVIOUS
<1> QED
  BY <1>1, <1>2 DEF Max

LEMMA LastExists ==
    ASSUME NEW s, NEW l \in Nat, DOMAIN s = 1 .. l, NEW want, NEW t, Kept(s, want, t) # {}
    PROVE  \E n \in 1 .. l : LastKept(s, want, t, n)
<1> DEFINE K == Kept(s, want, t)
           N == {MaxEntries - n : n \in K}
<1>1. \A n \in K : n \in 1 .. l /\ n <= MaxEntries
  BY DEF Kept
<1> HIDE DEF K
<1>2. N \subseteq Nat /\ N # {}
  BY <1>1, MetadataAssumption DEF K
<1>3. PICK m \in N : \A i \in N : m <= i
  <2> HIDE DEF N
  <2> QED
    BY <1>2, Least
<1>4. PICK n \in K : m = MaxEntries - n
  OBVIOUS
<1>5. \A k \in K : MaxEntries - n <= MaxEntries - k
  BY <1>3, <1>4
<1>6. \A k \in K : k <= n
  BY <1>1, <1>5, MetadataAssumption
<1> QED
  BY <1>1, <1>4, <1>6 DEF LastKept, K

LEMMA WalkIs ==
    ASSUME NEW s, NEW l \in Nat, DOMAIN s = 1 .. l, NEW want, NEW t
    PROVE  /\ Kept(s, want, t) = {} => t \notin DOMAIN WalkIFD(s, want)
           /\ \A n : LastKept(s, want, t, n) => t \in DOMAIN WalkIFD(s, want) /\ WalkIFD(s, want)[t] = s[n]
<1> DEFINE read == {n \in DOMAIN s : /\ n <= MaxEntries
                                     /\ s[n].tag \in want /\ s[n].typ # "unknown" /\ s[n].val # Unlocated}
<1>1. WalkIFD(s, want)
            = [u \in {s[n].tag : n \in read} |-> s[Max({n \in read : s[n].tag = u})]]
  BY DEF WalkIFD
<1>2. {n \in read : s[n].tag = t} = Kept(s, want, t)
  BY DEF Kept
<1>3. \A n \in read : s[n].tag = t <=> n \in Kept(s, want, t)
  BY <1>2
<1>4. \A n \in Kept(s, want, t) : n \in read /\ n \in Int
  BY DEF Kept
<1> HIDE DEF read
<1>5. ASSUME NEW n, LastKept(s, want, t, n) PROVE Max(Kept(s, want, t)) = n
  BY <1>4, <1>5, MaxIs DEF LastKept
<1>6. ASSUME NEW n, LastKept(s, want, t, n)
      PROVE  t \in DOMAIN WalkIFD(s, want) /\ WalkIFD(s, want)[t] = s[n]
  <2>1. n \in Kept(s, want, t)
    BY <1>6 DEF LastKept
  <2>2. t \in {s[k].tag : k \in read}
    BY <1>3, <1>4, <2>1
  <2>3. WalkIFD(s, want)[t] = s[Max(Kept(s, want, t))]
    BY <1>1, <1>2, <2>2
  <2> QED
    BY <1>1, <1>5, <1>6, <2>2, <2>3
<1>7. ASSUME Kept(s, want, t) = {} PROVE t \notin DOMAIN WalkIFD(s, want)
  BY <1>1, <1>3, <1>7
<1> QED
  BY <1>6, <1>7

LEMMA ValueIs ==
    ASSUME NEW s, NEW l \in Nat, DOMAIN s = 1 .. l, NEW want, NEW t, NEW types
    PROVE  /\ Kept(s, want, t) = {} => Value(WalkIFD(s, want), t, types) = None
           /\ \A n : LastKept(s, want, t, n) =>
                Value(WalkIFD(s, want), t, types)
                    = IF s[n].typ \in types /\ s[n].val # Garbage THEN s[n].val ELSE None
BY WalkIs, Zenon DEF Value

Behind(n, k) == IF k < n THEN k ELSE k + 1

\* b, of l entries, is a without its entry n, which is unusable.
WithoutBroken(a, b, l, n) ==
    /\ DOMAIN a = 1 .. l + 1 /\ DOMAIN b = 1 .. l /\ l + 1 <= MaxEntries
    /\ n \in 1 .. l + 1
    /\ \A k \in 1 .. l : b[k] = a[Behind(n, k)]
    /\ \/ a[n].val = Unlocated
       \/ a[n].val = Garbage /\ \A m \in 1 .. l + 1 : m < n => a[m].tag # a[n].tag

\* The same is read of both.
LEMMA BrokenIsAbsent ==
    ASSUME NEW a, NEW b, NEW l \in Nat, NEW n, WithoutBroken(a, b, l, n), NEW want, NEW t, NEW types
    PROVE  Value(WalkIFD(a, want), t, types) = Value(WalkIFD(b, want), t, types)
<1> USE DEF WithoutBroken
<1> DEFINE Ka == Kept(a, want, t)
           Kb == Kept(b, want, t)
<1>1. \A k \in 1 .. l : /\ Behind(n, k) \in 1 .. l + 1 /\ Behind(n, k) # n
                        /\ k <= MaxEntries /\ Behind(n, k) <= MaxEntries
  BY MetadataAssumption DEF Behind
<1>2. \A m \in 1 .. l + 1 : m # n => \E k \in 1 .. l : m = Behind(n, k)
  <2>1. ASSUME NEW m \in 1 .. l + 1, m < n PROVE m \in 1 .. l /\ m = Behind(n, m)
    BY <2>1 DEF Behind
  <2>2. ASSUME NEW m \in 1 .. l + 1, m > n PROVE m - 1 \in 1 .. l /\ m = Behind(n, m - 1)
    BY <2>2 DEF Behind
  <2> QED
    BY <2>1, <2>2
<1>3. \A j, k \in 1 .. l : j <= k => Behind(n, j) <= Behind(n, k)
  BY DEF Behind
<1>4. \A k \in 1 .. l : k \in Kb <=> Behind(n, k) \in Ka
  BY <1>1 DEF Kept
<1>5. Ka \subseteq 1 .. l + 1 /\ Kb \subseteq 1 .. l
  BY DEF Kept
<1>6. n \in Ka => a[n].val = Garbage /\ a[n].tag = t /\ \A m \in 1 .. l + 1 : m < n => a[m].tag # t
  BY DEF Kept
<1>7. \A m \in Ka : a[m].tag = t
  BY DEF Kept
<1>8. l + 1 \in Nat
  OBVIOUS
<1> HIDE DEF Ka, Kb
<1>9. CASE Kb = {}
  <2>1. Ka \subseteq {n}
    BY <1>2, <1>4, <1>5, <1>9
  <2>2. Value(WalkIFD(b, want), t, types) = None
    BY <1>9, ValueIs DEF Kb
  <2>3. CASE Ka = {}
    <3>1. Value(WalkIFD(a, want), t, types) = None
      BY <1>8, <2>3, ValueIs DEF Ka
    <3> QED
      BY <2>2, <3>1
  <2>4. CASE n \in Ka
    <3>1. LastKept(a, want, t, n)
      BY <2>1, <2>4 DEF LastKept, Ka
    <3>2. Value(WalkIFD(a, want), t, types) = None
      BY <1>6, <1>8, <2>4, <3>1, ValueIs
    <3> QED
      BY <2>2, <3>2
  <2> QED
    BY <2>1, <2>3, <2>4
<1>10. CASE Kb # {}
  <2>1. PICK k \in 1 .. l : LastKept(b, want, t, k)
    BY <1>10, LastExists DEF Kb
  <2> DEFINE j == Behind(n, k)
  <2>2. j \in Ka /\ j \in 1 .. l + 1 /\ j # n /\ b[k] = a[j]
    BY <1>1, <1>4, <2>1 DEF LastKept, Kb
  <2>3. ASSUME NEW m \in Ka PROVE m <= j
    <3>1. CASE m = n
      <4>1. a[j].tag = t
        BY <1>7, <2>2
      <4>2. ~(j < n)
        BY <1>6, <2>2, <3>1, <4>1
      <4> HIDE DEF j
      <4> QED
        BY <2>2, <3>1, <4>2
    <3>2. CASE m # n
      <4>1. PICK i \in 1 .. l : m = Behind(n, i)
        BY <1>2, <1>5, <3>2
      <4>2. i <= k
        BY <1>4, <2>1, <4>1 DEF LastKept, Kb
      <4> QED
        BY <1>3, <4>1, <4>2
    <3> QED
      BY <3>1, <3>2
  <2> HIDE DEF j
  <2>4. LastKept(a, want, t, j)
    BY <2>2, <2>3 DEF LastKept, Ka
  <2>5. Value(WalkIFD(a, want), t, types)
            = IF a[j].typ \in types /\ a[j].val # Garbage THEN a[j].val ELSE None
    BY <1>8, <2>4, ValueIs
  <2>6. Value(WalkIFD(b, want), t, types)
            = IF b[k].typ \in types /\ b[k].val # Garbage THEN b[k].val ELSE None
    BY <2>1, ValueIs
  <2> QED
    BY <2>2, <2>5, <2>6
<1> QED
  BY <1>9, <1>10

First == {"orientation", "exif", "gps"}
Times == {"dateTimeOriginal", "offsetTimeOriginal"}
Places == {"lat", "latRef", "lon", "lonRef", "dateStamp", "timeStamp"}

Pointers(E) == [tag : {"exif", "gps"}, typ : {"long"}, val : Seq(E)]

\* The directories of a photo, over entries E.
DirectoriesOf(E, p) == p.ifd0 \in Seq(E) /\ p.exif \in Seq(E) /\ p.gps \in Seq(E)

NoMarkers(E) == \A v \in {None, Unlocated, Garbage} : v \notin Seq(E \union Pointers(E))

LEMMA TiffIs ==
    ASSUME NEW E, NoMarkers(E), NEW p, DirectoriesOf(E, p)
    PROVE  /\ Len(p.ifd0) \in Nat /\ Len(Tiff(p)) = Len(p.ifd0) + 2 /\ Tiff(p) # None
           /\ DOMAIN Tiff(p) = 1 .. Len(p.ifd0) + 2
           /\ \A k \in 1 .. Len(p.ifd0) : Tiff(p)[k] = p.ifd0[k]
           /\ Tiff(p)[Len(p.ifd0) + 1] = Tag("exif", "long", p.exif)
           /\ Tiff(p)[Len(p.ifd0) + 2] = Tag("gps", "long", p.gps)
           /\ \A v \in {None, Unlocated, Garbage} : v \notin {p.exif, p.gps}
<1> DEFINE l == Len(p.ifd0)
           W == E \union Pointers(E)
           tail == <<Tag("exif", "long", p.exif), Tag("gps", "long", p.gps)>>
<1>1. p.ifd0 \in Seq(E) /\ p.exif \in Seq(E) /\ p.gps \in Seq(E)
  BY DEF DirectoriesOf
<1>2. Tag("exif", "long", p.exif) \in Pointers(E) /\ Tag("gps", "long", p.gps) \in Pointers(E)
  BY <1>1 DEF Tag, Pointers
<1>3. tail \in Seq(W) /\ Len(tail) = 2
      /\ tail[1] = Tag("exif", "long", p.exif) /\ tail[2] = Tag("gps", "long", p.gps)
  <2> HIDE DEF Tag
  <2> QED
    BY <1>2
<1>4. p.ifd0 \in Seq(W) /\ p.exif \in Seq(W) /\ p.gps \in Seq(W)
  <2>1. E \subseteq W
    OBVIOUS
  <2> HIDE DEF W
  <2> QED
    BY <1>1, <2>1, SeqMonotonic
<1>5. Tiff(p) = p.ifd0 \o tail
  BY DEF Tiff
<1> HIDE DEF tail
<1>6. \A v \in {None, Unlocated, Garbage} : v \notin Seq(W)
  BY DEF NoMarkers
<1> HIDE DEF W
<1>7. l \in Nat /\ p.ifd0 \o tail \in Seq(W) /\ Len(p.ifd0 \o tail) = l + 2
  <2>1. p.ifd0 \o tail \in Seq(W) /\ Len(p.ifd0 \o tail) = Len(p.ifd0) + Len(tail)
    BY <1>3, <1>4, ConcatProperties
  <2>2. l \in Nat
    BY <1>4
  <2> QED
    BY <1>3, <2>1, <2>2
<1>8. DOMAIN (p.ifd0 \o tail) = 1 .. l + 2
  BY <1>7
<1>9. \A k \in 1 .. l + 2 : (p.ifd0 \o tail)[k] = IF k <= l THEN p.ifd0[k] ELSE tail[k - l]
  BY <1>3, <1>4, <1>7, ConcatProperties
<1>10. /\ \A k \in 1 .. l : (p.ifd0 \o tail)[k] = p.ifd0[k]
       /\ (p.ifd0 \o tail)[l + 1] = tail[1]
       /\ (p.ifd0 \o tail)[l + 2] = tail[2]
  <2>1. /\ l + 1 \in 1 .. l + 2 /\ ~(l + 1 <= l) /\ (l + 1) - l = 1
        /\ l + 2 \in 1 .. l + 2 /\ ~(l + 2 <= l) /\ (l + 2) - l = 2
        /\ \A k \in 1 .. l : k \in 1 .. l + 2 /\ k <= l
    BY <1>7
  <2> QED
    BY <1>9, <2>1
<1> QED
  BY <1>3, <1>4, <1>5, <1>6, <1>7, <1>8, <1>10

LEMMA PointersAreFollowed ==
    ASSUME NEW E, NoMarkers(E), NEW p, DirectoriesOf(E, p), Len(p.ifd0) + 2 <= MaxEntries
    PROVE  /\ Pointed(WalkIFD(Tiff(p), First), "exif") = p.exif
           /\ Pointed(WalkIFD(Tiff(p), First), "gps") = p.gps
<1> DEFINE l == Len(p.ifd0)
           s == Tiff(p)
<1>1. /\ l \in Nat /\ DOMAIN s = 1 .. l + 2
      /\ s[l + 1] = Tag("exif", "long", p.exif) /\ s[l + 2] = Tag("gps", "long", p.gps)
      /\ \A v \in {None, Unlocated, Garbage} : v \notin {p.exif, p.gps}
  BY TiffIs
<1>2. l + 2 <= MaxEntries
  OBVIOUS
<1> HIDE DEF l, s
<1>3. LastKept(s, First, "exif", l + 1)
  <2>1. l + 1 \in Kept(s, First, "exif")
    BY <1>1, <1>2, MetadataAssumption DEF Kept, Tag, First
  <2>2. l + 2 \notin Kept(s, First, "exif")
    BY <1>1 DEF Kept, Tag
  <2>3. Kept(s, First, "exif") \subseteq 1 .. l + 2
    BY <1>1 DEF Kept
  <2> QED
    BY <1>1, <2>1, <2>2, <2>3 DEF LastKept
<1>4. LastKept(s, First, "gps", l + 2)
  <2>1. l + 2 \in Kept(s, First, "gps")
    BY <1>1, <1>2 DEF Kept, Tag, First
  <2>2. Kept(s, First, "gps") \subseteq 1 .. l + 2
    BY <1>1 DEF Kept
  <2> QED
    BY <1>1, <2>1, <2>2 DEF LastKept
<1>5. l + 2 \in Nat
  BY <1>1
<1>6. Value(WalkIFD(s, First), "exif", {"long"})
            = IF s[l + 1].typ \in {"long"} /\ s[l + 1].val # Garbage THEN s[l + 1].val ELSE None
  BY <1>1, <1>3, <1>5, ValueIs
<1>7. Value(WalkIFD(s, First), "gps", {"long"})
            = IF s[l + 2].typ \in {"long"} /\ s[l + 2].val # Garbage THEN s[l + 2].val ELSE None
  BY <1>1, <1>4, <1>5, ValueIs
<1>8. Value(WalkIFD(s, First), "exif", {"long"}) = p.exif
  BY <1>1, <1>6 DEF Tag
<1>9. Value(WalkIFD(s, First), "gps", {"long"}) = p.gps
  BY <1>1, <1>7 DEF Tag
<1> QED
  BY <1>1, <1>8, <1>9 DEF Pointed, s

\* Directories of which the same is read.
SameValues(a, b, want) ==
    \A t, types : Value(WalkIFD(a, want), t, types) = Value(WalkIFD(b, want), t, types)

Turned(s) == Value(WalkIFD(s, First), "orientation", {"short", "long"})

LEMMA SameMeta ==
    ASSUME NEW x, NEW y, x # None, y # None, Turned(x) = Turned(y),
           SameValues(Pointed(WalkIFD(x, First), "exif"), Pointed(WalkIFD(y, First), "exif"), Times),
           SameValues(Pointed(WalkIFD(x, First), "gps"), Pointed(WalkIFD(y, First), "gps"), Places)
    PROVE  ParseTIFF(x) = ParseTIFF(y)
<1> DEFINE Exif(s) == WalkIFD(Pointed(WalkIFD(s, First), "exif"), Times)
           GPS(s) == WalkIFD(Pointed(WalkIFD(s, First), "gps"), Places)
           Meta0(s) ==
               [NoMeta EXCEPT
                !.orientation = IF Turned(s) = None \/ Turned(s) \notin 1 .. 8 THEN 0 ELSE Turned(s),
                !.wall = Value(Exif(s), "dateTimeOriginal", {"ascii"}),
                !.wallOffset = Value(Exif(s), "offsetTimeOriginal", {"ascii"}),
                !.pos = GPSPos(GPS(s)), !.posSource = IF GPSPos(GPS(s)) = None THEN "none" ELSE "exif",
                !.gpsTime = GPSTime(GPS(s))]
<1>1. ParseTIFF(x) = Meta0(x) /\ ParseTIFF(y) = Meta0(y)
  BY DEF ParseTIFF, Turned, First, Times, Places
<1>2. \A t, types : /\ Value(Exif(x), t, types) = Value(Exif(y), t, types)
                    /\ Value(GPS(x), t, types) = Value(GPS(y), t, types)
  BY DEF SameValues
<1> HIDE DEF Exif, GPS
<1>3. GPSPos(GPS(x)) = GPSPos(GPS(y))
  BY <1>2 DEF GPSPos
<1>4. GPSTime(GPS(x)) = GPSTime(GPS(y))
  BY <1>2 DEF GPSTime
<1>5. Meta0(x) = Meta0(y)
  BY <1>2, <1>3, <1>4
<1> QED
  BY <1>1, <1>5

LEMMA AnotherValue ==
    ASSUME NEW e, NEW v, e = [tag |-> e.tag, typ |-> e.typ, val |-> e.val]
    PROVE  /\ [e EXCEPT !.val = v] = Tag(e.tag, e.typ, v)
           /\ [e EXCEPT !.val = v].val = v /\ [e EXCEPT !.val = v].tag = e.tag
BY DEF Tag

LEMMA PhotoDirectories ==
    ASSUME NEW p, IsPhoto(p)
    PROVE  \E E : /\ NoMarkers(E) /\ DirectoriesOf(E, p) /\ DOMAIN p = {"ifd0", "exif", "gps"}
                  /\ p = [ifd0 |-> p.ifd0, exif |-> p.exif, gps |-> p.gps]
                  /\ \A d \in DOMAIN p : \A n \in DOMAIN p[d] :
                        /\ p[d][n] = [tag |-> p[d][n].tag, typ |-> p[d][n].typ, val |-> p[d][n].val]
                        /\ \A v \in {Unlocated, Garbage} : [p[d][n] EXCEPT !.val = v] \in E
<1> DEFINE own == UNION {Range(p[d]) : d \in DOMAIN p}
           E == own \union {Tag(e.tag, e.typ, v) : e \in own, v \in {Unlocated, Garbage}}
<1>1. /\ p = [ifd0 |-> p.ifd0, exif |-> p.exif, gps |-> p.gps]
      /\ \A d \in DOMAIN p : p[d] \in Seq(own)
      /\ \A e \in own : e = [tag |-> e.tag, typ |-> e.typ, val |-> e.val]
      /\ NoMarkers(E)
  <2>1. p = [ifd0 |-> p.ifd0, exif |-> p.exif, gps |-> p.gps]
    BY DEF IsPhoto
  <2>2. \A d \in DOMAIN p : p[d] \in Seq(own)
    BY DEF IsPhoto
  <2>3. \A e \in own : e = [tag |-> e.tag, typ |-> e.typ, val |-> e.val]
    BY DEF IsPhoto
  <2>4. NoMarkers(E)
    <3>1. \A v \in {None, Unlocated, Garbage} : v \notin Seq(E \union Pointers(E))
      BY DEF IsPhoto, Pointers
    <3> QED
      BY <3>1 DEF NoMarkers
  <2> HIDE DEF own, E
  <2> QED
    BY <2>1, <2>2, <2>3, <2>4
<1>2. DOMAIN p = {"ifd0", "exif", "gps"}
  BY <1>1
<1>3. \A d \in DOMAIN p : \A n \in DOMAIN p[d] : p[d][n] \in own
  BY DEF Range
<1>4. own \subseteq E /\ \A e \in own : \A v \in {Unlocated, Garbage} : [e EXCEPT !.val = v] \in E
  <2>1. own \subseteq E
    OBVIOUS
  <2>2. ASSUME NEW e \in own, NEW v \in {Unlocated, Garbage} PROVE [e EXCEPT !.val = v] \in E
    <3>1. [e EXCEPT !.val = v] = Tag(e.tag, e.typ, v)
      BY <1>1, AnotherValue
    <3>2. Tag(e.tag, e.typ, v) \in E
      OBVIOUS
    <3> QED
      BY <3>1, <3>2
  <2> HIDE DEF own, E
  <2> QED
    BY <2>1, <2>2
<1> HIDE DEF own, E
<1>5. DirectoriesOf(E, p)
  <2>1. p.ifd0 \in Seq(own) /\ p.exif \in Seq(own) /\ p.gps \in Seq(own)
    BY <1>1, <1>2
  <2> QED
    BY <1>1, <1>4, <2>1, SeqMonotonic DEF DirectoriesOf
<1> QED
  BY <1>1, <1>2, <1>3, <1>4, <1>5

\* The directories with another in the place of d.
With(p, d, s) == [p EXCEPT ![d] = s]

LEMMA WithIs ==
    ASSUME NEW E, NEW p, p = [ifd0 |-> p.ifd0, exif |-> p.exif, gps |-> p.gps], DirectoriesOf(E, p),
           NEW d \in {"ifd0", "exif", "gps"}, NEW s \in Seq(E)
    PROVE  /\ DirectoriesOf(E, With(p, d, s))
           /\ With(p, d, s).ifd0 = IF d = "ifd0" THEN s ELSE p.ifd0
           /\ With(p, d, s).exif = IF d = "exif" THEN s ELSE p.exif
           /\ With(p, d, s).gps = IF d = "gps" THEN s ELSE p.gps
<1>1. With(p, d, s).ifd0 = IF d = "ifd0" THEN s ELSE p.ifd0
  BY DEF With
<1>2. With(p, d, s).exif = IF d = "exif" THEN s ELSE p.exif
  BY DEF With
<1>3. With(p, d, s).gps = IF d = "gps" THEN s ELSE p.gps
  BY DEF With
<1> QED
  BY <1>1, <1>2, <1>3 DEF DirectoriesOf

\* The first directory may change where its pointers are, so long as the rest
\* stays as it was.
LEMMA TurnedAlike ==
    ASSUME NEW E, NoMarkers(E), NEW p, DirectoriesOf(E, p), NEW q, DirectoriesOf(E, q),
           p.ifd0 = q.ifd0, Len(p.ifd0) + 2 <= MaxEntries
    PROVE  Turned(Tiff(p)) = Turned(Tiff(q))
<1> DEFINE l == Len(p.ifd0)
           x == Tiff(p)
           y == Tiff(q)
<1>1. /\ l \in Nat /\ DOMAIN x = 1 .. l + 2 /\ DOMAIN y = 1 .. l + 2
      /\ \A k \in 1 .. l : x[k] = y[k]
      /\ x[l + 1].tag = "exif" /\ x[l + 2].tag = "gps"
      /\ y[l + 1].tag = "exif" /\ y[l + 2].tag = "gps"
  <2>1. \A val : Tag("exif", "long", val).tag = "exif" /\ Tag("gps", "long", val).tag = "gps"
    BY DEF Tag
  <2>2. /\ l \in Nat /\ DOMAIN x = 1 .. l + 2 /\ \A k \in 1 .. l : x[k] = p.ifd0[k]
        /\ x[l + 1] = Tag("exif", "long", p.exif) /\ x[l + 2] = Tag("gps", "long", p.gps)
    BY TiffIs
  <2>3. /\ DOMAIN y = 1 .. l + 2 /\ \A k \in 1 .. l : y[k] = q.ifd0[k]
        /\ y[l + 1] = Tag("exif", "long", q.exif) /\ y[l + 2] = Tag("gps", "long", q.gps)
    BY TiffIs
  <2> HIDE DEF l, x, y
  <2> QED
    BY <2>1, <2>2, <2>3
<1> HIDE DEF l, x, y
<1> DEFINE K == Kept(x, First, "orientation")
<1>2. /\ K = Kept(y, First, "orientation")
      /\ \A k \in K : x[k] = y[k] /\ k \in 1 .. l
  <2>1. \A k \in 1 .. l + 2 : k \in 1 .. l \/ k = l + 1 \/ k = l + 2
    BY <1>1
  <2> QED
    BY <1>1, <2>1 DEF Kept
<1>3. l + 2 \in Nat
  BY <1>1
<1>4. CASE K = {}
  <2>1. Turned(x) = None /\ Turned(y) = None
    BY <1>1, <1>2, <1>3, <1>4, ValueIs DEF Turned
  <2> QED
    BY <2>1 DEF x, y
<1>5. CASE K # {}
  <2>1. PICK n \in 1 .. l + 2 : LastKept(x, First, "orientation", n)
    BY <1>1, <1>3, <1>5, LastExists
  <2>2. LastKept(y, First, "orientation", n) /\ x[n] = y[n]
    BY <1>2, <2>1 DEF LastKept
  <2>3. Turned(x) = IF x[n].typ \in {"short", "long"} /\ x[n].val # Garbage THEN x[n].val ELSE None
    BY <1>1, <1>3, <2>1, ValueIs DEF Turned
  <2>4. Turned(y) = IF y[n].typ \in {"short", "long"} /\ y[n].val # Garbage THEN y[n].val ELSE None
    BY <1>1, <1>3, <2>2, ValueIs DEF Turned
  <2> QED
    BY <2>2, <2>3, <2>4 DEF x, y
<1> QED
  BY <1>4, <1>5

\* One broken entry of one directory is as none there.
Another(p, d, n) == \E m \in DOMAIN p[d] \ {n} : p[d][m].tag = p[d][n].tag

IsBroken(p, d, n, v) ==
    /\ IsPhoto(p) /\ d \in DOMAIN p /\ n \in DOMAIN p[d]
    /\ Len(Tiff(p)) <= MaxEntries /\ Len(p[d]) <= MaxEntries
    /\ v = Unlocated \/ (v = Garbage /\ ~Another(p, d, n))

BrokenAt(p, d, n, v) == [p EXCEPT ![d][n].val = v]

LeftOut(p, d, n) == [p EXCEPT ![d] = RemoveAt(@, n)]

LEMMA BrokenPhoto ==
    ASSUME NEW p, NEW d, NEW n, NEW v, IsBroken(p, d, n, v)
    PROVE  ParseTIFF(Tiff(BrokenAt(p, d, n, v))) = ParseTIFF(Tiff(LeftOut(p, d, n)))
<1> USE DEF IsBroken, Another
<1>1. PICK E : /\ NoMarkers(E) /\ DirectoriesOf(E, p) /\ DOMAIN p = {"ifd0", "exif", "gps"}
               /\ p = [ifd0 |-> p.ifd0, exif |-> p.exif, gps |-> p.gps]
               /\ \A c \in DOMAIN p : \A m \in DOMAIN p[c] :
                    /\ p[c][m] = [tag |-> p[c][m].tag, typ |-> p[c][m].typ, val |-> p[c][m].val]
                    /\ \A u \in {Unlocated, Garbage} : [p[c][m] EXCEPT !.val = u] \in E
  BY PhotoDirectories
<1> DEFINE s == p[d]
           e == [s[n] EXCEPT !.val = v]
           sa == [s EXCEPT ![n] = e]
           sb == RemoveAt(s, n)
           a == With(p, d, sa)
           b == With(p, d, sb)
<1>2. BrokenAt(p, d, n, v) = a /\ LeftOut(p, d, n) = b
  BY DEF With, BrokenAt, LeftOut
<1>3. s \in Seq(E) /\ n \in DOMAIN s /\ d \in {"ifd0", "exif", "gps"} /\ e \in E
      /\ e.val = v /\ e.tag = s[n].tag
      /\ (v = Unlocated \/ \A m \in DOMAIN s : m # n => s[m].tag # s[n].tag)
  <2>1. s \in Seq(E)
    BY <1>1 DEF DirectoriesOf
  <2>2. e \in E
    BY <1>1
  <2>3. e.val = v /\ e.tag = s[n].tag
    BY <1>1, AnotherValue
  <2> HIDE DEF e
  <2> QED
    BY <1>1, <2>1, <2>2, <2>3
<1>4. s = p.ifd0 \/ d # "ifd0"
  BY <1>1
<1> HIDE DEF s, e
<1> DEFINE l == Len(s) - 1
<1>5. l \in Nat /\ Len(s) = l + 1 /\ DOMAIN s = 1 .. l + 1 /\ n \in 1 .. l + 1 /\ l + 1 <= MaxEntries
  BY <1>3 DEF s
<1>6. /\ sa \in Seq(E) /\ Len(sa) = l + 1 /\ DOMAIN sa = 1 .. l + 1 /\ sa[n] = e
      /\ \A k \in 1 .. l + 1 : k # n => sa[k] = s[k]
  BY <1>3, <1>5
<1>7. /\ sb \in Seq(E) /\ Len(sb) = l /\ DOMAIN sb = 1 .. l
      /\ \A k \in 1 .. l : sb[k] = s[Behind(n, k)]
  <2>1. /\ sb \in Seq(E) /\ Len(s) = Len(sb) + 1
        /\ \A k \in 1 .. Len(sb) : sb[k] = s[IF k < n THEN k ELSE k + 1]
    <3>1. n \in 1 .. Len(s)
      BY <1>5
    <3> HIDE DEF l
    <3> QED
      BY <1>3, <3>1, WithoutOne
  <2> HIDE DEF sb
  <2>2. Len(sb) = l /\ DOMAIN sb = 1 .. l
    BY <1>5, <2>1
  <2> QED
    BY <2>1, <2>2 DEF Behind
<1> HIDE DEF sa, sb
<1>8. \A k \in 1 .. l : sb[k] = sa[Behind(n, k)]
  <2>1. \A k \in 1 .. l : Behind(n, k) \in 1 .. l + 1 /\ Behind(n, k) # n
    BY <1>5 DEF Behind
  <2> QED
    BY <1>6, <1>7, <2>1
<1>9. \/ sa[n].val = Unlocated
      \/ sa[n].val = Garbage /\ \A m \in 1 .. l + 1 : m < n => sa[m].tag # sa[n].tag
  BY <1>3, <1>5, <1>6
<1>10. ASSUME NEW want PROVE SameValues(sa, sb, want)
  <2> HIDE DEF l
  <2>0. l \in Nat /\ WithoutBroken(sa, sb, l, n)
    BY <1>5, <1>6, <1>7, <1>8, <1>9 DEF WithoutBroken
  <2>1. ASSUME NEW t, NEW types
        PROVE  Value(WalkIFD(sa, want), t, types) = Value(WalkIFD(sb, want), t, types)
    BY <2>0, BrokenIsAbsent
  <2> QED
    BY <2>1 DEF SameValues
<1>11. /\ DirectoriesOf(E, a)
       /\ a.ifd0 = IF d = "ifd0" THEN sa ELSE p.ifd0
       /\ a.exif = IF d = "exif" THEN sa ELSE p.exif
       /\ a.gps = IF d = "gps" THEN sa ELSE p.gps
  BY <1>1, <1>3, <1>6, WithIs
<1>12. /\ DirectoriesOf(E, b)
       /\ b.ifd0 = IF d = "ifd0" THEN sb ELSE p.ifd0
       /\ b.exif = IF d = "exif" THEN sb ELSE p.exif
       /\ b.gps = IF d = "gps" THEN sb ELSE p.gps
  BY <1>1, <1>3, <1>7, WithIs
<1> HIDE DEF a, b
<1>13. Len(p.ifd0) \in Nat /\ Len(p.ifd0) + 2 <= MaxEntries
  BY <1>1, TiffIs
<1>14. Len(a.ifd0) + 2 <= MaxEntries /\ Len(b.ifd0) + 2 <= MaxEntries
  <2>1. CASE d = "ifd0"
    BY <1>4, <1>5, <1>6, <1>7, <1>11, <1>12, <1>13, <2>1, MetadataAssumption
  <2>2. CASE d # "ifd0"
    BY <1>11, <1>12, <1>13, <2>2
  <2> QED
    BY <2>1, <2>2
<1>15. /\ Pointed(WalkIFD(Tiff(a), First), "exif") = a.exif
       /\ Pointed(WalkIFD(Tiff(a), First), "gps") = a.gps
  BY <1>1, <1>11, <1>14, PointersAreFollowed
<1>16. /\ Pointed(WalkIFD(Tiff(b), First), "exif") = b.exif
       /\ Pointed(WalkIFD(Tiff(b), First), "gps") = b.gps
  BY <1>1, <1>12, <1>14, PointersAreFollowed
<1>17. Tiff(a) # None /\ Tiff(b) # None
  BY <1>1, <1>11, <1>12, TiffIs
<1>18. Turned(Tiff(a)) = Turned(Tiff(b))
  <2>1. CASE d = "ifd0"
    <3> DEFINE x == Tiff(a)
               y == Tiff(b)
    <3>1. /\ DOMAIN x = 1 .. l + 3 /\ \A k \in 1 .. l + 1 : x[k] = sa[k]
          /\ x[l + 2] = Tag("exif", "long", a.exif) /\ x[l + 3] = Tag("gps", "long", a.gps)
      <4>1. l + 1 = Len(a.ifd0) /\ a.ifd0 = sa /\ (l + 1) + 1 = l + 2 /\ (l + 1) + 2 = l + 3
        BY <1>5, <1>6, <1>11, <2>1
      <4>2. /\ DOMAIN x = 1 .. Len(a.ifd0) + 2 /\ \A k \in 1 .. Len(a.ifd0) : x[k] = a.ifd0[k]
            /\ x[Len(a.ifd0) + 1] = Tag("exif", "long", a.exif)
            /\ x[Len(a.ifd0) + 2] = Tag("gps", "long", a.gps)
        <5>1. NoMarkers(E) /\ DirectoriesOf(E, a)
          BY <1>1, <1>11
        <5> QED
          BY <5>1, TiffIs
      <4> HIDE DEF l, x
      <4> QED
        BY <4>1, <4>2
    <3>2. /\ DOMAIN y = 1 .. l + 2 /\ \A k \in 1 .. l : y[k] = sb[k]
          /\ y[l + 1] = Tag("exif", "long", b.exif) /\ y[l + 2] = Tag("gps", "long", b.gps)
      <4>1. l = Len(b.ifd0) /\ b.ifd0 = sb
        BY <1>5, <1>7, <1>12, <2>1
      <4>2. /\ DOMAIN y = 1 .. Len(b.ifd0) + 2 /\ \A k \in 1 .. Len(b.ifd0) : y[k] = b.ifd0[k]
            /\ y[Len(b.ifd0) + 1] = Tag("exif", "long", b.exif)
            /\ y[Len(b.ifd0) + 2] = Tag("gps", "long", b.gps)
        <5>1. NoMarkers(E) /\ DirectoriesOf(E, b)
          BY <1>1, <1>12
        <5> QED
          BY <5>1, TiffIs
      <4> HIDE DEF l, y
      <4> QED
        BY <4>1, <4>2
    <3>3. a.exif = b.exif /\ a.gps = b.gps
      BY <1>11, <1>12, <2>1
    <3>4. l + 3 <= MaxEntries
      BY <1>5, <1>6, <1>11, <1>14, <2>1, MetadataAssumption
    <3> HIDE DEF l, x, y
    <3>5. \A k \in 1 .. l + 2 : y[k] = x[Behind(n, k)]
      <4>1. \A k \in 1 .. l : Behind(n, k) \in 1 .. l + 1 /\ y[k] = x[Behind(n, k)]
        <5>1. \A k \in 1 .. l : Behind(n, k) \in 1 .. l + 1
          BY <1>5 DEF Behind
        <5> QED
          BY <1>8, <3>1, <3>2, <5>1
      <4>2. Behind(n, l + 1) = l + 2 /\ Behind(n, l + 2) = l + 3
        BY <1>5 DEF Behind
      <4>3. \A k \in 1 .. l + 2 : k \in 1 .. l \/ k = l + 1 \/ k = l + 2
        BY <1>5
      <4> QED
        BY <3>1, <3>2, <3>3, <4>1, <4>2, <4>3
    <3>6. \/ x[n].val = Unlocated
          \/ x[n].val = Garbage /\ \A m \in 1 .. l + 3 : m < n => x[m].tag # x[n].tag
      <4>1. \A m \in 1 .. l + 3 : m < n => m \in 1 .. l + 1
        BY <1>5
      <4> QED
        BY <1>5, <1>9, <3>1, <4>1
    <3>7. l + 2 \in Nat /\ (l + 2) + 1 = l + 3 /\ n \in 1 .. l + 3
      BY <1>5
    <3>8. Turned(x) = Turned(y)
      <4>1. WithoutBroken(x, y, l + 2, n)
        BY <3>1, <3>2, <3>4, <3>5, <3>6, <3>7 DEF WithoutBroken
      <4>2. Value(WalkIFD(x, First), "orientation", {"short", "long"})
                = Value(WalkIFD(y, First), "orientation", {"short", "long"})
        BY <3>7, <4>1, BrokenIsAbsent
      <4> QED
        BY <4>2 DEF Turned
    <3> QED
      BY <3>8 DEF x, y
  <2>2. CASE d # "ifd0"
    <3>1. a.ifd0 = b.ifd0
      BY <1>11, <1>12, <2>2
    <3> QED
      BY <1>1, <1>11, <1>12, <1>14, <3>1, TurnedAlike
  <2> QED
    BY <2>1, <2>2
<1>19. SameValues(a.exif, b.exif, Times) /\ SameValues(a.gps, b.gps, Places)
  <2>1. \A x, want : SameValues(x, x, want)
    BY DEF SameValues
  <2>2. SameValues(a.exif, b.exif, Times)
    BY <1>10, <1>11, <1>12, <2>1
  <2>3. SameValues(a.gps, b.gps, Places)
    BY <1>10, <1>11, <1>12, <2>1
  <2> QED
    BY <2>2, <2>3
<1>20. ParseTIFF(Tiff(a)) = ParseTIFF(Tiff(b))
  BY <1>15, <1>16, <1>17, <1>18, <1>19, SameMeta
<1> QED
  BY <1>2, <1>20

LEMMA MinIs == ASSUME NEW N, N \subseteq Int, NEW n \in N, \A m \in N : n <= m PROVE Min(N) = n
<1>1. \A m \in N : (\A k \in N : m <= k) => m = n
  OBVIOUS
<1> QED
  BY <1>1 DEF Min

\* Of two boxes that are whole, n is the first of the type.
IsTheBox(boxes, type, n) ==
    /\ Len(boxes) = 2 /\ boxes[1].whole = TRUE /\ boxes[2].whole = TRUE
    /\ n \in {1, 2} /\ boxes[n].type = type /\ (n = 1 \/ boxes[1].type # type)

LEMMA BoxIsFound ==
    ASSUME NEW boxes, NEW type, NEW n, IsTheBox(boxes, type, n)
    PROVE  FindBox(boxes, type) = boxes[n].holds
<1> USE DEF IsTheBox
<1> DEFINE N == {k \in 1 .. Len(boxes) : boxes[k].type = type \/ ~boxes[k].whole}
<1>1. 1 .. Len(boxes) = {1, 2}
  OBVIOUS
<1>2. n \in N /\ N \subseteq {1, 2} /\ (1 \in N => n = 1)
  BY <1>1
<1>3. SelectInSeq(boxes, LAMBDA b : b.type = type \/ ~b.whole) = IF N # {} THEN Min(N) ELSE 0
  BY DEF SelectInSeq
<1> HIDE DEF N
<1>4. Min(N) = n
  <2>1. N \subseteq Int /\ \A m \in N : n <= m
    BY <1>2
  <2> QED
    BY <1>2, <2>1, MinIs
<1>5. SelectInSeq(boxes, LAMBDA b : b.type = type \/ ~b.whole) = n
  BY <1>2, <1>3, <1>4
<1>6. n # 0 /\ boxes[n].whole
  OBVIOUS
<1> QED
  BY <1>5, <1>6 DEF FindBox

\* Both containers hold the TIFF.
LEMMA ContainersHold ==
    ASSUME NEW tiff, None \notin {2, ItemInfo, ItemLocation(tiff), Meta(tiff)}
    PROVE  FindEXIFTIFF(JPEG(tiff)) = tiff /\ FindHEIFExifTIFF(HEIF(tiff)) = tiff
<1>1. FindEXIFTIFF(JPEG(tiff)) = tiff
  <2> DEFINE s == JPEG(tiff)
             N == {k \in 1 .. Len(s) : s[k].marker \notin {"padding", "standalone", "other"}}
  <2>1. Len(s) = 3 /\ s[1].marker = "other" /\ s[2].marker = "padding"
        /\ s[3].marker = "exif" /\ s[3].tiff = tiff
    BY DEF JPEG, Segment
  <2> HIDE DEF s
  <2>2. N = {3}
    BY <2>1
  <2>3. SelectInSeq(s, LAMBDA x : x.marker \notin {"padding", "standalone", "other"}) = 3
    <3>1. Min({3}) = 3
      BY MinIs
    <3>2. SelectInSeq(s, LAMBDA x : x.marker \notin {"padding", "standalone", "other"})
                = IF N # {} THEN Min(N) ELSE 0
      BY DEF SelectInSeq
    <3> HIDE DEF N
    <3> QED
      BY <2>2, <3>1, <3>2
  <2>4. FindEXIFTIFF(s) = tiff
    BY <2>1, <2>3 DEF FindEXIFTIFF
  <2> QED
    BY <2>4 DEF s
<1>3. FindBox(HEIF(tiff), "meta") = Meta(tiff)
  <2> DEFINE boxes == HEIF(tiff)
  <2>1. /\ Len(boxes) = 2 /\ boxes[1].whole = TRUE /\ boxes[2].whole = TRUE
        /\ boxes[1].type = "ftyp" /\ boxes[2].type = "meta" /\ boxes[2].holds = Meta(tiff)
    BY DEF HEIF, Box
  <2> HIDE DEF boxes
  <2>2. FindBox(boxes, "meta") = boxes[2].holds
    <3>1. IsTheBox(boxes, "meta", 2)
      BY <2>1 DEF IsTheBox
    <3> QED
      BY <3>1, BoxIsFound
  <2> QED
    BY <2>1, <2>2 DEF boxes
<1>4. FindBox(Meta(tiff), "iinf") = ItemInfo /\ FindBox(Meta(tiff), "iloc") = ItemLocation(tiff)
  <2> DEFINE boxes == Meta(tiff)
  <2>1. /\ Len(boxes) = 2 /\ boxes[1].whole = TRUE /\ boxes[2].whole = TRUE
        /\ boxes[1].type = "iinf" /\ boxes[1].holds = ItemInfo
        /\ boxes[2].type = "iloc" /\ boxes[2].holds = ItemLocation(tiff)
    BY DEF Meta, Box
  <2> HIDE DEF boxes
  <2>2. FindBox(boxes, "iinf") = boxes[1].holds
    <3>1. IsTheBox(boxes, "iinf", 1)
      BY <2>1 DEF IsTheBox
    <3> QED
      BY <3>1, BoxIsFound
  <2>3. FindBox(boxes, "iloc") = boxes[2].holds
    <3>1. IsTheBox(boxes, "iloc", 2)
      BY <2>1 DEF IsTheBox
    <3> QED
      BY <3>1, BoxIsFound
  <2> QED
    BY <2>1, <2>2, <2>3 DEF boxes
<1>5. ExifItemID(ItemInfo) = 2
  <2> DEFINE s == ItemInfo
             N == {k \in 1 .. Len(s) : ~s[k].whole \/ (s[k].version \in {2, 3} /\ s[k].type = "Exif")}
  <2>1. /\ Len(s) = 2 /\ s[1].whole = TRUE /\ s[2].whole = TRUE /\ s[1].type = "hvc1"
        /\ s[2].type = "Exif" /\ s[2].version = 3 /\ s[2].id = 2
    BY DEF ItemInfo
  <2> HIDE DEF s
  <2>2. N = {2}
    <3>1. 1 .. 2 = {1, 2}
      OBVIOUS
    <3> QED
      BY <2>1, <3>1
  <2>3. SelectInSeq(s, LAMBDA e : ~e.whole \/ (e.version \in {2, 3} /\ e.type = "Exif"))
            = IF N # {} THEN Min(N) ELSE 0
    BY DEF SelectInSeq
  <2>4. Min({2}) = 2
    BY MinIs
  <2> HIDE DEF N
  <2>5. ExifItemID(s) = 2
    BY <2>1, <2>2, <2>3, <2>4 DEF ExifItemID
  <2> QED
    BY <2>5 DEF s
<1>6. ItemExtent(ItemLocation(tiff), 2) = tiff
  <2> DEFINE s == ItemLocation(tiff)
             N == {k \in 1 .. Len(s) : ~s[k].whole \/ s[k].id = 2}
  <2>1. /\ Len(s) = 2 /\ s[1].whole = TRUE /\ s[2].whole = TRUE /\ s[1].id = 1 /\ s[2].id = 2
        /\ s[2].method = 0 /\ s[2].extents = <<tiff, None>>
    BY DEF ItemLocation
  <2> HIDE DEF s
  <2>2. N = {2}
    <3>1. 1 .. 2 = {1, 2}
      OBVIOUS
    <3> QED
      BY <2>1, <3>1
  <2>3. SelectInSeq(s, LAMBDA it : ~it.whole \/ it.id = 2) = IF N # {} THEN Min(N) ELSE 0
    BY DEF SelectInSeq
  <2>4. Min({2}) = 2
    BY MinIs
  <2>5. <<tiff, None>> # <<>> /\ Head(<<tiff, None>>) = tiff
    OBVIOUS
  <2> HIDE DEF N
  <2>6. SelectInSeq(s, LAMBDA it : ~it.whole \/ it.id = 2) = 2
    BY <2>2, <2>3, <2>4
  <2>7. ItemExtent(s, 2) = IF s[2].whole /\ s[2].method = 0 /\ s[2].extents # <<>>
                           THEN Head(s[2].extents) ELSE None
    BY <2>6 DEF ItemExtent
  <2>8. ItemExtent(s, 2) = tiff
    BY <2>1, <2>5, <2>7
  <2> QED
    BY <2>8 DEF s
<1> QED
  BY <1>1, <1>3, <1>4, <1>5, <1>6 DEF FindHEIFExifTIFF

\* A photo with a malformed entry comes to what it comes to without it, in
\* directories of any length that is read, and its container makes no difference.
THEOREM MalformedIsAbsent == MCSpec => []MalformationIsAbsence
<1>1. ASSUME Chosen PROVE MalformationIsAbsence
  <2> SUFFICES ASSUME NEW i \in Photos, pc[i] = "begun", Len(file[i]) = 1, Head(file[i]).parts # None
               PROVE
                LET parts == Head(file[i]).parts IN
                /\ ExtractHEIF(HEIF(Tiff(parts))) = ExtractEXIF(JPEG(Tiff(parts)))
                /\ \A d \in DOMAIN parts : \A n \in DOMAIN parts[d] :
                    LET Broken(v) == ParseTIFF(Tiff([parts EXCEPT ![d][n].val = v]))
                        without == ParseTIFF(Tiff([parts EXCEPT ![d] = RemoveAt(@, n)]))
                        again == \E m \in DOMAIN parts[d] \ {n} : parts[d][m].tag = parts[d][n].tag
                    IN  Len(Tiff(parts)) <= MaxEntries /\ Len(parts[d]) <= MaxEntries =>
                            Broken(Unlocated) = without /\ (again \/ Broken(Garbage) = without)
    BY DEF MalformationIsAbsence
  <2> DEFINE p == Head(file[i]).parts
  <2>1. IsPhoto(p)
    <3>1. file[i] \in PlainBatches \union RichBatches
      BY <1>1, IntakeAssumption DEF Chosen, Importers
    <3>2. file[i] \in Seq(Range(file[i]))
      BY <3>1, FilesAssumption
    <3>3. Head(file[i]) \in Range(file[i])
      BY <3>2
    <3> QED
      BY <3>1, <3>3, FilesAssumption
  <2> HIDE DEF p
  <2>2. ExtractHEIF(HEIF(Tiff(p))) = ExtractEXIF(JPEG(Tiff(p)))
    <3>1. None \notin {2, ItemInfo, ItemLocation(Tiff(p)), Meta(Tiff(p))}
      BY <2>1 DEF IsPhoto
    <3> QED
      BY <3>1, ContainersHold DEF ExtractHEIF, ExtractEXIF
  <2>3. ASSUME NEW d \in DOMAIN p, NEW n \in DOMAIN p[d], Len(Tiff(p)) <= MaxEntries,
               Len(p[d]) <= MaxEntries
        PROVE  /\ ParseTIFF(Tiff([p EXCEPT ![d][n].val = Unlocated]))
                    = ParseTIFF(Tiff([p EXCEPT ![d] = RemoveAt(@, n)]))
               /\ \/ \E m \in DOMAIN p[d] \ {n} : p[d][m].tag = p[d][n].tag
                  \/ ParseTIFF(Tiff([p EXCEPT ![d][n].val = Garbage]))
                        = ParseTIFF(Tiff([p EXCEPT ![d] = RemoveAt(@, n)]))
    <3> DEFINE without == ParseTIFF(Tiff(LeftOut(p, d, n)))
    <3>1. ParseTIFF(Tiff(BrokenAt(p, d, n, Unlocated))) = without
      <4>1. IsBroken(p, d, n, Unlocated)
        BY <2>1, <2>3 DEF IsBroken
      <4> QED
        BY <4>1, BrokenPhoto
    <3>2. ASSUME ~Another(p, d, n) PROVE ParseTIFF(Tiff(BrokenAt(p, d, n, Garbage))) = without
      <4>1. IsBroken(p, d, n, Garbage)
        BY <2>1, <2>3, <3>2 DEF IsBroken
      <4> QED
        BY <4>1, BrokenPhoto
    <3> QED
      BY <3>1, <3>2 DEF Another, BrokenAt, LeftOut
  <2> QED
    BY <2>2, <2>3 DEF p
<1> QED
  BY <1>1, AlwaysChosen, PTL
=============================================================================
