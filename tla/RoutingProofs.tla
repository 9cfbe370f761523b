----------------------------- MODULE RoutingProofs -----------------------------
(***************************************************************************)
(* What the routing batches keep true, for any number of batches, keys and *)
(* roads, and without the bounds on faults and failures of the runs; and   *)
(* what is true of the journeys whose gaps they fill, for any history: of  *)
(* the fixes that are rejected, of the legs between those that are kept,   *)
(* and of the roads drawn in.  The lemmas on sequences and on sorting are  *)
(* those of DetectionProofs.                                               *)
(***************************************************************************)
EXTENDS MCJourneys, DetectionProofs

\* The key whose answer is in hand.
Pending(b) == IF inHand[b] = Nothing THEN {} ELSE {inHand[b].key}

\* A batch has nothing before it starts; an answer is in hand only between the
\* router and the cache; a recorded batch has nothing left to do.
Progress ==
    \A b \in Batches :
        /\ phase[b] = "idle" =>
            /\ keys[b] = {} /\ unread[b] = {} /\ hits[b] = {} /\ toAsk[b] = {}
            /\ routed[b] = {} /\ unroutable[b] = {} /\ failed[b] = {}
        /\ inHand[b] # Nothing => phase[b] \in {"saving", "aborted"}
        /\ phase[b] = "saving" => inHand[b] # Nothing
        /\ unread[b] # {} => phase[b] \in {"looking", "aborted"}
        /\ phase[b] = "recorded" => toAsk[b] = {} \/ b \in NullRouted

\* Every key of the scope is in one place.
Accounted ==
    \A b \in Batches :
        /\ keys[b] = unread[b] \union hits[b] \union toAsk[b] \union Pending(b)
                        \union Answered(b) \union failed[b]
        /\ CountedOnce(b)
        /\ unread[b] \intersect (hits[b] \union toAsk[b] \union Answered(b) \union failed[b]) = {}
        /\ Pending(b) \intersect (unread[b] \union hits[b] \union toAsk[b]
                                    \union Answered(b) \union failed[b]) = {}

\* The rows are the answers that were saved.
RowsAreAnswers ==
    /\ \A b \in Batches : \A k \in hits[b] \union Answered(b) : cache[k] # NoRow
    /\ \A k \in Keys : cache[k] # NoRow => \E b \in Batches : k \in Answered(b)

\* Who is under way together has met.
AllMet == \A b, c \in UnderWay : b # c => {b, c} \in met

\* A batch that is about to ask for what another has been answered has met it.
LateAskersMet ==
    \A b \in UnderWay \ Refreshing : \A c \in Batches \ {b} :
        (toAsk[b] \union Pending(b)) \intersect Answered(c) # {} => {b, c} \in met

IInv == TypeOK /\ Progress /\ Accounted /\ RowsAreAnswers /\ AllMet /\ LateAskersMet /\ AskedOnce

-----------------------------------------------------------------------------

LEMMA InitIInv == Init => IInv
<1> SUFFICES ASSUME Init PROVE IInv
  OBVIOUS
<1> USE RoutingAssumption DEF Init, Nothing, Phases, InHand
<1>1. TypeOK
  BY DEF TypeOK
<1>2. Progress
  BY DEF Progress
<1>3. Accounted
  BY DEF Accounted, CountedOnce, Answered, Pending
<1>4. RowsAreAnswers
  BY DEF RowsAreAnswers, Answered
<1>5. AllMet /\ LateAskersMet
  BY DEF AllMet, LateAskersMet, UnderWay
<1>6. AskedOnce
  BY DEF AskedOnce, Answered
<1> QED
  BY <1>1, <1>2, <1>3, <1>4, <1>5, <1>6 DEF IInv
LEMMA CollectIInv ==
    ASSUME IInv, NEW b \in Batches, NEW scope \in SUBSET Keys, Collect(b, scope)
    PROVE  IInv'
<1> USE RoutingAssumption DEF IInv, Collect, Enter, Answered, Pending
<1>1. TypeOK'
  <2>1. met' \subseteq SUBSET Batches
    BY DEF TypeOK, UnderWay
  <2> QED
    BY <2>1 DEF TypeOK, Phases
<1>2. Progress'
  BY <1>1 DEF Progress, TypeOK, Phases, InHand, Nothing, Answers
<1>3. Accounted'
  BY <1>1 DEF Accounted, CountedOnce, Progress, TypeOK, InHand, Nothing, Answers
<1>4. RowsAreAnswers'
  BY <1>1 DEF RowsAreAnswers, Progress, TypeOK, InHand, Nothing, Answers
<1>5. AllMet'
  BY <1>1 DEF AllMet, UnderWay, TypeOK, Phases
<1>6. LateAskersMet'
  BY <1>1, <1>5 DEF LateAskersMet, AllMet, RowsAreAnswers, UnderWay, Progress, TypeOK, InHand,
       Nothing, Answers
<1>7. AskedOnce'
  BY <1>1 DEF AskedOnce, LateAskersMet, UnderWay, Progress, TypeOK, InHand, Nothing, Answers
<1> QED
  BY <1>1, <1>2, <1>3, <1>4, <1>5, <1>6, <1>7

LEMMA LookUpIInv == ASSUME IInv, NEW b \in Batches, NEW k \in Keys, LookUp(b, k) PROVE IInv'
<1> USE RoutingAssumption DEF IInv, LookUp, IsHit, Enter, Answered, Pending
<1>1. TypeOK'
  BY DEF TypeOK, Phases, InHand, Nothing, Answers
<1>2. Progress'
  BY <1>1 DEF Progress, TypeOK, Phases, InHand, Nothing, Answers
<1>3. Accounted'
  BY <1>1 DEF Accounted, CountedOnce, Progress, TypeOK, InHand, Nothing, Answers
<1>4. RowsAreAnswers'
  BY <1>1 DEF RowsAreAnswers, Progress, TypeOK, InHand, Nothing, Answers
<1>5. AllMet'
  BY <1>1 DEF AllMet, UnderWay, TypeOK, Phases
<1>6. LateAskersMet'
  BY <1>1, <1>5 DEF LateAskersMet, AllMet, RowsAreAnswers, UnderWay, Progress, TypeOK, InHand,
       Nothing, Answers
<1>7. AskedOnce'
  BY <1>1 DEF AskedOnce, LateAskersMet, UnderWay, Progress, TypeOK, InHand, Nothing, Answers
<1> QED
  BY <1>1, <1>2, <1>3, <1>4, <1>5, <1>6, <1>7

LEMMA LookedUpIInv == ASSUME IInv, NEW b \in Batches, LookedUp(b) PROVE IInv'
<1> USE RoutingAssumption DEF IInv, LookedUp, Enter, Answered, Pending
<1>1. TypeOK'
  BY DEF TypeOK, Phases, InHand, Nothing, Answers
<1>2. Progress'
  BY <1>1 DEF Progress, TypeOK, Phases, InHand, Nothing, Answers
<1>3. Accounted'
  BY <1>1 DEF Accounted, CountedOnce, Progress, TypeOK, InHand, Nothing, Answers
<1>4. RowsAreAnswers'
  BY <1>1 DEF RowsAreAnswers, Progress, TypeOK, InHand, Nothing, Answers
<1>5. AllMet'
  BY <1>1 DEF AllMet, UnderWay, TypeOK, Phases
<1>6. LateAskersMet'
  BY <1>1, <1>5 DEF LateAskersMet, AllMet, RowsAreAnswers, UnderWay, Progress, TypeOK, InHand,
       Nothing, Answers
<1>7. AskedOnce'
  BY <1>1 DEF AskedOnce, LateAskersMet, UnderWay, Progress, TypeOK, InHand, Nothing, Answers
<1> QED
  BY <1>1, <1>2, <1>3, <1>4, <1>5, <1>6, <1>7

LEMMA RouterAnswersIInv ==
    ASSUME IInv, NEW b \in Batches, NEW k \in Keys, NEW a \in Answers, RouterAnswers(b, k, a)
    PROVE  IInv'
<1> USE RoutingAssumption DEF IInv, RouterAnswers, MayAsk, Enter, Answered, Pending
<1>1. TypeOK'
  BY DEF TypeOK, Phases, InHand, Nothing, Answers
<1>2. Progress'
  BY <1>1 DEF Progress, TypeOK, Phases, InHand, Nothing, Answers
<1>3. Accounted'
  BY <1>1 DEF Accounted, CountedOnce, Progress, TypeOK, InHand, Nothing, Answers
<1>4. RowsAreAnswers'
  BY <1>1 DEF RowsAreAnswers, Progress, TypeOK, InHand, Nothing, Answers
<1>5. AllMet'
  BY <1>1 DEF AllMet, UnderWay, TypeOK, Phases
<1>6. LateAskersMet'
  BY <1>1, <1>5 DEF LateAskersMet, AllMet, RowsAreAnswers, UnderWay, Progress, TypeOK, InHand,
       Nothing, Answers
<1>7. AskedOnce'
  BY <1>1 DEF AskedOnce, LateAskersMet, UnderWay, Progress, TypeOK, InHand, Nothing, Answers
<1> QED
  BY <1>1, <1>2, <1>3, <1>4, <1>5, <1>6, <1>7

LEMMA RouterFailsIInv ==
    ASSUME IInv, NEW b \in Batches, NEW k \in Keys, RouterFails(b, k)
    PROVE  IInv'
<1> USE RoutingAssumption DEF IInv, RouterFails, MayAsk, Remembered, Enter, Answered, Pending
<1>1. TypeOK'
  BY DEF TypeOK, Phases, InHand, Nothing, Answers
<1>2. Progress'
  BY <1>1 DEF Progress, TypeOK, Phases, InHand, Nothing, Answers
<1>3. Accounted'
  BY <1>1 DEF Accounted, CountedOnce, Progress, TypeOK, InHand, Nothing, Answers
<1>4. RowsAreAnswers'
  BY <1>1 DEF RowsAreAnswers, Progress, TypeOK, InHand, Nothing, Answers
<1>5. AllMet'
  BY <1>1 DEF AllMet, UnderWay, TypeOK, Phases
<1>6. LateAskersMet'
  <2>1. /\ UnderWay' = UnderWay /\ met' = met
        /\ \A c \in Batches : /\ toAsk'[c] \subseteq toAsk[c]
                            /\ Pending(c)' = Pending(c) /\ Answered(c)' = Answered(c)
    BY DEF UnderWay, TypeOK
  <2> QED
    BY <2>1 DEF LateAskersMet, UnderWay
<1>7. AskedOnce'
  BY <1>1 DEF AskedOnce, LateAskersMet, UnderWay, Progress, TypeOK, InHand, Nothing, Answers
<1> QED
  BY <1>1, <1>2, <1>3, <1>4, <1>5, <1>6, <1>7

LEMMA SaveRouteIInv == ASSUME IInv, NEW b \in Batches, SaveRoute(b) PROVE IInv'
<1> USE RoutingAssumption DEF IInv, SaveRoute, Upserted, Enter, Answered, Pending
<1>0. /\ inHand[b].key \in Keys /\ inHand[b].answer \in Answers
      /\ Pending(b) = {inHand[b].key} /\ Pending(b)' = {}
  BY DEF Progress, TypeOK, InHand, Nothing, Answers
<1>1. TypeOK'
  BY SMTT(30), <1>0 DEF TypeOK, Phases, InHand, Nothing, Answers
<1>2. Progress'
  BY <1>1 DEF Progress, TypeOK, Phases, InHand, Nothing, Answers
<1>3. Accounted'
  BY <1>1 DEF Accounted, CountedOnce, Progress, TypeOK, InHand, Nothing, Answers
<1>5. AllMet'
  BY <1>1 DEF AllMet, UnderWay, TypeOK, Phases
<1>a. /\ UnderWay' = UnderWay /\ b \in UnderWay /\ met' = met /\ toAsk' = toAsk
  BY DEF UnderWay, TypeOK
<1>b. Answered(b)' = Answered(b) \union Pending(b)
  <2>1. CASE inHand[b].answer \in Roads
    <3>1. routed'[b] = routed[b] \union {inHand[b].key} /\ unroutable'[b] = unroutable[b]
      BY <2>1 DEF TypeOK
    <3> QED
      BY <1>0, <3>1
  <2>2. CASE inHand[b].answer \notin Roads
    <3>1. unroutable'[b] = unroutable[b] \union {inHand[b].key} /\ routed'[b] = routed[b]
      BY <2>2 DEF TypeOK
    <3> QED
      BY <1>0, <3>1
  <2> QED
    BY <2>1, <2>2
<1>c. \A c \in Batches \ {b} : Pending(c)' = Pending(c) /\ Answered(c)' = Answered(c)
  BY DEF TypeOK
<1>d. /\ cache'[inHand[b].key] # NoRow /\ hits' = hits
      /\ \A k \in Keys \ Pending(b) : cache'[k] = cache[k]
  BY <1>0 DEF TypeOK, Answers
<1>4. RowsAreAnswers'
  <2>1. \A c \in Batches : hits[c] \union Answered(c) \subseteq Keys
    BY DEF TypeOK
  <2>2. ASSUME NEW c \in Batches, NEW k \in hits[c] \union Answered(c)' PROVE cache'[k] # NoRow
    <3>1. k \in hits[c] \union Answered(c) \/ k \in Pending(b)
      BY <2>2, <1>b, <1>c
    <3> HIDE DEF Answered, Pending
    <3> QED
      BY <3>1, <2>1, <1>0, <1>d DEF RowsAreAnswers
  <2>3. ASSUME NEW k \in Keys, cache'[k] # NoRow PROVE \E c \in Batches : k \in Answered(c)'
    <3>1. \A c \in Batches : Answered(c) \subseteq Answered(c)'
      BY <1>b, <1>c
    <3>2. Pending(b) \subseteq Answered(b)'
      BY <1>b
    <3> HIDE DEF Answered, Pending
    <3> QED
      BY <2>3, <3>1, <3>2, <1>d DEF RowsAreAnswers
  <2> HIDE DEF Answered, Pending
  <2> QED
    BY <2>2, <2>3, <1>d DEF RowsAreAnswers
<1>6. LateAskersMet'
  BY <1>0, <1>a, <1>b, <1>c DEF LateAskersMet, AllMet, UnderWay
<1>7. AskedOnce'
  BY <1>0, <1>a, <1>b, <1>c DEF AskedOnce, LateAskersMet, UnderWay
<1> QED
  BY <1>1, <1>2, <1>3, <1>4, <1>5, <1>6, <1>7

LEMMA RecordIInv == ASSUME IInv, NEW b \in Batches, Record(b) PROVE IInv'
<1> USE RoutingAssumption DEF IInv, Record, Enter, Answered, Pending
<1>1. TypeOK'
  BY DEF TypeOK, Phases, InHand, Nothing, Answers
<1>2. Progress'
  BY <1>1 DEF Progress, TypeOK, Phases, InHand, Nothing, Answers
<1>3. Accounted'
  BY <1>1 DEF Accounted, CountedOnce, Progress, TypeOK, InHand, Nothing, Answers
<1>4. RowsAreAnswers'
  BY <1>1 DEF RowsAreAnswers, Progress, TypeOK, InHand, Nothing, Answers
<1>5. AllMet'
  BY <1>1 DEF AllMet, UnderWay, TypeOK, Phases
<1>6. LateAskersMet'
  BY <1>1, <1>5 DEF LateAskersMet, AllMet, RowsAreAnswers, UnderWay, Progress, TypeOK, InHand,
       Nothing, Answers
<1>7. AskedOnce'
  BY <1>1 DEF AskedOnce, LateAskersMet, UnderWay, Progress, TypeOK, InHand, Nothing, Answers
<1> QED
  BY <1>1, <1>2, <1>3, <1>4, <1>5, <1>6, <1>7

LEMMA AbortIInv == ASSUME IInv, NEW b \in Batches, Abort(b) PROVE IInv'
<1> USE RoutingAssumption DEF IInv, Abort, Enter, Answered, Pending
<1>1. TypeOK'
  BY DEF TypeOK, Phases, InHand, Nothing, Answers
<1>2. Progress'
  BY <1>1 DEF Progress, TypeOK, Phases, InHand, Nothing, Answers
<1>3. Accounted'
  BY <1>1 DEF Accounted, CountedOnce, Progress, TypeOK, InHand, Nothing, Answers
<1>4. RowsAreAnswers'
  BY <1>1 DEF RowsAreAnswers, Progress, TypeOK, InHand, Nothing, Answers
<1>5. AllMet'
  BY <1>1 DEF AllMet, UnderWay, TypeOK, Phases
<1>6. LateAskersMet'
  BY SMTT(30), <1>1, <1>5 DEF LateAskersMet, AllMet, RowsAreAnswers, UnderWay, Progress, TypeOK, InHand,
       Nothing, Answers
<1>7. AskedOnce'
  BY <1>1 DEF AskedOnce, LateAskersMet, UnderWay, Progress, TypeOK, InHand, Nothing, Answers
<1> QED
  BY <1>1, <1>2, <1>3, <1>4, <1>5, <1>6, <1>7

\* The invariant of the module: what every batch has in hand adds up, and agrees
\* with the answers the router gave.
THEOREM InductiveInvariant == Spec => []IInv
<1>1. IInv /\ [Next]_vars => IInv'
  <2> SUFFICES ASSUME IInv, [Next]_vars PROVE IInv'
    OBVIOUS
  <2>1. CASE Next
    BY <2>1, CollectIInv, LookUpIInv, LookedUpIInv, RouterAnswersIInv, RouterFailsIInv,
       SaveRouteIInv, RecordIInv, AbortIInv DEF Next, Batch
  <2>2. CASE UNCHANGED vars
    <3> USE <2>2 DEF vars, batchVars, IInv
    <3>1. TypeOK' /\ Progress'
      BY DEF TypeOK, Progress
    <3>2. Accounted' /\ RowsAreAnswers'
      BY DEF Accounted, CountedOnce, RowsAreAnswers, Answered, Pending
    <3>3. AllMet' /\ LateAskersMet' /\ AskedOnce'
      BY DEF AllMet, LateAskersMet, AskedOnce, UnderWay, Answered, Pending
    <3> QED
      BY <3>1, <3>2, <3>3
  <2> QED
    BY <2>1, <2>2
<1> QED
  BY InitIInv, <1>1, PTL DEF Spec

\* The types, whatever the batches do.
THEOREM TypeCorrect == Spec => []TypeOK
<1>1. IInv => TypeOK
  BY DEF IInv
<1> QED
  BY <1>1, InductiveInvariant, PTL

\* A recorded run counts every key of its scope, once, and what it counts as
\* answered is in the cache.
THEOREM RunsAreTrue == Spec => []RecordedIsTrue
<1>1. IInv => RecordedIsTrue
  <2> SUFFICES ASSUME IInv, NEW b \in Batches, phase[b] = "recorded"
               PROVE /\ keys[b] = hits[b] \union Answered(b) \union failed[b] \union toAsk[b]
                     /\ CountedOnce(b)
                     /\ toAsk[b] # {} => b \in NullRouted
                     /\ \A k \in hits[b] \union Answered(b) : cache[k] # NoRow
    BY DEF RecordedIsTrue
  <2>1. unread[b] = {} /\ Pending(b) = {}
    BY DEF IInv, Progress, Pending
  <2> QED
    BY <2>1 DEF IInv, Accounted, Progress, RowsAreAnswers
<1> QED
  BY <1>1, InductiveInvariant, PTL

\* Two batches without -refresh have one key answered only if they met.
THEOREM NothingIsAskedTwice == Spec => []AskedOnce
<1>1. IInv => AskedOnce
  BY DEF IInv
<1> QED
  BY <1>1, InductiveInvariant, PTL

\* A road leaves the cache only for the answer of a batch with -refresh, or of
\* one that met the batch the road is from.
THEOREM RoadsStay == Spec => RoadsGoOnlyByAnswers
<1> DEFINE Step == \A k \in Keys :
        cache[k] \in Roads /\ cache'[k] # cache[k] =>
            \E b \in Batches :
                /\ inHand[b] = [key |-> k, answer |-> cache'[k]]
                /\ \/ b \in Refreshing
                   \/ \E c \in Batches \ {b} : {b, c} \in met /\ k \in Answered(c)
<1>1. IInv /\ [Next]_vars => [Step]_vars
  <2> SUFFICES ASSUME IInv, Next, NEW k \in Keys, cache[k] \in Roads, cache'[k] # cache[k]
               PROVE \E b \in Batches :
                        /\ inHand[b] = [key |-> k, answer |-> cache'[k]]
                        /\ \/ b \in Refreshing
                           \/ \E c \in Batches \ {b} : {b, c} \in met /\ k \in Answered(c)
    OBVIOUS
  <2>1. PICK b \in Batches : SaveRoute(b)
    BY DEF Next, Batch, Collect, LookUp, LookedUp, RouterAnswers, RouterFails, Remembered,
           Record, Abort
  <2>2. /\ inHand[b] \in [key : Keys, answer : Answers] /\ Pending(b) = {inHand[b].key}
        /\ b \in UnderWay
    BY <2>1 DEF SaveRoute, IInv, Progress, TypeOK, InHand, Pending, UnderWay
  <2>3. k = inHand[b].key /\ cache'[k] = inHand[b].answer
    BY <2>1, <2>2 DEF SaveRoute, Upserted, IInv, TypeOK
  <2>4. PICK c \in Batches : k \in Answered(c)
    BY RoutingAssumption DEF IInv, RowsAreAnswers, Answers
  <2>5. c # b
    BY <2>2, <2>3, <2>4 DEF IInv, Accounted
  <2>6. b \in Refreshing \/ {b, c} \in met
    BY <2>2, <2>3, <2>4, <2>5 DEF IInv, LateAskersMet
  <2> QED
    BY <2>2, <2>3, <2>4, <2>5, <2>6
<1> QED
  BY <1>1, InductiveInvariant, PTL DEF Spec, RoadsGoOnlyByAnswers

-----------------------------------------------------------------------------
(* What a journey is made of.                                                *)

\* What Only keeps is what is at the indices.
LEMMA OnlyDependsOnThose ==
    ASSUME NEW n \in Nat, NEW K \in SUBSET (1 .. n), NEW s, NEW t, \A i \in K : s[i] = t[i]
    PROVE  Only(s, K) = Only(t, K)
<1>1. PICK p : /\ Selects(p, K)
               /\ \A r : Only(r, K) = [k \in 1 .. Cardinality(K) |-> r[p[k]]]
  BY Picking
<1>2. \A k \in 1 .. Cardinality(K) : s[p[k]] = t[p[k]]
  BY <1>1 DEF Selects
<1>3. Only(s, K) = [k \in 1 .. Cardinality(K) |-> s[p[k]]]
  BY <1>1
<1>4. Only(t, K) = [k \in 1 .. Cardinality(K) |-> t[p[k]]]
  BY <1>1
<1> QED
  BY <1>2, <1>3, <1>4

\* A fix of the stream.
Fix == [time : Int, loc : Int, source : {"trace", "raw"}]

LEMMA FixesTyped ==
    ASSUME NEW pts \in Seq(Fix)
    PROVE  \A i \in 1 .. Len(pts) : pts[i].time \in Int /\ pts[i].loc \in Int
<1>1. \A i \in 1 .. Len(pts) : pts[i] \in Fix
  OBVIOUS
<1> QED
  BY <1>1 DEF Fix

\* An observation that may become one.
Dateable(E) == \A x \in E : x.time \in Int /\ x.loc \in Int \union {NoPlace}

LEMMA LoadedType ==
    ASSUME NEW S, S \subseteq Options, IsFiniteSet(S)
    PROVE  \E E : /\ Dateable(E)
                  /\ LoadJourneyInputs(Loaded(S), Window).points \in Seq(E)
                  /\ LoadJourneyInputs(Loaded(S), Window).raws \in Seq(E)
<1> DEFINE E == {x \in S : x.kind \in {"trace", "raw"}}
           Read(kind) == SetToSeq({x \in S : x.kind = kind})
           InTime(s) == StablyBy([i \in DOMAIN s |-> s[i].time], s)
<1>1. Dateable(E)
  BY EvidenceAssumption DEF Dateable
<1>2. ASSUME NEW kind \in {"trace", "raw"} PROVE InTime(Read(kind)) \in Seq(E)
  <2> DEFINE K == {x \in S : x.kind = kind}
             s == Read(kind)
  <2>1. IsFiniteSet(K) /\ K \subseteq E
    BY FS_Subset
  <2>2. s \in Seq(E)
    <3> HIDE DEF K, E
    <3>1. SetToSeq(K) \in Seq(K)
      BY <2>1, ListedOnce
    <3>2. SetToSeq(K) \in Seq(E)
      BY <2>1, <3>1, SeqMonotonic
    <3> QED
      BY <3>2 DEF K
  <2> HIDE DEF s, E
  <2>3. [i \in DOMAIN s |-> s[i].time] \in [DOMAIN s -> Int]
    <3>1. \A i \in DOMAIN s : s[i] \in E
      BY <2>2
    <3> QED
      BY <1>1, <3>1 DEF Dateable
  <2>4. InTime(s) \in Seq(E)
    BY <2>2, <2>3, StablyByType
  <2> QED
    BY <2>4 DEF s
<1>3. Loaded(S).points \in Seq(E) /\ Loaded(S).raws \in Seq(E)
  <2> HIDE DEF E
  <2> QED
    BY <1>2 DEF Loaded
<1> HIDE DEF E, Read, InTime
<1>4. ASSUME NEW s \in Seq(E), NEW K \in SUBSET DOMAIN s PROVE Only(s, K) \in Seq(E)
  <2>1. \A i \in K : s[i] \in E
    OBVIOUS
  <2> QED
    BY <2>1, OnlySome
<1>5. /\ LoadJourneyInputs(Loaded(S), Window).points \in Seq(E)
      /\ LoadJourneyInputs(Loaded(S), Window).raws \in Seq(E)
  <2> DEFINE In(s) == Where(s, LAMBDA x : InWindow(Window, x.time))
  <2>1. In(Loaded(S).points) \in Seq(E) /\ In(Loaded(S).raws) \in Seq(E)
    BY <1>3, <1>4 DEF Where
  <2>2. /\ LoadJourneyInputs(Loaded(S), Window).points = In(Loaded(S).points)
        /\ LoadJourneyInputs(Loaded(S), Window).raws = In(Loaded(S).raws)
    BY DEF LoadJourneyInputs
  <2> QED
    BY <2>1, <2>2
<1> QED
  BY <1>1, <1>5

LEMMA SelectionType ==
    ASSUME NEW E, Dateable(E), NEW obs, obs.points \in Seq(E), obs.raws \in Seq(E), NEW w
    PROVE  Selection(obs, w).stream \in Seq(Fix)
<1> DEFINE F == {x \in E : x.loc # NoPlace}
           Located(s) == Where(s, LAMBDA x : x.loc # NoPlace /\ InWindow(w, x.time))
           Real(s) == Where(Located(s), LAMBDA x : x.loc # NullIsland)
           Accurate(s) == Where(s, LAMBDA x : MaxAccuracy = 0 \/ x.acc <= MaxAccuracy)
           Fixes(source, s) ==
                [i \in DOMAIN s |-> [time |-> s[i].time, loc |-> s[i].loc, source |-> source]]
           traces == Fixes("trace", Real(obs.points))
           raws == Fixes("raw", Accurate(Real(obs.raws)))
           both == traces \o raws
<1>0. \A x \in F : x.time \in Int /\ x.loc \in Int
  BY DEF Dateable
<1>1. ASSUME NEW s \in Seq(E) PROVE Real(s) \in Seq(F)
  <2> DEFINE K == {i \in DOMAIN s : s[i].loc # NoPlace /\ InWindow(w, s[i].time)}
  <2>1. \A i \in K : s[i] \in F
    OBVIOUS
  <2>2. Only(s, K) \in Seq(F)
    <3>1. K \in SUBSET DOMAIN s
      OBVIOUS
    <3> HIDE DEF K, F
    <3> QED
      BY <2>1, <3>1, OnlySome
  <2>3. Located(s) \in Seq(F)
    BY <2>2 DEF Where
  <2> DEFINE l == Located(s)
             M == {i \in DOMAIN l : l[i].loc # NullIsland}
  <2>4. Real(s) = Only(l, M)
    BY DEF Where
  <2>5. M \in SUBSET DOMAIN l
    OBVIOUS
  <2>6. l \in Seq(F)
    BY <2>3
  <2> HIDE DEF l, M, F, K, Real
  <2>7. \A i \in M : l[i] \in F
    BY <2>5, <2>6
  <2> QED
    BY <2>4, <2>5, <2>6, <2>7, OnlySome
<1>2. ASSUME NEW s \in Seq(F) PROVE Accurate(s) \in Seq(F)
  <2> DEFINE M == {i \in DOMAIN s : MaxAccuracy = 0 \/ s[i].acc <= MaxAccuracy}
  <2>1. Accurate(s) = Only(s, M)
    BY DEF Where
  <2>2. M \in SUBSET DOMAIN s
    OBVIOUS
  <2> HIDE DEF M, F, Accurate
  <2>3. \A i \in M : s[i] \in F
    BY <2>2
  <2> QED
    BY <2>1, <2>2, <2>3, OnlySome
<1>3. ASSUME NEW source \in {"trace", "raw"}, NEW s \in Seq(F) PROVE Fixes(source, s) \in Seq(Fix)
  <2> DEFINE n == Len(s)
  <2>1. n \in Nat /\ DOMAIN s = 1 .. n /\ \A i \in 1 .. n : s[i] \in F
    OBVIOUS
  <2>2. \A i \in 1 .. n : [time |-> s[i].time, loc |-> s[i].loc, source |-> source] \in Fix
    BY <1>0, <2>1 DEF Fix
  <2> HIDE DEF n, F
  <2>3. [i \in 1 .. n |-> [time |-> s[i].time, loc |-> s[i].loc, source |-> source]] \in Seq(Fix)
    BY <2>1, <2>2, IsASeq
  <2> QED
    BY <2>1, <2>3
<1>4. both \in Seq(Fix)
  <2>1. Real(obs.points) \in Seq(F) /\ Real(obs.raws) \in Seq(F)
    BY <1>1
  <2> HIDE DEF F, Real
  <2>2. Accurate(Real(obs.raws)) \in Seq(F)
    BY <1>2, <2>1
  <2> HIDE DEF Accurate
  <2>3. traces \in Seq(Fix) /\ raws \in Seq(Fix)
    BY <1>3, <2>1, <2>2
  <2> HIDE DEF traces, raws
  <2> QED
    BY <2>3
<1>5. Selection(obs, w).stream = StablyBy([i \in DOMAIN both |-> both[i].time], both)
  BY DEF Selection
<1> HIDE DEF both
<1>6. [i \in DOMAIN both |-> both[i].time] \in [DOMAIN both -> Int]
  <2>1. \A i \in DOMAIN both : both[i] \in Fix
    BY <1>4
  <2> QED
    BY <2>1 DEF Fix
<1> QED
  BY <1>4, <1>5, <1>6, StablyByType

LEMMA RejectedType ==
    ASSUME NEW pts \in Seq(Fix)
    PROVE  RejectTeleports(pts) \in Seq(Fix)
<1> DEFINE K == DOMAIN pts \ Teleports(pts)
<1>1. K \in SUBSET DOMAIN pts
  OBVIOUS
<1> HIDE DEF K
<1>2. \A i \in K : pts[i] \in Fix
  BY <1>1
<1>3. Only(pts, K) \in Seq(Fix)
  BY <1>1, <1>2, OnlySome
<1> QED
  BY <1>3 DEF RejectTeleports, K

\* Consecutive fixes are ThinSpacing apart.
Spaced(s) == \A k \in 1 .. Len(s) : k > 1 => s[k].time - s[k - 1].time >= ThinSpacing

LEMMA ThinSpaces ==
    ASSUME NEW pts \in Seq(Fix)
    PROVE  Thin(pts) \in Seq(Fix) /\ Spaced(Thin(pts))
<1> DEFINE n == Len(pts)
           D == DOMAIN pts
           breaks == {p \in D \X D : pts[p[2]].time - pts[p[1]].time >= ThinSpacing}
           last == Leader(n, breaks)
           K == {i \in D : last[i] = i}
           m == Cardinality(K)
<1>1. n \in Nat /\ D = 1 .. n /\ K \in SUBSET (1 .. n) /\ K \in SUBSET D
  OBVIOUS
<1>2. Leads(last, n, breaks) /\ InRuns(last, n)
  <2> HIDE DEF n, breaks
  <2> QED
    BY <1>1, LeaderExists, LeadersLeadRuns
<1>3. Thin(pts) = Only(pts, K)
  BY DEF Thin
<1>4. \A i \in D : i > 1 /\ last[i] = i /\ last[i - 1] \in D =>
            pts[i].time - pts[last[i - 1]].time >= ThinSpacing
  <2> SUFFICES ASSUME NEW i \in D, i > 1, last[i] = i, last[i - 1] \in D
               PROVE  <<last[i - 1], i>> \in breaks
    OBVIOUS
  <2> HIDE DEF breaks, last, n, D
  <2>1. i \in 1 .. n /\ i # 1 /\ i - 1 \in 1 .. n
    BY <1>1
  <2>2. last[i - 1] <= i - 1 /\ last[i - 1] \in Int
    BY <1>2, <2>1 DEF InRuns
  <2>3. last[i - 1] # i
    BY <1>1, <2>1, <2>2
  <2> QED
    BY <1>2, <2>1, <2>3 DEF Leads
<1> HIDE DEF breaks, last, D, n
<1>5. Only(pts, K) \in Seq(Fix)
  <2>1. \A i \in K : pts[i] \in Fix
    BY <1>1 DEF D
  <2> HIDE DEF K
  <2> QED
    BY <1>1, <2>1, OnlySome DEF D
<1>6. /\ m \in Nat /\ Only(pts, K) = [k \in 1 .. m |-> Only(pts, K)[k]]
      /\ \E p : Selects(p, K) /\ \A k \in 1 .. m : Only(pts, K)[k] = pts[p[k]]
  <2> HIDE DEF K
  <2> QED
    BY <1>1, Selecting
<1>7. PICK p : Selects(p, K) /\ \A k \in 1 .. m : Only(pts, K)[k] = pts[p[k]]
  BY <1>6
<1>8. Len(Only(pts, K)) = m
  <2> HIDE DEF K
  <2> QED
    BY <1>5, <1>6
<1>9. ASSUME NEW k \in 1 .. m, k > 1
      PROVE  Only(pts, K)[k].time - Only(pts, K)[k - 1].time >= ThinSpacing
  <2> DEFINE i == p[k]
             h == p[k - 1]
             l == last[i - 1]
  <2>1. k - 1 \in 1 .. m /\ k - 1 < k
    <3> HIDE DEF K, m
    <3> QED
      BY <1>6, <1>9
  <2>2. i \in K /\ h \in K /\ h < i
    <3> HIDE DEF K
    <3> QED
      BY <1>6, <1>7, <2>1 DEF Selects
  <2>3. i \in 1 .. n /\ h \in 1 .. n /\ i > 1 /\ i - 1 \in 1 .. n /\ h <= i - 1
    <3> HIDE DEF K, i, h
    <3> QED
      BY <1>1, <2>2
  <2>4. last[i] = i /\ last[h] = h
    BY <2>2
  <2> HIDE DEF i, h
  <2>5. l \in 1 .. n /\ l <= i - 1 /\ last[l] = l /\ last[h] <= l
    BY <1>2, <2>3 DEF InRuns
  <2>6. l \in K /\ h <= l /\ l < i
    BY <1>1, <2>3, <2>4, <2>5
  <2> HIDE DEF l
  <2>7. PICK q \in 1 .. m : p[q] = l
    BY <1>7, <2>6 DEF Selects
  <2>8. q = k - 1
    <3>1. ~(k <= q)
      <4>1. k = q \/ k < q => i <= l
        BY <1>7, <2>7, <2>3, <2>5 DEF Selects, i
      <4> QED
        BY <2>3, <2>5, <2>6, <4>1
    <3>2. ~(q < k - 1)
      <4>1. q < k - 1 => l < h
        BY <1>7, <2>1, <2>7 DEF Selects, h
      <4> QED
        BY <2>3, <2>5, <2>6, <4>1
    <3> QED
      BY <1>6, <2>1, <3>1, <3>2
  <2>9. l = h
    BY <2>7, <2>8 DEF h
  <2>10. pts[i].time - pts[h].time >= ThinSpacing
    BY <1>1, <1>4, <2>3, <2>4, <2>9 DEF l
  <2> QED
    BY <1>7, <2>1, <2>10 DEF i, h
<1> QED
  BY <1>3, <1>5, <1>8, <1>9 DEF Spaced

\* Each is later than all before it.
Ascending(s) == \A l \in 1 .. Len(s) : \A k \in 1 .. (l - 1) : s[k].time < s[l].time

LEMMA SpacedAscends ==
    ASSUME ThinSpacing > 0, NEW s \in Seq(Fix), Spaced(s)
    PROVE  Ascending(s)
<1> DEFINE n == Len(s)
           N == {l \in 0 .. n : \A k \in 1 .. (l - 1) : s[k].time < s[l].time}
<1>0. n \in Nat /\ ThinSpacing \in Nat /\ \A k \in 1 .. n : s[k].time \in Int
  <2>1. \A k \in 1 .. n : s[k] \in Fix
    OBVIOUS
  <2> QED
    BY SMTT(30), <2>1, JourneyAssumption DEF Fix
<1>1. ASSUME NEW l \in 1 .. n, l - 1 \in N PROVE l \in N
  <2>1. ASSUME NEW k \in 1 .. (l - 1) PROVE s[k].time < s[l].time
    <3>1. l > 1 /\ l - 1 \in 1 .. n /\ k \in 1 .. n
      OBVIOUS
    <3>2. s[l].time - s[l - 1].time >= ThinSpacing
      BY <3>1 DEF Spaced
    <3>3. s[k].time \in Int /\ s[l].time \in Int /\ s[l - 1].time \in Int
      BY <1>0, <3>1
    <3>4. s[l - 1].time < s[l].time
      BY <1>0, <3>2, <3>3
    <3>5. k = l - 1 \/ k \in 1 .. (l - 1) - 1
      OBVIOUS
    <3>6. k = l - 1 \/ s[k].time < s[l - 1].time
      BY <1>1, <3>5
    <3> QED
      BY <3>3, <3>4, <3>6
  <2> QED
    BY <2>1
<1>2. 0 .. n \subseteq N
  <2>1. 0 \in N
    OBVIOUS
  <2> HIDE DEF N, n
  <2> QED
    BY <1>0, <1>1, <2>1, StepByStep
<1>3. \A l \in 1 .. n : l \in N
  BY <1>2
<1> QED
  BY <1>3 DEF Ascending

-----------------------------------------------------------------------------
(* Legs.                                                                     *)

\* The last fix of a run.
EndOf(starts, n, r) == IF r = Len(starts) THEN n ELSE starts[r + 1] - 1

\* The runs follow each other from the first fix to the last.
Partition(starts, n) ==
    /\ starts \in Seq(1 .. n) /\ Len(starts) > 0 /\ starts[1] = 1
    /\ \A r \in 1 .. Len(starts) : r > 1 => starts[r - 1] < starts[r]

LEMMA RunsPartition ==
    ASSUME NEW kept \in Seq(Fix), kept # <<>>
    PROVE  Partition(RunStarts(kept), Len(kept))
<1> DEFINE n == Len(kept)
           K == {i \in DOMAIN kept : i = 1 \/ kept[i].time - kept[i - 1].time > GapThreshold}
           m == Cardinality(K)
           s == [i \in DOMAIN kept |-> i]
           starts == Only(s, K)
<1>1. n \in Nat /\ n > 0 /\ K \in SUBSET (1 .. n) /\ 1 \in K /\ DOMAIN kept = 1 .. n
  OBVIOUS
<1>2. RunStarts(kept) = starts
  BY DEF RunStarts
<1>3. /\ m \in Nat /\ starts = [k \in 1 .. m |-> starts[k]]
      /\ \E p : Selects(p, K) /\ \A k \in 1 .. m : starts[k] = s[p[k]]
  <2> HIDE DEF K, n, s
  <2> QED
    BY <1>1, Selecting
<1>4. PICK p : Selects(p, K) /\ \A k \in 1 .. m : starts[k] = s[p[k]]
  BY <1>3
<1> HIDE DEF n, starts
<1>5. \A k \in 1 .. m : starts[k] = p[k] /\ p[k] \in K
  <2>1. \A k \in 1 .. m : p[k] \in K
    BY <1>4 DEF Selects
  <2>2. \A i \in K : s[i] = i
    BY <1>1
  <2> HIDE DEF K, s
  <2> QED
    BY <1>4, <2>1, <2>2
<1> HIDE DEF K, s
<1>6. starts \in Seq(1 .. n) /\ Len(starts) = m
  <2> DEFINE I == 1 .. n
  <2>1. \A k \in 1 .. m : starts[k] \in I
    BY <1>1, <1>5
  <2>2. m \in Nat
    BY <1>3
  <2> HIDE DEF m, I
  <2>3. [k \in 1 .. m |-> starts[k]] \in Seq(I)
    BY <2>1, <2>2, IsASeq
  <2> QED
    BY <1>3, <2>2, <2>3 DEF I
<1>7. PICK q \in 1 .. m : p[q] = 1
  BY <1>1, <1>4 DEF Selects
<1>8. \A k, l \in 1 .. m : k < l => starts[k] < starts[l]
  BY <1>4, <1>5 DEF Selects
<1>9. m > 0 /\ starts[1] = 1
  <2>1. m > 0 /\ 1 \in 1 .. m /\ (q # 1 => 1 < q)
    BY <1>3, <1>7
  <2>2. starts[1] \in 1 .. n /\ starts[q] = 1
    <3>1. starts[q] = 1 /\ starts[1] = p[1] /\ p[1] \in K
      BY <1>5, <1>7, <2>1
    <3> QED
      BY <1>1, <3>1
  <2> QED
    BY <1>1, <1>8, <2>1, <2>2
<1>10. \A r \in 1 .. m : r > 1 => r - 1 \in 1 .. m /\ r - 1 < r
  BY <1>3
<1> QED
  BY <1>2, <1>6, <1>8, <1>9, <1>10 DEF Partition, n

\* The legs lead from the first fix to the last, each from where the one before
\* it ended; from and to are the indices of their ends.
Chain(legs, kept, from, to) ==
    /\ legs = [k \in 1 .. Len(legs) |-> legs[k]] /\ Len(legs) \in Nat \ {0}
    /\ from \in [1 .. Len(legs) -> 1 .. Len(kept)] /\ to \in [1 .. Len(legs) -> 1 .. Len(kept)]
    /\ from[1] = 1 /\ to[Len(legs)] = Len(kept)
    /\ \A k \in 1 .. Len(legs) :
        /\ k > 1 => from[k] = to[k - 1]
        /\ from[k] <= to[k]
        /\ \/ legs[k] = Leg("observed", SubSeq(kept, from[k], to[k]))
           \/ /\ to[k] = from[k] + 1
              /\ \E kind \in {"air", "unknown"} :
                    legs[k] = Leg(kind, <<kept[from[k]], kept[to[k]]>>)

LEMMA LegsChain ==
    ASSUME NEW kept \in Seq(Fix), kept # <<>>
    PROVE  \E from, to : Chain(LegsOf(kept), kept, from, to)
<1> DEFINE n == Len(kept)
           starts == RunStarts(kept)
           m == Len(starts)
           L == 2 * m - 1
           Run(k) == (k + 1) \div 2
           End(r) == EndOf(starts, n, r)
           from == [k \in 1 .. L |-> IF k % 2 = 1 THEN starts[Run(k)] ELSE End(Run(k))]
           to == [k \in 1 .. L |-> IF k % 2 = 1 THEN End(Run(k)) ELSE starts[Run(k) + 1]]
           LegAt(k) == IF k % 2 = 1 THEN Leg("observed", SubSeq(kept, starts[Run(k)], End(Run(k))))
                       ELSE GapLeg(kept[End(Run(k))], kept[starts[Run(k) + 1]])
           legs == LegsOf(kept)
<1>1. Partition(starts, n) /\ n \in Nat
  BY RunsPartition
<1>2. legs = [k \in 1 .. L |-> LegAt(k)]
  BY DEF LegsOf, EndOf
<1> HIDE DEF starts, n, legs
<1>3. /\ m \in Nat /\ m > 0 /\ \A r \in 1 .. m : starts[r] \in 1 .. n
      /\ starts[1] = 1 /\ \A r \in 1 .. m : r > 1 => starts[r - 1] < starts[r]
  BY <1>1 DEF Partition
<1> HIDE DEF m
<1>4. \A r \in 1 .. m : r + 1 \in 1 .. m \/ r = m
  BY <1>3
<1>5. ASSUME NEW r \in 1 .. m
      PROVE  /\ End(r) \in 1 .. n /\ starts[r] \in 1 .. n /\ starts[r] <= End(r)
             /\ r = m => End(r) = n
             /\ r # m => starts[r + 1] \in 1 .. n /\ starts[r + 1] = End(r) + 1
  <2>1. CASE r = m
    <3>1. End(r) = n
      BY <2>1 DEF EndOf, m
    <3>2. starts[r] \in 1 .. n
      BY <1>3
    <3> HIDE DEF End
    <3> QED
      BY <1>1, <2>1, <3>1, <3>2
  <2>2. CASE r # m
    <3>1. End(r) = starts[r + 1] - 1
      BY <2>2 DEF EndOf, m
    <3>2. r + 1 \in 1 .. m /\ r + 1 > 1 /\ (r + 1) - 1 = r
      BY <1>3, <2>2
    <3>3. starts[r] \in 1 .. n /\ starts[r + 1] \in 1 .. n /\ starts[r] < starts[r + 1]
      BY <1>3, <3>2
    <3> HIDE DEF End
    <3> QED
      BY <1>1, <2>2, <3>1, <3>3
  <2> QED
    BY <2>1, <2>2
<1>6. ASSUME NEW k \in 1 .. L
      PROVE  /\ Run(k) \in 1 .. m
             /\ k % 2 = 1 => k = 2 * Run(k) - 1
             /\ k % 2 # 1 => k = 2 * Run(k) /\ Run(k) # m
             /\ k > 1 => /\ k - 1 \in 1 .. L
                         /\ k % 2 = 1 => (k - 1) % 2 # 1 /\ Run(k - 1) + 1 = Run(k)
                         /\ k % 2 # 1 => (k - 1) % 2 = 1 /\ Run(k - 1) = Run(k)
  BY <1>3
<1>7. L \in Nat \ {0} /\ L % 2 = 1 /\ Run(L) = m /\ 1 \in 1 .. L /\ L \in 1 .. L /\ Run(1) = 1 /\ 1 % 2 = 1
  BY <1>3
<1>8. Len(legs) = L
  <2> HIDE DEF L, LegAt
  <2> QED
    BY <1>2, <1>7
<1> HIDE DEF L, Run
<1> HIDE DEF End
<1>9. from \in [1 .. L -> 1 .. n] /\ to \in [1 .. L -> 1 .. n]
  <2>1. \A k \in 1 .. L : from[k] \in 1 .. n /\ to[k] \in 1 .. n
    BY <1>5, <1>6
  <2> QED
    BY <2>1
<1>10. from[1] = 1 /\ to[L] = n
  <2>1. m \in 1 .. m
    BY <1>3
  <2> QED
    BY <1>3, <1>5, <1>7, <2>1
<1>11. ASSUME NEW k \in 1 .. L
       PROVE  /\ k > 1 => from[k] = to[k - 1]
              /\ from[k] <= to[k]
              /\ \/ legs[k] = Leg("observed", SubSeq(kept, from[k], to[k]))
                 \/ /\ to[k] = from[k] + 1
                    /\ \E kind \in {"air", "unknown"} :
                            legs[k] = Leg(kind, <<kept[from[k]], kept[to[k]]>>)
  <2>1. CASE k % 2 = 1
    <3>1. from[k] = starts[Run(k)] /\ to[k] = End(Run(k))
      BY <2>1
    <3>2. legs[k] = Leg("observed", SubSeq(kept, from[k], to[k]))
      BY <1>2, <2>1
    <3>3. k > 1 => from[k] = to[k - 1]
      BY <1>6, <2>1
    <3> HIDE DEF from, to
    <3> QED
      BY <1>5, <1>6, <3>1, <3>2, <3>3
  <2>2. CASE k % 2 # 1
    <3>1. from[k] = End(Run(k)) /\ to[k] = starts[Run(k) + 1]
      BY <2>2
    <3>2. legs[k] = GapLeg(kept[from[k]], kept[to[k]])
      BY <1>2, <2>2
    <3>3. k > 1 => from[k] = to[k - 1]
      BY <1>6, <2>2
    <3> HIDE DEF from, to
    <3>4. \E kind \in {"air", "unknown"} : legs[k] = Leg(kind, <<kept[from[k]], kept[to[k]]>>)
      BY <3>2 DEF GapLeg
    <3>5. to[k] = from[k] + 1 /\ from[k] <= to[k]
      BY <1>5, <1>6, <2>2, <3>1
    <3> QED
      BY <3>3, <3>4, <3>5
  <2> QED
    BY <2>1, <2>2
<1>12. legs = [k \in 1 .. L |-> legs[k]]
  BY <1>2
<1> HIDE DEF from, to
<1>13. Chain(legs, kept, from, to)
  BY <1>7, <1>8, <1>9, <1>10, <1>11, <1>12 DEF Chain, n
<1> QED
  BY <1>13 DEF legs

-----------------------------------------------------------------------------
(* Distances.                                                                *)

\* How far along a path each fix is, counted from anywhere.
Odometer(D, pts) ==
    /\ \A i \in 1 .. Len(pts) : D[i] \in Int
    /\ \A i \in 1 .. Len(pts) : i > 1 => D[i] = D[i - 1] + Dist(pts[i - 1].loc, pts[i].loc)

Chords(locs) == [i \in DOMAIN locs |-> IF i = 1 THEN 0 ELSE Dist(locs[i - 1], locs[i])]

LEMMA ChordsType ==
    ASSUME NEW pts \in Seq(Fix)
    PROVE  /\ Chords(Locs(pts)) \in Seq(Int) /\ Len(Chords(Locs(pts))) = Len(pts)
           /\ \A i \in 1 .. Len(pts) :
                Chords(Locs(pts))[i] = IF i = 1 THEN 0 ELSE Dist(pts[i - 1].loc, pts[i].loc)
<1> DEFINE n == Len(pts)
           chord(i) == IF i = 1 THEN 0 ELSE Dist(pts[i - 1].loc, pts[i].loc)
           s == [i \in 1 .. n |-> chord(i)]
<1>1. n \in Nat /\ DOMAIN pts = 1 .. n /\ \A i \in 1 .. n : pts[i].loc \in Int
  BY FixesTyped
<1>2. \A i \in 1 .. n : i = 1 \/ i - 1 \in 1 .. n
  BY <1>1
<1>3. \A i \in 1 .. n : chord(i) \in Int
  <2> HIDE DEF n
  <2> QED
    BY <1>1, <1>2 DEF Dist
<1>4. Chords(Locs(pts)) = s
  <2>1. DOMAIN Locs(pts) = 1 .. n /\ \A i \in 1 .. n : Locs(pts)[i] = pts[i].loc
    BY <1>1 DEF Locs
  <2> HIDE DEF n
  <2>2. \A i \in 1 .. n :
            (IF i = 1 THEN 0 ELSE Dist(Locs(pts)[i - 1], Locs(pts)[i])) = chord(i)
    BY <1>2, <2>1
  <2> QED
    BY <2>1, <2>2 DEF Chords
<1>5. s \in Seq(Int)
  <2> DEFINE Z == Int
  <2>1. \A i \in 1 .. n : chord(i) \in Z
    BY <1>3
  <2> HIDE DEF n, chord, Z
  <2>2. s \in Seq(Z)
    BY <1>1, <2>1, IsASeq
  <2> QED
    BY <2>2 DEF Z
<1> HIDE DEF chord, n
<1>6. Len(s) = n /\ \A i \in 1 .. n : s[i] = chord(i)
  BY <1>1
<1> QED
  BY <1>4, <1>5, <1>6 DEF chord, n

\* The length of a path is how much farther along its end is.
LEMMA PathIs ==
    ASSUME NEW pts \in Seq(Fix), pts # <<>>, NEW D, Odometer(D, pts)
    PROVE  PathKm(Locs(pts)) = D[Len(pts)] - D[1]
<1> DEFINE n == Len(pts)
           s == Chords(Locs(pts))
           P == [i \in 0 .. n |-> IF i = 0 THEN 0 ELSE D[i] - D[1]]
<1>1. n \in Nat /\ n > 0 /\ 1 \in 1 .. n /\ n \in 1 .. n /\ n \in 0 .. n
  OBVIOUS
<1>2. /\ s \in Seq(Int) /\ Len(s) = n
      /\ \A i \in 1 .. n : s[i] = IF i = 1 THEN 0 ELSE Dist(pts[i - 1].loc, pts[i].loc)
  BY ChordsType
<1>3. PathKm(Locs(pts)) = SumOf(s)
  BY DEF PathKm, Chords
<1>4. \A i \in 1 .. n : D[i] \in Int /\ pts[i].loc \in Int
  BY FixesTyped DEF Odometer
<1> HIDE DEF s
<1>5. P[0] = 0 /\ P[n] = D[n] - D[1]
  BY <1>1
<1>6. ASSUME NEW i \in 1 .. n PROVE P[i] = P[i - 1] + s[i]
  <2>1. P[i] = D[i] - D[1] /\ (i # 1 => P[i - 1] = D[i - 1] - D[1]) /\ (i = 1 => P[i - 1] = 0)
    BY <1>1
  <2> HIDE DEF P
  <2>2. CASE i = 1
    <3>1. D[1] \in Int
      BY <1>1, <1>4
    <3> QED
      BY <1>2, <2>1, <2>2, <3>1
  <2>3. CASE i # 1
    <3>1. i > 1 /\ i - 1 \in 1 .. n
      BY <1>1, <2>3
    <3>2. D[1] \in Int
      BY <1>1, <1>4
    <3>3. D[i] \in Int
      BY <1>4
    <3>4. D[i - 1] \in Int
      BY <1>4, <3>1
    <3>5. pts[i].loc \in Int
      BY <1>4
    <3>6. pts[i - 1].loc \in Int
      BY <1>4, <3>1
    <3>7. D[i] = D[i - 1] + Dist(pts[i - 1].loc, pts[i].loc)
      BY <3>1 DEF Odometer
    <3>8. s[i] = Dist(pts[i - 1].loc, pts[i].loc)
      BY <1>2, <2>3
    <3>9. s[i] \in Int
      BY <3>5, <3>6, <3>8 DEF Dist
    <3>10. D[i] = D[i - 1] + s[i] /\ P[i] = D[i] - D[1] /\ P[i - 1] = D[i - 1] - D[1]
      BY <2>1, <2>3, <3>7, <3>8
    <3> QED
      BY <3>2, <3>3, <3>4, <3>9, <3>10
  <2> QED
    BY <2>2, <2>3
<1> HIDE DEF P, n
<1>7. SumOf(s) = P[Len(s)]
  BY <1>2, <1>5, <1>6, SumIs
<1> QED
  BY <1>2, <1>3, <1>5, <1>7 DEF n

\* There is an odometer for all of a path, by which parts of it are measured.
LEMMA OdometerExists ==
    ASSUME NEW kept \in Seq(Fix)
    PROVE  \E D : Odometer(D, kept)
<1> DEFINE n == Len(kept)
           s == Chords(Locs(kept))
<1>1. /\ s \in Seq(Int) /\ Len(s) = n
      /\ \A i \in 1 .. n : s[i] = IF i = 1 THEN 0 ELSE Dist(kept[i - 1].loc, kept[i].loc)
  BY ChordsType
<1>2. n \in Nat
  OBVIOUS
<1> HIDE DEF s
<1>3. PICK upto : SumsUpTo(upto, s)
  BY <1>1, SumsExist
<1>4. \A i \in 1 .. n : upto[i] \in Int /\ upto[i] = upto[i - 1] + s[i]
  BY <1>1, <1>2, <1>3 DEF SumsUpTo
<1>5. Odometer(upto, kept)
  BY <1>1, <1>4 DEF Odometer
<1> QED
  BY <1>5

LEMMA PartsMeasured ==
    ASSUME NEW kept \in Seq(Fix), NEW D, Odometer(D, kept),
           NEW a \in 1 .. Len(kept), NEW b \in 1 .. Len(kept), a <= b
    PROVE  /\ PathKm(Locs(SubSeq(kept, a, b))) = D[b] - D[a]
           /\ b = a + 1 => PathKm(Locs(<<kept[a], kept[b]>>)) = D[b] - D[a]
<1> DEFINE part == SubSeq(kept, a, b)
           m == b - a + 1
           E == [i \in 1 .. m |-> D[a + i - 1]]
<1>1. /\ part \in Seq(Fix) /\ Len(part) = m /\ m \in Nat /\ m > 0
      /\ \A i \in 1 .. m : part[i] = kept[a + i - 1] /\ a + i - 1 \in 1 .. Len(kept)
  BY SubSeqProperties
<1> HIDE DEF part
<1>2. Odometer(E, part)
  <2>1. \A i \in 1 .. m : E[i] \in Int
    <3>1. \A i \in 1 .. m : D[a + i - 1] \in Int
      BY <1>1 DEF Odometer
    <3> HIDE DEF m
    <3> QED
      BY <3>1
  <2>2. ASSUME NEW i \in 1 .. m, i > 1
        PROVE  E[i] = E[i - 1] + Dist(part[i - 1].loc, part[i].loc)
    <3> DEFINE g == a + i - 1
    <3>1. i - 1 \in 1 .. m /\ g \in 1 .. Len(kept) /\ g > 1 /\ a + (i - 1) - 1 = g - 1
      BY <1>1, <2>2
    <3>2. part[i] = kept[g] /\ part[i - 1] = kept[g - 1]
      BY <1>1, <3>1
    <3>3. E[i] = D[g] /\ E[i - 1] = D[g - 1]
      BY <3>1
    <3> HIDE DEF E, g, m
    <3> QED
      BY <3>1, <3>2, <3>3 DEF Odometer
  <2> HIDE DEF E, m
  <2> QED
    BY <1>1, <2>1, <2>2 DEF Odometer
<1>3. E[m] = D[b] /\ E[1] = D[a]
  BY <1>1
<1>4. PathKm(Locs(part)) = D[b] - D[a]
  <2>1. part # <<>>
    BY <1>1
  <2> HIDE DEF E, m
  <2> QED
    BY <1>1, <1>2, <1>3, <2>1, PathIs
<1>5. ASSUME b = a + 1 PROVE <<kept[a], kept[b]>> = part
  <2>1. m = 2 /\ part[1] = kept[a] /\ part[2] = kept[b]
    BY <1>1, <1>5
  <2> HIDE DEF m
  <2> QED
    BY <1>1, <2>1
<1> QED
  BY <1>4, <1>5 DEF part

-----------------------------------------------------------------------------
(* The journey of the state.                                                 *)

IsAssembled == j = Journeyed(imported)

Collected == imported \subseteq Options /\ IsFiniteSet(imported)

LEMMA JourneyIs ==
    ASSUME Collected, IsAssembled
    PROVE  /\ Stream \in Seq(Fix)
           /\ Kept \in Seq(Fix) /\ Spaced(Kept) /\ j.legs = LegsOf(Kept)
           /\ j.observedKm = KmOf(j.legs, {"observed"})
           /\ j.inferredKm = KmOf(j.legs, {"unknown", "air"})
           /\ j.airKm = KmOf(j.legs, {"air"})
<1> DEFINE obs == LoadJourneyInputs(Loaded(imported), Window)
<1>1. Stream \in Seq(Fix)
  <2>1. PICK E : Dateable(E) /\ obs.points \in Seq(E) /\ obs.raws \in Seq(E)
    BY LoadedType DEF Collected
  <2> HIDE DEF obs
  <2>2. Selection(obs, Window).stream \in Seq(Fix)
    BY <2>1, SelectionType
  <2> QED
    BY <2>2 DEF Stream, obs
<1>2. RejectTeleports(Stream) \in Seq(Fix)
  BY <1>1, RejectedType
<1>3. Kept \in Seq(Fix) /\ Spaced(Kept)
  BY <1>2, ThinSpaces DEF Kept
<1>4. j.legs = LegsOf(Kept)
  BY DEF IsAssembled, Journeyed, Assemble, Kept, Stream
<1>5. /\ j.observedKm = KmOf(j.legs, {"observed"})
      /\ j.inferredKm = KmOf(j.legs, {"unknown", "air"})
      /\ j.airKm = KmOf(j.legs, {"air"})
  BY <1>4 DEF IsAssembled, Journeyed, Assemble, Kept, Stream
<1> QED
  BY <1>1, <1>3, <1>4, <1>5

\* Legs that can be summed up.
Summable(legs) ==
    /\ Len(legs) \in Nat /\ legs = [k \in 1 .. Len(legs) |-> legs[k]]
    /\ \A k \in 1 .. Len(legs) : legs[k].km \in Int

\* A leg of an assembled journey.
Recorded(leg) ==
    \E kind \in {"observed", "air", "unknown"}, pts \in Seq(Fix) :
        pts # <<>> /\ leg = Leg(kind, pts) /\ leg.km \in Int

LEMMA LegsAreRecorded ==
    ASSUME NEW kept \in Seq(Fix)
    PROVE  /\ Summable(LegsOf(kept))
           /\ \A k \in 1 .. Len(LegsOf(kept)) : Recorded(LegsOf(kept)[k])
<1> DEFINE legs == LegsOf(kept)
<1>1. CASE kept = <<>>
  <2>1. legs = <<>>
    BY <1>1 DEF LegsOf
  <2> HIDE DEF legs
  <2>2. Len(legs) = 0 /\ legs = [k \in 1 .. 0 |-> legs[k]]
    BY <2>1
  <2> QED
    BY <2>2 DEF Summable, legs
<1>2. CASE kept # <<>>
  <2>1. PICK from, to : Chain(legs, kept, from, to)
    BY <1>2, LegsChain
  <2>2. PICK D : Odometer(D, kept)
    BY OdometerExists
  <2> HIDE DEF legs
  <2>3. ASSUME NEW k \in 1 .. Len(legs) PROVE Recorded(legs[k])
    <3> DEFINE a == from[k]
               b == to[k]
    <3>1. /\ a \in 1 .. Len(kept) /\ b \in 1 .. Len(kept) /\ a <= b
          /\ \/ legs[k] = Leg("observed", SubSeq(kept, a, b))
             \/ /\ b = a + 1
                /\ \E kind \in {"air", "unknown"} : legs[k] = Leg(kind, <<kept[a], kept[b]>>)
      BY <2>1 DEF Chain
    <3> HIDE DEF a, b
    <3>2. D[b] - D[a] \in Int
      <4>1. D[b] \in Int /\ D[a] \in Int
        BY <2>2, <3>1 DEF Odometer
      <4> QED
        BY <4>1
    <3>3. CASE legs[k] = Leg("observed", SubSeq(kept, a, b))
      <4>1. SubSeq(kept, a, b) \in Seq(Fix) /\ SubSeq(kept, a, b) # <<>>
        <5>1. SubSeq(kept, a, b) \in Seq(Fix) /\ Len(SubSeq(kept, a, b)) = b - a + 1
          BY <3>1, SubSeqProperties
        <5> QED
          BY <3>1, <5>1
      <4>2. PathKm(Locs(SubSeq(kept, a, b))) \in Int
        BY <2>2, <3>1, <3>2, PartsMeasured
      <4>3. legs[k].km \in Int
        BY <3>3, <4>2 DEF Leg
      <4> QED
        BY <3>3, <4>1, <4>3 DEF Recorded
    <3>4. CASE b = a + 1 /\ \E kind \in {"air", "unknown"} :
                                legs[k] = Leg(kind, <<kept[a], kept[b]>>)
      <4>1. PICK kind \in {"air", "unknown"} : legs[k] = Leg(kind, <<kept[a], kept[b]>>)
        BY <3>4
      <4>2. <<kept[a], kept[b]>> \in Seq(Fix) /\ <<kept[a], kept[b]>> # <<>>
        BY <3>1
      <4>3. PathKm(Locs(<<kept[a], kept[b]>>)) \in Int
        BY <2>2, <3>1, <3>2, <3>4, PartsMeasured
      <4>4. legs[k].km \in Int
        BY <4>1, <4>3 DEF Leg
      <4> QED
        BY <4>1, <4>2, <4>4 DEF Recorded
    <3> QED
      BY <3>1, <3>3, <3>4
  <2>4. \A k \in 1 .. Len(legs) : legs[k].km \in Int
    BY <2>3 DEF Recorded
  <2> QED
    BY <2>1, <2>3, <2>4 DEF Chain, Summable, legs
<1> QED
  BY <1>1, <1>2

KmsOf(legs, kinds) == [i \in DOMAIN legs |-> IF legs[i].kind \in kinds THEN legs[i].km ELSE 0]

LEMMA KmsType ==
    ASSUME NEW legs, Summable(legs), NEW kinds
    PROVE  /\ KmsOf(legs, kinds) \in Seq(Int) /\ Len(KmsOf(legs, kinds)) = Len(legs)
           /\ \A i \in 1 .. Len(legs) :
                /\ legs[i].kind \in kinds => KmsOf(legs, kinds)[i] = legs[i].km
                /\ legs[i].kind \notin kinds => KmsOf(legs, kinds)[i] = 0
<1> DEFINE n == Len(legs)
           km(i) == IF legs[i].kind \in kinds THEN legs[i].km ELSE 0
           s == [i \in 1 .. n |-> km(i)]
           Z == Int
<1>1. n \in Nat /\ DOMAIN legs = 1 .. n /\ \A i \in 1 .. n : km(i) \in Z
  BY DEF Summable
<1>2. KmsOf(legs, kinds) = s
  BY <1>1 DEF KmsOf
<1>3. s \in Seq(Z)
  <2> HIDE DEF n, km, Z
  <2> QED
    BY <1>1, IsASeq
<1>4. Len(s) = n /\ \A i \in 1 .. n : s[i] = km(i)
  <2> HIDE DEF n, km
  <2> QED
    BY <1>1
<1> QED
  BY <1>2, <1>3, <1>4

\* A leg as it is served.
Redrawn(new, old) ==
    \/ new = old
    \/ /\ old.kind = "unknown" /\ new.kind = "road"
       /\ new.points = old.points /\ new.km = old.km

LEMMA ServedIs ==
    ASSUME Collected, IsAssembled
    PROVE  /\ Served.legs = [i \in DOMAIN j.legs |-> Served.legs[i]]
           /\ \A i \in DOMAIN j.legs : Redrawn(Served.legs[i], j.legs[i])
           /\ \A i \in UnknownGaps(j) :
                KeyFor(j.legs[i]) \in DOMAIN Lookup => Served.legs[i].kind = "road"
           /\ Served.stops = j.stops /\ Served.window = j.window
           /\ Served.unknownKm = KmOf(Served.legs, {"unknown"})
<1> DEFINE Known(i) == i \in UnknownGaps(j) /\ KeyFor(j.legs[i]) \in DOMAIN Lookup
           Decorated(i) == IF Known(i) THEN [j.legs[i] EXCEPT !.kind = "road",
                                                !.road = Lookup[KeyFor(j.legs[i])].road,
                                                !.roadKm = Lookup[KeyFor(j.legs[i])].km]
                           ELSE j.legs[i]
           legs == [i \in DOMAIN j.legs |-> Decorated(i)]
           roads == SumOf([i \in DOMAIN legs |-> legs[i].roadKm])
<1>1. {"legs", "stops", "window", "unknownKm", "routedKm"} \subseteq DOMAIN j
  BY DEF IsAssembled, Journeyed, Assemble
<1>2. Served = [j EXCEPT !.legs = legs, !.unknownKm = KmOf(legs, {"unknown"}), !.routedKm = roads]
  BY Zenon DEF Served, Apply
<1> HIDE DEF roads
<1>3. ASSUME NEW i \in DOMAIN j.legs
      PROVE  Redrawn(Decorated(i), j.legs[i]) /\ (Known(i) => Decorated(i).kind = "road")
  <2>1. CASE ~Known(i)
    BY <2>1 DEF Redrawn
  <2>2. CASE Known(i)
    <3>1. i \in 1 .. Len(j.legs)
      <4>1. j.legs = LegsOf(Kept) /\ Summable(LegsOf(Kept))
        BY JourneyIs, LegsAreRecorded
      <4> HIDE DEF Known, Decorated, legs
      <4> QED
        BY <4>1 DEF Summable
    <3>2. Recorded(j.legs[i])
      <4> HIDE DEF Known, Decorated, legs
      <4> QED
        BY <3>1, JourneyIs, LegsAreRecorded
    <3> DEFINE old == j.legs[i]
               road == Lookup[KeyFor(old)].road
               km == Lookup[KeyFor(old)].km
    <3>3. PICK kind, pts : old = Leg(kind, pts)
      BY <3>2 DEF Recorded
    <3>4. old.kind = "unknown"
      BY <2>2 DEF UnknownGaps
    <3>5. Decorated(i) = [old EXCEPT !.kind = "road", !.road = road, !.roadKm = km]
      BY <2>2
    <3> HIDE DEF Decorated, Known, legs, old, road, km
    <3>6. /\ Decorated(i).kind = "road" /\ Decorated(i).points = old.points
          /\ Decorated(i).km = old.km
      BY <3>3, <3>5 DEF Leg
    <3> QED
      BY <3>4, <3>6 DEF Redrawn, old
  <2> QED
    BY <2>1, <2>2
<1>7. \A i \in UnknownGaps(j) : i \in DOMAIN j.legs /\ (KeyFor(j.legs[i]) \in DOMAIN Lookup => Known(i))
  BY DEF UnknownGaps
<1> HIDE DEF Known, Decorated
<1>4. Served.legs = legs
  <2> HIDE DEF legs
  <2> QED
    BY <1>1, <1>2
<1>5. Served.stops = j.stops /\ Served.window = j.window
  <2> HIDE DEF legs
  <2> QED
    BY <1>1, <1>2
<1>6. Served.unknownKm = KmOf(legs, {"unknown"})
  <2> HIDE DEF legs
  <2> QED
    BY <1>1, <1>2
<1> QED
  BY <1>3, <1>4, <1>5, <1>6, <1>7

\* What is measured leg by leg adds up to what is observed and what is not.
LEMMA FiguresAddUp ==
    ASSUME Collected, IsAssembled
    PROVE  /\ Served.unknownKm + KmOf(Served.legs, {"road"}) + j.airKm = j.inferredKm
           /\ j.observedKm + j.inferredKm = KmOf(j.legs, {"observed", "air", "unknown"})
<1> DEFINE legs == j.legs
           served == Served.legs
           n == Len(legs)
<1>1. /\ Summable(legs) /\ \A i \in 1 .. n : Recorded(legs[i])
      /\ j.observedKm = KmOf(legs, {"observed"}) /\ j.airKm = KmOf(legs, {"air"})
      /\ j.inferredKm = KmOf(legs, {"unknown", "air"})
  BY JourneyIs, LegsAreRecorded
<1>2. /\ served = [i \in DOMAIN legs |-> served[i]]
      /\ \A i \in DOMAIN legs : Redrawn(served[i], legs[i])
      /\ Served.unknownKm = KmOf(served, {"unknown"})
  BY ServedIs
<1> HIDE DEF legs, served
<1>3. n \in Nat /\ DOMAIN legs = 1 .. n
  BY <1>1 DEF Summable
<1>4. \A i \in 1 .. n : legs[i].kind \in {"observed", "air", "unknown"} /\ legs[i].km \in Int
  <2> SUFFICES ASSUME NEW i \in 1 .. n
               PROVE  legs[i].kind \in {"observed", "air", "unknown"} /\ legs[i].km \in Int
    OBVIOUS
  <2>1. PICK kind \in {"observed", "air", "unknown"}, pts \in Seq(Fix) :
                legs[i] = Leg(kind, pts) /\ legs[i].km \in Int
    BY <1>1 DEF Recorded
  <2>2. Leg(kind, pts).kind = kind
    BY DEF Leg
  <2> QED
    BY <2>1, <2>2
<1>5. \A i \in 1 .. n :
        /\ served[i].km = legs[i].km
        /\ served[i].kind = legs[i].kind \/ (legs[i].kind = "unknown" /\ served[i].kind = "road")
  BY <1>2, <1>3 DEF Redrawn
<1>6. Len(served) = n /\ Summable(served)
  <2> HIDE DEF n
  <2>1. Len(served) = n
    BY <1>2, <1>3
  <2> QED
    BY <1>2, <1>3, <1>4, <1>5, <2>1 DEF Summable
<1>7. \A l, kinds : KmOf(l, kinds) = SumOf(KmsOf(l, kinds))
  BY DEF KmOf, KmsOf
<1> DEFINE Adds(l, A, k, B, h, C) ==
                /\ KmsOf(l, A) \in Seq(Int) /\ KmsOf(k, B) \in Seq(Int) /\ KmsOf(h, C) \in Seq(Int)
                /\ Len(KmsOf(l, A)) = n /\ Len(KmsOf(k, B)) = n /\ Len(KmsOf(h, C)) = n
                /\ \A i \in 1 .. n : KmsOf(h, C)[i] = KmsOf(l, A)[i] + KmsOf(k, B)[i]
<1>8. ASSUME NEW l, NEW A, NEW k, NEW B, NEW h, NEW C, Adds(l, A, k, B, h, C)
      PROVE  KmOf(h, C) = KmOf(l, A) + KmOf(k, B) /\ KmOf(l, A) \in Int /\ KmOf(k, B) \in Int
  <2>1. SumOf(KmsOf(h, C)) = SumOf(KmsOf(l, A)) + SumOf(KmsOf(k, B))
    BY <1>8, SumsAdd
  <2>2. SumOf(KmsOf(l, A)) \in Int /\ SumOf(KmsOf(k, B)) \in Int
    BY <1>8, SumsTyped
  <2> QED
    BY <1>7, <2>1, <2>2
<1>a. \A kinds : /\ KmsOf(legs, kinds) \in Seq(Int) /\ Len(KmsOf(legs, kinds)) = n
                 /\ \A i \in 1 .. n :
                        /\ legs[i].kind \in kinds => KmsOf(legs, kinds)[i] = legs[i].km
                        /\ legs[i].kind \notin kinds => KmsOf(legs, kinds)[i] = 0
  BY <1>1, KmsType
<1>b. \A kinds : /\ KmsOf(served, kinds) \in Seq(Int) /\ Len(KmsOf(served, kinds)) = n
                 /\ \A i \in 1 .. n :
                        /\ served[i].kind \in kinds => KmsOf(served, kinds)[i] = served[i].km
                        /\ served[i].kind \notin kinds => KmsOf(served, kinds)[i] = 0
  BY <1>6, KmsType
<1> HIDE DEF n
<1>9. Adds(served, {"unknown"}, served, {"road"}, legs, {"unknown"})
  <2>1. ASSUME NEW i \in 1 .. n
        PROVE  KmsOf(legs, {"unknown"})[i] =
                    KmsOf(served, {"unknown"})[i] + KmsOf(served, {"road"})[i]
    <3>1. legs[i].km \in Int
      BY <1>4
    <3>2. CASE legs[i].kind # "unknown"
      <4>1. KmsOf(legs, {"unknown"})[i] = 0
        BY <1>a, <3>2
      <4>2. served[i].kind \notin {"unknown"} /\ served[i].kind \notin {"road"}
        BY <1>4, <1>5, <3>2
      <4>3. KmsOf(served, {"unknown"})[i] = 0 /\ KmsOf(served, {"road"})[i] = 0
        BY <1>b, <4>2
      <4> QED
        BY <4>1, <4>3
    <3>3. CASE legs[i].kind = "unknown" /\ served[i].kind = "unknown"
      <4>1. KmsOf(legs, {"unknown"})[i] = legs[i].km
        BY <1>a, <3>3
      <4>2. KmsOf(served, {"unknown"})[i] = legs[i].km /\ KmsOf(served, {"road"})[i] = 0
        BY <1>5, <1>b, <3>3
      <4> QED
        BY <3>1, <4>1, <4>2
    <3>4. CASE legs[i].kind = "unknown" /\ served[i].kind = "road"
      <4>1. KmsOf(legs, {"unknown"})[i] = legs[i].km
        BY <1>a, <3>4
      <4>2. KmsOf(served, {"road"})[i] = legs[i].km /\ KmsOf(served, {"unknown"})[i] = 0
        BY <1>5, <1>b, <3>4
      <4> QED
        BY <3>1, <4>1, <4>2
    <3> QED
      BY <1>5, <3>2, <3>3, <3>4
  <2> QED
    BY <1>a, <1>b, <2>1
<1>10. Adds(legs, {"unknown"}, legs, {"air"}, legs, {"unknown", "air"})
  <2>1. ASSUME NEW i \in 1 .. n
        PROVE  KmsOf(legs, {"unknown", "air"})[i] =
                    KmsOf(legs, {"unknown"})[i] + KmsOf(legs, {"air"})[i]
    <3>1. legs[i].km \in Int
      BY <1>4
    <3>2. CASE legs[i].kind = "unknown"
      <4>1. KmsOf(legs, {"unknown", "air"})[i] = legs[i].km
        BY <1>a, <3>2
      <4>2. KmsOf(legs, {"unknown"})[i] = legs[i].km /\ KmsOf(legs, {"air"})[i] = 0
        BY <1>a, <3>2
      <4> QED
        BY <3>1, <4>1, <4>2
    <3>3. CASE legs[i].kind = "air"
      <4>1. KmsOf(legs, {"unknown", "air"})[i] = legs[i].km
        BY <1>a, <3>3
      <4>2. KmsOf(legs, {"unknown"})[i] = 0 /\ KmsOf(legs, {"air"})[i] = legs[i].km
        BY <1>a, <3>3
      <4> QED
        BY <3>1, <4>1, <4>2
    <3>4. CASE legs[i].kind = "observed"
      <4>1. legs[i].kind \notin {"unknown", "air"} /\ legs[i].kind \notin {"unknown"}
            /\ legs[i].kind \notin {"air"}
        BY <3>4
      <4>2. KmsOf(legs, {"unknown", "air"})[i] = 0
        BY <1>a, <4>1
      <4>3. KmsOf(legs, {"unknown"})[i] = 0 /\ KmsOf(legs, {"air"})[i] = 0
        BY <1>a, <4>1
      <4> QED
        BY <4>2, <4>3
    <3> QED
      BY <1>4, <3>2, <3>3, <3>4
  <2> QED
    BY <1>a, <2>1
<1>11. Adds(legs, {"observed"}, legs, {"unknown", "air"}, legs, {"observed", "air", "unknown"})
  <2>1. ASSUME NEW i \in 1 .. n
        PROVE  KmsOf(legs, {"observed", "air", "unknown"})[i] =
                    KmsOf(legs, {"observed"})[i] + KmsOf(legs, {"unknown", "air"})[i]
    <3>1. legs[i].km \in Int
      BY <1>4
    <3>2. KmsOf(legs, {"observed", "air", "unknown"})[i] = legs[i].km
      BY <1>4, <1>a
    <3>3. CASE legs[i].kind = "observed"
      <4>0. legs[i].kind \in {"observed"} /\ legs[i].kind \notin {"unknown", "air"}
        BY <3>3
      <4>1. KmsOf(legs, {"observed"})[i] = legs[i].km /\ KmsOf(legs, {"unknown", "air"})[i] = 0
        BY <1>a, <4>0
      <4> QED
        BY <3>1, <3>2, <4>1
    <3>4. CASE legs[i].kind # "observed"
      <4>1. KmsOf(legs, {"observed"})[i] = 0 /\ KmsOf(legs, {"unknown", "air"})[i] = legs[i].km
        BY <1>4, <1>a, <3>4
      <4> QED
        BY <3>1, <3>2, <4>1
    <3> QED
      BY <3>3, <3>4
  <2> QED
    BY <1>a, <2>1
<1> HIDE DEF Adds
<1>12. KmOf(legs, {"unknown"}) = KmOf(served, {"unknown"}) + KmOf(served, {"road"})
  BY <1>8, <1>9
<1>13. KmOf(legs, {"unknown", "air"}) = KmOf(legs, {"unknown"}) + KmOf(legs, {"air"})
  BY <1>8, <1>10
<1>14. KmOf(legs, {"observed", "air", "unknown"})
            = KmOf(legs, {"observed"}) + KmOf(legs, {"unknown", "air"})
  BY <1>8, <1>11
<1> QED
  BY <1>1, <1>2, <1>12, <1>13, <1>14 DEF legs, served

\* The legs are as long as the path of the kept fixes.
LEMMA LegsMeasureThePath ==
    ASSUME NEW kept \in Seq(Fix)
    PROVE  KmOf(LegsOf(kept), {"observed", "air", "unknown"}) = PathKm(Locs(kept))
<1> DEFINE legs == LegsOf(kept)
           all == {"observed", "air", "unknown"}
           s == KmsOf(legs, all)
           L == Len(legs)
<1>1. Summable(legs) /\ \A k \in 1 .. L : Recorded(legs[k])
  BY LegsAreRecorded
<1>2. KmOf(legs, all) = SumOf(s)
  BY DEF KmOf, KmsOf
<1>3. /\ s \in Seq(Int) /\ Len(s) = L
      /\ \A k \in 1 .. L : legs[k].kind \in all => s[k] = legs[k].km
  <2> HIDE DEF legs, all
  <2> QED
    BY <1>1, KmsType
<1>4. \A k \in 1 .. L : legs[k].kind \in all
  <2> SUFFICES ASSUME NEW k \in 1 .. L PROVE legs[k].kind \in all
    OBVIOUS
  <2> HIDE DEF legs
  <2>1. PICK kind \in all, pts \in Seq(Fix) : legs[k] = Leg(kind, pts)
    BY <1>1 DEF Recorded
  <2>2. Leg(kind, pts).kind = kind
    BY DEF Leg
  <2> QED
    BY <2>1, <2>2
<1> HIDE DEF all, s
<1>5. CASE kept = <<>>
  <2>1. legs = <<>>
    BY <1>5 DEF LegsOf
  <2> HIDE DEF legs
  <2>2. SumOf(s) = 0
    <3> DEFINE P == [k \in 0 .. 0 |-> 0]
    <3>1. Len(s) = 0 /\ P[0] = 0
      BY <1>3, <2>1
    <3>2. \A k \in 1 .. Len(s) : P[k] = P[k - 1] + s[k]
      BY <3>1
    <3> HIDE DEF P
    <3> QED
      BY <1>3, <3>1, <3>2, SumIs
  <2>3. PathKm(Locs(kept)) = 0
    <3> DEFINE P == [k \in 0 .. 0 |-> 0]
               c == Chords(Locs(kept))
    <3>0. c \in Seq(Int) /\ Len(c) = Len(kept)
      BY ChordsType
    <3>1. Len(c) = 0 /\ P[0] = 0
      BY <1>5, <3>0
    <3>2. \A k \in 1 .. Len(c) : P[k] = P[k - 1] + c[k]
      BY <3>1
    <3>3. PathKm(Locs(kept)) = SumOf(c)
      BY DEF PathKm, Chords
    <3> HIDE DEF P, c
    <3> QED
      BY <3>0, <3>1, <3>2, <3>3, SumIs
  <2> QED
    BY <1>2, <2>2, <2>3 DEF legs, all
<1>6. CASE kept # <<>>
  <2>1. PICK from, to : Chain(legs, kept, from, to)
    BY <1>6, LegsChain
  <2>2. PICK D : Odometer(D, kept)
    BY OdometerExists
  <2> HIDE DEF legs
  <2> DEFINE P == [k \in 0 .. L |-> IF k = 0 THEN 0 ELSE D[to[k]] - D[1]]
             n == Len(kept)
  <2>3. /\ L \in Nat /\ L # 0 /\ n \in Nat /\ n # 0 /\ to[L] = n /\ from[1] = 1
        /\ from \in [1 .. L -> 1 .. n] /\ to \in [1 .. L -> 1 .. n]
    BY <1>6, <2>1 DEF Chain
  <2>4. ASSUME NEW k \in 1 .. L PROVE s[k] = D[to[k]] - D[from[k]]
    <3> DEFINE a == from[k]
               b == to[k]
    <3>1. /\ a \in 1 .. Len(kept) /\ b \in 1 .. Len(kept) /\ a <= b
          /\ \/ legs[k] = Leg("observed", SubSeq(kept, a, b))
             \/ /\ b = a + 1
                /\ \E kind \in {"air", "unknown"} : legs[k] = Leg(kind, <<kept[a], kept[b]>>)
      BY <2>1 DEF Chain
    <3>2. s[k] = legs[k].km
      BY <1>3, <1>4
    <3> HIDE DEF a, b, L
    <3>3. /\ PathKm(Locs(SubSeq(kept, a, b))) = D[b] - D[a]
          /\ b = a + 1 => PathKm(Locs(<<kept[a], kept[b]>>)) = D[b] - D[a]
      BY <2>2, <3>1, PartsMeasured
    <3>4. legs[k].km = D[b] - D[a]
      <4>1. ASSUME NEW kind, NEW pts PROVE Leg(kind, pts).km = PathKm(Locs(pts))
        BY DEF Leg
      <4> QED
        BY <3>1, <3>3, <4>1
    <3> QED
      BY <3>2, <3>4 DEF a, b
  <2> HIDE DEF n, L
  <2>5. \A i \in 1 .. n : D[i] \in Int
    BY <2>2 DEF Odometer, n
  <2>6. P[0] = 0
    BY <2>3
  <2>7. ASSUME NEW k \in 1 .. L PROVE P[k] = P[k - 1] + s[k]
    <3>1. 1 \in 1 .. n /\ to[k] \in 1 .. n /\ from[k] \in 1 .. n
      BY <2>3
    <3>2. D[1] \in Int
      BY <2>5, <3>1
    <3>3. D[to[k]] \in Int
      BY <2>5, <3>1
    <3>4. D[from[k]] \in Int
      BY <2>5, <3>1
    <3>5. P[k] = D[to[k]] - D[1]
      BY <2>3
    <3>6. P[k - 1] = D[from[k]] - D[1]
      <4>1. CASE k = 1
        <5>1. P[k - 1] = 0 /\ from[k] = 1
          BY <2>3, <4>1
        <5> QED
          BY <3>2, <5>1
      <4>2. CASE k # 1
        <5>1. k - 1 \in 0 .. L /\ k - 1 # 0 /\ k > 1
          BY <2>3, <4>2
        <5>2. from[k] = to[k - 1]
          BY <2>1, <5>1 DEF Chain, L
        <5> QED
          BY <5>1, <5>2
      <4> QED
        BY <4>1, <4>2
    <3>7. s[k] = D[to[k]] - D[from[k]]
      BY <2>4
    <3> HIDE DEF P
    <3>8. D[to[k]] - D[1] = (D[from[k]] - D[1]) + (D[to[k]] - D[from[k]])
      BY <3>2, <3>3, <3>4
    <3> QED
      BY <3>5, <3>6, <3>7, <3>8
  <2>8. P[L] = D[n] - D[1]
    BY <2>3
  <2> HIDE DEF P
  <2>9. SumOf(s) = P[L]
    BY <1>3, <2>6, <2>7, SumIs
  <2>10. PathKm(Locs(kept)) = D[n] - D[1]
    BY <1>6, <2>2, PathIs DEF n
  <2> QED
    BY <1>2, <2>8, <2>9, <2>10 DEF legs, all
<1> QED
  BY <1>5, <1>6

\* Nothing that is summarized changes with the roads.
LEMMA SummaryStays ==
    ASSUME Collected, IsAssembled
    PROVE  Summarize(Served) = Summarize(j)
<1> DEFINE n == Len(j.legs)
<1>1. n \in Nat /\ DOMAIN j.legs = 1 .. n
  BY JourneyIs, LegsAreRecorded DEF Summable
<1> HIDE DEF n
<1>2. /\ Served.legs = [i \in 1 .. n |-> Served.legs[i]]
      /\ \A i \in 1 .. n : Redrawn(Served.legs[i], j.legs[i])
      /\ Served.stops = j.stops /\ Served.window = j.window
  BY <1>1, ServedIs
<1>3. DOMAIN Served.legs = 1 .. n
  BY <1>2
<1>4. \A i \in 1 .. n : /\ LegStart(Served.legs[i]) = LegStart(j.legs[i])
                        /\ LegEnd(Served.legs[i]) = LegEnd(j.legs[i])
  <2> SUFFICES ASSUME NEW i \in 1 .. n PROVE Served.legs[i].points = j.legs[i].points
    BY DEF LegStart, LegEnd
  <2> QED
    BY <1>2 DEF Redrawn
<1>5. {<<LegStart(leg), LegEnd(leg)>> : leg \in ToSet(Served.legs)}
            = {<<LegStart(leg), LegEnd(leg)>> : leg \in ToSet(j.legs)}
  <2>1. /\ {<<LegStart(leg), LegEnd(leg)>> : leg \in ToSet(Served.legs)}
                = {<<LegStart(Served.legs[i]), LegEnd(Served.legs[i])>> : i \in 1 .. n}
        /\ {<<LegStart(leg), LegEnd(leg)>> : leg \in ToSet(j.legs)}
                = {<<LegStart(j.legs[i]), LegEnd(j.legs[i])>> : i \in 1 .. n}
    BY <1>1, <1>3 DEF ToSet
  <2> QED
    BY <1>4, <2>1
<1>6. CivilDays(Served) = CivilDays(j)
  BY <1>2, <1>5 DEF CivilDays
<1>7. Where(Served.legs, Moving) = Where(j.legs, Moving)
  <2>1. \A i \in 1 .. n : Moving(Served.legs[i]) <=> Moving(j.legs[i])
    BY <1>2 DEF Redrawn, Moving
  <2>2. {i \in DOMAIN Served.legs : Moving(Served.legs[i])} = {i \in DOMAIN j.legs : Moving(j.legs[i])}
    BY <1>1, <1>3, <2>1
  <2> DEFINE K == {i \in DOMAIN j.legs : Moving(j.legs[i])}
  <2>3. \A i \in K : Served.legs[i] = j.legs[i]
    <3>1. \A i \in K : i \in 1 .. n /\ j.legs[i].kind = "observed"
      BY <1>1 DEF Moving
    <3> HIDE DEF K
    <3> QED
      BY <1>2, <3>1 DEF Redrawn
  <2>4. K \in SUBSET (1 .. n)
    BY <1>1
  <2> HIDE DEF K
  <2>5. Only(Served.legs, K) = Only(j.legs, K)
    BY <1>1, <2>3, <2>4, OnlyDependsOnThose
  <2> QED
    BY <2>2, <2>5 DEF Where, K
<1> QED
  BY <1>2, <1>6, <1>7 DEF Summarize

LEMMA AlwaysAssembled == JourneysSpec => [](Collected /\ IsAssembled)
<1>1. JourneysInit => Collected /\ IsAssembled
  BY FS_EmptySet DEF JourneysInit, IsAssembled, Collected
<1>2. Collected /\ IsAssembled /\ [JourneysNext]_<<vars, journeyVars>>
        => (Collected /\ IsAssembled)'
  <2> SUFFICES ASSUME Collected, IsAssembled, [JourneysNext]_<<vars, journeyVars>>
               PROVE  (Collected /\ IsAssembled)'
    OBVIOUS
  <2>1. ASSUME NEW x \in Options \ imported, Import(x) PROVE (Collected /\ IsAssembled)'
    BY <2>1, FS_AddElement DEF Import, IsAssembled, Collected
  <2>2. CASE UNCHANGED journeyVars
    BY <2>2 DEF journeyVars, IsAssembled, Collected
  <2> QED
    BY <2>1, <2>2 DEF JourneysNext, Route
<1> QED
  BY <1>1, <1>2, PTL DEF JourneysSpec

\* What was measured stays as it is whatever a router says, and the figures of
\* the page add up to the path of the kept fixes.
THEOREM RoadsOnlyInfer == JourneysSpec => []RoadsAreInference
<1>1. Collected /\ IsAssembled => RoadsAreInference
  <2> SUFFICES ASSUME Collected, IsAssembled PROVE RoadsAreInference
    OBVIOUS
  <2> DEFINE n == Len(j.legs)
  <2>1. n \in Nat /\ DOMAIN j.legs = 1 .. n /\ \A i \in 1 .. n : Recorded(j.legs[i])
    BY JourneyIs, LegsAreRecorded DEF Summable
  <2>2. /\ Served.legs = [i \in DOMAIN j.legs |-> Served.legs[i]]
        /\ \A i \in DOMAIN j.legs : Redrawn(Served.legs[i], j.legs[i])
        /\ Served.stops = j.stops
    BY ServedIs
  <2>3. Len(Served.legs) = n
    <3> HIDE DEF n
    <3> QED
      BY <2>1, <2>2
  <2>4. ASSUME NEW i \in DOMAIN j.legs
        PROVE  /\ Served.legs[i].points = j.legs[i].points
               /\ \/ Served.legs[i] = j.legs[i]
                  \/ j.legs[i].kind = "unknown" /\ Served.legs[i].kind = "road"
    BY <2>2 DEF Redrawn
  <2>5. j.observedKm + j.inferredKm = PathKm(Locs(Kept))
    <3>1. Kept \in Seq(Fix) /\ j.legs = LegsOf(Kept)
      BY JourneyIs
    <3> QED
      BY <3>1, FiguresAddUp, LegsMeasureThePath
  <2> QED
    BY <2>2, <2>3, <2>4, <2>5, SummaryStays, FiguresAddUp DEF RoadsAreInference
<1> QED
  BY <1>1, AlwaysAssembled, PTL

-----------------------------------------------------------------------------
(* Coverage.                                                                 *)

\* A leg lasts from its first fix to its last.
LEMMA LegLasts ==
    ASSUME NEW kept \in Seq(Fix), NEW legs, NEW from, NEW to, Chain(legs, kept, from, to),
           NEW k \in 1 .. Len(legs)
    PROVE  /\ LegStart(legs[k]) = kept[from[k]].time /\ LegEnd(legs[k]) = kept[to[k]].time
           /\ legs[k].kind \in {"observed", "air", "unknown"}
<1> DEFINE a == from[k]
           b == to[k]
<1>1. /\ a \in 1 .. Len(kept) /\ b \in 1 .. Len(kept) /\ a <= b
      /\ \/ legs[k] = Leg("observed", SubSeq(kept, a, b))
         \/ /\ b = a + 1
            /\ \E kind \in {"air", "unknown"} : legs[k] = Leg(kind, <<kept[a], kept[b]>>)
  BY DEF Chain
<1> HIDE DEF a, b
<1>2. ASSUME NEW kind, NEW pts PROVE Leg(kind, pts).points = pts /\ Leg(kind, pts).kind = kind
  BY DEF Leg
<1>3. CASE legs[k] = Leg("observed", SubSeq(kept, a, b))
  <2> DEFINE part == SubSeq(kept, a, b)
  <2>1. /\ part \in Seq(Fix) /\ Len(part) = b - a + 1
        /\ \A i \in 1 .. (b - a + 1) : part[i] = kept[a + i - 1]
    BY SMTT(30), <1>1, SubSeqProperties
  <2> HIDE DEF part
  <2>2. 1 \in 1 .. (b - a + 1) /\ b - a + 1 \in 1 .. (b - a + 1) /\ a + 1 - 1 = a
        /\ a + (b - a + 1) - 1 = b
    BY <1>1
  <2>3. Head(part) = kept[a] /\ Last(part) = kept[b]
    <3>1. part[1] = kept[a] /\ part[b - a + 1] = kept[b]
      BY <2>1, <2>2
    <3> QED
      BY <2>1, <3>1 DEF Last
  <2>4. legs[k].points = part /\ legs[k].kind = "observed"
    <3>1. legs[k] = Leg("observed", part)
      BY <1>3 DEF part
    <3> QED
      BY <1>2, <3>1
  <2> QED
    BY <2>3, <2>4 DEF LegStart, LegEnd, a, b
<1>4. CASE \E kind \in {"air", "unknown"} : legs[k] = Leg(kind, <<kept[a], kept[b]>>)
  <2>1. PICK kind \in {"air", "unknown"} : legs[k] = Leg(kind, <<kept[a], kept[b]>>)
    BY <1>4
  <2>2. legs[k].points = <<kept[a], kept[b]>> /\ legs[k].kind = kind
    BY <1>2, <2>1
  <2>3. Head(<<kept[a], kept[b]>>) = kept[a] /\ Last(<<kept[a], kept[b]>>) = kept[b]
    BY DEF Last
  <2> QED
    BY <2>2, <2>3 DEF LegStart, LegEnd, a, b
<1> QED
  BY <1>1, <1>3, <1>4

\* Every instant from the first fix to the last is on a leg.
LEMMA InstantsAreHeld ==
    ASSUME NEW kept \in Seq(Fix), NEW legs, NEW from, NEW to, Chain(legs, kept, from, to),
           NEW t \in Int, kept[1].time <= t, t <= kept[Len(kept)].time
    PROVE  \E k \in 1 .. Len(legs) : kept[from[k]].time <= t /\ t <= kept[to[k]].time
<1> DEFINE L == Len(legs)
           S == {k \in 1 .. L : t <= kept[to[k]].time}
<1>1. /\ L \in Nat \ {0} /\ from[1] = 1 /\ to[L] = Len(kept)
      /\ \A k \in 1 .. L : from[k] \in 1 .. Len(kept) /\ to[k] \in 1 .. Len(kept)
      /\ \A k \in 1 .. L : k > 1 => from[k] = to[k - 1]
  BY DEF Chain
<1>2. \A i \in 1 .. Len(kept) : kept[i].time \in Int
  BY FixesTyped
<1> HIDE DEF L
<1>3. L \in S /\ S \subseteq Nat
  BY <1>1
<1>4. PICK k \in S : \A m \in S : k <= m
  <2> HIDE DEF S
  <2> QED
    BY <1>3, Least
<1>5. k \in 1 .. L /\ t <= kept[to[k]].time
  OBVIOUS
<1>6. kept[from[k]].time <= t
  <2>1. CASE k = 1
    BY <1>1, <2>1
  <2>2. CASE k # 1
    <3>1. k > 1 /\ k - 1 \in 1 .. L /\ ~(k <= k - 1)
      BY <1>1, <1>5, <2>2
    <3>2. ~(t <= kept[to[k - 1]].time)
      BY <1>4, <3>1
    <3>3. kept[to[k - 1]].time \in Int
      BY <1>1, <1>2, <3>1
    <3>4. kept[to[k - 1]].time <= t
      BY <3>2, <3>3
    <3> QED
      BY <1>1, <1>5, <3>1, <3>4
  <2> QED
    BY <2>1, <2>2
<1> QED
  BY <1>5, <1>6 DEF L

\* Where fixes ascend, a fix whose instant is a leg's is a fix of the leg.
LEMMA FixesAreOnTheirLegs ==
    ASSUME NEW kept \in Seq(Fix), Ascending(kept),
           NEW a \in 1 .. Len(kept), NEW b \in 1 .. Len(kept), NEW i \in 1 .. Len(kept),
           kept[a].time <= kept[i].time, kept[i].time <= kept[b].time
    PROVE  a <= i /\ i <= b
<1>1. \A k \in 1 .. Len(kept) : kept[k].time \in Int
  BY FixesTyped
<1>2. ~(i < a)
  <2> SUFFICES ASSUME i < a PROVE FALSE
    OBVIOUS
  <2>1. i \in 1 .. (a - 1)
    OBVIOUS
  <2>2. kept[i].time < kept[a].time
    BY <2>1 DEF Ascending
  <2> QED
    BY <1>1, <2>2
<1>3. ~(b < i)
  <2> SUFFICES ASSUME b < i PROVE FALSE
    OBVIOUS
  <2>1. b \in 1 .. (i - 1)
    OBVIOUS
  <2>2. kept[b].time < kept[i].time
    BY <2>1 DEF Ascending
  <2> QED
    BY <1>1, <2>2
<1> QED
  BY <1>2, <1>3

LEMMA Between ==
    ASSUME NEW a \in Int, NEW b \in Int
    PROVE  /\ Min({a, b}) = IF a <= b THEN a ELSE b
           /\ Max({a, b}) = IF a <= b THEN b ELSE a
<1> DEFINE low == IF a <= b THEN a ELSE b
           high == IF a <= b THEN b ELSE a
<1>2. high \in {a, b} /\ \A x \in {a, b} : x <= high /\ ((\A y \in {a, b} : y <= x) => x = high)
  OBVIOUS
<1>3. low \in {a, b} /\ (\A x \in {a, b} : low <= x)
        /\ \A x \in {a, b} : (\A y \in {a, b} : x <= y) => x = low
  OBVIOUS
<1> HIDE DEF low, high
<1>4. Min({a, b}) = low
  BY <1>3 DEF Min
<1>5. Max({a, b}) = high
  BY <1>2 DEF Max
<1> QED
  BY <1>4, <1>5 DEF low, high

LEMMA SegmentDistance ==
    ASSUME NEW p \in Int, NEW a \in Int, NEW b \in Int
    PROVE  ToSegment(p, a, b) \in Nat /\ (p = a \/ p = b => ToSegment(p, a, b) = 0)
<1>1. /\ Min({a, b}) = IF a <= b THEN a ELSE b
      /\ Max({a, b}) = IF a <= b THEN b ELSE a
  BY Between
<1>2. Dist(p, a) \in Nat /\ Dist(p, b) \in Nat
  BY DEF Dist
<1>3. Min({Dist(p, a), Dist(p, b)}) \in Nat
  <2> DEFINE d == Dist(p, a)
             e == Dist(p, b)
  <2> HIDE DEF d, e
  <2>1. d \in Nat /\ e \in Nat
    BY <1>2 DEF d, e
  <2>2. Min({d, e}) = IF d <= e THEN d ELSE e
    BY <2>1, Between
  <2> QED
    BY <2>1, <2>2 DEF d, e
<1>4. p = a \/ p = b => p \in Min({a, b}) .. Max({a, b})
  BY <1>1
<1> QED
  BY <1>3, <1>4 DEF ToSegment

\* A place of a line is no way from it.
LEMMA NoWayFromALine ==
    ASSUME NEW line \in Seq(Int), NEW i \in 1 .. Len(line)
    PROVE  ToPolyline(line[i], line) = 0
<1> DEFINE n == Len(line)
           p == line[i]
           S == {ToSegment(p, line[k], line[k + 1]) : k \in 1 .. n - 1}
<1>1. n \in Nat /\ i \in 1 .. n /\ \A k \in 1 .. n : line[k] \in Int
  OBVIOUS
<1>2. CASE n = 1
  <2>1. i = 1 /\ p = line[1] /\ p \in Int
    BY <1>1, <1>2
  <2>2. ToPolyline(p, line) = Dist(p, line[1])
    BY <1>2 DEF ToPolyline
  <2> HIDE DEF p
  <2> QED
    BY <2>1, <2>2 DEF Dist, p
<1>3. CASE n # 1
  <2> HIDE DEF n
  <2>1. ToPolyline(p, line) = Min(S)
    BY <1>3 DEF ToPolyline, n
  <2>2. p \in Int
    BY <1>1
  <2> HIDE DEF p
  <2>3. ASSUME NEW a \in Int, NEW b \in Int
        PROVE  ToSegment(p, a, b) \in Nat /\ (p = a \/ p = b => ToSegment(p, a, b) = 0)
    BY <2>2, SegmentDistance
  <2>4. S \subseteq Nat
    <3>1. \A k \in 1 .. n - 1 : line[k] \in Int /\ line[k + 1] \in Int
      BY <1>1
    <3> QED
      BY <2>3, <3>1
  <2>5. 0 \in S
    <3>1. PICK k \in 1 .. n - 1 : i = k \/ i = k + 1
      <4>1. i \in 1 .. n - 1 \/ (i - 1 \in 1 .. n - 1 /\ i = (i - 1) + 1)
        BY <1>1, <1>3
      <4> QED
        BY <4>1
    <3>2. line[k] \in Int /\ line[k + 1] \in Int /\ (p = line[k] \/ p = line[k + 1])
      BY <1>1, <3>1 DEF p
    <3>3. ToSegment(p, line[k], line[k + 1]) = 0
      BY <2>3, <3>2
    <3> QED
      BY <3>3
  <2> HIDE DEF S
  <2>6. Min(S) = 0
    <3>1. Min(S) \in S /\ \A s \in S : Min(S) <= s
      BY <2>4, <2>5, LeastOf
    <3>2. Min(S) \in Nat
      BY <2>4, <3>1
    <3>3. Min(S) <= 0
      BY <2>5, <3>1
    <3> QED
      BY <3>2, <3>3
  <2> QED
    BY <2>1, <2>6 DEF p
<1> QED
  BY <1>2, <1>3

\* A fix of a leg is no way from what is drawn for the leg.
LEMMA LegsPassTheirFixes ==
    ASSUME NEW kept \in Seq(Fix), NEW legs, NEW from, NEW to, Chain(legs, kept, from, to),
           NEW k \in 1 .. Len(legs), NEW i \in 1 .. Len(kept), from[k] <= i, i <= to[k]
    PROVE  ToPolyline(kept[i].loc, Locs(legs[k].points)) = 0
<1> DEFINE a == from[k]
           b == to[k]
<1>1. /\ a \in 1 .. Len(kept) /\ b \in 1 .. Len(kept) /\ a <= i /\ i <= b
      /\ \/ legs[k] = Leg("observed", SubSeq(kept, a, b))
         \/ /\ b = a + 1
            /\ \E kind \in {"air", "unknown"} : legs[k] = Leg(kind, <<kept[a], kept[b]>>)
  BY DEF Chain
<1> HIDE DEF a, b
<1>2. ASSUME NEW kind, NEW pts PROVE Leg(kind, pts).points = pts
  BY DEF Leg
<1>3. ASSUME NEW pts \in Seq(Fix), NEW q \in 1 .. Len(pts), pts[q] = kept[i]
      PROVE  ToPolyline(kept[i].loc, Locs(pts)) = 0
  <2> DEFINE line == Locs(pts)
  <2>1. line \in Seq(Int) /\ Len(line) = Len(pts) /\ line[q] = kept[i].loc
    <3> DEFINE n == Len(pts)
               Z == Int
    <3>1. n \in Nat /\ DOMAIN pts = 1 .. n /\ \A h \in 1 .. n : pts[h].loc \in Z
      BY FixesTyped
    <3>2. line = [h \in 1 .. n |-> pts[h].loc]
      BY <3>1 DEF Locs
    <3>3. q \in 1 .. n
      OBVIOUS
    <3> HIDE DEF n, line, Z
    <3>4. [h \in 1 .. n |-> pts[h].loc] \in Seq(Z)
      BY <3>1, IsASeq
    <3>5. Len(line) = n /\ line[q] = pts[q].loc
      BY <3>1, <3>2, <3>3
    <3> QED
      BY <1>3, <3>2, <3>4, <3>5 DEF n, Z
  <2> HIDE DEF line
  <2>2. ToPolyline(line[q], line) = 0
    BY <2>1, NoWayFromALine
  <2> QED
    BY <2>1, <2>2 DEF line
<1>4. CASE legs[k] = Leg("observed", SubSeq(kept, a, b))
  <2> DEFINE part == SubSeq(kept, a, b)
             q == i - a + 1
  <2>1. /\ part \in Seq(Fix) /\ Len(part) = b - a + 1
        /\ \A h \in 1 .. (b - a + 1) : part[h] = kept[a + h - 1]
    BY <1>1, SubSeqProperties
  <2>2. q \in 1 .. (b - a + 1) /\ a + q - 1 = i
    BY <1>1
  <2> HIDE DEF part, q
  <2>3. q \in 1 .. Len(part) /\ part[q] = kept[i]
    BY <2>1, <2>2
  <2>4. legs[k].points = part
    <3>1. legs[k] = Leg("observed", part)
      BY <1>4 DEF part
    <3> QED
      BY <1>2, <3>1
  <2> QED
    BY <1>3, <2>1, <2>3, <2>4
<1>5. CASE b = a + 1 /\ \E kind \in {"air", "unknown"} : legs[k] = Leg(kind, <<kept[a], kept[b]>>)
  <2> DEFINE part == <<kept[a], kept[b]>>
             q == i - a + 1
  <2>1. part \in Seq(Fix) /\ Len(part) = 2 /\ part[1] = kept[a] /\ part[2] = kept[b]
    BY <1>1
  <2>2. (i = a /\ q = 1) \/ (i = b /\ q = 2)
    BY <1>1, <1>5
  <2> HIDE DEF part, q
  <2>3. q \in 1 .. Len(part) /\ part[q] = kept[i]
    BY <2>1, <2>2
  <2>4. legs[k].points = part
    BY <1>2, <1>5 DEF part
  <2> QED
    BY <1>3, <2>1, <2>3, <2>4
<1> QED
  BY <1>1, <1>4, <1>5

\* The legs that hold an instant.
Holding(legs, t) == {i \in DOMAIN legs : Holds(LegStart(legs[i]), LegEnd(legs[i]), t)}

\* A photo of an instant that some leg holds has its place: in a stop, or on the
\* first leg that holds the instant.
LEMMA PlaceIs ==
    ASSUME NEW served, NEW t, NEW pos, Holding(served.legs, t) \subseteq Nat,
           Holding(served.legs, t) # {}
    PROVE  LET p == PlacePhoto(served, t, pos)
               m == Min(Holding(served.legs, t))
           IN  /\ m \in Holding(served.legs, t)
               /\ \/ p.kind = "stop"
                  \/ p.kind = "air" /\ p.flagged = FALSE
                  \/ /\ p.kind = served.legs[m].kind /\ served.legs[m].kind # "air"
                     /\ p.flagged = (ToPolyline(pos, Drawn(served.legs[m])) > FarWarn)
<1> DEFINE stops == {i \in DOMAIN served.stops :
                        Holds(served.stops[i].start, served.stops[i].end, t)}
           legs == {i \in DOMAIN served.legs :
                        Holds(LegStart(served.legs[i]), LegEnd(served.legs[i]), t)}
           m == Min(legs)
           leg == served.legs[m]
           halt == Dist(pos, served.stops[Min(stops)].loc)
           far == ToPolyline(pos, Drawn(leg))
           p == PlacePhoto(served, t, pos)
<1>1. legs = Holding(served.legs, t)
  BY DEF Holding
<1>2. p = CASE stops # {} -> Measured("stop", Min(stops), halt)
            [] stops = {} /\ legs = {} -> Unplaced
            [] stops = {} /\ legs # {} /\ leg.kind = "air" ->
                  [kind |-> "air", index |-> m, flagged |-> FALSE]
            [] OTHER -> Measured(leg.kind, m, far)
  BY Zenon DEF PlacePhoto
<1> HIDE DEF stops, legs, p, halt, far
<1>3. m \in legs
  BY <1>1, LeastOf
<1> HIDE DEF m
<1>4. ASSUME NEW kind, NEW index, NEW dist
      PROVE  Measured(kind, index, dist).kind = kind
             /\ Measured(kind, index, dist).flagged = (dist > FarWarn)
  BY DEF Measured
<1>5. CASE stops # {}
  <2>1. p = Measured("stop", Min(stops), halt)
    BY <1>2, <1>5
  <2> QED
    BY <1>1, <1>3, <1>4, <2>1 DEF p, m
<1>6. CASE stops = {} /\ leg.kind = "air"
  <2>1. p = [kind |-> "air", index |-> m, flagged |-> FALSE]
    BY <1>1, <1>2, <1>6
  <2>2. p.kind = "air" /\ p.flagged = FALSE
    BY <2>1
  <2> QED
    BY <1>1, <1>3, <2>2 DEF p, m
<1>7. CASE stops = {} /\ leg.kind # "air"
  <2>1. p = Measured(leg.kind, m, far)
    BY <1>1, <1>2, <1>7
  <2>2. p.kind = leg.kind /\ p.flagged = (far > FarWarn)
    BY <1>4, <2>1
  <2> QED
    BY <1>1, <1>3, <1>7, <2>2 DEF p, m, far
<1> QED
  BY <1>5, <1>6, <1>7

\* Where no two kept fixes are of one instant: between the first kept fix and
\* the last every instant has its place on the journey, and a photo taken when
\* and where a kept fix was is never far from it, unless in a stop or at the end
\* of a road.  (Thinning by seconds leaves one fix of an instant.)
THEOREM NoHoles == ThinSpacing > 0 => (JourneysSpec => []CoverageHasNoHoles)
<1> SUFFICES ASSUME ThinSpacing > 0 PROVE JourneysSpec => []CoverageHasNoHoles
  OBVIOUS
<1>1. Collected /\ IsAssembled => CoverageHasNoHoles
  <2> DEFINE kept == Kept
             legs == j.legs
             served == Served
             Place(t, pos) == PlacePhoto(served, t, pos)
             n == Len(kept)
             H(t) == Holding(served.legs, t)
  <2> SUFFICES ASSUME Collected, IsAssembled, kept # <<>>
               PROVE  /\ \A t \in Head(kept).time .. Last(kept).time : Place(t, 10).kind # "none"
                      /\ \A x \in ToSet(kept) :
                            \/ Place(x.time, x.loc).kind \in {"stop", "road"}
                            \/ ~Place(x.time, x.loc).flagged
    BY DEF CoverageHasNoHoles
  <2>1. kept \in Seq(Fix) /\ Spaced(kept) /\ legs = LegsOf(kept)
    BY JourneyIs
  <2>2. /\ served.legs = [i \in DOMAIN legs |-> served.legs[i]]
        /\ \A i \in DOMAIN legs : Redrawn(served.legs[i], legs[i])
    BY ServedIs
  <2> HIDE DEF kept, legs, served
  <2>3. Ascending(kept)
    BY <2>1, SpacedAscends
  <2>4. PICK from, to : Chain(legs, kept, from, to)
    BY <2>1, LegsChain
  <2> DEFINE L == Len(legs)
  <2>5. L \in Nat /\ DOMAIN legs = 1 .. L /\ DOMAIN served.legs = 1 .. L
    BY <2>2, <2>4 DEF Chain
  <2>6. ASSUME NEW k \in 1 .. L
        PROVE  /\ LegStart(served.legs[k]) = kept[from[k]].time
               /\ LegEnd(served.legs[k]) = kept[to[k]].time
               /\ legs[k].kind \in {"observed", "air", "unknown"}
               /\ \/ served.legs[k] = legs[k]
                  \/ served.legs[k].kind = "road"
    <3>1. served.legs[k].points = legs[k].points
      BY <2>2, <2>5 DEF Redrawn
    <3>2. /\ LegStart(served.legs[k]) = LegStart(legs[k])
          /\ LegEnd(served.legs[k]) = LegEnd(legs[k])
      BY <3>1 DEF LegStart, LegEnd
    <3> QED
      BY <2>1, <2>2, <2>4, <2>5, <3>2, LegLasts DEF Redrawn
  <2>7. n \in Nat /\ n > 0 /\ Head(kept) = kept[1] /\ Last(kept) = kept[n] /\ DOMAIN kept = 1 .. n
    BY <2>1 DEF Last
  <2>8. \A i \in 1 .. n : kept[i].time \in Int /\ kept[i].loc \in Int
    BY <2>1, FixesTyped
  <2> HIDE DEF L, n
  <2>9. ASSUME NEW t \in Int, kept[1].time <= t, t <= kept[n].time
        PROVE  H(t) \subseteq 1 .. L /\ H(t) \subseteq Nat /\ H(t) # {}
    <3>1. PICK k \in 1 .. L : kept[from[k]].time <= t /\ t <= kept[to[k]].time
      BY <2>1, <2>4, <2>9, InstantsAreHeld DEF L, n
    <3>2. k \in H(t)
      BY <2>5, <2>6, <3>1 DEF Holding, Holds
    <3>3. H(t) \subseteq 1 .. L
      BY <2>5 DEF Holding
    <3> QED
      BY <2>5, <3>2, <3>3
  <2>10. ASSUME NEW t \in kept[1].time .. kept[n].time PROVE Place(t, 10).kind # "none"
    <3>1. kept[1].time \in Int /\ kept[n].time \in Int
      BY <2>7, <2>8
    <3>2. t \in Int /\ kept[1].time <= t /\ t <= kept[n].time
      BY <3>1
    <3> DEFINE m == Min(H(t))
               p == Place(t, 10)
    <3>3. /\ m \in H(t)
          /\ \/ p.kind = "stop"
             \/ p.kind = "air"
             \/ p.kind = served.legs[m].kind
      BY <2>9, <3>2, PlaceIs
    <3> HIDE DEF p
    <3>4. m \in 1 .. L
      BY <2>9, <3>2, <3>3
    <3> HIDE DEF m
    <3>5. served.legs[m].kind # "none"
      BY <2>6, <3>4
    <3> QED
      BY <3>3, <3>5 DEF p
  <2>11. ASSUME NEW i \in 1 .. n
         PROVE  \/ Place(kept[i].time, kept[i].loc).kind \in {"stop", "road"}
                \/ ~Place(kept[i].time, kept[i].loc).flagged
    <3> DEFINE t == kept[i].time
               m == Min(H(t))
               p == Place(t, kept[i].loc)
    <3>1. t \in Int
      BY <2>8
    <3>2. kept[1].time <= t
      <4>1. i = 1 \/ 1 \in 1 .. (i - 1)
        BY <2>7
      <4>2. i = 1 \/ kept[1].time < kept[i].time
        BY <2>3, <4>1 DEF Ascending, n
      <4>3. kept[1].time \in Int
        BY <2>7, <2>8
      <4> QED
        BY <3>1, <4>2, <4>3
    <3>3. t <= kept[n].time
      <4>1. i = n \/ i \in 1 .. (n - 1)
        BY <2>7
      <4>0. n \in 1 .. n
        BY <2>7
      <4>2. i = n \/ kept[i].time < kept[n].time
        BY <2>3, <4>0, <4>1 DEF Ascending, n
      <4>3. kept[n].time \in Int
        BY <2>8, <4>0
      <4> QED
        BY <3>1, <4>2, <4>3
    <3>4. H(t) \subseteq 1 .. L /\ H(t) \subseteq Nat /\ H(t) # {}
      BY <2>9, <3>1, <3>2, <3>3
    <3> HIDE DEF t
    <3>5. /\ m \in H(t)
          /\ \/ p.kind = "stop"
             \/ p.kind = "air" /\ p.flagged = FALSE
             \/ /\ p.kind = served.legs[m].kind /\ served.legs[m].kind # "air"
                /\ p.flagged = (ToPolyline(kept[i].loc, Drawn(served.legs[m])) > FarWarn)
      BY <3>4, PlaceIs
    <3> HIDE DEF p, m
    <3>6. m \in 1 .. L /\ kept[from[m]].time <= t /\ t <= kept[to[m]].time
      <4>1. m \in 1 .. L
        BY <3>4, <3>5
      <4> QED
        BY <2>6, <3>5, <4>1 DEF Holding, Holds
    <3>7. CASE served.legs[m].kind = "road"
      BY <3>5, <3>7 DEF p, t
    <3>8. CASE served.legs[m].kind # "road"
      <4>1. served.legs[m] = legs[m]
        BY <2>6, <3>6, <3>8
      <4>2. Drawn(served.legs[m]) = Locs(legs[m].points)
        BY <3>8, <4>1 DEF Drawn
      <4>3. from[m] \in 1 .. n /\ to[m] \in 1 .. n
        BY <2>4, <3>6 DEF Chain, L, n
      <4>4. from[m] <= i /\ i <= to[m]
        BY <2>1, <2>3, <3>6, <4>3, FixesAreOnTheirLegs DEF n, t
      <4>5. ToPolyline(kept[i].loc, Locs(legs[m].points)) = 0
        BY <2>1, <2>4, <3>6, <4>4, LegsPassTheirFixes DEF L, n
      <4>6. ~(0 > FarWarn)
        BY JourneyAssumption
      <4>7. ~p.flagged \/ p.kind = "stop"
        BY <3>5, <4>2, <4>5, <4>6
      <4> QED
        BY <4>7 DEF p, t
    <3> QED
      BY <3>7, <3>8
  <2>12. \A x \in ToSet(kept) : \E i \in 1 .. n : x = kept[i]
    BY <2>7 DEF ToSet
  <2> HIDE DEF Place
  <2> QED
    BY <2>7, <2>10, <2>11, <2>12
<1> QED
  BY <1>1, AlwaysAssembled, PTL

-----------------------------------------------------------------------------
(* Teleports.                                                                *)

\* The cluster that begins at c is accepted when the last accepted one is prev's.
Accepts(pts, prev, c) ==
    LET End(x) == EndIn(ClusterOf(pts), Len(pts), x)
    IN  End(c) = Len(pts) \/ ~Astray(pts[End(prev)], pts[c], pts[End(c)], pts[End(c) + 1])

Openings(pts) == {i \in DOMAIN pts : ClusterOf(pts)[i] = i}

Acceptances(pts) == {p \in Openings(pts) \X Openings(pts) : Accepts(pts, p[1], p[2])}

Anchor(pts) == Leader(Len(pts), Acceptances(pts))

\* What the rejection goes by: the clusters and, for each fix, where the last
\* cluster accepted by then begins.
LEMMA RejectionIs ==
    ASSUME NEW pts \in Seq(Fix)
    PROVE  /\ InRuns(ClusterOf(pts), Len(pts)) /\ InRuns(Anchor(pts), Len(pts))
           /\ Leads(Anchor(pts), Len(pts), Acceptances(pts))
           /\ Teleports(pts) = {i \in 1 .. Len(pts) :
                                    Anchor(pts)[ClusterOf(pts)[i]] # ClusterOf(pts)[i]}
<1> DEFINE n == Len(pts)
<1>1. n \in Nat /\ DOMAIN pts = 1 .. n
  OBVIOUS
<1>2. InRuns(ClusterOf(pts), n)
  <2> HIDE DEF n
  <2> QED
    BY <1>1, LeaderExists, LeadersLeadRuns DEF ClusterOf, n
<1>3. Leads(Anchor(pts), n, Acceptances(pts)) /\ InRuns(Anchor(pts), n)
  <2> HIDE DEF n
  <2> QED
    BY <1>1, LeaderExists, LeadersLeadRuns DEF Anchor, n
<1>4. Teleports(pts) = {i \in DOMAIN pts : Anchor(pts)[ClusterOf(pts)[i]] # ClusterOf(pts)[i]}
  BY <1>1 DEF Teleports, Anchor, Acceptances, Openings, Accepts, EndIn
<1> QED
  BY <1>1, <1>2, <1>3, <1>4

\* A walk accepts an opening or goes on with the one it accepted last.
LEMMA AcceptsOrGoesOn ==
    ASSUME NEW pts \in Seq(Fix), NEW k \in 1 .. Len(pts)
    PROVE  /\ Anchor(pts)[k] \in Openings(pts)
           /\ k > 1 /\ Anchor(pts)[k] = k => Accepts(pts, Anchor(pts)[k - 1], k)
           /\ k > 1 /\ k \notin Openings(pts) => Anchor(pts)[k] = Anchor(pts)[k - 1]
           /\ (/\ k > 1 /\ k \in Openings(pts)
               /\ Accepts(pts, Anchor(pts)[k - 1], k)) => Anchor(pts)[k] = k
<1> DEFINE n == Len(pts)
           anchor == Anchor(pts)
           first == ClusterOf(pts)
           O == Openings(pts)
<1>1. n \in Nat /\ InRuns(first, n) /\ InRuns(anchor, n) /\ Leads(anchor, n, Acceptances(pts))
  BY RejectionIs
<1>2. O = {i \in 1 .. n : first[i] = i}
  BY DEF Openings
<1> HIDE DEF anchor, first, n, O
<1>3. k \in 1 .. n
  BY DEF n
<1>4. \A x, y : <<x, y>> \in Acceptances(pts) <=> x \in O /\ y \in O /\ Accepts(pts, x, y)
  BY DEF Acceptances, O
<1>5. ASSUME NEW i \in 1 .. n, i > 1, anchor[i] = i PROVE <<anchor[i - 1], i>> \in Acceptances(pts)
  <2>1. i - 1 \in 1 .. n /\ anchor[i - 1] <= i - 1 /\ anchor[i - 1] \in 1 .. n
    BY <1>1, <1>5 DEF InRuns
  <2>2. anchor[i - 1] # i
    BY <2>1
  <2> QED
    BY <1>1, <1>5, <2>2 DEF Leads
<1>6. ASSUME NEW i \in 1 .. n PROVE anchor[i] \in O
  <2> DEFINE a == anchor[i]
  <2>1. a \in 1 .. n /\ anchor[a] = a
    BY <1>1 DEF InRuns
  <2> HIDE DEF a
  <2>2. CASE a = 1
    <3>1. first[1] <= 1 /\ first[1] \in 1 .. n
      BY <1>1, <2>1, <2>2 DEF InRuns
    <3>2. first[1] = 1
      BY <1>1, <3>1
    <3> QED
      BY <1>2, <2>1, <2>2, <3>2 DEF a
  <2>3. CASE a # 1
    <3>1. a > 1
      BY <1>1, <2>1, <2>3
    <3> QED
      BY <1>4, <1>5, <2>1, <3>1 DEF a
  <2> QED
    BY <2>2, <2>3
<1>7. k > 1 /\ anchor[k] = k => Accepts(pts, anchor[k - 1], k)
  BY <1>3, <1>4, <1>5
<1>8. k > 1 /\ k \notin O => anchor[k] = anchor[k - 1]
  <2> SUFFICES ASSUME k > 1, k \notin O PROVE anchor[k] = anchor[k - 1]
    OBVIOUS
  <2>1. <<anchor[k - 1], k>> \notin Acceptances(pts) /\ k # 1
    BY <1>1, <1>3, <1>4
  <2> QED
    BY <1>1, <1>3, <2>1 DEF Leads
<1>9. k > 1 /\ k \in O /\ Accepts(pts, anchor[k - 1], k) => anchor[k] = k
  <2>1. k > 1 => k - 1 \in 1 .. n
    BY <1>1, <1>3
  <2> QED
    BY <1>1, <1>3, <1>4, <1>6, <2>1 DEF Leads
<1> QED
  BY <1>3, <1>6, <1>7, <1>8, <1>9 DEF anchor, O

LEMMA ImpossibleIs ==
    ASSUME NEW x, NEW y, x.time \in Int, y.time \in Int
    PROVE  Impossible(x, y) <=> TooFar(x, y)
<1> DEFINE d == y.time - x.time
<1>1. d \in Int /\ ThinSpacing \in Int
  BY JourneyAssumption
<1> HIDE DEF d
<1>2. Max({d, ThinSpacing}) = IF d <= ThinSpacing THEN ThinSpacing ELSE d
  BY <1>1, Between
<1>3. Max({d, ThinSpacing}) = IF d < ThinSpacing THEN ThinSpacing ELSE d
  BY <1>1, <1>2
<1> QED
  BY <1>3 DEF Impossible, TooFar, d

LEMMA OnlyAll ==
    ASSUME NEW E, NEW s \in Seq(E)
    PROVE  Only(s, DOMAIN s) = s
<1> DEFINE n == Len(s)
           Upto(i) == {h \in 1 .. n : h <= i}
<1>1. n \in Nat /\ DOMAIN s = 1 .. n /\ s = [i \in 1 .. n |-> s[i]]
  OBVIOUS
<1>2. Cardinality(1 .. n) = n
  BY <1>1, FS_Interval
<1>3. ASSUME NEW i \in 1 .. n PROVE Cardinality(Upto(i)) = i
  <2>1. Upto(i) = 1 .. i
    OBVIOUS
  <2>2. i \in Nat
    OBVIOUS
  <2>3. Cardinality(1 .. i) = i
    BY <2>2, FS_Interval
  <2> QED
    BY <2>1, <2>3
<1>4. ASSUME NEW k \in 1 .. n PROVE (CHOOSE i \in 1 .. n : Cardinality(Upto(i)) = k) = k
  <2> HIDE DEF Upto
  <2> QED
    BY <1>3
<1>5. Only(s, DOMAIN s) = [k \in 1 .. n |-> s[CHOOSE i \in 1 .. n : Cardinality(Upto(i)) = k]]
  BY <1>1, <1>2 DEF Only
<1> HIDE DEF n, Upto
<1> QED
  BY <1>1, <1>4, <1>5

\* A cluster is accepted from the end of the last one that was.
LEMMA AcceptedFrom ==
    ASSUME NEW pts \in Seq(Fix), NEW k \in 1 .. Len(pts), NEW i \in 1 .. Len(pts),
           ClusterOf(pts)[k] = k, k > 1,
           k \notin Teleports(pts), i \notin Teleports(pts), i < k,
           \A m \in 1 .. Len(pts) : m \notin Teleports(pts) /\ m < k => m <= i
    PROVE  /\ EndIn(ClusterOf(pts), Len(pts), ClusterOf(pts)[i]) = i
           /\ Accepts(pts, ClusterOf(pts)[i], k)
<1> DEFINE n == Len(pts)
           anchor == Anchor(pts)
           first == ClusterOf(pts)
           Left(m) == m \in 1 .. n /\ m \notin Teleports(pts)
           a == anchor[k - 1]
           e == EndIn(first, n, a)
           c == first[i]
<1>1. n \in Nat /\ InRuns(first, n) /\ InRuns(anchor, n)
  BY RejectionIs
<1>2. \A m \in 1 .. n : Left(m) <=> anchor[first[m]] = first[m]
  BY RejectionIs
<1>3. \A m \in 1 .. n : anchor[m] \in 1 .. n /\ first[anchor[m]] = anchor[m]
  BY AcceptsOrGoesOn DEF Openings
<1>4. anchor[k] = k => Accepts(pts, anchor[k - 1], k)
  BY AcceptsOrGoesOn
<1>5. k \in 1 .. n /\ i \in 1 .. n /\ k - 1 \in 1 .. n /\ first[k] = k /\ Left(k) /\ Left(i)
  BY DEF n
<1>6. \A m \in 1 .. n : Left(m) /\ m < k => m <= i
  OBVIOUS
<1> HIDE DEF anchor, first, n, Left
<1>7. a \in 1 .. n /\ a <= k - 1 /\ anchor[a] = a /\ first[a] = a
  BY <1>1, <1>3, <1>5 DEF InRuns
<1> HIDE DEF a
<1>8. e \in 1 .. n /\ a <= e /\ first[e] = a /\ \A h \in 1 .. n : first[h] = a <=> a <= h /\ h <= e
  BY <1>1, <1>7, RunsEnd
<1> HIDE DEF e
<1>9. e < k
  <2>1. first[k] # a /\ a <= k
    BY <1>5, <1>7
  <2>2. ~(k <= e)
    BY <1>5, <1>8, <2>1
  <2> QED
    BY <1>5, <1>8, <2>2
<1>10. e <= i
  <2>1. Left(e)
    BY <1>2, <1>7, <1>8
  <2> QED
    BY <1>6, <1>8, <1>9, <2>1
<1>11. c \in 1 .. n /\ c <= i /\ anchor[c] = c /\ first[c] = c
  BY <1>1, <1>2, <1>5 DEF InRuns
<1>12. a <= c
  <2>1. a <= i
    BY <1>5, <1>7, <1>8, <1>10
  <2>2. first[a] <= first[i]
    BY <1>1, <1>5, <1>7, <2>1 DEF InRuns
  <2> QED
    BY <1>7, <2>2
<1>13. c <= a
  <2>1. c <= k - 1
    BY <1>5, <1>11
  <2>2. anchor[c] <= anchor[k - 1]
    BY <1>1, <1>5, <1>11, <2>1 DEF InRuns
  <2> QED
    BY <1>11, <2>2 DEF a
<1> HIDE DEF c
<1>14. c = a
  BY <1>7, <1>11, <1>12, <1>13
<1>15. i = e
  <2>1. i <= e
    BY <1>5, <1>8, <1>14 DEF c
  <2> QED
    BY <1>5, <1>8, <1>10, <2>1
<1>16. anchor[k] = k
  BY <1>2, <1>5
<1> QED
  BY <1>4, <1>14, <1>15, <1>16 DEF a, c, e, first, n, anchor

LEMMA NoneMendable ==
    ASSUME Stream \in Seq(Fix)
    PROVE  NoMendableTeleport
<1> DEFINE all == Stream
           n == Len(all)
           first == ClusterOf(all)
           left == DOMAIN all \ Teleports(all)
           Opens(k, i) == k > 1 /\ first[k] = k /\ first[k - 1] = first[i]
           LastBefore(k, i) == i < k /\ \A m \in left : m < k => m <= i
           End(c) == EndIn(first, n, c)
<1> SUFFICES ASSUME NEW i \in left, NEW k \in left, LastBefore(k, i), first[i] # first[k],
                    TooFar(all[i], all[k])
             PROVE  /\ \A m \in DOMAIN all : Opens(m, k) => TooFar(all[i], all[m])
                    /\ \A m \in left : Opens(k, i) /\ LastBefore(first[i], m) => TooFar(all[m], all[k])
  BY DEF NoMendableTeleport
<1>1. n \in Nat /\ DOMAIN all = 1 .. n /\ InRuns(first, n) /\ InRuns(Anchor(all), n)
  BY RejectionIs
<1>2. \A m \in 1 .. n : m \in left <=> Anchor(all)[first[m]] = first[m]
  BY RejectionIs
<1>3. \A h, m \in 1 .. n : Impossible(all[h], all[m]) <=> TooFar(all[h], all[m])
  BY FixesTyped, ImpossibleIs
<1>4. ASSUME NEW h \in left, NEW m \in left, first[h] = h, h > 1, LastBefore(h, m)
      PROVE  /\ End(first[m]) = m
             /\ End(h) = n \/ ~Astray(all[m], all[h], all[End(h)], all[End(h) + 1])
  <2>1. h \in 1 .. n /\ m \in 1 .. n /\ h \notin Teleports(all) /\ m \notin Teleports(all)
    BY <1>1
  <2>2. m < h /\ \A g \in 1 .. n : g \notin Teleports(all) /\ g < h => g <= m
    BY <1>1, <1>4
  <2>3. End(first[m]) = m /\ Accepts(all, first[m], h)
    <3>1. all \in Seq(Fix)
      OBVIOUS
    <3> HIDE DEF all
    <3> QED
      BY <1>4, <2>1, <2>2, <3>1, AcceptedFrom
  <2> QED
    BY <2>3 DEF Accepts
<1> HIDE DEF all, n, first, left, End
<1>5. i \in 1 .. n /\ k \in 1 .. n /\ i < k /\ k > 1
  BY <1>1 DEF left
<1>6. first[k] = k
  <2> DEFINE c == first[k]
  <2>1. c \in 1 .. n /\ c <= k /\ first[c] = c
    BY <1>1, <1>5 DEF InRuns
  <2>2. c \in left
    <3>1. Anchor(all)[first[k]] = first[k]
      BY <1>2, <1>5
    <3> HIDE DEF c
    <3>2. Anchor(all)[first[c]] = first[c]
      BY <2>1, <3>1 DEF c
    <3> QED
      BY <1>2, <2>1, <3>2
  <2> HIDE DEF c
  <2>3. ~(c < k)
    <3> SUFFICES ASSUME c < k PROVE FALSE
      OBVIOUS
    <3>1. c <= i
      BY <2>2
    <3>2. first[c] <= first[i] /\ first[i] <= first[k]
      BY <1>1, <1>5, <2>1, <3>1 DEF InRuns
    <3>3. first[i] \in Int /\ first[k] \in Int
      BY <1>1, <1>5 DEF InRuns
    <3> QED
      BY <2>1, <3>2, <3>3 DEF c
  <2> QED
    BY <1>5, <2>1, <2>3 DEF c
<1>7. /\ End(first[i]) = i
      /\ End(k) = n \/ ~Astray(all[i], all[k], all[End(k)], all[End(k) + 1])
  BY <1>4, <1>5, <1>6
<1>8. Impossible(all[i], all[k])
  BY <1>3, <1>5
<1>9. ASSUME NEW m \in DOMAIN all, Opens(m, k) PROVE TooFar(all[i], all[m])
  <2>1. m \in 1 .. n /\ m > 1 /\ first[m] = m /\ first[m - 1] = k
    BY <1>1, <1>6, <1>9
  <2>2. End(k) = m - 1
    BY <1>1, <2>1, RunsMeet DEF End
  <2>3. End(k) # n /\ End(k) + 1 = m
    BY <1>1, <2>1, <2>2
  <2>4. Impossible(all[i], all[m])
    BY <1>7, <1>8, <2>3 DEF Astray
  <2> QED
    BY <1>3, <1>5, <2>1, <2>4
<1>10. ASSUME NEW m \in left, Opens(k, i), LastBefore(first[i], m) PROVE TooFar(all[m], all[k])
  <2> DEFINE c == first[i]
  <2>1. c \in 1 .. n /\ first[c] = c /\ m \in 1 .. n /\ m < c
    BY <1>1, <1>5, <1>10 DEF InRuns, left
  <2>2. c \in left
    <3>1. Anchor(all)[first[i]] = first[i]
      BY <1>2, <1>5
    <3> HIDE DEF c
    <3>2. Anchor(all)[first[c]] = first[c]
      BY <2>1, <3>1 DEF c
    <3> QED
      BY <1>2, <2>1, <3>2
  <2>3. End(first[k - 1]) = k - 1
    BY <1>1, <1>5, <1>6, RunsMeet DEF End
  <2>4. End(c) = i /\ i = k - 1 /\ End(c) + 1 = k /\ End(c) # n
    <3>1. End(c) = i /\ End(c) = k - 1
      BY <1>7, <1>10, <2>3
    <3> HIDE DEF c
    <3> QED
      BY <1>1, <1>5, <3>1
  <2>5. LastBefore(c, m)
    BY <1>10
  <2> HIDE DEF c, LastBefore
  <2>6. c > 1
    BY <1>1, <2>1
  <2>7. End(c) = n \/ ~Astray(all[m], all[c], all[End(c)], all[End(c) + 1])
    BY <1>4, <2>1, <2>2, <2>5, <2>6
  <2>8. ~Astray(all[m], all[c], all[i], all[k])
    BY <2>4, <2>7
  <2>9. Impossible(all[m], all[k])
    BY <1>8, <2>8 DEF Astray
  <2> QED
    BY <1>3, <1>5, <2>1, <2>9
<1> QED
  BY <1>9, <1>10

LEMMA AllFlightsSurvive ==
    ASSUME Stream \in Seq(Fix)
    PROVE  FlightsSurvive
<1> DEFINE all == Stream
           n == Len(all)
           first == ClusterOf(all)
           anchor == Anchor(all)
           End(c) == EndIn(first, n, c)
<1> SUFFICES ASSUME \A i \in 1 .. n - 1 : ~TooFar(all[i], all[i + 1])
             PROVE  RejectTeleports(all) = all
  BY DEF FlightsSurvive
<1>1. n \in Nat /\ DOMAIN all = 1 .. n /\ InRuns(first, n) /\ InRuns(anchor, n)
  BY RejectionIs
<1>2. \A i \in 1 .. n - 1 : ~Impossible(all[i], all[i + 1])
  <2>1. \A i \in 1 .. n - 1 : i \in 1 .. n /\ i + 1 \in 1 .. n
    BY <1>1
  <2> QED
    BY <2>1, FixesTyped, ImpossibleIs
<1>3. \A k \in 1 .. n :
        /\ k > 1 /\ k \notin Openings(all) => anchor[k] = anchor[k - 1]
        /\ k > 1 /\ k \in Openings(all) /\ Accepts(all, anchor[k - 1], k) => anchor[k] = k
        /\ k \in Openings(all) <=> first[k] = k
  BY <1>1, AcceptsOrGoesOn DEF Openings
<1>4. \A p, c : End(c) = n \/ ~Astray(all[End(p)], all[c], all[End(c)], all[End(c) + 1])
                    => Accepts(all, p, c)
  BY DEF Accepts
<1>5. Teleports(all) = {i \in 1 .. n : anchor[first[i]] # first[i]}
  BY RejectionIs
<1> HIDE DEF all, n, first, anchor, End
<1> DEFINE N == {i \in 0 .. n : i = 0 \/ anchor[i] = first[i]}
<1>6. ASSUME NEW k \in 1 .. n, k - 1 \in N PROVE k \in N
  <2> SUFFICES anchor[k] = first[k]
    OBVIOUS
  <2>1. CASE k = 1
    <3>1. first[1] <= 1 /\ first[1] \in 1 .. n /\ anchor[1] <= 1 /\ anchor[1] \in 1 .. n
      BY <1>1, <2>1 DEF InRuns
    <3> QED
      BY <1>1, <2>1, <3>1
  <2>2. CASE k > 1 /\ first[k] # k
    <3>1. anchor[k - 1] = first[k - 1]
      BY <1>6, <2>2
    <3> HIDE DEF N
    <3> QED
      BY <1>1, <1>3, <2>2, <3>1 DEF InRuns
  <2>3. CASE k > 1 /\ first[k] = k
    <3>1. anchor[k - 1] = first[k - 1] /\ k - 1 \in 1 .. n - 1
      BY <1>1, <1>6, <2>3
    <3> HIDE DEF N
    <3>2. End(anchor[k - 1]) = k - 1
      BY <1>1, <2>3, <3>1, RunsMeet DEF End
    <3>3. ~Impossible(all[End(anchor[k - 1])], all[k])
      BY <1>1, <1>2, <3>1, <3>2
    <3>4. End(k) \in 1 .. n
      BY <1>1, <2>3, RunsEnd DEF End
    <3>5. End(k) = n \/ ~Impossible(all[End(k)], all[End(k) + 1])
      BY <1>1, <1>2, <3>4
    <3>6. Accepts(all, anchor[k - 1], k)
      BY <1>4, <3>3, <3>5 DEF Astray
    <3> QED
      BY <1>3, <2>3, <3>6
  <2> QED
    BY <1>1, <2>1, <2>2, <2>3
<1>7. \A i \in 1 .. n : anchor[i] = first[i]
  <2>1. 0 \in N
    BY <1>1
  <2>2. 0 .. n \subseteq N
    <3> HIDE DEF N
    <3> QED
      BY <1>1, <1>6, <2>1, StepByStep
  <2>3. \A i \in 1 .. n : i \in N /\ i # 0
    BY <1>1, <2>2
  <2> QED
    BY <2>3
<1>8. Teleports(all) = {}
  <2>1. \A i \in 1 .. n : first[i] \in 1 .. n /\ first[first[i]] = first[i]
    BY <1>1 DEF InRuns
  <2> QED
    BY <1>5, <1>7, <2>1
<1>9. DOMAIN all \ Teleports(all) = DOMAIN all
  BY <1>8
<1>10. Only(all, DOMAIN all) = all
  BY OnlyAll DEF all
<1> QED
  BY <1>9, <1>10 DEF RejectTeleports

\* The rejection drops nothing of a stream without an impossible step, and leaves
\* no impossible step it could have mended by dropping the fixes on a side of it.
THEOREM RejectionDoesMend == JourneysSpec => []RejectionMends
<1>1. Collected /\ IsAssembled => RejectionMends
  BY JourneyIs, AllFlightsSurvive, NoneMendable DEF RejectionMends
<1> QED
  BY <1>1, AlwaysAssembled, PTL

-----------------------------------------------------------------------------
(* The journeys run batches, whatever is imported between their steps.       *)

\* The batches of the journeys are batches of the command: a refinement, step by
\* step, in which an import changes nothing.
THEOREM JourneysRunBatches == JourneysSpec => Spec
<1>1. JourneysInit => Init
  BY DEF JourneysInit
<1>2. IsAssembled /\ [JourneysNext]_<<vars, journeyVars>> => [Next]_vars
  <2> SUFFICES ASSUME IsAssembled, [JourneysNext]_<<vars, journeyVars>> PROVE [Next]_vars
    OBVIOUS
  <2>1. ASSUME NEW x \in Options \ imported, Import(x) PROVE UNCHANGED vars
    BY <2>1 DEF Import
  <2>2. ASSUME NEW b \in Batches, Route(b) PROVE Next
    <3>1. Collect(b, UnknownKeys(j)) /\ UnknownKeys(j) \in SUBSET Keys
      BY <2>2, KeysAssumption DEF Route, IsAssembled
    <3> QED
      BY <3>1 DEF Next
  <2>3. ASSUME NEW b \in Batches, Batch(b) PROVE Next
    BY <2>3 DEF Next
  <2> QED
    BY <2>1, <2>2, <2>3 DEF JourneysNext
<1> QED
  BY <1>1, <1>2, AlwaysAssembled, PTL DEF JourneysSpec, Spec

\* A gap is left unknown on the page where the cache has no road for it.
LEMMA ServedLegs ==
    ASSUME Collected, IsAssembled, NEW i \in UnknownGaps(Served)
    PROVE  i \in UnknownGaps(j) /\ KeyFor(j.legs[i]) \notin DOMAIN Lookup
<1>1. i \in DOMAIN Served.legs /\ Served.legs[i].kind = "unknown"
  BY DEF UnknownGaps
<1>2. i \in DOMAIN j.legs
  BY <1>1, ServedIs
<1>3. i \in UnknownGaps(j)
  BY <1>1, <1>2, ServedIs DEF Redrawn, UnknownGaps
<1> QED
  BY <1>1, <1>3, ServedIs

\* After a batch in which the router answered everything, no gap of the journey
\* is unknown on the page but for want of a road: what the page asks the cache
\* is what the batch asked the router.
THEOREM GapsAreDrawn == JourneysSpec => []RoutedGapsAreDrawn
<1>1. IInv /\ Collected /\ IsAssembled => RoutedGapsAreDrawn
  <2> SUFFICES ASSUME IInv, Collected, IsAssembled, NEW b \in Batches \ NullRouted,
                      phase[b] = "recorded", failed[b] = {}, UnknownKeys(j) \subseteq keys[b],
                      NEW i \in UnknownGaps(Served)
               PROVE  cache[KeyFor(j.legs[i])] = NoRoute
    BY DEF RoutedGapsAreDrawn
  <2> DEFINE k == KeyFor(j.legs[i])
  <2>1. k \in keys[b] /\ k \notin DOMAIN Lookup
    BY ServedLegs DEF UnknownKeys
  <2>2. k \in hits[b] \union Answered(b)
    <3>1. unread[b] = {} /\ Pending(b) = {} /\ toAsk[b] = {}
      BY DEF IInv, Progress, Pending
    <3> QED
      BY <2>1, <3>1 DEF IInv, Accounted
  <2>3. k \in Keys /\ cache[k] \in Answers \union {NoRow} /\ cache[k] # NoRow
    BY <2>1, <2>2 DEF IInv, TypeOK, RowsAreAnswers
  <2>4. cache[k] \notin Roads
    BY <2>1, <2>3 DEF Lookup
  <2> QED
    BY <2>3, <2>4 DEF Answers
<1> QED
  BY <1>1, InductiveInvariant, JourneysRunBatches, AlwaysAssembled, PTL
=============================================================================
