---------------------------------- MODULE Line ---------------------------------
(***************************************************************************)
(* The world of the detection and of the journeys: places are kilometres   *)
(* along a line, instants are integers, and sequences are put in order by  *)
(* a stable sort, as the code does everywhere.                             *)
(***************************************************************************)
EXTENDS Integers, FiniteSetsExt, SequencesExt

CONSTANTS DayLength     \* instants of a civil day

ASSUME LineAssumption == DayLength \in Nat \ {0}

Dist(p, q) == IF p < q THEN q - p ELSE p - q

\* From p to the nearest place of a segment.
ToSegment(p, a, b) == IF p \in Min({a, b}) .. Max({a, b}) THEN 0
                      ELSE Min({Dist(p, a), Dist(p, b)})

\* From p to the nearest place of a polyline of one or more places.
ToPolyline(p, line) ==
    IF Len(line) = 1 THEN Dist(p, line[1])
    ELSE Min({ToSegment(p, line[i], line[i + 1]) : i \in 1 .. Len(line) - 1})

\* A sequence stably sorted by keys: equal keys keep the order they came in.
StablyBy(keys, s) ==
    LET Place(i) == Cardinality({n \in DOMAIN s : keys[n] < keys[i] \/ (keys[n] = keys[i] /\ n <= i)})
    IN  [k \in DOMAIN s |-> s[CHOOSE i \in DOMAIN s : Place(i) = k]]

ByStart(s) == StablyBy([i \in DOMAIN s |-> s[i].start], s)

\* What s has at some of its indices, in its order.
Only(s, indices) ==
    LET Place(i) == Cardinality({n \in indices : n <= i})
    IN  [k \in 1 .. Cardinality(indices) |-> s[CHOOSE i \in indices : Place(i) = k]]

Where(s, P(_)) == Only(s, {i \in DOMAIN s : P(s[i])})

\* A walk over 1 .. n that keeps a leader: each index is its own leader where
\* the one before has a leader that does not lead it too, and is led by that
\* leader otherwise.
Leader(n, breaks) ==
    LET leader[i \in 1 .. n] ==
            LET before == leader[i - 1]
            IN  IF i = 1 \/ <<before, i>> \in breaks THEN i ELSE before
    IN  leader

SumOf(s) == LET upto[i \in 0 .. Len(s)] == IF i = 0 THEN 0 ELSE upto[i - 1] + s[i]
            IN  upto[Len(s)]
=============================================================================
