------------------------------- MODULE MCJourneys ------------------------------
\* A history is imported one observation at a time, in any order; the journey
\* over a window of it is assembled after each.  On a few histories batches
\* route the journey's gaps, and what is served is the journey with the roads
\* that are in the cache at that moment.
EXTENDS Journey, Routing

CONSTANTS
    Window,             \* the candidate's span
    MaxEvidence,        \* bound: observations imported
    MaxBatches,         \* bound: batches started
    Options,            \* the observations there are to import
    RoutedHistories,    \* bound: the histories on which batches run
    Detour              \* the roads that are no straight line

\* A fix has an instant, and a place unless it was recorded without one.
ASSUME EvidenceAssumption ==
    \A x \in Options :
        x.kind \in {"trace", "raw"} => x.time \in Int /\ x.loc \in Int \union {NoPlace}

\* The instance: a town at 10 and 12, others at 30 and 50, a place nobody can
\* have been at; the last instant lies after the window.
MCWindow == [start |-> 0, end |-> 6]
Trace(t, p) == [kind |-> "trace", time |-> t, loc |-> p]
Raw(t, p, acc) == [kind |-> "raw", time |-> t, loc |-> p, acc |-> acc]
MCOptions ==
    {Trace(t, p) : t \in 0 .. 6, p \in {10, 30, 200}}
        \union {Trace(1, 12), Trace(3, 12), Trace(6, 12), Trace(7, 12),
                Trace(2, 50), Trace(5, 50), Trace(3, NullIsland), Trace(4, NoPlace)}
        \union {Raw(3, 12, 1), Raw(3, 30, 9), Raw(4, 200, 1)}
        \union {[kind |-> "activity", start |-> 0, end |-> 1, km |-> 20, mode |-> "FLYING"],
                [kind |-> "activity", start |-> 4, end |-> 6, km |-> 5, mode |-> "WALKING"]}

MCOffsetAt == [t \in 0 .. 7 |-> IF t < 4 THEN 1 ELSE 0]
MCRoutedHistories ==
    LET outward == {Trace(0, 10), Trace(3, 30)}
    IN  {outward, outward \union {Trace(6, 12)}, outward \union {Trace(6, 200)}}
MCKeys == {<<10, 30>>, <<30, 10>>, <<30, 12>>, <<30, 200>>}
\* The plain batches are interchangeable.
MCSymmetry == Permutations(Batches \ (Refreshing \union NullRouted))

VARIABLES
    imported,           \* the observations imported so far
    j                   \* the journey assembled from them

journeyVars == <<imported, j>>

RoadOf(k, road) ==
    IF road \in Detour THEN [road |-> <<k[1], k[2] + 5, k[2]>>, km |-> Dist(k[1], k[2]) + 10]
    ELSE [road |-> k, km |-> Dist(k[1], k[2])]

Lookup == [k \in {key \in Keys : cache[key] \in Roads} |-> RoadOf(k, cache[k])]

\* What the page shows: assembled, with the roads of the cache.
Served == Apply(j, Lookup)

Loaded(S) ==
    LET OfKind(kind) == SetToSeq({x \in S : x.kind = kind})
        InTime(s) == StablyBy([i \in DOMAIN s |-> s[i].time], s)
    IN  [points |-> InTime(OfKind("trace")), raws |-> InTime(OfKind("raw")),
         activities |-> ByStart(OfKind("activity"))]

Journeyed(S) == Assemble(LoadJourneyInputs(Loaded(S), Window), Window)

\* The pairs the cache can be about include those of every journey that batches
\* are run on.
ASSUME KeysAssumption == \A S \in RoutedHistories : UnknownKeys(Journeyed(S)) \subseteq Keys

JourneysInit == Init /\ imported = {} /\ j = Journeyed({})

\* No two traces at one instant, and no two raw fixes.
Import(x) ==
    /\ Cardinality(imported) < MaxEvidence
    /\ \A y \in imported : x.kind = y.kind /\ x.kind # "activity" => x.time # y.time
    /\ imported' = imported \union {x}
    /\ \A b \in Batches : phase[b] = "idle" \/ imported' \in RoutedHistories
    /\ j' = Journeyed(imported')
    /\ UNCHANGED vars

\* The batch collects the gaps of the journey as it is now.
Route(b) ==
    /\ imported \in RoutedHistories
    /\ Cardinality({c \in Batches : phase[c] # "idle"}) < MaxBatches
    /\ Collect(b, UnknownKeys(j))
    /\ UNCHANGED journeyVars

JourneysNext ==
    \/ \E x \in Options \ imported : Import(x)
    \/ \E b \in Batches : Route(b) \/ (Batch(b) /\ UNCHANGED journeyVars)

JourneysSpec == JourneysInit /\ [][JourneysNext]_<<vars, journeyVars>>

-----------------------------------------------------------------------------
(* Properties. *)

Stream == Selection(LoadJourneyInputs(Loaded(imported), Window), Window).stream

\* A road at 30 km an instant, or at 60 km when the clock cannot tell.
TooFar(x, y) == Dist(x.loc, y.loc) > MaxSpeed * (IF y.time - x.time < ThinSpacing
                                                 THEN ThinSpacing ELSE y.time - x.time)

\* A flight survives: where no step of the stream is impossible, no fix is
\* rejected.  (journey.go:51-53)
FlightsSurvive ==
    LET all == Stream IN
    (\A i \in 1 .. Len(all) - 1 : ~TooFar(all[i], all[i + 1])) => RejectTeleports(all) = all

\* An impossible step is left only where dropping neither of its sides would
\* mend it: what lies before one side, or after the other, is as far away, or
\* is not there.  (rejectTeleports, journey.go:337-341)
NoMendableTeleport ==
    LET all == Stream
        first == ClusterOf(all)
        left == DOMAIN all \ Teleports(all)
        Opens(k, i) == k > 1 /\ first[k] = k /\ first[k - 1] = first[i]
        LastBefore(k, i) == i < k /\ \A m \in left : m < k => m <= i
    IN  MaxSpeed > 0 /\ Len(all) >= 3 =>
            \A i, k \in left :
                LastBefore(k, i) /\ first[i] # first[k] /\ TooFar(all[i], all[k]) =>
                    /\ \A m \in DOMAIN all : Opens(m, k) => TooFar(all[i], all[m])
                    /\ \A m \in left : Opens(k, i) /\ LastBefore(first[i], m) => TooFar(all[m], all[k])

\* The rejection drops nothing of a stream without an impossible step, and
\* leaves no impossible step it could have mended.
RejectionMends == FlightsSurvive /\ NoMendableTeleport

Kept == Thin(RejectTeleports(Stream))

\* Between the first kept fix and the last every instant has its place on the
\* journey; and a photo taken when and where a kept fix was is never far from
\* it, unless in a stop or at the end of a road, which have places of their own.
CoverageHasNoHoles ==
    LET kept == Kept
        served == Served
        Place(t, pos) == PlacePhoto(served, t, pos)
    IN  kept # <<>> =>
            /\ \A t \in Head(kept).time .. Last(kept).time : Place(t, 10).kind # "none"
            /\ \A x \in ToSet(kept) :
                LET p == Place(x.time, x.loc) IN p.kind \in {"stop", "road"} \/ ~p.flagged

\* What was measured stays as it is whatever a router says: the roads only
\* replace unknown gaps, keep their ends, and take their chords out of what is
\* unknown; flights are never routed.  (route.Apply, summary.go:50-52)
RoadsAreInference ==
    LET served == Served IN
    /\ Len(served.legs) = Len(j.legs) /\ served.stops = j.stops
    /\ \A i \in DOMAIN j.legs :
        /\ served.legs[i].points = j.legs[i].points
        /\ served.legs[i] = j.legs[i]
            \/ (j.legs[i].kind = "unknown" /\ served.legs[i].kind = "road")
    /\ Summarize(served) = Summarize(j)
    /\ served.unknownKm + KmOf(served.legs, {"road"}) + j.airKm = j.inferredKm
    /\ j.observedKm + j.inferredKm = PathKm(Locs(Kept))

\* After a batch in which the router answered everything, the page has no gap
\* left that is unknown but for want of a road: the page asks the cache what
\* the batch asked the router.  It holds for as long as the journey has no
\* other gaps than the batch saw.  (main.go:1047-1093, server.go:201-212)
RoutedGapsAreDrawn ==
    \A b \in Batches \ NullRouted :
        phase[b] = "recorded" /\ failed[b] = {} /\ UnknownKeys(j) \subseteq keys[b] =>
            \A i \in UnknownGaps(Served) : cache[KeyFor(j.legs[i])] = NoRoute
=============================================================================
