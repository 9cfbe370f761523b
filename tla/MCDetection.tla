------------------------------ MODULE MCDetection ------------------------------
\* Small histories: a first file is imported, then observations one at a time and
\* in any order, and after each import detection runs over everything there is by
\* then.
EXTENDS Detection

CONSTANTS
    Horizon,        \* bound: observations start at 0 .. Horizon
    Begun,          \* what the first file may bring, how many observations may
                    \* follow it (bound: more) and when they may begin (bound: until)
    HomeVisits, OtherVisits, Activities, Points, Photos     \* shapes, see Options

ASSUME ShapesAssumption ==
    /\ Horizon \in Nat
    /\ HomeVisits \union OtherVisits \union Points \union Photos \subseteq [hours : Nat, place : Int]
    /\ Activities \subseteq [hours : Nat, place : Int, arrival : Int]

\* The instance: a home at 0, a place to go to at 12, a place nobody reaches.
Shapes(hours, places) == [hours : hours, place : places]
MCHomeVisits == Shapes({1}, {0, 12})
MCTripVisits == Shapes({2, 4}, {12})
MCOtherVisits == MCTripVisits \union Shapes({2}, {100})
MCActivities == {[hours |-> 1, place |-> 12, arrival |-> 0]}
MCPoints == Shapes({0}, {0, 12, 100})
MCPhotos == Shapes({0}, {0, 12})

\* Of the first files of the instance one is empty.  The others bring two trips, each
\* of them witnessed by a visit or by photos, and home again in between; or the first
\* trip only.
At(kind, t, hours, place, home) ==
    [kind |-> kind, start |-> t, end |-> t + hours, loc |-> place, home |-> home]
TripOver(t) ==
    {{At("visit", t, 2, 12, FALSE), At("point", t + 2, 0, 12, FALSE)},
     {At("photo", t, 0, 12, FALSE), At("photo", t + 2, 0, 12, FALSE)}}
HomeOver(t) == At("point", t, 0, 0, FALSE)
MCTrips ==
    LET begin == {At("visit", 0, 1, 0, TRUE), HomeOver(5)}
    IN  {begin \union first \union second :
            first \in TripOver(2),
            second \in {trip \union {HomeOver(10)} : trip \in TripOver(7)} \union {{HomeOver(6)}}}
MCBegun == {[file |-> {}, more |-> 4, until |-> 4]}
    \union {[file |-> trips, more |-> 2, until |-> 11] : trips \in MCTrips}

VARIABLES
    history,        \* the observations imported so far
    st,             \* the stages of the latest run
    cands           \* its candidates

historyVars == <<history, st, cands>>

\* A shape is a duration and a place; an activity has a second one.
Observations ==
    LET From(t, kind, s, home) ==
            [kind |-> kind, start |-> t, end |-> t + s.hours, loc |-> s.place, home |-> home]
    IN  UNION {   {From(t, "visit", s, TRUE) : s \in HomeVisits}
           \union {From(t, "visit", s, FALSE) : s \in OtherVisits}
           \union {From(t, "point", s, FALSE) : s \in Points}
           \union {From(t, "photo", s, FALSE) : s \in Photos}
           \union {[kind |-> "activity", start |-> t, end |-> t + s.hours,
                    from |-> s.place, to |-> s.arrival] : s \in Activities} : t \in 0 .. Horizon}

\* What LoadObservations reads back.
LoadObservations(S) ==
    LET OfKind(kind) == ByStart(SetToSeq({x \in S : x.kind = kind}))
    IN  [visits |-> OfKind("visit"), activities |-> OfKind("activity"),
         points |-> OfKind("point"), photos |-> OfKind("photo")]

\* The visits and activities of one person follow each other.
Follow(x, y) ==
    x.kind \in {"visit", "activity"} /\ y.kind \in {"visit", "activity"}
        => x.end <= y.start \/ y.end <= x.start

\* No two observations start together.
ASSUME BegunAssumption ==
    \A b \in Begun :
        /\ IsFiniteSet(b.file) /\ b.file \subseteq Observations
        /\ \A x, y \in b.file : x # y => x.start # y.start /\ Follow(x, y)

HistoryInit ==
    /\ history \in {b.file : b \in Begun}
    /\ st = Stages(LoadObservations(history)) /\ cands = CandidatesOf(st)

Observe(x) ==
    /\ \E b \in Begun :
        b.file \subseteq history /\ Cardinality(history \ b.file) < b.more /\ x.start <= b.until
    /\ \A y \in history : y.start # x.start /\ Follow(x, y)
    /\ history' = history \union {x}
    /\ st' = Stages(LoadObservations(history'))
    /\ cands' = CandidatesOf(st')

HistoryNext == \E x \in Observations : Observe(x)

HistorySpec == HistoryInit /\ [][HistoryNext]_historyVars

-----------------------------------------------------------------------------

Away(i) == st.dist[i] > NearKm

\* A stay is what the photos witness: it begins and ends with one, has no longer
\* silence than StayMaxGap, and lies where its photos are; and no photo taken
\* during it is from elsewhere, farther than StayRadius outside of the stretch
\* of the earlier ones.  (A running mean may drift any way, with the photos.)
StaysAsWitnessed ==
    \A s \in ToSet(st.stays) :
        LET taken == {x \in history : x.kind = "photo" /\ x.start \in s.start .. s.end}
            times == {x.start : x \in taken}
            Among(place, photos, slack) ==
                \E x, y \in photos : x.loc - slack <= place /\ place <= y.loc + slack
        IN  /\ {s.start, s.end} \subseteq times
            /\ \A t \in times \ {s.end} : \E u \in times : u > t /\ u - t <= StayMaxGap
            /\ Among(s.loc, taken, 0)
            /\ \A x \in taken : x.start > s.start =>
                    Among(x.loc, {y \in taken : y.start < x.start}, StayRadius)

\* An observation near home begins while one away from home still lasts.
Straddled ==
    \E i, j \in DOMAIN st.dist :
        i < j /\ Away(i) /\ ~Away(j) /\ st.all[j].start < st.all[i].end

\* Two trips never overlap, except where one observation begins at home while
\* another is still away.
CandidatesDisjoint ==
    ~Straddled => \A c, e \in cands : c # e => c.end <= e.start \/ e.end <= c.start

\* A trip's destination is a place dwelt at on that very trip: an observation
\* far from home, reached without having been home since the trip began.
\* Except that a visit rejected as impossible is still a destination.
DestinationOnTheTrip ==
    ~Straddled => \A c \in cands :
        \/ \E i \in DOMAIN st.dist :
            /\ st.all[i].loc = c.dest
            /\ st.all[i].end - st.all[i].start >= MinDwell
            /\ st.dist[i] = c.destKm /\ c.destKm > FarKm
            /\ \A k \in DOMAIN st.dist :
                c.start < st.all[k].start /\ st.all[k].start <= st.all[i].start => Away(k)
        \/ \E i \in DOMAIN st.raw : st.raw[i].loc = c.dest /\ Outlier(st.raw, i)

\* From the end of c on, the person was at home once and seen once more before t.
HomeBefore(c, t) ==
    \E i \in DOMAIN st.raw :
        /\ i + 1 \in DOMAIN st.raw /\ c.end < st.raw[i].start /\ st.raw[i + 1].start < t
        /\ ~Outlier(st.raw, i)
        /\ HomeDist(st.bases, st.raw[i].start, st.raw[i].loc) <= NearKm

\* The last photo before x was taken on the trip, at most StayMaxGap earlier: x
\* may prolong a stay of the trip, past the return that no photo witnesses.
MayProlong(c, x) ==
    /\ x.kind = "photo"
    /\ \E p \in history :
        /\ p.kind = "photo" /\ p.start \in c.start .. c.end
        /\ x.start > p.start /\ x.start - p.start <= StayMaxGap
        /\ \A q \in history : q.kind = "photo" => q.start <= p.start \/ q.start > x.start

\* Importing what happened after the return from a trip leaves the trip as it
\* was, for as long as the homes stay where they are; except a photo that may
\* prolong a stay of the trip, which is synthesized before anybody asks where home
\* is.  (synth.go:105-118, detect.go:186-222)
ImportElsewhereChangesNothing ==
    [][\A x \in history' \ history, c \in cands :
        st.bases = st'.bases /\ HomeBefore(c, x.start) /\ ~MayProlong(c, x)
            => c \in cands']_historyVars

=============================================================================
