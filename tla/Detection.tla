------------------------------- MODULE Detection -------------------------------
(***************************************************************************)
(* detect.Run: the trips in everything a person has imported, with the     *)
(* synthesis of stays from photos, the rejection of outliers and the       *)
(* derivation of home bases.  A pure function.                             *)
(*                                                                         *)
(* The world is a line: a place is an integer number of kilometres, and    *)
(* the distance of two places is the absolute difference.  Instants are    *)
(* integer hours.  Means and medians round down to a kilometre.  Scores,   *)
(* travel modes, distances of tracks and repeats are left out: they label  *)
(* a candidate and decide nothing.                                         *)
(*                                                                         *)
(* The history read back is a record of four sequences, each in order of   *)
(* start: visits [start, end, loc, home], activities [start, end, from,    *)
(* to], points and photos [start, end, loc] with end = start.  What has no *)
(* location, and raw positions that are no photos, never get here.         *)
(***************************************************************************)
EXTENDS Line

CONSTANTS
    NearKm, FarKm, MinObs, MinHrs, MinDwell, MaxKmh,    \* Params
    StayRadius, StayMin, StayMaxGap, HomeMinDays,       \* SynthParams
    CellKm, MergeKm, MinVisits, EraPad                  \* BaseParams

ASSUME DetectionAssumption ==
    /\ {NearKm, FarKm, MinObs, MinHrs, MinDwell, MaxKmh} \subseteq Nat
    /\ {StayRadius, StayMin, StayMaxGap, HomeMinDays} \subseteq Nat
    /\ {MergeKm, MinVisits, EraPad} \subseteq Nat
    /\ CellKm \in Nat /\ CellKm % 2 = 1     \* then no place lies between two cells

CivilDate(t) == t \div DayLength

\* The median place of a sequence of evidence.
Median(s) ==
    LET n == Len(s)
        places == [i \in DOMAIN s |-> s[i].loc]
        v == StablyBy(places, places)
    IN  IF n % 2 = 1 THEN v[n \div 2 + 1] ELSE (v[n \div 2] + v[n \div 2 + 1]) \div 2

-----------------------------------------------------------------------------
(* Stays: runs of photos at one place, as visits without a meaning. *)

Places(s) == [i \in DOMAIN s |-> s[i].loc]

\* Mutation: a silence does not end a stay.
MutExtends(stay, f) ==
    Dist(SumOf(Places(stay)), Len(stay) * f.loc) <= Len(stay) * StayRadius

\* The photo is taken soon after the last one of the stay and near the mean of
\* its places.
Extends(stay, f) ==
    /\ f.start - Last(stay).start <= StayMaxGap
    /\ Dist(SumOf(Places(stay)), Len(stay) * f.loc) <= Len(stay) * StayRadius

\* Each photo extends the open stay or begins another; the stays that lasted.
SynthesizeStays(photos) ==
    LET sorted == ByStart(photos)
        Members(from, to) == SubSeq(sorted, from, to)
        first == Leader(Len(sorted), {p \in (DOMAIN sorted) \X (DOMAIN sorted) :
                                        ~Extends(Members(p[1], p[2] - 1), sorted[p[2]])})
        End(i) == Max({k \in DOMAIN sorted : first[k] = first[i]})
        Visit(i) == LET all == Members(i, End(i))
                    IN  [start |-> sorted[i].start, end |-> sorted[End(i)].start,
                         loc |-> SumOf(Places(all)) \div Len(all), home |-> FALSE]
        Lasts(i) == first[i] = i /\ sorted[End(i)].start - sorted[i].start >= StayMin
    IN  Only([i \in DOMAIN sorted |-> Visit(i)], {i \in DOMAIN sorted : Lasts(i)})

\* Imported visits win ties.
MergeVisitsByStart(real, synthetic) == ByStart(real \o synthetic)

-----------------------------------------------------------------------------
(* Home bases: where visits recur, and between which days. *)

\* The grid cell a place is rounded to.
Cell(p) == (2 * p + CellKm) \div (2 * CellKm)

\* Groups of evidence by cell, the largest first, otherwise as first seen.
Groups(ev) ==
    LET cell == [i \in DOMAIN ev |-> Cell(ev[i].loc)]
        first == {i \in DOMAIN ev : \A h \in 1 .. i - 1 : cell[h] # cell[i]}
        InCell(c) == Only(ev, {i \in DOMAIN ev : cell[i] = c})
        groups == Only([i \in DOMAIN ev |-> InCell(cell[i])], first)
    IN  StablyBy([i \in DOMAIN groups |-> -Len(groups[i])], groups)

\* Groups join the first cluster founded within MergeKm, or found one.
Clusters(ev) ==
    LET Join(clusters, g) ==
            LET center == Median(g)
                close == {i \in DOMAIN clusters : Dist(clusters[i].center, center) < MergeKm}
            IN  IF close = {} THEN Append(clusters, [center |-> center, items |-> g])
                ELSE [clusters EXCEPT ![Min(close)].items = @ \o g]
    IN  FoldLeft(Join, <<>>, Groups(ev))

\* The clusters with enough evidence on enough days, and their eras.
ClusterBases(ev, minDays) ==
    LET Days(cl) == {CivilDate(cl.items[i].start) : i \in DOMAIN cl.items}
    IN  {[center |-> Median(cl.items),
          from |-> Min(Days(cl)) - EraPad, to |-> Max(Days(cl)) + EraPad] :
            cl \in {c \in ToSet(Clusters(ev)) :
                        Len(c.items) >= MinVisits /\ Cardinality(Days(c)) >= minDays}}

DeriveBases(visits) == ClusterBases(Only(visits, {i \in DOMAIN visits : visits[i].home}), 0)

DeriveSyntheticBases(stays) == ClusterBases(stays, HomeMinDays)

\* Stays are asked only when no visit says where home is.
BasesOf(visits, stays) ==
    IF DeriveBases(visits) # {} THEN DeriveBases(visits) ELSE DeriveSyntheticBases(stays)

\* Distance to the nearest base of that day, or of any day if that has none.
HomeDist(bases, t, loc) ==
    LET active == {b \in bases : CivilDate(t) \in b.from .. b.to}
    IN  Min({Dist(b.center, loc) : b \in IF active = {} THEN bases ELSE active})

-----------------------------------------------------------------------------
(* The observations in time, without the impossible ones. *)

\* Both ends of every activity.
Ends(acts) ==
    LET From(a) == [start |-> a.start, end |-> a.start, loc |-> a.from]
        To(a) == [start |-> a.end, end |-> a.end, loc |-> a.to]
    IN  [k \in 1 .. 2 * Len(acts) |-> LET a == acts[(k + 1) \div 2] IN
                                      IF k % 2 = 1 THEN From(a) ELSE To(a)]

Flatten(visits, acts, points, photos) == ByStart(visits \o Ends(acts) \o points \o photos)

\* Observation j cannot have been reached from observation i.
TooFast(all, i, j) ==
    Dist(all[i].loc, all[j].loc) > MaxKmh * Dist(all[i].start, all[j].start)

\* Mutation: judged against every other observation, not its neighbours only.
MutOutlier(all, i) ==
    LET considered == {j \in DOMAIN all : all[j].start # all[i].start}
    IN  considered # {} /\ \A j \in considered : TooFast(all, i, j)

\* Too fast from every neighbour it has at another instant.
Outlier(all, i) ==
    LET considered == {j \in {i - 1, i + 1} \intersect DOMAIN all : all[j].start # all[i].start}
    IN  considered # {} /\ \A j \in considered : TooFast(all, i, j)

RejectOutliers(all) == Only(all, {i \in DOMAIN all : ~Outlier(all, i)})

\* Mutation: closing a span does not forget where it began.
MutFindSpans(dist) ==
    LET Step(st, i) ==
            IF dist[i] > NearKm THEN [st EXCEPT !.cur = IF @ = 0 THEN i ELSE @, !.last = i]
            ELSE [st EXCEPT !.spans = @ \union {[s |-> c, e |-> st.last] : c \in {st.cur} \ {0}}]
        end == FoldLeftDomain(Step, [spans |-> {}, cur |-> 0, last |-> 0], dist)
    IN  end.spans \union {[s |-> c, e |-> end.last] : c \in {end.cur} \ {0}}

\* The spans of observations farther than NearKm from home, found in one pass:
\* cur is where the open span began (0 for none), last its last observation.
FindSpans(dist) ==
    LET Step(st, i) ==
            IF dist[i] > NearKm THEN [st EXCEPT !.cur = IF @ = 0 THEN i ELSE @, !.last = i]
            ELSE [st EXCEPT !.spans = @ \union {[s |-> c, e |-> st.last] : c \in {st.cur} \ {0}},
                            !.cur = 0]
        end == FoldLeftDomain(Step, [spans |-> {}, cur |-> 0, last |-> 0], dist)
    IN  end.spans \union {[s |-> c, e |-> end.last] : c \in {end.cur} \ {0}}

-----------------------------------------------------------------------------
(* Candidates. *)

\* Mutation: visits of a span have no upper end.
MutDwells(visits, from, to) ==
    {j \in DOMAIN visits : /\ visits[j].start >= from
                           /\ visits[j].end - visits[j].start >= MinDwell}

\* The visits that begin in the span and last long enough.
Dwells(visits, from, to) ==
    {j \in DOMAIN visits : /\ visits[j].start \in from .. to
                           /\ visits[j].end - visits[j].start >= MinDwell}

\* The place farthest from home among them, ties by coordinate.
Destination(bases, visits, dwells) ==
    LET Km(j) == HomeDist(bases, visits[j].start, visits[j].loc)
        farthest == {j \in dwells : \A k \in dwells : Km(j) >= Km(k)}
    IN  [km |-> Max({Km(j) : j \in dwells}), loc |-> Max({visits[j].loc : j \in farthest})]

\* The candidate of a span, as a set of at most one.
CandidateOf(sp, all, bases, visits) ==
    LET from == all[sp.s].start
        to == all[sp.e].end
        dwells == Dwells(visits, from, to)
        dest == Destination(bases, visits, dwells)
        qualifies == /\ dwells # {}
                     /\ dest.km > FarKm
                     /\ sp.e - sp.s + 1 >= MinObs
                     /\ to - from >= MinHrs
    IN  IF ~qualifies THEN {}
        ELSE {[start |-> from, end |-> to, dest |-> dest.loc, destKm |-> dest.km,
               stops |-> Cardinality(dwells), obsCount |-> sp.e - sp.s + 1,
               startTruncated |-> sp.s = 1, endTruncated |-> sp.e = Len(all)]}

\* All of a run that the properties look at: what stays were synthesized, the
\* visits with them, the observations kept, how far each is from home.
Stages(obs) ==
    LET stays == SynthesizeStays(obs.photos)
        visits == MergeVisitsByStart(obs.visits, stays)
        raw == Flatten(visits, obs.activities, obs.points, obs.photos)
        all == RejectOutliers(raw)
        bases == BasesOf(visits, stays)
    IN  [stays |-> stays, visits |-> visits, raw |-> raw, all |-> all, bases |-> bases,
         dist |-> IF bases = {} THEN <<>>
                  ELSE [i \in DOMAIN all |-> HomeDist(bases, all[i].start, all[i].loc)]]

\* Without a base nothing is away and there are no candidates.
CandidatesOf(st) ==
    UNION {CandidateOf(sp, st.all, st.bases, st.visits) : sp \in FindSpans(st.dist)}
=============================================================================
