-------------------------------- MODULE Journey --------------------------------
(***************************************************************************)
(* journey.Assemble and what is derived beside it: one adventure's legs,   *)
(* each observed or a gap, its stops, its figures, and where on it a photo *)
(* was taken; and route.Apply, which turns unknown gaps into roads from    *)
(* cached answers.  Pure functions, over the line of module Line.          *)
(*                                                                         *)
(* The inputs are a record of three sequences, each in order of time:      *)
(* points [time, loc], raws [time, loc, acc] and activities [start, end,   *)
(* km, mode].  A window is [start, end], both ends included.               *)
(***************************************************************************)
EXTENDS Line

CONSTANTS
    GapThreshold, ThinSpacing, MinStopDwell, MaxAccuracy,   \* Params
    AirSpeedMin, MaxSpeed, ClusterRadius, DivergenceWarnPct,
    FarWarn,            \* DefaultPhotoFarWarnM
    KeyGrid,            \* the rounding of a routing key
    OffsetAt,           \* instant |-> the offset recorded with it
    NoPlace             \* an observation without a location

ASSUME JourneyAssumption ==
    /\ {GapThreshold, ThinSpacing, MinStopDwell, MaxAccuracy} \subseteq Nat
    /\ {AirSpeedMin, MaxSpeed, ClusterRadius, DivergenceWarnPct, FarWarn} \subseteq Nat
    /\ KeyGrid \in Nat /\ KeyGrid % 2 = 1       \* then no place lies between two keys

NullIsland == 0

-----------------------------------------------------------------------------
(* The stream of fixes. *)

InWindow(w, t) == t \in w.start .. w.end

Intersects(w, a) == a.end >= w.start /\ a.start <= w.end

\* What the store reads back for a window: rows that lie in it or overlap it.
LoadJourneyInputs(obs, w) ==
    LET In(s) == Where(s, LAMBDA x : InWindow(w, x.time))
    IN  [points |-> In(obs.points), raws |-> In(obs.raws),
         activities |-> Where(obs.activities, LAMBDA a : Intersects(w, a))]

\* The located fixes of the window in order of time, a trace before a raw fix
\* of the same instant; and how many were left out as known defects.
Selection(obs, w) ==
    LET Located(s) == Where(s, LAMBDA x : x.loc # NoPlace /\ InWindow(w, x.time))
        Real(s) == Where(Located(s), LAMBDA x : x.loc # NullIsland)
        Accurate(s) == Where(s, LAMBDA x : MaxAccuracy = 0 \/ x.acc <= MaxAccuracy)
        Fixes(source, s) ==
            [i \in DOMAIN s |-> [time |-> s[i].time, loc |-> s[i].loc, source |-> source]]
        traces == Fixes("trace", Real(obs.points))
        raws == Fixes("raw", Accurate(Real(obs.raws)))
        both == traces \o raws
        Lost(s, t) == Len(s) - Len(t)
    IN  [stream |-> StablyBy([i \in DOMAIN both |-> both[i].time], both),
         nullIsland |-> Lost(Located(obs.points), Real(obs.points))
                            + Lost(Located(obs.raws), Real(obs.raws)),
         inaccurate |-> Lost(Real(obs.raws), Accurate(Real(obs.raws)))]

\* Whose cluster each fix is in, by the first fix of the cluster: a cluster is
\* a run of consecutive fixes near its first.
ClusterOf(pts) ==
    Leader(Len(pts), {p \in (DOMAIN pts) \X (DOMAIN pts) :
                        Dist(pts[p[1]].loc, pts[p[2]].loc) > ClusterRadius})

\* Faster than MaxSpeed, where no time is shorter than the stream resolves.
Impossible(x, y) == Dist(x.loc, y.loc) > MaxSpeed * Max({y.time - x.time, ThinSpacing})

\* Mutation: only how a cluster was entered is judged.
MutAstray(from, first, last, next) == Impossible(from, first) /\ ~Impossible(from, next)

\* The cluster from first to last was entered or left at an impossible speed,
\* where one could have gone on directly.
Astray(from, first, last, next) ==
    (Impossible(from, first) \/ Impossible(last, next)) /\ ~Impossible(from, next)

\* The fixes of the clusters rejected, each judged from the last one accepted;
\* neither the first cluster is nor the last.
Teleports(pts) ==
    LET first == ClusterOf(pts)
        End(c) == Max({i \in DOMAIN pts : first[i] = c})
        Accepted(prev, c) ==
            End(c) = Len(pts) \/ ~Astray(pts[End(prev)], pts[c], pts[End(c)], pts[End(c) + 1])
        opens == {i \in DOMAIN pts : first[i] = i}
        anchor == Leader(Len(pts), {p \in opens \X opens : Accepted(p[1], p[2])})
    IN  {i \in DOMAIN pts : anchor[first[i]] # first[i]}

RejectTeleports(pts) ==
    IF MaxSpeed = 0 \/ Len(pts) < 3 THEN pts ELSE Only(pts, DOMAIN pts \ Teleports(pts))

\* Of fixes closer in time than ThinSpacing the earliest is kept.
Thin(pts) ==
    LET last == Leader(Len(pts), {p \in (DOMAIN pts) \X (DOMAIN pts) :
                                    pts[p[2]].time - pts[p[1]].time >= ThinSpacing})
    IN  Only(pts, {i \in DOMAIN pts : last[i] = i})

-----------------------------------------------------------------------------
(* Legs and stops. *)

Locs(pts) == [i \in DOMAIN pts |-> pts[i].loc]

\* The sum of the chords between consecutive places.
PathKm(locs) == SumOf([i \in DOMAIN locs |-> IF i = 1 THEN 0 ELSE Dist(locs[i - 1], locs[i])])

Leg(kind, pts) == [kind |-> kind, points |-> pts, km |-> PathKm(Locs(pts)),
                   road |-> <<>>, roadKm |-> 0]

\* A gap has its two ends only; at flying speed it is air, else unknown.
GapLeg(from, to) ==
    LET flown == AirSpeedMin > 0 /\ Dist(from.loc, to.loc) >= AirSpeedMin * (to.time - from.time)
    IN  Leg(IF flown THEN "air" ELSE "unknown", <<from, to>>)

\* Where a run of fixes begins: after every silence longer than GapThreshold.
RunStarts(kept) ==
    Only([i \in DOMAIN kept |-> i],
         {i \in DOMAIN kept : i = 1 \/ kept[i].time - kept[i - 1].time > GapThreshold})

\* An observed leg for each run, a gap between each two.
LegsOf(kept) ==
    LET starts == RunStarts(kept)
        End(n) == IF n = Len(starts) THEN Len(kept) ELSE starts[n + 1] - 1
    IN  IF kept = <<>> THEN <<>>
        ELSE [k \in 1 .. 2 * Len(starts) - 1 |->
                LET n == (k + 1) \div 2 IN
                IF k % 2 = 1 THEN Leg("observed", SubSeq(kept, starts[n], End(n)))
                ELSE GapLeg(kept[End(n)], kept[starts[n + 1]])]

\* Halts between consecutive activities, where the fixes made meanwhile are in
\* the mean; without any the place of the halt is the null island.
FindStops(activities, kept, w) ==
    LET acts == ByStart(Where(activities, LAMBDA a : Intersects(w, a)))
        Halt(a, b) ==
            LET members == Locs(Where(kept, LAMBDA x : x.time \in a.end .. b.start))
                n == Len(members)
            IN  [start |-> a.end, end |-> b.start, points |-> n,
                 loc |-> IF n = 0 THEN NullIsland ELSE SumOf(members) \div n,
                 displacement |-> IF n = 0 THEN 0 ELSE Dist(members[1], members[n])]
        halts == [i \in 1 .. Len(acts) - 1 |-> Halt(acts[i], acts[i + 1])]
    IN  Where(halts, LAMBDA h : h.end - h.start >= MinStopDwell)

KmOf(legs, kinds) ==
    SumOf([i \in DOMAIN legs |-> IF legs[i].kind \in kinds THEN legs[i].km ELSE 0])

Assemble(obs, w) ==
    LET sel == Selection(obs, w)
        plausible == RejectTeleports(sel.stream)
        kept == Thin(plausible)
        legs == LegsOf(kept)
        acts == Where(obs.activities, LAMBDA a : Intersects(w, a))
        GoogleKm(s) == SumOf([i \in DOMAIN s |-> s[i].km])
    IN  [window |-> w, legs |-> legs, stops |-> FindStops(obs.activities, kept, w),
         observedKm |-> KmOf(legs, {"observed"}), inferredKm |-> KmOf(legs, {"unknown", "air"}),
         airKm |-> KmOf(legs, {"air"}), unknownKm |-> KmOf(legs, {"unknown"}), routedKm |-> 0,
         googleKm |-> GoogleKm(acts),
         googleGroundKm |-> GoogleKm(Where(acts, LAMBDA a : a.mode # "FLYING")),
         rejected |-> [nullIsland |-> sel.nullIsland, inaccurate |-> sel.inaccurate,
                       speed |-> Len(sel.stream) - Len(plausible)]]

-----------------------------------------------------------------------------
(* Roads.  A lookup is a function from keys to the roads [road, km] that the *)
(* routing cache holds for them; rows without a road decide nothing here.    *)

\* A coordinate as a key holds it.
Rounded(p) == KeyGrid * ((2 * p + KeyGrid) \div (2 * KeyGrid))

\* The directed pair that is asked about a gap.
KeyFor(leg) == <<Rounded(leg.points[1].loc), Rounded(leg.points[2].loc)>>

\* Mutation: flights are asked about too.
MutUnknownGaps(j) == {i \in DOMAIN j.legs : j.legs[i].kind \in {"unknown", "air"}}

UnknownGaps(j) == {i \in DOMAIN j.legs : j.legs[i].kind = "unknown"}

\* Mutation: the pair is asked about as it was recorded.
MutUnknownKeys(j) == {Locs(j.legs[i].points) : i \in UnknownGaps(j)}

UnknownKeys(j) == {KeyFor(j.legs[i]) : i \in UnknownGaps(j)}

\* An unknown gap whose key has a road becomes a road, and keeps its two ends.
Apply(j, lookup) ==
    LET Known(i) == i \in UnknownGaps(j) /\ KeyFor(j.legs[i]) \in DOMAIN lookup
        Decorated(i) ==
            LET leg == j.legs[i]
                answer == lookup[KeyFor(leg)]
            IN  IF Known(i) THEN [leg EXCEPT !.kind = "road", !.road = answer.road,
                                             !.roadKm = answer.km]
                ELSE leg
        legs == [i \in DOMAIN j.legs |-> Decorated(i)]
    IN  [j EXCEPT !.legs = legs, !.unknownKm = KmOf(legs, {"unknown"}),
                  !.routedKm = SumOf([i \in DOMAIN legs |-> legs[i].roadKm])]

-----------------------------------------------------------------------------
(* Derived figures. *)

GroundKm(j) == j.observedKm + j.routedKm + j.unknownKm

\* The reconstruction differs from Google's figure by more than the percentage.
DivergenceFlagged(j) ==
    /\ j.googleGroundKm > 0 /\ DivergenceWarnPct > 0
    /\ 100 * Dist(GroundKm(j), j.googleGroundKm) > DivergenceWarnPct * j.googleGroundKm

\* Kilometres and duration by mode, of the activities that went anywhere; each
\* counts in full.
ModeBreakdown(acts, w) ==
    LET moved == Where(acts, LAMBDA a : a.km > 0 /\ Intersects(w, a))
        Of(mode) == Where(moved, LAMBDA a : a.mode = mode)
        Summed(mode) == [mode |-> mode,
                         km |-> SumOf([i \in DOMAIN Of(mode) |-> Of(mode)[i].km]),
                         hours |-> SumOf([i \in DOMAIN Of(mode) |->
                                            Of(mode)[i].end - Of(mode)[i].start])]
    IN  {Summed(a.mode) : a \in ToSet(moved)}

\* The date where the traveller is.
RecordedDate(t) == (t + OffsetAt[t]) \div DayLength

LegStart(leg) == Head(leg.points).time
LegEnd(leg) == Last(leg.points).time

\* From the first date to the last that the window and its legs and stops touch.
CivilDays(j) ==
    LET spans == {<<LegStart(leg), LegEnd(leg)>> : leg \in ToSet(j.legs)}
                 \union {<<s.start, s.end>> : s \in ToSet(j.stops)}
        touched == UNION {{RecordedDate(s[1]), RecordedDate(s[2])} : s \in spans}
    IN  Max({RecordedDate(j.window.end)} \union touched)
            - Min({RecordedDate(j.window.start)} \union touched) + 1

\* An observed leg of some length and some duration, not a fix.
Moving(leg) == leg.kind = "observed" /\ leg.km > 0 /\ LegEnd(leg) > LegStart(leg)

Summarize(j) ==
    LET moving == Where(j.legs, Moving)
        HoursOf(s) == SumOf([i \in DOMAIN s |-> LegEnd(s[i]) - LegStart(s[i])])
    IN  [span |-> j.window.end - j.window.start, civilDays |-> CivilDays(j),
         stops |-> Len(j.stops),
         dwell |-> SumOf([i \in DOMAIN j.stops |-> j.stops[i].end - j.stops[i].start]),
         observedHours |-> HoursOf(moving),
         observedKm |-> SumOf([i \in DOMAIN moving |-> moving[i].km])]

-----------------------------------------------------------------------------
(* Photos. *)

\* Mutation: an element does not hold the instant it ends at.
MutHolds(start, end, t) == start <= t /\ t < end

Holds(start, end, t) == start <= t /\ t <= end

\* What is drawn for a leg; the arc of a flight claims no place.
Drawn(leg) == IF leg.kind = "road" THEN leg.road ELSE Locs(leg.points)

Unplaced == [kind |-> "none"]

Measured(kind, index, dist) ==
    [kind |-> kind, index |-> index, dist |-> dist, flagged |-> dist > FarWarn]

\* Where the journey was when a photo was taken, and how far from there the
\* photo says it was: the first stop that holds the instant, else the first leg.
PlacePhoto(j, t, pos) ==
    LET stops == {i \in DOMAIN j.stops : Holds(j.stops[i].start, j.stops[i].end, t)}
        legs == {i \in DOMAIN j.legs : Holds(LegStart(j.legs[i]), LegEnd(j.legs[i]), t)}
        leg == j.legs[Min(legs)]
    IN  CASE stops # {} -> Measured("stop", Min(stops), Dist(pos, j.stops[Min(stops)].loc))
          [] stops = {} /\ legs = {} -> Unplaced
          [] stops = {} /\ legs # {} /\ leg.kind = "air" ->
                [kind |-> "air", index |-> Min(legs), flagged |-> FALSE]
          [] OTHER -> Measured(leg.kind, Min(legs), ToPolyline(pos, Drawn(leg)))
=============================================================================
