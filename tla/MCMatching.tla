------------------------------ MODULE MCMatching ------------------------------
\* Every small input of Match: candidates and decisions are added one at a
\* time, and what is asked of Match is asked of every pair of lists on the way.
EXTENDS Matching

CONSTANTS
    Horizon,        \* bound: instants are 0 .. Horizon
    MaxCandidates,  \* bound: candidates of the run
    MaxDecisions    \* bound: decisions of the person

ASSUME ListsAssumption ==
    Horizon \in Nat /\ MaxCandidates \in Nat /\ MaxDecisions \in Nat

VARIABLES
    cands,          \* the candidates of the latest run
    decs            \* the decisions

lists == <<cands, decs>>

Places == 0 .. 2
\* A chain: 0 is near 1, 1 is near 2, 0 is not near 2.
MCNear(p, q) == p - q \in {-1, 0, 1}

Spans == {s \in [start : 0 .. Horizon, end : 0 .. Horizon, dest : Places] :
            s.start < s.end}
Candidate(id, s) == [id |-> id, start |-> s.start, end |-> s.end, dest |-> s.dest]
Decision(id, s, t) ==
    [id |-> id, start |-> s.start, end |-> s.end, dest |-> s.dest, created |-> t]

ListsInit == cands = {} /\ decs = {}

\* The next candidate starts where no earlier one is.
Detect(s) ==
    /\ Cardinality(cands) < MaxCandidates
    /\ LET c == Candidate(Cardinality(cands) + 1, s) IN
        /\ Disjoint(cands \union {c})
        /\ \A e \in cands : e.start < c.start
        /\ cands' = cands \union {c}
    /\ UNCHANGED decs

\* A decision made some time on some candidate.  Decisions of one bulk write
\* are created at one instant.
MakeDecision(s, t) ==
    /\ Cardinality(decs) < MaxDecisions
    /\ \A d \in decs : t >= d.created /\ ~Anchored(d, s)
    /\ decs' = decs \union {Decision(Cardinality(decs) + 1, s, t)}
    /\ UNCHANGED cands

ListsNext ==
    \/ \E s \in Spans : Detect(s)
    \/ \E s \in Spans, t \in 0 .. 1 : MakeDecision(s, t)

ListsSpec == ListsInit /\ [][ListsNext]_lists

\* Whatever the candidates and the decisions, the assignment is the one
\* stable one: nobody is used twice, nobody could do better.
MatchIsTheStableOne ==
    LET M == Match(cands, decs) IN
    /\ IsStable(M, cands, decs)
    /\ \A N \in SUBSET Pairs(cands, decs) : IsStable(N, cands, decs) => N = M

\* A decision made on a candidate still applies after re-detection has moved
\* its boundaries: as long as the candidate overlaps no decision, and the
\* decision no candidate, as long as it overlaps this one, it is shown there.
DriftKeepsIdentity ==
    \A c \in cands, d \in decs :
        (/\ Compatible(c, d)
         /\ \A e \in decs \ {d} : Compatible(c, e) => Overlap(c, e) < Overlap(c, d)
         /\ \A b \in cands \ {c} : Compatible(b, d) => Overlap(b, d) < Overlap(c, d))
        => DecisionsOn(c, cands, decs) = {d}
=============================================================================
