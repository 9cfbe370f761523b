------------------------------- MODULE Matching -------------------------------
(***************************************************************************)
(* detect.Match: which of the decisions a person has made belongs to which *)
(* of the candidates the latest detection found.  Nothing stores the       *)
(* answer; every reader computes it anew from the two lists.               *)
(*                                                                         *)
(* A candidate is a record with id, start, end and dest; a decision's      *)
(* anchor is a record with id, start, end, dest and created.  Instants are *)
(* integers, and Near says which destinations are within MatchKm.          *)
(***************************************************************************)
EXTENDS Integers, FiniteSets

CONSTANTS
    Near(_, _)      \* two destinations are at most MatchKm apart

Earlier(a, b) == IF a <= b THEN a ELSE b
Later(a, b) == IF a >= b THEN a ELSE b

\* How long the two spans overlap; negative when they do not.
Overlap(c, d) == Earlier(c.end, d.end) - Later(c.start, d.start)

Compatible(c, d) == Overlap(c, d) > 0 /\ Near(c.dest, d.dest)

Pairs(cands, decs) ==
    {p \in [cand : cands, dec : decs] : Compatible(p.cand, p.dec)}

\* Mutation: the smallest overlap comes first.
MutKey(p) == <<Overlap(p.cand, p.dec), p.cand.start, p.dec.created, p.cand.id, p.dec.id>>

\* What the pairs are sorted by: the longest overlap first, then the earlier
\* candidate, then the earlier decision, then the ids.
Key(p) == <<-Overlap(p.cand, p.dec), p.cand.start, p.dec.created, p.cand.id, p.dec.id>>

Before(p, q) ==
    \E i \in 1 .. 5 : /\ Key(p)[i] < Key(q)[i]
                      /\ \A j \in 1 .. (i - 1) : Key(p)[j] = Key(q)[j]

\* Mutation: a decision may be used for several candidates.
MutClash(p, q) == p.cand = q.cand

\* Two pairs that cannot both be assigned.
Clash(p, q) == p.cand = q.cand \/ p.dec = q.dec

\* The pair that comes first of S, and what is left once it is taken: every
\* pair that shares its candidate or its decision is passed over.
First(S) == CHOOSE p \in S : \A q \in S \ {p} : Before(p, q)
Left(S) == {q \in S : ~Clash(First(S), q)}

\* The assignment loop.
Match(cands, decs) ==
    LET Assign[S \in SUBSET Pairs(cands, decs)] ==
            IF S = {} THEN {} ELSE {First(S)} \union Assign[Left(S)]
    IN  Assign[Pairs(cands, decs)]

\* The decision a candidate shows, as a set of at most one.
DecisionsOn(c, cands, decs) == {p.dec : p \in {q \in Match(cands, decs) : q.cand = c}}

\* What ListCandidates reports apart: decisions no candidate shows.
Orphaned(cands, decs) == decs \ {p.dec : p \in Match(cands, decs)}

-----------------------------------------------------------------------------
(* What is asked of Match, for one pair of inputs. *)

Disjoint(cands) ==
    \A c, e \in cands : c # e => c.end <= e.start \/ e.end <= c.start

\* An assignment in which nobody is used twice, and every compatible pair
\* that is left out lost its candidate or its decision to a better one.
IsStable(M, cands, decs) ==
    /\ \A p, q \in M : p # q => p.cand # q.cand /\ p.dec # q.dec
    /\ \A p \in Pairs(cands, decs) \ M : \E q \in M :
        (q.cand = p.cand \/ q.dec = p.dec) /\ Before(q, p)

\* The anchor a decision on candidate c takes.
Anchored(d, c) == d.start = c.start /\ d.end = c.end /\ d.dest = c.dest
=============================================================================
