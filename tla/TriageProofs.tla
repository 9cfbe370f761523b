------------------------------ MODULE TriageProofs ------------------------------
(***************************************************************************)
(* The assignment of decisions to candidates is the stable one, which there*)
(* is one of, whatever a run finds and whatever has been decided; what was *)
(* decided on a trip stays on it when the next run moves it a little; and  *)
(* what deciding keeps true of any person's triage, whatever is detected   *)
(* and whichever handlers are under way beside each other.                 *)
(***************************************************************************)
EXTENDS Triage, MCMatching, FiniteSetTheorems, NaturalsInduction, TLAPS

-----------------------------------------------------------------------------
(* The assignment of Match, over the subsets of the pairs.                   *)

\* The strict order Before is on the pairs of any run and any decisions.
Orders(P) ==
    /\ \A p \in P : ~Before(p, p)
    /\ \A p, q, r \in P : Before(p, q) /\ Before(q, r) => Before(p, r)
    /\ \A p, q \in P : p # q => Before(p, q) \/ Before(q, p)

\* What the database and the detection promise of the two lists.
WellFormed(C, D) ==
    /\ IsFiniteSet(C) /\ IsFiniteSet(D)
    /\ \A c \in C : c.id \in Int /\ c.start \in Int /\ c.end \in Int
    /\ \A d \in D : d.id \in Int /\ d.start \in Int /\ d.end \in Int /\ d.created \in Int
    /\ \A c, e \in C : c.id = e.id => c = e
    /\ \A d, e \in D : d.id = e.id => d = e

\* Induction over the subsets of a finite set: a family of them that is not
\* empty has a member none of whose proper subsets belongs to it.
LEMMA SmallestMember ==
    ASSUME NEW P, IsFiniteSet(P), NEW F, F \subseteq SUBSET P, F # {}
    PROVE  \E S \in F : \A U \in F : U \subseteq S => U = S
<1>1. IsWellFoundedOn(StrictSubsetOrdering(P), FiniteSubsetsOf(P))
  BY FS_StrictSubsetOrderingWellFounded
<1>2. FiniteSubsetsOf(P) = SUBSET P
  BY FS_FiniteSubsetsOfFinite
<1>3. \E S \in F : \A U \in F : <<U, S>> \notin StrictSubsetOrdering(P)
  BY <1>1, <1>2, WFMin, Zenon
<1> QED
  BY <1>3 DEF StrictSubsetOrdering

LEMMA HasFirst ==
    ASSUME NEW P, IsFiniteSet(P), Orders(P), NEW S \in SUBSET P, S # {}
    PROVE  First(S) \in S /\ \A q \in S \ {First(S)} : Before(First(S), q)
<1> DEFINE Headed(U) == \E p \in U : \A q \in U \ {p} : Before(p, q)
           Bad == {U \in SUBSET P : U # {} /\ ~Headed(U)}
<1>1. Bad = {}
  <2> SUFFICES ASSUME Bad # {} PROVE FALSE
    OBVIOUS
  <2>0. Bad \subseteq SUBSET P
    OBVIOUS
  <2> HIDE DEF Bad
  <2>1. PICK U \in Bad : \A V \in Bad : V \subseteq U => V = U
    BY <2>0, SmallestMember
  <2> USE DEF Bad
  <2>2. PICK p \in U : TRUE
    OBVIOUS
  <2>3. CASE U \ {p} = {}
    BY <2>3
  <2>4. CASE U \ {p} # {}
    <3>1. Headed(U \ {p})
      <4>1. U \ {p} \subseteq U /\ U \ {p} # U /\ U \ {p} \in SUBSET P
        BY <2>2
      <4> HIDE DEF Headed
      <4> QED
        BY <4>1, <2>1, <2>4
    <3>2. PICK m \in U \ {p} : \A q \in U \ {p, m} : Before(m, q)
      BY <3>1
    <3>3. p \in P /\ m \in P /\ U \subseteq P
      BY <2>2, <3>2
    <3>4. CASE Before(p, m)
      BY <3>2, <3>3, <3>4 DEF Orders
    <3>5. CASE Before(m, p)
      BY <3>2, <3>3, <3>5
    <3> QED
      BY <3>2, <3>3, <3>4, <3>5 DEF Orders
  <2> QED
    BY <2>3, <2>4
<1>2. Headed(S)
  BY <1>1
<1> QED
  BY <1>2 DEF First

\* A set of numbers that is not empty has a least one.
LEMMA Least ==
    ASSUME NEW N, N \subseteq Nat, N # {}
    PROVE  \E n \in N : \A m \in N : n <= m
<1>1. PICK n \in N : \A m \in N : ~(<<m, n>> \in OpToRel(<, Nat))
  BY NatLessThanWellFounded, WFMin
<1>2. \A a, b \in Nat : a < b => <<a, b>> \in OpToRel(<, Nat)
  BY DEF OpToRel
<1>3. \A m \in N : m \in Nat /\ n \in Nat /\ ~(m < n)
  BY <1>1, <1>2
<1> QED
  BY <1>3

\* Induction over the numbers, for a set of them.
LEMMA Induction ==
    ASSUME NEW N, 0 \in N, \A n \in N : n + 1 \in N
    PROVE  Nat \subseteq N
<1> SUFFICES ASSUME Nat \ N # {} PROVE FALSE
  OBVIOUS
<1>1. PICK n \in Nat \ N : \A m \in Nat \ N : n <= m
  BY Least
<1>2. n # 0 /\ n - 1 \in Nat /\ n - 1 \in N
  BY <1>1
<1>3. (n - 1) + 1 \in N
  BY <1>2
<1> QED
  BY <1>1, <1>3

\* The assignment loop over the subsets of P it is asked about, D.
Assigns(A, D) == A = [S \in D |-> IF S = {} THEN {} ELSE {First(S)} \union A[Left(S)]]

\* The loop ends: it takes a pair away each time.
LEMMA AssignmentExists ==
    ASSUME NEW P, IsFiniteSet(P), Orders(P)
    PROVE  \E A : Assigns(A, SUBSET P)
<1> DEFINE D(n) == {S \in SUBSET P : Cardinality(S) <= n}
           N == {n \in Nat : \E A : Assigns(A, D(n))}
<1>1. 0 \in N
  <2>1. \A S \in D(0) : S = {}
    BY FS_Subset, FS_CardinalityType, FS_EmptySet
  <2>2. Assigns([S \in D(0) |-> {}], D(0))
    BY <2>1 DEF Assigns
  <2> QED
    BY <2>2
<1>2. ASSUME NEW n \in N PROVE n + 1 \in N
  <2>1. PICK A : Assigns(A, D(n))
    OBVIOUS
  <2> DEFINE B == [S \in D(n + 1) |-> IF S = {} THEN {} ELSE {First(S)} \union A[Left(S)]]
  <2>2. \A S \in D(n + 1) : S # {} => Left(S) \in D(n)
    <3> SUFFICES ASSUME NEW S \in D(n + 1), S # {} PROVE Left(S) \in D(n)
      OBVIOUS
    <3>1. First(S) \in S
      BY HasFirst
    <3>2. IsFiniteSet(S) /\ Left(S) \in SUBSET (S \ {First(S)})
      BY <3>1, FS_Subset DEF Left, Clash
    <3>3. /\ IsFiniteSet(S \ {First(S)})
          /\ Cardinality(S \ {First(S)}) = Cardinality(S) - 1
      BY <3>1, <3>2, FS_RemoveElement
    <3>4. Cardinality(Left(S)) <= Cardinality(S) - 1
      BY <3>2, <3>3, FS_Subset
    <3>5. Cardinality(S) \in Nat /\ Cardinality(Left(S)) \in Nat /\ Cardinality(S) <= n + 1
      BY <3>2, <3>3, FS_Subset, FS_CardinalityType
    <3> QED
      BY <3>2, <3>4, <3>5
  <2>3. \A S \in D(n) : A[S] = B[S]
    <3>1. \A S \in D(n) : S \in D(n + 1)
      BY FS_Subset, FS_CardinalityType
    <3> QED
      BY <2>1, <3>1 DEF Assigns
  <2>4. Assigns(B, D(n + 1))
    BY <2>2, <2>3 DEF Assigns
  <2>5. n + 1 \in Nat
    OBVIOUS
  <2> HIDE DEF B, D
  <2> QED
    BY <2>4, <2>5
<1>3. Cardinality(P) \in N
  <2> HIDE DEF N
  <2> QED
    BY <1>1, <1>2, Induction, FS_CardinalityType
<1>4. D(Cardinality(P)) = SUBSET P
  BY FS_Subset
<1> QED
  BY <1>3, <1>4

LEMMA MatchAssigns ==
    ASSUME NEW C, NEW D,
           LET P == Pairs(C, D) IN IsFiniteSet(P) /\ Orders(P)
    PROVE  \E A : /\ Assigns(A, SUBSET Pairs(C, D))
                  /\ Match(C, D) = A[Pairs(C, D)]
<1>1. \E A : Assigns(A, SUBSET Pairs(C, D))
  BY AssignmentExists
<1> QED
  BY <1>1 DEF Assigns, Match

\* A set of pairs in which nobody is used twice and which blocks the rest of P.
StableIn(M, P) ==
    /\ M \subseteq P
    /\ \A p, q \in M : p # q => ~Clash(p, q)
    /\ \A p \in P \ M : \E q \in M : Clash(q, p) /\ Before(q, p)

LEMMA AssignmentIsStable ==
    ASSUME NEW P, IsFiniteSet(P), Orders(P), NEW A, Assigns(A, SUBSET P)
    PROVE  StableIn(A[P], P)
<1> DEFINE Bad == {S \in SUBSET P : ~StableIn(A[S], S)}
<1> SUFFICES ASSUME Bad # {} PROVE FALSE
  OBVIOUS
<1>0. Bad \subseteq SUBSET P
  OBVIOUS
<1>1. PICK S \in Bad : \A U \in Bad : U \subseteq S => U = S
  <2> HIDE DEF Bad
  <2> QED
    BY <1>0, SmallestMember
<1>2. S # {}
  BY DEF Assigns, StableIn
<1>3. First(S) \in S /\ \A q \in S \ {First(S)} : Before(First(S), q)
  BY <1>2, HasFirst
<1>4. Left(S) \subseteq S /\ First(S) \notin Left(S) /\ Left(S) \in SUBSET P
  BY DEF Left, Clash
<1>5. StableIn(A[Left(S)], Left(S))
  BY <1>1, <1>3, <1>4
<1>6. A[S] = {First(S)} \union A[Left(S)]
  BY <1>2 DEF Assigns
<1>7. \A q \in Left(S) : ~Clash(First(S), q) /\ ~Clash(q, First(S))
  BY DEF Left, Clash
<1>8. \A q \in S \ Left(S) : Clash(First(S), q)
  BY DEF Left
<1>9. StableIn(A[S], S)
  <2>1. A[S] \subseteq S
    BY <1>3, <1>4, <1>5, <1>6 DEF StableIn
  <2>2. \A p, q \in A[S] : p # q => ~Clash(p, q)
    BY <1>5, <1>6, <1>7 DEF StableIn
  <2>3. ASSUME NEW p \in S \ A[S] PROVE \E q \in A[S] : Clash(q, p) /\ Before(q, p)
    <3>1. CASE p \in Left(S)
      BY <1>5, <1>6, <3>1 DEF StableIn
    <3>2. CASE p \notin Left(S)
      BY <1>3, <1>6, <1>8, <3>2
    <3> QED
      BY <3>1, <3>2
  <2> QED
    BY <2>1, <2>2, <2>3 DEF StableIn
<1> QED
  BY <1>9

LEMMA OneStableAssignment ==
    ASSUME NEW P, IsFiniteSet(P), Orders(P), NEW M, NEW N, StableIn(M, P), StableIn(N, P)
    PROVE  M = N
<1> DEFINE Differ == (M \ N) \union (N \ M)
<1> SUFFICES ASSUME Differ # {} PROVE FALSE
  OBVIOUS
<1>1. Differ \in SUBSET P
  BY DEF StableIn
<1>2. First(Differ) \in Differ /\ \A q \in Differ \ {First(Differ)} : Before(First(Differ), q)
  <2> HIDE DEF Differ
  <2> QED
    BY <1>1, HasFirst
<1> DEFINE p == First(Differ)
<1> HIDE DEF p
<1>3. p \in Differ /\ p \in P /\ \A q \in Differ \ {p} : Before(p, q)
  BY <1>1, <1>2 DEF p
<1>4. CASE p \in M
  <2>1. PICK q \in N : Clash(q, p) /\ Before(q, p)
    BY <1>3, <1>4 DEF StableIn
  <2>2. q # p /\ q \in P
    BY <1>3, <2>1 DEF Orders, StableIn
  <2>3. q \notin M
    BY <1>4, <2>1, <2>2 DEF StableIn
  <2> QED
    BY <1>3, <2>1, <2>2, <2>3 DEF Orders
<1>5. CASE p \in N
  <2>1. PICK q \in M : Clash(q, p) /\ Before(q, p)
    BY <1>3, <1>5 DEF StableIn
  <2>2. q # p /\ q \in P
    BY <1>3, <2>1 DEF Orders, StableIn
  <2>3. q \notin N
    BY <1>5, <2>1, <2>2 DEF StableIn
  <2> QED
    BY <1>3, <2>1, <2>2, <2>3 DEF Orders
<1> QED
  BY <1>3, <1>4, <1>5

-----------------------------------------------------------------------------

LEMMA BeforeIsLexical ==
    ASSUME NEW p, NEW q
    PROVE  LET k == Key(p)
               l == Key(q)
           IN  Before(p, q) <=>
                \/ k[1] < l[1]
                \/ k[1] = l[1] /\ k[2] < l[2]
                \/ k[1] = l[1] /\ k[2] = l[2] /\ k[3] < l[3]
                \/ k[1] = l[1] /\ k[2] = l[2] /\ k[3] = l[3] /\ k[4] < l[4]
                \/ k[1] = l[1] /\ k[2] = l[2] /\ k[3] = l[3] /\ k[4] = l[4] /\ k[5] < l[5]
<1> DEFINE k == Key(p)
           l == Key(q)
           Less(i) == k[i] < l[i] /\ \A j \in 1 .. (i - 1) : k[j] = l[j]
<1>1. Before(p, q) <=> \E i \in 1 .. 5 : Less(i)
  BY DEF Before
<1>2. (\E i \in 1 .. 5 : Less(i)) <=> Less(1) \/ Less(2) \/ Less(3) \/ Less(4) \/ Less(5)
  <2> HIDE DEF Less
  <2> QED
    OBVIOUS
<1>3. \A i \in 1 .. 5 : Less(i) <=> k[i] < l[i] /\ \A j \in 1 .. (i - 1) : k[j] = l[j]
  OBVIOUS
<1>4. /\ 1 .. (1 - 1) = {} /\ 1 .. (2 - 1) = {1} /\ 1 .. (3 - 1) = {1, 2}
      /\ 1 .. (4 - 1) = {1, 2, 3} /\ 1 .. (5 - 1) = {1, 2, 3, 4}
  OBVIOUS
<1>5. /\ Less(1) <=> k[1] < l[1]
      /\ Less(2) <=> k[1] = l[1] /\ k[2] < l[2]
      /\ Less(3) <=> k[1] = l[1] /\ k[2] = l[2] /\ k[3] < l[3]
      /\ Less(4) <=> k[1] = l[1] /\ k[2] = l[2] /\ k[3] = l[3] /\ k[4] < l[4]
      /\ Less(5) <=> k[1] = l[1] /\ k[2] = l[2] /\ k[3] = l[3] /\ k[4] = l[4] /\ k[5] < l[5]
  <2> HIDE DEF k, l
  <2> QED
    BY <1>4
<1> QED
  <2> HIDE DEF Less, k, l
  <2>1. Before(p, q) <=> Less(1) \/ Less(2) \/ Less(3) \/ Less(4) \/ Less(5)
    BY <1>1, <1>2
  <2> QED
    BY <2>1, <1>5 DEF k, l

LEMMA Keys ==
    ASSUME NEW C, NEW D, WellFormed(C, D), NEW p \in Pairs(C, D)
    PROVE  /\ \A i \in 1 .. 5 : Key(p)[i] \in Int
           /\ Key(p)[1] = -Overlap(p.cand, p.dec) /\ Key(p)[2] = p.cand.start
           /\ Key(p)[3] = p.dec.created /\ Key(p)[4] = p.cand.id /\ Key(p)[5] = p.dec.id
<1>1. p.cand \in C /\ p.dec \in D
  BY DEF Pairs
<1>2. Overlap(p.cand, p.dec) \in Int
  BY <1>1 DEF Overlap, Earlier, Later, WellFormed
<1> QED
  BY <1>1, <1>2 DEF Key, WellFormed

LEMMA PairsAreOrdered ==
    ASSUME NEW C, NEW D, WellFormed(C, D)
    PROVE  Orders(Pairs(C, D))
<1> DEFINE K(p) == Key(p)
<1>1. ASSUME NEW p \in Pairs(C, D) PROVE ~Before(p, p)
  BY Keys, BeforeIsLexical
<1>2. ASSUME NEW p \in Pairs(C, D), NEW q \in Pairs(C, D), NEW r \in Pairs(C, D),
             Before(p, q), Before(q, r)
      PROVE  Before(p, r)
  <2>1. \A i \in 1 .. 5 : Key(p)[i] \in Int /\ Key(q)[i] \in Int /\ Key(r)[i] \in Int
    BY Keys
  <2> QED
    BY <1>2, <2>1, BeforeIsLexical
<1>3. ASSUME NEW p \in Pairs(C, D), NEW q \in Pairs(C, D), p # q
      PROVE  Before(p, q) \/ Before(q, p)
  <2>1. \A i \in 1 .. 5 : Key(p)[i] \in Int /\ Key(q)[i] \in Int
    BY Keys
  <2>2. Key(p)[4] # Key(q)[4] \/ Key(p)[5] # Key(q)[5]
    BY <1>3, Keys DEF WellFormed, Pairs
  <2> QED
    BY <2>1, <2>2, BeforeIsLexical
<1> QED
  BY <1>1, <1>2, <1>3 DEF Orders

LEMMA PairsAreFinite ==
    ASSUME NEW C, NEW D, IsFiniteSet(C), IsFiniteSet(D)
    PROVE  IsFiniteSet(Pairs(C, D))
<1> DEFINE f == [p \in Pairs(C, D) |-> <<p.cand, p.dec>>]
<1>1. IsFiniteSet(C \X D)
  BY FS_Product
<1>2. f \in Injection(Pairs(C, D), C \X D)
  BY DEF Injection, IsInjective, Pairs
<1> QED
  BY <1>1, <1>2, FS_Injection

\* Match is the one stable assignment, whatever the lists.
LEMMA MatchIsStable ==
    ASSUME NEW C, NEW D, WellFormed(C, D)
    PROVE  /\ StableIn(Match(C, D), Pairs(C, D))
           /\ \A N : StableIn(N, Pairs(C, D)) => N = Match(C, D)
<1>1. IsFiniteSet(Pairs(C, D)) /\ Orders(Pairs(C, D))
  BY PairsAreOrdered, PairsAreFinite DEF WellFormed
<1>2. PICK A : Assigns(A, SUBSET Pairs(C, D)) /\ Match(C, D) = A[Pairs(C, D)]
  BY <1>1, MatchAssigns
<1>3. StableIn(Match(C, D), Pairs(C, D))
  BY <1>1, <1>2, AssignmentIsStable
<1> QED
  BY <1>1, <1>3, OneStableAssignment

-----------------------------------------------------------------------------
(* The lists of MCMatching. *)

\* Ids are handed out in order, from one.
ListsInv ==
    /\ WellFormed(cands, decs)
    /\ \A c \in cands : c.id <= Cardinality(cands)
    /\ \A d \in decs : d.id <= Cardinality(decs)

LEMMA NextIdIsFresh ==
    ASSUME NEW S, IsFiniteSet(S), \A x \in S : x.id \in Int /\ x.id <= Cardinality(S),
           \A x, y \in S : x.id = y.id => x = y,
           NEW z, z.id = Cardinality(S) + 1
    PROVE  /\ IsFiniteSet(S \union {z}) /\ z.id \in Int
           /\ \A x \in S \union {z} : x.id <= Cardinality(S \union {z})
           /\ \A x, y \in S \union {z} : x.id = y.id => x = y
<1>1. Cardinality(S) \in Nat
  BY FS_CardinalityType
<1>2. z \notin S
  BY <1>1
<1>3. IsFiniteSet(S \union {z}) /\ Cardinality(S \union {z}) = Cardinality(S) + 1
  BY <1>2, FS_AddElement
<1> QED
  BY <1>1, <1>3

LEMMA ListsAreWellFormed == ListsSpec => []ListsInv
<1>1. ListsInit => ListsInv
  BY FS_EmptySet DEF ListsInit, ListsInv, WellFormed
<1>2. ListsInv /\ [ListsNext]_lists => ListsInv'
  <2> SUFFICES ASSUME ListsInv, [ListsNext]_lists PROVE ListsInv'
    OBVIOUS
  <2> USE ListsAssumption
  <2>1. ASSUME NEW s \in Spans, Detect(s) PROVE ListsInv'
    <3> DEFINE c == Candidate(Cardinality(cands) + 1, s)
    <3>1. /\ c.id = Cardinality(cands) + 1
          /\ c.start \in Int /\ c.end \in Int
      BY DEF Candidate, Spans
    <3>2. cands' = cands \union {c} /\ decs' = decs
      BY <2>1 DEF Detect
    <3>3. /\ IsFiniteSet(cands')
          /\ \A e \in cands' : e.id \in Int /\ e.id <= Cardinality(cands')
          /\ \A e, f \in cands' : e.id = f.id => e = f
      <4> HIDE DEF c
      <4> QED
        BY <3>1, <3>2, NextIdIsFresh DEF ListsInv, WellFormed
    <3> HIDE DEF c
    <3> QED
      BY <3>1, <3>2, <3>3 DEF ListsInv, WellFormed
  <2>2. ASSUME NEW s \in Spans, NEW t \in 0 .. 1, MakeDecision(s, t) PROVE ListsInv'
    <3> DEFINE d == Decision(Cardinality(decs) + 1, s, t)
    <3>1. /\ d.id = Cardinality(decs) + 1
          /\ d.start \in Int /\ d.end \in Int /\ d.created \in Int
      BY DEF Decision, Spans
    <3>2. decs' = decs \union {d} /\ cands' = cands
      BY <2>2 DEF MakeDecision
    <3>3. /\ IsFiniteSet(decs')
          /\ \A e \in decs' : e.id \in Int /\ e.id <= Cardinality(decs')
          /\ \A e, f \in decs' : e.id = f.id => e = f
      <4> HIDE DEF d
      <4> QED
        BY <3>1, <3>2, NextIdIsFresh DEF ListsInv, WellFormed
    <3> HIDE DEF d
    <3> QED
      BY <3>1, <3>2, <3>3 DEF ListsInv, WellFormed
  <2>3. CASE UNCHANGED lists
    BY <2>3 DEF lists, ListsInv, WellFormed
  <2> QED
    BY <2>1, <2>2, <2>3 DEF ListsNext
<1> QED
  BY <1>1, <1>2, PTL DEF ListsSpec

\* Match returns an assignment in which nobody is used twice and nobody could do
\* better, and there is no other: it depends on nothing but the two sets.
THEOREM MatchIsTheStableOneHolds == ListsSpec => []MatchIsTheStableOne
<1>1. ListsInv => MatchIsTheStableOne
  <2> SUFFICES ASSUME ListsInv PROVE MatchIsTheStableOne
    OBVIOUS
  <2>1. /\ StableIn(Match(cands, decs), Pairs(cands, decs))
        /\ \A N : StableIn(N, Pairs(cands, decs)) => N = Match(cands, decs)
    BY MatchIsStable DEF ListsInv
  <2>2. \A N \in SUBSET Pairs(cands, decs) :
            IsStable(N, cands, decs) <=> StableIn(N, Pairs(cands, decs))
    BY DEF IsStable, StableIn, Clash
  <2>3. Match(cands, decs) \in SUBSET Pairs(cands, decs)
    BY <2>1 DEF StableIn
  <2> QED
    BY <2>1, <2>2, <2>3 DEF MatchIsTheStableOne
<1> QED
  BY <1>1, ListsAreWellFormed, PTL

\* A pair that overlaps for longer than any other of its candidate or of its
\* decision is in the assignment.
LEMMA LongestIsMatched ==
    ASSUME NEW C, NEW D, WellFormed(C, D), NEW c \in C, NEW d \in D, Compatible(c, d),
           \A e \in D \ {d} : Compatible(c, e) => Overlap(c, e) < Overlap(c, d),
           \A b \in C \ {c} : Compatible(b, d) => Overlap(b, d) < Overlap(c, d)
    PROVE  DecisionsOn(c, C, D) = {d}
<1> DEFINE M == Match(C, D)
           p == [cand |-> c, dec |-> d]
<1>1. StableIn(M, Pairs(C, D))
  BY MatchIsStable
<1>2. p \in Pairs(C, D)
  BY DEF Pairs
<1>3. ASSUME NEW q \in Pairs(C, D), q # p, Clash(q, p) PROVE ~Before(q, p)
  <2>1. q.cand \in C /\ q.dec \in D /\ Compatible(q.cand, q.dec)
    BY DEF Pairs
  <2>2. q.cand # c \/ q.dec # d
    BY <1>3 DEF Pairs
  <2>3. Overlap(q.cand, q.dec) < Overlap(c, d)
    BY <1>3, <2>1, <2>2 DEF Clash
  <2>4. Key(p)[1] \in Int /\ Key(q)[1] \in Int /\ Key(p)[1] < Key(q)[1]
    <3>1. /\ Key(p)[1] = -Overlap(c, d) /\ Key(q)[1] = -Overlap(q.cand, q.dec)
          /\ Key(p)[1] \in Int /\ Key(q)[1] \in Int
      BY <1>2, Keys
    <3>2. Overlap(c, d) \in Int /\ Overlap(q.cand, q.dec) \in Int
      BY <2>1 DEF Overlap, Earlier, Later, WellFormed
    <3> QED
      BY <3>1, <3>2, <2>3
  <2> QED
    BY <2>4, BeforeIsLexical
<1>4. p \in M
  <2> SUFFICES ASSUME p \notin M PROVE FALSE
    OBVIOUS
  <2>1. PICK q \in M : Clash(q, p) /\ Before(q, p)
    BY <1>1, <1>2 DEF StableIn
  <2> QED
    BY <1>1, <1>3, <2>1 DEF StableIn
<1>5. \A q \in M : q.cand = c => q = p
  BY <1>1, <1>4 DEF StableIn, Clash
<1> QED
  BY <1>4, <1>5 DEF DecisionsOn

\* A decision stays with its candidate while the candidate's boundaries drift:
\* the longest overlap decides, not equality.
THEOREM DriftKeepsIdentityHolds == ListsSpec => []DriftKeepsIdentity
<1>1. ListsInv => DriftKeepsIdentity
  BY LongestIsMatched DEF ListsInv, DriftKeepsIdentity
<1> QED
  BY <1>1, ListsAreWellFormed, PTL


-----------------------------------------------------------------------------
(* Decisions that are written change the assignment where they are written. *)

\* The candidates of one run.
IsRun(C) == AreTrips(C) /\ \A c \in C : c.id \in Int /\ \A e \in C : c.id = e.id => c = e

\* D after a decision has been written on each candidate of K: new[c] is the
\* one on c, in the place of the one c was matched with, if there was any.
Rewrites(E, D, C, K, new) ==
    /\ \A c \in K : /\ Anchored(new[c], c)
                    /\ \A d \in D : [cand |-> c, dec |-> d] \in Match(C, D) =>
                            new[c].id = d.id /\ new[c].created = d.created
    /\ \A b, c \in K : new[b] = new[c] => b = c
    /\ LET kept == {d \in D : \A c \in K : [cand |-> c, dec |-> d] \notin Match(C, D)}
       IN  E = kept \union {new[c] : c \in K} /\ \A c \in K : new[c] \notin kept

LEMMA AnchoredIsCompatible ==
    ASSUME NEW C, IsRun(C), NEW c \in C, NEW d, Anchored(d, c)
    PROVE  /\ Compatible(c, d) /\ Overlap(c, d) = c.end - c.start
           /\ \A b \in C : b # c => ~Compatible(b, d)
BY DEF IsRun, AreTrips, Anchored, Compatible, Overlap, Earlier, Later, Disjoint

\* The new assignment is the old one with the new decisions on K.
LEMMA RewritingIsLocal ==
    ASSUME NEW C, NEW D, NEW E, NEW K, NEW new, K \subseteq C, IsRun(C),
           WellFormed(C, D), WellFormed(C, E), Rewrites(E, D, C, K, new)
    PROVE  Match(C, E) = {p \in Match(C, D) : p.cand \notin K}
                            \union {[cand |-> c, dec |-> new[c]] : c \in K}
<1> DEFINE M == Match(C, D)
           kept == {d \in D : \A c \in K : [cand |-> c, dec |-> d] \notin M}
           N == {p \in M : p.cand \notin K} \union {[cand |-> c, dec |-> new[c]] : c \in K}
<1>1. StableIn(M, Pairs(C, D))
  BY MatchIsStable
<1>2. E = kept \union {new[c] : c \in K} /\ \A c \in K : new[c] \notin kept
  BY DEF Rewrites
<1>3. \A p \in M : p = [cand |-> p.cand, dec |-> p.dec] /\ p.cand \in C /\ p.dec \in D
                   /\ Compatible(p.cand, p.dec)
  BY <1>1 DEF StableIn, Pairs
<1>4. \A p \in M : p.cand \notin K => p.dec \in kept
  <2> SUFFICES ASSUME NEW p \in M, p.cand \notin K, NEW c \in K,
                      [cand |-> c, dec |-> p.dec] \in M
               PROVE  FALSE
    BY <1>3
  <2> QED
    BY <1>1 DEF StableIn, Clash
<1>5. \A c \in K : [cand |-> c, dec |-> new[c]] \in Pairs(C, E)
  BY <1>2, AnchoredIsCompatible DEF Rewrites, Pairs
<1>6. N \subseteq Pairs(C, E)
  <2>1. \A p \in M : p.cand \notin K => p \in Pairs(C, E)
    BY <1>2, <1>3, <1>4 DEF Pairs
  <2> QED
    BY <1>5, <2>1
<1>7. ASSUME NEW p \in N, NEW q \in N, p # q PROVE ~Clash(p, q)
  <2>1. CASE p.cand \notin K /\ q.cand \notin K
    BY <1>1, <1>7, <2>1 DEF StableIn
  <2>2. CASE p.cand \in K /\ q.cand \in K
    BY <1>7, <2>2 DEF Clash, Rewrites
  <2>3. CASE p.cand \in K /\ q.cand \notin K
    BY <1>2, <1>4, <2>3 DEF Clash
  <2>4. CASE p.cand \notin K /\ q.cand \in K
    BY <1>2, <1>4, <2>4 DEF Clash
  <2> QED
    BY <2>1, <2>2, <2>3, <2>4
<1>8. ASSUME NEW p \in Pairs(C, E) \ N PROVE \E q \in N : Clash(q, p) /\ Before(q, p)
  <2>1. /\ p = [cand |-> p.cand, dec |-> p.dec]
        /\ p.cand \in C /\ p.dec \in E /\ Compatible(p.cand, p.dec)
    BY DEF Pairs
  <2>2. \A c \in K : p.dec # new[c]
    BY <1>8, <2>1, AnchoredIsCompatible DEF Rewrites
  <2>3. p.dec \in kept
    BY <1>2, <2>1, <2>2
  <2>4. p \in Pairs(C, D) /\ p \notin M
    BY <1>8, <2>1, <2>3 DEF Pairs
  <2>5. PICK q \in M : Clash(q, p) /\ Before(q, p)
    BY <1>1, <2>4 DEF StableIn
  <2>6. CASE q.cand \notin K
    BY <2>5, <2>6
  <2>7. CASE q.cand \in K
    <3> DEFINE k == q.cand
               r == [cand |-> k, dec |-> new[k]]
    <3>1. q.dec # p.dec /\ k = p.cand
      BY <1>3, <2>3, <2>5, <2>7 DEF Clash
    <3>2. r \in N /\ Clash(r, p)
      BY <2>7, <3>1 DEF Clash
    <3>3. new[k].id = q.dec.id /\ new[k].created = q.dec.created /\ Anchored(new[k], k)
      BY <1>3, <2>7 DEF Rewrites
    <3>4. Overlap(k, q.dec) <= Overlap(k, new[k]) /\ Overlap(k, q.dec) \in Int
          /\ Overlap(k, new[k]) \in Int
      <4>1. Overlap(k, new[k]) = k.end - k.start
        BY <1>3, <3>3, AnchoredIsCompatible
      <4>2. k \in C /\ q.dec \in D
        BY <1>3
      <4>3. k.start \in Int /\ k.end \in Int /\ q.dec.start \in Int /\ q.dec.end \in Int
        BY <4>2 DEF WellFormed
      <4> QED
        BY <4>1, <4>3 DEF Overlap, Earlier, Later
    <3>5. q \in Pairs(C, D) /\ r \in Pairs(C, E) /\ p \in Pairs(C, D)
      BY <1>1, <1>5, <2>4, <2>7 DEF StableIn
    <3>6. /\ Key(r)[1] <= Key(q)[1] /\ Key(r)[2] = Key(q)[2] /\ Key(r)[3] = Key(q)[3]
          /\ Key(r)[4] = Key(q)[4] /\ Key(r)[5] = Key(q)[5]
      <4>1. /\ Key(r)[1] = -Overlap(k, new[k]) /\ Key(q)[1] = -Overlap(k, q.dec)
            /\ Key(r)[2] = k.start /\ Key(q)[2] = k.start
            /\ Key(r)[3] = new[k].created /\ Key(q)[3] = q.dec.created
            /\ Key(r)[4] = k.id /\ Key(q)[4] = k.id
            /\ Key(r)[5] = new[k].id /\ Key(q)[5] = q.dec.id
        BY <3>5, Keys
      <4> QED
        BY <3>3, <3>4, <4>1
    <3>7. \A i \in 1 .. 5 : Key(p)[i] \in Int /\ Key(q)[i] \in Int /\ Key(r)[i] \in Int
      BY <3>5, Keys
    <3>8. Before(r, p)
      <4> HIDE DEF r
      <4> QED
        BY <2>5, <3>6, <3>7, BeforeIsLexical
    <3> QED
      BY <3>2, <3>8
  <2> QED
    BY <2>6, <2>7
<1>9. StableIn(N, Pairs(C, E))
  BY <1>6, <1>7, <1>8 DEF StableIn
<1> QED
  BY <1>9, MatchIsStable

-----------------------------------------------------------------------------
(* The inductive invariant. *)

Cand == [id : Int, start : Int, end : Int, dest : Nat]
Ids(D) == {d.id : d \in D}

\* The rows of the table are numbered.
RowsInv ==
    /\ IsFiniteSet(decisions) /\ decisions \subseteq DecisionRow
    /\ \A d, e \in decisions : d.id = e.id => d = e
    /\ \A d \in decisions : d.id <= Cardinality(decisions)

\* A request names candidates of one run, each once, and has matched them with
\* decisions that are there, one to one.
RequestInv(r) ==
    /\ IsRun(runSeen[r])
    /\ \E C : IsRun(C) /\ Named(r) \subseteq C
    /\ \A i, j \in chosen[r] : i.cand = j.cand => i = j
    /\ \A t \in target[r] : t.cand \in Named(r) /\ t.id \in Ids(decisions)
    /\ \A t, u \in target[r] : t.cand = u.cand \/ t.id = u.id => t = u
    /\ r \notin Active => chosen[r] = {}
    /\ pc[r] # "matched" => target[r] = {}
    /\ r \notin Bulks => \A i, j \in chosen[r] : i = j

RequestsInv ==
    /\ pc \in [Requests -> Phases]
    /\ chosen \in [Requests -> SUBSET Items(Cand)]
    /\ runSeen \in [Requests -> SUBSET Cand]
    /\ target \in [Requests -> SUBSET [cand : Cand, id : Nat]]
    /\ \A r \in Requests : RequestInv(r)

\* There is a run, ids of runs ascend, and history is of requests under way.
RunInv ==
    /\ run \in 0 .. MaxRuns
    /\ IsRun(found) /\ found \subseteq Cand
    /\ photoOn \union sharedOn \subseteq Ids(decisions)
    /\ overtaken \union crossed \subseteq Active

IdsFor(r, c) == {t.id : t \in {u \in target[r] : u.cand = c}}

\* What a handler has matched is what is shown now.
Agrees(r, c) == IdsFor(r, c) = Ids(DecisionsOn(c, found, decisions))

\* Another handler has decided a candidate that showed nothing.
Forestalled(r, c) == IdsFor(r, c) = {} /\ \E d \in decisions : Anchored(d, c)

\* Whatever other handlers write, one that is not overtaken still has matched
\* what is shown on its candidates, unless it was forestalled.
AgreementInv ==
    /\ \A r \in Active \ overtaken :
        /\ Named(r) \subseteq found
        /\ pc[r] # "resolved" => runSeen[r] = found
    /\ \A r \in Requests \ overtaken : pc[r] = "matched" =>
        \A c \in Named(r) : Agrees(r, c) \/ (r \in crossed /\ Forestalled(r, c))

\* What photos and links are about to be put on was confirmed, and still is if
\* nobody has written meanwhile.
CarryInv ==
    \A r \in (Attaches \union Mints) \ crossed : pc[r] = "matched" =>
        \A t \in target[r] : \E d \in decisions : d.id = t.id /\ d.action = "confirmed"

\* There is something to put them on.
HoldingInv ==
    \A r \in Attaches \union Mints : pc[r] = "matched" =>
        \A c \in Named(r) : IdsFor(r, c) # {}

TriageInv == RowsInv /\ RequestsInv /\ RunInv /\ AgreementInv /\ CarryInv /\ HoldingInv

-----------------------------------------------------------------------------
(* What a write leaves. *)

LEMMA IdsCount ==
    ASSUME NEW S, IsFiniteSet(S), \A x, y \in S : x.id = y.id => x = y
    PROVE  IsFiniteSet(Ids(S)) /\ Cardinality(Ids(S)) = Cardinality(S)
<1> DEFINE f == [x \in S |-> x.id]
<1>1. f \in Bijection(S, Ids(S))
  BY DEF Ids, Bijection, Injection, Surjection, IsInjective
<1> QED
  BY <1>1, FS_Bijection DEF ExistsBijection

\* The items that matched nothing, in the order of their candidates.
Inserted(r) == {i \in chosen[r] : \A t \in target[r] : t.cand # i.cand}

LEMMA ItemsOfARun ==
    ASSUME RequestsInv, NEW r \in Requests
    PROVE  /\ IsFiniteSet(chosen[r])
           /\ \A i \in chosen[r] : /\ i.cand \in Cand /\ i.action \in Actions
                                   /\ i.cand.start < i.cand.end
                                   /\ Near(i.cand.dest, i.cand.dest)
           /\ \A i, j \in chosen[r] : i # j => i.cand # j.cand /\ i.cand.start # j.cand.start
<1>1. PICK C : IsRun(C) /\ Named(r) \subseteq C
  BY DEF RequestsInv, RequestInv
<1>2. \A i \in chosen[r] : i.cand \in C
  BY <1>1 DEF Named
<1>3. \A i, j \in chosen[r] : i.cand = j.cand => i = j
  BY DEF RequestsInv, RequestInv
<1>4. IsFiniteSet(chosen[r])
  <2> DEFINE f == [i \in chosen[r] |-> i.cand]
  <2>1. f \in Injection(chosen[r], C)
    BY <1>2, <1>3 DEF Injection, IsInjective
  <2> QED
    BY <1>1, <2>1, FS_Injection DEF IsRun, AreTrips
<1>5. \A i \in chosen[r] : i.cand \in Cand /\ i.action \in Actions
  BY DEF RequestsInv, RequestInv, Items
<1>6. \A c \in C : c.start \in Int /\ c.end \in Int /\ c.start < c.end /\ Near(c.dest, c.dest)
  BY <1>1 DEF IsRun, AreTrips
<1>7. \A b, c \in C : b # c => b.start # c.start
  BY <1>1, <1>6 DEF IsRun, AreTrips, Disjoint
<1> QED
  BY <1>2, <1>3, <1>4, <1>5, <1>6, <1>7

LEMMA Ranks ==
    ASSUME RequestsInv, NEW r \in Requests
    PROVE  /\ IsFiniteSet(Inserted(r)) /\ Cardinality(Inserted(r)) \in Nat
           /\ \A i \in Inserted(r) : Rank(r, i) \in 0 .. (Cardinality(Inserted(r)) - 1)
           /\ \A i, j \in Inserted(r) : Rank(r, i) = Rank(r, j) => i = j
<1> DEFINE I == Inserted(r)
           Prior(i) == {j \in I : j.cand.start < i.cand.start}
<1>1. IsFiniteSet(I) /\ Cardinality(I) \in Nat
  BY ItemsOfARun, FS_Subset, FS_CardinalityType DEF Inserted
<1>2. \A i \in I : Rank(r, i) = Cardinality(Prior(i))
  <2> SUFFICES ASSUME NEW i \in I PROVE Rank(r, i) = Cardinality(Prior(i))
    OBVIOUS
  <2>1. Prior(i) = {j \in chosen[r] : /\ j.cand.start < i.cand.start
                                      /\ \A t \in target[r] : t.cand # j.cand}
    BY DEF Inserted
  <2> QED
    BY <2>1 DEF Rank
<1>3. \A i, j \in I : /\ i.cand.start \in Int
                      /\ i # j => i.cand.start # j.cand.start
  BY ItemsOfARun DEF Inserted, Cand
<1>4. \A i \in I : IsFiniteSet(Prior(i)) /\ Cardinality(Prior(i)) \in Nat
  BY <1>1, FS_Subset, FS_CardinalityType
<1>5. ASSUME NEW i \in I PROVE Cardinality(Prior(i)) <= Cardinality(I) - 1
  <2>1. Prior(i) \in SUBSET (I \ {i})
    BY <1>3
  <2>2. IsFiniteSet(I \ {i}) /\ Cardinality(I \ {i}) = Cardinality(I) - 1
    BY <1>1, FS_RemoveElement
  <2> HIDE DEF I, Prior
  <2> QED
    BY <2>1, <2>2, FS_Subset
<1>6. ASSUME NEW i \in I, NEW j \in I, i.cand.start < j.cand.start
      PROVE  Cardinality(Prior(i)) # Cardinality(Prior(j))
  <2>1. Prior(i) \in SUBSET Prior(j) /\ i \in Prior(j) /\ i \notin Prior(i)
    BY <1>3, <1>6
  <2>2. Prior(i) # Prior(j) /\ IsFiniteSet(Prior(j))
    BY <1>4, <2>1
  <2> HIDE DEF I, Prior
  <2> QED
    BY <2>1, <2>2, FS_Subset
<1>7. ASSUME NEW i \in I, NEW j \in I, Rank(r, i) = Rank(r, j) PROVE i = j
  <2>1. Cardinality(Prior(i)) = Cardinality(Prior(j))
    BY <1>2, <1>7
  <2>2. ~(i.cand.start < j.cand.start) /\ ~(j.cand.start < i.cand.start)
    BY <1>6, <2>1
  <2> QED
    BY <1>3, <2>2
<1> QED
  <2> HIDE DEF I, Prior
  <2>1. \A i \in I : Rank(r, i) \in 0 .. (Cardinality(I) - 1)
    BY <1>1, <1>2, <1>4, <1>5
  <2> QED
    BY <1>1, <1>7, <2>1 DEF I

\* The row a write leaves for an item.
WrittenFor(r, i) ==
    IF i \in Inserted(r) THEN Row(NextId + Rank(r, i), NextId, i)
    ELSE Refreshed(CHOOSE d \in decisions : [cand |-> i.cand, id |-> d.id] \in target[r], i)

Untouched(r) == {d \in decisions : \A t \in target[r] : t.id # d.id}

LEMMA WrittenRows ==
    ASSUME RowsInv, RequestsInv, NEW r \in Requests
    PROVE  /\ AfterWrite(r) = Untouched(r) \union {WrittenFor(r, i) : i \in chosen[r]}
           /\ \A i \in chosen[r] :
                /\ WrittenFor(r, i) \in DecisionRow
                /\ WrittenFor(r, i).action = i.action /\ Anchored(WrittenFor(r, i), i.cand)
                /\ i \in Inserted(r) => WrittenFor(r, i).id = NextId + Rank(r, i)
                /\ i \notin Inserted(r) =>
                    \E d \in decisions : /\ [cand |-> i.cand, id |-> d.id] \in target[r]
                                         /\ WrittenFor(r, i) = Row(d.id, d.created, i)
<1>1. NextId \in Nat \ {0}
  BY FS_CardinalityType DEF NextId, RowsInv
<1>2. \A i \in chosen[r] : i.cand \in Cand /\ i.action \in Actions
  BY ItemsOfARun
<1>3. ASSUME NEW i \in chosen[r], i \notin Inserted(r)
      PROVE  \E d \in decisions : /\ [cand |-> i.cand, id |-> d.id] \in target[r]
                                  /\ \A e \in decisions :
                                        [cand |-> i.cand, id |-> e.id] \in target[r] => e = d
                                  /\ WrittenFor(r, i) = Row(d.id, d.created, i)
  <2>1. PICK t \in target[r] : t.cand = i.cand
    BY <1>3 DEF Inserted
  <2>2. t = [cand |-> i.cand, id |-> t.id]
    BY <2>1 DEF RequestsInv, RequestInv
  <2>3. PICK d \in decisions : d.id = t.id
    BY <2>1 DEF RequestsInv, RequestInv, Ids
  <2>4. \A e \in decisions : [cand |-> i.cand, id |-> e.id] \in target[r] => e = d
    BY <2>1, <2>2, <2>3 DEF RequestsInv, RequestInv, RowsInv
  <2>5. d = CHOOSE e \in decisions : [cand |-> i.cand, id |-> e.id] \in target[r]
    BY <2>1, <2>2, <2>3, <2>4
  <2> QED
    BY <1>3, <2>1, <2>2, <2>3, <2>4, <2>5 DEF WrittenFor, Refreshed
<1>4. ASSUME NEW i \in chosen[r], i \in Inserted(r)
      PROVE  /\ WrittenFor(r, i) = Row(NextId + Rank(r, i), NextId, i)
             /\ NextId + Rank(r, i) \in Nat \ {0}
  BY <1>1, <1>4, Ranks DEF WrittenFor
<1>5. ASSUME NEW i \in chosen[r]
      PROVE  \E n \in Nat \ {0}, at \in Nat : WrittenFor(r, i) = Row(n, at, i)
  <2>1. CASE i \in Inserted(r)
    BY <1>1, <1>4, <2>1
  <2>2. CASE i \notin Inserted(r)
    <3>1. PICK d \in decisions : WrittenFor(r, i) = Row(d.id, d.created, i)
      BY <1>3, <2>2
    <3>2. d.id \in Nat \ {0} /\ d.created \in Nat
      BY DEF RowsInv, DecisionRow
    <3> QED
      BY <3>1, <3>2
  <2> QED
    BY <2>1, <2>2
<1>6. ASSUME NEW i \in chosen[r]
      PROVE  /\ WrittenFor(r, i) \in DecisionRow
             /\ WrittenFor(r, i).action = i.action /\ Anchored(WrittenFor(r, i), i.cand)
  <2>1. PICK n \in Nat \ {0}, at \in Nat : WrittenFor(r, i) = Row(n, at, i)
    BY <1>5
  <2>2. i.cand \in Cand /\ i.action \in Actions
    BY <1>2
  <2> QED
    BY <2>1, <2>2 DEF Row, DecisionRow, Cand, Anchored
<1>7. Insertions(r) = {WrittenFor(r, i) : i \in Inserted(r)}
  BY <1>4 DEF Insertions, Inserted
<1>8. Updates(r) = {WrittenFor(r, i) : i \in chosen[r] \ Inserted(r)}
  <2>1. ASSUME NEW i \in chosen[r], NEW d \in decisions,
               [cand |-> i.cand, id |-> d.id] \in target[r]
        PROVE  i \notin Inserted(r) /\ Refreshed(d, i) = WrittenFor(r, i)
    <3>1. i \notin Inserted(r)
      BY <2>1 DEF Inserted
    <3> QED
      BY <1>3, <2>1, <3>1 DEF Refreshed
  <2>2. ASSUME NEW i \in chosen[r] \ Inserted(r)
        PROVE  \E d \in decisions : /\ [cand |-> i.cand, id |-> d.id] \in target[r]
                                    /\ WrittenFor(r, i) = Refreshed(d, i)
    BY <1>3 DEF Refreshed
  <2> DEFINE Over(i) == {d \in decisions : [cand |-> i.cand, id |-> d.id] \in target[r]}
  <2>3. \A u : u \in Updates(r) <=> \E i \in chosen[r] : \E d \in Over(i) : u = Refreshed(d, i)
    BY DEF Updates
  <2>4. ASSUME NEW u \in Updates(r)
        PROVE  u \in {WrittenFor(r, i) : i \in chosen[r] \ Inserted(r)}
    <3>1. PICK i \in chosen[r] : \E d \in Over(i) : u = Refreshed(d, i)
      BY <2>3
    <3> QED
      BY <2>1, <3>1
  <2>5. ASSUME NEW i \in chosen[r] \ Inserted(r) PROVE WrittenFor(r, i) \in Updates(r)
    BY <2>2, <2>3
  <2> QED
    BY <2>4, <2>5
<1>9. AfterWrite(r) = Untouched(r) \union {WrittenFor(r, i) : i \in chosen[r]}
  BY <1>7, <1>8 DEF AfterWrite, Untouched, Inserted
<1> QED
  BY <1>3, <1>4, <1>6, <1>9 DEF Row

\* Ids stay unique and keep counting, and none is lost.
LEMMA WriteNumbers ==
    ASSUME RowsInv, RequestsInv, NEW r \in Requests
    PROVE  LET E == AfterWrite(r) IN
           /\ IsFiniteSet(E) /\ E \subseteq DecisionRow
           /\ \A d, e \in E : d.id = e.id => d = e
           /\ \A d \in E : d.id <= Cardinality(E)
           /\ Ids(decisions) \subseteq Ids(E)
           /\ \A i, j \in chosen[r] : WrittenFor(r, i) = WrittenFor(r, j) => i = j
           /\ \A i \in chosen[r] : WrittenFor(r, i) \notin Untouched(r)
<1> DEFINE E == AfterWrite(r)
           I == Inserted(r)
           n == Cardinality(decisions)
           w(i) == WrittenFor(r, i)
<1>1. n \in Nat /\ NextId = 1 + n
  BY FS_CardinalityType DEF NextId, RowsInv
<1>2. /\ IsFiniteSet(I) /\ Cardinality(I) \in Nat
      /\ \A i \in I : w(i).id \in (n + 1) .. (n + Cardinality(I))
      /\ \A i, j \in I : w(i).id = w(j).id => i = j
  <2>1. \A i \in I : i \in chosen[r] /\ w(i).id = NextId + Rank(r, i)
    BY WrittenRows DEF Inserted
  <2>2. /\ IsFiniteSet(I) /\ Cardinality(I) \in Nat
        /\ \A i \in I : Rank(r, i) \in 0 .. (Cardinality(I) - 1)
        /\ \A i, j \in I : Rank(r, i) = Rank(r, j) => i = j
    BY Ranks
  <2> HIDE DEF I, w
  <2> QED
    BY <1>1, <2>1, <2>2
<1>3. ASSUME NEW i \in chosen[r], i \notin I
      PROVE  \E d \in decisions : /\ [cand |-> i.cand, id |-> d.id] \in target[r]
                                  /\ w(i).id = d.id
  BY <1>3, WrittenRows DEF Row
<1>4. \A d \in decisions : d.id \in Nat \ {0} /\ d.id <= n
  BY DEF RowsInv, DecisionRow
<1>5. ASSUME NEW i \in chosen[r], NEW j \in chosen[r], w(i).id = w(j).id PROVE i = j
  <2>1. CASE i \in I /\ j \in I
    BY <1>2, <1>5, <2>1
  <2>2. CASE i \notin I /\ j \notin I
    <3>1. PICK d \in decisions :
            [cand |-> i.cand, id |-> d.id] \in target[r] /\ w(i).id = d.id
      BY <1>3, <2>2
    <3>2. PICK e \in decisions :
            [cand |-> j.cand, id |-> e.id] \in target[r] /\ w(j).id = e.id
      BY <1>3, <2>2
    <3>3. \A t, u \in target[r] : t.id = u.id => t = u
      BY DEF RequestsInv, RequestInv
    <3>4. [cand |-> i.cand, id |-> d.id] = [cand |-> j.cand, id |-> e.id]
      BY <1>5, <3>1, <3>2, <3>3
    <3>5. i.cand = j.cand
      BY <3>4
    <3> QED
      BY <3>5 DEF RequestsInv, RequestInv
  <2>3. ASSUME NEW k \in I, NEW l \in chosen[r] \ I PROVE w(k).id # w(l).id
    <3>1. PICK d \in decisions : w(l).id = d.id
      BY <1>3
    <3>2. w(k).id >= n + 1
      BY <1>1, <1>2
    <3> QED
      BY <1>1, <1>4, <3>1, <3>2
  <2> QED
    BY <1>5, <2>1, <2>2, <2>3
<1>6. ASSUME NEW i \in chosen[r], NEW d \in Untouched(r) PROVE w(i).id # d.id
  <2>1. CASE i \in I
    BY <1>1, <1>2, <1>4, <2>1 DEF Untouched
  <2>2. CASE i \notin I
    BY <1>3, <2>2 DEF Untouched
  <2> QED
    BY <2>1, <2>2
<1>7. E = Untouched(r) \union {w(i) : i \in chosen[r]} /\ \A i \in chosen[r] : w(i) \in DecisionRow
  BY WrittenRows
<1>8. E \subseteq DecisionRow
  BY <1>7 DEF Untouched, RowsInv
<1>9. \A d, e \in E : d.id = e.id => d = e
  <2>1. \A d, e \in Untouched(r) : d.id = e.id => d = e
    BY DEF Untouched, RowsInv
  <2> HIDE DEF E, w
  <2> QED
    BY <1>5, <1>6, <1>7, <2>1
<1>10. IsFiniteSet(E)
  <2>1. IsFiniteSet(Untouched(r))
    BY FS_Subset DEF Untouched, RowsInv
  <2>2. IsFiniteSet({w(i) : i \in chosen[r]})
    <3> DEFINE f == [i \in chosen[r] |-> w(i)]
    <3>1. f \in Surjection(chosen[r], {w(i) : i \in chosen[r]})
      BY DEF Surjection
    <3> QED
      BY <3>1, ItemsOfARun, FS_Surjection
  <2> QED
    BY <1>7, <2>1, <2>2, FS_Union
<1>11. Ids(E) = Ids(decisions) \union {w(i).id : i \in I}
  <2>1. ASSUME NEW d \in decisions PROVE d.id \in Ids(E)
    <3>1. CASE d \in Untouched(r)
      BY <1>7, <3>1 DEF Ids
    <3>2. CASE d \notin Untouched(r)
      <4>1. PICK t \in target[r] : t.id = d.id
        BY <3>2 DEF Untouched
      <4>2. PICK i \in chosen[r] : t.cand = i.cand
        BY <4>1 DEF RequestsInv, RequestInv, Named
      <4>3. i \notin I
        BY <4>2 DEF Inserted
      <4>4. PICK e \in decisions :
                [cand |-> i.cand, id |-> e.id] \in target[r] /\ w(i).id = e.id
        BY <1>3, <4>3
      <4>5. [cand |-> i.cand, id |-> e.id] = t
        BY <4>1, <4>2, <4>4 DEF RequestsInv, RequestInv
      <4>6. w(i).id = d.id
        BY <4>1, <4>4, <4>5
      <4> QED
        BY <1>7, <4>6 DEF Ids
    <3> QED
      BY <3>1, <3>2
  <2>2. \A i \in I : w(i).id \in Ids(E)
    BY <1>7 DEF Ids, Inserted
  <2>3. ASSUME NEW e \in E PROVE e.id \in Ids(decisions) \union {w(i).id : i \in I}
    <3>1. CASE e \in Untouched(r)
      BY <3>1 DEF Untouched, Ids
    <3>2. CASE e \notin Untouched(r)
      <4>1. PICK i \in chosen[r] : e = w(i)
        BY <1>7, <3>2
      <4>2. CASE i \in I
        BY <4>1, <4>2
      <4>3. CASE i \notin I
        BY <1>3, <4>1, <4>3 DEF Ids
      <4> QED
        BY <4>2, <4>3
    <3> QED
      BY <3>1, <3>2
  <2> QED
    BY <2>1, <2>2, <2>3 DEF Ids
<1>12. Cardinality(E) = n + Cardinality(I)
  <2> DEFINE J == {w(i).id : i \in I}
  <2>1. IsFiniteSet(Ids(decisions)) /\ Cardinality(Ids(decisions)) = n
    BY IdsCount DEF RowsInv
  <2>2. IsFiniteSet(J) /\ Cardinality(J) = Cardinality(I)
    <3> DEFINE f == [i \in I |-> w(i).id]
    <3>1. f \in Bijection(I, J)
      BY <1>2 DEF Bijection, Injection, Surjection, IsInjective
    <3> QED
      BY <1>2, <3>1, FS_Bijection DEF ExistsBijection
  <2>3. Ids(decisions) \intersect J = {}
    BY <1>1, <1>2, <1>4 DEF Ids
  <2>4. Cardinality(Ids(decisions) \union J) = n + Cardinality(I)
    <3> HIDE DEF J, n, I
    <3> QED
      BY <1>1, <1>2, <2>1, <2>2, <2>3, FS_Union, FS_EmptySet
  <2>5. Cardinality(Ids(E)) = Cardinality(E)
    BY <1>9, <1>10, IdsCount
  <2> QED
    BY <1>11, <2>4, <2>5
<1>13. ASSUME NEW e \in E PROVE e.id <= Cardinality(E)
  <2>1. e.id \in Ids(decisions) \union {w(i).id : i \in I}
    BY <1>11 DEF Ids
  <2> HIDE DEF E, I, n, w
  <2>2. CASE e.id \in Ids(decisions)
    BY <1>1, <1>2, <1>4, <1>12, <2>2 DEF Ids
  <2>3. CASE e.id \in {w(i).id : i \in I}
    BY <1>1, <1>2, <1>12, <2>3
  <2> QED
    BY <2>1, <2>2, <2>3
<1> QED
  BY <1>5, <1>6, <1>8, <1>9, <1>10, <1>11, <1>13

-----------------------------------------------------------------------------
(* A handler whose target agrees with what is shown. *)

New(r) == [c \in Named(r) |-> WrittenFor(r, CHOOSE i \in chosen[r] : i.cand = c)]

LEMMA TablesAreWellFormed ==
    ASSUME RowsInv, RequestsInv, IsRun(found), NEW r \in Requests
    PROVE  WellFormed(found, decisions) /\ WellFormed(found, AfterWrite(r))
<1>1. \A d \in DecisionRow : d.id \in Int /\ d.start \in Int /\ d.end \in Int /\ d.created \in Int
  BY DEF DecisionRow
<1>2. /\ IsFiniteSet(AfterWrite(r)) /\ AfterWrite(r) \subseteq DecisionRow
      /\ \A d, e \in AfterWrite(r) : d.id = e.id => d = e
  BY WriteNumbers
<1> QED
  BY <1>1, <1>2 DEF WellFormed, RowsInv, IsRun, AreTrips

LEMMA ShownIsUnique ==
    ASSUME RowsInv, RequestsInv, IsRun(found), NEW c \in found
    PROVE  /\ DecisionsOn(c, found, decisions) \subseteq decisions
           /\ \A d \in DecisionsOn(c, found, decisions) :
                    Compatible(c, d) /\ [cand |-> c, dec |-> d] \in Match(found, decisions)
           /\ \A d \in decisions : [cand |-> c, dec |-> d] \in Match(found, decisions)
                    => DecisionsOn(c, found, decisions) = {d}
<1>1. WellFormed(found, decisions)
  BY DEF WellFormed, RowsInv, IsRun, AreTrips, DecisionRow
<1>2. StableIn(Match(found, decisions), Pairs(found, decisions))
  BY <1>1, MatchIsStable
<1>3. \A p \in Match(found, decisions) :
        /\ p = [cand |-> p.cand, dec |-> p.dec] /\ p.dec \in decisions
        /\ Compatible(p.cand, p.dec)
  BY <1>2 DEF StableIn, Pairs
<1>4. \A p, q \in Match(found, decisions) : p.cand = q.cand => p = q
  BY <1>2 DEF StableIn, Clash
<1> QED
  BY <1>3, <1>4 DEF DecisionsOn

LEMMA ShownIsOne ==
    ASSUME RowsInv, RequestsInv, IsRun(found), NEW c \in found
    PROVE  \A d, e \in DecisionsOn(c, found, decisions) : d = e
<1>1. \A d \in DecisionsOn(c, found, decisions) :
        d \in decisions /\ [cand |-> c, dec |-> d] \in Match(found, decisions)
  BY ShownIsUnique
<1>2. \A d \in DecisionsOn(c, found, decisions) : DecisionsOn(c, found, decisions) = {d}
  BY <1>1, ShownIsUnique
<1> QED
  BY <1>2

LEMMA WriteRewrites ==
    ASSUME RowsInv, RequestsInv, IsRun(found), NEW r \in Requests, Named(r) \subseteq found,
           \A c \in Named(r) : Agrees(r, c)
    PROVE  /\ Rewrites(AfterWrite(r), decisions, found, Named(r), New(r))
           /\ \A i \in chosen[r] : New(r)[i.cand] = WrittenFor(r, i)
<1> DEFINE M == Match(found, decisions)
           K == Named(r)
           kept == {d \in decisions : \A c \in K : [cand |-> c, dec |-> d] \notin M}
<1>1. \A i \in chosen[r] : New(r)[i.cand] = WrittenFor(r, i)
  BY DEF New, Named, RequestsInv, RequestInv
<1>2. \A c \in K : \E i \in chosen[r] : i.cand = c
  BY DEF Named
<1>3. ASSUME NEW c \in K, NEW d \in decisions
      PROVE  [cand |-> c, dec |-> d] \in M <=> [cand |-> c, id |-> d.id] \in target[r]
  <2>1. [cand |-> c, dec |-> d] \in M => d.id \in Ids(DecisionsOn(c, found, decisions))
    BY DEF Ids, DecisionsOn
  <2>2. d.id \in Ids(DecisionsOn(c, found, decisions)) => [cand |-> c, dec |-> d] \in M
    <3> SUFFICES ASSUME NEW e \in DecisionsOn(c, found, decisions), e.id = d.id
                 PROVE  [cand |-> c, dec |-> d] \in M
      BY DEF Ids
    <3>1. e \in decisions /\ [cand |-> c, dec |-> e] \in M
      BY ShownIsUnique
    <3> QED
      BY <3>1 DEF RowsInv
  <2>3. d.id \in IdsFor(r, c) <=> [cand |-> c, id |-> d.id] \in target[r]
    BY DEF IdsFor, RequestsInv, RequestInv
  <2> QED
    BY <2>1, <2>2, <2>3 DEF Agrees
<1>4. kept = Untouched(r)
  <2>1. ASSUME NEW d \in decisions, NEW t \in target[r], t.id = d.id PROVE d \notin kept
    <3>1. t.cand \in K /\ t = [cand |-> t.cand, id |-> d.id]
      BY <2>1 DEF RequestsInv, RequestInv
    <3> QED
      BY <1>3, <2>1, <3>1
  <2>2. ASSUME NEW d \in decisions, d \notin kept PROVE \E t \in target[r] : t.id = d.id
    BY <1>3, <2>2
  <2> QED
    BY <2>1, <2>2 DEF Untouched
<1>5. AfterWrite(r) = kept \union {New(r)[c] : c \in K} /\ \A c \in K : New(r)[c] \notin kept
  <2>1. {New(r)[c] : c \in K} = {WrittenFor(r, i) : i \in chosen[r]}
    BY <1>1, <1>2 DEF Named
  <2>2. \A i \in chosen[r] : WrittenFor(r, i) \notin Untouched(r)
    BY WriteNumbers
  <2> QED
    BY <1>1, <1>2, <1>4, <2>1, <2>2, WrittenRows
<1>6. \A b, c \in K : New(r)[b] = New(r)[c] => b = c
  BY <1>1, <1>2, WriteNumbers
<1>7. ASSUME NEW c \in K
      PROVE  /\ Anchored(New(r)[c], c)
             /\ \A d \in decisions : [cand |-> c, dec |-> d] \in M =>
                    New(r)[c].id = d.id /\ New(r)[c].created = d.created
  <2>1. PICK i \in chosen[r] : i.cand = c
    BY <1>2
  <2>2. New(r)[c] = WrittenFor(r, i) /\ Anchored(New(r)[c], c)
    BY <1>1, <2>1, WrittenRows
  <2>3. ASSUME NEW d \in decisions, [cand |-> c, dec |-> d] \in M
        PROVE  New(r)[c].id = d.id /\ New(r)[c].created = d.created
    <3>1. [cand |-> i.cand, id |-> d.id] \in target[r]
      BY <1>3, <2>1, <2>3
    <3>2. i \notin Inserted(r)
      BY <3>1 DEF Inserted
    <3>3. PICK e \in decisions : /\ [cand |-> i.cand, id |-> e.id] \in target[r]
                                 /\ WrittenFor(r, i) = Row(e.id, e.created, i)
      BY <3>2, WrittenRows
    <3>4. e = d
      BY <3>1, <3>3 DEF RequestsInv, RequestInv, RowsInv
    <3> QED
      BY <2>2, <3>3, <3>4 DEF Row
  <2> QED
    BY <2>2, <2>3
<1> QED
  BY <1>1, <1>5, <1>6, <1>7 DEF Rewrites

\* What is written shows where it was decided, and nothing else moves.
LEMMA WriteIsLocal ==
    ASSUME RowsInv, RequestsInv, IsRun(found), NEW r \in Requests, Named(r) \subseteq found,
           \A c \in Named(r) : Agrees(r, c)
    PROVE  /\ \A c \in found \ Named(r) :
                DecisionsOn(c, found, AfterWrite(r)) = DecisionsOn(c, found, decisions)
           /\ \A i \in chosen[r] : DecisionsOn(i.cand, found, AfterWrite(r)) = {WrittenFor(r, i)}
<1>1. /\ Rewrites(AfterWrite(r), decisions, found, Named(r), New(r))
      /\ \A i \in chosen[r] : New(r)[i.cand] = WrittenFor(r, i)
  BY WriteRewrites
<1>2. Match(found, AfterWrite(r)) = {p \in Match(found, decisions) : p.cand \notin Named(r)}
            \union {[cand |-> c, dec |-> New(r)[c]] : c \in Named(r)}
  BY <1>1, TablesAreWellFormed, RewritingIsLocal
<1>3. \A i \in chosen[r] : i.cand \in Named(r)
  BY DEF Named
<1>4. ASSUME NEW c \in found \ Named(r)
      PROVE  DecisionsOn(c, found, AfterWrite(r)) = DecisionsOn(c, found, decisions)
  <2>1. {q \in Match(found, AfterWrite(r)) : q.cand = c}
            = {q \in Match(found, decisions) : q.cand = c}
    BY <1>2
  <2> QED
    BY <2>1 DEF DecisionsOn
<1>5. ASSUME NEW i \in chosen[r]
      PROVE  DecisionsOn(i.cand, found, AfterWrite(r)) = {WrittenFor(r, i)}
  <2> DEFINE p == [cand |-> i.cand, dec |-> New(r)[i.cand]]
  <2>1. {q \in Match(found, AfterWrite(r)) : q.cand = i.cand} = {p}
    BY <1>2, <1>3
  <2>2. DecisionsOn(i.cand, found, AfterWrite(r)) = {q.dec : q \in {p}}
    BY <2>1 DEF DecisionsOn
  <2> QED
    BY <1>1, <2>2
<1> QED
  BY <1>4, <1>5

\* What another handler has put on a candidate that showed nothing is in the
\* way to no other candidate: this handler does not move it.
LEMMA AnchoredStays ==
    ASSUME RowsInv, RequestsInv, IsRun(found), NEW r \in Requests, Named(r) \subseteq found,
           \A c \in Named(r) : Agrees(r, c) \/ Forestalled(r, c),
           NEW c \in found, IdsFor(r, c) = {}, NEW d \in decisions, Anchored(d, c)
    PROVE  d \in Untouched(r)
<1> SUFFICES ASSUME NEW t \in target[r], t.id = d.id PROVE FALSE
  BY DEF Untouched
<1>1. t.cand \in Named(r) /\ t.cand \in found /\ t.id \in IdsFor(r, t.cand)
  BY DEF RequestsInv, RequestInv, IdsFor
<1>2. t.cand # c /\ Agrees(r, t.cand)
  BY <1>1 DEF Forestalled
<1>3. PICK e \in DecisionsOn(t.cand, found, decisions) : e.id = d.id
  BY <1>1, <1>2 DEF Agrees, Ids
<1>4. e \in decisions /\ Compatible(t.cand, e)
  BY <1>1, <1>3, ShownIsUnique
<1>5. e = d
  BY <1>3, <1>4 DEF RowsInv
<1> QED
  BY <1>1, <1>2, <1>4, <1>5, AnchoredIsCompatible

\* The index refuses the write of a handler that was forestalled.
LEMMA IndexRefusesForestalled ==
    ASSUME RowsInv, RequestsInv, IsRun(found), NEW r \in Requests, Named(r) \subseteq found,
           \A c \in Named(r) : Agrees(r, c) \/ Forestalled(r, c),
           AnchorsDistinct(AfterWrite(r))
    PROVE  \A c \in Named(r) : Agrees(r, c)
<1> SUFFICES ASSUME NEW c \in Named(r), IdsFor(r, c) = {},
                    NEW d \in decisions, Anchored(d, c)
             PROVE  FALSE
  BY DEF Forestalled
<1>1. PICK i \in chosen[r] : i.cand = c
  BY DEF Named
<1>2. i \in Inserted(r)
  BY <1>1 DEF Inserted, IdsFor
<1>3. WrittenFor(r, i) \in AfterWrite(r) /\ Anchored(WrittenFor(r, i), c)
  BY <1>1, <1>2, WrittenRows
<1>4. d \in Untouched(r)
  BY AnchoredStays
<1>5. d \in AfterWrite(r) /\ d # WrittenFor(r, i)
  BY <1>4, WrittenRows, WriteNumbers
<1> QED
  BY <1>3, <1>5 DEF AnchorsDistinct, Anchored

-----------------------------------------------------------------------------
(* What the handlers read. *)

LEMMA CandidatesAreARun ==
    ASSUME NEW n \in Nat, NEW spans, AreTrips(spans)
    PROVE  IsRun(CandidatesOf(n, spans)) /\ CandidatesOf(n, spans) \subseteq Cand
<1> DEFINE of(s) == [id |-> 10 * n + s.start, start |-> s.start, end |-> s.end, dest |-> s.dest]
           C == CandidatesOf(n, spans)
<1>1. C = {of(s) : s \in spans}
  BY DEF CandidatesOf
<1>2. \A s \in spans : /\ s.start \in Int /\ s.end \in Int /\ s.start < s.end
                       /\ s.dest \in Nat /\ Near(s.dest, s.dest)
  BY DEF AreTrips
<1>3. \A s, t \in spans : s # t => s.end <= t.start \/ t.end <= s.start
  BY DEF AreTrips, Disjoint
<1>4. IsFiniteSet(C)
  <2> DEFINE f == [s \in spans |-> of(s)]
  <2>1. f \in Surjection(spans, C)
    BY <1>1 DEF Surjection
  <2> QED
    BY <2>1, FS_Surjection DEF AreTrips
<1>5. C \subseteq Cand
  BY <1>1, <1>2 DEF Cand
<1>6. Disjoint(C)
  BY <1>1, <1>3 DEF Disjoint
<1>7. \A c \in C : /\ c.start \in Int /\ c.end \in Int /\ c.start < c.end
                   /\ c.dest \in Nat /\ Near(c.dest, c.dest)
  BY <1>1, <1>2
<1>8. ASSUME NEW b \in C, NEW c \in C, b.id = c.id PROVE b = c
  <2>1. PICK s \in spans : b = of(s)
    BY <1>1
  <2>2. PICK t \in spans : c = of(t)
    BY <1>1
  <2>3. s.start = t.start
    BY <1>2, <1>8, <2>1, <2>2
  <2>4. s = t
    BY <1>2, <1>3, <2>3
  <2> QED
    BY <2>1, <2>2, <2>4
<1>9. \A c \in C : c.id \in Int
  BY <1>5 DEF Cand
<1> QED
  BY <1>4, <1>5, <1>6, <1>7, <1>8, <1>9 DEF IsRun, AreTrips

\* Match assigns one to one, whatever run the handler has read.
LEMMA MatchedIsOneToOne ==
    ASSUME RowsInv, RequestsInv, NEW r \in Requests
    PROVE  /\ \A p \in Matched(r) : p.cand \in runSeen[r] /\ p.dec \in decisions
           /\ \A p, q \in Matched(r) : p.cand = q.cand \/ p.dec.id = q.dec.id => p = q
<1>1. WellFormed(runSeen[r], decisions)
  BY DEF WellFormed, RowsInv, RequestsInv, RequestInv, IsRun, AreTrips, DecisionRow
<1>2. StableIn(Matched(r), Pairs(runSeen[r], decisions))
  BY <1>1, MatchIsStable DEF Matched
<1>3. \A p \in Matched(r) : p.cand \in runSeen[r] /\ p.dec \in decisions
  BY <1>2 DEF StableIn, Pairs
<1>4. \A p, q \in Matched(r) : p.cand = q.cand \/ p.dec = q.dec => p = q
  BY <1>2 DEF StableIn, Clash
<1> QED
  BY <1>3, <1>4 DEF RowsInv

-----------------------------------------------------------------------------
(* The steps of one request leave the others alone. *)

LEMMA Bystander ==
    ASSUME NEW q \in Requests, RequestInv(q), pc'[q] = pc[q], chosen'[q] = chosen[q],
           runSeen'[q] = runSeen[q], target'[q] = target[q],
           Ids(decisions) \subseteq Ids(decisions')
    PROVE  /\ RequestInv(q)'
           /\ Named(q)' = Named(q) /\ (q \in Active <=> q \in Active')
           /\ \A c : IdsFor(q, c)' = IdsFor(q, c)
<1>1. Named(q)' = Named(q) /\ (q \in Active <=> q \in Active')
  BY DEF Named, Active
<1>2. \A c : IdsFor(q, c)' = IdsFor(q, c)
  BY DEF IdsFor
<1>3. \A t \in target[q] : t.id \in Ids(decisions')
  BY DEF RequestInv
<1>4. RequestInv(q)'
  BY <1>1, <1>3 DEF RequestInv
<1> QED
  BY <1>1, <1>2, <1>4

\* A handler that returns is no longer under way, and carries nothing.
LEMMA AnswerLeaves ==
    ASSUME RequestsInv, NEW r \in Requests, NEW phase \in {"done", "conflict"},
           Answer(r, phase), Ids(decisions) \subseteq Ids(decisions')
    PROVE  /\ RequestsInv' /\ Active' = Active \ {r} /\ pc'[r] = phase
           /\ \A q \in Requests \ {r} : /\ pc'[q] = pc[q] /\ chosen'[q] = chosen[q]
                                        /\ runSeen'[q] = runSeen[q] /\ target'[q] = target[q]
<1>1. /\ pc' = [pc EXCEPT ![r] = phase]
      /\ chosen' = [chosen EXCEPT ![r] = {}]
      /\ runSeen' = [runSeen EXCEPT ![r] = {}]
      /\ target' = [target EXCEPT ![r] = {}]
  BY DEF Answer, Goto
<1>2. \A q \in Requests \ {r} : /\ pc'[q] = pc[q] /\ chosen'[q] = chosen[q]
                                /\ runSeen'[q] = runSeen[q] /\ target'[q] = target[q]
  BY <1>1 DEF RequestsInv
<1>3. pc'[r] = phase /\ chosen'[r] = {} /\ runSeen'[r] = {} /\ target'[r] = {}
  BY <1>1 DEF RequestsInv
<1>4. \A q \in Requests \ {r} : RequestInv(q)' /\ (q \in Active <=> q \in Active')
  <2> SUFFICES ASSUME NEW q \in Requests \ {r}
               PROVE  RequestInv(q)' /\ (q \in Active <=> q \in Active')
    OBVIOUS
  <2>1. RequestInv(q)
    BY DEF RequestsInv
  <2> QED
    BY <1>2, <2>1, Bystander
<1>5. r \notin Active'
  BY <1>3 DEF Active
<1>6. RequestInv(r)'
  <2>1. IsRun({})
    BY FS_EmptySet DEF IsRun, AreTrips, Disjoint
  <2>2. Named(r)' = {}
    BY <1>3 DEF Named
  <2> QED
    BY <1>3, <2>1, <2>2 DEF RequestInv
<1>7. /\ pc' \in [Requests -> Phases]
      /\ chosen' \in [Requests -> SUBSET Items(Cand)]
      /\ runSeen' \in [Requests -> SUBSET Cand]
      /\ target' \in [Requests -> SUBSET [cand : Cand, id : Nat]]
  BY <1>1 DEF RequestsInv, Phases
<1>8. Active' = Active \ {r}
  BY <1>4, <1>5 DEF Active
<1> QED
  BY <1>2, <1>3, <1>4, <1>6, <1>7, <1>8 DEF RequestsInv

\* A handler that returns without writing a decision keeps the invariant.
LEMMA AnsweringKeeps ==
    ASSUME TriageInv, NEW r \in Requests, NEW phase \in {"done", "conflict"},
           Answer(r, phase), Leaves(r), UNCHANGED <<run, found, decisions>>,
           photoOn' \union sharedOn' \subseteq Ids(decisions)
    PROVE  TriageInv'
<1>1. /\ RequestsInv' /\ Active' = Active \ {r} /\ pc'[r] = phase
      /\ \A q \in Requests \ {r} : /\ pc'[q] = pc[q] /\ chosen'[q] = chosen[q]
                                   /\ runSeen'[q] = runSeen[q] /\ target'[q] = target[q]
  BY AnswerLeaves DEF TriageInv
<1>2. overtaken' = overtaken \ {r} /\ crossed' = crossed \ {r}
  BY DEF Leaves
<1>3. RowsInv'
  BY DEF TriageInv, RowsInv
<1>4. RunInv'
  BY <1>1, <1>2 DEF TriageInv, RunInv
<1>5. \A q \in Requests \ {r} : Named(q)' = Named(q) /\ \A c : IdsFor(q, c)' = IdsFor(q, c)
  BY <1>1 DEF Named, IdsFor
<1>6. AgreementInv'
  <2>1. ASSUME NEW q \in Active' \ overtaken'
        PROVE  Named(q)' \subseteq found' /\ (pc'[q] # "resolved" => runSeen'[q] = found')
    <3>1. q \in Requests \ {r} /\ q \in Active \ overtaken
      BY <1>1, <1>2 DEF Active
    <3> QED
      BY <1>1, <1>5, <3>1 DEF TriageInv, AgreementInv
  <2>2. ASSUME NEW q \in Requests \ overtaken', pc'[q] = "matched",
               NEW c \in Named(q)'
        PROVE  Agrees(q, c)' \/ (q \in crossed' /\ Forestalled(q, c)')
    <3>1. q \in Requests \ {r} /\ q \notin overtaken /\ pc[q] = "matched" /\ c \in Named(q)
      BY <1>1, <1>2, <1>5, <2>2 DEF Requests
    <3>2. Agrees(q, c) \/ (q \in crossed /\ Forestalled(q, c))
      BY <2>2, <3>1 DEF TriageInv, AgreementInv
    <3>3. IdsFor(q, c)' = IdsFor(q, c)
      BY <1>5, <3>1
    <3> QED
      BY <1>2, <3>1, <3>2, <3>3 DEF Agrees, Forestalled
  <2> QED
    BY <2>1, <2>2 DEF AgreementInv
<1>7. CarryInv'
  <2> SUFFICES ASSUME NEW q \in (Attaches \union Mints) \ crossed', pc'[q] = "matched",
                      NEW t \in target'[q]
               PROVE  \E d \in decisions : d.id = t.id /\ d.action = "confirmed"
    BY DEF CarryInv
  <2>1. q \in Requests \ {r} /\ q \notin crossed
    BY <1>1, <1>2 DEF Requests
  <2> QED
    BY <1>1, <2>1 DEF TriageInv, CarryInv
<1>8. HoldingInv'
  <2> SUFFICES ASSUME NEW q \in Attaches \union Mints, pc'[q] = "matched", NEW c \in Named(q)'
               PROVE  IdsFor(q, c)' # {}
    BY DEF HoldingInv
  <2>1. q \in Requests \ {r} /\ pc[q] = "matched"
    BY <1>1 DEF Requests
  <2> QED
    BY <1>5, <2>1 DEF TriageInv, HoldingInv
<1> QED
  BY <1>1, <1>3, <1>4, <1>6, <1>7, <1>8 DEF TriageInv

-----------------------------------------------------------------------------
(* Every action keeps the invariant. *)

LEMMA InitEstablishes == Init => TriageInv
<1> SUFFICES ASSUME Init PROVE TriageInv
  OBVIOUS
<1>1. IsRun({})
  BY FS_EmptySet DEF IsRun, AreTrips, Disjoint
<1>2. Active = {}
  BY DEF Init, Active
<1>3. RowsInv
  BY FS_EmptySet DEF Init, RowsInv
<1>4. RequestsInv
  <2>1. \A r \in Requests : RequestInv(r)
    BY <1>1 DEF Init, RequestInv, Named
  <2> QED
    BY <2>1 DEF Init, RequestsInv, Phases
<1>5. RunInv
  BY <1>1, TriageBoundsAssumption DEF Init, RunInv
<1>6. AgreementInv
  BY <1>2 DEF Init, AgreementInv, Requests
<1>7. CarryInv
  BY DEF Init, CarryInv, Requests
<1>8. HoldingInv
  BY DEF Init, HoldingInv, Requests
<1> QED
  BY <1>3, <1>4, <1>5, <1>6, <1>7, <1>8 DEF TriageInv

LEMMA SaveRunKeeps ==
    ASSUME TriageInv, NEW spans \in Detections, SaveRun(spans)
    PROVE  TriageInv'
<1>1. run' \in 0 .. MaxRuns /\ run + 1 \in Nat
  BY TriageBoundsAssumption DEF TriageInv, RunInv, SaveRun
<1>2. IsRun(found') /\ found' \subseteq Cand
  BY <1>1, TriageBoundsAssumption, CandidatesAreARun DEF SaveRun
<1>3. /\ Active' = Active /\ \A q \in Requests : RequestInv(q)' /\ Named(q)' = Named(q)
  <2>1. \A q \in Requests : RequestInv(q)' /\ Named(q)' = Named(q)
    BY Bystander DEF TriageInv, RequestsInv, SaveRun
  <2> QED
    BY <2>1 DEF Active, SaveRun
<1>4. RowsInv' /\ RequestsInv'
  BY <1>3 DEF TriageInv, RowsInv, RequestsInv, SaveRun
<1>5. RunInv'
  BY <1>1, <1>2, <1>3 DEF TriageInv, RunInv, SaveRun
<1>6. overtaken' = overtaken \union Active
  BY DEF SaveRun
<1>7. AgreementInv'
  <2>1. Active' \ overtaken' = {}
    BY <1>3, <1>6
  <2>2. \A q \in Requests \ overtaken' : pc'[q] # "matched"
    BY <1>6 DEF SaveRun, Active, Requests
  <2> QED
    BY <2>1, <2>2 DEF AgreementInv
<1>8. CarryInv'
  BY DEF TriageInv, CarryInv, SaveRun
<1>9. HoldingInv'
  BY DEF TriageInv, HoldingInv, SaveRun, Named, IdsFor
<1> QED
  BY <1>4, <1>5, <1>7, <1>8, <1>9 DEF TriageInv

\* A request that is not matched yet goes on without a table being changed.
LEMMA ProceedingKeeps ==
    ASSUME TriageInv, NEW r \in Requests, NEW phase \in {"resolved", "listed"},
           Goto(r, phase), pc[r] # "matched",
           \A q \in Requests \ {r} : chosen'[q] = chosen[q] /\ runSeen'[q] = runSeen[q],
           UNCHANGED <<tables, target, history>>,
           chosen' \in [Requests -> SUBSET Items(Cand)],
           runSeen' \in [Requests -> SUBSET Cand],
           RequestInv(r)',
           r \notin overtaken => /\ Named(r)' \subseteq found
                                 /\ phase # "resolved" => runSeen'[r] = found
    PROVE  TriageInv'
<1>1. /\ pc' \in [Requests -> Phases] /\ pc'[r] = phase
      /\ \A q \in Requests \ {r} : pc'[q] = pc[q]
  BY DEF TriageInv, RequestsInv, Goto, Phases
<1>2. ASSUME NEW q \in Requests \ {r}
      PROVE  /\ RequestInv(q)' /\ Named(q)' = Named(q) /\ (q \in Active <=> q \in Active')
             /\ \A c : IdsFor(q, c)' = IdsFor(q, c)
  BY <1>1, Bystander DEF TriageInv, RequestsInv, tables
<1>3. RowsInv'
  BY DEF TriageInv, RowsInv, tables
<1>4. RequestsInv'
  BY <1>1, <1>2 DEF TriageInv, RequestsInv
<1>5. Active \subseteq Active' /\ r \in Active'
  BY <1>1, <1>2 DEF Active
<1>6. RunInv'
  BY <1>5 DEF TriageInv, RunInv, tables, history
<1>7. AgreementInv'
  <2>1. ASSUME NEW q \in Active' \ overtaken'
        PROVE  Named(q)' \subseteq found' /\ (pc'[q] # "resolved" => runSeen'[q] = found')
    <3>1. found' = found /\ overtaken' = overtaken
      BY DEF tables, history
    <3>2. CASE q = r
      BY <1>1, <2>1, <3>1, <3>2
    <3>3. CASE q # r
      <4>1. q \in Requests \ {r} /\ q \in Active \ overtaken
        BY <1>2, <2>1, <3>1, <3>3 DEF Active
      <4> QED
        BY <1>1, <1>2, <3>1, <4>1 DEF TriageInv, AgreementInv
    <3> QED
      BY <3>2, <3>3
  <2>2. ASSUME NEW q \in Requests \ overtaken', pc'[q] = "matched",
               NEW c \in Named(q)'
        PROVE  Agrees(q, c)' \/ (q \in crossed' /\ Forestalled(q, c)')
    <3>1. q \in Requests \ {r} /\ q \notin overtaken /\ pc[q] = "matched" /\ c \in Named(q)
      BY <1>1, <1>2, <2>2 DEF Requests, history
    <3>2. Agrees(q, c) \/ (q \in crossed /\ Forestalled(q, c))
      BY <2>2, <3>1 DEF TriageInv, AgreementInv
    <3>3. IdsFor(q, c)' = IdsFor(q, c)
      BY <1>2, <3>1
    <3> QED
      BY <3>2, <3>3 DEF Agrees, Forestalled, tables, history
  <2> QED
    BY <2>1, <2>2 DEF AgreementInv
<1>8. CarryInv'
  <2> SUFFICES ASSUME NEW q \in (Attaches \union Mints) \ crossed', pc'[q] = "matched",
                      NEW t \in target'[q]
               PROVE  \E d \in decisions' : d.id = t.id /\ d.action = "confirmed"
    BY DEF CarryInv
  <2>1. q \in Requests \ {r} /\ pc[q] = "matched" /\ q \notin crossed
    BY <1>1 DEF Requests, history
  <2> QED
    BY <2>1 DEF TriageInv, CarryInv, tables
<1>9. HoldingInv'
  <2> SUFFICES ASSUME NEW q \in Attaches \union Mints, pc'[q] = "matched", NEW c \in Named(q)'
               PROVE  IdsFor(q, c)' # {}
    BY DEF HoldingInv
  <2>1. q \in Requests \ {r} /\ pc[q] = "matched"
    BY <1>1 DEF Requests
  <2> QED
    BY <1>2, <2>1 DEF TriageInv, HoldingInv
<1> QED
  BY <1>3, <1>4, <1>6, <1>7, <1>8, <1>9 DEF TriageInv

LEMMA ResolveKeeps ==
    ASSUME TriageInv, NEW r \in Requests, NEW c \in EverFound,
           NEW action \in ActionsOf(r), Resolve(r, c, action)
    PROVE  TriageInv'
<1> DEFINE item == [cand |-> c, action |-> action]
<1>1. /\ r \in Requests \ Bulks /\ pc[r] = "idle" /\ c \in found
      /\ chosen' = [chosen EXCEPT ![r] = {item}]
      /\ Goto(r, "resolved") /\ UNCHANGED <<tables, runSeen, target, history>>
  BY DEF Resolve, Latest
<1>2. c \in Cand /\ IsRun(found) /\ action \in Actions
  BY <1>1 DEF TriageInv, RunInv, ActionsOf, Actions
<1>3. /\ chosen' \in [Requests -> SUBSET Items(Cand)] /\ chosen'[r] = {item}
      /\ \A q \in Requests \ {r} : chosen'[q] = chosen[q]
  BY <1>1, <1>2 DEF TriageInv, RequestsInv, Items
<1>4. Named(r)' = {c}
  BY <1>3 DEF Named
<1>5. pc'[r] = "resolved"
  BY <1>1 DEF TriageInv, RequestsInv, Goto
<1>6. RequestInv(r)'
  <2>1. RequestInv(r) /\ target[r] = {}
    BY <1>1 DEF TriageInv, RequestsInv, RequestInv
  <2>2. Named(r)' \subseteq found
    BY <1>1, <1>4
  <2>3. r \in Active'
    BY <1>5 DEF Active
  <2> QED
    BY <1>1, <1>2, <1>3, <1>5, <2>1, <2>2, <2>3 DEF RequestInv
<1>7. runSeen' \in [Requests -> SUBSET Cand]
  BY <1>1 DEF TriageInv, RequestsInv
<1> QED
  BY <1>1, <1>3, <1>4, <1>6, <1>7, ProceedingKeeps

LEMMA ReadRunForBulkKeeps ==
    ASSUME TriageInv, NEW r \in Requests, NEW items \in SUBSET Items(found),
           ReadRunForBulk(r, items)
    PROVE  TriageInv'
<1>1. /\ r \in Bulks /\ pc[r] = "idle"
      /\ \A i, j \in items : i # j => i.cand # j.cand
      /\ runSeen' = [runSeen EXCEPT ![r] = found]
      /\ chosen' = [chosen EXCEPT ![r] = items]
      /\ Goto(r, "listed") /\ UNCHANGED <<tables, target, history>>
  BY DEF ReadRunForBulk
<1>2. found \subseteq Cand /\ IsRun(found)
  BY DEF TriageInv, RunInv
<1>3. items \subseteq Items(Cand) /\ \A i \in items : i.cand \in found
  BY <1>2 DEF Items
<1>4. /\ chosen' \in [Requests -> SUBSET Items(Cand)] /\ chosen'[r] = items
      /\ runSeen' \in [Requests -> SUBSET Cand] /\ runSeen'[r] = found
      /\ \A q \in Requests \ {r} : chosen'[q] = chosen[q] /\ runSeen'[q] = runSeen[q]
  BY <1>1, <1>2, <1>3 DEF TriageInv, RequestsInv
<1>5. Named(r)' \subseteq found
  BY <1>3, <1>4 DEF Named
<1>6. pc'[r] = "listed"
  BY <1>1 DEF TriageInv, RequestsInv, Goto
<1>7. RequestInv(r)'
  <2>1. target'[r] = {}
    BY <1>1 DEF TriageInv, RequestsInv, RequestInv
  <2>2. r \in Active'
    BY <1>6 DEF Active
  <2> QED
    BY <1>1, <1>2, <1>4, <1>5, <1>6, <2>1, <2>2 DEF RequestInv
<1> QED
  BY <1>1, <1>4, <1>5, <1>7, ProceedingKeeps

LEMMA ReadRunKeeps ==
    ASSUME TriageInv, NEW r \in Requests, ReadRun(r)
    PROVE  TriageInv'
<1>1. /\ pc[r] = "resolved" /\ runSeen' = [runSeen EXCEPT ![r] = found]
      /\ Goto(r, "listed") /\ UNCHANGED <<tables, chosen, target, history>>
  BY DEF ReadRun
<1>2. found \subseteq Cand /\ IsRun(found)
  BY DEF TriageInv, RunInv
<1>3. /\ runSeen' \in [Requests -> SUBSET Cand] /\ runSeen'[r] = found
      /\ \A q \in Requests \ {r} : runSeen'[q] = runSeen[q]
      /\ chosen' \in [Requests -> SUBSET Items(Cand)]
  BY <1>1, <1>2 DEF TriageInv, RequestsInv
<1>4. Named(r)' = Named(r)
  BY <1>1 DEF Named
<1>5. pc'[r] = "listed"
  BY <1>1 DEF TriageInv, RequestsInv, Goto
<1>6. r \in Active /\ r \in Active'
  BY <1>1, <1>5 DEF Active
<1>7. RequestInv(r)'
  <2>1. RequestInv(r) /\ target[r] = {}
    BY <1>1 DEF TriageInv, RequestsInv, RequestInv
  <2> QED
    BY <1>1, <1>2, <1>3, <1>4, <1>5, <1>6, <2>1 DEF RequestInv
<1>8. r \notin overtaken => Named(r)' \subseteq found
  BY <1>4, <1>6 DEF TriageInv, AgreementInv
<1> QED
  BY <1>1, <1>3, <1>7, <1>8, ProceedingKeeps

\* What has been matched, put down as ids.
TargetOf(r) == {[cand |-> p.cand, id |-> p.dec.id] : p \in {m \in Matched(r) : m.cand \in Named(r)}}

\* A handler that goes on with what it has just matched.
LEMMA MatchingKeeps ==
    ASSUME TriageInv, NEW r \in Requests, pc[r] = "listed",
           r \in Singles \union Bulks
                \/ \E p \in Matched(r) : p.cand \in Named(r) /\ MayCarry(p.dec),
           target' = [target EXCEPT ![r] = TargetOf(r)], Goto(r, "matched"),
           UNCHANGED <<tables, chosen, runSeen, history>>
    PROVE  TriageInv'
<1>1. /\ pc' \in [Requests -> Phases] /\ pc'[r] = "matched"
      /\ \A q \in Requests \ {r} : pc'[q] = pc[q] /\ target'[q] = target[q]
      /\ target'[r] = TargetOf(r)
  BY DEF TriageInv, RequestsInv, Goto, Phases
<1>2. ASSUME NEW q \in Requests \ {r}
      PROVE  /\ RequestInv(q)' /\ Named(q)' = Named(q) /\ (q \in Active <=> q \in Active')
             /\ \A c : IdsFor(q, c)' = IdsFor(q, c)
  BY <1>1, Bystander DEF TriageInv, RequestsInv, tables
<1>3. Active' = Active /\ r \in Active
  BY <1>1, <1>2 DEF Active
<1>4. Named(r)' = Named(r)
  BY DEF Named
<1>5. /\ \A p \in Matched(r) : p.cand \in runSeen[r] /\ p.dec \in decisions
      /\ \A p, q \in Matched(r) : p.cand = q.cand \/ p.dec.id = q.dec.id => p = q
  BY MatchedIsOneToOne DEF TriageInv
<1>6. \A t \in TargetOf(r) : \E p \in Matched(r) : /\ p.cand \in Named(r)
                                                   /\ t = [cand |-> p.cand, id |-> p.dec.id]
  BY DEF TargetOf
<1>7. ASSUME NEW t \in TargetOf(r)
      PROVE  t \in [cand : Cand, id : Nat] /\ t.cand \in Named(r) /\ t.id \in Ids(decisions)
  <2>1. PICK p \in Matched(r) : /\ p.cand \in Named(r)
                                /\ t = [cand |-> p.cand, id |-> p.dec.id]
    BY <1>6
  <2>2. p.cand \in Cand
    BY <1>5 DEF TriageInv, RequestsInv
  <2>3. p.dec \in decisions /\ p.dec.id \in Nat
    BY <1>5 DEF TriageInv, RowsInv, DecisionRow
  <2> QED
    BY <2>1, <2>2, <2>3 DEF Ids
<1>8. ASSUME NEW t \in TargetOf(r), NEW u \in TargetOf(r), t.cand = u.cand \/ t.id = u.id
      PROVE  t = u
  <2>1. PICK p \in Matched(r) : t = [cand |-> p.cand, id |-> p.dec.id]
    BY <1>6
  <2>2. PICK q \in Matched(r) : u = [cand |-> q.cand, id |-> q.dec.id]
    BY <1>6
  <2>3. p = q
    BY <1>5, <1>8, <2>1, <2>2
  <2> QED
    BY <2>1, <2>2, <2>3
<1>9. RowsInv'
  BY DEF TriageInv, RowsInv, tables
<1>10. RequestsInv'
  <2>1. target' \in [Requests -> SUBSET [cand : Cand, id : Nat]]
    BY <1>7 DEF TriageInv, RequestsInv
  <2>2. RequestInv(r)
    BY DEF TriageInv, RequestsInv
  <2>3. RequestInv(r)'
    <3>1. /\ \A t \in target'[r] : t.cand \in Named(r)' /\ t.id \in Ids(decisions')
          /\ \A t, u \in target'[r] : t.cand = u.cand \/ t.id = u.id => t = u
      BY <1>1, <1>4, <1>7, <1>8 DEF tables
    <3> QED
      BY <1>1, <1>3, <1>4, <2>2, <3>1 DEF RequestInv
  <2> QED
    BY <1>1, <1>2, <2>1, <2>3 DEF TriageInv, RequestsInv
<1>11. RunInv'
  BY <1>3 DEF TriageInv, RunInv, tables, history
<1>12. ASSUME r \notin overtaken, NEW c \in Named(r) PROVE Agrees(r, c)'
  <2>1. runSeen[r] = found
    BY <1>3, <1>12 DEF TriageInv, AgreementInv
  <2> DEFINE M == {p \in Match(found, decisions) : p.cand = c}
  <2>2. DecisionsOn(c, found, decisions) = {p.dec : p \in M}
    BY DEF DecisionsOn
  <2>3. IdsFor(r, c)' = {p.dec.id : p \in M}
    <3>1. ASSUME NEW t \in TargetOf(r), t.cand = c PROVE t.id \in {p.dec.id : p \in M}
      BY <1>6, <2>1, <3>1 DEF Matched
    <3>2. ASSUME NEW p \in M PROVE [cand |-> c, id |-> p.dec.id] \in TargetOf(r)
      BY <1>12, <2>1 DEF Matched, TargetOf
    <3>3. IdsFor(r, c)' = {t.id : t \in {u \in TargetOf(r) : u.cand = c}}
      BY <1>1 DEF IdsFor
    <3>4. ASSUME NEW p \in M
          PROVE  p.dec.id \in {t.id : t \in {u \in TargetOf(r) : u.cand = c}}
      <4> DEFINE t == [cand |-> c, id |-> p.dec.id]
      <4>1. t \in TargetOf(r) /\ t.cand = c /\ t.id = p.dec.id
        BY <3>2
      <4> HIDE DEF t
      <4> QED
        BY <4>1
    <3> HIDE DEF M
    <3> QED
      BY <3>1, <3>3, <3>4
  <2>4. Ids(DecisionsOn(c, found, decisions)) = {p.dec.id : p \in M}
    BY <2>2 DEF Ids
  <2> QED
    BY <2>3, <2>4 DEF Agrees, tables
<1>13. AgreementInv'
  <2>1. ASSUME NEW q \in Active' \ overtaken'
        PROVE  Named(q)' \subseteq found' /\ (pc'[q] # "resolved" => runSeen'[q] = found')
    <3>1. q \in Requests /\ q \in Active \ overtaken /\ Named(q)' = Named(q)
          /\ (pc'[q] # "resolved" => pc[q] # "resolved")
      BY <1>1, <1>2, <1>3, <1>4, <2>1 DEF Active, history
    <3> QED
      BY <3>1 DEF TriageInv, AgreementInv, tables
  <2>2. ASSUME NEW q \in Requests \ overtaken', pc'[q] = "matched",
               NEW c \in Named(q)'
        PROVE  Agrees(q, c)' \/ (q \in crossed' /\ Forestalled(q, c)')
    <3>1. CASE q = r
      BY <1>4, <1>12, <2>2, <3>1 DEF history
    <3>2. CASE q # r
      <4>1. q \in Requests \ {r} /\ q \notin overtaken /\ pc[q] = "matched" /\ c \in Named(q)
        BY <1>1, <1>2, <2>2, <3>2 DEF Requests, history
      <4>2. Agrees(q, c) \/ (q \in crossed /\ Forestalled(q, c))
        BY <2>2, <4>1 DEF TriageInv, AgreementInv
      <4>3. IdsFor(q, c)' = IdsFor(q, c)
        BY <1>2, <4>1
      <4> QED
        BY <4>2, <4>3 DEF Agrees, Forestalled, tables, history
    <3> QED
      BY <3>1, <3>2
  <2> QED
    BY <2>1, <2>2 DEF AgreementInv
<1>14. CarryInv'
  <2> SUFFICES ASSUME NEW q \in (Attaches \union Mints) \ crossed', pc'[q] = "matched",
                      NEW t \in target'[q]
               PROVE  \E d \in decisions' : d.id = t.id /\ d.action = "confirmed"
    BY DEF CarryInv
  <2>1. q \in Requests /\ q \notin crossed
    BY DEF Requests, history
  <2>2. CASE q = r
    <3>1. q \notin Singles \union Bulks
      BY TriageRequestsAssumption
    <3>2. PICK p \in Matched(r) : p.cand \in Named(r) /\ MayCarry(p.dec)
      BY <2>2, <3>1
    <3>3. PICK m \in Matched(r) : /\ m.cand \in Named(r)
                                  /\ t = [cand |-> m.cand, id |-> m.dec.id]
      BY <1>1, <1>6, <2>2
    <3>4. m.cand = p.cand
      BY <2>2, <3>1, <3>2, <3>3 DEF Named, TriageInv, RequestsInv, RequestInv
    <3>5. m = p
      BY <1>5, <3>4
    <3> QED
      BY <1>5, <3>2, <3>3, <3>5 DEF MayCarry, tables
  <2>3. CASE q # r
    BY <1>1, <2>1, <2>3 DEF TriageInv, CarryInv, tables
  <2> QED
    BY <2>2, <2>3
<1>15. HoldingInv'
  <2> SUFFICES ASSUME NEW q \in Attaches \union Mints, pc'[q] = "matched", NEW c \in Named(q)'
               PROVE  IdsFor(q, c)' # {}
    BY DEF HoldingInv
  <2>1. CASE q = r
    <3>1. q \notin Singles \union Bulks
      BY TriageRequestsAssumption
    <3>2. PICK p \in Matched(r) : p.cand \in Named(r)
      BY <2>1, <3>1
    <3>3. p.cand = c
      BY <1>4, <2>1, <3>1, <3>2 DEF Named, TriageInv, RequestsInv, RequestInv
    <3> DEFINE t == [cand |-> c, id |-> p.dec.id]
    <3>4. t \in target'[r] /\ t.cand = c
      BY <1>1, <3>2, <3>3 DEF TargetOf
    <3>5. t.id \in IdsFor(r, c)'
      <4> HIDE DEF t
      <4> QED
        BY <3>4 DEF IdsFor
    <3> QED
      BY <2>1, <3>5
  <2>2. CASE q # r
    <3>1. q \in Requests \ {r} /\ pc[q] = "matched"
      BY <1>1, <2>2 DEF Requests
    <3> QED
      BY <1>2, <3>1 DEF TriageInv, HoldingInv
  <2> QED
    BY <2>1, <2>2
<1> QED
  BY <1>9, <1>10, <1>11, <1>13, <1>14, <1>15 DEF TriageInv

LEMMA ReadDecisionsKeeps ==
    ASSUME TriageInv, NEW r \in Requests, ReadDecisions(r)
    PROVE  TriageInv'
<1> DEFINE pairs == {p \in Matched(r) : p.cand \in Named(r)}
<1>1. CASE /\ r \in Singles \union Bulks \/ \E p \in pairs : MayCarry(p.dec)
           /\ target' = [target EXCEPT ![r] = {[cand |-> p.cand, id |-> p.dec.id] : p \in pairs}]
           /\ Goto(r, "matched")
           /\ UNCHANGED <<chosen, runSeen, history>>
  <2>1. target' = [target EXCEPT ![r] = TargetOf(r)]
    BY <1>1 DEF TargetOf
  <2>2. pc[r] = "listed" /\ UNCHANGED <<tables, chosen, runSeen, history>>
    BY <1>1 DEF ReadDecisions
  <2>3. r \in Singles \union Bulks \/ \E p \in Matched(r) : p.cand \in Named(r) /\ MayCarry(p.dec)
    BY <1>1
  <2> QED
    BY <1>1, <2>1, <2>2, <2>3, MatchingKeeps
<1>2. CASE Leaves(r) /\ Answer(r, "done")
  <2>1. UNCHANGED tables
    BY DEF ReadDecisions
  <2> QED
    BY <1>2, <2>1, AnsweringKeeps DEF tables, TriageInv, RunInv
<1> QED
  BY <1>1, <1>2 DEF ReadDecisions

LEMMA AttachPhotosKeeps ==
    ASSUME TriageInv, NEW r \in Requests, AttachPhotos(r)
    PROVE  TriageInv'
<1>1. TargetIds(r) \subseteq Ids(decisions)
  BY DEF TargetIds, TriageInv, RequestsInv, RequestInv
<1> QED
  BY <1>1, AnsweringKeeps DEF AttachPhotos, TriageInv, RunInv

LEMMA CreateShareLinkKeeps ==
    ASSUME TriageInv, NEW r \in Requests, CreateShareLink(r)
    PROVE  TriageInv'
<1>1. TargetIds(r) \subseteq Ids(decisions)
  BY DEF TargetIds, TriageInv, RequestsInv, RequestInv
<1> QED
  BY <1>1, AnsweringKeeps DEF CreateShareLink, TriageInv, RunInv

\* A decision that lands: whoever is under way beside it and is not overtaken
\* has matched what is shown now, or was forestalled by it.
LEMMA DecidingKeeps ==
    ASSUME TriageInv, NEW r \in Singles \union Bulks, pc[r] = "matched",
           AnchorsDistinct(AfterWrite(r)), decisions' = AfterWrite(r),
           Crosses(r), Answer(r, "done"), UNCHANGED <<run, found, photoOn, sharedOn>>
    PROVE  TriageInv'
<1>1. r \in Requests /\ r \in Active
  BY DEF Requests, Active
<1>2. /\ RowsInv' /\ Ids(decisions) \subseteq Ids(decisions')
  BY <1>1, WriteNumbers DEF TriageInv, RowsInv
<1>3. /\ RequestsInv' /\ Active' = Active \ {r} /\ pc'[r] = "done"
      /\ \A q \in Requests \ {r} : /\ pc'[q] = pc[q] /\ chosen'[q] = chosen[q]
                                   /\ runSeen'[q] = runSeen[q] /\ target'[q] = target[q]
  BY <1>1, <1>2, AnswerLeaves DEF TriageInv
<1>4. /\ crossed' = Active \ {r}
      /\ overtaken' = (IF r \in overtaken THEN Active ELSE overtaken) \ {r}
  BY DEF Crosses
<1>5. RunInv'
  BY <1>2, <1>3, <1>4 DEF TriageInv, RunInv
<1>6. ASSUME NEW q \in Active' \ overtaken'
      PROVE  q \in Requests \ {r} /\ q \in Active \ overtaken /\ r \notin overtaken
  BY <1>3, <1>4, <1>6 DEF Active
<1>7. \A q \in Requests \ {r} : Named(q)' = Named(q) /\ \A c : IdsFor(q, c)' = IdsFor(q, c)
  BY <1>3 DEF Named, IdsFor
<1>8. ASSUME r \notin overtaken
      PROVE  /\ IsRun(found) /\ Named(r) \subseteq found
             /\ \A c \in Named(r) : Agrees(r, c) \/ Forestalled(r, c)
             /\ \A c \in Named(r) : Agrees(r, c)
  <2>1. /\ IsRun(found) /\ Named(r) \subseteq found
        /\ \A c \in Named(r) : Agrees(r, c) \/ Forestalled(r, c)
    BY <1>1, <1>8 DEF TriageInv, RunInv, AgreementInv
  <2> QED
    BY <1>1, <2>1, IndexRefusesForestalled DEF TriageInv
<1>9. ASSUME r \notin overtaken, NEW q \in Requests \ {r}, NEW c \in Named(q), c \in found,
             Agrees(q, c) \/ Forestalled(q, c)
      PROVE  Agrees(q, c)' \/ Forestalled(q, c)'
  <2>1. IdsFor(q, c)' = IdsFor(q, c)
    BY <1>7
  <2>2. ASSUME NEW i \in chosen[r], i.cand = c
        PROVE  Agrees(q, c)' \/ Forestalled(q, c)'
    <3>1. WrittenFor(r, i) \in decisions' /\ Anchored(WrittenFor(r, i), c)
      BY <1>1, <2>2, WrittenRows DEF TriageInv
    <3>2. CASE IdsFor(q, c) = {}
      BY <2>1, <3>1, <3>2 DEF Forestalled
    <3>3. CASE IdsFor(q, c) # {}
      <4>1. IdsFor(q, c) = IdsFor(r, c)
        BY <1>8, <1>9, <2>2, <3>3 DEF Named, Agrees, Forestalled
      <4>2. i \notin Inserted(r)
        BY <2>2, <3>3, <4>1 DEF Inserted, IdsFor
      <4>3. PICK d \in decisions : /\ [cand |-> c, id |-> d.id] \in target[r]
                                   /\ WrittenFor(r, i) = Row(d.id, d.created, i)
        BY <1>1, <2>2, <4>2, WrittenRows DEF TriageInv
      <4>4. IdsFor(r, c) = {d.id}
        BY <1>1, <4>3 DEF IdsFor, TriageInv, RequestsInv, RequestInv
      <4>5. DecisionsOn(c, found, decisions') = {WrittenFor(r, i)}
        BY <1>1, <1>8, <1>9, <2>2, WriteIsLocal DEF TriageInv
      <4>6. Ids(DecisionsOn(c, found, decisions')) = {d.id}
        BY <4>3, <4>5 DEF Ids, Row
      <4> QED
        BY <2>1, <4>1, <4>4, <4>6 DEF Agrees
    <3> QED
      BY <3>2, <3>3
  <2>3. CASE c \in Named(r)
    BY <2>2, <2>3 DEF Named
  <2>4. CASE c \notin Named(r) /\ Agrees(q, c)
    <3>1. DecisionsOn(c, found, decisions') = DecisionsOn(c, found, decisions)
      BY <1>1, <1>8, <1>9, <2>4, WriteIsLocal DEF TriageInv
    <3> QED
      BY <2>1, <2>4, <3>1 DEF Agrees
  <2>5. CASE c \notin Named(r) /\ Forestalled(q, c)
    <3>1. PICK d \in decisions : Anchored(d, c)
      BY <2>5 DEF Forestalled
    <3>2. IdsFor(r, c) = {}
      BY <1>1, <2>5 DEF IdsFor, TriageInv, RequestsInv, RequestInv
    <3>3. d \in Untouched(r)
      BY <1>1, <1>8, <1>9, <3>1, <3>2, AnchoredStays DEF TriageInv
    <3>4. d \in decisions'
      BY <1>1, <3>3, WrittenRows DEF TriageInv
    <3> QED
      BY <2>1, <2>5, <3>1, <3>4 DEF Forestalled
  <2> QED
    BY <1>9, <2>3, <2>4, <2>5
<1>10. AgreementInv'
  <2>1. ASSUME NEW q \in Active' \ overtaken'
        PROVE  Named(q)' \subseteq found' /\ (pc'[q] # "resolved" => runSeen'[q] = found')
    BY <1>3, <1>6, <1>7, <2>1 DEF TriageInv, AgreementInv
  <2>2. ASSUME NEW q \in Requests \ overtaken', pc'[q] = "matched",
               NEW c \in Named(q)'
        PROVE  q \in crossed' /\ (Agrees(q, c)' \/ Forestalled(q, c)')
    <3>1. q \in Active'
      BY <2>2 DEF Active, Requests
    <3>2. q \in Requests \ {r} /\ q \in Active \ overtaken /\ r \notin overtaken
      BY <1>6, <2>2, <3>1
    <3>3. c \in Named(q) /\ c \in found /\ pc[q] = "matched"
      BY <1>3, <1>7, <2>2, <3>2 DEF TriageInv, AgreementInv
    <3>4. Agrees(q, c) \/ Forestalled(q, c)
      BY <2>2, <3>2, <3>3 DEF TriageInv, AgreementInv
    <3> QED
      BY <1>4, <1>9, <3>2, <3>3, <3>4
  <2> QED
    BY <2>1, <2>2 DEF AgreementInv
<1>11. CarryInv'
  <2>1. \A q \in (Attaches \union Mints) \ crossed' : pc'[q] # "matched"
    BY <1>3, <1>4 DEF Active, Requests
  <2> QED
    BY <2>1 DEF CarryInv
<1>12. HoldingInv'
  <2> SUFFICES ASSUME NEW q \in Attaches \union Mints, pc'[q] = "matched", NEW c \in Named(q)'
               PROVE  IdsFor(q, c)' # {}
    BY DEF HoldingInv
  <2>1. q \in Requests \ {r} /\ pc[q] = "matched"
    BY <1>3 DEF Requests
  <2> QED
    BY <1>7, <2>1 DEF TriageInv, HoldingInv
<1> QED
  BY <1>2, <1>3, <1>5, <1>10, <1>11, <1>12 DEF TriageInv

LEMMA DecideKeeps ==
    ASSUME TriageInv, NEW r \in Requests, Decide(r)
    PROVE  TriageInv'
<1>1. r \in Singles \union Bulks /\ pc[r] = "matched" /\ UNCHANGED <<run, found, photoOn, sharedOn>>
  BY DEF Decide
<1>2. CASE AnchorsDistinct(AfterWrite(r))
  <2>1. decisions' = AfterWrite(r) /\ Crosses(r) /\ Answer(r, "done")
    BY <1>2 DEF Decide
  <2> QED
    BY <1>1, <1>2, <2>1, DecidingKeeps
<1>3. CASE ~AnchorsDistinct(AfterWrite(r))
  <2>1. UNCHANGED decisions /\ Leaves(r) /\ Answer(r, "conflict")
    BY <1>3 DEF Decide
  <2> QED
    BY <1>1, <2>1, AnsweringKeeps DEF TriageInv, RunInv
<1> QED
  BY <1>2, <1>3

LEMMA StutterKeeps == TriageInv /\ UNCHANGED vars => TriageInv'
<1> SUFFICES ASSUME TriageInv, UNCHANGED vars PROVE TriageInv'
  OBVIOUS
<1>1. UNCHANGED <<run, found, decisions, photoOn, sharedOn, pc, chosen, runSeen, target,
                  overtaken, crossed>>
  BY DEF vars, tables, history
<1>2. RowsInv' /\ RunInv' /\ CarryInv' /\ HoldingInv'
  BY <1>1 DEF TriageInv, RowsInv, RunInv, CarryInv, HoldingInv, Active, Named, IdsFor
<1>3. \A r \in Requests : RequestInv(r)'
  BY <1>1, Bystander DEF TriageInv, RequestsInv
<1>4. RequestsInv'
  BY <1>1, <1>3 DEF TriageInv, RequestsInv
<1>5. AgreementInv'
  BY <1>1 DEF TriageInv, AgreementInv, Active, Named, Agrees, Forestalled, IdsFor
<1> QED
  BY <1>2, <1>4, <1>5 DEF TriageInv

LEMMA NextKeeps == TriageInv /\ [Next]_vars => TriageInv'
<1> SUFFICES ASSUME TriageInv, [Next]_vars PROVE TriageInv'
  OBVIOUS
<1>1. ASSUME NEW spans \in Detections, SaveRun(spans) PROVE TriageInv'
  BY <1>1, SaveRunKeeps
<1>2. ASSUME NEW r \in Requests, NEW c \in EverFound, NEW action \in ActionsOf(r),
             Resolve(r, c, action)
      PROVE  TriageInv'
  BY <1>2, ResolveKeeps
<1>3. ASSUME NEW r \in Requests, NEW items \in SUBSET Items(found), ReadRunForBulk(r, items)
      PROVE  TriageInv'
  BY <1>3, ReadRunForBulkKeeps
<1>4. ASSUME NEW r \in Requests, ReadRun(r) PROVE TriageInv'
  BY <1>4, ReadRunKeeps
<1>5. ASSUME NEW r \in Requests, ReadDecisions(r) PROVE TriageInv'
  BY <1>5, ReadDecisionsKeeps
<1>6. ASSUME NEW r \in Requests, Decide(r) PROVE TriageInv'
  BY <1>6, DecideKeeps
<1>7. ASSUME NEW r \in Requests, AttachPhotos(r) PROVE TriageInv'
  BY <1>7, AttachPhotosKeeps
<1>8. ASSUME NEW r \in Requests, CreateShareLink(r) PROVE TriageInv'
  BY <1>8, CreateShareLinkKeeps
<1>9. UNCHANGED vars => TriageInv'
  BY StutterKeeps
<1> QED
  BY <1>1, <1>2, <1>3, <1>4, <1>5, <1>6, <1>7, <1>8, <1>9 DEF Next

LEMMA TriageInvHolds == Spec => []TriageInv
BY InitEstablishes, NextKeeps, PTL DEF Spec

-----------------------------------------------------------------------------
(* The theorems. *)

\* The types, and that ids tell decisions apart and always name one that is
\* there: decisions are never deleted by any handler, and a bulk write numbers
\* its rows as store.InsertDecision does.
THEOREM TypeCorrect == Spec => []TypeOK
<1>1. TriageInv => TypeOK
  <2> SUFFICES ASSUME TriageInv PROVE TypeOK
    OBVIOUS
  <2>1. \A r \in Requests : TargetIds(r) \subseteq Ids(decisions)
    BY DEF TriageInv, RequestsInv, RequestInv, TargetIds
  <2>2. UNION {TargetIds(r) : r \in Requests} \subseteq {d.id : d \in decisions}
    BY <2>1 DEF Ids
  <2> QED
    BY <2>2 DEF TypeOK, TriageInv, RowsInv, RequestsInv, RunInv, Ids
<1> QED
  BY <1>1, TriageInvHolds, PTL

\* The step of a decision that lands is the write.
LEMMA LandingIsWriting ==
    ASSUME TriageInv, Next, NEW r \in Requests, Lands(r)
    PROVE  /\ found' = found /\ decisions' = AfterWrite(r)
           /\ AnchorsDistinct(AfterWrite(r))
<1>1. /\ r \in Singles \union Bulks /\ pc[r] = "matched" /\ pc'[r] = "done"
      /\ pc \in [Requests -> Phases]
  BY DEF Lands, TriageInv, RequestsInv
<1>2. ASSUME NEW q \in Requests, NEW phase, Goto(q, phase) PROVE q = r /\ phase = "done"
  BY <1>1, <1>2 DEF Goto
<1>3. ASSUME NEW spans \in Detections, SaveRun(spans) PROVE FALSE
  BY <1>1, <1>3 DEF SaveRun
<1>4. ASSUME NEW q \in Requests, NEW c, NEW action, Resolve(q, c, action) PROVE FALSE
  BY <1>2, <1>4 DEF Resolve
<1>5. ASSUME NEW q \in Requests, NEW items, ReadRunForBulk(q, items) PROVE FALSE
  BY <1>2, <1>5 DEF ReadRunForBulk
<1>6. ASSUME NEW q \in Requests, ReadRun(q) PROVE FALSE
  BY <1>2, <1>6 DEF ReadRun
<1>7. ASSUME NEW q \in Requests, ReadDecisions(q) PROVE FALSE
  <2>1. pc[q] = "listed" /\ \E phase : Goto(q, phase)
    BY <1>7 DEF ReadDecisions, Answer
  <2> QED
    BY <1>1, <1>2, <2>1
<1>8. ASSUME NEW q \in Requests, AttachPhotos(q) \/ CreateShareLink(q) PROVE FALSE
  <2>1. q \in Attaches \union Mints /\ Goto(q, "done")
    BY <1>8 DEF AttachPhotos, CreateShareLink, Answer
  <2> QED
    BY <1>1, <1>2, <2>1, TriageRequestsAssumption
<1>9. ASSUME NEW q \in Requests, Decide(q)
      PROVE  /\ found' = found /\ decisions' = AfterWrite(r)
             /\ AnchorsDistinct(AfterWrite(r))
  <2>1. CASE AnchorsDistinct(AfterWrite(q))
    <3>1. decisions' = AfterWrite(q) /\ Goto(q, "done") /\ found' = found
      BY <1>9, <2>1 DEF Decide, Answer
    <3> QED
      BY <1>2, <2>1, <3>1
  <2>2. CASE ~AnchorsDistinct(AfterWrite(q))
    <3>1. Goto(q, "conflict")
      BY <1>9, <2>2 DEF Decide, Answer
    <3> QED
      BY <1>2, <3>1
  <2> QED
    BY <2>1, <2>2
<1> QED
  BY <1>3, <1>4, <1>5, <1>6, <1>7, <1>8, <1>9 DEF Next

\* Deciding is local, whatever other handlers of the person write meanwhile:
\* unless a detection came in between, what was decided is shown where it was
\* decided, and no other candidate of the list changes its decision.
THEOREM DecidingIsLocal == Spec => DecideIsLocal
<1>1. ASSUME TriageInv, Next, NEW r \in Requests, Lands(r), r \notin overtaken
      PROVE  /\ \A i \in chosen[r] : \E d \in ShownOn(i.cand)' : d.action = i.action
             /\ \A c \in found \ Named(r) : ShownOn(c)' = ShownOn(c)
  <2>1. /\ found' = found /\ decisions' = AfterWrite(r)
        /\ AnchorsDistinct(AfterWrite(r))
    BY <1>1, LandingIsWriting
  <2>2. /\ r \in Active /\ r \in Singles \union Bulks /\ pc[r] = "matched"
    BY <1>1 DEF Lands, Active, Requests
  <2>3. /\ IsRun(found) /\ Named(r) \subseteq found
        /\ \A c \in Named(r) : Agrees(r, c) \/ Forestalled(r, c)
    BY <1>1, <2>2 DEF TriageInv, RunInv, AgreementInv
  <2>4. \A c \in Named(r) : Agrees(r, c)
    BY <1>1, <2>1, <2>3, IndexRefusesForestalled DEF TriageInv
  <2>5. /\ \A c \in found \ Named(r) :
                DecisionsOn(c, found, AfterWrite(r)) = DecisionsOn(c, found, decisions)
        /\ \A i \in chosen[r] : DecisionsOn(i.cand, found, AfterWrite(r)) = {WrittenFor(r, i)}
    BY <1>1, <2>3, <2>4, WriteIsLocal DEF TriageInv
  <2>6. ASSUME NEW i \in chosen[r]
        PROVE  \E d \in ShownOn(i.cand)' : d.action = i.action
    <3> DEFINE w == WrittenFor(r, i)
    <3>1. DecisionsOn(i.cand, found', decisions') = {w} /\ w.action = i.action
      BY <1>1, <2>1, <2>5, WrittenRows DEF TriageInv
    <3>2. [id |-> w.id, action |-> w.action] \in ShownOn(i.cand)'
      BY <3>1 DEF ShownOn
    <3> QED
      BY <3>1, <3>2
  <2>7. ASSUME NEW c \in found \ Named(r) PROVE ShownOn(c)' = ShownOn(c)
    BY <2>1, <2>5 DEF ShownOn
  <2> QED
    BY <2>6, <2>7
<1>2. TriageInv /\ [Next]_vars =>
        [\A r \in Requests : Lands(r) /\ r \notin overtaken =>
            /\ \A i \in chosen[r] : \E d \in ShownOn(i.cand)' : d.action = i.action
            /\ \A c \in found \ Named(r) : ShownOn(c)' = ShownOn(c)]_vars
  BY <1>1
<1> QED
  BY <1>2, TriageInvHolds, PTL DEF Spec, DecideIsLocal

\* The step that puts photos or links is AttachPhotos or CreateShareLink.
LEMMA PuttingIsCarrying ==
    ASSUME TriageInv, Next, NEW r \in Requests, Puts(r)
    PROVE  /\ UNCHANGED <<found, decisions>>
           /\ r \in Attaches => photoOn' = photoOn \union TargetIds(r) /\ sharedOn' = sharedOn
           /\ r \notin Attaches => sharedOn' = sharedOn \union TargetIds(r) /\ photoOn' = photoOn
<1>1. /\ r \in Attaches \union Mints /\ pc[r] = "matched" /\ pc'[r] = "done"
      /\ pc \in [Requests -> Phases]
  BY DEF Puts, TriageInv, RequestsInv
<1>2. ASSUME NEW q \in Requests, NEW phase, Goto(q, phase) PROVE q = r /\ phase = "done"
  BY <1>1, <1>2 DEF Goto
<1>3. ASSUME NEW spans \in Detections, SaveRun(spans) PROVE FALSE
  BY <1>1, <1>3 DEF SaveRun
<1>4. ASSUME NEW q \in Requests, NEW c, NEW action, Resolve(q, c, action) PROVE FALSE
  BY <1>2, <1>4 DEF Resolve
<1>5. ASSUME NEW q \in Requests, NEW items, ReadRunForBulk(q, items) PROVE FALSE
  BY <1>2, <1>5 DEF ReadRunForBulk
<1>6. ASSUME NEW q \in Requests, ReadRun(q) PROVE FALSE
  BY <1>2, <1>6 DEF ReadRun
<1>7. ASSUME NEW q \in Requests, ReadDecisions(q) PROVE FALSE
  <2>1. pc[q] = "listed" /\ \E phase : Goto(q, phase)
    BY <1>7 DEF ReadDecisions, Answer
  <2> QED
    BY <1>1, <1>2, <2>1
<1>8. ASSUME NEW q \in Requests, Decide(q) PROVE FALSE
  <2>1. q \in Singles \union Bulks /\ \E phase : Goto(q, phase)
    BY <1>8 DEF Decide, Answer
  <2> QED
    BY <1>1, <1>2, <2>1, TriageRequestsAssumption
<1>9. ASSUME NEW q \in Requests, AttachPhotos(q)
      PROVE  /\ q = r /\ r \in Attaches /\ UNCHANGED <<found, decisions>>
             /\ photoOn' = photoOn \union TargetIds(r) /\ sharedOn' = sharedOn
  <2>1. q = r
    BY <1>2, <1>9 DEF AttachPhotos, Answer
  <2> QED
    BY <1>9, <2>1 DEF AttachPhotos
<1>10. ASSUME NEW q \in Requests, CreateShareLink(q)
       PROVE  /\ q = r /\ r \in Mints /\ UNCHANGED <<found, decisions>>
              /\ sharedOn' = sharedOn \union TargetIds(r) /\ photoOn' = photoOn
  <2>1. q = r
    BY <1>2, <1>10 DEF CreateShareLink, Answer
  <2> QED
    BY <1>10, <2>1 DEF CreateShareLink
<1>11. r \in Mints => r \notin Attaches
  BY TriageRequestsAssumption
<1> QED
  BY <1>3, <1>4, <1>5, <1>6, <1>7, <1>8, <1>9, <1>10, <1>11 DEF Next

\* Unless a detection came in between, photos and share links land on the
\* decision their trip shows when they land, whatever other handlers wrote since
\* it was looked up, and on no other; and if nobody wrote, it is confirmed.
THEOREM CarriedByTheirTrips == Spec => CarriedByItsTrip
<1>1. ASSUME TriageInv, Next, NEW r \in Requests, Puts(r), r \notin overtaken,
             NEW i \in chosen[r]
      PROVE  /\ \E d \in ShownOn(i.cand)' :
                /\ d.id \in (IF r \in Attaches THEN photoOn' ELSE sharedOn')
                /\ d.action = "confirmed" \/ r \in crossed
             /\ (photoOn' \ photoOn) \union (sharedOn' \ sharedOn)
                    \subseteq {d.id : d \in ShownOn(i.cand)'}
  <2> DEFINE c == i.cand
             shown == DecisionsOn(c, found, decisions)
  <2>1. /\ UNCHANGED <<found, decisions>>
        /\ r \in Attaches => photoOn' = photoOn \union TargetIds(r) /\ sharedOn' = sharedOn
        /\ r \notin Attaches => sharedOn' = sharedOn \union TargetIds(r) /\ photoOn' = photoOn
    BY <1>1, PuttingIsCarrying
  <2>2. /\ r \in Attaches \union Mints /\ pc[r] = "matched" /\ r \in Active
        /\ c \in Named(r)
    BY <1>1 DEF Puts, Active, Named
  <2>3. IsRun(found) /\ c \in found
    BY <1>1, <2>2 DEF TriageInv, RunInv, AgreementInv
  <2>4. IdsFor(r, c) # {} /\ IdsFor(r, c) = Ids(shown)
    <3>1. IdsFor(r, c) # {}
      BY <1>1, <2>2 DEF TriageInv, HoldingInv
    <3>2. Agrees(r, c) \/ Forestalled(r, c)
      BY <1>1, <2>2 DEF TriageInv, AgreementInv
    <3> QED
      BY <3>1, <3>2 DEF Agrees, Forestalled
  <2>5. TargetIds(r) = IdsFor(r, c)
    <3>1. \A t \in target[r] : t.cand = c
      <4>1. r \notin Bulks
        BY <2>2, TriageRequestsAssumption
      <4> QED
        BY <1>1, <2>2, <4>1 DEF Named, TriageInv, RequestsInv, RequestInv
    <3> QED
      BY <3>1 DEF TargetIds, IdsFor
  <2>6. ShownOn(c)' = {[id |-> d.id, action |-> d.action] : d \in shown}
    BY <2>1 DEF ShownOn
  <2>7. shown \subseteq decisions
    BY <1>1, <2>3, ShownIsUnique DEF TriageInv
  <2>8. \E d \in ShownOn(c)' : /\ d.id \in (IF r \in Attaches THEN photoOn' ELSE sharedOn')
                               /\ d.action = "confirmed" \/ r \in crossed
    <3>1. PICK d \in shown : d.id \in TargetIds(r)
      BY <2>4, <2>5 DEF Ids
    <3> DEFINE e == [id |-> d.id, action |-> d.action]
    <3>2. e \in ShownOn(c)' /\ e.id = d.id /\ e.action = d.action
      BY <2>6
    <3>3. d.action = "confirmed" \/ r \in crossed
      <4> SUFFICES ASSUME r \notin crossed PROVE d.action = "confirmed"
        OBVIOUS
      <4>1. PICK t \in target[r] : t.id = d.id
        BY <3>1 DEF TargetIds
      <4>2. PICK f \in decisions : f.id = d.id /\ f.action = "confirmed"
        BY <1>1, <2>2, <4>1 DEF TriageInv, CarryInv
      <4> QED
        BY <1>1, <2>7, <4>2 DEF TriageInv, RowsInv
    <3>4. e.id \in (IF r \in Attaches THEN photoOn' ELSE sharedOn')
      BY <2>1, <3>1, <3>2
    <3> HIDE DEF e
    <3> QED
      BY <3>2, <3>3, <3>4
  <2>9. (photoOn' \ photoOn) \union (sharedOn' \ sharedOn) \subseteq {d.id : d \in ShownOn(c)'}
    <3>1. (photoOn' \ photoOn) \union (sharedOn' \ sharedOn) \subseteq Ids(shown)
      BY <2>1, <2>4, <2>5
    <3>2. ASSUME NEW d \in shown PROVE d.id \in {e.id : e \in ShownOn(c)'}
      <4> DEFINE e == [id |-> d.id, action |-> d.action]
      <4>1. e \in ShownOn(c)' /\ e.id = d.id
        BY <2>6
      <4> HIDE DEF e
      <4> QED
        BY <4>1
    <3> QED
      BY <3>1, <3>2 DEF Ids
  <2> QED
    BY <2>8, <2>9
<1>2. TriageInv /\ [Next]_vars =>
        [\A r \in Requests : Puts(r) /\ r \notin overtaken =>
            \A i \in chosen[r] :
                /\ \E d \in ShownOn(i.cand)' :
                    /\ d.id \in (IF r \in Attaches THEN photoOn' ELSE sharedOn')
                    /\ d.action = "confirmed" \/ r \in crossed
                /\ (photoOn' \ photoOn) \union (sharedOn' \ sharedOn)
                        \subseteq {d.id : d \in ShownOn(i.cand)'}]_vars
  BY <1>1
<1> QED
  BY <1>2, TriageInvHolds, PTL DEF Spec, CarriedByItsTrip

-----------------------------------------------------------------------------
(* A bulk write against single decisions, one after the other. *)

ContentOf(i) ==
    [action |-> i.action, start |-> i.cand.start, end |-> i.cand.end, dest |-> i.cand.dest]

LEMMA RowContents ==
    ASSUME NEW D, NEW n, NEW at, NEW i
    PROVE  Contents(D \union {Row(n, at, i)}) = Contents(D) \union {ContentOf(i)}
<1> DEFINE of(d) == [action |-> d.action, start |-> d.start, end |-> d.end, dest |-> d.dest]
           w == Row(n, at, i)
<1>1. of(w) = ContentOf(i)
  BY DEF Row, ContentOf
<1>2. Contents(D \union {w}) = {of(d) : d \in D \union {w}} /\ Contents(D) = {of(d) : d \in D}
  BY DEF Contents
<1> HIDE DEF of, w
<1>3. {of(d) : d \in D \union {w}} = {of(d) : d \in D} \union {of(w)}
  OBVIOUS
<1> QED
  BY <1>1, <1>2, <1>3 DEF w

\* A single decision puts one row in the place of what is shown.
LEMMA OneRowForAnother ==
    ASSUME NEW D, NEW i,
           \A d, e \in DecisionsOn(i.cand, found, D) : d = e
    PROVE  LET mine == DecisionsOn(i.cand, found, D) IN
           \E n, at : /\ AfterOne(D, i) = (D \ mine) \union {Row(n, at, i)}
                      /\ mine = {} => n = Cardinality(D) + 1 /\ at = n
                      /\ \A d \in mine : n = d.id /\ at = d.created
<1> DEFINE mine == DecisionsOn(i.cand, found, D)
<1>1. CASE mine = {}
  BY <1>1 DEF AfterOne
<1>2. CASE mine # {}
  <2>1. PICK d \in mine : mine = {d}
    BY <1>2
  <2>2. AfterOne(D, i) = (D \ mine) \union {Row(e.id, e.created, i) : e \in mine}
    BY <1>2 DEF AfterOne
  <2> HIDE DEF mine
  <2>3. AfterOne(D, i) = (D \ mine) \union {Row(d.id, d.created, i)}
    BY <2>1, <2>2
  <2> QED
    BY <2>1, <2>3 DEF mine
<1> QED
  BY <1>1, <1>2

\* The other candidates show after a single decision what they did before.
LEMMA OneDecision ==
    ASSUME RowsInv, RequestsInv, IsRun(found), found \subseteq Cand,
           NEW i \in Items(Cand), i.cand \in found
    PROVE  LET D == AfterOne(decisions, i)
               mine == DecisionsOn(i.cand, found, decisions) IN
           \E n, at :
                /\ D = (decisions \ mine) \union {Row(n, at, i)}
                /\ \A c \in found \ {i.cand} :
                    /\ DecisionsOn(c, found, D) = DecisionsOn(c, found, decisions)
                    /\ Row(n, at, i) \notin DecisionsOn(c, found, D)
<1> DEFINE M == Match(found, decisions)
           mine == DecisionsOn(i.cand, found, decisions)
           D == AfterOne(decisions, i)
           K == {i.cand}
<1>1. \A d \in mine : d \in decisions /\ [cand |-> i.cand, dec |-> d] \in M
  BY ShownIsUnique
<1>2. \A d, e \in mine : d = e
  BY ShownIsOne
<1>3. PICK n, at : /\ D = (decisions \ mine) \union {Row(n, at, i)}
                   /\ mine = {} => n = Cardinality(decisions) + 1 /\ at = n
                   /\ \A d \in mine : n = d.id /\ at = d.created
  BY <1>2, OneRowForAnother
<1> DEFINE w == Row(n, at, i)
           new == [c \in K |-> w]
<1>4. /\ IsFiniteSet(decisions) /\ Cardinality(decisions) \in Nat
      /\ \A d \in decisions : d \in DecisionRow /\ d.id \in Nat \ {0} /\ d.created \in Nat
                              /\ d.id <= Cardinality(decisions)
      /\ \A d, e \in decisions : d.id = e.id => d = e
  BY FS_CardinalityType DEF RowsInv, DecisionRow
<1>5. n \in Nat \ {0} /\ at \in Nat /\ \A d \in decisions \ mine : d.id # n
  <2>1. CASE mine = {}
    BY <1>3, <1>4, <2>1
  <2>2. CASE mine # {}
    BY <1>1, <1>3, <1>4, <2>2
  <2> QED
    BY <2>1, <2>2
<1>6. /\ w \in DecisionRow /\ w.id = n /\ w.created = at /\ Anchored(w, i.cand)
  BY <1>5 DEF Row, DecisionRow, Anchored, Items, Cand
<1>7. WellFormed(found, decisions) /\ WellFormed(found, D)
  <2>1. WellFormed(found, decisions)
    BY TablesAreWellFormed, <1>4 DEF WellFormed, IsRun, AreTrips, DecisionRow
  <2>2. IsFiniteSet(D) /\ D \subseteq DecisionRow
    <3>1. IsFiniteSet(decisions \ mine)
      BY <1>4, FS_Subset
    <3>2. IsFiniteSet(D)
      <4> HIDE DEF D, w, mine
      <4> QED
        BY <1>3, <3>1, FS_AddElement DEF w
    <3> QED
      BY <1>3, <1>4, <1>6, <3>2
  <2>3. \A d, e \in D : d.id = e.id => d = e
    BY <1>3, <1>4, <1>5, <1>6
  <2> QED
    BY <2>1, <2>2, <2>3 DEF WellFormed, DecisionRow
<1>8. Rewrites(D, decisions, found, K, new)
  <2>1. {d \in decisions : \A c \in K : [cand |-> c, dec |-> d] \notin M} = decisions \ mine
    <3>1. \A d \in decisions : [cand |-> i.cand, dec |-> d] \in M => d \in mine
      BY ShownIsUnique
    <3> QED
      BY <1>1, <3>1
  <2>2. {new[c] : c \in K} = {w} /\ new[i.cand] = w
    OBVIOUS
  <2>3. w \notin decisions \ mine
    BY <1>5, <1>6
  <2>4. \A d \in decisions : [cand |-> i.cand, dec |-> d] \in M =>
            w.id = d.id /\ w.created = d.created
    BY <1>3, <1>6, ShownIsUnique
  <2> HIDE DEF D, w, mine
  <2> QED
    BY <1>3, <1>6, <2>1, <2>2, <2>3, <2>4 DEF Rewrites, w
<1>9. Match(found, D) = {p \in M : p.cand \notin K} \union {[cand |-> c, dec |-> new[c]] : c \in K}
  BY <1>7, <1>8, RewritingIsLocal
<1>10. ASSUME NEW c \in found \ {i.cand}
       PROVE  /\ DecisionsOn(c, found, D) = DecisionsOn(c, found, decisions)
              /\ w \notin DecisionsOn(c, found, D)
  <2>1. {q \in Match(found, D) : q.cand = c} = {q \in M : q.cand = c}
    BY <1>9
  <2>2. DecisionsOn(c, found, D) = DecisionsOn(c, found, decisions)
    BY <2>1 DEF DecisionsOn
  <2>3. ~Compatible(c, w)
    BY <1>6, AnchoredIsCompatible
  <2> QED
    BY <2>2, <2>3, ShownIsUnique
<1> QED
  BY <1>3, <1>10

\* "The batch adds nothing but the transaction": where nobody interferes, a bulk
\* decision leaves the rows its decisions would have left one after the other.
THEOREM BulksAddNothing == Spec => []BulkAddsNothing
<1>1. TriageInv => BulkAddsNothing
  <2> SUFFICES ASSUME TriageInv, NEW r \in Bulks, pc[r] = "matched",
                      r \notin overtaken \union crossed,
                      NEW i \in chosen[r], NEW j \in chosen[r], chosen[r] = {i, j}, i # j
               PROVE  Contents(AfterWrite(r)) = Contents(AfterOne(AfterOne(decisions, i), j))
    BY DEF BulkAddsNothing
  <2> DEFINE mine(k) == DecisionsOn(k.cand, found, decisions)
             D == AfterOne(decisions, i)
             rest == (decisions \ mine(i)) \ mine(j)
  <2>1. RowsInv /\ RequestsInv /\ IsRun(found) /\ found \subseteq Cand /\ r \in Requests
    BY DEF TriageInv, RunInv, Requests
  <2>2. r \in Active /\ Named(r) \subseteq found /\ \A c \in Named(r) : Agrees(r, c)
    BY <2>1 DEF Active, TriageInv, AgreementInv
  <2>3. /\ i \in Items(Cand) /\ j \in Items(Cand) /\ i.cand # j.cand
        /\ i.cand \in found /\ j.cand \in found /\ Named(r) = {i.cand, j.cand}
    BY <2>1, <2>2 DEF Named, RequestsInv, RequestInv
  <2>4. Contents(AfterOne(D, j)) = Contents(rest) \union {ContentOf(i), ContentOf(j)}
    <3>1. PICK n, at :
            /\ D = (decisions \ mine(i)) \union {Row(n, at, i)}
            /\ DecisionsOn(j.cand, found, D) = mine(j)
            /\ Row(n, at, i) \notin mine(j)
      BY <2>1, <2>3, OneDecision
    <3>2. \A d, e \in mine(j) : d = e
      BY <2>1, <2>3, ShownIsOne
    <3>3. PICK m, on : AfterOne(D, j) = (D \ mine(j)) \union {Row(m, on, j)}
      BY <3>1, <3>2, OneRowForAnother
    <3>4. D \ mine(j) = rest \union {Row(n, at, i)}
      BY <3>1
    <3>5. Contents(rest \union {Row(n, at, i)}) = Contents(rest) \union {ContentOf(i)}
      BY RowContents
    <3>6. Contents((D \ mine(j)) \union {Row(m, on, j)}) = Contents(D \ mine(j)) \union {ContentOf(j)}
      BY RowContents
    <3> HIDE DEF D, rest, mine
    <3> QED
      BY <3>3, <3>4, <3>5, <3>6
  <2>5. Untouched(r) = rest
    <3>1. \A k \in {i, j} : Ids(mine(k)) = IdsFor(r, k.cand) /\ mine(k) \subseteq decisions
      BY <2>1, <2>2, <2>3, ShownIsUnique DEF Agrees
    <3>2. ASSUME NEW d \in decisions, NEW t \in target[r], t.id = d.id PROVE d \notin rest
      <4>1. PICK k \in {i, j} : t.cand = k.cand
        BY <2>1, <2>3 DEF RequestsInv, RequestInv
      <4>2. d.id \in Ids(mine(k))
        BY <3>1, <3>2, <4>1 DEF IdsFor
      <4>3. PICK e \in mine(k) : e.id = d.id
        BY <4>2 DEF Ids
      <4>4. e \in decisions
        BY <3>1, <4>3
      <4>5. e = d
        BY <2>1, <4>3, <4>4 DEF RowsInv
      <4> QED
        BY <4>3, <4>5
    <3>3. ASSUME NEW d \in decisions, NEW k \in {i, j}, d \in mine(k)
          PROVE  \E t \in target[r] : t.id = d.id
      <4>1. d.id \in IdsFor(r, k.cand)
        BY <3>1, <3>3 DEF Ids
      <4> QED
        BY <4>1 DEF IdsFor
    <3> QED
      BY <3>2, <3>3 DEF Untouched
  <2>6. Contents(AfterWrite(r)) = Contents(rest) \union {ContentOf(i), ContentOf(j)}
    <3>1. ASSUME NEW k \in chosen[r] PROVE \E n, at : WrittenFor(r, k) = Row(n, at, k)
      BY DEF WrittenFor, Refreshed
    <3>2. PICK n, at : WrittenFor(r, i) = Row(n, at, i)
      BY <3>1
    <3>3. PICK m, on : WrittenFor(r, j) = Row(m, on, j)
      BY <3>1
    <3>4. AfterWrite(r) = rest \union {WrittenFor(r, k) : k \in chosen[r]}
      BY <2>1, <2>5, WrittenRows
    <3>5. AfterWrite(r) = (rest \union {Row(n, at, i)}) \union {Row(m, on, j)}
      BY <3>2, <3>3, <3>4
    <3>6. Contents(rest \union {Row(n, at, i)}) = Contents(rest) \union {ContentOf(i)}
      BY RowContents
    <3>7. Contents((rest \union {Row(n, at, i)}) \union {Row(m, on, j)})
            = Contents(rest \union {Row(n, at, i)}) \union {ContentOf(j)}
      BY RowContents
    <3> HIDE DEF rest
    <3> QED
      BY <3>5, <3>6, <3>7
  <2> QED
    BY <2>4, <2>6
<1> QED
  BY <1>1, TriageInvHolds, PTL
=================================================================================
