----------------------------- MODULE DetectionProofs ----------------------------
(***************************************************************************)
(* What detection keeps true of any history, however long.                 *)
(***************************************************************************)
EXTENDS MCDetection, FiniteSetTheorems, SequenceTheorems, NaturalsInduction, TLAPS

-----------------------------------------------------------------------------
(* Folds.  The library's folds take the largest index of a set each time; on *)
(* the indices up to k that is k.                                            *)

\* A set of numbers that is not empty has a least one.
LEMMA Least ==
    ASSUME NEW N, N \subseteq Nat, N # {}
    PROVE  \E n \in N : \A m \in N : n <= m
<1>1. PICK n \in N : \A m \in N : ~(<<m, n>> \in OpToRel(<, Nat))
  BY NatLessThanWellFounded, WFMin
<1>2. \A a, b \in Nat : a < b => <<a, b>> \in OpToRel(<, Nat)
  BY DEF OpToRel
<1>3. \A m \in N : m \in Nat /\ n \in Nat /\ ~(m < n)
  BY <1>1, <1>2
<1> QED
  BY <1>3

LEMMA LeastOf ==
    ASSUME NEW S, S \subseteq Nat, S # {}
    PROVE  Min(S) \in S /\ \A i \in S : Min(S) <= i
<1>1. PICK i \in S : \A m \in S : i <= m
  BY Least
<1> QED
  BY <1>1 DEF Min

\* Induction over the numbers, for a set of them.
LEMMA Induction ==
    ASSUME NEW N, 0 \in N, \A n \in N : n + 1 \in N
    PROVE  Nat \subseteq N
<1> SUFFICES ASSUME Nat \ N # {} PROVE FALSE
  OBVIOUS
<1>1. PICK n \in Nat \ N : \A m \in Nat \ N : n <= m
  BY Least
<1>2. n # 0 /\ n - 1 \in Nat /\ n - 1 \in N
  BY <1>1
<1>3. (n - 1) + 1 \in N
  BY <1>2
<1> QED
  BY <1>1, <1>3

\* A set of indices that is not empty has a largest one.
LEMMA MaxIndex ==
    ASSUME NEW n \in Nat, NEW S \in SUBSET (1 .. n), S # {}
    PROVE  Max(S) \in S /\ \A i \in S : i <= Max(S)
<1> DEFINE N == {n - i : i \in S}
<1>1. PICK d \in N : \A m \in N : d <= m
  <2>1. \A i \in S : n - i \in Nat
    OBVIOUS
  <2>2. N \subseteq Nat /\ N # {}
    BY <2>1
  <2> HIDE DEF N
  <2> QED
    BY <2>2, Least
<1>2. PICK x \in S : d = n - x
  OBVIOUS
<1>3. \A i \in S : x >= i
  <2>1. \A i \in S : n - i \in N /\ i \in Int /\ x \in Int
    OBVIOUS
  <2>2. \A i \in S : n - x <= n - i
    BY <1>1, <1>2, <2>1
  <2> QED
    BY <2>1, <2>2
<1> QED
  BY <1>3 DEF Max

LEMMA Prefix ==
    ASSUME NEW k \in Nat, k # 0
    PROVE  Max(1 .. k) = k /\ (1 .. k) \ {k} = 1 .. (k - 1) /\ 1 .. k # {}
<1>1. 1 .. k \in SUBSET (1 .. k) /\ k \in 1 .. k
  OBVIOUS
<1>2. Max(1 .. k) \in 1 .. k /\ \A i \in 1 .. k : i <= Max(1 .. k)
  BY <1>1, MaxIndex
<1> QED
  BY <1>1, <1>2

LEMMA WithoutMax ==
    ASSUME NEW m \in Nat, NEW S \in SUBSET (1 .. (m + 1)), S # {}
    PROVE  Max(S) \in 1 .. (m + 1) /\ S \ {Max(S)} \in SUBSET (1 .. m)
<1> DEFINE x == Max(S)
<1>0. m + 1 \in Nat
  OBVIOUS
<1>1. x \in S /\ \A i \in S : i <= x
  BY <1>0, MaxIndex
<1> HIDE DEF x
<1>2. x \in 1 .. (m + 1) /\ \A i \in S : i \in 1 .. (m + 1)
  BY <1>1
<1>3. \A i \in S \ {x} : i \in 1 .. m
  BY <1>1, <1>2
<1> QED
  BY <1>2, <1>3 DEF x

\* A fold over n indices: G says where each index leads from each state.
IsFold(it, n, base, G) ==
    \A S \in SUBSET (1 .. n) :
        it[S] = IF S = {} THEN base ELSE G[<<it[S \ {Max(S)}], Max(S)>>]

LEMMA FoldExists ==
    ASSUME NEW n \in Nat, NEW X, NEW base \in X, NEW G \in [X \X (1 .. n) -> X]
    PROVE  \E it \in [SUBSET (1 .. n) -> X] : IsFold(it, n, base, G)
<1> DEFINE Folds(it, m) ==
                it = [S \in SUBSET (1 .. m) |->
                        IF S = {} THEN base ELSE G[<<it[S \ {Max(S)}], Max(S)>>]]
           N == {m \in Nat : m <= n => \E it \in [SUBSET (1 .. m) -> X] : Folds(it, m)}
<1>0. \A m \in Nat : (m <= n => \E it \in [SUBSET (1 .. m) -> X] : Folds(it, m)) => m \in N
  <2> HIDE DEF Folds
  <2> QED
    OBVIOUS
<1>1. 0 \in N
  <2>1. 1 .. 0 = {} /\ SUBSET {} = {{}}
    OBVIOUS
  <2>2. Folds([S \in SUBSET (1 .. 0) |-> base], 0)
    BY <2>1
  <2>3. [S \in SUBSET (1 .. 0) |-> base] \in [SUBSET (1 .. 0) -> X]
    OBVIOUS
  <2> HIDE DEF Folds, N
  <2> QED
    BY <1>0, <2>2, <2>3
<1>2. ASSUME NEW m \in N, m + 1 <= n PROVE m + 1 \in N
  <2>0. m \in Nat /\ m <= n /\ m + 1 \in 1 .. n /\ m + 1 \in Nat
    BY <1>2
  <2>1. PICK it \in [SUBSET (1 .. m) -> X] : Folds(it, m)
    <3> HIDE DEF Folds
    <3> QED
      BY <2>0
  <2> DEFINE next == [S \in SUBSET (1 .. (m + 1)) |->
                        IF S = {} THEN base ELSE G[<<it[S \ {Max(S)}], Max(S)>>]]
  <2>2. ASSUME NEW S \in SUBSET (1 .. (m + 1)), S # {}
        PROVE  S \ {Max(S)} \in SUBSET (1 .. m) /\ Max(S) \in 1 .. n
    BY <2>0, <2>2, WithoutMax
  <2>3. next \in [SUBSET (1 .. (m + 1)) -> X]
    <3>1. ASSUME NEW S \in SUBSET (1 .. (m + 1)), S # {}
          PROVE  G[<<it[S \ {Max(S)}], Max(S)>>] \in X
      BY <2>2, <3>1
    <3> QED
      BY <3>1
  <2>4. ASSUME NEW S \in SUBSET (1 .. m) PROVE next[S] = it[S]
    <3>1. S \in SUBSET (1 .. (m + 1))
      BY <2>0
    <3> QED
      BY <3>1, <2>1
  <2>5. Folds(next, m + 1)
    BY <2>2, <2>4
  <2> HIDE DEF next, Folds, N
  <2> QED
    BY <1>0, <2>0, <2>3, <2>5
<1>3. n \in N
  <2>1. \A m \in N : m + 1 \in N
    <3> SUFFICES ASSUME NEW m \in N, ~(m + 1 <= n) PROVE m + 1 \in N
      BY <1>2
    <3>1. m + 1 \in Nat
      OBVIOUS
    <3> HIDE DEF N, Folds
    <3> QED
      BY <1>0, <3>1
  <2> HIDE DEF N
  <2> QED
    BY <1>1, <2>1, Induction
<1>4. PICK it \in [SUBSET (1 .. n) -> X] : Folds(it, n)
  <2> HIDE DEF Folds
  <2>1. n <= n
    OBVIOUS
  <2> QED
    BY <1>3, <2>1
<1> QED
  BY <1>4 DEF IsFold

-----------------------------------------------------------------------------
(* Sorting.                                                                  *)

\* What StablyBy does to s is a permutation p of its indices, by rising keys, and
\* by rising indices where keys are equal.
Sorts(p, keys, n) ==
    /\ p \in [1 .. n -> 1 .. n]
    /\ \A i \in 1 .. n : \E k \in 1 .. n : p[k] = i
    /\ \A k, l \in 1 .. n : k < l => /\ keys[p[k]] <= keys[p[l]]
                                     /\ keys[p[k]] = keys[p[l]] => p[k] < p[l]

LEMMA Sorting ==
    ASSUME NEW n \in Nat, NEW keys \in [1 .. n -> Int], NEW s, DOMAIN s = 1 .. n
    PROVE  \E p : Sorts(p, keys, n) /\ StablyBy(keys, s) = [k \in 1 .. n |-> s[p[k]]]
<1> DEFINE I == 1 .. n
           Upto(i) == {m \in I : keys[m] < keys[i] \/ (keys[m] = keys[i] /\ m <= i)}
           f == [i \in I |-> Cardinality(Upto(i))]
           p == [k \in I |-> CHOOSE i \in I : f[i] = k]
<1>1. IsFiniteSet(I) /\ Cardinality(I) = n
  BY FS_Interval
<1>2. \A i \in I : IsFiniteSet(Upto(i)) /\ f[i] \in Nat /\ f[i] <= n
  BY <1>1, FS_Subset, FS_CardinalityType
<1>3. ASSUME NEW i \in I, NEW m \in I, i # m,
             keys[i] < keys[m] \/ (keys[i] = keys[m] /\ i <= m)
      PROVE  f[i] < f[m]
  <2>1. Upto(i) \in SUBSET Upto(m) /\ m \in Upto(m) /\ m \notin Upto(i)
    BY <1>3
  <2>2. /\ Cardinality(Upto(i)) <= Cardinality(Upto(m))
        /\ Cardinality(Upto(m)) = Cardinality(Upto(i)) => Upto(m) = Upto(i)
    <3> HIDE DEF Upto
    <3> QED
      BY <1>2, <2>1, FS_Subset
  <2>3. f[i] = Cardinality(Upto(i)) /\ f[m] = Cardinality(Upto(m))
    OBVIOUS
  <2> HIDE DEF f, Upto
  <2> QED
    BY <1>2, <2>1, <2>2, <2>3
<1>4. \A i \in I : f[i] \in I
  <2>1. \A i \in I : i \in Upto(i)
    OBVIOUS
  <2>2. \A i \in I : Cardinality(Upto(i)) # 0
    <3> HIDE DEF Upto
    <3> QED
      BY <1>2, <2>1, FS_EmptySet
  <2> HIDE DEF Upto
  <2> QED
    BY <1>2, <2>2
<1>5. \A i, m \in I : f[i] = f[m] => i = m
  <2> SUFFICES ASSUME NEW i \in I, NEW m \in I, i # m PROVE f[i] # f[m]
    OBVIOUS
  <2>1. \/ keys[i] < keys[m] \/ (keys[i] = keys[m] /\ i <= m)
        \/ keys[m] < keys[i] \/ (keys[m] = keys[i] /\ m <= i)
    OBVIOUS
  <2>2. f[i] < f[m] \/ f[m] < f[i]
    <3> HIDE DEF f
    <3> QED
      BY <1>3, <2>1
  <2> HIDE DEF f
  <2> QED
    BY <1>4, <2>2
<1>6. f \in Injection(I, I)
  <2>1. f \in [I -> I]
    BY <1>4
  <2> HIDE DEF f
  <2> QED
    BY <1>5, <2>1 DEF Injection, IsInjective
<1>7. \A k \in I : \E i \in I : f[i] = k
  <2>1. f \in Surjection(I, I)
    <3> HIDE DEF f
    <3> QED
      BY <1>1, <1>6, FS_Injection
  <2> HIDE DEF f
  <2> QED
    BY <2>1 DEF Surjection
<1>8. \A k \in I : p[k] \in I /\ f[p[k]] = k
  <2> HIDE DEF f
  <2> QED
    BY <1>7
<1>9. p \in [I -> I]
  <2> HIDE DEF f
  <2> QED
    BY <1>8
<1>10. \A i \in I : p[f[i]] = i
  <2> HIDE DEF f, p
  <2> QED
    BY <1>4, <1>5, <1>8
<1>11. ASSUME NEW k \in I, NEW l \in I, k < l
       PROVE  keys[p[k]] <= keys[p[l]] /\ (keys[p[k]] = keys[p[l]] => p[k] < p[l])
  <2> HIDE DEF p
  <2>1. p[k] \in I /\ p[l] \in I /\ p[k] # p[l]
    <3>1. k # l
      BY <1>11
    <3> HIDE DEF f
    <3> QED
      BY <1>8, <3>1
  <2>2. ~(f[p[l]] < f[p[k]])
    <3> HIDE DEF f
    <3> QED
      BY <1>8, <1>11
  <2>3. ~(keys[p[l]] < keys[p[k]] \/ (keys[p[l]] = keys[p[k]] /\ p[l] <= p[k]))
    <3> HIDE DEF f
    <3> QED
      BY <1>3, <2>1, <2>2
  <2>4. keys[p[k]] \in Int /\ keys[p[l]] \in Int
    BY <2>1
  <2> HIDE DEF f
  <2> QED
    BY <2>1, <2>3, <2>4
<1>12. Sorts(p, keys, n)
  <2> HIDE DEF f, p
  <2> QED
    BY <1>4, <1>9, <1>10, <1>11 DEF Sorts
<1>13. StablyBy(keys, s) = [k \in I |-> s[p[k]]]
  <2>1. StablyBy(keys, s) = [k \in I |-> s[CHOOSE i \in I : Cardinality(Upto(i)) = k]]
    BY DEF StablyBy
  <2>2. \A k \in I : p[k] = CHOOSE i \in I : Cardinality(Upto(i)) = k
    <3> HIDE DEF Upto
    <3> QED
      OBVIOUS
  <2> HIDE DEF p, Upto
  <2> QED
    BY <2>1, <2>2
<1> QED
  <2> HIDE DEF p
  <2> QED
    BY <1>12, <1>13

\* What Only keeps of s: the indices in their order.
Selects(p, indices) ==
    /\ p \in [1 .. Cardinality(indices) -> indices]
    /\ \A i \in indices : \E k \in 1 .. Cardinality(indices) : p[k] = i
    /\ \A k, l \in 1 .. Cardinality(indices) : k < l => p[k] < p[l]

\* The indices are the same, whatever is picked at them.
LEMMA Picking ==
    ASSUME NEW n \in Nat, NEW K \in SUBSET (1 .. n)
    PROVE  /\ Cardinality(K) \in Nat
           /\ \E p : /\ Selects(p, K)
                    /\ \A s : Only(s, K) = [k \in 1 .. Cardinality(K) |-> s[p[k]]]
<1> DEFINE m == Cardinality(K)
           I == 1 .. m
           Upto(i) == {j \in K : j <= i}
           f == [i \in K |-> Cardinality(Upto(i))]
           p == [k \in I |-> CHOOSE i \in K : f[i] = k]
<1>0. \A i \in K : i \in Nat
  OBVIOUS
<1>1. IsFiniteSet(K) /\ m \in Nat
  <2>1. IsFiniteSet(1 .. n)
    BY FS_Interval
  <2> QED
    BY <2>1, FS_Subset, FS_CardinalityType
<1>a. IsFiniteSet(I) /\ Cardinality(I) = m
  <2> HIDE DEF m
  <2> QED
    BY <1>1, FS_Interval
<1>2. \A i \in K : IsFiniteSet(Upto(i)) /\ f[i] \in Nat /\ f[i] <= m
  BY <1>1, FS_Subset, FS_CardinalityType
<1>3. ASSUME NEW i \in K, NEW j \in K, i < j PROVE f[i] < f[j]
  <2>0. i \in Nat /\ j \in Nat /\ \A h \in K : h \in Nat /\ (h <= i => h <= j)
    BY <1>0, <1>3
  <2>1. Upto(i) \in SUBSET Upto(j) /\ j \in Upto(j) /\ j \notin Upto(i)
    <3>1. \A h \in Upto(i) : h \in Upto(j)
      BY <2>0
    <3>2. j <= j /\ ~(j <= i)
      BY <2>0, <1>3
    <3>3. j \in Upto(j) /\ j \notin Upto(i)
      BY <3>2
    <3> HIDE DEF Upto
    <3> QED
      BY <3>1, <3>3
  <2>2. /\ Cardinality(Upto(i)) <= Cardinality(Upto(j))
        /\ Cardinality(Upto(j)) = Cardinality(Upto(i)) => Upto(j) = Upto(i)
    <3> HIDE DEF Upto
    <3> QED
      BY <1>2, <2>1, FS_Subset
  <2>3. f[i] = Cardinality(Upto(i)) /\ f[j] = Cardinality(Upto(j))
    OBVIOUS
  <2> HIDE DEF f, Upto
  <2> QED
    BY <1>2, <2>1, <2>2, <2>3
<1>4. \A i \in K : f[i] \in I
  <2>1. \A i \in K : i \in Upto(i)
    OBVIOUS
  <2>2. \A i \in K : Cardinality(Upto(i)) # 0
    <3> HIDE DEF Upto
    <3> QED
      BY <1>2, <2>1, FS_EmptySet
  <2> HIDE DEF Upto, m
  <2> QED
    BY <1>1, <1>2, <2>2
<1>5. \A i, j \in K : f[i] = f[j] => i = j
  <2> SUFFICES ASSUME NEW i \in K, NEW j \in K, i # j PROVE f[i] # f[j]
    OBVIOUS
  <2>1. i < j \/ j < i
    BY <1>0
  <2>2. f[i] < f[j] \/ f[j] < f[i]
    <3> HIDE DEF f
    <3> QED
      BY <1>3, <2>1
  <2> HIDE DEF f
  <2> QED
    BY <1>1, <1>4, <2>2
<1>6. f \in Injection(K, I)
  <2>1. f \in [K -> I]
    BY <1>4
  <2> HIDE DEF f
  <2> QED
    BY <1>5, <2>1 DEF Injection, IsInjective
<1>7. \A k \in I : \E i \in K : f[i] = k
  <2>1. f \in Surjection(K, I)
    <3> HIDE DEF f
    <3> QED
      BY <1>a, <1>6, FS_Injection
  <2> HIDE DEF f
  <2> QED
    BY <2>1 DEF Surjection
<1>8. \A k \in I : p[k] \in K /\ f[p[k]] = k
  <2> HIDE DEF f
  <2> QED
    BY <1>7
<1>9. p \in [I -> K]
  <2> HIDE DEF f
  <2> QED
    BY <1>8
<1>10. \A i \in K : p[f[i]] = i
  <2> HIDE DEF f, p
  <2> QED
    BY <1>4, <1>5, <1>8
<1>11. ASSUME NEW k \in I, NEW l \in I, k < l PROVE p[k] < p[l]
  <2>1. p[k] \in K /\ p[l] \in K /\ f[p[k]] = k /\ f[p[l]] = l
    <3> HIDE DEF f, p
    <3> QED
      BY <1>8
  <2> HIDE DEF f, p
  <2>2. CASE p[l] < p[k]
    <3>1. f[p[l]] < f[p[k]]
      BY <1>3, <2>1, <2>2
    <3> QED
      BY <1>1, <1>11, <2>1, <3>1
  <2>3. CASE p[l] = p[k]
    BY <1>11, <2>1, <2>3
  <2>4. p[k] \in Nat /\ p[l] \in Nat
    BY <1>0, <2>1
  <2> QED
    BY <2>2, <2>3, <2>4
<1>12. Selects(p, K)
  <2> HIDE DEF f, p
  <2> QED
    BY <1>4, <1>9, <1>10, <1>11 DEF Selects
<1>13. ASSUME NEW s PROVE Only(s, K) = [k \in I |-> s[p[k]]]
  <2>1. Only(s, K) = [k \in I |-> s[CHOOSE i \in K : Cardinality(Upto(i)) = k]]
    BY DEF Only
  <2>2. \A k \in I : p[k] = CHOOSE i \in K : Cardinality(Upto(i)) = k
    <3> HIDE DEF Upto
    <3> QED
      OBVIOUS
  <2> HIDE DEF p, Upto
  <2> QED
    BY <2>1, <2>2
<1> QED
  <2> HIDE DEF p
  <2> QED
    BY <1>1, <1>12, <1>13

LEMMA Selecting ==
    ASSUME NEW n \in Nat, NEW K \in SUBSET (1 .. n), NEW s
    PROVE  /\ Cardinality(K) \in Nat
           /\ Only(s, K) = [k \in 1 .. Cardinality(K) |-> Only(s, K)[k]]
           /\ \E p : Selects(p, K) /\ \A k \in 1 .. Cardinality(K) : Only(s, K)[k] = s[p[k]]
<1>1. PICK p : /\ Selects(p, K)
               /\ \A r : Only(r, K) = [k \in 1 .. Cardinality(K) |-> r[p[k]]]
  BY Picking
<1>2. Only(s, K) = [k \in 1 .. Cardinality(K) |-> s[p[k]]]
  BY <1>1
<1> QED
  BY <1>1, <1>2, Picking

-----------------------------------------------------------------------------
(* Walks.  A leader and a sum are functions over the indices, each value     *)
(* from the one before.                                                      *)

\* A function by recursion over the first n numbers: G says where each index
\* leads from the value before it.
IsWalk(f, n, base, G) == f[0] = base /\ \A i \in 1 .. n : f[i] = G[<<f[i - 1], i>>]

LEMMA WalkExists ==
    ASSUME NEW n \in Nat, NEW X, NEW base \in X, NEW G \in [X \X (1 .. n) -> X]
    PROVE  \E f \in [0 .. n -> X] : IsWalk(f, n, base, G)
<1>1. PICK it \in [SUBSET (1 .. n) -> X] : IsFold(it, n, base, G)
  BY FoldExists
<1> DEFINE f == [i \in 0 .. n |-> it[1 .. i]]
<1>2. \A i \in 0 .. n : 1 .. i \in SUBSET (1 .. n)
  OBVIOUS
<1>3. f \in [0 .. n -> X]
  BY <1>2
<1>4. f[0] = base
  <2>1. 1 .. 0 = {} /\ 0 \in 0 .. n /\ {} \in SUBSET (1 .. n)
    OBVIOUS
  <2> QED
    BY <1>1, <2>1 DEF IsFold
<1>5. ASSUME NEW i \in 1 .. n PROVE f[i] = G[<<f[i - 1], i>>]
  <2>1. i \in Nat /\ i # 0 /\ i \in 0 .. n /\ i - 1 \in 0 .. n /\ 1 .. i \in SUBSET (1 .. n)
    OBVIOUS
  <2>2. Max(1 .. i) = i /\ (1 .. i) \ {i} = 1 .. (i - 1) /\ 1 .. i # {}
    BY <2>1, Prefix
  <2>3. it[1 .. i] = G[<<it[(1 .. i) \ {Max(1 .. i)}], Max(1 .. i)>>]
    BY <1>1, <2>1, <2>2 DEF IsFold
  <2>4. it[1 .. i] = G[<<it[1 .. (i - 1)], i>>]
    BY <2>2, <2>3
  <2> QED
    BY <2>1, <2>4
<1> HIDE DEF f
<1> QED
  BY <1>3, <1>4, <1>5 DEF IsWalk

\* What each index makes of the one before it, every index has.
LEMMA StepByStep ==
    ASSUME NEW n \in Nat, NEW N, 0 \in N, \A i \in 1 .. n : i - 1 \in N => i \in N
    PROVE  0 .. n \subseteq N
<1> DEFINE M == {i \in Nat : i <= n => i \in N}
<1>1. 0 \in M
  OBVIOUS
<1>2. ASSUME NEW i \in M PROVE i + 1 \in M
  <2>1. i \in Nat /\ i + 1 \in Nat /\ (i + 1 <= n => i <= n /\ i + 1 \in 1 .. n /\ (i + 1) - 1 = i)
    OBVIOUS
  <2> QED
    BY <2>1
<1>3. Nat \subseteq M
  <2> HIDE DEF M
  <2> QED
    BY <1>1, <1>2, Induction
<1> QED
  BY <1>3

\* What leads each index: itself, or what leads the index before.
Leads(leader, n, breaks) ==
    /\ leader \in [1 .. n -> 1 .. n]
    /\ \A i \in 1 .. n :
        leader[i] = IF i = 1 \/ <<leader[i - 1], i>> \in breaks THEN i ELSE leader[i - 1]

LEMMA LeaderExists ==
    ASSUME NEW n \in Nat, NEW breaks
    PROVE  Leads(Leader(n, breaks), n, breaks)
<1> DEFINE Walks(f) == f = [i \in 1 .. n |-> IF i = 1 \/ <<f[i - 1], i>> \in breaks THEN i ELSE f[i - 1]]
           X == 0 .. n
           G == [p \in X \X (1 .. n) |->
                    IF p[2] = 1 \/ <<p[1], p[2]>> \in breaks THEN p[2] ELSE p[1]]
<1>1. G \in [X \X (1 .. n) -> X] /\ 0 \in X
  <2>1. \A p \in X \X (1 .. n) : p[1] \in X /\ p[2] \in X
    OBVIOUS
  <2> HIDE DEF X
  <2>2. 0 \in X
    BY DEF X
  <2> QED
    BY <2>1, <2>2
<1>2. PICK f \in [0 .. n -> X] : f[0] = 0 /\ \A i \in 1 .. n : f[i] = G[<<f[i - 1], i>>]
  <2> HIDE DEF X, G, Walks
  <2>1. \E f \in [0 .. n -> X] : IsWalk(f, n, 0, G)
    BY <1>1, WalkExists
  <2> QED
    BY <2>1 DEF IsWalk
<1>3. ASSUME NEW i \in 1 .. n
      PROVE  f[i] = IF i = 1 \/ <<f[i - 1], i>> \in breaks THEN i ELSE f[i - 1]
  <2>1. i - 1 \in 0 .. n
    OBVIOUS
  <2>2. <<f[i - 1], i>> \in X \X (1 .. n)
    BY <2>1
  <2>3. G[<<f[i - 1], i>>] = IF i = 1 \/ <<f[i - 1], i>> \in breaks THEN i ELSE f[i - 1]
    BY <2>2
  <2> HIDE DEF G
  <2> QED
    BY <1>2, <2>3
<1> DEFINE g == [i \in 1 .. n |-> f[i]]
<1>4. Walks(g)
  <2>1. \A i \in 1 .. n : i # 1 => i - 1 \in 1 .. n
    OBVIOUS
  <2>2. \A i \in 1 .. n : g[i] = IF i = 1 \/ <<g[i - 1], i>> \in breaks THEN i ELSE g[i - 1]
    BY <1>3, <2>1
  <2> HIDE DEF G, X
  <2> QED
    BY <2>2
<1> DEFINE leader == CHOOSE h : Walks(h)
<1>5. Leader(n, breaks) = leader
  BY DEF Leader
<1>6. Walks(leader)
  <2> HIDE DEF Walks, g
  <2> QED
    BY <1>4
<1> HIDE DEF leader
<1>7. \A i \in 1 .. n :
        leader[i] = IF i = 1 \/ <<leader[i - 1], i>> \in breaks THEN i ELSE leader[i - 1]
  BY <1>6
<1>8. leader \in [1 .. n -> 1 .. n]
  <2> DEFINE N == {i \in 0 .. n : i = 0 \/ leader[i] \in 1 .. n}
  <2>1. ASSUME NEW i \in 1 .. n, i - 1 \in N PROVE i \in N
    <3>1. i \in 0 .. n /\ (i = 1 \/ i - 1 # 0)
      OBVIOUS
    <3>2. i # 1 => leader[i - 1] \in 1 .. n
      BY <2>1, <3>1
    <3>3. leader[i] \in 1 .. n
      BY <1>7, <3>2
    <3> QED
      BY <3>1, <3>3
  <2>2. 0 \in N
    OBVIOUS
  <2>3. 0 .. n \subseteq N
    <3> HIDE DEF N, Walks
    <3> QED
      BY <2>1, <2>2, StepByStep
  <2>4. \A i \in 1 .. n : leader[i] \in 1 .. n
    BY <2>3
  <2>5. leader = [i \in 1 .. n |-> leader[i]]
    BY <1>6
  <2> HIDE DEF N, Walks
  <2> QED
    BY <2>4, <2>5
<1> HIDE DEF Walks
<1> QED
  BY <1>5, <1>7, <1>8 DEF Leads

\* The indices fall into runs, each led by its first.
InRuns(leader, n) ==
    /\ leader \in [1 .. n -> 1 .. n]
    /\ \A i \in 1 .. n : leader[i] <= i /\ leader[leader[i]] = leader[i]
    /\ \A i \in 1 .. n : i > 1 /\ leader[i] # i => leader[i] = leader[i - 1]
    /\ \A i, k \in 1 .. n : i <= k => leader[i] <= leader[k]

LEMMA LeadersLeadRuns ==
    ASSUME NEW n \in Nat, NEW breaks, NEW leader, Leads(leader, n, breaks)
    PROVE  InRuns(leader, n)
<1>1. /\ leader \in [1 .. n -> 1 .. n]
      /\ \A i \in 1 .. n : leader[i] = i \/ (i > 1 /\ leader[i] = leader[i - 1])
  <2>1. \A i \in 1 .. n : leader[i] = i \/ (i # 1 /\ leader[i] = leader[i - 1])
    BY DEF Leads
  <2>2. \A i \in 1 .. n : i # 1 => i > 1
    OBVIOUS
  <2> QED
    BY <2>1, <2>2 DEF Leads
<1> DEFINE N == {i \in 0 .. n : i > 0 => /\ leader[i] <= i /\ leader[leader[i]] = leader[i]
                                         /\ \A k \in 1 .. i : leader[k] <= leader[i]}
<1>2. ASSUME NEW i \in 1 .. n, i - 1 \in N PROVE i \in N
  <2>1. i \in 0 .. n /\ i > 0 /\ leader[i] \in 1 .. n /\ \A k \in 1 .. i : k \in 1 .. n
    BY <1>1
  <2>2. CASE leader[i] = i
    <3>1. ASSUME NEW k \in 1 .. (i - 1) PROVE leader[k] <= i
      <4>1. i - 1 > 0 /\ k \in 1 .. (i - 1) /\ i - 1 \in 1 .. n /\ k \in 1 .. n
        OBVIOUS
      <4>2. leader[k] <= leader[i - 1] /\ leader[i - 1] <= i - 1
        BY <1>2, <4>1
      <4>3. leader[k] \in Int /\ leader[i - 1] \in Int
        BY <1>1, <4>1
      <4> QED
        BY <4>2, <4>3
    <3>2. \A k \in 1 .. i : k = i \/ k \in 1 .. (i - 1)
      OBVIOUS
    <3>3. \A k \in 1 .. i : leader[k] <= leader[i]
      BY <2>2, <3>1, <3>2
    <3> QED
      BY <2>1, <2>2, <3>3
  <2>3. CASE i > 1 /\ leader[i] = leader[i - 1]
    <3>1. i - 1 > 0 /\ i - 1 \in 1 .. n /\ leader[i - 1] \in 1 .. n
      BY <1>1, <2>3
    <3>2. /\ leader[i - 1] <= i - 1 /\ leader[leader[i - 1]] = leader[i - 1]
          /\ \A k \in 1 .. (i - 1) : leader[k] <= leader[i - 1]
      BY <1>2, <3>1
    <3>3. \A k \in 1 .. i : k = i \/ k \in 1 .. (i - 1)
      OBVIOUS
    <3>4. \A k \in 1 .. i : leader[k] <= leader[i]
      BY <2>3, <3>1, <3>2, <3>3
    <3> QED
      BY <2>1, <2>3, <3>1, <3>2, <3>4
  <2> QED
    BY <1>1, <2>2, <2>3
<1>3. 0 .. n \subseteq N
  <2>1. 0 \in N
    OBVIOUS
  <2> HIDE DEF N
  <2> QED
    BY <1>2, <2>1, StepByStep
<1>4. ASSUME NEW i \in 1 .. n
      PROVE  /\ leader[i] <= i /\ leader[leader[i]] = leader[i]
             /\ \A k \in 1 .. i : leader[k] <= leader[i]
  <2>1. i \in N /\ i > 0
    BY <1>3
  <2> QED
    BY <2>1
<1> HIDE DEF N
<1>5. \A i, k \in 1 .. n : i <= k => i \in 1 .. k
  OBVIOUS
<1> QED
  BY <1>1, <1>4, <1>5 DEF InRuns

\* The sum up to each index.
SumsUpTo(upto, s) ==
    /\ upto \in [0 .. Len(s) -> Int]
    /\ upto[0] = 0
    /\ \A i \in 1 .. Len(s) : upto[i] = upto[i - 1] + s[i]

LEMMA SumsExist ==
    ASSUME NEW s \in Seq(Int)
    PROVE  \E upto : SumsUpTo(upto, s) /\ SumOf(s) = upto[Len(s)]
<1> DEFINE n == Len(s)
           Sums(f) == f = [i \in 0 .. n |-> IF i = 0 THEN 0 ELSE f[i - 1] + s[i]]
           Z == Int
           G == [p \in Z \X (1 .. n) |-> p[1] + s[p[2]]]
<1>0. n \in Nat /\ \A i \in 1 .. n : s[i] \in Int
  OBVIOUS
<1>1. G \in [Z \X (1 .. n) -> Z]
  <2>1. \A p \in Z \X (1 .. n) : p[1] \in Z /\ p[2] \in 1 .. n
    OBVIOUS
  <2> HIDE DEF n
  <2> QED
    BY <1>0, <2>1
<1>2. PICK f \in [0 .. n -> Z] : IsWalk(f, n, 0, G)
  <2>1. 0 \in Z
    OBVIOUS
  <2> HIDE DEF n, G, Sums, Z
  <2> QED
    BY <1>0, <1>1, <2>1, WalkExists
<1>3. ASSUME NEW i \in 1 .. n PROVE f[i] = f[i - 1] + s[i]
  <2> HIDE DEF n
  <2>1. i - 1 \in 0 .. n
    BY <1>0
  <2>2. <<f[i - 1], i>> \in Int \X (1 .. n)
    BY <2>1
  <2>3. G[<<f[i - 1], i>>] = f[i - 1] + s[i]
    BY <2>2
  <2> HIDE DEF G
  <2> QED
    BY <1>2, <2>3 DEF IsWalk
<1>4. Sums(f)
  <2> HIDE DEF n, G
  <2>1. \A i \in 0 .. n : i = 0 \/ i \in 1 .. n
    BY <1>0
  <2>2. \A i \in 0 .. n : f[i] = IF i = 0 THEN 0 ELSE f[i - 1] + s[i]
    BY <1>2, <1>3, <2>1 DEF IsWalk
  <2> QED
    BY <2>2
<1> DEFINE upto == CHOOSE h : Sums(h)
<1>5. SumOf(s) = upto[n]
  BY DEF SumOf
<1>6. Sums(upto)
  <2> HIDE DEF Sums
  <2> QED
    BY <1>4
<1> HIDE DEF upto
<1>7. upto[0] = 0 /\ \A i \in 1 .. n : upto[i] = upto[i - 1] + s[i]
  <2>1. 0 \in 0 .. n /\ \A i \in 1 .. n : i \in 0 .. n /\ i # 0
    BY <1>0
  <2> QED
    BY <1>6, <2>1
<1>8. upto \in [0 .. n -> Int]
  <2> DEFINE N == {i \in 0 .. n : upto[i] \in Int}
  <2>1. 0 \in N /\ \A i \in 1 .. n : i - 1 \in N => i \in N
    <3> HIDE DEF Sums, n
    <3>1. 0 \in 0 .. n /\ \A i \in 1 .. n : i \in 0 .. n
      BY <1>0
    <3>2. \A i \in 1 .. n : upto[i - 1] \in Int => upto[i] \in Int
      <4> SUFFICES ASSUME NEW i \in 1 .. n, upto[i - 1] \in Int PROVE upto[i] \in Int
        OBVIOUS
      <4>1. s[i] \in Int /\ upto[i] = upto[i - 1] + s[i]
        BY <1>0, <1>7
      <4> QED
        BY <4>1
    <3> QED
      BY <1>7, <3>1, <3>2
  <2>2. 0 .. n \subseteq N
    <3> HIDE DEF N, Sums, n
    <3> QED
      BY <1>0, <2>1, StepByStep
  <2>3. upto = [i \in 0 .. n |-> upto[i]]
    BY <1>6
  <2> HIDE DEF Sums, n
  <2> QED
    BY <2>2, <2>3
<1> HIDE DEF Sums
<1> QED
  BY <1>5, <1>7, <1>8 DEF SumsUpTo

\* A sum is what is counted up to the last index, in whatever way.
LEMMA SumIs ==
    ASSUME NEW s \in Seq(Int), NEW P, P[0] = 0, \A i \in 1 .. Len(s) : P[i] = P[i - 1] + s[i]
    PROVE  SumOf(s) = P[Len(s)] /\ SumOf(s) \in Int
<1>1. PICK upto : SumsUpTo(upto, s) /\ SumOf(s) = upto[Len(s)]
  BY SumsExist
<1> DEFINE n == Len(s)
           N == {i \in 0 .. n : P[i] = upto[i]}
<1>2. n \in Nat
  OBVIOUS
<1>3. 0 \in N /\ \A i \in 1 .. n : i - 1 \in N => i \in N
  <2> HIDE DEF n
  <2>1. \A i \in 1 .. n : i \in 0 .. n
    BY <1>2
  <2> QED
    BY <1>1, <1>2, <2>1 DEF SumsUpTo, n
<1>4. 0 .. n \subseteq N
  <2> HIDE DEF n, N
  <2> QED
    BY <1>2, <1>3, StepByStep
<1>5. n \in 0 .. n
  BY <1>2
<1> QED
  BY <1>1, <1>4, <1>5 DEF SumsUpTo

LEMMA SumsTyped ==
    ASSUME NEW s \in Seq(Int)
    PROVE  SumOf(s) \in Int
<1>1. PICK upto : SumsUpTo(upto, s) /\ SumOf(s) = upto[Len(s)]
  BY SumsExist
<1> QED
  BY <1>1 DEF SumsUpTo

\* Sums add up index by index.
LEMMA SumsAdd ==
    ASSUME NEW s \in Seq(Int), NEW t \in Seq(Int), NEW u \in Seq(Int),
           Len(s) = Len(t), Len(s) = Len(u), \A i \in 1 .. Len(s) : u[i] = s[i] + t[i]
    PROVE  SumOf(u) = SumOf(s) + SumOf(t)
<1>1. PICK a : SumsUpTo(a, s) /\ SumOf(s) = a[Len(s)]
  BY SumsExist
<1>2. PICK b : SumsUpTo(b, t) /\ SumOf(t) = b[Len(t)]
  BY SumsExist
<1> DEFINE n == Len(s)
           P == [i \in 0 .. n |-> a[i] + b[i]]
<1>3. n \in Nat /\ n \in 0 .. n /\ 0 \in 0 .. n /\ \A i \in 1 .. n : i \in 0 .. n /\ i - 1 \in 0 .. n
  OBVIOUS
<1>a. \A i \in 0 .. n : a[i] \in Int /\ b[i] \in Int
  BY <1>1, <1>2 DEF SumsUpTo
<1>4. P[0] = 0 /\ P[n] = SumOf(s) + SumOf(t)
  <2>1. a[0] = 0 /\ b[0] = 0 /\ SumOf(s) = a[n] /\ SumOf(t) = b[n]
    BY <1>1, <1>2 DEF SumsUpTo
  <2> HIDE DEF n
  <2> QED
    BY <1>3, <2>1
<1>5. ASSUME NEW i \in 1 .. n PROVE P[i] = P[i - 1] + u[i]
  <2>1. a[i] = a[i - 1] + s[i] /\ b[i] = b[i - 1] + t[i] /\ u[i] = s[i] + t[i]
    BY <1>1, <1>2 DEF SumsUpTo
  <2>2. a[i - 1] \in Int /\ b[i - 1] \in Int /\ s[i] \in Int /\ t[i] \in Int
    <3>1. i \in 1 .. Len(s) /\ i \in 1 .. Len(t)
      OBVIOUS
    <3>2. s[i] \in Int /\ t[i] \in Int
      BY <3>1, ElementOfSeq
    <3> HIDE DEF n, P
    <3> QED
      BY <1>3, <1>a, <3>2
  <2>3. P[i] = a[i] + b[i] /\ P[i - 1] = a[i - 1] + b[i - 1]
    BY <1>3
  <2>4. P[i] = (a[i - 1] + s[i]) + (b[i - 1] + t[i])
    BY <2>1, <2>3
  <2>5. P[i - 1] + u[i] = (a[i - 1] + b[i - 1]) + (s[i] + t[i])
    BY <2>1, <2>3
  <2>6. (a[i - 1] + s[i]) + (b[i - 1] + t[i]) = (a[i - 1] + b[i - 1]) + (s[i] + t[i])
    <3>1. \A w, x, y, z \in Int : (w + x) + (y + z) = (w + y) + (x + z)
      OBVIOUS
    <3>2. a[i - 1] \in Int
      BY <2>2
    <3>3. b[i - 1] \in Int
      BY <2>2
    <3>4. s[i] \in Int
      BY <2>2
    <3>5. t[i] \in Int
      BY <2>2
    <3> QED
      BY SMTT(30), <3>1, <3>2, <3>3, <3>4, <3>5
  <2> HIDE DEF P, n
  <2> QED
    BY <2>4, <2>5, <2>6
<1> HIDE DEF P
<1>6. SumOf(u) = P[Len(u)]
  BY <1>4, <1>5, SumIs
<1> QED
  BY <1>4, <1>6

\* The last index a leader leads.
EndIn(first, n, c) == Max({i \in 1 .. n : first[i] = c})

\* A run goes from its leader to its end, and after it begins another.
LEMMA RunsEnd ==
    ASSUME NEW n \in Nat, NEW first, InRuns(first, n), NEW c \in 1 .. n, first[c] = c
    PROVE  /\ EndIn(first, n, c) \in 1 .. n /\ c <= EndIn(first, n, c)
           /\ first[EndIn(first, n, c)] = c
           /\ \A i \in 1 .. n : first[i] = c <=> c <= i /\ i <= EndIn(first, n, c)
<1> DEFINE S == {i \in 1 .. n : first[i] = c}
           e == Max(S)
<1>1. e \in S /\ \A i \in S : i <= e
  <2>1. S \in SUBSET (1 .. n) /\ S # {}
    OBVIOUS
  <2> HIDE DEF S
  <2> QED
    BY <2>1, MaxIndex
<1> HIDE DEF e
<1>2. e \in 1 .. n /\ first[e] = c
  BY <1>1
<1>3. ASSUME NEW i \in 1 .. n, first[i] = c PROVE c <= i /\ i <= e
  <2>1. i \in S
    BY <1>3
  <2> QED
    BY <1>1, <1>3, <2>1 DEF InRuns
<1>4. ASSUME NEW i \in 1 .. n, c <= i, i <= e PROVE first[i] = c
  <2>1. first[c] <= first[i] /\ first[i] <= first[e]
    BY <1>2, <1>4 DEF InRuns
  <2>2. first[i] \in Int /\ c \in Int
    BY DEF InRuns
  <2> QED
    BY <1>2, <2>1, <2>2
<1>5. c <= e
  BY <1>2, <1>3
<1> QED
  BY <1>2, <1>3, <1>4, <1>5 DEF EndIn, e

LEMMA RunsMeet ==
    ASSUME NEW n \in Nat, NEW first, InRuns(first, n), NEW k \in 1 .. n, k > 1, first[k] = k
    PROVE  EndIn(first, n, first[k - 1]) = k - 1
<1> DEFINE c == first[k - 1]
           e == EndIn(first, n, c)
<1>1. k - 1 \in 1 .. n /\ c \in 1 .. n /\ first[c] = c /\ c <= k - 1
  BY DEF InRuns
<1>2. e \in 1 .. n /\ \A i \in 1 .. n : first[i] = c <=> c <= i /\ i <= e
  <2> HIDE DEF c
  <2> QED
    BY <1>1, RunsEnd
<1>3. k - 1 <= e
  BY <1>1, <1>2
<1>4. ~(k <= e)
  <2>1. first[k] # c
    BY <1>1
  <2>2. c <= k
    BY <1>1
  <2> HIDE DEF c, e
  <2> QED
    BY <1>2, <2>1, <2>2
<1> HIDE DEF c, e
<1>5. e = k - 1
  BY <1>2, <1>3, <1>4
<1> QED
  BY <1>5 DEF c, e

-----------------------------------------------------------------------------
(* The stages of a run are sequences in order of time.                       *)

\* What every step of a fold keeps, the fold has.
LEMMA FoldInvariant ==
    ASSUME NEW n \in Nat, NEW it, NEW Allowed,
           it[{}] \in Allowed[0],
           \A k \in 1 .. n : it[1 .. (k - 1)] \in Allowed[k - 1] => it[1 .. k] \in Allowed[k]
    PROVE  it[1 .. n] \in Allowed[n]
<1> DEFINE N == {k \in Nat : k <= n => it[1 .. k] \in Allowed[k]}
<1>1. 0 \in N
  <2>1. 1 .. 0 = {}
    OBVIOUS
  <2> QED
    BY <2>1
<1>2. ASSUME NEW k \in N PROVE k + 1 \in N
  <2>1. k \in Nat /\ (k + 1) - 1 = k /\ k + 1 \in Nat /\ (k + 1 <= n => k <= n /\ k + 1 \in 1 .. n)
    OBVIOUS
  <2>2. k + 1 <= n => it[1 .. (k + 1)] \in Allowed[k + 1]
    BY <2>1
  <2> QED
    BY <2>1, <2>2
<1>3. n \in N
  <2> HIDE DEF N
  <2> QED
    BY <1>1, <1>2, Induction
<1> QED
  BY <1>3

\* What can be put in order of time.
Dated(E) == \A e \in E : e.start \in Int /\ e.end \in Int

InOrder(s) == \A k, l \in DOMAIN s : k < l => s[k].start <= s[l].start

\* Sorting by start puts in order, and brings nothing new.
LEMMA ByStartOrders ==
    ASSUME NEW E, Dated(E), NEW s \in Seq(E)
    PROVE  ByStart(s) \in Seq(E) /\ InOrder(ByStart(s))
<1> DEFINE n == Len(s)
           keys == [i \in DOMAIN s |-> s[i].start]
<1>1. n \in Nat /\ DOMAIN s = 1 .. n /\ keys \in [1 .. n -> Int]
  BY DEF Dated
<1>2. PICK p : Sorts(p, keys, n) /\ StablyBy(keys, s) = [k \in 1 .. n |-> s[p[k]]]
  <2> HIDE DEF n, keys
  <2> QED
    BY ZenonT(40), <1>1, Sorting
<1>3. \A k \in 1 .. n : p[k] \in 1 .. n
  BY <1>2 DEF Sorts
<1>4. ByStart(s) = [k \in 1 .. n |-> s[p[k]]]
  BY <1>2 DEF ByStart
<1>5. \A k \in 1 .. n : s[p[k]] \in E
  BY <1>1, <1>3
<1>6. ByStart(s) \in Seq(E)
  <2> HIDE DEF n
  <2> QED
    BY <1>1, <1>4, <1>5, IsASeq
<1>7. \A k, l \in 1 .. n : k < l => s[p[k]].start <= s[p[l]].start
  <2>1. \A i \in 1 .. n : keys[i] = s[i].start
    BY <1>1
  <2>2. \A k, l \in 1 .. n : k < l => keys[p[k]] <= keys[p[l]]
    BY <1>2 DEF Sorts
  <2> HIDE DEF keys, n
  <2> QED
    BY <1>3, <2>1, <2>2
<1> QED
  <2> HIDE DEF n
  <2> QED
    BY <1>4, <1>6, <1>7 DEF InOrder

\* What is left when some are rejected stays in order.
LEMMA OnlyInOrder ==
    ASSUME NEW E, NEW s \in Seq(E), NEW K \in SUBSET DOMAIN s
    PROVE  /\ Only(s, K) \in Seq(E)
           /\ (\A i \in DOMAIN s : s[i].start \in Int) /\ InOrder(s) => InOrder(Only(s, K))
<1> DEFINE m == Cardinality(K)
<1>1. Len(s) \in Nat /\ DOMAIN s = 1 .. Len(s)
  OBVIOUS
<1>2. /\ m \in Nat /\ Only(s, K) = [k \in 1 .. m |-> Only(s, K)[k]]
      /\ \E p : Selects(p, K) /\ \A k \in 1 .. m : Only(s, K)[k] = s[p[k]]
  <2>1. K \in SUBSET (1 .. Len(s))
    BY <1>1
  <2> QED
    BY <1>1, <2>1, Selecting
<1>3. PICK p : Selects(p, K) /\ \A k \in 1 .. m : Only(s, K)[k] = s[p[k]]
  BY <1>2
<1>4. \A k \in 1 .. m : p[k] \in DOMAIN s /\ s[p[k]] \in E
  BY <1>1, <1>3 DEF Selects
<1>5. Only(s, K) \in Seq(E)
  <2> HIDE DEF m
  <2>1. \A k \in 1 .. m : Only(s, K)[k] \in E
    BY <1>3, <1>4
  <2> QED
    BY <1>2, <2>1, IsASeq
<1>6. DOMAIN Only(s, K) = 1 .. m /\ \A k, l \in 1 .. m : k < l => p[k] < p[l]
  BY <1>2, <1>3 DEF Selects
<1>7. InOrder(s) => InOrder(Only(s, K))
  <2> HIDE DEF m
  <2> QED
    BY <1>3, <1>4, <1>6 DEF InOrder
<1> QED
  BY <1>5, <1>7

\* What Only keeps is of the kind of what is at the indices.
LEMMA OnlySome ==
    ASSUME NEW E, NEW s \in Seq(E), NEW F, NEW K \in SUBSET DOMAIN s, \A i \in K : s[i] \in F
    PROVE  Only(s, K) \in Seq(F)
<1> DEFINE m == Cardinality(K)
<1>1. Len(s) \in Nat /\ K \in SUBSET (1 .. Len(s))
  OBVIOUS
<1>2. /\ m \in Nat /\ Only(s, K) = [k \in 1 .. m |-> Only(s, K)[k]]
      /\ \E p : Selects(p, K) /\ \A k \in 1 .. m : Only(s, K)[k] = s[p[k]]
  BY <1>1, Selecting
<1>3. PICK p : Selects(p, K) /\ \A k \in 1 .. m : Only(s, K)[k] = s[p[k]]
  BY <1>2
<1>4. \A k \in 1 .. m : Only(s, K)[k] \in F
  BY <1>3 DEF Selects
<1> HIDE DEF m
<1> QED
  BY <1>2, <1>4, IsASeq

LEMMA EndsType ==
    ASSUME NEW A, \A a \in A : {a.start, a.end, a.from, a.to} \subseteq Int, NEW acts \in Seq(A)
    PROVE  Ends(acts) \in Seq([start : Int, end : Int, loc : Int])
<1> DEFINE n == 2 * Len(acts)
<1>1. n \in Nat
  OBVIOUS
<1>2. ASSUME NEW k \in 1 .. n
      PROVE  Ends(acts)[k] \in [start : Int, end : Int, loc : Int]
  <2>1. (k + 1) \div 2 \in 1 .. Len(acts)
    OBVIOUS
  <2>2. acts[(k + 1) \div 2] \in A
    BY <2>1
  <2> QED
    BY <2>2 DEF Ends
<1>3. Ends(acts) = [k \in 1 .. n |-> Ends(acts)[k]]
  BY DEF Ends
<1> HIDE DEF n
<1>4. [k \in 1 .. n |-> Ends(acts)[k]] \in Seq([start : Int, end : Int, loc : Int])
  BY <1>1, <1>2, IsASeq
<1> QED
  BY <1>3, <1>4

-----------------------------------------------------------------------------
(* The one pass over the distances finds the maximal runs of what is far.    *)

Far(dist, i) == dist[i] > NearKm

\* The runs that end before k, where nothing is far on either side of them.
RunsBefore(dist, k) ==
    {r \in [s : Nat \ {0}, e : Nat \ {0}] :
        /\ r.s <= r.e /\ r.e < k
        /\ \A i \in r.s .. r.e : Far(dist, i)
        /\ r.s = 1 \/ ~Far(dist, r.s - 1)
        /\ ~Far(dist, r.e + 1)}

\* Those that end at k, whatever comes after it.
RunsAt(dist, k) ==
    {r \in [s : Nat \ {0}, e : Nat \ {0}] :
        /\ r.s <= r.e /\ r.e = k
        /\ \A i \in r.s .. r.e : Far(dist, i)
        /\ r.s = 1 \/ ~Far(dist, r.s - 1)}

\* The run that goes on at k, if there is one, began at cur.
Open(dist, k, cur, last) ==
    \/ cur = 0 /\ (k = 0 \/ ~Far(dist, k))
    \/ /\ cur \in 1 .. k /\ last = k
       /\ \A i \in cur .. k : Far(dist, i)
       /\ cur = 1 \/ ~Far(dist, cur - 1)

LEMMA RunClosed ==
    ASSUME NEW dist, NEW k \in Nat, NEW cur, NEW last, Open(dist, k, cur, last)
    PROVE  RunsAt(dist, k) = {[s |-> c, e |-> last] : c \in {cur} \ {0}}
<1> DEFINE Ending == RunsAt(dist, k)
<1> USE DEF RunsAt
<1>1. CASE cur = 0 /\ (k = 0 \/ ~Far(dist, k))
  <2>1. Ending = {}
    <3> SUFFICES ASSUME NEW r \in Ending PROVE FALSE
      OBVIOUS
    <3>1. r.e \in r.s .. r.e /\ r.e = k /\ k # 0
      OBVIOUS
    <3> QED
      BY <1>1, <3>1
  <2> QED
    BY <1>1, <2>1
<1>2. CASE /\ cur \in 1 .. k /\ last = k
           /\ \A i \in cur .. k : Far(dist, i)
           /\ cur = 1 \/ ~Far(dist, cur - 1)
  <2>1. cur \in Nat \ {0} /\ cur <= k /\ last = k /\ k \in Nat \ {0}
    BY <1>2
  <2>2. [s |-> cur, e |-> k] \in Ending
    BY <1>2, <2>1
  <2>3. ASSUME NEW r \in Ending PROVE r = [s |-> cur, e |-> k]
    <3>1. r \in [s : Nat \ {0}, e : Nat \ {0}] /\ r.s <= k /\ r.e = k
      OBVIOUS
    <3>2. ~(r.s < cur)
      <4> SUFFICES ASSUME r.s < cur PROVE FALSE
        OBVIOUS
      <4>1. cur - 1 \in r.s .. r.e /\ cur # 1
        BY <2>1, <3>1
      <4> QED
        BY <1>2, <4>1
    <3>3. ~(cur < r.s)
      <4> SUFFICES ASSUME cur < r.s PROVE FALSE
        OBVIOUS
      <4>1. r.s - 1 \in cur .. k /\ r.s # 1
        BY <2>1, <3>1
      <4> QED
        BY <1>2, <4>1
    <3>4. r.s = cur
      BY <2>1, <3>1, <3>2, <3>3
    <3> QED
      BY <3>1, <3>4
  <2>4. {[s |-> c, e |-> last] : c \in {cur} \ {0}} = {[s |-> cur, e |-> k]}
    BY <2>1
  <2>5. Ending = {[s |-> cur, e |-> k]}
    <3> HIDE DEF Ending
    <3> QED
      BY <2>2, <2>3
  <2> QED
    BY <2>4, <2>5
<1> QED
  BY <1>1, <1>2 DEF Open

\* The spans the pass over the distances finds are the longest stretches of
\* observations away from home: each is bounded by the ends of the history or
\* by an observation near home, and none is missing.
THEOREM SpansAreRuns ==
    ASSUME NEW n \in Nat, NEW dist, DOMAIN dist = 1 .. n
    PROVE  FindSpans(dist) =
                {r \in [s : 1 .. n, e : 1 .. n] :
                    /\ r.s <= r.e /\ \A i \in r.s .. r.e : Far(dist, i)
                    /\ r.s = 1 \/ ~Far(dist, r.s - 1)
                    /\ r.e = n \/ ~Far(dist, r.e + 1)}
<1> DEFINE D == DOMAIN [i \in DOMAIN dist |-> i]
           base == [spans |-> {}, cur |-> 0, last |-> 0]
           X == [spans : SUBSET [s : Nat, e : Nat], cur : Nat, last : Nat]
           Step(x, i) ==
                IF dist[i] > NearKm THEN [x EXCEPT !.cur = IF @ = 0 THEN i ELSE @, !.last = i]
                ELSE [x EXCEPT !.spans = @ \union {[s |-> c, e |-> x.last] : c \in {x.cur} \ {0}},
                               !.cur = 0]
           Folds(it) == it = [S \in SUBSET D |->
                                IF S = {} THEN base
                                ELSE Step(it[S \ {Max(S)}], [i \in DOMAIN dist |-> i][Max(S)])]
           it == CHOOSE it : Folds(it)
<1>1. D = 1 .. n /\ \A i \in 1 .. n : [j \in DOMAIN dist |-> j][i] = i
  OBVIOUS
<1>2. \A x \in X, i \in 1 .. n : Step(x, i) \in X
  <2> SUFFICES ASSUME NEW x \in X, NEW i \in 1 .. n PROVE Step(x, i) \in X
    OBVIOUS
  <2>1. CASE dist[i] > NearKm
    <3>1. (IF x.cur = 0 THEN i ELSE x.cur) \in Nat /\ i \in Nat
      OBVIOUS
    <3> QED
      BY <2>1, <3>1
  <2>2. CASE ~(dist[i] > NearKm)
    <3>1. {[s |-> c, e |-> x.last] : c \in {x.cur} \ {0}} \in SUBSET [s : Nat, e : Nat]
      OBVIOUS
    <3> QED
      BY <2>2, <3>1
  <2> QED
    BY <2>1, <2>2
<1>3. Folds(it)
  <2> DEFINE G == [q \in X \X (1 .. n) |-> Step(q[1], q[2])]
  <2>1. G \in [X \X (1 .. n) -> X]
    <3> HIDE DEF X, Step
    <3>1. \A q \in X \X (1 .. n) : G[q] \in X
      BY <1>2
    <3> QED
      BY <3>1
  <2>2. base \in X
    OBVIOUS
  <2>3. PICK f \in [SUBSET (1 .. n) -> X] : IsFold(f, n, base, G)
    <3> HIDE DEF G, X, base
    <3> QED
      BY <2>1, <2>2, FoldExists
  <2>4. ASSUME NEW S \in SUBSET (1 .. n), S # {}
        PROVE  G[<<f[S \ {Max(S)}], Max(S)>>]
                    = Step(f[S \ {Max(S)}], [i \in DOMAIN dist |-> i][Max(S)])
    <3>1. Max(S) \in 1 .. n
      BY <2>4, MaxIndex
    <3>2. f[S \ {Max(S)}] \in X
      OBVIOUS
    <3> HIDE DEF X, Step
    <3> QED
      BY <1>1, <3>1, <3>2
  <2>5. Folds(f)
    <3> HIDE DEF G, Step, X, D, base
    <3> QED
      BY <1>1, <2>3, <2>4 DEF IsFold
  <2> HIDE DEF Folds
  <2> QED
    BY <2>5
<1>4. FindSpans(dist) = it[D].spans \union {[s |-> c, e |-> it[D].last] : c \in {it[D].cur} \ {0}}
  BY DEF FindSpans, FoldLeftDomain, FoldLeft, MapThenFoldSet
<1>5. it[{}] = base /\ \A k \in 1 .. n : it[1 .. k] = Step(it[1 .. (k - 1)], k)
  <2> HIDE DEF it, Step, base
  <2>1. it[{}] = base
    BY <1>3
  <2>2. ASSUME NEW k \in 1 .. n PROVE it[1 .. k] = Step(it[1 .. (k - 1)], k)
    <3>1. k \in Nat /\ k # 0 /\ 1 .. k \in SUBSET D
      BY <1>1
    <3>2. Max(1 .. k) = k /\ (1 .. k) \ {k} = 1 .. (k - 1) /\ 1 .. k # {}
      BY <3>1, Prefix
    <3>3. it[1 .. k] = Step(it[(1 .. k) \ {Max(1 .. k)}], [i \in DOMAIN dist |-> i][Max(1 .. k)])
      <4> HIDE DEF D
      <4> QED
        BY <1>3, <3>1, <3>2
    <3> QED
      BY <1>1, <3>2, <3>3
  <2> QED
    BY <2>1, <2>2
<1> DEFINE Allowed == [k \in 0 .. n |->
                        {x \in X : x.spans = RunsBefore(dist, k) /\ Open(dist, k, x.cur, x.last)}]
<1>6. it[{}] \in Allowed[0]
  <2>1. base \in X /\ base.spans = RunsBefore(dist, 0) /\ Open(dist, 0, base.cur, base.last)
    BY DEF RunsBefore, Open
  <2>2. Allowed[0] = {x \in X : x.spans = RunsBefore(dist, 0) /\ Open(dist, 0, x.cur, x.last)}
    OBVIOUS
  <2> HIDE DEF it, base, X, Allowed
  <2> QED
    BY <1>5, <2>1, <2>2
<1>7. ASSUME NEW k \in 1 .. n, NEW x \in X,
             x.spans = RunsBefore(dist, k - 1), Open(dist, k - 1, x.cur, x.last)
      PROVE  /\ Step(x, k).spans = RunsBefore(dist, k)
             /\ Open(dist, k, Step(x, k).cur, Step(x, k).last)
  <2> DEFINE Ending == RunsAt(dist, k - 1)
  <2>1. k - 1 \in Nat /\ k \in Nat /\ (k - 1) + 1 = k
    OBVIOUS
  <2>2. Ending = {[s |-> c, e |-> x.last] : c \in {x.cur} \ {0}}
    BY <1>7, <2>1, RunClosed
  <2>3. CASE dist[k] > NearKm
    <3>1. Step(x, k) = [x EXCEPT !.cur = IF x.cur = 0 THEN k ELSE x.cur, !.last = k]
      BY <2>3
    <3>2. /\ Step(x, k).spans = x.spans /\ Step(x, k).last = k
          /\ Step(x, k).cur = IF x.cur = 0 THEN k ELSE x.cur
      BY <3>1
    <3>3. RunsBefore(dist, k) = RunsBefore(dist, k - 1)
      <4>1. \A r \in [s : Nat \ {0}, e : Nat \ {0}] :
                r.e < k /\ ~Far(dist, r.e + 1) => r.e < k - 1
        BY <2>1, <2>3 DEF Far
      <4>2. \A r \in [s : Nat \ {0}, e : Nat \ {0}] : r.e < k - 1 => r.e < k
        BY <2>1
      <4> QED
        BY <4>1, <4>2 DEF RunsBefore
    <3>4. Open(dist, k, Step(x, k).cur, Step(x, k).last)
      <4>1. CASE x.cur = 0
        <5>1. k - 1 = 0 \/ ~Far(dist, k - 1)
          BY <1>7, <2>1, <4>1 DEF Open
        <5>2. k \in 1 .. k /\ (k = 1 \/ ~Far(dist, k - 1)) /\ \A i \in k .. k : Far(dist, i)
          BY <2>1, <2>3, <5>1 DEF Far
        <5> QED
          BY <3>2, <4>1, <5>2 DEF Open
      <4>2. CASE x.cur # 0
        <5>1. x.cur \in 1 .. (k - 1) /\ \A i \in x.cur .. (k - 1) : Far(dist, i)
          BY <1>7, <4>2 DEF Open
        <5>2. x.cur = 1 \/ ~Far(dist, x.cur - 1)
          BY <1>7, <4>2 DEF Open
        <5>3. x.cur \in 1 .. k /\ \A i \in x.cur .. k : Far(dist, i)
          BY <2>1, <2>3, <5>1 DEF Far
        <5> QED
          BY <3>2, <4>2, <5>2, <5>3 DEF Open
      <4> QED
        BY <4>1, <4>2
    <3> QED
      BY <1>7, <3>2, <3>3, <3>4
  <2>4. CASE ~(dist[k] > NearKm)
    <3>1. Step(x, k).spans = x.spans \union Ending /\ Step(x, k).cur = 0
      BY <2>2, <2>4
    <3>2. RunsBefore(dist, k) = RunsBefore(dist, k - 1) \union Ending
      <4>1. ASSUME NEW r \in [s : Nat \ {0}, e : Nat \ {0}]
            PROVE  /\ r.e < k <=> r.e < k - 1 \/ r.e = k - 1
                   /\ r.e = k - 1 => ~Far(dist, r.e + 1)
        BY <2>1, <2>4 DEF Far
      <4> QED
        BY <4>1 DEF RunsBefore, RunsAt
    <3>3. Open(dist, k, 0, Step(x, k).last)
      BY <2>4 DEF Open, Far
    <3> HIDE DEF Step, Ending
    <3> QED
      BY <1>7, <3>1, <3>2, <3>3
  <2> QED
    BY <2>3, <2>4
<1>8. ASSUME NEW k \in 1 .. n, it[1 .. (k - 1)] \in Allowed[k - 1]
      PROVE  it[1 .. k] \in Allowed[k]
  <2>1. k - 1 \in 0 .. n /\ k \in 0 .. n
    OBVIOUS
  <2> HIDE DEF it, X, Step
  <2> QED
    BY <1>2, <1>5, <1>7, <1>8, <2>1
<1>9. it[1 .. n] \in Allowed[n]
  <2> HIDE DEF it, Allowed
  <2> QED
    BY <1>6, <1>8, FoldInvariant
<1>10. FindSpans(dist) = RunsBefore(dist, n) \union RunsAt(dist, n)
  <2>1. n \in 0 .. n
    OBVIOUS
  <2>2. /\ it[1 .. n].spans = RunsBefore(dist, n)
        /\ Open(dist, n, it[1 .. n].cur, it[1 .. n].last)
    <3> HIDE DEF it, X
    <3> QED
      BY <1>9, <2>1
  <2> HIDE DEF it
  <2> QED
    BY <1>1, <1>4, <2>2, RunClosed
<1>11. \A r \in [s : Nat \ {0}, e : Nat \ {0}] :
            r.s <= r.e /\ (r.e < n \/ r.e = n) <=> r \in [s : 1 .. n, e : 1 .. n] /\ r.s <= r.e
  OBVIOUS
<1>12. [s : 1 .. n, e : 1 .. n] \subseteq [s : Nat \ {0}, e : Nat \ {0}]
  OBVIOUS
<1> HIDE DEF it, Folds, Step, X, Allowed, base, D
<1> QED
  BY <1>10, <1>11, <1>12 DEF RunsBefore, RunsAt

-----------------------------------------------------------------------------
(* Extremes and means.                                                       *)

\* Some index has the largest of the numbers at some indices.
LEMMA SomeLargest ==
    ASSUME NEW n \in Nat, NEW K \in SUBSET (1 .. n), K # {}, NEW f, \A i \in K : f[i] \in Int
    PROVE  \E i \in K : \A m \in K : f[m] <= f[i]
<1> DEFINE Upto(k) == {i \in K : i <= k}
           N == {k \in 0 .. n : Upto(k) # {} => \E i \in Upto(k) : \A m \in Upto(k) : f[m] <= f[i]}
<1>1. 0 \in N
  <2>1. \A i \in K : ~(i <= 0)
    OBVIOUS
  <2> HIDE DEF N
  <2>2. Upto(0) = {}
    BY <2>1
  <2>3. 0 \in 0 .. n
    OBVIOUS
  <2> USE DEF N
  <2> HIDE DEF Upto
  <2> QED
    BY <2>2, <2>3
<1>2. ASSUME NEW k \in 1 .. n, k - 1 \in N PROVE k \in N
  <2>1. k \in 0 .. n /\ \A i \in K : i <= k <=> i <= k - 1 \/ i = k
    <3>1. \A i \in K : i \in Int
      OBVIOUS
    <3> QED
      BY <3>1
  <2>2. CASE k \notin K
    <3>1. Upto(k) = Upto(k - 1)
      BY <2>1, <2>2
    <3> HIDE DEF Upto
    <3> QED
      BY <1>2, <2>1, <3>1
  <2>3. CASE k \in K
    <3>1. Upto(k) = Upto(k - 1) \union {k} /\ f[k] \in Int
      <4>1. \A i \in K : i <= k <=> i <= k - 1 \/ i = k
        BY <2>1
      <4> QED
        BY <2>3, <4>1
    <3>2. \A m \in Upto(k - 1) : f[m] \in Int
      OBVIOUS
    <3>3. CASE Upto(k - 1) = {}
      <4>1. \A m \in Upto(k) : f[m] <= f[k]
        <5> HIDE DEF Upto
        <5> QED
          BY <3>1, <3>3
      <4> QED
        BY <2>1, <2>3, <4>1
    <3>4. CASE Upto(k - 1) # {}
      <4> HIDE DEF Upto
      <4>1. PICK i \in Upto(k - 1) : \A m \in Upto(k - 1) : f[m] <= f[i]
        BY <1>2, <3>4
      <4>2. CASE f[i] <= f[k]
        <5>1. \A m \in Upto(k) : f[m] <= f[k]
          BY <3>1, <3>2, <4>1, <4>2
        <5> QED
          BY <2>1, <3>1, <5>1
      <4>3. CASE ~(f[i] <= f[k])
        <5>1. f[k] <= f[i]
          BY <3>1, <3>2, <4>3
        <5>2. \A m \in Upto(k) : f[m] <= f[i]
          BY <3>1, <4>1, <5>1
        <5> QED
          BY <2>1, <3>1, <5>2
      <4> QED
        BY <4>2, <4>3
    <3> QED
      BY <3>3, <3>4
  <2> QED
    BY <2>2, <2>3
<1>3. 0 .. n \subseteq N
  <2> HIDE DEF N
  <2> QED
    BY <1>1, <1>2, StepByStep
<1>4. n \in N /\ Upto(n) = K
  <2> HIDE DEF N
  <2>1. n \in 0 .. n /\ \A i \in K : i <= n
    OBVIOUS
  <2>2. Upto(n) = K
    BY <2>1
  <2> HIDE DEF Upto
  <2> QED
    BY <1>3, <2>1, <2>2
<1> QED
  <2> HIDE DEF Upto
  <2> QED
    BY <1>4

\* A finite set of numbers has a largest and a least one.
LEMMA Extremes ==
    ASSUME NEW S, S \subseteq Int, IsFiniteSet(S), S # {}
    PROVE  /\ Max(S) \in S /\ \A x \in S : x <= Max(S)
           /\ Min(S) \in S /\ \A x \in S : Min(S) <= x
<1> DEFINE n == Cardinality(S)
<1>1. n \in Nat /\ ExistsBijection(1 .. n, S)
  BY FS_CardinalityType
<1>2. PICK f : f \in Bijection(1 .. n, S)
  BY <1>1 DEF ExistsBijection
<1> HIDE DEF n
<1>3. /\ \A i \in 1 .. n : f[i] \in S /\ f[i] \in Int
      /\ \A x \in S : \E i \in 1 .. n : f[i] = x
      /\ 1 .. n # {}
  BY <1>2 DEF Bijection, Injection, Surjection
<1>4. PICK i \in 1 .. n : \A m \in 1 .. n : f[m] <= f[i]
  <2>1. 1 .. n \in SUBSET (1 .. n)
    OBVIOUS
  <2> QED
    BY <1>1, <1>3, <2>1, SomeLargest
<1>5. f[i] \in S /\ \A x \in S : x <= f[i] /\ f[i] >= x
  BY <1>3, <1>4
<1> DEFINE g == [m \in 1 .. n |-> -f[m]]
<1>6. PICK k \in 1 .. n : \A m \in 1 .. n : g[m] <= g[k]
  <2>1. 1 .. n \in SUBSET (1 .. n) /\ \A m \in 1 .. n : g[m] \in Int
    BY <1>3
  <2> HIDE DEF g
  <2> QED
    BY <1>1, <1>3, <2>1, SomeLargest
<1>7. f[k] \in S /\ \A x \in S : f[k] <= x
  <2>1. \A m \in 1 .. n : f[k] <= f[m]
    <3>1. \A m \in 1 .. n : -f[m] <= -f[k]
      BY <1>6
    <3> QED
      BY <1>3, <3>1
  <2> QED
    BY <1>3, <2>1
<1>8. \E x \in S : \A y \in S : x >= y
  BY <1>5
<1>9. \E x \in S : \A y \in S : x =< y
  BY <1>7
<1>10. Max(S) \in S /\ \A x \in S : Max(S) >= x
  BY <1>8 DEF Max
<1>11. Min(S) \in S /\ \A x \in S : Min(S) =< x
  BY <1>9 DEF Min
<1> QED
  BY <1>10, <1>11

\* A sum lies between as many times the least and as many times the largest.
LEMMA SumBetween ==
    ASSUME NEW s \in Seq(Int), Len(s) > 0
    PROVE  \E a, b \in 1 .. Len(s) : Len(s) * s[a] <= SumOf(s) /\ SumOf(s) <= Len(s) * s[b]
<1> DEFINE n == Len(s)
<1>1. n \in Nat /\ n > 0 /\ \A i \in 1 .. n : s[i] \in Int
  OBVIOUS
<1>2. PICK upto : SumsUpTo(upto, s) /\ SumOf(s) = upto[n]
  BY SumsExist
<1> HIDE DEF n
<1>3. 1 .. n \in SUBSET (1 .. n) /\ 1 .. n # {}
  <2>1. 1 \in 1 .. n
    BY <1>1
  <2> QED
    BY <2>1
<1>4. PICK b \in 1 .. n : \A m \in 1 .. n : s[m] <= s[b]
  BY <1>1, <1>3, SomeLargest
<1>5. PICK a \in 1 .. n : \A m \in 1 .. n : s[a] <= s[m]
  <2> DEFINE g == [m \in 1 .. n |-> -s[m]]
  <2>1. \A m \in 1 .. n : g[m] \in Int
    BY <1>1
  <2>2. PICK a \in 1 .. n : \A m \in 1 .. n : g[m] <= g[a]
    <3> HIDE DEF g
    <3> QED
      BY <1>1, <1>3, <2>1, SomeLargest
  <2>3. ASSUME NEW m \in 1 .. n PROVE s[a] <= s[m]
    <3>1. g[m] <= g[a] /\ s[m] \in Int /\ s[a] \in Int
      BY <1>1, <2>2
    <3> QED
      BY <3>1
  <2> QED
    BY <2>3
<1> DEFINE lo == s[a]
           hi == s[b]
           N == {i \in 0 .. n : i * lo <= upto[i] /\ upto[i] <= i * hi}
<1>6. lo \in Int /\ hi \in Int
  BY <1>1
<1>7. 0 \in N
  BY <1>1, <1>2, <1>6 DEF SumsUpTo
<1>8. ASSUME NEW i \in 1 .. n, i - 1 \in N PROVE i \in N
  <2>1. i \in 0 .. n /\ i - 1 \in 0 .. n /\ i \in Int
    BY <1>1
  <2>2. upto[i - 1] \in Int /\ upto[i] = upto[i - 1] + s[i] /\ s[i] \in Int
    BY <1>1, <1>2, <2>1 DEF SumsUpTo, n
  <2>3. lo <= s[i] /\ s[i] <= hi
    BY <1>4, <1>5
  <2>4. (i - 1) * lo <= upto[i - 1] /\ upto[i - 1] <= (i - 1) * hi
    BY <1>8
  <2> HIDE DEF lo, hi, N
  <2>5. i * lo = (i - 1) * lo + lo /\ i * hi = (i - 1) * hi + hi
    BY <1>6, <2>1
  <2>6. (i - 1) * lo \in Int /\ (i - 1) * hi \in Int
    BY <1>6, <2>1
  <2>7. ASSUME NEW p \in Int, NEW q \in Int, p <= upto[i - 1], upto[i - 1] <= q
        PROVE  p + lo <= upto[i] /\ upto[i] <= q + hi
    BY SMTT(30), <1>6, <2>2, <2>3, <2>7
  <2>8. i * lo <= upto[i] /\ upto[i] <= i * hi
    BY <2>4, <2>5, <2>6, <2>7
  <2> QED
    BY <2>1, <2>8 DEF N
<1>9. n \in N
  <2>1. n \in 0 .. n
    BY <1>1
  <2> HIDE DEF N
  <2> QED
    BY <1>1, <1>7, <1>8, <2>1, StepByStep
<1>10. n * s[a] <= SumOf(s) /\ SumOf(s) <= n * s[b]
  BY <1>2, <1>9
<1> QED
  BY <1>10 DEF n

\* In whole multiples of n, what is more is more by n.
LEMMA Product ==
    ASSUME NEW n \in Nat, n > 0, NEW x \in Int, NEW y \in Int, x > y
    PROVE  n * x \in Int /\ n * y \in Int /\ n * x >= n * y + n
<1>1. x - y - 1 \in Nat
  OBVIOUS
<1>2. n * (x - y - 1) >= 0
  BY <1>1
<1>3. n * (x - y - 1) = n * x - n * y - n
  OBVIOUS
<1>4. n * x \in Int /\ n * y \in Int
  OBVIOUS
<1> QED
  BY <1>2, <1>3, <1>4

\* A mean rounded down lies between what the sum lies between.
LEMMA Quotient ==
    ASSUME NEW n \in Nat, n > 0, NEW q \in Int, NEW S \in Int
    PROVE  /\ S \div n \in Int
           /\ n * q <= S => q <= S \div n
           /\ S <= n * q => S \div n <= q
<1> DEFINE d == S \div n
<1>1. d \in Int /\ n * d <= S /\ S < n * d + n
  OBVIOUS
<1> HIDE DEF d
<1>2. q > d => n * q >= n * d + n
  BY <1>1, Product
<1>3. d > q => n * d >= n * q + n
  BY <1>1, Product
<1>4. n * q \in Int /\ n * d \in Int
  BY <1>1
<1> QED
  BY <1>1, <1>2, <1>3, <1>4 DEF d

\* What is near the mean is nearly between what the sum lies between.
LEMMA NearMean ==
    ASSUME NEW n \in Nat, n > 0, NEW S \in Int, NEW p \in Int, NEW lo \in Int, NEW hi \in Int,
           NEW r \in Int, n * lo <= S, S <= n * hi, Dist(S, n * p) <= n * r
    PROVE  lo - r <= p /\ p <= hi + r
<1>1. n * p \in Int /\ n * r \in Int /\ n * lo \in Int /\ n * hi \in Int
  OBVIOUS
<1>2. S - n * p <= n * r /\ n * p - S <= n * r
  BY <1>1 DEF Dist
<1>3. n * (lo - r) = n * lo - n * r /\ n * (hi + r) = n * hi + n * r
  OBVIOUS
<1>4. n * (lo - r) <= n * p /\ n * p <= n * (hi + r)
  BY <1>1, <1>2, <1>3
<1>5. lo - r \in Int /\ hi + r \in Int
  OBVIOUS
<1>6. lo - r > p => n * (lo - r) >= n * p + n
  BY <1>5, Product
<1>7. p > hi + r => n * p >= n * (hi + r) + n
  BY <1>5, Product
<1>8. n * (lo - r) \in Int /\ n * (hi + r) \in Int
  BY <1>5
<1> QED
  BY <1>1, <1>4, <1>5, <1>6, <1>7, <1>8

-----------------------------------------------------------------------------
(* Lists of observations.                                                    *)

\* What sorting by start does to the indices of s.
SortsByStart(p, s) ==
    /\ p \in [DOMAIN s -> DOMAIN s]
    /\ \A i \in DOMAIN s : \E k \in DOMAIN s : p[k] = i
    /\ \A k, l \in DOMAIN s : k < l => /\ s[p[k]].start <= s[p[l]].start
                                       /\ s[p[k]].start = s[p[l]].start => p[k] < p[l]
    /\ DOMAIN ByStart(s) = DOMAIN s
    /\ \A k \in DOMAIN s : ByStart(s)[k] = s[p[k]]

LEMMA ByStartIs ==
    ASSUME NEW E, Dated(E), NEW s \in Seq(E)
    PROVE  \E p : SortsByStart(p, s)
<1> DEFINE n == Len(s)
           keys == [i \in DOMAIN s |-> s[i].start]
<1>1. n \in Nat /\ DOMAIN s = 1 .. n /\ keys \in [1 .. n -> Int]
  BY DEF Dated
<1>2. PICK p : Sorts(p, keys, n) /\ StablyBy(keys, s) = [k \in 1 .. n |-> s[p[k]]]
  <2> HIDE DEF n, keys
  <2> QED
    BY ZenonT(40), <1>1, Sorting
<1>3. ByStart(s) = [k \in 1 .. n |-> s[p[k]]]
  BY <1>2 DEF ByStart
<1>4. \A i \in 1 .. n : keys[i] = s[i].start
  BY <1>1
<1> HIDE DEF keys, n
<1>5. p \in [1 .. n -> 1 .. n] /\ \A i \in 1 .. n : \E k \in 1 .. n : p[k] = i
  BY <1>2 DEF Sorts
<1>6. \A k, l \in 1 .. n : k < l => /\ s[p[k]].start <= s[p[l]].start
                                    /\ s[p[k]].start = s[p[l]].start => p[k] < p[l]
  <2> SUFFICES ASSUME NEW k \in 1 .. n, NEW l \in 1 .. n, k < l
               PROVE  /\ s[p[k]].start <= s[p[l]].start
                      /\ s[p[k]].start = s[p[l]].start => p[k] < p[l]
    OBVIOUS
  <2>1. keys[p[k]] = s[p[k]].start /\ keys[p[l]] = s[p[l]].start
    BY <1>4, <1>5
  <2> QED
    BY <1>2, <2>1 DEF Sorts
<1>7. DOMAIN ByStart(s) = 1 .. n /\ \A k \in 1 .. n : ByStart(s)[k] = s[p[k]]
  BY <1>3
<1> QED
  BY ZenonT(40), <1>1, <1>5, <1>6, <1>7 DEF SortsByStart

\* No two start together.
Apart(s) == \A k, l \in DOMAIN s : k # l => s[k].start # s[l].start

Rising(s) == \A k, l \in DOMAIN s : k < l => s[k].start < s[l].start

Covers(s, S) == \A x \in S : \E k \in DOMAIN s : s[k] = x

\* All of S once, as it started.
Lists(s, S) == s \in Seq(S) /\ Rising(s) /\ Covers(s, S)

LEMMA RisingIsApart ==
    ASSUME NEW E, Dated(E), NEW s \in Seq(E), Rising(s)
    PROVE  Apart(s)
<1> SUFFICES ASSUME NEW k \in DOMAIN s, NEW l \in DOMAIN s, k # l
             PROVE  s[k].start # s[l].start
  BY DEF Apart
<1>1. s[k] \in E /\ s[l] \in E /\ k \in Int /\ l \in Int
  OBVIOUS
<1>2. s[k].start \in Int /\ s[l].start \in Int /\ (k < l \/ l < k)
  BY <1>1 DEF Dated
<1> QED
  BY <1>2 DEF Rising

LEMMA ApartRises ==
    ASSUME NEW E, Dated(E), NEW s \in Seq(E), Apart(s)
    PROVE  Rising(ByStart(s))
<1>1. PICK p : SortsByStart(p, s)
  BY ByStartIs
<1> SUFFICES ASSUME NEW k \in DOMAIN s, NEW l \in DOMAIN s, k < l
             PROVE  ByStart(s)[k].start < ByStart(s)[l].start
  BY <1>1 DEF Rising, SortsByStart
<1>2. p[k] \in DOMAIN s /\ p[l] \in DOMAIN s
  BY <1>1 DEF SortsByStart
<1>3. /\ ByStart(s)[k] = s[p[k]] /\ ByStart(s)[l] = s[p[l]]
      /\ s[p[k]].start <= s[p[l]].start
      /\ s[p[k]].start = s[p[l]].start => p[k] < p[l]
  BY <1>1 DEF SortsByStart
<1>4. s[p[k]] \in E /\ s[p[l]] \in E /\ p[k] \in Int /\ p[l] \in Int
  BY <1>2
<1>5. s[p[k]].start \in Int /\ s[p[l]].start \in Int
  BY <1>4 DEF Dated
<1>6. p[k] # p[l] => s[p[k]].start # s[p[l]].start
  BY <1>2 DEF Apart
<1> QED
  BY <1>3, <1>4, <1>5, <1>6

LEMMA SortedCovers ==
    ASSUME NEW E, Dated(E), NEW s \in Seq(E), NEW S, Covers(s, S)
    PROVE  Covers(ByStart(s), S)
<1>1. PICK p : SortsByStart(p, s)
  BY ByStartIs
<1> SUFFICES ASSUME NEW x \in S PROVE \E k \in DOMAIN s : ByStart(s)[k] = x
  BY <1>1 DEF Covers, SortsByStart
<1>2. PICK i \in DOMAIN s : s[i] = x
  BY DEF Covers
<1>3. PICK k \in DOMAIN s : p[k] = i
  BY <1>1 DEF SortsByStart
<1> QED
  BY <1>1, <1>2, <1>3 DEF SortsByStart

LEMMA Relisted ==
    ASSUME NEW S, Dated(S), NEW s, Lists(s, S)
    PROVE  Lists(ByStart(s), S)
<1>1. s \in Seq(S) /\ Apart(s) /\ Covers(s, S)
  BY RisingIsApart DEF Lists
<1> QED
  BY <1>1, ByStartOrders, ApartRises, SortedCovers DEF Lists

LEMMA ListedOnce ==
    ASSUME NEW S, IsFiniteSet(S)
    PROVE  /\ SetToSeq(S) \in Seq(S) /\ Covers(SetToSeq(S), S)
           /\ \A k, l \in DOMAIN SetToSeq(S) : k # l => SetToSeq(S)[k] # SetToSeq(S)[l]
<1> DEFINE m == Cardinality(S)
           s == SetToSeq(S)
<1>1. m \in Nat /\ ExistsBijection(1 .. m, S)
  BY FS_CardinalityType
<1>2. PICK f : f \in Bijection(1 .. m, S)
  BY <1>1 DEF ExistsBijection
<1>3. f \in [1 .. m -> S] /\ IsInjective(f)
  BY <1>2 DEF Bijection, Injection
<1>4. s \in [1 .. m -> S] /\ IsInjective(s)
  BY <1>3 DEF SetToSeq
<1>5. IsFiniteSet(1 .. m) /\ Cardinality(1 .. m) = m
  <2> HIDE DEF m
  <2> QED
    BY <1>1, FS_Interval
<1> HIDE DEF s
<1>6. s \in Surjection(1 .. m, S)
  <2>1. s \in Injection(1 .. m, S)
    BY <1>4 DEF Injection
  <2> QED
    BY <1>5, <2>1, FS_Injection
<1> HIDE DEF m
<1>7. s = [i \in 1 .. m |-> s[i]] /\ \A i \in 1 .. m : s[i] \in S
  BY <1>4
<1>8. s \in Seq(S) /\ DOMAIN s = 1 .. m
  <2>1. [i \in 1 .. m |-> s[i]] \in Seq(S)
    BY <1>1, <1>7, IsASeq
  <2> QED
    BY <1>7, <2>1
<1>9. Covers(s, S)
  BY <1>6, <1>8 DEF Surjection, Covers
<1>10. \A k, l \in DOMAIN s : k # l => s[k] # s[l]
  BY <1>4 DEF IsInjective
<1> QED
  BY <1>8, <1>9, <1>10 DEF s

\* No two of a set start together.
Differ(S) == \A x, y \in S : x # y => x.start # y.start

LEMMA Listed ==
    ASSUME NEW S, IsFiniteSet(S), Dated(S), Differ(S)
    PROVE  Lists(ByStart(SetToSeq(S)), S)
<1>1. /\ SetToSeq(S) \in Seq(S) /\ Covers(SetToSeq(S), S)
      /\ \A k, l \in DOMAIN SetToSeq(S) : k # l => SetToSeq(S)[k] # SetToSeq(S)[l]
  BY ListedOnce
<1>2. Apart(SetToSeq(S))
  <2>1. \A k \in DOMAIN SetToSeq(S) : SetToSeq(S)[k] \in S
    BY <1>1
  <2> QED
    BY <1>1, <2>1 DEF Apart, Differ
<1> QED
  BY <1>1, <1>2, ByStartOrders, ApartRises, SortedCovers DEF Lists

-----------------------------------------------------------------------------
(* Stays: the runs of photos.                                                *)

\* Where a photo does not extend the stay that began at an earlier one.
Breaks(s) == {p \in (DOMAIN s) \X (DOMAIN s) : ~Extends(SubSeq(s, p[1], p[2] - 1), s[p[2]])}

\* The first photo of each one's stay, and the last.
First(s) == Leader(Len(s), Breaks(s))

Until(s, i) == Max({k \in DOMAIN s : First(s)[k] = First(s)[i]})

VisitOf(s, i) ==
    LET all == SubSeq(s, i, Until(s, i))
    IN  [start |-> s[i].start, end |-> s[Until(s, i)].start,
         loc |-> SumOf(Places(all)) \div Len(all), home |-> FALSE]

Lasting(s) == {i \in DOMAIN s : First(s)[i] = i /\ s[Until(s, i)].start - s[i].start >= StayMin}

LEMMA StaysAre ==
    ASSUME NEW photos
    PROVE  SynthesizeStays(photos)
                = Only([i \in DOMAIN ByStart(photos) |-> VisitOf(ByStart(photos), i)],
                       Lasting(ByStart(photos)))
BY DEF SynthesizeStays, Breaks, First, Until, VisitOf, Lasting

\* A stretch of a sequence of observations, and its places.
LEMMA Stretch ==
    ASSUME NEW E, \A e \in E : e.loc \in Int, NEW s \in Seq(E),
           NEW i \in DOMAIN s, NEW k \in DOMAIN s, i <= k
    PROVE  /\ SubSeq(s, i, k) \in Seq(E) /\ Len(SubSeq(s, i, k)) = k - i + 1
           /\ Last(SubSeq(s, i, k)) = s[k]
           /\ Places(SubSeq(s, i, k)) \in Seq(Int)
           /\ Len(Places(SubSeq(s, i, k))) = k - i + 1
           /\ \A m \in 1 .. (k - i + 1) : /\ i + m - 1 \in i .. k
                                          /\ Places(SubSeq(s, i, k))[m] = s[i + m - 1].loc
<1> DEFINE t == SubSeq(s, i, k)
           n == k - i + 1
<1>1. i \in Int /\ k \in Int /\ n \in Nat /\ n # 0 /\ \A m \in i .. k : m \in DOMAIN s /\ s[m] \in E
  OBVIOUS
<1>2. /\ t \in Seq(E) /\ Len(t) = n
      /\ \A m \in 1 .. n : t[m] = s[i + m - 1]
  <2>1. \A m \in i .. k : s[m] \in E
    BY <1>1
  <2>2. /\ SubSeq(s, i, k) \in Seq(E)
        /\ Len(SubSeq(s, i, k)) = IF i <= k THEN k - i + 1 ELSE 0
        /\ \A m \in 1 .. k - i + 1 : SubSeq(s, i, k)[m] = s[i + m - 1]
    <3>1. i \in Int
      BY <1>1
    <3>2. k \in Int
      BY <1>1
    <3> HIDE DEF n, t
    <3> QED
      BY <2>1, <3>1, <3>2, SubSeqProperties
  <2> QED
    BY <1>1, <2>2
<1> HIDE DEF t
<1>3. Last(t) = s[k]
  <2>1. n \in 1 .. n /\ i + n - 1 = k
    BY <1>1
  <2> HIDE DEF n
  <2> QED
    BY <1>2, <2>1 DEF Last
<1>4. DOMAIN t = 1 .. n /\ \A m \in 1 .. n : i + m - 1 \in i .. k /\ t[m] \in E
  BY SMTT(30), <1>1, <1>2
<1> HIDE DEF n
<1>5. Places(t) = [m \in 1 .. n |-> t[m].loc]
  BY <1>4 DEF Places
<1>6. \A m \in 1 .. n : t[m].loc \in Int
  BY <1>4
<1>7. Places(t) \in Seq(Int) /\ Len(Places(t)) = n
  <2>1. [m \in 1 .. n |-> t[m].loc] \in Seq(Int)
    BY <1>1, <1>6, IsASeq
  <2>2. Len([m \in 1 .. n |-> t[m].loc]) = n
    BY <1>1
  <2> QED
    BY <1>5, <2>1, <2>2
<1>8. \A m \in 1 .. n : i + m - 1 \in i .. k /\ Places(t)[m] = s[i + m - 1].loc
  BY <1>2, <1>4, <1>5
<1> QED
  BY <1>2, <1>3, <1>7, <1>8 DEF n, t

\* A stay goes on for as long as photos extend it.
LEMMA StaysGoOn ==
    ASSUME NEW E, NEW s \in Seq(E), NEW i \in DOMAIN s, First(s)[i] = i
    PROVE  /\ Until(s, i) \in DOMAIN s /\ i <= Until(s, i)
           /\ \A k \in (i + 1) .. Until(s, i) : k \in DOMAIN s /\ Extends(SubSeq(s, i, k - 1), s[k])
<1> DEFINE n == Len(s)
           first == First(s)
           e == Until(s, i)
<1>1. n \in Nat /\ DOMAIN s = 1 .. n
  OBVIOUS
<1>2. Leads(first, n, Breaks(s))
  <2> HIDE DEF n
  <2>1. Leads(Leader(n, Breaks(s)), n, Breaks(s))
    BY <1>1, LeaderExists
  <2> QED
    BY <2>1 DEF First, n
<1> HIDE DEF n, first
<1>3. InRuns(first, n)
  BY <1>1, <1>2, LeadersLeadRuns
<1>4. first[i] = i /\ i \in 1 .. n
  BY <1>1 DEF first
<1>5. EndIn(first, n, i) = e
  BY <1>1, <1>4 DEF EndIn, Until, first
<1> HIDE DEF e
<1>6. e \in 1 .. n /\ i <= e /\ \A k \in 1 .. n : first[k] = i <=> i <= k /\ k <= e
  BY <1>1, <1>3, <1>4, <1>5, RunsEnd
<1>7. ASSUME NEW k \in (i + 1) .. e
      PROVE  k \in 1 .. n /\ Extends(SubSeq(s, i, k - 1), s[k])
  <2>1. k \in 1 .. n /\ k - 1 \in 1 .. n /\ k # 1 /\ i <= k - 1 /\ k - 1 <= e /\ i <= k /\ k <= e /\ k # i
    BY <1>1, <1>4, <1>6
  <2>2. first[k - 1] = i /\ first[k] = i
    BY <1>6, <2>1
  <2>3. <<i, k>> \notin Breaks(s)
    BY <1>2, <2>1, <2>2 DEF Leads
  <2>4. <<i, k>> \in (DOMAIN s) \X (DOMAIN s)
    BY <1>1, <1>4, <2>1
  <2> QED
    BY <2>1, <2>3, <2>4 DEF Breaks
<1> QED
  BY <1>1, <1>6, <1>7 DEF e

StayVisit == [start : Int, end : Int, loc : Int, home : {FALSE}]

LEMMA StayOf ==
    ASSUME NEW E, Dated(E), \A e \in E : e.loc \in Int, NEW s \in Seq(E),
           NEW i \in DOMAIN s, First(s)[i] = i
    PROVE  VisitOf(s, i) \in StayVisit
<1> DEFINE e == Until(s, i)
           all == SubSeq(s, i, e)
<1>1. e \in DOMAIN s /\ i <= e
  BY StaysGoOn
<1>2. s[i] \in E /\ s[e] \in E
  BY <1>1
<1>3. s[i].start \in Int /\ s[e].start \in Int
  BY <1>2 DEF Dated
<1>4. /\ Len(all) = e - i + 1 /\ Places(all) \in Seq(Int)
      /\ e - i + 1 \in Int /\ e - i + 1 > 0
  <2> HIDE DEF e
  <2>1. i \in Int /\ e \in Int
    BY <1>1
  <2> QED
    BY <1>1, <2>1, Stretch
<1>5. SumOf(Places(all)) \in Int
  BY <1>4, SumsTyped
<1>6. \A k, m \in Int : m > 0 => k \div m \in Int
  OBVIOUS
<1>7. SumOf(Places(all)) \div Len(all) \in Int
  <2> HIDE DEF all, e
  <2> QED
    BY <1>4, <1>5, <1>6
<1> QED
  BY <1>3, <1>7 DEF VisitOf, StayVisit

LEMMA StaysType ==
    ASSUME NEW E, Dated(E), \A e \in E : e.loc \in Int, NEW photos \in Seq(E)
    PROVE  SynthesizeStays(photos) \in Seq(StayVisit)
<1> DEFINE s == ByStart(photos)
           visits == [i \in DOMAIN s |-> VisitOf(s, i)]
           V == {VisitOf(s, i) : i \in DOMAIN s}
<1>1. s \in Seq(E)
  BY ByStartOrders
<1>2. \A i \in Lasting(s) : i \in DOMAIN s /\ VisitOf(s, i) \in StayVisit
  <2> HIDE DEF s
  <2> QED
    BY <1>1, StayOf DEF Lasting
<1>3. visits \in Seq(V) /\ DOMAIN visits = DOMAIN s
  <2> HIDE DEF s
  <2>1. DOMAIN s = 1 .. Len(s) /\ Len(s) \in Nat
    BY <1>1
  <2>2. \A i \in 1 .. Len(s) : VisitOf(s, i) \in V
    BY <2>1
  <2> HIDE DEF V
  <2>3. [i \in 1 .. Len(s) |-> VisitOf(s, i)] \in Seq(V)
    BY <2>1, <2>2, IsASeq
  <2> QED
    BY <2>1, <2>3
<1>4. \A i \in Lasting(s) : i \in DOMAIN visits /\ visits[i] \in StayVisit
  BY <1>2
<1> HIDE DEF visits, V, s
<1>5. Only(visits, Lasting(s)) \in Seq(StayVisit)
  <2>1. Lasting(s) \in SUBSET DOMAIN visits
    BY <1>4
  <2> QED
    BY <1>3, <1>4, <2>1, OnlySome
<1> QED
  BY <1>5, StaysAre DEF visits, s

\* What the photos of P say of a stay v.
Among(place, photos, slack) ==
    \E x, y \in photos : x.loc - slack <= place /\ place <= y.loc + slack

Taken(v, P) == {x \in P : x.start \in v.start .. v.end}

Witnessed(v, P) ==
    /\ {v.start, v.end} \subseteq {x.start : x \in Taken(v, P)}
    /\ \A x \in Taken(v, P) : x.start # v.end =>
            \E y \in Taken(v, P) : y.start > x.start /\ y.start - x.start <= StayMaxGap
    /\ Among(v.loc, Taken(v, P), 0)
    /\ \A x \in Taken(v, P) : x.start > v.start =>
            Among(x.loc, {y \in Taken(v, P) : y.start < x.start}, StayRadius)

LEMMA StayIsWitnessed ==
    ASSUME NEW P, Dated(P), \A e \in P : e.loc \in Int, NEW s, Lists(s, P),
           NEW i \in DOMAIN s, First(s)[i] = i
    PROVE  Witnessed(VisitOf(s, i), P)
<1> DEFINE e == Until(s, i)
           v == VisitOf(s, i)
           all == SubSeq(s, i, e)
<1>1. /\ s \in Seq(P) /\ \A k \in DOMAIN s : k \in Int /\ s[k] \in P
      /\ \A k \in DOMAIN s : s[k].start \in Int /\ s[k].loc \in Int
  BY DEF Lists, Dated
<1>a. s \in Seq(P)
  BY <1>1
<1>b. \A x \in P : x.loc \in Int
  OBVIOUS
<1>2. e \in DOMAIN s /\ i <= e /\ \A k \in (i + 1) .. e : k \in DOMAIN s /\ Extends(SubSeq(s, i, k - 1), s[k])
  BY <1>1, StaysGoOn
<1>3. v.start = s[i].start /\ v.end = s[e].start /\ v.loc = SumOf(Places(all)) \div Len(all)
  BY DEF VisitOf
<1> HIDE DEF e, all, v
<1>4. i \in Int /\ e \in Int /\ \A k \in i .. e : k \in DOMAIN s
  <2>1. DOMAIN s = 1 .. Len(s) /\ Len(s) \in Nat
    BY <1>1
  <2> QED
    BY <1>2, <2>1
\* The photos taken during the stay are those from i to e.
<1>5. ASSUME NEW k \in DOMAIN s PROVE s[k] \in Taken(v, P) <=> k \in i .. e
  <2>1. Rising(s)
    BY DEF Lists
  <2>2. k < i => s[k].start < s[i].start
    BY <2>1 DEF Rising
  <2>3. i < k => s[i].start < s[k].start
    BY <2>1 DEF Rising
  <2>4. k < e => s[k].start < s[e].start
    BY <1>2, <2>1 DEF Rising
  <2>5. e < k => s[e].start < s[k].start
    BY <1>2, <2>1 DEF Rising
  <2>6. s[k].start \in v.start .. v.end <=> s[i].start <= s[k].start /\ s[k].start <= s[e].start
    BY <1>1, <1>2, <1>3
  <2>7. s[k] \in P /\ k \in Int /\ s[k].start \in Int /\ s[i].start \in Int /\ s[e].start \in Int
    BY <1>1, <1>2
  <2>8. k \in i .. e <=> ~(k < i) /\ ~(e < k)
    BY <1>4, <2>7
  <2>9. k = i \/ k < i \/ i < k
    BY <1>4, <2>7
  <2>10. k = e \/ k < e \/ e < k
    BY <1>4, <2>7
  <2>11. s[i].start <= s[k].start <=> ~(k < i)
    BY <2>2, <2>3, <2>7, <2>9
  <2>12. s[k].start <= s[e].start <=> ~(e < k)
    BY <2>4, <2>5, <2>7, <2>10
  <2> QED
    BY <2>6, <2>7, <2>8, <2>11, <2>12 DEF Taken
<1>6. \A x \in Taken(v, P) : \E k \in i .. e : x = s[k]
  <2> SUFFICES ASSUME NEW x \in Taken(v, P) PROVE \E k \in i .. e : x = s[k]
    OBVIOUS
  <2>1. PICK k \in DOMAIN s : s[k] = x
    BY DEF Taken, Lists, Covers
  <2> QED
    BY <1>5, <2>1
<1>7. {v.start, v.end} \subseteq {x.start : x \in Taken(v, P)}
  <2>1. i \in i .. e /\ e \in i .. e
    BY <1>2, <1>4
  <2>2. s[i] \in Taken(v, P) /\ s[e] \in Taken(v, P)
    BY <1>2, <1>5, <2>1
  <2> QED
    BY <1>3, <2>2
<1>8. ASSUME NEW x \in Taken(v, P), x.start # v.end
      PROVE  \E y \in Taken(v, P) : y.start > x.start /\ y.start - x.start <= StayMaxGap
  <2>1. PICK k \in i .. e : x = s[k]
    BY <1>6
  <2>2. k # e
    BY <1>3, <1>8, <2>1
  <2>3. k + 1 \in (i + 1) .. e /\ k + 1 \in i .. e /\ (k + 1) - 1 = k /\ k < k + 1 /\ i <= k
    BY <1>4, <2>2
  <2>4. k \in DOMAIN s /\ k + 1 \in DOMAIN s
    BY <1>4, <2>3
  <2>5. Extends(SubSeq(s, i, k), s[k + 1])
    BY <1>2, <2>3
  <2>6. Last(SubSeq(s, i, k)) = s[k]
    <3>1. i <= k
      BY <2>3
    <3>2. k \in DOMAIN s
      BY <2>4
    <3> QED
      BY <1>a, <1>b, <3>1, <3>2, Stretch
  <2>7. s[k + 1].start - s[k].start <= StayMaxGap
    BY <2>5, <2>6 DEF Extends
  <2>8. s[k].start < s[k + 1].start
    BY <2>3, <2>4 DEF Lists, Rising
  <2>9. s[k + 1] \in Taken(v, P)
    BY <1>5, <2>3, <2>4
  <2>10. s[k + 1].start > s[k].start
    BY <1>1, <2>4, <2>8
  <2> QED
    BY <2>1, <2>7, <2>9, <2>10
\* A place between those of the photos from i to m.
<1>9. ASSUME NEW m \in i .. e
      PROVE  LET t == SubSeq(s, i, m) IN
             /\ Len(t) \in Nat /\ Len(t) > 0 /\ SumOf(Places(t)) \in Int
             /\ \E a, b \in i .. m : /\ Len(t) * s[a].loc <= SumOf(Places(t))
                                     /\ SumOf(Places(t)) <= Len(t) * s[b].loc
  <2> DEFINE t == SubSeq(s, i, m)
             n == m - i + 1
  <2>1. m \in DOMAIN s /\ i <= m /\ n \in Nat /\ n > 0
    BY <1>4
  <2>2. /\ Len(t) = n /\ Places(t) \in Seq(Int) /\ Len(Places(t)) = n
        /\ \A k \in 1 .. n : i + k - 1 \in i .. m /\ Places(t)[k] = s[i + k - 1].loc
    <3>1. m \in DOMAIN s
      BY <2>1
    <3>2. i <= m
      BY <2>1
    <3> HIDE DEF t, n
    <3>3. /\ Len(SubSeq(s, i, m)) = m - i + 1
          /\ Places(SubSeq(s, i, m)) \in Seq(Int)
          /\ Len(Places(SubSeq(s, i, m))) = m - i + 1
      BY <1>a, <1>b, <3>1, <3>2, Stretch
    <3>4. \A k \in 1 .. (m - i + 1) : Places(SubSeq(s, i, m))[k] = s[i + k - 1].loc
      BY <1>a, <1>b, <3>1, <3>2, Stretch, ZenonT(60)
    <3>5. \A k \in 1 .. (m - i + 1) : i + k - 1 \in i .. m
      BY <1>4
    <3> QED
      BY <3>3, <3>4, <3>5 DEF t, n
  <2> HIDE DEF t, n
  <2>3. PICK a \in 1 .. n, b \in 1 .. n : n * Places(t)[a] <= SumOf(Places(t))
                                          /\ SumOf(Places(t)) <= n * Places(t)[b]
    BY <2>1, <2>2, SumBetween
  <2>4. /\ i + a - 1 \in i .. m /\ Places(t)[a] = s[i + a - 1].loc
        /\ i + b - 1 \in i .. m /\ Places(t)[b] = s[i + b - 1].loc
    BY <2>2
  <2>5. SumOf(Places(t)) \in Int
    BY <2>2, SumsTyped
  <2> QED
    BY <2>1, <2>2, <2>3, <2>4, <2>5 DEF t
<1>10. Among(v.loc, Taken(v, P), 0)
  <2>1. e \in i .. e
    BY <1>2, <1>4
  <2>2. PICK a \in i .. e, b \in i .. e : /\ Len(all) * s[a].loc <= SumOf(Places(all))
                                          /\ SumOf(Places(all)) <= Len(all) * s[b].loc
    BY <1>9, <2>1 DEF all
  <2>3. Len(all) \in Nat /\ Len(all) > 0 /\ SumOf(Places(all)) \in Int
    BY <1>9, <2>1 DEF all
  <2>4. a \in DOMAIN s /\ b \in DOMAIN s /\ s[a] \in Taken(v, P) /\ s[b] \in Taken(v, P)
    BY <1>4, <1>5
  <2>5. s[a].loc \in Int /\ s[b].loc \in Int
    BY <1>1, <2>4
  <2>6. s[a].loc <= v.loc /\ v.loc <= s[b].loc /\ v.loc \in Int
    BY <1>3, <2>2, <2>3, <2>5, Quotient
  <2>7. s[a].loc - 0 <= v.loc /\ v.loc <= s[b].loc + 0
    BY <2>5, <2>6
  <2> QED
    BY <2>4, <2>7 DEF Among
<1>11. ASSUME NEW x \in Taken(v, P), x.start > v.start
       PROVE  Among(x.loc, {y \in Taken(v, P) : y.start < x.start}, StayRadius)
  <2>1. PICK k \in i .. e : x = s[k]
    BY <1>6
  <2>2. k \in DOMAIN s /\ s[k].start \in Int /\ s[i].start \in Int /\ s[k].loc \in Int
    BY <1>1, <1>4, <2>1
  <2>3. k # i
    BY <1>3, <1>11, <2>1, <2>2
  <2>4. k \in (i + 1) .. e /\ k - 1 \in i .. e /\ k - 1 \in DOMAIN s
    BY <1>4, <2>3
  <2> DEFINE t == SubSeq(s, i, k - 1)
  <2>5. Dist(SumOf(Places(t)), Len(t) * s[k].loc) <= Len(t) * StayRadius
    BY <1>2, <2>4 DEF Extends
  <2>6. PICK a \in i .. (k - 1), b \in i .. (k - 1) : /\ Len(t) * s[a].loc <= SumOf(Places(t))
                                                      /\ SumOf(Places(t)) <= Len(t) * s[b].loc
    BY <1>9, <2>4
  <2>7. Len(t) \in Nat /\ Len(t) > 0 /\ SumOf(Places(t)) \in Int
    BY <1>9, <2>4
  <2> HIDE DEF t
  <2>8. a \in i .. e /\ b \in i .. e /\ a < k /\ b < k
    BY <1>4, <2>4
  <2>9. a \in DOMAIN s /\ b \in DOMAIN s /\ s[a] \in Taken(v, P) /\ s[b] \in Taken(v, P)
    BY <1>4, <1>5, <2>8
  <2>10. s[a].start < s[k].start /\ s[b].start < s[k].start
    BY <2>2, <2>8, <2>9 DEF Lists, Rising
  <2>11. s[a].loc \in Int /\ s[b].loc \in Int
    BY <1>1, <2>9
  <2>12. StayRadius \in Int
    BY DetectionAssumption
  <2>13. s[a].loc - StayRadius <= s[k].loc /\ s[k].loc <= s[b].loc + StayRadius
    BY <2>2, <2>5, <2>6, <2>7, <2>11, <2>12, NearMean
  <2> QED
    BY <2>1, <2>9, <2>10, <2>13 DEF Among
<1> QED
  BY <1>7, <1>8, <1>10, <1>11 DEF Witnessed, v

\* The stays are those that begin with a photo of the list.
LEMMA StaysBegin ==
    ASSUME NEW P, Dated(P), NEW photos, Lists(photos, P)
    PROVE  LET s == ByStart(photos)
               stays == SynthesizeStays(photos)
               m == Cardinality(Lasting(s))
           IN  /\ Lists(s, P) /\ m \in Nat /\ DOMAIN stays = 1 .. m
               /\ \E p : /\ Selects(p, Lasting(s))
                         /\ \A k \in 1 .. m : stays[k] = VisitOf(s, p[k])
<1> DEFINE s == ByStart(photos)
           visits == [i \in DOMAIN s |-> VisitOf(s, i)]
           m == Cardinality(Lasting(s))
<1>1. Lists(s, P)
  BY Relisted
<1> HIDE DEF s
<1>2. DOMAIN s = 1 .. Len(s) /\ Len(s) \in Nat /\ Lasting(s) \in SUBSET (1 .. Len(s))
  <2>1. s \in Seq(P)
    BY <1>1 DEF Lists
  <2> QED
    BY <2>1 DEF Lasting
<1>3. /\ m \in Nat /\ Only(visits, Lasting(s)) = [k \in 1 .. m |-> Only(visits, Lasting(s))[k]]
      /\ \E p : Selects(p, Lasting(s)) /\ \A k \in 1 .. m : Only(visits, Lasting(s))[k] = visits[p[k]]
  <2> HIDE DEF visits
  <2> QED
    BY <1>2, Selecting
<1>4. PICK p : Selects(p, Lasting(s)) /\ \A k \in 1 .. m : Only(visits, Lasting(s))[k] = visits[p[k]]
  BY <1>3
<1>5. \A k \in 1 .. m : visits[p[k]] = VisitOf(s, p[k])
  BY <1>2, <1>4 DEF Selects
<1>6. SynthesizeStays(photos) = Only(visits, Lasting(s))
  BY StaysAre DEF s
<1> HIDE DEF visits
<1>7. DOMAIN SynthesizeStays(photos) = 1 .. m
  BY <1>3, <1>6
<1> QED
  BY <1>1, <1>3, <1>4, <1>5, <1>6, <1>7 DEF s

-----------------------------------------------------------------------------
(* Home bases: finitely many, each at a place.                               *)

LEMMA FiniteImage ==
    ASSUME NEW S, IsFiniteSet(S), NEW f
    PROVE  IsFiniteSet({f[x] : x \in S})
<1> DEFINE T == {f[x] : x \in S}
           g == [x \in S |-> f[x]]
<1>1. g \in Surjection(S, T)
  BY DEF Surjection
<1> HIDE DEF g, T
<1>2. IsFiniteSet(T)
  BY <1>1, FS_Surjection
<1> QED
  BY <1>2 DEF T

Placed(E) == \A e \in E : e.loc \in Int

Some(E) == {s \in Seq(E) : Len(s) > 0}

LEMMA MedianType ==
    ASSUME NEW E, Placed(E), NEW s \in Some(E)
    PROVE  Median(s) \in Int
<1> DEFINE n == Len(s)
           places == [i \in DOMAIN s |-> s[i].loc]
           v == StablyBy(places, places)
<1>1. n \in Nat /\ n > 0 /\ DOMAIN s = 1 .. n /\ \A i \in 1 .. n : s[i] \in E
  BY DEF Some
<1>2. places \in [1 .. n -> Int] /\ DOMAIN places = 1 .. n
  BY <1>1 DEF Placed
<1>3. PICK p : Sorts(p, places, n) /\ v = [k \in 1 .. n |-> places[p[k]]]
  <2> HIDE DEF places, n
  <2> QED
    BY ZenonT(40), <1>1, <1>2, Sorting
<1>4. \A k \in 1 .. n : v[k] \in Int
  <2> HIDE DEF places, v, n
  <2> QED
    BY <1>2, <1>3 DEF Sorts
<1>5. Median(s) = IF n % 2 = 1 THEN v[n \div 2 + 1] ELSE (v[n \div 2] + v[n \div 2 + 1]) \div 2
  BY DEF Median
<1> HIDE DEF n, v, places
<1>6. CASE n % 2 = 1
  <2>1. n \div 2 + 1 \in 1 .. n
    BY <1>1, <1>6
  <2> QED
    BY <1>4, <1>5, <1>6, <2>1
<1>7. CASE n % 2 # 1
  <2>1. n \div 2 \in 1 .. n /\ n \div 2 + 1 \in 1 .. n
    BY <1>1, <1>7
  <2>2. v[n \div 2] \in Int /\ v[n \div 2 + 1] \in Int
    BY <1>4, <2>1
  <2>3. (v[n \div 2] + v[n \div 2 + 1]) \div 2 \in Int
    BY <2>2
  <2> QED
    BY <1>5, <1>7, <2>3
<1> QED
  BY <1>6, <1>7

\* A stable sort of a sequence is a sequence of the same.
LEMMA StablyByType ==
    ASSUME NEW E, NEW s \in Seq(E), NEW keys \in [DOMAIN s -> Int]
    PROVE  StablyBy(keys, s) \in Seq(E)
<1> DEFINE n == Len(s)
<1>1. n \in Nat /\ DOMAIN s = 1 .. n /\ \A i \in 1 .. n : s[i] \in E
  OBVIOUS
<1> HIDE DEF n
<1>2. PICK p : Sorts(p, keys, n) /\ StablyBy(keys, s) = [k \in 1 .. n |-> s[p[k]]]
  BY SMTT(30), <1>1, Sorting
<1>3. \A k \in 1 .. n : s[p[k]] \in E
  BY <1>1, <1>2 DEF Sorts
<1>4. [k \in 1 .. n |-> s[p[k]]] \in Seq(E)
  BY <1>1, <1>3, IsASeq
<1> QED
  BY <1>2, <1>4

\* Where something is chosen from, something is left.
LEMMA OnlyOfSome ==
    ASSUME NEW E, NEW s \in Seq(E), NEW K \in SUBSET DOMAIN s, K # {}
    PROVE  Only(s, K) \in Some(E)
<1>1. DOMAIN s = 1 .. Len(s) /\ Len(s) \in Nat
  OBVIOUS
<1>2. Only(s, K) \in Seq(E)
  BY OnlyInOrder
<1>3. /\ Cardinality(K) \in Nat
      /\ Only(s, K) = [k \in 1 .. Cardinality(K) |-> Only(s, K)[k]]
      /\ \E p : Selects(p, K) /\ \A k \in 1 .. Cardinality(K) : Only(s, K)[k] = s[p[k]]
  BY ZenonT(40), <1>1, Selecting
<1>4. PICK i \in K : TRUE
  OBVIOUS
<1>5. 1 .. Cardinality(K) # {}
  BY <1>3, <1>4 DEF Selects
<1>6. DOMAIN Only(s, K) # {}
  BY <1>3, <1>5
<1> QED
  BY <1>2, <1>6 DEF Some

LEMMA GroupsType ==
    ASSUME NEW E, NEW ev \in Seq(E)
    PROVE  Groups(ev) \in Seq(Some(E))
<1> DEFINE cell == [i \in DOMAIN ev |-> Cell(ev[i].loc)]
           first == {i \in DOMAIN ev : \A h \in 1 .. i - 1 : cell[h] # cell[i]}
           InCell(c) == Only(ev, {i \in DOMAIN ev : cell[i] = c})
           byEach == [i \in DOMAIN ev |-> InCell(cell[i])]
           groups == Only(byEach, first)
           sizes == [i \in DOMAIN groups |-> -Len(groups[i])]
<1>1. \A i \in DOMAIN ev : byEach[i] \in Some(E)
  <2> SUFFICES ASSUME NEW i \in DOMAIN ev PROVE InCell(cell[i]) \in Some(E)
    OBVIOUS
  <2>1. i \in {k \in DOMAIN ev : cell[k] = cell[i]}
    OBVIOUS
  <2> HIDE DEF cell
  <2> QED
    BY <2>1, OnlyOfSome
<1>2. byEach \in Seq(Some(E)) /\ DOMAIN byEach = DOMAIN ev
  <2> HIDE DEF InCell, cell
  <2>1. DOMAIN ev = 1 .. Len(ev) /\ Len(ev) \in Nat
    OBVIOUS
  <2>2. byEach = [i \in 1 .. Len(ev) |-> byEach[i]]
    BY <2>1
  <2> HIDE DEF byEach
  <2>3. [i \in 1 .. Len(ev) |-> byEach[i]] \in Seq(Some(E))
    BY <1>1, <2>1, IsASeq
  <2> QED
    BY <2>1, <2>2, <2>3
<1>3. groups \in Seq(Some(E))
  <2>1. first \in SUBSET DOMAIN byEach
    BY <1>2
  <2> HIDE DEF byEach, first
  <2> QED
    BY <1>2, <2>1, OnlyInOrder
<1> HIDE DEF groups
<1>4. sizes \in [DOMAIN groups -> Int]
  <2>1. \A i \in DOMAIN groups : Len(groups[i]) \in Nat
    BY <1>3 DEF Some
  <2> QED
    BY <2>1
<1>5. StablyBy(sizes, groups) \in Seq(Some(E))
  <2> HIDE DEF sizes
  <2> QED
    BY <1>3, <1>4, StablyByType
<1>6. Groups(ev) = StablyBy(sizes, groups)
  BY DEF Groups, groups
<1> QED
  BY <1>5, <1>6

Cluster(E) == [center : Int, items : Some(E)]

LEMMA ClustersType ==
    ASSUME NEW E, Placed(E), NEW ev \in Seq(E)
    PROVE  Clusters(ev) \in Seq(Cluster(E))
<1> DEFINE s == Groups(ev)
           D == DOMAIN s
           n == Len(s)
           X == Seq(Cluster(E))
           Step(x, g) ==
                LET center == Median(g)
                    close == {i \in DOMAIN x : Dist(x[i].center, center) < MergeKm}
                IN  IF close = {} THEN Append(x, [center |-> center, items |-> g])
                    ELSE [x EXCEPT ![Min(close)].items = @ \o g]
           Folds(it) == it = [S \in SUBSET D |->
                                IF S = {} THEN <<>> ELSE Step(it[S \ {Max(S)}], s[Max(S)])]
           it == CHOOSE it : Folds(it)
<1>1. s \in Seq(Some(E)) /\ n \in Nat /\ D = 1 .. n /\ \A i \in 1 .. n : s[i] \in Some(E)
  <2>1. s \in Seq(Some(E))
    BY GroupsType
  <2> HIDE DEF s
  <2> QED
    BY <2>1
<1> HIDE DEF s
<1>2. \A x \in X, i \in 1 .. n : Step(x, s[i]) \in X
  <2> SUFFICES ASSUME NEW x \in X, NEW g \in Some(E) PROVE Step(x, g) \in X
    BY <1>1
  <2> DEFINE center == Median(g)
             close == {i \in DOMAIN x : Dist(x[i].center, center) < MergeKm}
  <2>1. center \in Int
    BY MedianType
  <2>2. CASE close = {}
    <3>1. [center |-> center, items |-> g] \in Cluster(E)
      BY <2>1 DEF Cluster
    <3>2. Append(x, [center |-> center, items |-> g]) \in X
      <4> HIDE DEF center
      <4> QED
        BY <3>1
    <3> QED
      BY <2>2, <3>2
  <2>3. CASE close # {}
    <3> DEFINE i == Min(close)
               grown == [center |-> x[i].center, items |-> x[i].items \o g]
    <3>1. close \subseteq Nat /\ close \subseteq DOMAIN x
      BY DEF X
    <3>2. i \in DOMAIN x
      <4> HIDE DEF close
      <4> QED
        BY <2>3, <3>1, LeastOf
    <3> HIDE DEF i, close
    <3>3. x[i] \in Cluster(E)
      BY <3>2
    <3>4. x[i].items \in Some(E) /\ x[i].center \in Int
      BY <3>3 DEF Cluster
    <3>5. x[i].items \o g \in Some(E)
      <4>1. x[i].items \in Seq(E) /\ g \in Seq(E) /\ Len(x[i].items) > 0
        BY <3>4 DEF Some
      <4> DEFINE a == x[i].items
      <4> HIDE DEF a
      <4>2. a \in Seq(E) /\ Len(a) > 0
        BY <4>1 DEF a
      <4>3. a \o g \in Seq(E) /\ Len(a \o g) = Len(a) + Len(g) /\ Len(g) \in Nat /\ Len(a) \in Nat
        BY <4>1, <4>2
      <4>4. a \o g \in Some(E)
        BY <4>2, <4>3 DEF Some
      <4> QED
        BY <4>4 DEF a
    <3>6. grown \in Cluster(E)
      BY <3>4, <3>5 DEF Cluster
    <3>7. [x EXCEPT ![i].items = @ \o g] = [x EXCEPT ![i] = grown]
      <4> DEFINE c == x[i]
      <4>1. [x EXCEPT ![i].items = @ \o g] = [x EXCEPT ![i] = [c EXCEPT !.items = c.items \o g]]
        OBVIOUS
      <4>2. c \in [center : Int, items : Some(E)]
        BY <3>3 DEF Cluster
      <4> HIDE DEF c
      <4>3. ASSUME NEW w PROVE [c EXCEPT !.items = w] = [center |-> c.center, items |-> w]
        BY <4>2
      <4> QED
        BY <4>1, <4>3 DEF c
    <3>8. [x EXCEPT ![i] = grown] \in X
      <4> HIDE DEF grown
      <4> QED
        BY <3>2, <3>6, ExceptSeq
    <3>9. Step(x, g) = [x EXCEPT ![i].items = @ \o g]
      BY <2>3 DEF i, close
    <3> HIDE DEF Step, grown, X
    <3> QED
      BY <3>7, <3>8, <3>9
  <2> HIDE DEF Step
  <2> QED
    BY <2>2, <2>3
<1>3. Folds(it)
  <2> DEFINE G == [q \in X \X (1 .. n) |-> Step(q[1], s[q[2]])]
  <2>1. G \in [X \X (1 .. n) -> X]
    <3> HIDE DEF X, Step
    <3>1. \A q \in X \X (1 .. n) : G[q] \in X
      BY <1>2
    <3> QED
      BY <3>1
  <2>2. <<>> \in X
    OBVIOUS
  <2>3. PICK f \in [SUBSET (1 .. n) -> X] : IsFold(f, n, <<>>, G)
    <3> HIDE DEF G, X
    <3> QED
      BY <1>1, <2>1, <2>2, FoldExists
  <2>4. ASSUME NEW S \in SUBSET (1 .. n), S # {}
        PROVE  G[<<f[S \ {Max(S)}], Max(S)>>] = Step(f[S \ {Max(S)}], s[Max(S)])
    <3>1. Max(S) \in 1 .. n
      BY <1>1, <2>4, MaxIndex
    <3>2. f[S \ {Max(S)}] \in X
      OBVIOUS
    <3> HIDE DEF X, Step
    <3> QED
      BY <3>1, <3>2
  <2>5. Folds(f)
    <3> HIDE DEF G, Step, X, D, n
    <3> QED
      BY <1>1, <2>3, <2>4 DEF IsFold
  <2> HIDE DEF Folds
  <2> QED
    BY <2>5
<1>4. it[{}] \in X /\ \A k \in 1 .. n : it[1 .. k] = Step(it[1 .. (k - 1)], s[k])
  <2> HIDE DEF it, Step
  <2>1. it[{}] = <<>>
    BY <1>3
  <2>2. ASSUME NEW k \in 1 .. n PROVE it[1 .. k] = Step(it[1 .. (k - 1)], s[k])
    <3>1. k \in Nat /\ k # 0 /\ 1 .. k \in SUBSET D
      BY <1>1
    <3>2. Max(1 .. k) = k /\ (1 .. k) \ {k} = 1 .. (k - 1) /\ 1 .. k # {}
      BY <3>1, Prefix
    <3> HIDE DEF D
    <3>3. it[1 .. k] = Step(it[(1 .. k) \ {Max(1 .. k)}], s[Max(1 .. k)])
      BY <1>3, <3>1, <3>2
    <3> QED
      BY <3>2, <3>3
  <2> QED
    BY <2>1, <2>2
<1>5. it[1 .. n] \in X
  <2> DEFINE Allowed == [k \in 0 .. n |-> X]
  <2>1. it[{}] \in Allowed[0] /\ \A k \in 1 .. n :
            it[1 .. (k - 1)] \in Allowed[k - 1] => it[1 .. k] \in Allowed[k]
    <3>1. \A k \in 1 .. n : k \in 0 .. n /\ k - 1 \in 0 .. n
      BY <1>1
    <3> HIDE DEF it, Step, X
    <3> QED
      BY <1>1, <1>2, <1>4, <3>1
  <2>2. it[1 .. n] \in Allowed[n]
    <3> HIDE DEF it, Allowed, n, X
    <3> QED
      BY <1>1, <2>1, FoldInvariant
  <2> HIDE DEF it, X, n
  <2> QED
    BY <1>1, <2>2
<1>6. Clusters(ev) = it[D]
  BY DEF Clusters, FoldLeft, MapThenFoldSet, s
<1> HIDE DEF it, X
<1> QED
  BY <1>1, <1>5, <1>6 DEF X

\* Bases there are finitely many of, each at a place.
Homes(bases) == IsFiniteSet(bases) /\ \A b \in bases : b.center \in Int

LEMMA ClusterBasesType ==
    ASSUME NEW E, Placed(E), NEW ev \in Seq(E), NEW minDays
    PROVE  Homes(ClusterBases(ev, minDays))
<1> DEFINE s == Clusters(ev)
           Days(cl) == {CivilDate(cl.items[i].start) : i \in DOMAIN cl.items}
           T == {c \in ToSet(s) : Len(c.items) >= MinVisits /\ Cardinality(Days(c)) >= minDays}
           base == [cl \in T |-> [center |-> Median(cl.items), from |-> Min(Days(cl)) - EraPad,
                                  to |-> Max(Days(cl)) + EraPad]]
<1>1. s \in Seq(Cluster(E))
  BY ClustersType
<1> HIDE DEF s
<1>2. DOMAIN s = 1 .. Len(s) /\ Len(s) \in Nat /\ \A i \in DOMAIN s : s[i] \in Cluster(E)
  BY <1>1
<1>3. IsFiniteSet(ToSet(s))
  <2>1. IsFiniteSet(1 .. Len(s))
    BY <1>2, FS_Interval
  <2>2. IsFiniteSet({s[i] : i \in 1 .. Len(s)})
    BY <2>1, FiniteImage
  <2> QED
    BY <1>2, <2>2 DEF ToSet
<1>4. IsFiniteSet(T)
  BY <1>3, FS_Subset
<1>5. ClusterBases(ev, minDays) = {base[cl] : cl \in T}
  BY DEF ClusterBases, s
<1>6. IsFiniteSet({base[cl] : cl \in T})
  <2> HIDE DEF base, T
  <2> QED
    BY <1>4, FiniteImage
<1>7. \A cl \in T : base[cl].center \in Int
  <2> SUFFICES ASSUME NEW cl \in T PROVE Median(cl.items) \in Int
    OBVIOUS
  <2>1. cl \in Cluster(E)
    BY <1>2 DEF ToSet
  <2>2. cl.items \in Some(E)
    BY <2>1 DEF Cluster
  <2> QED
    BY <2>2, MedianType
<1> HIDE DEF base, T
<1> QED
  BY <1>5, <1>6, <1>7 DEF Homes

LEMMA BasesType ==
    ASSUME NEW E, Placed(E), NEW visits \in Seq(E), NEW stays \in Seq(E)
    PROVE  Homes(BasesOf(visits, stays))
<1>1. Only(visits, {i \in DOMAIN visits : visits[i].home}) \in Seq(E)
  <2>1. {i \in DOMAIN visits : visits[i].home} \in SUBSET DOMAIN visits
    OBVIOUS
  <2> QED
    BY <2>1, OnlyInOrder
<1>2. Homes(DeriveBases(visits))
  BY <1>1, ClusterBasesType DEF DeriveBases
<1>3. Homes(DeriveSyntheticBases(stays))
  BY ClusterBasesType DEF DeriveSyntheticBases
<1> QED
  BY <1>2, <1>3 DEF BasesOf

LEMMA HomeDistType ==
    ASSUME NEW bases, Homes(bases), bases # {}, NEW t, NEW loc \in Int
    PROVE  HomeDist(bases, t, loc) \in Int
<1> DEFINE active == {b \in bases : CivilDate(t) \in b.from .. b.to}
           B == IF active = {} THEN bases ELSE active
           km == [b \in B |-> Dist(b.center, loc)]
           D == {km[b] : b \in B}
<1>1. B \in SUBSET bases /\ B # {}
  OBVIOUS
<1>2. HomeDist(bases, t, loc) = Min(D)
  <2>1. D = {Dist(b.center, loc) : b \in B}
    OBVIOUS
  <2> QED
    BY <2>1 DEF HomeDist
<1> HIDE DEF B
<1>3. \A b \in B : km[b] \in Int
  BY <1>1 DEF Homes, Dist
<1>4. D \subseteq Int /\ D # {}
  <2> HIDE DEF km
  <2> QED
    BY <1>1, <1>3
<1>5. IsFiniteSet(D)
  <2>1. IsFiniteSet(B)
    BY <1>1, FS_Subset DEF Homes
  <2> HIDE DEF km
  <2> QED
    BY <2>1, FiniteImage
<1> HIDE DEF D
<1> QED
  BY <1>2, <1>4, <1>5, Extremes

DestinedFor(bases, visits, dwells, k) ==
    /\ Destination(bases, visits, dwells).loc = visits[k].loc
    /\ Destination(bases, visits, dwells).km = HomeDist(bases, visits[k].start, visits[k].loc)

\* The destination is where one of the dwells was, the farthest from home.
LEMMA DestinationIsDwelt ==
    ASSUME NEW n \in Nat, NEW visits, NEW bases, NEW dwells \in SUBSET (1 .. n), dwells # {},
           \A k \in dwells : /\ visits[k].loc \in Int
                             /\ HomeDist(bases, visits[k].start, visits[k].loc) \in Int
    PROVE  \E k \in dwells : DestinedFor(bases, visits, dwells, k)
<1> DEFINE km == [k \in dwells |-> HomeDist(bases, visits[k].start, visits[k].loc)]
           loc == [k \in dwells |-> visits[k].loc]
           farthest == {k \in dwells : \A l \in dwells : km[k] >= km[l]}
           Kms == {km[k] : k \in dwells}
           Locs == {loc[k] : k \in farthest}
           dest == Destination(bases, visits, dwells)
<1>1. dest.km = Max(Kms) /\ dest.loc = Max(Locs)
  <2>1. Kms = {HomeDist(bases, visits[k].start, visits[k].loc) : k \in dwells}
    OBVIOUS
  <2>2. farthest = {k \in dwells : \A l \in dwells :
                        HomeDist(bases, visits[k].start, visits[k].loc)
                            >= HomeDist(bases, visits[l].start, visits[l].loc)}
    OBVIOUS
  <2>3. Locs = {visits[k].loc : k \in farthest}
    OBVIOUS
  <2> HIDE DEF km, loc, Kms, Locs, farthest
  <2> QED
    BY <2>1, <2>2, <2>3 DEF Destination
<1>2. \A k \in dwells : km[k] \in Int /\ loc[k] \in Int
  OBVIOUS
<1>3. \A k \in dwells : km[k] = HomeDist(bases, visits[k].start, visits[k].loc) /\ loc[k] = visits[k].loc
  OBVIOUS
<1> HIDE DEF km, loc, dest
<1>4. IsFiniteSet(dwells) /\ IsFiniteSet(farthest)
  <2>1. IsFiniteSet(1 .. n)
    BY FS_Interval
  <2>2. IsFiniteSet(dwells)
    BY <2>1, FS_Subset
  <2> QED
    BY <2>2, FS_Subset
<1>5. Max(Kms) \in Kms /\ \A x \in Kms : x <= Max(Kms)
  <2>1. Kms \subseteq Int /\ Kms # {}
    BY <1>2
  <2>2. IsFiniteSet(Kms)
    BY <1>4, FiniteImage
  <2> HIDE DEF Kms
  <2> QED
    BY <2>1, <2>2, Extremes
<1>6. \E k \in farthest : km[k] = Max(Kms)
  <2>1. PICK k \in dwells : km[k] = Max(Kms)
    BY <1>5
  <2>2. \A l \in dwells : km[l] <= km[k]
    BY <1>5, <2>1
  <2>3. \A l \in dwells : km[k] >= km[l]
    BY <1>2, <2>2
  <2> QED
    BY <2>1, <2>3
<1>7. Max(Locs) \in Locs
  <2>1. Locs \subseteq Int /\ Locs # {}
    BY <1>2, <1>6
  <2>2. IsFiniteSet(Locs)
    BY <1>4, FiniteImage
  <2> HIDE DEF Locs
  <2> QED
    BY <2>1, <2>2, Extremes
<1>8. PICK k \in farthest : loc[k] = Max(Locs)
  BY <1>7
<1>9. km[k] = Max(Kms)
  <2>1. PICK l \in farthest : km[l] = Max(Kms)
    BY <1>6
  <2>2. km[k] >= km[l] /\ km[k] <= Max(Kms) /\ km[k] \in Int /\ km[l] \in Int
    BY <1>2, <1>5
  <2> QED
    BY <2>1, <2>2
<1> QED
  BY <1>1, <1>3, <1>8, <1>9 DEF dest, DestinedFor

-----------------------------------------------------------------------------
(* The observations of a run.                                                *)

\* What there is to import has instants and places.
LEMMA OptionsType ==
    ASSUME NEW x \in Observations
    PROVE  /\ x.start \in Int /\ x.end \in Int
           /\ x.kind = "activity" => x.from \in Int /\ x.to \in Int
           /\ x.kind # "activity" => x.loc \in Int
<1> DEFINE From(t, kind, s, home) ==
                [kind |-> kind, start |-> t, end |-> t + s.hours, loc |-> s.place, home |-> home]
<1>1. PICK t \in 0 .. Horizon :
        \/ \E s \in HomeVisits \union OtherVisits \union Points \union Photos,
              kind \in {"visit", "point", "photo"}, home \in BOOLEAN : x = From(t, kind, s, home)
        \/ \E s \in Activities : x = [kind |-> "activity", start |-> t, end |-> t + s.hours,
                                      from |-> s.place, to |-> s.arrival]
  BY ZenonT(40) DEF Observations
<1>2. CASE \E s \in HomeVisits \union OtherVisits \union Points \union Photos,
              kind \in {"visit", "point", "photo"}, home \in BOOLEAN : x = From(t, kind, s, home)
  <2>1. PICK s \in HomeVisits \union OtherVisits \union Points \union Photos,
             kind \in {"visit", "point", "photo"}, home \in BOOLEAN : x = From(t, kind, s, home)
    BY <1>2
  <2>2. s.hours \in Nat /\ s.place \in Int
    BY ShapesAssumption
  <2> QED
    BY <2>1, <2>2, ShapesAssumption
<1>3. CASE \E s \in Activities : x = [kind |-> "activity", start |-> t, end |-> t + s.hours,
                                      from |-> s.place, to |-> s.arrival]
  <2>1. PICK s \in Activities : x = [kind |-> "activity", start |-> t, end |-> t + s.hours,
                                     from |-> s.place, to |-> s.arrival]
    BY <1>3
  <2>2. s.hours \in Nat /\ s.place \in Int /\ s.arrival \in Int
    BY ShapesAssumption
  <2> QED
    BY <2>1, <2>2, ShapesAssumption
<1> QED
  BY <1>1, <1>2, <1>3

OfKind(S, kind) == {x \in S : x.kind = kind}

\* What is read back of each kind is all there is of it, once, as it started.
LEMMA KindsListed ==
    ASSUME NEW S, S \subseteq Observations, IsFiniteSet(S), Differ(S)
    PROVE  /\ \A kind \in {"visit", "activity", "point", "photo"} : Dated(OfKind(S, kind))
           /\ \A kind \in {"visit", "point", "photo"} : \A x \in OfKind(S, kind) : x.loc \in Int
           /\ Lists(LoadObservations(S).visits, OfKind(S, "visit"))
           /\ Lists(LoadObservations(S).photos, OfKind(S, "photo"))
<1>1. ASSUME NEW kind
      PROVE  /\ Dated(OfKind(S, kind))
             /\ Lists(ByStart(SetToSeq(OfKind(S, kind))), OfKind(S, kind))
  <2>1. IsFiniteSet(OfKind(S, kind))
    BY FS_Subset DEF OfKind
  <2>2. Dated(OfKind(S, kind)) /\ Differ(OfKind(S, kind))
    BY OptionsType DEF Dated, Differ, OfKind
  <2> QED
    BY <2>1, <2>2, Listed
<1>2. /\ LoadObservations(S).visits = ByStart(SetToSeq(OfKind(S, "visit")))
      /\ LoadObservations(S).photos = ByStart(SetToSeq(OfKind(S, "photo")))
  BY DEF LoadObservations, OfKind
<1>3. \A kind \in {"visit", "point", "photo"} : \A x \in OfKind(S, kind) : x.loc \in Int
  BY OptionsType DEF OfKind
<1> QED
  BY <1>1, <1>2, <1>3

LEMMA ApartTogether ==
    ASSUME NEW E, NEW s \in Seq(E), NEW t \in Seq(E), Apart(s), Apart(t),
           \A i \in DOMAIN s, k \in DOMAIN t : s[i].start # t[k].start
    PROVE  Apart(s \o t)
<1> DEFINE m == Len(s)
           n == Len(t)
           both == s \o t
<1>1. /\ m \in Nat /\ n \in Nat /\ DOMAIN s = 1 .. m /\ DOMAIN t = 1 .. n
      /\ DOMAIN both = 1 .. (m + n)
      /\ \A i \in 1 .. m : both[i] = s[i]
      /\ \A i \in (m + 1) .. (m + n) : both[i] = t[i - m]
  OBVIOUS
<1> HIDE DEF m, n, both
<1> SUFFICES ASSUME NEW k \in 1 .. (m + n), NEW l \in 1 .. (m + n), k < l
             PROVE  both[k].start # both[l].start
  <2>1. \A k, l \in 1 .. (m + n) : k # l => k < l \/ l < k
    BY <1>1
  <2> QED
    BY <1>1, <2>1 DEF Apart, both
<1>2. CASE l \in 1 .. m
  <2>1. k \in 1 .. m /\ k # l
    BY <1>1, <1>2
  <2> QED
    BY <1>1, <1>2, <2>1 DEF Apart
<1>3. CASE k \in 1 .. m /\ l \notin 1 .. m
  <2>1. l \in (m + 1) .. (m + n) /\ l - m \in 1 .. n
    BY <1>1, <1>3
  <2>2. both[k] = s[k] /\ both[l] = t[l - m]
    BY <1>1, <1>3, <2>1
  <2>3. s[k].start # t[l - m].start
    BY <1>1, <1>3, <2>1
  <2> QED
    BY <2>2, <2>3
<1>4. CASE k \notin 1 .. m
  <2>1. /\ k \in (m + 1) .. (m + n) /\ k - m \in 1 .. n
        /\ l \in (m + 1) .. (m + n) /\ l - m \in 1 .. n /\ k - m # l - m
    BY <1>1, <1>4
  <2>2. both[k] = t[k - m] /\ both[l] = t[l - m]
    BY <1>1, <2>1
  <2>3. t[k - m].start # t[l - m].start
    BY <1>1, <2>1 DEF Apart
  <2> QED
    BY <2>2, <2>3
<1> QED
  BY <1>2, <1>3, <1>4

BeginsWith(t, s) == Len(s) <= Len(t) /\ \A i \in 1 .. Len(s) : t[i] = s[i]

\* What a sequence begins with is not moved by what is appended.
LEMMA StillFirst ==
    ASSUME NEW E, NEW s \in Seq(E), NEW t \in Seq(E), NEW u \in Seq(E), NEW v \in Seq(E)
    PROVE  BeginsWith(s \o t \o u \o v, s)
<1>1. ASSUME NEW a \in Seq(E), NEW b \in Seq(E)
      PROVE  /\ a \o b \in Seq(E) /\ Len(a) <= Len(a \o b)
             /\ \A i \in 1 .. Len(a) : (a \o b)[i] = a[i]
  OBVIOUS
<1> DEFINE st2 == s \o t
           st3 == st2 \o u
           st4 == st3 \o v
<1>2. /\ st2 \in Seq(E) /\ Len(s) <= Len(st2) /\ \A i \in 1 .. Len(s) : st2[i] = s[i]
  BY <1>1
<1> HIDE DEF st2
<1>3. /\ st3 \in Seq(E) /\ Len(st2) <= Len(st3) /\ \A i \in 1 .. Len(st2) : st3[i] = st2[i]
  BY <1>1, <1>2
<1> HIDE DEF st3
<1>4. /\ st4 \in Seq(E) /\ Len(st3) <= Len(st4) /\ \A i \in 1 .. Len(st3) : st4[i] = st3[i]
  BY <1>1, <1>3
<1> HIDE DEF st4
<1>5. Len(s) \in Nat /\ Len(st2) \in Nat /\ Len(st3) \in Nat /\ Len(st4) \in Nat
  BY <1>2, <1>3, <1>4
<1>6. BeginsWith(st4, s)
  <2>1. Len(s) <= Len(st4)
    BY <1>2, <1>3, <1>4, <1>5
  <2>2. ASSUME NEW i \in 1 .. Len(s) PROVE st4[i] = s[i]
    <3>1. i \in 1 .. Len(st2) /\ i \in 1 .. Len(st3)
      BY <1>2, <1>3, <1>5
    <3> QED
      BY <1>2, <1>3, <1>4, <3>1
  <2> QED
    BY <2>1, <2>2 DEF BeginsWith
<1> QED
  BY <1>6 DEF st2, st3, st4

\* Nothing comes before x, and starts with it.
Foremost(s, x) ==
    \E r \in DOMAIN s : s[r] = x /\ \A q \in DOMAIN s : q < r => s[q].start # x.start

\* What the merged sequence begins with is put before what starts with it.
LEMMA FirstMergedForemost ==
    ASSUME NEW E, Dated(E), NEW s \in Seq(E), Apart(s), NEW merged \in Seq(E),
           BeginsWith(merged, s), NEW i \in DOMAIN s
    PROVE  Foremost(ByStart(merged), s[i])
<1>1. /\ DOMAIN s = 1 .. Len(s) /\ Len(s) \in Nat
      /\ DOMAIN merged = 1 .. Len(merged) /\ Len(merged) \in Nat
  OBVIOUS
<1>2. i \in DOMAIN merged /\ merged[i] = s[i] /\ i \in 1 .. Len(s)
  BY <1>1 DEF BeginsWith
<1>3. PICK p : SortsByStart(p, merged)
  BY ByStartIs
<1>4. PICK r \in DOMAIN merged : p[r] = i
  BY <1>2, <1>3 DEF SortsByStart
<1>5. ByStart(merged)[r] = s[i] /\ DOMAIN ByStart(merged) = DOMAIN merged
  BY <1>2, <1>3, <1>4 DEF SortsByStart
<1>6. ASSUME NEW q \in DOMAIN merged, q < r, ByStart(merged)[q].start = s[i].start PROVE FALSE
  <2>1. ByStart(merged)[q] = merged[p[q]] /\ p[q] \in DOMAIN merged
    BY <1>3 DEF SortsByStart
  <2>2. p[q] < i
    BY <1>2, <1>3, <1>4, <1>6, <2>1 DEF SortsByStart
  <2>3. p[q] \in 1 .. Len(s) /\ p[q] # i
    BY <1>1, <1>2, <2>1, <2>2
  <2>4. merged[p[q]] = s[p[q]]
    BY <2>3 DEF BeginsWith
  <2> QED
    BY <1>1, <1>2, <1>6, <2>1, <2>3, <2>4 DEF Apart
<1> QED
  BY <1>5, <1>6 DEF Foremost

\* No two stays start together, and each starts with a photo.
LEMMA StaysApart ==
    ASSUME NEW P, Dated(P), Placed(P), NEW photos, Lists(photos, P)
    PROVE  /\ Apart(SynthesizeStays(photos))
           /\ \A k \in DOMAIN SynthesizeStays(photos) :
                \E x \in P : SynthesizeStays(photos)[k].start = x.start
<1> DEFINE s == ByStart(photos)
           stays == SynthesizeStays(photos)
           m == Cardinality(Lasting(s))
<1>1. Lists(s, P) /\ m \in Nat /\ DOMAIN stays = 1 .. m
  BY StaysBegin
<1>2. PICK p : Selects(p, Lasting(s)) /\ \A k \in 1 .. m : stays[k] = VisitOf(s, p[k])
  BY StaysBegin
<1> HIDE DEF s, stays
<1>3. \A k \in 1 .. m : p[k] \in DOMAIN s /\ stays[k].start = s[p[k]].start
  <2>1. \A k \in 1 .. m : p[k] \in Lasting(s)
    BY <1>2 DEF Selects
  <2>2. \A j \in Lasting(s) : j \in DOMAIN s
    BY DEF Lasting
  <2>3. \A j : VisitOf(s, j).start = s[j].start
    BY DEF VisitOf
  <2> QED
    BY <1>2, <2>1, <2>2, <2>3
<1>4. \A k \in 1 .. m : s[p[k]] \in P
  BY <1>1, <1>3 DEF Lists
<1>5. \A k, l \in 1 .. m : k < l => stays[k].start # stays[l].start
  <2> SUFFICES ASSUME NEW k \in 1 .. m, NEW l \in 1 .. m, k < l
               PROVE  stays[k].start # stays[l].start
    OBVIOUS
  <2>1. p[k] < p[l]
    BY <1>2 DEF Selects
  <2>2. s[p[k]].start < s[p[l]].start
    BY <1>1, <1>3, <2>1 DEF Lists, Rising
  <2>3. s[p[k]].start \in Int /\ s[p[l]].start \in Int
    BY <1>4 DEF Dated
  <2> QED
    BY <1>3, <2>2, <2>3
<1>6. \A k, l \in 1 .. m : k # l => k < l \/ l < k
  BY <1>1
<1>7. Apart(stays)
  <2> HIDE DEF m
  <2> QED
    BY <1>1, <1>5, <1>6 DEF Apart
<1>8. \A k \in DOMAIN stays : \E x \in P : stays[k].start = x.start
  BY <1>1, <1>3, <1>4
<1> QED
  BY <1>7, <1>8 DEF stays

\* What the properties need of a run's stages.
Staged(t) ==
    /\ \E E : /\ Dated(E) /\ Placed(E)
              /\ t.visits \in Seq(E) /\ t.raw \in Seq(E) /\ t.all \in Seq(E)
    /\ InOrder(t.all) /\ t.all = RejectOutliers(t.raw)
    /\ Homes(t.bases)
    /\ t.dist = IF t.bases = {} THEN <<>>
                ELSE [i \in DOMAIN t.all |-> HomeDist(t.bases, t.all[i].start, t.all[i].loc)]
    /\ \A j \in DOMAIN t.visits : Foremost(t.raw, t.visits[j])

\* The distances are those of all observations kept, or there are none.
LEMMA DistDomain ==
    ASSUME NEW t, Staged(t)
    PROVE  \E n \in Nat : DOMAIN t.dist = 1 .. n /\ 1 .. n \subseteq DOMAIN t.all
<1>1. CASE t.bases = {}
  <2>1. DOMAIN t.dist = 1 .. 0
    BY <1>1 DEF Staged
  <2> QED
    BY <2>1
<1>2. CASE t.bases # {}
  <2>1. PICK E : t.all \in Seq(E)
    BY DEF Staged
  <2>2. DOMAIN t.all = 1 .. Len(t.all) /\ Len(t.all) \in Nat
    BY <2>1
  <2>3. DOMAIN t.dist = DOMAIN t.all
    BY <1>2 DEF Staged
  <2> QED
    BY <2>2, <2>3
<1> QED
  BY <1>1, <1>2

LEMMA StagesInOrder ==
    ASSUME NEW S, S \subseteq Observations, IsFiniteSet(S), Differ(S)
    PROVE  Staged(Stages(LoadObservations(S)))
<1> DEFINE obs == LoadObservations(S)
           stays == SynthesizeStays(obs.photos)
           visits == MergeVisitsByStart(obs.visits, stays)
           ends == Ends(obs.activities)
           raw == Flatten(visits, obs.activities, obs.points, obs.photos)
           all == RejectOutliers(raw)
           V == OfKind(S, "visit")
           P == OfKind(S, "photo")
           E == V \union P \union OfKind(S, "point") \union StayVisit
                  \union [start : Int, end : Int, loc : Int]
<1>1. /\ \A kind \in {"visit", "activity", "point", "photo"} : Dated(OfKind(S, kind))
      /\ \A kind \in {"visit", "point", "photo"} : \A x \in OfKind(S, kind) : x.loc \in Int
      /\ Lists(obs.visits, V) /\ Lists(obs.photos, P)
  BY KindsListed
<1>2. obs.visits \in Seq(V) /\ obs.photos \in Seq(P)
  BY <1>1 DEF Lists
<1>3. obs.points \in Seq(OfKind(S, "point")) /\ obs.activities \in Seq(OfKind(S, "activity"))
  <2>1. ASSUME NEW kind \in {"point", "activity"}
        PROVE  ByStart(SetToSeq(OfKind(S, kind))) \in Seq(OfKind(S, kind))
    <3>1. IsFiniteSet(OfKind(S, kind))
      BY FS_Subset DEF OfKind
    <3> QED
      BY <1>1, <3>1, ListedOnce, ByStartOrders
  <2> QED
    BY <2>1 DEF LoadObservations, OfKind
<1> HIDE DEF obs
<1>4. stays \in Seq(StayVisit)
  BY <1>1, <1>2, StaysType
<1>5. ends \in Seq([start : Int, end : Int, loc : Int])
  <2>1. \A a \in OfKind(S, "activity") : {a.start, a.end, a.from, a.to} \subseteq Int
    BY OptionsType DEF OfKind
  <2> QED
    BY <1>3, <2>1, EndsType
<1>6. Dated(E) /\ Placed(E)
  <2>1. \A e \in V \union P \union OfKind(S, "point") : {e.start, e.end, e.loc} \subseteq Int
    BY <1>1 DEF Dated
  <2>2. \A e \in StayVisit \union [start : Int, end : Int, loc : Int] :
            {e.start, e.end, e.loc} \subseteq Int
    BY DEF StayVisit
  <2>3. \A e \in E : {e.start, e.end, e.loc} \subseteq Int
    BY <2>1, <2>2
  <2> HIDE DEF E
  <2> QED
    BY <2>3 DEF Dated, Placed
<1>7. /\ obs.visits \in Seq(E) /\ stays \in Seq(E) /\ ends \in Seq(E)
      /\ obs.points \in Seq(E) /\ obs.photos \in Seq(E)
  <2>1. /\ V \subseteq E /\ P \subseteq E /\ OfKind(S, "point") \subseteq E
        /\ StayVisit \subseteq E /\ [start : Int, end : Int, loc : Int] \subseteq E
    OBVIOUS
  <2> HIDE DEF E, V, P, stays, ends
  <2> QED
    BY ZenonT(40), <1>2, <1>3, <1>4, <1>5, <2>1, SeqMonotonic
<1>8. Apart(obs.visits \o stays)
  <2>1. Apart(obs.visits)
    BY <1>1, RisingIsApart DEF Lists
  <2>2. Placed(P)
    BY <1>1 DEF Placed
  <2>3. Apart(stays) /\ \A k \in DOMAIN stays : \E x \in P : stays[k].start = x.start
    BY <1>1, <2>2, StaysApart
  <2>4. \A x \in V, y \in P : x.start # y.start
    BY DEF Differ, OfKind
  <2>5. \A i \in DOMAIN obs.visits, k \in DOMAIN stays : obs.visits[i].start # stays[k].start
    <3>1. \A i \in DOMAIN obs.visits : obs.visits[i] \in V
      BY <1>2
    <3> HIDE DEF V, P, stays
    <3> QED
      BY <2>3, <2>4, <3>1
  <2> HIDE DEF E, V, P, stays
  <2> QED
    BY <1>7, <2>1, <2>3, <2>5, ApartTogether
<1> HIDE DEF E, V, P, stays, ends
<1>9. visits \in Seq(E) /\ Apart(visits)
  <2>1. obs.visits \o stays \in Seq(E)
    BY <1>7
  <2>2. visits = ByStart(obs.visits \o stays)
    BY DEF MergeVisitsByStart
  <2>3. visits \in Seq(E) /\ Rising(visits)
    BY <1>6, <1>8, <2>1, <2>2, ByStartOrders, ApartRises
  <2> HIDE DEF visits
  <2> QED
    BY <1>6, <2>3, RisingIsApart
<1> HIDE DEF visits
<1>10. raw \in Seq(E) /\ InOrder(raw) /\ \A j \in DOMAIN visits : Foremost(raw, visits[j])
  <2> DEFINE merged == visits \o ends \o obs.points \o obs.photos
  <2>1. merged \in Seq(E)
    BY <1>7, <1>9
  <2>2. BeginsWith(merged, visits)
    BY <1>7, <1>9, StillFirst
  <2>3. raw = ByStart(merged)
    BY DEF Flatten, ends
  <2> HIDE DEF merged, raw
  <2>4. raw \in Seq(E) /\ InOrder(raw)
    BY <1>6, <2>1, <2>3, ByStartOrders
  <2>5. \A j \in DOMAIN visits : Foremost(raw, visits[j])
    BY <1>6, <1>9, <2>1, <2>2, <2>3, FirstMergedForemost
  <2> QED
    BY <2>4, <2>5
<1> HIDE DEF raw
<1>11. all \in Seq(E) /\ InOrder(all)
  <2>1. \A i \in DOMAIN raw : raw[i].start \in Int
    BY <1>6, <1>10 DEF Dated
  <2> QED
    BY <1>10, <2>1, OnlyInOrder DEF RejectOutliers
<1>12. Homes(BasesOf(visits, stays))
  BY <1>6, <1>7, <1>9, BasesType
<1>13. /\ Stages(obs).visits = visits /\ Stages(obs).raw = raw /\ Stages(obs).all = all
       /\ Stages(obs).bases = BasesOf(visits, stays)
       /\ Stages(obs).dist = IF BasesOf(visits, stays) = {} THEN <<>>
                ELSE [i \in DOMAIN all |-> HomeDist(BasesOf(visits, stays), all[i].start, all[i].loc)]
  BY DEF Stages, raw, visits, stays
<1>14. all = RejectOutliers(raw)
  OBVIOUS
<1> HIDE DEF all
<1> QED
  BY <1>6, <1>9, <1>10, <1>11, <1>12, <1>13, <1>14 DEF Staged, obs

-----------------------------------------------------------------------------
(* The histories.                                                            *)

HistoryInv ==
    /\ history \subseteq Observations /\ IsFiniteSet(history) /\ Differ(history)
    /\ st = Stages(LoadObservations(history))
    /\ cands = CandidatesOf(st)

\* Every run is over what has been imported by then.
LEMMA RunsAreUpToDate == HistorySpec => []HistoryInv
<1>1. HistoryInit => HistoryInv
  BY BegunAssumption DEF HistoryInit, HistoryInv, Differ
<1>2. HistoryInv /\ [HistoryNext]_historyVars => HistoryInv'
  <2> SUFFICES ASSUME HistoryInv, [HistoryNext]_historyVars PROVE HistoryInv'
    OBVIOUS
  <2>1. ASSUME NEW x \in Observations, Observe(x) PROVE HistoryInv'
    <3>1. Differ(history')
      BY <2>1 DEF Observe, HistoryInv, Differ
    <3> QED
      BY <2>1, <3>1, FS_AddElement DEF Observe, HistoryInv
  <2>2. CASE UNCHANGED historyVars
    BY <2>2 DEF historyVars, HistoryInv
  <2> QED
    BY <2>1, <2>2 DEF HistoryNext
<1> QED
  BY <1>1, <1>2, PTL DEF HistorySpec

\* A stay begins and ends with a photo and has no longer silence, and it lies where
\* its photos are; none of them is from elsewhere than those before it.
THEOREM StaysAreWitnessed == HistorySpec => []StaysAsWitnessed
<1>1. HistoryInv => StaysAsWitnessed
  <2> SUFFICES ASSUME HistoryInv, NEW v \in ToSet(st.stays)
               PROVE  Witnessed(v, OfKind(history, "photo"))
    BY DEF StaysAsWitnessed, Witnessed, Among, Taken, OfKind
  <2> DEFINE P == OfKind(history, "photo")
             photos == LoadObservations(history).photos
             s == ByStart(photos)
  <2>1. Dated(P) /\ (\A x \in P : x.loc \in Int) /\ Lists(photos, P)
    BY KindsListed DEF HistoryInv
  <2>2. st.stays = SynthesizeStays(photos)
    BY DEF HistoryInv, Stages
  <2> HIDE DEF P, photos
  <2>3. PICK k \in DOMAIN st.stays : v = st.stays[k]
    BY DEF ToSet
  <2>4. PICK p : /\ Selects(p, Lasting(s))
                 /\ \A l \in DOMAIN st.stays : l \in 1 .. Cardinality(Lasting(s)) /\ st.stays[l] = VisitOf(s, p[l])
    BY <2>1, <2>2, StaysBegin
  <2>5. Lists(s, P)
    BY <2>1, Relisted
  <2>6. p[k] \in Lasting(s) /\ v = VisitOf(s, p[k])
    BY <2>3, <2>4 DEF Selects
  <2>7. p[k] \in DOMAIN s /\ First(s)[p[k]] = p[k]
    BY <2>6 DEF Lasting
  <2>8. Witnessed(VisitOf(s, p[k]), P)
    <3> HIDE DEF s
    <3> QED
      BY <2>1, <2>5, <2>7, StayIsWitnessed
  <2> QED
    BY <2>6, <2>8 DEF P
<1> QED
  BY <1>1, RunsAreUpToDate, PTL

\* The spans of a run are apart: somebody was at home between them.
\* Between two spans there is an observation near home.
LEMMA SpansApart ==
    ASSUME NEW n \in Nat, NEW dist, DOMAIN dist = 1 .. n,
           NEW a \in FindSpans(dist), NEW b \in FindSpans(dist), a # b
    PROVE  /\ a.s \in 1 .. n /\ b.s \in 1 .. n /\ a.e \in 1 .. n /\ b.e \in 1 .. n
           /\ Far(dist, a.e) /\ Far(dist, b.e)
           /\ \E k \in 1 .. n : ~Far(dist, k) /\ ((a.e < k /\ k < b.s) \/ (b.e < k /\ k < a.s))
<1> DEFINE Run(r) == /\ r \in [s : 1 .. n, e : 1 .. n] /\ r.s <= r.e
                     /\ \A i \in r.s .. r.e : Far(dist, i)
                     /\ r.s = 1 \/ ~Far(dist, r.s - 1)
                     /\ r.e = n \/ ~Far(dist, r.e + 1)
<1>1. Run(a) /\ Run(b)
  BY SpansAreRuns
<1>2. Far(dist, a.e) /\ Far(dist, b.e)
  BY <1>1
<1>3. ASSUME NEW p, NEW q, Run(p), Run(q), p.s < q.s
      PROVE  \E k \in 1 .. n : ~Far(dist, k) /\ p.e < k /\ k < q.s
  <2>1. q.s - 1 \in 1 .. n /\ ~Far(dist, q.s - 1) /\ q.s - 1 < q.s /\ p.s <= q.s - 1
    BY <1>3
  <2>2. ~(q.s - 1 <= p.e)
    <3> SUFFICES ASSUME q.s - 1 <= p.e PROVE FALSE
      OBVIOUS
    <3>1. q.s - 1 \in p.s .. p.e
      BY <1>3, <2>1
    <3> QED
      BY <1>3, <2>1, <3>1
  <2>3. p.e < q.s - 1
    BY <1>3, <2>1, <2>2
  <2> QED
    BY <2>1, <2>3
<1>4. ASSUME a.s = b.s PROVE FALSE
  <2>1. ASSUME NEW p, NEW q, Run(p), Run(q), p.s = q.s, p.e < q.e PROVE FALSE
    <3>1. p.e + 1 \in q.s .. q.e /\ p.e # n
      BY <2>1
    <3> QED
      BY <2>1, <3>1
  <2>2. a.e = b.e
    <3>1. a.e < b.e \/ b.e < a.e \/ a.e = b.e
      BY <1>1
    <3> HIDE DEF Run
    <3> QED
      BY <1>1, <1>4, <2>1, <3>1
  <2> QED
    BY <1>1, <1>4, <2>2
<1>5. a.s < b.s \/ b.s < a.s
  BY <1>1, <1>4
<1>6. \E k \in 1 .. n : ~Far(dist, k) /\ ((a.e < k /\ k < b.s) \/ (b.e < k /\ k < a.s))
  <2> HIDE DEF Run
  <2>1. CASE a.s < b.s
    <3>1. PICK k \in 1 .. n : ~Far(dist, k) /\ a.e < k /\ k < b.s
      BY <1>1, <1>3, <2>1
    <3> QED
      BY <3>1
  <2>2. CASE b.s < a.s
    <3>1. PICK k \in 1 .. n : ~Far(dist, k) /\ b.e < k /\ k < a.s
      BY <1>1, <1>3, <2>2
    <3> QED
      BY <3>1
  <2> QED
    BY <1>5, <2>1, <2>2
<1> QED
  BY <1>1, <1>2, <1>6

\* Two trips never overlap, except where one observation begins at home while
\* another is still away: whatever has been imported, in whatever order.
THEOREM TripsAreDisjoint == HistorySpec => []CandidatesDisjoint
<1>1. HistoryInv => CandidatesDisjoint
  <2> SUFFICES ASSUME HistoryInv, ~Straddled, NEW c \in cands, NEW e \in cands, c # e
               PROVE  c.end <= e.start \/ e.end <= c.start
    BY DEF CandidatesDisjoint
  <2>1. Staged(st) /\ c \in CandidatesOf(st) /\ e \in CandidatesOf(st)
    BY StagesInOrder DEF HistoryInv
  <2>2. PICK a \in FindSpans(st.dist) : c \in CandidateOf(a, st.all, st.bases, st.visits)
    BY <2>1 DEF CandidatesOf
  <2>3. PICK b \in FindSpans(st.dist) : e \in CandidateOf(b, st.all, st.bases, st.visits)
    BY <2>1 DEF CandidatesOf
  <2>4. c.start = st.all[a.s].start /\ c.end = st.all[a.e].end
    BY <2>2 DEF CandidateOf
  <2>5. e.start = st.all[b.s].start /\ e.end = st.all[b.e].end
    BY <2>3 DEF CandidateOf
  <2>6. a # b
    BY <2>2, <2>3 DEF CandidateOf
  <2>7. PICK E : Dated(E) /\ st.all \in Seq(E)
    BY <2>1 DEF Staged
  <2>8. PICK n \in Nat : DOMAIN st.dist = 1 .. n /\ 1 .. n \subseteq DOMAIN st.all
    BY <2>1, DistDomain
  <2>9. /\ a.s \in 1 .. n /\ b.s \in 1 .. n /\ a.e \in 1 .. n /\ b.e \in 1 .. n
        /\ Far(st.dist, a.e) /\ Far(st.dist, b.e)
        /\ \E k \in 1 .. n : /\ ~Far(st.dist, k)
                             /\ (a.e < k /\ k < b.s) \/ (b.e < k /\ k < a.s)
    BY <2>6, <2>8, SpansApart
  <2>10. \A i \in 1 .. n : st.all[i].start \in Int /\ st.all[i].end \in Int
    BY <2>7, <2>8 DEF Dated
  <2>11. ASSUME NEW i \in 1 .. n, NEW k \in 1 .. n, NEW m \in 1 .. n,
                Far(st.dist, i), ~Far(st.dist, k), i < k, k < m
         PROVE  st.all[i].end <= st.all[m].start
    <3>1. ~(st.all[k].start < st.all[i].end)
      BY <2>8, <2>11 DEF Straddled, Away, Far
    <3>2. st.all[k].start <= st.all[m].start
      BY <2>1, <2>8, <2>11 DEF Staged, InOrder
    <3> QED
      BY <2>10, <3>1, <3>2
  <2> QED
    BY <2>4, <2>5, <2>9, <2>11
<1> QED
  BY <1>1, RunsAreUpToDate, PTL

\* A trip's destination is where one was on that very trip, dwelt at and far from
\* home, with nothing seen of home since it began; or it is a visit the outliers
\* were rejected with.  The parameters are unchecked flags: what is far from home
\* must be away from it, and what takes no time is nothing dwelt at.
THEOREM DestinationsAreOnTheTrip ==
    NearKm <= FarKm /\ MinDwell > 0 => (HistorySpec => []DestinationOnTheTrip)
<1> SUFFICES ASSUME NearKm <= FarKm, MinDwell > 0
             PROVE  HistorySpec => []DestinationOnTheTrip
  OBVIOUS
<1>1. HistoryInv => DestinationOnTheTrip
  <2> SUFFICES ASSUME HistoryInv, ~Straddled, NEW c \in cands
               PROVE  \/ \E i \in DOMAIN st.dist :
                            /\ st.all[i].loc = c.dest
                            /\ st.all[i].end - st.all[i].start >= MinDwell
                            /\ st.dist[i] = c.destKm /\ c.destKm > FarKm
                            /\ \A k \in DOMAIN st.dist :
                                c.start < st.all[k].start /\ st.all[k].start <= st.all[i].start
                                    => Away(k)
                      \/ \E i \in DOMAIN st.raw : st.raw[i].loc = c.dest /\ Outlier(st.raw, i)
    BY DEF DestinationOnTheTrip
  <2>1. Staged(st) /\ c \in CandidatesOf(st)
    BY StagesInOrder DEF HistoryInv
  <2>2. PICK sp \in FindSpans(st.dist) : c \in CandidateOf(sp, st.all, st.bases, st.visits)
    BY <2>1 DEF CandidatesOf
  <2>3. PICK n \in Nat : DOMAIN st.dist = 1 .. n /\ 1 .. n \subseteq DOMAIN st.all
    BY <2>1, DistDomain
  <2>4. /\ sp.s \in 1 .. n /\ sp.e \in 1 .. n /\ sp.s <= sp.e
        /\ \A i \in sp.s .. sp.e : Away(i)
    BY <2>3, SpansAreRuns DEF Far, Away
  <2>5. st.bases # {} /\ \A i \in DOMAIN st.all :
            st.dist[i] = HomeDist(st.bases, st.all[i].start, st.all[i].loc)
    <3>1. st.bases # {}
      BY <2>1, <2>3, <2>4 DEF Staged
    <3> QED
      BY <2>1, <3>1 DEF Staged
  <2>6. PICK E : /\ Dated(E) /\ Placed(E)
                 /\ st.visits \in Seq(E) /\ st.raw \in Seq(E) /\ st.all \in Seq(E)
    BY <2>1 DEF Staged
  <2> DEFINE from == st.all[sp.s].start
             to == st.all[sp.e].end
             dwells == Dwells(st.visits, from, to)
             dest == Destination(st.bases, st.visits, dwells)
  <2>7. /\ dwells # {} /\ dest.km > FarKm
        /\ c.start = from /\ c.dest = dest.loc /\ c.destKm = dest.km
    BY <2>2 DEF CandidateOf
  <2>8. PICK j \in DOMAIN st.visits :
            /\ j \in dwells /\ dest.loc = st.visits[j].loc
            /\ dest.km = HomeDist(st.bases, st.visits[j].start, st.visits[j].loc)
    <3>1. DOMAIN st.visits = 1 .. Len(st.visits) /\ Len(st.visits) \in Nat
      BY <2>6
    <3>2. dwells \in SUBSET (1 .. Len(st.visits))
      BY <3>1 DEF Dwells
    <3>3. ASSUME NEW k \in dwells
          PROVE  /\ st.visits[k].loc \in Int
                 /\ HomeDist(st.bases, st.visits[k].start, st.visits[k].loc) \in Int
      <4>1. st.visits[k].loc \in Int
        BY <2>6, <3>1, <3>2 DEF Placed
      <4>2. Homes(st.bases)
        BY <2>1 DEF Staged
      <4> QED
        BY <2>5, <4>1, <4>2, HomeDistType
    <3>4. dwells # {}
      BY <2>7
    <3> HIDE DEF dwells
    <3>5. \E k \in dwells : DestinedFor(st.bases, st.visits, dwells, k)
      BY <3>1, <3>2, <3>3, <3>4, DestinationIsDwelt
    <3> QED
      BY <3>1, <3>2, <3>5 DEF DestinedFor
  <2> DEFINE v == st.visits[j]
  <2>9. v.start \in from .. to /\ v.end - v.start >= MinDwell
    BY <2>8 DEF Dwells
  <2> HIDE DEF dwells, dest
  <2>10. PICK r \in DOMAIN st.raw :
            st.raw[r] = v /\ \A q \in DOMAIN st.raw : q < r => st.raw[q].start # v.start
    BY <2>1 DEF Staged, Foremost
  <2>11. CASE Outlier(st.raw, r)
    BY <2>7, <2>8, <2>10, <2>11
  <2>12. CASE ~Outlier(st.raw, r)
    <3> DEFINE K == {i \in DOMAIN st.raw : ~Outlier(st.raw, i)}
               m == Cardinality(K)
    <3>1. DOMAIN st.raw = 1 .. Len(st.raw) /\ Len(st.raw) \in Nat
      BY <2>6
    <3>2. st.all = Only(st.raw, K)
      BY <2>1 DEF Staged, RejectOutliers
    <3>3. r \in K /\ K \in SUBSET (1 .. Len(st.raw))
      BY <2>12, <3>1
    <3> HIDE DEF K
    <3>4. /\ m \in Nat /\ st.all = [k \in 1 .. m |-> st.all[k]]
          /\ \E p : Selects(p, K) /\ \A k \in 1 .. m : st.all[k] = st.raw[p[k]]
      BY <3>1, <3>2, <3>3, Selecting
    <3>5. PICK p : Selects(p, K) /\ \A k \in 1 .. m : st.all[k] = st.raw[p[k]]
      BY <3>4
    <3>6. PICK i \in 1 .. m : p[i] = r
      BY <3>3, <3>5 DEF Selects
    <3>7. DOMAIN st.all = 1 .. m
      BY <3>4
    <3>8. DOMAIN st.dist = 1 .. m
      BY <2>1, <2>5, <3>7 DEF Staged
    <3>9. st.all[i] = v
      BY <2>10, <3>5, <3>6
    <3>10. ASSUME NEW k \in 1 .. m, k < i PROVE st.all[k].start # v.start
      <4>1. p[k] < r /\ p[k] \in K
        BY <3>5, <3>6, <3>10 DEF Selects
      <4>2. p[k] \in DOMAIN st.raw
        BY <3>1, <3>3, <4>1
      <4> QED
        BY <2>10, <3>5, <4>1, <4>2
    <3>11. st.dist[i] = c.destKm /\ c.destKm > FarKm /\ Away(i)
      <4>1. st.dist[i] = dest.km
        BY <2>5, <2>8, <3>7, <3>9
      <4>2. dest.km \in Int
        <5>1. Homes(st.bases)
          BY <2>1 DEF Staged
        <5>2. v.loc \in Int
          BY <2>6 DEF Placed
        <5> QED
          BY <2>5, <2>8, <5>1, <5>2, HomeDistType
      <4>3. NearKm \in Int /\ FarKm \in Int
        BY DetectionAssumption
      <4> QED
        BY <2>7, <4>1, <4>2, <4>3 DEF Away
    <3> HIDE DEF m
    <3>12. \A k \in 1 .. m : st.all[k].start \in Int /\ st.all[k].end \in Int
      <4>1. \A k \in DOMAIN st.all : st.all[k] \in E
        BY <2>6
      <4> QED
        BY <2>6, <3>7, <4>1 DEF Dated
    <3>13. v.start \in Int /\ v.end \in Int /\ MinDwell \in Int
      <4>1. v \in E
        BY <2>6
      <4> HIDE DEF v
      <4> QED
        BY <2>6, <4>1, DetectionAssumption DEF Dated
    <3>14. \A k, l \in 1 .. m : Away(k) /\ ~Away(l) /\ k < l => st.all[k].end <= st.all[l].start
      <4>1. \A k, l \in 1 .. m : Away(k) /\ ~Away(l) /\ k < l
                => ~(st.all[l].start < st.all[k].end)
        BY <3>8 DEF Straddled
      <4> QED
        BY <3>12, <4>1
    <3>15. \A k, l \in 1 .. m : k < l => st.all[k].start <= st.all[l].start
      BY <2>1, <3>7 DEF Staged, InOrder
    <3>16. ASSUME NEW k \in 1 .. m, c.start < st.all[k].start, st.all[k].start <= v.start, ~Away(k)
           PROVE  FALSE
      <4>1. sp.s \in 1 .. m /\ sp.e \in 1 .. m
        BY <2>3, <2>4, <3>8
      <4>2. ~(k < sp.s)
        <5>1. st.all[sp.s].start < st.all[k].start
          BY <2>7, <3>16
        <5>2. k < sp.s => st.all[k].start <= st.all[sp.s].start
          BY <3>15, <4>1
        <5> QED
          BY <3>12, <4>1, <5>1, <5>2
      <4>3. k \notin sp.s .. sp.e
        BY <2>4, <3>16
      <4>4. sp.e < k
        BY <4>1, <4>2, <4>3
      <4>5. to <= st.all[k].start
        BY <2>4, <3>14, <3>16, <4>1, <4>4
      <4>6. v.start <= to /\ to \in Int
        BY <2>9, <3>12, <4>1
      <4>7. st.all[k].start = v.start
        BY <3>12, <3>13, <3>16, <4>5, <4>6
      <4>8. k # i /\ ~(k < i)
        BY <3>10, <3>11, <3>16, <4>7
      <4>9. i < k
        BY <4>8
      <4>10. v.end <= v.start
        BY <3>9, <3>11, <3>14, <3>16, <4>7, <4>9
      <4> QED
        BY <2>9, <3>13, <4>10
    <3> QED
      BY <2>7, <2>8, <2>9, <3>8, <3>9, <3>11, <3>16
  <2> QED
    BY <2>11, <2>12
<1> QED
  BY <1>1, RunsAreUpToDate, PTL
=====
