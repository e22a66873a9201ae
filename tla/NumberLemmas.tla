---------------------------- MODULE NumberLemmas ----------------------------
(***************************************************************************)
(* Sets of natural numbers: least and greatest members, and how many there *)
(* are; and parts of sequences, which are taken by such sets.  The proofs  *)
(* about timelines and about the writes of the knowledge database rest on  *)
(* them.                                                                   *)
(***************************************************************************)
EXTENDS Subsequences, FiniteSetsExt, FiniteSetTheorems, WellFoundedInduction, TLAPS

\* A set of numbers that is not empty has a least one.
LEMMA Least ==
  ASSUME NEW S \in SUBSET Nat, S # {}
  PROVE  /\ Min(S) \in S
         /\ \A x \in S : Min(S) <= x
  <1>. DEFINE R == OpToRel(<, Nat)
  <1>1. PICK x \in S : \A y \in S : ~(<<y, x>> \in R)
    BY WFMin, NatLessThanWellFounded
  <1>2. \A y \in S : y < x => <<y, x>> \in R
    BY DEF OpToRel
  <1>. HIDE DEF R
  <1>3. \A y \in S : ~(y < x)
    BY <1>1, <1>2
  <1>4. \A y \in S : x <= y
    BY <1>3
  <1>. QED BY <1>4 DEF Min

\* One that is bounded has a greatest.
LEMMA Greatest ==
  ASSUME NEW S \in SUBSET Nat, NEW n \in Nat, S # {}, \A x \in S : x <= n
  PROVE  /\ Max(S) \in S
         /\ \A x \in S : x <= Max(S)
  <1>. DEFINE Rest == {d \in Nat : d <= n /\ n - d \in S}
              d    == Min(Rest)
  <1>1. PICK s \in S : TRUE
    OBVIOUS
  <1>2. n - s \in Rest
    OBVIOUS
  <1>3. d \in Rest /\ \A e \in Rest : d <= e
    BY <1>2, Least
  <1>. HIDE DEF d
  <1>4. \A x \in S : n - d >= x
    <2>. SUFFICES ASSUME NEW x \in S PROVE n - d >= x
      OBVIOUS
    <2>1. n - x \in Rest
      OBVIOUS
    <2>2. d \in Nat /\ x \in Nat /\ d <= n /\ d <= n - x
      BY <1>3, <2>1
    <2>. QED BY <2>2
  <1>5. Max(S) \in S /\ \A x \in S : Max(S) >= x
    BY <1>3, <1>4 DEF Max
  <1>. QED BY <1>5

\* Where a number stands in a set: the n-th, if n numbers are not above it.
Rank(P, k) == Cardinality({j \in P : j <= k})

\* Every place is taken.
LEMMA Ranked ==
  ASSUME NEW P \in SUBSET Nat, NEW m \in Nat, \A x \in P : x <= m
  PROVE  /\ IsFiniteSet(P) /\ Cardinality(P) \in Nat
         /\ \A n \in 1 .. Cardinality(P) : \E k \in P : Rank(P, k) = n
  <1>. DEFINE N == Cardinality(P)
              Bad == {d \in Nat : d < N /\ ~ \E k \in P : Rank(P, k) = N - d}
              d == Min(Bad)
  <1>1. IsFiniteSet(P) /\ N \in Nat
    BY FS_BoundedSetOfNaturals, FS_CardinalityType
  <1>2. ASSUME Bad # {} PROVE FALSE
    <2>1. d \in Bad /\ \A e \in Bad : d <= e
      BY <1>2, Least
    <2>. HIDE DEF d
    <2>2. CASE d = 0
      <3>1. P # {}
        BY <1>1, <2>1, FS_EmptySet
      <3>2. Max(P) \in P /\ \A x \in P : x <= Max(P)
        BY <3>1, Greatest
      <3>3. {j \in P : j <= Max(P)} = P
        BY <3>2
      <3>4. Rank(P, Max(P)) = N
        BY <3>3 DEF Rank
      <3>5. N - d = N
        BY <1>1, <2>2
      <3>6. ~ \E k \in P : Rank(P, k) = N - d
        BY <2>1
      <3>. QED BY <3>2, <3>4, <3>5, <3>6
    <2>3. CASE d # 0
      <3>. DEFINE e == d - 1
      <3>1. e \in Nat /\ e < N /\ ~ (d <= e) /\ d \in Nat /\ N - e = (N - d) + 1 /\ N - d > 0 /\ N - d \in Nat
        BY <1>1, <2>1, <2>3
      <3>2. e \notin Bad
        BY <2>1, <3>1
      <3>3. PICK k \in P : Rank(P, k) = N - e
        BY <3>1, <3>2
      <3>. DEFINE Q == {j \in P : j < k}
      <3>4. {j \in P : j <= k} = Q \cup {k} /\ k \notin Q
        <4>1. \A j \in P : j <= k <=> j < k \/ j = k
          OBVIOUS
        <4>2. k \in P /\ ~(k < k)
          OBVIOUS
        <4>. QED BY <4>1, <4>2
      <3>5. IsFiniteSet(Q) /\ Cardinality(Q) \in Nat /\ Q \subseteq P
        BY <1>1, FS_Subset, FS_CardinalityType
      <3>6. Cardinality(Q) = N - d
        <4>1. Cardinality(Q \cup {k}) = Cardinality(Q) + 1
          BY <3>4, <3>5, FS_AddElement
        <4>2. Cardinality(Q \cup {k}) = N - e
          BY <3>3, <3>4 DEF Rank
        <4>. QED BY <3>1, <3>5, <4>1, <4>2
      <3>7. Q # {}
        BY <3>1, <3>5, <3>6, FS_EmptySet
      <3>8. Max(Q) \in Q /\ \A x \in Q : x <= Max(Q)
        BY <3>5, <3>7, Greatest
      <3>9. {j \in P : j <= Max(Q)} = Q
        <4>0. k \in Nat /\ Max(Q) \in Nat /\ Max(Q) < k /\ \A j \in P : j \in Nat /\ (j < k => j <= Max(Q))
          BY <3>5, <3>8
        <4>1. \A j \in P : j <= Max(Q) <=> j < k
          BY <4>0
        <4>. QED BY <4>1
      <3>. QED BY <2>1, <3>1, <3>6, <3>8, <3>9 DEF Rank
    <2>. QED BY <2>2, <2>3
  <1>3. ASSUME NEW n \in 1 .. N PROVE \E k \in P : Rank(P, k) = n
    <2>1. N - n \in Nat /\ N - n < N /\ N - (N - n) = n
      BY <1>1
    <2>2. N - n \notin Bad
      BY <1>2
    <2>. QED BY <2>1, <2>2
  <1>. QED BY <1>1, <1>3

\* A place belongs to one number, and places are in the order of the numbers.
LEMMA RanksInOrder ==
  ASSUME NEW P \in SUBSET Nat, NEW m \in Nat, \A x \in P : x <= m, NEW j \in P, NEW k \in P, j < k
  PROVE  Rank(P, j) < Rank(P, k)
  <1>. DEFINE J == {i \in P : i <= j}
              K == {i \in P : i <= k}
  <1>1. J \subseteq K /\ k \in K /\ k \notin J
    <2>1. j \in Nat /\ k \in Nat /\ \A i \in P : i \in Nat
      OBVIOUS
    <2>2. (\A i \in P : i <= j => i <= k) /\ k <= k /\ ~(k <= j)
      BY <2>1
    <2>. QED BY <2>2
  <1>2. IsFiniteSet(J) /\ IsFiniteSet(K) /\ Cardinality(J) \in Nat /\ Cardinality(K) \in Nat
    BY FS_BoundedSetOfNaturals, FS_CardinalityType
  <1>3. Cardinality(J) <= Cardinality(K) /\ Cardinality(J) # Cardinality(K)
    BY <1>1, <1>2, FS_Subset
  <1>. QED BY <1>2, <1>3 DEF Rank

-----------------------------------------------------------------------------
(* Parts of sequences *)

\* All that is selected is there, in its order.
LEMMA SelectedInOrder ==
  ASSUME NEW S, NEW s \in Seq(S), NEW P \in SUBSET (DOMAIN s)
  PROVE  /\ Selected(s, P) \in Seq(S) /\ DOMAIN Selected(s, P) = 1 .. Cardinality(P)
         /\ \E f \in [1 .. Cardinality(P) -> P] :
              /\ \A n \in 1 .. Cardinality(P) : Selected(s, P)[n] = s[f[n]]
              /\ \A m, n \in 1 .. Cardinality(P) : m < n => f[m] < f[n]
              /\ \A k \in P : \E n \in 1 .. Cardinality(P) : f[n] = k
  <1>. DEFINE N == Cardinality(P)
              f == [n \in 1 .. N |-> CHOOSE k \in P : Rank(P, k) = n]
              q == Selected(s, P)
  <1>1. P \in SUBSET Nat /\ Len(s) \in Nat /\ \A k \in P : k <= Len(s)
    OBVIOUS
  <1>2. N \in Nat /\ \A n \in 1 .. N : f[n] \in P /\ Rank(P, f[n]) = n
    BY <1>1, Ranked
  <1>3. q = [n \in 1 .. N |-> s[f[n]]]
    BY DEF Selected, Rank
  <1>4. \A n \in 1 .. N : s[f[n]] \in S
    BY <1>2
  <1>5. ASSUME NEW m \in 1 .. N, NEW n \in 1 .. N, m < n PROVE f[m] < f[n]
    <2>1. f[m] \in P /\ f[n] \in P /\ Rank(P, f[m]) = m /\ Rank(P, f[n]) = n
      BY <1>2
    <2>. HIDE DEF f
    <2>2. ASSUME f[n] < f[m] PROVE FALSE
      <3>1. Rank(P, f[n]) < Rank(P, f[m])
        BY <1>1, <2>1, <2>2, RanksInOrder
      <3>. QED BY <1>2, <1>5, <2>1, <3>1
    <2>3. f[m] # f[n]
      BY <1>5, <2>1
    <2>4. f[m] \in Nat /\ f[n] \in Nat
      BY <1>1, <2>1
    <2>. QED BY <2>2, <2>3, <2>4
  <1>6. f \in [1 .. N -> P]
    BY <1>2
  <1>8. ASSUME NEW k \in P PROVE \E n \in 1 .. N : f[n] = k
    <2>. DEFINE n == Rank(P, k)
    <2>1. n \in 1 .. N
      <3>. DEFINE K == {j \in P : j <= k}
      <3>1. k \in K /\ K \subseteq P
        BY <1>1
      <3>2. IsFiniteSet(P)
        BY <1>1, Ranked
      <3>3. IsFiniteSet(K) /\ Cardinality(K) \in Nat /\ Cardinality(K) <= N /\ Cardinality(K) # 0
        BY <3>1, <3>2, FS_Subset, FS_CardinalityType, FS_EmptySet
      <3>. QED BY <1>2, <3>3 DEF Rank
    <2>2. f[n] \in P /\ Rank(P, f[n]) = Rank(P, k)
      BY <1>2, <2>1
    <2>. HIDE DEF f, n
    <2>3. f[n] \in Nat /\ k \in Nat /\ Rank(P, k) \in Nat
      BY <1>1, <1>2, <2>1, <2>2 DEF n
    <2>4. ~(f[n] < k) /\ ~(k < f[n])
      <3>1. f[n] < k => Rank(P, f[n]) < Rank(P, k)
        BY <1>1, <2>2, RanksInOrder
      <3>2. k < f[n] => Rank(P, k) < Rank(P, f[n])
        BY <1>1, <2>2, RanksInOrder
      <3>. QED BY <2>2, <2>3, <3>1, <3>2
    <2>. QED BY <2>1, <2>3, <2>4
  <1>. HIDE DEF f, q
  <1>7. q \in Seq(S) /\ DOMAIN q = 1 .. N /\ \A n \in 1 .. N : q[n] = s[f[n]]
    BY <1>2, <1>3, <1>4
  <1>. QED BY <1>5, <1>6, <1>7, <1>8 DEF q

LEMMA WithoutIn ==
  ASSUME NEW S, NEW s \in Seq(S), NEW x
  PROVE  /\ Without(s, x) \in Seq(S)
         /\ \A n \in DOMAIN Without(s, x) : \E k \in DOMAIN s : Without(s, x)[n] = s[k]
  <1>. DEFINE P == {k \in DOMAIN s : s[k] # x}
  <1>1. P \in SUBSET (DOMAIN s) /\ Without(s, x) = Selected(s, P)
    BY DEF Without
  <1>. HIDE DEF P
  <1>2. Selected(s, P) \in Seq(S) /\ DOMAIN Selected(s, P) = 1 .. Cardinality(P)
    BY <1>1, SelectedInOrder
  <1>3. PICK f \in [1 .. Cardinality(P) -> P] : \A n \in 1 .. Cardinality(P) : Selected(s, P)[n] = s[f[n]]
    BY <1>1, SelectedInOrder
  <1>4. \A n \in 1 .. Cardinality(P) : f[n] \in DOMAIN s
    BY <1>1
  <1>. QED BY <1>1, <1>2, <1>3, <1>4

=============================================================================
