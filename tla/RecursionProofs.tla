---------------------------- MODULE RecursionProofs ----------------------------
(***************************************************************************)
(* Recursion over the positions of a sequence, for the modules whose       *)
(* functions go through a notebook or a line element by element.  What is  *)
(* usually an induction is done with sets of positions: a set that is not  *)
(* empty has a least member.                                               *)
(***************************************************************************)
EXTENDS Integers, Sequences, FiniteSetTheorems, WellFoundedInduction, SequenceTheorems, TLAPS

\* A set of positions that is not empty has a least one: of the intervals 0..x for
\* its members x, the one that contains no other.
LEMMA Least ==
  ASSUME NEW n \in Nat, NEW D, D \subseteq 0..n, D # {}
  PROVE  \E m \in D : \A y \in D : m <= y
<1> DEFINE To(x) == 0..x
           F == {To(x) : x \in D}
<1>1. IsFiniteSet(0..n) /\ IsWellFoundedOn(StrictSubsetOrdering(0..n), SUBSET (0..n))
  <2>1. IsFiniteSet(0..n)
    BY FS_Interval
  <2> QED BY <2>1, FS_FiniteSubsetsOfFinite, FS_StrictSubsetOrderingWellFounded
<1>2. F \subseteq SUBSET (0..n) /\ F # {}
  <2>1. \A x \in D : To(x) \subseteq 0..n
    OBVIOUS
  <2> HIDE DEF To
  <2> QED BY <2>1
<1>3. PICK X \in F : \A Y \in F : <<Y, X>> \notin StrictSubsetOrdering(0..n)
  <2> HIDE DEF F
  <2> QED BY <1>1, <1>2, WFMin, Zenon
<1>4. PICK m \in D : X = To(m)
  OBVIOUS
<1>5. ASSUME NEW y \in D, ~(m <= y) PROVE FALSE
  <2>1. To(y) \subseteq To(m) /\ m \in To(m) /\ m \notin To(y)
    BY <1>5
  <2>2. To(y) \in F /\ To(m) \in F
    OBVIOUS
  <2>3. To(y) \in SUBSET (0..n) /\ To(m) \in SUBSET (0..n) /\ To(y) # To(m)
    BY <1>2, <2>1, <2>2
  <2> HIDE DEF To, F
  <2> QED BY <1>3, <1>4, <2>1, <2>2, <2>3 DEF StrictSubsetOrdering
<1> QED BY <1>5

\* What holds at 0, and of m + 1 where it holds of m, holds up to n.  S is the set of
\* the positions where it holds.
LEMMA UpTo ==
  ASSUME NEW n \in Nat, NEW S, 0 \in S, \A m \in 0 .. n : m < n /\ m \in S => m + 1 \in S
  PROVE  0..n \subseteq S
<1> DEFINE D == 0..n \ S
<1> SUFFICES ASSUME D # {} PROVE FALSE
  OBVIOUS
<1>1. PICK m \in D : \A y \in D : m <= y
  <2>1. D \subseteq 0..n
    OBVIOUS
  <2> HIDE DEF D
  <2> QED BY <2>1, Least
<1>2. m \in 1..n /\ m - 1 \in 0..n /\ m - 1 < n /\ m - 1 \notin D
  BY <1>1
<1> QED BY <1>1, <1>2

\* w is defined by recursion: it starts at b and G says how it goes on.
Follows(w, n, b, G) == w[0] = b /\ \A k \in 1..n : w[k] = G[k][w[k - 1]]

\* There is such a function, for any steps G: the functions up to m are extended by
\* one value at a time.
LEMMA Recursion ==
  ASSUME NEW n \in Nat, NEW V, NEW b \in V, NEW G \in [1..n -> [V -> V]]
  PROVE  \E w \in [0..n -> V] : Follows(w, n, b, G)
<1> USE DEF Follows
<1> DEFINE Fits(w, m) == Follows(w, m, b, G)
           S == {m \in 0..n : \E w \in [0..m -> V] : Fits(w, m)}
<1>1. 0 \in S
  <2> DEFINE w == [k \in 0..0 |-> b]
  <2>1. w \in [0..0 -> V] /\ Fits(w, 0)
    OBVIOUS
  <2> HIDE DEF w, Fits
  <2> QED BY <2>1
<1>2. ASSUME NEW m \in 0..n, m < n, m \in S PROVE m + 1 \in S
  <2>1. PICK w \in [0..m -> V] : Fits(w, m)
    BY <1>2
  <2> DEFINE v == [k \in 0..(m + 1) |-> IF k = m + 1 THEN G[m + 1][w[m]] ELSE w[k]]
  <2>2. v \in [0..(m + 1) -> V]
    <3>1. G[m + 1][w[m]] \in V
      BY <1>2
    <3> QED BY <3>1
  <2>3. v[0] = b
    BY <2>1
  <2>4. ASSUME NEW k \in 1..(m + 1) PROVE v[k] = G[k][v[k - 1]]
    <3>1. CASE k = m + 1
      <4>1. v[k - 1] = w[m] /\ v[k] = G[m + 1][w[m]]
        BY <3>1
      <4> QED BY <3>1, <4>1
    <3>2. CASE k \in 1..m
      <4>1. v[k] = w[k] /\ v[k - 1] = w[k - 1]
        BY <3>2
      <4>2. w[k] = G[k][w[k - 1]]
        BY <2>1, <3>2
      <4> QED BY <4>1, <4>2
    <3> QED BY <3>1, <3>2
  <2>5. Fits(v, m + 1)
    BY <2>3, <2>4
  <2> HIDE DEF v, Fits
  <2> QED BY <1>2, <2>2, <2>5
<1>3. n \in S
  <2> HIDE DEF S
  <2>1. 0..n \subseteq S
    BY <1>1, <1>2, UpTo
  <2> QED BY <2>1
<1> QED BY <1>3
====
