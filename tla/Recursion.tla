----------------------------- MODULE Recursion -----------------------------
(***************************************************************************)
(* Induction over the naturals and definitions by recursion on them, in    *)
(* the form the provers can use: about sets and functions instead of       *)
(* operators.                                                              *)
(***************************************************************************)
EXTENDS Integers, Sequences, WellFoundedInduction, TLAPS

\* A set of naturals has a least member.
LEMMA Least ==
    ASSUME NEW T, T \subseteq Nat, T # {}
    PROVE  \E m \in T : \A k \in T : m <= k
<1> DEFINE R == OpToRel(<, Nat)
<1>1. IsWellFoundedOn(R, Nat)
  BY NatLessThanWellFounded, Zenon
<1>2. \A x, y \in Nat : x < y => <<x, y>> \in R
  BY DEF OpToRel
<1> HIDE DEF R
<1>3. PICK m \in T : \A k \in T : ~(<<k, m>> \in R)
  BY <1>1, WFMin, Zenon
<1>4. ASSUME NEW k \in T PROVE m <= k
  <2>1. m \in Nat /\ k \in Nat /\ ~(k < m)
    BY <1>2, <1>3, Zenon
  <2> QED
    BY <2>1
<1> QED
  BY <1>4

\* A set with 0 and the successors of its members has every natural.
LEMMA Induct ==
    ASSUME NEW S, 0 \in S, \A n \in Nat : n \in S => n + 1 \in S
    PROVE  \A n \in Nat : n \in S
<1> SUFFICES ASSUME NEW x \in Nat, x \notin S PROVE FALSE
  OBVIOUS
<1> DEFINE T == {n \in Nat : n \notin S}
<1>1. PICK m \in T : \A k \in T : m <= k
  <2>1. T \subseteq Nat /\ T # {}
    BY Zenon
  <2> HIDE DEF T
  <2> QED BY <2>1, Least, Zenon
<1>2. m \in Nat /\ m \notin S /\ m # 0
  BY <1>1
<1>3. m - 1 \in Nat /\ ~(m <= m - 1) /\ (m - 1) + 1 = m
  BY <1>2
<1>4. m - 1 \in S
  BY <1>1, <1>3
<1> QED
  BY <1>2, <1>3, <1>4

\* The same up to N.
LEMMA InductTo ==
    ASSUME NEW N \in Nat, NEW S, 0 \in S, \A n \in 0..(N - 1) : n \in S => n + 1 \in S
    PROVE  N \in S
<1> DEFINE T == {n \in Nat : n <= N => n \in S}
<1>1. 0 \in T
  OBVIOUS
<1>2. \A n \in Nat : n \in T => n + 1 \in T
  OBVIOUS
<1>3. N \in T
  <2> HIDE DEF T
  <2> QED
    BY <1>1, <1>2, Induct, Zenon
<1> QED
  BY <1>3

-----------------------------------------------------------------------------

\* A value to start with and what each of N steps makes of any value.
StepsOf(V, first, N, step) ==
    N \in Nat /\ first \in V /\ step \in [1..N -> [V -> V]]

\* The values after each of the steps.
Values(f, V, first, N, step) ==
    f \in [0..N -> V] /\ f[0] = first /\ \A i \in 1..N : f[i] = step[i][f[i - 1]]

\* There are such values: the recursive definition has a solution.
LEMMA Recursion ==
    ASSUME NEW V, NEW first, NEW N, NEW step, StepsOf(V, first, N, step)
    PROVE  \E f : Values(f, V, first, N, step)
<1> DEFINE Is(f, n) == f[0] = first /\ \A i \in 1..n : f[i] = step[i][f[i - 1]]
           S == {n \in Nat : n <= N => \E f \in [0..n -> V] : Is(f, n)}
<1>0. N \in Nat /\ first \in V /\ step \in [1..N -> [V -> V]]
  BY Zenon DEF StepsOf
<1>1. 0 \in S
  <2> DEFINE f == [i \in 0..0 |-> first]
  <2>1. f \in [0..0 -> V] /\ Is(f, 0)
    BY <1>0
  <2> QED
    BY <2>1, Zenon
<1>2. ASSUME NEW n \in Nat, n \in S PROVE n + 1 \in S
  <2> SUFFICES ASSUME n + 1 <= N PROVE \E f \in [0..(n + 1) -> V] : Is(f, n + 1)
    OBVIOUS
  <2>1. PICK f \in [0..n -> V] : Is(f, n)
    BY <1>0, <1>2
  <2> DEFINE g == [i \in 0..(n + 1) |-> IF i <= n THEN f[i] ELSE step[n + 1][f[n]]]
  <2>2. step[n + 1] \in [V -> V] /\ f[n] \in V
    BY <1>0
  <2>3. g \in [0..(n + 1) -> V]
    BY <2>2
  <2>4. g[0] = first
    BY <2>1
  <2>5. ASSUME NEW i \in 1..(n + 1) PROVE g[i] = step[i][g[i - 1]]
    BY <2>1
  <2> QED
    BY <2>3, <2>4, <2>5, Zenon
<1>3. N \in S
  <2> HIDE DEF S
  <2> QED
    BY <1>0, <1>1, <1>2, Induct, Zenon
<1> QED
  BY <1>0, <1>3 DEF Values

\* Functions that start alike and go on alike.
Alike(N, f, g) ==
    N \in Nat /\ f[0] = g[0] /\ \A i \in 1..N : f[i - 1] = g[i - 1] => f[i] = g[i]

\* They end alike: the solution is the only one.
LEMMA SameValues ==
    ASSUME NEW N, NEW f, NEW g, Alike(N, f, g)
    PROVE  f[N] = g[N]
<1> DEFINE S == {n \in Nat : n <= N => f[n] = g[n]}
<1>0. N \in Nat /\ f[0] = g[0] /\ \A i \in 1..N : f[i - 1] = g[i - 1] => f[i] = g[i]
  BY Zenon DEF Alike
<1>1. 0 \in S
  BY <1>0
<1>2. ASSUME NEW n \in Nat, n \in S PROVE n + 1 \in S
  <2> SUFFICES ASSUME n + 1 <= N PROVE f[n + 1] = g[n + 1]
    OBVIOUS
  <2>1. n + 1 \in 1..N /\ (n + 1) - 1 = n /\ f[n] = g[n]
    BY <1>0, <1>2
  <2> QED
    BY <1>0, <2>1
<1>3. \A n \in Nat : n \in S
  <2> HIDE DEF S
  <2> QED
    BY <1>1, <1>2, Induct, Zenon
<1> QED
  BY <1>0, <1>3
=============================================================================
