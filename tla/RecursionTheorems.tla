-------------------------- MODULE RecursionTheorems --------------------------
(***************************************************************************)
(* What a recursive function computes is proved by its least               *)
(* counterexample: Least finds one, and the recursion's step refutes it.   *)
(* The step is a function, so that the lemmas need no operator as a        *)
(* parameter.                                                              *)
(***************************************************************************)
EXTENDS Integers, FiniteSetsExt, WellFoundedInduction, TLAPS

LEMMA Least ==
  ASSUME NEW T \in SUBSET Nat, T # {}
  PROVE  \E n \in T : \A m \in T : n <= m
<1> DEFINE R == OpToRel(<, Nat)
<1>1. IsWellFoundedOn(R, Nat)
  BY NatLessThanWellFounded
<1>2. \A m, n \in Nat : <<m, n>> \in R <=> m < n
  BY DEF OpToRel
<1> HIDE DEF R
<1>3. PICK n \in T : \A m \in T : ~ (<<m, n>> \in R)
  BY <1>1, WFMin
<1>4. ASSUME NEW m \in T
      PROVE  n <= m
  <2>1. m \in Nat /\ n \in Nat
    OBVIOUS
  <2>2. ~(m < n)
    BY <1>2, <1>3, <2>1
  <2> QED
    BY <2>1, <2>2
<1> QED
  BY <1>4

LEMMA LeastOf ==
  ASSUME NEW T \in SUBSET Nat, T # {}
  PROVE  Min(T) \in T /\ \A m \in T : Min(T) <= m
BY Least DEF Min

LEMMA GreatestOf ==
  ASSUME NEW n \in Nat, NEW T \in SUBSET (1..n), T # {}
  PROVE  Max(T) \in T /\ \A m \in T : m <= Max(T)
<1> DEFINE U == {n - m : m \in T}
<1>1. U \in SUBSET Nat /\ U # {}
  <2>1. ASSUME NEW m \in T
        PROVE  n - m \in Nat
    <3>1. m \in 1..n
      OBVIOUS
    <3> QED
      BY <3>1
  <2> QED
    BY <2>1
<1>2. PICK u \in U : \A v \in U : u <= v
  <2> HIDE DEF U
  <2> QED
    BY <1>1, Least
<1>3. PICK t \in T : u = n - t
  OBVIOUS
<1>4. ASSUME NEW m \in T
      PROVE  t >= m
  <2>1. n - t <= n - m
    BY <1>2, <1>3
  <2> QED
    BY <2>1
<1>5. \E x \in T : \A y \in T : x >= y
  BY <1>4
<1>6. Max(T) \in T /\ \A y \in T : Max(T) >= y
  BY <1>5 DEF Max
<1>7. \A x, y \in T : x >= y => y <= x
  OBVIOUS
<1> QED
  BY <1>6, <1>7

\* A function that takes each of its values but the first from the one before.
Iterates(f, n, start, step) ==
  f = [i \in 0..n |-> IF i = 0 THEN start ELSE step[<<f[i - 1], i>>]]

LEMMA IteratesExist ==
  ASSUME NEW n \in Nat, NEW V, NEW start \in V, NEW step \in [V \X (1..n) -> V]
  PROVE  \E f \in [0..n -> V] : Iterates(f, n, start, step)
<1> DEFINE Upto(m, f) == /\ f \in [0..m -> V] /\ f[0] = start
                         /\ \A i \in 1..m : f[i] = step[<<f[i - 1], i>>]
           Bad == {m \in 0..n : ~\E f : Upto(m, f)}
<1>1. Bad = {}
  <2> SUFFICES ASSUME Bad # {}
               PROVE  FALSE
    OBVIOUS
  <2>1. PICK m \in Bad : \A l \in Bad : m <= l
    <3>1. Bad \in SUBSET Nat
      OBVIOUS
    <3> HIDE DEF Bad
    <3> QED
      BY <3>1, Least
  <2>2. m # 0
    <3>1. Upto(0, [i \in 0..0 |-> start])
      OBVIOUS
    <3> QED
      BY <2>1, <3>1
  <2>3. m \in 1..n /\ m - 1 \in 0..n /\ m - 1 \notin Bad
    <3>1. m \in 0..n
      OBVIOUS
    <3> HIDE DEF Bad
    <3>2. m \in 1..n /\ m - 1 \in 0..n /\ ~(m <= m - 1)
      BY <2>2, <3>1
    <3> QED
      BY <2>1, <3>2
  <2>4. PICK f : Upto(m - 1, f)
    BY <2>3
  <2> DEFINE v == step[<<f[m - 1], m>>]
             g == [i \in 0..m |-> IF i = m THEN v ELSE f[i]]
  <2>5. v \in V
    BY <2>3, <2>4
  <2>6. g \in [0..m -> V] /\ g[0] = start
    BY <2>3, <2>4, <2>5
  <2>7. ASSUME NEW i \in 1..m
        PROVE  g[i] = step[<<g[i - 1], i>>]
    <3>1. i - 1 \in 0..(m - 1) /\ i - 1 # m /\ g[i - 1] = f[i - 1]
      BY <2>3
    <3>2. CASE i = m
      <4>1. g[i] = v
        BY <3>2
      <4> QED
        BY <3>1, <3>2, <4>1
    <3>3. CASE i # m
      BY <2>3, <2>4, <3>1, <3>3
    <3> QED
      BY <3>2, <3>3
  <2>8. Upto(m, g)
    BY <2>6, <2>7
  <2> QED
    BY <2>1, <2>8
<1>2. PICK f : Upto(n, f)
  BY <1>1
<1>3. Iterates(f, n, start, step)
  BY <1>2 DEF Iterates
<1> QED
  BY <1>2, <1>3

\* And any such function has its values where its steps lead.
LEMMA IteratesType ==
  ASSUME NEW n \in Nat, NEW V, NEW f, f[0] \in V,
         \A i \in 1..n : f[i - 1] \in V => f[i] \in V
  PROVE  \A i \in 0..n : f[i] \in V
<1> DEFINE Bad == {i \in 0..n : f[i] \notin V}
<1> SUFFICES ASSUME Bad # {}
             PROVE  FALSE
  OBVIOUS
<1>1. PICK m \in Bad : \A l \in Bad : m <= l
  <2>1. Bad \in SUBSET Nat
    OBVIOUS
  <2> HIDE DEF Bad
  <2> QED
    BY <2>1, Least
<1>2. m # 0
  OBVIOUS
<1>3. m \in 1..n /\ m - 1 \in 0..n /\ ~(m <= m - 1)
  BY <1>2
<1>4. m - 1 \notin Bad
  BY <1>1, <1>3
<1> QED
  BY <1>3, <1>4

\* Induction up to a bound, with a set for the predicate.
LEMMA UpTo ==
  ASSUME NEW n \in Nat, NEW S, 0 \in S, \A i \in 1..n : i - 1 \in S => i \in S
  PROVE  \A i \in 0..n : i \in S
<1> DEFINE f == [i \in 0..n |-> i]
<1>1. f[0] \in S /\ \A i \in 1..n : f[i - 1] \in S => f[i] \in S
  <2>1. 0 \in 0..n /\ \A i \in 1..n : i \in 0..n /\ i - 1 \in 0..n
    OBVIOUS
  <2> QED
    BY <2>1
<1>2. \A i \in 0..n : f[i] \in S
  <2> HIDE DEF f
  <2> QED
    BY <1>1, IteratesType
<1> QED
  BY <1>2
=============================================================================
