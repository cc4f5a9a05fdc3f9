----------------------------- MODULE Induction -----------------------------
(***************************************************************************)
(* Induction and primitive recursion over the natural numbers, stated with *)
(* sets and functions instead of operators, so that the proofs of the      *)
(* other modules can use them for what loops and recursive functions       *)
(* compute.                                                                *)
(***************************************************************************)
EXTENDS Integers, FiniteSets, FiniteSetTheorems, TLAPS

\* Induction: a number outside of T would have its predecessors outside as well, and
\* k |-> k - 1 would map them one-to-one into one fewer.
LEMMA SetInduction ==
  ASSUME NEW T, 0 \in T, \A n \in Nat : n \in T => n + 1 \in T
  PROVE  \A n \in Nat : n \in T
<1> SUFFICES ASSUME NEW n \in Nat, n \notin T PROVE FALSE
  OBVIOUS
<1> DEFINE U == (0..n) \ T
           f == [k \in U |-> k - 1]
<1>1. IsFiniteSet(U)
  <2>1. IsFiniteSet(0..n)
    BY FS_Interval
  <2> QED
    BY <2>1, FS_Difference
<1>2. n \in U
  OBVIOUS
<1>3. /\ IsFiniteSet(U \ {n})
      /\ Cardinality(U \ {n}) = Cardinality(U) - 1
      /\ Cardinality(U) \in Nat
  BY <1>1, <1>2, FS_RemoveElement, FS_CardinalityType
<1>4. f \in [U -> U \ {n}]
  <2> SUFFICES ASSUME NEW k \in U PROVE k - 1 \in U \ {n}
    OBVIOUS
  <2>1. k \in 0..n /\ k \notin T /\ k # 0
    OBVIOUS
  <2>2. k - 1 \in Nat /\ k - 1 < n /\ (k - 1) + 1 = k
    BY <2>1
  <2>3. k - 1 \notin T
    BY <2>1, <2>2
  <2> QED
    BY <2>1, <2>2, <2>3
<1>5. PICK x \in U, y \in U : x # y /\ f[x] = f[y]
  <2> HIDE DEF U, f
  <2> Cardinality(U \ {n}) < Cardinality(U)
    BY <1>3
  <2> QED
    BY <1>1, <1>3, <1>4, FS_PigeonHole
<1> QED
  BY <1>5

\* Induction up to a bound.
LEMMA BoundedInduction ==
  ASSUME NEW N \in Nat, NEW T, 0 \in T,
         \A n \in 1..N : n - 1 \in T => n \in T
  PROVE  \A n \in 0..N : n \in T
<1> DEFINE S == {n \in Nat : n <= N => n \in T}
<1>1. 0 \in S
  OBVIOUS
<1>2. \A n \in Nat : n \in S => n + 1 \in S
  <2> SUFFICES ASSUME NEW n \in Nat, n \in S, n + 1 <= N PROVE n + 1 \in T
    OBVIOUS
  <2>1. n + 1 \in 1..N /\ (n + 1) - 1 = n /\ n <= N
    OBVIOUS
  <2> QED
    BY <2>1
<1>3. \A n \in Nat : n \in S
  <2> HIDE DEF S
  <2> QED
    BY <1>1, <1>2, SetInduction
<1> QED
  BY <1>3

\* A set of numbers that is not empty has a smallest one.
LEMMA SmallestExists ==
  ASSUME NEW S, S # {}, \A i \in S : i \in Nat
  PROVE  \E i \in S : \A j \in S : i <= j
<1> SUFFICES ASSUME \A i \in S : \E j \in S : j < i PROVE FALSE
  OBVIOUS
<1> DEFINE T == {n \in Nat : \A i \in S : i > n}
<1>1. 0 \in T
  OBVIOUS
<1>2. \A n \in Nat : n \in T => n + 1 \in T
  OBVIOUS
<1>3. \A n \in Nat : n \in T
  <2> HIDE DEF T
  <2> QED
    BY <1>1, <1>2, SetInduction
<1> QED
  BY <1>3

\* f is defined by primitive recursion over 0..N, from a first value and a step.
IsRecursive(f, V, N, first, step) ==
  /\ f \in [0..N -> V] /\ f[0] = first
  /\ \A k \in 1..N : f[k] = step[<<f[k - 1], k>>]

Recursible(V, N, first, step) ==
  /\ N \in Nat /\ first \in V
  /\ step \in [V \X (1..N) -> V]

\* Such a function exists.
LEMMA Recursion ==
  ASSUME NEW V, NEW N, NEW first, NEW step, Recursible(V, N, first, step)
  PROVE  \E f : IsRecursive(f, V, N, first, step)
<1> USE DEF Recursible
<1> DEFINE T == {n \in 0..N : \E f : IsRecursive(f, V, n, first, step)}
<1>1. 0 \in T
  <2> DEFINE f == [k \in 0..0 |-> first]
  <2>1. IsRecursive(f, V, 0, first, step)
    BY DEF IsRecursive
  <2> QED
    BY <2>1
<1>2. ASSUME NEW n \in 1..N, n - 1 \in T PROVE n \in T
  <2>1. PICK f : IsRecursive(f, V, n - 1, first, step)
    BY <1>2
  <2> DEFINE g == [k \in 0..n |-> IF k = n THEN step[<<f[n - 1], n>>] ELSE f[k]]
  <2>2. f[n - 1] \in V
    BY <2>1 DEF IsRecursive
  <2>3. step[<<f[n - 1], n>>] \in V
    BY <2>2
  <2>4. g \in [0..n -> V] /\ g[0] = first
    BY <2>1, <2>3 DEF IsRecursive
  <2>5. ASSUME NEW k \in 1..n PROVE g[k] = step[<<g[k - 1], k>>]
    <3>1. CASE k = n
      <4>1. n - 1 # n /\ n - 1 \in 0..n /\ n \in 0..n
        OBVIOUS
      <4> QED
        BY <3>1, <4>1
    <3>2. CASE k # n
      <4>1. k \in 1..n-1 /\ k - 1 # n /\ k \in 0..n /\ k - 1 \in 0..n
        BY <3>2
      <4> QED
        BY <2>1, <4>1 DEF IsRecursive
    <3> QED
      BY <3>1, <3>2
  <2>6. IsRecursive(g, V, n, first, step)
    BY <2>4, <2>5 DEF IsRecursive
  <2> QED
    BY <2>6
<1>3. \A n \in 0..N : n \in T
  <2> HIDE DEF T
  <2> QED
    BY <1>1, <1>2, BoundedInduction
<1> QED
  BY <1>3
=============================================================================
