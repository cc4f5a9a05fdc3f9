--------------------------- MODULE Startup_proofs ---------------------------
(***************************************************************************)
(* What Startup promises for all registrations, command lines, trees of    *)
(* files, databases and search depths: that grading starts with the        *)
(* assignment, the tests and the students asked for, and that each student *)
(* is graded on a file of his own.                                         *)
(***************************************************************************)
EXTENDS Startup, SequenceTheorems, FiniteSetTheorems, Induction, TLAPS

----------------------------------------------------------------------------
(* Elements at positions *)

\* The recursive function behind At.
LEMMA UptoDef ==
  ASSUME NEW V, NEW s \in Seq(V), NEW keep
  PROVE  /\ Upto(s, keep) \in [0..Len(s) -> Seq(V)]
         /\ Upto(s, keep)[0] = <<>>
         /\ \A n \in 1..Len(s) :
              Upto(s, keep)[n] = IF n \in keep THEN Append(Upto(s, keep)[n - 1], s[n])
                                 ELSE Upto(s, keep)[n - 1]
<1> DEFINE N == Len(s)
           W == Seq(V)
           next(q, n) == IF n \in keep THEN Append(q, s[n]) ELSE q
           step == [p \in W \X (1..N) |-> next(p[1], p[2])]
           upto == Upto(s, keep)
<1>1. N \in Nat /\ <<>> \in W
  OBVIOUS
<1>2. ASSUME NEW q \in W, NEW n \in 1..N PROVE next(q, n) \in W
  OBVIOUS
<1>3. step \in [W \X (1..N) -> W]
  <2> HIDE DEF W, next
  <2> QED
    BY <1>2
<1>4. upto = CHOOSE g : g = [n \in 0..N |-> IF n = 0 THEN <<>> ELSE next(g[n - 1], n)]
  BY Zenon DEF Upto
<1>5. PICK f : IsRecursive(f, W, N, <<>>, step)
  <2> HIDE DEF N, W, step
  <2> Recursible(W, N, <<>>, step)
    BY <1>1, <1>3 DEF Recursible
  <2> QED
    BY Recursion
<1> HIDE DEF N, W, next, upto
<1>6. f = [n \in 0..N |-> IF n = 0 THEN <<>> ELSE next(f[n - 1], n)]
  <2>1. ASSUME NEW n \in 1..N PROVE f[n] = next(f[n - 1], n)
    <3>1. f[n - 1] \in W
      BY <1>1, <1>5 DEF IsRecursive
    <3> QED
      BY <1>5, <3>1 DEF IsRecursive
  <2>2. \A n \in 0..N : f[n] = IF n = 0 THEN <<>> ELSE next(f[n - 1], n)
    BY <1>1, <1>5, <2>1 DEF IsRecursive
  <2> QED
    BY <1>5, <2>2 DEF IsRecursive
<1>7. upto = [n \in 0..N |-> IF n = 0 THEN <<>> ELSE next(upto[n - 1], n)]
  BY <1>4, <1>6, Zenon
<1>8. \A n \in 0..N : upto[n] \in W
  <2> DEFINE T == {n \in 0..N : upto[n] \in W}
  <2>1. 0 \in T
    BY <1>1, <1>7
  <2>2. ASSUME NEW n \in 1..N, n - 1 \in T PROVE n \in T
    BY <1>1, <1>2, <1>7, <2>2
  <2> HIDE DEF T
  <2>3. \A n \in 0..N : n \in T
    BY <1>1, <2>1, <2>2, BoundedInduction
  <2> QED
    BY <2>3 DEF T
<1>9. upto \in [0..N -> W]
  BY <1>7, <1>8
<1>10. upto[0] = <<>> /\ \A n \in 1..N : upto[n] = next(upto[n - 1], n)
  BY <1>1, <1>7
<1> QED
  BY <1>9, <1>10 DEF N, W, next, upto

\* The elements of two sequences at the same positions go together: p and q are elements
\* of s and t up to n.
Together(p, q, s, t, keep, n) ==
  /\ Len(p) = Len(q)
  /\ \A k \in 1..Len(p) : \E i \in 1..n : i \in keep /\ p[k] = s[i] /\ q[k] = t[i]
  /\ \A i \in 1..n : i \in keep => \E k \in 1..Len(p) : p[k] = s[i] /\ q[k] = t[i]

\* At takes exactly the elements at the positions, from two sequences the same positions.
LEMMA AtTogether ==
  ASSUME NEW V, NEW s \in Seq(V), NEW W, NEW t \in Seq(W), NEW keep, Len(s) = Len(t)
  PROVE  /\ At(s, keep) \in Seq(V) /\ At(t, keep) \in Seq(W)
         /\ Together(At(s, keep), At(t, keep), s, t, keep, Len(s))
<1> DEFINE N == Len(s)
           p == Upto(s, keep)
           q == Upto(t, keep)
           T == {n \in 0..N : Together(p[n], q[n], s, t, keep, n)}
<1>1. /\ N \in Nat /\ p \in [0..N -> Seq(V)] /\ q \in [0..N -> Seq(W)]
      /\ p[0] = <<>> /\ q[0] = <<>>
      /\ \A n \in 1..N : p[n] = IF n \in keep THEN Append(p[n - 1], s[n]) ELSE p[n - 1]
      /\ \A n \in 1..N : q[n] = IF n \in keep THEN Append(q[n - 1], t[n]) ELSE q[n - 1]
  BY UptoDef
<1> HIDE DEF p, q
<1>2. 0 \in T
  BY <1>1 DEF Together
<1>3. ASSUME NEW n \in 1..N, n - 1 \in T PROVE n \in T
  <2> DEFINE pp == p[n - 1]
             qq == q[n - 1]
  <2>1. /\ pp \in Seq(V) /\ qq \in Seq(W) /\ n - 1 \in Nat /\ n \in Nat
        /\ s[n] \in V /\ t[n] \in W /\ n \in 0..N
    <3>1. n - 1 \in 0..N /\ n \in 0..N /\ n - 1 \in Nat /\ n \in Nat
      BY <1>1
    <3>2. n \in 1..Len(s) /\ n \in 1..Len(t)
      OBVIOUS
    <3>3. s[n] \in V /\ t[n] \in W
      BY <3>2, ElementOfSeq
    <3> QED
      BY <1>1, <3>1, <3>3
  <2>2. Together(pp, qq, s, t, keep, n - 1)
    BY <1>3
  <2>3. p[n] = (IF n \in keep THEN Append(pp, s[n]) ELSE pp) /\ q[n] = (IF n \in keep THEN Append(qq, t[n]) ELSE qq)
    BY <1>1
  <2> HIDE DEF pp, qq
  <2>4. CASE n \notin keep
    <3>1. 1..n-1 \subseteq 1..n /\ \A i \in 1..n : i \in keep => i \in 1..n-1
      <4>1. \A i \in 1..n : i = n \/ i \in 1..n-1
        BY <2>1
      <4>2. 1..n-1 \subseteq 1..n
        BY <2>1
      <4> QED
        BY <2>4, <4>1, <4>2
    <3>2. Together(pp, qq, s, t, keep, n)
      BY <2>2, <3>1 DEF Together
    <3> QED
      BY <2>1, <2>3, <2>4, <3>2
  <2>5. CASE n \in keep
    <3> DEFINE a == Append(pp, s[n])
               b == Append(qq, t[n])
    <3>1. /\ Len(a) = Len(pp) + 1 /\ Len(b) = Len(qq) + 1 /\ Len(pp) \in Nat /\ Len(pp) = Len(qq)
          /\ \A k \in 1..Len(pp) : a[k] = pp[k] /\ b[k] = qq[k]
          /\ a[Len(pp) + 1] = s[n] /\ b[Len(pp) + 1] = t[n]
      BY <2>1, <2>2 DEF Together
    <3> HIDE DEF a, b
    <3>2. ASSUME NEW k \in 1..Len(a)
          PROVE  \E i \in 1..n : i \in keep /\ a[k] = s[i] /\ b[k] = t[i]
      <4>1. CASE k = Len(pp) + 1
        BY <2>1, <2>5, <3>1, <4>1
      <4>2. CASE k # Len(pp) + 1
        <5>1. k \in 1..Len(pp)
          BY <3>1, <4>2
        <5>2. PICK i \in 1..n-1 : i \in keep /\ pp[k] = s[i] /\ qq[k] = t[i]
          BY <2>2, <5>1 DEF Together
        <5> QED
          BY <2>1, <3>1, <5>1, <5>2
      <4> QED
        BY <4>1, <4>2
    <3>3. ASSUME NEW i \in 1..n, i \in keep
          PROVE  \E k \in 1..Len(a) : a[k] = s[i] /\ b[k] = t[i]
      <4>1. CASE i = n
        BY <3>1, <4>1
      <4>2. CASE i # n
        <5>1. i \in 1..n-1
          BY <2>1, <4>2
        <5>2. PICK k \in 1..Len(pp) : pp[k] = s[i] /\ qq[k] = t[i]
          BY <2>2, <3>3, <5>1 DEF Together
        <5>3. k \in 1..Len(a)
          BY <3>1, <5>2
        <5>4. a[k] = s[i] /\ b[k] = t[i]
          BY <3>1, <5>2, Zenon
        <5> QED
          BY <5>3, <5>4, Zenon
      <4> QED
        BY <4>1, <4>2
    <3>4. Together(a, b, s, t, keep, n)
      BY <3>1, <3>2, <3>3 DEF Together
    <3> QED
      BY <2>1, <2>3, <2>5, <3>4 DEF a, b
  <2> QED
    BY <2>4, <2>5
<1>4. \A n \in 0..N : n \in T
  <2> HIDE DEF T
  <2> QED
    BY <1>1, <1>2, <1>3, BoundedInduction
<1> QED
  BY <1>1, <1>4 DEF At, p, q

\* Only positions in the sequence matter.
LEMMA AtPositions ==
  ASSUME NEW V, NEW s \in Seq(V), NEW keep, NEW keep2,
         \A n \in 1..Len(s) : n \in keep <=> n \in keep2
  PROVE  At(s, keep) = At(s, keep2)
<1> DEFINE N == Len(s)
           p == Upto(s, keep)
           q == Upto(s, keep2)
           T == {n \in 0..N : p[n] = q[n]}
<1>1. /\ N \in Nat /\ p[0] = q[0]
      /\ \A n \in 1..N : p[n] = IF n \in keep THEN Append(p[n - 1], s[n]) ELSE p[n - 1]
      /\ \A n \in 1..N : q[n] = IF n \in keep2 THEN Append(q[n - 1], s[n]) ELSE q[n - 1]
  BY UptoDef
<1> HIDE DEF p, q
<1>2. 0 \in T
  BY <1>1
<1>3. ASSUME NEW n \in 1..N, n - 1 \in T PROVE n \in T
  BY <1>1, <1>3
<1>4. \A n \in 0..N : n \in T
  <2> HIDE DEF T
  <2> QED
    BY <1>1, <1>2, <1>3, BoundedInduction
<1> QED
  BY <1>1, <1>4 DEF At, p, q

\* One more element is taken or not.
LEMMA AtAppend ==
  ASSUME NEW V, NEW s \in Seq(V), NEW e \in V, NEW keep
  PROVE  At(Append(s, e), keep) =
           IF Len(s) + 1 \in keep THEN Append(At(s, keep), e) ELSE At(s, keep)
<1> DEFINE N == Len(s)
           r == Append(s, e)
           p == Upto(s, keep)
           q == Upto(r, keep)
           T == {n \in 0..N : p[n] = q[n]}
<1>1. N \in Nat /\ r \in Seq(V) /\ Len(r) = N + 1 /\ r[N + 1] = e /\ \A n \in 1..N : r[n] = s[n]
  OBVIOUS
<1>2. /\ p[0] = <<>>
      /\ \A n \in 1..N : p[n] = IF n \in keep THEN Append(p[n - 1], s[n]) ELSE p[n - 1]
  BY UptoDef
<1> HIDE DEF r
<1>3. /\ q[0] = <<>>
      /\ \A n \in 1..Len(r) : q[n] = IF n \in keep THEN Append(q[n - 1], r[n]) ELSE q[n - 1]
  BY <1>1, UptoDef
<1> HIDE DEF p, q, N
<1>4. 0 \in T
  BY <1>1, <1>2, <1>3
<1>5. ASSUME NEW n \in 1..N, n - 1 \in T PROVE n \in T
  BY <1>1, <1>2, <1>3, <1>5
<1>6. \A n \in 0..N : n \in T
  <2> HIDE DEF T
  <2> QED
    BY <1>1, <1>4, <1>5, BoundedInduction
<1>7. q[N + 1] = (IF N + 1 \in keep THEN Append(q[(N + 1) - 1], r[N + 1]) ELSE q[(N + 1) - 1])
  BY <1>1, <1>3
<1>8. (N + 1) - 1 = N /\ p[N] = q[N]
  BY <1>1, <1>6
<1> QED
  BY <1>1, <1>7, <1>8 DEF At, p, q, r, N

----------------------------------------------------------------------------
(* The registered assignments *)

\* What SelectInSeq does with the positions that pass its test.
LEMMA FirstOf ==
  ASSUME NEW n \in Nat, NEW I \in SUBSET (1..n)
  PROVE  LET at == IF I # {} THEN Min(I) ELSE 0
         IN  at \in 0..n /\ (at = 0 <=> I = {}) /\ (at # 0 => at \in I /\ \A i \in I : at <= i)
<1>1. CASE I = {}
  BY <1>1
<1>2. CASE I # {}
  <2>0. \A i \in I : i \in 1..n /\ i \in Nat
    OBVIOUS
  <2>1. \E i \in I : \A j \in I : i <= j
    BY <1>2, <2>0, SmallestExists
  <2>2. Min(I) \in I /\ \A i \in I : Min(I) <= i
    BY <2>1 DEF Min
  <2>3. \A i \in I : i \in 0..n /\ i # 0
    BY <2>0
  <2> QED
    BY <1>2, <2>2, <2>3
<1> QED
  BY <1>1, <1>2

\* An assignment of this name, by get_assignment.
LEMMA GetAssignment ==
  ASSUME registered_assignments_ \in Seq(Assignments), NEW name
  PROVE  /\ get_assignment(name) \in 0..Len(registered_assignments_)
         /\ get_assignment(name) = 0 <=>
              \A a \in DOMAIN registered_assignments_ : registered_assignments_[a].name # name
         /\ get_assignment(name) # 0 =>
              registered_assignments_[get_assignment(name)].name = name
<1> DEFINE I == {i \in 1..Len(registered_assignments_) : registered_assignments_[i].name = name}
<1>1. get_assignment(name) = IF I # {} THEN Min(I) ELSE 0
  BY DEF get_assignment, SelectInSeq
<1> DEFINE at == get_assignment(name)
<1>2. at \in 0..Len(registered_assignments_) /\ (at = 0 <=> I = {}) /\ (at # 0 => at \in I)
  <2>1. I \in SUBSET (1..Len(registered_assignments_)) /\ Len(registered_assignments_) \in Nat
    OBVIOUS
  <2> HIDE DEF I, at
  <2> QED
    BY <1>1, <2>1, FirstOf DEF at
<1>3. DOMAIN registered_assignments_ = 1..Len(registered_assignments_)
  OBVIOUS
<1> HIDE DEF at
<1> QED
  BY <1>2, <1>3 DEF at

\* An assignment of this executable, by get_assignment_by_pathname.
LEMMA GetAssignmentByPathname ==
  ASSUME registered_assignments_ \in Seq(Assignments), NEW exec
  PROVE  /\ get_assignment_by_pathname(exec) \in 0..Len(registered_assignments_)
         /\ get_assignment_by_pathname(exec) = 0 <=>
              \A a \in DOMAIN registered_assignments_ : registered_assignments_[a].exec # exec
         /\ get_assignment_by_pathname(exec) # 0 =>
              registered_assignments_[get_assignment_by_pathname(exec)].exec = exec
<1> DEFINE I == {i \in 1..Len(registered_assignments_) : registered_assignments_[i].exec = exec}
<1>1. get_assignment_by_pathname(exec) = IF I # {} THEN Min(I) ELSE 0
  BY DEF get_assignment_by_pathname, SelectInSeq
<1> DEFINE at == get_assignment_by_pathname(exec)
<1>2. at \in 0..Len(registered_assignments_) /\ (at = 0 <=> I = {}) /\ (at # 0 => at \in I)
  <2>1. I \in SUBSET (1..Len(registered_assignments_)) /\ Len(registered_assignments_) \in Nat
    OBVIOUS
  <2> HIDE DEF I, at
  <2> QED
    BY <1>1, <2>1, FirstOf DEF at
<1>3. DOMAIN registered_assignments_ = 1..Len(registered_assignments_)
  OBVIOUS
<1> HIDE DEF at
<1> QED
  BY <1>2, <1>3 DEF at

\* The assignment of a test, by find_or_create_assignment.
LEMMA FindOrCreate ==
  ASSUME registered_assignments_ \in Seq(Assignments), NEW meta \in Registrations
  PROVE  /\ find_or_create_assignment(meta) \in 0..Len(registered_assignments_)
         /\ find_or_create_assignment(meta) = 0 <=>
              \A a \in DOMAIN registered_assignments_ : Pair(registered_assignments_[a]) # meta
         /\ find_or_create_assignment(meta) # 0 =>
              Pair(registered_assignments_[find_or_create_assignment(meta)]) = meta
<1> DEFINE at == find_or_create_assignment(meta)
           I == {i \in 1..Len(registered_assignments_) :
                   registered_assignments_[i].name = meta.name /\ registered_assignments_[i].exec = meta.exec}
<1>1. at = IF I # {} THEN Min(I) ELSE 0
  BY DEF find_or_create_assignment, SelectInSeq
<1>2. at \in 0..Len(registered_assignments_) /\ (at = 0 <=> I = {}) /\ (at # 0 => at \in I)
  <2> HIDE DEF I, at
  <2> QED
    BY <1>1, FirstOf DEF I
<1>3. meta = [name |-> meta.name, exec |-> meta.exec]
  BY RegistrationsAssumption
<1>4. \A a \in DOMAIN registered_assignments_ : Pair(registered_assignments_[a]) = meta <=> a \in I
  BY <1>3 DEF Pair
<1> HIDE DEF I, at
<1>5. I \subseteq DOMAIN registered_assignments_
  BY DEF I
<1> QED
  BY <1>2, <1>4, <1>5 DEF at

\* The tests declared for a name and an executable, in the declarations d.
TestsOf(d, pair) == At([i \in DOMAIN d |-> i], {i \in DOMAIN d : d[i] = pair})

\* Registry, of any declarations d and assignments R.
RegistryOf(d, R) ==
  /\ d \in Seq(Registrations) /\ R \in Seq(Assignments)
  /\ \A i \in DOMAIN d : \E a \in DOMAIN R : Pair(R[a]) = d[i]
  /\ \A a, b \in DOMAIN R : Pair(R[a]) = Pair(R[b]) => a = b
  /\ \A a \in DOMAIN R : Pair(R[a]) \in Range(d) /\ R[a].tests = TestsOf(d, Pair(R[a]))

\* Registry is RegistryOf the state.
LEMMA RegistryIs == Registry <=> RegistryOf(declared, registered_assignments_)
<1> DEFINE R == registered_assignments_
<1>1. \A i : (\E a \in Range(R) : Pair(a) = declared[i]) <=> \E a \in DOMAIN R : Pair(R[a]) = declared[i]
  BY DEF Range
<1>2. (\A a \in Range(R) : Pair(a) \in Range(declared) /\ a.tests = Declared(Pair(a)))
        <=> \A a \in DOMAIN R : Pair(R[a]) \in Range(declared) /\ R[a].tests = Declared(Pair(R[a]))
  BY DEF Range
<1>3. \A pair : Declared(pair) = TestsOf(declared, pair)
  BY DEF Declared, TestsOf
<1> QED
  BY <1>1, <1>2, <1>3 DEF Registry, RegistryOf

\* And so in the next state.
LEMMA RegistryIsNext == Registry' <=> RegistryOf(declared', registered_assignments_')
<1> DEFINE R == registered_assignments_'
           d == declared'
<1>1. \A i : (\E a \in Range(R) : Pair(a) = d[i]) <=> \E a \in DOMAIN R : Pair(R[a]) = d[i]
  BY DEF Range
<1>2. (\A a \in Range(R) : Pair(a) \in Range(d) /\ a.tests = TestsOf(d, Pair(a)))
        <=> \A a \in DOMAIN R : Pair(R[a]) \in Range(d) /\ R[a].tests = TestsOf(d, Pair(R[a]))
  BY DEF Range
<1>3. Registry' <=>
        /\ d \in Seq(Registrations) /\ R \in Seq(Assignments)
        /\ \A i \in DOMAIN d : \E a \in Range(R) : Pair(a) = d[i]
        /\ \A a, b \in DOMAIN R : Pair(R[a]) = Pair(R[b]) => a = b
        /\ \A a \in Range(R) : Pair(a) \in Range(d) /\ a.tests = TestsOf(d, Pair(a))
  BY DEF Registry, Declared, TestsOf, Pair
<1> QED
  BY <1>1, <1>2, <1>3 DEF RegistryOf

\* One more registration is a test of its own pair and of no other.
LEMMA TestsOfAppend ==
  ASSUME NEW d \in Seq(Registrations), NEW meta \in Registrations, NEW pair
  PROVE  TestsOf(Append(d, meta), pair) =
           IF pair = meta THEN Append(TestsOf(d, pair), Len(d) + 1) ELSE TestsOf(d, pair)
<1> DEFINE e == Append(d, meta)
           N == Len(d)
           ids == [i \in DOMAIN d |-> i]
           keep == {i \in DOMAIN d : d[i] = pair}
           keepe == {i \in DOMAIN e : e[i] = pair}
<1>1. /\ N \in Nat /\ DOMAIN d = 1..N /\ DOMAIN e = 1..(N + 1) /\ e[N + 1] = meta
      /\ \A i \in 1..N : e[i] = d[i]
  OBVIOUS
<1> HIDE DEF e, N
<1>2. ids \in Seq(Nat) /\ Len(ids) = N /\ N + 1 \in Nat
  BY <1>1
<1>3. [i \in DOMAIN e |-> i] = Append(ids, N + 1)
  <2>1. [i \in DOMAIN e |-> i] \in Seq(Nat) /\ Len([i \in DOMAIN e |-> i]) = N + 1
    BY <1>1
  <2>2. Append(ids, N + 1) \in Seq(Nat) /\ Len(Append(ids, N + 1)) = N + 1
    BY <1>2
  <2>3. \A i \in 1..(N + 1) : [k \in DOMAIN e |-> k][i] = Append(ids, N + 1)[i]
    BY <1>1, <1>2
  <2> HIDE DEF ids
  <2> QED
    BY <2>1, <2>2, <2>3, SeqEqual
<1>4. At(ids, keepe) = At(ids, keep)
  <2>1. \A i \in 1..Len(ids) : i \in keepe <=> i \in keep
    BY <1>1, <1>2
  <2> HIDE DEF ids, keep, keepe
  <2> QED
    BY <1>2, <2>1, AtPositions
<1>5. At(Append(ids, N + 1), keepe) =
        IF N + 1 \in keepe THEN Append(At(ids, keepe), N + 1) ELSE At(ids, keepe)
  <2> HIDE DEF ids, keepe
  <2>1. At(Append(ids, N + 1), keepe) =
          IF Len(ids) + 1 \in keepe THEN Append(At(ids, keepe), N + 1) ELSE At(ids, keepe)
    <3>1. \A k : \A s \in Seq(Nat) : \A m \in Nat :
            At(Append(s, m), k) = IF Len(s) + 1 \in k THEN Append(At(s, k), m) ELSE At(s, k)
      BY AtAppend
    <3>2. ids \in Seq(Nat) /\ N + 1 \in Nat
      BY <1>2
    <3>3. \A s \in Seq(Nat) : \A m \in Nat :
            At(Append(s, m), keepe) = IF Len(s) + 1 \in keepe THEN Append(At(s, keepe), m) ELSE At(s, keepe)
      BY <3>1, Zenon
    <3> QED
      BY <3>2, <3>3, Zenon
  <2> QED
    BY <1>2, <2>1
<1>6. N + 1 \in keepe <=> pair = meta
  BY <1>1
<1>7. TestsOf(e, pair) = At(Append(ids, N + 1), keepe) /\ TestsOf(d, pair) = At(ids, keep)
  BY <1>3 DEF TestsOf
<1> HIDE DEF ids, keep, keepe
<1> QED
  BY <1>4, <1>5, <1>6, <1>7 DEF e, N

\* Without registrations of the pair there are no tests.
LEMMA TestsOfNone ==
  ASSUME NEW d \in Seq(Registrations), NEW pair, \A i \in DOMAIN d : d[i] # pair
  PROVE  TestsOf(d, pair) = <<>>
<1> DEFINE ids == [i \in DOMAIN d |-> i]
           keep == {i \in DOMAIN d : d[i] = pair}
<1>1. ids \in Seq(Nat) /\ keep = {}
  OBVIOUS
<1> HIDE DEF ids, keep
<1>2. At(ids, keep) \in Seq(Nat) /\ Together(At(ids, keep), At(ids, keep), ids, ids, keep, Len(ids))
  BY <1>1, AtTogether
<1>3. \A k \in 1..Len(At(ids, keep)) : FALSE
  BY <1>1, <1>2 DEF Together
<1>4. At(ids, keep) = <<>>
  BY <1>2, <1>3
<1> QED
  BY <1>4 DEF TestsOf, ids, keep

\* The first test of an assignment.
LEMMA NewAssignment ==
  ASSUME NEW d, NEW R, NEW meta \in Registrations, RegistryOf(d, R),
         \A a \in DOMAIN R : Pair(R[a]) # meta
  PROVE  RegistryOf(Append(d, meta),
                    Append(R, [name |-> meta.name, exec |-> meta.exec, tests |-> <<Len(d) + 1>>]))
<1> DEFINE e == Append(d, meta)
           new == [name |-> meta.name, exec |-> meta.exec, tests |-> <<Len(d) + 1>>]
           S == Append(R, new)
           N == Len(d)
           M == Len(R)
<1>1. d \in Seq(Registrations) /\ R \in Seq(Assignments) /\ N \in Nat /\ M \in Nat
  BY DEF RegistryOf
<1>2. /\ meta = [name |-> meta.name, exec |-> meta.exec]
      /\ meta.name \in Seq(STRING) \ {<<>>} /\ meta.exec \in Seq(STRING) \ {<<>>}
  BY RegistrationsAssumption
<1>3. /\ e \in Seq(Registrations) /\ DOMAIN d = 1..N /\ DOMAIN e = 1..(N + 1)
      /\ e[N + 1] = meta /\ \A i \in 1..N : e[i] = d[i]
  BY <1>1
<1>4. new \in Assignments /\ Pair(new) = meta
  BY <1>1, <1>2 DEF Assignments, Pair
<1>5. new.tests = <<N + 1>>
  OBVIOUS
<1> HIDE DEF new
<1>6. /\ S \in Seq(Assignments) /\ DOMAIN R = 1..M /\ DOMAIN S = 1..(M + 1)
      /\ S[M + 1] = new /\ \A a \in 1..M : S[a] = R[a]
  BY <1>1, <1>4
<1>7. \A i \in 1..N : d[i] # meta
  BY <1>1, <1>3 DEF RegistryOf
<1>8. TestsOf(e, meta) = <<N + 1>>
  <2>1. TestsOf(d, meta) = <<>>
    BY <1>1, <1>3, <1>7, TestsOfNone
  <2>2. TestsOf(e, meta) = Append(TestsOf(d, meta), N + 1)
    BY <1>1, TestsOfAppend
  <2> QED
    BY <2>1, <2>2
<1>9. \A pair : pair # meta => TestsOf(e, pair) = TestsOf(d, pair)
  BY <1>1, TestsOfAppend
<1> HIDE DEF e, S, N, M
<1>10. ASSUME NEW i \in 1..(N + 1) PROVE \E a \in 1..(M + 1) : Pair(S[a]) = e[i]
  <2>1. CASE i = N + 1
    BY <1>1, <1>3, <1>4, <1>6, <2>1
  <2>2. CASE i # N + 1
    <3>1. i \in 1..N
      BY <1>1, <2>2
    <3>2. PICK a \in 1..M : Pair(R[a]) = d[i]
      BY <1>3, <1>6, <3>1 DEF RegistryOf
    <3> QED
      BY <1>1, <1>3, <1>6, <3>1, <3>2
  <2> QED
    BY <2>1, <2>2
<1>11. ASSUME NEW a \in 1..(M + 1), NEW b \in 1..(M + 1), Pair(S[a]) = Pair(S[b]) PROVE a = b
  <2>1. \A c \in 1..(M + 1) : c # M + 1 => c \in 1..M
    BY <1>1
  <2>2. \A c \in 1..M : Pair(S[c]) # meta /\ Pair(S[c]) = Pair(R[c])
    BY <1>6
  <2>3. Pair(S[M + 1]) = meta
    BY <1>4, <1>6
  <2>4. \A c, f \in 1..M : Pair(R[c]) = Pair(R[f]) => c = f
    BY <1>6 DEF RegistryOf
  <2> QED
    BY <1>11, <2>1, <2>2, <2>3, <2>4
<1>12. ASSUME NEW a \in 1..(M + 1)
       PROVE  Pair(S[a]) \in Range(e) /\ S[a].tests = TestsOf(e, Pair(S[a]))
  <2>1. CASE a = M + 1
    <3>1. Pair(S[a]) = e[N + 1] /\ N + 1 \in DOMAIN e
      BY <1>1, <1>3, <1>4, <1>6, <2>1
    <3>2. Pair(S[a]) \in Range(e)
      BY <3>1 DEF Range
    <3> QED
      BY <1>4, <1>5, <1>6, <1>8, <2>1, <3>2
  <2>2. CASE a # M + 1
    <3>1. a \in 1..M
      BY <1>1, <2>2
    <3>2. PICK i \in 1..N : Pair(R[a]) = d[i]
      BY <1>3, <1>6, <3>1 DEF RegistryOf, Range
    <3>3. Pair(S[a]) = e[i] /\ i \in DOMAIN e
      BY <1>1, <1>3, <1>6, <3>1, <3>2
    <3>4. Pair(S[a]) \in Range(e)
      BY <3>3 DEF Range
    <3>5. S[a].tests = TestsOf(d, Pair(S[a])) /\ Pair(S[a]) # meta
      BY <1>6, <3>1 DEF RegistryOf
    <3> QED
      BY <1>9, <3>4, <3>5
  <2> QED
    BY <2>1, <2>2
<1> QED
  <2>1. RegistryOf(e, S)
    BY <1>3, <1>6, <1>10, <1>11, <1>12 DEF RegistryOf
  <2> QED
    BY <2>1 DEF e, S, new, N

\* A further test of an assignment.
LEMMA FurtherTest ==
  ASSUME NEW d, NEW R, NEW meta \in Registrations, RegistryOf(d, R),
         NEW at \in DOMAIN R, Pair(R[at]) = meta
  PROVE  RegistryOf(Append(d, meta), [R EXCEPT ![at].tests = Append(@, Len(d) + 1)])
<1> DEFINE e == Append(d, meta)
           S == [R EXCEPT ![at].tests = Append(@, Len(d) + 1)]
           N == Len(d)
           M == Len(R)
<1>1. d \in Seq(Registrations) /\ R \in Seq(Assignments) /\ N \in Nat /\ M \in Nat
  BY DEF RegistryOf
<1>2. /\ e \in Seq(Registrations) /\ DOMAIN d = 1..N /\ DOMAIN e = 1..(N + 1)
      /\ e[N + 1] = meta /\ \A i \in 1..N : e[i] = d[i]
  BY <1>1
<1>3. DOMAIN R = 1..M /\ at \in 1..M /\ \A a \in 1..M : R[a] \in Assignments
  BY <1>1
<1>4. [R[at] EXCEPT !.tests = Append(@, N + 1)] \in Assignments
  <2>1. R[at].tests \in Seq(Nat)
    BY <1>3 DEF Assignments
  <2>2. Append(R[at].tests, N + 1) \in Seq(Nat)
    BY <1>1, <2>1
  <2> QED
    BY <1>3, <2>2 DEF Assignments
<1>5. /\ S \in Seq(Assignments) /\ DOMAIN S = 1..M
      /\ S[at] = [R[at] EXCEPT !.tests = Append(@, N + 1)]
      /\ \A a \in 1..M : a # at => S[a] = R[a]
  BY <1>1, <1>3, <1>4
<1>6. S[at].tests = Append(R[at].tests, N + 1) /\ Pair(S[at]) = Pair(R[at])
  BY <1>3, <1>5 DEF Pair, Assignments
<1>7. \A a \in 1..M : Pair(S[a]) = Pair(R[a])
  BY <1>5, <1>6
<1>8. \A pair : TestsOf(e, pair) = IF pair = meta THEN Append(TestsOf(d, pair), N + 1) ELSE TestsOf(d, pair)
  BY <1>1, TestsOfAppend
<1> HIDE DEF e, S, N, M
<1>9. ASSUME NEW i \in 1..(N + 1) PROVE \E a \in 1..M : Pair(S[a]) = e[i]
  <2>1. CASE i = N + 1
    BY <1>2, <1>3, <1>7, <2>1
  <2>2. CASE i # N + 1
    <3>1. i \in 1..N
      BY <1>1, <2>2
    <3>2. PICK a \in 1..M : Pair(R[a]) = d[i]
      BY <1>2, <1>3, <3>1 DEF RegistryOf
    <3> QED
      BY <1>2, <1>7, <3>1, <3>2
  <2> QED
    BY <2>1, <2>2
<1>10. \A a, b \in 1..M : Pair(S[a]) = Pair(S[b]) => a = b
  BY <1>3, <1>7 DEF RegistryOf
<1>11. ASSUME NEW a \in 1..M
       PROVE  Pair(S[a]) \in Range(e) /\ S[a].tests = TestsOf(e, Pair(S[a]))
  <2>1. PICK i \in 1..N : Pair(R[a]) = d[i]
    BY <1>2, <1>3 DEF RegistryOf, Range
  <2>2. Pair(S[a]) = e[i] /\ i \in DOMAIN e
    BY <1>1, <1>2, <1>7, <2>1
  <2>3. Pair(S[a]) \in Range(e)
    BY <2>2 DEF Range
  <2>4. R[a].tests = TestsOf(d, Pair(R[a]))
    BY <1>3 DEF RegistryOf
  <2>5. CASE a = at
    BY <1>6, <1>8, <2>3, <2>4, <2>5
  <2>6. CASE a # at
    <3>1. Pair(R[a]) # meta
      BY <1>3, <2>6 DEF RegistryOf
    <3> QED
      BY <1>5, <1>7, <1>8, <2>3, <2>4, <2>6, <3>1
  <2> QED
    BY <2>5, <2>6
<1> QED
  <2>1. RegistryOf(e, S)
    BY <1>2, <1>3, <1>5, <1>9, <1>10, <1>11 DEF RegistryOf
  <2> QED
    BY <2>1 DEF e, S, N

\* Registering a test keeps the registry true.
LEMMA RegistryStep ==
  ASSUME Registry, NEW meta \in Registrations, RegisterTest(meta)
  PROVE  Registry'
<1> DEFINE at == find_or_create_assignment(meta)
           R == registered_assignments_
<1>1. RegistryOf(declared, R) /\ R \in Seq(Assignments)
  BY RegistryIs DEF RegistryOf
<1>2. /\ declared' = Append(declared, meta)
      /\ registered_assignments_' =
           IF at = 0
           THEN Append(R, [name |-> meta.name, exec |-> meta.exec, tests |-> <<Len(declared) + 1>>])
           ELSE [R EXCEPT ![at].tests = Append(@, Len(declared) + 1)]
  BY DEF RegisterTest
<1>3. /\ at \in 0..Len(R)
      /\ at = 0 <=> \A a \in DOMAIN R : Pair(R[a]) # meta
      /\ at # 0 => Pair(R[at]) = meta
  BY <1>1, FindOrCreate
<1> HIDE DEF at, R
<1>4. RegistryOf(declared', registered_assignments_')
  <2>1. CASE at = 0
    BY <1>1, <1>2, <1>3, <2>1, NewAssignment
  <2>2. CASE at # 0
    <3>1. at \in DOMAIN R
      BY <1>1, <1>3, <2>2
    <3> QED
      BY <1>1, <1>2, <1>3, <2>2, <3>1, FurtherTest
  <2> QED
    BY <2>1, <2>2
<1> QED
  BY <1>4, RegistryIsNext

----------------------------------------------------------------------------
(* The command line *)

\* Only the option for the assignment changes the name of it.
LEMMA StoredOption ==
  ASSUME opts \in Options, NEW arg \in Arguments
  PROVE  /\ Stored(arg) \in Options
         /\ arg.opt = "assignment" => Stored(arg).assignment_name = arg.val
         /\ arg.opt # "assignment" => Stored(arg).assignment_name = opts.assignment_name
<1>1. /\ arg.opt \in {"assignment", "-v", "-q", "--silent", "--stop", "--color", "--file",
                      "--file-matcher", "--database", "--search-path"}
      /\ arg.val \in Seq(STRING)
  BY ArgumentsAssumption
<1>2. /\ opts.verbosity \in Int /\ opts.verbosity + 1 \in Int /\ opts.verbosity - 1 \in Int
      /\ Silent \in Int
  BY DEF Options, Silent
<1>3. StopOption(arg.val) \in {"Never", "FirstError", "EachTestError"}
  <2>1. opts.stop_option \in {"Never", "FirstError", "EachTestError"}
    BY DEF Options
  <2> DEFINE first == arg.val = <<"first-error">>
             each == arg.val = <<"each-test-error">>
             never == arg.val = <<"never">>
  <2>2. StopOption(arg.val) = CASE first -> "FirstError" [] each -> "EachTestError"
                                [] never -> "Never" [] OTHER -> opts.stop_option
    BY DEF StopOption
  <2>3. ~(first /\ each) /\ ~(first /\ never) /\ ~(each /\ never)
    OBVIOUS
  <2> HIDE DEF first, each, never
  <2> QED
    BY <2>1, <2>2, <2>3
<1>4. CASE arg.opt = "assignment"
  BY <1>1, <1>4 DEF Stored, Options
<1>5. CASE arg.opt # "assignment"
  <2>1. Stored(arg) \in Options
    BY <1>1, <1>2, <1>3, <1>5 DEF Stored, Options
  <2>2. Stored(arg).assignment_name = opts.assignment_name
    BY <1>1, <1>5 DEF Stored, Options
  <2> QED
    BY <1>5, <2>1, <2>2
<1> QED
  BY <1>4, <1>5

\* Where there is a test there is an assignment.
LEMMA SomeAssignment ==
  ASSUME Registry, declared # <<>>
  PROVE  Range(registered_assignments_) # {}
<1>1. declared \in Seq(Registrations)
  BY DEF Registry
<1>2. 1 \in DOMAIN declared
  BY <1>1
<1> QED
  BY <1>2 DEF Registry

\* An assignment that was asked for is found, unless there is none at all.
LEMMA NamedFound ==
  ASSUME Registry, Commanded, pc # "exit1", declared # <<>>,
         opts.assignment_name # <<>> \/ "assignment" \in used
  PROVE  get_assignment(opts.assignment_name) # 0
<1>1. PICK a \in Range(registered_assignments_) : a.name = opts.assignment_name
  BY DEF Commanded
<1>2. PICK i \in DOMAIN registered_assignments_ : registered_assignments_[i].name = opts.assignment_name
  BY <1>1 DEF Range
<1> QED
  BY <1>2, GetAssignment DEF Registry

\* Every step keeps the command line and the control of main as Commanded says.
LEMMA CommandedStep ==
  ASSUME Registry, Commanded, [Next]_vars
  PROVE  Commanded'
<1> USE DEF Commanded
<1>1. ASSUME NEW meta \in Registrations, RegisterTest(meta) PROVE Commanded'
  BY <1>1 DEF RegisterTest, Take
<1>2. CASE EnterMain
  BY <1>2 DEF EnterMain
<1>3. ASSUME NEW arg \in Arguments, ParseArg(arg) PROVE Commanded'
  <2>1. CASE setup_parser(arg)
    <3>1. /\ pc = "parse" /\ pc' = "parse" /\ opts' = Stored(arg) /\ used' = used \cup {arg.opt}
          /\ UNCHANGED <<mode, declared, registered_assignments_>>
      BY <1>3, <2>1 DEF ParseArg
    <3>2. /\ opts' \in Options
          /\ arg.opt = "assignment" => opts'.assignment_name = arg.val
          /\ arg.opt # "assignment" => opts'.assignment_name = opts.assignment_name
      BY <3>1, StoredOption
    <3>3. CASE arg.opt = "assignment"
      <4>1. ASSUME declared # <<>>
            PROVE  \E a \in Range(registered_assignments_) : a.name = arg.val
        <5>1. choices(arg.opt) = {a.name : a \in Range(registered_assignments_)}
          BY <3>3 DEF choices
        <5>2. choices(arg.opt) # {}
          BY <4>1, <5>1, SomeAssignment
        <5>3. arg.val \in choices(arg.opt)
          BY <2>1, <5>2 DEF setup_parser
        <5> QED
          BY <5>1, <5>3
      <4> QED
        BY <3>1, <3>2, <3>3, <4>1
    <3>4. CASE arg.opt # "assignment"
      BY <3>1, <3>2, <3>4
    <3> QED
      BY <3>3, <3>4
  <2>2. CASE ~setup_parser(arg)
    BY <1>3, <2>2 DEF ParseArg
  <2> QED
    BY <2>1, <2>2
<1>4. CASE ParsedAll
  BY <1>4 DEF ParsedAll
<1>5. ASSUME NEW node \in Nodes, NEW depth \in 0..(SearchDepth + 1), PlaceEntry(node, depth) PROVE Commanded'
  BY <1>5 DEF PlaceEntry
<1>6. CASE Validate
  <2>1. opts' \in Options /\ opts'.assignment_name = opts.assignment_name /\ opts'.file_name = opts.file_name
    <3>1. opts.verbosity \in Int
      BY DEF Options
    <3>2. clamp(opts.verbosity) \in Int
      BY <3>1 DEF clamp, Silent, MaxLevel
    <3> QED
      BY <1>6, <3>2 DEF Validate, Options
  <2> QED
    BY <1>6, <2>1 DEF Validate
<1>7. CASE StudentApp
  <2>1. opts.assignment_name # <<>> /\ chosen' = 0 => declared = <<>>
    BY <1>7, NamedFound DEF StudentApp
  <2> QED
    BY <1>7, <2>1 DEF StudentApp
<1>8. ASSUME NEW line \in Lines, WriteLine(line) PROVE Commanded'
  BY <1>8 DEF WriteLine
<1>9. CASE ProfessorApp
  <2>1. chosen' = 0 => declared = <<>>
    BY <1>9, NamedFound DEF ProfessorApp
  <2>2. /\ pc = "read" /\ UNCHANGED <<mode, declared, registered_assignments_, used, opts>>
        /\ \/ chosen' = 0 /\ pc' = "aborted"
           \/ opts.file_name # <<>> /\ pc' = "student_app"
           \/ opts.file_name = <<>> /\ pc' \in {"search", "infer"}
    BY <1>9 DEF ProfessorApp
  <2> QED
    BY <2>1, <2>2
<1>10. ASSUME NEW i \in DOMAIN students, FindAssignmentPath(i) PROVE Commanded'
  BY <1>10 DEF FindAssignmentPath
<1>11. CASE InferStudents
  BY <1>11 DEF InferStudents
<1>12. CASE RunAllStudents
  BY <1>12 DEF RunAllStudents
<1>13. CASE UNCHANGED vars
  BY <1>13 DEF vars
<1> QED
  BY <1>1, <1>2, <1>3, <1>4, <1>5, <1>6, <1>7, <1>8, <1>9, <1>10, <1>11, <1>12, <1>13 DEF Next

----------------------------------------------------------------------------
(* Searching the tree of files *)

\* The files up to the entry n that a search for expr is to find.
Hits(expr, n) ==
  {i \in 1..n : Depth(i) <= SearchDepth /\ disk[i].kind = "file" /\ does_match(expr, disk[i])}

\* The numbers of q grow.
Ascending(q) == \A a, b \in 1..Len(q) : a < b => q[a] < q[b]

\* The state of the walk: everything before the entry it is at has been looked at.
Walked(expr, w) ==
  /\ w \in [at : 1..(Len(disk) + 1), found : Seq(1..Len(disk))]
  /\ Ascending(w.found)
  /\ Range(w.found) = Hits(expr, w.at - 1)

\* An entry of the disk.
LEMMA EntryAt ==
  ASSUME disk \in Seq(Entry), NEW i \in 1..Len(disk)
  PROVE  disk[i] \in Entry /\ Depth(i) \in Nat
<1>1. disk[i] \in Entry
  BY ElementOfSeq
<1> QED
  BY <1>1 DEF Depth, Entry

\* Popping skips only entries that are as deep.
LEMMA PopSkips ==
  ASSUME disk \in Seq(Entry), NEW i \in 1..Len(disk)
  PROVE  /\ pop(i) \in (i + 1)..(Len(disk) + 1)
         /\ \A j \in i..(pop(i) - 1) : Depth(j) >= Depth(i)
<1> DEFINE N == Len(disk)
           after == {j \in (i + 1)..N : Depth(j) < Depth(i)}
<1>1. N \in Nat /\ \A j \in 1..N : Depth(j) \in Nat
  BY EntryAt
<1>2. pop(i) = IF after = {} THEN N + 1 ELSE CHOOSE j \in after : \A k \in after : j <= k
  BY DEF pop
<1>3. \A j \in i..N : j \notin after => Depth(j) >= Depth(i)
  BY <1>1
<1>4. CASE after = {}
  BY <1>1, <1>2, <1>3, <1>4
<1>5. CASE after # {}
  <2>1. \A j \in after : j \in Nat
    BY <1>1
  <2>2. \E j \in after : \A k \in after : j <= k
    <3> HIDE DEF after
    <3> QED
      BY <1>5, <2>1, SmallestExists
  <2>3. pop(i) \in after /\ \A k \in after : pop(i) <= k
    <3> HIDE DEF after
    <3> QED
      BY <1>2, <1>5, <2>2
  <2>4. pop(i) \in (i + 1)..N
    BY <2>3
  <2>5. ASSUME NEW j \in i..(pop(i) - 1) PROVE Depth(j) >= Depth(i)
    <3>1. j \in i..N /\ ~(pop(i) <= j)
      BY <1>1, <2>4
    <3>2. j \notin after
      BY <2>3, <3>1
    <3> QED
      BY <1>3, <3>1, <3>2
  <2> QED
    BY <1>1, <2>4, <2>5
<1> QED
  BY <1>4, <1>5

\* A turn of the walk goes on and misses nothing.
LEMMA WalkTurn ==
  ASSUME disk \in Seq(Entry), NEW expr, NEW w, Walked(expr, w), w.at <= Len(disk)
  PROVE  Walked(expr, Walk(expr, w)) /\ Walk(expr, w).at > w.at
<1> DEFINE N == Len(disk)
           i == w.at
           q == w.found
<1>1. /\ N \in Nat /\ i \in 1..N /\ q \in Seq(1..N) /\ Ascending(q) /\ Range(q) = Hits(expr, i - 1)
      /\ w = [at |-> i, found |-> q]
  BY DEF Walked
<1>2. SearchDepth \in Nat /\ \A j \in 1..N : Depth(j) \in Nat
  BY BoundsAssumption, EntryAt
<1>3. CASE Depth(i) > SearchDepth
  <2>1. /\ pop(i) \in (i + 1)..(N + 1)
        /\ \A j \in i..(pop(i) - 1) : Depth(j) >= Depth(i)
    BY <1>1, PopSkips
  <2>2. Walk(expr, w) = [at |-> pop(i), found |-> q]
    BY <1>1, <1>3 DEF Walk
  <2>3. \A j \in 1..(pop(i) - 1) : j \in 1..(i - 1) \/ ~(Depth(j) <= SearchDepth)
    <3> SUFFICES ASSUME NEW j \in 1..(pop(i) - 1), j \notin 1..(i - 1)
                 PROVE  ~(Depth(j) <= SearchDepth)
      OBVIOUS
    <3>1. j \in i..(pop(i) - 1) /\ j \in 1..N
      BY <1>1, <2>1
    <3> HIDE DEF i
    <3>2. Depth(j) >= Depth(i) /\ Depth(j) \in Nat /\ Depth(i) \in Nat
      BY <1>1, <1>2, <2>1, <3>1
    <3> QED
      BY <1>2, <1>3, <3>2
  <2>4. \A j \in 1..(i - 1) : j \in 1..(pop(i) - 1)
    BY <1>1, <2>1
  <2>5. Hits(expr, pop(i) - 1) = Hits(expr, i - 1)
    BY <2>3, <2>4, Zenon DEF Hits
  <2>6. pop(i) \in 1..(N + 1) /\ pop(i) > i
    BY <1>1, <2>1
  <2>7. Walked(expr, [at |-> pop(i), found |-> q])
    BY <1>1, <2>5, <2>6 DEF Walked
  <2> QED
    BY <2>2, <2>6, <2>7
<1>4. CASE ~(Depth(i) > SearchDepth)
  <2> DEFINE hit == disk[i].kind = "file" /\ does_match(expr, disk[i])
             found == IF hit THEN Append(q, i) ELSE q
  <2>1. Walk(expr, w) = [at |-> i + 1, found |-> found]
    BY <1>4 DEF Walk
  <2>2. Depth(i) <= SearchDepth /\ (i + 1) - 1 = i /\ i + 1 \in 1..(N + 1) /\ i \in 1..i
    BY <1>1, <1>2, <1>4
  <2>3. \A j \in 1..i : j \in 1..(i - 1) \/ j = i
    BY <1>1
  <2>4. \A j \in 1..(i - 1) : j \in 1..i
    BY <1>1
  <2>5. Hits(expr, i) = IF hit THEN Hits(expr, i - 1) \cup {i} ELSE Hits(expr, i - 1)
    BY <2>2, <2>3, <2>4, Zenon DEF Hits
  <2>6. Append(q, i) \in Seq(1..N) /\ Ascending(Append(q, i)) /\ Range(Append(q, i)) = Range(q) \cup {i}
    <3>1. /\ Append(q, i) \in Seq(1..N) /\ Len(Append(q, i)) = Len(q) + 1 /\ Len(q) \in Nat
          /\ DOMAIN q = 1..Len(q) /\ DOMAIN Append(q, i) = 1..(Len(q) + 1)
          /\ Append(q, i)[Len(q) + 1] = i /\ \A a \in 1..Len(q) : Append(q, i)[a] = q[a]
      BY <1>1
    <3>2. \A a \in 1..Len(q) : q[a] \in 1..(i - 1)
      <4>1. \A a \in 1..Len(q) : q[a] \in Range(q)
        BY <3>1 DEF Range
      <4> QED
        BY <1>1, <4>1 DEF Hits
    <3> DEFINE r == Append(q, i)
    <3> HIDE DEF r
    <3>3. ASSUME NEW a \in 1..Len(r), NEW b \in 1..Len(r), a < b PROVE r[a] < r[b]
      <4>1. Len(r) = Len(q) + 1 /\ r[Len(q) + 1] = i /\ \A c \in 1..Len(q) : r[c] = q[c]
        BY <3>1 DEF r
      <4>2. a \in 1..Len(q)
        BY <3>1, <3>3, <4>1
      <4>3. CASE b = Len(q) + 1
        <5>1. r[a] \in 1..(i - 1) /\ r[b] = i
          BY <3>2, <4>1, <4>2, <4>3
        <5> QED
          BY <1>1, <5>1
      <4>4. CASE b # Len(q) + 1
        <5>1. b \in 1..Len(q)
          BY <3>1, <4>1, <4>4
        <5> QED
          BY <1>1, <3>3, <4>1, <4>2, <5>1 DEF Ascending
      <4> QED
        BY <4>3, <4>4
    <3>4. Range(r) = Range(q) \cup {i}
      <4>1. /\ DOMAIN r = 1..(Len(q) + 1) /\ r[Len(q) + 1] = i
            /\ \A a \in 1..Len(q) : r[a] = q[a] /\ DOMAIN q = 1..Len(q)
        BY <3>1 DEF r
      <4>2. \A a \in 1..(Len(q) + 1) : a = Len(q) + 1 \/ a \in 1..Len(q)
        BY <3>1
      <4>3. Len(q) + 1 \in 1..(Len(q) + 1) /\ \A a \in 1..Len(q) : a \in 1..(Len(q) + 1)
        BY <3>1
      <4>4. DOMAIN q = 1..Len(q)
        BY <3>1
      <4> HIDE DEF q, i
      <4>5. ASSUME NEW x \in Range(r) PROVE x \in Range(q) \cup {i}
        <5>1. PICK a \in 1..(Len(q) + 1) : x = r[a]
          BY <4>1 DEF Range
        <5> QED
          BY <4>1, <4>2, <4>4, <5>1 DEF Range
      <4>6. ASSUME NEW x \in Range(q) \cup {i} PROVE x \in Range(r)
        BY <4>1, <4>3, <4>4 DEF Range
      <4> QED
        BY <4>5, <4>6
    <3> QED
      BY <3>1, <3>3, <3>4 DEF Ascending, r
  <2>7. found \in Seq(1..N) /\ Ascending(found) /\ Range(found) = Hits(expr, i)
    <3> HIDE DEF hit, i, q
    <3>1. CASE hit
      BY <1>1, <2>5, <2>6, <3>1
    <3>2. CASE ~hit
      BY <1>1, <2>5, <3>2
    <3> QED
      BY <3>1, <3>2
  <2> HIDE DEF found, i, q
  <2>8. Walked(expr, [at |-> i + 1, found |-> found])
    BY <2>2, <2>7 DEF Walked
  <2>9. i + 1 > i
    BY <1>1
  <2> QED
    BY <2>1, <2>8, <2>9 DEF i
<1> QED
  BY <1>3, <1>4

\* The walk, turn by turn.
LEMMA WalksDef ==
  ASSUME disk \in Seq(Entry), NEW expr
  PROVE  \A k \in 0..Len(disk) : /\ Walked(expr, Walks(expr)[k])
                                 /\ Walks(expr)[k].at > k
<1> DEFINE N == Len(disk)
           V == {w \in [at : 1..(N + 1), found : Seq(1..N)] : Walked(expr, w)}
           first == [at |-> 1, found |-> <<>>]
           next(w) == IF w.at > N THEN w ELSE Walk(expr, w)
           step == [p \in V \X (1..N) |-> next(p[1])]
           turn == Walks(expr)
<1>1. N \in Nat
  OBVIOUS
<1>2. Walked(expr, first) /\ first \in V
  <2>1. first \in [at : 1..(N + 1), found : Seq(1..N)] /\ first.at = 1 /\ first.found = <<>>
    BY <1>1
  <2>2. Ascending(<<>>)
    BY DEF Ascending
  <2>3. Range(<<>>) = {} /\ Hits(expr, 1 - 1) = {}
    BY DEF Range, Hits
  <2> HIDE DEF first
  <2> QED
    BY <2>1, <2>2, <2>3 DEF Walked
<1>3. ASSUME NEW w, Walked(expr, w)
      PROVE  /\ Walked(expr, next(w)) /\ next(w) \in V
             /\ next(w).at > w.at \/ next(w).at > N
  <2>1. w.at \in Nat
    BY <1>1, <1>3 DEF Walked
  <2>2. CASE w.at > N
    BY <1>3, <2>2 DEF Walked
  <2>3. CASE ~(w.at > N)
    <3>1. Walked(expr, Walk(expr, w)) /\ Walk(expr, w).at > w.at
      BY <1>1, <1>3, <2>1, <2>3, WalkTurn
    <3> QED
      BY <2>3, <3>1 DEF Walked
  <2> QED
    BY <2>2, <2>3
<1>4. (\A w \in V : Walked(expr, w)) /\ \A w : Walked(expr, w) => w.at \in Nat
  BY <1>1 DEF Walked
<1> HIDE DEF N, V, first, next
<1>5. PICK f : IsRecursive(f, V, N, first, step)
  <2>1. step \in [V \X (1..N) -> V]
    BY <1>3, <1>4
  <2>2. Recursible(V, N, first, step)
    BY <1>1, <1>2, <2>1 DEF Recursible
  <2> QED
    BY <2>2, Recursion
<1>6. f = [k \in 0..N |-> IF k = 0 THEN first ELSE next(f[k - 1])]
  <2>1. ASSUME NEW k \in 1..N PROVE f[k] = next(f[k - 1])
    <3>1. f[k - 1] \in V
      BY <1>1, <1>5 DEF IsRecursive
    <3> QED
      BY <1>5, <3>1 DEF IsRecursive
  <2>2. \A k \in 0..N : f[k] = IF k = 0 THEN first ELSE next(f[k - 1])
    BY <1>1, <1>5, <2>1 DEF IsRecursive
  <2> QED
    BY <1>5, <2>2 DEF IsRecursive
<1>7. turn = CHOOSE g : g = [k \in 0..N |-> IF k = 0 THEN first ELSE next(g[k - 1])]
  BY DEF Walks, N, first, next
<1> HIDE DEF turn
<1>8. turn = [k \in 0..N |-> IF k = 0 THEN first ELSE next(turn[k - 1])]
  BY <1>6, <1>7, Zenon
<1> DEFINE T == {k \in 0..N : Walked(expr, turn[k]) /\ turn[k].at > k}
<1>9. 0 \in T
  <2>1. turn[0] = first
    BY <1>1, <1>8
  <2>2. first.at > 0
    BY DEF first
  <2> QED
    BY <1>1, <1>2, <2>1, <2>2
<1>10. ASSUME NEW k \in 1..N, k - 1 \in T PROVE k \in T
  <2>1. k \in 0..N /\ k - 1 \in 0..N /\ turn[k] = next(turn[k - 1])
    BY <1>1, <1>8
  <2>2. Walked(expr, turn[k - 1]) /\ turn[k - 1].at > k - 1
    BY <1>10
  <2>3. /\ Walked(expr, turn[k])
        /\ turn[k].at > turn[k - 1].at \/ turn[k].at > N
    BY <1>3, <2>1, <2>2
  <2>4. turn[k].at \in Nat /\ turn[k - 1].at \in Nat
    BY <1>4, <2>2, <2>3
  <2>5. turn[k].at > k
    BY <1>1, <2>2, <2>3, <2>4
  <2> QED
    BY <2>1, <2>3, <2>5
<1>11. \A k \in 0..N : k \in T
  <2> HIDE DEF T
  <2> QED
    BY <1>1, <1>9, <1>10, BoundedInduction
<1> QED
  BY <1>11 DEF N, turn

(* file_searcher.cpp:35-72: a search visits the whole tree down to the     *)
(* limit and nothing below it; it finds every file that matches, each      *)
(* once, in the order of the entries.                                      *)
THEOREM SearchExact ==
  ASSUME disk \in Seq(Entry), NEW expr
  PROVE  /\ search_recursive(expr) \in Seq(1..Len(disk))
         /\ Ascending(search_recursive(expr))
         /\ Range(search_recursive(expr)) = Hits(expr, Len(disk))
<1> DEFINE w == Walks(expr)[Len(disk)]
<1>1. Len(disk) \in Nat /\ Len(disk) \in 0..Len(disk)
  OBVIOUS
<1>2. Walked(expr, w) /\ w.at > Len(disk)
  BY <1>1, WalksDef
<1> HIDE DEF w
<1>3. w.at - 1 = Len(disk)
  BY <1>1, <1>2 DEF Walked
<1> QED
  BY <1>2, <1>3 DEF search_recursive, w, Walked

----------------------------------------------------------------------------
(* The lines of the database *)

\* A sequence without its last element.
LEMMA FrontLast ==
  ASSUME NEW S, NEW q \in Seq(S), q # <<>>
  PROVE  /\ Len(q) \in Nat \ {0} /\ Front(q) \in Seq(S) /\ Len(Front(q)) = Len(q) - 1
         /\ Last(q) = q[Len(q)]
<1>1. Len(q) \in Nat \ {0}
  OBVIOUS
<1> DEFINE m == Len(q) - 1
           p == SubSeq(q, 1, m)
<1>2. m \in Nat /\ \A i \in 1..m : q[i] \in S
  BY <1>1
<1> HIDE DEF m
<1>3. p \in Seq(S) /\ Len(p) = IF 1 <= m THEN m - 1 + 1 ELSE 0
  BY <1>2, SubSeqProperties
<1> HIDE DEF p
<1>4. p \in Seq(S) /\ Len(p) = m
  BY <1>2, <1>3
<1> QED
  BY <1>1, <1>4 DEF Front, Last, m, p

\* A line of the database, with or without its carriage return.
Line == Seq(Names) \ {<<>>}

\* Names are strings, and the lines of a database are lines.
LEMMA LinesAreLines ==
  /\ Names \subseteq Seq(STRING)
  /\ \A line \in Lines : line \in Seq(Fields) /\ line \in Line
<1>1. ASSUME NEW line \in Lines
      PROVE  line \in Seq(Seq(STRING)) /\ line # <<>> /\ line \in Seq(Fields)
  <2>1. line \in Seq(Seq(STRING)) /\ line # <<>>
    BY LinesAssumption
  <2>2. \A i \in 1..Len(line) : line[i] \in Fields
    BY <2>1 DEF Fields, Range
  <2>3. line = [i \in 1..Len(line) |-> line[i]] /\ Len(line) \in Nat
    BY <2>1
  <2>4. line \in Seq(Fields)
    BY <2>2, <2>3
  <2> QED
    BY <2>1, <2>4
<1>2. ASSUME NEW field \in Fields PROVE field \in Seq(STRING)
  <2>1. PICK line \in Lines : field \in Range(line)
    BY DEF Fields
  <2>2. line \in Seq(Seq(STRING)) /\ \E i \in DOMAIN line : field = line[i]
    BY <1>1, <2>1 DEF Range
  <2> QED
    BY <2>2
<1>3. ASSUME NEW field \in Fields \ {<<>>} PROVE Front(field) \in Seq(STRING)
  BY <1>2, FrontLast
<1>4. Names \subseteq Seq(STRING) /\ Fields \subseteq Names
  BY <1>2, <1>3 DEF Names
<1>5. ASSUME NEW line \in Seq(Fields) PROVE line \in Seq(Names)
  BY <1>4
<1> QED
  BY <1>1, <1>4, <1>5 DEF Line

\* A carriage return at the end of a line is taken away, and nothing else.
LEMMA WithoutCRDef ==
  ASSUME NEW line \in Lines
  PROVE  /\ WithoutCR(line) \in Line /\ Len(WithoutCR(line)) = Len(line)
         /\ WithoutCR(line) = << <<>> >> <=> line \in {<< <<>> >>, << <<"CR">> >>}
<1> DEFINE n == Len(line)
           field == line[n]
           without == [line EXCEPT ![n] = Front(field)]
<1>1. line \in Seq(Fields) /\ line \in Line /\ line \in Seq(Names) /\ n \in Nat /\ n # 0 /\ n \in 1..n
  BY LinesAreLines DEF Line
<1>2. field \in Fields /\ field \in Seq(STRING)
  <2>1. field \in Fields
    BY <1>1, ElementOfSeq
  <2> QED
    BY <2>1, LinesAreLines DEF Names
<1>3. ASSUME field # <<>>
      PROVE  /\ Len(field) \in Nat \ {0} /\ Front(field) \in Seq(STRING) /\ Front(field) \in Names
             /\ Len(Front(field)) = Len(field) - 1 /\ Last(field) = field[Len(field)]
  <2> HIDE DEF field
  <2>1. Front(field) \in Names
    BY <1>2, <1>3 DEF Names
  <2> QED
    BY <1>2, <1>3, <2>1, FrontLast
<1>4. CASE field # <<>> /\ Last(field) = "CR"
  <2>1. Front(field) \in Names /\ Len(field) # 0
    BY <1>3, <1>4
  <2>2. /\ without \in Seq(Names) /\ Len(without) = n /\ without[n] = Front(field)
        /\ \A k \in 1..n : k # n => without[k] = line[k]
    BY <1>1, <2>1
  <2>3. WithoutCR(line) = without
    BY <1>4 DEF WithoutCR
  <2>4. ASSUME without = << <<>> >> PROVE line = << <<"CR">> >>
    <3> HIDE DEF without, field
    <3>0. Len(<< <<>> >>) = 1 /\ << <<>> >>[1] = <<>>
      OBVIOUS
    <3>1. n = 1 /\ Front(field) = <<>>
      BY <1>1, <2>2, <2>4, <3>0
    <3>4. Len(Front(field)) = 0 /\ Len(field) \in Nat
      BY <1>3, <1>4, <3>1
    <3>5. Len(field) = 1
      BY <1>3, <1>4, <3>4
    <3>2. Len(field) = 1 /\ field[1] = "CR"
      BY <1>3, <1>4, <3>5
    <3>3. field = <<"CR">>
      BY <1>2, <3>2
    <3> QED
      BY <1>1, <3>1, <3>3 DEF field
  <2>5. ASSUME line = << <<"CR">> >> PROVE without = << <<>> >>
    <3>1. n = 1 /\ field = <<"CR">>
      BY <2>5
    <3>2. Len(field) = 1
      BY <3>1
    <3>3. Front(field) = <<>>
      <4>1. Front(field) \in Seq(STRING) /\ Len(Front(field)) = 0
        BY <1>3, <1>4, <3>2
      <4> HIDE DEF field
      <4> QED
        BY <4>1
    <3> QED
      BY <1>1, <2>2, <3>1, <3>3
  <2>6. line # << <<>> >>
    <3>1. line = << <<>> >> => field = <<>>
      OBVIOUS
    <3> QED
      BY <1>4, <3>1
  <2>7. without # <<>>
    <3> HIDE DEF without, field
    <3>1. Len(without) # Len(<<>>)
      BY <1>1, <2>2
    <3> QED
      BY <3>1
  <2> HIDE DEF without, n, field
  <2> QED
    BY <2>2, <2>3, <2>4, <2>5, <2>6, <2>7 DEF Line, n
<1>5. CASE ~(field # <<>> /\ Last(field) = "CR")
  <2>1. WithoutCR(line) = line /\ line \in Line
    BY <1>1, <1>5 DEF WithoutCR
  <2>2. line # << <<"CR">> >>
    <3>1. line = << <<"CR">> >> => field = <<"CR">>
      OBVIOUS
    <3>2. field = <<"CR">> => field # <<>> /\ Last(field) = "CR"
      BY DEF Last
    <3> QED
      BY <1>5, <3>1, <3>2
  <2> QED
    BY <2>1, <2>2
<1> QED
  BY <1>4, <1>5

\* The lines that have something on them.
Written == At(database, {i \in DOMAIN database : database[i] \notin {<< <<>> >>, << <<"CR">> >>}})

\* The entries read are the lines that have something on them.
LEMMA EntriesDef ==
  ASSUME database \in Seq(Lines)
  PROVE  /\ Entries \in Seq(Line) /\ Written \in Seq(Lines) /\ Len(Entries) = Len(Written)
         /\ \A i \in 1..Len(Entries) : Entries[i] = WithoutCR(Written[i])
<1> DEFINE N == Len(database)
           lines == [i \in DOMAIN database |-> WithoutCR(database[i])]
           keep == {i \in DOMAIN lines : lines[i] # << <<>> >>}
           keepw == {i \in DOMAIN database : database[i] \notin {<< <<>> >>, << <<"CR">> >>}}
<1>1. N \in Nat /\ DOMAIN database = 1..N /\ DOMAIN lines = 1..N /\ \A i \in 1..N : database[i] \in Lines
  OBVIOUS
<1>2. \A i \in 1..N : lines[i] = WithoutCR(database[i]) /\ lines[i] \in Line
  BY <1>1, WithoutCRDef
<1>3. lines \in Seq(Line) /\ Len(lines) = N
  <2> HIDE DEF lines, N
  <2>1. lines = [i \in 1..N |-> lines[i]]
    BY <1>1 DEF lines
  <2> QED
    BY <1>1, <1>2, <2>1
<1>4. keep = keepw
  <2>1. \A i \in 1..N : lines[i] = << <<>> >> <=> database[i] \in {<< <<>> >>, << <<"CR">> >>}
    BY <1>1, <1>2, WithoutCRDef
  <2> HIDE DEF lines, N
  <2> QED
    BY <1>1, <2>1, Zenon
<1>5. Entries = At(lines, keepw) /\ Written = At(database, keepw)
  BY <1>4 DEF Entries, Written
<1>6. /\ Entries \in Seq(Line) /\ Written \in Seq(Lines)
      /\ Together(Entries, Written, lines, database, keepw, N)
  <2> HIDE DEF lines, keepw
  <2> QED
    BY <1>3, <1>5, AtTogether
<1>7. Len(Entries) = Len(Written) /\ \A i \in 1..Len(Entries) : Entries[i] = WithoutCR(Written[i])
  <2>1. ASSUME NEW k \in 1..Len(Entries) PROVE Entries[k] = WithoutCR(Written[k])
    <3>1. PICK i \in 1..N : Entries[k] = lines[i] /\ Written[k] = database[i]
      BY <1>6, <2>1, Zenon DEF Together
    <3> QED
      BY <1>2, <3>1
  <2> QED
    BY <1>6, <2>1 DEF Together
<1> QED
  BY <1>6, <1>7

----------------------------------------------------------------------------
(* What the program reads *)

\* What reading the database gives.
ReadAs(r) ==
  /\ r.ok \in BOOLEAN /\ r.names \in Seq(Students)
  /\ ~r.ok => r.names = <<>>
  /\ r.ok => /\ Len(r.names) = Len(Entries)
             /\ \A i \in 1..Len(Entries) : /\ <<r.names[i].last, r.names[i].first>> = Entries[i]
                                           /\ r.names[i].path = NotSearched
  /\ r.ok <=> has_database /\ \A i \in 1..Len(Entries) : Len(Entries[i]) = 2

\* A sequence of two.
LEMMA TwoElements ==
  ASSUME NEW S, NEW l \in Seq(S), Len(l) = 2
  PROVE  l = <<l[1], l[2]>> /\ l[1] \in S /\ l[2] \in S
<1>1. l[1] \in S /\ l[2] \in S
  <2>1. 1 \in 1..Len(l) /\ 2 \in 1..Len(l)
    OBVIOUS
  <2> QED
    BY <2>1, ElementOfSeq
<1>2. l = [i \in 1..2 |-> l[i]]
  OBVIOUS
<1>3. <<l[1], l[2]>> = [i \in 1..2 |-> l[i]]
  OBVIOUS
<1> QED
  BY <1>1, <1>2, <1>3

\* Reading the database gives its entries, or nothing at all.
LEMMA ReadDef ==
  ASSUME database \in Seq(Lines)
  PROVE  ReadAs(read)
<1>1. Entries \in Seq(Line) /\ DOMAIN Entries = 1..Len(Entries) /\ Len(Entries) \in Nat
  <2>1. Entries \in Seq(Line)
    BY EntriesDef
  <2> QED
    BY <2>1
<1>2. CASE ~has_database \/ \E i \in DOMAIN Entries : Len(Entries[i]) # 2
  <2>1. read = [ok |-> FALSE, names |-> <<>>]
    BY <1>2 DEF read, NotLoaded
  <2>2. read.ok = FALSE /\ read.names = <<>>
    BY <2>1
  <2>3. <<>> \in Seq(Students) /\ FALSE \in BOOLEAN
    OBVIOUS
  <2>4. has_database => ~\A i \in 1..Len(Entries) : Len(Entries[i]) = 2
    BY <1>1, <1>2
  <2> QED
    BY <2>2, <2>3, <2>4, Zenon DEF ReadAs
<1>3. CASE has_database /\ \A i \in DOMAIN Entries : Len(Entries[i]) = 2
  <2> DEFINE name(i) == [last |-> Entries[i][1], first |-> Entries[i][2], path |-> NotSearched]
             names == [i \in 1..Len(Entries) |-> name(i)]
  <2>1. read = [ok |-> TRUE, names |-> names]
    BY <1>1, <1>3 DEF read, Loaded
  <2>2. ASSUME NEW i \in 1..Len(Entries)
        PROVE  /\ name(i) \in Students /\ <<name(i).last, name(i).first>> = Entries[i]
               /\ name(i).path = NotSearched
    <3>1. Entries[i] \in Seq(Names) /\ Len(Entries[i]) = 2
      BY <1>1, <1>3, ElementOfSeq DEF Line
    <3> DEFINE l == Entries[i]
    <3> HIDE DEF l
    <3>2. l \in Seq(Names) /\ Len(l) = 2
      BY <3>1 DEF l
    <3>3. l = <<l[1], l[2]>> /\ l[1] \in Names /\ l[2] \in Names
      BY <3>2, TwoElements
    <3>4. l[1] \in Seq(STRING) /\ l[2] \in Seq(STRING)
      BY <3>3, LinesAreLines
    <3>5. NotSearched \in Int
      BY DEF NotSearched
    <3>6. name(i) = [last |-> l[1], first |-> l[2], path |-> NotSearched]
      BY DEF l
    <3> HIDE DEF name
    <3> QED
      BY <3>3, <3>4, <3>5, <3>6 DEF Students, l
  <2>3. /\ names \in Seq(Students) /\ Len(names) = Len(Entries)
        /\ \A i \in 1..Len(Entries) : names[i] = name(i)
    <3> HIDE DEF name
    <3> QED
      BY <1>1, <2>2
  <2>4. read.ok = TRUE /\ read.names = names
    BY <2>1
  <2> HIDE DEF name, names
  <2> QED
    BY <1>1, <1>3, <2>2, <2>3, <2>4 DEF ReadAs
<1> QED
  BY <1>2, <1>3

\* The student of a file.
LEMMA InferredStudent ==
  ASSUME disk \in Seq(Entry), NEW i \in 1..Len(disk)
  PROVE  /\ infer_student_names_from_file(i) \in Students
         /\ infer_student_names_from_file(i).path = i /\ infer_student_names_from_file(i).last = <<>>
<1> DEFINE name == disk[i].name
           I == {k \in 1..Len(name) : name[k] \notin Letters}
           stop == IF I # {} THEN Min(I) ELSE 0
           first == IF stop = 0 THEN name ELSE SubSeq(name, 1, stop - 1)
<1>1. name \in Seq(STRING) /\ Len(name) \in Nat
  <2>1. \A e \in Entry : e.name \in Seq(STRING)
    BY NodesAssumption DEF Entry, FileNames
  <2>2. \A q \in Seq(STRING) : Len(q) \in Nat
    OBVIOUS
  <2>3. disk[i] \in Entry
    BY EntryAt
  <2> QED
    BY <2>1, <2>2, <2>3, Zenon
<1>2. infer_student_names_from_file(i) = [last |-> <<>>, path |-> i, first |-> first]
  BY DEF infer_student_names_from_file, SelectInSeq
<1>3. first \in Seq(STRING)
  <2> HIDE DEF name
  <2>1. I \in SUBSET (1..Len(name))
    OBVIOUS
  <2> HIDE DEF I
  <2>2. stop \in 0..Len(name)
    BY <1>1, <2>1, FirstOf
  <2> HIDE DEF stop
  <2>3. CASE stop = 0
    BY <1>1, <2>3
  <2>4. CASE stop # 0
    <3> DEFINE m == stop - 1
    <3>1. m \in Nat /\ m <= Len(name)
      BY <1>1, <2>2, <2>4
    <3> HIDE DEF m
    <3>2. \A k \in 1..m : name[k] \in STRING
      BY <1>1, <3>1
    <3>3. SubSeq(name, 1, m) \in Seq(STRING)
      BY <3>1, <3>2, SubSeqProperties
    <3> QED
      BY <2>4, <3>3 DEF m
  <2> QED
    BY <2>3, <2>4
<1> HIDE DEF first
<1>4. i \in Int /\ <<>> \in Seq(STRING)
  OBVIOUS
<1> QED
  BY <1>2, <1>3, <1>4 DEF Students

\* What is found for a student is 0 or one of the newest files.
LEMMA MostRecent ==
  ASSUME disk \in Seq(Entry), NEW files \in Seq(1..Len(disk)), NEW f \in most_recent(files)
  PROVE  f \in Range(files) /\ f \in 1..Len(disk) /\ \A j \in Range(files) : disk[j].time <= disk[f].time
<1>1. f \in Range(files) /\ \A j \in Range(files) : disk[j].time <= disk[f].time
  BY DEF most_recent
<1>2. Range(files) \subseteq 1..Len(disk)
  BY DEF Range
<1> QED
  BY <1>1, <1>2

\* Every step leaves the files, the lines and the students well-formed.
LEMMA InputsStep ==
  ASSUME Inputs, [Next]_vars
  PROVE  Inputs'
<1>1. disk \in Seq(Entry) /\ students \in Seq(Students) /\ database \in Seq(Lines)
  BY DEF Inputs
<1>2. ASSUME disk' \in Seq(Entry), students' \in Seq(Students), database' \in Seq(Lines) PROVE Inputs'
  BY <1>2 DEF Inputs
<1>3. ASSUME UNCHANGED <<disk, students, database>> PROVE Inputs'
  BY <1>1, <1>2, <1>3
<1>4. ASSUME NEW meta \in Registrations, RegisterTest(meta) PROVE Inputs'
  BY <1>3, <1>4 DEF RegisterTest
<1>5. CASE EnterMain
  BY <1>3, <1>5 DEF EnterMain
<1>6. ASSUME NEW arg \in Arguments, ParseArg(arg) PROVE Inputs'
  BY <1>3, <1>6 DEF ParseArg
<1>7. CASE ParsedAll
  BY <1>3, <1>7 DEF ParsedAll
<1>8. ASSUME NEW node \in Nodes, NEW depth \in 0..(SearchDepth + 1), PlaceEntry(node, depth) PROVE Inputs'
  <2> DEFINE entry == [depth |-> depth, kind |-> node.kind, name |-> node.name,
                       time |-> node.time, elf |-> node.elf, x |-> node.x]
  <2>1. disk' = Append(disk, entry) /\ UNCHANGED <<students, database>>
    BY <1>8 DEF PlaceEntry
  <2>2. entry \in Entry
    <3>1. depth \in Nat
      BY BoundsAssumption
    <3> QED
      BY <3>1, NodesAssumption DEF Entry, FileNames
  <2> HIDE DEF entry
  <2>3. disk' \in Seq(Entry)
    BY <1>1, <2>1, <2>2
  <2> QED
    BY <1>1, <1>2, <2>1, <2>3
<1>9. CASE Validate
  BY <1>3, <1>9 DEF Validate
<1>10. CASE StudentApp
  BY <1>3, <1>10 DEF StudentApp
<1>11. ASSUME NEW line \in Lines, WriteLine(line) PROVE Inputs'
  <2>2. database' = Append(database, line) /\ UNCHANGED <<disk, students>>
    BY <1>11 DEF WriteLine
  <2>3. database' \in Seq(Lines)
    BY <1>1, <2>2
  <2> QED
    BY <1>1, <1>2, <2>2, <2>3
<1>12. CASE ProfessorApp
  <2>1. students' = students \/ students' = read.names
    BY <1>12 DEF ProfessorApp
  <2>2. read.names \in Seq(Students)
    BY <1>1, ReadDef DEF ReadAs
  <2>3. UNCHANGED <<disk, database>>
    BY <1>12 DEF ProfessorApp
  <2> QED
    BY <1>1, <1>2, <2>1, <2>2, <2>3
<1>13. ASSUME NEW i \in DOMAIN students, FindAssignmentPath(i) PROVE Inputs'
  <2> DEFINE files == search_recursive(subst_args(name_tf(students[i].last), name_tf(students[i].first)))
  <2>1. /\ UNCHANGED <<disk, database>>
        /\ \/ students' = students
           \/ \E path \in IF files = <<>> THEN {0} ELSE most_recent(files) :
                students' = [students EXCEPT ![i].path = path]
    BY <1>13 DEF FindAssignmentPath
  <2>2. files \in Seq(1..Len(disk))
    BY <1>1, SearchExact
  <2> HIDE DEF files
  <2> SUFFICES ASSUME students' # students PROVE Inputs'
    BY <1>3, <2>1
  <2>3. PICK path \in IF files = <<>> THEN {0} ELSE most_recent(files) :
          students' = [students EXCEPT ![i].path = path]
    BY <2>1
  <2>4. path \in Int
    BY <1>1, <2>2, MostRecent
  <2>5. students' \in Seq(Students)
    <3>1. [students[i] EXCEPT !.path = path] \in Students
      <4>1. students[i] \in Students
        BY <1>1
      <4> QED
        BY <2>4, <4>1 DEF Students
    <3> QED
      BY <1>1, <2>3, <3>1
  <2> QED
    BY <1>1, <1>2, <2>1, <2>5
<1>14. CASE InferStudents
  <2> DEFINE files == search_recursive(subst_args(<<>>, AnyWord))
  <2>1. /\ UNCHANGED <<disk, database>>
        /\ \/ students' = students
           \/ students' = [i \in DOMAIN files |-> infer_student_names_from_file(files[i])]
    BY <1>14 DEF InferStudents
  <2>2. files \in Seq(1..Len(disk))
    BY <1>1, SearchExact
  <2> HIDE DEF files
  <2> SUFFICES ASSUME students' # students PROVE Inputs'
    BY <1>3, <2>1
  <2>3. DOMAIN files = 1..Len(files) /\ Len(files) \in Nat /\ \A i \in 1..Len(files) : files[i] \in 1..Len(disk)
    BY <2>2
  <2>4. \A i \in 1..Len(files) : infer_student_names_from_file(files[i]) \in Students
    BY <1>1, <2>3, InferredStudent
  <2>5. students' \in Seq(Students)
    BY <2>1, <2>3, <2>4
  <2> QED
    BY <1>1, <1>2, <2>1, <2>5
<1>15. CASE RunAllStudents
  BY <1>3, <1>15 DEF RunAllStudents
<1>16. CASE UNCHANGED vars
  BY <1>3, <1>16 DEF vars
<1> QED
  BY <1>4, <1>5, <1>6, <1>7, <1>8, <1>9, <1>10, <1>11, <1>12, <1>13, <1>14, <1>15, <1>16 DEF Next

----------------------------------------------------------------------------
(* What the steps keep *)

\* The searches depend on the files, the assignments and the one chosen only.
LEMMA SearchFrame ==
  ASSUME UNCHANGED <<disk, registered_assignments_, chosen>>
  PROVE  /\ \A s : FoundFor(s)' <=> FoundFor(s)
         /\ search_recursive(subst_args(<<>>, AnyWord))' = search_recursive(subst_args(<<>>, AnyWord))
         /\ \A i : infer_student_names_from_file(i)' = infer_student_names_from_file(i)
         /\ \A last, first : subst_args(last, first)' = subst_args(last, first)
<1>1. \A expr : search_recursive(expr)' = search_recursive(expr)
  BY DEF search_recursive, Walks, Walk, pop, Depth, does_match
<1>2. \A last, first : subst_args(last, first)' = subst_args(last, first)
  BY DEF subst_args
<1>3. \A files : most_recent(files)' = most_recent(files)
  BY DEF most_recent
<1>4. \A i : infer_student_names_from_file(i)' = infer_student_names_from_file(i)
  BY DEF infer_student_names_from_file, SelectInSeq
<1>5. \A s : FoundFor(s)' <=> FoundFor(s)
  BY <1>1, <1>2, <1>3 DEF FoundFor
<1> QED
  BY <1>1, <1>2, <1>4, <1>5

\* What is read depends on the database only.
LEMMA DatabaseFrame ==
  ASSUME UNCHANGED <<has_database, database>>
  PROVE  Entries' = Entries /\ read' = read
<1>1. Entries' = Entries
  BY DEF Entries, WithoutCR
<1>2. read' = read
  BY <1>1 DEF read, Loaded, NotLoaded, NotSearched
<1> QED
  BY <1>1, <1>2

\* The executables that could be meant depend on the files and the assignments only.
LEMMA InferableFrame ==
  ASSUME UNCHANGED <<disk, registered_assignments_>>
  PROVE  Inferable' = Inferable
BY DEF Inferable, Depth, get_assignment_by_pathname, SelectInSeq

\* All elements of a set of one are the same.
LEMMA OneElement ==
  ASSUME NEW S, IsFiniteSet(S), Cardinality(S) = 1, NEW x \in S
  PROVE  \A y \in S : y = x
<1>1. IsFiniteSet(S \ {x}) /\ Cardinality(S \ {x}) = Cardinality(S) - 1
  BY FS_RemoveElement
<1>2. S \ {x} = {}
  BY <1>1, FS_EmptySet
<1> QED
  BY <1>2

\* The assignment stays the one that was asked for.
LEMMA AskedStep ==
  ASSUME Registry, Commanded, Inputs, pc \in {"search", "infer", "grading"} => Asked, [Next]_vars
  PROVE  pc' \in {"search", "infer", "grading"} => Asked'
<1> DEFINE R == registered_assignments_
           Goal == pc' \in {"search", "infer", "grading"} => Asked'
<1>1. R \in Seq(Assignments) /\ \A a \in DOMAIN R : R[a].name # <<>>
  <2>1. R \in Seq(Assignments)
    BY DEF Registry
  <2>2. \A a \in DOMAIN R : R[a] \in Assignments
    BY <2>1
  <2> QED
    BY <2>1, <2>2 DEF Assignments
<1>2. ASSUME UNCHANGED <<disk, registered_assignments_, chosen, opts>>, pc \in {"search", "infer", "grading"}
      PROVE  Goal
  <2>1. Inferable' = Inferable
    BY <1>2, InferableFrame
  <2> QED
    BY <1>2, <2>1 DEF Asked
<1>3. ASSUME UNCHANGED <<registered_assignments_, opts>>, chosen' \in DOMAIN R,
             opts.assignment_name # <<>>, R[chosen'].name = opts.assignment_name
      PROVE  Goal
  BY <1>3 DEF Asked
<1>4. ASSUME NEW meta \in Registrations, RegisterTest(meta) PROVE Goal
  BY <1>4 DEF RegisterTest
<1>5. CASE EnterMain
  BY <1>5 DEF EnterMain
<1>6. ASSUME NEW arg \in Arguments, ParseArg(arg) PROVE Goal
  BY <1>6 DEF ParseArg
<1>7. CASE ParsedAll
  BY <1>7 DEF ParsedAll
<1>8. ASSUME NEW node \in Nodes, NEW depth \in 0..(SearchDepth + 1), PlaceEntry(node, depth) PROVE Goal
  BY <1>8 DEF PlaceEntry
<1>9. CASE Validate
  BY <1>9 DEF Validate
<1>10. CASE StudentApp
  <2>1. UNCHANGED <<disk, registered_assignments_, opts>>
    BY <1>10 DEF StudentApp
  <2>2. CASE opts.assignment_name # <<>>
    <3>1. chosen' = get_assignment(opts.assignment_name) /\ pc' = IF chosen' = 0 THEN "aborted" ELSE "grading"
      BY <1>10, <2>2 DEF StudentApp
    <3>2. CASE chosen' = 0
      BY <3>1, <3>2
    <3>3. CASE chosen' # 0
      <4>1. chosen' \in DOMAIN R /\ R[chosen'].name = opts.assignment_name
        BY <1>1, <3>1, <3>3, GetAssignment
      <4> QED
        BY <1>3, <2>1, <2>2, <4>1
    <3> QED
      BY <3>2, <3>3
  <2>3. CASE opts.assignment_name = <<>>
    <3>1. CASE Cardinality(Inferable) # 1
      BY <1>10, <2>3, <3>1 DEF StudentApp
    <3>2. CASE Cardinality(Inferable) = 1
      <4> DEFINE it == CHOOSE i \in Inferable : TRUE
      <4>1. chosen' = get_assignment_by_pathname(disk[it].name)
        BY <1>10, <2>3, <3>2 DEF StudentApp
      <4>2. IsFiniteSet(Inferable)
        <5>1. Inferable \subseteq 1..Len(disk) /\ Len(disk) \in Nat
          BY DEF Inferable, Inputs
        <5>2. IsFiniteSet(1..Len(disk))
          BY <5>1, FS_Interval
        <5> QED
          BY <5>1, <5>2, FS_Subset
      <4>3. Inferable # {}
        BY <3>2, FS_EmptySet
      <4>4. it \in Inferable
        BY <4>3
      <4>5. \A i \in Inferable : i = it
        <5> HIDE DEF it
        <5> QED
          BY <3>2, <4>2, <4>4, OneElement
      <4>6. get_assignment_by_pathname(disk[it].name) # 0
        BY <4>4 DEF Inferable
      <4> HIDE DEF it
      <4>7. chosen' \in DOMAIN R /\ R[chosen'].exec = disk[it].name
        BY <1>1, <4>1, <4>6, GetAssignmentByPathname
      <4>8. Inferable' = Inferable
        BY <2>1, InferableFrame
      <4> QED
        BY <2>1, <2>3, <4>5, <4>7, <4>8 DEF Asked
    <3> QED
      BY <3>1, <3>2
  <2> QED
    BY <2>2, <2>3
<1>11. ASSUME NEW line \in Lines, WriteLine(line) PROVE Goal
  BY <1>11 DEF WriteLine
<1>12. CASE ProfessorApp
  <2>1. /\ chosen' = get_assignment(opts.assignment_name)
        /\ UNCHANGED <<registered_assignments_, opts>>
        /\ chosen' = 0 => pc' = "aborted"
    BY <1>12 DEF ProfessorApp
  <2>2. CASE chosen' = 0
    BY <2>1, <2>2
  <2>3. CASE chosen' # 0
    <3>1. chosen' \in DOMAIN R /\ R[chosen'].name = opts.assignment_name
      BY <1>1, <2>1, <2>3, GetAssignment
    <3>2. opts.assignment_name # <<>>
      BY <1>1, <3>1
    <3> QED
      BY <1>3, <2>1, <3>1, <3>2
  <2> QED
    BY <2>2, <2>3
<1>13. ASSUME NEW i \in DOMAIN students, FindAssignmentPath(i) PROVE Goal
  BY <1>2, <1>13 DEF FindAssignmentPath
<1>14. CASE InferStudents
  BY <1>2, <1>14 DEF InferStudents
<1>15. CASE RunAllStudents
  BY <1>2, <1>15 DEF RunAllStudents
<1>16. CASE UNCHANGED vars
  BY <1>2, <1>16 DEF vars
<1> QED
  BY <1>4, <1>5, <1>6, <1>7, <1>8, <1>9, <1>10, <1>11, <1>12, <1>13, <1>14, <1>15, <1>16 DEF Next

\* The students and their files, as StartDiscipline has them.
Matched ==
  /\ pc = "infer" => students = <<>> /\ ~read.ok
  /\ pc = "search" \/ Grading => Listed
  /\ Grading => \A i \in DOMAIN students : students[i].path # NotSearched

\* The search for one more student.
LEMMA FoundStep ==
  ASSUME Inputs, Listed, NEW i \in DOMAIN students, FindAssignmentPath(i), pc' = "search"
  PROVE  Listed'
<1> DEFINE I == {k \in 1..Len(students) : students[k].path = NotSearched}
           files == search_recursive(subst_args(name_tf(students[i].last), name_tf(students[i].first)))
<1>1. students \in Seq(Students) /\ disk \in Seq(Entry) /\ DOMAIN students = 1..Len(students) /\ i # 0
  BY DEF Inputs
<1>2. students[i].path = NotSearched
  <2>1. i = IF I # {} THEN Min(I) ELSE 0
    BY DEF FindAssignmentPath, SelectInSeq
  <2>2. i \in I
    <3>1. I \in SUBSET (1..Len(students)) /\ Len(students) \in Nat
      BY <1>1
    <3> HIDE DEF I
    <3> QED
      BY <1>1, <2>1, <3>1, FirstOf
  <2> QED
    BY <2>2
<1>3. /\ UNCHANGED <<disk, registered_assignments_, chosen, has_database, database>>
      /\ \E path \in IF files = <<>> THEN {0} ELSE most_recent(files) :
           students' = [students EXCEPT ![i].path = path]
  BY DEF FindAssignmentPath
<1>4. files \in Seq(1..Len(disk))
  BY <1>1, SearchExact
<1>5. PICK path \in IF files = <<>> THEN {0} ELSE most_recent(files) :
        students' = [students EXCEPT ![i].path = path]
  <2> HIDE DEF files
  <2> QED
    BY <1>3
<1>6. /\ DOMAIN students' = DOMAIN students /\ Len(students') = Len(students)
      /\ students'[i] = [students[i] EXCEPT !.path = path]
      /\ \A k \in DOMAIN students : k # i => students'[k] = students[k]
  <2> HIDE DEF files
  <2> QED
    BY <1>1, <1>5
<1>7. students[i] \in Students
  BY <1>1
<1>8. students'[i].path = path /\ students'[i].last = students[i].last /\ students'[i].first = students[i].first
  BY <1>6, <1>7 DEF Students
<1>9. FoundFor(students'[i])
  <2>1. search_recursive(subst_args(name_tf(students'[i].last), name_tf(students'[i].first))) = files
    BY <1>8
  <2> HIDE DEF files
  <2>2. FoundFor(students'[i]) <=> IF files = <<>> THEN path = 0 ELSE path \in most_recent(files)
    BY <1>8, <2>1 DEF FoundFor
  <2> QED
    BY <2>2
<1>10. /\ Entries' = Entries /\ read' = read
       /\ \A s : FoundFor(s)' <=> FoundFor(s)
  BY <1>3, SearchFrame, DatabaseFrame
<1>11. CASE read.ok
  <2>1. /\ Len(students) = Len(Entries)
        /\ \A k \in DOMAIN students :
             /\ <<students[k].last, students[k].first>> = Entries[k]
             /\ students[k].path = NotSearched \/ FoundFor(students[k])
    BY <1>11 DEF Listed
  <2>2. ASSUME NEW k \in DOMAIN students'
        PROVE  /\ <<students'[k].last, students'[k].first>> = Entries[k]
               /\ students'[k].path = NotSearched \/ FoundFor(students'[k])
    <3>1. CASE k = i
      BY <1>6, <1>8, <1>9, <2>1, <3>1
    <3>2. CASE k # i
      BY <1>6, <2>1, <3>2
    <3> QED
      BY <3>1, <3>2
  <2> QED
    BY <1>6, <1>10, <1>11, <2>1, <2>2 DEF Listed
<1>12. CASE ~read.ok
  <2> DEFINE all == search_recursive(subst_args(<<>>, AnyWord))
  <2>2. students = [k \in DOMAIN all |-> infer_student_names_from_file(all[k])]
    BY <1>12 DEF Listed
  <2>3. all \in Seq(1..Len(disk))
    BY <1>1, SearchExact
  <2> HIDE DEF all
  <2>4. i \in DOMAIN all /\ all[i] \in 1..Len(disk) /\ students[i] = infer_student_names_from_file(all[i])
    BY <2>2, <2>3
  <2>5. students[i].path \in 1..Len(disk)
    BY <1>1, <2>4, InferredStudent
  <2> QED
    BY <1>2, <2>5 DEF NotSearched
<1> QED
  BY <1>11, <1>12

\* What is listed stays listed while nothing of it changes.
LEMMA ListedKept ==
  ASSUME Listed, UNCHANGED <<disk, registered_assignments_, chosen, has_database, database, students>>
  PROVE  Listed'
<1>1. /\ Entries' = Entries /\ read' = read
      /\ \A s : FoundFor(s)' <=> FoundFor(s)
      /\ search_recursive(subst_args(<<>>, AnyWord))' = search_recursive(subst_args(<<>>, AnyWord))
      /\ \A i : infer_student_names_from_file(i)' = infer_student_names_from_file(i)
  BY SearchFrame, DatabaseFrame
<1> QED
  BY <1>1 DEF Listed

\* Reading the database lists its students, or none.
LEMMA ReadStep ==
  ASSUME Inputs, ProfessorApp
  PROVE  /\ pc' = "search" => Listed'
         /\ pc' = "infer" => students' = <<>> /\ ~read'.ok
         /\ pc' # "grading"
<1>1. \/ pc' \notin {"search", "infer", "grading"}
      \/ pc' = (IF read.ok THEN "search" ELSE "infer") /\ students' = read.names
  BY DEF ProfessorApp
<1>2. ReadAs(read)
  BY ReadDef DEF Inputs
<1>3. Entries' = Entries /\ read' = read
  <2>1. UNCHANGED <<has_database, database>>
    BY DEF ProfessorApp
  <2> QED
    BY <2>1, DatabaseFrame
<1>4. ASSUME pc' = "search" PROVE Listed'
  <2>1. read.ok /\ students' = read.names
    BY <1>1, <1>4
  <2>2. /\ students' \in Seq(Students) /\ Len(students') = Len(Entries)
        /\ \A i \in 1..Len(Entries) : /\ <<students'[i].last, students'[i].first>> = Entries[i]
                                      /\ students'[i].path = NotSearched
    BY <1>2, <2>1 DEF ReadAs
  <2>3. DOMAIN students' = 1..Len(Entries)
    BY <2>2
  <2> QED
    BY <1>3, <2>1, <2>2, <2>3 DEF Listed, NotSearched
<1>5. ASSUME pc' = "infer" PROVE students' = <<>> /\ ~read'.ok
  BY <1>1, <1>2, <1>3, <1>5 DEF ReadAs
<1>6. pc' # "grading"
  BY <1>1
<1> QED
  BY <1>4, <1>5, <1>6

\* Every step keeps the students and their files as they are to be.
LEMMA MatchedStep ==
  ASSUME Commanded, Inputs, Matched, [Next]_vars
  PROVE  Matched'
<1>1. ASSUME pc' \notin {"search", "infer", "grading"} PROVE Matched'
  BY <1>1 DEF Matched, Grading
<1>2. ASSUME NEW meta \in Registrations, RegisterTest(meta) PROVE Matched'
  BY <1>1, <1>2 DEF RegisterTest
<1>3. CASE EnterMain
  BY <1>1, <1>3 DEF EnterMain
<1>4. ASSUME NEW arg \in Arguments, ParseArg(arg) PROVE Matched'
  BY <1>1, <1>4 DEF ParseArg
<1>5. CASE ParsedAll
  BY <1>1, <1>5 DEF ParsedAll
<1>6. ASSUME NEW node \in Nodes, NEW depth \in 0..(SearchDepth + 1), PlaceEntry(node, depth) PROVE Matched'
  BY <1>1, <1>6 DEF PlaceEntry
<1>7. CASE Validate
  BY <1>1, <1>7 DEF Validate
<1>8. CASE StudentApp
  <2>1. pc' \notin {"search", "infer"} /\ UNCHANGED <<mode, opts>> /\ pc = "student_app"
    BY <1>8 DEF StudentApp
  <2>2. ~Grading'
    BY <2>1 DEF Grading, Commanded
  <2> QED
    BY <2>1, <2>2 DEF Matched
<1>9. ASSUME NEW line \in Lines, WriteLine(line) PROVE Matched'
  BY <1>1, <1>9 DEF WriteLine
<1>10. CASE ProfessorApp
  BY <1>10, ReadStep DEF Matched, Grading
<1>11. ASSUME NEW i \in DOMAIN students, FindAssignmentPath(i) PROVE Matched'
  <2> SUFFICES ASSUME pc' = "search" PROVE Matched'
    BY <1>1, <1>11 DEF FindAssignmentPath
  <2>1. pc = "search" /\ pc' = "search"
    BY <1>11 DEF FindAssignmentPath
  <2>2. Listed'
    BY <1>11, <2>1, FoundStep DEF Matched
  <2> QED
    BY <2>1, <2>2 DEF Matched, Grading
<1>12. CASE InferStudents
  <2> DEFINE files == search_recursive(subst_args(<<>>, AnyWord))
  <2> SUFFICES ASSUME pc' = "search" PROVE Matched'
    BY <1>1, <1>12 DEF InferStudents
  <2>1. /\ pc = "infer" /\ pc' = "search"
        /\ UNCHANGED <<disk, registered_assignments_, chosen, has_database, database>>
        /\ students' = [i \in DOMAIN files |-> infer_student_names_from_file(files[i])]
    BY <1>12 DEF InferStudents
  <2>2. /\ ~read'.ok /\ search_recursive(subst_args(<<>>, AnyWord))' = files
        /\ \A i : infer_student_names_from_file(i)' = infer_student_names_from_file(i)
    BY <2>1, SearchFrame, DatabaseFrame DEF Matched
  <2> HIDE DEF files
  <2>3. Listed'
    BY <2>1, <2>2 DEF Listed
  <2> QED
    BY <2>1, <2>3 DEF Matched, Grading
<1>13. CASE RunAllStudents
  <2>1. /\ pc = "search" /\ pc' = "grading"
        /\ UNCHANGED <<disk, registered_assignments_, chosen, has_database, database, students>>
        /\ \A i \in DOMAIN students : students[i].path # NotSearched
    BY <1>13 DEF RunAllStudents
  <2>2. Listed'
    BY <2>1, ListedKept DEF Matched
  <2> QED
    BY <2>1, <2>2 DEF Matched, NotSearched
<1>14. CASE UNCHANGED vars
  <2>1. UNCHANGED <<mode, pc, opts, disk, registered_assignments_, chosen, has_database, database, students>>
    BY <1>14 DEF vars
  <2>2. Listed => Listed'
    BY <2>1, ListedKept
  <2>3. read' = read
    BY <2>1, DatabaseFrame
  <2> QED
    BY <2>1, <2>2, <2>3 DEF Matched, Grading, NotSearched
<1> QED
  BY <1>2, <1>3, <1>4, <1>5, <1>6, <1>7, <1>8, <1>9, <1>10, <1>11, <1>12, <1>13, <1>14 DEF Next

----------------------------------------------------------------------------
(* The inductive invariant *)

\* The program begins in good order.
LEMMA InitDiscipline == Init => StartDiscipline
<1> SUFFICES ASSUME Init PROVE StartDiscipline
  OBVIOUS
<1>1. Registry
  BY DEF Init, Registry, Range
<1>2. opts \in Options
  <2>1. <<>> \in Seq(STRING) /\ Summary \in Int
    BY DEF Summary
  <2> QED
    BY <2>1 DEF Init, Options
<1>3. Commanded
  BY <1>2 DEF Init, Commanded
<1>4. Inputs
  BY DEF Init, Inputs
<1> QED
  BY <1>1, <1>3, <1>4 DEF Init, StartDiscipline, Grading

\* And every step keeps it.
LEMMA StartDisciplineStep == StartDiscipline /\ [Next]_vars => StartDiscipline'
<1> SUFFICES ASSUME StartDiscipline, [Next]_vars PROVE StartDiscipline'
  OBVIOUS
<1>1. /\ Registry /\ Commanded /\ Inputs /\ Matched
      /\ pc \in {"search", "infer", "grading"} => Asked
  BY DEF StartDiscipline, Matched
<1>2. Registry'
  <2>1. ASSUME UNCHANGED <<declared, registered_assignments_>> PROVE Registry'
    BY <1>1, <2>1, RegistryIs, RegistryIsNext
  <2>2. ASSUME NEW meta \in Registrations, RegisterTest(meta) PROVE Registry'
    BY <1>1, <2>2, RegistryStep
  <2>3. CASE EnterMain
    BY <2>1, <2>3 DEF EnterMain
  <2>4. ASSUME NEW arg \in Arguments, ParseArg(arg) PROVE Registry'
    BY <2>1, <2>4 DEF ParseArg
  <2>5. CASE ParsedAll
    BY <2>1, <2>5 DEF ParsedAll
  <2>6. ASSUME NEW node \in Nodes, NEW depth \in 0..(SearchDepth + 1), PlaceEntry(node, depth) PROVE Registry'
    BY <2>1, <2>6 DEF PlaceEntry
  <2>7. CASE Validate
    BY <2>1, <2>7 DEF Validate
  <2>8. CASE StudentApp
    BY <2>1, <2>8 DEF StudentApp
  <2>9. ASSUME NEW line \in Lines, WriteLine(line) PROVE Registry'
    BY <2>1, <2>9 DEF WriteLine
  <2>10. CASE ProfessorApp
    BY <2>1, <2>10 DEF ProfessorApp
  <2>11. ASSUME NEW i \in DOMAIN students, FindAssignmentPath(i) PROVE Registry'
    BY <2>1, <2>11 DEF FindAssignmentPath
  <2>12. CASE InferStudents
    BY <2>1, <2>12 DEF InferStudents
  <2>13. CASE RunAllStudents
    BY <2>1, <2>13 DEF RunAllStudents
  <2>14. CASE UNCHANGED vars
    BY <2>1, <2>14 DEF vars
  <2> QED
    BY <2>2, <2>3, <2>4, <2>5, <2>6, <2>7, <2>8, <2>9, <2>10, <2>11, <2>12, <2>13, <2>14 DEF Next
<1>3. Commanded' /\ Inputs' /\ Matched'
  BY <1>1, CommandedStep, InputsStep, MatchedStep
<1>4. pc' \in {"search", "infer", "grading"} => Asked'
  BY <1>1, AskedStep
<1> QED
  BY <1>2, <1>3, <1>4 DEF StartDiscipline, Matched

(* The registry holds all tests of every assignment, a name that was given *)
(* is an assignment's, and the students have the files their names or the  *)
(* pattern find.                                                           *)
THEOREM StartDisciplineInvariant == Spec => []StartDiscipline
<1> QED
  BY InitDiscipline, StartDisciplineStep, PTL DEF Spec

----------------------------------------------------------------------------
(* Every student is graded on his own submission *)

\* An ascending sequence has as many elements as its range.
LEMMA AscendingCount ==
  ASSUME NEW n \in Nat, NEW q \in Seq(1..n), Ascending(q)
  PROVE  Cardinality(Range(q)) = Len(q)
<1>1. Len(q) \in Nat /\ DOMAIN q = 1..Len(q) /\ \A a \in 1..Len(q) : q[a] \in 1..n
  OBVIOUS
<1>2. \A a, b \in 1..Len(q) : q[a] = q[b] => a = b
  BY <1>1 DEF Ascending
<1>3. q \in Bijection(1..Len(q), Range(q))
  <2>1. q \in [1..Len(q) -> Range(q)]
    BY <1>1 DEF Range
  <2>2. \A x \in Range(q) : \E a \in 1..Len(q) : q[a] = x
    BY <1>1 DEF Range
  <2> QED
    BY <1>2, <2>1, <2>2 DEF Bijection, Injection, Surjection, IsInjective
<1>4. ExistsBijection(1..Len(q), Range(q))
  BY <1>3 DEF ExistsBijection
<1> QED
  BY <1>1, <1>4, FS_CountingElements

\* What membership in Seq says.
LEMMA SeqFacts ==
  ASSUME NEW S, NEW q \in Seq(S)
  PROVE  DOMAIN q = 1..Len(q) /\ Len(q) \in Nat /\ \A i \in 1..Len(q) : q[i] \in S
OBVIOUS

\* A function on 1..n is a sequence.
LEMMA FunctionIsSeq ==
  ASSUME NEW S, NEW n \in Nat, NEW q, q = [i \in 1..n |-> q[i]], \A i \in 1..n : q[i] \in S
  PROVE  q \in Seq(S) /\ Len(q) = n
OBVIOUS

\* The chosen executable is one of the registered ones.
LEMMA ChosenExecutable ==
  ASSUME Registry, Asked
  PROVE  \E meta \in Registrations : meta.exec = registered_assignments_[chosen].exec
<1> DEFINE a == registered_assignments_[chosen]
<1>1. a \in Range(registered_assignments_)
  BY DEF Asked, Range
<1>2. Pair(a) \in Range(declared) /\ declared \in Seq(Registrations)
  BY <1>1 DEF Registry
<1>3. Pair(a) \in Registrations /\ Pair(a).exec = a.exec
  BY <1>2 DEF Range, Pair
<1> QED
  BY <1>3

\* The files a pattern finds, in terms of the names it matches.
LEMMA HitsOf ==
  ASSUME disk \in Seq(Entry), NEW expr, NEW i
  PROVE  /\ i \in Hits(expr, Len(disk)) <=> i \in WithinReach /\ regex_match(expr, disk[i].name)
         /\ i \in WithinReach => disk[i].name \in FileNames
<1>1. DOMAIN disk = 1..Len(disk)
  OBVIOUS
<1>2. i \in 1..Len(disk) => disk[i] \in Entry
  BY EntryAt
<1>3. i \in 1..Len(disk) => disk[i].name \in FileNames
  BY <1>2 DEF Entry
<1> QED
  BY <1>1, <1>3 DEF Hits, WithinReach, does_match

\* A student of the database has a file at least as new as any of his own, and his own if no dot
\* matches another.
LEMMA NamedSubmission ==
  ASSUME Registry, Inputs, Asked, NEW s, FoundFor(s), s.last \in Names, s.first \in Names,
         NEW exec, exec = registered_assignments_[chosen].exec, Plain(exec), "." \in Range(exec),
         NEW who, who = name_tf(s.last) \o name_tf(s.first), Plain(who),
         NEW mine, mine = FilesOf(Submission(who, exec))
  PROVE  /\ \A f \in mine : s.path # 0 /\ disk[f].time <= disk[s.path].time
         /\ Exact(who \o base(exec)) => s.path \in mine \cup {0}
<1> DEFINE last == name_tf(s.last)
           first == name_tf(s.first)
           expr == Substituted(last, first, exec)
           files == search_recursive(expr)
           N == Len(disk)
<1>1. disk \in Seq(Entry) /\ N \in Nat
  BY DEF Inputs
<1>2. subst_args(last, first) = expr
  BY DEF subst_args
<1>3. PICK meta \in Registrations : meta.exec = exec
  BY ChosenExecutable
<1>4. last \in {name_tf(name) : name \in Names} /\ first \in {name_tf(name) : name \in Names}
  OBVIOUS
<1>5. who = last \o first
  OBVIOUS
<1> HIDE DEF last, first
<1>6. \A name \in FileNames :
        /\ name = Submission(who, exec) => regex_match(expr, name)
        /\ regex_match(expr, name) /\ Exact(who \o base(exec)) => name = Submission(who, exec)
  BY <1>3, <1>4, <1>5, RegexAssumption
<1>7. IF files = <<>> THEN s.path = 0 ELSE s.path \in most_recent(files)
  BY <1>2 DEF FoundFor, last, first
<1> HIDE DEF expr
<1>8. files \in Seq(1..N) /\ Range(files) = Hits(expr, N)
  BY <1>1, SearchExact
<1> HIDE DEF files
<1>9. mine \subseteq Range(files)
  BY <1>1, <1>6, <1>8, HitsOf, Zenon DEF FilesOf, N
<1>10. Exact(who \o base(exec)) => Range(files) \subseteq mine
  BY <1>1, <1>6, <1>8, HitsOf, Zenon DEF FilesOf, N
<1>11. files = <<>> => Range(files) = {}
  BY DEF Range
<1>12. CASE files = <<>>
  BY <1>7, <1>9, <1>11, <1>12
<1>13. CASE files # <<>>
  <2>1. s.path \in Range(files) /\ s.path \in 1..N /\ \A j \in Range(files) : disk[j].time <= disk[s.path].time
    BY <1>1, <1>7, <1>8, <1>13, MostRecent
  <2>2. s.path # 0
    BY <1>1, <2>1
  <2> QED
    BY <1>9, <1>10, <2>1, <2>2
<1> QED
  BY <1>12, <1>13

\* The files of everybody for an executable.
Submissions(exec) == {i \in WithinReach : OfSomebody(disk[i].name, exec)}

\* The students inferred from some files, and the files they have.
Inferred(files, listed, paths) ==
  /\ listed \in Seq(Students) /\ DOMAIN listed = DOMAIN files
  /\ \A i \in DOMAIN files : listed[i] = infer_student_names_from_file(files[i])
  /\ \A x : x \in paths <=> \E i \in DOMAIN listed : x = listed[i].path

\* Without a database every submission has one student.
LEMMA InferredSubmissions ==
  ASSUME Registry, Inputs, Asked,
         NEW exec, exec = registered_assignments_[chosen].exec, Plain(exec), "." \in Range(exec),
         NEW files, files = search_recursive(subst_args(<<>>, AnyWord)),
         NEW listed, NEW paths, Inferred(files, listed, paths)
  PROVE  /\ Len(listed) = Cardinality(paths)
         /\ Submissions(exec) \subseteq paths
         /\ Exact(base(exec)) => paths \subseteq Submissions(exec)
<1> DEFINE expr == Substituted(<<>>, AnyWord, exec)
           N == Len(disk)
<1>1. disk \in Seq(Entry) /\ N \in Nat
  BY DEF Inputs
<1>2. subst_args(<<>>, AnyWord) = expr
  BY DEF subst_args
<1>3. PICK meta \in Registrations : meta.exec = exec
  BY ChosenExecutable
<1>4. \A name \in FileNames :
        /\ OfSomebody(name, exec) => regex_match(expr, name)
        /\ regex_match(expr, name) /\ Exact(base(exec)) => OfSomebody(name, exec)
  BY <1>3, RegexAssumption
<1> HIDE DEF expr
<1>5. files \in Seq(1..N) /\ Ascending(files) /\ Range(files) = Hits(expr, N)
  BY <1>1, <1>2, SearchExact
<1>6. Submissions(exec) \subseteq Range(files)
  BY <1>1, <1>4, <1>5, HitsOf, Zenon DEF Submissions, N
<1>7. Exact(base(exec)) => Range(files) \subseteq Submissions(exec)
  BY <1>1, <1>4, <1>5, HitsOf, Zenon DEF Submissions, N
<1> HIDE DEF N
<1>8. /\ DOMAIN files = 1..Len(files) /\ Len(files) \in Nat /\ DOMAIN listed = 1..Len(files)
      /\ \A i \in 1..Len(files) : files[i] \in 1..N
      /\ \A i \in 1..Len(files) : listed[i] = infer_student_names_from_file(files[i])
  <2>1. DOMAIN files = 1..Len(files) /\ Len(files) \in Nat /\ \A i \in 1..Len(files) : files[i] \in 1..N
    BY <1>5, SeqFacts, Zenon
  <2> QED
    BY <2>1 DEF Inferred
<1>9. \A i \in 1..Len(files) : listed[i].path = files[i]
  BY <1>1, <1>8, InferredStudent DEF N
<1>10. Len(listed) = Len(files)
  <2>1. DOMAIN listed = 1..Len(listed) /\ Len(listed) \in Nat
    BY DEF Inferred
  <2> QED
    BY <1>8, <2>1
<1>11. paths = Range(files)
  <2>1. \A x : x \in paths <=> \E i \in 1..Len(files) : x = files[i]
    BY <1>8, <1>9 DEF Inferred
  <2>2. \A x : x \in Range(files) <=> \E i \in 1..Len(files) : x = files[i]
    BY <1>8 DEF Range
  <2>3. \A x : x \in paths <=> x \in Range(files)
    BY <2>1, <2>2, Zenon
  <2> QED
    BY <2>3
<1>12. Cardinality(Range(files)) = Len(files)
  BY <1>1, <1>5, AscendingCount
<1> QED
  BY <1>6, <1>7, <1>10, <1>11, <1>12

\* A database that is read gives its entries to the students.
LEMMA StudentNames ==
  ASSUME Inputs, Listed, read.ok, NEW i \in DOMAIN students
  PROVE  students[i].last \in Names /\ students[i].first \in Names
<1>1. Entries \in Seq(Line) /\ Len(students) = Len(Entries) /\ students \in Seq(Students)
  BY EntriesDef DEF Inputs, Listed
<1>2. <<students[i].last, students[i].first>> = Entries[i] /\ i \in 1..Len(Entries)
  BY <1>1 DEF Listed
<1>3. <<students[i].last, students[i].first>> \in Seq(Names)
  <2>1. Entries[i] \in Line
    BY <1>1, <1>2, ElementOfSeq
  <2> QED
    BY <1>2, <2>1 DEF Line
<1>4. /\ Len(<<students[i].last, students[i].first>>) = 2
      /\ <<students[i].last, students[i].first>>[1] = students[i].last
      /\ <<students[i].last, students[i].first>>[2] = students[i].first
  OBVIOUS
<1> QED
  BY <1>3, <1>4, TwoElements

(* assignment_file_searcher.cpp:36-78, file_searcher.cpp:35-72: when the   *)
(* submissions are graded, each student of the database whose name has no  *)
(* special characters has a file at least as new as any named after him,   *)
(* and no file named otherwise unless a dot matched it; without a database *)
(* the students are the submissions within reach, one each.                *)
THEOREM OwnSubmissionCorrect == Spec => []OwnSubmission
<1>1. StartDiscipline => OwnSubmission
  <2> SUFFICES ASSUME StartDiscipline, Grading, NEW exec, exec = registered_assignments_[chosen].exec,
                      Plain(exec), "." \in Range(exec)
               PROVE  IF read.ok
                      THEN \A i \in DOMAIN students :
                             LET s == students[i]
                                 who == name_tf(s.last) \o name_tf(s.first)
                                 mine == FilesOf(Submission(who, exec))
                             IN Plain(who) =>
                                  /\ \A f \in mine : s.path # 0 /\ disk[f].time <= disk[s.path].time
                                  /\ Exact(who \o base(exec)) => s.path \in mine \cup {0}
                      ELSE LET paths == {students[i].path : i \in DOMAIN students}
                           IN  /\ Len(students) = Cardinality(paths)
                               /\ Submissions(exec) \subseteq paths
                               /\ Exact(base(exec)) => paths \subseteq Submissions(exec)
    BY DEF OwnSubmission, Submissions
  <2>1. /\ Registry /\ Inputs /\ Asked /\ Listed
        /\ \A i \in DOMAIN students : students[i].path # NotSearched
    BY DEF StartDiscipline, Grading
  <2>2. CASE read.ok
    <3> SUFFICES ASSUME NEW i \in DOMAIN students, NEW who,
                        who = name_tf(students[i].last) \o name_tf(students[i].first), Plain(who),
                        NEW mine, mine = FilesOf(Submission(who, exec))
                 PROVE  /\ \A f \in mine : students[i].path # 0 /\ disk[f].time <= disk[students[i].path].time
                        /\ Exact(who \o base(exec)) => students[i].path \in mine \cup {0}
      BY <2>2
    <3>1. FoundFor(students[i])
      BY <2>1, <2>2 DEF Listed
    <3>2. students[i].last \in Names /\ students[i].first \in Names
      BY <2>1, <2>2, StudentNames
    <3>3. Registry /\ Inputs /\ Asked
      BY <2>1
    <3> DEFINE s == students[i]
    <3>4. /\ FoundFor(s) /\ s.last \in Names /\ s.first \in Names
          /\ who = name_tf(s.last) \o name_tf(s.first)
      BY <3>1, <3>2
    <3> HIDE DEF s
    <3>5. /\ \A f \in mine : s.path # 0 /\ disk[f].time <= disk[s.path].time
          /\ Exact(who \o base(exec)) => s.path \in mine \cup {0}
      BY <3>3, <3>4, NamedSubmission
    <3> QED
      BY <3>5 DEF s
  <2>3. CASE ~read.ok
    <3> DEFINE files == search_recursive(subst_args(<<>>, AnyWord))
    <3>1. students = [i \in DOMAIN files |-> infer_student_names_from_file(files[i])]
      BY <2>1, <2>3 DEF Listed
    <3> DEFINE paths == {students[i].path : i \in DOMAIN students}
    <3>2. Inferred(files, students, paths)
      <4>1. students \in Seq(Students)
        BY <2>1 DEF Inputs
      <4>2. \A x : x \in paths <=> \E i \in DOMAIN students : x = students[i].path
        OBVIOUS
      <4> HIDE DEF paths, files
      <4> QED
        BY <3>1, <4>1, <4>2 DEF Inferred
    <3>3. files = search_recursive(subst_args(<<>>, AnyWord))
      OBVIOUS
    <3> HIDE DEF files, paths
    <3>4. Registry /\ Inputs /\ Asked
      BY <2>1
    <3>5. /\ Len(students) = Cardinality(paths)
          /\ Submissions(exec) \subseteq paths
          /\ Exact(base(exec)) => paths \subseteq Submissions(exec)
      BY <3>2, <3>3, <3>4, InferredSubmissions
    <3> QED
      BY <2>3, <3>5 DEF paths
  <2> QED
    BY <2>2, <2>3
<1> QED
  BY <1>1, StartDisciplineInvariant, PTL

----------------------------------------------------------------------------
(* Grading starts as asked *)

\* The tests at some of the declared positions are those positions.
LEMMA PositionsOf ==
  ASSUME NEW d \in Seq(Registrations), NEW keep \in SUBSET DOMAIN d
  PROVE  Range(At([i \in DOMAIN d |-> i], keep)) = keep
<1> DEFINE ids == [i \in DOMAIN d |-> i]
           N == Len(d)
           p == At(ids, keep)
<1>1. N \in Nat /\ DOMAIN d = 1..N
  OBVIOUS
<1>2. ids \in Seq(Nat) /\ Len(ids) = N /\ \A i \in 1..N : ids[i] = i
  BY <1>1
<1> HIDE DEF ids
<1>3. p \in Seq(Nat) /\ Together(p, p, ids, ids, keep, N)
  BY <1>2, AtTogether
<1> HIDE DEF N, p
<1>4. DOMAIN p = 1..Len(p)
  BY <1>3
<1>5. ASSUME NEW x \in Range(p) PROVE x \in keep
  <2>1. PICK k \in 1..Len(p) : x = p[k]
    BY <1>4 DEF Range
  <2>2. PICK i \in 1..N : i \in keep /\ p[k] = ids[i]
    BY <1>3, Zenon DEF Together
  <2> QED
    BY <1>2, <2>1, <2>2
<1>6. ASSUME NEW i \in keep PROVE i \in Range(p)
  <2>1. i \in 1..N
    BY <1>1
  <2>2. PICK k \in 1..Len(p) : p[k] = ids[i]
    BY <1>3, <2>1, Zenon DEF Together
  <2> QED
    BY <1>2, <1>4, <2>1, <2>2 DEF Range
<1> QED
  BY <1>5, <1>6 DEF p, ids

\* The tests written for a name, in order.
WrittenFor(name) == At([i \in DOMAIN declared |-> i], {i \in DOMAIN declared : declared[i].name = name})

\* An assignment has all the tests written for its name, unless they name two executables.
LEMMA AllTests ==
  ASSUME Registry, NEW a \in Range(registered_assignments_)
  PROVE  /\ \A i \in Range(WrittenFor(a.name)) :
              \/ a.tests = WrittenFor(a.name)
              \/ \E j \in Range(WrittenFor(a.name)) : declared[j].exec # declared[i].exec
         /\ \A i \in Range(a.tests) : declared[i] = [name |-> a.name, exec |-> a.exec]
<1> DEFINE own == {i \in DOMAIN declared : declared[i] = Pair(a)}
           named == {i \in DOMAIN declared : declared[i].name = a.name}
           ids == [i \in DOMAIN declared |-> i]
           written == At(ids, named)
<1>1. declared \in Seq(Registrations) /\ Pair(a) \in Range(declared) /\ a.tests = At(ids, own)
  BY DEF Registry, Declared
<1>2. \A i \in DOMAIN declared : declared[i] = [name |-> declared[i].name, exec |-> declared[i].exec]
  <2>1. \A i \in DOMAIN declared : declared[i] \in Registrations
    BY <1>1
  <2> QED
    BY <2>1, RegistrationsAssumption
<1>3. Pair(a).name = a.name /\ Pair(a).exec = a.exec
  BY DEF Pair
<1>4. \A i \in DOMAIN declared : i \in own <=> declared[i].name = a.name /\ declared[i].exec = a.exec
  BY <1>2, <1>3 DEF Pair
<1>5. Range(written) = named /\ Range(a.tests) = own
  <2>1. named \in SUBSET DOMAIN declared /\ own \in SUBSET DOMAIN declared
    OBVIOUS
  <2> HIDE DEF own
  <2> QED
    BY <1>1, <2>1, PositionsOf
<1>6. ASSUME NEW i \in named, \A j \in named : declared[j].exec = declared[i].exec
      PROVE  a.tests = written
  <2>1. PICK k \in DOMAIN declared : declared[k] = Pair(a)
    BY <1>1 DEF Range
  <2>2. k \in named /\ declared[k].exec = a.exec
    BY <1>3, <2>1
  <2>3. \A j \in named : declared[j].exec = a.exec
    BY <1>6, <2>2
  <2>4. own = named
    BY <1>4, <2>3
  <2> QED
    BY <1>1, <2>4
<1>7. \A i \in own : declared[i] = [name |-> a.name, exec |-> a.exec]
  BY DEF Pair
<1>8. written = WrittenFor(a.name)
  BY DEF WrittenFor
<1> HIDE DEF own, ids, written
<1> QED
  BY <1>5, <1>6, <1>7, <1>8

\* An executable that a test is declared for has an assignment.
LEMMA ExecutableKnown ==
  ASSUME Registry, NEW d \in Range(declared)
  PROVE  get_assignment_by_pathname(d.exec) # 0
<1>1. PICK i \in DOMAIN declared : declared[i] = d
  BY DEF Range
<1>2. PICK a \in Range(registered_assignments_) : Pair(a) = d
  BY <1>1 DEF Registry
<1>3. PICK k \in DOMAIN registered_assignments_ : registered_assignments_[k] = a
  BY DEF Range
<1>4. registered_assignments_[k].exec = d.exec
  BY <1>2, <1>3 DEF Pair
<1>5. registered_assignments_ \in Seq(Assignments)
  BY DEF Registry
<1> QED
  BY <1>4, <1>5, GetAssignmentByPathname

\* The students are the lines with something on them, if these are names, or else come from files.
LEMMA StudentsAsWritten ==
  ASSUME Inputs, Listed
  PROVE  IF has_database /\ \A l \in Range(Written) : Len(l) = 2
         THEN /\ Len(students) = Len(Written)
              /\ \A i \in DOMAIN students :
                   <<students[i].last, students[i].first>> \in {Written[i], WithoutCR(Written[i])}
         ELSE \A i \in DOMAIN students : students[i].path > 0 /\ students[i].last = <<>>
<1>1. /\ Entries \in Seq(Line) /\ Written \in Seq(Lines) /\ Len(Entries) = Len(Written)
      /\ \A i \in 1..Len(Entries) : Entries[i] = WithoutCR(Written[i])
  BY EntriesDef DEF Inputs
<1>2. /\ DOMAIN Written = 1..Len(Written) /\ Len(Written) \in Nat
      /\ \A i \in 1..Len(Written) : Written[i] \in Lines
  BY <1>1, SeqFacts, Zenon
<1>3. \A i \in 1..Len(Written) : Len(Entries[i]) = Len(Written[i])
  BY <1>1, <1>2, WithoutCRDef
<1>4. /\ disk \in Seq(Entry) /\ database \in Seq(Lines)
      /\ DOMAIN students = 1..Len(students) /\ Len(students) \in Nat
  BY DEF Inputs
<1>5. read.ok <=> has_database /\ \A l \in Range(Written) : Len(l) = 2
  <2>1. read.ok <=> has_database /\ \A i \in 1..Len(Entries) : Len(Entries[i]) = 2
    BY <1>4, ReadDef DEF ReadAs
  <2>2. (\A l \in Range(Written) : Len(l) = 2) <=> \A i \in 1..Len(Written) : Len(Written[i]) = 2
    BY <1>2 DEF Range
  <2> QED
    BY <1>1, <1>3, <2>1, <2>2
<1>6. CASE read.ok
  <2>1. /\ Len(students) = Len(Entries)
        /\ \A i \in DOMAIN students : <<students[i].last, students[i].first>> = Entries[i]
    BY <1>6 DEF Listed
  <2>2. \A i \in DOMAIN students : <<students[i].last, students[i].first>> = WithoutCR(Written[i])
    BY <1>1, <1>4, <2>1
  <2> QED
    BY <1>1, <1>5, <1>6, <2>1, <2>2
<1>7. CASE ~read.ok
  <2> SUFFICES ASSUME NEW i \in DOMAIN students PROVE students[i].path > 0 /\ students[i].last = <<>>
    BY <1>5, <1>7
  <2> DEFINE files == search_recursive(subst_args(<<>>, AnyWord))
  <2>1. students = [k \in DOMAIN files |-> infer_student_names_from_file(files[k])]
    BY <1>7 DEF Listed
  <2>2. files \in Seq(1..Len(disk))
    BY <1>4, SearchExact
  <2> HIDE DEF files
  <2>3. i \in DOMAIN files /\ students[i] = infer_student_names_from_file(files[i])
    BY <2>1
  <2>4. files[i] \in 1..Len(disk)
    BY <2>2, <2>3
  <2>5. students[i].path = files[i] /\ students[i].last = <<>>
    BY <1>4, <2>3, <2>4, InferredStudent
  <2> QED
    BY <1>4, <2>4, <2>5
<1> QED
  BY <1>6, <1>7

(* auto_registrars.hpp:29, program_options.hpp:101, student_app.cpp:94,    *)
(* professor_app.cpp:35, database_reader.cpp:22: grading starts with the   *)
(* assignment asked for, all of its tests and the students of the          *)
(* database, and is aborted only where there is no assignment at all.      *)
THEOREM StartsAsAskedCorrect == Spec => []StartsAsAsked
<1>1. StartDiscipline => StartsAsAsked
  <2> SUFFICES ASSUME StartDiscipline PROVE StartsAsAsked
    OBVIOUS
  <2>1. Registry /\ Commanded /\ Inputs /\ (pc = "grading" => Asked)
    BY DEF StartDiscipline
  <2>2. pc = "aborted" => declared = <<>>
    BY <2>1 DEF Commanded
  <2> DEFINE a == registered_assignments_[chosen]
             written == WrittenFor(a.name)
  <2>3. ASSUME pc = "grading"
        PROVE  /\ IF opts.assignment_name # <<>> THEN a.name = opts.assignment_name
                  ELSE \A i \in DOMAIN disk :
                         /\ disk[i].kind = "file" /\ Depth(i) = 0 /\ disk[i].x
                         /\ \E d \in Range(declared) : d.exec = disk[i].name
                         => disk[i].name = a.exec
               /\ \A i \in Range(written) :
                    a.tests = written \/ \E j \in Range(written) : declared[j].exec # declared[i].exec
               /\ \A i \in Range(a.tests) : declared[i] = [name |-> a.name, exec |-> a.exec]
    <3>1. /\ chosen \in DOMAIN registered_assignments_
          /\ IF opts.assignment_name # <<>> THEN a.name = opts.assignment_name
             ELSE \A i \in Inferable : disk[i].name = a.exec
      BY <2>1, <2>3 DEF Asked
    <3>2. a \in Range(registered_assignments_)
      BY <2>3, <3>1 DEF Range
    <3>3. ASSUME NEW i \in DOMAIN disk, disk[i].kind = "file", Depth(i) = 0, disk[i].x,
                 \E d \in Range(declared) : d.exec = disk[i].name
          PROVE  i \in Inferable
      <4>1. PICK d \in Range(declared) : d.exec = disk[i].name
        BY <3>3
      <4>2. get_assignment_by_pathname(disk[i].name) # 0
        BY <2>1, <4>1, ExecutableKnown
      <4> QED
        BY <3>3, <4>2 DEF Inferable
    <3>4. /\ \A i \in Range(written) :
               a.tests = written \/ \E j \in Range(written) : declared[j].exec # declared[i].exec
          /\ \A i \in Range(a.tests) : declared[i] = [name |-> a.name, exec |-> a.exec]
      BY <2>1, <2>3, <3>2, AllTests
    <3> QED
      BY <3>1, <3>3, <3>4
  <2>4. ASSUME Grading
        PROVE  IF has_database /\ \A l \in Range(Written) : Len(l) = 2
               THEN /\ Len(students) = Len(Written)
                    /\ \A i \in DOMAIN students :
                         <<students[i].last, students[i].first>> \in {Written[i], WithoutCR(Written[i])}
               ELSE \A i \in DOMAIN students : students[i].path > 0 /\ students[i].last = <<>>
    BY <2>1, <2>4, StudentsAsWritten DEF StartDiscipline
  <2> QED
    BY <2>2, <2>3, <2>4 DEF StartsAsAsked, Written, WrittenFor
<1> QED
  BY <1>1, StartDisciplineInvariant, PTL
=============================================================================
